------------------------------- MODULE Boxes -------------------------------
(***************************************************************************)
(* The box commands of the outpost CLI: create, delete, stop, start,       *)
(* reboot, resize, rename, ls and import, run by several processes at once *)
(* against three stores that no lock ties together:                        *)
(*   - EC2 (the instances, their state, Name tag and public address),      *)
(*   - the instances table of the local SQLite database,                   *)
(*   - the "Host outpost-<name>" blocks of ~/.ssh/config.                  *)
(* A command is a sequence of steps; a step is one AWS call, one SQL       *)
(* statement or one ssh-config update, and any other process, AWS itself   *)
(* or the AWS console may act between two of them.                         *)
(*                                                                         *)
(* A box's private address never changes and is written here as its id.    *)
(* The ssh config is a map from box name to the address in its block; the  *)
(* file underneath it, with its read-modify-write, is not this module's    *)
(* subject.                                                                *)
(***************************************************************************)
EXTENDS Naturals, FiniteSets

CONSTANTS
  Ids,          \* EC2 instance ids
  Names,        \* box names
  Spaced,       \* the names that hold white space (no ssh block can carry them)
  Procs,        \* CLI processes
  Regions,      \* AWS regions
  RegionOf,     \* the region an instance id lives in
  Types,        \* instance types
  LaunchTypes,  \* those that instances are launched with
  Pubs,         \* AWS's pool of public addresses
  NoId, NoName, NoType, NoAddr, NoRow, NoInst,   \* "none" of each kind
  Commands,     \* the commands the user runs
  ConsoleOps,   \* what is done to instances outside the CLI
  MaxCommands,  \* bound: commands started, ls excepted
  MaxFaults     \* bound: commands cut short (killed, or a call that fails)

AllCommands == {"create", "delete", "stop", "start", "reboot", "resize", "rename", "ls", "import"}
AllConsoleOps == {"launch", "terminate", "stop", "start", "retag"}

ASSUME SetsAssumption ==
  /\ Spaced \subseteq Names
  /\ RegionOf \in [Ids -> Regions]
  /\ LaunchTypes \subseteq Types /\ NoType \notin Types
  /\ Commands \subseteq AllCommands
  /\ ConsoleOps \subseteq AllConsoleOps

ASSUME BoundsAssumption == MaxCommands \in Nat /\ MaxFaults \in Nat

VARIABLES
  ec2,      \* EC2: instance id -> what DescribeInstances answers for it
  db,       \* instances table: instance id -> its row, or NoRow
  ssh,      \* ~/.ssh/config: name -> HostName of the block outpost-<name>
  pc,       \* process -> the step its command takes next
  box,      \* process -> the instance id its command works on
  arg,      \* process -> the name given on the command line
  old,      \* process -> the record name its command read and kept
  todo,     \* process -> the rows ls has yet to reconcile / import to insert
  view,     \* process -> what AWS answered about each instance
  stray,    \* history: ids launched by others, or let go by a cut-short create
  started,  \* commands started so far
  faults    \* commands cut short so far

stores == <<ec2, db, ssh>>
locals == <<box, arg, old, todo, view>>
counts == <<stray, started, faults>>
vars == <<ec2, db, ssh, pc, box, arg, old, todo, view, stray, started, faults>>

-----------------------------------------------------------------------------
Live == {"pending", "running", "stopping", "stopped"}
Dead == {"terminated", "gone"}     \* "gone": no longer in any answer
Addrs == Pubs \cup Ids

Instance == [state : {"none"} \cup Live \cup Dead,
             tag : Names \cup {NoName},
             type : Types \cup {NoType},
             pub : Pubs \cup {NoAddr}]
Row == [name : Names,
        status : Live \cup {"terminated"},
        type : Types \cup {NoType},
        ip : Addrs \cup {NoAddr}]

ASSUME NonesAssumption ==
  /\ NoId \notin Ids
  /\ NoName \notin Names
  /\ NoAddr \notin Addrs
  /\ NoRow \notin Row
  /\ NoInst \notin Instance

Unborn == [state |-> "none", tag |-> NoName, type |-> NoType, pub |-> NoAddr]
Launched(n, t) == [state |-> "pending", tag |-> n, type |-> t, pub |-> NoAddr]

\* Instance.SSHHost and the ip the reconcilers store: public, else private.
Addr(i, v) ==
  IF v.state \notin Live THEN NoAddr ELSE IF v.pub # NoAddr THEN v.pub ELSE i

Tracked(i) == db[i] # NoRow
NameTaken(n) == \E j \in Ids : db[j] # NoRow /\ db[j].name = n
NameTakenByOther(n, i) == \E j \in Ids \ {i} : db[j] # NoRow /\ db[j].name = n

NoTodo == [i \in Ids |-> NoRow]
NoView == [i \in Ids |-> NoInst]

\* Mutant: an instance without a Name tag blanks the local name.
SyncedBlankName(row, i, v) ==
  [name |-> v.tag, status |-> v.state, type |-> v.type, ip |-> Addr(i, v)]

\* The row SyncInstanceFromAWS writes: an empty Name tag keeps the local name.
Synced(row, i, v) ==
  [name |-> IF v.tag = NoName THEN row.name ELSE v.tag,
   status |-> v.state,
   type |-> v.type,
   ip |-> Addr(i, v)]

\* Mutant: the status is left out of the comparison.
NeedsAWSSyncStatusless(row, i, v) == [Synced(row, i, v) EXCEPT !.status = row.status] # row

NeedsAWSSync(row, i, v) == Synced(row, i, v) # row

\* UNIQUE(user_id, name) refuses the update when another row has the tag's name.
\* A row deleted meanwhile is no error: the UPDATE just matches nothing.
SyncRefused(i, v) ==
  Tracked(i) /\ v.tag # NoName /\ NameTakenByOther(v.tag, i)

\* Mutant: an upsert where the code updates.
UpsertInstanceFromAWS(i, v) ==
  db' = [db EXCEPT ![i] = [name |-> IF v.tag = NoName /\ Tracked(i) THEN @.name ELSE v.tag,
                           status |-> v.state, type |-> v.type, ip |-> Addr(i, v)]]

SyncInstanceFromAWS(i, v) ==
  db' = IF Tracked(i) THEN [db EXCEPT ![i] = Synced(@, i, v)] ELSE db

-----------------------------------------------------------------------------
(* ~/.ssh/config *)

AddHost(n, a) ==
  ssh' = IF n \in Spaced \/ ssh[n] # NoAddr THEN ssh ELSE [ssh EXCEPT ![n] = a]

DeleteHost(n) == ssh' = [ssh EXCEPT ![n] = NoAddr]

RenameHost(o, n) ==
  ssh' = IF {o, n} \cap Spaced # {} \/ ssh[o] = NoAddr \/ ssh[n] # NoAddr
         THEN ssh
         ELSE [ssh EXCEPT ![n] = ssh[o], ![o] = NoAddr]

syncSSHHostIP(n, a) == ssh' = [ssh EXCEPT ![n] = a]

-----------------------------------------------------------------------------
(* Control: how a process moves between the steps of a command. *)

Steps == {"idle",
          "launch", "insert", "cleanup", "addHost",
          "terminate", "deleteHost", "deleteRow",
          "stop", "start", "reboot", "resize", "volume", "refresh", "sync", "syncHost",
          "tag", "setName", "renameHost",
          "ls", "lsDeleteHost", "lsSyncHost",
          "import", "importSync", "importHost"}

At(p, step) == pc[p] = step
Goto(p, step) == pc' = [pc EXCEPT ![p] = step]

\* The command returns, with or without an error: nothing of it survives.
Exit(p) ==
  /\ pc' = [pc EXCEPT ![p] = "idle"]
  /\ box' = [box EXCEPT ![p] = NoId]
  /\ arg' = [arg EXCEPT ![p] = NoName]
  /\ old' = [old EXCEPT ![p] = NoName]
  /\ todo' = [todo EXCEPT ![p] = NoTodo]
  /\ view' = [view EXCEPT ![p] = NoView]

Keep == UNCHANGED locals

\* The user starts command c. ls is not counted: it may be run at any time.
Begin(p, c) ==
  /\ At(p, "idle")
  /\ c \in Commands
  /\ started < MaxCommands
  /\ started' = started + 1
  /\ UNCHANGED <<ec2, db, ssh, stray, faults>>

-----------------------------------------------------------------------------
(* create: check the name, launch, insert the row, write the ssh block. *)

CreateBegin(p, n) ==
  /\ Begin(p, "create")
  /\ ~NameTaken(n)
  /\ Goto(p, "launch")
  /\ arg' = [arg EXCEPT ![p] = n]
  /\ UNCHANGED <<box, old, todo, view>>

\* Mutant: the launch carries no Name tag.
RunInstancesUntagged(p) ==
  /\ At(p, "launch")
  /\ \E i \in Ids :
       /\ ec2[i].state = "none"
       /\ \E t \in LaunchTypes : ec2' = [ec2 EXCEPT ![i] = Launched(NoName, t)]
       /\ Goto(p, "insert")
       /\ box' = [box EXCEPT ![p] = i]
       /\ UNCHANGED <<arg, old, todo, view>>
  /\ UNCHANGED <<db, ssh>> /\ UNCHANGED counts

\* AWS refuses the launch when it has no instance left to give (capacity, quota).
RunInstances(p) ==
  /\ At(p, "launch")
  /\ \/ \E i \in Ids :
          /\ ec2[i].state = "none"
          /\ \E t \in LaunchTypes : ec2' = [ec2 EXCEPT ![i] = Launched(arg[p], t)]
          /\ Goto(p, "insert")
          /\ box' = [box EXCEPT ![p] = i]
          /\ UNCHANGED <<arg, old, todo, view>>
     \/ /\ \A i \in Ids : ec2[i].state # "none"
        /\ Exit(p)
        /\ UNCHANGED ec2
  /\ UNCHANGED <<db, ssh>> /\ UNCHANGED counts

\* The row of an instance as RunInstances answered it: pending, no address yet.
NewRow(p) == [name |-> arg[p], status |-> "pending", type |-> ec2[box[p]].type, ip |-> NoAddr]

InsertRefused(p) == NameTaken(arg[p]) \/ Tracked(box[p])

\* Mutant: a refused row is reported, and the instance left running.
InsertInstanceOrReturn(p) ==
  /\ At(p, "insert")
  /\ \/ /\ ~InsertRefused(p)
        /\ db' = [db EXCEPT ![box[p]] = NewRow(p)]
        /\ Goto(p, "addHost") /\ Keep
     \/ InsertRefused(p) /\ Exit(p) /\ UNCHANGED db
  /\ UNCHANGED <<ec2, ssh>> /\ UNCHANGED counts

InsertInstance(p) ==
  /\ At(p, "insert")
  /\ \/ /\ ~InsertRefused(p)
        /\ db' = [db EXCEPT ![box[p]] = NewRow(p)]
        /\ Goto(p, "addHost")
     \/ /\ InsertRefused(p)
        /\ Goto(p, "cleanup")
        /\ UNCHANGED db
  /\ Keep /\ UNCHANGED <<ec2, ssh>> /\ UNCHANGED counts

\* The INSERT fails for another reason (database locked, disk full).
InsertFails(p) ==
  /\ At(p, "insert")
  /\ faults < MaxFaults
  /\ faults' = faults + 1
  /\ Goto(p, "cleanup")
  /\ Keep /\ UNCHANGED stores /\ UNCHANGED <<stray, started>>

\* AWS: terminating is idempotent until the instance is gone from every answer.
Terminated(v) ==
  IF v.state = "gone" THEN v
  ELSE [v EXCEPT !.state = "terminated", !.pub = NoAddr]

Cleanup(p) ==
  /\ At(p, "cleanup")
  /\ ec2' = [ec2 EXCEPT ![box[p]] = Terminated(@)]
  /\ Exit(p)
  /\ UNCHANGED <<db, ssh>> /\ UNCHANGED counts

\* RunInstances answers a pending instance: only the private address is known.
AddHostOrWarn(p) ==
  /\ At(p, "addHost")
  /\ AddHost(arg[p], box[p])
  /\ Exit(p)
  /\ UNCHANGED <<ec2, db>> /\ UNCHANGED counts

-----------------------------------------------------------------------------
(* delete: terminate, drop the ssh block, then drop the row. *)

DeleteBegin(p, i) ==
  /\ Begin(p, "delete")
  /\ Tracked(i)
  /\ Goto(p, "terminate")
  /\ box' = [box EXCEPT ![p] = i]
  /\ old' = [old EXCEPT ![p] = db[i].name]
  /\ UNCHANGED <<arg, todo, view>>

TerminateInstances(p) ==
  /\ At(p, "terminate")
  /\ \/ /\ ec2[box[p]].state # "gone"
        /\ ec2' = [ec2 EXCEPT ![box[p]] = Terminated(@)]
        /\ Goto(p, "deleteHost")
        /\ Keep
     \/ /\ ec2[box[p]].state = "gone"
        /\ Exit(p)
        /\ UNCHANGED ec2
  /\ UNCHANGED <<db, ssh>> /\ UNCHANGED counts

\* Mutant: a block that is already gone counts as an error.
DeleteBoxHostStrict(p) ==
  /\ At(p, "deleteHost")
  /\ \/ ssh[old[p]] # NoAddr /\ DeleteHost(old[p]) /\ Goto(p, "deleteRow") /\ Keep
     \/ ssh[old[p]] = NoAddr /\ Exit(p) /\ UNCHANGED ssh
  /\ UNCHANGED <<ec2, db>> /\ UNCHANGED counts

\* A name with white space fails validation and the command returns here.
DeleteBoxHost(p) ==
  /\ At(p, "deleteHost")
  /\ \/ old[p] \notin Spaced /\ DeleteHost(old[p]) /\ Goto(p, "deleteRow") /\ Keep
     \/ old[p] \in Spaced /\ Exit(p) /\ UNCHANGED ssh
  /\ UNCHANGED <<ec2, db>> /\ UNCHANGED counts

DeleteRow(p) ==
  /\ At(p, "deleteRow")
  /\ db' = [db EXCEPT ![box[p]] = NoRow]
  /\ Exit(p)
  /\ UNCHANGED <<ec2, ssh>> /\ UNCHANGED counts

-----------------------------------------------------------------------------
(* stop, start, reboot and resize: check ownership (and, but for stop, the  *)
(* state AWS reports), make the AWS call, then read the instance back and   *)
(* store what was read. Only start keeps the record's name and also writes  *)
(* the ssh block.                                                           *)

PowerBegin(p, c, i, states, step, name) ==
  /\ Begin(p, c)
  /\ Tracked(i)
  /\ ec2[i].state \in states
  /\ Goto(p, step)
  /\ box' = [box EXCEPT ![p] = i]
  /\ old' = [old EXCEPT ![p] = name]
  /\ UNCHANGED <<arg, todo, view>>

StopBegin(p, i) == PowerBegin(p, "stop", i, Live \cup Dead, "stop", NoName)
StartBegin(p, i) == PowerBegin(p, "start", i, {"stopped"}, "start", db[i].name)
RebootBegin(p, i) == PowerBegin(p, "reboot", i, {"running"}, "reboot", NoName)
ResizeBegin(p, i) == PowerBegin(p, "resize", i, {"stopped"}, "resize", NoName)

\* The AWS call: an instance in a state of "from" goes to state "to", one in a
\* state of "same" is left alone, and any other is an error that ends the command.
PowerCall(p, step, from, to, same) ==
  LET i == box[p] IN
  /\ At(p, step)
  /\ \/ /\ ec2[i].state \in from
        /\ ec2' = [ec2 EXCEPT ![i].state = to]
        /\ Goto(p, "refresh") /\ Keep
     \/ /\ ec2[i].state \in same
        /\ Goto(p, "refresh") /\ Keep
        /\ UNCHANGED ec2
     \/ /\ ec2[i].state \notin from \cup same
        /\ Exit(p)
        /\ UNCHANGED ec2
  /\ UNCHANGED <<db, ssh>> /\ UNCHANGED counts

StopInstances(p) == PowerCall(p, "stop", {"running"}, "stopping", {"stopping", "stopped"})
StartInstances(p) == PowerCall(p, "start", {"stopped"}, "pending", {"pending", "running"})
RebootInstances(p) == PowerCall(p, "reboot", {"running"}, "running", {})

\* The user has chosen meanwhile; the box must still be stopped, and both types of one
\* architecture. The type the user keeps is not sent.
ModifyType(p) ==
  /\ At(p, "resize")
  /\ \/ /\ ec2[box[p]].state = "stopped"
        /\ \E t \in Types : ec2' = [ec2 EXCEPT ![box[p]].type = t]
        /\ Goto(p, "volume") /\ Keep
     \/ Exit(p) /\ UNCHANGED ec2
  /\ UNCHANGED <<db, ssh>> /\ UNCHANGED counts

\* The volume comes last, for it cannot be taken back: it is left alone, or grows, or is
\* refused (smaller than it is, or modified too lately), which ends the command.
ModifyVolume(p) ==
  /\ At(p, "volume")
  /\ \/ Goto(p, "refresh") /\ Keep
     \/ Exit(p)
  /\ UNCHANGED stores /\ UNCHANGED counts

\* getInstanceFromAWS: an instance AWS no longer answers for is an error.
Refresh(p) ==
  /\ At(p, "refresh")
  /\ \/ /\ ec2[box[p]].state # "gone"
        /\ view' = [view EXCEPT ![p] = [NoView EXCEPT ![box[p]] = ec2[box[p]]]]
        /\ Goto(p, "sync")
        /\ UNCHANGED <<box, arg, old, todo>>
     \/ ec2[box[p]].state = "gone" /\ Exit(p)
  /\ UNCHANGED stores /\ UNCHANGED counts

SyncRow(p) ==
  LET i == box[p]
      v == view[p][i]
      hostNext == old[p] # NoName /\ Addr(i, v) # NoAddr
  IN
  /\ At(p, "sync")
  /\ \/ /\ ~SyncRefused(i, v)
        /\ SyncInstanceFromAWS(i, v)
        /\ \/ hostNext /\ Goto(p, "syncHost") /\ Keep
           \/ ~hostNext /\ Exit(p)
     \/ SyncRefused(i, v) /\ Exit(p) /\ UNCHANGED db
  /\ UNCHANGED <<ec2, ssh>> /\ UNCHANGED counts

SyncHost(p) ==
  /\ At(p, "syncHost")
  /\ \/ old[p] \notin Spaced /\ syncSSHHostIP(old[p], Addr(box[p], view[p][box[p]]))
     \/ old[p] \in Spaced /\ UNCHANGED ssh
  /\ Exit(p)
  /\ UNCHANGED <<ec2, db>> /\ UNCHANGED counts

-----------------------------------------------------------------------------
(* rename: check the name, tag the instance, update the row, then move the  *)
(* ssh block from the name first read.                                      *)

RenameBegin(p, i, n) ==
  /\ Begin(p, "rename")
  /\ Tracked(i)
  /\ ~NameTakenByOther(n, i)
  /\ Goto(p, "tag")
  /\ box' = [box EXCEPT ![p] = i]
  /\ arg' = [arg EXCEPT ![p] = n]
  /\ old' = [old EXCEPT ![p] = db[i].name]
  /\ UNCHANGED <<todo, view>>

CreateTags(p) ==
  /\ At(p, "tag")
  /\ \/ /\ ec2[box[p]].state # "gone"
        /\ ec2' = [ec2 EXCEPT ![box[p]].tag = arg[p]]
        /\ Goto(p, "setName") /\ Keep
     \/ ec2[box[p]].state = "gone" /\ Exit(p) /\ UNCHANGED ec2
  /\ UNCHANGED <<db, ssh>> /\ UNCHANGED counts

UpdateRefused(p) == ~Tracked(box[p]) \/ NameTakenByOther(arg[p], box[p])

UpdateInstanceName(p) ==
  /\ At(p, "setName")
  /\ \/ /\ ~UpdateRefused(p)
        /\ db' = [db EXCEPT ![box[p]].name = arg[p]]
        /\ Goto(p, "renameHost") /\ Keep
     \/ UpdateRefused(p) /\ Exit(p) /\ UNCHANGED db
  /\ UNCHANGED <<ec2, ssh>> /\ UNCHANGED counts

\* Mutant: a block is written for the new name and the old one stays.
RenameBoxHostCopies(p) ==
  /\ At(p, "renameHost")
  /\ AddHost(arg[p], ssh[old[p]])
  /\ Exit(p)
  /\ UNCHANGED <<ec2, db>> /\ UNCHANGED counts

RenameBoxHost(p) ==
  /\ At(p, "renameHost")
  /\ \/ old[p] # arg[p] /\ RenameHost(old[p], arg[p])
     \/ old[p] = arg[p] /\ UNCHANGED ssh
  /\ Exit(p)
  /\ UNCHANGED <<ec2, db>> /\ UNCHANGED counts

-----------------------------------------------------------------------------
(* ls: read the rows, ask AWS region by region, reconcile row by row.       *)

\* The rows left in "rest": go on with them at "step", or return when none is left.
Proceed(p, rest, step) ==
  \/ /\ rest # NoTodo
     /\ todo' = [todo EXCEPT ![p] = rest]
     /\ view' = [view EXCEPT ![p] =
                   [i \in Ids |-> IF rest[i] = NoRow THEN NoInst ELSE @[i]]]
     /\ Goto(p, step)
     /\ box' = [box EXCEPT ![p] = NoId]
     /\ old' = [old EXCEPT ![p] = NoName]
     /\ UNCHANGED arg
  \/ rest = NoTodo /\ Exit(p)

DoneWith(p, i, step) == Proceed(p, [todo[p] EXCEPT ![i] = NoRow], step)

LsBegin(p) ==
  /\ At(p, "idle")
  /\ "ls" \in Commands
  /\ \E i \in Ids : Tracked(i)
  /\ todo' = [todo EXCEPT ![p] = db]
  /\ Goto(p, "ls")
  /\ UNCHANGED <<box, arg, old, view>> /\ UNCHANGED stores /\ UNCHANGED counts

\* Mutant: only running instances are asked for.
LsDescribeRunning(p, r) ==
  LET asked == {i \in Ids : todo[p][i] # NoRow /\ RegionOf[i] = r} IN
  /\ At(p, "ls")
  /\ view[p] = NoView
  /\ asked # {}
  /\ view' = [view EXCEPT ![p] =
       [i \in Ids |-> IF i \notin asked THEN NoInst
                      ELSE IF ec2[i].state = "running" THEN ec2[i]
                      ELSE [ec2[i] EXCEPT !.state = "gone"]]]
  /\ UNCHANGED <<pc, box, arg, old, todo>> /\ UNCHANGED stores /\ UNCHANGED counts

LsDescribe(p, r) ==
  LET asked == {i \in Ids : todo[p][i] # NoRow /\ RegionOf[i] = r} IN
  /\ At(p, "ls")
  /\ view[p] = NoView
  /\ asked # {}
  /\ view' = [view EXCEPT ![p] = [i \in Ids |-> IF i \in asked THEN ec2[i] ELSE NoInst]]
  /\ UNCHANGED <<pc, box, arg, old, todo>> /\ UNCHANGED stores /\ UNCHANGED counts

\* The region cannot be reached: its rows are skipped, the other regions go on.
LsSkipRegion(p, r) ==
  /\ At(p, "ls")
  /\ view[p] = NoView
  /\ \E i \in Ids : todo[p][i] # NoRow /\ RegionOf[i] = r
  /\ faults < MaxFaults
  /\ faults' = faults + 1
  /\ Proceed(p, [i \in Ids |-> IF RegionOf[i] = r THEN NoRow ELSE todo[p][i]], "ls")
  /\ UNCHANGED stores /\ UNCHANGED <<stray, started>>

Described(p, i) == At(p, "ls") /\ view[p][i] # NoInst

\* AWS does not know the instance any more: drop the row, then the ssh block.
LsPrune(p, i) ==
  /\ Described(p, i)
  /\ view[p][i].state = "gone"
  /\ db' = [db EXCEPT ![i] = NoRow]
  /\ Goto(p, "lsDeleteHost")
  /\ box' = [box EXCEPT ![p] = i]
  /\ old' = [old EXCEPT ![p] = todo[p][i].name]
  /\ UNCHANGED <<ec2, ssh, arg, todo, view>> /\ UNCHANGED counts

LsDeleteHost(p) ==
  /\ At(p, "lsDeleteHost")
  /\ DeleteHost(old[p])
  /\ DoneWith(p, box[p], "ls")
  /\ UNCHANGED <<ec2, db>> /\ UNCHANGED counts

LsUnchanged(p, i) ==
  /\ Described(p, i)
  /\ view[p][i].state # "gone"
  /\ ~NeedsAWSSync(todo[p][i], i, view[p][i])
  /\ DoneWith(p, i, "ls")
  /\ UNCHANGED stores /\ UNCHANGED counts

\* Mutant: the row follows AWS and the ssh block does not.
LsSyncRowOnly(p, i) ==
  /\ Described(p, i)
  /\ view[p][i].state # "gone"
  /\ NeedsAWSSync(todo[p][i], i, view[p][i])
  /\ ~SyncRefused(i, view[p][i])
  /\ SyncInstanceFromAWS(i, view[p][i])
  /\ DoneWith(p, i, "ls")
  /\ UNCHANGED <<ec2, ssh>> /\ UNCHANGED counts

LsSync(p, i) ==
  /\ Described(p, i)
  /\ view[p][i].state # "gone"
  /\ NeedsAWSSync(todo[p][i], i, view[p][i])
  /\ ~SyncRefused(i, view[p][i])
  /\ SyncInstanceFromAWS(i, view[p][i])
  /\ \/ /\ Addr(i, view[p][i]) # NoAddr
        /\ Goto(p, "lsSyncHost")
        /\ box' = [box EXCEPT ![p] = i]
        /\ old' = [old EXCEPT ![p] = todo[p][i].name]
        /\ UNCHANGED <<arg, todo, view>>
     \/ Addr(i, view[p][i]) = NoAddr /\ DoneWith(p, i, "ls")
  /\ UNCHANGED <<ec2, ssh>> /\ UNCHANGED counts

\* The UPDATE breaks UNIQUE(user_id, name): ls returns the error, and no box.
LsRefused(p, i) ==
  /\ Described(p, i)
  /\ view[p][i].state # "gone"
  /\ NeedsAWSSync(todo[p][i], i, view[p][i])
  /\ SyncRefused(i, view[p][i])
  /\ Exit(p)
  /\ UNCHANGED stores /\ UNCHANGED counts

LsSyncHost(p) ==
  /\ At(p, "lsSyncHost")
  /\ \/ /\ old[p] \notin Spaced
        /\ syncSSHHostIP(old[p], Addr(box[p], view[p][box[p]]))
        /\ DoneWith(p, box[p], "ls")
     \/ old[p] \in Spaced /\ Exit(p) /\ UNCHANGED ssh
  /\ UNCHANGED <<ec2, db>> /\ UNCHANGED counts

-----------------------------------------------------------------------------
(* import: list the untracked live instances of the configured region and    *)
(* pick their names, then ask about each in turn and insert those wanted.    *)

\* uniqueImportName: the Name tag when it is free, else another free name.
ImportNames(cands, nm) ==
  /\ \A i \in cands : ~NameTaken(nm[i])
  /\ \A i, j \in cands : nm[i] = nm[j] => i = j
  /\ \A i \in cands :
       LET t == ec2[i].tag IN
       nm[i] = t \/ t = NoName \/ NameTaken(t) \/ \E j \in cands : nm[j] = t

ImportBegin(p, r) ==
  LET cands == {i \in Ids : ec2[i].state \in Live /\ ~Tracked(i) /\ RegionOf[i] = r} IN
  /\ Begin(p, "import")
  /\ cands # {}
  /\ \E nm \in [cands -> Names] :
       /\ ImportNames(cands, nm)
       /\ todo' = [todo EXCEPT ![p] =
            [i \in Ids |-> IF i \in cands
                           THEN [name |-> nm[i], status |-> ec2[i].state,
                                 type |-> ec2[i].type, ip |-> Addr(i, ec2[i])]
                           ELSE NoRow]]
  /\ Goto(p, "import")
  /\ UNCHANGED <<box, arg, old, view>>

ImportSkip(p, i) ==
  /\ At(p, "import")
  /\ todo[p][i] # NoRow
  /\ DoneWith(p, i, "import")
  /\ UNCHANGED stores /\ UNCHANGED counts

ImportInsert(p, i) ==
  LET row == todo[p][i] IN
  /\ At(p, "import")
  /\ row # NoRow
  /\ \/ /\ ~NameTaken(row.name) /\ ~Tracked(i)
        /\ db' = [db EXCEPT ![i] = [row EXCEPT !.ip = NoAddr]]
        /\ Goto(p, "importSync")
        /\ box' = [box EXCEPT ![p] = i]
        /\ UNCHANGED <<arg, old, todo, view>>
     \/ /\ NameTaken(row.name) \/ Tracked(i)
        /\ DoneWith(p, i, "import")
        /\ UNCHANGED db
  /\ UNCHANGED <<ec2, ssh>> /\ UNCHANGED counts

\* SyncInstanceFromAWS with the listed status and address and an empty name.
ImportSync(p) ==
  LET i == box[p] IN
  /\ At(p, "importSync")
  /\ db' = IF Tracked(i)
           THEN [db EXCEPT ![i].status = todo[p][i].status, ![i].type = todo[p][i].type,
                           ![i].ip = todo[p][i].ip]
           ELSE db
  /\ Goto(p, "importHost") /\ Keep
  /\ UNCHANGED <<ec2, ssh>> /\ UNCHANGED counts

ImportHost(p) ==
  /\ At(p, "importHost")
  /\ AddHost(todo[p][box[p]].name, todo[p][box[p]].ip)
  /\ DoneWith(p, box[p], "import")
  /\ UNCHANGED <<ec2, db>> /\ UNCHANGED counts

-----------------------------------------------------------------------------
(* A command cut short: the process is killed, or its next call fails, or     *)
(* the reply to its last one is lost. Nothing already done is undone.         *)

Holding == {"insert", "cleanup"}   \* create owns an instance no row names yet

Abort(p) ==
  /\ ~At(p, "idle")
  /\ faults < MaxFaults
  /\ faults' = faults + 1
  /\ stray' = stray \cup (IF pc[p] \in Holding THEN {box[p]} ELSE {})
  /\ Exit(p)
  /\ UNCHANGED stores /\ UNCHANGED started

-----------------------------------------------------------------------------
(* AWS on its own, and what is done to instances outside the CLI.            *)

External == UNCHANGED <<db, ssh, pc, started, faults>> /\ UNCHANGED locals

BecomeRunning(i) ==
  /\ ec2[i].state = "pending"
  /\ \E a \in Pubs :
       /\ \A j \in Ids : ec2[j].pub # a
       /\ ec2' = [ec2 EXCEPT ![i].state = "running", ![i].pub = a]
  /\ External /\ UNCHANGED stray

BecomeStopped(i) ==
  /\ ec2[i].state = "stopping"
  /\ ec2' = [ec2 EXCEPT ![i].state = "stopped", ![i].pub = NoAddr]
  /\ External /\ UNCHANGED stray

Vanish(i) ==
  /\ ec2[i].state = "terminated"
  /\ ec2' = [ec2 EXCEPT ![i].state = "gone"]
  /\ External /\ UNCHANGED stray

ConsoleLaunch(i, n) ==
  /\ "launch" \in ConsoleOps
  /\ ec2[i].state = "none"
  /\ \E t \in LaunchTypes : ec2' = [ec2 EXCEPT ![i] = Launched(n, t)]
  /\ stray' = stray \cup {i}
  /\ External

ConsoleTerminate(i) ==
  /\ "terminate" \in ConsoleOps
  /\ ec2[i].state \in Live
  /\ ec2' = [ec2 EXCEPT ![i] = Terminated(@)]
  /\ External /\ UNCHANGED stray

\* Also what the idle-stop timer on the box does, by shutting it down.
ConsoleStop(i) ==
  /\ "stop" \in ConsoleOps
  /\ ec2[i].state = "running"
  /\ ec2' = [ec2 EXCEPT ![i].state = "stopping"]
  /\ External /\ UNCHANGED stray

ConsoleStart(i) ==
  /\ "start" \in ConsoleOps
  /\ ec2[i].state = "stopped"
  /\ ec2' = [ec2 EXCEPT ![i].state = "pending"]
  /\ External /\ UNCHANGED stray

ConsoleRetag(i, t) ==
  /\ "retag" \in ConsoleOps
  /\ ec2[i].state \in Live
  /\ ec2' = [ec2 EXCEPT ![i].tag = t]
  /\ External /\ UNCHANGED stray

-----------------------------------------------------------------------------
Init ==
  /\ ec2 = [i \in Ids |-> Unborn]
  /\ db = NoTodo
  /\ ssh = [n \in Names |-> NoAddr]
  /\ pc = [p \in Procs |-> "idle"]
  /\ box = [p \in Procs |-> NoId]
  /\ arg = [p \in Procs |-> NoName]
  /\ old = [p \in Procs |-> NoName]
  /\ todo = [p \in Procs |-> NoTodo]
  /\ view = [p \in Procs |-> NoView]
  /\ stray = {}
  /\ started = 0
  /\ faults = 0

BeginCommand(p) ==
  \/ \E n \in Names : CreateBegin(p, n)
  \/ \E i \in Ids : DeleteBegin(p, i) \/ StopBegin(p, i) \/ StartBegin(p, i)
                    \/ RebootBegin(p, i) \/ ResizeBegin(p, i)
  \/ \E i \in Ids, n \in Names : RenameBegin(p, i, n)
  \/ \E r \in Regions : ImportBegin(p, r)

\* What a process does by itself once its command is under way.
Step(p) ==
  \/ RunInstances(p) \/ InsertInstance(p) \/ Cleanup(p) \/ AddHostOrWarn(p)
  \/ TerminateInstances(p) \/ DeleteBoxHost(p) \/ DeleteRow(p)
  \/ StopInstances(p) \/ StartInstances(p) \/ RebootInstances(p)
  \/ ModifyType(p) \/ ModifyVolume(p)
  \/ Refresh(p) \/ SyncRow(p) \/ SyncHost(p)
  \/ CreateTags(p) \/ UpdateInstanceName(p) \/ RenameBoxHost(p)
  \/ \E r \in Regions : LsDescribe(p, r)
  \/ \E i \in Ids : LsPrune(p, i) \/ LsUnchanged(p, i) \/ LsSync(p, i) \/ LsRefused(p, i)
  \/ LsDeleteHost(p) \/ LsSyncHost(p)
  \/ \E i \in Ids : ImportSkip(p, i) \/ ImportInsert(p, i)
  \/ ImportSync(p) \/ ImportHost(p)

Fault(p) ==
  \/ InsertFails(p) \/ Abort(p)
  \/ \E r \in Regions : LsSkipRegion(p, r)

AwsStep(i) == BecomeRunning(i) \/ BecomeStopped(i) \/ Vanish(i)

Console(i) ==
  \/ ConsoleTerminate(i) \/ ConsoleStop(i) \/ ConsoleStart(i)
  \/ \E t \in Names \cup {NoName} : ConsoleLaunch(i, t) \/ ConsoleRetag(i, t)

Next ==
  \/ \E p \in Procs : BeginCommand(p) \/ LsBegin(p) \/ Step(p) \/ Fault(p)
  \/ \E i \in Ids : AwsStep(i) \/ Console(i)

Spec == Init /\ [][Next]_vars

\* A command under way runs on, AWS finishes the transitions it announced, and
\* the user keeps running ls; nothing obliges the user to run anything else.
Fairness ==
  /\ \A p \in Procs : WF_vars(Step(p)) /\ WF_vars(LsBegin(p))
  /\ \A i \in Ids : WF_vars(AwsStep(i))

FairSpec == Spec /\ Fairness

=============================================================================
