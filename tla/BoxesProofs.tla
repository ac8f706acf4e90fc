---------------------------- MODULE BoxesProofs ----------------------------
(***************************************************************************)
(* What holds of Boxes for every set of ids, names, processes and regions  *)
(* and every bound.                                                        *)
(*                                                                         *)
(* The argument.  A process acts on what it read some steps ago, so the    *)
(* invariant says what a process may still rely on: Carries(p) ties what p *)
(* carries to the present state of EC2.  It survives what the others do    *)
(* because instances only age (Ages): unborn to live to dead to gone.      *)
(* From it every step of the commands is a step of the ledger, and the     *)
(* accounting of instances follows from the ledger alone.                  *)
(* The last two parts are about one command at a time: what it knows of    *)
(* names (Knows) keeps rows, Name tags and ssh blocks together.            *)
(***************************************************************************)
EXTENDS BoxProperties, TLAPS

\* The steps that work on one box, and those that use a name carried along.
Boxed == Steps \ {"idle", "launch", "ls", "import"}
Naming == {"launch", "insert", "addHost", "tag", "setName", "renameHost"}
Recalling == {"terminate", "deleteHost", "deleteRow", "tag", "setName", "renameHost",
              "lsDeleteHost", "lsSyncHost"}
Viewing == {"sync", "syncHost", "lsSyncHost"}

\* What p may rely on between two of its steps.
Carries(p) ==
  /\ pc[p] \in Boxed => box[p] \in Ids /\ ec2[box[p]].state # "none"
  /\ pc[p] \in Naming => arg[p] \in Names
  /\ pc[p] \in Recalling => old[p] \in Names
  /\ pc[p] = "syncHost" => old[p] \in Names
  /\ pc[p] \in {"deleteHost", "deleteRow"} => ec2[box[p]].state \in Dead
  /\ pc[p] \in Viewing => view[p][box[p]] # NoInst /\ view[p][box[p]].state # "gone"
  /\ pc[p] = "idle" => \A i \in Ids : view[p][i] = NoInst
  /\ pc[p] = "ls" => \A i \in Ids : view[p][i] # NoInst => todo[p][i] # NoRow
  /\ pc[p] \in {"importSync", "importHost"} => todo[p][box[p]] # NoRow
  /\ \A i \in Ids : todo[p][i] # NoRow => ec2[i].state # "none"
  /\ \A i \in Ids : view[p][i] # NoInst =>
       /\ view[p][i].state # "none"
       /\ view[p][i].state = "gone" => ec2[i].state = "gone"

Carried == \A p \in Procs : Carries(p)

\* Only instances that exist have rows.
RowsBorn == \A i \in Ids : Tracked(i) => ec2[i].state # "none"

\* No two creates answer for the same instance.
HoldersApart ==
  \A p, q \in Procs :
    pc[p] \in Holding /\ pc[q] \in Holding /\ box[p] = box[q] => p = q

IInv == TypeOK /\ Carried /\ RowsBorn /\ HoldersApart

\* An instance is never unborn again, nor a dead one alive, nor a gone one back.
Ages ==
  \A i \in Ids :
    /\ ec2[i].state # "none" => ec2'[i].state # "none"
    /\ ec2[i].state \in Dead => ec2'[i].state \in Dead
    /\ ec2[i].state = "gone" => ec2'[i].state = "gone"

-----------------------------------------------------------------------------
\* An address AWS answers is one of the set, or none.
LEMMA AddrType ==
  ASSUME NEW i \in Ids, NEW v \in Instance
  PROVE  Addr(i, v) \in Addrs \cup {NoAddr}
BY DEF Addr, Addrs, Instance

\* A launched instance is one, and pending.
LEMMA LaunchedType ==
  ASSUME NEW n \in Names \cup {NoName}, NEW t \in LaunchTypes
  PROVE  Launched(n, t) \in Instance /\ Launched(n, t).state = "pending"
BY SetsAssumption DEF Launched, Instance, Live

\* The row create inserts for the instance it has launched is a row.
LEMMA NewRowType ==
  ASSUME NEW p \in Procs, StoresOK, box[p] \in Ids, arg[p] \in Names
  PROVE  NewRow(p) \in Row
BY DEF NewRow, Row, StoresOK, Instance, Live

\* A row stays a row when an answer about its instance is written into it.
LEMMA SyncedType ==
  ASSUME NEW row \in Row, NEW i \in Ids, NEW v \in Instance,
         v.state \notin {"none", "gone"}
  PROVE  Synced(row, i, v) \in Row
BY AddrType DEF Synced, Row, Instance, Live, Dead

\* A sync changes no row's existence, and rows stay rows.
LEMMA SyncDb ==
  ASSUME TypeOK, NEW i \in Ids, NEW v \in Instance, v.state \notin {"none", "gone"},
         SyncInstanceFromAWS(i, v)
  PROVE  /\ db' \in [Ids -> Row \cup {NoRow}]
         /\ \A j \in Ids : (db'[j] # NoRow) <=> Tracked(j)
<1>1. CASE Tracked(i)
  <2>1. db[i] \in Row
    BY <1>1 DEF TypeOK, StoresOK, Tracked
  <2>2. Synced(db[i], i, v) \in Row
    BY <2>1, SyncedType
  <2>3. db' = [db EXCEPT ![i] = Synced(db[i], i, v)]
    BY <1>1 DEF SyncInstanceFromAWS
  <2> QED
    BY <1>1, <2>2, <2>3, NonesAssumption DEF TypeOK, StoresOK, Tracked
<1>2. CASE ~Tracked(i)
  BY <1>2 DEF SyncInstanceFromAWS, TypeOK, StoresOK, Tracked
<1> QED
  BY <1>1, <1>2

-----------------------------------------------------------------------------
\* The invariant holds before the first command.
LEMMA InitIInv == Init => IInv
<1> SUFFICES ASSUME Init PROVE IInv
  OBVIOUS
<1>1. TypeOK
  BY BoundsAssumption
  DEF Init, TypeOK, StoresOK, LocalsOK, CountsOK, NoTodo, NoView, Unborn, Instance, Steps
<1>2. Carried
  BY DEF Init, Carried, Carries, Boxed, Naming, Recalling, Viewing, Holding, NoTodo, NoView
<1>3. RowsBorn
  BY DEF Init, RowsBorn, Tracked, NoTodo
<1>4. HoldersApart
  BY DEF Init, HoldersApart, Holding
<1> QED
  BY <1>1, <1>2, <1>3, <1>4 DEF IInv

\* A command that returns leaves nothing behind.
LEMMA ExitSound ==
  ASSUME LocalsOK, NEW p \in Procs, Exit(p)
  PROVE  LocalsOK' /\ Carries(p)' /\ pc'[p] = "idle"
<1>1. LocalsOK'
  BY DEF LocalsOK, Exit, Steps, NoTodo, NoView
<1>2. pc'[p] = "idle" /\ todo'[p] = NoTodo /\ view'[p] = NoView
  BY DEF LocalsOK, Exit
<1> QED
  BY <1>1, <1>2 DEF Carries, Boxed, Naming, Recalling, Viewing, Holding, NoTodo, NoView

\* What ls and import carry from one row to the next.
LEMMA ProceedSound ==
  ASSUME LocalsOK, NEW p \in Procs, NEW rest \in [Ids -> Row \cup {NoRow}],
         NEW step \in {"ls", "import"}, Proceed(p, rest, step),
         Carries(p), Ages, \A i \in Ids : rest[i] # NoRow => todo[p][i] # NoRow
  PROVE  LocalsOK' /\ Carries(p)' /\ pc'[p] \in {"idle", "ls", "import"}
<1>1. CASE rest # NoTodo
  <2> DEFINE seen == [i \in Ids |-> IF rest[i] = NoRow THEN NoInst ELSE view[p][i]]
  <2>1. seen \in [Ids -> Instance \cup {NoInst}]
    BY DEF LocalsOK
  <2>2. /\ todo' = [todo EXCEPT ![p] = rest] /\ view' = [view EXCEPT ![p] = seen]
        /\ pc' = [pc EXCEPT ![p] = step] /\ box' = [box EXCEPT ![p] = NoId]
        /\ old' = [old EXCEPT ![p] = NoName] /\ arg' = arg
    BY <1>1 DEF Proceed, Goto, LocalsOK
  <2> HIDE DEF seen
  <2>3. LocalsOK'
    BY <2>1, <2>2 DEF LocalsOK, Steps
  <2>4. pc'[p] = step /\ todo'[p] = rest /\ view'[p] = seen
    BY <2>2 DEF LocalsOK
  <2>5. \A i \in Ids : todo'[p][i] # NoRow => ec2'[i].state # "none"
    BY <2>4 DEF Carries, Ages
  <2>6. \A i \in Ids : view'[p][i] # NoInst =>
          /\ view'[p][i].state # "none"
          /\ view'[p][i].state = "gone" => ec2'[i].state = "gone"
    BY <2>4 DEF Carries, Ages, seen
  <2>7. \A i \in Ids : view'[p][i] # NoInst => todo'[p][i] # NoRow
    BY <2>4 DEF seen
  <2> QED
    BY <2>3, <2>4, <2>5, <2>6, <2>7 DEF Carries, Boxed, Naming, Recalling, Viewing, Holding
<1>2. CASE rest = NoTodo
  BY <1>2, ExitSound DEF Proceed
<1> QED
  BY <1>1, <1>2

\* ls and import keep what they carry when a row is done with, the last one too.
LEMMA DoneSound ==
  ASSUME LocalsOK, NEW p \in Procs, NEW i \in Ids, NEW step \in {"ls", "import"},
         DoneWith(p, i, step), Carries(p), Ages
  PROVE  LocalsOK' /\ Carries(p)' /\ pc'[p] \in {"idle", "ls", "import"}
<1> DEFINE rest == [todo[p] EXCEPT ![i] = NoRow]
<1>1. rest \in [Ids -> Row \cup {NoRow}]
  BY DEF LocalsOK
<1>2. \A j \in Ids : rest[j] # NoRow => todo[p][j] # NoRow
  BY DEF LocalsOK
<1>3. Proceed(p, rest, step)
  BY DEF DoneWith
<1> QED
  BY <1>1, <1>2, <1>3, ProceedSound

\* The answer a sync acts upon names an instance AWS knows.
LEMMA Viewed ==
  ASSUME TypeOK, NEW p \in Procs, Carries(p), pc[p] \in Viewing
  PROVE  /\ box[p] \in Ids
         /\ view[p][box[p]] \in Instance
         /\ view[p][box[p]].state \notin {"none", "gone"}
         /\ Addr(box[p], view[p][box[p]]) \in Addrs \cup {NoAddr}
<1>1. box[p] \in Ids
  BY DEF Carries, Viewing, Boxed, Steps
<1>2. view[p][box[p]] \in Instance
  BY <1>1 DEF TypeOK, LocalsOK, Carries
<1> QED
  BY <1>1, <1>2, AddrType DEF Carries

\* The updates of ~/.ssh/config keep it a map from names to addresses.
LEMMA HostType ==
  ASSUME StoresOK, NEW n \in Names, NEW m \in Names, NEW a \in Addrs \cup {NoAddr},
         \/ AddHost(n, a) \/ DeleteHost(n) \/ syncSSHHostIP(n, a) \/ RenameHost(m, n)
  PROVE  ssh' \in [Names -> Addrs \cup {NoAddr}]
<1>1. CASE AddHost(n, a)
  BY <1>1 DEF StoresOK, AddHost
<1>2. CASE DeleteHost(n)
  BY <1>2 DEF StoresOK, DeleteHost
<1>3. CASE syncSSHHostIP(n, a)
  BY <1>3 DEF StoresOK, syncSSHHostIP
<1>4. CASE RenameHost(m, n)
  BY <1>4 DEF StoresOK, RenameHost
<1> QED
  BY <1>1, <1>2, <1>3, <1>4

\* The stage of an instance on the ledger, from its state.
LEMMA StageValue ==
  \A s \in {"none"} \cup Live \cup Dead :
    /\ s = "none" <=> Stage(s) = "unborn"
    /\ s \in Live <=> Stage(s) = "live"
    /\ s \in Dead <=> Stage(s) = "dead"
BY DEF Stage, Live, Dead

\* One instance changes, and not backwards.
LEMMA OneInstance ==
  ASSUME StoresOK, NEW i \in Ids, NEW v \in Instance, ec2' = [ec2 EXCEPT ![i] = v],
         v.state # "none",
         ec2[i].state \in Dead => v.state \in Dead,
         ec2[i].state = "gone" => v.state = "gone"
  PROVE  /\ Ages /\ ec2' \in [Ids -> Instance]
         /\ ec2'[i] = v /\ \A j \in Ids \ {i} : ec2'[j] = ec2[j]
BY DEF Ages, StoresOK

\* Where no instance changes, none gets younger.
LEMMA SameInstances == ASSUME ec2' = ec2 PROVE Ages
BY DEF Ages

\* Terminating makes an instance dead, and leaves one that is gone as it is.
LEMMA TerminatedType ==
  ASSUME NEW v \in Instance
  PROVE  /\ Terminated(v) \in Instance /\ Terminated(v).state \in Dead
         /\ v.state = "gone" => Terminated(v) = v
BY DEF Terminated, Instance, Dead

-----------------------------------------------------------------------------
\* A step of p leaves what the other processes carry alone.
Others(p) ==
  \A q \in Procs \ {p} :
    /\ pc'[q] = pc[q] /\ box'[q] = box[q] /\ arg'[q] = arg[q]
    /\ old'[q] = old[q] /\ todo'[q] = todo[q] /\ view'[q] = view[q]

\* What every step of p preserves.
Sound(p) == TypeOK' /\ Others(p) /\ Carries(p)' /\ Ages

\* A step of p that moves nothing on the ledger.
SameHolding(p) ==
  /\ pc'[p] \in Holding <=> pc[p] \in Holding
  /\ pc'[p] \in Holding => box'[p] = box[p]

Quiet(p) ==
  /\ \A i \in Ids : Stage(ec2'[i].state) = Stage(ec2[i].state)
  /\ \A i \in Ids : (db'[i] # NoRow) <=> (db[i] # NoRow)
  /\ SameHolding(p)
  /\ stray' = stray

\* A command that starts: nothing outside the process changes but the counter.
LEMMA BeginSound ==
  ASSUME IInv, NEW p \in Procs, NEW c, Begin(p, c), pc'[p] \notin Holding
  PROVE  StoresOK' /\ CountsOK' /\ Ages /\ Quiet(p)
<1>1. /\ ec2' = ec2 /\ db' = db /\ ssh' = ssh /\ stray' = stray /\ faults' = faults
      /\ started' = started + 1 /\ started < MaxCommands /\ pc[p] = "idle"
  BY DEF Begin, At
<1>2. StoresOK' /\ CountsOK'
  BY <1>1, BoundsAssumption DEF IInv, TypeOK, StoresOK, CountsOK
<1>3. Quiet(p)
  BY <1>1 DEF Quiet, SameHolding, Holding
<1> QED
  BY <1>1, <1>2, <1>3 DEF Ages

\* Each step of create keeps the types and what it carries; the quiet ones move nothing on
\* the ledger.
LEMMA CreateSteps ==
  ASSUME IInv, NEW p \in Procs
  PROVE  /\ \A n \in Names : CreateBegin(p, n) => Sound(p) /\ Quiet(p)
         /\ RunInstances(p) => Sound(p)
         /\ InsertInstance(p) => Sound(p)
         /\ InsertFails(p) => Sound(p) /\ Quiet(p)
         /\ Cleanup(p) => Sound(p)
         /\ AddHostOrWarn(p) => Sound(p) /\ Quiet(p)
<1> USE DEF IInv, TypeOK
<1>c. Carries(p)
  BY DEF Carried
<1>1. ASSUME NEW n \in Names, CreateBegin(p, n) PROVE Sound(p) /\ Quiet(p)
  <2>1. /\ pc' = [pc EXCEPT ![p] = "launch"] /\ arg' = [arg EXCEPT ![p] = n]
        /\ UNCHANGED <<box, old, todo, view>>
    BY <1>1 DEF CreateBegin, Goto
  <2>2. LocalsOK' /\ Others(p)
    BY <2>1 DEF LocalsOK, Others, Steps
  <2>3. StoresOK' /\ CountsOK' /\ Ages /\ Quiet(p)
    BY <1>1, <2>1, BeginSound DEF CreateBegin, LocalsOK, Holding
  <2>4. Carries(p)'
    BY <1>c, <2>1, <2>3 DEF Carries, Ages, LocalsOK, Boxed, Naming, Recalling, Viewing, Holding
  <2> QED
    BY <2>2, <2>3, <2>4 DEF Sound
<1>2. ASSUME RunInstances(p) PROVE Sound(p)
  <2>1. CASE Exit(p) /\ UNCHANGED <<ec2, db, ssh>> /\ UNCHANGED counts
    BY <1>c, <2>1, ExitSound, SameInstances
    DEF Sound, Others, Exit, LocalsOK, StoresOK, CountsOK, counts
  <2>2. ASSUME NEW i \in Ids, NEW t \in LaunchTypes, ec2[i].state = "none",
               ec2' = [ec2 EXCEPT ![i] = Launched(arg[p], t)],
               Goto(p, "insert"), box' = [box EXCEPT ![p] = i],
               UNCHANGED <<arg, old, todo, view>>, UNCHANGED <<db, ssh>>, UNCHANGED counts
        PROVE  Sound(p)
    <3>1. Launched(arg[p], t) \in Instance /\ Launched(arg[p], t).state = "pending"
      BY LaunchedType DEF LocalsOK
    <3>2. Ages /\ ec2' \in [Ids -> Instance] /\ ec2'[i].state = "pending"
      BY <2>2, <3>1, OneInstance DEF Dead
    <3>3. TypeOK' /\ Others(p)
      BY <2>2, <3>2 DEF StoresOK, LocalsOK, CountsOK, counts, Others, Goto, Steps
    <3>4. pc'[p] = "insert" /\ box'[p] = i
      BY <2>2 DEF LocalsOK, Goto
    <3>5. arg[p] \in Names
      BY <1>c, <1>2 DEF RunInstances, At, Carries, Naming
    <3>6. Carries(p)'
      BY <1>c, <2>2, <3>2, <3>4, <3>5
      DEF Carries, Ages, Boxed, Steps, Naming, Recalling, Viewing, Holding
    <3> QED
      BY <3>2, <3>3, <3>6 DEF Sound
  <2> QED
    BY <1>2, <2>1, <2>2 DEF RunInstances
<1>3. ASSUME InsertInstance(p) PROVE Sound(p)
  <2>1. /\ pc[p] = "insert" /\ box[p] \in Ids /\ arg[p] \in Names
    BY <1>c, <1>3 DEF InsertInstance, At, Carries, Boxed, Naming, Steps
  <2>2. StoresOK' /\ Ages
    BY <1>3, <2>1, NewRowType DEF InsertInstance, StoresOK, Ages
  <2>3. LocalsOK' /\ Others(p) /\ CountsOK' /\ pc'[p] \in {"addHost", "cleanup"}
    BY <1>3 DEF InsertInstance, Goto, Keep, locals, counts, LocalsOK, Others, CountsOK, Steps
  <2>4. UNCHANGED locals
    BY <1>3 DEF InsertInstance, Keep
  <2>5. Carries(p)'
    BY <1>c, <2>1, <2>2, <2>3, <2>4
    DEF Carries, Ages, locals, Boxed, Naming, Recalling, Viewing, Holding, Steps
  <2> QED
    BY <2>2, <2>3, <2>5 DEF Sound
<1>4. ASSUME InsertFails(p) PROVE Sound(p) /\ Quiet(p)
  <2>1. /\ pc[p] = "insert" /\ pc' = [pc EXCEPT ![p] = "cleanup"]
        /\ UNCHANGED locals /\ UNCHANGED stores /\ UNCHANGED <<stray, started>>
        /\ faults < MaxFaults /\ faults' = faults + 1
    BY <1>4 DEF InsertFails, At, Goto, Keep
  <2>2. TypeOK' /\ Others(p) /\ pc'[p] = "cleanup"
    BY <2>1, BoundsAssumption DEF StoresOK, LocalsOK, CountsOK, locals, stores, Others, Steps
  <2>3. Ages /\ Quiet(p)
    BY <2>1, <2>2 DEF Ages, Quiet, SameHolding, stores, locals, Holding
  <2>4. Carries(p)'
    BY <1>c, <2>1, <2>2 DEF Carries, locals, stores, Boxed, Naming, Recalling, Viewing, Holding, Steps
  <2> QED
    BY <2>2, <2>3, <2>4 DEF Sound
<1>5. ASSUME Cleanup(p) PROVE Sound(p)
  <2>1. box[p] \in Ids /\ ec2[box[p]].state # "none" /\ ec2[box[p]] \in Instance
    BY <1>c, <1>5 DEF Cleanup, At, Carries, Boxed, Holding, Steps, StoresOK
  <2>2. Ages /\ ec2' \in [Ids -> Instance]
    <3>1. Terminated(ec2[box[p]]).state # "none"
      BY <2>1, TerminatedType DEF Dead
    <3> QED
      BY <1>5, <2>1, <3>1, TerminatedType, OneInstance DEF Cleanup
  <2>3. LocalsOK' /\ Carries(p)'
    BY <1>5, ExitSound DEF Cleanup
  <2>4. StoresOK' /\ CountsOK' /\ Others(p)
    BY <1>5, <2>2 DEF Cleanup, StoresOK, CountsOK, counts, Others, Exit, LocalsOK
  <2> QED
    BY <2>2, <2>3, <2>4 DEF Sound
<1>6. ASSUME AddHostOrWarn(p) PROVE Sound(p) /\ Quiet(p)
  <2>1. pc[p] = "addHost" /\ box[p] \in Addrs \cup {NoAddr} /\ arg[p] \in Names
    BY <1>c, <1>6 DEF AddHostOrWarn, At, Carries, Boxed, Naming, Steps, Addrs
  <2>2. StoresOK' /\ CountsOK' /\ Others(p)
    BY <1>6, <2>1, HostType DEF AddHostOrWarn, StoresOK, CountsOK, counts, Others, Exit, LocalsOK
  <2>3. LocalsOK' /\ Carries(p)' /\ pc'[p] = "idle"
    BY <1>6, ExitSound DEF AddHostOrWarn
  <2>4. Ages /\ Quiet(p)
    BY <1>6, <2>1, <2>3 DEF AddHostOrWarn, Ages, Quiet, SameHolding, counts, Holding
  <2> QED
    BY <2>2, <2>3, <2>4 DEF Sound
<1> QED
  BY <1>1, <1>2, <1>3, <1>4, <1>5, <1>6

\* The same of delete.
LEMMA DeleteSteps ==
  ASSUME IInv, NEW p \in Procs
  PROVE  /\ \A i \in Ids : DeleteBegin(p, i) => Sound(p) /\ Quiet(p)
         /\ TerminateInstances(p) => Sound(p)
         /\ DeleteBoxHost(p) => Sound(p) /\ Quiet(p)
         /\ DeleteRow(p) => Sound(p)
<1> USE DEF IInv, TypeOK
<1>c. Carries(p)
  BY DEF Carried
<1>1. ASSUME NEW i \in Ids, DeleteBegin(p, i) PROVE Sound(p) /\ Quiet(p)
  <2>1. /\ pc' = [pc EXCEPT ![p] = "terminate"] /\ box' = [box EXCEPT ![p] = i]
        /\ old' = [old EXCEPT ![p] = db[i].name] /\ db[i].name \in Names
        /\ UNCHANGED <<arg, todo, view>>
    BY <1>1 DEF DeleteBegin, Goto, Tracked, StoresOK, Row
  <2>2. LocalsOK' /\ Others(p)
    BY <2>1 DEF LocalsOK, Others, Steps
  <2>3. StoresOK' /\ CountsOK' /\ Ages /\ Quiet(p)
    BY <1>1, <2>1, BeginSound DEF DeleteBegin, LocalsOK, Holding
  <2>4. pc'[p] = "terminate" /\ box'[p] = i /\ old'[p] \in Names /\ ec2[i].state # "none"
    BY <1>1, <2>1 DEF LocalsOK, DeleteBegin, RowsBorn
  <2>5. Carries(p)'
    BY <1>c, <2>1, <2>3, <2>4 DEF Carries, Ages, Naming, Recalling, Viewing, Holding
  <2> QED
    BY <2>2, <2>3, <2>5 DEF Sound
<1>2. ASSUME TerminateInstances(p) PROVE Sound(p)
  <2>1. /\ box[p] \in Ids /\ old[p] \in Names
        /\ ec2[box[p]] \in Instance /\ ec2[box[p]].state # "none"
    BY <1>c, <1>2 DEF TerminateInstances, At, Carries, Boxed, Recalling, Steps, StoresOK
  <2>2. CASE Exit(p) /\ UNCHANGED ec2
    BY <1>2, <2>2, ExitSound, SameInstances
    DEF TerminateInstances, Sound, Others, Exit, LocalsOK, StoresOK, CountsOK, counts
  <2>3. CASE ec2' = [ec2 EXCEPT ![box[p]] = Terminated(@)] /\ Goto(p, "deleteHost") /\ Keep
    <3>1. /\ Ages /\ ec2' \in [Ids -> Instance] /\ ec2'[box[p]].state \in Dead
      <4>1. Terminated(ec2[box[p]]).state # "none"
        BY <2>1, TerminatedType DEF Dead
      <4> QED
        BY <2>1, <2>3, <4>1, TerminatedType, OneInstance
    <3>2. TypeOK' /\ Others(p) /\ pc'[p] = "deleteHost"
      BY <1>2, <2>3, <3>1
      DEF TerminateInstances, StoresOK, LocalsOK, CountsOK, counts, locals, Keep, Goto, Others, Steps
    <3>3. Carries(p)'
      BY <1>c, <2>1, <2>3, <3>1, <3>2
      DEF Carries, Ages, Keep, locals, Naming, Recalling, Viewing, Holding
    <3> QED
      BY <3>1, <3>2, <3>3 DEF Sound
  <2> QED
    BY <1>2, <2>2, <2>3 DEF TerminateInstances
<1>3. ASSUME DeleteBoxHost(p) PROVE Sound(p) /\ Quiet(p)
  <2>1. pc[p] = "deleteHost" /\ old[p] \in Names
    BY <1>c, <1>3 DEF DeleteBoxHost, At, Carries, Recalling
  <2>2. StoresOK' /\ CountsOK' /\ Ages
    <3>1. ssh' \in [Names -> Addrs \cup {NoAddr}]
      BY <1>3, <2>1 DEF DeleteBoxHost, DeleteHost, StoresOK
    <3> QED
      BY <1>3, <3>1 DEF DeleteBoxHost, StoresOK, CountsOK, counts, Ages
  <2>3. LocalsOK' /\ Carries(p)' /\ pc'[p] \in {"idle", "deleteRow"}
    <3>1. CASE Exit(p)
      BY <3>1, ExitSound
    <3>2. CASE Goto(p, "deleteRow") /\ Keep
      <4>1. LocalsOK' /\ pc'[p] = "deleteRow" /\ UNCHANGED locals
        BY <3>2 DEF LocalsOK, Goto, Keep, locals, Steps
      <4> QED
        BY <1>c, <1>3, <2>1, <4>1
        DEF DeleteBoxHost, Carries, locals, Boxed, Naming, Recalling, Viewing, Holding, Steps
    <3> QED
      BY <1>3, <3>1, <3>2 DEF DeleteBoxHost
  <2>4. Others(p)
    BY <1>3 DEF DeleteBoxHost, Others, Exit, Goto, Keep, locals, LocalsOK
  <2>5. Quiet(p)
    BY <1>3, <2>1, <2>3 DEF DeleteBoxHost, Quiet, SameHolding, counts, Holding
  <2> QED
    BY <2>2, <2>3, <2>4, <2>5 DEF Sound
<1>4. ASSUME DeleteRow(p) PROVE Sound(p)
  BY <1>4, ExitSound, SameInstances
  DEF DeleteRow, Sound, Others, Exit, LocalsOK, StoresOK, CountsOK, counts
<1> QED
  BY <1>1, <1>2, <1>3, <1>4

\* The AWS call of stop, start or reboot moves an instance between live states.
LEMMA PowerCallSound ==
  ASSUME IInv, NEW p \in Procs, NEW step \in {"stop", "start", "reboot"},
         NEW from \in SUBSET Live, NEW to \in Live, NEW same, PowerCall(p, step, from, to, same)
  PROVE  Sound(p) /\ Quiet(p)
<1> USE DEF IInv, TypeOK
<1>1. Carries(p) /\ pc[p] = step /\ box[p] \in Ids /\ ec2[box[p]].state # "none"
  BY DEF Carried, Carries, PowerCall, At, Boxed, Steps
<1>2. ec2[box[p]] \in Instance
  BY <1>1 DEF StoresOK
<1>3. UNCHANGED <<db, ssh>> /\ UNCHANGED counts /\ CountsOK'
  BY DEF PowerCall, counts, CountsOK
<1>4. CASE UNCHANGED ec2 /\ Exit(p)
  <2>1. LocalsOK' /\ Carries(p)' /\ pc'[p] = "idle" /\ Others(p)
    BY <1>4, ExitSound DEF Exit, LocalsOK, Others
  <2>2. StoresOK' /\ Ages /\ Quiet(p)
    BY <1>1, <1>3, <1>4, <2>1 DEF StoresOK, Ages, Quiet, SameHolding, counts, Holding
  <2> QED
    BY <1>3, <2>1, <2>2 DEF Sound
<1>5. CASE Goto(p, "refresh") /\ Keep /\
           (UNCHANGED ec2 \/ (ec2[box[p]].state \in from /\ ec2' = [ec2 EXCEPT ![box[p]].state = to]))
  <2>1. /\ Ages /\ ec2' \in [Ids -> Instance]
        /\ \A i \in Ids : Stage(ec2'[i].state) = Stage(ec2[i].state)
    <3>1. CASE UNCHANGED ec2
      BY <3>1 DEF Ages, StoresOK
    <3>2. CASE ec2[box[p]].state \in from /\ ec2' = [ec2 EXCEPT ![box[p]].state = to]
      <4>1. [ec2[box[p]] EXCEPT !.state = to] \in Instance
        BY <1>2 DEF Instance
      <4>2. [ec2[box[p]] EXCEPT !.state = to].state = to
        BY <1>2 DEF Instance
      <4>3. ec2' = [ec2 EXCEPT ![box[p]] = [ec2[box[p]] EXCEPT !.state = to]]
        BY <3>2
      <4>4. /\ Ages /\ ec2' \in [Ids -> Instance]
            /\ ec2'[box[p]].state = to /\ \A j \in Ids \ {box[p]} : ec2'[j] = ec2[j]
        BY <1>1, <3>2, <4>1, <4>2, <4>3, OneInstance DEF Live, Dead
      <4>5. Stage(to) = Stage(ec2[box[p]].state)
        BY <3>2, StageValue
      <4> QED
        BY <4>4, <4>5
    <3> QED
      BY <1>5, <3>1, <3>2
  <2>2. LocalsOK' /\ Others(p) /\ pc'[p] = "refresh" /\ UNCHANGED locals
    BY <1>5 DEF LocalsOK, Others, Goto, Keep, locals, Steps
  <2>3. StoresOK' /\ Quiet(p)
    BY <1>1, <1>3, <2>1, <2>2 DEF StoresOK, Quiet, SameHolding, Holding, counts
  <2>4. Carries(p)'
    BY <1>1, <2>1, <2>2 DEF Carries, Ages, locals, Naming, Recalling, Viewing, Holding
  <2> QED
    BY <1>3, <2>1, <2>2, <2>3, <2>4 DEF Sound
<1> QED
  BY <1>4, <1>5 DEF PowerCall

\* The same of the start of stop, start, reboot and resize.
LEMMA PowerBeginSound ==
  ASSUME IInv, NEW p \in Procs, NEW i \in Ids, NEW c, NEW states,
         NEW step \in {"stop", "start", "reboot", "resize"}, NEW name \in Names \cup {NoName},
         PowerBegin(p, c, i, states, step, name)
  PROVE  Sound(p) /\ Quiet(p)
<1> USE DEF IInv, TypeOK
<1>1. /\ Begin(p, c) /\ pc' = [pc EXCEPT ![p] = step] /\ box' = [box EXCEPT ![p] = i]
      /\ old' = [old EXCEPT ![p] = name] /\ UNCHANGED <<arg, todo, view>>
  BY DEF PowerBegin, Goto
<1>2. ec2[i].state # "none"
  BY DEF PowerBegin, RowsBorn
<1>3. LocalsOK' /\ Others(p) /\ pc'[p] = step /\ box'[p] = i
  BY <1>1 DEF LocalsOK, Others, Steps
<1>4. StoresOK' /\ CountsOK' /\ Ages /\ Quiet(p)
  BY <1>1, <1>3, BeginSound DEF Holding
<1>5. Carries(p)'
  BY <1>1, <1>2, <1>3, <1>4 DEF Carried, Carries, Ages, Naming, Recalling, Viewing, Holding
<1> QED
  BY <1>3, <1>4, <1>5 DEF Sound

\* The same of stop, start, reboot and resize.
LEMMA PowerSteps ==
  ASSUME IInv, NEW p \in Procs
  PROVE  /\ \A i \in Ids : StopBegin(p, i) \/ StartBegin(p, i) \/ RebootBegin(p, i)
                             \/ ResizeBegin(p, i) => Sound(p) /\ Quiet(p)
         /\ StopInstances(p) \/ StartInstances(p) \/ RebootInstances(p)
              => Sound(p) /\ Quiet(p)
         /\ Refresh(p) => Sound(p) /\ Quiet(p)
         /\ SyncRow(p) => Sound(p) /\ Quiet(p)
         /\ SyncHost(p) => Sound(p) /\ Quiet(p)
         /\ ModifyType(p) => Sound(p) /\ Quiet(p)
         /\ ModifyVolume(p) => Sound(p) /\ Quiet(p)
<1> USE DEF IInv, TypeOK
<1>c. Carries(p)
  BY DEF Carried
<1>1. ASSUME NEW i \in Ids,
             StopBegin(p, i) \/ StartBegin(p, i) \/ RebootBegin(p, i) \/ ResizeBegin(p, i)
      PROVE  Sound(p) /\ Quiet(p)
  <2>1. CASE StopBegin(p, i)
    BY <2>1, PowerBeginSound DEF StopBegin
  <2>2. CASE StartBegin(p, i)
    <3>1. db[i].name \in Names
      BY <2>2 DEF StartBegin, PowerBegin, Tracked, StoresOK, Row
    <3> QED
      BY <2>2, <3>1, PowerBeginSound DEF StartBegin
  <2>3. CASE RebootBegin(p, i)
    BY <2>3, PowerBeginSound DEF RebootBegin
  <2>4. CASE ResizeBegin(p, i)
    BY <2>4, PowerBeginSound DEF ResizeBegin
  <2> QED
    BY <1>1, <2>1, <2>2, <2>3, <2>4
<1>2. ASSUME StopInstances(p) \/ StartInstances(p) \/ RebootInstances(p)
      PROVE  Sound(p) /\ Quiet(p)
  BY <1>2, PowerCallSound DEF StopInstances, StartInstances, RebootInstances, Live
<1>3. ASSUME Refresh(p) PROVE Sound(p) /\ Quiet(p)
  <2>1. pc[p] = "refresh" /\ box[p] \in Ids /\ UNCHANGED stores /\ UNCHANGED counts
    BY <1>c, <1>3 DEF Refresh, At, Carries, Boxed, Steps
  <2>2. StoresOK' /\ CountsOK' /\ Ages
    BY <2>1 DEF StoresOK, CountsOK, stores, counts, Ages
  <2>3. CASE Exit(p)
    BY <2>1, <2>2, <2>3, ExitSound
    DEF Sound, Quiet, SameHolding, Others, Exit, LocalsOK, stores, counts, Holding
  <2>4. CASE /\ ec2[box[p]].state # "gone" /\ Goto(p, "sync") /\ UNCHANGED <<box, arg, old, todo>>
             /\ view' = [view EXCEPT ![p] = [NoView EXCEPT ![box[p]] = ec2[box[p]]]]
    <3>1. [NoView EXCEPT ![box[p]] = ec2[box[p]]] \in [Ids -> Instance \cup {NoInst}]
      BY <2>1 DEF NoView, StoresOK
    <3>2. LocalsOK' /\ Others(p) /\ pc'[p] = "sync"
      BY <2>4, <3>1 DEF LocalsOK, Others, Goto, Steps
    <3>3. view'[p] = [NoView EXCEPT ![box[p]] = ec2[box[p]]] /\ todo'[p] = todo[p] /\ box'[p] = box[p]
      BY <2>4 DEF LocalsOK
    <3>4. ec2[box[p]] # NoInst /\ ec2[box[p]].state # "none"
      <4>1. ec2[box[p]].state # "none"
        BY <1>c, <2>1 DEF Carries, Boxed, Steps
      <4> QED
        BY <2>1, <4>1, NonesAssumption DEF StoresOK
    <3>5. Carries(p)'
      BY <1>c, <2>1, <2>4, <3>2, <3>3, <3>4
      DEF Carries, NoView, stores, Naming, Recalling, Viewing, Holding
    <3>6. Quiet(p)
      BY <2>1, <3>2 DEF Quiet, SameHolding, Holding, stores, counts
    <3> QED
      BY <2>2, <3>2, <3>5, <3>6 DEF Sound
  <2> QED
    BY <1>3, <2>3, <2>4 DEF Refresh
<1>4. ASSUME SyncRow(p) PROVE Sound(p) /\ Quiet(p)
  <2> DEFINE i == box[p]
             v == view[p][i]
  <2>1. pc[p] = "sync" /\ UNCHANGED <<ec2, ssh>> /\ UNCHANGED counts
    BY <1>4 DEF SyncRow, At
  <2>2. i \in Ids /\ v \in Instance /\ v.state \notin {"none", "gone"}
    BY <1>c, <2>1, Viewed DEF Viewing
  <2>3. /\ db' \in [Ids -> Row \cup {NoRow}]
        /\ \A j \in Ids : (db'[j] # NoRow) <=> (db[j] # NoRow)
    <3>1. CASE SyncInstanceFromAWS(i, v)
      BY <2>2, <3>1, SyncDb DEF Tracked
    <3>2. CASE UNCHANGED db
      BY <3>2 DEF StoresOK
    <3> QED
      BY <1>4, <3>1, <3>2 DEF SyncRow
  <2>4. StoresOK' /\ CountsOK' /\ Ages
    BY <2>1, <2>3 DEF StoresOK, CountsOK, counts, Ages
  <2>5. CASE Exit(p)
    BY <2>1, <2>3, <2>4, <2>5, ExitSound
    DEF Sound, Quiet, SameHolding, Others, Exit, LocalsOK, counts, Holding
  <2>6. CASE old[p] # NoName /\ Goto(p, "syncHost") /\ Keep
    <3>1. LocalsOK' /\ Others(p) /\ pc'[p] = "syncHost" /\ UNCHANGED locals
      BY <2>6 DEF LocalsOK, Others, Goto, Keep, locals, Steps
    <3>2. Carries(p)'
      BY <1>c, <2>1, <2>6, <3>1
      DEF Carries, LocalsOK, locals, Boxed, Naming, Recalling, Viewing, Holding, Steps
    <3>3. Quiet(p)
      BY <2>1, <2>3, <3>1 DEF Quiet, SameHolding, Holding, counts
    <3> QED
      BY <2>4, <3>1, <3>2, <3>3 DEF Sound
  <2> QED
    BY <1>4, <2>5, <2>6 DEF SyncRow
<1>5. ASSUME SyncHost(p) PROVE Sound(p) /\ Quiet(p)
  <2>1. /\ pc[p] = "syncHost" /\ old[p] \in Names
        /\ Addr(box[p], view[p][box[p]]) \in Addrs \cup {NoAddr}
    BY <1>c, <1>5, Viewed DEF SyncHost, At, Carries, Viewing
  <2>2. StoresOK' /\ CountsOK' /\ Ages
    <3>1. ssh' \in [Names -> Addrs \cup {NoAddr}]
      BY <1>5, <2>1, HostType DEF SyncHost, StoresOK
    <3> QED
      BY <1>5, <3>1 DEF SyncHost, StoresOK, CountsOK, counts, Ages
  <2>3. LocalsOK' /\ Carries(p)' /\ pc'[p] = "idle" /\ Others(p)
    BY <1>5, ExitSound DEF SyncHost, Exit, LocalsOK, Others
  <2>4. Quiet(p)
    BY <1>5, <2>1, <2>3 DEF SyncHost, Quiet, SameHolding, counts, Holding
  <2> QED
    BY <2>2, <2>3, <2>4 DEF Sound
<1>6. ASSUME ModifyType(p) PROVE Sound(p) /\ Quiet(p)
  <2>1. /\ pc[p] = "resize" /\ box[p] \in Ids /\ ec2[box[p]].state # "none"
        /\ ec2[box[p]] \in Instance /\ UNCHANGED <<db, ssh>> /\ UNCHANGED counts
    BY <1>c, <1>6 DEF ModifyType, At, Carries, Boxed, Steps, StoresOK
  <2>2. CASE Exit(p) /\ UNCHANGED ec2
    BY <2>1, <2>2, ExitSound, SameInstances
    DEF Sound, Quiet, SameHolding, Others, Exit, LocalsOK, StoresOK, CountsOK, counts, Holding
  <2>3. ASSUME NEW t \in Types, ec2' = [ec2 EXCEPT ![box[p]].type = t], Goto(p, "volume"), Keep
        PROVE  Sound(p) /\ Quiet(p)
    <3> DEFINE v == [ec2[box[p]] EXCEPT !.type = t]
    <3>1. v \in Instance /\ v.state = ec2[box[p]].state
      BY <2>1 DEF Instance
    <3>2. ec2' = [ec2 EXCEPT ![box[p]] = v]
      BY <2>3
    <3> HIDE DEF v
    <3>3. /\ Ages /\ ec2' \in [Ids -> Instance]
          /\ \A i \in Ids : ec2'[i].state = ec2[i].state
      BY <2>1, <3>1, <3>2, OneInstance
    <3>4. LocalsOK' /\ Others(p) /\ pc'[p] = "volume" /\ UNCHANGED locals
      BY <2>3 DEF LocalsOK, Others, Goto, Keep, locals, Steps
    <3>5. StoresOK' /\ CountsOK' /\ Quiet(p)
      BY <2>1, <3>3, <3>4 DEF StoresOK, CountsOK, counts, Quiet, SameHolding, Holding
    <3>6. Carries(p)'
      BY <1>c, <2>1, <3>3, <3>4 DEF Carries, Ages, locals, Naming, Recalling, Viewing, Holding
    <3> QED
      BY <3>3, <3>4, <3>5, <3>6 DEF Sound
  <2> QED
    BY <1>6, <2>2, <2>3 DEF ModifyType
<1>7. ASSUME ModifyVolume(p) PROVE Sound(p) /\ Quiet(p)
  <2>1. /\ pc[p] = "volume" /\ box[p] \in Ids /\ ec2[box[p]].state # "none"
        /\ UNCHANGED stores /\ UNCHANGED counts
    BY <1>c, <1>7 DEF ModifyVolume, At, Carries, Boxed, Steps
  <2>2. StoresOK' /\ CountsOK' /\ Ages
    BY <2>1 DEF StoresOK, CountsOK, stores, counts, Ages
  <2>3. CASE Exit(p)
    BY <2>1, <2>2, <2>3, ExitSound
    DEF Sound, Quiet, SameHolding, Others, Exit, LocalsOK, stores, counts, Holding
  <2>4. CASE Goto(p, "refresh") /\ Keep
    <3>1. LocalsOK' /\ Others(p) /\ pc'[p] = "refresh" /\ UNCHANGED locals
      BY <2>4 DEF LocalsOK, Others, Goto, Keep, locals, Steps
    <3>2. Carries(p)' /\ Quiet(p)
      BY <1>c, <2>1, <3>1
      DEF Carries, stores, locals, Naming, Recalling, Viewing, Quiet, SameHolding, Holding, counts
    <3> QED
      BY <2>2, <3>1, <3>2 DEF Sound
  <2> QED
    BY <1>7, <2>3, <2>4 DEF ModifyVolume
<1> QED
  BY <1>1, <1>2, <1>3, <1>4, <1>5, <1>6, <1>7

\* The same of rename.
LEMMA RenameSteps ==
  ASSUME IInv, NEW p \in Procs
  PROVE  /\ \A i \in Ids, n \in Names : RenameBegin(p, i, n) => Sound(p) /\ Quiet(p)
         /\ CreateTags(p) => Sound(p) /\ Quiet(p)
         /\ UpdateInstanceName(p) => Sound(p) /\ Quiet(p)
         /\ RenameBoxHost(p) => Sound(p) /\ Quiet(p)
<1> USE DEF IInv, TypeOK
<1>c. Carries(p)
  BY DEF Carried
<1>1. ASSUME NEW i \in Ids, NEW n \in Names, RenameBegin(p, i, n)
      PROVE  Sound(p) /\ Quiet(p)
  <2>1. /\ pc' = [pc EXCEPT ![p] = "tag"] /\ box' = [box EXCEPT ![p] = i]
        /\ arg' = [arg EXCEPT ![p] = n] /\ old' = [old EXCEPT ![p] = db[i].name]
        /\ UNCHANGED <<todo, view>>
        /\ ec2[i].state # "none" /\ db[i].name \in Names
    BY <1>1 DEF RenameBegin, Goto, RowsBorn, Tracked, StoresOK, Row
  <2>2. /\ LocalsOK' /\ Others(p) /\ pc'[p] = "tag"
        /\ box'[p] = i /\ arg'[p] = n /\ old'[p] \in Names
    BY <2>1 DEF LocalsOK, Others, Steps
  <2>3. StoresOK' /\ CountsOK' /\ Ages /\ Quiet(p)
    BY <1>1, <2>2, BeginSound DEF RenameBegin, Holding
  <2>4. Carries(p)'
    BY <1>c, <2>1, <2>2, <2>3 DEF Carries, Ages, Recalling, Viewing, Holding
  <2> QED
    BY <2>2, <2>3, <2>4 DEF Sound
<1>2. ASSUME CreateTags(p) PROVE Sound(p) /\ Quiet(p)
  <2>1. /\ pc[p] = "tag" /\ box[p] \in Ids /\ arg[p] \in Names /\ ec2[box[p]].state # "none"
        /\ ec2[box[p]] \in Instance /\ UNCHANGED <<db, ssh>> /\ UNCHANGED counts
    BY <1>c, <1>2 DEF CreateTags, At, Carries, Boxed, Naming, Steps, StoresOK
  <2>2. CASE Exit(p) /\ UNCHANGED ec2
    BY <2>1, <2>2, ExitSound, SameInstances
    DEF Sound, Quiet, SameHolding, Others, Exit, LocalsOK, StoresOK, CountsOK, counts, Holding
  <2>3. CASE ec2' = [ec2 EXCEPT ![box[p]].tag = arg[p]] /\ Goto(p, "setName") /\ Keep
    <3> DEFINE v == [ec2[box[p]] EXCEPT !.tag = arg[p]]
    <3>1. v \in Instance /\ v.state = ec2[box[p]].state
      BY <2>1 DEF Instance
    <3>2. ec2' = [ec2 EXCEPT ![box[p]] = v]
      BY <2>3
    <3> HIDE DEF v
    <3>3. /\ Ages /\ ec2' \in [Ids -> Instance]
          /\ \A i \in Ids : ec2'[i].state = ec2[i].state
      BY <2>1, <3>1, <3>2, OneInstance
    <3>4. LocalsOK' /\ Others(p) /\ pc'[p] = "setName" /\ UNCHANGED locals
      BY <2>3 DEF LocalsOK, Others, Goto, Keep, locals, Steps
    <3>5. StoresOK' /\ CountsOK' /\ Quiet(p)
      BY <2>1, <3>3, <3>4 DEF StoresOK, CountsOK, counts, Quiet, SameHolding, Holding
    <3>6. Carries(p)'
      BY <1>c, <2>1, <3>3, <3>4 DEF Carries, Ages, locals, Recalling, Viewing, Holding
    <3> QED
      BY <3>3, <3>4, <3>5, <3>6 DEF Sound
  <2> QED
    BY <1>2, <2>2, <2>3 DEF CreateTags
<1>3. ASSUME UpdateInstanceName(p) PROVE Sound(p) /\ Quiet(p)
  <2>1. /\ pc[p] = "setName" /\ box[p] \in Ids /\ arg[p] \in Names /\ ec2[box[p]].state # "none"
        /\ UNCHANGED <<ec2, ssh>> /\ UNCHANGED counts
    BY <1>c, <1>3 DEF UpdateInstanceName, At, Carries, Boxed, Naming, Steps
  <2>2. CASE Exit(p) /\ UNCHANGED db
    BY <2>1, <2>2, ExitSound, SameInstances
    DEF Sound, Quiet, SameHolding, Others, Exit, LocalsOK, StoresOK, CountsOK, counts, Holding
  <2>3. CASE /\ ~UpdateRefused(p) /\ db' = [db EXCEPT ![box[p]].name = arg[p]]
             /\ Goto(p, "renameHost") /\ Keep
    <3>1. db[box[p]] \in Row
      BY <2>1, <2>3 DEF UpdateRefused, Tracked, StoresOK
    <3>2. [db[box[p]] EXCEPT !.name = arg[p]] \in Row
      BY <2>1, <3>1 DEF Row
    <3>3. /\ db' \in [Ids -> Row \cup {NoRow}]
          /\ \A i \in Ids : (db'[i] # NoRow) <=> (db[i] # NoRow)
      BY <2>1, <2>3, <3>1, <3>2, NonesAssumption DEF StoresOK
    <3>4. LocalsOK' /\ Others(p) /\ pc'[p] = "renameHost" /\ UNCHANGED locals
      BY <2>3 DEF LocalsOK, Others, Goto, Keep, locals, Steps
    <3>5. StoresOK' /\ CountsOK' /\ Quiet(p) /\ Ages
      BY <2>1, <3>3, <3>4 DEF StoresOK, CountsOK, counts, Quiet, SameHolding, Holding, Ages
    <3>6. old[p] \in Names
      BY <1>c, <2>1 DEF Carries, Recalling
    <3>7. Carries(p)'
      BY <1>c, <2>1, <3>4, <3>6 DEF Carries, locals, Recalling, Viewing, Holding
    <3> QED
      BY <3>4, <3>5, <3>7 DEF Sound
  <2> QED
    BY <1>3, <2>2, <2>3 DEF UpdateInstanceName
<1>4. ASSUME RenameBoxHost(p) PROVE Sound(p) /\ Quiet(p)
  <2>1. pc[p] = "renameHost" /\ old[p] \in Names /\ arg[p] \in Names
    BY <1>c, <1>4 DEF RenameBoxHost, At, Carries, Naming, Recalling
  <2>2. StoresOK' /\ CountsOK' /\ Ages
    <3>1. ssh' \in [Names -> Addrs \cup {NoAddr}]
      BY <1>4, <2>1 DEF RenameBoxHost, RenameHost, StoresOK
    <3> QED
      BY <1>4, <3>1 DEF RenameBoxHost, StoresOK, CountsOK, counts, Ages
  <2>3. LocalsOK' /\ Carries(p)' /\ pc'[p] = "idle" /\ Others(p)
    BY <1>4, ExitSound DEF RenameBoxHost, Exit, LocalsOK, Others
  <2>4. Quiet(p)
    BY <1>4, <2>1, <2>3 DEF RenameBoxHost, Quiet, SameHolding, counts, Holding
  <2> QED
    BY <2>2, <2>3, <2>4 DEF Sound
<1> QED
  BY <1>1, <1>2, <1>3, <1>4

\* The same of ls.
LEMMA LsSteps ==
  ASSUME IInv, NEW p \in Procs
  PROVE  /\ LsBegin(p) => Sound(p) /\ Quiet(p)
         /\ \A r \in Regions : LsDescribe(p, r) \/ LsSkipRegion(p, r) => Sound(p) /\ Quiet(p)
         /\ \A i \in Ids : LsPrune(p, i) => Sound(p)
         /\ \A i \in Ids : LsUnchanged(p, i) \/ LsSync(p, i) \/ LsRefused(p, i)
                             => Sound(p) /\ Quiet(p)
         /\ LsDeleteHost(p) \/ LsSyncHost(p) => Sound(p) /\ Quiet(p)
<1> USE DEF IInv, TypeOK
<1>c. Carries(p)
  BY DEF Carried
<1>1. ASSUME LsBegin(p) PROVE Sound(p) /\ Quiet(p)
  <2>1. /\ pc' = [pc EXCEPT ![p] = "ls"] /\ todo' = [todo EXCEPT ![p] = db]
        /\ UNCHANGED <<box, arg, old, view>> /\ UNCHANGED stores /\ UNCHANGED counts
        /\ pc[p] = "idle"
    BY <1>1 DEF LsBegin, Goto, At
  <2>2. TypeOK' /\ Others(p) /\ pc'[p] = "ls" /\ todo'[p] = db
    BY <2>1 DEF StoresOK, LocalsOK, CountsOK, stores, counts, Others, Steps
  <2>3. Ages /\ Quiet(p)
    BY <2>1, <2>2 DEF Ages, stores, counts, Quiet, SameHolding, Holding
  <2>4. \A i \in Ids : view[p][i] = NoInst
    BY <1>c, <2>1 DEF Carries
  <2>5. Carries(p)'
    BY <1>c, <2>1, <2>2, <2>4
    DEF Carries, RowsBorn, Tracked, stores, Boxed, Naming, Recalling, Viewing, Holding
  <2> QED
    BY <2>2, <2>3, <2>5 DEF Sound
<1>2. ASSUME NEW r \in Regions, LsDescribe(p, r) PROVE Sound(p) /\ Quiet(p)
  <2> DEFINE asked == {i \in Ids : todo[p][i] # NoRow /\ RegionOf[i] = r}
             seen == [i \in Ids |-> IF i \in asked THEN ec2[i] ELSE NoInst]
  <2>1. /\ pc[p] = "ls" /\ view' = [view EXCEPT ![p] = seen]
        /\ UNCHANGED <<pc, box, arg, old, todo>> /\ UNCHANGED stores /\ UNCHANGED counts
    BY <1>2 DEF LsDescribe, At
  <2>2. /\ seen \in [Ids -> Instance \cup {NoInst}]
        /\ \A i \in Ids : seen[i] # NoInst => seen[i] = ec2[i] /\ todo[p][i] # NoRow
    BY DEF StoresOK
  <2> HIDE DEF seen
  <2>3. TypeOK' /\ Others(p) /\ view'[p] = seen
    BY <2>1, <2>2 DEF StoresOK, LocalsOK, CountsOK, stores, counts, Others
  <2>4. Ages /\ Quiet(p)
    BY <2>1 DEF Ages, stores, counts, Quiet, SameHolding
  <2>5. Carries(p)'
    BY <1>c, <2>1, <2>2, <2>3
    DEF Carries, stores, Boxed, Naming, Recalling, Viewing, Holding
  <2> QED
    BY <2>3, <2>4, <2>5 DEF Sound
<1>3. ASSUME NEW r \in Regions, LsSkipRegion(p, r) PROVE Sound(p) /\ Quiet(p)
  <2> DEFINE rest == [i \in Ids |-> IF RegionOf[i] = r THEN NoRow ELSE todo[p][i]]
  <2>1. /\ pc[p] = "ls" /\ Proceed(p, rest, "ls")
        /\ UNCHANGED stores /\ UNCHANGED <<stray, started>>
        /\ faults < MaxFaults /\ faults' = faults + 1
    BY <1>3 DEF LsSkipRegion, At
  <2>2. /\ rest \in [Ids -> Row \cup {NoRow}]
        /\ \A i \in Ids : rest[i] # NoRow => todo[p][i] # NoRow
    BY DEF LocalsOK
  <2> HIDE DEF rest
  <2>3. StoresOK' /\ CountsOK' /\ Ages
    BY <2>1, BoundsAssumption DEF StoresOK, CountsOK, stores, Ages
  <2>4. LocalsOK' /\ Carries(p)' /\ pc'[p] \in {"idle", "ls", "import"}
    BY <1>c, <2>1, <2>2, <2>3, ProceedSound
  <2>5. Others(p)
    BY <2>1 DEF Proceed, Exit, Goto, Others, LocalsOK
  <2>6. Quiet(p)
    BY <2>1, <2>4 DEF Quiet, SameHolding, stores, Holding
  <2> QED
    BY <2>3, <2>4, <2>5, <2>6 DEF Sound
<1>4. ASSUME NEW i \in Ids, LsPrune(p, i) PROVE Sound(p)
  <2>1. /\ pc[p] = "ls" /\ view[p][i] # NoInst /\ UNCHANGED <<ec2, ssh, arg, todo, view>>
        /\ UNCHANGED counts /\ db' = [db EXCEPT ![i] = NoRow]
        /\ pc' = [pc EXCEPT ![p] = "lsDeleteHost"] /\ box' = [box EXCEPT ![p] = i]
        /\ old' = [old EXCEPT ![p] = todo[p][i].name]
    BY <1>4 DEF LsPrune, Described, At, Goto
  <2>2. todo[p][i] # NoRow /\ todo[p][i].name \in Names /\ ec2[i].state # "none"
    BY <1>c, <2>1 DEF Carries, LocalsOK, Row
  <2>3. TypeOK' /\ Others(p) /\ Ages
    BY <2>1, <2>2 DEF StoresOK, LocalsOK, CountsOK, counts, Others, Steps, Ages
  <2>4. pc'[p] = "lsDeleteHost" /\ box'[p] = i /\ old'[p] \in Names
    BY <2>1, <2>2 DEF LocalsOK
  <2>5. Carries(p)'
    BY <1>c, <2>1, <2>2, <2>4 DEF Carries, Naming, Viewing, Holding
  <2> QED
    BY <2>3, <2>5 DEF Sound
<1>5. ASSUME NEW i \in Ids, LsUnchanged(p, i) PROVE Sound(p) /\ Quiet(p)
  <2>1. /\ pc[p] = "ls" /\ DoneWith(p, i, "ls") /\ UNCHANGED stores /\ UNCHANGED counts
    BY <1>5 DEF LsUnchanged, Described, At
  <2>2. StoresOK' /\ CountsOK' /\ Ages
    BY <2>1 DEF StoresOK, CountsOK, stores, counts, Ages
  <2>3. LocalsOK' /\ Carries(p)' /\ pc'[p] \in {"idle", "ls", "import"}
    BY <1>c, <2>1, <2>2, DoneSound
  <2>4. Others(p)
    BY <2>1 DEF DoneWith, Proceed, Exit, Goto, Others, LocalsOK
  <2>5. Quiet(p)
    BY <2>1, <2>3 DEF Quiet, SameHolding, stores, counts, Holding
  <2> QED
    BY <2>2, <2>3, <2>4, <2>5 DEF Sound
<1>6. ASSUME NEW i \in Ids, LsSync(p, i) PROVE Sound(p) /\ Quiet(p)
  <2>1. /\ pc[p] = "ls" /\ view[p][i] # NoInst /\ view[p][i].state # "gone"
        /\ SyncInstanceFromAWS(i, view[p][i]) /\ UNCHANGED <<ec2, ssh>> /\ UNCHANGED counts
    BY <1>6 DEF LsSync, Described, At
  <2>2. /\ todo[p][i] # NoRow /\ todo[p][i].name \in Names /\ ec2[i].state # "none"
        /\ view[p][i] \in Instance /\ view[p][i].state \notin {"none", "gone"}
    BY <1>c, <2>1 DEF Carries, LocalsOK, Row
  <2>3. /\ db' \in [Ids -> Row \cup {NoRow}]
        /\ \A j \in Ids : (db'[j] # NoRow) <=> (db[j] # NoRow)
    BY <2>1, <2>2, SyncDb DEF Tracked
  <2>4. StoresOK' /\ CountsOK' /\ Ages
    BY <2>1, <2>3 DEF StoresOK, CountsOK, counts, Ages
  <2>5. CASE DoneWith(p, i, "ls")
    <3>1. LocalsOK' /\ Carries(p)' /\ pc'[p] \in {"idle", "ls", "import"}
      BY <1>c, <2>4, <2>5, DoneSound
    <3>2. Others(p)
      BY <2>5 DEF DoneWith, Proceed, Exit, Goto, Others, LocalsOK
    <3>3. Quiet(p)
      BY <2>1, <2>3, <3>1 DEF Quiet, SameHolding, counts, Holding
    <3> QED
      BY <2>4, <3>1, <3>2, <3>3 DEF Sound
  <2>6. CASE /\ pc' = [pc EXCEPT ![p] = "lsSyncHost"] /\ box' = [box EXCEPT ![p] = i]
             /\ old' = [old EXCEPT ![p] = todo[p][i].name] /\ UNCHANGED <<arg, todo, view>>
    <3>1. LocalsOK' /\ Others(p)
      BY <2>2, <2>6 DEF LocalsOK, Others, Steps
    <3>2. pc'[p] = "lsSyncHost" /\ box'[p] = i /\ old'[p] \in Names
      BY <2>2, <2>6 DEF LocalsOK
    <3>3. Carries(p)'
      BY <1>c, <2>1, <2>2, <2>6, <3>2 DEF Carries, Naming, Holding
    <3>4. Quiet(p)
      BY <2>1, <2>3, <3>2 DEF Quiet, SameHolding, counts, Holding
    <3> QED
      BY <2>4, <3>1, <3>3, <3>4 DEF Sound
  <2> QED
    BY <1>6, <2>5, <2>6 DEF LsSync, Goto
<1>7. ASSUME NEW i \in Ids, LsRefused(p, i) PROVE Sound(p) /\ Quiet(p)
  <2>1. pc[p] = "ls" /\ Exit(p) /\ UNCHANGED stores /\ UNCHANGED counts
    BY <1>7 DEF LsRefused, Described, At
  <2> QED
    BY <2>1, ExitSound
    DEF Sound, Quiet, SameHolding, Others, Exit, LocalsOK, StoresOK, CountsOK, counts, stores,
        Holding, Ages
<1>8. ASSUME LsDeleteHost(p) PROVE Sound(p) /\ Quiet(p)
  <2>1. /\ pc[p] = "lsDeleteHost" /\ old[p] \in Names /\ box[p] \in Ids
        /\ DeleteHost(old[p]) /\ DoneWith(p, box[p], "ls")
        /\ UNCHANGED <<ec2, db>> /\ UNCHANGED counts
    BY <1>c, <1>8 DEF LsDeleteHost, At, Carries, Recalling, Boxed, Steps
  <2>2. StoresOK' /\ CountsOK' /\ Ages
    BY <2>1 DEF DeleteHost, StoresOK, CountsOK, counts, Ages
  <2>3. LocalsOK' /\ Carries(p)' /\ pc'[p] \in {"idle", "ls", "import"}
    BY <1>c, <2>1, <2>2, DoneSound
  <2>4. Others(p)
    BY <2>1 DEF DoneWith, Proceed, Exit, Goto, Others, LocalsOK
  <2>5. Quiet(p)
    BY <2>1, <2>3 DEF Quiet, SameHolding, counts, Holding
  <2> QED
    BY <2>2, <2>3, <2>4, <2>5 DEF Sound
<1>9. ASSUME LsSyncHost(p) PROVE Sound(p) /\ Quiet(p)
  <2>1. /\ pc[p] = "lsSyncHost" /\ old[p] \in Names /\ box[p] \in Ids
        /\ Addr(box[p], view[p][box[p]]) \in Addrs \cup {NoAddr}
        /\ UNCHANGED <<ec2, db>> /\ UNCHANGED counts
    BY <1>c, <1>9, Viewed DEF LsSyncHost, At, Carries, Recalling, Viewing
  <2>2. StoresOK' /\ CountsOK' /\ Ages
    <3>1. ssh' \in [Names -> Addrs \cup {NoAddr}]
      BY <1>9, <2>1, HostType DEF LsSyncHost, StoresOK
    <3> QED
      BY <2>1, <3>1 DEF StoresOK, CountsOK, counts, Ages
  <2>3. LocalsOK' /\ Carries(p)' /\ pc'[p] \in {"idle", "ls", "import"}
    BY <1>c, <1>9, <2>1, <2>2, DoneSound, ExitSound DEF LsSyncHost
  <2>4. Others(p)
    BY <1>9 DEF LsSyncHost, DoneWith, Proceed, Exit, Goto, Others, LocalsOK
  <2>5. Quiet(p)
    BY <2>1, <2>3 DEF Quiet, SameHolding, counts, Holding
  <2> QED
    BY <2>2, <2>3, <2>4, <2>5 DEF Sound
<1> QED
  BY <1>1, <1>2, <1>3, <1>4, <1>5, <1>6, <1>7, <1>8, <1>9

\* The same of import.
LEMMA ImportSteps ==
  ASSUME IInv, NEW p \in Procs
  PROVE  /\ \A r \in Regions : ImportBegin(p, r) => Sound(p) /\ Quiet(p)
         /\ \A i \in Ids : ImportSkip(p, i) => Sound(p) /\ Quiet(p)
         /\ \A i \in Ids : ImportInsert(p, i) => Sound(p)
         /\ ImportSync(p) \/ ImportHost(p) => Sound(p) /\ Quiet(p)
<1> USE DEF IInv, TypeOK
<1>c. Carries(p)
  BY DEF Carried
<1>1. ASSUME NEW r \in Regions, ImportBegin(p, r) PROVE Sound(p) /\ Quiet(p)
  <2> DEFINE cands == {i \in Ids : ec2[i].state \in Live /\ ~Tracked(i) /\ RegionOf[i] = r}
             rows(nm) == [i \in Ids |-> IF i \in cands
                                        THEN [name |-> nm[i], status |-> ec2[i].state,
                                              type |-> ec2[i].type, ip |-> Addr(i, ec2[i])]
                                        ELSE NoRow]
  <2>1. PICK nm \in [cands -> Names] : todo' = [todo EXCEPT ![p] = rows(nm)]
    BY <1>1 DEF ImportBegin
  <2>2. /\ Begin(p, "import") /\ pc' = [pc EXCEPT ![p] = "import"] /\ pc[p] = "idle"
        /\ UNCHANGED <<box, arg, old, view>>
    BY <1>1 DEF ImportBegin, Goto, Begin, At
  <2>3. rows(nm) \in [Ids -> Row \cup {NoRow}]
    BY AddrType DEF StoresOK, Row, Instance
  <2>4. \A i \in Ids : rows(nm)[i] # NoRow => ec2[i].state # "none"
    BY DEF Live
  <2> HIDE DEF rows
  <2>5. LocalsOK' /\ Others(p) /\ pc'[p] = "import" /\ todo'[p] = rows(nm)
    BY <2>1, <2>2, <2>3 DEF LocalsOK, Others, Steps
  <2>6. StoresOK' /\ CountsOK' /\ Ages /\ Quiet(p)
    BY <2>2, <2>5, BeginSound DEF Holding
  <2>7. Carries(p)'
    BY <1>c, <2>2, <2>4, <2>5, <2>6
    DEF Carries, Ages, Boxed, Naming, Recalling, Viewing, Holding
  <2> QED
    BY <2>5, <2>6, <2>7 DEF Sound
<1>2. ASSUME NEW i \in Ids, ImportSkip(p, i) PROVE Sound(p) /\ Quiet(p)
  <2>1. /\ pc[p] = "import" /\ DoneWith(p, i, "import") /\ UNCHANGED stores /\ UNCHANGED counts
    BY <1>2 DEF ImportSkip, At
  <2>2. StoresOK' /\ CountsOK' /\ Ages
    BY <2>1 DEF StoresOK, CountsOK, stores, counts, Ages
  <2>3. LocalsOK' /\ Carries(p)' /\ pc'[p] \in {"idle", "ls", "import"}
    BY <1>c, <2>1, <2>2, DoneSound
  <2>4. Others(p)
    BY <2>1 DEF DoneWith, Proceed, Exit, Goto, Others, LocalsOK
  <2>5. Quiet(p)
    BY <2>1, <2>3 DEF Quiet, SameHolding, stores, counts, Holding
  <2> QED
    BY <2>2, <2>3, <2>4, <2>5 DEF Sound
<1>3. ASSUME NEW i \in Ids, ImportInsert(p, i) PROVE Sound(p)
  <2>1. /\ pc[p] = "import" /\ todo[p][i] # NoRow /\ todo[p][i] \in Row
        /\ ec2[i].state # "none" /\ UNCHANGED <<ec2, ssh>> /\ UNCHANGED counts
    BY <1>c, <1>3 DEF ImportInsert, At, Carries, LocalsOK
  <2>2. StoresOK' /\ CountsOK' /\ Ages
    <3>1. [todo[p][i] EXCEPT !.ip = NoAddr] \in Row
      BY <2>1 DEF Row
    <3>2. db' = [db EXCEPT ![i] = [todo[p][i] EXCEPT !.ip = NoAddr]] \/ db' = db
      BY <1>3 DEF ImportInsert
    <3> QED
      BY <2>1, <3>1, <3>2 DEF StoresOK, CountsOK, counts, Ages
  <2>3. CASE DoneWith(p, i, "import")
    BY <1>c, <2>2, <2>3, DoneSound DEF Sound, DoneWith, Proceed, Exit, Goto, Others, LocalsOK
  <2>4. CASE /\ pc' = [pc EXCEPT ![p] = "importSync"] /\ box' = [box EXCEPT ![p] = i]
             /\ UNCHANGED <<arg, old, todo, view>>
    <3>1. LocalsOK' /\ Others(p) /\ pc'[p] = "importSync" /\ box'[p] = i
      BY <2>4 DEF LocalsOK, Others, Steps
    <3>2. Carries(p)'
      BY <1>c, <2>1, <2>4, <3>1 DEF Carries, Naming, Recalling, Viewing, Holding
    <3> QED
      BY <2>2, <3>1, <3>2 DEF Sound
  <2> QED
    BY <1>3, <2>3, <2>4 DEF ImportInsert, Goto
<1>4. ASSUME ImportSync(p) PROVE Sound(p) /\ Quiet(p)
  <2> DEFINE i == box[p]
  <2>1. /\ pc[p] = "importSync" /\ i \in Ids /\ ec2[i].state # "none" /\ todo[p][i] # NoRow
        /\ todo[p][i] \in Row /\ UNCHANGED <<ec2, ssh>> /\ UNCHANGED counts
    BY <1>c, <1>4 DEF ImportSync, At, Carries, LocalsOK, Boxed, Steps
  <2>2. /\ db' \in [Ids -> Row \cup {NoRow}]
        /\ \A j \in Ids : (db'[j] # NoRow) <=> (db[j] # NoRow)
    <3>1. CASE Tracked(i)
      <4>1. db[i] \in Row
        BY <2>1, <3>1 DEF StoresOK, Tracked
      <4>2. [db[i] EXCEPT !.status = todo[p][i].status, !.type = todo[p][i].type,
                          !.ip = todo[p][i].ip] \in Row
        BY <2>1, <4>1 DEF Row
      <4>3. db' = [db EXCEPT ![i] =
                     [db[i] EXCEPT !.status = todo[p][i].status, !.type = todo[p][i].type,
                                   !.ip = todo[p][i].ip]]
        BY <1>4, <2>1, <3>1, <4>1 DEF ImportSync, StoresOK, Row
      <4> QED
        BY <2>1, <3>1, <4>2, <4>3, NonesAssumption DEF StoresOK, Tracked
    <3>2. CASE ~Tracked(i)
      BY <1>4, <3>2 DEF ImportSync, StoresOK
    <3> QED
      BY <3>1, <3>2
  <2>3. LocalsOK' /\ Others(p) /\ pc'[p] = "importHost" /\ UNCHANGED locals
    BY <1>4 DEF ImportSync, LocalsOK, Others, Goto, Keep, locals, Steps
  <2>4. StoresOK' /\ CountsOK' /\ Ages /\ Quiet(p)
    BY <2>1, <2>2, <2>3
    DEF StoresOK, CountsOK, counts, Ages, Quiet, SameHolding, Holding
  <2>5. Carries(p)'
    BY <1>c, <2>1, <2>3 DEF Carries, locals, Naming, Recalling, Viewing, Holding
  <2> QED
    BY <2>3, <2>4, <2>5 DEF Sound
<1>5. ASSUME ImportHost(p) PROVE Sound(p) /\ Quiet(p)
  <2>1. /\ pc[p] = "importHost" /\ box[p] \in Ids /\ todo[p][box[p]] \in Row
        /\ AddHost(todo[p][box[p]].name, todo[p][box[p]].ip)
        /\ DoneWith(p, box[p], "import") /\ UNCHANGED <<ec2, db>> /\ UNCHANGED counts
    BY <1>c, <1>5 DEF ImportHost, At, Carries, LocalsOK, Boxed, Steps
  <2>2. StoresOK' /\ CountsOK' /\ Ages
    <3>1. ssh' \in [Names -> Addrs \cup {NoAddr}]
      BY <2>1, HostType DEF Row
    <3> QED
      BY <2>1, <3>1 DEF StoresOK, CountsOK, counts, Ages
  <2>3. LocalsOK' /\ Carries(p)' /\ pc'[p] \in {"idle", "ls", "import"}
    BY <1>c, <2>1, <2>2, DoneSound
  <2>4. Others(p)
    BY <2>1 DEF DoneWith, Proceed, Exit, Goto, Others, LocalsOK
  <2>5. Quiet(p)
    BY <2>1, <2>3 DEF Quiet, SameHolding, counts, Holding
  <2> QED
    BY <2>2, <2>3, <2>4, <2>5 DEF Sound
<1> QED
  BY <1>1, <1>2, <1>3, <1>4, <1>5

\* The same of a command that is cut short anywhere.
LEMMA AbortSound == ASSUME IInv, NEW p \in Procs, Abort(p) PROVE Sound(p)
<1> USE DEF IInv, TypeOK
<1>1. /\ Exit(p) /\ UNCHANGED stores /\ UNCHANGED started
      /\ faults < MaxFaults /\ faults' = faults + 1
      /\ stray' = stray \cup (IF pc[p] \in Holding THEN {box[p]} ELSE {})
  BY DEF Abort
<1>2. pc[p] \in Holding => box[p] \in Ids
  BY DEF Carried, Carries, Holding, Boxed, Steps
<1>3. StoresOK' /\ CountsOK' /\ Ages /\ Others(p)
  BY <1>1, <1>2, BoundsAssumption
  DEF StoresOK, CountsOK, stores, Ages, Others, Exit, LocalsOK
<1> QED
  BY <1>1, <1>3, ExitSound DEF Sound

-----------------------------------------------------------------------------
(* AWS and the console. *)

\* Outside the CLI: one instance changes, and only a launch adds a stray.
LEMMA OutsideStep ==
  ASSUME IInv, NEW i \in Ids, AwsStep(i) \/ Console(i)
  PROVE  /\ TypeOK' /\ Ages /\ UNCHANGED <<db, pc>> /\ UNCHANGED locals
         /\ \A j \in Ids \ {i} : ec2'[j] = ec2[j]
         /\ \/ Stage(ec2'[i].state) = Stage(ec2[i].state) /\ stray' = stray
            \/ ec2[i].state \in Live /\ ec2'[i].state \in Dead /\ stray' = stray
            \/ ec2[i].state = "none" /\ ec2'[i].state \in Live /\ stray' = stray \cup {i}
<1> USE DEF IInv, TypeOK
<1>1. /\ UNCHANGED <<db, ssh, pc, started, faults>> /\ UNCHANGED locals
  BY DEF AwsStep, Console, BecomeRunning, BecomeStopped, Vanish, ConsoleLaunch,
         ConsoleTerminate, ConsoleStop, ConsoleStart, ConsoleRetag, External
<1>2. ec2[i] \in Instance
  BY DEF StoresOK
<1> DEFINE Becomes(v) ==
      /\ ec2' = [ec2 EXCEPT ![i] = v] /\ v \in Instance
      /\ \/ ec2[i].state \in Live /\ v.state \in Live /\ stray' = stray
         \/ ec2[i].state \in Dead /\ v.state = "gone" /\ stray' = stray
         \/ ec2[i].state \in Live /\ v.state \in Dead /\ stray' = stray
         \/ ec2[i].state = "none" /\ v.state \in Live /\ stray' = stray \cup {i}
<1>3. \E v : Becomes(v)
  <2>1. CASE BecomeRunning(i)
    <3>1. PICK a \in Pubs :
            ec2' = [ec2 EXCEPT ![i] = [ec2[i] EXCEPT !.state = "running", !.pub = a]]
      BY <1>2, <2>1 DEF BecomeRunning, StoresOK, Instance
    <3>2. Becomes([ec2[i] EXCEPT !.state = "running", !.pub = a])
      BY <1>2, <2>1, <3>1 DEF BecomeRunning, Instance, Live
    <3> QED
      BY <3>2
  <2>2. CASE BecomeStopped(i)
    <3>1. Becomes([ec2[i] EXCEPT !.state = "stopped", !.pub = NoAddr])
      BY <1>2, <2>2 DEF BecomeStopped, Instance, Live, StoresOK
    <3> QED
      BY <3>1
  <2>3. CASE Vanish(i)
    <3>1. Becomes([ec2[i] EXCEPT !.state = "gone"])
      BY <1>2, <2>3 DEF Vanish, Instance, Dead
    <3> QED
      BY <3>1
  <2>4. ASSUME NEW n \in Names \cup {NoName}, ConsoleLaunch(i, n) PROVE \E v : Becomes(v)
    <3>1. PICK t \in LaunchTypes : ec2' = [ec2 EXCEPT ![i] = Launched(n, t)]
      BY <2>4 DEF ConsoleLaunch
    <3>2. Launched(n, t) \in Instance /\ Launched(n, t).state \in Live
      BY LaunchedType DEF Live
    <3>3. ec2[i].state = "none" /\ stray' = stray \cup {i}
      BY <2>4 DEF ConsoleLaunch
    <3>4. Becomes(Launched(n, t))
      BY <3>1, <3>2, <3>3
    <3> QED
      BY <3>4
  <2>5. CASE ConsoleTerminate(i)
    <3>1. Becomes(Terminated(ec2[i]))
      BY <1>2, <2>5, TerminatedType DEF ConsoleTerminate
    <3> QED
      BY <3>1
  <2>6. CASE ConsoleStop(i)
    <3>1. Becomes([ec2[i] EXCEPT !.state = "stopping"])
      BY <1>2, <2>6 DEF ConsoleStop, Instance, Live
    <3> QED
      BY <3>1
  <2>7. CASE ConsoleStart(i)
    <3>1. Becomes([ec2[i] EXCEPT !.state = "pending"])
      BY <1>2, <2>7 DEF ConsoleStart, Instance, Live
    <3> QED
      BY <3>1
  <2>8. ASSUME NEW t \in Names \cup {NoName}, ConsoleRetag(i, t) PROVE \E v : Becomes(v)
    <3>1. Becomes([ec2[i] EXCEPT !.tag = t])
      BY <1>2, <2>8 DEF ConsoleRetag, Instance
    <3> QED
      BY <3>1
  <2> QED
    BY <2>1, <2>2, <2>3, <2>4, <2>5, <2>6, <2>7, <2>8 DEF AwsStep, Console
<1>4. PICK v : Becomes(v)
  BY <1>3
<1>5. /\ Ages /\ ec2' \in [Ids -> Instance] /\ ec2'[i] = v
      /\ \A j \in Ids \ {i} : ec2'[j] = ec2[j]
  <2>1. v.state # "none" /\ (ec2[i].state \in Dead => v.state \in Dead)
        /\ (ec2[i].state = "gone" => v.state = "gone")
    BY <1>4 DEF Live, Dead
  <2> QED
    BY <1>4, <2>1, OneInstance
<1>6. TypeOK'
  BY <1>1, <1>4, <1>5 DEF StoresOK, LocalsOK, CountsOK, locals
<1>7. Stage(v.state) = Stage(ec2[i].state) \/ ~(ec2[i].state \in Live /\ v.state \in Live)
  BY StageValue
<1>8. Stage(v.state) = Stage(ec2[i].state) \/ ~(ec2[i].state \in Dead /\ v.state = "gone")
  BY StageValue DEF Dead
<1> QED
  BY <1>1, <1>4, <1>5, <1>6, <1>7, <1>8

-----------------------------------------------------------------------------
(* The invariant. *)

\* What a process carries stays true while it does not move.
LEMMA CarryOver ==
  ASSUME NEW q \in Procs, Carries(q), Ages,
         pc'[q] = pc[q], box'[q] = box[q], arg'[q] = arg[q],
         old'[q] = old[q], todo'[q] = todo[q], view'[q] = view[q]
  PROVE  Carries(q)'
<1>1. pc[q] \in Boxed => ec2'[box[q]].state # "none"
  BY DEF Carries, Ages
<1>2. pc[q] \in {"deleteHost", "deleteRow"} => ec2'[box[q]].state \in Dead
  BY DEF Carries, Ages, Boxed, Steps
<1>3. \A i \in Ids : todo[q][i] # NoRow => ec2'[i].state # "none"
  BY DEF Carries, Ages
<1>4. \A i \in Ids : view[q][i] # NoInst /\ view[q][i].state = "gone" => ec2'[i].state = "gone"
  BY DEF Carries, Ages
<1> QED
  BY <1>1, <1>2, <1>3, <1>4 DEF Carries

\* p holds no instance it did not hold before.
NoNewHolding(p) == pc'[p] \in Holding => pc[p] \in Holding /\ box'[p] = box[p]

RowsFromBorn == \A i \in Ids : db'[i] # NoRow => db[i] # NoRow \/ ec2[i].state # "none"

\* A step that keeps its own part of the invariant keeps the whole of it, where creates
\* stay apart.
LEMMA SoundInv ==
  ASSUME IInv, NEW p \in Procs, Sound(p), HoldersApart', RowsFromBorn
  PROVE  IInv'
<1>1. Carried'
  BY CarryOver DEF IInv, Sound, Others, Carried
<1>2. RowsBorn'
  BY DEF IInv, RowsBorn, Tracked, RowsFromBorn, Sound, Ages
<1> QED
  BY <1>1, <1>2 DEF IInv, Sound

\* Creates stay apart in a step by which none gets an instance.
LEMMA ApartStep ==
  ASSUME IInv, NEW p \in Procs, Others(p), NoNewHolding(p)
  PROVE  HoldersApart'
BY DEF IInv, HoldersApart, Others, NoNewHolding

\* A step that moves nothing on the ledger keeps the invariant.
LEMMA QuietInv ==
  ASSUME IInv, NEW p \in Procs, Sound(p), Quiet(p)
  PROVE  IInv'
<1>1. NoNewHolding(p) /\ RowsFromBorn
  BY DEF Quiet, SameHolding, NoNewHolding, RowsFromBorn
<1> QED
  BY <1>1, ApartStep, SoundInv DEF Sound

-----------------------------------------------------------------------------
(* The ledger. *)

LedgerStep == [Ledger!Next]_(Ledger!ledger)

\* A step by which no create gets or leaves an instance holds what was held.
LEMMA HeldSame ==
  ASSUME NEW p \in Procs, Others(p), SameHolding(p)
  PROVE  Held' = Held
BY DEF Held, Others, SameHolding

\* A create that has launched an instance holds it.
LEMMA HeldGains ==
  ASSUME NEW p \in Procs, Others(p), pc[p] \notin Holding, pc'[p] \in Holding, box'[p] \in Ids
  PROVE  Held' = Held \cup {box'[p]}
BY DEF Held, Others

\* A create that leaves its instance lets go of that one only.
LEMMA HeldLoses ==
  ASSUME NEW p \in Procs, Others(p), HoldersApart, pc[p] \in Holding, pc'[p] \notin Holding
  PROVE  Held' = Held \ {box[p]}
BY DEF Held, Others, HoldersApart

\* The ledger's view of the state.
StageOf == [i \in Ids |-> Stage(ec2[i].state)]
TrackedIds == {i \in Ids : Tracked(i)}

\* Where stages, rows, holders and strays stay, the ledger stutters.
LEMMA SameLedger ==
  ASSUME \A i \in Ids : Stage(ec2'[i].state) = Stage(ec2[i].state),
         \A i \in Ids : (db'[i] # NoRow) <=> (db[i] # NoRow),
         Held' = Held, stray' = stray
  PROVE  LedgerStep
<1>1. StageOf' = StageOf
  BY DEF StageOf
<1>2. TrackedIds' = TrackedIds
  BY DEF TrackedIds, Tracked
<1> QED
  BY <1>1, <1>2 DEF LedgerStep, Ledger!ledger, StageOf, TrackedIds

\* A quiet step is a stutter of the ledger.
LEMMA QuietLedger ==
  ASSUME NEW p \in Procs, Others(p), Quiet(p)
  PROVE  LedgerStep
BY HeldSame, SameLedger DEF Quiet

\* The stage of one instance changes.
LEMMA StageChange ==
  ASSUME NEW i \in Ids, \A j \in Ids \ {i} : ec2'[j] = ec2[j]
  PROVE  StageOf' = [StageOf EXCEPT ![i] = Stage(ec2'[i].state)]
BY DEF StageOf

\* An instance that dies is a Die of the ledger.
LEMMA DieLedger ==
  ASSUME NEW i \in Ids, ec2[i].state \in Live, ec2'[i].state \in Dead,
         \A j \in Ids \ {i} : ec2'[j] = ec2[j],
         db' = db, Held' = Held, stray' = stray
  PROVE  LedgerStep
<1>1. StageOf' = [StageOf EXCEPT ![i] = "dead"] /\ StageOf[i] = "live"
  <2>1. Stage(ec2'[i].state) = "dead" /\ Stage(ec2[i].state) = "live"
    BY StageValue
  <2>2. StageOf' = [StageOf EXCEPT ![i] = Stage(ec2'[i].state)]
    BY StageChange
  <2> QED
    BY <2>1, <2>2 DEF StageOf
<1>2. TrackedIds' = TrackedIds
  BY DEF TrackedIds, Tracked
<1>3. Ledger!Die(i)
  BY <1>1, <1>2 DEF Ledger!Die, StageOf, TrackedIds
<1> QED
  BY <1>3 DEF LedgerStep, Ledger!Next

\* A row for an instance that was launched is a Track of the ledger.
LEMMA TrackLedger ==
  ASSUME NEW i \in Ids, NEW row, ec2[i] \in Instance, ec2[i].state # "none", row # NoRow,
         db \in [Ids -> Row \cup {NoRow}], db' = [db EXCEPT ![i] = row], ec2' = ec2,
         Held' \in {Held, Held \ {i}}, stray' = stray
  PROVE  LedgerStep
<1>1. StageOf' = StageOf /\ StageOf[i] # "unborn"
  BY StageValue DEF StageOf, Instance
<1>2. TrackedIds' = TrackedIds \cup {i}
  BY DEF TrackedIds, Tracked
<1>3. Ledger!Track(i)
  BY <1>1, <1>2 DEF Ledger!Track, StageOf, TrackedIds
<1> QED
  BY <1>3 DEF LedgerStep, Ledger!Next

\* The removal of a dead instance's row is a Drop of the ledger.
LEMMA DropLedger ==
  ASSUME NEW i \in Ids, ec2[i].state \in Dead, db \in [Ids -> Row \cup {NoRow}],
         db' = [db EXCEPT ![i] = NoRow], ec2' = ec2, Held' = Held, stray' = stray
  PROVE  LedgerStep
<1>1. StageOf' = StageOf /\ StageOf[i] = "dead"
  BY StageValue DEF StageOf
<1>2. TrackedIds' = TrackedIds \ {i}
  BY DEF TrackedIds, Tracked
<1>3. Ledger!Drop(i)
  BY <1>1, <1>2 DEF Ledger!Drop, StageOf, TrackedIds
<1> QED
  BY <1>3 DEF LedgerStep, Ledger!Next

-----------------------------------------------------------------------------
(* The steps that move something on the ledger. *)

Keeps == IInv' /\ LedgerStep

\* RunInstances keeps the invariant and is a step of the ledger: the create holds the new
\* id.
LEMMA RunInstancesKeeps == ASSUME IInv, NEW p \in Procs, RunInstances(p) PROVE Keeps
<1> USE DEF IInv, TypeOK
<1>1. Sound(p) /\ pc[p] = "launch" /\ pc[p] \notin Holding
  BY CreateSteps DEF RunInstances, At, Holding
<1>2. CASE Exit(p) /\ UNCHANGED <<ec2, db, ssh>> /\ UNCHANGED counts
  <2>1. Quiet(p)
    BY <1>1, <1>2, ExitSound DEF Quiet, SameHolding, Holding, counts
  <2> QED
    BY <1>1, <2>1, QuietInv, QuietLedger DEF Keeps, Sound
<1>3. ASSUME NEW i \in Ids, NEW t \in LaunchTypes, ec2[i].state = "none",
             ec2' = [ec2 EXCEPT ![i] = Launched(arg[p], t)],
             Goto(p, "insert"), box' = [box EXCEPT ![p] = i], UNCHANGED db, UNCHANGED counts
      PROVE  Keeps
  <2>1. pc'[p] = "insert" /\ box'[p] = i /\ pc'[p] \in Holding
    BY <1>3 DEF Goto, LocalsOK, Holding
  <2>2. HoldersApart'
    <3>1. \A q \in Procs : pc[q] \in Holding => box[q] \in Ids /\ box[q] # i
      BY <1>3 DEF Carried, Carries, Holding, Boxed, Steps
    <3> QED
      BY <1>1, <2>1, <3>1 DEF Sound, Others, HoldersApart
  <2>3. IInv'
    BY <1>1, <1>3, <2>2, SoundInv DEF RowsFromBorn
  <2>4. ec2'[i].state = "pending" /\ \A j \in Ids \ {i} : ec2'[j] = ec2[j]
    BY <1>3 DEF StoresOK, Launched
  <2>5. StageOf' = [StageOf EXCEPT ![i] = "live"] /\ StageOf[i] = "unborn"
    <3>1. Stage(ec2'[i].state) = "live" /\ Stage(ec2[i].state) = "unborn"
      BY <1>3, <2>4, StageValue DEF Live
    <3>2. StageOf' = [StageOf EXCEPT ![i] = Stage(ec2'[i].state)]
      BY <2>4, StageChange
    <3> QED
      BY <3>1, <3>2 DEF StageOf
  <2>6. Held' = Held \cup {i}
    BY <1>1, <2>1, HeldGains DEF Sound
  <2>7. TrackedIds' = TrackedIds /\ stray' = stray
    BY <1>3 DEF TrackedIds, Tracked, counts
  <2>8. Ledger!Launch(i)
    BY <2>5, <2>6, <2>7 DEF Ledger!Launch, StageOf, TrackedIds
  <2> QED
    BY <2>3, <2>8 DEF Keeps, LedgerStep, Ledger!Next
<1> QED
  BY <1>2, <1>3 DEF RunInstances

\* The INSERT is a Track that lets go of the id, or leaves it held.
LEMMA InsertInstanceKeeps == ASSUME IInv, NEW p \in Procs, InsertInstance(p) PROVE Keeps
<1> USE DEF IInv, TypeOK
<1>1. /\ Sound(p) /\ pc[p] = "insert" /\ pc[p] \in Holding
      /\ box[p] \in Ids /\ ec2[box[p]].state # "none" /\ ec2[box[p]] \in Instance
      /\ ec2' = ec2 /\ stray' = stray /\ UNCHANGED locals
  BY CreateSteps
  DEF InsertInstance, At, Holding, Carried, Carries, Boxed, Steps, StoresOK, counts, Keep
<1>2. CASE Goto(p, "cleanup") /\ UNCHANGED db
  <2>1. Quiet(p)
    BY <1>1, <1>2 DEF Quiet, SameHolding, Holding, Goto, LocalsOK, locals
  <2> QED
    BY <1>1, <2>1, QuietInv, QuietLedger DEF Keeps, Sound
<1>3. CASE /\ Goto(p, "addHost")
           /\ db' = [db EXCEPT ![box[p]] = NewRow(p)]
  <2>1. pc'[p] \notin Holding
    BY <1>3 DEF Goto, LocalsOK, Holding
  <2>2. IInv'
    <3>1. RowsFromBorn
      BY <1>1, <1>3 DEF RowsFromBorn, StoresOK
    <3>2. HoldersApart'
      BY <1>1, <2>1, ApartStep DEF NoNewHolding, Sound
    <3> QED
      BY <1>1, <3>1, <3>2, SoundInv
  <2>3. Held' = Held \ {box[p]}
    BY <1>1, <2>1, HeldLoses DEF Sound
  <2>4. NewRow(p) # NoRow
    <3>1. arg[p] \in Names
      BY <1>1 DEF Carried, Carries, Naming
    <3> QED
      BY <1>1, <3>1, NewRowType, NonesAssumption
  <2>5. LedgerStep
    BY <1>1, <1>3, <2>3, <2>4, TrackLedger DEF StoresOK
  <2> QED
    BY <2>2, <2>5 DEF Keeps
<1> QED
  BY <1>2, <1>3 DEF InsertInstance

\* A create that terminates what it could not record lets go of a dead id.
LEMMA CleanupKeeps == ASSUME IInv, NEW p \in Procs, Cleanup(p) PROVE Keeps
<1> USE DEF IInv, TypeOK
<1>1. /\ Sound(p) /\ pc[p] = "cleanup" /\ pc[p] \in Holding /\ Exit(p)
      /\ box[p] \in Ids /\ ec2[box[p]].state # "none" /\ ec2[box[p]] \in Instance
      /\ db' = db /\ stray' = stray
      /\ ec2' = [ec2 EXCEPT ![box[p]] = Terminated(@)]
  BY CreateSteps DEF Cleanup, At, Holding, Carried, Carries, Boxed, Steps, StoresOK, counts
<1>2. pc'[p] \notin Holding
  BY <1>1, ExitSound DEF Holding
<1>3. IInv'
  <2>1. HoldersApart'
    BY <1>1, <1>2, ApartStep DEF NoNewHolding, Sound
  <2> QED
    BY <1>1, <2>1, SoundInv DEF RowsFromBorn
<1>4. Held' = Held \ {box[p]} /\ box[p] \in Held
  BY <1>1, <1>2, HeldLoses DEF Sound, Held
<1>5. StageOf' = [StageOf EXCEPT ![box[p]] = "dead"]
  <2>1. ec2'[box[p]].state \in Dead /\ \A j \in Ids \ {box[p]} : ec2'[j] = ec2[j]
    BY <1>1, TerminatedType DEF StoresOK
  <2>2. Stage(ec2'[box[p]].state) = "dead"
    BY <2>1, StageValue
  <2> QED
    BY <1>1, <2>1, <2>2, StageChange
<1>6. TrackedIds' = TrackedIds
  BY <1>1 DEF TrackedIds, Tracked
<1>7. Ledger!Discard(box[p])
  BY <1>1, <1>4, <1>5, <1>6 DEF Ledger!Discard, StageOf, TrackedIds
<1> QED
  BY <1>1, <1>3, <1>7 DEF Keeps, LedgerStep, Ledger!Next

\* TerminateInstances is a Die of the ledger.
LEMMA TerminateKeeps == ASSUME IInv, NEW p \in Procs, TerminateInstances(p) PROVE Keeps
<1> USE DEF IInv, TypeOK
<1>1. /\ Sound(p) /\ pc[p] = "terminate" /\ db' = db /\ stray' = stray
      /\ box[p] \in Ids /\ ec2[box[p]].state # "none" /\ ec2[box[p]] \in Instance
  BY DeleteSteps DEF TerminateInstances, At, Carried, Carries, Boxed, Steps, StoresOK, counts
<1>2. pc[p] \notin Holding /\ pc'[p] \notin Holding /\ SameHolding(p)
  BY <1>1, ExitSound DEF TerminateInstances, Goto, LocalsOK, Holding, SameHolding
<1>3. IInv'
  <2>1. HoldersApart'
    BY <1>1, <1>2, ApartStep DEF NoNewHolding, Sound
  <2> QED
    BY <1>1, <2>1, SoundInv DEF RowsFromBorn
<1>4. Held' = Held
  BY <1>1, <1>2, HeldSame DEF Sound
<1>5. CASE UNCHANGED ec2
  BY <1>1, <1>3, <1>4, <1>5, SameLedger DEF Keeps
<1>6. CASE ec2' = [ec2 EXCEPT ![box[p]] = Terminated(@)]
  <2>1. ec2'[box[p]].state \in Dead /\ \A j \in Ids \ {box[p]} : ec2'[j] = ec2[j]
    BY <1>1, <1>6, TerminatedType DEF StoresOK
  <2>2. CASE ec2[box[p]].state \in Live
    BY <1>1, <1>3, <1>4, <2>1, <2>2, DieLedger DEF Keeps
  <2>3. CASE ec2[box[p]].state \in Dead
    <3>1. Stage(ec2'[box[p]].state) = "dead" /\ Stage(ec2[box[p]].state) = "dead"
      BY <2>1, <2>3, StageValue
    <3> QED
      BY <1>1, <1>3, <1>4, <2>1, <3>1, SameLedger DEF Keeps
  <2> QED
    BY <1>1, <2>2, <2>3 DEF Instance
<1> QED
  BY <1>5, <1>6 DEF TerminateInstances

\* Delete removes the row of an instance it has terminated.
LEMMA DeleteRowKeeps == ASSUME IInv, NEW p \in Procs, DeleteRow(p) PROVE Keeps
<1> USE DEF IInv, TypeOK
<1>1. /\ Sound(p) /\ pc[p] = "deleteRow" /\ pc[p] \notin Holding /\ Exit(p)
      /\ box[p] \in Ids /\ ec2[box[p]].state \in Dead
      /\ ec2' = ec2 /\ stray' = stray /\ db' = [db EXCEPT ![box[p]] = NoRow]
  BY DeleteSteps DEF DeleteRow, At, Carried, Carries, Boxed, Steps, Holding, counts
<1>2. SameHolding(p) /\ NoNewHolding(p)
  BY <1>1, ExitSound DEF SameHolding, NoNewHolding, Holding
<1>3. IInv'
  <2>1. RowsFromBorn
    BY <1>1 DEF RowsFromBorn, StoresOK
  <2> QED
    BY <1>1, <1>2, <2>1, ApartStep, SoundInv DEF Sound
<1>4. Held' = Held
  BY <1>1, <1>2, HeldSame DEF Sound
<1> QED
  BY <1>1, <1>3, <1>4, DropLedger DEF Keeps, StoresOK

\* ls removes the row of an instance that was gone from the answer, and still is.
LEMMA LsPruneKeeps == ASSUME IInv, NEW p \in Procs, NEW i \in Ids, LsPrune(p, i) PROVE Keeps
<1> USE DEF IInv, TypeOK
<1>1. /\ Sound(p) /\ pc[p] = "ls" /\ Goto(p, "lsDeleteHost")
      /\ ec2' = ec2 /\ stray' = stray /\ db' = [db EXCEPT ![i] = NoRow]
  BY LsSteps DEF LsPrune, Described, At, counts
<1>2. ec2[i].state \in Dead
  BY DEF LsPrune, Described, Carried, Carries, Dead
<1>3. SameHolding(p) /\ NoNewHolding(p)
  BY <1>1 DEF SameHolding, NoNewHolding, Holding, Goto, LocalsOK
<1>4. IInv'
  <2>1. RowsFromBorn
    BY <1>1 DEF RowsFromBorn, StoresOK
  <2> QED
    BY <1>1, <1>3, <2>1, ApartStep, SoundInv DEF Sound
<1>5. Held' = Held
  BY <1>1, <1>3, HeldSame DEF Sound
<1> QED
  BY <1>1, <1>2, <1>4, <1>5, DropLedger DEF Keeps, StoresOK

\* Import records an instance that was in the answer.
LEMMA ImportInsertKeeps ==
  ASSUME IInv, NEW p \in Procs, NEW i \in Ids, ImportInsert(p, i) PROVE Keeps
<1> USE DEF IInv, TypeOK
<1>1. /\ Sound(p) /\ pc[p] = "import" /\ todo[p][i] \in Row
      /\ ec2[i].state # "none" /\ ec2[i] \in Instance /\ ec2' = ec2 /\ stray' = stray
  <2>1. Sound(p)
    BY ImportSteps
  <2>2. pc[p] = "import" /\ todo[p][i] # NoRow /\ ec2' = ec2 /\ stray' = stray
    BY DEF ImportInsert, At, counts
  <2>3. todo[p][i] \in Row /\ ec2[i] \in Instance
    BY <2>2 DEF LocalsOK, StoresOK
  <2>4. ec2[i].state # "none"
    BY <2>2 DEF Carried, Carries
  <2> QED
    BY <2>1, <2>2, <2>3, <2>4
<1>2. SameHolding(p) /\ NoNewHolding(p)
  <2>1. pc'[p] \notin Holding
    BY <1>1, DoneSound
    DEF ImportInsert, Goto, LocalsOK, Holding, Carried, Sound
  <2> QED
    BY <1>1, <2>1 DEF SameHolding, NoNewHolding, Holding
<1>3. Held' = Held
  BY <1>1, <1>2, HeldSame DEF Sound
<1>4. CASE UNCHANGED db
  <2>1. Quiet(p)
    BY <1>1, <1>2, <1>4 DEF Quiet
  <2> QED
    BY <1>1, <2>1, QuietInv, QuietLedger DEF Keeps, Sound
<1>5. CASE db' = [db EXCEPT ![i] = [todo[p][i] EXCEPT !.ip = NoAddr]]
  <2>1. [todo[p][i] EXCEPT !.ip = NoAddr] # NoRow
    <3>1. [todo[p][i] EXCEPT !.ip = NoAddr] \in Row
      BY <1>1 DEF Row
    <3> QED
      BY <3>1, NonesAssumption
  <2>2. IInv'
    <3>1. RowsFromBorn
      BY <1>1, <1>5 DEF RowsFromBorn, StoresOK
    <3> QED
      BY <1>1, <1>2, <3>1, ApartStep, SoundInv DEF Sound
  <2> QED
    BY <1>1, <1>3, <1>5, <2>1, <2>2, TrackLedger DEF Keeps, StoresOK
<1> QED
  BY <1>4, <1>5 DEF ImportInsert

\* A command cut short leaves what a create held to the strays.
LEMMA AbortKeeps == ASSUME IInv, NEW p \in Procs, Abort(p) PROVE Keeps
<1> USE DEF IInv, TypeOK
<1>1. Sound(p) /\ Exit(p) /\ ec2' = ec2 /\ db' = db /\ pc'[p] \notin Holding
  BY AbortSound, ExitSound DEF Abort, stores, Holding
<1>2. IInv'
  BY <1>1, ApartStep, SoundInv DEF NoNewHolding, RowsFromBorn, Sound
<1>3. CASE pc[p] \notin Holding
  <2>1. Quiet(p)
    BY <1>1, <1>3 DEF Abort, Quiet, SameHolding
  <2> QED
    BY <1>1, <1>2, <2>1, QuietLedger DEF Keeps, Sound
<1>4. CASE pc[p] \in Holding
  <2>1. box[p] \in Held
    BY <1>4 DEF Held, Carried, Carries, Holding, Boxed, Steps
  <2>2. Held' = Held \ {box[p]} /\ stray' = stray \cup {box[p]}
    BY <1>1, <1>4, HeldLoses DEF Sound, Abort
  <2>3. StageOf' = StageOf /\ TrackedIds' = TrackedIds
    BY <1>1 DEF StageOf, TrackedIds, Tracked
  <2>4. box[p] \in Ids
    BY <2>1 DEF Held
  <2>5. Ledger!LetGo(box[p])
    BY <2>1, <2>2, <2>3 DEF Ledger!LetGo, StageOf, TrackedIds
  <2> QED
    BY <1>2, <2>4, <2>5 DEF Keeps, LedgerStep, Ledger!Next
<1> QED
  BY <1>3, <1>4

\* What AWS and the console do are steps of the ledger.
LEMMA OutsideKeeps ==
  ASSUME IInv, NEW i \in Ids, AwsStep(i) \/ Console(i) PROVE Keeps
<1> USE DEF IInv, TypeOK
<1>1. /\ TypeOK' /\ Ages /\ UNCHANGED <<db, pc>> /\ UNCHANGED locals
      /\ \A j \in Ids \ {i} : ec2'[j] = ec2[j]
  BY OutsideStep
<1>2. Held' = Held /\ TrackedIds' = TrackedIds
  BY <1>1 DEF Held, locals, TrackedIds, Tracked
<1>3. IInv'
  <2>1. Carried'
    BY <1>1, CarryOver DEF Carried, locals
  <2>2. RowsBorn' /\ HoldersApart'
    BY <1>1 DEF RowsBorn, Tracked, Ages, HoldersApart, locals
  <2> QED
    BY <1>1, <2>1, <2>2
<1>4. CASE Stage(ec2'[i].state) = Stage(ec2[i].state) /\ stray' = stray
  BY <1>1, <1>2, <1>3, <1>4, SameLedger DEF Keeps
<1>5. CASE ec2[i].state \in Live /\ ec2'[i].state \in Dead /\ stray' = stray
  BY <1>1, <1>2, <1>3, <1>5, DieLedger DEF Keeps
<1>6. CASE ec2[i].state = "none" /\ ec2'[i].state \in Live /\ stray' = stray \cup {i}
  <2>1. Stage(ec2'[i].state) = "live" /\ Stage(ec2[i].state) = "unborn"
    BY <1>6, StageValue
  <2>2. StageOf' = [StageOf EXCEPT ![i] = "live"] /\ StageOf[i] = "unborn"
    BY <1>1, <2>1, StageChange DEF StageOf
  <2>3. Ledger!Appear(i)
    BY <1>2, <1>6, <2>2 DEF Ledger!Appear, StageOf, TrackedIds
  <2> QED
    BY <1>3, <2>3 DEF Keeps, LedgerStep, Ledger!Next
<1> QED
  BY <1>4, <1>5, <1>6, OutsideStep

-----------------------------------------------------------------------------
(* Every step. *)

\* A quiet step keeps the invariant and the ledger.
LEMMA QuietKeeps == ASSUME IInv, NEW p \in Procs, Sound(p), Quiet(p) PROVE Keeps
BY QuietInv, QuietLedger DEF Keeps, Sound

\* A command that starts moves nothing on the ledger.
LEMMA BeginKeeps ==
  ASSUME IInv, NEW p \in Procs, BeginCommand(p) \/ LsBegin(p) PROVE Keeps
<1>1. Sound(p) /\ Quiet(p)
  BY CreateSteps, DeleteSteps, PowerSteps, RenameSteps, LsSteps, ImportSteps DEF BeginCommand
<1> QED
  BY <1>1, QuietKeeps

\* Every step of a command keeps the invariant and is a step of the ledger.
LEMMA CommandKeeps == ASSUME IInv, NEW p \in Procs, Step(p) PROVE Keeps
<1>1. CASE RunInstances(p) \/ InsertInstance(p) \/ Cleanup(p) \/ AddHostOrWarn(p)
  BY <1>1, CreateSteps, RunInstancesKeeps, InsertInstanceKeeps, CleanupKeeps, QuietKeeps
<1>2. CASE TerminateInstances(p) \/ DeleteBoxHost(p) \/ DeleteRow(p)
  BY <1>2, DeleteSteps, TerminateKeeps, DeleteRowKeeps, QuietKeeps
<1>3. CASE StopInstances(p) \/ StartInstances(p) \/ RebootInstances(p)
           \/ ModifyType(p) \/ ModifyVolume(p) \/ Refresh(p) \/ SyncRow(p) \/ SyncHost(p)
  BY <1>3, PowerSteps, QuietKeeps
<1>4. CASE CreateTags(p) \/ UpdateInstanceName(p) \/ RenameBoxHost(p)
  BY <1>4, RenameSteps, QuietKeeps
<1>5. CASE \/ \E r \in Regions : LsDescribe(p, r)
           \/ \E i \in Ids : LsPrune(p, i) \/ LsUnchanged(p, i) \/ LsSync(p, i)
                             \/ LsRefused(p, i)
           \/ LsDeleteHost(p) \/ LsSyncHost(p)
  BY <1>5, LsSteps, LsPruneKeeps, QuietKeeps
<1>6. CASE \/ \E i \in Ids : ImportSkip(p, i) \/ ImportInsert(p, i)
           \/ ImportSync(p) \/ ImportHost(p)
  BY <1>6, ImportSteps, ImportInsertKeeps, QuietKeeps
<1> QED
  BY <1>1, <1>2, <1>3, <1>4, <1>5, <1>6 DEF Step

\* So does every fault.
LEMMA FaultKeeps == ASSUME IInv, NEW p \in Procs, Fault(p) PROVE Keeps
BY CreateSteps, LsSteps, AbortKeeps, QuietKeeps DEF Fault

\* And every step of the specification.
LEMMA NextKeeps == IInv /\ [Next]_vars => Keeps
<1> SUFFICES ASSUME IInv, [Next]_vars PROVE Keeps
  OBVIOUS
<1>1. CASE Next
  BY <1>1, BeginKeeps, CommandKeeps, FaultKeeps, OutsideKeeps DEF Next
<1>2. CASE UNCHANGED vars
  <2>1. IInv'
    BY <1>2 DEF vars, IInv, TypeOK, StoresOK, LocalsOK, CountsOK, Carried, Carries, RowsBorn,
      Tracked, HoldersApart
  <2>2. Held' = Held /\ stray' = stray /\ ec2' = ec2 /\ db' = db
    BY <1>2 DEF vars, Held
  <2> QED
    BY <2>1, <2>2, SameLedger DEF Keeps
<1> QED
  BY <1>1, <1>2

-----------------------------------------------------------------------------
(* What the ledger alone implies. *)

\* The initial states map to that of the ledger.
LEMMA InitLedger == Init => Ledger!Init
<1> SUFFICES ASSUME Init PROVE Ledger!Init
  OBVIOUS
<1>1. \A i \in Ids : Stage(ec2[i].state) = "unborn"
  BY DEF Init, Unborn, Stage, Live, Dead
<1>2. \A i \in Ids : ~Tracked(i)
  BY DEF Init, NoTodo, Tracked
<1>3. Held = {} /\ stray = {}
  BY DEF Init, Held, Holding
<1> QED
  BY <1>1, <1>2, <1>3 DEF Ledger!Init

\* Nothing is alive at first.
LEMMA InitAccounted == Init => Accounted
BY DEF Init, Accounted, Unborn, Live

\* On the ledger, an instance that is alive is tracked, held or a stray; no step of
\* the ledger takes a live one off all three.
LEMMA LedgerAccounts ==
  ASSUME TypeOK, TypeOK', LedgerStep, Accounted PROVE Accounted'
<1> SUFFICES ASSUME NEW j \in Ids, ec2'[j].state \in Live
             PROVE  Tracked(j)' \/ j \in Held' \/ j \in stray'
  BY DEF Accounted
<1>1. \A k \in Ids : /\ StageOf[k] = "live" <=> ec2[k].state \in Live
                     /\ StageOf'[k] = "live" <=> ec2'[k].state \in Live
  BY StageValue DEF StageOf, TypeOK, StoresOK, Instance, Stage, Live, Dead
<1>2. StageOf[j] = "live" => j \in TrackedIds \/ j \in Held \/ j \in stray
  BY <1>1 DEF Accounted, TrackedIds
<1>3. \A k \in Ids : k \in TrackedIds' <=> Tracked(k)'
  BY DEF TrackedIds
<1>4. CASE UNCHANGED <<StageOf, TrackedIds, Held, stray>>
  BY <1>1, <1>2, <1>3, <1>4
<1>5. ASSUME NEW i \in Ids, Ledger!Launch(i) \/ Ledger!Appear(i)
      PROVE  j \in TrackedIds' \/ j \in Held' \/ j \in stray'
  BY <1>1, <1>2, <1>5 DEF Ledger!Launch, Ledger!Appear, StageOf, TrackedIds
<1>6. ASSUME NEW i \in Ids, Ledger!Track(i) \/ Ledger!LetGo(i)
      PROVE  j \in TrackedIds' \/ j \in Held' \/ j \in stray'
  BY <1>1, <1>2, <1>6 DEF Ledger!Track, Ledger!LetGo, StageOf, TrackedIds
<1>7. ASSUME NEW i \in Ids, Ledger!Die(i) \/ Ledger!Drop(i) \/ Ledger!Discard(i)
      PROVE  j \in TrackedIds' \/ j \in Held' \/ j \in stray'
  BY <1>1, <1>2, <1>7 DEF Ledger!Die, Ledger!Drop, Ledger!Discard, StageOf, TrackedIds
<1> QED
  BY <1>3, <1>4, <1>5, <1>6, <1>7
  DEF LedgerStep, Ledger!Next, Ledger!ledger, StageOf, TrackedIds

\* On the ledger a row is dropped by Drop only, of a dead instance.
LEMMA LedgerDrops ==
  ASSUME TypeOK, LedgerStep, NEW i \in Ids, Tracked(i), db'[i] = NoRow
  PROVE  ec2[i].state \in Dead
<1>1. StageOf[i] = "dead" => ec2[i].state \in Dead
  BY StageValue DEF StageOf, TypeOK, StoresOK, Instance
<1>2. i \in TrackedIds /\ i \notin TrackedIds'
  BY DEF TrackedIds, Tracked
<1>3. ~ UNCHANGED Ledger!ledger
  BY <1>2 DEF Ledger!ledger, TrackedIds
<1>4. PICK k \in Ids : Ledger!Drop(k)
  BY <1>2, <1>3 DEF LedgerStep, Ledger!Next, Ledger!Launch, Ledger!Appear, Ledger!Track,
    Ledger!Die, Ledger!Discard, Ledger!LetGo, TrackedIds
<1>5. k = i
  BY <1>2, <1>4 DEF Ledger!Drop, TrackedIds
<1> QED
  BY <1>1, <1>4, <1>5 DEF Ledger!Drop, StageOf

-----------------------------------------------------------------------------
(* The theorems. *)

\* The invariant behind the others: whatever happens between two steps of a command,
\* what it carries still says the truth about the age of the instances it names.
THEOREM Inductive == Spec => []IInv
<1>1. IInv /\ [Next]_vars => IInv'
  BY NextKeeps DEF Keeps
<1> QED
  BY <1>1, InitIInv, PTL DEF Spec

\* Every store and every local of a command keeps its type: no command writes a row
\* or an ssh block from an answer it does not have.
THEOREM TypeCorrect == Spec => []TypeOK
BY Inductive, PTL DEF IInv

\* The commands implement the ledger: every step of the CLI, of AWS and of the
\* console is one bookkeeping step or none (create launches, records or discards;
\* delete and ls drop the dead only; a cut-short create leaves a stray).
THEOREM Refinement == Spec => LedgerSpec
<1>1. IInv /\ [Next]_vars => LedgerStep
  BY NextKeeps DEF Keeps
<1> QED
  BY <1>1, InitLedger, Inductive, PTL DEF Spec, LedgerSpec, Ledger!Spec, LedgerStep

\* No orphan EC2 instance: one that is alive has a row, is in the hands of the create
\* that launched it, or was launched elsewhere or by a create that was cut short.
THEOREM Accounting == Spec => []Accounted
<1>1. IInv /\ Accounted /\ [Next]_vars => Accounted'
  BY NextKeeps, LedgerAccounts DEF Keeps, IInv
<1> QED
  BY <1>1, InitAccounted, Inductive, PTL DEF Spec

\* delete and ls drop a row only when its instance is terminated or gone by then,
\* whatever happened since they looked.
THEOREM OnlyDeadDropped == Spec => DropsOnlyDead
<1>1. IInv /\ [Next]_vars =>
        [\A i \in Ids : Tracked(i) /\ db'[i] = NoRow => ec2[i].state \in Dead]_vars
  BY NextKeeps, LedgerDrops DEF Keeps, IInv
<1> QED
  BY <1>1, Inductive, PTL DEF Spec, DropsOnlyDead

-----------------------------------------------------------------------------
(* delete *)

\* A step of the program moves one process.
LEMMA OneProcess ==
  ASSUME IInv, NEW p \in Procs, BeginCommand(p) \/ LsBegin(p) \/ Step(p) \/ Fault(p)
  PROVE  Others(p)
<1>1. CASE BeginCommand(p) \/ LsBegin(p)
  BY <1>1, CreateSteps, DeleteSteps, PowerSteps, RenameSteps, LsSteps, ImportSteps
  DEF BeginCommand, Sound
<1>2. CASE Step(p)
  BY <1>2, CreateSteps, DeleteSteps, PowerSteps, RenameSteps, LsSteps, ImportSteps
  DEF Step, Sound
<1>3. CASE Fault(p)
  BY <1>3, CreateSteps, LsSteps, AbortSound DEF Fault, Sound
<1> QED
  BY <1>1, <1>2, <1>3

\* Of the steps of a process that is past TerminateInstances, only those of delete
\* itself and a fault are possible.
LEMMA PastTerminate ==
  ASSUME NEW p \in Procs, pc[p] \in {"deleteHost", "deleteRow"},
         BeginCommand(p) \/ LsBegin(p) \/ Step(p) \/ Fault(p)
  PROVE  DeleteBoxHost(p) \/ DeleteRow(p) \/ Abort(p)
<1>1. ~BeginCommand(p) /\ ~LsBegin(p)
  BY DEF BeginCommand, LsBegin, CreateBegin, DeleteBegin, StopBegin, StartBegin, RebootBegin,
    ResizeBegin, PowerBegin, RenameBegin, ImportBegin, Begin, At
<1>2. CASE Step(p)
  BY <1>2 DEF Step, RunInstances, InsertInstance, Cleanup, AddHostOrWarn, TerminateInstances,
    StopInstances, StartInstances, RebootInstances, PowerCall, ModifyType, ModifyVolume, Refresh, SyncRow, SyncHost,
    CreateTags, UpdateInstanceName, RenameBoxHost, LsDescribe, LsPrune, LsUnchanged, LsSync,
    LsRefused, LsDeleteHost, LsSyncHost, ImportSkip, ImportInsert, ImportSync, ImportHost,
    Described, At
<1>3. CASE Fault(p)
  BY <1>3 DEF Fault, InsertFails, LsSkipRegion, At
<1> QED
  BY <1>1, <1>2, <1>3

\* A delete that returns without a fault has no row for its box, where no name has white
\* space.
LEMMA DeleteReturns ==
  ASSUME Spaced = {}, IInv, [Next]_vars, NEW p \in Procs,
         pc[p] \in {"deleteHost", "deleteRow"}, pc'[p] = "idle", faults' = faults
  PROVE  db'[box[p]] = NoRow
<1>1. box[p] \in Ids
  BY DEF IInv, Carried, Carries, Boxed, Steps
<1>2. PICK q \in Procs : BeginCommand(q) \/ LsBegin(q) \/ Step(q) \/ Fault(q)
  <2>1. \A i \in Ids : AwsStep(i) \/ Console(i) => pc' = pc
    BY OutsideStep
  <2> QED
    BY <2>1 DEF Next, vars
<1>3. q = p
  BY <1>2, OneProcess DEF Others
<1>4. ~Abort(p)
  BY DEF Abort, IInv, TypeOK, CountsOK
<1>5. CASE DeleteBoxHost(p)
  BY <1>5 DEF DeleteBoxHost, Goto, IInv, TypeOK, LocalsOK
<1>6. CASE DeleteRow(p)
  BY <1>1, <1>6 DEF DeleteRow, IInv, TypeOK, StoresOK
<1> QED
  BY <1>2, <1>3, <1>4, <1>5, <1>6, PastTerminate

\* Where no name has white space, a delete that got past TerminateInstances and is not
\* cut short returns with the row gone.
THEOREM DeleteDropsRow == Spaced = {} => (Spec => DeleteLeavesNoRow)
<1> SUFFICES ASSUME Spaced = {} PROVE Spec => DeleteLeavesNoRow
  OBVIOUS
<1>1. IInv /\ [Next]_vars =>
        [\A p \in Procs :
           /\ pc[p] \in {"deleteHost", "deleteRow"} /\ pc'[p] = "idle"
           /\ faults' = faults
           => db'[box[p]] = NoRow]_vars
  BY DeleteReturns
<1> QED
  BY <1>1, Inductive, PTL DEF Spec, DeleteLeavesNoRow

-----------------------------------------------------------------------------
(* What was deleted stays deleted.                                                       *)

\* No import, and no box terminated at the console.
OwnBoxesOnly == "import" \notin Commands /\ "terminate" \notin ConsoleOps
Importing == {"import", "importSync", "importHost"}
NoImports == \A p \in Procs : pc[p] \notin Importing

\* A launched instance that has no row yet is alive, and in nobody else's hands.
Newborn ==
  \A q \in Procs : pc[q] = "insert" =>
    /\ ec2[box[q]].state \in Live /\ ~Tracked(box[q])
    /\ \A p \in Procs \ {q} : (pc[p] \in Boxed => box[p] # box[q]) /\ todo[p][box[q]] = NoRow

DeadInv == NoImports /\ Newborn

\* How a step of p comes by the box it works on: it had it, it is on the books, ls has
\* read it there, or it has just been launched.
Gets(p) ==
  /\ pc'[p] \notin Importing
  /\ \A i \in Ids : todo'[p][i] # NoRow => todo[p][i] # NoRow \/ Tracked(i)
  /\ pc'[p] \in Boxed => \/ pc[p] \in Boxed /\ box'[p] = box[p] /\ pc'[p] # "insert"
                         \/ Tracked(box'[p]) /\ pc'[p] # "insert"
                         \/ todo[p][box'[p]] # NoRow /\ pc'[p] # "insert"
                         \/ ec2[box'[p]].state = "none" /\ ec2'[box'[p]].state \in Live

\* What it does to boxes: none dies but its own, and a row is new only for what it launched.
Spares(p) ==
  /\ \A i \in Ids : ec2[i].state \in Live => ec2'[i].state \in Live \/ (pc[p] \in Boxed /\ box[p] = i)
  /\ \A i \in Ids : db'[i] # NoRow => Tracked(i) \/ (pc[p] = "insert" /\ box[p] = i)

\* A step that leaves instances and rows alone takes no create's instance away.
LEMMA SameSpares == ASSUME NEW p \in Procs, ec2' = ec2, db' = db PROVE Spares(p)
BY DEF Spares, Tracked

\* A command that returns gets no instance.
LEMMA ExitGets == ASSUME LocalsOK, NEW p \in Procs, Exit(p) PROVE Gets(p)
<1>1. pc'[p] = "idle" /\ todo'[p] = NoTodo
  BY DEF Exit, LocalsOK
<1> QED
  BY <1>1 DEF Gets, Importing, Boxed, NoTodo

\* A command that goes on with the box it has gets none.
LEMMA GoOnGets ==
  ASSUME LocalsOK, NEW p \in Procs, pc[p] \in Boxed, NEW s \in Steps \ (Importing \cup {"insert"}),
         Goto(p, s), UNCHANGED <<box, todo>>
  PROVE  Gets(p)
<1>1. pc'[p] = s
  BY DEF Goto, LocalsOK
<1> QED
  BY <1>1 DEF Gets

\* Nor does ls, when it is done with a row.
LEMMA DoneGets ==
  ASSUME LocalsOK, NEW p \in Procs, NEW i \in Ids, DoneWith(p, i, "ls") PROVE Gets(p)
<1>1. CASE Exit(p)
  BY <1>1, ExitGets
<1>2. CASE pc' = [pc EXCEPT ![p] = "ls"] /\ todo' = [todo EXCEPT ![p] = [todo[p] EXCEPT ![i] = NoRow]]
  <2>1. pc'[p] = "ls" /\ \A j \in Ids : todo'[p][j] # NoRow => todo[p][j] # NoRow
    BY <1>2 DEF LocalsOK
  <2> QED
    BY <2>1 DEF Gets, Importing, Boxed
<1> QED
  BY <1>1, <1>2 DEF DoneWith, Proceed, Goto

\* Nor does a command that starts, where nothing is imported.
LEMMA BeginGets ==
  ASSUME OwnBoxesOnly, IInv, NEW p \in Procs, BeginCommand(p) \/ LsBegin(p)
  PROVE  Gets(p) /\ Spares(p)
<1> USE DEF IInv, TypeOK
<1>1. Spares(p)
  <2>1. ec2' = ec2 /\ db' = db
    BY DEF BeginCommand, LsBegin, CreateBegin, DeleteBegin, StopBegin, StartBegin, RebootBegin,
      ResizeBegin, PowerBegin, RenameBegin, ImportBegin, Begin, stores
  <2> QED
    BY <2>1, SameSpares
<1>2. ASSUME NEW n \in Names, CreateBegin(p, n) PROVE Gets(p)
  <2>1. pc'[p] = "launch" /\ todo' = todo
    BY <1>2 DEF CreateBegin, Goto, LocalsOK
  <2> QED
    BY <2>1 DEF Gets, Importing, Boxed
<1>3. ASSUME NEW i \in Ids, NEW s \in {"terminate", "stop", "start", "reboot", "resize", "tag"},
             Goto(p, s), box' = [box EXCEPT ![p] = i], todo' = todo, Tracked(i)
      PROVE  Gets(p)
  <2>1. pc'[p] = s /\ box'[p] = i
    BY <1>3 DEF Goto, LocalsOK
  <2> QED
    BY <1>3, <2>1 DEF Gets, Importing
<1>4. CASE LsBegin(p)
  <2>1. pc'[p] = "ls" /\ todo'[p] = db
    BY <1>4 DEF LsBegin, Goto, LocalsOK
  <2>2. \A i \in Ids : todo'[p][i] # NoRow => Tracked(i)
    BY <2>1 DEF Tracked
  <2>3. pc'[p] \notin Importing /\ pc'[p] \notin Boxed
    BY <2>1 DEF Importing, Boxed
  <2> QED
    BY <1>1, <2>2, <2>3 DEF Gets
<1>5. \A r \in Regions : ~ImportBegin(p, r)
  BY DEF OwnBoxesOnly, ImportBegin, Begin
<1>6. ASSUME NEW i \in Ids,
             \/ DeleteBegin(p, i) \/ StopBegin(p, i) \/ StartBegin(p, i)
             \/ RebootBegin(p, i) \/ ResizeBegin(p, i) \/ \E n \in Names : RenameBegin(p, i, n)
      PROVE  Gets(p)
  BY <1>3, <1>6 DEF DeleteBegin, StopBegin, StartBegin, RebootBegin, ResizeBegin, PowerBegin,
    RenameBegin
<1> QED
  BY <1>1, <1>2, <1>4, <1>5, <1>6 DEF BeginCommand

\* Create gets an instance no other process has, and takes none away.
LEMMA CreateGets ==
  ASSUME IInv, NEW p \in Procs
  PROVE  RunInstances(p) \/ InsertInstance(p) \/ Cleanup(p) \/ AddHostOrWarn(p)
         \/ InsertFails(p) => Gets(p) /\ Spares(p)
<1> USE DEF IInv, TypeOK
<1>b. pc[p] \in Boxed => box[p] \in Ids
  BY DEF Carried, Carries
<1>1. ASSUME RunInstances(p) PROVE Gets(p) /\ Spares(p)
  <2>1. CASE Exit(p) /\ ec2' = ec2 /\ db' = db
    BY <2>1, ExitGets, SameSpares
  <2>2. ASSUME NEW i \in Ids, NEW t \in LaunchTypes, ec2[i].state = "none",
               ec2' = [ec2 EXCEPT ![i] = Launched(arg[p], t)], Goto(p, "insert"),
               box' = [box EXCEPT ![p] = i], todo' = todo, db' = db
        PROVE  Gets(p) /\ Spares(p)
    <3>1. pc'[p] = "insert" /\ box'[p] = i /\ ec2'[i].state = "pending"
      BY <2>2 DEF Goto, LocalsOK, StoresOK, Launched
    <3>2. Gets(p)
      BY <2>2, <3>1 DEF Gets, Importing, Live
    <3>3. Spares(p)
      BY <2>2 DEF Spares, Tracked, StoresOK, Live
    <3> QED
      BY <3>2, <3>3
  <2> QED
    BY <1>1, <2>1, <2>2 DEF RunInstances
<1>2. ASSUME InsertInstance(p) PROVE Gets(p) /\ Spares(p)
  <2>1. /\ pc[p] = "insert"
        /\ Goto(p, "addHost") \/ Goto(p, "cleanup")
        /\ UNCHANGED <<box, todo>> /\ ec2' = ec2
        /\ db' = [db EXCEPT ![box[p]] = NewRow(p)] \/ db' = db
    BY <1>2 DEF InsertInstance, At, Keep, locals
  <2>2. Gets(p)
    BY <2>1, GoOnGets DEF Boxed, Steps, Importing
  <2>3. Spares(p)
    BY <2>1 DEF Spares, Tracked, StoresOK
  <2> QED
    BY <2>2, <2>3
<1>3. ASSUME Cleanup(p) PROVE Gets(p) /\ Spares(p)
  <2>1. /\ pc[p] \in Boxed /\ Exit(p) /\ db' = db
        /\ ec2' = [ec2 EXCEPT ![box[p]] = Terminated(@)]
    BY <1>3 DEF Cleanup, At, Boxed, Steps
  <2>2. Spares(p)
    BY <1>b, <2>1 DEF Spares, Tracked, StoresOK
  <2> QED
    BY <2>1, <2>2, ExitGets
<1>4. ASSUME AddHostOrWarn(p) PROVE Gets(p) /\ Spares(p)
  BY <1>4, ExitGets, SameSpares DEF AddHostOrWarn
<1>5. ASSUME InsertFails(p) PROVE Gets(p) /\ Spares(p)
  <2>1. /\ pc[p] = "insert" /\ Goto(p, "cleanup") /\ UNCHANGED <<box, todo>> /\ ec2' = ec2 /\ db' = db
    BY <1>5 DEF InsertFails, At, Keep, locals, stores
  <2> QED
    BY <2>1, GoOnGets, SameSpares DEF Boxed, Steps, Importing
<1> QED
  BY <1>1, <1>2, <1>3, <1>4, <1>5

\* Delete gets none, and spares those the others are about to record.
LEMMA DeleteGets ==
  ASSUME IInv, NEW p \in Procs
  PROVE  TerminateInstances(p) \/ DeleteBoxHost(p) \/ DeleteRow(p) => Gets(p) /\ Spares(p)
<1> USE DEF IInv, TypeOK
<1>b. pc[p] \in Boxed => box[p] \in Ids
  BY DEF Carried, Carries
<1>1. ASSUME TerminateInstances(p) \/ DeleteBoxHost(p) \/ DeleteRow(p) PROVE Gets(p)
  <2>1. /\ pc[p] \in Boxed
        /\ Exit(p) \/ \E s \in {"deleteHost", "deleteRow"} : Goto(p, s) /\ UNCHANGED <<box, todo>>
    BY <1>1 DEF TerminateInstances, DeleteBoxHost, DeleteRow, At, Keep, locals, Boxed, Steps
  <2> QED
    BY <2>1, ExitGets, GoOnGets DEF Steps, Importing
<1>2. ASSUME TerminateInstances(p) PROVE Spares(p)
  BY <1>2, <1>b DEF TerminateInstances, At, Spares, Tracked, StoresOK, Boxed, Steps
<1>3. ASSUME DeleteBoxHost(p) PROVE Spares(p)
  BY <1>3, SameSpares DEF DeleteBoxHost
<1>4. ASSUME DeleteRow(p) PROVE Spares(p)
  BY <1>4 DEF DeleteRow, Spares, Tracked, StoresOK
<1> QED
  BY <1>1, <1>2, <1>3, <1>4

\* So do stop, start, reboot, resize and rename.
LEMMA PowerGets ==
  ASSUME IInv, NEW p \in Procs
  PROVE  \/ StopInstances(p) \/ StartInstances(p) \/ RebootInstances(p) \/ ModifyType(p)
         \/ ModifyVolume(p) \/ Refresh(p) \/ SyncRow(p) \/ SyncHost(p)
         \/ CreateTags(p) \/ UpdateInstanceName(p) \/ RenameBoxHost(p)
         => Gets(p) /\ Spares(p)
<1> USE DEF IInv, TypeOK
<1>1. ASSUME \/ StopInstances(p) \/ StartInstances(p) \/ RebootInstances(p) \/ ModifyType(p)
             \/ ModifyVolume(p) \/ Refresh(p) \/ SyncRow(p) \/ SyncHost(p)
             \/ CreateTags(p) \/ UpdateInstanceName(p) \/ RenameBoxHost(p)
      PROVE  Gets(p)
  <2>1. pc[p] \in {"stop", "start", "reboot", "resize", "volume", "refresh", "sync", "syncHost",
                   "tag", "setName", "renameHost"}
    BY <1>1 DEF StopInstances, StartInstances, RebootInstances, PowerCall, ModifyType,
      ModifyVolume, Refresh, SyncRow, SyncHost, CreateTags, UpdateInstanceName, RenameBoxHost, At
  <2>2. \/ Exit(p)
        \/ \E s \in {"volume", "refresh", "sync", "syncHost", "setName", "renameHost"} :
             Goto(p, s) /\ UNCHANGED <<box, todo>>
    BY <1>1 DEF StopInstances, StartInstances, RebootInstances, PowerCall, ModifyType,
      ModifyVolume, Refresh, SyncRow, SyncHost, CreateTags, UpdateInstanceName, RenameBoxHost,
      Keep, locals
  <2>3. pc[p] \in Boxed
    BY <2>1 DEF Boxed, Steps
  <2> QED
    BY <2>2, <2>3, ExitGets, GoOnGets DEF Steps, Importing
<1>2. ASSUME NEW s, NEW from, NEW to \in Live, NEW same, PowerCall(p, s, from, to, same)
      PROVE  Spares(p)
  BY <1>2 DEF PowerCall, Spares, Tracked, StoresOK, Instance
<1>3. ASSUME StopInstances(p) \/ StartInstances(p) \/ RebootInstances(p) PROVE Spares(p)
  BY <1>2, <1>3 DEF StopInstances, StartInstances, RebootInstances, Live
<1>4. ASSUME ModifyType(p) \/ CreateTags(p) PROVE Spares(p)
  <2>1. db' = db /\ \A i \in Ids : ec2'[i].state = ec2[i].state
    <3>1. CASE ModifyType(p)
      BY <3>1 DEF ModifyType, StoresOK, Instance
    <3>2. CASE CreateTags(p)
      BY <3>2 DEF CreateTags, StoresOK, Instance
    <3> QED
      BY <1>4, <3>1, <3>2
  <2> QED
    BY <2>1 DEF Spares, Tracked
<1>5. ASSUME ModifyVolume(p) \/ Refresh(p) \/ SyncHost(p) \/ RenameBoxHost(p) PROVE Spares(p)
  BY <1>5, SameSpares DEF ModifyVolume, Refresh, SyncHost, RenameBoxHost, stores
<1>6. ASSUME SyncRow(p) \/ UpdateInstanceName(p) PROVE Spares(p)
  BY <1>6 DEF SyncRow, SyncInstanceFromAWS, UpdateInstanceName, UpdateRefused, Spares, Tracked,
    StoresOK
<1> QED
  BY <1>1, <1>3, <1>4, <1>5, <1>6

\* So does ls.
LEMMA LsGets ==
  ASSUME IInv, NEW p \in Procs
  PROVE  \/ \E r \in Regions : LsDescribe(p, r) \/ LsSkipRegion(p, r)
         \/ \E i \in Ids : LsPrune(p, i) \/ LsUnchanged(p, i) \/ LsSync(p, i) \/ LsRefused(p, i)
         \/ LsDeleteHost(p) \/ LsSyncHost(p)
         => Gets(p) /\ Spares(p)
<1> USE DEF IInv, TypeOK
<1>k. Carries(p)
  BY DEF Carried
<1>b. pc[p] \in {"lsDeleteHost", "lsSyncHost"} => box[p] \in Ids
  BY <1>k DEF Carries, Boxed, Steps
<1>1. ASSUME NEW r \in Regions, LsDescribe(p, r) PROVE Gets(p) /\ Spares(p)
  <2>1. pc'[p] = "ls" /\ todo' = todo /\ ec2' = ec2 /\ db' = db
    BY <1>1 DEF LsDescribe, At, stores
  <2>2. pc'[p] \notin Importing /\ pc'[p] \notin Boxed
    BY <2>1 DEF Importing, Boxed
  <2> QED
    BY <2>1, <2>2, SameSpares DEF Gets
<1>2. ASSUME NEW r \in Regions, LsSkipRegion(p, r) PROVE Gets(p) /\ Spares(p)
  <2> DEFINE rest == [i \in Ids |-> IF RegionOf[i] = r THEN NoRow ELSE todo[p][i]]
  <2>1. ec2' = ec2 /\ db' = db /\ Proceed(p, rest, "ls")
    BY <1>2 DEF LsSkipRegion, stores
  <2>2. CASE Exit(p)
    BY <2>1, <2>2, ExitGets, SameSpares
  <2>3. CASE pc' = [pc EXCEPT ![p] = "ls"] /\ todo' = [todo EXCEPT ![p] = rest]
    <3>1. pc'[p] = "ls" /\ \A j \in Ids : todo'[p][j] # NoRow => todo[p][j] # NoRow
      BY <2>3 DEF LocalsOK
    <3>2. pc'[p] \notin Importing /\ pc'[p] \notin Boxed
      BY <3>1 DEF Importing, Boxed
    <3> QED
      BY <2>1, <3>1, <3>2, SameSpares DEF Gets
  <2> QED
    BY <2>1, <2>2, <2>3 DEF Proceed, Goto
<1>3. ASSUME NEW i \in Ids, NEW s \in {"lsDeleteHost", "lsSyncHost"}, Described(p, i), Goto(p, s),
             box' = [box EXCEPT ![p] = i], todo' = todo
      PROVE  Gets(p)
  <2>1. pc'[p] = s /\ box'[p] = i
    BY <1>3 DEF Goto, LocalsOK
  <2>2. todo[p][i] # NoRow
    BY <1>3, <1>k DEF Described, At, Carries
  <2> QED
    BY <1>3, <2>1, <2>2 DEF Gets, Importing
<1>4. ASSUME NEW i \in Ids, LsPrune(p, i) PROVE Gets(p) /\ Spares(p)
  <2>1. Gets(p)
    BY <1>3, <1>4 DEF LsPrune
  <2>2. Spares(p)
    BY <1>4 DEF LsPrune, Spares, Tracked, StoresOK
  <2> QED
    BY <2>1, <2>2
<1>5. ASSUME NEW i \in Ids, LsSync(p, i) PROVE Gets(p) /\ Spares(p)
  <2>1. Gets(p)
    BY <1>3, <1>5, DoneGets DEF LsSync
  <2>2. Spares(p)
    BY <1>5 DEF LsSync, SyncInstanceFromAWS, Spares, Tracked, StoresOK
  <2> QED
    BY <2>1, <2>2
<1>6. ASSUME NEW i \in Ids, LsUnchanged(p, i) \/ LsRefused(p, i) PROVE Gets(p) /\ Spares(p)
  BY <1>6, DoneGets, ExitGets, SameSpares DEF LsUnchanged, LsRefused, stores
<1>7. ASSUME LsDeleteHost(p) \/ LsSyncHost(p) PROVE Gets(p) /\ Spares(p)
  BY <1>7, <1>b, DoneGets, ExitGets, SameSpares DEF LsDeleteHost, LsSyncHost, At
<1> QED
  BY <1>1, <1>2, <1>4, <1>5, <1>6, <1>7

\* So does every step of a command.
LEMMA StepGets ==
  ASSUME OwnBoxesOnly, IInv, DeadInv, NEW p \in Procs,
         BeginCommand(p) \/ LsBegin(p) \/ Step(p) \/ Fault(p)
  PROVE  Gets(p) /\ Spares(p)
<1>1. \A i \in Ids : ~ImportSkip(p, i) /\ ~ImportInsert(p, i)
  BY DEF DeadInv, NoImports, Importing, ImportSkip, ImportInsert, At
<1>2. ~ImportSync(p) /\ ~ImportHost(p)
  BY DEF DeadInv, NoImports, Importing, ImportSync, ImportHost, At
<1>3. CASE Step(p)
  BY <1>1, <1>2, <1>3, CreateGets, DeleteGets, PowerGets, LsGets DEF Step
<1>4. CASE Fault(p)
  <2>1. CASE Abort(p)
    BY <2>1, ExitGets, SameSpares DEF Abort, stores, IInv, TypeOK
  <2> QED
    BY <1>4, <2>1, CreateGets, LsGets DEF Fault
<1> QED
  BY <1>3, <1>4, BeginGets

\* What a command has launched and not yet recorded, nobody else can reach.
LEMMA NewbornStep ==
  ASSUME IInv, IInv', DeadInv, NEW p \in Procs, Gets(p), Spares(p), Others(p)
  PROVE  DeadInv'
<1>1. NoImports'
  BY DEF DeadInv, NoImports, Gets, Others
<1>2. ASSUME NEW q \in Procs, pc'[q] = "insert"
      PROVE  /\ ec2'[box'[q]].state \in Live /\ db'[box'[q]] = NoRow
             /\ \A r \in Procs \ {q} :
                  (pc'[r] \in Boxed => box'[r] # box'[q]) /\ todo'[r][box'[q]] = NoRow
  <2> DEFINE i == box'[q]
  <2>1. i \in Ids /\ \A r \in Procs : Carries(r)
    BY <1>2 DEF IInv, Carried, Carries, Boxed, Steps
  <2>2. CASE q = p
    <3>1. ec2[i].state = "none" /\ ec2'[i].state \in Live
      BY <1>2, <2>2 DEF Gets, Boxed, Steps
    <3>2. \A r \in Procs : (pc[r] \in Boxed => box[r] # i) /\ todo[r][i] = NoRow
      BY <2>1, <3>1 DEF Carries
    <3>3. ~Tracked(i)
      BY <2>1, <3>1 DEF IInv, RowsBorn
    <3>4. db'[i] = NoRow
      BY <2>1, <3>2, <3>3 DEF Spares, Boxed, Steps
    <3> QED
      BY <2>2, <3>1, <3>2, <3>4 DEF Others
  <2>3. CASE q # p
    <3>1. pc[q] = "insert" /\ i = box[q]
      BY <1>2, <2>3 DEF Others
    <3>2. /\ ec2[i].state \in Live /\ ~Tracked(i)
          /\ \A r \in Procs \ {q} : (pc[r] \in Boxed => box[r] # i) /\ todo[r][i] = NoRow
      BY <3>1 DEF DeadInv, Newborn
    <3>3. ec2'[i].state \in Live /\ db'[i] = NoRow
      BY <2>1, <2>3, <3>2 DEF Spares, Boxed, Steps
    <3>4. todo'[p][i] = NoRow
      BY <2>1, <2>3, <3>2 DEF Gets
    <3>5. pc'[p] \in Boxed => box'[p] # i
      BY <2>3, <3>2 DEF Gets, Live
    <3> QED
      BY <2>3, <3>1, <3>2, <3>3, <3>4, <3>5 DEF Others
  <2> QED
    BY <2>2, <2>3
<1>3. Newborn'
  BY <1>2 DEF Newborn, Tracked
<1> QED
  BY <1>1, <1>3 DEF DeadInv

\* What AWS does, and the console without terminating, spares them too, and writes no row.
LEMMA OutsideNewborn ==
  ASSUME OwnBoxesOnly, IInv, DeadInv, NEW i \in Ids, AwsStep(i) \/ Console(i)
  PROVE  DeadInv' /\ db' = db
<1>1. db' = db /\ pc' = pc /\ UNCHANGED locals
  BY DEF AwsStep, Console, BecomeRunning, BecomeStopped, Vanish, ConsoleTerminate, ConsoleStop,
     ConsoleStart, ConsoleLaunch, ConsoleRetag, External
<1>2. \A j \in Ids : ec2[j].state \in Live => ec2'[j].state \in Live
  <2> USE DEF IInv, TypeOK, StoresOK, Instance, Live
  <2>1. CASE BecomeRunning(i) \/ BecomeStopped(i) \/ Vanish(i) \/ ConsoleStop(i) \/ ConsoleStart(i)
    BY <2>1 DEF BecomeRunning, BecomeStopped, Vanish, ConsoleStop, ConsoleStart
  <2>2. ASSUME NEW t \in Names \cup {NoName}, ConsoleLaunch(i, t) \/ ConsoleRetag(i, t)
        PROVE  \A j \in Ids : ec2[j].state \in Live => ec2'[j].state \in Live
    BY <2>2 DEF ConsoleLaunch, ConsoleRetag, Launched
  <2> QED
    BY <2>1, <2>2 DEF AwsStep, Console, ConsoleTerminate, OwnBoxesOnly
<1>3. \A q \in Procs : pc[q] = "insert" => box[q] \in Ids
  BY DEF IInv, Carried, Carries, Boxed, Steps
<1> QED
  BY <1>1, <1>2, <1>3 DEF DeadInv, NoImports, Newborn, Tracked, locals

\* A step keeps the invariant of DeletedForGood, and gives no row to what is dead and has
\* none.
LEMMA DeadNext ==
  ASSUME OwnBoxesOnly, IInv, DeadInv, [Next]_vars
  PROVE  /\ DeadInv'
         /\ \A i \in Ids : ec2[i].state \in Dead /\ ~Tracked(i) => db'[i] = NoRow
<1>1. IInv'
  BY NextKeeps DEF Keeps
<1>2. ASSUME NEW p \in Procs, BeginCommand(p) \/ LsBegin(p) \/ Step(p) \/ Fault(p)
      PROVE  /\ DeadInv'
             /\ \A i \in Ids : ec2[i].state \in Dead /\ ~Tracked(i) => db'[i] = NoRow
  <2>1. Gets(p) /\ Spares(p) /\ Others(p)
    BY <1>2, StepGets, OneProcess
  <2>2. DeadInv'
    BY <1>1, <2>1, NewbornStep
  <2>3. pc[p] = "insert" => ec2[box[p]].state \in Live
    BY DEF DeadInv, Newborn
  <2> QED
    BY <2>1, <2>2, <2>3 DEF Spares, Live, Dead
<1>3. CASE UNCHANGED vars
  BY <1>3 DEF vars, DeadInv, NoImports, Newborn, Tracked
<1> QED
  BY <1>2, <1>3, OutsideNewborn DEF Next, Tracked

\* Where no box is imported and none is terminated at the console, what was deleted stays
\* deleted, however many commands run at once and whichever are cut short.
THEOREM DeletedForGood == OwnBoxesOnly => (Spec => DeletedStaysDeleted)
<1> SUFFICES ASSUME OwnBoxesOnly PROVE Spec => DeletedStaysDeleted
  OBVIOUS
<1>1. Init => DeadInv
  BY DEF Init, DeadInv, NoImports, Newborn, Importing
<1>2. IInv /\ DeadInv /\ [Next]_vars => DeadInv'
  BY DeadNext
<1>3. IInv /\ DeadInv /\ [Next]_vars =>
        [\A i \in Ids : ec2[i].state \in Dead /\ ~Tracked(i) => db'[i] = NoRow]_vars
  BY DeadNext
<1> QED
  BY <1>1, <1>2, <1>3, Inductive, PTL DEF Spec, DeletedStaysDeleted

-----------------------------------------------------------------------------
(* Names and tags, one command at a time.                                               *)

\* One process that nothing cuts short, no import and no tag changed at the console.
OneAtATime ==
  /\ \A p, q \in Procs : p = q
  /\ MaxFaults = 0
  /\ "import" \notin Commands /\ "retag" \notin ConsoleOps

\* A row has the Name tag of its instance, but between a rename's tag and its row.
Tagged ==
  \A i \in Ids : Tracked(i) =>
    db[i].name = ec2[i].tag \/ \E p \in Procs : At(p, "setName") /\ box[p] = i

\* UNIQUE(user_id, name).
RowsApart ==
  \A i, j \in Ids : Tracked(i) /\ Tracked(j) /\ db[i].name = db[j].name => i = j

\* What a command knows of names while no other runs.
Recording == {"terminate", "deleteHost", "deleteRow", "tag", "setName", "lsSyncHost"}
Powering == {"stop", "start", "reboot", "resize", "volume", "refresh", "sync", "syncHost"}
Answered == Viewing \cup {"ls", "lsDeleteHost"}

Named(p, n) == Tracked(box[p]) /\ db[box[p]].name = n
Knows(p) ==
  /\ pc[p] \notin {"cleanup", "import", "importSync", "importHost"}
  /\ pc[p] \in {"launch", "insert"} => ~NameTaken(arg[p])
  /\ pc[p] = "insert" => ~Tracked(box[p]) /\ ec2[box[p]].tag = arg[p]
  /\ pc[p] \in {"addHost", "renameHost"} => Named(p, arg[p])
  /\ pc[p] \in Recording => Named(p, old[p])
  /\ pc[p] \in Powering /\ old[p] # NoName => Named(p, old[p])
  /\ pc[p] \in {"tag", "setName"} => ~NameTakenByOther(arg[p], box[p])
  /\ pc[p] = "setName" => ec2[box[p]].tag = arg[p]
  /\ pc[p] \in Answered => \A i \in Ids : view[p][i] # NoInst =>
       ec2[i].state # "none" /\ view[p][i].tag = ec2[i].tag
  /\ \A i \in Ids : todo[p][i] # NoRow =>
       /\ pc[p] \in {"ls", "lsDeleteHost", "lsSyncHost"}
       /\ \/ Tracked(i) /\ db[i].name = todo[p][i].name
          \/ pc[p] = "lsDeleteHost" /\ box[p] = i

NamesInv == Tagged /\ RowsApart /\ \A p \in Procs : Knows(p)

\* No row comes, goes or changes its name, and no instance its tag.
NamesKept ==
  \A i \in Ids :
    /\ (db'[i] # NoRow) <=> (db[i] # NoRow)
    /\ db[i] # NoRow => db'[i].name = db[i].name
    /\ ec2[i].state # "none" => ec2'[i].tag = ec2[i].tag

\* Without a row there is no name to differ.
LEMMA NamesInit == Init => NamesInv
BY DEF Init, NamesInv, Tagged, RowsApart, Tracked, NoTodo, NoView, Knows, Recording, Powering,
   Answered, Viewing

\* Whatever p does, short of a fault, is sound.
LEMMA StepSound ==
  ASSUME IInv, NEW p \in Procs, BeginCommand(p) \/ LsBegin(p) \/ Step(p)
  PROVE  Sound(p)
<1>1. CASE BeginCommand(p) \/ LsBegin(p)
  BY <1>1, CreateSteps, DeleteSteps, PowerSteps, RenameSteps, LsSteps, ImportSteps
  DEF BeginCommand
<1>2. CASE Step(p)
  BY <1>2, CreateSteps, DeleteSteps, PowerSteps, RenameSteps, LsSteps, ImportSteps DEF Step
<1> QED
  BY <1>1, <1>2

\* A step that leaves rows and tags alike, outside a rename, keeps the names' invariant.
LEMMA NamesFrom ==
  ASSUME OneAtATime, IInv, NamesInv, NEW p \in Procs, NamesKept, pc[p] # "setName", Knows(p)'
  PROVE  NamesInv'
<1>1. Tagged'
  BY DEF OneAtATime, NamesInv, Tagged, NamesKept, Tracked, At, IInv, RowsBorn
<1>2. RowsApart'
  BY DEF NamesInv, RowsApart, NamesKept, Tracked
<1>3. \A q \in Procs : Knows(q)'
  BY DEF OneAtATime
<1> QED
  BY <1>1, <1>2, <1>3 DEF NamesInv

\* A command that returns has nothing left to know.
LEMMA ExitKnows ==
  ASSUME LocalsOK, NEW p \in Procs, Exit(p)
  PROVE  Knows(p)'
<1>1. pc'[p] = "idle" /\ todo'[p] = NoTodo
  BY DEF LocalsOK, Exit
<1> QED
  BY <1>1 DEF Knows, NoTodo, Recording, Powering, Answered, Viewing

\* So does a command that returns.
LEMMA ExitNames ==
  ASSUME OneAtATime, IInv, NamesInv, NEW p \in Procs, NamesKept, pc[p] # "setName", Exit(p)
  PROVE  NamesInv'
BY NamesFrom, ExitKnows DEF IInv, TypeOK

\* A step that changes neither rows nor instances leaves the names alike.
LEMMA SameNames == ASSUME ec2' = ec2, db' = db PROVE NamesKept
BY DEF NamesKept

\* Then the same names are taken.
LEMMA SameTaken ==
  ASSUME NamesKept
  PROVE  /\ \A n : NameTaken(n)' <=> NameTaken(n)
         /\ \A n : \A i \in Ids : NameTakenByOther(n, i)' <=> NameTakenByOther(n, i)
         /\ \A i \in Ids : Tracked(i)' <=> Tracked(i)
BY DEF NamesKept, NameTaken, NameTakenByOther, Tracked

\* An answer of AWS gives a row no other name than it has.
LEMMA SyncNames ==
  ASSUME OneAtATime, NamesInv, NEW p \in Procs, pc[p] # "setName", IInv,
         NEW i \in Ids, NEW v \in Instance, v.tag = ec2[i].tag, v.state \notin {"none", "gone"},
         SyncInstanceFromAWS(i, v), ec2' = ec2
  PROVE  NamesKept
<1>1. CASE Tracked(i)
  <2>1. db[i].name = ec2[i].tag
    BY <1>1 DEF OneAtATime, NamesInv, Tagged, At
  <2>2. Synced(db[i], i, v).name = db[i].name
    BY <2>1 DEF Synced
  <2>3. db' = [db EXCEPT ![i] = Synced(db[i], i, v)]
    BY <1>1 DEF SyncInstanceFromAWS
  <2>4. \A j \in Ids : (db'[j] # NoRow) <=> Tracked(j)
    BY SyncDb DEF IInv
  <2> QED
    BY <2>2, <2>3, <2>4 DEF NamesKept, Tracked, IInv, TypeOK, StoresOK
<1>2. CASE ~Tracked(i)
  BY <1>2 DEF SyncInstanceFromAWS, NamesKept
<1> QED
  BY <1>1, <1>2
-----------------------------------------------------------------------------
\* Create records an instance under the name it has tagged it with, which is free.
LEMMA CreateNames ==
  ASSUME OneAtATime, IInv, NamesInv, NEW p \in Procs, Sound(p)
  PROVE  /\ \A n \in Names : CreateBegin(p, n) => NamesInv'
         /\ RunInstances(p) => NamesInv'
         /\ InsertInstance(p) => NamesInv'
         /\ ~Cleanup(p)
         /\ AddHostOrWarn(p) => NamesInv'
<1> USE DEF IInv, TypeOK
<1>k. Knows(p) /\ Carries(p) /\ \A q \in Procs : q = p
  BY DEF NamesInv, Carried, OneAtATime
<1>1. ASSUME NEW n \in Names, CreateBegin(p, n) PROVE NamesInv'
  <2>1. /\ pc' = [pc EXCEPT ![p] = "launch"] /\ arg' = [arg EXCEPT ![p] = n]
        /\ UNCHANGED <<box, old, todo, view, ec2, db>> /\ pc[p] = "idle" /\ ~NameTaken(n)
    BY <1>1 DEF CreateBegin, Begin, Goto, At
  <2>2. NamesKept
    BY <2>1, SameNames
  <2>3. pc'[p] = "launch" /\ arg'[p] = n /\ todo'[p] = todo[p]
    BY <2>1 DEF LocalsOK
  <2>4. Knows(p)'
    BY <1>k, <2>1, <2>2, <2>3, SameTaken DEF Knows, Recording, Powering, Answered, Viewing, NamesKept, Tracked
  <2> QED
    BY <2>1, <2>2, <2>4, NamesFrom
<1>2. ASSUME RunInstances(p) PROVE NamesInv'
  <2>1. CASE Exit(p) /\ ec2' = ec2 /\ db' = db /\ At(p, "launch")
    BY <2>1, SameNames, ExitNames DEF At
  <2>2. ASSUME NEW i \in Ids, NEW t \in LaunchTypes, ec2[i].state = "none", At(p, "launch"),
               ec2' = [ec2 EXCEPT ![i] = Launched(arg[p], t)],
               Goto(p, "insert"), box' = [box EXCEPT ![p] = i],
               UNCHANGED <<arg, old, todo, view, db>>
        PROVE  NamesInv'
    <3>1. NamesKept
      BY <2>2 DEF NamesKept, StoresOK
    <3>2. /\ pc'[p] = "insert" /\ box'[p] = i /\ arg'[p] = arg[p] /\ todo'[p] = todo[p]
          /\ ec2'[i].tag = arg[p] /\ pc[p] = "launch"
      BY <2>2 DEF LocalsOK, StoresOK, Launched, Goto, At
    <3>3. ~Tracked(i)
      BY <2>2 DEF RowsBorn
    <3>4. Knows(p)'
      BY <1>k, <2>2, <3>1, <3>2, <3>3, SameTaken
      DEF Knows, Recording, Powering, Answered, Viewing, NamesKept, Tracked
    <3> QED
      BY <3>1, <3>2, <3>4, NamesFrom
  <2> QED
    BY <1>2, <2>1, <2>2 DEF RunInstances
<1>3. ASSUME InsertInstance(p) PROVE NamesInv'
  <2> DEFINE b == box[p]
  <2>1. /\ pc[p] = "insert" /\ ~NameTaken(arg[p]) /\ ~Tracked(b) /\ ec2[b].tag = arg[p]
        /\ b \in Ids /\ arg[p] \in Names
    BY <1>3, <1>k DEF InsertInstance, At, Knows, Carries, Boxed, Naming, Steps
  <2>2. /\ db' = [db EXCEPT ![b] = NewRow(p)] /\ pc' = [pc EXCEPT ![p] = "addHost"]
        /\ UNCHANGED <<box, arg, old, todo, view, ec2>>
    BY <1>3, <2>1 DEF InsertInstance, InsertRefused, Goto, Keep, locals
  <2>3. /\ db'[b] # NoRow /\ db'[b].name = arg[p] /\ \A j \in Ids \ {b} : db'[j] = db[j]
    BY <2>1, <2>2, NewRowType, NonesAssumption DEF StoresOK, NewRow
  <2>4. pc'[p] = "addHost" /\ todo'[p] = todo[p]
    BY <2>2 DEF LocalsOK
  <2>5. Knows(p)'
    BY <1>k, <2>1, <2>2, <2>3, <2>4 DEF Knows, Recording, Powering, Answered, Viewing, Named, Tracked
  <2>6. RowsApart'
    BY <2>1, <2>3 DEF NamesInv, RowsApart, NameTaken, Tracked
  <2>7. Tagged'
    BY <1>k, <2>1, <2>2, <2>3 DEF NamesInv, Tagged, Tracked, At
  <2> QED
    BY <1>k, <2>5, <2>6, <2>7 DEF NamesInv
<1>4. ~Cleanup(p)
  BY <1>k DEF Cleanup, At, Knows
<1>5. ASSUME AddHostOrWarn(p) PROVE NamesInv'
  BY <1>5, SameNames, ExitNames DEF AddHostOrWarn, At
<1> QED
  BY <1>1, <1>2, <1>3, <1>4, <1>5

-----------------------------------------------------------------------------
\* Delete removes the row of a dead box, and changes no name.
LEMMA DeleteNames ==
  ASSUME OneAtATime, IInv, NamesInv, NEW p \in Procs, Sound(p)
  PROVE  /\ \A i \in Ids : DeleteBegin(p, i) => NamesInv'
         /\ TerminateInstances(p) \/ DeleteBoxHost(p) \/ DeleteRow(p) => NamesInv'
<1> USE DEF IInv, TypeOK
<1>k. Knows(p) /\ Carries(p) /\ \A q \in Procs : q = p
  BY DEF NamesInv, Carried, OneAtATime
<1>1. ASSUME NEW i \in Ids, DeleteBegin(p, i) PROVE NamesInv'
  <2>1. /\ pc' = [pc EXCEPT ![p] = "terminate"] /\ box' = [box EXCEPT ![p] = i]
        /\ old' = [old EXCEPT ![p] = db[i].name] /\ Tracked(i)
        /\ UNCHANGED <<arg, todo, view, ec2, db>> /\ pc[p] = "idle"
    BY <1>1 DEF DeleteBegin, Begin, Goto, At
  <2>2. NamesKept
    BY <2>1, SameNames
  <2>3. pc'[p] = "terminate" /\ box'[p] = i /\ old'[p] = db[i].name /\ todo'[p] = todo[p]
    BY <2>1 DEF LocalsOK
  <2>4. Knows(p)'
    BY <1>k, <2>1, <2>3 DEF Knows, Named, Recording, Powering, Answered, Viewing, Tracked
  <2> QED
    BY <2>1, <2>2, <2>4, NamesFrom
<1>2. ASSUME TerminateInstances(p) PROVE NamesInv'
  <2>1. box[p] \in Ids /\ pc[p] = "terminate" /\ ec2[box[p]] \in Instance /\ db' = db
    BY <1>2, <1>k DEF TerminateInstances, At, Carries, Boxed, Steps, StoresOK
  <2>2. CASE Exit(p) /\ ec2' = ec2
    BY <2>1, <2>2, SameNames, ExitNames
  <2>3. CASE /\ ec2' = [ec2 EXCEPT ![box[p]] = Terminated(@)]
             /\ pc' = [pc EXCEPT ![p] = "deleteHost"] /\ UNCHANGED <<box, arg, old, todo, view>>
    <3>1. Terminated(ec2[box[p]]).tag = ec2[box[p]].tag
      BY <2>1 DEF Terminated, Instance
    <3>2. NamesKept
      BY <2>1, <2>3, <3>1 DEF NamesKept, StoresOK
    <3>3. pc'[p] = "deleteHost"
      BY <2>3 DEF LocalsOK
    <3>4. Knows(p)'
      BY <1>k, <2>1, <2>3, <3>3 DEF Knows, Named, Recording, Powering, Answered, Viewing, Tracked
    <3> QED
      BY <2>1, <3>2, <3>4, NamesFrom
  <2> QED
    BY <1>2, <2>2, <2>3 DEF TerminateInstances, Goto, Keep, locals
<1>3. ASSUME DeleteBoxHost(p) PROVE NamesInv'
  <2>1. pc[p] = "deleteHost" /\ ec2' = ec2 /\ db' = db
    BY <1>3 DEF DeleteBoxHost, At
  <2>2. CASE Exit(p)
    BY <2>1, <2>2, SameNames, ExitNames
  <2>3. CASE pc' = [pc EXCEPT ![p] = "deleteRow"] /\ UNCHANGED <<box, arg, old, todo, view>>
    <3>1. pc'[p] = "deleteRow"
      BY <2>3 DEF LocalsOK
    <3>2. Knows(p)'
      BY <1>k, <2>1, <2>3, <3>1 DEF Knows, Named, Recording, Powering, Answered, Viewing, Tracked
    <3> QED
      BY <2>1, <3>2, SameNames, NamesFrom
  <2> QED
    BY <1>3, <2>2, <2>3 DEF DeleteBoxHost, Goto, Keep, locals
<1>4. ASSUME DeleteRow(p) PROVE NamesInv'
  <2>1. /\ pc[p] = "deleteRow" /\ ec2' = ec2 /\ box[p] \in Ids /\ db' = [db EXCEPT ![box[p]] = NoRow]
    BY <1>4, <1>k DEF DeleteRow, At, Carries, Boxed, Steps
  <2>2. \A j \in Ids : db'[j] # NoRow => db'[j] = db[j]
    BY <2>1 DEF StoresOK
  <2>3. Tagged' /\ RowsApart'
    BY <1>k, <2>1, <2>2 DEF NamesInv, Tagged, RowsApart, Tracked, At
  <2>4. Knows(p)'
    BY <1>4, ExitKnows DEF DeleteRow
  <2> QED
    BY <1>k, <2>3, <2>4 DEF NamesInv
<1> QED
  BY <1>1, <1>2, <1>3, <1>4
-----------------------------------------------------------------------------
\* The steps of stop, start, reboot and resize from the one after the first.
LEMMA GoOnNames ==
  ASSUME OneAtATime, IInv, NamesInv, NEW p \in Procs, pc[p] \in Powering \ Viewing,
         NEW step \in Powering \ Viewing, Goto(p, step), Keep, NamesKept
  PROVE  NamesInv'
<1>1. Knows(p)
  BY DEF NamesInv
<1>2. /\ pc'[p] = step /\ UNCHANGED <<box, arg, old, todo, view>> /\ pc[p] # "setName"
  BY DEF Goto, Keep, locals, IInv, TypeOK, LocalsOK, Powering
<1>3. pc[p] \in Powering => box[p] \in Ids
  BY DEF Powering, IInv, Carried, Carries, Boxed, Steps
<1>4. Knows(p)'
  BY <1>1, <1>2, <1>3 DEF Knows, Named, Recording, Powering, Answered, Viewing, Tracked, NamesKept
<1> QED
  BY <1>2, <1>4, NamesFrom

\* A call that changes an instance's state leaves its tag.
LEMMA PowerCallNames ==
  ASSUME OneAtATime, IInv, NamesInv, NEW p \in Procs,
         NEW step \in Powering \ Viewing, NEW from, NEW to, NEW same,
         PowerCall(p, step, from, to, same)
  PROVE  NamesInv'
<1>1. pc[p] = step /\ db' = db /\ pc[p] # "setName"
  BY DEF PowerCall, At, Powering
<1>2. CASE Goto(p, "refresh") /\ Keep /\ ec2' = [ec2 EXCEPT ![box[p]].state = to]
  <2>1. NamesKept
    BY <1>1, <1>2 DEF NamesKept, IInv, TypeOK, StoresOK, Instance
  <2> QED
    BY <1>1, <1>2, <2>1, GoOnNames DEF Powering, Viewing
<1>3. CASE Goto(p, "refresh") /\ Keep /\ ec2' = ec2
  BY <1>1, <1>3, SameNames, GoOnNames DEF Powering, Viewing
<1>4. CASE Exit(p) /\ ec2' = ec2
  BY <1>1, <1>4, SameNames, ExitNames
<1> QED
  BY <1>2, <1>3, <1>4 DEF PowerCall

\* Stop, start, reboot and resize read a row and change no name.
LEMMA PowerBeginNames ==
  ASSUME OneAtATime, IInv, NamesInv, NEW p \in Procs, NEW c, NEW i \in Ids, NEW states,
         NEW step \in {"stop", "start", "reboot", "resize"}, NEW name \in {NoName, db[i].name},
         PowerBegin(p, c, i, states, step, name)
  PROVE  NamesInv'
<1>1. /\ pc' = [pc EXCEPT ![p] = step] /\ box' = [box EXCEPT ![p] = i]
      /\ old' = [old EXCEPT ![p] = name] /\ Tracked(i)
      /\ UNCHANGED <<arg, todo, view, ec2, db>> /\ pc[p] = "idle"
  BY DEF PowerBegin, Begin, Goto, At
<1>2. pc'[p] = step /\ box'[p] = i /\ old'[p] = name /\ Knows(p)
  BY <1>1 DEF IInv, TypeOK, LocalsOK, NamesInv
<1>3. Knows(p)'
  BY <1>1, <1>2 DEF Knows, Named, Recording, Powering, Answered, Viewing, Tracked
<1> QED
  BY <1>1, <1>3, SameNames, NamesFrom

\* Their steps write into the row the tag that it has already.
LEMMA PowerNames ==
  ASSUME OneAtATime, IInv, NamesInv, NEW p \in Procs
  PROVE  /\ \A i \in Ids : StopBegin(p, i) \/ StartBegin(p, i) \/ RebootBegin(p, i)
                           \/ ResizeBegin(p, i) => NamesInv'
         /\ StopInstances(p) \/ StartInstances(p) \/ RebootInstances(p)
            \/ ModifyType(p) \/ ModifyVolume(p) \/ Refresh(p) \/ SyncRow(p) \/ SyncHost(p)
            => NamesInv'
<1>k. Knows(p) /\ Carries(p) /\ TypeOK
  BY DEF NamesInv, IInv, Carried
<1>b. pc[p] \in Powering => box[p] \in Ids /\ pc[p] # "setName"
  BY <1>k DEF Powering, Carries, Boxed, Steps
<1>1. ASSUME NEW i \in Ids,
             StopBegin(p, i) \/ StartBegin(p, i) \/ RebootBegin(p, i) \/ ResizeBegin(p, i)
      PROVE  NamesInv'
  BY <1>1, PowerBeginNames DEF StopBegin, StartBegin, RebootBegin, ResizeBegin
<1>2. ASSUME StopInstances(p) \/ StartInstances(p) \/ RebootInstances(p) PROVE NamesInv'
  BY <1>2, PowerCallNames DEF StopInstances, StartInstances, RebootInstances, Powering, Viewing
<1>3. ASSUME ModifyType(p) PROVE NamesInv'
  <2>1. pc[p] = "resize" /\ db' = db
    BY <1>3 DEF ModifyType, At
  <2>2. CASE Exit(p) /\ ec2' = ec2
    BY <2>1, <2>2, SameNames, ExitNames
  <2>3. ASSUME NEW t \in Types, ec2' = [ec2 EXCEPT ![box[p]].type = t], Goto(p, "volume"), Keep
        PROVE  NamesInv'
    <3>1. NamesKept
      BY <2>1, <2>3 DEF NamesKept, IInv, TypeOK, StoresOK, Instance
    <3> QED
      BY <2>1, <2>3, <3>1, GoOnNames DEF Powering, Viewing
  <2> QED
    BY <1>3, <2>2, <2>3 DEF ModifyType
<1>4. ASSUME ModifyVolume(p) PROVE NamesInv'
  <2>1. pc[p] = "volume" /\ db' = db /\ ec2' = ec2
    BY <1>4 DEF ModifyVolume, At, stores
  <2>2. CASE Exit(p)
    BY <2>1, <2>2, SameNames, ExitNames
  <2>3. CASE Goto(p, "refresh") /\ Keep
    BY <2>1, <2>3, SameNames, GoOnNames DEF Powering, Viewing
  <2> QED
    BY <1>4, <2>2, <2>3 DEF ModifyVolume
<1>5. ASSUME Refresh(p) PROVE NamesInv'
  <2>1. pc[p] = "refresh" /\ db' = db /\ ec2' = ec2
    BY <1>5 DEF Refresh, At, stores
  <2>2. CASE Exit(p)
    BY <2>1, <2>2, SameNames, ExitNames
  <2>3. CASE /\ view' = [view EXCEPT ![p] = [NoView EXCEPT ![box[p]] = ec2[box[p]]]]
             /\ pc' = [pc EXCEPT ![p] = "sync"] /\ UNCHANGED <<box, arg, old, todo>>
    <3>1. pc'[p] = "sync" /\ view'[p] = [NoView EXCEPT ![box[p]] = ec2[box[p]]]
      BY <2>3, <1>k DEF TypeOK, LocalsOK
    <3>2. \A i \in Ids : view'[p][i] # NoInst => i = box[p] /\ view'[p][i] = ec2[i]
      BY <3>1 DEF NoView
    <3>3. ec2[box[p]].state # "none"
      BY <2>1, <1>k DEF Carries, Boxed, Steps
    <3>4. Knows(p)'
      BY <1>k, <2>1, <2>3, <3>1, <3>2, <3>3 DEF Knows, Named, Recording, Powering, Answered, Viewing, Tracked
    <3> QED
      BY <2>1, <3>4, SameNames, NamesFrom
  <2> QED
    BY <1>5, <2>2, <2>3 DEF Refresh, Goto
<1>6. ASSUME SyncRow(p) PROVE NamesInv'
  <2> DEFINE i == box[p]
             v == view[p][i]
  <2>1. pc[p] = "sync" /\ ec2' = ec2 /\ i \in Ids
    BY <1>6, <1>b DEF SyncRow, At, Powering
  <2>2. v \in Instance /\ v.state \notin {"none", "gone"} /\ v.tag = ec2[i].tag
    BY <1>k, <2>1, Viewed DEF Viewing, Carries, Knows, Answered
  <2>3. NamesKept
    <3>1. CASE SyncInstanceFromAWS(i, v)
      BY <2>1, <2>2, <3>1, SyncNames
    <3>2. CASE db' = db
      BY <2>1, <3>2, SameNames
    <3> QED
      BY <1>6, <3>1, <3>2 DEF SyncRow
  <2>4. CASE Exit(p)
    BY <2>1, <2>3, <2>4, ExitNames
  <2>5. CASE pc' = [pc EXCEPT ![p] = "syncHost"] /\ UNCHANGED <<box, arg, old, todo, view>>
    <3>1. pc'[p] = "syncHost"
      BY <2>5, <1>k DEF TypeOK, LocalsOK
    <3>2. Knows(p)'
      BY <1>k, <2>1, <2>3, <2>5, <3>1
      DEF Knows, Named, Recording, Powering, Answered, Viewing, Tracked, NamesKept
    <3> QED
      BY <2>1, <2>3, <3>2, NamesFrom
  <2> QED
    BY <1>6, <2>4, <2>5 DEF SyncRow, Goto, Keep, locals
<1>7. ASSUME SyncHost(p) PROVE NamesInv'
  BY <1>7, SameNames, ExitNames DEF SyncHost, At
<1> QED
  BY <1>1, <1>2, <1>3, <1>4, <1>5, <1>6, <1>7

-----------------------------------------------------------------------------
\* Rename changes the tag, then the row: between the two it is Tagged's exception.
LEMMA RenameNames ==
  ASSUME OneAtATime, IInv, NamesInv, NEW p \in Procs
  PROVE  /\ \A i \in Ids, n \in Names : RenameBegin(p, i, n) => NamesInv'
         /\ CreateTags(p) \/ UpdateInstanceName(p) \/ RenameBoxHost(p) => NamesInv'
<1> USE DEF IInv, TypeOK
<1>k. Knows(p) /\ Carries(p) /\ \A q \in Procs : q = p
  BY DEF NamesInv, Carried, OneAtATime
<1>b. pc[p] \in {"tag", "setName"} => box[p] \in Ids /\ ec2[box[p]].state # "none" /\ arg[p] \in Names
  BY <1>k DEF Carries, Boxed, Steps, Naming
<1>1. ASSUME NEW i \in Ids, NEW n \in Names, RenameBegin(p, i, n) PROVE NamesInv'
  <2>1. /\ pc' = [pc EXCEPT ![p] = "tag"] /\ box' = [box EXCEPT ![p] = i]
        /\ arg' = [arg EXCEPT ![p] = n] /\ old' = [old EXCEPT ![p] = db[i].name]
        /\ Tracked(i) /\ ~NameTakenByOther(n, i)
        /\ UNCHANGED <<todo, view, ec2, db>> /\ pc[p] = "idle"
    BY <1>1 DEF RenameBegin, Begin, Goto, At
  <2>2. pc'[p] = "tag" /\ box'[p] = i /\ arg'[p] = n /\ old'[p] = db[i].name
    BY <2>1 DEF LocalsOK
  <2>3. Knows(p)'
    BY <1>k, <2>1, <2>2
    DEF Knows, Named, Recording, Powering, Answered, Viewing, Tracked, NameTakenByOther
  <2> QED
    BY <2>1, <2>3, SameNames, NamesFrom
<1>2. ASSUME CreateTags(p) PROVE NamesInv'
  <2>1. pc[p] = "tag" /\ db' = db
    BY <1>2 DEF CreateTags, At
  <2>2. CASE Exit(p) /\ ec2' = ec2
    BY <2>1, <2>2, SameNames, ExitNames
  <2>3. CASE /\ ec2' = [ec2 EXCEPT ![box[p]].tag = arg[p]]
             /\ pc' = [pc EXCEPT ![p] = "setName"] /\ UNCHANGED <<box, arg, old, todo, view>>
    <3>1. pc'[p] = "setName" /\ ec2'[box[p]].tag = arg[p] /\ \A j \in Ids \ {box[p]} : ec2'[j] = ec2[j]
      BY <1>b, <2>1, <2>3 DEF LocalsOK, StoresOK, Instance
    <3>2. Knows(p)'
      BY <1>k, <2>1, <2>3, <3>1
      DEF Knows, Named, Recording, Powering, Answered, Viewing, Tracked, NameTakenByOther
    <3>3. Tagged'
      BY <1>k, <2>1, <2>3, <3>1 DEF NamesInv, Tagged, Tracked, At
    <3>4. RowsApart'
      BY <2>1 DEF NamesInv, RowsApart, Tracked
    <3> QED
      BY <1>k, <3>2, <3>3, <3>4 DEF NamesInv
  <2> QED
    BY <1>2, <2>2, <2>3 DEF CreateTags, Goto, Keep, locals
<1>3. ASSUME UpdateInstanceName(p) PROVE NamesInv'
  <2> DEFINE b == box[p]
  <2>1. /\ pc[p] = "setName" /\ ec2' = ec2 /\ Tracked(b) /\ ~NameTakenByOther(arg[p], b)
        /\ ec2[b].tag = arg[p] /\ b \in Ids /\ arg[p] \in Names
    BY <1>3, <1>k, <1>b DEF UpdateInstanceName, At, Knows, Recording, Named
  <2>2. /\ db' = [db EXCEPT ![b].name = arg[p]] /\ pc' = [pc EXCEPT ![p] = "renameHost"]
        /\ UNCHANGED <<box, arg, old, todo, view>>
    BY <1>3, <2>1 DEF UpdateInstanceName, UpdateRefused, Goto, Keep, locals
  <2>3. db[b] \in Row /\ [db[b] EXCEPT !.name = arg[p]] \in Row
    BY <2>1 DEF StoresOK, Tracked, Row
  <2>4. db'[b] # NoRow /\ db'[b].name = arg[p] /\ \A j \in Ids \ {b} : db'[j] = db[j]
    BY <2>1, <2>2, <2>3, NonesAssumption DEF StoresOK, Row
  <2>5. pc'[p] = "renameHost"
    BY <2>2 DEF LocalsOK
  <2>6. \A i \in Ids : todo[p][i] = NoRow
    BY <1>k, <2>1 DEF Knows
  <2>7. Knows(p)'
    BY <1>k, <2>1, <2>2, <2>4, <2>5, <2>6 DEF Knows, Named, Recording, Powering, Answered, Viewing, Tracked
  <2>8. Tagged'
    BY <1>k, <2>1, <2>2, <2>4 DEF NamesInv, Tagged, Tracked, At
  <2>9. RowsApart'
    BY <2>1, <2>4 DEF NamesInv, RowsApart, Tracked, NameTakenByOther
  <2> QED
    BY <1>k, <2>7, <2>8, <2>9 DEF NamesInv
<1>4. ASSUME RenameBoxHost(p) PROVE NamesInv'
  BY <1>4, SameNames, ExitNames DEF RenameBoxHost, At
<1> QED
  BY <1>1, <1>2, <1>3, <1>4
-----------------------------------------------------------------------------
\* What ls knows of the rows it still has to go through.
LEMMA DoneKnows ==
  ASSUME LocalsOK, NEW p \in Procs, pc[p] \in {"ls", "lsDeleteHost", "lsSyncHost"}, Knows(p),
         NEW i \in Ids, DoneWith(p, i, "ls"), NamesKept, Ages,
         pc[p] = "lsDeleteHost" => box[p] = i
  PROVE  Knows(p)'
<1> DEFINE rest == [todo[p] EXCEPT ![i] = NoRow]
<1>1. CASE Exit(p)
  BY <1>1, ExitKnows
<1>2. CASE /\ pc' = [pc EXCEPT ![p] = "ls"] /\ todo' = [todo EXCEPT ![p] = rest]
           /\ view' = [view EXCEPT ![p] = [j \in Ids |-> IF rest[j] = NoRow THEN NoInst ELSE @[j]]]
  <2>1. /\ pc'[p] = "ls" /\ todo'[p] = rest
        /\ \A j \in Ids : view'[p][j] # NoInst => view'[p][j] = view[p][j]
    BY <1>2 DEF LocalsOK
  <2>2. \A j \in Ids : rest[j] # NoRow => j # i /\ rest[j] = todo[p][j]
    BY DEF LocalsOK
  <2>3. \A j \in Ids : todo'[p][j] # NoRow => Tracked(j)' /\ db'[j].name = todo'[p][j].name
    BY <2>1, <2>2 DEF Knows, NamesKept, Tracked
  <2>4. \A j \in Ids : view'[p][j] # NoInst =>
          ec2'[j].state # "none" /\ view'[p][j].tag = ec2'[j].tag
    BY <2>1 DEF Knows, Answered, Viewing, NamesKept, Ages
  <2> QED
    BY <2>1, <2>3, <2>4 DEF Knows, Recording, Powering, Answered, Viewing
<1> QED
  BY <1>1, <1>2 DEF DoneWith, Proceed, Goto

\* ls keeps the names when it is done with a row.
LEMMA DoneNames ==
  ASSUME OneAtATime, IInv, NamesInv, NEW p \in Procs,
         pc[p] \in {"ls", "lsDeleteHost", "lsSyncHost"},
         NEW i \in Ids, DoneWith(p, i, "ls"), NamesKept, Ages,
         pc[p] = "lsDeleteHost" => box[p] = i
  PROVE  NamesInv'
BY DoneKnows, NamesFrom DEF NamesInv, IInv, TypeOK

\* ls writes into a row the tag that it has already.
LEMMA LsNames ==
  ASSUME OneAtATime, IInv, NamesInv, NEW p \in Procs
  PROVE  /\ LsBegin(p) => NamesInv'
         /\ \A r \in Regions : LsDescribe(p, r) => NamesInv'
         /\ \A i \in Ids : LsPrune(p, i) \/ LsUnchanged(p, i) \/ LsSync(p, i) \/ LsRefused(p, i)
                           => NamesInv'
         /\ LsDeleteHost(p) \/ LsSyncHost(p) => NamesInv'
<1> USE DEF IInv, TypeOK
<1>k. Knows(p) /\ Carries(p) /\ \A q \in Procs : q = p
  BY DEF NamesInv, Carried, OneAtATime
<1>b. pc[p] \in {"lsDeleteHost", "lsSyncHost"} => box[p] \in Ids
  BY <1>k DEF Carries, Boxed, Steps
<1>1. ASSUME LsBegin(p) PROVE NamesInv'
  <2>1. /\ pc[p] = "idle" /\ pc' = [pc EXCEPT ![p] = "ls"] /\ todo' = [todo EXCEPT ![p] = db]
        /\ UNCHANGED <<box, arg, old, view, ec2, db>>
    BY <1>1 DEF LsBegin, At, Goto, stores
  <2>2. pc'[p] = "ls" /\ todo'[p] = db /\ \A i \in Ids : view'[p][i] = NoInst
    BY <1>k, <2>1 DEF LocalsOK, Carries
  <2>3. Knows(p)'
    BY <2>1, <2>2 DEF Knows, Recording, Powering, Answered, Viewing, Tracked
  <2> QED
    BY <2>1, <2>3, SameNames, NamesFrom
<1>2. ASSUME NEW r \in Regions, LsDescribe(p, r) PROVE NamesInv'
  <2>1. /\ pc[p] = "ls" /\ UNCHANGED <<pc, box, arg, old, todo, ec2, db>>
        /\ \A i \in Ids : view'[p][i] # NoInst => todo[p][i] # NoRow /\ view'[p][i] = ec2[i]
    BY <1>2 DEF LsDescribe, At, stores, LocalsOK
  <2>2. \A i \in Ids : view'[p][i] # NoInst => ec2[i].state # "none"
    BY <1>k, <2>1 DEF Carries
  <2>3. Knows(p)'
    BY <1>k, <2>1, <2>2 DEF Knows, Recording, Powering, Answered, Viewing, Tracked
  <2> QED
    BY <2>1, <2>3, SameNames, NamesFrom
<1>3. ASSUME NEW i \in Ids, LsPrune(p, i) PROVE NamesInv'
  <2>1. /\ pc[p] = "ls" /\ ec2' = ec2 /\ db' = [db EXCEPT ![i] = NoRow]
        /\ pc' = [pc EXCEPT ![p] = "lsDeleteHost"] /\ box' = [box EXCEPT ![p] = i]
        /\ UNCHANGED <<arg, todo, view>>
    BY <1>3 DEF LsPrune, Described, At, Goto
  <2>2. pc'[p] = "lsDeleteHost" /\ box'[p] = i
    BY <2>1 DEF LocalsOK
  <2>3. db'[i] = NoRow /\ \A j \in Ids \ {i} : db'[j] = db[j]
    BY <2>1 DEF StoresOK
  <2>4. Knows(p)'
    BY <1>k, <2>1, <2>2, <2>3 DEF Knows, Recording, Powering, Answered, Viewing, Tracked
  <2>5. Tagged' /\ RowsApart'
    BY <1>k, <2>1, <2>3 DEF NamesInv, Tagged, RowsApart, Tracked, At
  <2> QED
    BY <1>k, <2>4, <2>5 DEF NamesInv
<1>4. ASSUME NEW i \in Ids, LsUnchanged(p, i) PROVE NamesInv'
  BY <1>4, SameNames, SameInstances, DoneNames DEF LsUnchanged, Described, At, stores
<1>5. ASSUME NEW i \in Ids, LsSync(p, i) PROVE NamesInv'
  <2> DEFINE v == view[p][i]
  <2>1. pc[p] = "ls" /\ ec2' = ec2 /\ SyncInstanceFromAWS(i, v) /\ v # NoInst /\ v.state # "gone"
    BY <1>5 DEF LsSync, Described, At
  <2>2. v \in Instance /\ v.state # "none" /\ v.tag = ec2[i].tag /\ todo[p][i] # NoRow
    BY <1>k, <2>1 DEF Knows, Answered, Carries, LocalsOK
  <2>3. NamesKept
    BY <2>1, <2>2, SyncNames
  <2>4. CASE DoneWith(p, i, "ls")
    BY <2>1, <2>3, <2>4, SameInstances, DoneNames
  <2>5. CASE /\ pc' = [pc EXCEPT ![p] = "lsSyncHost"] /\ box' = [box EXCEPT ![p] = i]
             /\ old' = [old EXCEPT ![p] = todo[p][i].name] /\ UNCHANGED <<arg, todo, view>>
    <3>1. pc'[p] = "lsSyncHost" /\ box'[p] = i /\ old'[p] = todo[p][i].name
      BY <2>5 DEF LocalsOK
    <3>2. Knows(p)'
      BY <1>k, <2>1, <2>2, <2>3, <2>5, <3>1
      DEF Knows, Named, Recording, Powering, Answered, Viewing, Tracked, NamesKept
    <3> QED
      BY <2>1, <2>3, <3>2, NamesFrom
  <2> QED
    BY <1>5, <2>4, <2>5 DEF LsSync, Goto
<1>6. ASSUME NEW i \in Ids, LsRefused(p, i) PROVE NamesInv'
  BY <1>6, SameNames, ExitNames DEF LsRefused, Described, At, stores
<1>7. ASSUME LsDeleteHost(p) PROVE NamesInv'
  BY <1>7, <1>b, SameNames, SameInstances, DoneNames DEF LsDeleteHost, At
<1>8. ASSUME LsSyncHost(p) PROVE NamesInv'
  <2>1. pc[p] = "lsSyncHost" /\ ec2' = ec2 /\ db' = db
    BY <1>8 DEF LsSyncHost, At
  <2> QED
    BY <1>8, <1>b, <2>1, SameNames, SameInstances, DoneNames, ExitNames DEF LsSyncHost
<1> QED
  BY <1>1, <1>2, <1>3, <1>4, <1>5, <1>6, <1>7, <1>8

-----------------------------------------------------------------------------
\* What one process does not do.
LEMMA Barred ==
  ASSUME OneAtATime, IInv, NamesInv, NEW p \in Procs
  PROVE  /\ ~Fault(p) /\ \A r \in Regions : ~ImportBegin(p, r)
         /\ \A i \in Ids : ~ImportSkip(p, i) /\ ~ImportInsert(p, i)
         /\ ~ImportSync(p) /\ ~ImportHost(p)
<1>1. faults \in 0..0 /\ Knows(p)
  BY DEF OneAtATime, IInv, TypeOK, CountsOK, NamesInv
<1>2. ~(faults < MaxFaults)
  BY <1>1 DEF OneAtATime
<1>3. ~Fault(p)
  BY <1>2 DEF Fault, InsertFails, Abort, LsSkipRegion
<1>4. \A r \in Regions : ~ImportBegin(p, r)
  BY DEF OneAtATime, ImportBegin, Begin
<1> QED
  BY <1>1, <1>3, <1>4 DEF Knows, ImportSkip, ImportInsert, ImportSync, ImportHost, At

\* What AWS does changes no tag, and the console none either under the hypothesis.
LEMMA OutsideNames ==
  ASSUME OneAtATime, IInv, NamesInv, NEW i \in Ids, AwsStep(i) \/ Console(i)
  PROVE  NamesInv'
<1>1. db' = db /\ pc' = pc /\ UNCHANGED locals
  BY DEF AwsStep, Console, BecomeRunning, BecomeStopped, Vanish, ConsoleTerminate, ConsoleStop,
     ConsoleStart, ConsoleLaunch, ConsoleRetag, External
<1>2. \A j \in Ids : ec2[j].state # "none" => ec2'[j].state # "none" /\ ec2'[j].tag = ec2[j].tag
  <2> USE DEF IInv, TypeOK, StoresOK, Instance
  <2>1. CASE BecomeRunning(i) \/ BecomeStopped(i) \/ Vanish(i) \/ ConsoleStop(i) \/ ConsoleStart(i)
    BY <2>1 DEF BecomeRunning, BecomeStopped, Vanish, ConsoleStop, ConsoleStart
  <2>2. CASE ConsoleTerminate(i)
    BY <2>2 DEF ConsoleTerminate, Terminated
  <2>3. ASSUME NEW t \in Names \cup {NoName}, ConsoleLaunch(i, t)
        PROVE  \A j \in Ids : ec2[j].state # "none" =>
                 ec2'[j].state # "none" /\ ec2'[j].tag = ec2[j].tag
    BY <2>3 DEF ConsoleLaunch
  <2>4. \A t : ~ConsoleRetag(i, t)
    BY DEF ConsoleRetag, OneAtATime
  <2> QED
    BY <2>1, <2>2, <2>3, <2>4 DEF AwsStep, Console
<1>3. NamesKept
  BY <1>1, <1>2 DEF NamesKept
<1>4. \A p \in Procs : Knows(p)'
  <2> TAKE p \in Procs
  <2>1. Knows(p) /\ UNCHANGED <<box, arg, old, todo, view>>
    BY <1>1 DEF NamesInv, locals
  <2>2. pc[p] \in {"insert", "tag", "setName"} => box[p] \in Ids /\ ec2[box[p]].state # "none"
    BY DEF IInv, Carried, Carries, Boxed, Steps
  <2> QED
    BY <1>1, <1>2, <1>3, <2>1, <2>2, SameTaken DEF Knows, Named, Recording, Powering, Answered, Viewing, Tracked
<1>5. Tagged' /\ RowsApart'
  BY <1>1, <1>2 DEF NamesInv, Tagged, RowsApart, Tracked, At, locals, IInv, RowsBorn
<1> QED
  BY <1>4, <1>5 DEF NamesInv

\* Every step keeps the names' invariant.
LEMMA NamesNext == OneAtATime /\ IInv /\ NamesInv /\ [Next]_vars => NamesInv'
<1> SUFFICES ASSUME OneAtATime, IInv, NamesInv, [Next]_vars PROVE NamesInv'
  OBVIOUS
<1>1. ASSUME NEW p \in Procs, BeginCommand(p) \/ LsBegin(p) \/ Step(p) PROVE NamesInv'
  <2>1. Sound(p)
    BY <1>1, StepSound
  <2>2. CASE BeginCommand(p) \/ LsBegin(p)
    BY <2>1, <2>2, CreateNames, DeleteNames, PowerNames, RenameNames, LsNames, Barred
    DEF BeginCommand
  <2>3. CASE Step(p)
    BY <2>1, <2>3, CreateNames, DeleteNames, PowerNames, RenameNames, LsNames, Barred DEF Step
  <2> QED
    BY <1>1, <2>2, <2>3
<1>2. CASE UNCHANGED vars
  BY <1>2 DEF vars, NamesInv, Tagged, RowsApart, Knows, Named, NameTaken, NameTakenByOther,
    Tracked, At
<1> QED
  BY <1>1, <1>2, Barred, OutsideNames DEF Next

\* While one command runs at a time, to its end, no box is imported and no tag is changed at
\* the console, every row has the Name tag of its instance between commands: no sequence
\* of create, rename, stop, start, resize, ls and delete takes them apart.
THEOREM NamesFollowTags == OneAtATime => (Spec => []NameIsTag)
<1> SUFFICES ASSUME OneAtATime PROVE Spec => []NameIsTag
  OBVIOUS
<1>1. Init => NamesInv
  BY NamesInit
<1>2. IInv /\ NamesInv /\ [Next]_vars => NamesInv'
  BY NamesNext
<1>3. NamesInv => NameIsTag
  BY DEF NamesInv, Tagged, NameIsTag, AllIdle, At
<1> QED
  BY <1>1, <1>2, <1>3, Inductive, PTL DEF Spec
-----------------------------------------------------------------------------
(* Blocks and rows, one command at a time.                                               *)

\* A block has the name and an address of a box on the books, unless a command is just
\* about to remove or to move it.
Owned(n) ==
  ssh[n] # NoAddr => \E i \in Ids : Tracked(i) /\ db[i].name = n /\ ssh[n] \in Pubs \cup {i}
Leaving(p, n) ==
  /\ old[p] = n
  /\ pc[p] = "lsDeleteHost" \/ (pc[p] = "renameHost" /\ ssh[arg[p]] = NoAddr)
Hosted == \A n \in Names : Owned(n) \/ \E p \in Procs : Leaving(p, n)

\* What delete and rename know of the block of the name they first read.
KnowsHost(p) ==
  /\ pc[p] = "deleteRow" => ssh[old[p]] = NoAddr
  /\ pc[p] = "renameHost" => ssh[old[p]] \in Pubs \cup {box[p], NoAddr}

HostsInv == Hosted /\ \A p \in Procs : KnowsHost(p)

\* Rows may come, but none goes or changes its name.
RowsStay == \A i \in Ids : Tracked(i) => Tracked(i)' /\ db'[i].name = db[i].name
Last == {"deleteRow", "renameHost"}

\* Without a block there is none that belongs to no row.
LEMMA HostsInit == Init => HostsInv
BY DEF Init, HostsInv, Hosted, Owned, KnowsHost

\* A step that leaves rows and blocks alone keeps them together.
LEMMA HostsFrom ==
  ASSUME OneAtATime, HostsInv, NEW p \in Procs, RowsStay, ssh' = ssh,
         pc[p] \notin {"lsDeleteHost", "renameHost"}, pc'[p] \notin Last
  PROVE  HostsInv'
<1>1. \A q \in Procs : q = p
  BY DEF OneAtATime
<1>2. \A n \in Names : Owned(n)
  BY <1>1 DEF HostsInv, Hosted, Leaving
<1>3. \A n \in Names : Owned(n)'
  BY <1>2 DEF Owned, RowsStay
<1> QED
  BY <1>1, <1>3 DEF HostsInv, Hosted, KnowsHost, Last

\* The address a command writes for a box is the box's own.
LEMMA OwnAddr ==
  ASSUME NEW i \in Ids, NEW v \in Instance
  PROVE  Addr(i, v) \in Pubs \cup {i, NoAddr}
BY DEF Addr, Instance

\* Steps that touch neither rows nor blocks.
LEMMA AsideHosts ==
  ASSUME OneAtATime, IInv, HostsInv, NEW p \in Procs, ssh' = ssh, db' = db,
         pc[p] \notin Last \cup {"lsDeleteHost"},
         \/ Exit(p) \/ pc' = pc
         \/ \E s \in Steps \ Last : Goto(p, s)
  PROVE  HostsInv'
<1>1. pc'[p] \notin Last
  BY DEF Exit, Goto, IInv, TypeOK, LocalsOK, Last
<1>2. RowsStay
  BY DEF RowsStay, Tracked
<1> QED
  BY <1>1, <1>2, HostsFrom DEF Last

\* A command that starts leaves rows and blocks alone.
LEMMA BeginHosts ==
  ASSUME OneAtATime, IInv, HostsInv, NEW p \in Procs, BeginCommand(p) \/ LsBegin(p)
  PROVE  HostsInv'
<1>1. ssh' = ssh /\ db' = db /\ pc[p] = "idle"
  BY DEF BeginCommand, LsBegin, CreateBegin, DeleteBegin, StopBegin, StartBegin, RebootBegin,
    ResizeBegin, PowerBegin, RenameBegin, ImportBegin, Begin, At, stores
<1>2. \E s \in {"launch", "terminate", "stop", "start", "reboot", "resize", "tag", "import", "ls"} :
        Goto(p, s)
  BY DEF BeginCommand, LsBegin, CreateBegin, DeleteBegin, StopBegin, StartBegin, RebootBegin,
    ResizeBegin, PowerBegin, RenameBegin, ImportBegin
<1>3. \E s \in Steps \ Last : Goto(p, s)
  BY <1>2 DEF Steps, Last
<1> QED
  BY <1>1, <1>3, AsideHosts DEF Last

\* So does a call to AWS, and a row that ls leaves as it is.
LEMMA CallHosts ==
  ASSUME OneAtATime, IInv, HostsInv, NEW p \in Procs,
         \/ RunInstances(p) \/ TerminateInstances(p) \/ ModifyType(p) \/ ModifyVolume(p)
         \/ StopInstances(p) \/ StartInstances(p) \/ RebootInstances(p)
         \/ Refresh(p) \/ CreateTags(p)
         \/ \E r \in Regions : LsDescribe(p, r)
         \/ \E i \in Ids : LsUnchanged(p, i) \/ LsRefused(p, i)
  PROVE  HostsInv'
<1>1. ssh' = ssh /\ db' = db /\ pc[p] \notin Last \cup {"lsDeleteHost"}
  BY DEF RunInstances, TerminateInstances, ModifyType, ModifyVolume, StopInstances,
    StartInstances, RebootInstances, PowerCall, Refresh, CreateTags, LsDescribe, LsUnchanged,
    LsRefused, Described, At, Last, stores
<1>2. \/ Exit(p) \/ pc' = pc
      \/ \E s \in {"insert", "deleteHost", "volume", "refresh", "sync", "setName", "ls"} : Goto(p, s)
  BY DEF RunInstances, TerminateInstances, ModifyType, ModifyVolume, StopInstances,
    StartInstances, RebootInstances, PowerCall, Refresh, CreateTags, LsDescribe, LsUnchanged,
    LsRefused, DoneWith, Proceed
<1>3. Exit(p) \/ pc' = pc \/ \E s \in Steps \ Last : Goto(p, s)
  BY <1>2 DEF Steps, Last
<1> QED
  BY <1>1, <1>3, AsideHosts

\* Create makes a row, then its block.
LEMMA CreateHosts ==
  ASSUME OneAtATime, IInv, NamesInv, HostsInv, NEW p \in Procs, Sound(p)
  PROVE  InsertInstance(p) \/ AddHostOrWarn(p) => HostsInv'
<1> USE DEF IInv, TypeOK
<1>k. Knows(p) /\ Carries(p) /\ \A q \in Procs : q = p
  BY DEF NamesInv, Carried, OneAtATime
<1>1. ASSUME InsertInstance(p) PROVE HostsInv'
  <2> DEFINE b == box[p]
  <2>1. /\ pc[p] = "insert" /\ ~NameTaken(arg[p]) /\ ~Tracked(b) /\ b \in Ids /\ ssh' = ssh
    BY <1>1, <1>k DEF InsertInstance, At, Knows, Carries, Boxed, Steps
  <2>2. db' = [db EXCEPT ![b] = NewRow(p)] /\ pc' = [pc EXCEPT ![p] = "addHost"]
    BY <1>1, <2>1 DEF InsertInstance, InsertRefused, Goto
  <2>3. RowsStay
    BY <2>1, <2>2 DEF RowsStay, Tracked, StoresOK
  <2>4. pc'[p] \notin Last
    BY <2>2 DEF LocalsOK, Last
  <2> QED
    BY <2>1, <2>3, <2>4, HostsFrom
<1>2. ASSUME AddHostOrWarn(p) PROVE HostsInv'
  <2> DEFINE b == box[p]
             n == arg[p]
  <2>1. /\ pc[p] = "addHost" /\ Named(p, n) /\ b \in Ids /\ n \in Names /\ db' = db
        /\ AddHost(n, b) /\ Exit(p)
    BY <1>2, <1>k DEF AddHostOrWarn, At, Knows, Carries, Boxed, Naming, Steps
  <2>2. pc'[p] = "idle"
    BY <2>1 DEF Exit, LocalsOK
  <2>3. \A m \in Names : Owned(m)
    BY <1>k, <2>1 DEF HostsInv, Hosted, Leaving
  <2>4. \A m \in Names : Owned(m)'
    BY <2>1, <2>3 DEF Owned, AddHost, Named, Tracked, StoresOK
  <2> QED
    BY <1>k, <2>2, <2>4 DEF HostsInv, Hosted, KnowsHost
<1> QED
  BY <1>1, <1>2

\* Delete removes the block before the row.
LEMMA DeleteHosts ==
  ASSUME Spaced = {}, OneAtATime, IInv, NamesInv, HostsInv, NEW p \in Procs
  PROVE  DeleteBoxHost(p) \/ DeleteRow(p) => HostsInv'
<1> USE DEF IInv, TypeOK
<1>k. Knows(p) /\ Carries(p) /\ KnowsHost(p) /\ \A q \in Procs : q = p
  BY DEF NamesInv, HostsInv, Carried, OneAtATime
<1>o. pc[p] \in {"deleteHost", "deleteRow"} =>
        (\A m \in Names : Owned(m)) /\ Named(p, old[p]) /\ box[p] \in Ids /\ old[p] \in Names
  BY <1>k DEF HostsInv, Hosted, Leaving, Knows, Recording, Carries, Boxed, Recalling, Steps
<1>1. ASSUME DeleteBoxHost(p) PROVE HostsInv'
  <2>1. /\ pc[p] = "deleteHost" /\ ssh' = [ssh EXCEPT ![old[p]] = NoAddr] /\ db' = db
        /\ pc' = [pc EXCEPT ![p] = "deleteRow"] /\ old' = old
    BY <1>1 DEF DeleteBoxHost, DeleteHost, At, Goto, Keep, locals
  <2>2. pc'[p] = "deleteRow" /\ ssh'[old[p]] = NoAddr
    BY <1>o, <2>1 DEF LocalsOK, StoresOK
  <2>3. \A m \in Names : Owned(m)'
    BY <1>o, <2>1 DEF Owned, Tracked, StoresOK
  <2> QED
    BY <1>k, <2>1, <2>2, <2>3 DEF HostsInv, Hosted, KnowsHost
<1>2. ASSUME DeleteRow(p) PROVE HostsInv'
  <2>1. /\ pc[p] = "deleteRow" /\ ssh' = ssh /\ db' = [db EXCEPT ![box[p]] = NoRow] /\ Exit(p)
    BY <1>2 DEF DeleteRow, At
  <2>2. pc'[p] = "idle" /\ ssh[old[p]] = NoAddr
    BY <1>k, <2>1 DEF Exit, LocalsOK, KnowsHost
  <2>3. \A m \in Names : Owned(m)'
    BY <1>o, <2>1, <2>2 DEF Owned, Named, Tracked, StoresOK
  <2> QED
    BY <1>k, <2>2, <2>3 DEF HostsInv, Hosted, KnowsHost
<1> QED
  BY <1>1, <1>2

\* A block written for a row's name, with an address of its instance, belongs to that row.
LEMMA WriteOwned ==
  ASSUME StoresOK, NEW n \in Names, NEW i \in Ids, NEW a \in Pubs \cup {i, NoAddr},
         Tracked(i), db[i].name = n, \A m \in Names \ {n} : Owned(m),
         syncSSHHostIP(n, a), db' = db
  PROVE  \A m \in Names : Owned(m)'
BY DEF Owned, syncSSHHostIP, Tracked, StoresOK

\* A command that syncs a row writes the block of that row's name.
LEMMA SyncHosts ==
  ASSUME Spaced = {}, OneAtATime, IInv, NamesInv, HostsInv, NEW p \in Procs
  PROVE  SyncRow(p) \/ SyncHost(p) => HostsInv'
<1> USE DEF IInv, TypeOK
<1>k. Knows(p) /\ Carries(p) /\ \A q \in Procs : q = p
  BY DEF NamesInv, Carried, OneAtATime
<1> DEFINE i == box[p]
           v == view[p][i]
<1>v. pc[p] \in {"sync", "syncHost"} =>
        /\ i \in Ids /\ v \in Instance /\ v.state \notin {"none", "gone"} /\ v.tag = ec2[i].tag
        /\ \A m \in Names : Owned(m)
  <2>1. pc[p] \in {"sync", "syncHost"} => i \in Ids /\ v \in Instance /\ v.state \notin {"none", "gone"}
    BY <1>k, Viewed DEF Viewing
  <2>2. pc[p] \in {"sync", "syncHost"} => v.tag = ec2[i].tag
    BY <1>k, <2>1 DEF Viewing, Knows, Answered, Carries
  <2> QED
    BY <1>k, <2>1, <2>2 DEF HostsInv, Hosted, Leaving
<1>1. ASSUME SyncRow(p) PROVE HostsInv'
  <2>1. pc[p] = "sync" /\ ec2' = ec2 /\ ssh' = ssh
    BY <1>1 DEF SyncRow, At
  <2>2. RowsStay
    <3>1. CASE SyncInstanceFromAWS(i, v)
      BY <1>v, <2>1, <3>1, SyncNames DEF RowsStay, NamesKept, Tracked
    <3>2. CASE db' = db
      BY <3>2 DEF RowsStay, Tracked
    <3> QED
      BY <1>1, <3>1, <3>2 DEF SyncRow
  <2>3. pc'[p] \notin Last
    BY <1>1 DEF SyncRow, Goto, Exit, LocalsOK, Last
  <2> QED
    BY <2>1, <2>2, <2>3, HostsFrom
<1>2. ASSUME SyncHost(p) PROVE HostsInv'
  <2>1. pc[p] = "syncHost" /\ db' = db /\ Exit(p) /\ syncSSHHostIP(old[p], Addr(i, v))
    BY <1>2 DEF SyncHost, At
  <2>2. old[p] \in Names /\ Tracked(i) /\ db[i].name = old[p]
    BY <1>k, <2>1, NonesAssumption DEF Carries, Knows, Powering, Named
  <2>3. \A m \in Names : Owned(m)'
    BY <1>v, <2>1, <2>2, OwnAddr, WriteOwned
  <2>4. pc'[p] = "idle"
    BY <2>1 DEF Exit, LocalsOK
  <2> QED
    BY <1>k, <2>3, <2>4 DEF HostsInv, Hosted, KnowsHost
<1> QED
  BY <1>1, <1>2

\* Rename moves the row to the new name, then the block.
LEMMA RenameHosts ==
  ASSUME Spaced = {}, OneAtATime, IInv, NamesInv, HostsInv, NEW p \in Procs
  PROVE  UpdateInstanceName(p) \/ RenameBoxHost(p) => HostsInv'
<1> USE DEF IInv, TypeOK
<1>k. Knows(p) /\ Carries(p) /\ KnowsHost(p) /\ \A q \in Procs : q = p
  BY DEF NamesInv, HostsInv, Carried, OneAtATime
<1> DEFINE b == box[p]
           o == old[p]
           n == arg[p]
<1>b. pc[p] \in {"setName", "renameHost"} => b \in Ids /\ o \in Names /\ n \in Names
  BY <1>k DEF Carries, Boxed, Naming, Recalling, Steps
<1>1. ASSUME UpdateInstanceName(p) PROVE HostsInv'
  <2>1. /\ pc[p] = "setName" /\ ssh' = ssh /\ Tracked(b) /\ ~NameTakenByOther(n, b)
        /\ db[b].name = o
    BY <1>1, <1>k DEF UpdateInstanceName, At, Knows, Recording, Named
  <2>2. /\ db' = [db EXCEPT ![b].name = n] /\ pc' = [pc EXCEPT ![p] = "renameHost"]
        /\ UNCHANGED <<box, arg, old>>
    BY <1>1, <2>1 DEF UpdateInstanceName, UpdateRefused, Goto, Keep, locals
  <2>3. db[b] \in Row /\ [db[b] EXCEPT !.name = n] \in Row
    BY <1>b, <2>1 DEF StoresOK, Tracked, Row
  <2>4. db'[b] # NoRow /\ db'[b].name = n /\ \A j \in Ids \ {b} : db'[j] = db[j]
    BY <1>b, <2>1, <2>2, <2>3, NonesAssumption DEF StoresOK, Row
  <2>5. \A m \in Names : Owned(m)
    BY <1>k, <2>1 DEF HostsInv, Hosted, Leaving
  <2>6. ssh[o] \in Pubs \cup {b, NoAddr}
    BY <1>b, <2>1, <2>5 DEF Owned, NamesInv, RowsApart
  <2>7. o # n => ssh[n] = NoAddr
    BY <1>b, <2>1, <2>5 DEF Owned, NameTakenByOther, Tracked
  <2>8. \A m \in Names : Owned(m)' \/ (m = o /\ o # n)
    BY <1>b, <2>1, <2>4, <2>5 DEF Owned, Tracked
  <2>9. pc'[p] = "renameHost"
    BY <2>2 DEF LocalsOK
  <2> QED
    BY <1>k, <2>1, <2>2, <2>6, <2>7, <2>8, <2>9 DEF HostsInv, Hosted, Leaving, KnowsHost
<1>2. ASSUME RenameBoxHost(p) PROVE HostsInv'
  <2>1. pc[p] = "renameHost" /\ db' = db /\ Exit(p) /\ Named(p, n)
    BY <1>2, <1>k DEF RenameBoxHost, At, Knows
  <2>2. \A m \in Names : Owned(m) \/ (m = o /\ ssh[n] = NoAddr)
    BY <1>k, <2>1 DEF HostsInv, Hosted, Leaving
  <2>3. ssh[o] \in Pubs \cup {b, NoAddr}
    BY <1>k, <2>1 DEF KnowsHost
  <2>4. \A m \in Names : Owned(m)'
    <3>1. CASE ssh' = ssh /\ (o = n \/ ssh[o] = NoAddr \/ ssh[n] # NoAddr)
      BY <2>1, <2>2, <3>1 DEF Owned, Tracked
    <3>2. CASE o # n /\ ssh' = [ssh EXCEPT ![n] = ssh[o], ![o] = NoAddr]
      BY <1>b, <2>1, <2>2, <2>3, <3>2 DEF Owned, Named, Tracked, StoresOK
    <3> QED
      BY <1>2, <3>1, <3>2 DEF RenameBoxHost, RenameHost
  <2>5. pc'[p] = "idle"
    BY <2>1 DEF Exit, LocalsOK
  <2> QED
    BY <1>k, <2>4, <2>5 DEF HostsInv, Hosted, KnowsHost
<1> QED
  BY <1>1, <1>2

\* ls removes the block of a row it has pruned, and writes that of a row it has synced.
LEMMA LsHosts ==
  ASSUME Spaced = {}, OneAtATime, IInv, NamesInv, HostsInv, NEW p \in Procs
  PROVE  /\ \A i \in Ids : LsPrune(p, i) \/ LsSync(p, i) => HostsInv'
         /\ LsDeleteHost(p) \/ LsSyncHost(p) => HostsInv'
<1> USE DEF IInv, TypeOK
<1>k. Knows(p) /\ Carries(p) /\ \A q \in Procs : q = p
  BY DEF NamesInv, Carried, OneAtATime
<1>d. ASSUME NEW i \in Ids, DoneWith(p, i, "ls") PROVE pc'[p] \notin Last \cup {"lsDeleteHost"}
  BY <1>d DEF DoneWith, Proceed, Exit, Goto, LocalsOK, Last
<1>1. ASSUME NEW i \in Ids, LsPrune(p, i) PROVE HostsInv'
  <2>1. /\ pc[p] = "ls" /\ ssh' = ssh /\ db' = [db EXCEPT ![i] = NoRow] /\ todo[p][i] # NoRow
        /\ pc' = [pc EXCEPT ![p] = "lsDeleteHost"] /\ old' = [old EXCEPT ![p] = todo[p][i].name]
    BY <1>1, <1>k DEF LsPrune, Described, At, Goto, Carries
  <2>2. pc'[p] = "lsDeleteHost" /\ old'[p] = db[i].name
    BY <1>k, <2>1 DEF LocalsOK, Knows
  <2>3. \A m \in Names : Owned(m)
    BY <1>k, <2>1 DEF HostsInv, Hosted, Leaving
  <2>4. \A m \in Names : Owned(m)' \/ m = db[i].name
    BY <2>1, <2>3 DEF Owned, Tracked, StoresOK
  <2> QED
    BY <1>k, <2>2, <2>4 DEF HostsInv, Hosted, Leaving, KnowsHost
<1>2. ASSUME NEW i \in Ids, LsSync(p, i) PROVE HostsInv'
  <2> DEFINE v == view[p][i]
  <2>1. /\ pc[p] = "ls" /\ ec2' = ec2 /\ ssh' = ssh /\ SyncInstanceFromAWS(i, v)
        /\ v # NoInst /\ v.state # "gone"
    BY <1>2 DEF LsSync, Described, At
  <2>2. v \in Instance /\ v.state # "none" /\ v.tag = ec2[i].tag
    BY <1>k, <2>1 DEF Knows, Answered, Carries, LocalsOK
  <2>3. RowsStay
    BY <2>1, <2>2, SyncNames DEF RowsStay, NamesKept, Tracked
  <2>4. pc'[p] \notin Last
    BY <1>2, <1>d DEF LsSync, Goto, LocalsOK, Last
  <2> QED
    BY <2>1, <2>3, <2>4, HostsFrom
<1>b. pc[p] \in {"lsDeleteHost", "lsSyncHost"} => box[p] \in Ids /\ old[p] \in Names
  BY <1>k DEF Carries, Boxed, Recalling, Steps
<1>3. ASSUME LsDeleteHost(p) PROVE HostsInv'
  <2>1. pc[p] = "lsDeleteHost" /\ db' = db /\ ssh' = [ssh EXCEPT ![old[p]] = NoAddr]
    BY <1>3 DEF LsDeleteHost, At, DeleteHost
  <2>2. \A m \in Names : Owned(m) \/ m = old[p]
    BY <1>k, <2>1 DEF HostsInv, Hosted, Leaving
  <2>3. \A m \in Names : Owned(m)'
    BY <1>b, <2>1, <2>2 DEF Owned, Tracked, StoresOK
  <2>4. pc'[p] \notin Last
    BY <1>3, <1>b, <1>d, <2>1 DEF LsDeleteHost
  <2> QED
    BY <1>k, <2>3, <2>4 DEF HostsInv, Hosted, KnowsHost, Last
<1>4. ASSUME LsSyncHost(p) PROVE HostsInv'
  <2> DEFINE i == box[p]
             v == view[p][i]
  <2>1. pc[p] = "lsSyncHost" /\ db' = db /\ syncSSHHostIP(old[p], Addr(i, v)) /\ DoneWith(p, i, "ls")
    BY <1>4 DEF LsSyncHost, At
  <2>2. i \in Ids /\ v \in Instance /\ old[p] \in Names /\ Tracked(i) /\ db[i].name = old[p]
    BY <1>k, <1>b, <2>1, Viewed DEF Viewing, Knows, Recording, Named
  <2>3. \A m \in Names : Owned(m)
    BY <1>k, <2>1 DEF HostsInv, Hosted, Leaving
  <2>4. \A m \in Names : Owned(m)'
    BY <2>1, <2>2, <2>3, OwnAddr, WriteOwned
  <2>5. pc'[p] \notin Last
    BY <1>d, <2>1, <2>2
  <2> QED
    BY <1>k, <2>4, <2>5 DEF HostsInv, Hosted, KnowsHost, Last
<1> QED
  BY <1>1, <1>2, <1>3, <1>4

\* Every step keeps the blocks' invariant.
LEMMA HostsNext ==
  Spaced = {} /\ OneAtATime /\ IInv /\ NamesInv /\ HostsInv /\ [Next]_vars => HostsInv'
<1> SUFFICES ASSUME Spaced = {}, OneAtATime, IInv, NamesInv, HostsInv, [Next]_vars PROVE HostsInv'
  OBVIOUS
<1>1. ASSUME NEW p \in Procs, BeginCommand(p) \/ LsBegin(p) PROVE HostsInv'
  BY <1>1, BeginHosts
<1>2. ASSUME NEW p \in Procs, Step(p) PROVE HostsInv'
  <2>1. Sound(p)
    BY <1>2, StepSound
  <2>2. ~Cleanup(p)
    BY <2>1, CreateNames
  <2> QED
    BY <1>2, <2>1, <2>2, CallHosts, CreateHosts, DeleteHosts, SyncHosts, RenameHosts, LsHosts, Barred
    DEF Step
<1>3. ASSUME NEW i \in Ids, AwsStep(i) \/ Console(i) PROVE HostsInv'
  <2>1. db' = db /\ ssh' = ssh /\ pc' = pc /\ UNCHANGED locals
    BY <1>3 DEF AwsStep, Console, BecomeRunning, BecomeStopped, Vanish, ConsoleTerminate,
      ConsoleStop, ConsoleStart, ConsoleLaunch, ConsoleRetag, External
  <2> QED
    BY <2>1 DEF locals, HostsInv, Hosted, Owned, Leaving, KnowsHost, Tracked
<1>4. CASE UNCHANGED vars
  BY <1>4 DEF vars, HostsInv, Hosted, Owned, Leaving, KnowsHost, Tracked
<1> QED
  BY <1>1, <1>2, <1>3, <1>4, Barred DEF Next

\* Under the same conditions, and where no name has white space, every block between
\* commands has the name and an address of a box on the books.
THEOREM HostsFollowRows == OneAtATime /\ Spaced = {} => (Spec => []HostsTracked)
<1> SUFFICES ASSUME OneAtATime, Spaced = {} PROVE Spec => []HostsTracked
  OBVIOUS
<1>1. Init => NamesInv /\ HostsInv
  BY NamesInit, HostsInit
<1>2. IInv /\ NamesInv /\ HostsInv /\ [Next]_vars => NamesInv' /\ HostsInv'
  BY NamesNext, HostsNext
<1>3. HostsInv => HostsTracked
  BY DEF HostsInv, Hosted, Owned, Leaving, HostsTracked, AllIdle, At
<1> QED
  BY <1>1, <1>2, <1>3, Inductive, PTL DEF Spec

=============================================================================
