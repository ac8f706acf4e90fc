--------------------------- MODULE BoxProperties ---------------------------
(***************************************************************************)
(* What the box commands should guarantee, stated of Boxes.  Each property *)
(* relates two of the three stores, or a step of one process to what the   *)
(* others and AWS did since it last looked.                                *)
(***************************************************************************)
EXTENDS Boxes

\* Types of the stores and of what each process carries between two steps.
StoresOK ==
  /\ ec2 \in [Ids -> Instance]
  /\ db \in [Ids -> Row \cup {NoRow}]
  /\ ssh \in [Names -> Addrs \cup {NoAddr}]

LocalsOK ==
  /\ pc \in [Procs -> Steps]
  /\ box \in [Procs -> Ids \cup {NoId}]
  /\ arg \in [Procs -> Names \cup {NoName}]
  /\ old \in [Procs -> Names \cup {NoName}]
  /\ todo \in [Procs -> [Ids -> Row \cup {NoRow}]]
  /\ view \in [Procs -> [Ids -> Instance \cup {NoInst}]]

CountsOK ==
  /\ stray \subseteq Ids
  /\ started \in 0..MaxCommands
  /\ faults \in 0..MaxFaults

TypeOK == StoresOK /\ LocalsOK /\ CountsOK

Held == {i \in Ids : \E p \in Procs : pc[p] \in Holding /\ box[p] = i}

\* No orphan EC2 instance: one that is alive has a row, or the create that
\* launched it is still between RunInstances and its INSERT or cleanup, or it is
\* a stray.  (instance_create.go: terminate what cannot be added to the database;
\* instance_lifecycle.go: never drop the record of a running instance.)
Accounted ==
  \A i \in Ids : ec2[i].state \in Live => Tracked(i) \/ i \in Held \/ i \in stray

\* A row is dropped only when its instance is terminated or gone, however old
\* the answer is that delete or ls acts upon (DeleteInstance, ListInstances).
DropsOnlyDead ==
  [][\A i \in Ids : Tracked(i) /\ db'[i] = NoRow => ec2[i].state \in Dead]_vars

\* A deleted box stays deleted: a stop, start, reboot or ls that read it before the
\* delete and writes after it brings no row back (SyncInstanceFromAWS updates the
\* row by its instance id and inserts none).
DeletedStaysDeleted ==
  [][\A i \in Ids : ec2[i].state \in Dead /\ ~Tracked(i) => db'[i] = NoRow]_vars

\* The commands implement the ledger.
Stage(s) == CASE s = "none" -> "unborn" [] s \in Live -> "live" [] s \in Dead -> "dead"
Ledger == INSTANCE BoxLedger WITH
            stage <- [i \in Ids |-> Stage(ec2[i].state)],
            tracked <- {i \in Ids : Tracked(i)},
            held <- Held
LedgerSpec == Ledger!Spec

\* A delete that got past TerminateInstances and then returns by itself leaves no
\* row behind ("terminates a box ... and removes it from the local DB").
DeleteLeavesNoRow ==
  [][\A p \in Procs :
       /\ pc[p] \in {"deleteHost", "deleteRow"} /\ pc'[p] = "idle"
       /\ faults' = faults
       => db'[box[p]] = NoRow]_vars

AllIdle == \A p \in Procs : At(p, "idle")

\* Between commands every outpost-<name> block belongs to the box of that name on
\* the books, and holds no other box's private address: no sequence of create,
\* rename, start, ls and delete leaves a block for a box that is gone or goes by
\* another name (DeleteHost, RenameHost and syncSSHHostIP in the commands).
HostsTracked ==
  AllIdle =>
    \A n \in Names :
      ssh[n] # NoAddr => \E i \in Ids : Tracked(i) /\ db[i].name = n /\ ssh[n] \in Pubs \cup {i}

\* Between commands a box goes by its Name tag: the name ls would bring back from
\* AWS is the one the user gave (RenameInstance keeps the tag the source of truth).
NameIsTag ==
  AllIdle => \A i \in Ids : Tracked(i) => db[i].name = ec2[i].tag

RowCurrent(i) == ec2[i].state # "gone" /\ Synced(db[i], i, ec2[i]) = db[i]

\* Once the user does nothing but run ls, the rows come to say what AWS says, and
\* rows of vanished instances go, whatever was cut short before.
LsConverges == <>[](\A i \in Ids : Tracked(i) => RowCurrent(i))

\* Once the user does nothing but run ls, the block of every running box comes to
\* hold its public address ("The HostName is updated automatically when a box
\* gets a new public IP", vscode-ssh.jsx).
HostFollowsAddress ==
  <>[](\A i \in Ids :
         Tracked(i) /\ ec2[i].state = "running" => ssh[db[i].name] = ec2[i].pub)

=============================================================================
