------------------------ MODULE SnapshotProperties ------------------------
(* What the snapshot commands guarantee, stated of Snapshots. *)
EXTENDS Snapshots

StoresOK ==
  /\ image \in [Ids -> Image]
  /\ disk \subseteq Ids \X Disks
  /\ row \in [Ids -> Row \cup {NoRow}]
  /\ boxes \subseteq BoxIds

LocalsOK ==
  /\ pc \in [Procs -> Steps]
  /\ ami \in [Procs -> Ids \cup {NoId}]
  /\ arg \in [Procs -> Arg]
  /\ todo \in [Procs -> [Ids -> Row \cup {NoRow}]]
  /\ view \in [Procs -> [Ids -> Answers]]
  /\ left \in [Procs -> SUBSET (Ids \X Disks)]

TypeOK ==
  /\ StoresOK /\ LocalsOK
  /\ stray \subseteq Ids
  /\ started \in 0..MaxCommands /\ faults \in 0..MaxFaults

Held == {i \in Ids : \E p \in Procs : At(p, "insert") /\ ami[p] = i}

\* The snapshot commands keep the same ledger as the box commands: an image that
\* exists has a row, or its create is about to record it, or it is a stray (of
\* others, or of a create that was cut short or refused its row); and a row goes
\* only when its image is gone.
Stage(s) == CASE s = "none" -> "unborn" [] s \in Alive -> "live" [] s = "gone" -> "dead"
Ledger == INSTANCE BoxLedger WITH
            stage <- [i \in Ids |-> Stage(image[i].state)],
            tracked <- {i \in Ids : Tracked(i)},
            held <- Held
LedgerSpec == Ledger!Spec

\* However many ls run at once, and however old the answers they act upon, the
\* recorded state of a snapshot never goes back from available to pending: a
\* state is written only when it differs from the row as ls read it.
StateNeverRegresses ==
  [][\A i \in Ids : Tracked(i) /\ row'[i] # NoRow /\ row[i].state = "available"
                    => row'[i].state = "available"]_vars

\* A delete that says the snapshot is deleted has deleted its disk snapshots too,
\* also when it is the retry of one that failed half-way.
DeleteTakesDisks ==
  [][\A p \in Procs :
       At(p, "deleteRow") /\ pc'[p] = "idle" /\ faults' = faults
       => DisksOf(ami[p]) = {}]_vars

\* Once the user does nothing but run ls, each row says what AWS says and rows of
\* missing images are gone, whatever was cut short before.
LsConverges ==
  <>[](\A i \in Ids : Tracked(i) => row[i].state = image[i].state)

=============================================================================
