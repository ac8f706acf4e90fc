--------------------------- MODULE SnapshotProofs ---------------------------
(***************************************************************************)
(* What holds of Snapshots for every set of images, names, boxes, regions  *)
(* and processes and every bound.                                          *)
(*                                                                         *)
(* The argument is the one of BoxesProofs: a process acts on what it read  *)
(* some steps ago, so the invariant says what it may still rely on.        *)
(* Carries(p) ties the rows and the answers that p carries to the present  *)
(* state of the images, and survives what the others do because images     *)
(* only age: none, pending, available, gone.  From it every step is a step *)
(* of the ledger, and no step takes a row back from available to pending.  *)
(***************************************************************************)
EXTENDS SnapshotProperties, TLAPS

Past == {"available", "gone"}     \* the states an available image may be in later
Imaged == {"insert", "look", "deregister", "deleteDisks", "deleteRow"}

\* What p may rely on between two of its steps.
Carries(p) ==
  /\ pc[p] \in {"createImage", "insert"} => arg[p].name \in Names /\ arg[p].box \in BoxIds
  /\ pc[p] \in Imaged => ami[p] \in Ids /\ image[ami[p]].state # "none"
  /\ pc[p] \in {"deleteDisks", "deleteRow"} => image[ami[p]].state = "gone"
  /\ pc[p] = "idle" => \A i \in Ids : todo[p][i] = NoRow
  /\ pc[p] \notin {"describe", "reconcile"} => \A i \in Ids : view[p][i] = "unasked"
  /\ \A i \in Ids : todo[p][i] # NoRow =>
       /\ image[i].state # "none"
       /\ pc[p] = "reconcile" => view[p][i] # "unasked"
       /\ todo[p][i].state = "available" => image[i].state \in Past /\ view[p][i] # "pending"
  /\ \A i \in Ids : view[p][i] = "absent" => image[i].state = "gone"
  /\ \A i \in Ids : view[p][i] = "available" => image[i].state \in Past

Carried == \A p \in Procs : Carries(p)

\* A row is of an image that exists or existed, and is not ahead of it.
RowsTrue ==
  \A i \in Ids : Tracked(i) =>
    /\ image[i].state # "none"
    /\ row[i].state = "available" => image[i].state \in Past

\* No two creates answer for the same image.
HoldersApart ==
  \A p, q \in Procs : At(p, "insert") /\ At(q, "insert") /\ ami[p] = ami[q] => p = q

IInv == TypeOK /\ Carried /\ RowsTrue /\ HoldersApart

\* An image is never unborn again, nor an available one pending, nor a gone one back.
Ages ==
  \A i \in Ids :
    /\ image[i].state # "none" => image'[i].state # "none"
    /\ image[i].state \in Past => image'[i].state \in Past
    /\ image[i].state = "gone" => image'[i].state = "gone"

\* A step of p leaves what the other processes carry alone.
Others(p) ==
  \A q \in Procs \ {p} :
    /\ pc'[q] = pc[q] /\ ami'[q] = ami[q] /\ arg'[q] = arg[q]
    /\ todo'[q] = todo[q] /\ view'[q] = view[q] /\ left'[q] = left[q]

Sound(p) == TypeOK' /\ Carries(p)' /\ Others(p) /\ Ages

\* The state functions the ledger is about, its step, and what a step may do to a row.
StageOf == [i \in Ids |-> Stage(image[i].state)]
TrackedIds == {i \in Ids : Tracked(i)}
LedgerStep == [Ledger!Next]_(Ledger!ledger)
RowsAdvance ==
  \A i \in Ids : Tracked(i) /\ row'[i] # NoRow /\ row[i].state = "available"
                 => row'[i].state = "available"
Keeps == IInv' /\ LedgerStep /\ RowsAdvance

-----------------------------------------------------------------------------
\* The invariant holds before the first command.
LEMMA InitIInv == Init => IInv
<1> SUFFICES ASSUME Init PROVE IInv
  OBVIOUS
<1>1. TypeOK
  BY ConstantsAssumption
  DEF Init, TypeOK, StoresOK, LocalsOK, NoTodo, NoView, NoArg, Arg, Image, Alive, Steps, Answers
<1>2. Carried
  BY DEF Init, Carried, Carries, Imaged, NoTodo, NoView
<1>3. RowsTrue /\ HoldersApart
  BY DEF Init, RowsTrue, HoldersApart, Tracked, At
<1> QED
  BY <1>1, <1>2, <1>3 DEF IInv

\* Where no image changes, none gets younger.
LEMMA SameAges == ASSUME image' = image PROVE Ages
BY DEF Ages

\* A command that returns leaves nothing behind.
LEMMA ExitSound ==
  ASSUME LocalsOK, NEW p \in Procs, Exit(p)
  PROVE  LocalsOK' /\ Carries(p)' /\ Others(p) /\ pc'[p] = "idle"
<1>1. LocalsOK'
  BY DEF LocalsOK, Exit, Goto, Steps, NoTodo, NoView, NoArg, Arg, Answers
<1>2. pc'[p] = "idle" /\ todo'[p] = NoTodo /\ view'[p] = NoView
  BY DEF LocalsOK, Exit, Goto
<1>3. Others(p)
  BY DEF LocalsOK, Exit, Goto, Others
<1> QED
  BY <1>1, <1>2, <1>3 DEF Carries, Imaged, NoTodo, NoView

\* What ls and import carry from one row to the next.
LEMMA DoneSound ==
  ASSUME LocalsOK, NEW p \in Procs, NEW i \in Ids, DoneWith(p, i), Carries(p), Ages,
         pc[p] \in {"reconcile", "import"}
  PROVE  LocalsOK' /\ Carries(p)' /\ Others(p) /\ pc'[p] \in {"idle", "reconcile", "import"}
<1>1. CASE \E j \in Ids \ {i} : todo[p][j] # NoRow
  <2>1. /\ todo' = [todo EXCEPT ![p][i] = NoRow] /\ view' = [view EXCEPT ![p][i] = "unasked"]
        /\ UNCHANGED <<pc, ami, arg, left>>
    BY <1>1 DEF DoneWith
  <2>2. LocalsOK' /\ Others(p)
    BY <2>1 DEF LocalsOK, Others, Answers
  <2>3. \A j \in Ids : /\ todo'[p][j] = IF j = i THEN NoRow ELSE todo[p][j]
                       /\ view'[p][j] = IF j = i THEN "unasked" ELSE view[p][j]
    BY <2>1 DEF LocalsOK
  <2> QED
    BY <2>1, <2>2, <2>3 DEF Carries, Ages, Imaged
<1>2. CASE ~ \E j \in Ids \ {i} : todo[p][j] # NoRow
  BY <1>2, ExitSound DEF DoneWith
<1> QED
  BY <1>1, <1>2

\* What a process carries survives the steps of the others.
LEMMA CarryOver ==
  ASSUME NEW q \in Procs, Carries(q), Ages,
         pc'[q] = pc[q], ami'[q] = ami[q], arg'[q] = arg[q],
         todo'[q] = todo[q], view'[q] = view[q]
  PROVE  Carries(q)'
BY DEF Carries, Ages, Imaged

\* A process holds an image that is new when it gets it, so no other holds it.
LEMMA SoundInv ==
  ASSUME IInv, NEW p \in Procs, Sound(p), RowsTrue',
         pc'[p] = "insert" => image[ami'[p]].state = "none"
  PROVE  IInv'
<1>1. Carried'
  <2> SUFFICES ASSUME NEW q \in Procs, q # p PROVE Carries(q)'
    BY DEF Sound, Carried
  <2> QED
    BY CarryOver DEF IInv, Carried, Sound, Others
<1>2. HoldersApart'
  <2>1. \A q \in Procs : At(q, "insert") => image[ami[q]].state # "none"
    BY DEF IInv, Carried, Carries, At, Imaged
  <2> QED
    BY <2>1 DEF IInv, HoldersApart, Sound, Others, At
<1> QED
  BY <1>1, <1>2 DEF IInv, Sound

-----------------------------------------------------------------------------
(* The ledger's view of a step. *)

\* The stage of an image on the ledger, from its state.
LEMMA StageValue ==
  ASSUME NEW s
  PROVE  /\ s = "none" => Stage(s) = "unborn"
         /\ s \in Alive => Stage(s) = "live"
         /\ s = "gone" => Stage(s) = "dead"
BY DEF Stage, Alive

\* Held changes with what the process that moves holds.
LEMMA HeldSame ==
  ASSUME NEW p \in Procs, Others(p), pc[p] # "insert", pc'[p] # "insert"
  PROVE  Held' = Held
BY DEF Held, Others, At

\* A create that leaves its image lets go of that one only.
LEMMA HeldLoses ==
  ASSUME IInv, NEW p \in Procs, Others(p), pc[p] = "insert", pc'[p] # "insert"
  PROVE  Held' = Held \ {ami[p]}
BY DEF IInv, HoldersApart, Held, Others, At

\* A step that changes no image's stage and no row's existence is none of the ledger's.
LEMMA SameLedger ==
  ASSUME \A i \in Ids : Stage(image'[i].state) = Stage(image[i].state),
         \A i \in Ids : Tracked(i)' <=> Tracked(i),
         Held' = Held, stray' = stray
  PROVE  LedgerStep
<1>1. StageOf' = StageOf /\ TrackedIds' = TrackedIds
  BY DEF StageOf, TrackedIds
<1> QED
  BY <1>1 DEF LedgerStep, Ledger!ledger, StageOf, TrackedIds

\* A step that only moves one process along.
LEMMA QuietKeeps ==
  ASSUME IInv, NEW p \in Procs, Sound(p), UNCHANGED <<image, row, stray>>,
         pc[p] # "insert", pc'[p] # "insert"
  PROVE  Keeps
<1>1. RowsTrue'
  BY DEF IInv, RowsTrue, Tracked
<1>2. IInv'
  BY <1>1, SoundInv
<1>3. Held' = Held
  BY HeldSame DEF Sound
<1>4. LedgerStep
  BY <1>3, SameLedger DEF Tracked
<1> QED
  BY <1>2, <1>4 DEF Keeps, RowsAdvance

\* An image that is deregistered is a Die of the ledger.
LEMMA DieLedger ==
  ASSUME TypeOK, NEW i \in Ids, IsAlive(i), image' = [image EXCEPT ![i].state = "gone"],
         row' = row, stray' = stray, Held' = Held
  PROVE  Ages /\ LedgerStep
<1>1. image'[i].state = "gone" /\ \A j \in Ids \ {i} : image'[j] = image[j]
  BY DEF TypeOK, StoresOK, Image
<1>2. StageOf' = [StageOf EXCEPT ![i] = "dead"] /\ StageOf[i] = "live"
  <2>1. Stage(image'[i].state) = "dead" /\ Stage(image[i].state) = "live"
    BY <1>1, StageValue DEF IsAlive
  <2>2. \A j \in Ids \ {i} : Stage(image'[j].state) = Stage(image[j].state)
    BY <1>1
  <2> QED
    BY <2>1, <2>2 DEF StageOf
<1>3. TrackedIds' = TrackedIds
  BY DEF TrackedIds, Tracked
<1>4. Ledger!Die(i)
  BY <1>2, <1>3 DEF Ledger!Die, StageOf, TrackedIds
<1>5. Ages
  BY <1>1 DEF Ages, Past, IsAlive, Alive
<1> QED
  BY <1>4, <1>5 DEF LedgerStep, Ledger!Next

\* The removal of the row of an image that is gone is a Drop.
LEMMA DropLedger ==
  ASSUME TypeOK, NEW i \in Ids, image[i].state = "gone", image' = image,
         row' = [row EXCEPT ![i] = NoRow], stray' = stray, Held' = Held
  PROVE  LedgerStep
<1>1. TrackedIds' = TrackedIds \ {i}
  BY DEF TrackedIds, Tracked, TypeOK, StoresOK
<1>2. StageOf' = StageOf /\ StageOf[i] = "dead"
  BY StageValue DEF StageOf
<1>3. Ledger!Drop(i)
  BY <1>1, <1>2 DEF Ledger!Drop, StageOf, TrackedIds
<1> QED
  BY <1>3 DEF LedgerStep, Ledger!Next

\* A row for an image that was made is a Track, which may let go of the image.
LEMMA TrackLedger ==
  ASSUME TypeOK, NEW i \in Ids, image[i].state # "none", image' = image,
         NEW r \in Row, row' = [row EXCEPT ![i] = r], stray' = stray,
         Held' \in {Held, Held \ {i}}
  PROVE  LedgerStep
<1>1. r # NoRow
  BY NonesAssumption
<1>2. TrackedIds' = TrackedIds \cup {i}
  BY <1>1 DEF TrackedIds, Tracked, TypeOK, StoresOK
<1>3. StageOf' = StageOf /\ StageOf[i] # "unborn"
  <2>1. image[i].state \in Alive \cup {"gone"}
    BY DEF TypeOK, StoresOK, Image
  <2> QED
    BY <2>1, StageValue DEF StageOf
<1>4. Ledger!Track(i)
  BY <1>2, <1>3 DEF Ledger!Track, StageOf, TrackedIds
<1> QED
  BY <1>4 DEF LedgerStep, Ledger!Next

\* A create that keeps its image without a row leaves it to the strays.
LEMMA LetGoLedger ==
  ASSUME NEW i \in Held, image' = image, row' = row,
         Held' = Held \ {i}, stray' = stray \cup {i}
  PROVE  LedgerStep
<1>1. StageOf' = StageOf /\ TrackedIds' = TrackedIds /\ i \in Ids
  BY DEF StageOf, TrackedIds, Tracked, Held
<1>2. Ledger!LetGo(i)
  BY <1>1 DEF Ledger!LetGo, StageOf, TrackedIds
<1> QED
  BY <1>1, <1>2 DEF LedgerStep, Ledger!Next

-----------------------------------------------------------------------------
(* create *)

\* A create that starts holds nothing.
LEMMA CreateBeginKeeps ==
  ASSUME IInv, NEW p \in Procs, NEW b \in BoxIds, NEW n \in Names, CreateBegin(p, b, n)
  PROVE  Keeps
<1> USE DEF IInv, TypeOK, CreateBegin, Begin, At, Goto, stores
<1>1. Others(p) /\ Ages
  BY SameAges DEF LocalsOK, Others
<1>2. TypeOK'
  BY ConstantsAssumption DEF StoresOK, LocalsOK, Arg, Steps
<1>3. Carries(p)'
  BY DEF LocalsOK, Carried, Carries, Imaged
<1> QED
  BY <1>1, <1>2, <1>3, QuietKeeps DEF Sound, LocalsOK

\* CreateImage makes an image that the create holds.
LEMMA CreateImageKeeps == ASSUME IInv, NEW p \in Procs, CreateImage(p) PROVE Keeps
<1> USE DEF IInv, TypeOK
<1>0. /\ pc[p] = "createImage" /\ arg[p].name \in Names
      /\ UNCHANGED <<row, boxes, stray, started, faults>>
  BY DEF CreateImage, At, counts, Carried, Carries
<1>1. CASE /\ image' = image /\ disk' = disk /\ Exit(p)
  <2>1. TypeOK' /\ Sound(p) /\ pc'[p] = "idle"
    BY <1>0, <1>1, ExitSound, SameAges DEF StoresOK, Sound
  <2> QED
    BY <1>0, <1>1, <2>1, QuietKeeps
<1>2. ASSUME NEW i \in Ids, image[i].state = "none",
             image' = [image EXCEPT ![i] = [state |-> "pending", name |-> arg[p].name]],
             disk' = disk \cup ({i} \X Disks), ami' = [ami EXCEPT ![p] = i],
             Goto(p, "insert"), UNCHANGED <<arg, todo, view, left>>
      PROVE  Keeps
  <2>1. /\ image'[i].state = "pending" /\ \A j \in Ids \ {i} : image'[j] = image[j]
        /\ ami'[p] = i /\ pc'[p] = "insert"
    BY <1>2 DEF StoresOK, LocalsOK, Goto
  <2>2. Ages /\ Others(p)
    BY <1>2, <2>1 DEF Ages, Past, Others, Goto, LocalsOK
  <2>3. TypeOK'
    <3>1. [state |-> "pending", name |-> arg[p].name] \in Image
      BY <1>0 DEF Image, Alive
    <3> QED
      BY <1>0, <1>2, <3>1 DEF StoresOK, LocalsOK, Goto, Steps
  <2>4. Carries(p)'
    BY <1>0, <1>2, <2>1, <2>2 DEF Carried, Carries, Ages, Imaged
  <2>5. IInv'
    BY <1>0, <1>2, <2>1, <2>2, <2>3, <2>4, SoundInv DEF Sound, RowsTrue, Tracked, Ages
  <2>6. Held' = Held \cup {i}
    BY <1>0, <1>2, <2>1, <2>2 DEF Held, Others, At
  <2>7. StageOf' = [StageOf EXCEPT ![i] = "live"] /\ StageOf[i] = "unborn"
    <3>1. Stage(image'[i].state) = "live" /\ Stage(image[i].state) = "unborn"
      BY <1>2, <2>1, StageValue DEF Alive
    <3>2. \A j \in Ids \ {i} : Stage(image'[j].state) = Stage(image[j].state)
      BY <2>1
    <3> QED
      BY <3>1, <3>2 DEF StageOf
  <2>8. TrackedIds' = TrackedIds
    BY <1>0 DEF TrackedIds, Tracked
  <2>9. Ledger!Launch(i)
    BY <1>0, <2>6, <2>7, <2>8 DEF Ledger!Launch, StageOf, TrackedIds
  <2> QED
    BY <1>0, <2>5, <2>9 DEF Keeps, LedgerStep, Ledger!Next, RowsAdvance
<1> QED
  BY <1>1, <1>2 DEF CreateImage

\* The INSERT is a Track, or leaves the image to the strays.
LEMMA InsertSnapshotKeeps == ASSUME IInv, NEW p \in Procs, InsertSnapshot(p) PROVE Keeps
<1> USE DEF IInv, TypeOK
<1> DEFINE r == [name |-> arg[p].name, state |-> "pending", box |-> arg[p].box]
<1>0. /\ pc[p] = "insert" /\ UNCHANGED <<image, disk, boxes, started, faults>>
      /\ arg[p].name \in Names /\ arg[p].box \in BoxIds
      /\ ami[p] \in Ids /\ image[ami[p]].state # "none"
  BY DEF InsertSnapshot, At, Carried, Carries, Imaged
<1>1. /\ LocalsOK' /\ Carries(p)' /\ Others(p) /\ pc'[p] = "idle" /\ Ages
  BY <1>0, ExitSound, SameAges DEF InsertSnapshot
<1>2. Held' = Held \ {ami[p]}
  BY <1>0, <1>1, HeldLoses
<1>3. CASE stray' = stray \cup {ami[p]} /\ row' = row
  <2>1. IInv'
    BY <1>0, <1>1, <1>3, SoundInv DEF Sound, StoresOK, RowsTrue, Tracked
  <2>2. ami[p] \in Held
    BY <1>0 DEF Held, At
  <2> QED
    BY <1>0, <1>2, <1>3, <2>1, <2>2, LetGoLedger DEF Keeps, RowsAdvance
<1>4. CASE row' = [row EXCEPT ![ami[p]] = r] /\ stray' = stray /\ ~Tracked(ami[p])
  <2>1. r \in Row /\ r.state = "pending"
    BY <1>0 DEF Row, Alive
  <2> HIDE DEF r
  <2>2. \A i \in Ids : row'[i] = IF i = ami[p] THEN r ELSE row[i]
    BY <1>4 DEF StoresOK
  <2>3. RowsTrue'
    BY <1>0, <2>1, <2>2 DEF RowsTrue, Tracked
  <2>4. IInv'
    BY <1>0, <1>1, <1>4, <2>1, <2>3, SoundInv DEF Sound, StoresOK
  <2>5. RowsAdvance
    BY <1>4, <2>2 DEF RowsAdvance
  <2> QED
    BY <1>0, <1>2, <1>4, <2>1, <2>4, <2>5, TrackLedger DEF Keeps
<1> QED
  BY <1>3, <1>4 DEF InsertSnapshot, InsertRefused

-----------------------------------------------------------------------------
(* ls, and ls of one snapshot *)

\* The rows that ls reads carry what the rows themselves guarantee.
LEMMA RowsRead ==
  ASSUME IInv, NEW p \in Procs, pc[p] = "idle", NEW t \in [Ids -> Row \cup {NoRow}],
         todo' = [todo EXCEPT ![p] = t], Goto(p, "describe"), image' = image,
         \A i \in Ids : t[i] # NoRow => t[i] = row[i] \/ t[i] = todo[p][i],
         UNCHANGED <<ami, arg, view, left>>
  PROVE  LocalsOK' /\ Carries(p)' /\ Others(p) /\ pc'[p] = "describe"
<1> USE DEF IInv, TypeOK
<1>1. /\ pc'[p] = "describe" /\ todo'[p] = t /\ Others(p) /\ LocalsOK'
  BY DEF Goto, LocalsOK, Others, Steps
<1>2. \A i \in Ids : view[p][i] = "unasked"
  BY DEF Carried, Carries
<1> QED
  BY <1>1, <1>2 DEF Carried, Carries, RowsTrue, Tracked, Imaged

\* ls reads the rows, which are of images that were made.
LEMMA LsBeginKeeps == ASSUME IInv, NEW p \in Procs, LsBegin(p) PROVE Keeps
<1> USE DEF IInv, TypeOK
<1>1. /\ pc[p] = "idle" /\ UNCHANGED <<image, disk, row, boxes, stray, started, faults>>
      /\ todo' = [todo EXCEPT ![p] = row] /\ Goto(p, "describe")
      /\ UNCHANGED <<ami, arg, view, left>>
  BY DEF LsBegin, At, Quiet, stores, counts
<1>2. LocalsOK' /\ Carries(p)' /\ Others(p) /\ pc'[p] = "describe"
  BY <1>1, RowsRead DEF StoresOK
<1> QED
  BY <1>1, <1>2, SameAges, QuietKeeps DEF Sound, StoresOK

\* So does ls of one snapshot.
LEMMA ShowBeginKeeps ==
  ASSUME IInv, NEW p \in Procs, NEW i \in Ids, ShowBegin(p, i) PROVE Keeps
<1> USE DEF IInv, TypeOK
<1> DEFINE t == [todo[p] EXCEPT ![i] = row[i]]
<1>1. /\ pc[p] = "idle" /\ UNCHANGED <<image, disk, row, boxes, stray, faults>>
      /\ started' \in 0..MaxCommands /\ Goto(p, "describe")
      /\ UNCHANGED <<ami, arg, view, left>>
  BY ConstantsAssumption DEF ShowBegin, Begin, At, stores
<1>2. /\ todo' = [todo EXCEPT ![p] = t] /\ t \in [Ids -> Row \cup {NoRow}]
      /\ \A j \in Ids : t[j] # NoRow => t[j] = row[j] \/ t[j] = todo[p][j]
  BY DEF ShowBegin, LocalsOK, StoresOK
<1> HIDE DEF t
<1>3. LocalsOK' /\ Carries(p)' /\ Others(p) /\ pc'[p] = "describe"
  BY <1>1, <1>2, RowsRead
<1> QED
  BY <1>1, <1>3, SameAges, QuietKeeps DEF Sound, StoresOK

\* The last region's answer leaves no row of those read unanswered.
LEMMA DescribeKeeps ==
  ASSUME IInv, NEW p \in Procs, NEW r \in Regions, DescribeImages(p, r) PROVE Keeps
<1> USE DEF IInv, TypeOK
<1> DEFINE v == [i \in Ids |-> IF i \notin Asked(p, r) THEN view[p][i]
                               ELSE IF IsAlive(i) THEN image[i].state ELSE "absent"]
           next == IF \E s \in Regions \ {r} : Asked(p, s) # {} THEN "describe" ELSE "reconcile"
<1>1. /\ pc[p] = "describe" /\ UNCHANGED <<image, disk, row, boxes, stray, started, faults>>
      /\ UNCHANGED <<ami, arg, todo, left>>
  BY DEF DescribeImages, At, Quiet, stores, counts
<1>2. v \in [Ids -> Answers] /\ view' = [view EXCEPT ![p] = v] /\ pc' = [pc EXCEPT ![p] = next]
  BY DEF DescribeImages, Goto, LocalsOK, Answers, IsAlive
<1>3. \A i \in Ids :
        \/ i \notin Asked(p, r) /\ v[i] = view[p][i]
        \/ i \in Asked(p, r) /\ IsAlive(i) /\ v[i] = image[i].state
        \/ i \in Asked(p, r) /\ ~IsAlive(i) /\ v[i] = "absent"
  OBVIOUS
<1>4. /\ next \in {"describe", "reconcile"}
      /\ next = "reconcile" => \A s \in Regions \ {r} : Asked(p, s) = {}
  OBVIOUS
<1> HIDE DEF v, next
<1>5. /\ pc'[p] = next /\ view'[p] = v /\ Others(p) /\ LocalsOK'
  BY <1>1, <1>2, <1>4 DEF LocalsOK, Others, Steps
<1>6. \A i \in Ids : todo[p][i] # NoRow /\ view[p][i] = "unasked" => i \in Asked(p, RegionOf[i])
  BY DEF Asked
<1>7. next = "reconcile" => \A i \in Ids : todo[p][i] # NoRow => v[i] # "unasked"
  BY <1>3, <1>4, <1>6, ConstantsAssumption DEF IsAlive, Alive
<1>8. \A i \in Asked(p, r) : image[i].state # "none" /\ (IsAlive(i) \/ image[i].state = "gone")
  BY DEF Asked, Carried, Carries, IsAlive, StoresOK, Image
<1>9. Carries(p)'
  BY <1>1, <1>3, <1>4, <1>5, <1>7, <1>8
  DEF Carried, Carries, Asked, Imaged, Past, IsAlive, Alive
<1> QED
  BY <1>1, <1>4, <1>5, <1>9, SameAges, QuietKeeps DEF Sound, StoresOK

\* A row takes the state of the answer, which is not ahead of the image, or goes with it.
LEMMA ReconcileKeeps ==
  ASSUME IInv, NEW p \in Procs, NEW i \in Ids, Reconcile(p, i) PROVE Keeps
<1> USE DEF IInv, TypeOK
<1>1. /\ pc[p] = "reconcile" /\ UNCHANGED <<image, disk, boxes, stray, started, faults>>
      /\ todo[p][i] \in Row /\ view[p][i] \in Alive \cup {"absent"} /\ DoneWith(p, i)
  BY DEF Reconcile, At, counts, LocalsOK, Carried, Carries, Answers
<1>2. LocalsOK' /\ Carries(p)' /\ Others(p) /\ pc'[p] # "insert" /\ Ages
  BY <1>1, DoneSound, SameAges DEF Carried
<1>3. Held' = Held
  BY <1>1, <1>2, HeldSame
<1>4. CASE row' = row
  BY <1>1, <1>2, <1>4, QuietKeeps DEF Sound, StoresOK
<1>5. CASE view[p][i] = "absent" /\ row' = [row EXCEPT ![i] = NoRow]
  <2>1. image[i].state = "gone"
    BY <1>5 DEF Carried, Carries
  <2>2. \A j \in Ids : row'[j] = IF j = i THEN NoRow ELSE row[j]
    BY <1>5 DEF StoresOK
  <2>3. IInv' /\ RowsAdvance
    BY <1>1, <1>2, <1>5, <2>2, SoundInv DEF Sound, StoresOK, RowsTrue, Tracked, RowsAdvance
  <2> QED
    BY <1>1, <1>3, <1>5, <2>1, <2>3, DropLedger DEF Keeps
<1>6. CASE /\ view[p][i] \notin {"absent", todo[p][i].state} /\ Tracked(i)
           /\ row' = [row EXCEPT ![i].state = view[p][i]]
  <2>1. view[p][i] = "available" /\ image[i].state \in Past
    BY <1>1, <1>6, NonesAssumption DEF Carried, Carries, Row, Alive
  <2>2. row[i] \in Row
    BY <1>6 DEF StoresOK, Tracked
  <2>3. /\ row'[i] \in Row /\ row'[i].state = "available"
        /\ \A j \in Ids \ {i} : row'[j] = row[j]
    BY <1>6, <2>1, <2>2 DEF StoresOK, Row, Alive
  <2>4. row'[i] # NoRow
    BY <2>3, NonesAssumption
  <2>5. row' \in [Ids -> Row \cup {NoRow}]
    BY <1>6, <2>3 DEF StoresOK
  <2>6. RowsTrue' /\ RowsAdvance /\ \A j \in Ids : Tracked(j)' <=> Tracked(j)
    BY <1>1, <1>6, <2>1, <2>3, <2>4 DEF RowsTrue, Tracked, RowsAdvance
  <2>7. IInv'
    BY <1>1, <1>2, <2>5, <2>6, SoundInv DEF Sound, StoresOK
  <2>8. LedgerStep
    BY <1>1, <1>3, <2>6, SameLedger
  <2> QED
    BY <2>6, <2>7, <2>8 DEF Keeps
<1> QED
  BY <1>4, <1>5, <1>6 DEF Reconcile

-----------------------------------------------------------------------------
(* delete *)

\* A delete that starts carries a row's image.
LEMMA DeleteBeginKeeps ==
  ASSUME IInv, NEW p \in Procs, NEW i \in Ids, DeleteBegin(p, i) PROVE Keeps
<1> USE DEF IInv, TypeOK, DeleteBegin, Begin, At, Goto, stores
<1>1. Others(p) /\ Ages /\ pc[p] = "idle" /\ pc'[p] = "look"
  BY SameAges DEF LocalsOK, Others
<1>2. TypeOK'
  BY ConstantsAssumption DEF StoresOK, LocalsOK, Steps
<1>3. image[i].state # "none"
  BY DEF RowsTrue
<1>4. Carries(p)'
  <2>1. /\ ami'[p] = i /\ i \in Ids /\ image' = image
        /\ \A q \in Procs : arg'[q] = arg[q] /\ todo'[q] = todo[q] /\ view'[q] = view[q]
        /\ left'[p] = left[p]
    BY DEF LocalsOK
  <2>2. Carries(p)
    BY DEF Carried
  <2> QED
    BY ONLY <1>1, <1>3, <2>1, <2>2 DEF Carries, Imaged
<1>5. Sound(p) /\ UNCHANGED <<image, row, stray>>
  BY <1>1, <1>2, <1>4 DEF Sound
<1> QED
  BY <1>1, <1>5, QuietKeeps

\* It finds the image's disks, or that the image is gone.
LEMMA DeleteLookKeeps == ASSUME IInv, NEW p \in Procs, DeleteLook(p) PROVE Keeps
<1> USE DEF IInv, TypeOK
<1> DEFINE next == IF IsAlive(ami[p]) THEN "deregister" ELSE "deleteRow"
           l == IF IsAlive(ami[p]) THEN DisksOf(ami[p]) ELSE {}
<1>1. /\ pc[p] = "look" /\ ami[p] \in Ids /\ image[ami[p]].state # "none"
      /\ UNCHANGED <<image, disk, row, boxes, stray, started, faults, ami, arg, todo, view>>
      /\ pc' = [pc EXCEPT ![p] = next] /\ left' = [left EXCEPT ![p] = l]
  BY DEF DeleteLook, At, Goto, Quiet, stores, counts, Carried, Carries, Imaged
<1>2. /\ l \in SUBSET (Ids \X Disks) /\ next \in {"deregister", "deleteRow"}
      /\ next = "deleteRow" => image[ami[p]].state = "gone"
  BY <1>1 DEF DisksOf, StoresOK, IsAlive, Image
<1> HIDE DEF next, l
<1>3. Others(p) /\ LocalsOK' /\ pc'[p] = next
  BY <1>1, <1>2 DEF LocalsOK, Others, Steps
<1>4. Carries(p)'
  BY <1>1, <1>2, <1>3 DEF Carried, Carries, Imaged
<1> QED
  BY <1>1, <1>2, <1>3, <1>4, SameAges, QuietKeeps DEF Sound, StoresOK

\* Deregistering is a Die of the ledger.
LEMMA DeregisterKeeps == ASSUME IInv, NEW p \in Procs, DeregisterImage(p) PROVE Keeps
<1> USE DEF IInv, TypeOK
<1>1. /\ pc[p] = "deregister" /\ ami[p] \in Ids
      /\ UNCHANGED <<disk, row, boxes, stray, started, faults>>
  BY DEF DeregisterImage, At, counts, Carried, Carries, Imaged
<1>2. CASE image' = image /\ Exit(p)
  BY <1>1, <1>2, ExitSound, SameAges, QuietKeeps DEF Sound, StoresOK
<1>3. CASE /\ IsAlive(ami[p]) /\ image' = [image EXCEPT ![ami[p]].state = "gone"]
           /\ Goto(p, IF left[p] = {} THEN "deleteRow" ELSE "deleteDisks")
           /\ UNCHANGED locals
  <2>1. LocalsOK' /\ Others(p) /\ pc'[p] \in {"deleteRow", "deleteDisks"}
    BY <1>3 DEF LocalsOK, Others, Steps, Goto, locals
  <2>2. Held' = Held
    BY <1>1, <2>1, HeldSame
  <2>3. Ages /\ LedgerStep
    BY <1>1, <1>3, <2>2, DieLedger
  <2>4. image' \in [Ids -> Image] /\ image'[ami[p]].state = "gone"
    BY <1>1, <1>3 DEF StoresOK, Image
  <2>5. Carries(p)'
    BY <1>1, <1>3, <2>1, <2>3, <2>4 DEF Carried, Carries, Ages, Imaged, locals
  <2>6. RowsTrue' /\ RowsAdvance
    BY <1>1, <2>3 DEF RowsTrue, Ages, Tracked, RowsAdvance
  <2> QED
    BY <1>1, <2>1, <2>3, <2>4, <2>5, <2>6, SoundInv DEF Keeps, Sound, StoresOK
<1> QED
  BY <1>2, <1>3 DEF DeregisterImage

\* A disk is not on the ledger.
LEMMA DeleteDiskKeeps ==
  ASSUME IInv, NEW p \in Procs, NEW d \in disk \cup left[p], DeleteDisk(p, d) PROVE Keeps
<1> USE DEF IInv, TypeOK
<1>1. /\ pc[p] = "deleteDisks" /\ ami[p] \in Ids /\ image[ami[p]].state = "gone"
      /\ UNCHANGED <<image, row, boxes, stray, started, faults>>
  BY DEF DeleteDisk, At, counts, Carried, Carries, Imaged
<1>2. CASE disk' = disk /\ Exit(p)
  BY <1>1, <1>2, ExitSound, SameAges, QuietKeeps DEF Sound, StoresOK
<1>3. CASE /\ disk' = disk \ {d} /\ left' = [left EXCEPT ![p] = @ \ {d}]
           /\ Goto(p, IF left[p] = {d} THEN "deleteRow" ELSE "deleteDisks")
           /\ UNCHANGED <<ami, arg, todo, view>>
  <2>1. LocalsOK' /\ Others(p) /\ pc'[p] \in {"deleteRow", "deleteDisks"}
    BY <1>3 DEF LocalsOK, Others, Steps, Goto
  <2>2. Carries(p)'
    BY <1>1, <1>3, <2>1 DEF Carried, Carries, Imaged
  <2> QED
    BY <1>1, <1>3, <2>1, <2>2, SameAges, QuietKeeps DEF Sound, StoresOK
<1> QED
  BY <1>2, <1>3 DEF DeleteDisk

\* Delete removes the row of an image it has found or made gone.
LEMMA DeleteRowKeeps == ASSUME IInv, NEW p \in Procs, DeleteRow(p) PROVE Keeps
<1> USE DEF IInv, TypeOK
<1>1. /\ pc[p] = "deleteRow" /\ ami[p] \in Ids /\ image[ami[p]].state = "gone"
      /\ row' = [row EXCEPT ![ami[p]] = NoRow] /\ Exit(p)
      /\ UNCHANGED <<image, disk, boxes, stray, started, faults>>
  BY DEF DeleteRow, At, counts, Carried, Carries, Imaged
<1>2. LocalsOK' /\ Carries(p)' /\ Others(p) /\ pc'[p] = "idle" /\ Ages
  BY <1>1, ExitSound, SameAges
<1>3. \A j \in Ids : row'[j] = IF j = ami[p] THEN NoRow ELSE row[j]
  BY <1>1 DEF StoresOK
<1>4. IInv' /\ RowsAdvance
  BY <1>1, <1>2, <1>3, SoundInv DEF Sound, StoresOK, RowsTrue, Tracked, RowsAdvance
<1>5. Held' = Held
  BY <1>1, <1>2, HeldSame
<1> QED
  BY <1>1, <1>4, <1>5, DropLedger DEF Keeps

-----------------------------------------------------------------------------
(* import *)

\* Import carries images from an answer.
LEMMA ImportBeginKeeps ==
  ASSUME IInv, NEW p \in Procs, NEW r \in Regions, ImportBegin(p, r) PROVE Keeps
<1> USE DEF IInv, TypeOK
<1> DEFINE cands == {i \in Ids : IsAlive(i) /\ ~Tracked(i) /\ RegionOf[i] = r}
<1>1. PICK nm \in [cands -> Names] :
        todo' = [todo EXCEPT ![p] = [i \in Ids |->
                     IF i \in cands
                     THEN [name |-> nm[i], state |-> image[i].state, box |-> NoBox]
                     ELSE NoRow]]
  BY DEF ImportBegin
<1> DEFINE t == [i \in Ids |-> IF i \in cands
                   THEN [name |-> nm[i], state |-> image[i].state, box |-> NoBox]
                   ELSE NoRow]
<1>2. /\ pc[p] = "idle" /\ UNCHANGED <<image, disk, row, boxes, stray, faults>>
      /\ started' \in 0..MaxCommands /\ Goto(p, "import")
      /\ UNCHANGED <<ami, arg, view, left>>
  BY ConstantsAssumption DEF ImportBegin, Begin, At, stores
<1>3. t \in [Ids -> Row \cup {NoRow}]
  BY DEF Row, IsAlive
<1>4. \A i \in Ids : t[i] # NoRow => IsAlive(i) /\ t[i].state = image[i].state
  OBVIOUS
<1>5. todo' = [todo EXCEPT ![p] = t]
  BY <1>1
<1> HIDE DEF t, cands
<1>6. LocalsOK' /\ Others(p) /\ pc'[p] = "import" /\ todo'[p] = t
  BY <1>2, <1>3, <1>5 DEF Goto, LocalsOK, Others, Steps
<1>7. Carries(p)'
  BY <1>2, <1>4, <1>6 DEF Carried, Carries, Imaged, IsAlive, Alive, Past
<1> QED
  BY <1>2, <1>6, <1>7, SameAges, QuietKeeps DEF Sound, StoresOK

\* It may leave one out.
LEMMA ImportSkipKeeps ==
  ASSUME IInv, NEW p \in Procs, NEW i \in Ids, ImportSkip(p, i) PROVE Keeps
<1> USE DEF IInv, TypeOK
<1>1. /\ pc[p] = "import" /\ DoneWith(p, i)
      /\ UNCHANGED <<image, disk, row, boxes, stray, started, faults>>
  BY DEF ImportSkip, At, Quiet, stores, counts
<1>2. LocalsOK' /\ Carries(p)' /\ Others(p) /\ pc'[p] # "insert" /\ Ages
  BY <1>1, DoneSound, SameAges DEF Carried
<1> QED
  BY <1>1, <1>2, QuietKeeps DEF Sound, StoresOK

\* Or record it, which is a Track.
LEMMA ImportInsertKeeps ==
  ASSUME IInv, NEW p \in Procs, NEW i \in Ids, ImportInsert(p, i) PROVE Keeps
<1> USE DEF IInv, TypeOK
<1>1. /\ pc[p] = "import" /\ DoneWith(p, i) /\ todo[p][i] \in Row /\ image[i].state # "none"
      /\ todo[p][i].state = "available" => image[i].state \in Past
      /\ UNCHANGED <<image, disk, boxes, stray, started, faults>>
  BY DEF ImportInsert, At, counts, LocalsOK, Carried, Carries
<1>2. LocalsOK' /\ Carries(p)' /\ Others(p) /\ pc'[p] # "insert" /\ Ages
  BY <1>1, DoneSound, SameAges DEF Carried
<1>3. CASE row' = row
  BY <1>1, <1>2, <1>3, QuietKeeps DEF Sound, StoresOK
<1>4. CASE row' = [row EXCEPT ![i] = todo[p][i]] /\ ~Tracked(i)
  <2>1. \A j \in Ids : row'[j] = IF j = i THEN todo[p][i] ELSE row[j]
    BY <1>4 DEF StoresOK
  <2>2. IInv'
    BY <1>1, <1>2, <1>4, <2>1, SoundInv DEF Sound, StoresOK, RowsTrue, Tracked
  <2>3. RowsAdvance
    BY <1>4, <2>1 DEF RowsAdvance
  <2>4. Held' = Held
    BY <1>1, <1>2, HeldSame
  <2> QED
    BY <1>1, <1>4, <2>2, <2>3, <2>4, TrackLedger DEF Keeps
<1> QED
  BY <1>3, <1>4 DEF ImportInsert

-----------------------------------------------------------------------------
(* AWS, the console, the other commands, and faults. *)

\* A command cut short leaves what a create held to the strays.
LEMMA AbortKeeps == ASSUME IInv, NEW p \in Procs, Abort(p) PROVE Keeps
<1> USE DEF IInv, TypeOK
<1>1. /\ Exit(p) /\ UNCHANGED <<image, disk, row, boxes, started>> /\ faults' \in 0..MaxFaults
      /\ stray' = IF pc[p] = "insert" THEN stray \cup {ami[p]} ELSE stray
  BY ConstantsAssumption DEF Abort, stores, At
<1>2. LocalsOK' /\ Carries(p)' /\ Others(p) /\ pc'[p] = "idle" /\ Ages
  BY <1>1, ExitSound, SameAges
<1>3. CASE pc[p] # "insert"
  BY <1>1, <1>2, <1>3, QuietKeeps DEF Sound, StoresOK
<1>4. CASE pc[p] = "insert"
  <2>1. ami[p] \in Held /\ ami[p] \in Ids
    BY <1>4 DEF Held, At, Carried, Carries, Imaged
  <2>2. IInv' /\ RowsAdvance
    BY <1>1, <1>2, <2>1, SoundInv DEF Sound, StoresOK, RowsTrue, Tracked, RowsAdvance
  <2>3. Held' = Held \ {ami[p]}
    BY <1>2, <1>4, HeldLoses
  <2> QED
    BY <1>1, <1>4, <2>1, <2>2, <2>3, LetGoLedger DEF Keeps
<1> QED
  BY <1>3, <1>4

\* A step that moves no process.
LEMMA OutsideInv ==
  ASSUME IInv, TypeOK', Ages, UNCHANGED <<pc, ami, arg, todo, view, left>>, RowsTrue'
  PROVE  IInv' /\ Held' = Held
<1>1. Carried'
  BY CarryOver DEF IInv, Carried
<1> QED
  BY <1>1 DEF IInv, HoldersApart, Held, At

\* An image becomes available, or is deregistered at the console.
LEMMA ImageKeeps ==
  ASSUME IInv, NEW i \in Ids, BecomeAvailable(i) \/ ConsoleDeregister(i) PROVE Keeps
<1> USE DEF IInv, TypeOK
<1>1. UNCHANGED <<disk, row, boxes, stray, started, faults, pc, ami, arg, todo, view, left>>
  BY DEF BecomeAvailable, ConsoleDeregister, Outside, locals
<1>2. LocalsOK' /\ RowsAdvance
  BY <1>1 DEF LocalsOK, RowsAdvance
<1>3. Held' = Held
  BY <1>1 DEF Held, At
<1>4. CASE BecomeAvailable(i)
  <2>1. /\ image[i].state = "pending" /\ image'[i].state = "available"
        /\ \A j \in Ids \ {i} : image'[j] = image[j]
        /\ image' \in [Ids -> Image]
    BY <1>4 DEF BecomeAvailable, StoresOK, Image, Alive
  <2>2. Ages
    BY <2>1 DEF Ages, Past
  <2>3. RowsTrue'
    BY <1>1, <2>2 DEF RowsTrue, Ages, Tracked
  <2>4. IInv'
    BY <1>1, <1>2, <2>1, <2>2, <2>3, OutsideInv DEF StoresOK
  <2>5. \A j \in Ids : Stage(image'[j].state) = Stage(image[j].state)
    BY <2>1, StageValue DEF Alive
  <2> QED
    BY <1>1, <1>2, <1>3, <2>4, <2>5, SameLedger DEF Keeps, Tracked
<1>5. CASE ConsoleDeregister(i)
  <2>1. IsAlive(i) /\ image' = [image EXCEPT ![i].state = "gone"]
    BY <1>5 DEF ConsoleDeregister
  <2>2. Ages /\ LedgerStep
    BY <1>1, <1>3, <2>1, DieLedger
  <2>3. image' \in [Ids -> Image]
    BY <2>1 DEF StoresOK, Image
  <2>4. RowsTrue'
    BY <1>1, <2>2 DEF RowsTrue, Ages, Tracked
  <2> QED
    BY <1>1, <1>2, <2>2, <2>3, <2>4, OutsideInv DEF StoresOK, Keeps
<1> QED
  BY <1>4, <1>5

\* An image registered at the console is a stray.
LEMMA RegisterKeeps ==
  ASSUME IInv, NEW i \in Ids, NEW n \in Names, ConsoleRegister(i, n) PROVE Keeps
<1> USE DEF IInv, TypeOK
<1>1. /\ UNCHANGED <<row, boxes, started, faults, pc, ami, arg, todo, view, left>>
      /\ image[i].state = "none" /\ stray' = stray \cup {i}
      /\ image' = [image EXCEPT ![i] = [state |-> "available", name |-> n]]
      /\ disk' = disk \cup ({i} \X Disks)
  BY DEF ConsoleRegister, Outside, locals
<1>2. /\ image'[i].state = "available" /\ \A j \in Ids \ {i} : image'[j] = image[j]
      /\ image' \in [Ids -> Image]
  BY <1>1 DEF StoresOK, Image, Alive
<1>3. Ages
  BY <1>1, <1>2 DEF Ages, Past
<1>4. LocalsOK' /\ RowsAdvance /\ RowsTrue'
  BY <1>1, <1>3 DEF LocalsOK, RowsAdvance, RowsTrue, Ages, Tracked
<1>5. IInv' /\ Held' = Held
  BY <1>1, <1>2, <1>3, <1>4, OutsideInv DEF StoresOK
<1>6. StageOf' = [StageOf EXCEPT ![i] = "live"] /\ StageOf[i] = "unborn"
  <2>1. Stage(image'[i].state) = "live" /\ Stage(image[i].state) = "unborn"
    BY <1>1, <1>2, StageValue DEF Alive
  <2>2. \A j \in Ids \ {i} : Stage(image'[j].state) = Stage(image[j].state)
    BY <1>2
  <2> QED
    BY <2>1, <2>2 DEF StageOf
<1>7. TrackedIds' = TrackedIds
  BY <1>1 DEF TrackedIds, Tracked
<1>8. Ledger!Appear(i)
  BY <1>1, <1>5, <1>6, <1>7 DEF Ledger!Appear, StageOf, TrackedIds
<1> QED
  BY <1>4, <1>5, <1>8 DEF Keeps, LedgerStep, Ledger!Next

\* A box that goes leaves the row without its box_id.
LEMMA DeleteBoxKeeps == ASSUME IInv, NEW b \in BoxIds, DeleteBox(b) PROVE Keeps
<1> USE DEF IInv, TypeOK
<1>1. /\ UNCHANGED <<image, disk, stray, started, faults, pc, ami, arg, todo, view, left>>
      /\ boxes' = boxes \ {b}
  BY DEF DeleteBox, Outside, locals
<1>2. \A i \in Ids :
        /\ row'[i] \in Row \cup {NoRow} /\ (Tracked(i)' <=> Tracked(i))
        /\ Tracked(i) => row'[i].state = row[i].state
  <2> SUFFICES ASSUME NEW i \in Ids
               PROVE  /\ row'[i] \in Row \cup {NoRow} /\ (Tracked(i)' <=> Tracked(i))
                      /\ Tracked(i) => row'[i].state = row[i].state
    OBVIOUS
  <2>1. CASE Tracked(i) /\ row[i].box = b
    <3>1. row[i] \in Row /\ row'[i] = [row[i] EXCEPT !.box = NoBox]
      BY <2>1 DEF DeleteBox, StoresOK, Tracked
    <3>2. row'[i] \in Row /\ row'[i].state = row[i].state
      BY <3>1 DEF Row
    <3>3. row'[i] # NoRow
      BY <3>2, NonesAssumption
    <3> QED
      BY <2>1, <3>2, <3>3 DEF Tracked
  <2>2. CASE ~(Tracked(i) /\ row[i].box = b)
    BY <2>2 DEF DeleteBox, StoresOK, Tracked
  <2> QED
    BY <2>1, <2>2
<1>3. row' \in [Ids -> Row \cup {NoRow}]
  BY <1>2 DEF DeleteBox
<1>4. Ages /\ LocalsOK' /\ RowsAdvance /\ RowsTrue'
  BY <1>1, <1>2, SameAges DEF LocalsOK, RowsAdvance, RowsTrue, Tracked
<1>5. IInv' /\ Held' = Held
  BY <1>1, <1>3, <1>4, OutsideInv DEF StoresOK
<1> QED
  BY <1>1, <1>2, <1>4, <1>5, SameLedger DEF Keeps

-----------------------------------------------------------------------------
(* Every step. *)

\* Every step keeps the invariant and is a step of the ledger.
LEMMA NextKeeps == IInv /\ [Next]_vars => Keeps
<1> SUFFICES ASSUME IInv, [Next]_vars PROVE Keeps
  OBVIOUS
<1>1. ASSUME NEW p \in Procs, BeginCommand(p) \/ LsBegin(p) PROVE Keeps
  BY <1>1, CreateBeginKeeps, ShowBeginKeeps, DeleteBeginKeeps, ImportBeginKeeps, LsBeginKeeps
  DEF BeginCommand
<1>2. ASSUME NEW p \in Procs, Step(p) PROVE Keeps
  BY <1>2, CreateImageKeeps, InsertSnapshotKeeps, DescribeKeeps, ReconcileKeeps,
    ImportSkipKeeps, ImportInsertKeeps, DeleteLookKeeps, DeregisterKeeps, DeleteRowKeeps,
    DeleteDiskKeeps
  DEF Step
<1>3. ASSUME NEW p \in Procs, Abort(p) PROVE Keeps
  BY <1>3, AbortKeeps
<1>4. CASE (\E i \in Ids : BecomeAvailable(i)) \/ Console
  BY <1>4, ImageKeeps, RegisterKeeps, DeleteBoxKeeps DEF Console
<1>5. CASE UNCHANGED vars
  <2>1. IInv'
    BY <1>5 DEF vars, IInv, TypeOK, StoresOK, LocalsOK, Carried, Carries, RowsTrue, Tracked,
      HoldersApart, At
  <2>2. /\ Held' = Held /\ image' = image /\ stray' = stray /\ row' = row
    BY <1>5 DEF vars, Held, At
  <2>3. LedgerStep
    BY <2>2, SameLedger DEF Tracked
  <2> QED
    BY <2>1, <2>2, <2>3 DEF Keeps, RowsAdvance
<1> QED
  BY <1>1, <1>2, <1>3, <1>4, <1>5 DEF Next

\* The initial states map to that of the ledger.
LEMMA InitLedger == Init => Ledger!Init
<1> SUFFICES ASSUME Init PROVE Ledger!Init
  OBVIOUS
<1>1. \A i \in Ids : Stage(image[i].state) = "unborn" /\ ~Tracked(i)
  BY DEF Init, Stage, Alive, Tracked
<1>2. Held = {} /\ stray = {}
  BY DEF Init, Held, At
<1> QED
  BY <1>1, <1>2 DEF Ledger!Init

\* An image that exists is on the books, in the hands of the create that made it, or
\* a stray.
Accounted == \A i \in Ids : IsAlive(i) => Tracked(i) \/ i \in Held \/ i \in stray

\* No step of the ledger takes a live image off all three.
LEMMA LedgerAccounts ==
  ASSUME TypeOK, TypeOK', LedgerStep, Accounted PROVE Accounted'
<1> SUFFICES ASSUME NEW j \in Ids, IsAlive(j)'
             PROVE  Tracked(j)' \/ j \in Held' \/ j \in stray'
  BY DEF Accounted
<1>1. \A k \in Ids : /\ StageOf[k] = "live" <=> IsAlive(k)
                     /\ StageOf'[k] = "live" <=> IsAlive(k)'
  BY StageValue DEF StageOf, IsAlive, TypeOK, StoresOK, Image, Stage, Alive
<1>2. StageOf[j] = "live" => j \in TrackedIds \/ j \in Held \/ j \in stray
  BY <1>1 DEF Accounted, TrackedIds
<1>3. \A k \in Ids : k \in TrackedIds' <=> Tracked(k)'
  BY DEF TrackedIds
<1>4. CASE UNCHANGED <<StageOf, TrackedIds, Held, stray>>
  BY <1>1, <1>2, <1>3, <1>4
<1>5. ASSUME NEW i \in Ids, Ledger!Launch(i) \/ Ledger!Appear(i)
      PROVE  j \in TrackedIds' \/ j \in Held' \/ j \in stray'
  BY <1>1, <1>2, <1>5 DEF Ledger!Launch, Ledger!Appear, StageOf, TrackedIds
<1>6. ASSUME NEW i \in Ids, Ledger!Track(i) \/ Ledger!LetGo(i)
      PROVE  j \in TrackedIds' \/ j \in Held' \/ j \in stray'
  BY <1>1, <1>2, <1>6 DEF Ledger!Track, Ledger!LetGo, StageOf, TrackedIds
<1>7. ASSUME NEW i \in Ids, Ledger!Die(i) \/ Ledger!Drop(i) \/ Ledger!Discard(i)
      PROVE  j \in TrackedIds' \/ j \in Held' \/ j \in stray'
  BY <1>1, <1>2, <1>7 DEF Ledger!Die, Ledger!Drop, Ledger!Discard, StageOf, TrackedIds
<1> QED
  BY <1>3, <1>4, <1>5, <1>6, <1>7
  DEF LedgerStep, Ledger!Next, Ledger!ledger, StageOf, TrackedIds

-----------------------------------------------------------------------------
(* The theorems. *)

\* The invariant behind the others: the rows and answers that a command carries are
\* never ahead of the images they are about.
THEOREM Inductive == Spec => []IInv
<1>1. IInv /\ [Next]_vars => IInv'
  BY NextKeeps DEF Keeps
<1> QED
  BY <1>1, InitIInv, PTL DEF Spec

\* Every store and every local of a command keeps its type: no command writes a row
\* from an answer it does not have, nor a state AWS has not given.
THEOREM TypeCorrect == Spec => []TypeOK
BY Inductive, PTL DEF IInv

\* The snapshot commands implement the ledger of the box commands, with images for
\* instances: every step of the CLI, of AWS and of the console is one bookkeeping
\* step or none, and a row is dropped only when its image is gone.
THEOREM Refinement == Spec => LedgerSpec
<1>1. IInv /\ [Next]_vars => LedgerStep
  BY NextKeeps DEF Keeps
<1> QED
  BY <1>1, InitLedger, Inductive, PTL DEF Spec, LedgerSpec, Ledger!Spec, LedgerStep

\* No orphan image: one that exists has a row, is in the hands of the create that made
\* it, or was made elsewhere or by a create that failed.
THEOREM Accounting == Spec => []Accounted
<1>1. Init => Accounted
  BY DEF Init, Accounted, IsAlive, Alive
<1>2. IInv /\ Accounted /\ [Next]_vars => Accounted'
  BY NextKeeps, LedgerAccounts DEF Keeps, IInv
<1> QED
  BY <1>1, <1>2, Inductive, PTL DEF Spec

\* However many ls run at once and however old their answers, no row goes back from
\* available to pending.
THEOREM NoRegress == Spec => StateNeverRegresses
<1>1. IInv /\ [Next]_vars =>
        [\A i \in Ids : Tracked(i) /\ row'[i] # NoRow /\ row[i].state = "available"
                        => row'[i].state = "available"]_vars
  BY NextKeeps DEF Keeps, RowsAdvance
<1> QED
  BY <1>1, Inductive, PTL DEF Spec, StateNeverRegresses

=============================================================================
