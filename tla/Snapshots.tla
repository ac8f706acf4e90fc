----------------------------- MODULE Snapshots -----------------------------
(***************************************************************************)
(* The snapshot commands: create, ls, ls of one snapshot, delete, and the  *)
(* import of images, run by several CLI processes against AWS (images and  *)
(* the disk snapshots behind each) and the snapshots table.  A command is  *)
(* a sequence of steps, each one AWS call or SQL statement; another        *)
(* process, AWS or the console may act between two of them.  Boxes appear  *)
(* only as what a snapshot is taken of and what its row refers to.         *)
(***************************************************************************)
EXTENDS Naturals, FiniteSets

CONSTANTS
  Ids,          \* image ids
  Names,        \* snapshot names
  Disks,        \* the disks of a box: one disk snapshot of each per image
  BoxIds,       \* boxes on the books at first
  Regions,      \* AWS regions
  RegionOf,     \* the region an image id lives in
  BoxRegion,    \* the region a box lives in
  Procs,        \* CLI processes
  NoId, NoName, NoBox, NoRow,   \* "none" of each kind
  Commands,     \* the commands the user runs
  ConsoleOps,   \* what is done to images outside the CLI
  MaxCommands,  \* bound: commands started, ls excepted
  MaxFaults     \* bound: commands cut short (killed, or a call that fails)

ASSUME ConstantsAssumption ==
  /\ RegionOf \in [Ids -> Regions] /\ BoxRegion \in [BoxIds -> Regions]
  /\ Commands \subseteq {"create", "ls", "show", "delete", "import"}
  /\ ConsoleOps \subseteq {"register", "deregister", "deleteBox"}
  /\ MaxCommands \in Nat /\ MaxFaults \in Nat

VARIABLES
  image,    \* AWS: image id -> its state and name
  disk,     \* AWS: the disk snapshots that exist, as <<image id, disk>>
  row,      \* snapshots table: image id -> its row, or NoRow
  boxes,    \* instances table: the boxes with a row
  pc,       \* process -> the step its command takes next
  ami,      \* process -> the image its command works on
  arg,      \* process -> the name given to create, and the box
  todo,     \* process -> the rows ls has yet to reconcile / import to insert
  view,     \* process -> the state AWS answered for each image
  left,     \* process -> the disk snapshots delete has yet to delete
  stray,    \* history: images the CLI does not answer for
  started,  \* commands started so far
  faults    \* commands cut short so far

stores == <<image, disk, row, boxes>>
locals == <<ami, arg, todo, view, left>>
counts == <<stray, started, faults>>
vars == <<image, disk, row, boxes, pc, ami, arg, todo, view, left,
          stray, started, faults>>

-----------------------------------------------------------------------------
Alive == {"pending", "available"}
Image == [state : {"none", "gone"} \cup Alive, name : Names \cup {NoName}]
Row == [name : Names, state : Alive, box : BoxIds \cup {NoBox}]
Arg == [name : Names \cup {NoName}, box : BoxIds \cup {NoBox}]
Answers == Alive \cup {"absent", "unasked"}

ASSUME NonesAssumption ==
  NoId \notin Ids /\ NoName \notin Names /\ NoBox \notin BoxIds /\ NoRow \notin Row

Steps == {"idle", "createImage", "insert", "describe", "reconcile", "look",
          "deregister", "deleteDisks", "deleteRow", "import"}

IsAlive(i) == image[i].state \in Alive
Tracked(i) == row[i] # NoRow
NameTaken(n) == \E i \in Ids : Tracked(i) /\ row[i].name = n
DisksOf(i) == {d \in disk : d[1] = i}

NoArg == [name |-> NoName, box |-> NoBox]
NoTodo == [i \in Ids |-> NoRow]
NoView == [i \in Ids |-> "unasked"]

At(p, step) == pc[p] = step
Goto(p, step) == pc' = [pc EXCEPT ![p] = step]

\* The command returns, with or without an error.
Exit(p) ==
  /\ Goto(p, "idle")
  /\ ami' = [ami EXCEPT ![p] = NoId]
  /\ arg' = [arg EXCEPT ![p] = NoArg]
  /\ todo' = [todo EXCEPT ![p] = NoTodo]
  /\ view' = [view EXCEPT ![p] = NoView]
  /\ left' = [left EXCEPT ![p] = {}]

Begin(p, c) ==
  /\ At(p, "idle")
  /\ c \in Commands
  /\ started < MaxCommands
  /\ started' = started + 1
  /\ UNCHANGED stores /\ UNCHANGED <<stray, faults>>

Quiet == UNCHANGED stores /\ UNCHANGED counts

Init ==
  /\ image = [i \in Ids |-> [state |-> "none", name |-> NoName]]
  /\ disk = {}
  /\ row = [i \in Ids |-> NoRow]
  /\ boxes = BoxIds
  /\ pc = [p \in Procs |-> "idle"]
  /\ ami = [p \in Procs |-> NoId]
  /\ arg = [p \in Procs |-> NoArg]
  /\ todo = [p \in Procs |-> NoTodo]
  /\ view = [p \in Procs |-> NoView]
  /\ left = [p \in Procs |-> {}]
  /\ stray = {} /\ started = 0 /\ faults = 0

-----------------------------------------------------------------------------
(* create: look the box up, create the image, insert the row. *)

CreateBegin(p, b, n) ==
  /\ Begin(p, "create")
  /\ b \in boxes
  /\ Goto(p, "createImage")
  /\ arg' = [arg EXCEPT ![p] = [name |-> n, box |-> b]]
  /\ UNCHANGED <<ami, todo, view, left>>

\* AWS gives an image and its disk snapshots, in the box's region, or refuses:
\* a live image of that region has the name, or it has no id left to give.
CreateImage(p) ==
  LET here == {i \in Ids : RegionOf[i] = BoxRegion[arg[p].box]}
      free == {i \in here : image[i].state = "none"}
      taken == \E i \in here : IsAlive(i) /\ image[i].name = arg[p].name
  IN
  /\ At(p, "createImage")
  /\ \/ /\ ~taken
        /\ \E i \in free :
             /\ image' = [image EXCEPT ![i] = [state |-> "pending", name |-> arg[p].name]]
             /\ disk' = disk \cup ({i} \X Disks)
             /\ ami' = [ami EXCEPT ![p] = i]
        /\ Goto(p, "insert")
        /\ UNCHANGED <<arg, todo, view, left>>
     \/ /\ taken \/ free = {}
        /\ Exit(p)
        /\ UNCHANGED <<image, disk>>
  /\ UNCHANGED <<row, boxes>> /\ UNCHANGED counts

\* The name or the image has a row, or the box's row went (foreign key): create
\* returns the error, and the image stays.
InsertRefused(p) == NameTaken(arg[p].name) \/ Tracked(ami[p]) \/ arg[p].box \notin boxes

InsertSnapshot(p) ==
  /\ At(p, "insert")
  /\ IF InsertRefused(p)
     THEN stray' = stray \cup {ami[p]} /\ UNCHANGED row
     ELSE /\ row' = [row EXCEPT ![ami[p]] =
                       [name |-> arg[p].name, state |-> "pending", box |-> arg[p].box]]
          /\ UNCHANGED stray
  /\ Exit(p)
  /\ UNCHANGED <<image, disk, boxes, started, faults>>

-----------------------------------------------------------------------------
(* ls, and ls of one snapshot: read the rows, ask each region, reconcile.  *)

\* ls of one snapshot takes the same steps over one row.
LsBegin(p) ==
  /\ At(p, "idle")
  /\ "ls" \in Commands
  /\ \E i \in Ids : Tracked(i)
  /\ Goto(p, "describe")
  /\ todo' = [todo EXCEPT ![p] = row]
  /\ UNCHANGED <<ami, arg, view, left>>
  /\ Quiet

ShowBegin(p, i) ==
  /\ Begin(p, "show")
  /\ Tracked(i)
  /\ Goto(p, "describe")
  /\ todo' = [todo EXCEPT ![p][i] = row[i]]
  /\ UNCHANGED <<ami, arg, view, left>>

Asked(p, r) == {i \in Ids : RegionOf[i] = r /\ todo[p][i] # NoRow /\ view[p][i] = "unasked"}

\* Mutant: a region that cannot be reached counts as an empty answer.
DescribeOrSkip(p, r) ==
  LET seen == {i \in Ids : IsAlive(i)} IN
  /\ At(p, "describe")
  /\ Asked(p, r) # {}
  /\ \E answer \in {seen, {}} :
       view' = [view EXCEPT ![p] = [i \in Ids |->
                  IF i \notin Asked(p, r) THEN @[i]
                  ELSE IF i \in answer THEN image[i].state ELSE "absent"]]
  /\ Goto(p, IF \E s \in Regions \ {r} : Asked(p, s) # {} THEN "describe" ELSE "reconcile")
  /\ UNCHANGED <<ami, arg, todo, left>>
  /\ Quiet

\* One region's answer; an error of any region ends the command (Abort).
DescribeImages(p, r) ==
  /\ At(p, "describe")
  /\ Asked(p, r) # {}
  /\ view' = [view EXCEPT ![p] = [i \in Ids |->
                IF i \notin Asked(p, r) THEN @[i]
                ELSE IF IsAlive(i) THEN image[i].state ELSE "absent"]]
  /\ Goto(p, IF \E s \in Regions \ {r} : Asked(p, s) # {} THEN "describe" ELSE "reconcile")
  /\ UNCHANGED <<ami, arg, todo, left>>
  /\ Quiet

\* The command is done with row i; it returns with the last one.
DoneWith(p, i) ==
  IF \E j \in Ids \ {i} : todo[p][j] # NoRow
  THEN /\ todo' = [todo EXCEPT ![p][i] = NoRow]
       /\ view' = [view EXCEPT ![p][i] = "unasked"]
       /\ UNCHANGED <<pc, ami, arg, left>>
  ELSE Exit(p)

\* Mutant: the state is written whether or not it differs from the row read.
ReconcileAlways(p, i) ==
  /\ At(p, "reconcile")
  /\ todo[p][i] # NoRow
  /\ row' = CASE view[p][i] = "absent" -> [row EXCEPT ![i] = NoRow]
              [] view[p][i] # "absent" /\ Tracked(i) -> [row EXCEPT ![i].state = view[p][i]]
              [] OTHER -> row
  /\ DoneWith(p, i)
  /\ UNCHANGED <<image, disk, boxes>> /\ UNCHANGED counts

\* Mutant: a missing image is noted in its row, and the row stays.
ReconcileMarksMissing(p, i) ==
  /\ At(p, "reconcile")
  /\ todo[p][i] # NoRow
  /\ row' = IF view[p][i] # todo[p][i].state /\ Tracked(i)
            THEN [row EXCEPT ![i].state = view[p][i]] ELSE row
  /\ DoneWith(p, i)
  /\ UNCHANGED <<image, disk, boxes>> /\ UNCHANGED counts

\* The row of a missing image goes; a state that differs from the one in the row
\* as it was read is written (to nothing, if the row has gone meanwhile).
Reconcile(p, i) ==
  /\ At(p, "reconcile")
  /\ todo[p][i] # NoRow
  /\ row' = CASE view[p][i] = "absent" -> [row EXCEPT ![i] = NoRow]
              [] view[p][i] \notin {"absent", todo[p][i].state} /\ Tracked(i) ->
                   [row EXCEPT ![i].state = view[p][i]]
              [] OTHER -> row
  /\ DoneWith(p, i)
  /\ UNCHANGED <<image, disk, boxes>> /\ UNCHANGED counts

-----------------------------------------------------------------------------
(* delete: look the image up, deregister it, delete its disk snapshots, and *)
(* only then the row.                                                       *)

DeleteBegin(p, i) ==
  /\ Begin(p, "delete")
  /\ Tracked(i)
  /\ Goto(p, "look")
  /\ ami' = [ami EXCEPT ![p] = i]
  /\ UNCHANGED <<arg, todo, view, left>>

\* An image AWS no longer knows leaves only the row to delete.
DeleteLook(p) ==
  /\ At(p, "look")
  /\ Goto(p, IF IsAlive(ami[p]) THEN "deregister" ELSE "deleteRow")
  /\ left' = [left EXCEPT ![p] = IF IsAlive(ami[p]) THEN DisksOf(ami[p]) ELSE {}]
  /\ UNCHANGED <<ami, arg, todo, view>>
  /\ Quiet

\* AWS refuses to deregister an image that is gone.
DeregisterImage(p) ==
  LET i == ami[p] IN
  /\ At(p, "deregister")
  /\ IF IsAlive(i)
     THEN /\ image' = [image EXCEPT ![i].state = "gone"]
          /\ Goto(p, IF left[p] = {} THEN "deleteRow" ELSE "deleteDisks")
          /\ UNCHANGED locals
     ELSE Exit(p) /\ UNCHANGED image
  /\ UNCHANGED <<disk, row, boxes>> /\ UNCHANGED counts

DeleteDisk(p, d) ==
  /\ At(p, "deleteDisks")
  /\ d \in left[p]
  /\ IF d \in disk
     THEN /\ disk' = disk \ {d}
          /\ left' = [left EXCEPT ![p] = @ \ {d}]
          /\ Goto(p, IF left[p] = {d} THEN "deleteRow" ELSE "deleteDisks")
          /\ UNCHANGED <<ami, arg, todo, view>>
     ELSE Exit(p) /\ UNCHANGED disk
  /\ UNCHANGED <<image, row, boxes>> /\ UNCHANGED counts

DeleteRow(p) ==
  /\ At(p, "deleteRow")
  /\ row' = [row EXCEPT ![ami[p]] = NoRow]
  /\ Exit(p)
  /\ UNCHANGED <<image, disk, boxes>> /\ UNCHANGED counts

-----------------------------------------------------------------------------
(* import: list a region's untracked images, insert those the user picks.  *)

\* A name is the image's own when it is free among the rows and the candidates,
\* else another free one.
ImportNames(cands, nm) ==
  /\ \A i \in cands : ~NameTaken(nm[i])
  /\ \A i, j \in cands : nm[i] = nm[j] => i = j
  /\ \A i \in cands : LET t == image[i].name IN
       nm[i] = t \/ NameTaken(t) \/ \E j \in cands : nm[j] = t

ImportBegin(p, r) ==
  LET cands == {i \in Ids : IsAlive(i) /\ ~Tracked(i) /\ RegionOf[i] = r} IN
  /\ Begin(p, "import")
  /\ cands # {}
  /\ \E nm \in [cands -> Names] :
       /\ ImportNames(cands, nm)
       /\ todo' = [todo EXCEPT ![p] = [i \in Ids |->
                     IF i \in cands
                     THEN [name |-> nm[i], state |-> image[i].state, box |-> NoBox]
                     ELSE NoRow]]
  /\ Goto(p, "import")
  /\ UNCHANGED <<ami, arg, view, left>>

ImportSkip(p, i) ==
  /\ At(p, "import")
  /\ todo[p][i] # NoRow
  /\ DoneWith(p, i)
  /\ Quiet

ImportInsert(p, i) ==
  /\ At(p, "import")
  /\ todo[p][i] # NoRow
  /\ row' = IF NameTaken(todo[p][i].name) \/ Tracked(i) THEN row
            ELSE [row EXCEPT ![i] = todo[p][i]]
  /\ DoneWith(p, i)
  /\ UNCHANGED <<image, disk, boxes>> /\ UNCHANGED counts

-----------------------------------------------------------------------------
(* AWS, the console, the other commands, and faults. *)

Outside == UNCHANGED pc /\ UNCHANGED locals /\ UNCHANGED <<started, faults>>

BecomeAvailable(i) ==
  /\ image[i].state = "pending"
  /\ image' = [image EXCEPT ![i].state = "available"]
  /\ Outside /\ UNCHANGED <<disk, row, boxes, stray>>

ConsoleRegister(i, n) ==
  /\ "register" \in ConsoleOps
  /\ image[i].state = "none"
  /\ \A j \in Ids : RegionOf[j] = RegionOf[i] /\ IsAlive(j) => image[j].name # n
  /\ image' = [image EXCEPT ![i] = [state |-> "available", name |-> n]]
  /\ disk' = disk \cup ({i} \X Disks)
  /\ stray' = stray \cup {i}
  /\ Outside /\ UNCHANGED <<row, boxes>>

ConsoleDeregister(i) ==
  /\ "deregister" \in ConsoleOps
  /\ IsAlive(i)
  /\ image' = [image EXCEPT ![i].state = "gone"]
  /\ Outside /\ UNCHANGED <<disk, row, boxes, stray>>

\* outpost delete of a box: ON DELETE SET NULL.
DeleteBox(b) ==
  /\ "deleteBox" \in ConsoleOps
  /\ b \in boxes
  /\ boxes' = boxes \ {b}
  /\ row' = [i \in Ids |-> IF Tracked(i) /\ row[i].box = b
                            THEN [row[i] EXCEPT !.box = NoBox] ELSE row[i]]
  /\ Outside /\ UNCHANGED <<image, disk, stray>>

\* The process is killed or its next call fails; a create that has its image
\* and no row yet lets it go.
Abort(p) ==
  /\ ~At(p, "idle")
  /\ faults < MaxFaults
  /\ faults' = faults + 1
  /\ stray' = IF At(p, "insert") THEN stray \cup {ami[p]} ELSE stray
  /\ Exit(p)
  /\ UNCHANGED stores /\ UNCHANGED started

-----------------------------------------------------------------------------
BeginCommand(p) ==
  \/ \E b \in BoxIds, n \in Names : CreateBegin(p, b, n)
  \/ \E i \in Ids : ShowBegin(p, i) \/ DeleteBegin(p, i)
  \/ \E r \in Regions : ImportBegin(p, r)

Step(p) ==
  \/ CreateImage(p) \/ InsertSnapshot(p)
  \/ \E r \in Regions : DescribeImages(p, r)
  \/ \E i \in Ids : Reconcile(p, i) \/ ImportSkip(p, i) \/ ImportInsert(p, i)
  \/ DeleteLook(p) \/ DeregisterImage(p) \/ DeleteRow(p)
  \/ \E d \in disk \cup left[p] : DeleteDisk(p, d)

Console ==
  \/ \E i \in Ids, n \in Names : ConsoleRegister(i, n)
  \/ \E i \in Ids : ConsoleDeregister(i)
  \/ \E b \in BoxIds : DeleteBox(b)

Next ==
  \/ \E p \in Procs : BeginCommand(p) \/ LsBegin(p) \/ Step(p) \/ Abort(p)
  \/ \E i \in Ids : BecomeAvailable(i)
  \/ Console

Spec == Init /\ [][Next]_vars

\* As in Boxes: commands run on, AWS finishes what it began, the user keeps
\* running ls.
Fairness ==
  /\ \A p \in Procs : WF_vars(Step(p)) /\ WF_vars(LsBegin(p))
  /\ \A i \in Ids : WF_vars(BecomeAvailable(i))

FairSpec == Spec /\ Fairness

=============================================================================
