--------------------------- MODULE TemplateProofs ---------------------------
(***************************************************************************)
(* What holds of Templates for every set of processes, versions and        *)
(* templates, and every bound.                                             *)
(*                                                                         *)
(* The argument.  What a seeding has read is what the tables hold when it  *)
(* writes: SQLite gives it the lock only if nothing was committed since    *)
(* (Fresh).  Given that, OfferedOnce is kept by every commit, because what *)
(* the user deleted or had first was offered before; and from OfferedOnce  *)
(* it follows that a seeding never meets a row that stands in its way.     *)
(***************************************************************************)
EXTENDS TemplateProperties, FiniteSets, FiniteSetTheorems, TLAPS

\* The commands under way, each of which may make one template.
Active == {p \in Procs : pc[p] # "idle"}
Spent == IsFiniteSet(Active) /\ made + Cardinality(Active) <= started

\* What the command of p was asked goes with the step it is at.
Request(p) ==
  /\ pc[p] # "idle" => arg[p].version \in Versions
  /\ pc[p] \in {"read", "seed", "commit"} =>
       arg[p].next \in {"idle", "checkName", "findDelete", "findRename"}
  /\ pc[p] \in {"checkName", "insert"} => arg[p].next = "checkName"
  /\ pc[p] \in {"findDelete", "delete"} => arg[p].next = "findDelete"
  /\ pc[p] \in {"findRename", "validate", "update"} => arg[p].next = "findRename"
  /\ arg[p].next # "idle" => arg[p].name \in Names
  /\ arg[p].next = "checkName" \/ pc[p] \in {"validate", "update"} => arg[p].os \in Oses
  /\ arg[p].next = "findRename" => arg[p].new \in Names

\* A seeding that may still write has read what the tables hold.
Fresh(p) ==
  At(p, "commit") \/ (At(p, "seed") /\ p \notin behind) =>
    view[p] = [rows |-> row, seeds |-> seeds]

Requests == \A p \in Procs : Request(p)
AllFresh == \A p \in Procs : Fresh(p)

\* What the user deleted, or had first, was offered.
HistoryOffered == removed \cup declined \subseteq seeds

\* A built-in template keeps its OS, whatever its name becomes.
BuiltinOs == \A d \in Builtins : row[d] # NoRow => row[d].os = OsOf[d]

\* No two templates have the same name for the same OS: the seeding's own updates
\* never run into the table's UNIQUE constraint either.
NamesApart ==
  \A i, j \in Ids :
    /\ row[i] # NoRow /\ row[j] # NoRow
    /\ row[i].name = row[j].name /\ row[i].os = row[j].os
    => i = j

\* What the tables say, whoever is doing what.
Tables == OfferedOnce /\ HistoryOffered /\ TextCurrent /\ BuiltinOs /\ NamesApart

IInv == TypeOK /\ Spent /\ Requests /\ AllFresh /\ Tables

\* A step of p leaves the other processes alone, and p with a request that goes with
\* the step it is at.
Moves(p) ==
  /\ pc' \in [Procs -> Steps] /\ arg' \in [Procs -> Arg] /\ view' \in [Procs -> View]
  /\ \A q \in Procs \ {p} : pc'[q] = pc[q] /\ arg'[q] = arg[q] /\ view'[q] = view[q]
  /\ Request(p)'

-----------------------------------------------------------------------------
\* What the assumptions say of the constants.
LEMMA Numbers ==
  /\ BuiltinCount \in Nat /\ MaxCommands \in Nat /\ MaxFaults \in Nat
  /\ Builtins \subseteq Ids /\ 0 \notin Versions
BY ConstantsAssumption DEF Builtins, Ids

\* The values that stand for none have the type of the locals.
LEMMA EmptyLocals == NoArg \in Arg /\ NoView \in View
BY DEF NoArg, Arg, NoView, View, NoTable, Steps

\* Of an empty database and no command the invariant holds.
LEMMA InitIInv == Init => IInv
<1> SUFFICES ASSUME Init PROVE IInv
  OBVIOUS
<1>1. TypeOK
  BY Numbers, EmptyLocals, ConstantsAssumption DEF Init, TypeOK, At, Steps, NoTable
<1>2. Spent
  <2>1. Active = {}
    BY DEF Init, Active
  <2> QED
    BY <2>1, FS_EmptySet DEF Init, Spent
<1>3. Requests /\ AllFresh
  BY DEF Init, Requests, Request, AllFresh, Fresh, At, NoArg
<1>4. Tables
  BY Numbers DEF Init, Tables, OfferedOnce, HistoryOffered, TextCurrent, BuiltinOs, NamesApart,
    NoTable
<1> QED
  BY <1>1, <1>2, <1>3, <1>4 DEF IInv

\* A command that returns leaves nothing behind.
LEMMA ExitMoves ==
  ASSUME TypeOK, NEW p \in Procs, Exit(p)
  PROVE  Moves(p) /\ pc'[p] = "idle"
<1>1. /\ pc'[p] = "idle" /\ arg'[p] = NoArg
      /\ pc' \in [Procs -> Steps] /\ arg' \in [Procs -> Arg] /\ view' \in [Procs -> View]
  BY EmptyLocals DEF TypeOK, Exit, Goto, Steps
<1>2. \A q \in Procs \ {p} : pc'[q] = pc[q] /\ arg'[q] = arg[q] /\ view'[q] = view[q]
  BY DEF TypeOK, Exit, Goto
<1>3. Request(p)'
  BY <1>1 DEF Request, NoArg
<1> QED
  BY <1>1, <1>2, <1>3 DEF Moves

\* What a command was asked stays of its version.
LEMMA MovesRequests ==
  ASSUME Requests, NEW p \in Procs, Moves(p) PROVE Requests'
BY DEF Requests, Request, Moves

\* A command that goes on, or returns, leaves room for what it has yet to make.
LEMMA MovesSpent ==
  ASSUME TypeOK, Spent, NEW p \in Procs, Moves(p), pc[p] # "idle", started' = started,
         made' = made \/ (made' = made + 1 /\ pc'[p] = "idle")
  PROVE  Spent' /\ made' \in 0..MaxCommands
<1>1. p \in Active /\ Cardinality(Active) \in Nat
  BY FS_CardinalityType DEF Active, Spent
<1>2. CASE pc'[p] = "idle"
  <2>1. Active' = Active \ {p}
    BY <1>2 DEF Active, Moves
  <2>2. IsFiniteSet(Active') /\ Cardinality(Active') = Cardinality(Active) - 1
    BY <1>1, <2>1, FS_RemoveElement DEF Spent
  <2>3. Cardinality(Active') \in Nat
    BY <2>2, FS_CardinalityType
  <2> QED
    BY <1>1, <2>2, <2>3, Numbers DEF Spent, TypeOK
<1>3. CASE pc'[p] # "idle"
  <2>1. Active' = Active
    BY <1>1, <1>3 DEF Active, Moves
  <2> QED
    BY <1>1, <1>3, <2>1 DEF Spent, TypeOK
<1> QED
  BY <1>2, <1>3

\* A step that changes neither the tables nor the history.
LEMMA QuietStep ==
  ASSUME IInv, NEW p \in Procs, Moves(p), pc[p] # "idle",
         UNCHANGED <<row, seeds, made, opened, removed, declined, started>>,
         behind' = behind \/ behind' = behind \ {p}, Fresh(p)',
         faults' \in 0..MaxFaults, writer' \in Procs \cup {NoProc},
         \A q \in Procs : At(q, "commit")' <=> writer' = q
  PROVE  IInv'
<1>1. Spent' /\ Requests'
  BY MovesSpent, MovesRequests DEF IInv
<1>2. TypeOK'
  BY DEF IInv, TypeOK, Moves
<1>3. AllFresh'
  BY DEF IInv, AllFresh, Fresh, Moves, At
<1>4. Tables'
  BY DEF IInv, Tables, OfferedOnce, HistoryOffered, TextCurrent, BuiltinOs, NamesApart
<1> QED
  BY <1>1, <1>2, <1>3, <1>4 DEF IInv

\* The lock stays with whom has it when p neither takes it nor lets it go.
LEMMA LockKept ==
  ASSUME TypeOK, NEW p \in Procs, Moves(p), pc[p] # "commit", pc'[p] # "commit",
         writer' = writer
  PROVE  /\ writer' \in Procs \cup {NoProc}
         /\ \A q \in Procs : At(q, "commit")' <=> writer' = q
BY DEF TypeOK, Moves, At

\* A statement of its own, which no seeding that may still write has overtaken.
LEMMA WriteStep ==
  ASSUME IInv, NEW p \in Procs, LockFree, Exit(p), pc[p] \notin {"idle", "seed", "commit"},
         UNCHANGED <<writer, seeds, opened, declined, started, faults>>,
         Commits \/ (behind' = behind /\ row' = row),
         row' \in [Ids -> Row \cup {NoRow}], made' = made \/ made' = made + 1,
         removed' \subseteq Builtins, Tables'
  PROVE  IInv'
<1>1. Moves(p) /\ pc'[p] = "idle"
  BY ExitMoves DEF IInv
<1>2. Spent' /\ made' \in 0..MaxCommands /\ Requests'
  BY <1>1, MovesSpent, MovesRequests DEF IInv
<1>3. TypeOK'
  BY <1>1, <1>2, LockKept DEF IInv, TypeOK, Moves, Commits
<1>4. AllFresh'
  <2>1. \A q \in Procs : ~At(q, "commit")
    BY ConstantsAssumption DEF IInv, TypeOK, LockFree
  <2> QED
    BY <1>1, <2>1 DEF IInv, AllFresh, Fresh, Moves, At, Commits
<1> QED
  BY <1>2, <1>3, <1>4 DEF IInv

-----------------------------------------------------------------------------
(* The seeding. *)

\* What a seeding makes of the tables t and s.
LEMMA SeededTables ==
  ASSUME NEW v \in Versions, NEW t \in [Ids -> Row \cup {NoRow}], NEW s \in SUBSET Builtins
  PROVE  /\ Seeded(v, t, s) \in [Ids -> Row \cup {NoRow}]
         /\ \A i \in Ids :
              LET r == Seeded(v, t, s)[i] IN
              \/ /\ i \in Inserted(v, t, s) /\ r # NoRow
                 /\ r.name = NameOf[i] /\ r.os = OsOf[i] /\ r.text = v
              \/ /\ i \in Refreshed(v, t, s) /\ t[i] # NoRow /\ r # NoRow
                 /\ r.name = t[i].name /\ r.os = OsOf[i] /\ r.text = v
              \/ i \notin Inserted(v, t, s) \cup Refreshed(v, t, s) /\ r = t[i]
<1>1. Inserted(v, t, s) \cup Refreshed(v, t, s) \subseteq Builtins
  BY ConstantsAssumption DEF Inserted, Refreshed
<1> SUFFICES ASSUME NEW i \in Ids
             PROVE  LET r == Seeded(v, t, s)[i] IN
              /\ r \in Row \cup {NoRow}
              /\ \/ /\ i \in Inserted(v, t, s) /\ r # NoRow
                    /\ r.name = NameOf[i] /\ r.os = OsOf[i] /\ r.text = v
                 \/ /\ i \in Refreshed(v, t, s) /\ t[i] # NoRow /\ r # NoRow
                    /\ r.name = t[i].name /\ r.os = OsOf[i] /\ r.text = v
                 \/ i \notin Inserted(v, t, s) \cup Refreshed(v, t, s) /\ r = t[i]
  BY DEF Seeded
<1> DEFINE r == Seeded(v, t, s)[i]
<1>2. CASE i \in Inserted(v, t, s)
  <2>1. r = [name |-> NameOf[i], os |-> OsOf[i], text |-> v]
    <3>1. i \notin Refreshed(v, t, s)
      BY <1>2 DEF Inserted, Refreshed
    <3> QED
      BY <1>2, <3>1 DEF Seeded
  <2>2. r \in Row
    BY <1>1, <1>2, <2>1, ConstantsAssumption DEF Row
  <2> QED
    BY <1>2, <2>1, <2>2, ConstantsAssumption
<1>3. CASE i \notin Inserted(v, t, s) /\ i \in Refreshed(v, t, s)
  <2>1. t[i] \in Row /\ t[i] # NoRow
    BY <1>3 DEF Refreshed
  <2>2. r = [t[i] EXCEPT !.os = OsOf[i], !.text = v]
    BY <1>3 DEF Seeded
  <2>3. r \in Row /\ r.name = t[i].name /\ r.os = OsOf[i] /\ r.text = v
    BY <1>1, <1>3, <2>1, <2>2, ConstantsAssumption DEF Row
  <2> QED
    BY <1>3, <2>1, <2>3, ConstantsAssumption
<1>4. CASE i \notin Inserted(v, t, s) \cup Refreshed(v, t, s)
  BY <1>4 DEF Seeded
<1> QED
  BY <1>2, <1>3, <1>4

\* A built-in template that was not offered has no row, so nothing stands in its way.
LEMMA NoClash ==
  ASSUME OfferedOnce, NEW v \in Versions PROVE ~Clash(v, row, seeds)
BY ConstantsAssumption DEF OfferedOnce, Clash, Inserted

\* What a seeding makes of tables that are as they should be.
LEMMA SeedsTables ==
  ASSUME IInv, NEW v \in Versions,
         row' = Seeded(v, row, seeds), seeds' = seeds \cup Offered[v], opened' = v,
         declined' = declined \cup ((Offered[v] \ seeds) \ Inserted(v, row, seeds)),
         removed' = removed
  PROVE  Tables' /\ row' \in [Ids -> Row \cup {NoRow}]
<1> DEFINE new == Inserted(v, row, seeds)
           old == Refreshed(v, row, seeds)
<1>1. /\ row' \in [Ids -> Row \cup {NoRow}]
      /\ \A i \in Ids :
           \/ /\ i \in new /\ row'[i] # NoRow
              /\ row'[i].name = NameOf[i] /\ row'[i].os = OsOf[i] /\ row'[i].text = v
           \/ /\ i \in old /\ row[i] # NoRow /\ row'[i] # NoRow
              /\ row'[i].name = row[i].name /\ row'[i].os = OsOf[i] /\ row'[i].text = v
           \/ i \notin new \cup old /\ row'[i] = row[i]
  BY SeededTables DEF IInv, TypeOK
<1>2. /\ \A d \in new : d \in Offered[v] /\ d \notin seeds /\ Holding(row, NameOf[d], OsOf[d]) = {}
      /\ \A d \in old : d \in Offered[v]
      /\ \A d \in Offered[v] : d \in seeds /\ row[d] # NoRow => d \in old
      /\ Offered[v] \subseteq Builtins /\ Builtins \subseteq Ids
  BY ConstantsAssumption, Numbers DEF Inserted, Refreshed
<1>3. \A d \in new : row[d] = NoRow /\ d \notin removed \cup declined
  BY <1>2 DEF IInv, Tables, OfferedOnce, HistoryOffered
<1>4. OfferedOnce'
  BY <1>1, <1>2, <1>3 DEF IInv, Tables, OfferedOnce, HistoryOffered
<1>5. HistoryOffered'
  BY DEF IInv, Tables, HistoryOffered
<1>6. TextCurrent'
  BY <1>1, <1>2 DEF IInv, Tables, TextCurrent, OfferedOnce
<1>7. BuiltinOs'
  BY <1>1, <1>2 DEF IInv, Tables, BuiltinOs
<1>8. NamesApart'
  <2>1. \A i \in Ids : i \notin new /\ row'[i] # NoRow =>
          row[i] # NoRow /\ row'[i].name = row[i].name /\ row'[i].os = row[i].os
    BY <1>1, <1>2 DEF IInv, Tables, BuiltinOs
  <2>2. \A d \in new : \A i \in Ids :
          row[i] # NoRow => ~(row[i].name = NameOf[d] /\ row[i].os = OsOf[d])
    BY <1>2 DEF Holding, Called
  <2>3. \A c, d \in new : NameOf[c] = NameOf[d] /\ OsOf[c] = OsOf[d] => c = d
    BY <1>2, ConstantsAssumption
  <2> HIDE DEF new, old
  <2>4. \A d \in new : row'[d].name = NameOf[d] /\ row'[d].os = OsOf[d]
    BY <1>1, <1>2, <1>3
  <2> SUFFICES ASSUME NEW i \in Ids, NEW j \in Ids, row'[i] # NoRow, row'[j] # NoRow,
                      row'[i].name = row'[j].name, row'[i].os = row'[j].os
               PROVE  i = j
    BY DEF NamesApart
  <2>5. CASE i \in new /\ j \in new
    BY <2>3, <2>4, <2>5
  <2>6. CASE i \in new /\ j \notin new
    BY <2>1, <2>2, <2>4, <2>6
  <2>7. CASE i \notin new /\ j \in new
    BY <2>1, <2>2, <2>4, <2>7
  <2>8. CASE i \notin new /\ j \notin new
    BY <2>1, <2>8 DEF IInv, Tables, NamesApart
  <2> QED
    BY <2>5, <2>6, <2>7, <2>8
<1> QED
  BY <1>1, <1>4, <1>5, <1>6, <1>7, <1>8 DEF Tables

\* A seeding that is over hands the command its next step.
LEMMA OpenedMoves ==
  ASSUME TypeOK, Requests, NEW p \in Procs, pc[p] \in {"seed", "commit"}, Opened(p)
  PROVE  Moves(p) /\ pc'[p] \in {"idle", "checkName", "findDelete", "findRename"}
<1>1. pc'[p] = arg[p].next /\ arg' = arg
  BY DEF Opened, Goto, TypeOK
<1>2. arg[p].next \in {"idle", "checkName", "findDelete", "findRename"}
  BY DEF Requests, Request
<1>3. Request(p)'
  BY <1>1, <1>2 DEF Requests, Request
<1>4. pc' \in [Procs -> Steps] /\ arg' \in [Procs -> Arg] /\ view' \in [Procs -> View]
  BY <1>1, <1>2, EmptyLocals DEF TypeOK, Opened, Goto, Steps
<1>5. \A q \in Procs \ {p} : pc'[q] = pc[q] /\ arg'[q] = arg[q] /\ view'[q] = view[q]
  BY DEF TypeOK, Opened, Goto
<1> QED
  BY <1>1, <1>2, <1>3, <1>4, <1>5 DEF Moves

\* A command that starts has read nothing.
LEMMA BeginInv ==
  ASSUME IInv, NEW p \in Procs, NEW v \in Versions, NEW a \in Asked(v), Begin(p, a)
  PROVE  IInv'
<1>1. /\ pc[p] = "idle" /\ pc' = [pc EXCEPT ![p] = "read"] /\ arg' = [arg EXCEPT ![p] = a]
      /\ started < MaxCommands /\ started' = started + 1
      /\ UNCHANGED <<row, seeds, made, writer, behind, view, opened, removed, declined, faults>>
  BY DEF Begin, At, Goto, tables, history
<1>2. /\ a \in Arg /\ a.version = v
      /\ a.next \in {"idle", "checkName", "findDelete", "findRename"}
      /\ a.next # "idle" => a.name \in Names
      /\ a.next = "checkName" => a.os \in Oses
      /\ a.next = "findRename" => a.new \in Names
  BY DEF Asked, Arg, NoArg, Steps
<1>3. Moves(p) /\ pc'[p] = "read"
  BY <1>1, <1>2 DEF IInv, TypeOK, Moves, Request, Steps
<1>4. TypeOK'
  BY <1>1, <1>3, LockKept, Numbers DEF IInv, TypeOK, Moves
<1>5. Spent'
  <2>1. Active' = Active \cup {p} /\ p \notin Active
    BY <1>1, <1>3 DEF Active, Moves
  <2>2. /\ IsFiniteSet(Active') /\ Cardinality(Active') = Cardinality(Active) + 1
        /\ Cardinality(Active) \in Nat
    BY <2>1, FS_AddElement, FS_CardinalityType DEF IInv, Spent
  <2> QED
    BY <1>1, <2>2 DEF IInv, Spent, TypeOK
<1>6. Requests'
  BY <1>3, MovesRequests DEF IInv
<1>7. AllFresh' /\ Tables'
  BY <1>1, <1>3 DEF IInv, AllFresh, Fresh, Moves, At, Tables, OfferedOnce, HistoryOffered,
    TextCurrent, BuiltinOs, NamesApart
<1> QED
  BY <1>4, <1>5, <1>6, <1>7 DEF IInv

\* A seeding has read what the tables hold.
LEMMA ReadTablesInv == ASSUME IInv, NEW p \in Procs, ReadTables(p) PROVE IInv'
<1>1. /\ pc[p] = "read" /\ pc' = [pc EXCEPT ![p] = "seed"] /\ arg' = arg
      /\ view' = [view EXCEPT ![p] = [rows |-> row, seeds |-> seeds]]
      /\ behind' = behind \ {p}
      /\ UNCHANGED <<row, seeds, made, writer, opened, removed, declined, started, faults>>
  BY DEF ReadTables, At, Goto, Reads, tables, history
<1>2. [rows |-> row, seeds |-> seeds] \in View
  BY DEF IInv, TypeOK, View
<1>3. Moves(p) /\ pc'[p] = "seed" /\ view'[p] = [rows |-> row, seeds |-> seeds]
  BY <1>1, <1>2 DEF IInv, TypeOK, Requests, Request, Moves, Steps
<1>4. Fresh(p)'
  BY <1>1, <1>3 DEF Fresh
<1> QED
  BY <1>1, <1>3, <1>4, LockKept, QuietStep DEF IInv, TypeOK

\* It gets the lock only if nothing was committed since.
LEMMA TakeLockInv == ASSUME IInv, NEW p \in Procs, TakeLock(p) PROVE IInv'
<1>1. /\ pc[p] = "seed"
      /\ UNCHANGED <<row, seeds, made, behind, opened, removed, declined, started, faults>>
  BY DEF TakeLock, At, tables, history
<1>2. CASE Opened(p) /\ writer' = writer
  <2>1. Moves(p) /\ pc'[p] \in {"idle", "checkName", "findDelete", "findRename"}
    BY <1>1, <1>2, OpenedMoves DEF IInv
  <2> QED
    BY <1>1, <1>2, <2>1, LockKept, QuietStep DEF Fresh, At, IInv, TypeOK
<1>3. CASE /\ LockFree /\ p \notin behind
           /\ writer' = p /\ Goto(p, "commit") /\ UNCHANGED <<arg, view>>
  <2>1. Moves(p) /\ pc'[p] = "commit"
    BY <1>1, <1>3 DEF IInv, TypeOK, Requests, Request, Moves, Goto, Steps
  <2>2. \A q \in Procs : At(q, "commit")' <=> writer' = q
    BY <1>1, <1>3, <2>1, ConstantsAssumption DEF IInv, TypeOK, Moves, At, LockFree
  <2>3. Fresh(p)'
    BY <1>1, <1>3 DEF IInv, AllFresh, Fresh, At
  <2> QED
    BY <1>1, <1>3, <2>1, <2>2, <2>3, QuietStep DEF IInv, TypeOK
<1>4. CASE Exit(p) /\ writer' = writer
  BY <1>1, <1>4, ExitMoves, LockKept, QuietStep DEF Fresh, At, IInv, TypeOK
<1> QED
  BY <1>2, <1>3, <1>4 DEF TakeLock

\* It offers what was not offered, and refreshes the texts.
LEMMA CommitSeedsInv == ASSUME IInv, NEW p \in Procs, CommitSeeds(p) PROVE IInv'
<1> DEFINE v == arg[p].version
<1>1. /\ pc[p] = "commit" /\ writer' = NoProc /\ UNCHANGED <<started, faults>>
      /\ v \in Versions /\ view[p].rows = row /\ view[p].seeds = seeds
  BY DEF CommitSeeds, At, IInv, Requests, Request, AllFresh, Fresh
<1>2. /\ row' = Seeded(v, row, seeds) /\ seeds' = seeds \cup Offered[v] /\ opened' = v
      /\ declined' = declined \cup ((Offered[v] \ seeds) \ Inserted(v, row, seeds))
      /\ Commits /\ Opened(p) /\ UNCHANGED <<made, removed>>
  BY <1>1, NoClash DEF CommitSeeds, IInv, Tables
<1> HIDE DEF v
<1>3. Moves(p) /\ pc'[p] \in {"idle", "checkName", "findDelete", "findRename"}
  BY <1>1, <1>2, OpenedMoves DEF IInv
<1>4. Tables' /\ row' \in [Ids -> Row \cup {NoRow}]
  BY <1>1, <1>2, SeedsTables
<1>5. Spent' /\ Requests'
  BY <1>1, <1>2, <1>3, MovesSpent, MovesRequests DEF IInv
<1>6. \A q \in Procs : ~At(q, "commit")'
  BY <1>1, <1>3 DEF IInv, TypeOK, Moves, At
<1>7. TypeOK'
  <2>1. seeds' \subseteq Builtins /\ declined' \subseteq Builtins /\ opened' \in Versions \cup {0}
    BY <1>1, <1>2, ConstantsAssumption DEF IInv, TypeOK
  <2> QED
    BY <1>1, <1>2, <1>3, <1>4, <1>6, <2>1, ConstantsAssumption DEF IInv, TypeOK, Moves, Commits
<1>8. AllFresh'
  BY <1>2, <1>3, <1>6 DEF AllFresh, Fresh, Moves, Commits, At
<1> QED
  BY <1>4, <1>5, <1>7, <1>8 DEF IInv

-----------------------------------------------------------------------------
(* The commands. *)

\* A query sends the command on to the next step of the same request.
LEMMA QueryInv ==
  ASSUME IInv, NEW p \in Procs, NEW step, NEW then, NEW found \in BOOLEAN,
         Query(p, step, found, then),
         <<step, then>> \in {<<"checkName", "insert">>, <<"findDelete", "delete">>,
                             <<"validate", "update">>}
  PROVE  IInv'
<1>1. /\ pc[p] = step /\ step \notin {"idle", "seed", "commit"}
      /\ UNCHANGED <<row, seeds, made, writer, behind, opened, removed, declined, started, faults>>
  BY DEF Query, Reads, At, tables, history
<1>2. CASE Goto(p, then) /\ UNCHANGED <<arg, view>>
  <2>1. Moves(p) /\ pc'[p] = then /\ then \notin {"idle", "seed", "commit"}
    BY <1>1, <1>2 DEF IInv, TypeOK, Requests, Request, Moves, Goto, Steps
  <2> QED
    BY <1>1, <2>1, LockKept, QuietStep DEF Fresh, At, IInv, TypeOK
<1>3. CASE Exit(p)
  BY <1>1, <1>3, ExitMoves, LockKept, QuietStep DEF Fresh, At, IInv, TypeOK
<1> QED
  BY <1>2, <1>3 DEF Query

\* The user adds a template under a free name.
LEMMA InsertTemplateInv == ASSUME IInv, NEW p \in Procs, InsertTemplate(p) PROVE IInv'
<1> DEFINE n == arg[p].name
           o == arg[p].os
           k == BuiltinCount + made'
           r == [name |-> n, os |-> o, text |-> 0]
<1>1. /\ pc[p] = "insert" /\ LockFree /\ Exit(p) /\ n \in Names /\ o \in Oses
      /\ UNCHANGED <<writer, seeds, opened, declined, removed, started, faults>>
  BY DEF InsertTemplate, Statement, At, IInv, Requests, Request
<1>2. CASE UNCHANGED <<row, made, behind>>
  <2>1. Tables'
    BY <1>1, <1>2 DEF IInv, Tables, OfferedOnce, HistoryOffered, TextCurrent, BuiltinOs,
      NamesApart
  <2> QED
    BY <1>1, <1>2, <2>1, WriteStep DEF IInv, TypeOK
<1>3. CASE /\ Holding(row, n, o) = {} /\ made' = made + 1
           /\ row' = [row EXCEPT ![k] = r] /\ Commits
  <2>1. made' \in 0..MaxCommands
    BY <1>1, <1>3, ExitMoves, MovesSpent DEF IInv
  <2>2. k \in Ids /\ k \notin Builtins
    BY <1>3, <2>1, Numbers DEF Ids, Builtins, IInv, TypeOK
  <2>3. r \in Row /\ r # NoRow /\ r.name = n /\ r.os = o
    BY <1>1, ConstantsAssumption DEF Row
  <2> HIDE DEF k, r
  <2>4. \A i \in Ids : row'[i] = IF i = k THEN r ELSE row[i]
    BY <1>3 DEF IInv, TypeOK
  <2>5. \A d \in Builtins : row'[d] = row[d]
    BY <2>2, <2>4, Numbers
  <2>6. NamesApart'
    BY <1>3, <2>3, <2>4 DEF IInv, Tables, NamesApart, Holding, Called
  <2>7. Tables'
    BY <1>1, <2>5, <2>6, ConstantsAssumption
    DEF IInv, Tables, OfferedOnce, HistoryOffered, TextCurrent, BuiltinOs, TypeOK
  <2>8. row' \in [Ids -> Row \cup {NoRow}]
    BY <1>3, <2>3 DEF IInv, TypeOK
  <2> QED
    BY <1>1, <1>3, <2>7, <2>8, WriteStep DEF IInv, TypeOK
<1> QED
  BY <1>2, <1>3 DEF InsertTemplate

\* The user deletes templates, built-in ones too.
LEMMA DeleteTemplatesInv == ASSUME IInv, NEW p \in Procs, DeleteTemplates(p) PROVE IInv'
<1> DEFINE gone == Called(row, arg[p].name)
<1>1. /\ pc[p] = "delete" /\ LockFree /\ Exit(p)
      /\ UNCHANGED <<writer, seeds, opened, declined, made, started, faults>>
      /\ removed' = removed \cup (gone \cap Builtins)
      /\ row' = [i \in Ids |-> IF i \in gone THEN NoRow ELSE row[i]]
      /\ IF gone = {} THEN UNCHANGED behind ELSE Commits
  BY DEF DeleteTemplates, Statement, At
<1>2. \A i \in gone : i \in Ids /\ row[i] # NoRow
  BY DEF Called
<1> HIDE DEF gone
<1>3. \A i \in Ids : row'[i] = IF i \in gone THEN NoRow ELSE row[i]
  BY <1>1
<1>4. OfferedOnce' /\ HistoryOffered'
  BY <1>1, <1>2, <1>3, Numbers DEF IInv, Tables, OfferedOnce, HistoryOffered
<1>5. TextCurrent' /\ BuiltinOs' /\ NamesApart'
  BY <1>1, <1>3, Numbers, ConstantsAssumption
  DEF IInv, Tables, TextCurrent, BuiltinOs, NamesApart, TypeOK
<1>6. row' \in [Ids -> Row \cup {NoRow}] /\ removed' \subseteq Builtins
  BY <1>1 DEF IInv, TypeOK
<1>7. Commits \/ (behind' = behind /\ row' = row)
  BY <1>1 DEF IInv, TypeOK
<1> QED
  BY <1>1, <1>4, <1>5, <1>6, <1>7, WriteStep DEF Tables

\* Rename reads which template it is about.
LEMMA FindRenameInv == ASSUME IInv, NEW p \in Procs, FindRename(p) PROVE IInv'
<1>1. /\ pc[p] = "findRename"
      /\ UNCHANGED <<row, seeds, made, writer, behind, opened, removed, declined, started, faults>>
  BY DEF FindRename, Reads, At, tables, history
<1>2. CASE Exit(p)
  BY <1>1, <1>2, ExitMoves, LockKept, QuietStep DEF Fresh, At, IInv, TypeOK
<1>3. ASSUME NEW i \in Called(row, arg[p].name), arg' = [arg EXCEPT ![p].os = row[i].os],
             Goto(p, "validate"), view' = view
      PROVE  IInv'
  <2>1. row[i].os \in Oses
    BY DEF Called, IInv, TypeOK, Row
  <2>2. Moves(p) /\ pc'[p] = "validate"
    BY <1>1, <1>3, <2>1 DEF IInv, TypeOK, Requests, Request, Moves, Goto, Steps, Arg
  <2> QED
    BY <1>1, <2>2, LockKept, QuietStep DEF Fresh, At, IInv, TypeOK
<1> QED
  BY <1>2, <1>3 DEF FindRename

\* Rename gives it a free name.
LEMMA UpdateTemplateNameInv ==
  ASSUME IInv, NEW p \in Procs, UpdateTemplateName(p) PROVE IInv'
<1> DEFINE hit == Holding(row, arg[p].name, arg[p].os)
           n == arg[p].new
           o == arg[p].os
<1>1. /\ pc[p] = "update" /\ LockFree /\ Exit(p) /\ n \in Names
      /\ UNCHANGED <<writer, seeds, opened, declined, made, removed, started, faults>>
  BY DEF UpdateTemplateName, Statement, At, IInv, Requests, Request
<1>2. CASE UNCHANGED <<row, behind>>
  <2>1. Tables'
    BY <1>1, <1>2 DEF IInv, Tables, OfferedOnce, HistoryOffered, TextCurrent, BuiltinOs,
      NamesApart
  <2> QED
    BY <1>1, <1>2, <2>1, WriteStep DEF IInv, TypeOK
<1>3. CASE /\ Holding(row, n, o) = {} /\ Commits
           /\ row' = [i \in Ids |-> IF i \in hit THEN [row[i] EXCEPT !.name = n] ELSE row[i]]
  <2>1. \A i \in hit : i \in Ids /\ row[i] \in Row /\ row[i] # NoRow
                       /\ row[i].name = arg[p].name /\ row[i].os = o
    BY DEF Holding, Called, IInv, TypeOK
  <2>2. \A i \in hit : /\ row'[i] \in Row /\ row'[i] # NoRow /\ row'[i].name = n
                       /\ row'[i].os = row[i].os /\ row'[i].text = row[i].text
    <3> SUFFICES ASSUME NEW i \in hit
                 PROVE  /\ row'[i] \in Row /\ row'[i] # NoRow /\ row'[i].name = n
                        /\ row'[i].os = row[i].os /\ row'[i].text = row[i].text
      OBVIOUS
    <3>1. row[i] \in Row /\ row'[i] = [row[i] EXCEPT !.name = n]
      BY <1>3, <2>1
    <3>2. /\ row'[i] \in Row /\ row'[i].name = n
          /\ row'[i].os = row[i].os /\ row'[i].text = row[i].text
      BY <1>1, <3>1 DEF Row
    <3> QED
      BY <3>2, ConstantsAssumption
  <2>3. \A i, j \in hit : i = j
    BY <2>1 DEF IInv, Tables, NamesApart
  <2>4. \A i \in Ids : row[i] # NoRow => ~(row[i].name = n /\ row[i].os = o)
    BY <1>3 DEF Holding, Called
  <2>5. \A i \in Ids : i \notin hit => row'[i] = row[i]
    BY <1>3
  <2>6. row' \in [Ids -> Row \cup {NoRow}]
    BY <1>3, <2>2, <2>5 DEF IInv, TypeOK
  <2> HIDE DEF hit
  <2>7. NamesApart'
    BY <2>1, <2>2, <2>3, <2>4, <2>5 DEF IInv, Tables, NamesApart
  <2>8. \A d \in Builtins :
          /\ row'[d] # NoRow <=> row[d] # NoRow
          /\ row[d] # NoRow => row'[d].os = row[d].os /\ row'[d].text = row[d].text
    BY <2>1, <2>2, <2>5, Numbers
  <2>9. Tables'
    BY <1>1, <2>7, <2>8, ConstantsAssumption
    DEF IInv, Tables, OfferedOnce, HistoryOffered, TextCurrent, BuiltinOs, TypeOK
  <2> QED
    BY <1>1, <1>3, <2>6, <2>9, WriteStep DEF IInv, TypeOK
<1> QED
  BY <1>2, <1>3 DEF UpdateTemplateName

\* A command that is killed has committed nothing.
LEMMA AbortInv == ASSUME IInv, NEW p \in Procs, Abort(p) PROVE IInv'
<1>1. /\ pc[p] # "idle" /\ Exit(p) /\ faults' \in 0..MaxFaults
      /\ writer' = (IF writer = p THEN NoProc ELSE writer)
      /\ UNCHANGED <<row, seeds, made, behind, opened, removed, declined, started>>
  BY Numbers DEF Abort, At, tables, history, IInv, TypeOK
<1>2. Moves(p) /\ pc'[p] = "idle"
  BY <1>1, ExitMoves DEF IInv
<1>3. writer' \in Procs \cup {NoProc} /\ \A q \in Procs : At(q, "commit")' <=> writer' = q
  BY <1>1, <1>2, ConstantsAssumption DEF IInv, TypeOK, Moves, At
<1> QED
  BY <1>1, <1>2, <1>3, QuietStep DEF Fresh, At

-----------------------------------------------------------------------------
(* Every step, and the theorems. *)

\* Every step keeps the invariant.
LEMMA NextInv == IInv /\ [Next]_vars => IInv'
<1> SUFFICES ASSUME IInv, [Next]_vars PROVE IInv'
  OBVIOUS
<1>1. ASSUME NEW p \in Procs, Start(p) PROVE IInv'
  BY <1>1, BeginInv DEF Start
<1>2. ASSUME NEW p \in Procs, ReadTables(p) \/ TakeLock(p) \/ CommitSeeds(p) PROVE IInv'
  BY <1>2, ReadTablesInv, TakeLockInv, CommitSeedsInv
<1>3. ASSUME NEW p \in Procs, CheckName(p) \/ FindDelete(p) \/ ValidateName(p) PROVE IInv'
  BY <1>3, QueryInv DEF CheckName, FindDelete, ValidateName
<1>4. ASSUME NEW p \in Procs,
             \/ InsertTemplate(p) \/ DeleteTemplates(p) \/ FindRename(p)
             \/ UpdateTemplateName(p) \/ Abort(p)
      PROVE  IInv'
  BY <1>4, InsertTemplateInv, DeleteTemplatesInv, FindRenameInv, UpdateTemplateNameInv, AbortInv
<1>5. CASE UNCHANGED vars
  <2>1. TypeOK' /\ Spent' /\ Requests' /\ AllFresh'
    BY <1>5 DEF vars, IInv, TypeOK, Spent, Active, Requests, Request, AllFresh, Fresh, At
  <2>2. Tables'
    BY <1>5 DEF vars, IInv, Tables, OfferedOnce, HistoryOffered, TextCurrent, BuiltinOs,
      NamesApart
  <2> QED
    BY <2>1, <2>2 DEF IInv
<1> QED
  BY <1>1, <1>2, <1>3, <1>4, <1>5 DEF Next, Step

\* The invariant behind the others: a seeding that is given the lock knows the tables
\* as they are, whatever the other processes did since it read them.
THEOREM Inductive == Spec => []IInv
BY InitIInv, NextInv, PTL DEF Spec

\* Every table and every local of a command keeps its type, and one process at most
\* is in its transaction.
THEOREM TypeCorrect == Spec => []TypeOK
BY Inductive, PTL DEF IInv

\* Each built-in template is offered once, across any number of versions and
\* processes: it is there from then on, unless the user deleted it or had that name.
THEOREM Offering == Spec => []OfferedOnce
BY Inductive, PTL DEF IInv, Tables

\* The built-in templates that are there have the text of the version that seeded last.
THEOREM CurrentText == Spec => []TextCurrent
BY Inductive, PTL DEF IInv, Tables

\* Nothing the user made, renamed or deleted makes a seeding, and so every command,
\* fail on a row that stands in its way.
THEOREM Unlocked == Spec => []NeverLockedOut
<1>1. IInv => NeverLockedOut
  BY NoClash DEF IInv, Tables, NeverLockedOut
<1> QED
  BY <1>1, Inductive, PTL

\* No two templates share a name and an OS, so a name the user gives finds one
\* template at most for each OS, and no refresh runs into the constraint.
THEOREM UniqueNames == Spec => []NamesApart
BY Inductive, PTL DEF IInv, Tables

=============================================================================
