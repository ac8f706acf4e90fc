----------------------------- MODULE Templates -----------------------------
(***************************************************************************)
(* Startup templates: the tables templates and default_template_seeds of   *)
(* the local database, the seeding that every command runs when it opens   *)
(* the database, and the commands new, rename and delete, run by several   *)
(* CLI processes of one or another version of the program.                 *)
(*                                                                         *)
(* The seeding is one transaction that begins by reading and takes the     *)
(* write lock at its first write; SQLite refuses it the lock at once if    *)
(* another process holds it, or has committed since that reading.  Every   *)
(* other statement is a transaction of its own that waits for the lock.    *)
(***************************************************************************)
EXTENDS Naturals

CONSTANTS
  Procs,        \* CLI processes
  Versions,     \* versions of the program, numbered
  BuiltinCount, \* built-in templates of all versions: ids 1..BuiltinCount
  Offered,      \* version -> the built-in templates it has
  NameOf, OsOf, \* built-in template -> its name and OS
  Names, Oses,  \* template names and OS families
  NoRow, NoName, NoOs, NoProc,   \* "none" of each kind
  MaxCommands,  \* bound: commands started
  MaxFaults     \* bound: commands killed, or refused a statement

Builtins == 1..BuiltinCount
Ids == 1..(BuiltinCount + MaxCommands)     \* in the order of created_at
Row == [name : Names, os : Oses, text : Versions \cup {0}]   \* text 0: the user's

ASSUME ConstantsAssumption ==
  /\ Versions \subseteq Nat \ {0}
  /\ BuiltinCount \in Nat /\ MaxCommands \in Nat /\ MaxFaults \in Nat
  /\ Offered \in [Versions -> SUBSET Builtins]
  /\ NameOf \in [Builtins -> Names] /\ OsOf \in [Builtins -> Oses]
  /\ \A c, d \in Builtins : NameOf[c] = NameOf[d] /\ OsOf[c] = OsOf[d] => c = d
  /\ NoRow \notin Row /\ NoName \notin Names /\ NoOs \notin Oses /\ NoProc \notin Procs

VARIABLES
  row,      \* templates: id -> row, or NoRow
  seeds,    \* default_template_seeds: the built-in templates offered so far
  made,     \* templates the user has made
  writer,   \* the process that holds the write lock between two steps, or NoProc
  behind,   \* the processes whose seeding has been overtaken by a commit since it read
  pc,       \* process -> the step its command takes next
  arg,      \* process -> its version and what the user asked for
  view,     \* process -> the tables as its seeding read them
  opened,   \* history: the version that seeded last, or 0
  removed,  \* history: built-in templates the user deleted
  declined, \* history: built-in templates whose name was the user's when they were offered
  started, faults   \* commands started and cut short so far

tables == <<row, seeds, made>>
history == <<opened, removed, declined>>
vars == <<row, seeds, made, writer, behind, pc, arg, view, opened, removed, declined,
          started, faults>>

-----------------------------------------------------------------------------
Steps == {"idle", "read", "seed", "commit", "checkName", "insert", "findDelete", "delete",
          "findRename", "validate", "update"}
Arg == [version : Versions \cup {0}, next : Steps, name : Names \cup {NoName},
        new : Names \cup {NoName}, os : Oses \cup {NoOs}]
NoArg == [version |-> 0, next |-> "idle", name |-> NoName, new |-> NoName, os |-> NoOs]
NoTable == [i \in Ids |-> NoRow]
View == [rows : [Ids -> Row \cup {NoRow}], seeds : SUBSET Builtins]
NoView == [rows |-> NoTable, seeds |-> {}]

At(p, step) == pc[p] = step
Goto(p, step) == pc' = [pc EXCEPT ![p] = step]
LockFree == writer = NoProc

Called(t, n) == {i \in Ids : t[i] # NoRow /\ t[i].name = n}
Holding(t, n, o) == {i \in Called(t, n) : t[i].os = o}

\* The command returns, with or without an error.
Exit(p) ==
  /\ Goto(p, "idle")
  /\ arg' = [arg EXCEPT ![p] = NoArg]
  /\ view' = [view EXCEPT ![p] = NoView]

\* A step that writes nothing.
Reads == UNCHANGED <<tables, writer, history, started, faults>>

\* A commit overtakes the seedings that have read and not written.
Commits == behind' = behind \cup {p \in Procs : At(p, "seed")}

Init ==
  /\ row = NoTable /\ seeds = {} /\ made = 0
  /\ writer = NoProc /\ behind = {}
  /\ pc = [p \in Procs |-> "idle"]
  /\ arg = [p \in Procs |-> NoArg] /\ view = [p \in Procs |-> NoView]
  /\ opened = 0 /\ removed = {} /\ declined = {}
  /\ started = 0 /\ faults = 0
-----------------------------------------------------------------------------
(* Opening the database: each built-in template is offered once, unless the user has *)
(* one of that name for that OS; those that are there get this version's text.       *)

\* Mutant: a name the user has taken does not keep a built-in template out.
InsertedAnyway(v, t, s) == Offered[v] \ s

Inserted(v, t, s) == {d \in Offered[v] \ s : Holding(t, NameOf[d], OsOf[d]) = {}}

\* The template keeps the name the user has given it.
Refreshed(v, t, s) ==
  {d \in Offered[v] : t[d] # NoRow /\ (d \in s \/ d \in Holding(t, NameOf[d], OsOf[d]))}

\* The INSERT of one is refused, by the id or by the name and OS.
Clash(v, t, s) ==
  \E d \in Inserted(v, t, s) : t[d] # NoRow \/ Holding(t, NameOf[d], OsOf[d]) # {}

\* Mutant: only a template that is new gets this version's text.
SeededOnce(v, t, s) ==
  [i \in Ids |-> IF i \in Inserted(v, t, s)
                 THEN [name |-> NameOf[i], os |-> OsOf[i], text |-> v] ELSE t[i]]

Seeded(v, t, s) ==
  [i \in Ids |->
     CASE i \in Inserted(v, t, s)  -> [name |-> NameOf[i], os |-> OsOf[i], text |-> v]
       [] i \in Refreshed(v, t, s) -> [t[i] EXCEPT !.os = OsOf[i], !.text = v]
       [] OTHER                    -> t[i]]

Begin(p, a) ==
  /\ At(p, "idle")
  /\ started < MaxCommands
  /\ started' = started + 1
  /\ arg' = [arg EXCEPT ![p] = a]
  /\ Goto(p, "read")
  /\ UNCHANGED <<tables, writer, behind, view, history, faults>>

ReadTables(p) ==
  /\ At(p, "read")
  /\ view' = [view EXCEPT ![p] = [rows |-> row, seeds |-> seeds]]
  /\ behind' = behind \ {p}
  /\ Goto(p, "seed")
  /\ UNCHANGED arg /\ Reads

\* The seeding is over and the command goes on.
Opened(p) == Goto(p, arg[p].next) /\ view' = [view EXCEPT ![p] = NoView] /\ UNCHANGED arg

\* Mutant: what was read is written however old it is.
TakeLockLate(p) ==
  /\ At(p, "seed")
  /\ LockFree
  /\ writer' = p
  /\ Goto(p, "commit")
  /\ UNCHANGED <<tables, arg, view, behind, history, started, faults>>

\* The first write, if there is one.
TakeLock(p) ==
  LET v == arg[p].version
      t == view[p].rows
      s == view[p].seeds
  IN
  /\ At(p, "seed")
  /\ CASE Offered[v] \subseteq s /\ Refreshed(v, t, s) = {} -> Opened(p) /\ UNCHANGED writer
       [] OTHER -> IF LockFree /\ p \notin behind
                   THEN writer' = p /\ Goto(p, "commit") /\ UNCHANGED <<arg, view>>
                   ELSE Exit(p) /\ UNCHANGED writer
  /\ UNCHANGED <<tables, behind, history, started, faults>>

\* The other writes and the commit.
CommitSeeds(p) ==
  LET v == arg[p].version
      t == view[p].rows
      s == view[p].seeds
  IN
  /\ At(p, "commit")
  /\ writer' = NoProc
  /\ IF Clash(v, t, s)
     THEN Exit(p) /\ UNCHANGED <<tables, behind, history>>
     ELSE /\ row' = Seeded(v, t, s)
          /\ seeds' = s \cup Offered[v]
          /\ opened' = v
          /\ declined' = declined \cup ((Offered[v] \ s) \ Inserted(v, t, s))
          /\ Commits
          /\ Opened(p)
          /\ UNCHANGED <<made, removed>>
  /\ UNCHANGED <<started, faults>>

-----------------------------------------------------------------------------
(* The commands, once the database is open. *)

\* A statement on the open database: goes on with step then, or ends the command.
Query(p, step, found, then) ==
  /\ At(p, step)
  /\ IF found THEN Goto(p, then) /\ UNCHANGED <<arg, view>> ELSE Exit(p)
  /\ UNCHANGED behind /\ Reads

Statement(p, step) ==
  /\ At(p, step)
  /\ LockFree
  /\ Exit(p)
  /\ UNCHANGED <<writer, seeds, opened, declined, started, faults>>

\* new
CheckName(p) == Query(p, "checkName", Holding(row, arg[p].name, arg[p].os) = {}, "insert")

InsertTemplate(p) ==
  LET n == arg[p].name
      o == arg[p].os
  IN
  /\ Statement(p, "insert")
  /\ IF Holding(row, n, o) = {}
     THEN /\ made' = made + 1
          /\ row' = [row EXCEPT ![BuiltinCount + made'] = [name |-> n, os |-> o, text |-> 0]]
          /\ Commits
     ELSE UNCHANGED <<row, made, behind>>
  /\ UNCHANGED removed

\* delete: the templates of that name for every OS
FindDelete(p) == Query(p, "findDelete", Called(row, arg[p].name) # {}, "delete")

DeleteTemplates(p) ==
  LET gone == Called(row, arg[p].name) IN
  /\ Statement(p, "delete")
  /\ row' = [i \in Ids |-> IF i \in gone THEN NoRow ELSE row[i]]
  /\ removed' = removed \cup (gone \cap Builtins)
  /\ IF gone = {} THEN UNCHANGED behind ELSE Commits
  /\ UNCHANGED made

\* rename: the oldest template of that name
FindRename(p) ==
  LET found == Called(row, arg[p].name) IN
  /\ At(p, "findRename")
  /\ IF found = {} \/ arg[p].new = arg[p].name
     THEN Exit(p)
     ELSE /\ \E i \in found :
               /\ \A j \in found : i <= j
               /\ arg' = [arg EXCEPT ![p].os = row[i].os]
          /\ Goto(p, "validate")
          /\ UNCHANGED view
  /\ UNCHANGED behind /\ Reads

ValidateName(p) == Query(p, "validate", Holding(row, arg[p].new, arg[p].os) = {}, "update")

UpdateTemplateName(p) ==
  LET hit == Holding(row, arg[p].name, arg[p].os)
      n == arg[p].new
  IN
  /\ Statement(p, "update")
  /\ IF hit # {} /\ Holding(row, n, arg[p].os) = {}
     THEN row' = [i \in Ids |-> IF i \in hit THEN [row[i] EXCEPT !.name = n] ELSE row[i]]
          /\ Commits
     ELSE UNCHANGED <<row, behind>>
  /\ UNCHANGED <<made, removed>>

\* Mutant: the transaction of a command that fails is left open.
AbortOpen(p) ==
  /\ ~At(p, "idle")
  /\ faults < MaxFaults
  /\ faults' = faults + 1
  /\ Exit(p)
  /\ UNCHANGED <<tables, writer, behind, history, started>>

\* The process dies, or a statement of it waits for the lock too long: what its
\* transaction wrote is rolled back.
Abort(p) ==
  /\ ~At(p, "idle")
  /\ faults < MaxFaults
  /\ faults' = faults + 1
  /\ writer' = IF writer = p THEN NoProc ELSE writer
  /\ Exit(p)
  /\ UNCHANGED <<tables, behind, history, started>>

-----------------------------------------------------------------------------
\* What the user may run; a command that only reads opens the database all the same.
Asked(v) ==
  {[NoArg EXCEPT !.version = v]}
  \cup {[version |-> v, next |-> "checkName", name |-> n, new |-> NoName, os |-> o] :
          n \in Names, o \in Oses}
  \cup {[version |-> v, next |-> "findDelete", name |-> n, new |-> NoName, os |-> NoOs] :
          n \in Names}
  \cup {[version |-> v, next |-> "findRename", name |-> n, new |-> m, os |-> NoOs] :
          n \in Names, m \in Names}

Start(p) == \E v \in Versions : \E a \in Asked(v) : Begin(p, a)

Step(p) ==
  \/ ReadTables(p) \/ TakeLock(p) \/ CommitSeeds(p)
  \/ CheckName(p) \/ InsertTemplate(p)
  \/ FindDelete(p) \/ DeleteTemplates(p)
  \/ FindRename(p) \/ ValidateName(p) \/ UpdateTemplateName(p)

Next == \E p \in Procs : Start(p) \/ Step(p) \/ Abort(p)

Spec == Init /\ [][Next]_vars

=============================================================================
