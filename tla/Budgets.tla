------------------------------ MODULE Budgets ------------------------------
(***************************************************************************)
(* The budget commands: ls, create, update and delete, run by several CLI  *)
(* processes against AWS Budgets and the cache file of the last listing.   *)
(* A budget has a limit and a few alerts, each with an address to mail.  A *)
(* step is one call that changes something, or the reads before it.        *)
(***************************************************************************)
EXTENDS Naturals

CONSTANTS
  Names,        \* budget names
  Limits,       \* monthly limits
  Emails,       \* addresses for alerts
  AlertCount,   \* alerts of a budget: three in the code
  Procs,        \* CLI processes
  NoName, NoEmail, NoBudget, NoCache,   \* "none" of each kind
  Commands,     \* the commands the user runs
  MaxCommands,  \* bound: commands started, ls excepted
  MaxFails,     \* bound: calls that fail
  MaxKills      \* bound: processes killed, or replies lost

Alerts == 1..AlertCount
Budget == [limit : Limits, alert : [Alerts -> Emails]]
List == [Names -> Limits \cup {0}]     \* the limit of each budget; 0: no such budget

ASSUME ConstantsAssumption ==
  /\ Limits \subseteq Nat \ {0}
  /\ AlertCount \in Nat \ {0}
  /\ NoName \notin Names /\ NoEmail \notin Emails
  /\ NoBudget \notin Budget /\ NoCache \notin List
  /\ Commands \subseteq {"ls", "create", "update", "delete"}
  /\ MaxCommands \in Nat /\ MaxFails \in Nat /\ MaxKills \in Nat

VARIABLES
  budget,   \* AWS: name -> its budget, or NoBudget
  cache,    \* ~/.outpost/budgets-cache.json: a list less than 12 hours old, or NoCache
  pc,       \* process -> the step its command takes next
  want,     \* process -> what the user asked for
  read,     \* process -> limit and address of the budget as update read them
  next,     \* process -> the alert update looks at next
  list,     \* process -> the list AWS gave
  touched,  \* history: processes whose command another's change overlapped
  fate,     \* history: process -> what others have done to the new budget of its rename
  crossed,  \* history: a list was cached that had ceased to be true
  started, fails, kills     \* commands started, calls failed, processes killed so far

locals == <<want, read, next, list>>
counts == <<started, fails, kills>>
vars == <<budget, cache, pc, want, read, next, list, touched, fate, crossed,
          started, fails, kills>>

-----------------------------------------------------------------------------
Steps == {"idle", "list", "writeCache", "create", "delete", "details", "createNew",
          "deleteOld", "setLimit", "setEmail", "clearThenList", "clearThenExit"}

\* name: the budget; new: its name after; limit and email: its own after.  0, NoName
\* and NoEmail say "as it is".
Want == [name : Names \cup {NoName}, new : Names \cup {NoName},
         limit : Limits \cup {0}, email : Emails \cup {NoEmail}]
Nothing == [name |-> NoName, new |-> NoName, limit |-> 0, email |-> NoEmail]
Details == [limit : Limits \cup {0}, email : Emails \cup {NoEmail}]
Unread == [limit |-> 0, email |-> NoEmail]
NoList == [n \in Names |-> 0]
Fates == {"kept", "changed", "gone"}

Exists(n) == budget[n] # NoBudget
Listing == [n \in Names |-> IF Exists(n) THEN budget[n].limit ELSE 0]

\* The address of a budget is that of the first alert that has one.
DetailsOf(n) == [limit |-> budget[n].limit, email |-> budget[n].alert[1]]

\* A new budget: the same address for every alert.
NewBudget(limit, email) == [limit |-> limit, alert |-> [a \in Alerts |-> email]]

\* An answer left empty keeps the value that was read.
Or(answer, none, current) == IF answer = none THEN current ELSE answer
\* Mutant: an empty answer for the limit is taken as it is.
ResolvedZeroLimit(w, d) == [name |-> w.name, new |-> Or(w.new, NoName, w.name),
                            limit |-> w.limit, email |-> Or(w.email, NoEmail, d.email)]

\* What the budget is to become, given what was read.
Resolved(w, d) == [name |-> w.name, new |-> Or(w.new, NoName, w.name),
                   limit |-> Or(w.limit, 0, d.limit), email |-> Or(w.email, NoEmail, d.email)]

Changed(w, d) == Resolved(w, d) # [name |-> w.name, new |-> w.name,
                                   limit |-> d.limit, email |-> d.email]

At(p, step) == pc[p] = step
Goto(p, step) == pc' = [pc EXCEPT ![p] = step]
Busy == {p \in Procs : ~At(p, "idle")}
LimitChanged(p) == want[p].limit # read[p].limit
EmailChanged(p) == want[p].email # read[p].email

\* The command returns, with or without an error.
Exit(p) ==
  /\ Goto(p, "idle")
  /\ want' = [want EXCEPT ![p] = Nothing]
  /\ read' = [read EXCEPT ![p] = Unread]
  /\ next' = [next EXCEPT ![p] = 1]
  /\ list' = [list EXCEPT ![p] = NoList]
  /\ touched' = touched \ {p}
  /\ fate' = [fate EXCEPT ![p] = "kept"]

Begin(p, c) ==
  /\ At(p, "idle")
  /\ c \in Commands
  /\ started < MaxCommands
  /\ started' = started + 1
  /\ UNCHANGED <<budget, cache, read, next, list, touched, fate, crossed, fails, kills>>

\* A step that changes no budget and no file.
Quiet == UNCHANGED <<budget, cache, crossed>> /\ UNCHANGED counts

\* Process p changes budget n: the commands under way meanwhile overlap with it, and its own
\* with them; and one that is about to remove an old budget for n has its new one changed,
\* or gone.
Overlap(p, n, what) ==
  /\ touched' = IF Busy = {p} THEN touched ELSE touched \cup Busy
  /\ fate' = [q \in Procs |->
                IF q # p /\ At(q, "deleteOld") /\ want[q].new = n /\ fate[q] # "gone"
                THEN what ELSE fate[q]]

Init ==
  /\ budget = [n \in Names |-> NoBudget]
  /\ cache = NoCache
  /\ pc = [p \in Procs |-> "idle"]
  /\ want = [p \in Procs |-> Nothing]
  /\ read = [p \in Procs |-> Unread]
  /\ next = [p \in Procs |-> 1]
  /\ list = [p \in Procs |-> NoList]
  /\ touched = {} /\ fate = [p \in Procs |-> "kept"] /\ crossed = FALSE
  /\ started = 0 /\ fails = 0 /\ kills = 0

-----------------------------------------------------------------------------
(* ls: from the cache if it has a list and --refresh is not given, else from AWS. *)

LsBegin(p, refresh) ==
  /\ At(p, "idle")
  /\ "ls" \in Commands
  /\ refresh \/ cache = NoCache
  /\ Goto(p, "list")
  /\ UNCHANGED <<locals, touched, fate>> /\ Quiet

DescribeBudgets(p) ==
  /\ At(p, "list")
  /\ list' = [list EXCEPT ![p] = Listing]
  /\ Goto(p, "writeCache")
  /\ UNCHANGED <<want, read, next, touched, fate>> /\ Quiet

\* The file is written aside and renamed into its place.
WriteCache(p) ==
  /\ At(p, "writeCache")
  /\ cache' = list[p]
  /\ crossed' = (crossed \/ list[p] # Listing)
  /\ Exit(p)
  /\ UNCHANGED budget /\ UNCHANGED counts

\* The cached list becomes twelve hours old.
Expire ==
  /\ cache # NoCache
  /\ cache' = NoCache
  /\ UNCHANGED <<budget, pc, locals, touched, fate, crossed>> /\ UNCHANGED counts

\* create and update go on with a listing from AWS.
ClearCache(p) ==
  /\ \/ At(p, "clearThenList") /\ Goto(p, "list") /\ UNCHANGED <<locals, touched, fate>>
     \/ At(p, "clearThenExit") /\ Exit(p)
  /\ cache' = NoCache
  /\ UNCHANGED <<budget, crossed>> /\ UNCHANGED counts

-----------------------------------------------------------------------------
(* create and delete. *)

CreateBegin(p, n, limit, email) ==
  /\ Begin(p, "create")
  /\ Goto(p, "create")
  /\ want' = [want EXCEPT ![p] = [name |-> n, new |-> n, limit |-> limit, email |-> email]]

\* AWS refuses a second budget of the same name.
CreateBudget(p) ==
  LET n == want[p].name IN
  /\ At(p, "create")
  /\ IF Exists(n)
     THEN Exit(p) /\ UNCHANGED budget
     ELSE /\ budget' = [budget EXCEPT ![n] = NewBudget(want[p].limit, want[p].email)]
          /\ Goto(p, "clearThenList")
          /\ Overlap(p, n, "changed")
          /\ UNCHANGED locals
  /\ UNCHANGED <<cache, crossed>> /\ UNCHANGED counts

DeleteBegin(p, n) ==
  /\ Begin(p, "delete")
  /\ Goto(p, "delete")
  /\ want' = [want EXCEPT ![p].name = n]

DeleteBudget(p) ==
  LET n == want[p].name IN
  /\ At(p, "delete")
  /\ IF Exists(n)
     THEN /\ budget' = [budget EXCEPT ![n] = NoBudget]
          /\ Goto(p, "clearThenExit")
          /\ Overlap(p, n, "gone")
          /\ UNCHANGED locals
     ELSE Exit(p) /\ UNCHANGED budget
  /\ UNCHANGED <<cache, crossed>> /\ UNCHANGED counts

-----------------------------------------------------------------------------
(* update: read the budget, ask what to change, read it again, then change its    *)
(* name (a new budget in place of the old one) or its limit and its alerts.       *)

\* Answers that change nothing end the command here ("No changes.").
UpdateBegin(p, n, new, limit, email) ==
  LET w == [name |-> n, new |-> new, limit |-> limit, email |-> email] IN
  /\ Begin(p, "update")
  /\ Exists(n)
  /\ Changed(w, DetailsOf(n))
  /\ Goto(p, "details")
  /\ want' = [want EXCEPT ![p] = w]

\* The step UpdateBudget goes on with, once it has read d.
Route(w, d) ==
  CASE ~Changed(w, d)                         -> "list"
    [] Changed(w, d) /\ Resolved(w, d).new # w.name -> "createNew"
    [] Changed(w, d) /\ Resolved(w, d).new = w.name
                     /\ Resolved(w, d).limit # d.limit -> "setLimit"
    [] OTHER                                  -> "setEmail"

ReadDetails(p) ==
  LET n == want[p].name
      d == DetailsOf(n)
  IN
  /\ At(p, "details")
  /\ IF Exists(n)
     THEN /\ read' = [read EXCEPT ![p] = d]
          /\ want' = [want EXCEPT ![p] = Resolved(want[p], d)]
          /\ Goto(p, Route(want[p], d))
          /\ UNCHANGED <<next, list, touched, fate>>
     ELSE Exit(p)
  /\ Quiet

\* Mutant: a budget that has the new name already is taken for the new one.
CreateNewOrAdopt(p) ==
  LET n == want[p].new IN
  /\ At(p, "createNew")
  /\ budget' = IF Exists(n) THEN budget
               ELSE [budget EXCEPT ![n] = NewBudget(want[p].limit, want[p].email)]
  /\ Goto(p, "deleteOld")
  /\ Overlap(p, n, "changed")
  /\ UNCHANGED <<locals, cache, crossed>> /\ UNCHANGED counts

CreateNew(p) ==
  LET n == want[p].new IN
  /\ At(p, "createNew")
  /\ IF Exists(n)
     THEN Exit(p) /\ UNCHANGED budget
     ELSE /\ budget' = [budget EXCEPT ![n] = NewBudget(want[p].limit, want[p].email)]
          /\ Goto(p, "deleteOld")
          /\ Overlap(p, n, "changed")
          /\ UNCHANGED locals
  /\ UNCHANGED <<cache, crossed>> /\ UNCHANGED counts

DeleteOld(p) ==
  /\ At(p, "deleteOld")
  /\ IF Exists(want[p].name)
     THEN /\ budget' = [budget EXCEPT ![want[p].name] = NoBudget]
          /\ Goto(p, "clearThenList")
          /\ Overlap(p, want[p].name, "gone")
     ELSE Goto(p, "clearThenExit") /\ UNCHANGED <<budget, touched, fate>>
  /\ UNCHANGED <<locals, cache, crossed>> /\ UNCHANGED counts

SetLimit(p) ==
  LET n == want[p].name IN
  /\ At(p, "setLimit")
  /\ IF Exists(n)
     THEN /\ budget' = [budget EXCEPT ![n].limit = want[p].limit]
          /\ Goto(p, IF EmailChanged(p) THEN "setEmail" ELSE "clearThenList")
          /\ Overlap(p, n, "changed")
          /\ UNCHANGED locals
     ELSE Exit(p) /\ UNCHANGED budget
  /\ UNCHANGED <<cache, crossed>> /\ UNCHANGED counts

\* Mutant: the cache is left as it is when the limit was changed and the address not.
EmailFailsQuietly(p) == Exit(p)

\* The alerts could not be changed: what was cached is dropped if the limit was.
EmailFails(p) ==
  IF LimitChanged(p) THEN Goto(p, "clearThenExit") /\ UNCHANGED <<locals, touched, fate>>
  ELSE Exit(p)

\* Mutant: the same alert is changed each time.
ReplaceFirst(p, b) ==
  [b EXCEPT !.alert[1] = IF @ = read[p].email THEN want[p].email ELSE @]

\* In one alert, the address that was read gives way to the new one.
Replace(p, b) ==
  [b EXCEPT !.alert[next[p]] = IF @ = read[p].email THEN want[p].email ELSE @]

SetAlert(p) ==
  LET n == want[p].name IN
  /\ At(p, "setEmail")
  /\ IF Exists(n)
     THEN /\ budget' = [budget EXCEPT ![n] = Replace(p, @)]
          /\ next' = [next EXCEPT ![p] = IF @ = AlertCount THEN 1 ELSE @ + 1]
          /\ IF next[p] = AlertCount THEN Goto(p, "clearThenList") ELSE UNCHANGED pc
          /\ Overlap(p, n, "changed")
          /\ UNCHANGED <<want, read, list>>
     ELSE EmailFails(p) /\ UNCHANGED budget
  /\ UNCHANGED <<cache, crossed>> /\ UNCHANGED counts

-----------------------------------------------------------------------------
(* Faults. *)

\* A call to AWS fails: most commands return, an update in the middle first drops the
\* cache.
CallFails(p) ==
  /\ fails < MaxFails
  /\ fails' = fails + 1
  /\ \/ pc[p] \in {"list", "create", "delete", "details", "createNew", "setLimit"} /\ Exit(p)
     \/ At(p, "deleteOld") /\ Goto(p, "clearThenExit") /\ UNCHANGED <<locals, touched, fate>>
     \/ At(p, "setEmail") /\ EmailFails(p)
  /\ UNCHANGED <<budget, cache, crossed, started, kills>>

\* The process dies, or takes the lost reply to its last call for a failure.
Kill(p) ==
  /\ ~At(p, "idle")
  /\ kills < MaxKills
  /\ kills' = kills + 1
  /\ Exit(p)
  /\ UNCHANGED <<budget, cache, crossed, started, fails>>

-----------------------------------------------------------------------------
Step(p) ==
  \/ DescribeBudgets(p) \/ WriteCache(p) \/ ClearCache(p)
  \/ CreateBudget(p) \/ DeleteBudget(p)
  \/ ReadDetails(p) \/ CreateNew(p) \/ DeleteOld(p) \/ SetLimit(p) \/ SetAlert(p)

Start(p) ==
  \/ \E refresh \in BOOLEAN : LsBegin(p, refresh)
  \/ \E n \in Names :
       \/ \E limit \in Limits, email \in Emails : CreateBegin(p, n, limit, email)
       \/ DeleteBegin(p, n)
       \/ \E new \in Names \cup {NoName}, limit \in Limits \cup {0},
            email \in Emails \cup {NoEmail} : UpdateBegin(p, n, new, limit, email)

Next == Expire \/ \E p \in Procs : Start(p) \/ Step(p) \/ CallFails(p) \/ Kill(p)

Spec == Init /\ [][Next]_vars

=============================================================================
