---------------------------- MODULE BudgetProofs ----------------------------
(***************************************************************************)
(* What holds of Budgets for every set of names, limits, addresses and     *)
(* processes, every number of alerts and every bound.                      *)
(*                                                                         *)
(* The argument has two parts.  A change of the list of budgets is owed to *)
(* the cache: the command that made it removes the file, or a later step   *)
(* of it does (Owes), unless it is killed.  And a command no other has     *)
(* overlapped knows how far the budget is towards what was asked           *)
(* (Untouched): the alerts it has gone through no longer mail the old      *)
(* address, and the new budget is there before the old one goes.  Of the   *)
(* new budget it knows besides what the others have done to it (fate).     *)
(***************************************************************************)
EXTENDS BudgetProperties, TLAPS

\* The steps at which all that the budget is to become is known.
Known == {"create", "createNew", "deleteOld", "setLimit", "setEmail"}

\* What the request of p and what it has read have in common with the step it is at.
Shape(p) ==
  LET w == want[p] IN
  /\ pc[p] \in Known =>
       w.name \in Names /\ w.new \in Names /\ w.limit \in Limits /\ w.email \in Emails
  /\ pc[p] \in {"delete", "details"} => w.name \in Names
  /\ pc[p] \in {"idle", "create"} => read[p] = Unread
  /\ pc[p] \in {"create", "setLimit", "setEmail"} => w.new = w.name
  /\ pc[p] \in {"createNew", "deleteOld"} => w.new # w.name
  /\ pc[p] = "setLimit" => LimitChanged(p)
  /\ pc[p] = "setEmail" => EmailChanged(p)
  /\ pc[p] \notin {"setEmail", "clearThenExit"} => next[p] = 1

\* All that was asked is done.
Delivered(p) ==
  LET w == want[p] IN
  /\ Exists(w.new)
  /\ budget[w.new].limit = w.limit
  /\ DetailsOf(w.new).email = w.email
  /\ EmailChanged(p) => \A a \in Alerts : budget[w.new].alert[a] # read[p].email
  /\ w.new # w.name => ~Exists(w.name)

\* What is left of the new budget p has made, after what others have done to it.
Renamed(p) ==
  LET w == want[p] IN
  /\ pc[p] \in {"idle", "details", "createNew"} => fate[p] = "kept"
  /\ pc[p] = "deleteOld" =>
       /\ fate[p] = "kept" => budget[w.new] = NewBudget(w.limit, w.email)
       /\ fate[p] = "changed" => Exists(w.new)

\* How far p has got with the budget, when no other command has come between.
Untouched(p) ==
  LET w == want[p] IN
  p \notin touched =>
    /\ pc[p] = "setLimit" => Exists(w.name) /\ DetailsOf(w.name) = read[p]
    /\ pc[p] = "setEmail" =>
         /\ Exists(w.name) /\ budget[w.name].limit = w.limit
         /\ budget[w.name].alert[1] = IF next[p] = 1 THEN read[p].email ELSE w.email
         /\ \A a \in Alerts : a < next[p] => budget[w.name].alert[a] # read[p].email
    /\ pc[p] = "deleteOld" => budget[w.new] = NewBudget(w.limit, w.email)
    /\ pc[p] = "clearThenList" => Delivered(p)

\* p has changed the list of budgets and will remove the cached one.
Owes(p) ==
  \/ pc[p] \in {"deleteOld", "clearThenList", "clearThenExit"}
  \/ pc[p] = "setEmail" /\ LimitChanged(p)

\* The cached list is true, or a command under way owes its removal.
CacheOwed ==
  kills = 0 /\ ~crossed => cache \in {NoCache, Listing} \/ \E p \in Procs : Owes(p)

Shaped == \A p \in Procs : Shape(p)
AllUntouched == \A p \in Procs : Untouched(p) /\ Renamed(p)

IInv == TypeOK /\ Shaped /\ AllUntouched /\ CacheOwed

\* A step of p leaves the other processes alone.
Moves(p) ==
  /\ pc' \in [Procs -> Steps] /\ want' \in [Procs -> Want] /\ read' \in [Procs -> Details]
  /\ next' \in [Procs -> Alerts] /\ list' \in [Procs -> List] /\ fate' \in [Procs -> Fates]
  /\ \A q \in Procs \ {p} : /\ pc'[q] = pc[q] /\ want'[q] = want[q] /\ read'[q] = read[q]
                            /\ next'[q] = next[q] /\ list'[q] = list[q]

\* p changes no budget, or one, by which the commands under way beside it are touched.
Spares(p) ==
  \/ /\ budget' = budget /\ touched \ {p} \subseteq touched'
     /\ \A q \in Procs \ {p} : fate'[q] = fate[q]
  \/ /\ pc[p] # "idle"
     /\ \E n \in Names, b \in Budget \cup {NoBudget}, what \in {"changed", "gone"} :
          /\ b = NoBudget => what = "gone"
          /\ budget' = [budget EXCEPT ![n] = b]
          /\ Overlap(p, n, what)

-----------------------------------------------------------------------------
\* What the assumptions say of the constants and the values that stand for none.
LEMMA Values ==
  /\ AlertCount \in Nat \ {0} /\ 1 \in Alerts /\ 0 \notin Limits
  /\ Nothing \in Want /\ Unread \in Details /\ NoList \in List
  /\ NoBudget \notin Budget /\ NoCache \notin List /\ NoName \notin Names /\ NoEmail \notin Emails
BY ConstantsAssumption DEF Alerts, Nothing, Want, Unread, Details, NoList, List

\* What AWS answers to a listing is a list.
LEMMA ListingType == ASSUME TypeOK PROVE Listing \in List
<1>1. \A n \in Names : Exists(n) => budget[n].limit \in Limits
  BY DEF TypeOK, Exists, Budget
<1> QED
  BY <1>1 DEF Listing, List

\* A new budget has its limit, and its address in each alert.
LEMMA NewBudgetType ==
  ASSUME NEW limit \in Limits, NEW email \in Emails
  PROVE  /\ NewBudget(limit, email) \in Budget /\ NewBudget(limit, email) # NoBudget
         /\ NewBudget(limit, email).limit = limit
         /\ \A a \in Alerts : NewBudget(limit, email).alert[a] = email
<1>1. NewBudget(limit, email) \in Budget
  BY DEF NewBudget, Budget
<1> QED
  BY <1>1, Values DEF NewBudget

\* The invariant holds before the first command.
LEMMA InitIInv == Init => IInv
<1> SUFFICES ASSUME Init PROVE IInv
  OBVIOUS
<1>1. TypeOK
  <2>1. /\ pc \in [Procs -> Steps] /\ want \in [Procs -> Want] /\ read \in [Procs -> Details]
        /\ next \in [Procs -> Alerts] /\ list \in [Procs -> List]
    BY Values DEF Init, Steps
  <2>2. /\ budget \in [Names -> Budget \cup {NoBudget}] /\ cache \in List \cup {NoCache}
        /\ touched \subseteq Busy /\ crossed \in BOOLEAN /\ fate \in [Procs -> Fates]
    BY DEF Init, Fates
  <2>3. started \in 0..MaxCommands /\ fails \in 0..MaxFails /\ kills \in 0..MaxKills
    BY ConstantsAssumption DEF Init
  <2> QED
    BY <2>1, <2>2, <2>3 DEF TypeOK
<1>2. Shaped /\ AllUntouched
  BY DEF Init, Shaped, Shape, AllUntouched, Untouched, Renamed, Known
<1>3. CacheOwed
  BY DEF Init, CacheOwed
<1> QED
  BY <1>1, <1>2, <1>3 DEF IInv

\* A command that returns leaves nothing behind.
LEMMA ExitMoves ==
  ASSUME TypeOK, NEW p \in Procs, Exit(p)
  PROVE  /\ Moves(p) /\ pc'[p] = "idle" /\ Shape(p)' /\ Untouched(p)' /\ Renamed(p)'
         /\ touched' \subseteq Busy' /\ touched \ {p} \subseteq touched'
         /\ \A q \in Procs \ {p} : fate'[q] = fate[q]
<1>1. /\ pc'[p] = "idle" /\ read'[p] = Unread /\ next'[p] = 1 /\ Moves(p)
      /\ touched' = touched \ {p} /\ fate'[p] = "kept"
      /\ \A q \in Procs \ {p} : fate'[q] = fate[q]
  BY Values DEF TypeOK, Exit, Goto, Moves, Steps, Fates
<1>2. touched' \subseteq Busy'
  BY <1>1 DEF TypeOK, Busy, At, Moves
<1> QED
  BY <1>1, <1>2 DEF Shape, Untouched, Renamed, Known

\* What the other commands know survives a step of p: if p changes a budget, they are
\* touched by it, or idle.
LEMMA OthersKept ==
  ASSUME TypeOK, Shaped, AllUntouched, NEW p \in Procs, Moves(p), Spares(p),
         NEW q \in Procs \ {p}
  PROVE  Shape(q)' /\ Untouched(q)' /\ Renamed(q)'
<1>1. Shape(q)'
  BY DEF Shaped, Shape, Moves, LimitChanged, EmailChanged
<1>2. /\ pc'[q] = pc[q] /\ want'[q] = want[q] /\ read'[q] = read[q] /\ next'[q] = next[q]
      /\ Untouched(q) /\ Renamed(q) /\ Shape(q)
  BY DEF Moves, Shaped, AllUntouched
<1>3. CASE /\ budget' = budget /\ touched \ {p} \subseteq touched'
           /\ \A r \in Procs \ {p} : fate'[r] = fate[r]
  <2>1. (q \notin touched' => q \notin touched) /\ fate'[q] = fate[q]
    BY <1>3
  <2>2. Delivered(q)' <=> Delivered(q)
    BY <1>2, <1>3 DEF Delivered, Exists, DetailsOf, EmailChanged
  <2>3. Untouched(q)' /\ Renamed(q)'
    BY <1>2, <1>3, <2>1, <2>2 DEF Untouched, Renamed, Exists, DetailsOf
  <2> QED
    BY <1>1, <2>3
<1>4. CASE pc[p] # "idle" /\ \E n \in Names, b \in Budget \cup {NoBudget},
                               what \in {"changed", "gone"} :
             /\ b = NoBudget => what = "gone"
             /\ budget' = [budget EXCEPT ![n] = b] /\ Overlap(p, n, what)
  <2>1. PICK n \in Names, b \in Budget \cup {NoBudget}, what \in {"changed", "gone"} :
          /\ b = NoBudget => what = "gone"
          /\ budget' = [budget EXCEPT ![n] = b] /\ Overlap(p, n, what)
    BY <1>4
  <2>2. pc[q] = "idle" \/ q \in touched'
    BY <1>4, <2>1 DEF Busy, At, Overlap
  <2>3. Untouched(q)'
    BY <1>2, <2>2 DEF Untouched
  <2>4. fate'[q] = IF pc[q] = "deleteOld" /\ want[q].new = n /\ fate[q] # "gone"
                   THEN what ELSE fate[q]
    BY <2>1 DEF Overlap, At
  <2>5. Renamed(q)'
    <3>1. CASE pc[q] # "deleteOld"
      BY <1>2, <2>4, <3>1 DEF Renamed
    <3>2. CASE pc[q] = "deleteOld"
      <4>1. want[q].new \in Names
        BY <1>2, <3>2 DEF Shape, Known
      <4>2. CASE want[q].new = n
        <5>1. budget'[n] = b
          BY <2>1, <4>1, <4>2 DEF TypeOK
        <5> QED
          BY <1>2, <2>1, <2>4, <3>2, <4>2, <5>1 DEF Renamed, Exists
      <4>3. CASE want[q].new # n
        <5>1. budget'[want[q].new] = budget[want[q].new] /\ fate'[q] = fate[q]
          BY <2>1, <2>4, <4>1, <4>3 DEF TypeOK
        <5> QED
          BY <1>2, <3>2, <5>1 DEF Renamed, Exists
      <4> QED
        BY <4>2, <4>3
    <3> QED
      BY <3>1, <3>2
  <2> QED
    BY <1>1, <2>3, <2>5
<1> QED
  BY <1>3, <1>4 DEF Spares

\* A step of one process that leaves what the others know keeps the invariant.
LEMMA StepInv ==
  ASSUME IInv, NEW p \in Procs, Moves(p), Spares(p), Shape(p)', Untouched(p)', Renamed(p)',
         touched' \subseteq Busy', budget' \in [Names -> Budget \cup {NoBudget}],
         cache' \in List \cup {NoCache}, crossed' \in BOOLEAN,
         started' \in 0..MaxCommands, fails' \in 0..MaxFails, kills' \in 0..MaxKills,
         CacheOwed'
  PROVE  IInv'
<1>1. TypeOK'
  BY DEF TypeOK, Moves
<1>2. Shaped' /\ AllUntouched'
  BY OthersKept DEF IInv, Shaped, AllUntouched
<1> QED
  BY <1>1, <1>2 DEF IInv

\* A step that leaves the list of budgets and the cache as they are.
LEMMA OwedKept ==
  ASSUME CacheOwed, NEW p \in Procs, Moves(p), ~Owes(p) \/ Owes(p)',
         UNCHANGED <<cache, crossed>>, Listing' = Listing, kills' = 0 => kills = 0
  PROVE  CacheOwed'
<1>1. \A q \in Procs \ {p} : Owes(q) => Owes(q)'
  BY DEF Owes, LimitChanged, Moves
<1> QED
  BY <1>1 DEF CacheOwed

\* A step that changes neither budgets nor cache.
LEMMA QuietStep ==
  ASSUME IInv, NEW p \in Procs, Moves(p), Shape(p)', Untouched(p)', Renamed(p)',
         touched \ {p} \subseteq touched', touched' \subseteq Busy',
         \A q \in Procs \ {p} : fate'[q] = fate[q],
         UNCHANGED <<budget, cache, crossed>>, ~Owes(p) \/ Owes(p)' \/ kills' # 0,
         started' \in 0..MaxCommands, fails' \in 0..MaxFails, kills' \in 0..MaxKills,
         kills' = 0 => kills = 0
  PROVE  IInv'
<1>1. Listing' = Listing
  BY DEF Listing, Exists
<1>2. CacheOwed'
  BY <1>1, OwedKept DEF IInv, CacheOwed
<1> QED
  BY <1>2, StepInv DEF IInv, TypeOK, Spares

\* A command returns only when it owes the cache nothing, or is killed.
LEMMA ExitInv ==
  ASSUME IInv, NEW p \in Procs, Exit(p), ~Owes(p) \/ kills' # 0,
         UNCHANGED <<budget, cache, crossed>>,
         started' \in 0..MaxCommands, fails' \in 0..MaxFails, kills' \in 0..MaxKills,
         kills' = 0 => kills = 0
  PROVE  IInv'
BY ExitMoves, QuietStep DEF IInv

\* What others have done to a new budget stays of its type.
LEMMA FateType ==
  ASSUME TypeOK, NEW p, NEW n, NEW what \in Fates, Overlap(p, n, what)
  PROVE  fate' \in [Procs -> Fates] /\ (p \in Procs => fate'[p] = fate[p])
BY DEF TypeOK, Overlap

\* A step that goes on with another step of the same request.
LEMMA GoesOn ==
  ASSUME TypeOK, NEW p \in Procs, NEW step \in Steps \ {"idle"}, pc[p] # "idle",
         Goto(p, step), UNCHANGED <<want, read, list>>,
         next' = next \/ \E a \in Alerts : next' = [next EXCEPT ![p] = a],
         touched' = touched \/ touched' = touched \cup Busy,
         fate' = fate \/ fate' \in [Procs -> Fates]
  PROVE  /\ Moves(p) /\ pc'[p] = step /\ want'[p] = want[p] /\ read'[p] = read[p]
         /\ touched' \subseteq Busy' /\ touched \subseteq touched'
<1>1. Moves(p) /\ pc'[p] = step
  BY DEF TypeOK, Moves, Goto
<1>2. Busy' = Busy
  BY <1>1 DEF Busy, At, Moves
<1> QED
  BY <1>1, <1>2 DEF TypeOK

-----------------------------------------------------------------------------
(* ls, create and delete *)

\* What a command is asked is remembered.
LEMMA Begun ==
  ASSUME IInv, NEW p \in Procs, NEW step \in {"create", "delete", "details"},
         pc[p] = "idle", Goto(p, step), NEW w \in Want, want' = [want EXCEPT ![p] = w],
         w.name \in Names,
         step = "create" => w.new = w.name /\ w.limit \in Limits /\ w.email \in Emails,
         started' \in 0..MaxCommands,
         UNCHANGED <<budget, cache, read, next, list, touched, fate, crossed, fails, kills>>
  PROVE  IInv'
<1>1. Moves(p) /\ pc'[p] = step /\ want'[p] = w
  BY DEF IInv, TypeOK, Moves, Goto, Steps
<1>2. Shape(p)' /\ Untouched(p)' /\ Renamed(p)' /\ ~Owes(p)
  BY <1>1 DEF IInv, Shaped, Shape, AllUntouched, Untouched, Renamed, Known, Owes
<1>3. touched' \subseteq Busy'
  BY <1>1 DEF IInv, TypeOK, Busy, At, Moves
<1> QED
  BY <1>1, <1>2, <1>3, QuietStep DEF IInv, TypeOK

\* A command that starts knows nothing yet.
LEMMA StartInv == ASSUME IInv, NEW p \in Procs, Start(p) PROVE IInv'
<1> USE Values
<1>1. ASSUME NEW refresh \in BOOLEAN, LsBegin(p, refresh) PROVE IInv'
  <2>1. /\ pc[p] = "idle" /\ Goto(p, "list")
        /\ UNCHANGED <<budget, cache, crossed, started, fails, kills>>
        /\ UNCHANGED <<want, read, next, list, touched, fate>>
    BY <1>1 DEF LsBegin, At, Quiet, counts, locals
  <2>2. Moves(p) /\ pc'[p] = "list"
    BY <2>1 DEF IInv, TypeOK, Moves, Goto, Steps
  <2>3. Shape(p)' /\ Untouched(p)' /\ Renamed(p)' /\ ~Owes(p)
    BY <2>1, <2>2 DEF IInv, Shaped, Shape, AllUntouched, Untouched, Renamed, Known, Owes
  <2>4. touched' \subseteq Busy'
    BY <2>1, <2>2 DEF IInv, TypeOK, Busy, At, Moves
  <2> QED
    BY <2>1, <2>2, <2>3, <2>4, QuietStep DEF IInv, TypeOK
<1>2. ASSUME NEW n \in Names, NEW limit \in Limits, NEW email \in Emails,
             CreateBegin(p, n, limit, email)
      PROVE  IInv'
  <2> DEFINE w == [name |-> n, new |-> n, limit |-> limit, email |-> email]
  <2>1. /\ w \in Want /\ w.name \in Names /\ w.new = w.name
        /\ w.limit \in Limits /\ w.email \in Emails
    BY DEF Want
  <2>2. /\ pc[p] = "idle" /\ Goto(p, "create") /\ want' = [want EXCEPT ![p] = w]
        /\ started' \in 0..MaxCommands
        /\ UNCHANGED <<budget, cache, read, next, list, touched, fate, crossed, fails, kills>>
    BY <1>2, ConstantsAssumption DEF CreateBegin, Begin, At, IInv, TypeOK
  <2> HIDE DEF w
  <2> QED
    BY <2>1, <2>2, Begun
<1>3. ASSUME NEW n \in Names, DeleteBegin(p, n) PROVE IInv'
  <2> DEFINE w == [want[p] EXCEPT !.name = n]
  <2>1. w \in Want /\ w.name = n
    BY DEF Want, IInv, TypeOK
  <2>2. /\ pc[p] = "idle" /\ Goto(p, "delete") /\ want' = [want EXCEPT ![p] = w]
        /\ started' \in 0..MaxCommands
        /\ UNCHANGED <<budget, cache, read, next, list, touched, fate, crossed, fails, kills>>
    BY <1>3, ConstantsAssumption DEF DeleteBegin, Begin, At, IInv, TypeOK
  <2> HIDE DEF w
  <2> QED
    BY <2>1, <2>2, Begun
<1>4. ASSUME NEW n \in Names, NEW new \in Names \cup {NoName}, NEW limit \in Limits \cup {0},
             NEW email \in Emails \cup {NoEmail}, UpdateBegin(p, n, new, limit, email)
      PROVE  IInv'
  <2> DEFINE w == [name |-> n, new |-> new, limit |-> limit, email |-> email]
  <2>1. w \in Want /\ w.name = n
    BY DEF Want
  <2>2. /\ pc[p] = "idle" /\ Goto(p, "details") /\ want' = [want EXCEPT ![p] = w]
        /\ started' \in 0..MaxCommands
        /\ UNCHANGED <<budget, cache, read, next, list, touched, fate, crossed, fails, kills>>
    BY <1>4, ConstantsAssumption DEF UpdateBegin, Begin, At, IInv, TypeOK
  <2> HIDE DEF w
  <2> QED
    BY <2>1, <2>2, Begun
<1> QED
  BY <1>1, <1>2, <1>3, <1>4 DEF Start

\* ls holds the list as it is when AWS answers.
LEMMA DescribeInv == ASSUME IInv, NEW p \in Procs, DescribeBudgets(p) PROVE IInv'
<1>1. /\ pc[p] = "list" /\ Goto(p, "writeCache") /\ list' = [list EXCEPT ![p] = Listing]
      /\ UNCHANGED <<budget, cache, crossed, started, fails, kills, want, read, next, touched, fate>>
  BY DEF DescribeBudgets, At, Quiet, counts
<1>2. Moves(p) /\ pc'[p] = "writeCache"
  BY <1>1, ListingType DEF IInv, TypeOK, Moves, Goto, Steps
<1>3. Shape(p)' /\ Untouched(p)' /\ Renamed(p)' /\ ~Owes(p)
  BY <1>1, <1>2 DEF IInv, Shaped, Shape, AllUntouched, Untouched, Renamed, Known, Owes
<1>4. touched' \subseteq Busy'
  BY <1>1, <1>2 DEF IInv, TypeOK, Busy, At, Moves
<1> QED
  BY <1>1, <1>2, <1>3, <1>4, QuietStep DEF IInv, TypeOK

\* ls writes a list that is current, or that another command has overtaken.
LEMMA WriteCacheInv == ASSUME IInv, NEW p \in Procs, WriteCache(p) PROVE IInv'
<1>1. /\ pc[p] = "writeCache" /\ cache' = list[p] /\ Exit(p)
      /\ crossed' = (crossed \/ list[p] # Listing)
      /\ UNCHANGED <<budget, started, fails, kills>>
  BY DEF WriteCache, At, counts
<1>2. Listing' = Listing /\ list[p] \in List
  BY <1>1 DEF Listing, Exists, IInv, TypeOK
<1>3. CacheOwed'
  BY <1>1, <1>2 DEF CacheOwed
<1> QED
  BY <1>1, <1>2, <1>3, ExitMoves, StepInv DEF IInv, TypeOK, Spares

\* A command that has changed the list removes the cache.
LEMMA ClearCacheInv == ASSUME IInv, NEW p \in Procs, ClearCache(p) PROVE IInv'
<1>1. cache' = NoCache /\ UNCHANGED <<budget, crossed, started, fails, kills>>
  BY DEF ClearCache, counts
<1>2. CacheOwed'
  BY <1>1 DEF CacheOwed
<1>3. CASE Exit(p)
  <2>1. Moves(p) /\ Spares(p)
    BY <1>1, <1>3, ExitMoves DEF IInv, Spares
  <2> QED
    BY <1>1, <1>2, <1>3, <2>1, ExitMoves, StepInv DEF IInv, TypeOK
<1>4. CASE pc[p] = "clearThenList" /\ Goto(p, "list") /\ UNCHANGED <<locals, touched, fate>>
  <2>1. Moves(p) /\ pc'[p] = "list" /\ touched' \subseteq Busy' /\ touched \subseteq touched'
    BY <1>4, GoesOn DEF IInv, locals, Steps
  <2>2. Shape(p)' /\ Untouched(p)' /\ Renamed(p)'
    BY <1>4, <2>1 DEF IInv, Shaped, Shape, AllUntouched, Untouched, Renamed, Known, locals
  <2>3. Spares(p)
    BY <1>1, <1>4 DEF Spares
  <2> QED
    BY <1>1, <1>2, <2>1, <2>2, <2>3, StepInv DEF IInv, TypeOK
<1> QED
  BY <1>3, <1>4 DEF ClearCache, At

\* A step that changes one budget, and with it perhaps the list, which it then owes.
LEMMA ChangeInv ==
  ASSUME IInv, NEW p \in Procs, NEW n \in Names, NEW b \in Budget \cup {NoBudget},
         NEW step \in Steps \ {"idle"}, NEW what \in {"changed", "gone"},
         pc[p] # "idle", budget' = [budget EXCEPT ![n] = b], b = NoBudget => what = "gone",
         Goto(p, step), Overlap(p, n, what), UNCHANGED <<want, read, list>>,
         next' = next \/ \E a \in Alerts : next' = [next EXCEPT ![p] = a],
         UNCHANGED <<cache, crossed, started, fails, kills>>,
         Shape(p)', Untouched(p)',
         step \in {"details", "createNew", "deleteOld"} => Renamed(p)',
         Owes(p)' \/ (~Owes(p) /\ Listing' = Listing)
  PROVE  IInv'
<1>a. fate' \in [Procs -> Fates]
  BY FateType DEF IInv, Fates
<1>b. touched' = touched \/ touched' = touched \cup Busy
  BY DEF Overlap
<1>1. Moves(p) /\ touched' \subseteq Busy' /\ pc'[p] = step
  BY <1>a, <1>b, GoesOn DEF IInv
<1>2. Spares(p)
  BY DEF Spares
<1>4. Renamed(p)'
  BY <1>1 DEF Renamed
<1>3. CacheOwed'
  <2>1. CASE Owes(p)'
    BY <2>1 DEF CacheOwed
  <2>2. CASE ~Owes(p) /\ Listing' = Listing
    BY <1>1, <2>2, OwedKept DEF IInv
  <2> QED
    BY <2>1, <2>2
<1> QED
  BY <1>1, <1>2, <1>3, <1>4, StepInv DEF IInv, TypeOK

\* CreateBudget owes the cache its removal.
LEMMA CreateBudgetInv == ASSUME IInv, NEW p \in Procs, CreateBudget(p) PROVE IInv'
<1> DEFINE w == want[p]
           b == NewBudget(w.limit, w.email)
<1>1. /\ pc[p] = "create" /\ UNCHANGED <<cache, crossed, started, fails, kills>>
      /\ w.name \in Names /\ w.new = w.name /\ w.limit \in Limits /\ w.email \in Emails
      /\ read[p] = Unread /\ next[p] = 1 /\ ~Owes(p)
  BY DEF CreateBudget, At, counts, IInv, Shaped, Shape, Known, Owes
<1>2. CASE Exit(p) /\ budget' = budget
  BY <1>1, <1>2, ExitInv DEF IInv, TypeOK
<1>3. CASE /\ budget' = [budget EXCEPT ![w.name] = b] /\ Goto(p, "clearThenList")
           /\ Overlap(p, w.name, "changed") /\ UNCHANGED locals
  <2>1. /\ b \in Budget /\ b # NoBudget /\ b.limit = w.limit
        /\ \A a \in Alerts : b.alert[a] = w.email
    BY <1>1, NewBudgetType
  <2> HIDE DEF b
  <2>2. pc'[p] = "clearThenList" /\ budget'[w.name] = b
    BY <1>1, <1>3 DEF Goto, IInv, TypeOK
  <2>3. Shape(p)' /\ Owes(p)'
    BY <1>1, <1>3, <2>2 DEF Shape, Owes, Known, locals
  <2>4. Untouched(p)'
    BY <1>1, <1>3, <2>1, <2>2, Values
    DEF Untouched, Delivered, Exists, DetailsOf, EmailChanged, Unread, locals
  <2> QED
    BY <1>1, <1>3, <2>1, <2>3, <2>4, ChangeInv DEF locals, Steps
<1> QED
  BY <1>2, <1>3 DEF CreateBudget

\* So does DeleteBudget.
LEMMA DeleteBudgetInv == ASSUME IInv, NEW p \in Procs, DeleteBudget(p) PROVE IInv'
<1> DEFINE n == want[p].name
<1>1. /\ pc[p] = "delete" /\ UNCHANGED <<cache, crossed, started, fails, kills>>
      /\ n \in Names /\ next[p] = 1 /\ ~Owes(p)
  BY DEF DeleteBudget, At, counts, IInv, Shaped, Shape, Owes
<1>2. CASE Exit(p) /\ budget' = budget
  BY <1>1, <1>2, ExitInv DEF IInv, TypeOK
<1>3. CASE /\ budget' = [budget EXCEPT ![n] = NoBudget] /\ Goto(p, "clearThenExit")
           /\ Overlap(p, n, "gone") /\ UNCHANGED locals
  <2>1. pc'[p] = "clearThenExit"
    BY <1>3 DEF Goto, IInv, TypeOK
  <2>2. Shape(p)' /\ Owes(p)' /\ Untouched(p)' /\ Renamed(p)'
    BY <2>1 DEF Shape, Owes, Known, Untouched, Renamed
  <2> QED
    BY <1>1, <1>3, <2>2, ChangeInv DEF locals, Steps
<1> QED
  BY <1>2, <1>3 DEF DeleteBudget

-----------------------------------------------------------------------------
(* update *)

\* What is left unanswered is taken from what was read, and the step to go on with
\* follows from what then differs.
LEMMA ResolvedShape ==
  ASSUME NEW w \in Want, w.name \in Names, NEW d \in Details,
         d.limit \in Limits, d.email \in Emails
  PROVE  LET r == Resolved(w, d) IN
         /\ r \in Want /\ r.name = w.name /\ r.new \in Names
         /\ r.limit \in Limits /\ r.email \in Emails
         /\ Route(w, d) \in {"list", "createNew", "setLimit", "setEmail"}
         /\ Route(w, d) = "createNew" => r.new # r.name
         /\ Route(w, d) = "setLimit" => r.new = r.name /\ r.limit # d.limit
         /\ Route(w, d) = "setEmail" => r.new = r.name /\ r.limit = d.limit /\ r.email # d.email
<1> DEFINE r == Resolved(w, d)
<1>1. /\ r \in Want /\ r.name = w.name /\ r.new \in Names
      /\ r.limit \in Limits /\ r.email \in Emails
  BY Values DEF Resolved, Or, Want
<1>2. CASE ~Changed(w, d)
  <2>1. Route(w, d) = "list"
    BY <1>2 DEF Route
  <2> QED
    BY <1>1, <2>1
<1>3. CASE Changed(w, d) /\ r.new # w.name
  <2>1. Route(w, d) = "createNew"
    BY <1>3 DEF Route
  <2> QED
    BY <1>1, <1>3, <2>1
<1>4. CASE Changed(w, d) /\ r.new = w.name /\ r.limit # d.limit
  <2>1. Route(w, d) = "setLimit"
    BY <1>4 DEF Route
  <2> QED
    BY <1>1, <1>4, <2>1
<1>5. CASE Changed(w, d) /\ r.new = w.name /\ r.limit = d.limit
  <2>1. Route(w, d) = "setEmail"
    BY <1>5 DEF Route
  <2>2. r.email # d.email
    BY <1>5 DEF Changed, Resolved
  <2> QED
    BY <1>1, <1>5, <2>1, <2>2
<1> QED
  BY <1>2, <1>3, <1>4, <1>5

\* Update reads the first alert's address, and knows it until that alert's turn.
LEMMA ReadDetailsInv == ASSUME IInv, NEW p \in Procs, ReadDetails(p) PROVE IInv'
<1> DEFINE n == want[p].name
           d == DetailsOf(n)
           r == Resolved(want[p], d)
           step == Route(want[p], d)
<1>1. /\ pc[p] = "details" /\ UNCHANGED <<budget, cache, crossed, started, fails, kills>>
      /\ n \in Names /\ next[p] = 1 /\ ~Owes(p) /\ want[p] \in Want
  BY DEF ReadDetails, At, Quiet, counts, IInv, TypeOK, Shaped, Shape, Owes
<1>2. CASE Exit(p)
  BY <1>1, <1>2, ExitInv DEF IInv, TypeOK
<1>3. CASE /\ Exists(n) /\ read' = [read EXCEPT ![p] = d] /\ want' = [want EXCEPT ![p] = r]
           /\ Goto(p, step) /\ UNCHANGED <<next, list, touched, fate>>
  <2>1. /\ d \in Details /\ d.limit \in Limits /\ d.email \in Emails
        /\ d.limit = budget[n].limit /\ d.email = budget[n].alert[1]
    BY <1>1, <1>3, Values DEF Exists, DetailsOf, Details, Budget, IInv, TypeOK
  <2>2. /\ r \in Want /\ r.name = n /\ r.new \in Names
        /\ r.limit \in Limits /\ r.email \in Emails
        /\ step \in {"list", "createNew", "setLimit", "setEmail"}
        /\ step = "createNew" => r.new # r.name
        /\ step = "setLimit" => r.new = r.name /\ r.limit # d.limit
        /\ step = "setEmail" => r.new = r.name /\ r.limit = d.limit /\ r.email # d.email
    BY <1>1, <2>1, ResolvedShape
  <2> HIDE DEF r, step
  <2>3. /\ Moves(p) /\ pc'[p] = step /\ want'[p] = r /\ read'[p] = d /\ next'[p] = 1
    BY <1>1, <1>3, <2>1, <2>2 DEF IInv, TypeOK, Moves, Goto, Steps
  <2>4. touched' \subseteq Busy'
    BY <1>1, <1>3, <2>2, <2>3 DEF IInv, TypeOK, Busy, At, Moves
  <2>5. Shape(p)'
    BY <1>1, <2>2, <2>3 DEF Shape, Known, LimitChanged, EmailChanged
  <2>6. Untouched(p)'
    BY <1>1, <1>3, <2>1, <2>2, <2>3 DEF Untouched, Exists, DetailsOf, Alerts
  <2>7. Renamed(p)'
    BY <1>1, <1>3, <2>2, <2>3 DEF IInv, AllUntouched, Renamed
  <2> QED
    BY <1>1, <1>3, <2>3, <2>4, <2>5, <2>6, <2>7, QuietStep DEF IInv, TypeOK
<1> QED
  BY <1>2, <1>3 DEF ReadDetails

\* An update to a new name makes the new budget first.
LEMMA CreateNewInv == ASSUME IInv, NEW p \in Procs, CreateNew(p) PROVE IInv'
<1> DEFINE w == want[p]
           b == NewBudget(w.limit, w.email)
<1>1. /\ pc[p] = "createNew" /\ UNCHANGED <<cache, crossed, started, fails, kills>>
      /\ w.name \in Names /\ w.new \in Names /\ w.limit \in Limits /\ w.email \in Emails
      /\ w.new # w.name /\ next[p] = 1 /\ ~Owes(p)
  BY DEF CreateNew, At, counts, IInv, Shaped, Shape, Known, Owes
<1>2. CASE Exit(p) /\ budget' = budget
  BY <1>1, <1>2, ExitInv DEF IInv, TypeOK
<1>3. CASE /\ budget' = [budget EXCEPT ![w.new] = b] /\ Goto(p, "deleteOld")
           /\ Overlap(p, w.new, "changed") /\ UNCHANGED locals
  <2>1. b \in Budget
    BY <1>1, NewBudgetType
  <2>2. pc'[p] = "deleteOld" /\ budget'[w.new] = b
    BY <1>1, <1>3 DEF Goto, IInv, TypeOK
  <2>3. Shape(p)' /\ Owes(p)'
    BY <1>1, <1>3, <2>2 DEF Shape, Owes, Known, locals
  <2>4. Untouched(p)'
    BY <1>1, <1>3, <2>2 DEF Untouched, locals
  <2>5. fate'[p] = "kept"
    BY <1>1, <1>3, FateType DEF IInv, AllUntouched, Renamed, Fates
  <2>6. Renamed(p)' /\ b # NoBudget
    BY <1>1, <1>3, <2>2, <2>5, NewBudgetType DEF Renamed, locals
  <2> HIDE DEF b
  <2> QED
    BY <1>1, <1>3, <2>1, <2>3, <2>4, <2>6, ChangeInv DEF locals, Steps
<1> QED
  BY <1>2, <1>3 DEF CreateNew

\* It removes the old one when the new one is there.
LEMMA DeleteOldInv == ASSUME IInv, NEW p \in Procs, DeleteOld(p) PROVE IInv'
<1> DEFINE w == want[p]
<1>1. /\ pc[p] = "deleteOld" /\ UNCHANGED <<cache, crossed, started, fails, kills>>
      /\ UNCHANGED locals
      /\ w.name \in Names /\ w.new \in Names /\ w.limit \in Limits /\ w.email \in Emails
      /\ w.new # w.name /\ next[p] = 1
  BY DEF DeleteOld, At, counts, IInv, Shaped, Shape, Known
<1>2. CASE Goto(p, "clearThenExit") /\ UNCHANGED <<budget, touched, fate>>
  <2>1. Moves(p) /\ pc'[p] = "clearThenExit" /\ touched' \subseteq Busy'
    BY <1>1, <1>2, GoesOn DEF IInv, locals, Steps
  <2>2. Shape(p)' /\ Untouched(p)' /\ Renamed(p)' /\ Owes(p)'
    BY <2>1 DEF Shape, Untouched, Renamed, Known, Owes
  <2> QED
    BY <1>1, <1>2, <2>1, <2>2, QuietStep DEF IInv, TypeOK
<1>3. CASE /\ budget' = [budget EXCEPT ![w.name] = NoBudget] /\ Goto(p, "clearThenList")
           /\ Overlap(p, w.name, "gone")
  <2>1. pc'[p] = "clearThenList" /\ budget'[w.name] = NoBudget /\ budget'[w.new] = budget[w.new]
    BY <1>1, <1>3 DEF Goto, IInv, TypeOK
  <2>2. Shape(p)' /\ Owes(p)'
    BY <1>1, <2>1 DEF Shape, Owes, Known, locals
  <2>3. p \notin touched' => budget[w.new] = NewBudget(w.limit, w.email)
    BY <1>1, <1>3 DEF IInv, AllUntouched, Untouched, Overlap
  <2>4. Untouched(p)'
    <3> SUFFICES ASSUME p \notin touched' PROVE Delivered(p)'
      BY <2>1 DEF Untouched
    <3>1. /\ budget'[w.new] # NoBudget /\ budget'[w.new].limit = w.limit
          /\ \A a \in Alerts : budget'[w.new].alert[a] = w.email
      BY <1>1, <2>1, <2>3, NewBudgetType
    <3> QED
      BY <1>1, <2>1, <3>1, Values DEF Delivered, Exists, DetailsOf, EmailChanged, locals
  <2> QED
    BY <1>1, <1>3, <2>2, <2>4, ChangeInv DEF locals, Steps
<1> QED
  BY <1>2, <1>3 DEF DeleteOld

\* The limit changes before the alerts.
LEMMA SetLimitInv == ASSUME IInv, NEW p \in Procs, SetLimit(p) PROVE IInv'
<1> DEFINE w == want[p]
           n == w.name
           b == [budget[n] EXCEPT !.limit = w.limit]
           step == IF EmailChanged(p) THEN "setEmail" ELSE "clearThenList"
<1>1. /\ pc[p] = "setLimit" /\ UNCHANGED <<cache, crossed, started, fails, kills>>
      /\ n \in Names /\ w.new = n /\ w.limit \in Limits /\ w.email \in Emails
      /\ LimitChanged(p) /\ next[p] = 1 /\ ~Owes(p)
  BY DEF SetLimit, At, counts, IInv, Shaped, Shape, Known, Owes
<1>2. CASE Exit(p) /\ budget' = budget
  BY <1>1, <1>2, ExitInv DEF IInv, TypeOK
<1>3. CASE /\ Exists(n) /\ budget' = [budget EXCEPT ![n] = b] /\ Goto(p, step)
           /\ Overlap(p, n, "changed") /\ UNCHANGED locals
  <2>1. b \in Budget /\ b # NoBudget /\ b.limit = w.limit /\ b.alert = budget[n].alert
    <3>1. budget[n] \in Budget
      BY <1>1, <1>3 DEF Exists, IInv, TypeOK
    <3>2. b \in Budget /\ b.limit = w.limit /\ b.alert = budget[n].alert
      BY <1>1, <3>1 DEF Budget
    <3> QED
      BY <3>2, Values
  <2>2. /\ step \in {"setEmail", "clearThenList"} /\ (step = "setEmail" <=> EmailChanged(p))
    OBVIOUS
  <2> HIDE DEF b, step
  <2>3. pc'[p] = step /\ budget'[n] = b
    BY <1>1, <1>3 DEF Goto, IInv, TypeOK
  <2>4. Shape(p)' /\ Owes(p)'
    BY <1>1, <1>3, <2>2, <2>3 DEF Shape, Owes, Known, locals, EmailChanged, LimitChanged
  <2>5. p \notin touched' => DetailsOf(n) = read[p]
    BY <1>1, <1>3 DEF IInv, AllUntouched, Untouched, Overlap
  <2>6. Untouched(p)'
    <3> SUFFICES ASSUME p \notin touched' PROVE Untouched(p)'
      BY DEF Untouched
    <3>1. b.alert[1] = read[p].email
      BY <2>1, <2>5 DEF DetailsOf
    <3>2. CASE step = "setEmail"
      BY <1>1, <1>3, <2>1, <2>3, <3>1, <3>2, Values
      DEF Untouched, Exists, locals, Alerts
    <3>3. CASE step = "clearThenList"
      BY <1>1, <1>3, <2>1, <2>2, <2>3, <3>1, <3>3
      DEF Untouched, Delivered, Exists, DetailsOf, EmailChanged, locals
    <3> QED
      BY <2>2, <3>2, <3>3
  <2> QED
    BY <1>1, <1>3, <2>1, <2>2, <2>4, <2>6, ChangeInv DEF locals, Steps
<1> QED
  BY <1>2, <1>3 DEF SetLimit

\* A failure to change the alerts leaves the removal of the cached list owed if the limit
\* was changed.
LEMMA EmailFailsInv ==
  ASSUME IInv, NEW p \in Procs, pc[p] = "setEmail", EmailFails(p),
         UNCHANGED <<budget, cache, crossed, started, kills>>, fails' \in 0..MaxFails
  PROVE  IInv'
<1>1. CASE LimitChanged(p)
  <2>1. Goto(p, "clearThenExit") /\ UNCHANGED <<want, read, next, list, touched, fate>>
    BY <1>1 DEF EmailFails, locals
  <2>2. Moves(p) /\ pc'[p] = "clearThenExit" /\ touched' \subseteq Busy'
    BY <2>1, GoesOn DEF IInv, Steps
  <2>3. Shape(p)' /\ Untouched(p)' /\ Renamed(p)' /\ Owes(p)'
    BY <2>2 DEF Shape, Untouched, Renamed, Known, Owes
  <2> QED
    BY <2>1, <2>2, <2>3, QuietStep DEF IInv, TypeOK
<1>2. CASE ~LimitChanged(p)
  BY <1>2, ExitInv DEF EmailFails, Owes, IInv, TypeOK
<1> QED
  BY <1>1, <1>2

\* The alerts before the one it is at no longer mail the old address.
LEMMA SetAlertInv == ASSUME IInv, NEW p \in Procs, SetAlert(p) PROVE IInv'
<1> DEFINE w == want[p]
           n == w.name
           b == Replace(p, budget[n])
           k == next[p]
<1>1. /\ pc[p] = "setEmail" /\ UNCHANGED <<cache, crossed, started, fails, kills>>
      /\ n \in Names /\ w.new = n /\ w.limit \in Limits /\ w.email \in Emails
      /\ w.email # read[p].email /\ k \in Alerts
  BY DEF SetAlert, At, counts, IInv, TypeOK, Shaped, Shape, Known, EmailChanged
<1>2. CASE EmailFails(p) /\ budget' = budget
  BY <1>1, <1>2, EmailFailsInv DEF IInv, TypeOK
<1>3. CASE /\ Exists(n) /\ budget' = [budget EXCEPT ![n] = b] /\ Overlap(p, n, "changed")
           /\ next' = [next EXCEPT ![p] = IF @ = AlertCount THEN 1 ELSE @ + 1]
           /\ IF k = AlertCount THEN Goto(p, "clearThenList") ELSE UNCHANGED pc
           /\ UNCHANGED <<want, read, list>>
  <2>1. /\ budget[n] \in Budget /\ b \in Budget /\ b # NoBudget /\ b.limit = budget[n].limit
        /\ \A a \in Alerts :
             b.alert[a] = IF a = k /\ budget[n].alert[a] = read[p].email THEN w.email
                          ELSE budget[n].alert[a]
    <3>1. budget[n] \in Budget
      BY <1>1, <1>3 DEF Exists, IInv, TypeOK
    <3>2. b \in Budget /\ b.limit = budget[n].limit
      BY <1>1, <3>1 DEF Budget, Replace
    <3>3. \A a \in Alerts :
             b.alert[a] = IF a = k /\ budget[n].alert[a] = read[p].email THEN w.email
                          ELSE budget[n].alert[a]
      BY <1>1, <3>1 DEF Budget, Replace
    <3> QED
      BY <3>1, <3>2, <3>3, Values
  <2> HIDE DEF b
  <2>2. budget'[n] = b /\ \A m \in Names \ {n} : budget'[m] = budget[m]
    BY <1>1, <1>3 DEF IInv, TypeOK
  <2>3. Listing' = Listing
    BY <1>3, <2>1, <2>2 DEF Listing, Exists
  <2>4. p \notin touched' =>
          /\ budget[n].limit = w.limit
          /\ budget[n].alert[1] = IF k = 1 THEN read[p].email ELSE w.email
          /\ \A a \in Alerts : a < k => budget[n].alert[a] # read[p].email
    BY <1>1, <1>3 DEF IInv, AllUntouched, Untouched, Overlap
  <2>5. p \notin touched' =>
          /\ b.limit = w.limit /\ b.alert[1] = w.email
          /\ \A a \in Alerts : a <= k => b.alert[a] # read[p].email
    BY <1>1, <2>1, <2>4, Values DEF Alerts
  <2>6. CASE k = AlertCount
    <3>1. pc'[p] = "clearThenList" /\ next'[p] = 1 /\ Goto(p, "clearThenList")
      BY <1>3, <2>6 DEF Goto, IInv, TypeOK
    <3>2. Shape(p)' /\ Owes(p)'
      BY <1>1, <1>3, <3>1 DEF Shape, Owes, Known
    <3>3. Untouched(p)'
      BY <1>1, <1>3, <2>1, <2>2, <2>5, <2>6, <3>1, Values
      DEF Untouched, Delivered, Exists, DetailsOf, Alerts
    <3>4. \E a \in Alerts : next' = [next EXCEPT ![p] = a]
      BY <1>3, <2>6, Values
    <3> QED
      BY <1>1, <1>3, <2>1, <3>1, <3>2, <3>3, <3>4, ChangeInv DEF Steps
  <2>7. CASE k # AlertCount
    <3>1. pc' = pc /\ Goto(p, "setEmail") /\ next'[p] = k + 1 /\ k + 1 \in Alerts
      BY <1>1, <1>3, <2>7, Values DEF Goto, IInv, TypeOK, Alerts
    <3>2. Shape(p)' /\ (Owes(p)' <=> Owes(p))
      BY <1>1, <1>3, <3>1 DEF IInv, Shaped, Shape, Owes, Known, LimitChanged, EmailChanged
    <3>3. Untouched(p)'
      BY <1>1, <1>3, <2>1, <2>2, <2>5, <2>7, <3>1, Values DEF Untouched, Exists, Alerts
    <3>4. \E a \in Alerts : next' = [next EXCEPT ![p] = a]
      BY <1>3, <2>7, <3>1
    <3> QED
      BY <1>1, <1>3, <2>1, <2>3, <3>1, <3>2, <3>3, <3>4, ChangeInv DEF Steps
  <2> QED
    BY <2>6, <2>7
<1> QED
  BY <1>2, <1>3 DEF SetAlert

-----------------------------------------------------------------------------
(* Faults, and every step. *)

\* A call that AWS refuses changes nothing, and what was changed before is still owed.
LEMMA CallFailsInv == ASSUME IInv, NEW p \in Procs, CallFails(p) PROVE IInv'
<1>1. UNCHANGED <<budget, cache, crossed, started, kills>> /\ fails' \in 0..MaxFails
  BY ConstantsAssumption DEF CallFails, IInv, TypeOK
<1>2. CASE /\ pc[p] \in {"list", "create", "delete", "details", "createNew", "setLimit"}
           /\ Exit(p)
  BY <1>1, <1>2, ExitInv DEF Owes, IInv, TypeOK
<1>3. CASE pc[p] = "deleteOld" /\ Goto(p, "clearThenExit") /\ UNCHANGED <<locals, touched, fate>>
  <2>1. Moves(p) /\ pc'[p] = "clearThenExit" /\ touched' \subseteq Busy'
    BY <1>3, GoesOn DEF IInv, locals, Steps
  <2>2. Shape(p)' /\ Untouched(p)' /\ Renamed(p)' /\ Owes(p)'
    BY <2>1 DEF Shape, Untouched, Renamed, Known, Owes
  <2> QED
    BY <1>1, <1>3, <2>1, <2>2, QuietStep DEF IInv, TypeOK
<1>4. CASE pc[p] = "setEmail" /\ EmailFails(p)
  BY <1>1, <1>4, EmailFailsInv
<1> QED
  BY <1>2, <1>3, <1>4 DEF CallFails, At

\* A command that is killed takes with it what it knew.
LEMMA KillInv == ASSUME IInv, NEW p \in Procs, Kill(p) PROVE IInv'
<1>1. /\ UNCHANGED <<budget, cache, crossed, started, fails>> /\ Exit(p)
      /\ kills' \in 0..MaxKills /\ kills' # 0
  BY ConstantsAssumption DEF Kill, IInv, TypeOK
<1> QED
  BY <1>1, ExitInv DEF IInv, TypeOK

\* Every step keeps the invariant.
LEMMA NextInv == IInv /\ [Next]_vars => IInv'
<1> SUFFICES ASSUME IInv, [Next]_vars PROVE IInv'
  OBVIOUS
<1>1. CASE Expire
  <2>1. /\ cache' = NoCache
        /\ UNCHANGED <<budget, pc, want, read, next, list, touched, fate, crossed>>
        /\ UNCHANGED <<started, fails, kills>>
    BY <1>1 DEF Expire, locals, counts
  <2>2. TypeOK' /\ Shaped'
    BY <2>1 DEF IInv, TypeOK, Busy, At, Shaped, Shape, LimitChanged, EmailChanged
  <2>3. AllUntouched'
    BY <2>1 DEF IInv, AllUntouched, Untouched, Renamed, Delivered, Exists, DetailsOf, EmailChanged
  <2>4. CacheOwed'
    BY <2>1 DEF CacheOwed
  <2> QED
    BY <2>2, <2>3, <2>4 DEF IInv
<1>2. ASSUME NEW p \in Procs, Start(p) \/ CallFails(p) \/ Kill(p) PROVE IInv'
  BY <1>2, StartInv, CallFailsInv, KillInv
<1>3. ASSUME NEW p \in Procs, Step(p) PROVE IInv'
  BY <1>3, DescribeInv, WriteCacheInv, ClearCacheInv, CreateBudgetInv, DeleteBudgetInv,
    ReadDetailsInv, CreateNewInv, DeleteOldInv, SetLimitInv, SetAlertInv
  DEF Step
<1>4. CASE UNCHANGED vars
  <2>1. /\ UNCHANGED <<budget, cache, pc, want, read, next, list, touched, fate, crossed>>
        /\ UNCHANGED <<started, fails, kills>>
    BY <1>4 DEF vars
  <2>2. TypeOK' /\ Shaped'
    BY <2>1 DEF IInv, TypeOK, Busy, At, Shaped, Shape, LimitChanged, EmailChanged
  <2>3. AllUntouched'
    BY <2>1 DEF IInv, AllUntouched, Untouched, Renamed, Delivered, Exists, DetailsOf, EmailChanged
  <2>4. CacheOwed'
    BY <2>1 DEF IInv, CacheOwed, Listing, Exists, Owes, LimitChanged
  <2> QED
    BY <2>2, <2>3, <2>4 DEF IInv
<1> QED
  BY <1>1, <1>2, <1>3, <1>4 DEF Next

-----------------------------------------------------------------------------
(* The theorems. *)

\* The invariant behind the others: every change of the list is owed to the cache, and
\* a command no other has overlapped knows how far it has got.
THEOREM Inductive == Spec => []IInv
BY InitIInv, NextInv, PTL DEF Spec

\* Every budget, the cached list and what a command carries keep their type.
THEOREM TypeCorrect == Spec => []TypeOK
BY Inductive, PTL DEF IInv

\* Between commands the cached list is the list of AWS, whatever calls have failed; only
\* a kill between a change and the removal of the file, or a listing that another
\* command's change overtook, can make it false.
THEOREM TrueCache == Spec => []CacheTrue
<1>1. IInv => CacheTrue
  BY DEF IInv, CacheOwed, CacheTrue, Owes, Busy, At
<1> QED
  BY <1>1, Inductive, PTL

\* A create or update that gets to its last listing, with no other change meanwhile, has
\* done all it was asked, for any number of alerts.
THEOREM Delivery == Spec => []ChangeDelivered
<1>1. IInv => ChangeDelivered
  BY DEF IInv, AllUntouched, Untouched, Delivered, ChangeDelivered, At
<1> QED
  BY <1>1, Inductive, PTL

\* A budget that ceases to exist was deleted, or renamed by a command that had put the
\* new one in its place.
LEMMA Vanishing ==
  ASSUME IInv, [Next]_vars, NEW n \in Names, Exists(n), budget'[n] = NoBudget
  PROVE  \E p \in Procs : want[p].name = n /\
           \/ At(p, "delete")
           \/ /\ At(p, "deleteOld")
              /\ fate[p] = "kept" =>
                   budget[want[p].new] = NewBudget(want[p].limit, want[p].email)
              /\ fate[p] = "changed" => Exists(want[p].new)
<1>1. budget' # budget
  BY DEF Exists
<1>2. PICK p \in Procs : Start(p) \/ Step(p) \/ CallFails(p) \/ Kill(p)
  BY <1>1 DEF Next, vars, Expire
<1>3. ~Start(p) /\ ~CallFails(p) /\ ~Kill(p)
  BY <1>1 DEF Start, LsBegin, CreateBegin, DeleteBegin, UpdateBegin, Begin, Quiet, CallFails, Kill
<1>4. ~DescribeBudgets(p) /\ ~WriteCache(p) /\ ~ClearCache(p) /\ ~ReadDetails(p)
  BY <1>1 DEF DescribeBudgets, WriteCache, ClearCache, ReadDetails, Quiet
<1>5. Shape(p)
  BY DEF IInv, Shaped
<1>6. ~CreateBudget(p) /\ ~CreateNew(p)
  <2>1. ASSUME NEW m \in Names, NEW b \in Budget, budget' = [budget EXCEPT ![m] = b] PROVE FALSE
    BY <2>1, Values DEF Exists, IInv, TypeOK
  <2> QED
    BY <1>1, <1>5, <2>1, NewBudgetType DEF CreateBudget, CreateNew, At, Shape, Known
<1>7. ~SetLimit(p) /\ ~SetAlert(p)
  <2>1. ASSUME NEW m \in Names, NEW b \in Budget, budget' = [budget EXCEPT ![m] = b] PROVE FALSE
    BY <2>1, Values DEF Exists, IInv, TypeOK
  <2>2. CASE SetLimit(p)
    <3>1. want[p].name \in Names /\ budget[want[p].name] \in Budget /\ want[p].limit \in Limits
      BY <1>1, <1>5, <2>2 DEF SetLimit, At, Shape, Known, Exists, IInv, TypeOK
    <3>2. [budget[want[p].name] EXCEPT !.limit = want[p].limit] \in Budget
      BY <3>1 DEF Budget
    <3> QED
      BY <1>1, <2>1, <2>2, <3>1, <3>2 DEF SetLimit
  <2>3. CASE SetAlert(p)
    <3>1. want[p].name \in Names /\ budget[want[p].name] \in Budget /\ want[p].email \in Emails
      BY <1>1, <1>5, <2>3 DEF SetAlert, At, Shape, Known, Exists, IInv, TypeOK
    <3>2. Replace(p, budget[want[p].name]) \in Budget
      BY <3>1 DEF Budget, Replace, IInv, TypeOK
    <3> QED
      BY <1>1, <2>1, <2>3, <3>1, <3>2 DEF SetAlert
  <2> QED
    BY <2>2, <2>3
<1>8. CASE DeleteBudget(p)
  BY <1>1, <1>8 DEF DeleteBudget, Exists, IInv, TypeOK
<1>9. CASE DeleteOld(p)
  <2>1. At(p, "deleteOld") /\ want[p].name = n
    BY <1>1, <1>9 DEF DeleteOld, Exists, IInv, TypeOK
  <2> QED
    BY <2>1 DEF IInv, AllUntouched, Renamed, At
<1> QED
  BY <1>2, <1>3, <1>4, <1>6, <1>7, <1>8, <1>9 DEF Step

\* A rename parts with the old budget only where the new one it has made is there, with the
\* limit and the address that were wanted or what others have changed in it since; or where
\* another command has removed the new one.
THEOREM RenameSafe == Spec => RenameKeepsBudget
<1>1. IInv /\ [Next]_vars =>
        [\A n \in Names : Exists(n) /\ budget'[n] = NoBudget =>
           \E p \in Procs : want[p].name = n /\
             \/ At(p, "delete")
             \/ /\ At(p, "deleteOld")
                /\ fate[p] = "kept" =>
                     budget[want[p].new] = NewBudget(want[p].limit, want[p].email)
                /\ fate[p] = "changed" => Exists(want[p].new)]_vars
  BY Vanishing
<1> QED
  BY <1>1, Inductive, PTL DEF Spec, RenameKeepsBudget

=============================================================================
