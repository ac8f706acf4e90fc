----------------------------- MODULE BoxLedger -----------------------------
(***************************************************************************)
(* What the box commands promise about the user's bill: an instance that   *)
(* still runs is on the local books, or a create that is under way answers *)
(* for it, or it is a stray (someone else launched it, or the create that  *)
(* launched it was cut short).  A row leaves the books only when its       *)
(* instance is dead.  Names, addresses, states and processes are absent.   *)
(***************************************************************************)
CONSTANT Ids

VARIABLES
  stage,    \* id -> "unborn", "live" or "dead"
  tracked,  \* ids with a row in the local database
  held,     \* ids launched by a create that has neither recorded nor killed them
  stray     \* ids the CLI does not answer for

ledger == <<stage, tracked, held, stray>>

Init ==
  /\ stage = [i \in Ids |-> "unborn"]
  /\ tracked = {} /\ held = {} /\ stray = {}

Launch(i) ==
  /\ stage[i] = "unborn"
  /\ stage' = [stage EXCEPT ![i] = "live"]
  /\ held' = held \cup {i}
  /\ UNCHANGED <<tracked, stray>>

Appear(i) ==
  /\ stage[i] = "unborn"
  /\ stage' = [stage EXCEPT ![i] = "live"]
  /\ stray' = stray \cup {i}
  /\ UNCHANGED <<tracked, held>>

\* The launching create records its own instance, or import records any other.
Track(i) ==
  /\ stage[i] # "unborn"
  /\ tracked' = tracked \cup {i}
  /\ held' \in {held, held \ {i}}
  /\ UNCHANGED <<stage, stray>>

Die(i) ==
  /\ stage[i] = "live"
  /\ stage' = [stage EXCEPT ![i] = "dead"]
  /\ UNCHANGED <<tracked, held, stray>>

Drop(i) ==
  /\ stage[i] = "dead"
  /\ tracked' = tracked \ {i}
  /\ UNCHANGED <<stage, held, stray>>

\* create gives up on an instance it could not record: it kills it ...
Discard(i) ==
  /\ i \in held
  /\ stage' = [stage EXCEPT ![i] = "dead"]
  /\ held' = held \ {i}
  /\ UNCHANGED <<tracked, stray>>

\* ... or is cut short before it could.
LetGo(i) ==
  /\ i \in held
  /\ held' = held \ {i}
  /\ stray' = stray \cup {i}
  /\ UNCHANGED <<stage, tracked>>

Next ==
  \E i \in Ids :
    \/ Launch(i) \/ Appear(i) \/ Track(i) \/ Die(i)
    \/ Drop(i) \/ Discard(i) \/ LetGo(i)

Spec == Init /\ [][Next]_ledger

=============================================================================
