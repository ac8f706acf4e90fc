----------------------------- MODULE HostTable -----------------------------
(***************************************************************************)
(* What the edits of ~/.ssh/config promise: a table from box names to      *)
(* addresses, changed one entry at a time, beside the user's own lines,    *)
(* which no edit touches.  A process killed while it writes the file loses *)
(* all of it or nothing.  hosts is the ssh variable of Boxes.              *)
(***************************************************************************)
EXTENDS Naturals

CONSTANTS Boxes, Addrs, NoAddr

VARIABLES
  hosts,   \* box -> the address in its block, or NoAddr
  others,  \* the lines that belong to no box
  kills    \* processes killed so far

Init == hosts \in [Boxes -> Addrs \cup {NoAddr}] /\ kills = 0

Put(n, a) == hosts' = [hosts EXCEPT ![n] = a]
Move(o, n) == hosts[n] = NoAddr /\ hosts' = [hosts EXCEPT ![n] = hosts[o], ![o] = NoAddr]

Edit ==
  /\ \/ \E n \in Boxes, a \in Addrs \cup {NoAddr} : Put(n, a)
     \/ \E o, n \in Boxes : Move(o, n)
  /\ UNCHANGED <<others, kills>>

Killed ==
  /\ kills' = kills + 1
  /\ \/ UNCHANGED <<hosts, others>>
     \/ hosts' = [n \in Boxes |-> NoAddr] /\ others' = <<>>

Next == Edit \/ Killed

Spec == Init /\ [][Next]_<<hosts, others, kills>>

=============================================================================
