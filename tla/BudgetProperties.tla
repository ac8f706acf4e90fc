-------------------------- MODULE BudgetProperties --------------------------
(* What the budget commands guarantee, stated of Budgets. *)
EXTENDS Budgets

TypeOK ==
  /\ budget \in [Names -> Budget \cup {NoBudget}]
  /\ cache \in List \cup {NoCache}
  /\ pc \in [Procs -> Steps]
  /\ want \in [Procs -> Want] /\ read \in [Procs -> Details]
  /\ next \in [Procs -> Alerts] /\ list \in [Procs -> List]
  /\ touched \subseteq Busy /\ fate \in [Procs -> Fates] /\ crossed \in BOOLEAN
  /\ started \in 0..MaxCommands /\ fails \in 0..MaxFails /\ kills \in 0..MaxKills

\* Between commands, the cached list is the list of AWS, whatever calls have failed.
\* It is not only when a process died between its change and the removal of the
\* file, or a listing asked AWS before another command's change and wrote after it.
CacheTrue ==
  Busy = {} /\ kills = 0 /\ ~crossed => cache \in {NoCache, Listing}

\* A create or update that gets to its last listing has done all it was asked: the
\* budget goes by the wanted name, has the wanted limit, and no alert of it mails the
\* address that was to be replaced; unless another command changed something meanwhile.
ChangeDelivered ==
  \A p \in Procs \ touched :
    LET w == want[p] IN
    At(p, "clearThenList") =>
      /\ Exists(w.new)
      /\ budget[w.new].limit = w.limit
      /\ DetailsOf(w.new).email = w.email
      /\ EmailChanged(p) => \A a \in Alerts : budget[w.new].alert[a] # read[p].email
      /\ w.new # w.name => ~Exists(w.name)

\* A budget ceases to exist by a delete of it, or by a rename of it that has made the new
\* one: that is there, with the limit and address the user left or gave, or with what other
\* commands have changed in it since, and no failure or kill parts the two.  Only where
\* another command has deleted the new one, or renamed it, does the old one go all the same.
RenameKeepsBudget ==
  [][\A n \in Names : Exists(n) /\ budget'[n] = NoBudget =>
       \E p \in Procs : want[p].name = n /\
         \/ At(p, "delete")
         \/ /\ At(p, "deleteOld")
            /\ fate[p] = "kept" =>
                 budget[want[p].new] = NewBudget(want[p].limit, want[p].email)
            /\ fate[p] = "changed" => Exists(want[p].new)]_vars

=============================================================================
