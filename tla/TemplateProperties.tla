------------------------- MODULE TemplateProperties -------------------------
(* What seeding and the template commands guarantee, stated of Templates. *)
EXTENDS Templates

TypeOK ==
  /\ row \in [Ids -> Row \cup {NoRow}]
  /\ seeds \subseteq Builtins /\ made \in 0..MaxCommands
  /\ writer \in Procs \cup {NoProc} /\ \A p \in Procs : At(p, "commit") <=> writer = p
  /\ behind \subseteq Procs
  /\ pc \in [Procs -> Steps] /\ arg \in [Procs -> Arg] /\ view \in [Procs -> View]
  /\ opened \in Versions \cup {0} /\ removed \subseteq Builtins /\ declined \subseteq Builtins
  /\ started \in 0..MaxCommands /\ faults \in 0..MaxFaults

\* A built-in template is offered once, by whichever process opens the database first
\* with a version that has it: it is there from then on, unless the user has deleted it
\* or had that name already, and then it is never there again.
OfferedOnce ==
  \A d \in Builtins :
    row[d] # NoRow <=> d \in seeds /\ d \notin removed \cup declined

\* The built-in templates that are there have the text of the version that opened the
\* database last, and all that it has have been offered.
TextCurrent ==
  opened # 0 =>
    /\ Offered[opened] \subseteq seeds
    /\ \A d \in Offered[opened] : row[d] # NoRow => row[d].text = opened

\* No version of the program is locked out of the database by what the user made,
\* renamed or deleted: the seeding never meets a row that stands in its way.
NeverLockedOut == \A v \in Versions : ~Clash(v, row, seeds)

=============================================================================
