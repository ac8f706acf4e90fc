------------------------------ MODULE SshFile ------------------------------
(***************************************************************************)
(* ~/.ssh/config as service/localconfig.go edits it: a sequence of lines,  *)
(* the blocks its parser sees in them, and each edit as a function from    *)
(* one content to the next.                                                *)
(*                                                                         *)
(* A line is a keyword and its arguments.  Blank lines, comments, indents  *)
(* and the options that are written and never read back (IdentityFile,     *)
(* StrictHostKeyChecking) are left out; a line of the user's that the code *)
(* has no word for has the keyword "Other".  The alias of box n, which is  *)
(* outpost-n in the file, is written n.                                    *)
(***************************************************************************)
EXTENDS Naturals, FiniteSets, SequencesExt, FiniteSetsExt

CONSTANTS
  Words,            \* what may stand beside a keyword
  NoAddr, AllHosts  \* no HostName; the pattern * of a Host line

Keywords == {"Host", "Match", "HostName", "User", "ForwardAgent", "Other"}
Lines == [key : Keywords, args : Seq(Words)]

Line(k, v) == [key |-> k, args |-> v]
Opt(k, v) == Line(k, <<v>>)

(* What the code sees. *)

IsHost(l) == l.key = "Host"
HostLines(f) == {i \in DOMAIN f : IsHost(f[i])}

\* The line of the first block that carries n, or 0.
FindBlock(f, n) == SelectInSeq(f, LAMBDA l : IsHost(l) /\ Contains(l.args, n))
Found(f, n) == FindBlock(f, n) # 0

\* The last line of the block that starts at i: a block ends at the next Host
\* line, and at nothing else.
BlockEnd(f, i) == Min({j - 1 : j \in {k \in HostLines(f) : k > i}} \cup {Len(f)})

Block(f, n) ==
  LET i == FindBlock(f, n) IN IF i = 0 THEN <<>> ELSE SubSeq(f, i, BlockEnd(f, i))

Splice(f, n, block) ==
  LET i == FindBlock(f, n) IN
  SubSeq(f, 1, i - 1) \o block \o SubSeq(f, BlockEnd(f, i) + 1, Len(f))

OptionLine(block, k) == SelectInSeq(block, LAMBDA l : l.key = k)
HostNameOf(f, n) ==
  LET i == FindBlock(f, n)
      J == {j \in i..BlockEnd(f, i) : f[j].key = "HostName"}
  IN IF i = 0 \/ J = {} THEN NoAddr ELSE f[Min(J)].args[1]

\* The lines of f at the places in S, in their order.
LinesAt(f, S) ==
  LET upTo[i \in 0..Len(f)] ==
        IF i = 0 THEN <<>>
        ELSE IF i \in S THEN Append(upTo[i - 1], f[i]) ELSE upTo[i - 1]
  IN upTo[Len(f)]

(* The edits. *)

HostBlock(n, a, u) == <<Opt("Host", n), Opt("HostName", a), Opt("User", u)>>

WithHost(f, n, a, u) == f \o HostBlock(n, a, u)

\* Mutant: a missing option is added at the end of the file.
WithOptionAtEnd(f, n, k, v) ==
  LET b == Block(f, n) IN
  IF OptionLine(b, k) = 0 THEN Append(f, Opt(k, v))
  ELSE Splice(f, n, ReplaceAt(b, OptionLine(b, k), Opt(k, v)))

\* Mutant: a missing option is added above the Host line.
WithOptionAbove(f, n, k, v) ==
  LET b == Block(f, n) IN
  Splice(f, n, IF OptionLine(b, k) = 0 THEN <<Opt(k, v)>> \o b
               ELSE ReplaceAt(b, OptionLine(b, k), Opt(k, v)))

\* The first such option of the block is replaced, else one is added on top.
WithOption(f, n, k, v) ==
  LET b == Block(f, n) IN
  Splice(f, n, IF OptionLine(b, k) = 0 THEN InsertAt(b, 2, Opt(k, v))
               ELSE ReplaceAt(b, OptionLine(b, k), Opt(k, v)))

WithAlias(f, o, n) ==
  LET b == Block(f, o) IN
  Splice(f, o, ReplaceAt(b, 1, Line("Host",
    ReplaceAt(b[1].args, SelectInSeq(b[1].args, LAMBDA x : x = o), n))))

Without(f, n) == IF Found(f, n) THEN Splice(f, n, <<>>) ELSE f

ForwardAgentLines(b) == {i \in DOMAIN b : b[i].key = "ForwardAgent"}

\* Mutant: any ForwardAgent yes in the block counts.
ForwardAgentEnabledAnywhere(b) == \E i \in ForwardAgentLines(b) : b[i].args[1] = "yes"

ForwardAgentEnabled(b) ==
  LET i == OptionLine(b, "ForwardAgent") IN i # 0 /\ b[i].args[1] = "yes"

RemoveForwardAgent(b) == LinesAt(b, DOMAIN b \ ForwardAgentLines(b))

\* Mutant: the old lines stay.
WithForwardAgentAppended(f, n) ==
  LET b == Block(f, n) IN
  IF ForwardAgentEnabled(b) THEN f ELSE Splice(f, n, Append(b, Opt("ForwardAgent", "yes")))

\* One ForwardAgent line, yes, as the block's last option.
WithForwardAgent(f, n) ==
  LET b == Block(f, n) IN
  IF ForwardAgentEnabled(b) /\ Cardinality(ForwardAgentLines(b)) = 1 THEN f
  ELSE Splice(f, n, Append(RemoveForwardAgent(b), Opt("ForwardAgent", "yes")))

WithoutForwardAgent(f, n) == Splice(f, n, RemoveForwardAgent(Block(f, n)))

(* What OpenSSH sees: a section runs from a Host or Match line to the next *)
(* of either, lines before the first are for every host, and of each       *)
(* option the first value that applies counts.  No Match here names a box. *)

Applies(f, i, n) ==
  LET h == SelectLastInSubSeq(f, 1, i, LAMBDA l : l.key \in {"Host", "Match"}) IN
  \/ h = 0
  \/ IsHost(f[h]) /\ (Contains(f[h].args, n) \/ Contains(f[h].args, AllHosts))

Lookup(f, n, k, default) ==
  LET I == {i \in DOMAIN f : f[i].key = k /\ Applies(f, i, n)} IN
  IF I = {} THEN default ELSE f[Min(I)].args[1]

=============================================================================
