--------------------------- MODULE SshProperties ---------------------------
(* What the processes of SshConfig keep of ~/.ssh/config, and what not. *)
EXTENDS SshConfig

(* What the files are asked to be.  No code asks it: of other files the properties are   *)
(* false, and README.md says how.                                                        *)

\* The line l is that of a block of ours for n: it names n once, no other box, and not *.
Names(l, n) == IsHost(l) /\ Contains(l.args, n)
Sole(l, n) ==
  /\ Names(l, n)
  /\ \A j, k \in DOMAIN l.args : l.args[j] \in Boxes /\ l.args[k] \in Boxes => j = k
  /\ ~Contains(l.args, AllHosts)

\* The line i stands below the Host line h and no other; below none.
Under(f, h, i) ==
  /\ h \in HostLines(f) /\ i \in DOMAIN f /\ h <= i
  /\ \A k \in DOMAIN f : h < k /\ k <= i => ~IsHost(f[k])
Loose(f, i) == i \in DOMAIN f /\ \A k \in DOMAIN f : k <= i => ~IsHost(f[k])

\* Each box is named on one Host line at most, which names no other, the HostName there is
\* an address, and there is no Match section.
WellFormed(f) ==
  /\ \A i \in DOMAIN f : f[i].key # "Match" /\ f[i].args # <<>>
  /\ \A i \in DOMAIN f, n \in Boxes : Names(f[i], n) => Sole(f[i], n)
  /\ \A i, j \in DOMAIN f, n \in Boxes : Names(f[i], n) /\ Names(f[j], n) => i = j
  /\ \A h, i \in DOMAIN f, n \in Boxes :
       Under(f, h, i) /\ Names(f[h], n) /\ f[i].key = "HostName" => f[i].args[1] \in Addrs

\* No option the program writes is set for every host.
Written == {"HostName", "User", "ForwardAgent"}
NothingForAll(f) ==
  \A i \in DOMAIN f : f[i].key \in Written =>
    /\ ~Loose(f, i)
    /\ \A h \in DOMAIN f : Under(f, h, i) => ~Contains(f[h].args, AllHosts)

(* The properties. *)

\* Nobody is between truncating the file and writing it.
Whole == \A p \in Procs : ~At(p, "write")

\* The content once the write under way is done.
Content ==
  IF Whole THEN file ELSE text[CHOOSE p \in Procs : At(p, "write")]

\* A line belongs to the section OpenSSH puts it in; it is the user's when
\* that section is no box's.
Header(f, i) == SelectLastInSubSeq(f, 1, i, LAMBDA l : l.key \in {"Host", "Match"})
OfTheUser(f, i) ==
  Header(f, i) = 0 \/ ToSet(f[Header(f, i)].args) \cap Boxes = {}
UserLines(f) == LinesAt(f, {i \in DOMAIN f : OfTheUser(f, i)})

\* The edits implement the table of HostTable: each changes the address of one
\* box or moves it to a new name, and none changes a line of the user's; a
\* process killed while it writes loses the whole file, never part of it.
Table == INSTANCE HostTable WITH
  hosts <- [n \in Boxes |-> HostNameOf(Content, n)],
  others <- UserLines(Content)
TableSpec == Table!Spec

\* ssh outpost-<name> goes where the block says, as the user it says: nothing
\* in the rest of the file comes before it.
ReachesByAlias ==
  \A n \in Boxes : LET b == Block(file, n) IN
    \A k \in {"HostName", "User"} :
      OptionLine(b, k) # 0 => Lookup(file, n, k, NoAddr) = b[OptionLine(b, k)].args[1]

\* What git-sync takes for enabled is what OpenSSH does for the box.
ForwardingAsReported ==
  \A n \in Boxes :
    ForwardAgentEnabled(Block(file, n)) <=> Found(file, n) /\ Lookup(file, n, "ForwardAgent", "no") = "yes"

\* GitHub access that git-sync enabled for a box lasts until git-sync is run for
\* that box again, or turned off for another.
SyncedStaysSynced ==
  Whole => \A n \in synced : agent /\ ForwardAgentEnabled(Block(file, n))

=============================================================================
