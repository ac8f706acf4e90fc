--------------------------- MODULE HomeProperties ---------------------------
(* What install, update, uninstall, setup and clear-creds guarantee, stated of Home. *)
EXTENDS Home

TypeOK ==
  /\ exe \subseteq Dirs
  /\ \A f \in Files : rc[f] \in Seq(Line) /\ own[f] \in Seq(Line)
  /\ config \in Keys \cup {Blank, NoConfig} /\ promised \in Keys \cup {Blank}
  /\ temp \subseteq Procs /\ stale \subseteq Procs /\ overlap \subseteq Procs
  /\ db = NoDb \/ db \subseteq Rows
  /\ made \subseteq Rows /\ crossed \subseteq Rows /\ torn \subseteq Files
  /\ pc \in [Procs -> Steps] /\ job \in [Procs -> Job]
  /\ left \in [Procs -> SUBSET Files]
  /\ \A p \in Procs : held[p] \in Seq(Line)
  /\ started \in 0..MaxCommands /\ kills \in 0..MaxKills

\* The lines of a start-up file: as it is, or as they are about to be written back.
Contents(f) ==
  IF Emptied(f) THEN {held[p] : p \in {q \in Procs : At(q, "write") /\ job[q].file = f}}
  ELSE {rc[f]}

\* The lines that are no part of a block: neither a marker nor an export below one.
Outside(s) ==
  LinesAt(s, {i \in DOMAIN s : /\ s[i] # Marker
                               /\ ~(i > 1 /\ s[i - 1] = Marker /\ s[i].kind = "export")})

\* Whatever is installed, updated and uninstalled, and in whichever order, a start-up file
\* holds the user's own lines, in their order, and beside them only blocks of install.sh:
\* also lines of the user's that set the PATH to the same directory, and whether or not an
\* install.sh was killed between the lines of its block.  It is not so of a file an
\* uninstall had emptied to write it anew when it was killed, or when another process used
\* it, nor of one that a second install.sh wrote, or an uninstall emptied, while a first was
\* between its two lines.
OwnLinesKept == \A f \in Files \ torn : \A s \in Contents(f) : Outside(s) = own[f]

\* The binary is the last to go.  When an uninstall has removed it, nothing is left of the
\* credentials, of the database, of a temporary file or of a block for its directory, also
\* if an uninstall, a setup or an install was killed before; so one that is killed can be
\* run again.  Not so if another command was at work beside it, nor of the blocks in a file
\* that two of them had written at once before.
BinaryLast ==
  [][\A d \in exe \ exe' :
       \A p \in Procs \ overlap : job[p].dir = d /\ pc'[p] # pc[p] =>
         /\ config = NoConfig /\ db = NoDb /\ temp = {}
         /\ \A f \in Files \ torn : \A i \in DOMAIN rc[f] : ~BlockAt(rc[f], i, d)]_vars

\* Every row inserted and not deleted is in the database, except those inserted while an
\* uninstall was counting or asking: those it counts it does not remove, whichever other
\* commands were killed or run between its count and the answer.
RecordsKept == made \subseteq TableRows \cup crossed

\* The saved credentials are those the user entered last, or none since they were cleared
\* or uninstalled: killing a command does not change them, nor does a setup that keeps
\* them.  Where two commands overlap, the later to write decides.
CredentialsAsPromised == promised = IF config = NoConfig THEN Blank ELSE config

=============================================================================
