----------------------------- MODULE SshConfig -----------------------------
(***************************************************************************)
(* The processes that edit ~/.ssh/config.  Every edit reads the whole      *)
(* file, computes the new content, and writes it back with os.WriteFile,   *)
(* which first truncates; no lock is held.  create, start (and the repair  *)
(* of ls), ssh, rename, delete and git-sync are sequences of such edits;   *)
(* git-sync also loads the user's key into ssh-agent or removes it.        *)
(***************************************************************************)
EXTENDS SshFile

CONSTANTS
  Boxes,        \* box names
  Addrs,        \* addresses
  Users,        \* login users, by operating system
  Procs,        \* CLI processes
  UserFiles,    \* the contents the file may have at first
  Commands,     \* the commands the user runs
  MaxCommands,  \* bound: commands started
  MaxKills      \* bound: processes killed

AllCommands == {"create", "start", "ssh", "rename", "delete", "git-sync"}
Attempts == 3   \* sshConfigUpdateAttempts

ASSUME SshAssumption ==
  /\ NoAddr \notin Addrs /\ AllHosts \notin Boxes
  /\ Boxes \cup Addrs \cup Users \cup {"yes"} \subseteq Words
  /\ UserFiles \subseteq Seq(Lines)
  /\ Commands \subseteq AllCommands
  /\ MaxCommands \in Nat /\ MaxKills \in Nat

VARIABLES
  file,     \* the content of ~/.ssh/config; a missing file is an empty one
  agent,    \* ssh-agent holds the key
  pc,       \* process -> what it does next
  job,      \* process -> [cmd, edit, box, to, addr, user] of its command
  text,     \* process -> the content it is about to write
  tries,    \* process -> attempts its edit has had
  started,  \* commands started so far
  kills,    \* processes killed so far
  synced    \* history: boxes whose last git-sync enabled GitHub access, since it
            \* was last disabled for any box (one key serves them all)
            \* (a kill that leaves the file empty forgets them)

locals == <<pc, job, text, tries>>
counts == <<started, kills>>
vars == <<file, agent, pc, job, text, tries, started, kills, synced>>

Edits == {"AddHost", "UpdateHost", "UpdateHostUser", "RenameHost", "DeleteHost",
          "EnableForwardAgent", "DisableForwardAgent", "none"}
Jobs == [cmd : AllCommands \cup {"none"}, edit : Edits, box : Boxes, to : Boxes,
         addr : Addrs, user : Users]

-----------------------------------------------------------------------------
(* One edit. *)

\* The edit returns an error: its box has no block, or its name has one already.
Refused(j, f) ==
  CASE j.edit = "AddHost" -> Found(f, j.box)
    [] j.edit = "RenameHost" -> ~Found(f, j.box) \/ Found(f, j.to)
    [] j.edit = "DeleteHost" -> FALSE
    [] OTHER -> ~Found(f, j.box)

Edited(j, f) ==
  CASE j.edit = "AddHost" -> WithHost(f, j.box, j.addr, j.user)
    [] j.edit = "UpdateHost" -> WithOption(f, j.box, "HostName", j.addr)
    [] j.edit = "UpdateHostUser" -> WithOption(f, j.box, "User", j.user)
    [] j.edit = "RenameHost" -> WithAlias(f, j.box, j.to)
    [] j.edit = "DeleteHost" -> Without(f, j.box)
    [] j.edit = "EnableForwardAgent" -> WithForwardAgent(f, j.box)
    [] j.edit = "DisableForwardAgent" -> WithoutForwardAgent(f, j.box)

Retried(j) == j.edit \in {"RenameHost", "EnableForwardAgent", "DisableForwardAgent"}

\* The edit a command makes first, and the one after an edit that succeeded or
\* failed.
FirstEdit == [create |-> "AddHost", start |-> "UpdateHost", ssh |-> "UpdateHost",
              rename |-> "RenameHost", delete |-> "DeleteHost"]

NextEdit(j, ok) ==
  CASE j.edit = "UpdateHost" /\ j.cmd = "start" ->
         IF ok THEN "UpdateHostUser" ELSE "AddHost"
    [] j.edit = "UpdateHost" /\ j.cmd = "ssh" -> "UpdateHostUser"
    [] OTHER -> "none"

-----------------------------------------------------------------------------
(* Control. *)

At(p, l) == pc[p] = l
Goto(p, l) == pc' = [pc EXCEPT ![p] = l]

NoJob == [cmd |-> "none", edit |-> "none", box |-> CHOOSE n \in Boxes : TRUE,
          to |-> CHOOSE n \in Boxes : TRUE, addr |-> CHOOSE a \in Addrs : TRUE,
          user |-> CHOOSE u \in Users : TRUE]

Init ==
  /\ file \in UserFiles
  /\ agent \in BOOLEAN
  /\ pc = [p \in Procs |-> "idle"]
  /\ job = [p \in Procs |-> NoJob]
  /\ text = [p \in Procs |-> <<>>]
  /\ tries = [p \in Procs |-> 0]
  /\ started = 0 /\ kills = 0
  /\ synced = {}

\* The command of p returns.
Return(p) ==
  /\ Goto(p, "idle")
  /\ job' = [job EXCEPT ![p] = NoJob]
  /\ text' = [text EXCEPT ![p] = <<>>]
  /\ tries' = [tries EXCEPT ![p] = 0]

\* The edit of p has ended, with an error or without: on to the command's next
\* step.
EndEdit(p, ok) ==
  LET next == NextEdit(job[p], ok) IN
  IF job[p].cmd = "git-sync" /\ ok
  THEN /\ Goto(p, "agent")
       /\ text' = [text EXCEPT ![p] = <<>>]
       /\ tries' = [tries EXCEPT ![p] = 0]
       /\ UNCHANGED job
  ELSE IF next = "none" THEN Return(p)
  ELSE /\ Goto(p, "read")
       /\ job' = [job EXCEPT ![p].edit = next]
       /\ text' = [text EXCEPT ![p] = <<>>]
       /\ tries' = [tries EXCEPT ![p] = 0]

-----------------------------------------------------------------------------
\* An argument the command does not take has the value it has in NoJob, or the box's name.
Begin(p, c, n, m, a, u) ==
  /\ At(p, "idle")
  /\ c \in Commands
  /\ started < MaxCommands
  /\ started' = started + 1
  /\ c = "rename" <=> m # n
  /\ c \in {"rename", "delete", "git-sync"} => a = NoJob.addr /\ u = NoJob.user
  /\ Goto(p, IF c = "git-sync" THEN "toggle" ELSE "read")
  /\ job' = [job EXCEPT ![p] = [cmd |-> c,
                                edit |-> IF c = "git-sync" THEN "none" ELSE FirstEdit[c],
                                box |-> n, to |-> m, addr |-> a, user |-> u]]
  /\ synced' = IF c \in {"delete", "rename", "git-sync"} THEN synced \ {n} ELSE synced
  /\ UNCHANGED <<file, agent, text, tries, kills>>

\* git-sync reads the block, then asks the agent, and decides.
Toggle(p) ==
  LET j == job[p] IN
  /\ At(p, "toggle")
  /\ IF ~Found(file, j.box) THEN Return(p)
     ELSE /\ Goto(p, "ask")
          /\ job' = [job EXCEPT ![p].edit =
                       IF ForwardAgentEnabled(Block(file, j.box))
                       THEN "DisableForwardAgent" ELSE "EnableForwardAgent"]
          /\ UNCHANGED <<text, tries>>
  /\ UNCHANGED <<file, agent, counts, synced>>

\* Synced means both; with either missing, both are enabled.
AskAgent(p) ==
  /\ At(p, "ask")
  /\ Goto(p, "read")
  /\ job' = [job EXCEPT ![p].edit = IF agent THEN @ ELSE "EnableForwardAgent"]
  /\ UNCHANGED <<file, agent, text, tries, counts, synced>>

TriesLeft(p) == tries[p] + 1 < Attempts

ReadConfig(p) ==
  LET j == job[p] IN
  /\ At(p, "read")
  /\ CASE Refused(j, file) /\ Retried(j) /\ TriesLeft(p) ->
            /\ tries' = [tries EXCEPT ![p] = @ + 1]
            /\ UNCHANGED <<pc, job, text>>
       [] Refused(j, file) /\ ~(Retried(j) /\ TriesLeft(p)) ->
            EndEdit(p, FALSE)
       [] ~Refused(j, file) /\ Edited(j, file) = file -> EndEdit(p, TRUE)
       [] ~Refused(j, file) /\ Edited(j, file) # file ->
            /\ text' = [text EXCEPT ![p] = Edited(j, file)]
            /\ Goto(p, "truncate")
            /\ UNCHANGED <<job, tries>>
  /\ UNCHANGED <<file, agent, counts, synced>>

\* os.WriteFile opens with O_TRUNC, then writes from the start.
TruncateConfig(p) ==
  /\ At(p, "truncate")
  /\ file' = <<>>
  /\ Goto(p, "write")
  /\ UNCHANGED <<agent, job, text, tries, counts, synced>>

\* Whatever another process wrote since the truncation stays beyond the new
\* text (a tail that would start inside a line starts at the line here).
WriteConfig(p) ==
  LET j == job[p] IN
  /\ At(p, "write")
  /\ file' = text[p] \o SubSeq(file, Len(text[p]) + 1, Len(file))
  /\ EndEdit(p, TRUE)
  /\ UNCHANGED <<agent, counts, synced>>

\* ssh-add, or ssh-add -d.
SetAgent(p) ==
  /\ At(p, "agent")
  /\ agent' = (job[p].edit = "EnableForwardAgent")
  /\ synced' = IF job[p].edit = "EnableForwardAgent" THEN synced \cup {job[p].box} ELSE {}
  /\ Return(p)
  /\ UNCHANGED <<file, counts>>

Step(p) ==
  \/ Toggle(p) \/ AskAgent(p) \/ ReadConfig(p) \/ TruncateConfig(p)
  \/ WriteConfig(p) \/ SetAgent(p)

\* The process is killed, or ssh-add fails.
Kill(p) ==
  /\ ~At(p, "idle")
  /\ kills < MaxKills
  /\ kills' = kills + 1
  /\ synced' = IF At(p, "write") THEN {} ELSE synced
  /\ Return(p)
  /\ UNCHANGED <<file, agent, started>>

Next ==
  \E p \in Procs :
    \/ \E c \in AllCommands, n, m \in Boxes, a \in Addrs, u \in Users : Begin(p, c, n, m, a, u)
    \/ Step(p)
    \/ Kill(p)

Spec == Init /\ [][Next]_vars

=============================================================================
