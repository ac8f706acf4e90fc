------------------------- MODULE AccessProperties -------------------------
(* What the commands promise about getting into a box, stated of Access. *)
EXTENDS Access

TypeOK ==
  /\ priv \in Keys \cup {NoKey} /\ pub \in Keys \cup {NoKey, Blank}
  /\ writing \subseteq {p \in Procs : pc[p] = "writePub"}
  /\ known \in [Addrs -> Boxes \cup {NoBox}]
  /\ group \in {"none", "closed", "open"}
  /\ host \in [Boxes -> Host] /\ image \in Image \cup {NoImage}
  /\ books \subseteq {b \in Boxes : host[b].state \in {"up", "down"}}
  /\ pc \in [Procs -> Steps] /\ source \in [Procs -> {"none", "base", "image", "box"}]
  /\ box \in [Procs -> Boxes \cup {NoBox}] /\ addr \in [Procs -> Addrs \cup {NoAddr}]
  /\ key \in [Procs -> Keys \cup {NoKey, Blank}]
  /\ \A p \in Procs : pc[p] \in Holding => key[p] # NoKey
  /\ \A p \in Procs : pc[p] = "append" => key[p] # Blank
  /\ on \in [Procs -> Boxes \cup {NoBox}]
  /\ overwritten \subseteq Keys /\ half \in BOOLEAN
  /\ made \in 0..MaxKeys /\ started \in 0..MaxCommands /\ events \in 0..MaxEvents
  /\ \A a, b \in Boxes : a # b /\ host[a].addr # NoAddr => host[a].addr # host[b].addr

\* The public key that a create or an import is about to put on a box is the one of the
\* private key on this machine, so that it lets the user in: an orphaned pair, or one that
\* another command makes meanwhile, is never handed out in part.  Excepted are a key that
\* two ssh-keygen at once wrote over, and for create an empty key, which nothing looks for:
\* it is what a write of the file leaves that was cut short, or what it shows while under
\* way, and it is handed out only where there was such a write.
KeyFits ==
  \A p \in Procs : pc[p] \in Holding =>
    \/ key[p] = priv \/ key[p] \in overwritten
    \/ key[p] = Blank /\ source[p] # "box" /\ half

\* A box is launched behind a group whose port 22 is open, also when the create that made
\* the group was killed before it opened it, or the rule was removed later.
LaunchedOpen ==
  \A p \in Procs : At(p, "launch") => group = "open"

\* A session is on a box whose templates have run to their end, whichever box now has the
\* address that was probed.  Excepted is a box that was lent its marker: by the snapshot of
\* a ready one, or by an import.  Boxes of the console have no user data.
SessionReady ==
  \A p \in Procs : At(p, "session") =>
    LET b == host[on[p]] IN b.boot \in {"done", "none"} \/ b.lent \/ b.state = "gone"

\* A session is on the box whose host key is on record for the address, so a command whose
\* box has been reached there once is not served by another that was given the address.
SessionOnBox ==
  \A p \in Procs : At(p, "session") => on[p] = known[addr[p]]

\* A box that is up, was created here and will finish its user data, reached at the
\* address that was read for it, with the key that was put on it.
WillAnswer(p) ==
  /\ Answers(box[p], addr[p])
  /\ ~Console(box[p]) /\ host[box[p]].boot # "cut"
  /\ host[box[p]].inject = priv

\* A command does not wait for ever for a box that will answer.
WaitEnds ==
  \A p \in Procs : [](At(p, "wait") => <>(~At(p, "wait") \/ ~WillAnswer(p)))

=============================================================================
