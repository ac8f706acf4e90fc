------------------------ MODULE IdleStopProperties ------------------------
(* What idle-stop guarantees, stated of IdleStop. *)
EXTENDS IdleStop

TypeOK ==
  /\ up \in BOOLEAN /\ session \in BOOLEAN /\ halting \in BOOLEAN /\ checked \in BOOLEAN
  /\ host \in Host /\ (host.timer \/ host.boot => host.files)
  /\ age \in 0..MaxAge \cup {NoFile, Empty} /\ quiet \in 0..MaxAge
  /\ row \in Limits \cup {0}
  /\ pc \in [Procs -> Steps] /\ arg \in [Procs -> Arg]
  /\ lone \subseteq Procs /\ cut \in BOOLEAN
  /\ started \in 0..MaxCommands /\ faults \in 0..MaxFaults

\* Between commands, the row says what the box does: which timeout its timer goes by, or
\* that it has none.  A command cut short, or two at once, may leave them apart, and the
\* next set or delete that runs alone to its end brings them together again.
RowTellsHost ==
  Busy = {} /\ ~cut => row = (IF host.timer THEN host.minutes ELSE 0)

\* The timer never shuts a box down in front of an open terminal, nor before the whole
\* timeout has passed since a terminal was last seen, since the box was started, and since
\* a command last had the time of the last activity written.  A command writes that after
\* the minutes: a check in between, or after a script that was cut there, goes by the new
\* timeout and the old activity.  And where the boot service is not enabled, as an install
\* cut short leaves it, nothing starts the count at boot, and nothing is promised.
NeverEarly ==
  [][halting' /\ ~halting /\ host.boot => ~session /\ quiet >= host.minutes]_vars

\* A box with a timer does not run idle for longer than its timeout: each time the timer
\* fires, less than the timeout has passed or the box is shut down.  It goes by the two
\* files: where a script was cut while it wrote one of them, that is empty, and the check
\* does nothing until the box is started or the files are written.
StopsInTime ==
  [][~checked /\ checked' /\ host.minutes > 0 /\ age # Empty
     => halting' \/ quiet' < host.minutes]_vars

=============================================================================
