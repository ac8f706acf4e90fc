----------------------------- MODULE IdleStop -----------------------------
(***************************************************************************)
(* idle-stop of one box: the commands set, update and delete, which run a  *)
(* script on the box over ssh and then write a column of its row, and the  *)
(* timer they install there, which shuts the box down when no terminal has *)
(* been open for a while.  The box may be stopped and started at any time. *)
(* Time is counted in periods of the timer: it fires in each of them.      *)
(***************************************************************************)
EXTENDS Naturals

CONSTANTS
  Procs,        \* CLI processes
  Limits,       \* timeouts, in periods of the timer
  MaxAge,       \* bound: longer times are not told apart
  NoFile,       \* there is no last-activity file
  Empty,        \* last-activity is there with nothing in it
  MaxCommands,  \* bound: commands started
  MaxFaults     \* bound: processes killed, or scripts that fail

ASSUME ConstantsAssumption ==
  /\ Limits \subseteq Nat \ {0}
  /\ MaxAge \in Nat /\ \A m \in Limits : m < MaxAge
  /\ NoFile \notin Nat /\ Empty \notin Nat /\ NoFile # Empty
  /\ MaxCommands \in Nat /\ MaxFaults \in Nat

VARIABLES
  up,       \* the box is running
  host,     \* on its disk: the minutes file (0 where it is empty or not there), whether the
            \* check and its units are installed, and whether timer and boot service are enabled
  age,      \* how long ago last-activity was written, or that there is none to read
  session,  \* a terminal is open on the box
  halting,  \* the check has called for a shutdown
  checked,  \* the timer has fired in this period
  row,      \* idle_stop_minutes in the box's row; 0 for NULL
  pc,       \* process -> the step its command takes next
  arg,      \* process -> its command and the minutes to set
  quiet,    \* history: periods since a check saw a terminal or found no last-activity, the
            \* box was started, or a command had last-activity written
  lone,     \* history: processes whose command has been the only one so far
  cut,      \* history: a command ended half-way or beside another, and no set or delete
            \* has run alone to its end since
  started, faults   \* commands started and cut short so far

box == <<up, host, age, session, halting, checked>>
counts == <<started, faults>>
vars == <<up, host, age, session, halting, checked, row, pc, arg, quiet, lone, cut,
          started, faults>>

-----------------------------------------------------------------------------
\* The steps that are commands of a script on the box: of set and update, of set, of delete.
WriteSteps == {"openMinutes", "minutes", "openActivity", "activity"}
InstallSteps == {"units", "enableTimer", "enableBoot", "startBoot"}
RemoveSteps == {"disableTimer", "disableBoot", "removeUnits", "removeMinutes", "removeActivity"}
ScriptSteps == WriteSteps \cup InstallSteps \cup RemoveSteps

Steps == ScriptSteps \cup {"idle", "setRow"}
Host == [files : BOOLEAN, minutes : Limits \cup {0}, timer : BOOLEAN, boot : BOOLEAN]
Bare == [files |-> FALSE, minutes |-> 0, timer |-> FALSE, boot |-> FALSE]
Arg == [cmd : {"none", "set", "update", "delete"}, minutes : Limits \cup {0}]
NoArg == [cmd |-> "none", minutes |-> 0]

At(p, step) == pc[p] = step
Goto(p, step) == pc' = [pc EXCEPT ![p] = step]
Busy == {p \in Procs : ~At(p, "idle")}

\* A process at one of these steps has changed the box and not yet the row.
Between == Steps \ {"idle", "openMinutes", "disableTimer"}

TimerRuns == up /\ host.timer
Older(t) == IF t < MaxAge THEN t + 1 ELSE t

\* The command returns, with or without an error.
Exit(p) == Goto(p, "idle") /\ arg' = [arg EXCEPT ![p] = NoArg]

Init ==
  /\ up = TRUE /\ session = FALSE /\ halting = FALSE /\ checked = TRUE
  /\ host = Bare /\ age = NoFile /\ row = 0
  /\ pc = [p \in Procs |-> "idle"] /\ arg = [p \in Procs |-> NoArg]
  /\ quiet = 0 /\ lone = {} /\ cut = FALSE /\ started = 0 /\ faults = 0

-----------------------------------------------------------------------------
(* The commands.  Each begins with a box that runs and answers; update and delete *)
(* with a row that says idle-stop is set.                                         *)

Begin(p, cmd, m, step) ==
  /\ At(p, "idle")
  /\ started < MaxCommands
  /\ up
  /\ started' = started + 1
  /\ arg' = [arg EXCEPT ![p] = [cmd |-> cmd, minutes |-> m]]
  /\ Goto(p, step)
  /\ lone' = IF Busy = {} THEN {p} ELSE {}
  /\ UNCHANGED <<box, row, quiet, cut, faults>>

SetBegin(p, m) == Begin(p, "set", m, "openMinutes")
UpdateBegin(p, m) == row # 0 /\ Begin(p, "update", m, "openMinutes")
DeleteBegin(p) == row # 0 /\ Begin(p, "delete", 0, "disableTimer")

\* A command of the script that is done, after which the script goes on.  A script that
\* outlives the process which sent it is that process, still under way.
Script(p, step, then) ==
  /\ At(p, step)
  /\ Goto(p, then)
  /\ UNCHANGED <<up, session, halting, row, arg, lone, cut, counts>>

\* last-activity is written: the count of idle time starts afresh.
WriteActivity == age' = 0 /\ quiet' = 0

\* set and update write the two files, each of which the shell empties first.
EmptyMinutes(p) ==
  /\ Script(p, "openMinutes", "minutes")
  /\ host' = [host EXCEPT !.minutes = 0]
  /\ UNCHANGED <<age, quiet, checked>>

EchoMinutes(p) ==
  /\ Script(p, "minutes", "openActivity")
  /\ host' = [host EXCEPT !.minutes = arg[p].minutes]
  /\ UNCHANGED <<age, quiet, checked>>

EmptyActivity(p) ==
  /\ Script(p, "openActivity", "activity")
  /\ age' = Empty
  /\ UNCHANGED <<host, quiet, checked>>

\* The end of update's script; set's goes on.
DateActivity(p) ==
  /\ Script(p, "activity", IF arg[p].cmd = "set" THEN "units" ELSE "setRow")
  /\ WriteActivity
  /\ UNCHANGED <<host, checked>>

\* set: the check and the units, then the timer, which is started too, then the boot service.
InstallUnits(p) ==
  /\ Script(p, "units", "enableTimer")
  /\ host' = [host EXCEPT !.files = TRUE]
  /\ UNCHANGED <<age, quiet, checked>>

EnableTimer(p) ==
  /\ host.files
  /\ Script(p, "enableTimer", "enableBoot")
  /\ host' = [host EXCEPT !.timer = TRUE]
  /\ checked' = (checked /\ TimerRuns)
  /\ UNCHANGED <<age, quiet>>

EnableBoot(p) ==
  /\ host.files
  /\ Script(p, "enableBoot", "startBoot")
  /\ host' = [host EXCEPT !.boot = TRUE]
  /\ UNCHANGED <<age, quiet, checked>>

\* The boot service runs once; a unit that is loaded starts though its file is gone.
StartBoot(p) ==
  /\ Script(p, "startBoot", "setRow")
  /\ WriteActivity
  /\ UNCHANGED <<host, checked>>

\* The units another command has removed cannot be enabled: the script ends.
UnitsMissing(p) ==
  /\ pc[p] \in {"enableTimer", "enableBoot", "startBoot"}
  /\ ~host.files
  /\ cut' = TRUE
  /\ Exit(p)
  /\ UNCHANGED <<box, row, quiet, lone, counts>>

\* delete: timer and boot service are stopped first, then the files go.
DisableTimer(p) ==
  /\ Script(p, "disableTimer", "disableBoot")
  /\ host' = [host EXCEPT !.timer = FALSE]
  /\ UNCHANGED <<age, quiet, checked>>

DisableBoot(p) ==
  /\ Script(p, "disableBoot", "removeUnits")
  /\ host' = [host EXCEPT !.boot = FALSE]
  /\ UNCHANGED <<age, quiet, checked>>

\* Mutant: a timer enabled since by another command stays enabled.
RemoveFilesOnly(p) ==
  /\ Script(p, "removeUnits", "removeMinutes")
  /\ host' = [host EXCEPT !.files = FALSE]
  /\ UNCHANGED <<age, quiet, checked>>

\* A unit that is gone is enabled no longer.
RemoveUnits(p) ==
  /\ Script(p, "removeUnits", "removeMinutes")
  /\ host' = [host EXCEPT !.files = FALSE, !.timer = FALSE, !.boot = FALSE]
  /\ UNCHANGED <<age, quiet, checked>>

RemoveMinutes(p) ==
  /\ Script(p, "removeMinutes", "removeActivity")
  /\ host' = [host EXCEPT !.minutes = 0]
  /\ UNCHANGED <<age, quiet, checked>>

RemoveActivity(p) ==
  /\ Script(p, "removeActivity", "setRow")
  /\ age' = NoFile
  /\ UNCHANGED <<host, quiet, checked>>

\* Whether row and box may differ once this command has ended.
Apart(p) == IF p \in lone THEN cut /\ arg[p].cmd = "update" ELSE TRUE

\* Mutant: the row keeps its minutes once it has some.
SetRowOnce(p) ==
  /\ At(p, "setRow")
  /\ row' = IF row # 0 /\ arg[p].minutes # 0 THEN row ELSE arg[p].minutes
  /\ cut' = Apart(p)
  /\ Exit(p)
  /\ UNCHANGED <<box, quiet, lone, counts>>

\* The last step of each command.
SetInstanceIdleStopMinutes(p) ==
  /\ At(p, "setRow")
  /\ row' = arg[p].minutes
  /\ cut' = Apart(p)
  /\ Exit(p)
  /\ UNCHANGED <<box, quiet, lone, counts>>

\* The process dies, the connection is lost, or a command of the script fails.
Abort(p) ==
  /\ ~At(p, "idle")
  /\ faults < MaxFaults
  /\ faults' = faults + 1
  /\ cut' = (cut \/ pc[p] \in Between)
  /\ Exit(p)
  /\ UNCHANGED <<box, row, quiet, lone, started>>

-----------------------------------------------------------------------------
(* The box.  The check takes a moment and is one step, as is the boot service at boot. *)

\* Mutant: the limit must be exceeded.
Overdue(t) == t > host.minutes

\* The box has been idle for long enough.
Idle(t) == t >= host.minutes

\* The check the timer runs: a terminal counts as activity now, a missing file starts
\* the count, and of an empty file it makes nothing.
Check ==
  /\ TimerRuns /\ ~checked /\ ~halting
  /\ checked' = TRUE
  /\ IF host.minutes > 0 /\ (session \/ age = NoFile)
       THEN WriteActivity ELSE UNCHANGED <<age, quiet>>
  /\ halting' = (host.minutes > 0 /\ ~session /\ age \in Nat /\ Idle(age))
  /\ UNCHANGED <<up, host, session, row, pc, arg, lone, cut, counts>>

\* The scripts under way on the box end with it, and their commands with them.
PowerOff ==
  LET killed == {p \in Procs : pc[p] \in ScriptSteps} IN
  /\ up' = FALSE /\ session' = FALSE /\ halting' = FALSE
  /\ pc' = [p \in Procs |-> IF p \in killed THEN "idle" ELSE pc[p]]
  /\ arg' = [p \in Procs |-> IF p \in killed THEN NoArg ELSE arg[p]]
  /\ cut' = (cut \/ \E p \in killed : pc[p] \in Between)
  /\ UNCHANGED <<host, age, checked, row, quiet, lone, counts>>

\* The shutdown the check has called for.
Halt == halting /\ PowerOff

\* Anyone stops the box.
Stop == up /\ PowerOff

\* Mutant: nothing is written at boot.
KeepActivity(t) == t

\* What the boot service does to the time of the last activity.
BootReset(t) == IF host.boot THEN 0 ELSE t

\* The timer first fires a minute after the boot, which the boot service precedes.
Boot ==
  /\ ~up
  /\ up' = TRUE
  /\ age' = BootReset(age)
  /\ checked' = TRUE
  /\ quiet' = 0
  /\ UNCHANGED <<host, session, halting, row, pc, arg, lone, cut, counts>>

Login == up /\ ~session /\ session' = TRUE
         /\ UNCHANGED <<up, host, age, halting, checked, row, pc, arg, quiet, lone, cut, counts>>

Logout == session /\ session' = FALSE
          /\ UNCHANGED <<up, host, age, halting, checked, row, pc, arg, quiet, lone, cut, counts>>

\* A period ends: the timer has fired in it if it runs.
Tick ==
  /\ TimerRuns => checked
  /\ ~halting
  /\ checked' = FALSE
  /\ age' = IF age \in Nat THEN Older(age) ELSE age
  /\ quiet' = Older(quiet)
  /\ UNCHANGED <<up, host, session, halting, row, pc, arg, lone, cut, counts>>

-----------------------------------------------------------------------------
Step(p) ==
  \/ EmptyMinutes(p) \/ EchoMinutes(p) \/ EmptyActivity(p) \/ DateActivity(p)
  \/ InstallUnits(p) \/ EnableTimer(p) \/ EnableBoot(p) \/ StartBoot(p) \/ UnitsMissing(p)
  \/ DisableTimer(p) \/ DisableBoot(p) \/ RemoveUnits(p) \/ RemoveMinutes(p)
  \/ RemoveActivity(p) \/ SetInstanceIdleStopMinutes(p)

Next ==
  \/ \E p \in Procs :
       \/ \E m \in Limits : SetBegin(p, m) \/ UpdateBegin(p, m)
       \/ DeleteBegin(p) \/ Step(p) \/ Abort(p)
  \/ Check \/ Halt \/ Stop \/ Boot \/ Login \/ Logout \/ Tick

Spec == Init /\ [][Next]_vars

=============================================================================
