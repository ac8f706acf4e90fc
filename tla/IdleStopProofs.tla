--------------------------- MODULE IdleStopProofs ---------------------------
(***************************************************************************)
(* Proofs about IdleStop: its types, and that the timer shuts the box down *)
(* neither early nor late, for all timeouts and any number of processes.   *)
(* The files on the box say how long it has been idle (age); what really   *)
(* happened is quiet.  The argument is that the two agree where it counts. *)
(***************************************************************************)
EXTENDS IdleStopProperties, TLAPS

\* A script under way is on a box that runs.
ScriptsRun == \A p \in Procs : pc[p] \in ScriptSteps => up

\* The file never says less than the truth, so the timer is not late; and where the boot
\* service restarts the count, or is about to be enabled, it never says more, so the timer
\* is not early.
AgeEnough == age \in Nat => quiet <= age
BootCounts == host.boot \/ \E p \in Procs : pc[p] \in InstallSteps
AgeNotMore == BootCounts /\ age \in Nat => age <= quiet

IInv == TypeOK /\ ScriptsRun /\ AgeEnough /\ AgeNotMore

-----------------------------------------------------------------------------
\* A box without idle-stop meets the invariant.
LEMMA InitHolds == Init => IInv
  <1> SUFFICES ASSUME Init PROVE IInv
    OBVIOUS
  <1>1. host \in Host /\ ~host.timer /\ ~host.boot /\ ~host.files
    BY DEF Init, Host, Bare
  <1>2. pc \in [Procs -> Steps] /\ arg \in [Procs -> Arg]
    BY DEF Init, Steps, Arg, NoArg
  <1>3. quiet \in 0..MaxAge /\ started \in 0..MaxCommands /\ faults \in 0..MaxFaults
    BY ConstantsAssumption DEF Init
  <1>4. TypeOK
    BY <1>1, <1>2, <1>3 DEF Init, TypeOK
  <1>5. age \notin Nat
    BY ConstantsAssumption DEF Init
  <1> QED
    BY <1>4, <1>5 DEF Init, IInv, ScriptsRun, AgeEnough, AgeNotMore

\* A time that grows older stays within its bound, and two of them keep their order.
LEMMA OlderGrows ==
  ASSUME NEW s \in 0..MaxAge, NEW t \in 0..MaxAge
  PROVE  /\ Older(t) \in 0..MaxAge
         /\ s <= t => Older(s) <= Older(t)
  BY ConstantsAssumption DEF Older

\* The values of last-activity that are times.
LEMMA AgeIsTime ==
  ASSUME NEW a \in 0..MaxAge \cup {NoFile, Empty}
  PROVE  a \in Nat <=> a \in 0..MaxAge
  BY ConstantsAssumption

\* The timeout on the box is a number.
LEMMA MinutesNat ==
  ASSUME NEW h \in Host
  PROVE  h.minutes \in Nat
  <1>1. PICK n \in Limits \cup {0} : h.minutes = n
    BY DEF Host
  <1>2. n \in Nat
    BY ConstantsAssumption
  <1> QED
    BY <1>1, <1>2

\* A command that begins changes nothing on the box, and finds it running.
LEMMA BeginSteps ==
  ASSUME IInv, NEW p \in Procs, NEW cmd \in {"set", "update", "delete"},
         NEW m \in Limits \cup {0}, NEW step \in Steps \ InstallSteps, Begin(p, cmd, m, step)
  PROVE  IInv'
  <1>1. TypeOK'
    BY ConstantsAssumption DEF IInv, TypeOK, Begin, Goto, Arg, box, Host, Steps
  <1>2. pc' = [pc EXCEPT ![p] = step] /\ up' = up /\ up /\ pc \in [Procs -> Steps]
    BY DEF Begin, Goto, box, IInv, TypeOK
  <1>3. ScriptsRun' /\ (BootCounts' => BootCounts)
    BY <1>2 DEF Begin, box, IInv, ScriptsRun, BootCounts
  <1> QED
    BY <1>1, <1>3 DEF IInv, AgeEnough, AgeNotMore, Begin, box

\* A command of a script that is done keeps file and truth together: it leaves both alone,
\* or writes the file, or leaves nothing in it to read.
LEMMA ScriptSteady ==
  ASSUME IInv, NEW p \in Procs, NEW step \in ScriptSteps, NEW then \in ScriptSteps \cup {"setRow"},
         Script(p, step, then),
         host' \in Host, host'.timer \/ host'.boot => host'.files,
         checked' \in BOOLEAN,
         \/ /\ age' = age /\ quiet' = quiet
            /\ then \in InstallSteps \/ (host'.boot /\ ~host.boot) => step \in InstallSteps
         \/ WriteActivity
         \/ age' \in {NoFile, Empty} /\ quiet' = quiet
  PROVE  IInv'
  <1>1. age' \in 0..MaxAge \cup {NoFile, Empty} /\ quiet' \in 0..MaxAge
    BY ConstantsAssumption DEF WriteActivity, IInv, TypeOK
  <1>2. pc' = [pc EXCEPT ![p] = then] /\ pc \in [Procs -> Steps] /\ up' = up /\ pc[p] = step
    BY DEF Script, Goto, At, IInv, TypeOK
  <1>3. pc' \in [Procs -> Steps]
    BY <1>2 DEF Steps
  <1>4. TypeOK'
    BY <1>1, <1>3 DEF Script, counts, IInv, TypeOK
  <1>5. ScriptsRun'
    BY <1>2 DEF IInv, ScriptsRun
  <1>6. AgeEnough' /\ AgeNotMore'
    <2>1. CASE WriteActivity
      BY <2>1 DEF WriteActivity, AgeEnough, AgeNotMore
    <2>2. CASE age' \in {NoFile, Empty}
      BY <2>2, ConstantsAssumption DEF AgeEnough, AgeNotMore
    <2>3. CASE /\ age' = age /\ quiet' = quiet
               /\ then \in InstallSteps \/ (host'.boot /\ ~host.boot) => step \in InstallSteps
      <3>1. BootCounts' => BootCounts
        BY <1>2, <2>3 DEF BootCounts, Host
      <3> QED
        BY <2>3, <3>1 DEF IInv, AgeEnough, AgeNotMore
    <2> QED
      BY <2>1, <2>2, <2>3
  <1> QED
    BY <1>4, <1>5, <1>6 DEF IInv

\* The scripts of set and update.
LEMMA SetSteps ==
  ASSUME IInv, NEW p \in Procs,
         \/ EmptyMinutes(p) \/ EchoMinutes(p) \/ EmptyActivity(p) \/ DateActivity(p)
         \/ InstallUnits(p) \/ EnableTimer(p) \/ EnableBoot(p) \/ StartBoot(p)
  PROVE  IInv'
  <1>a. host \in Host /\ (host.timer \/ host.boot => host.files) /\ checked \in BOOLEAN
        /\ arg[p].minutes \in Limits \cup {0}
    BY DEF IInv, TypeOK, Arg
  <1>1. CASE EmptyMinutes(p) \/ EchoMinutes(p)
    <2>1. PICK m \in Limits \cup {0} : host' = [host EXCEPT !.minutes = m]
      BY <1>1, <1>a DEF EmptyMinutes, EchoMinutes
    <2>2. host' \in Host /\ host'.files = host.files /\ host'.timer = host.timer
          /\ host'.boot = host.boot
      BY <1>a, <2>1 DEF Host
    <2> QED
      BY <1>1, <1>a, <2>2, ScriptSteady DEF EmptyMinutes, EchoMinutes, ScriptSteps, WriteSteps,
         InstallSteps
  <1>2. CASE EmptyActivity(p)
    BY <1>2, <1>a, ScriptSteady DEF EmptyActivity, ScriptSteps, WriteSteps
  <1>3. CASE DateActivity(p)
    <2>1. (IF arg[p].cmd = "set" THEN "units" ELSE "setRow") \in ScriptSteps \cup {"setRow"}
      BY DEF ScriptSteps, InstallSteps
    <2> QED
      BY <1>3, <1>a, <2>1, ScriptSteady DEF DateActivity, ScriptSteps, WriteSteps
  <1>4. CASE InstallUnits(p)
    <2>1. host' \in Host /\ host'.files /\ host'.boot = host.boot
      BY <1>4, <1>a DEF InstallUnits, Host
    <2> QED
      BY <1>4, <1>a, <2>1, ScriptSteady DEF InstallUnits, ScriptSteps, InstallSteps
  <1>5. CASE EnableTimer(p)
    <2>1. host' \in Host /\ host'.files /\ host'.boot = host.boot /\ checked' \in BOOLEAN
      BY <1>5, <1>a DEF EnableTimer, Host, TimerRuns
    <2> QED
      BY <1>5, <2>1, ScriptSteady DEF EnableTimer, ScriptSteps, InstallSteps
  <1>6. CASE EnableBoot(p)
    <2>1. host' \in Host /\ host'.files
      BY <1>6, <1>a DEF EnableBoot, Host
    <2> QED
      BY <1>6, <1>a, <2>1, ScriptSteady DEF EnableBoot, ScriptSteps, InstallSteps
  <1>7. CASE StartBoot(p)
    BY <1>7, <1>a, ScriptSteady DEF StartBoot, ScriptSteps, InstallSteps
  <1> QED
    BY <1>1, <1>2, <1>3, <1>4, <1>5, <1>6, <1>7

\* The script of delete.
LEMMA DeleteSteps ==
  ASSUME IInv, NEW p \in Procs,
         \/ DisableTimer(p) \/ DisableBoot(p) \/ RemoveUnits(p) \/ RemoveMinutes(p)
         \/ RemoveActivity(p)
  PROVE  IInv'
  <1>a. host \in Host /\ (host.timer \/ host.boot => host.files) /\ checked \in BOOLEAN
    BY DEF IInv, TypeOK
  <1>b. 0 \in Limits \cup {0}
    OBVIOUS
  <1>1. CASE DisableTimer(p) \/ DisableBoot(p) \/ RemoveUnits(p) \/ RemoveMinutes(p)
    <2>1. host' \in Host /\ (host'.timer \/ host'.boot => host'.files)
          /\ (host'.boot => host.boot)
      BY <1>1, <1>a, <1>b DEF DisableTimer, DisableBoot, RemoveUnits, RemoveMinutes, Host
    <2> QED
      BY <1>1, <1>a, <2>1, ScriptSteady DEF DisableTimer, DisableBoot, RemoveUnits, RemoveMinutes,
         ScriptSteps, RemoveSteps, InstallSteps
  <1>2. CASE RemoveActivity(p)
    BY <1>2, <1>a, ScriptSteady DEF RemoveActivity, ScriptSteps, RemoveSteps
  <1> QED
    BY <1>1, <1>2

\* The end of a command, in whatever way.
LEMMA EndSteps ==
  ASSUME IInv, NEW p \in Procs,
         UnitsMissing(p) \/ SetInstanceIdleStopMinutes(p) \/ Abort(p)
  PROVE  IInv'
  <1>1. Exit(p) /\ UNCHANGED <<box, quiet, lone>>
    BY DEF UnitsMissing, SetInstanceIdleStopMinutes, Abort
  <1>2. pc' = [pc EXCEPT ![p] = "idle"] /\ pc \in [Procs -> Steps]
    BY <1>1 DEF Exit, Goto, IInv, TypeOK
  <1>3. pc' \in [Procs -> Steps] /\ arg' \in [Procs -> Arg]
    BY <1>1, <1>2 DEF Exit, IInv, TypeOK, NoArg, Arg, Steps
  <1>4. row' \in Limits \cup {0} /\ cut' \in BOOLEAN
    BY DEF UnitsMissing, SetInstanceIdleStopMinutes, Apart, Abort, IInv, TypeOK, Arg
  <1>5. started' \in 0..MaxCommands /\ faults' \in 0..MaxFaults
    BY ConstantsAssumption
       DEF UnitsMissing, SetInstanceIdleStopMinutes, Abort, counts, IInv, TypeOK
  <1>6. TypeOK'
    BY <1>1, <1>3, <1>4, <1>5 DEF box, IInv, TypeOK
  <1>7. ScriptsRun' /\ (BootCounts' => BootCounts)
    BY <1>1, <1>2 DEF box, IInv, ScriptsRun, BootCounts, ScriptSteps, WriteSteps, InstallSteps,
       RemoveSteps
  <1> QED
    BY <1>1, <1>6, <1>7 DEF box, IInv, AgeEnough, AgeNotMore

\* The box goes off, and the scripts on it with it.
LEMMA OffSteps ==
  ASSUME IInv, PowerOff
  PROVE  IInv'
  <1> DEFINE killed == {p \in Procs : pc[p] \in ScriptSteps}
  <1>1. /\ pc' = [p \in Procs |-> IF p \in killed THEN "idle" ELSE pc[p]]
        /\ arg' = [p \in Procs |-> IF p \in killed THEN NoArg ELSE arg[p]]
        /\ cut' = (cut \/ \E p \in killed : pc[p] \in Between)
    BY DEF PowerOff
  <1>2. pc' \in [Procs -> Steps] /\ arg' \in [Procs -> Arg] /\ cut' \in BOOLEAN
    BY <1>1 DEF IInv, TypeOK, NoArg, Arg, Steps
  <1>3. \A p \in Procs : pc'[p] \notin ScriptSteps
    BY <1>1 DEF ScriptSteps, WriteSteps, InstallSteps, RemoveSteps
  <1>4. TypeOK'
    BY <1>2 DEF PowerOff, counts, IInv, TypeOK
  <1>5. ScriptsRun' /\ (BootCounts' => BootCounts)
    BY <1>3 DEF PowerOff, ScriptsRun, BootCounts, ScriptSteps
  <1> QED
    BY <1>4, <1>5 DEF PowerOff, IInv, AgeEnough, AgeNotMore

\* The box by itself.
LEMMA BoxSteps ==
  ASSUME IInv, Check \/ Boot \/ Login \/ Logout \/ Tick
  PROVE  IInv'
  <1>a. 0 \in 0..MaxAge
    BY ConstantsAssumption
  <1>b. quiet \in 0..MaxAge /\ age \in 0..MaxAge \cup {NoFile, Empty}
    BY DEF IInv, TypeOK
  <1>1. CASE Check
    <2>1. age' \in 0..MaxAge \cup {NoFile, Empty} /\ quiet' \in 0..MaxAge /\ halting' \in BOOLEAN
      BY <1>1, <1>a, <1>b DEF Check, WriteActivity
    <2>2. TypeOK'
      BY <1>1, <2>1 DEF Check, counts, IInv, TypeOK
    <2>3. WriteActivity \/ (age' = age /\ quiet' = quiet)
      BY <1>1 DEF Check
    <2> QED
      BY <1>1, <2>2, <2>3 DEF Check, WriteActivity, IInv, ScriptsRun, BootCounts, AgeEnough,
         AgeNotMore
  <1>2. CASE Boot
    <2>1. TypeOK'
      BY <1>2, <1>a, <1>b DEF Boot, BootReset, IInv, TypeOK, counts
    <2>2. \A p \in Procs : pc[p] \notin ScriptSteps
      BY <1>2 DEF Boot, IInv, ScriptsRun
    <2>3. ScriptsRun' /\ (BootCounts' => host.boot)
      BY <1>2, <2>2 DEF Boot, ScriptsRun, BootCounts, ScriptSteps
    <2>4. CASE host.boot
      BY <1>2, <2>1, <2>3, <2>4 DEF Boot, BootReset, IInv, AgeEnough, AgeNotMore
    <2>5. CASE ~host.boot
      BY <1>2, <2>1, <2>3, <2>5 DEF Boot, BootReset, IInv, AgeEnough, AgeNotMore
    <2> QED
      BY <2>4, <2>5
  <1>3. CASE Login \/ Logout
    <2>1. session' \in BOOLEAN
      BY <1>3 DEF Login, Logout
    <2> QED
      BY <1>3, <2>1 DEF Login, Logout, counts, IInv, TypeOK, ScriptsRun, AgeEnough, AgeNotMore,
         BootCounts
  <1>4. CASE Tick
    <2>1. age \in Nat => Older(age) \in 0..MaxAge
                          /\ (quiet <= age => Older(quiet) <= Older(age))
                          /\ (age <= quiet => Older(age) <= Older(quiet))
      BY <1>a, <1>b, AgeIsTime, OlderGrows
    <2>2. Older(quiet) \in 0..MaxAge
      BY <1>a, <1>b, OlderGrows
    <2>3. TypeOK'
      BY <1>4, <1>b, <2>1, <2>2 DEF Tick, IInv, TypeOK, counts
    <2>4. age' \in Nat => age \in Nat /\ age' = Older(age)
      BY <1>4 DEF Tick
    <2>5. quiet' = Older(quiet) /\ (BootCounts' => BootCounts) /\ ScriptsRun'
      BY <1>4 DEF Tick, BootCounts, IInv, ScriptsRun
    <2> QED
      BY <2>1, <2>3, <2>4, <2>5 DEF IInv, AgeEnough, AgeNotMore
  <1> QED
    BY <1>1, <1>2, <1>3, <1>4

-----------------------------------------------------------------------------
\* IInv is inductive.
THEOREM Inductive == Spec => []IInv
  <1>1. IInv /\ [Next]_vars => IInv'
    <2> SUFFICES ASSUME IInv, [Next]_vars PROVE IInv'
      OBVIOUS
    <2>a. "openMinutes" \in Steps \ InstallSteps /\ "disableTimer" \in Steps \ InstallSteps
      BY DEF Steps, ScriptSteps, WriteSteps, InstallSteps, RemoveSteps
    <2>1. ASSUME NEW p \in Procs, NEW m \in Limits, SetBegin(p, m) \/ UpdateBegin(p, m)
          PROVE  IInv'
      BY <2>a, <2>1, BeginSteps DEF SetBegin, UpdateBegin
    <2>2. ASSUME NEW p \in Procs, DeleteBegin(p) PROVE IInv'
      BY <2>a, <2>2, BeginSteps DEF DeleteBegin
    <2>3. ASSUME NEW p \in Procs, Step(p) \/ Abort(p) PROVE IInv'
      BY <2>3, SetSteps, DeleteSteps, EndSteps DEF Step
    <2>4. CASE UNCHANGED vars
      BY <2>4 DEF vars, IInv, TypeOK, ScriptsRun, AgeEnough, AgeNotMore, BootCounts
    <2> QED
      BY <2>1, <2>2, <2>3, <2>4, BoxSteps, OffSteps DEF Next, Halt, Stop
  <1> QED
    BY <1>1, InitHolds, PTL DEF Spec

\* Types, and that no unit is enabled which is not installed.
THEOREM TypeCorrect == Spec => []TypeOK
  BY Inductive, PTL DEF IInv

\* Only the check calls for a shutdown.
LEMMA OnlyCheckHalts ==
  ASSUME Next, halting', ~halting
  PROVE  Check
  BY DEF Next, Step, SetBegin, UpdateBegin, DeleteBegin, Begin, Script, EmptyMinutes, EchoMinutes,
     EmptyActivity, DateActivity, InstallUnits, EnableTimer, EnableBoot, StartBoot, UnitsMissing,
     DisableTimer, DisableBoot, RemoveUnits, RemoveMinutes, RemoveActivity,
     SetInstanceIdleStopMinutes, Abort, Halt, Stop, PowerOff, Boot, Login, Logout, Tick, box

\* A period is checked by the check, or begins with the boot.
LEMMA OnlyCheckChecks ==
  ASSUME Next, checked', ~checked
  PROVE  Check \/ Boot
  BY DEF Next, Step, SetBegin, UpdateBegin, DeleteBegin, Begin, Script, EmptyMinutes, EchoMinutes,
     EmptyActivity, DateActivity, InstallUnits, EnableTimer, EnableBoot, StartBoot, UnitsMissing,
     DisableTimer, DisableBoot, RemoveUnits, RemoveMinutes, RemoveActivity,
     SetInstanceIdleStopMinutes, Abort, Halt, Stop, PowerOff, Login, Logout, Tick, box

\* A box with a timer is shut down once its timeout has passed, when the timer fires and
\* there is a time of the last activity to read.
THEOREM NotLate == Spec => StopsInTime
  <1>1. IInv /\ [Next]_vars
        => [~checked /\ checked' /\ host.minutes > 0 /\ age # Empty
            => halting' \/ quiet' < host.minutes]_vars
    <2> SUFFICES ASSUME IInv, Next, ~checked, checked', host.minutes > 0, age # Empty, ~halting'
                 PROVE  quiet' < host.minutes
      OBVIOUS
    <2>1. /\ quiet \in 0..MaxAge /\ age \in 0..MaxAge \cup {NoFile, Empty}
          /\ host.minutes \in Nat /\ MaxAge \in Nat
      BY MinutesNat, ConstantsAssumption DEF IInv, TypeOK
    <2>2. CASE quiet' = 0
      BY <2>1, <2>2
    <2>3. CASE quiet' # 0
      <3>1. Check
        BY <2>3, OnlyCheckChecks DEF Boot
      <3>2. ~session /\ age # NoFile /\ quiet' = quiet
        BY <2>3, <3>1 DEF Check, WriteActivity
      <3>3. age \in Nat
        BY <2>1, <3>2
      <3>4. ~(age >= host.minutes)
        BY <3>1, <3>2, <3>3 DEF Check, Idle
      <3> QED
        BY <2>1, <3>2, <3>3, <3>4 DEF IInv, AgeEnough
    <2> QED
      BY <2>2, <2>3
  <1> QED
    BY <1>1, Inductive, PTL DEF Spec, StopsInTime

\* The timer never shuts the box down in front of an open terminal, nor before the timeout
\* has passed since a terminal, the boot and the last write of last-activity, provided the
\* boot service is enabled; what it goes by between a command's two writes is not promised.
THEOREM NotEarly == Spec => NeverEarly
  <1>1. IInv /\ [Next]_vars
        => [halting' /\ ~halting /\ host.boot => ~session /\ quiet >= host.minutes]_vars
    <2> SUFFICES ASSUME IInv, Next, halting', ~halting, host.boot
                 PROVE  ~session /\ quiet >= host.minutes
      OBVIOUS
    <2>1. ~session /\ age \in Nat /\ age >= host.minutes
      BY OnlyCheckHalts DEF Check, Idle
    <2>2. quiet \in 0..MaxAge /\ host.minutes \in Nat /\ MaxAge \in Nat
      BY MinutesNat, ConstantsAssumption DEF IInv, TypeOK
    <2>3. age <= quiet
      BY <2>1 DEF IInv, AgeNotMore, BootCounts
    <2> QED
      BY <2>1, <2>2, <2>3
  <1> QED
    BY <1>1, Inductive, PTL DEF Spec, NeverEarly

-----------------------------------------------------------------------------
(* The row and the box.                                                                  *)

\* What a command is about, by the step it is at.
CommandAt(step, a) ==
  /\ step \in InstallSteps => a.cmd = "set"
  /\ step \in WriteSteps => a.cmd \in {"set", "update"}
  /\ step \in RemoveSteps => a.cmd = "delete"
  /\ step = "setRow" => a.cmd \in {"set", "update", "delete"}
  /\ a.cmd = "delete" => a.minutes = 0
  /\ a.cmd \in {"set", "update"} => a.minutes # 0
Commands == \A p \in Procs : CommandAt(pc[p], arg[p])

\* Beside a command that has been the only one so far no other is under way.
Solo == \A p \in lone : \A q \in Procs \ {p} : pc[q] = "idle"

\* How far a command that has been the only one has brought the box, by its next step.
BroughtTo(step, a, h) ==
  /\ step \in {"openActivity", "activity"} \cup InstallSteps => h.minutes = a.minutes
  /\ step \in {"enableBoot", "startBoot"} => h.timer
  /\ step \in RemoveSteps \ {"disableTimer"} => ~h.timer
  /\ step = "setRow" =>
       /\ a.cmd = "delete" => ~h.timer
       /\ a.cmd # "delete" => h.minutes = a.minutes
       /\ a.cmd = "set" => h.timer
Reached(p) ==
  /\ BroughtTo(pc[p], arg[p], host)
  /\ arg[p].cmd = "update" => cut \/ host.timer
LoneReached == \A p \in lone : Reached(p)

\* When no command has changed the box and not yet the row, the two agree.
Agree == row = IF host.timer THEN host.minutes ELSE 0
Settled == ~cut /\ (\A p \in Procs : pc[p] \notin Between) => Agree

RowInv == Commands /\ Solo /\ LoneReached /\ Settled

\* At first neither the row nor the box has a timeout.
LEMMA RowInit == Init => RowInv
  BY DEF Init, RowInv, Commands, CommandAt, NoArg, Solo, LoneReached, Settled, Agree, Bare,
     InstallSteps, WriteSteps, RemoveSteps

\* A command that begins alone finds row and box in agreement, unless one was cut short.
LEMMA RowBegin ==
  ASSUME TypeOK, RowInv, NEW p \in Procs, NEW cmd \in {"set", "update", "delete"},
         NEW m \in Limits \cup {0}, NEW step \in {"openMinutes", "disableTimer"},
         CommandAt(step, [cmd |-> cmd, minutes |-> m]),
         cmd = "update" => row # 0,
         Begin(p, cmd, m, step)
  PROVE  RowInv'
  <1>1. /\ pc' = [pc EXCEPT ![p] = step] /\ arg' = [arg EXCEPT ![p] = [cmd |-> cmd, minutes |-> m]]
        /\ pc[p] = "idle" /\ lone' = IF Busy = {} THEN {p} ELSE {}
        /\ host' = host /\ row' = row /\ cut' = cut
        /\ pc \in [Procs -> Steps] /\ arg \in [Procs -> Arg]
    BY DEF Begin, At, Goto, box, TypeOK
  <1>2. /\ pc'[p] = step /\ arg'[p] = [cmd |-> cmd, minutes |-> m]
        /\ \A q \in Procs \ {p} : pc'[q] = pc[q] /\ arg'[q] = arg[q]
    BY <1>1
  <1>3. Commands'
    BY <1>2 DEF RowInv, Commands
  <1>4. Solo'
    BY <1>1, <1>2 DEF Solo, Busy, At
  <1>5. LoneReached'
    <2>1. BroughtTo(step, arg'[p], host')
      BY DEF BroughtTo, InstallSteps, RemoveSteps
    <2>2. ASSUME Busy = {}, cmd = "update", ~cut PROVE host.timer
      <3>1. \A q \in Procs : pc[q] \notin Between
        BY <2>2 DEF Busy, At, Between
      <3> QED BY <2>2, <3>1 DEF RowInv, Settled, Agree
    <2> QED BY <1>1, <1>2, <2>1, <2>2 DEF LoneReached, Reached
  <1>6. Settled'
    BY <1>1, <1>2 DEF RowInv, Settled, Agree, Between
  <1> QED BY <1>3, <1>4, <1>5, <1>6 DEF RowInv

\* A command that ends leaves row and box in agreement, or it was cut short: what it has
\* done on the box by itself is noted.
LEMMA RowExit ==
  ASSUME TypeOK, RowInv, NEW p \in Procs, pc[p] # "idle", Exit(p), UNCHANGED <<host, row, lone>>,
         pc[p] \in Between => cut', pc[p] \notin Between => cut' = cut
  PROVE  RowInv'
  <1>1. /\ pc' = [pc EXCEPT ![p] = "idle"] /\ arg' = [arg EXCEPT ![p] = NoArg]
        /\ pc \in [Procs -> Steps] /\ arg \in [Procs -> Arg]
    BY DEF Exit, Goto, TypeOK
  <1>2. /\ pc'[p] = "idle" /\ arg'[p] = NoArg
        /\ \A q \in Procs \ {p} : pc'[q] = pc[q] /\ arg'[q] = arg[q]
    BY <1>1
  <1>3. Commands'
    BY <1>2 DEF RowInv, Commands, CommandAt, NoArg, InstallSteps, WriteSteps, RemoveSteps
  <1>4. lone \subseteq {p}
    BY DEF RowInv, Solo, TypeOK
  <1>5. Solo' /\ LoneReached'
    BY <1>2, <1>4 DEF RowInv, Solo, LoneReached, Reached, BroughtTo, NoArg, InstallSteps,
       RemoveSteps
  <1>6. Settled'
    BY <1>2 DEF RowInv, Settled, Agree, Between
  <1> QED BY <1>3, <1>5, <1>6 DEF RowInv

\* A command of a script that is done: the box is changed and the row not yet.
LEMMA RowScript ==
  ASSUME TypeOK, RowInv, NEW p \in Procs, NEW step \in ScriptSteps, NEW then \in Between,
         Script(p, step, then), CommandAt(then, arg[p]),
         p \in lone => BroughtTo(then, arg[p], host'),
         arg[p].cmd = "update" => host'.timer = host.timer
  PROVE  RowInv'
  <1>1. /\ pc' = [pc EXCEPT ![p] = then] /\ pc \in [Procs -> Steps]
        /\ UNCHANGED <<row, arg, lone, cut>>
    BY DEF Script, Goto, TypeOK
  <1>2. pc'[p] = then /\ \A q \in Procs \ {p} : pc'[q] = pc[q]
    BY <1>1
  <1>3. Commands'
    BY <1>1, <1>2 DEF RowInv, Commands
  <1>5. lone \subseteq {p}
    BY <1>1 DEF RowInv, Solo, Script, At, ScriptSteps, WriteSteps, InstallSteps, RemoveSteps,
       TypeOK
  <1>6. Solo'
    BY <1>1, <1>2, <1>5 DEF RowInv, Solo
  <1>7. LoneReached'
    BY <1>1, <1>2, <1>5 DEF RowInv, LoneReached, Reached
  <1>8. Settled'
    BY <1>2 DEF Settled
  <1> QED BY <1>3, <1>6, <1>7, <1>8 DEF RowInv

\* The scripts of set and update.
LEMMA RowSet ==
  ASSUME TypeOK, RowInv, NEW p \in Procs,
         \/ EmptyMinutes(p) \/ EchoMinutes(p) \/ EmptyActivity(p) \/ DateActivity(p)
         \/ InstallUnits(p) \/ EnableTimer(p) \/ EnableBoot(p) \/ StartBoot(p)
  PROVE  RowInv'
  <1>a. /\ CommandAt(pc[p], arg[p]) /\ (p \in lone => BroughtTo(pc[p], arg[p], host))
        /\ host \in Host /\ arg[p] \in Arg
    BY DEF RowInv, Commands, LoneReached, Reached, TypeOK
  <1> DEFINE StepTo(step, then) ==
        /\ pc[p] = step /\ Script(p, step, then)
        /\ step \in ScriptSteps /\ then \in Between
        /\ CommandAt(then, arg[p])
  <1>1. CASE EmptyMinutes(p)
    <2>1. StepTo("openMinutes", "minutes")
      BY <1>1, <1>a DEF EmptyMinutes, Script, At, CommandAt, Steps, ScriptSteps, WriteSteps,
         InstallSteps, RemoveSteps, Between
    <2>2. host'.timer = host.timer /\ BroughtTo("minutes", arg[p], host')
      BY <1>1, <1>a DEF EmptyMinutes, Host, BroughtTo, InstallSteps, RemoveSteps
    <2> QED BY <2>1, <2>2, RowScript
  <1>2. CASE EchoMinutes(p)
    <2>1. StepTo("minutes", "openActivity")
      BY <1>2, <1>a DEF EchoMinutes, Script, At, CommandAt, Steps, ScriptSteps, WriteSteps,
         InstallSteps, RemoveSteps, Between
    <2>2. host'.timer = host.timer /\ BroughtTo("openActivity", arg[p], host')
      BY <1>2, <1>a DEF EchoMinutes, Host, BroughtTo, InstallSteps, RemoveSteps
    <2> QED BY <2>1, <2>2, RowScript
  <1>3. CASE EmptyActivity(p)
    <2>1. StepTo("openActivity", "activity") /\ host' = host
      BY <1>3, <1>a DEF EmptyActivity, Script, At, CommandAt, Steps, ScriptSteps, WriteSteps,
         InstallSteps, RemoveSteps, Between
    <2>2. p \in lone => BroughtTo("activity", arg[p], host')
      BY <1>a, <2>1 DEF BroughtTo, InstallSteps, RemoveSteps
    <2> QED BY <2>1, <2>2, RowScript
  <1>4. CASE DateActivity(p)
    <2>1. pc[p] = "activity" /\ host' = host /\ arg[p].cmd \in {"set", "update"}
      BY <1>4, <1>a DEF DateActivity, Script, At, CommandAt, WriteSteps
    <2>2. CASE arg[p].cmd = "set"
      <3>1. StepTo("activity", "units")
        BY <1>4, <1>a, <2>1, <2>2 DEF DateActivity, CommandAt, Steps, ScriptSteps, WriteSteps,
           InstallSteps, RemoveSteps, Between
      <3>2. p \in lone => BroughtTo("units", arg[p], host')
        BY <1>a, <2>1 DEF BroughtTo, InstallSteps, RemoveSteps
      <3> QED BY <2>1, <3>1, <3>2, RowScript
    <2>3. CASE arg[p].cmd = "update"
      <3>1. StepTo("activity", "setRow")
        BY <1>4, <1>a, <2>1, <2>3 DEF DateActivity, CommandAt, Steps, ScriptSteps, WriteSteps,
           InstallSteps, RemoveSteps, Between
      <3>2. p \in lone => BroughtTo("setRow", arg[p], host')
        BY <1>a, <2>1, <2>3 DEF BroughtTo, InstallSteps, RemoveSteps
      <3> QED BY <2>1, <3>1, <3>2, RowScript
    <2> QED BY <2>1, <2>2, <2>3
  <1>5. CASE InstallUnits(p)
    <2>1. StepTo("units", "enableTimer") /\ arg[p].cmd = "set"
      BY <1>5, <1>a DEF InstallUnits, Script, At, CommandAt, Steps, ScriptSteps, WriteSteps,
         InstallSteps, RemoveSteps, Between
    <2>2. p \in lone => BroughtTo("enableTimer", arg[p], host')
      BY <1>5, <1>a, <2>1 DEF InstallUnits, Host, BroughtTo, InstallSteps, RemoveSteps
    <2> QED BY <2>1, <2>2, RowScript
  <1>6. CASE EnableTimer(p)
    <2>1. StepTo("enableTimer", "enableBoot") /\ arg[p].cmd = "set"
      BY <1>6, <1>a DEF EnableTimer, Script, At, CommandAt, Steps, ScriptSteps, WriteSteps,
         InstallSteps, RemoveSteps, Between
    <2>2. p \in lone => BroughtTo("enableBoot", arg[p], host')
      BY <1>6, <1>a, <2>1 DEF EnableTimer, Host, BroughtTo, InstallSteps, RemoveSteps
    <2> QED BY <2>1, <2>2, RowScript
  <1>7. CASE EnableBoot(p)
    <2>1. StepTo("enableBoot", "startBoot") /\ arg[p].cmd = "set"
      BY <1>7, <1>a DEF EnableBoot, Script, At, CommandAt, Steps, ScriptSteps, WriteSteps,
         InstallSteps, RemoveSteps, Between
    <2>2. p \in lone => BroughtTo("startBoot", arg[p], host')
      BY <1>7, <1>a, <2>1 DEF EnableBoot, Host, BroughtTo, InstallSteps, RemoveSteps
    <2> QED BY <2>1, <2>2, RowScript
  <1>8. CASE StartBoot(p)
    <2>1. StepTo("startBoot", "setRow") /\ arg[p].cmd = "set" /\ host' = host
      BY <1>8, <1>a DEF StartBoot, Script, At, CommandAt, Steps, ScriptSteps, WriteSteps,
         InstallSteps, RemoveSteps, Between
    <2>2. p \in lone => BroughtTo("setRow", arg[p], host')
      BY <1>a, <2>1 DEF BroughtTo, InstallSteps, RemoveSteps
    <2> QED BY <2>1, <2>2, RowScript
  <1> QED
    BY <1>1, <1>2, <1>3, <1>4, <1>5, <1>6, <1>7, <1>8

\* The script of delete.
LEMMA RowDelete ==
  ASSUME TypeOK, RowInv, NEW p \in Procs,
         \/ DisableTimer(p) \/ DisableBoot(p) \/ RemoveUnits(p) \/ RemoveMinutes(p)
         \/ RemoveActivity(p)
  PROVE  RowInv'
  <1>a. /\ CommandAt(pc[p], arg[p]) /\ (p \in lone => BroughtTo(pc[p], arg[p], host))
        /\ host \in Host /\ arg[p] \in Arg
    BY DEF RowInv, Commands, LoneReached, Reached, TypeOK
  <1>1. PICK step \in RemoveSteps, then \in (RemoveSteps \cup {"setRow"}) \ {"disableTimer"} :
          /\ pc[p] = step /\ Script(p, step, then)
          /\ (step = "disableTimer" => ~host'.timer) /\ (host'.timer => host.timer)
    BY <1>a DEF DisableTimer, DisableBoot, RemoveUnits, RemoveMinutes, RemoveActivity, Script, At,
       RemoveSteps, Host
  <1>2. arg[p].cmd = "delete" /\ then \in Between /\ step \in ScriptSteps
    BY <1>a, <1>1 DEF CommandAt, Between, Steps, ScriptSteps, RemoveSteps
  <1>3. CommandAt(then, arg[p])
    BY <1>a, <1>1, <1>2 DEF CommandAt, InstallSteps, WriteSteps, RemoveSteps
  <1>4. p \in lone => BroughtTo(then, arg[p], host')
    BY <1>a, <1>1, <1>2 DEF BroughtTo, InstallSteps, RemoveSteps
  <1> QED
    BY <1>1, <1>2, <1>3, <1>4, RowScript

\* The write of the row, with which a command ends.
LEMMA RowWrite ==
  ASSUME TypeOK, RowInv, NEW p \in Procs, SetInstanceIdleStopMinutes(p)
  PROVE  RowInv'
  <1>1. /\ pc[p] = "setRow" /\ row' = arg[p].minutes /\ cut' = Apart(p) /\ host' = host
        /\ pc' = [pc EXCEPT ![p] = "idle"] /\ arg' = [arg EXCEPT ![p] = NoArg] /\ lone' = lone
        /\ pc \in [Procs -> Steps] /\ arg \in [Procs -> Arg]
        /\ CommandAt(pc[p], arg[p]) /\ (p \in lone => Reached(p))
    BY DEF SetInstanceIdleStopMinutes, At, Exit, Goto, box, TypeOK, RowInv, Commands, LoneReached
  <1>2. /\ pc'[p] = "idle" /\ arg'[p] = NoArg
        /\ \A q \in Procs \ {p} : pc'[q] = pc[q] /\ arg'[q] = arg[q]
    BY <1>1
  <1>3. Commands'
    BY <1>2 DEF RowInv, Commands, CommandAt, NoArg, InstallSteps, WriteSteps, RemoveSteps
  <1>4. lone \subseteq {p}
    BY <1>1 DEF RowInv, Solo, TypeOK
  <1>5. Solo' /\ LoneReached'
    BY <1>1, <1>2, <1>4 DEF RowInv, Solo, LoneReached, Reached, BroughtTo, NoArg, InstallSteps,
       RemoveSteps
  <1>6. Settled'
    <2> SUFFICES ASSUME ~cut' PROVE row' = IF host'.timer THEN host'.minutes ELSE 0
      BY DEF Settled, Agree
    <2>1. p \in lone /\ (arg[p].cmd = "update" => ~cut)
      BY <1>1 DEF Apart
    <2> QED BY <1>1, <2>1 DEF Reached, BroughtTo, CommandAt
  <1> QED BY <1>3, <1>5, <1>6 DEF RowInv

\* When the box goes off, the commands whose scripts were under way end.
LEMMA RowOff ==
  ASSUME TypeOK, RowInv, PowerOff
  PROVE  RowInv'
  <1> DEFINE killed == {p \in Procs : pc[p] \in ScriptSteps}
  <1>1. /\ pc' = [p \in Procs |-> IF p \in killed THEN "idle" ELSE pc[p]]
        /\ arg' = [p \in Procs |-> IF p \in killed THEN NoArg ELSE arg[p]]
        /\ cut' = (cut \/ \E p \in killed : pc[p] \in Between)
        /\ UNCHANGED <<host, row, lone>> /\ lone \subseteq Procs
    BY DEF PowerOff, TypeOK
  <1>2. \A p \in Procs : \/ pc'[p] = "idle" /\ arg'[p] = NoArg
                         \/ p \notin killed /\ pc'[p] = pc[p] /\ arg'[p] = arg[p]
    BY <1>1
  <1>3. Commands'
    BY <1>2 DEF RowInv, Commands, CommandAt, NoArg, InstallSteps, WriteSteps, RemoveSteps
  <1>4. Solo'
    BY <1>1, <1>2 DEF RowInv, Solo
  <1>5. cut => cut'
    BY <1>1
  <1>6. LoneReached'
    BY <1>1, <1>2, <1>5 DEF RowInv, LoneReached, Reached, BroughtTo, NoArg, InstallSteps,
       RemoveSteps
  <1>7. Settled'
    <2> SUFFICES ASSUME ~cut', \A p \in Procs : pc'[p] \notin Between PROVE Agree
      BY <1>1 DEF Settled, Agree
    <2>1. \A p \in Procs : pc[p] \notin Between
      BY <1>1, <1>2
    <2> QED BY <1>5, <2>1 DEF RowInv, Settled
  <1> QED BY <1>3, <1>4, <1>6, <1>7 DEF RowInv

\* Every step keeps what is known of the row and the box.
LEMMA RowNext == TypeOK /\ RowInv /\ [Next]_vars => RowInv'
  <1> SUFFICES ASSUME TypeOK, RowInv, [Next]_vars PROVE RowInv'
    OBVIOUS
  <1>1. ASSUME UNCHANGED <<host, row, pc, arg, lone, cut>> PROVE RowInv'
    BY <1>1 DEF RowInv, Commands, Solo, LoneReached, Reached, Settled, Agree
  <1>2. \A m \in Limits : m # 0
    BY ConstantsAssumption
  <1>3. ASSUME NEW p \in Procs, NEW m \in Limits, SetBegin(p, m) \/ UpdateBegin(p, m)
        PROVE  RowInv'
    <2>1. /\ CommandAt("openMinutes", [cmd |-> "set", minutes |-> m])
          /\ CommandAt("openMinutes", [cmd |-> "update", minutes |-> m])
      BY <1>2 DEF CommandAt, InstallSteps, WriteSteps, RemoveSteps
    <2> QED BY <1>3, <2>1, RowBegin DEF SetBegin, UpdateBegin
  <1>4. ASSUME NEW p \in Procs, DeleteBegin(p) PROVE RowInv'
    <2>1. CommandAt("disableTimer", [cmd |-> "delete", minutes |-> 0])
      BY DEF CommandAt, InstallSteps, WriteSteps, RemoveSteps
    <2> QED BY <1>4, <2>1, RowBegin DEF DeleteBegin
  <1>5. ASSUME NEW p \in Procs, UnitsMissing(p) \/ Abort(p) PROVE RowInv'
    <2>1. /\ pc[p] # "idle" /\ Exit(p) /\ UNCHANGED <<host, row, lone>>
          /\ cut' = (cut \/ pc[p] \in Between) \/ (pc[p] \in Between /\ cut')
      BY <1>5 DEF UnitsMissing, Abort, At, box, Between, Steps, ScriptSteps, InstallSteps
    <2>2. cut \in BOOLEAN
      BY DEF TypeOK
    <2> QED BY <2>1, <2>2, RowExit
  <1>6. ASSUME NEW p \in Procs, Step(p) PROVE RowInv'
    BY <1>5, <1>6, RowSet, RowDelete, RowWrite DEF Step
  <1>7. CASE Check \/ Boot \/ Login \/ Logout \/ Tick
    BY <1>1, <1>7 DEF Check, Boot, Login, Logout, Tick
  <1>8. CASE UNCHANGED vars
    BY <1>1, <1>8 DEF vars
  <1> QED BY <1>3, <1>4, <1>5, <1>6, <1>7, <1>8, RowOff DEF Next, Halt, Stop

\* Between commands the row says what the box does, for any number of processes: a set,
\* update or delete beside which no other ran knows what it has done on the box when it
\* writes the row, and one cut short or overlapped is noted until a set or delete runs alone.
THEOREM RowTrue == Spec => []RowTellsHost
  <1>1. RowInv => RowTellsHost
    BY DEF RowInv, Settled, Agree, RowTellsHost, Busy, At, Between
  <1>2. TypeOK /\ RowInv /\ [Next]_vars => RowInv'
    BY RowNext
  <1> QED
    BY <1>1, <1>2, RowInit, TypeCorrect, PTL DEF Spec

=============================================================================
