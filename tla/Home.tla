-------------------------------- MODULE Home --------------------------------
(***************************************************************************)
(* What outpost keeps on the user's machine: its binary, the PATH lines of *)
(* the shell start-up files, and in ~/.outpost the credentials and the     *)
(* database.  install.sh and update put the first two there, setup and     *)
(* clear-creds write the credentials, the commands on boxes and snapshots  *)
(* write rows, and uninstall takes everything away again.                  *)
(***************************************************************************)
EXTENDS Integers, Sequences, FiniteSets, Functions

CONSTANTS
  Procs,         \* processes: commands, or install.sh
  Dirs,          \* directories to install into
  SystemDirs,    \* those of them that are on everyone's PATH
  Files,         \* shell start-up files
  InitialFiles,  \* what they may hold at first: the user's own lines
  Keys,          \* credentials: an access key with its secret
  Boxes, Images, \* the two kinds of rows
  Blank, NoDir, NoFile, NoDb, NoConfig,   \* "none" of each kind
  MaxCommands,   \* bound: commands started
  MaxKills       \* bound: processes killed

\* A line of a start-up file: install.sh's comment, an export of PATH with a
\* directory, or another line, which may mention a directory.
Line == [kind : {"marker", "export", "other"}, dir : Dirs \cup {NoDir}]
Marker == [kind |-> "marker", dir |-> NoDir]
Export(d) == [kind |-> "export", dir |-> d]

Rows == Boxes \cup Images

ASSUME ConstantsAssumption ==
  /\ SystemDirs \subseteq Dirs
  /\ \A c \in InitialFiles : c \in [Files -> Seq(Line)] /\ \A f \in Files : Marker \notin Range(c[f])
  /\ Boxes \cap Images = {}
  /\ Blank \notin Keys /\ NoDir \notin Dirs /\ NoFile \notin Files
  /\ (\A S \in SUBSET Rows : NoDb # S) /\ NoConfig \notin Keys \cup {Blank}
  /\ MaxCommands \in Nat /\ MaxKills \in Nat

VARIABLES
  exe,       \* the directories that hold the binary
  rc,        \* file -> its lines
  config,    \* config.json: its credentials, possibly Blank, or NoConfig
  temp,      \* the processes whose temporary config file exists
  db,        \* outpost.db: its rows, or NoDb
  pc,        \* process -> the step it takes next
  job,       \* process -> the command and what it is about
  left,      \* uninstall: the start-up files still to clean
  held,      \* uninstall: the lines about to be written back
  stale,     \* processes whose database handle is of a file that was removed
  own,       \* history: the user's lines
  torn,      \* history: files used, or left, while they were empty, or while an
             \* install.sh was between the two lines of its block
  overlap,   \* history: processes beside which another touched the same things
  promised,  \* history: the credentials the user was last told are saved
  made,      \* history: the rows inserted and not deleted since
  crossed,   \* history: the rows inserted while an uninstall was counting or asking,
             \* or into a database file that had been removed
  started, kills

rcVars == <<rc, left, held, torn>>
configVars == <<config, temp, promised>>
dbVars == <<db, stale, made, crossed>>
vars == <<exe, rcVars, configVars, dbVars, pc, job, own, overlap, started, kills>>

-----------------------------------------------------------------------------
Steps == {"idle", "install", "path", "marker", "export", "boxes", "images", "ask",
          "wipeConfig", "wipeDb", "rmdir", "clean", "truncate", "write", "save", "rename",
          "insert", "drop"}

Job == [cmd : {"none", "install", "uninstall", "setup", "clear", "create", "delete"},
        dir : Dirs \cup {NoDir}, file : Files \cup {NoFile},
        key : Keys \cup {Blank}, kept : BOOLEAN]
NoJob == [cmd |-> "none", dir |-> NoDir, file |-> NoFile, key |-> Blank, kept |-> FALSE]

\* What a command writes.
Writes(cmd) ==
  [none |-> {}, install |-> {"exe", "rc"}, uninstall |-> {"exe", "rc", "config", "db"},
   setup |-> {"config"}, clear |-> {"config"}, create |-> {"db"}, delete |-> {"db"}][cmd]

At(p, step) == pc[p] = step
Goto(p, step) == pc' = [pc EXCEPT ![p] = step]

\* The lines install.sh and uninstall match: a directory is looked for anywhere in a
\* line, but only an export right below the marker is taken out.
path_configured_in_rc(s, d) == \E l \in Range(s) : l.dir = d
isoutpostPathExport(l, d) == l.kind = "export" /\ l.dir = d
\* Mutant: the marker is not asked for.
BlockAtUnmarked(s, i, d) == i \in 0..(Len(s) - 1) /\ isoutpostPathExport(s[i + 1], d)
BlockAt(s, i, d) ==
  /\ i \in 1..(Len(s) - 1)
  /\ s[i] = Marker /\ isoutpostPathExport(s[i + 1], d)

\* The lines of s at the places in S, in their order.
LinesAt(s, S) ==
  [n \in 1..Cardinality(S) |-> s[CHOOSE i \in S : Cardinality({j \in S : j < i}) = n - 1]]

cleanShellRCContent(s, d) ==
  LinesAt(s, {i \in DOMAIN s : ~BlockAt(s, i, d) /\ ~BlockAt(s, i - 1, d)})

\* The files uninstall cleans: every one install.sh may have chosen, whatever the shell is
\* now.  One that does not exist is an empty one.
shellRCFiles == Files

\* Mutant: a missing file is not an empty config.
LoadAbsent == config
Load == IF config = NoConfig THEN Blank ELSE config

TableRows == IF db = NoDb THEN {} ELSE db

\* An uninstall has begun to count, and has not yet removed the database.
Uninstalling == \E q \in Procs : pc[q] \in {"boxes", "images", "ask", "wipeConfig", "wipeDb"}

\* An uninstall has emptied the file and has not written it back yet.
Emptied(f) == \E q \in Procs : At(q, "write") /\ job[q].file = f
TornIf(cond, f) == torn' = IF cond THEN torn \cup {f} ELSE torn

\* Another process than p has written the first line of its block, and not the second.
Halfway(p, f) == \E q \in Procs \ {p} : At(q, "export") /\ job[q].file = f

\* Two commands one of which is under way when the other starts.
Overlapping(p, cmd) ==
  LET beside == {q \in Procs \ {p} : Writes(job[q].cmd) \cap Writes(cmd) # {}}
  IN IF beside = {} THEN overlap \ {p} ELSE overlap \cup beside \cup {p}

Begin(p, j, step) ==
  /\ At(p, "idle")
  /\ started < MaxCommands
  /\ started' = started + 1
  /\ job' = [job EXCEPT ![p] = j]
  /\ overlap' = Overlapping(p, j.cmd)
  /\ Goto(p, step)
  /\ UNCHANGED <<exe, own, rcVars, configVars, kills>>

Return(p) ==
  /\ Goto(p, "idle")
  /\ job' = [job EXCEPT ![p] = NoJob]

\* The command goes on, or returns.
Proceed(p, step) == Goto(p, step) /\ UNCHANGED job
Counts == UNCHANGED <<own, overlap, started, kills>>

Init ==
  /\ exe = {}
  /\ rc \in InitialFiles /\ own = rc
  /\ config = NoConfig /\ temp = {} /\ promised = Blank
  /\ db = NoDb /\ stale = {} /\ made = {} /\ crossed = {}
  /\ pc = [p \in Procs |-> "idle"] /\ job = [p \in Procs |-> NoJob]
  /\ left = [p \in Procs |-> {}] /\ held = [p \in Procs |-> <<>>]
  /\ torn = {} /\ overlap = {} /\ started = 0 /\ kills = 0

-----------------------------------------------------------------------------
(* install.sh, run by the user or by update once its question is answered. The start-up *)
(* file is that of the user's shell and of the files there are: any.                    *)

InstallBegin(p) ==
  /\ \E d \in Dirs, f \in Files :
       Begin(p, [NoJob EXCEPT !.cmd = "install", !.dir = d, !.file = f], "install")
  /\ UNCHANGED dbVars

Update(p) ==
  /\ \E d \in exe, f \in Files :
       Begin(p, [NoJob EXCEPT !.cmd = "install", !.dir = d, !.file = f], "install")
  /\ UNCHANGED dbVars

InstallBinary(p) ==
  /\ At(p, "install")
  /\ exe' = exe \cup {job[p].dir}
  /\ IF job[p].dir \in SystemDirs THEN Return(p) ELSE Proceed(p, "path")
  /\ Counts /\ UNCHANGED <<rcVars, configVars, dbVars>>

\* The file is searched, and then a line at a time is appended to it, to what it has then.
ConfigurePath(p) ==
  /\ At(p, "path")
  /\ IF path_configured_in_rc(rc[job[p].file], job[p].dir) THEN Return(p) ELSE Proceed(p, "marker")
  /\ TornIf(Emptied(job[p].file), job[p].file)
  /\ Counts /\ UNCHANGED <<exe, rc, left, held, configVars, dbVars>>

AppendMarker(p) ==
  /\ At(p, "marker")
  /\ LET f == job[p].file IN
       /\ rc' = [rc EXCEPT ![f] = Append(@, Marker)]
       /\ TornIf(Emptied(f) \/ Halfway(p, f), f)
  /\ Proceed(p, "export")
  /\ Counts /\ UNCHANGED <<exe, left, held, configVars, dbVars>>

AppendExport(p) ==
  /\ At(p, "export")
  /\ rc' = [rc EXCEPT ![job[p].file] = Append(@, Export(job[p].dir))]
  /\ Return(p)
  /\ Counts /\ UNCHANGED <<exe, left, held, torn, configVars, dbVars>>

-----------------------------------------------------------------------------
(* uninstall: count the rows, ask, remove ~/.outpost, clean the start-up files, and    *)
(* remove the binary that runs.                                                        *)

UninstallBegin(p) ==
  /\ \E d \in exe : Begin(p, [NoJob EXCEPT !.cmd = "uninstall", !.dir = d],
                          IF db = NoDb THEN "ask" ELSE "boxes")
  /\ stale' = stale \ {p}
  /\ crossed' = IF Uninstalling THEN crossed ELSE crossed \ TableRows
  /\ UNCHANGED <<db, made>>

\* The count is of the file that was opened, which may be gone by now.
Counted(p, kind, step) ==
  /\ \/ (TableRows \cap kind = {} \/ p \in stale) /\ Proceed(p, step)
     \/ (TableRows \cap kind # {} \/ p \in stale) /\ Return(p)
  /\ Counts /\ UNCHANGED <<exe, rcVars, configVars, dbVars>>
\* Mutant: the snapshots are not counted.
CountInstancesOnly(p) == At(p, "boxes") /\ Counted(p, Boxes, "ask")
CountInstances(p) == At(p, "boxes") /\ Counted(p, Boxes, "images")
CountSnapshots(p) == At(p, "images") /\ Counted(p, Images, "ask")

Confirm(p) ==
  /\ At(p, "ask")
  /\ Proceed(p, "wipeConfig") \/ Return(p)
  /\ Counts /\ UNCHANGED <<exe, rcVars, configVars, dbVars>>

\* os.RemoveAll of ~/.outpost: the config and its temporary files, the database, and
\* then the directory, which must be empty.
RemoveConfig(p) ==
  /\ At(p, "wipeConfig")
  /\ config' = NoConfig /\ temp' = {} /\ promised' = Blank
  /\ Proceed(p, "wipeDb")
  /\ Counts /\ UNCHANGED <<exe, rcVars, dbVars>>

RemoveDb(p) ==
  /\ At(p, "wipeDb")
  /\ db' = NoDb
  /\ stale' = {q \in Procs : pc[q] \in {"boxes", "images", "insert", "drop"}}
  /\ Proceed(p, "rmdir")
  /\ Counts /\ UNCHANGED <<exe, made, crossed, rcVars, configVars>>

RemoveDataDir(p) ==
  /\ At(p, "rmdir")
  /\ IF config = NoConfig /\ temp = {} /\ db = NoDb
     THEN Proceed(p, "clean") /\ left' = [left EXCEPT ![p] = shellRCFiles]
     ELSE Return(p) /\ UNCHANGED left
  /\ Counts /\ UNCHANGED <<exe, rc, held, torn, configVars, dbVars>>

cleanShellRCFile(p) ==
  /\ At(p, "clean")
  /\ \E f \in left[p] :
       LET cleaned == cleanShellRCContent(rc[f], job[p].dir) IN
       /\ left' = [left EXCEPT ![p] = @ \ {f}]
       /\ IF cleaned = rc[f] THEN UNCHANGED <<pc, job, held>>
          ELSE /\ held' = [held EXCEPT ![p] = cleaned]
               /\ job' = [job EXCEPT ![p].file = f]
               /\ Goto(p, "truncate")
       /\ TornIf(Emptied(f), f)
  /\ Counts /\ UNCHANGED <<exe, rc, configVars, dbVars>>

\* os.WriteFile truncates, then writes.
TruncateRC(p) ==
  /\ At(p, "truncate")
  /\ rc' = [rc EXCEPT ![job[p].file] = <<>>]
  /\ TornIf(Halfway(p, job[p].file), job[p].file)
  /\ Proceed(p, "write")
  /\ Counts /\ UNCHANGED <<exe, left, held, configVars, dbVars>>

WriteRC(p) ==
  /\ At(p, "write")
  /\ rc' = [rc EXCEPT ![job[p].file] = held[p]]
  /\ held' = [held EXCEPT ![p] = <<>>]
  /\ Proceed(p, "clean")
  /\ Counts /\ UNCHANGED <<exe, left, torn, configVars, dbVars>>

\* Mutant: the binary goes before the start-up files are clean.
RemoveBinaryFirst(p) ==
  /\ At(p, "clean")
  /\ exe' = exe \ {job[p].dir}
  /\ Return(p) /\ left' = [left EXCEPT ![p] = {}]
  /\ Counts /\ UNCHANGED <<rc, held, torn, configVars, dbVars>>

RemoveBinary(p) ==
  /\ At(p, "clean") /\ left[p] = {}
  /\ exe' = exe \ {job[p].dir}
  /\ Return(p)
  /\ Counts /\ UNCHANGED <<rcVars, configVars, dbVars>>

-----------------------------------------------------------------------------
(* setup and clear-creds: the file is replaced by a renamed temporary one.              *)

\* An empty answer keeps the credentials setup read before it asked.
Setup(p) ==
  /\ exe # {}
  /\ \/ \E k \in Keys : Begin(p, [NoJob EXCEPT !.cmd = "setup", !.key = k], "save")
     \/ /\ Load # Blank
        /\ Begin(p, [NoJob EXCEPT !.cmd = "setup", !.key = Load, !.kept = TRUE], "save")
  /\ UNCHANGED dbVars

ClearCreds(p) ==
  /\ exe # {}
  /\ Begin(p, [NoJob EXCEPT !.cmd = "clear"], "save")
  /\ UNCHANGED dbVars

\* Mutant: the file itself is truncated and written.
SaveInPlace(p) ==
  /\ At(p, "save")
  /\ temp' = temp \cup {p} /\ config' = Blank
  /\ Proceed(p, "rename")
  /\ Counts /\ UNCHANGED <<exe, promised, rcVars, dbVars>>
Save(p) ==
  /\ At(p, "save")
  /\ temp' = temp \cup {p}
  /\ Proceed(p, "rename")
  /\ Counts /\ UNCHANGED <<exe, config, promised, rcVars, dbVars>>

\* What the user may count on: the credentials entered, or none, or the same as before.
Promise(p) ==
  IF p \in overlap THEN job[p].key
  ELSE IF job[p].cmd = "clear" THEN Blank
  ELSE IF job[p].kept THEN promised ELSE job[p].key

RenameConfig(p) ==
  /\ At(p, "rename")
  /\ IF p \in temp
     THEN config' = job[p].key /\ temp' = temp \ {p} /\ promised' = Promise(p)
     ELSE UNCHANGED configVars
  /\ Return(p)
  /\ Counts /\ UNCHANGED <<exe, rcVars, dbVars>>

-----------------------------------------------------------------------------
(* The commands on boxes and snapshots, as far as the database is concerned: it is     *)
(* opened, and created if need be, and later a row is inserted or deleted.             *)

Open(p, cmd, step) ==
  /\ exe # {}
  /\ Begin(p, [NoJob EXCEPT !.cmd = cmd], step)
  /\ db' = IF db = NoDb THEN {} ELSE db
  /\ stale' = stale \ {p}
  /\ UNCHANGED <<made, crossed>>
Create(p) == Open(p, "create", "insert")
Delete(p) == Open(p, "delete", "drop")

Insert(p) ==
  /\ At(p, "insert")
  /\ \E r \in Rows \ (made \cup crossed) :
       /\ db' = IF p \in stale THEN db ELSE db \cup {r}
       /\ made' = made \cup {r}
       /\ crossed' = IF p \in stale \/ Uninstalling THEN crossed \cup {r} ELSE crossed
  /\ Return(p)
  /\ Counts /\ UNCHANGED <<exe, stale, rcVars, configVars>>

Drop(p) ==
  /\ At(p, "drop")
  /\ IF p \in stale \/ db = {} THEN UNCHANGED <<db, made>>
     ELSE \E r \in db : db' = db \ {r} /\ made' = made \ {r}
  /\ Return(p)
  /\ Counts /\ UNCHANGED <<exe, stale, crossed, rcVars, configVars>>

-----------------------------------------------------------------------------
\* A process is killed, or its next call fails.  What a temporary file or a truncated one
\* leaves behind stays.
Kill(p) ==
  /\ ~At(p, "idle")
  /\ kills < MaxKills /\ kills' = kills + 1
  /\ Return(p)
  /\ TornIf(At(p, "write"), job[p].file)
  /\ left' = [left EXCEPT ![p] = {}] /\ held' = [held EXCEPT ![p] = <<>>]
  /\ UNCHANGED <<exe, rc, configVars, dbVars, own, overlap, started>>

Step(p) ==
  \/ InstallBegin(p) \/ Update(p) \/ InstallBinary(p)
  \/ ConfigurePath(p) \/ AppendMarker(p) \/ AppendExport(p)
  \/ UninstallBegin(p) \/ CountInstances(p) \/ CountSnapshots(p) \/ Confirm(p)
  \/ RemoveConfig(p) \/ RemoveDb(p) \/ RemoveDataDir(p)
  \/ cleanShellRCFile(p) \/ TruncateRC(p) \/ WriteRC(p) \/ RemoveBinary(p)
  \/ Setup(p) \/ ClearCreds(p) \/ Save(p) \/ RenameConfig(p)
  \/ Create(p) \/ Delete(p) \/ Insert(p) \/ Drop(p)
  \/ Kill(p)

Next == \E p \in Procs : Step(p)

Spec == Init /\ [][Next]_vars

=============================================================================
