# A TLA+ model of outpost

outpost is a command-line program (Go, `src/`) that keeps a user's EC2 boxes: it
launches, stops, starts, renames, lists, imports and deletes them, keeps a row for
each in a local SQLite database and a `Host outpost-<name>` block for each in
`~/.ssh/config`. It has no daemon. Each command is one process, several may run at
once (two terminals, a script), and nothing but SQLite's own statement locking
coordinates them. This directory models the commands and states what they promise.

## The system

| Component | State it keeps | Operations | Interacts with |
|---|---|---|---|
| box commands (`service/instance_*.go`, `ec2.go`, `resize.go`, `localDb/instance.go`, `cmd/boxes*.go`) | EC2 instances; the `instances` table | create, delete, stop, start, reboot, resize, rename, ls | EC2 by API calls, SQLite, the ssh config |
| import (`service/import.go`, `cmd/import.go`) | the same, and the `snapshots` table | list what is untracked, insert what the user picks | EC2, SQLite, the ssh config, the box itself |
| snapshots (`service/snapshot.go`, `localDb/snapshotsDB.go`) | AMIs and their EBS snapshots; the `snapshots` table | create, list, show, delete | EC2, SQLite |
| ssh config (`service/localconfig.go`) | `~/.ssh/config` | add, update, rename, delete a block; agent forwarding | read and rewritten whole by every command above, git-sync and ssh |
| git-sync (`cmd/gitsync.go`) | ssh-agent's keys; ForwardAgent in a block | toggle | ssh config, ssh-agent |
| idle-stop (`cmd/idle.go`, `scripts/`) | files and a timer on the box; a column of the row | set, show, update, delete | the box over ssh, SQLite |
| keys and access (`cmd/boxes.go`, `service/instance_create.go`, `cmd/ssh.go`, `cmd/import.go`) | the pair in `~/.ssh`, known_hosts, a security group, a marker file on the box | make or mend the pair, open port 22, put the key on a box; poll until ready, open a session (ssh, exec, cp, sync, forward) | create, import, EC2, the box over ssh |
| templates (`service/templates.go`, `localDb/templatedb.go`, `defaultTemplates.go`) | the `templates` and `default_template_seeds` tables | new, ls, rename, delete, seeding at every open | SQLite, create |
| budgets (`service/budgets.go`) | AWS budgets; a cache file | ls, create, update, delete | AWS Budgets |
| setup, clear-creds, config (`cmd/setup.go`, `internal/config`) | `~/.outpost/config.json` | load, ask, save | read by every AWS client |
| install, update, uninstall (`scripts/install.sh`, `cmd/update.go`, `cmd/uninstall.go`) | the binary, shell start-up files, `~/.outpost` | copy, add to PATH; count, ask, remove | the database, the config |
| schema and handle (`localDb/db.go`, `schema.go`, `sqliteutil`) | the database file | open, create tables | all of the above |
| backup (`internal/backup`), API client (`internal/api`) | - | - | nothing calls them |
| parsers, tables, pager, OS and AMI lookup, docs | - | - | pure functions, layout, static pages |

What is hard here is not any one function. It is that the truth about a box is in
three places, that no transaction spans two of them, and that:

- a command reads, calls AWS for a second or more, then writes, while another command
  does the same;
- a command may be killed, or one of its calls fail, between any two of its steps;
- AWS moves on by itself (pending to running, stopping to stopped, terminated to
  gone), the console and the idle-stop timer change instances, a public address is
  new at every start and may have been another box's before;
- `ls` repairs the local stores from AWS, and must not repair them into something worse;
- several files are replaced in place and several rows written after a question that may
  wait for an answer for hours: what was read before is old by then.

What makes each component correct, in short: no instance or image that costs money
goes unrecorded unless a command was cut short; nothing is forgotten while it still
exists; what was deleted stays deleted; whatever was cut short, `ls` mends it; the ssh
block of a box is its own and has its address; a box can be got into with the key on
this machine, and only when it is ready; a change to a shared file keeps what it
does not concern; a retry after a failure finishes the job.

## Modules

| Module | What it is |
|---|---|
| `Boxes` | the box commands and import: state, one action per step, AWS, the console, faults, fairness |
| `BoxLedger` | abstract specification: which instances are alive, on the books, in a create's hands, or strays |
| `BoxProperties` | the properties of `Boxes`, and `Boxes` as an implementation of `BoxLedger` |
| `MCBoxes` | model values, regions and symmetry for TLC |
| `BoxesProofs` | the inductive invariant and the theorems, checked by TLAPS |
| `Access` | the key pair, the security group, the user data and its marker, and the commands that wait for a box and open a session on it |
| `AccessProperties`, `MCAccess`, `AccessProofs` | the properties of `Access`, their instance, and the theorems |
| `SshFile` | `~/.ssh/config` as a sequence of lines, the parser's blocks, every edit as a function, OpenSSH's reading of it |
| `SshConfig` | the processes that read, truncate and write that file; git-sync and ssh-agent |
| `HostTable` | abstract specification: a table of addresses beside the user's lines |
| `SshProperties`, `MCSsh`, `SshProofs` | the properties of `SshConfig`, the files TLC starts from, and the theorems |
| `Snapshots` | the snapshot commands and the import of images: images, disk snapshots, rows |
| `SnapshotProperties`, `MCSnapshots`, `SnapshotProofs` | the properties of `Snapshots`, and `Snapshots` as an implementation of `BoxLedger`; the theorems |
| `Budgets` | the budget commands: budgets and their alerts at AWS, and the cache of the last listing |
| `BudgetProperties`, `MCBudgets`, `BudgetProofs` | the properties of `Budgets`, their instance, and the theorems |
| `IdleStop` | idle-stop of one box: the commands, their scripts, the timer and its check, and time |
| `IdleStopProperties`, `MCIdleStop`, `IdleStopProofs` | the properties of `IdleStop`, their instance, and the theorems |
| `Templates` | the opening of the database, which seeds the built-in templates in a transaction, and new, rename and delete |
| `TemplateProperties`, `MCTemplates`, `TemplateProofs` | the properties of `Templates`, their instance, and the theorems |
| `Home` | the user's machine: install, update, uninstall, setup, clear-creds, and the rows the other commands write |
| `HomeProperties`, `MCHome`, `HomeProofs` | the properties of `Home`, their instance, and the theorems |

`Boxes` sees the ssh config as a map from names to addresses and each edit as one
change of that map; `SshConfig` has the file below it, and `TableSpec`, which is proved, says that each
edit is such a change as long as one process edits at a time. `BoxLedger` is what both
`Boxes` and `Snapshots` implement: nothing that costs money goes unrecorded, nothing is
forgotten while it exists. `Access` is what `Boxes` leaves out around RunInstances, and
what comes after: it has its own, coarser boxes (up, down or gone, with an address and a
disk). The other modules share no state with these but a column or
the fact that a row is there: `IdleStop` has the column idle_stop_minutes of one row,
`Home` has only which rows exist, `Templates` two tables that `create` reads.

### Boxes and the code

State. `ec2` is what DescribeInstances would answer (state, Name tag, type, public
address) for each id; a private address never changes and is written as the id itself.
`db` is the `instances` table: name, status, type and address of each row; the unique index on
(user_id, name) is `NameTaken` and `SyncRefused`. `ssh` is the map from names to the
address in their block. Each process has a program counter and the variables its Go
function carries from one call to the next: `box` (instance id), `arg` (the new name),
`old` (the name in the record it read), `todo` (the records `ls` or import still has to
go through) and `view` (the answer of AWS it will act upon).

One action is one AWS call, one SQL statement or one ssh-config update, with the guards
and early returns around it. Between two actions anything else may happen.

| Command | Actions, in order |
|---|---|
| create | CreateBegin, RunInstances, InsertInstance or Cleanup, AddHostOrWarn |
| delete | DeleteBegin, TerminateInstances, DeleteBoxHost, DeleteRow |
| stop / start / reboot | StopBegin / StartBegin / RebootBegin, the AWS call, Refresh, SyncRow, and for start SyncHost |
| resize | ResizeBegin, ModifyType, ModifyVolume, Refresh, SyncRow |
| rename | RenameBegin, CreateTags, UpdateInstanceName, RenameBoxHost |
| ls | LsBegin, then per region LsDescribe or LsSkipRegion, then per row LsPrune + LsDeleteHost, LsUnchanged, LsSync + LsSyncHost, or LsRefused |
| import | ImportBegin, then per candidate ImportSkip or ImportInsert + ImportSync + ImportHost |

`Abort` ends any command anywhere: the process is killed, the next call fails, or the
reply to the last one is lost. `InsertFails` and `LsSkipRegion` are the failures the
code handles otherwise than by returning. `stray` is a history variable: the instances
launched outside the CLI, and those a create held when it was cut short.

Left out of `Boxes`: the columns that nothing here depends on (provider, OS family); the
size of a volume, of which ModifyVolume keeps that it may be refused after the type has
been changed; what create needs before RunInstances and puts into the user data, which
is in `Access`; the repair of a HostName by `outpost ssh` (`cmd/ssh.go:211`), so what
`HostFollowsAddress` says is about `ls` alone; the eventual consistency of EC2's answers
(just after RunInstances a listing may lack the instance, and `ls` would prune its row).
The order in which `ls` takes its regions (a Go map) and rows is arbitrary in the model.

### Access and the code

State. `priv` and `pub` say whose key is in each half of the pair in `~/.ssh` (a key is a
number; 0 is what the user had), `known` is known_hosts, `group` the security group
outpost-isolated, `host` the boxes: address, how far the user data has come (`boot`), the
key in it (`inject`), authorized_keys and the ready marker. `image` is the latest
snapshot, which carries keys and marker over. `lent` tells a marker that the box's own
user data did not write.

| Command | Actions, in order |
|---|---|
| create | CreateBegin, the key, FindGroup, NewGroup, OpenGroup, Launch |
| import of a box | ImportBox, the key, Authorize |
| the key (`readPublicKey`, `ensureEd25519Key`) | ReadPublicKey, EnsureKey, then DeriveKey and WritePub, or RemoveOrphan, Keygen, SaveKey, SavePub and WritePub, and ReadMadeKey |
| ssh, exec, cp, sync | LookUp, Poll again and again or Cancel, Connect, EndSession |
| forward | LookUp, PollOnce, Connect, EndSession |

`BootStep` is what cloud-init runs of `buildUserDataV2`: the key first, then the
templates, the marker last. The events are what others do: a template's script exits, a
box is stopped, started at another address, terminated or snapshotted, the console
launches one or removes the ingress rule, the user loses a half of the pair, a command is
killed where it leaves something half done (`Abort`). The public half is written in two
steps, by `os.WriteFile` (DeriveKey) and by ssh-keygen (SavePub) alike: the file is made or
emptied, and then written (WritePub); `Blank` is what it holds in between, and what a kill
there leaves. `Take` is what create and import do with what they read: import refuses a
blank key, create does not look. `overwritten` and `half` are history variables.

Taken for granted: OpenSSH refuses an address whose recorded host key is another's
(StrictHostKeyChecking=accept-new); the user does not delete the private key while a
command needs it, nor the console the rule between the check and the launch; ssh-keygen
looks for an existing key once, before it asks for the passphrase, and the user does not
let it overwrite one it has seen. Left out: names, rows and the ssh config (in `Boxes`),
the arguments of ssh, scp and rsync, the identities of ssh-agent.

### SshFile, SshConfig and the code

A line is a keyword and its arguments, which are of a set `Words`. `FindBlock`, `BlockEnd` and `Block` are
`parseHostBlocks` and `findBlockByHost`; `WithHost`, `WithOption`, `WithAlias`,
`Without`, `WithForwardAgent` and `WithoutForwardAgent` are the closures that AddHost,
UpdateHost and UpdateHostUser, RenameHost, DeleteHost, EnableForwardAgent and
DisableForwardAgent hand to `updateSSHConfig`. Left out: blank lines, comments, indents,
the final newline, and the two options that are written and never read (IdentityFile,
StrictHostKeyChecking). `Lookup` is OpenSSH's own rule (sections run from a `Host` or
`Match` line to the next of either; the first value that applies counts), against which
the code's view is compared; the `Match` lines of the model match none of the boxes.

A command is its sequence of edits, an edit is ReadConfig, TruncateConfig, WriteConfig
(`os.WriteFile` truncates, then writes), with the three attempts of
`updateSSHConfigWithRetry` where the code has them. start and ls go by `syncSSHHostIP`
(update, else add; then the user), `outpost ssh` by UpdateHost and UpdateHostUser
(`cmd/ssh.go:211`). git-sync is Toggle (read the block), AskAgent (ask ssh-agent), the
edit, SetAgent. `Kill` ends a command anywhere. `synced` is a history
variable: the boxes whose sync was turned on.

### Snapshots and the code

`image` is what DescribeImages would answer, `disk` the EBS snapshots that exist, as
pairs of an image and a disk of its box, `row` the `snapshots` table (with its UNIQUE
columns and the `box_id` that becomes NULL when the box goes), `boxes` the ids of the
`instances` table.

| Command | Actions, in order |
|---|---|
| create | CreateBegin, CreateImage, InsertSnapshot |
| ls, ls of one | LsBegin / ShowBegin, per region DescribeImages, per row Reconcile |
| delete | DeleteBegin, DeleteLook, then DeregisterImage and one DeleteDisk per disk, DeleteRow |
| import | ImportBegin, then per candidate ImportSkip or ImportInsert |

`Abort` is the death of a command, or the failure of its next call. `stray` holds the
images others registered and those whose create was cut short or refused its row: the
code does not deregister them, unlike create of a box, which terminates.

Taken for granted about AWS: an image that is gone is absent from an answer; an image
lists its disk snapshots as soon as it exists; an image that failed is not told apart
from an available one; two live images of a region do not share a name.

### Budgets and the code

`budget` is what AWS Budgets holds: the limit and the address of each of the three
alerts. `cache` is `budgets-cache.json`, absent or less than twelve hours old (`Expire`
is its growing older). A process carries what the user wants, what `GetBudgetDetails`
read, the alert it is at, and the list it was given.

| Command | Actions, in order |
|---|---|
| ls | LsBegin, and if there is no cache DescribeBudgets, WriteCache |
| create, delete | CreateBegin, CreateBudget / DeleteBegin, DeleteBudget, and ClearCache |
| update | UpdateBegin, ReadDetails, then by `Route` CreateNew and DeleteOld (a new name), or SetLimit, or one SetAlert per alert, or the two, and ClearCache |

`CallFails` is a call that AWS refuses, with what the code does then; `EmailFails` the
one after the limit has been changed, where the code clears the cache before it returns.
`Kill` is the death of a process, or a reply that is lost: the call has or has not been
made. Taken as one step: the reads of `GetBudgetDetails`, a listing of several pages, and
the describe and update of `updateBudgetLimit`. A cache file that cannot be written or
removed is left out. `touched`, `fate` and `crossed` are history variables: commands that
another's change has overlapped, what others have done to the new budget of a rename before
the old one goes, and a listing that was overtaken.

### IdleStop and the code

Time is counted in periods of the timer (`Tick`); the timer fires once in each (`Check`
is the whole of `check.bash`). `host` is what is on the box's disk: the minutes file,
whether the units are installed, whether timer and boot service are enabled; `age` is how
long ago `last-activity` was written, or that it is empty or not there.

| Command | Actions, in order |
|---|---|
| set | SetBegin, EmptyMinutes, EchoMinutes, EmptyActivity, DateActivity, InstallUnits, EnableTimer, EnableBoot, StartBoot, SetInstanceIdleStopMinutes |
| update | UpdateBegin, EmptyMinutes, EchoMinutes, EmptyActivity, DateActivity, SetInstanceIdleStopMinutes |
| delete | DeleteBegin, DisableTimer, DisableBoot, RemoveUnits, RemoveMinutes, RemoveActivity, SetInstanceIdleStopMinutes |

An action is a command of the script that ssh runs, and a file written with `>` is two, for
the shell empties it before the command writes: the timer may fire, the box be stopped or
the connection be lost between any two. `Abort` is a script or a process cut short there,
`PowerOff` ends the scripts with the box, `UnitsMissing` is `set -e` when another command
has removed what is to be enabled. A script that outlives the process which sent it is
that process, still under way. Taken as one step: the check, the boot service at boot and
when it is started, and the copying or the removal of the check and its units; what this
leaves out is a timer that fires while the file of the check is being replaced, and two
scripts that copy and remove these files at once. The first check comes a minute after the boot, behind the boot service (`Boot`). `quiet`,
`lone` and `cut` are history variables: the periods since a check saw a terminal, the box
was started or a command wrote last-activity; the commands beside which no other has run;
and that a command was cut short or overlapped, which lasts until a set or delete has run
alone to its end.

### Templates and the code

Every command opens the database, and every opening seeds the built-in templates:
ReadTables begins a transaction by reading, TakeLock is its first write, CommitSeeds the
rest of it. SQLite lets one process write at a time (`writer`), and refuses the first
write of a transaction whose snapshot others have since written past (`behind`): the
transaction is deferred, so busy_timeout does not help it. The commands that follow are
single statements: new is CheckName and InsertTemplate, delete FindDelete and
DeleteTemplates, rename FindRename, ValidateName and UpdateTemplateName. A process runs
one version of the program and seeds that version's list; the versions of the model agree
on what a built-in template's id, name and OS are. Ids are in the order of `created_at`,
by which the oldest of a name is found. The scripts are represented by the version they
come from; ls and search only read, and are represented by opening.

### Home and the code

`exe` is the directories with a binary in them, `rc` the lines of each start-up file
(install.sh's marker, an export of PATH, anything else), `config` and `temp` config.json
and the temporary files beside it, `db` the rows of `outpost.db`.

| Command | Actions, in order |
|---|---|
| install.sh; update, which runs it on the binary's own directory | InstallBegin / Update, InstallBinary, ConfigurePath (search the file), AppendMarker, AppendExport |
| uninstall | UninstallBegin, CountInstances, CountSnapshots, Confirm, RemoveConfig, RemoveDb, RemoveDataDir, then per start-up file cleanShellRCFile, TruncateRC, WriteRC, and RemoveBinary |
| setup, clear-creds | Setup / ClearCreds (load and ask), Save (the temporary file), RenameConfig |
| any command that records or forgets a box or a snapshot | Open, then Insert or Drop |

`os.RemoveAll` of `~/.outpost` is two removals and then that of the directory, which
fails if another process has put something there. A process that has opened the database
when it is removed keeps the removed file (`stale`) and writes into it. Which start-up
file install.sh chooses depends on the shell and on the files there are: any of them.
Left out: the download and its checksum, root without sudo, empty lines, and a write that
lands beside what another process appended to a file just truncated (it replaces it).
install.sh appends a line at a time, to what the file has then; the empty line above the
marker is one of those left out. `torn` holds the files that are excepted: those used or
left while an uninstall had emptied them, and those that a second install wrote, or an
uninstall emptied, while a first was between its two lines.
`own`, `torn`, `overlap`, `promised`, `made` and `crossed` are history variables.

## What is checked

| Run | Bound | Shows |
|---|---|---|
| `Boxes_power` | 2 instances in 2 regions, 1 name, 2 types, 2 processes, 3 commands out of create, delete, stop, start, reboot, resize, 1 fault, the console starts, fairness | `Accounted`, `DeletedStaysDeleted`, `DeleteLeavesNoRow`, `LsConverges` |
| `Boxes_sequential` | 2 instances, 2 names, 2 addresses, 1 process, 5 commands, the console stops, fairness | `HostsTracked`, `NameIsTag`, `HostFollowsAddress` |
| `Boxes_outside` | 2 instances, 2 names (one with a space), 1 process, 2 commands out of create, rename, import, the console launches, terminates and retags between any two steps | the commands implement `BoxLedger`; `TypeOK` |
| `Access_sessions` | 2 boxes, 2 addresses, 2 keys, the private half or the whole pair to start with, 2 processes, 3 commands, 2 events, fairness | `KeyFits`, `LaunchedOpen`, `SessionOnBox`, `SessionReady`, `WaitEnds`, `TypeOK` |
| `SshConfig_edits` | 2 boxes, 2 addresses, 7 initial files, 1 process, 3 commands, 1 kill | the edits implement `HostTable`; `ReachesByAlias`, `ForwardingAsReported`, `SyncedStaysSynced` |
| `Snapshots_ledger` | 2 images of 2 disks in 2 regions, 1 name, 2 processes, 3 commands, 1 fault, fairness | the commands implement `BoxLedger`; `StateNeverRegresses`, `LsConverges`, `TypeOK` |
| `Budgets_update` | 2 names, 2 limits, 2 addresses, 3 alerts, 2 processes, 3 commands, 1 call that fails, 1 kill | `ChangeDelivered`, `RenameKeepsBudget`, `CacheTrue`, `TypeOK` |
| `IdleStop_timer` | timeouts of 1 and 3 periods, times up to 5 told apart, 2 processes, 4 commands, 2 faults | `NeverEarly`, `StopsInTime`, `RowTellsHost`, `TypeOK` |
| `Templates_seeding` | 2 versions with 2 and 3 built-in templates, 2 names, 2 OS families, 2 processes, 4 commands, 1 fault | `OfferedOnce`, `TextCurrent`, `NeverLockedOut`, `TypeOK` |
| `Home_life` | 3 directories, one of them a system directory, 2 start-up files in 2 initial states, 2 credentials, 2 rows, 2 processes, 5 commands, 1 kill | `OwnLinesKept`, `BinaryLast`, `RecordsKept`, `CredentialsAsPromised`, `TypeOK` |
| `Boxes_spaced_delete` | a name with a space | `DeleteLeavesNoRow` fails: delete terminates the box and keeps its row |
| `Snapshots_leak` | a delete cut short among the disks, then run again | `DeleteTakesDisks` fails: the second delete drops the row and leaves the disks |

Where a property holds of one process or of some commands only, the run says so by its
bounds, or the property by its exceptions, and outside them it is false of the code:

- Boxes. With two processes that create and rename at once, `NameIsTag` fails: the name is
  taken between a rename's tag and its row, and every later `ls` tries the same refused
  UPDATE. It fails with import too: a box whose tag is taken gets a local name with a
  suffix, and `ls` tries to write the tag back (`import.go:218`, `ec2.go:57`). `HostFollowsAddress` fails with reboot, which writes the
  new address into the row and not into the ssh block; `ls` then sees no difference.
- Access. Two first creates at once may both find no private key, ask for a passphrase and
  write: the first box then has a key whose private half is gone (`overwritten`), although
  `cmd/boxes.go:84` says that a private key is never overwritten. A kill or a full disk
  while the public half is written (`cmd/boxes.go:119`) leaves it empty beside the private
  one, and a reader at that moment sees it so: both halves are there, so create takes the
  empty file for a key and launches a box that has no key, again and again until
  the file is removed (`half`); import refuses it (`cmd/import.go:200`). A box restored from a
  ready one has the marker before its user data has run (`lent`), so `outpost ssh` does not
  wait for it. The wait lasts until Ctrl+C where a template's script exits, where the
  address was another box's whose host key is still on record, and where the owner of an
  imported box followed the printed instructions, which leave no marker
  (`cmd/import.go:146`); `WaitEnds` excepts these. `forward` closes the port it has found
  before ssh binds it (`cmd/forward.go:17`), and ssh is run without ExitOnForwardFailure;
  the ports are not modelled.
- Ssh config. `TableSpec` fails with two processes: both read the file before either
  writes it, and one edit undoes the other. Below a `Host *` section that sets `User`, `ReachesByAlias` fails, since the
  block is appended and OpenSSH takes the first value. A `Match` section below a block of
  ours is taken for part of it: `ForwardingAsReported` fails, and deleting the block
  deletes the section. One key in ssh-agent serves all boxes, so turning git-sync off for
  one turns it off for all; `SyncedStaysSynced` is stated accordingly.
- Budgets. An update of the address that is cut short leaves some alerts with the old one,
  and a second update reads the new one from the first alert and says that nothing has
  changed. A listing that another command overtakes (`crossed`) is written to the cache
  all the same. A rename makes the new budget and then deletes the old one without looking
  again: where another command has deleted or renamed the new one in between, the old one
  goes with nothing in its place, and `RenameKeepsBudget` excepts that.
- Idle-stop. After a delete cut short, update succeeds and no timer is there; after a set
  cut short, delete refuses. A box whose install was cut before the boot service was
  enabled shuts down a minute after its next start. The minutes are written before
  last-activity: a check in between, or after a script that was cut there, goes by the new
  timeout and the old activity, and may shut down a box whose timeout was set just now;
  `NeverEarly` counts from the writing of last-activity. Where a script was cut with
  last-activity emptied, the check does nothing until the box is started or a command
  writes it; `StopsInTime` excepts that. A box made from a snapshot has the
  timer and a row that knows nothing of it.
- Templates. Of two commands that open the database at once the later is refused with
  "database is locked", whatever busy_timeout says. The id of a built-in template is its
  place in the list; the versions of the model keep the places, and nothing in the code
  makes a later version do so.
- Home. A row inserted while uninstall waits for its answer is lost, and so is one written
  through a handle that was open when the file was removed; the comment at
  `cmd/uninstall.go:118` claims otherwise. A start-up file is lost when uninstall is killed
  between truncating and writing it. Two installs that append to one file at once may leave
  one's export below no marker, which no uninstall removes. setup, when it keeps the credentials, brings back
  those another command has cleared meanwhile. A directory is looked for as a part of a
  line (`install.sh:150`, `uninstall.go:298`); no directory of the model is part of another.

The commands a run allows, `MaxCommands` and `MaxFaults` are its bounds; `ls` is not
counted, so it may run at any time and for ever. Two instances, two names and two
processes are what the hazards need: a conflict takes one instance per name or one name
for two instances, a race takes two processes, and a third would repeat the part of one
of the two. Three to five commands are enough for every pair of commands to overlap
after a first one has created the box they work on. One fault is enough since a command
cut short leaves the stores as they are and the process idle; what a second fault adds
is a second command cut short, which the processes' independence makes another
instance of the first. Deadlock checking is off: when the commands are used up and no
box is left, the program has nothing to do.

The edits of the ssh config are functions of the file, so one process shows them all;
the seven initial files are those where an edit could go wrong: empty; options above
every section; a block of ours between others, with an alias and an option the user
added; `Host *` below; and several `ForwardAgent` lines in either order. Three commands
make create, rename onto the other box's name and a third edit; `git-sync` twice over a
block that another command has just written.

`Access_sessions` has two boxes and two addresses so that one box can be given the other's
address, two keys so that one can be written over, and three commands: two that make the
pair at once, or two that launch, and one that opens a session. Two events are a stop and a
start, which move an address, or a snapshot of a box and something else, or a kill while
the public half is written and a second create. A public half alone, or none, comes about
by the events that take a half away.

`Budgets_update` needs three alerts so that one is between the first, which is read, and
the last; two names and two addresses are what a change needs. `IdleStop_timer` takes a
timeout of one period, where one check decides, and one of three, during which the box
can be stopped, started and seen in use; the counters of time stop where they say no more.
Two faults and four commands cut a set and an update anywhere and let two more overlap.
`Templates_seeding` has a version that lacks one of the built-in templates of the other,
so that a process of the old one opens what the new one has seeded and the reverse, and
names and OS families that meet a built-in template and one that does not. `Home_life` starts from
start-up files that are empty, that hold lines of the user's, and that set the PATH to one
of the directories without the installer; five commands are two installs, a third command that
saves or records something, and an uninstall run twice. These four state safety only,
without fairness.

Fairness (`Boxes!Fairness`, and `Snapshots!Fairness` alike) is weak, on the steps of a command that is under way (a
process that was started runs until it returns), on `LsBegin` (the user keeps listing:
this is an assumption about the user, and what "eventually" means in the liveness
properties), and on AWS completing a transition it has announced. Nothing is assumed of
the other commands, of faults or of the console. In `Access` it is weak, on Poll (the probe
is repeated every five seconds, `cmd/ssh.go:22`) and on BootStep (a box that is up runs its
user data); nothing is assumed of commands that have not reached the wait.

## What is proved

Each module of proofs states one inductive invariant `IInv`, proves `Inductive`
(`Spec => []IInv`; in `SshProofs` they are `SshInv` and `ContentKept`) with one lemma per action, and draws the theorems from it. They hold
for every set of ids, names, processes, files and so on, and for all bounds. The assumptions are the
modules' `ConstantsAssumption`: the "none" values lie outside the sets they stand beside,
the bounds are naturals, each id has a region, each built-in template a name and an OS.
TLC evaluates them in every run, and checked each `IInv` before it was proved.

| Module | Theorems |
|---|---|
| `BoxesProofs` | `TypeCorrect`; `Refinement`: `Spec => LedgerSpec`; `Accounting`: `Accounted`; `OnlyDeadDropped`: `DropsOnlyDead`; `DeleteDropsRow`: `Spaced = {} => (Spec => DeleteLeavesNoRow)`, false without the hypothesis, as `Boxes_spaced_delete` shows; `DeletedForGood`: `OwnBoxesOnly => (Spec => DeletedStaysDeleted)`; `NamesFollowTags`: `OneAtATime => (Spec => []NameIsTag)`; `HostsFollowRows`: `OneAtATime /\ Spaced = {} => (Spec => []HostsTracked)` |
| `SnapshotProofs` | `TypeCorrect`; `Refinement`: `Spec => LedgerSpec`; `Accounting`; `NoRegress`: `StateNeverRegresses` |
| `AccessProofs` | `TypeCorrect`; `KeyHandedOut`: `KeyFits`; `LaunchesOpen`: `LaunchedOpen`; `SessionsOnBox`: `SessionOnBox`; `SessionsReady`: `SessionReady` |
| `BudgetProofs` | `TypeCorrect`; `TrueCache`: `CacheTrue`; `Delivery`: `ChangeDelivered`; `RenameSafe`: `RenameKeepsBudget` |
| `IdleStopProofs` | `TypeCorrect`; `NotLate`: `StopsInTime`; `NotEarly`: `NeverEarly`; `RowTrue`: `RowTellsHost` |
| `TemplateProofs` | `TypeCorrect`; `Offering`: `OfferedOnce`; `CurrentText`: `TextCurrent`; `Unlocked`: `NeverLockedOut`; `UniqueNames` |
| `SshProofs` | under `OneProcess` and `OurFiles`: `EditsImplementTable`: `Spec => TableSpec`; `SyncedLasts`: `SyncedStaysSynced`; with `PlainOptions` also `AliasReaches`: `ReachesByAlias`; `ForwardingTold`: `ForwardingAsReported` |
| `HomeProofs` | `TypeCorrect`; `OwnLines`: `OwnLinesKept`; `RowsStay`: `RecordsKept`; `Credentials`: `CredentialsAsPromised`; `LastToGo`: `BinaryLast` |

Hardly any of the properties is inductive, for one reason: a command acts on what it read some
steps ago, and what it read is not in the property. Each `IInv` says what a
command may still rely on, and why the others do not take it away.

`BoxesProofs`, `SnapshotProofs`. DeleteRow drops the row of the id it carries, and that
this id is dead is a fact about the past. `Carries(p)` says, per program counter, which
variables of p are set and how old the instances (images) they name must be by now: past
TerminateInstances, dead; in an answer that did not list it, gone; `available` in the row that
ls read, never pending again. It is stable under the others because instances and images
only age (`Ages`), and each `...Steps` or `...Keeps` lemma shows that the commands establish
it for themselves. `HoldersApart` (no two creates answer for one instance) is what makes
`Held` lose exactly one id when a create records its instance. With `IInv`, each step is a
step of the ledger; `Accounted` and `DropsOnlyDead` then follow from the ledger
alone (`LedgerAccounts`, `LedgerDrops`). For images `RowsTrue` is added: a row is never
ahead of its image.

Three theorems of `BoxesProofs` need a hypothesis, and each has an invariant of its own
beside `IInv`. `OwnBoxesOnly`: nothing is imported and no box is terminated at the console.
Only an insert makes a row, and the one insert left is that of create; `Newborn` says that
the instance it is about to record is alive and that no other process has it in hand, so
it is not the one that was deleted. With import it is false: import may record an instance
that has died since it was listed. `OneAtATime`: one process, no faults, no import, no tag
changed at the console. Each of these breaks the property: a second process and import as the
list above says; a rename that is cut between the tag and the row leaves the two apart
until the next `ls`, and so does a tag changed at the console. For the names, `Tagged` and `RowsApart` say that row and tag
agree but between the two halves of a rename and that no two rows share a name, `Knows(p)`
what the command has made sure of by each step: that the name it is about to record
is free, that the row it read is still of that name. For the blocks, `Hosted`: a block
belongs to a row of its name, unless the command is just about to remove or to move it;
`KnowsHost(p)` says that delete has removed the block before it removes the row, and that
rename moves a block with an address of its box. Delete does so only if the name finds the block,
hence `Spaced = {}`.

`AccessProofs`. `Pair`: once a command has decided how to mend the pair the private half
stays (`PrivThere`), no public half is left where a new pair is about to be made
(`NothingLeft`), an empty public half is one that a command is writing or that a write cut
short has left (`BlankSeen`), and the key in hand is that of the private half, was written
over, or is such an empty one in the hands of a create (`KeyHeld`). `Sessions`: a host key on record stays (`KnownGrows`), boxes are never unborn
again and what is finished stays finished (`Aged`), so that the box that was found ready at
an address is still the one that will be reached there, or none is (`Reached`).

`BudgetProofs`. A change of the list is owed to the cache: the command that made it will
remove the file (`Owes`), so a false list in the cache has a command that answers for it, or
one was killed, or a listing was overtaken (`CacheOwed`). And a command that no other has
overlapped knows how far the budget is (`Untouched`): the alerts before the one it is
at no longer mail the old address, the first has what was read until its turn comes, and
the new budget is there before the old one goes. What a rename knows of its new budget
when others did overlap it is `Renamed`: it is as it was made, or as others changed it, or
one of them has taken it away.

`IdleStopProofs`. The check on the box knows `age`, the time since a file was written; the
properties are about `quiet`, the time since the box was really used or started, or the file
written by a command. `age` is never less than `quiet`, so no check that is due is missed
(`AgeEnough`), and never more while the boot service that restarts the count is enabled or
a script is about to enable it (`BootCounts`), so none is early (`AgeNotMore`); that a
script runs only on a box that is up (`ScriptsRun`) keeps a boot out of its middle. For the
row (`RowInv`): a
command beside which no other ran has brought the box as far as its step says
(`LoneReached`, with `Solo` and `Commands`), and while no command is between box and row the
two agree, unless one was cut short there (`Settled`).

`TemplateProofs`. What a seeding read is what the tables hold when it writes: SQLite
gives it the lock only if nothing was committed since (`Fresh`). Then a built-in template
that has been offered is known to every later seeding, and what the user deleted or
had first was offered (`HistoryOffered`), so it is not offered twice. `NeverLockedOut`
needs all of `Tables`: the refresh of a text may meet the unique index only if the names
or the OS of the built-in rows were not what they are.

`SshProofs`. The hypotheses are about the file as the user wrote it. `OurFiles`
(`WellFormed`): a box is named on one Host line at most, which names no other box and not
`*`, a HostName below it is an address, no line lacks its argument, and there is no Match section. `PlainOptions`
(`NothingForAll`): HostName, User and ForwardAgent, the options the program writes, are not set
for every host. Nothing in the code asks for either; of other files, and with two processes,
the list above says how the properties fail. The files of `MCSsh` meet both
(`FilesMeetHypotheses`), although aliases, options of the user's and sections of other hosts are
free. The argument has three storeys. Of a block: what each edit makes of it still `Fits` its
box, with the address, the user and the ForwardAgent lines it should have. Of a file: every edit
is `Swapped`, one section in the place of another, so that the lines before and after
stay, and what stands below which Host line with them; from this follow, for any edit that is a
`Rewrites`, that the other blocks, the lines of the user's, `WellFormed` and `NothingForAll`
are kept. Of the processes: `Content` is the file or, while it is truncated, the text that is
about to be written; `SshInv` says that it is such a file, that the text a process holds is the
edit of the file as it still is (`Placed`: here one process is needed), and what git-sync has
promised (`Promise`). `LinesAt` is defined by recursion over the places; what is said of it
rests on `SetInduction`, induction for a set of numbers, which follows from a set's having a
least element and, unlike the library's theorem, takes no operator.

`HomeProofs`. `Flow` says what each step of a command is for, and that of two
commands beside which nothing of the kind ran no two write the same things (`Alone`).
`Shell` is about the start-up files, of any length: between steps what follows the
first marker is markers and exports right below one (`Tidy`), an install between its two lines has its
marker at the end of the file (`HalfBlocks`), uninstall holds between reading
and writing nothing but the user's lines in their order (`HeldLines`). Its lemmas say what
`cleanShellRCFile` does to any file: it removes what it should (`Cleaning`), leaves no
block for its directory, and a tidy file stays one (`ExportKept`, `Remains`); they rest on lemmas
about the places of a file and their order (`RankGrows`, `NthMember`, `Composed`), since
`LinesAt`, the lines at some of the places, is defined by counting. `CountedRows` says how far
uninstall's count has come: what is not counted yet has been written beside it. `Saved`
and `Wiped` are what the two other theorems need of the credentials and of the order of
the removals.

Only model-checked:

- `LsConverges` and `HostFollowsAddress` of `Boxes`, `LsConverges` of `Snapshots` and
  `WaitEnds` of `Access`: liveness under fairness is out of the prover's reach.

`DropsOnlyDead` and the name uniqueness of `UniqueNames` are the other way round: they are
proved, and no run checks them by themselves; `LedgerSpec` contains the one, and the
invariant of `Templates` was checked with the other.

## Plan

The parts of the system that keep state are modelled, and each of the eight modules that
model it has its theorems. What is left to prove is liveness, which is out of the prover's
reach, and what holds of more than one process at a time: for the names and the ssh blocks
the list above says that it is false, and what does hold then is in the properties of `Boxes` that
have no such hypothesis.

## Not modelled

- Backup and the API client: no code calls them.
- The parsers of arguments, names, sizes and references, and the lookup of OS families, AMIs
  and instance types: functions of the strings that are typed or of tables, without state,
  which the repository's table-driven tests cover. The models start where they end.
- The cache of AWS clients: private to one process that makes its calls one after the other.
- `main.go`: it hands the arguments to the commands.
- What commands print, the pager, the tables, and the site.
- What other programs do once they are started: ssh's session, scp, rsync, the pickers.
