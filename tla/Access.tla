------------------------------ MODULE Access ------------------------------
(***************************************************************************)
(* How a user gets into a box: the key pair in ~/.ssh that create and      *)
(* import make or mend, the security group that lets port 22 through, the  *)
(* user data that puts the key on a new box, runs its templates and leaves *)
(* the ready marker, and the commands that wait for the marker and then    *)
(* open a session (ssh, exec, cp, sync; forward asks only once).  Several  *)
(* CLI processes run at once, on one machine and one AWS account.          *)
(*                                                                         *)
(* What create does before and after this (names, rows, ~/.ssh/config) is  *)
(* the subject of Boxes; here a box that was launched is in the books.     *)
(***************************************************************************)
EXTENDS Naturals, FiniteSets

CONSTANTS
  Boxes,        \* instances
  Addrs,        \* AWS's pool of public addresses
  Procs,        \* CLI processes
  Pem,          \* the key of the boxes launched outside the CLI
  NoKey, NoBox, NoAddr, NoImage,   \* "none" of each kind
  Blank,        \* what an empty public key file holds
  Halves,       \* which halves of a key pair the user may start with
  MaxKeys,      \* bound: key pairs ssh-keygen makes
  MaxCommands,  \* bound: commands started
  MaxEvents     \* bound: what the user, the console and the scripts do, kills included

Keys == 0..MaxKeys    \* 0 is the pair, or the half of one, found at first

ASSUME BoundsAssumption == MaxKeys \in Nat /\ MaxCommands \in Nat /\ MaxEvents \in Nat
ASSUME HalvesAssumption == Halves \subseteq SUBSET {"private", "public"}
ASSUME NonesAssumption ==
  /\ NoBox \notin Boxes /\ NoAddr \notin Addrs
  /\ NoKey \notin Keys \cup {Pem, Blank} /\ Pem \notin Keys \cup {Blank} /\ Blank \notin Keys

VARIABLES
  priv, pub,    \* ~/.ssh/id_ed25519 and ~/.ssh/id_ed25519.pub: whose key is in them
  writing,      \* processes that have emptied the file id_ed25519.pub and will write to it
  known,        \* ~/.ssh/known_hosts: address -> the box whose host key is recorded for it
  group,        \* the security group outpost-isolated: absent, or with port 22 closed or open
  host,         \* box -> the instance and what is on its disk
  image,        \* the latest snapshot: what it carries over to a box restored from it
  books,        \* the boxes in the instances table
  pc,           \* process -> the step its command takes next
  source,       \* process -> what its command launches a box from, or "box" for import
  box,          \* process -> the box it works on
  addr,         \* process -> the address it read for that box
  key,          \* process -> the public key it holds
  on,           \* process -> the box its session is on
  overwritten,  \* history: keys that ssh-keygen overwrote
  half,         \* history: an empty public key was read, or left, by a write not finished
  made, started, events   \* pairs made, commands started, events so far

machine == <<priv, pub, writing, known>>
cloud == <<group, host, image, books>>
task == <<source, box, addr, key, on>>
locals == <<pc, task>>
past == <<overwritten, half>>
counts == <<made, started, events>>
vars == <<priv, pub, writing, known, group, host, image, books, pc, source, box, addr, key, on,
          overwritten, half, made, started, events>>

-----------------------------------------------------------------------------
\* How far the user data of a box has come: the step it takes next, "done", or "cut" when
\* it will go no further; "none" for a box launched without ours.
Boot == {"none", "key", "scripts", "done", "cut"}

Host == [state : {"none", "up", "down", "gone"},
         addr : Addrs \cup {NoAddr},
         boot : Boot,
         inject : Keys \cup {NoKey, Blank},       \* the key in its user data
         keys : SUBSET (Keys \cup {Pem}),         \* its authorized_keys
         marker : BOOLEAN,                        \* /var/lib/outpost/ready is there
         lent : BOOLEAN]                          \* and is not its own user data's
Unborn == [state |-> "none", addr |-> NoAddr, boot |-> "none", inject |-> NoKey,
           keys |-> {}, marker |-> FALSE, lent |-> FALSE]
Image == [keys : SUBSET (Keys \cup {Pem}), marker : BOOLEAN]

At(p, step) == pc[p] = step
Goto(p, step) == pc' = [pc EXCEPT ![p] = step]

\* The steps of readPublicKey and of ssh-keygen, and those at which its key is in hand.
KeySteps == {"keys", "ensure", "derive", "removePub", "keygen", "passphrase", "savePub", "writePub",
             "readPub"}
Holding == {"group", "newGroup", "ingress", "launch", "append"}
Steps == KeySteps \cup Holding \cup {"idle", "wait", "once", "connect", "session"}

FreeAddrs == {a \in Addrs : \A b \in Boxes : host[b].addr # a}
Console(b) == host[b].inject = NoKey

\* Mutant: a changed host key is accepted.
AnswersAnyKey(b, a) ==
  /\ host[b].state = "up" /\ host[b].addr = a
  /\ group = "open" \/ Console(b)

\* The box that ssh reaches at an address: port 22 is open (a box from the console has a
\* group of its own) and no other box's host key is on record for the address.
Answers(b, a) ==
  /\ host[b].state = "up" /\ host[b].addr = a
  /\ group = "open" \/ Console(b)
  /\ known[a] \in {NoBox, b}

\* StrictHostKeyChecking=accept-new: a first host key is recorded, before authentication.
Learn(b, a) == known' = [known EXCEPT ![a] = IF @ = NoBox THEN b ELSE @]

\* The command returns, with or without an error.
Exit(p) ==
  /\ Goto(p, "idle")
  /\ source' = [source EXCEPT ![p] = "none"]
  /\ box' = [box EXCEPT ![p] = NoBox]
  /\ addr' = [addr EXCEPT ![p] = NoAddr]
  /\ key' = [key EXCEPT ![p] = NoKey]
  /\ on' = [on EXCEPT ![p] = NoBox]

Init ==
  /\ \E found \in Halves :
       /\ priv = IF "private" \in found THEN 0 ELSE NoKey
       /\ pub = IF "public" \in found THEN 0 ELSE NoKey
  /\ writing = {}
  /\ known = [a \in Addrs |-> NoBox]
  /\ group = "none"
  /\ host = [b \in Boxes |-> Unborn]
  /\ image = NoImage /\ books = {}
  /\ pc = [p \in Procs |-> "idle"]
  /\ source = [p \in Procs |-> "none"]
  /\ box = [p \in Procs |-> NoBox]
  /\ addr = [p \in Procs |-> NoAddr]
  /\ key = [p \in Procs |-> NoKey]
  /\ on = [p \in Procs |-> NoBox]
  /\ overwritten = {} /\ half = FALSE
  /\ made = 0 /\ started = 0 /\ events = 0

Begin(p, from, step) ==
  /\ At(p, "idle") /\ started < MaxCommands
  /\ started' = started + 1
  /\ source' = [source EXCEPT ![p] = from]
  /\ Goto(p, step)

-----------------------------------------------------------------------------
(* The key pair: readPublicKey and ensureEd25519Key. *)

\* create needs the key first; so does import, for a box that answers to the user's key
\* file.  The address to import from was listed before the user was asked.
CreateBegin(p) ==
  /\ \E from \in {"base", "image"} :
       /\ from = "image" => image # NoImage
       /\ Begin(p, from, "keys")
  /\ UNCHANGED <<machine, cloud, box, addr, key, on, past, made, events>>

\* A box that is not up, or whose key file the user does not give, is only put in the books.
ImportBox(p, b) ==
  /\ b \notin books
  /\ host[b].state \in {"up", "down"} /\ Console(b)
  /\ books' = books \cup {b}
  /\ \/ /\ host[b].state = "up"
        /\ Begin(p, "box", "keys")
        /\ box' = [box EXCEPT ![p] = b]
        /\ addr' = [addr EXCEPT ![p] = host[b].addr]
     \/ Begin(p, "none", "idle") /\ UNCHANGED <<box, addr>>
  /\ UNCHANGED <<machine, group, host, image, key, on, past, made, events>>

\* The public key file is read, perhaps while a command is writing it.  With what it holds
\* in hand create turns to the security group, import to the box; only import looks whether
\* it is blank.
Take(p) ==
  /\ half' = (half \/ (pub = Blank /\ writing # {}))
  /\ \/ /\ source[p] = "box" => pub # Blank
        /\ key' = [key EXCEPT ![p] = pub]
        /\ Goto(p, IF source[p] = "box" THEN "append" ELSE "group")
        /\ UNCHANGED <<source, box, addr, on>>
     \/ source[p] = "box" /\ pub = Blank /\ Exit(p)

\* Both halves: the public one is read.  Neither: no question is asked.  One without the
\* other: the user is asked whether to mend the pair.
ReadPublicKey(p) ==
  /\ At(p, "keys")
  /\ \/ priv # NoKey /\ pub # NoKey /\ Take(p)
     \/ /\ priv = NoKey \/ pub = NoKey
        /\ Goto(p, "ensure")
        /\ UNCHANGED <<task, half>>
     \/ /\ (priv = NoKey) # (pub = NoKey)
        /\ Exit(p) /\ UNCHANGED half
  /\ UNCHANGED <<machine, cloud, overwritten, counts>>

\* Mutant: an orphaned public key is left for ssh-keygen to replace.
EnsureKeyKeepsOrphan(p) ==
  /\ At(p, "ensure")
  /\ \/ priv # NoKey /\ pub # NoKey /\ Goto(p, "readPub") /\ UNCHANGED key
     \/ priv # NoKey /\ pub = NoKey /\ Goto(p, "derive") /\ key' = [key EXCEPT ![p] = priv]
     \/ priv = NoKey /\ Goto(p, "keygen") /\ UNCHANGED key
  /\ UNCHANGED <<machine, cloud, source, box, addr, on, past, counts>>

\* ensureEd25519Key looks again, for the answer may have taken long.
EnsureKey(p) ==
  /\ At(p, "ensure")
  /\ \/ priv # NoKey /\ pub # NoKey /\ Goto(p, "readPub") /\ UNCHANGED key
     \/ priv # NoKey /\ pub = NoKey /\ Goto(p, "derive") /\ key' = [key EXCEPT ![p] = priv]
     \/ priv = NoKey /\ pub # NoKey /\ Goto(p, "removePub") /\ UNCHANGED key
     \/ priv = NoKey /\ pub = NoKey /\ Goto(p, "keygen") /\ UNCHANGED key
  /\ UNCHANGED <<machine, cloud, source, box, addr, on, past, counts>>

\* The public key file is made, or emptied, before it is written.
EmptyPub(p, step) ==
  /\ At(p, step)
  /\ pub' = Blank
  /\ writing' = writing \cup {p}
  /\ Goto(p, "writePub")
  /\ UNCHANGED <<priv, known, cloud, task, past, counts>>

\* os.WriteFile of what ssh-keygen -y printed, and ssh-keygen's own file of the pair it made.
DeriveKey(p) == EmptyPub(p, "derive")
SavePub(p) == EmptyPub(p, "savePub")

\* What is written to a file that was deleted meanwhile is lost.
WritePub(p) ==
  /\ At(p, "writePub")
  /\ pub' = IF p \in writing THEN key[p] ELSE pub
  /\ writing' = writing \ {p}
  /\ key' = [key EXCEPT ![p] = NoKey]
  /\ Goto(p, "readPub")
  /\ UNCHANGED <<priv, known, cloud, source, box, addr, on, past, counts>>

RemoveOrphan(p) ==
  /\ At(p, "removePub")
  /\ \/ /\ pub # NoKey
        /\ pub' = NoKey /\ writing' = {}
        /\ Goto(p, "keygen")
        /\ UNCHANGED task
     \/ pub = NoKey /\ Exit(p) /\ UNCHANGED <<pub, writing>>
  /\ UNCHANGED <<priv, known, cloud, past, counts>>

\* ssh-keygen asks before it overwrites a private key, and the user says no; it looks once,
\* before it asks for the passphrase.
Keygen(p) ==
  /\ At(p, "keygen")
  /\ \/ priv # NoKey /\ Exit(p)
     \/ /\ priv = NoKey /\ Goto(p, "passphrase")
        /\ UNCHANGED task
  /\ UNCHANGED <<machine, cloud, past, counts>>

\* ssh-keygen saves the private half; another ssh-keygen may have saved one meanwhile.
SaveKey(p) ==
  /\ At(p, "passphrase")
  /\ made < MaxKeys
  /\ made' = made + 1
  /\ priv' = made'
  /\ overwritten' = overwritten \cup ({priv} \ {NoKey})
  /\ key' = [key EXCEPT ![p] = made']
  /\ Goto(p, "savePub")
  /\ UNCHANGED <<pub, writing, known, cloud, source, box, addr, on, half, started, events>>

\* Mutant: the error of reading the public key is dropped.
ReadMadeKeyOrBlank(p) ==
  /\ At(p, "readPub")
  /\ Take(p)
  /\ UNCHANGED <<machine, cloud, overwritten, counts>>

ReadMadeKey(p) ==
  /\ At(p, "readPub")
  /\ \/ pub # NoKey /\ Take(p)
     \/ pub = NoKey /\ Exit(p) /\ UNCHANGED half
  /\ UNCHANGED <<machine, cloud, overwritten, counts>>

-----------------------------------------------------------------------------
(* The security group and the launch. *)

\* Mutant: only a group that was just created is opened.
FindGroupTrusting(p) ==
  /\ At(p, "group")
  /\ Goto(p, IF group = "none" THEN "newGroup" ELSE "launch")
  /\ UNCHANGED <<machine, cloud, task, past, counts>>

\* A restored box needs its image first; either way the group is looked up by its name.
FindGroup(p) ==
  /\ At(p, "group")
  /\ \/ Goto(p, IF group = "none" THEN "newGroup" ELSE "ingress")
        /\ UNCHANGED task
     \/ source[p] = "image" /\ Exit(p)    \* the image is not available yet, or not any more
  /\ UNCHANGED <<machine, cloud, past, counts>>

\* EC2 refuses a second group of that name.
NewGroup(p) ==
  /\ At(p, "newGroup")
  /\ \/ /\ group = "none" /\ group' = "closed"
        /\ Goto(p, "ingress")
        /\ UNCHANGED task
     \/ group # "none" /\ Exit(p) /\ UNCHANGED group
  /\ UNCHANGED <<machine, host, image, books, past, counts>>

\* A rule that is there already is refused as a duplicate, which is no error.
OpenGroup(p) ==
  /\ At(p, "ingress")
  /\ group' = "open"
  /\ Goto(p, "launch")
  /\ UNCHANGED <<machine, host, image, books, task, past, counts>>

Newborn(p, a) ==
  [state |-> "up", addr |-> a, boot |-> "key", inject |-> key[p],
   keys |-> IF source[p] = "image" THEN image.keys ELSE {},
   marker |-> source[p] = "image" /\ image.marker,
   lent |-> source[p] = "image" /\ image.marker]

\* RunInstances, or its refusal.
Launch(p) ==
  /\ At(p, "launch")
  /\ \/ \E b \in Boxes, a \in FreeAddrs :
          /\ host[b] = Unborn
          /\ host' = [host EXCEPT ![b] = Newborn(p, a)]
          /\ books' = books \cup {b}
     \/ UNCHANGED <<host, books>>
  /\ Exit(p)
  /\ UNCHANGED <<machine, group, image, past, counts>>

\* import logs in with the user's key file, adds the public key and, where sudo asks for no
\* password, leaves the marker.  Whatever fails is a warning.  The box at that address may
\* by now be another one that was restored from a box of the console.
Authorize(p) ==
  /\ At(p, "append")
  /\ \/ \E b \in Boxes, marked \in BOOLEAN :
          /\ Answers(b, addr[p]) /\ Pem \in host[b].keys
          /\ Learn(b, addr[p])
          /\ host' = [host EXCEPT ![b].keys = @ \cup {key[p]}, ![b].marker = @ \/ marked,
                                  ![b].lent = @ \/ marked]
     \/ UNCHANGED <<known, host>>
  /\ Exit(p)
  /\ UNCHANGED <<priv, pub, writing, group, image, books, past, counts>>

-----------------------------------------------------------------------------
(* ssh, exec, cp, sync and forward. *)

\* The address is read once; the identity is ~/.ssh/id_ed25519 if it is there.
LookUp(p, b) ==
  /\ b \in books
  /\ host[b].state = "up"
  /\ \E step \in {"wait", "once"} : Begin(p, "none", step)
  /\ box' = [box EXCEPT ![p] = b]
  /\ addr' = [addr EXCEPT ![p] = host[b].addr]
  /\ UNCHANGED <<machine, cloud, key, on, past, made, events>>

LogsIn(b) == priv \in host[b].keys

\* checkoutpostReady: a probe that logs in and finds the marker.
Ready(b) == LogsIn(b) /\ host[b].marker

\* waitForoutpostReady probes again and again; a probe that finds no ready box leaves the
\* command waiting, though it may leave a host key behind.
Poll(p) ==
  /\ At(p, "wait")
  /\ \E b \in Boxes :
       /\ Answers(b, addr[p]) /\ Learn(b, addr[p])
       /\ \/ Ready(b) /\ Goto(p, "connect")
          \/ ~Ready(b) /\ known[addr[p]] = NoBox /\ UNCHANGED pc
  /\ UNCHANGED <<priv, pub, writing, cloud, task, past, counts>>

\* Ctrl+C.
Cancel(p) ==
  /\ At(p, "wait")
  /\ Exit(p)
  /\ UNCHANGED <<machine, cloud, past, counts>>

\* forward asks once.
PollOnce(p) ==
  /\ At(p, "once")
  /\ \/ \E b \in Boxes :
          /\ Answers(b, addr[p]) /\ Learn(b, addr[p])
          /\ \/ Ready(b) /\ Goto(p, "connect") /\ UNCHANGED task
             \/ ~Ready(b) /\ Exit(p)
     \/ ~(\E b \in Boxes : Answers(b, addr[p])) /\ Exit(p) /\ UNCHANGED known
  /\ UNCHANGED <<priv, pub, writing, cloud, past, counts>>

\* A second ssh (or scp, or rsync) opens the session at the same address.
Connect(p) ==
  /\ At(p, "connect")
  /\ \/ \E b \in Boxes :
          /\ Answers(b, addr[p]) /\ Learn(b, addr[p])
          /\ LogsIn(b)
          /\ on' = [on EXCEPT ![p] = b]
          /\ Goto(p, "session")
          /\ UNCHANGED <<source, box, addr, key>>
     \/ /\ ~(\E b \in Boxes : Answers(b, addr[p]) /\ LogsIn(b))
        /\ Exit(p) /\ UNCHANGED known
  /\ UNCHANGED <<priv, pub, writing, cloud, past, counts>>

EndSession(p) ==
  /\ At(p, "session")
  /\ Exit(p)
  /\ UNCHANGED <<machine, cloud, past, counts>>

-----------------------------------------------------------------------------
(* The boxes, and what happens to them and to the machine. *)

\* Mutant: the marker is written before the templates run.
BootStepMarksFirst(b) ==
  /\ host[b].state = "up"
  /\ \/ /\ host[b].boot = "key"
        /\ host' = [host EXCEPT ![b].keys = @ \cup ({host[b].inject} \ {Blank}), ![b].boot = "scripts",
                                ![b].marker = TRUE]
     \/ host[b].boot = "scripts" /\ host' = [host EXCEPT ![b].boot = "done"]
  /\ UNCHANGED <<machine, group, image, books, locals, past, counts>>

\* Mutant: no marker is written.
BootStepUnmarked(b) ==
  /\ host[b].state = "up"
  /\ \/ /\ host[b].boot = "key"
        /\ host' = [host EXCEPT ![b].keys = @ \cup ({host[b].inject} \ {Blank}), ![b].boot = "scripts"]
     \/ host[b].boot = "scripts" /\ host' = [host EXCEPT ![b].boot = "done"]
  /\ UNCHANGED <<machine, group, image, books, locals, past, counts>>

\* The user data buildUserDataV2 wrote: the key, if there was one to write, then the templates' scripts, the marker last.
BootStep(b) ==
  /\ host[b].state = "up"
  /\ \/ /\ host[b].boot = "key"
        /\ host' = [host EXCEPT ![b].keys = @ \cup ({host[b].inject} \ {Blank}), ![b].boot = "scripts"]
     \/ /\ host[b].boot = "scripts"
        /\ host' = [host EXCEPT ![b].boot = "done", ![b].marker = TRUE, ![b].lent = FALSE]
  /\ UNCHANGED <<machine, group, image, books, locals, past, counts>>

Event == events < MaxEvents /\ events' = events + 1
OnBoxes == UNCHANGED <<machine, group, image, books, locals, past, made, started>>

\* A template's script ends the user data: it calls exit.
ScriptExits(b) ==
  /\ Event /\ host[b].state = "up" /\ host[b].boot = "scripts"
  /\ host' = [host EXCEPT ![b].boot = "cut"]
  /\ OnBoxes

\* User data that had not ended goes on at the next start, or never.
StopBox(b) ==
  /\ Event /\ host[b].state = "up"
  /\ \E next \in {host[b].boot, IF host[b].boot \in {"none", "done"} THEN host[b].boot ELSE "cut"} :
       host' = [host EXCEPT ![b].state = "down", ![b].addr = NoAddr, ![b].boot = next]
  /\ OnBoxes

StartBox(b) ==
  /\ Event /\ host[b].state = "down"
  /\ \E a \in FreeAddrs : host' = [host EXCEPT ![b].state = "up", ![b].addr = a]
  /\ OnBoxes

Terminate(b) ==
  /\ Event /\ host[b].state \in {"up", "down"}
  /\ host' = [host EXCEPT ![b] = [Unborn EXCEPT !.state = "gone"]]
  /\ books' = books \ {b}
  /\ UNCHANGED <<machine, group, image, locals, past, made, started>>

ConsoleLaunch(b) ==
  /\ Event /\ host[b] = Unborn
  /\ \E a \in FreeAddrs :
       host' = [host EXCEPT ![b] = [Unborn EXCEPT !.state = "up", !.addr = a, !.keys = {Pem}]]
  /\ OnBoxes

\* snapshot: the disk is copied as it is, without a reboot.
Snapshot(b) ==
  /\ Event /\ b \in books
  /\ host[b].state = "up"
  /\ image' = [keys |-> host[b].keys, marker |-> host[b].marker]
  /\ UNCHANGED <<machine, group, host, books, locals, past, made, started>>

\* The rule is removed, though not between the check and the launch that follows it.
Revoke ==
  /\ Event /\ group = "open"
  /\ \A p \in Procs : ~At(p, "launch")
  /\ group' = "closed"
  /\ UNCHANGED <<machine, host, image, books, locals, past, made, started>>

\* The user deletes a half of the pair; the private one not while a command needs it.
LosePriv ==
  /\ Event /\ priv # NoKey
  /\ \A p \in Procs : pc[p] \notin KeySteps \cup Holding
  /\ priv' = NoKey
  /\ UNCHANGED <<pub, writing, known, cloud, locals, past, made, started>>

LosePub ==
  /\ Event /\ pub # NoKey
  /\ pub' = NoKey /\ writing' = {}
  /\ UNCHANGED <<priv, known, cloud, locals, past, made, started>>

\* A command is killed, or one of its calls fails, where it leaves something half done.
Abort(p) ==
  /\ Event
  /\ pc[p] \in {"derive", "removePub", "keygen", "passphrase", "savePub", "writePub", "ingress"}
  /\ half' = (half \/ (pub = Blank /\ p \in writing))
  /\ writing' = writing \ {p}
  /\ Exit(p)
  /\ UNCHANGED <<priv, pub, known, cloud, overwritten, made, started>>

-----------------------------------------------------------------------------
KeyNext(p) ==
  \/ ReadPublicKey(p) \/ EnsureKey(p) \/ DeriveKey(p) \/ RemoveOrphan(p)
  \/ Keygen(p) \/ SaveKey(p) \/ SavePub(p) \/ WritePub(p) \/ ReadMadeKey(p)
LaunchNext(p) ==
  CreateBegin(p) \/ FindGroup(p) \/ NewGroup(p) \/ OpenGroup(p) \/ Launch(p)
ImportNext(p) == (\E b \in Boxes : ImportBox(p, b)) \/ Authorize(p)
SessionNext(p) ==
  \/ \E b \in Boxes : LookUp(p, b)
  \/ Poll(p) \/ Cancel(p) \/ PollOnce(p) \/ Connect(p) \/ EndSession(p)
BoxNext(b) ==
  \/ BootStep(b) \/ ScriptExits(b) \/ StopBox(b) \/ StartBox(b) \/ Terminate(b)
  \/ ConsoleLaunch(b) \/ Snapshot(b)
Next ==
  \/ \E p \in Procs : KeyNext(p) \/ LaunchNext(p) \/ ImportNext(p) \/ SessionNext(p) \/ Abort(p)
  \/ \E b \in Boxes : BoxNext(b)
  \/ Revoke \/ LosePriv \/ LosePub

Spec == Init /\ [][Next]_vars

\* The probe is repeated every five seconds, and a box that is up runs its user data.
FairSpec ==
  /\ Spec
  /\ \A p \in Procs : WF_vars(Poll(p))
  /\ \A b \in Boxes : WF_vars(BootStep(b))

=============================================================================
