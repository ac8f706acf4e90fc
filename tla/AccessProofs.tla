--------------------------- MODULE AccessProofs ---------------------------
(***************************************************************************)
(* Proofs about Access: its types, that the key handed out is the one of   *)
(* the private key, that boxes are launched behind an open port, and that  *)
(* a session is on a box that is known by its host key and is ready, for   *)
(* any number of processes, boxes, addresses and keys.                     *)
(***************************************************************************)
EXTENDS AccessProperties, TLAPS

\* Only a box launched with a key runs our user data, so what it adds is a key.
Injected == \A b \in Boxes : host[b].boot # "none" => host[b].inject # NoKey

\* A create from a snapshot has one to start from.
ImageThere == \A p \in Procs : source[p] = "image" => image \in Image

Types == TypeOK /\ Injected /\ ImageThere

-----------------------------------------------------------------------------
(* Types. *)

\* The types hold before the first command.
LEMMA InitTypes == Init => Types
  <1> SUFFICES ASSUME Init PROVE Types
    OBVIOUS
  <1>1. /\ priv \in Keys \cup {NoKey} /\ pub \in Keys \cup {NoKey, Blank}
        /\ key \in [Procs -> Keys \cup {NoKey, Blank}]
    BY BoundsAssumption DEF Init, Keys
  <1>2. /\ host \in [Boxes -> Host] /\ Injected
        /\ \A a, b \in Boxes : a # b /\ host[a].addr # NoAddr => host[a].addr # host[b].addr
    BY DEF Init, Unborn, Host, Boot, Injected
  <1>3. /\ pc \in [Procs -> Steps] /\ source \in [Procs -> {"none", "base", "image", "box"}]
        /\ \A p \in Procs : pc[p] = "idle" /\ source[p] = "none"
    BY DEF Init, Steps
  <1>4. /\ made \in 0..MaxKeys /\ started \in 0..MaxCommands /\ events \in 0..MaxEvents
    BY BoundsAssumption DEF Init
  <1>5. /\ known \in [Addrs -> Boxes \cup {NoBox}] /\ box \in [Procs -> Boxes \cup {NoBox}]
        /\ addr \in [Procs -> Addrs \cup {NoAddr}] /\ on \in [Procs -> Boxes \cup {NoBox}]
    BY DEF Init
  <1>6. writing = {} /\ group = "none" /\ image = NoImage /\ books = {} /\ overwritten = {}
    BY DEF Init
  <1>7. half \in BOOLEAN
    BY DEF Init
  <1> QED
    BY <1>1, <1>2, <1>3, <1>4, <1>5, <1>6, <1>7 DEF Types, TypeOK, ImageThere, Holding

\* A command returns.
LEMMA ExitTypes ==
  ASSUME Types, NEW p \in Procs, Exit(p)
  PROVE  /\ pc' \in [Procs -> Steps] /\ source' \in [Procs -> {"none", "base", "image", "box"}]
         /\ box' \in [Procs -> Boxes \cup {NoBox}] /\ addr' \in [Procs -> Addrs \cup {NoAddr}]
         /\ key' \in [Procs -> Keys \cup {NoKey, Blank}]
         /\ \A q \in Procs : pc'[q] \in Holding => key'[q] # NoKey
         /\ \A q \in Procs : pc'[q] = "append" => key'[q] # Blank
         /\ writing \ {p} \subseteq {q \in Procs : pc'[q] = "writePub"}
         /\ pc[p] # "writePub" => writing \subseteq {q \in Procs : pc'[q] = "writePub"}
         /\ on' \in [Procs -> Boxes \cup {NoBox}]
         /\ \A q \in Procs : source'[q] = "image" => image \in Image
  BY DEF Types, TypeOK, ImageThere, Exit, Goto, Steps, KeySteps, Holding

\* The public key file is read.
LEMMA TakeTypes ==
  ASSUME Types, NEW p \in Procs, Take(p), pub # NoKey, pc[p] # "writePub",
         UNCHANGED <<machine, cloud, overwritten, counts>>
  PROVE  Types'
  <1>1. CASE Exit(p)
    BY <1>1, ExitTypes DEF Take, Types, TypeOK, Injected, ImageThere, machine, cloud, counts
  <1>2. CASE /\ source[p] = "box" => pub # Blank
             /\ key' = [key EXCEPT ![p] = pub]
             /\ Goto(p, IF source[p] = "box" THEN "append" ELSE "group")
             /\ UNCHANGED <<source, box, addr, on>>
    <2>1. /\ key' \in [Procs -> Keys \cup {NoKey, Blank}] /\ pc' \in [Procs -> Steps]
          /\ \A q \in Procs : pc'[q] \in Holding => key'[q] # NoKey
          /\ \A q \in Procs : pc'[q] = "append" => key'[q] # Blank
          /\ writing \subseteq {q \in Procs : pc'[q] = "writePub"}
      BY <1>2 DEF Types, TypeOK, Goto, Steps, Holding
    <2> QED
      BY <1>2, <2>1 DEF Take, Types, TypeOK, Injected, ImageThere, machine, cloud, counts
  <1> QED
    BY <1>1, <1>2 DEF Take

\* The steps around the key pair.
LEMMA KeyTypes ==
  ASSUME Types, NEW p \in Procs, KeyNext(p)
  PROVE  Types'
  <1> USE DEF Types, TypeOK, machine, cloud, task, past, counts
  <1>1. CASE ReadPublicKey(p)
    BY <1>1, ExitTypes, TakeTypes
    DEF ReadPublicKey, Goto, At, Steps, KeySteps, Holding, Injected, ImageThere
  <1>2. CASE EnsureKey(p)
    BY <1>2 DEF EnsureKey, Goto, At, Steps, KeySteps, Holding, Injected, ImageThere
  <1>3. CASE DeriveKey(p)
    BY <1>3 DEF DeriveKey, EmptyPub, Goto, At, Steps, KeySteps, Holding, Injected, ImageThere
  <1>4. CASE RemoveOrphan(p)
    BY <1>4, ExitTypes DEF RemoveOrphan, Goto, At, Steps, KeySteps, Holding, Injected, ImageThere
  <1>5. CASE Keygen(p)
    BY <1>5, ExitTypes DEF Keygen, Goto, At, Steps, KeySteps, Holding, Injected, ImageThere
  <1>6. CASE SaveKey(p)
    <2>1. made' \in Keys /\ made' \in 0..MaxKeys
      BY <1>6, BoundsAssumption DEF SaveKey, Keys
    <2>2. overwritten' \subseteq Keys /\ priv' \in Keys
      BY <1>6, <2>1 DEF SaveKey
    <2>3. key' \in [Procs -> Keys \cup {NoKey, Blank}]
      BY <1>6, <2>1 DEF SaveKey
    <2> QED
      BY <1>6, <2>1, <2>2, <2>3 DEF SaveKey, Goto, At, Steps, KeySteps, Holding, Injected, ImageThere
  <1>7. CASE SavePub(p)
    BY <1>7 DEF SavePub, EmptyPub, Goto, At, Steps, KeySteps, Holding, Injected, ImageThere
  <1>8. CASE ReadMadeKey(p)
    BY <1>8, ExitTypes, TakeTypes
    DEF ReadMadeKey, Goto, At, Steps, KeySteps, Holding, Injected, ImageThere
  <1>9. CASE WritePub(p)
    BY <1>9 DEF WritePub, Goto, At, Steps, KeySteps, Holding, Injected, ImageThere
  <1> QED
    BY <1>1, <1>2, <1>3, <1>4, <1>5, <1>6, <1>7, <1>8, <1>9 DEF KeyNext

\* The steps around the security group and the launch.
LEMMA NewbornIsHost ==
  ASSUME Types, NEW p \in Procs, NEW a \in Addrs, pc[p] = "launch"
  PROVE  Newborn(p, a) \in Host /\ Newborn(p, a).inject # NoKey
  <1>1. key[p] \in Keys \cup {Blank} /\ key[p] # NoKey
    BY DEF Types, TypeOK, Holding
  <1>2. source[p] = "image" => image.marker \in BOOLEAN /\ image.keys \in SUBSET (Keys \cup {Pem})
    BY DEF Types, ImageThere, Image
  <1> QED
    BY <1>1, <1>2 DEF Newborn, Host, Boot

\* The steps of create keep the types.
LEMMA LaunchTypes ==
  ASSUME Types, NEW p \in Procs, LaunchNext(p)
  PROVE  Types'
  <1> USE DEF Types, TypeOK, machine, cloud, task, past, counts
  <1>1. CASE CreateBegin(p)
    BY <1>1, BoundsAssumption
    DEF CreateBegin, Begin, Goto, At, Steps, KeySteps, Holding, Injected, ImageThere
  <1>2. CASE FindGroup(p)
    BY <1>2, ExitTypes DEF FindGroup, Goto, At, Steps, KeySteps, Holding, Injected, ImageThere
  <1>3. CASE NewGroup(p)
    BY <1>3, ExitTypes DEF NewGroup, Goto, At, Steps, KeySteps, Holding, Injected, ImageThere
  <1>4. CASE OpenGroup(p)
    BY <1>4 DEF OpenGroup, Goto, At, Steps, KeySteps, Holding, Injected, ImageThere
  <1>5. CASE Launch(p)
    <2>1. CASE UNCHANGED <<host, books>>
      BY <1>5, <2>1, ExitTypes DEF Launch, At, Injected, ImageThere
    <2>2. ASSUME NEW b \in Boxes, NEW a \in FreeAddrs, host[b] = Unborn,
                 host' = [host EXCEPT ![b] = Newborn(p, a)], books' = books \cup {b}
          PROVE  Types'
      <3> a \in Addrs
        BY DEF FreeAddrs
      <3>1. Newborn(p, a) \in Host /\ Newborn(p, a).inject # NoKey
        BY <1>5, NewbornIsHost DEF Launch, At
      <3>2. Newborn(p, a).state = "up" /\ Newborn(p, a).addr = a
        BY DEF Newborn
      <3>3. host' \in [Boxes -> Host] /\ Injected' /\ \A c \in Boxes : c # b => host'[c] = host[c]
        BY <2>2, <3>1 DEF Injected
      <3>4. host'[b].state = "up" /\ host'[b].addr = a
        BY <2>2, <3>2
      <3>5. books' \subseteq {c \in Boxes : host'[c].state \in {"up", "down"}}
        BY <2>2, <3>3, <3>4
      <3>6. \A c, d \in Boxes : c # d /\ host'[c].addr # NoAddr => host'[c].addr # host'[d].addr
        BY <3>3, <3>4 DEF FreeAddrs
      <3> QED
        BY <1>5, <3>3, <3>5, <3>6, ExitTypes DEF Launch, At, ImageThere
    <2> QED
      BY <1>5, <2>1, <2>2 DEF Launch
  <1> QED
    BY <1>1, <1>2, <1>3, <1>4, <1>5 DEF LaunchNext

\* A host record that changes in what is not its address or state keeps the rest true.
LEMMA HostChanges ==
  ASSUME Types, NEW b \in Boxes, NEW h \in Host,
         h.boot # "none" => h.inject # NoKey,
         b \in books => h.state \in {"up", "down"},
         h.addr = NoAddr \/ h.addr = host[b].addr \/ h.addr \in FreeAddrs,
         host' = [host EXCEPT ![b] = h]
  PROVE  /\ host' \in [Boxes -> Host] /\ Injected'
         /\ books \subseteq {c \in Boxes : host'[c].state \in {"up", "down"}}
         /\ \A c, d \in Boxes : c # d /\ host'[c].addr # NoAddr => host'[c].addr # host'[d].addr
  <1>1. host' \in [Boxes -> Host] /\ host'[b] = h /\ \A c \in Boxes : c # b => host'[c] = host[c]
    BY DEF Types, TypeOK
  <1>2. Injected'
    BY <1>1 DEF Types, Injected
  <1>3. books \subseteq {c \in Boxes : host'[c].state \in {"up", "down"}}
    BY <1>1 DEF Types, TypeOK
  <1>4. \A c, d \in Boxes : c # d /\ host'[c].addr # NoAddr => host'[c].addr # host'[d].addr
    BY <1>1 DEF Types, TypeOK, FreeAddrs
  <1> QED
    BY <1>1, <1>2, <1>3, <1>4

\* So do those of import.
LEMMA ImportTypes ==
  ASSUME Types, NEW p \in Procs, ImportNext(p)
  PROVE  Types'
  <1> USE DEF Types, TypeOK, machine, cloud, task, past, counts
  <1>1. ASSUME NEW b \in Boxes, ImportBox(p, b) PROVE Types'
    <2>1. host[b].addr \in Addrs \cup {NoAddr}
      BY DEF Host
    <2>2. books' \subseteq {c \in Boxes : host'[c].state \in {"up", "down"}}
      BY <1>1 DEF ImportBox
    <2>3. \/ Begin(p, "box", "keys")
          \/ Begin(p, "none", "idle")
      BY <1>1 DEF ImportBox
    <2>4. /\ pc' \in [Procs -> Steps] /\ source' \in [Procs -> {"none", "base", "image", "box"}]
          /\ started' \in 0..MaxCommands /\ ImageThere'
          /\ \A q \in Procs : pc'[q] \in Holding => pc[q] = pc'[q]
          /\ \A q \in Procs : pc[q] = "writePub" => pc'[q] = "writePub"
      BY <1>1, <2>3, BoundsAssumption
      DEF ImportBox, Begin, Goto, At, Steps, KeySteps, Holding, ImageThere
    <2>5. box' \in [Procs -> Boxes \cup {NoBox}] /\ addr' \in [Procs -> Addrs \cup {NoAddr}]
      BY <1>1, <2>1 DEF ImportBox
    <2> QED
      BY <1>1, <2>2, <2>4, <2>5 DEF ImportBox, Injected, Holding
  <1>2. CASE Authorize(p)
    <2>1. CASE UNCHANGED <<known, host>>
      BY <1>2, <2>1, ExitTypes DEF Authorize, At, Injected, ImageThere
    <2>2. ASSUME NEW b \in Boxes, NEW marked \in BOOLEAN, Learn(b, addr[p]),
                 host' = [host EXCEPT ![b].keys = @ \cup {key[p]}, ![b].marker = @ \/ marked,
                                      ![b].lent = @ \/ marked]
          PROVE  Types'
      <3> DEFINE h == [host[b] EXCEPT !.keys = @ \cup {key[p]}, !.marker = @ \/ marked,
                                      !.lent = @ \/ marked]
      <3>1. key[p] \in Keys
        BY <1>2 DEF Authorize, At, Holding
      <3>2. host[b] \in Host
        OBVIOUS
      <3>3. /\ h \in Host /\ h.boot = host[b].boot /\ h.inject = host[b].inject
            /\ h.state = host[b].state /\ h.addr = host[b].addr
        BY <3>1, <3>2 DEF Host
      <3>4. host' = [host EXCEPT ![b] = h]
        BY <2>2
      <3>5. /\ host' \in [Boxes -> Host] /\ Injected'
            /\ books \subseteq {c \in Boxes : host'[c].state \in {"up", "down"}}
            /\ \A c, d \in Boxes : c # d /\ host'[c].addr # NoAddr => host'[c].addr # host'[d].addr
        <4> HIDE DEF h
        <4> QED
          BY <3>3, <3>4, HostChanges DEF Injected
      <3>6. known' \in [Addrs -> Boxes \cup {NoBox}]
        BY <2>2 DEF Learn
      <3> QED
        BY <1>2, <3>5, <3>6, ExitTypes DEF Authorize, At, ImageThere
    <2> QED
      BY <1>2, <2>1, <2>2 DEF Authorize
  <1> QED
    BY <1>1, <1>2 DEF ImportNext

\* And those of ssh, exec, cp, sync and forward.
LEMMA SessionTypes ==
  ASSUME Types, NEW p \in Procs, SessionNext(p)
  PROVE  Types'
  <1> USE DEF Types, TypeOK, machine, cloud, task, past, counts
  <1>1. ASSUME NEW b \in Boxes, LookUp(p, b) PROVE Types'
    BY <1>1, BoundsAssumption
    DEF LookUp, Begin, Goto, At, Steps, KeySteps, Holding, Injected, ImageThere, Host
  <1>2. CASE Poll(p)
    <2>1. known' \in [Addrs -> Boxes \cup {NoBox}]
      BY <1>2 DEF Poll, Learn
    <2>2. /\ pc' \in [Procs -> Steps]
          /\ \A q \in Procs : pc'[q] \in Holding => pc[q] = pc'[q]
          /\ \A q \in Procs : pc[q] = "writePub" => pc'[q] = "writePub"
          /\ UNCHANGED <<priv, pub, writing, cloud, task, past, counts>>
      BY <1>2 DEF Poll, Goto, At, Steps, KeySteps, Holding
    <2> QED
      BY <2>1, <2>2 DEF Injected, ImageThere, Holding
  <1>3. CASE Cancel(p)
    BY <1>3, ExitTypes DEF Cancel, At, Injected, ImageThere
  <1>4. CASE PollOnce(p)
    BY <1>4, ExitTypes DEF PollOnce, Learn, Goto, At, Steps, KeySteps, Holding, Injected, ImageThere
  <1>5. CASE Connect(p)
    BY <1>5, ExitTypes DEF Connect, Learn, Goto, At, Steps, KeySteps, Holding, Injected, ImageThere
  <1>6. CASE EndSession(p)
    BY <1>6, ExitTypes DEF EndSession, At, Injected, ImageThere
  <1> QED
    BY <1>1, <1>2, <1>3, <1>4, <1>5, <1>6 DEF SessionNext

\* The boxes, and what happens to them.
LEMMA BoxTypes ==
  ASSUME Types, NEW b \in Boxes, BoxNext(b)
  PROVE  Types'
  <1> USE DEF Types, TypeOK, machine, cloud, task, past, locals, counts
  <1>0. host[b] \in Host /\ (Event => events' \in 0..MaxEvents)
    BY BoundsAssumption DEF Event
  <1>1. CASE BootStep(b)
    <2>1. CASE host[b].boot = "key"
      <3> DEFINE h == [host[b] EXCEPT !.keys = @ \cup ({host[b].inject} \ {Blank}), !.boot = "scripts"]
      <3>1. h \in Host /\ h.inject # NoKey /\ h.addr = host[b].addr /\ h.state = host[b].state
        BY <1>0, <2>1 DEF Host, Boot, Injected
      <3>2. host' = [host EXCEPT ![b] = h]
        BY <1>1, <2>1 DEF BootStep
      <3> HIDE DEF h
      <3> QED
        BY <1>1, <3>1, <3>2, HostChanges DEF BootStep, ImageThere
    <2>2. CASE host[b].boot = "scripts"
      <3> DEFINE h == [host[b] EXCEPT !.boot = "done", !.marker = TRUE, !.lent = FALSE]
      <3>1. h \in Host /\ h.inject # NoKey /\ h.addr = host[b].addr /\ h.state = host[b].state
        BY <1>0, <2>2 DEF Host, Boot, Injected
      <3>2. host' = [host EXCEPT ![b] = h]
        BY <1>1, <2>2 DEF BootStep
      <3> HIDE DEF h
      <3> QED
        BY <1>1, <3>1, <3>2, HostChanges DEF BootStep, ImageThere
    <2> QED
      BY <1>1, <2>1, <2>2 DEF BootStep
  <1>2. CASE ScriptExits(b)
    <2> DEFINE h == [host[b] EXCEPT !.boot = "cut"]
    <2>1. h \in Host /\ h.inject # NoKey /\ h.addr = host[b].addr /\ h.state = host[b].state
      BY <1>0, <1>2 DEF ScriptExits, Host, Boot, Injected
    <2>2. host' = [host EXCEPT ![b] = h]
      BY <1>2 DEF ScriptExits
    <2> HIDE DEF h
    <2>3. b \in books => h.state \in {"up", "down"}
      BY <2>1
    <2>4. /\ host' \in [Boxes -> Host] /\ Injected'
          /\ books \subseteq {c \in Boxes : host'[c].state \in {"up", "down"}}
          /\ \A c, d \in Boxes : c # d /\ host'[c].addr # NoAddr => host'[c].addr # host'[d].addr
      BY <2>1, <2>2, <2>3, HostChanges
    <2> QED
      BY <1>0, <1>2, <2>4 DEF ScriptExits, OnBoxes, ImageThere
  <1>3. CASE StopBox(b)
    <2>1. PICK next \in {host[b].boot, IF host[b].boot \in {"none", "done"} THEN host[b].boot ELSE "cut"} :
            host' = [host EXCEPT ![b].state = "down", ![b].addr = NoAddr, ![b].boot = next]
      BY <1>3 DEF StopBox
    <2> DEFINE h == [host[b] EXCEPT !.state = "down", !.addr = NoAddr, !.boot = next]
    <2>2. h \in Host /\ (h.boot # "none" => h.inject # NoKey) /\ h.addr = NoAddr /\ h.state = "down"
      BY <1>0, <2>1 DEF Host, Boot, Injected
    <2>3. host' = [host EXCEPT ![b] = h]
      BY <2>1
    <2> HIDE DEF h
    <2> QED
      BY <1>0, <1>3, <2>2, <2>3, HostChanges DEF StopBox, OnBoxes, ImageThere
  <1>4. CASE StartBox(b)
    <2>1. PICK a \in FreeAddrs : host' = [host EXCEPT ![b].state = "up", ![b].addr = a]
      BY <1>4 DEF StartBox
    <2> DEFINE h == [host[b] EXCEPT !.state = "up", !.addr = a]
    <2>2. h \in Host /\ (h.boot # "none" => h.inject # NoKey) /\ h.addr \in FreeAddrs /\ h.state = "up"
      BY <1>0, <2>1 DEF Host, Injected, FreeAddrs
    <2>3. host' = [host EXCEPT ![b] = h]
      BY <2>1
    <2> HIDE DEF h
    <2> QED
      BY <1>0, <1>4, <2>2, <2>3, HostChanges DEF StartBox, OnBoxes, ImageThere
  <1>5. CASE Terminate(b)
    <2> DEFINE h == [Unborn EXCEPT !.state = "gone"]
    <2>1. h \in Host /\ h.boot = "none" /\ h.addr = NoAddr
      BY DEF Unborn, Host, Boot
    <2>2. host' = [host EXCEPT ![b] = h] /\ books' = books \ {b}
      BY <1>5 DEF Terminate
    <2> HIDE DEF h
    <2>3. host' \in [Boxes -> Host] /\ host'[b] = h /\ \A c \in Boxes : c # b => host'[c] = host[c]
      BY <2>1, <2>2
    <2>4. books' \subseteq {c \in Boxes : host'[c].state \in {"up", "down"}}
      BY <2>2, <2>3
    <2>5. \A c, d \in Boxes : c # d /\ host'[c].addr # NoAddr => host'[c].addr # host'[d].addr
      BY <2>1, <2>3
    <2>6. Injected'
      BY <2>1, <2>3 DEF Injected
    <2> QED
      BY <1>0, <1>5, <2>3, <2>4, <2>5, <2>6 DEF Terminate, ImageThere
  <1>6. CASE ConsoleLaunch(b)
    <2>1. PICK a \in FreeAddrs :
            host' = [host EXCEPT ![b] = [Unborn EXCEPT !.state = "up", !.addr = a, !.keys = {Pem}]]
      BY <1>6 DEF ConsoleLaunch
    <2> DEFINE h == [Unborn EXCEPT !.state = "up", !.addr = a, !.keys = {Pem}]
    <2>2. h \in Host /\ h.boot = "none" /\ h.addr \in FreeAddrs /\ h.state = "up"
      BY DEF Unborn, Host, Boot, FreeAddrs
    <2> HIDE DEF h
    <2> QED
      BY <1>0, <1>6, <2>1, <2>2, HostChanges DEF ConsoleLaunch, OnBoxes, ImageThere, h
  <1>7. CASE Snapshot(b)
    <2>1. image' \in Image
      BY <1>0, <1>7 DEF Snapshot, Host, Image
    <2> QED
      BY <1>0, <1>7, <2>1 DEF Snapshot, Injected, ImageThere
  <1> QED
    BY <1>1, <1>2, <1>3, <1>4, <1>5, <1>6, <1>7 DEF BoxNext

\* What the user and the console do, and commands that die.
LEMMA EventTypes ==
  ASSUME Types, Revoke \/ LosePriv \/ LosePub \/ \E p \in Procs : Abort(p)
  PROVE  Types'
  <1> USE DEF Types, TypeOK, machine, cloud, task, past, locals
  <1>0. Event => events' \in 0..MaxEvents
    BY BoundsAssumption DEF Event
  <1>1. CASE Revoke
    BY <1>0, <1>1 DEF Revoke, Injected, ImageThere
  <1>2. CASE LosePriv \/ LosePub
    BY <1>0, <1>2 DEF LosePriv, LosePub, Injected, ImageThere
  <1>3. ASSUME NEW p \in Procs, Abort(p) PROVE Types'
    BY <1>0, <1>3, ExitTypes DEF Abort, Injected, ImageThere
  <1> QED
    BY <1>1, <1>2, <1>3

\* Every step keeps the types.
LEMMA NextTypes == Types /\ [Next]_vars => Types'
  <1> SUFFICES ASSUME Types, [Next]_vars PROVE Types'
    OBVIOUS
  <1>1. CASE UNCHANGED vars
    BY <1>1 DEF vars, Types, TypeOK, Injected, ImageThere
  <1>2. CASE Next
    BY <1>2, KeyTypes, LaunchTypes, ImportTypes, SessionTypes, BoxTypes, EventTypes DEF Next
  <1> QED
    BY <1>1, <1>2

\* Every part of the state keeps its type, and no two boxes have one address.
THEOREM TypeCorrect == Spec => []TypeOK
  <1>1. Spec => []Types
    BY InitTypes, NextTypes, PTL DEF Spec
  <1> QED
    BY <1>1, PTL DEF Types

-----------------------------------------------------------------------------
(* The key pair.  Looking for the private half and using it are steps apart, so the       *)
(* invariant says what each step of a command may still rely on.                          *)

Using == {"derive", "savePub", "writePub", "readPub"} \cup Holding

PrivThere == \A p \in Procs : pc[p] \in Using => priv # NoKey
PubFits == priv # NoKey /\ pub \notin {NoKey, Blank} => pub = priv \/ pub \in overwritten
BlankSeen == pub = Blank => half \/ writing # {}
NothingLeft == \A p \in Procs : pc[p] \in {"keygen", "passphrase"} /\ priv = NoKey => pub = NoKey
KeyHeld ==
  \A p \in Procs : pc[p] \in Using \ {"readPub"} =>
    \/ key[p] = priv \/ key[p] \in overwritten
    \/ pc[p] \in Holding /\ key[p] = Blank /\ source[p] # "box" /\ half

Pair == PrivThere /\ PubFits /\ BlankSeen /\ NothingLeft /\ KeyHeld

\* No command is mending the pair at first.
LEMMA InitPair == Init => Pair
  <1> SUFFICES ASSUME Init PROVE Pair
    OBVIOUS
  <1>1. \A p \in Procs : pc[p] \notin Using /\ pc[p] \notin {"keygen", "passphrase"}
    BY DEF Init, Using, Holding
  <1>2. /\ priv # NoKey /\ pub # NoKey => pub = priv
        /\ pub # Blank
    BY BoundsAssumption, NonesAssumption DEF Init, Keys
  <1> QED
    BY <1>1, <1>2 DEF Pair, PrivThere, PubFits, BlankSeen, NothingLeft, KeyHeld

\* A step that leaves the pair alone, and by which commands only return, begin or go on
\* with the key they have.
LEMMA PairKept ==
  ASSUME Types, Pair, UNCHANGED <<priv, pub, overwritten>>, half => half',
         writing # {} => writing' # {} \/ half' \/ pub # Blank,
         \A p \in Procs : pc'[p] \in Using => pc[p] \in Using,
         \A p \in Procs : pc'[p] \in {"keygen", "passphrase"} => pc[p] \in {"keygen", "passphrase"},
         \A p \in Procs : pc'[p] \in Using \ {"readPub"} =>
           /\ pc[p] # "readPub" /\ key'[p] = key[p] /\ source'[p] = source[p]
           /\ pc[p] \in Holding => pc'[p] \in Holding
  PROVE  Pair'
  BY DEF Pair, PrivThere, PubFits, BlankSeen, NothingLeft, KeyHeld

\* Each step of reading, mending or making the pair keeps what is known of it.
LEMMA KeyPair ==
  ASSUME Types, Pair, NEW p \in Procs, KeyNext(p)
  PROVE  Pair'
  <1> USE DEF Pair, PrivThere, PubFits, BlankSeen, NothingLeft, KeyHeld
  <1>0. /\ pc \in [Procs -> Steps] /\ key \in [Procs -> Keys \cup {NoKey, Blank}]
        /\ priv \in Keys \cup {NoKey} /\ pub \in Keys \cup {NoKey, Blank}
        /\ NoKey \notin Keys /\ Blank \notin Keys /\ NoKey # Blank /\ half \in BOOLEAN
        /\ writing \subseteq Procs /\ overwritten \subseteq Keys
        /\ source \in [Procs -> {"none", "base", "image", "box"}]
    BY NonesAssumption DEF Types, TypeOK
  <1>10. ASSUME Take(p), priv # NoKey, pub # NoKey, UNCHANGED <<priv, pub, writing, overwritten>>
        PROVE  Pair'
    <2>1. CASE Exit(p)
      BY <1>0, <1>10, <2>1 DEF Take, Exit, Goto, Using, Holding
    <2>2. CASE /\ source[p] = "box" => pub # Blank
               /\ key' = [key EXCEPT ![p] = pub]
               /\ Goto(p, IF source[p] = "box" THEN "append" ELSE "group")
               /\ UNCHANGED source
      <3>1. half => half'
        BY <1>10 DEF Take
      <3>2. pub = Blank => half'
        BY <1>10 DEF Take
      <3>3. pc'[p] \in {"append", "group"} /\ \A q \in Procs \ {p} : pc'[q] = pc[q] /\ key'[q] = key[q]
        BY <1>0, <2>2 DEF Goto
      <3>4. KeyHeld'
        <4>1. ASSUME NEW q \in Procs \ {p}, pc'[q] \in Using \ {"readPub"}
              PROVE  \/ key'[q] = priv' \/ key'[q] \in overwritten'
                     \/ pc'[q] \in Holding /\ key'[q] = Blank /\ source'[q] # "box" /\ half'
          BY <1>10, <2>2, <3>1, <3>3, <4>1
        <4>2. \/ key'[p] = priv' \/ key'[p] \in overwritten'
              \/ pc'[p] \in Holding /\ key'[p] = Blank /\ source'[p] # "box" /\ half'
          BY <1>0, <1>10, <2>2, <3>2, <3>3 DEF Holding
        <4> QED
          BY <4>1, <4>2
      <3> QED
        BY <1>10, <3>1, <3>3, <3>4 DEF Using, Holding
    <2> QED
      BY <1>10, <2>1, <2>2 DEF Take
  <1>1. CASE ReadPublicKey(p)
    BY <1>0, <1>1, <1>10
    DEF ReadPublicKey, Exit, Goto, At, machine, task, past, counts, Using, Holding
  <1>2. CASE EnsureKey(p)
    BY <1>0, <1>2 DEF EnsureKey, Goto, At, machine, past, Using, Holding
  <1>3. CASE DeriveKey(p)
    BY <1>0, <1>3 DEF DeriveKey, EmptyPub, Goto, At, task, past, Using, Holding
  <1>4. CASE RemoveOrphan(p)
    BY <1>0, <1>4 DEF RemoveOrphan, Exit, Goto, At, task, past, Using, Holding
  <1>5. CASE Keygen(p)
    BY <1>0, <1>5 DEF Keygen, Exit, Goto, At, machine, task, past, Using, Holding
  <1>6. CASE SaveKey(p)
    <2>1. made' \in Keys
      BY <1>6, BoundsAssumption DEF SaveKey, Types, TypeOK, Keys
    <2> QED
      BY <1>0, <1>6, <2>1 DEF SaveKey, Goto, At, Using, Holding
  <1>7. CASE SavePub(p)
    BY <1>0, <1>7 DEF SavePub, EmptyPub, Goto, At, task, past, Using, Holding
  <1>8. CASE ReadMadeKey(p)
    BY <1>0, <1>8, <1>10 DEF ReadMadeKey, Exit, Goto, At, machine, Using, Holding
  <1>9. CASE WritePub(p)
    BY <1>0, <1>9 DEF WritePub, Goto, At, task, past, Using, Holding
  <1> QED
    BY <1>1, <1>2, <1>3, <1>4, <1>5, <1>6, <1>7, <1>8, <1>9 DEF KeyNext

\* The other steps of a command leave the pair alone.
LEMMA OtherPair ==
  ASSUME Types, Pair, NEW p \in Procs, LaunchNext(p) \/ ImportNext(p) \/ SessionNext(p) \/ Abort(p)
  PROVE  Pair'
  <1>0. /\ pc \in [Procs -> Steps] /\ key \in [Procs -> Keys \cup {NoKey, Blank}]
        /\ source \in [Procs -> {"none", "base", "image", "box"}]
    BY DEF Types, TypeOK
  <1> USE DEF Goto, At, Begin, Exit, machine, cloud, task, past, counts, Using, Holding
  <1>1. CASE LaunchNext(p)
    <2>1. CASE CreateBegin(p)
      BY <1>0, <2>1, PairKept DEF CreateBegin
    <2>2. CASE FindGroup(p) \/ NewGroup(p)
      BY <1>0, <2>2, PairKept DEF FindGroup, NewGroup
    <2>3. CASE OpenGroup(p)
      BY <1>0, <2>3, PairKept DEF OpenGroup
    <2>4. CASE Launch(p)
      BY <1>0, <2>4, PairKept DEF Launch
    <2> QED
      BY <1>1, <2>1, <2>2, <2>3, <2>4 DEF LaunchNext
  <1>2. CASE ImportNext(p)
    <2>1. UNCHANGED <<priv, pub, writing, overwritten, half>>
      BY <1>2 DEF ImportNext, ImportBox, Authorize
    <2>2. /\ \A q \in Procs \ {p} : pc'[q] = pc[q] /\ key'[q] = key[q] /\ source'[q] = source[q]
          /\ pc'[p] \notin Using \cup {"keygen", "passphrase"}
      BY <1>0, <1>2 DEF ImportNext, ImportBox, Authorize
    <2> QED
      BY <2>1, <2>2, PairKept
  <1>3. CASE SessionNext(p)
    <2>1. UNCHANGED <<priv, pub, writing, overwritten, half>>
      BY <1>3 DEF SessionNext, LookUp, Poll, Cancel, PollOnce, Connect, EndSession
    <2>2. /\ \A q \in Procs \ {p} : pc'[q] = pc[q] /\ key'[q] = key[q] /\ source'[q] = source[q]
          /\ pc'[p] \notin Using \cup {"keygen", "passphrase"}
      BY <1>0, <1>3 DEF SessionNext, LookUp, Poll, Cancel, PollOnce, Connect, EndSession
    <2> QED
      BY <2>1, <2>2, PairKept
  <1>4. CASE Abort(p)
    BY <1>0, <1>4, PairKept DEF Abort
  <1> QED
    BY <1>1, <1>2, <1>3, <1>4

\* Every step keeps what is known of the pair.
LEMMA NextPair == Types /\ Pair /\ [Next]_vars => Pair'
  <1> SUFFICES ASSUME Types, Pair, [Next]_vars PROVE Pair'
    OBVIOUS
  <1>1. ASSUME NEW b \in Boxes, BoxNext(b) PROVE Pair'
    <2>1. UNCHANGED <<priv, pub, writing, overwritten, half, pc, key, source>>
      BY <1>1 DEF BoxNext, BootStep, ScriptExits, StopBox, StartBox, Terminate,
         ConsoleLaunch, Snapshot, OnBoxes, machine, past, locals, task
    <2> QED
      BY <2>1, PairKept
  <1>2. CASE Revoke \/ UNCHANGED vars
    BY <1>2, PairKept DEF Revoke, vars, machine, past, locals, task
  <1>3. CASE LosePriv
    BY <1>3 DEF LosePriv, past, locals, task, Pair, PrivThere, PubFits, BlankSeen, NothingLeft, KeyHeld,
       Using, KeySteps, Holding
  <1>4. CASE LosePub
    BY <1>4, NonesAssumption
    DEF LosePub, past, locals, task, Pair, PrivThere, PubFits, BlankSeen, NothingLeft, KeyHeld
  <1> QED
    BY <1>1, <1>2, <1>3, <1>4, KeyPair, OtherPair DEF Next

\* The key that create and import put on a box is that of the private key, however many
\* commands mend the pair at once, but for one that a second ssh-keygen wrote over and the
\* empty one that create takes where a write of the public key was cut short or under way.
THEOREM KeyHandedOut == Spec => []KeyFits
  <1>1. Spec => [](Types /\ Pair)
    BY InitTypes, NextTypes, InitPair, NextPair, PTL DEF Spec
  <1>2. Pair => KeyFits
    BY DEF Pair, KeyHeld, KeyFits, Using, Holding
  <1> QED
    BY <1>1, <1>2, PTL

-----------------------------------------------------------------------------
(* The security group. *)

\* A box is launched behind an open port, whichever create made the group and was killed.
THEOREM LaunchesOpen == Spec => []LaunchedOpen
  <1>1. Init => LaunchedOpen
    BY DEF Init, LaunchedOpen, At
  <1>2. Types /\ LaunchedOpen /\ [Next]_vars => LaunchedOpen'
    <2> SUFFICES ASSUME Types, LaunchedOpen, [Next]_vars PROVE LaunchedOpen'
      OBVIOUS
    <2>0. pc \in [Procs -> Steps]
      BY DEF Types, TypeOK
    <2> USE <2>0 DEF LaunchedOpen, Goto, At, Begin, Exit, Take, machine, cloud, task, locals, counts
    <2>1. ASSUME NEW p \in Procs, KeyNext(p) PROVE LaunchedOpen'
      BY <2>1 DEF KeyNext, ReadPublicKey, EnsureKey, DeriveKey, SavePub, EmptyPub, WritePub,
         RemoveOrphan, Keygen, SaveKey, ReadMadeKey
    <2>2. ASSUME NEW p \in Procs, LaunchNext(p) PROVE LaunchedOpen'
      BY <2>2 DEF LaunchNext, CreateBegin, FindGroup, NewGroup, OpenGroup, Launch
    <2>3. ASSUME NEW p \in Procs, ImportNext(p) PROVE LaunchedOpen'
      BY <2>3 DEF ImportNext, ImportBox, Authorize
    <2>4. ASSUME NEW p \in Procs, SessionNext(p) PROVE LaunchedOpen'
      BY <2>4 DEF SessionNext, LookUp, Poll, Cancel, PollOnce, Connect, EndSession
    <2>5. ASSUME NEW p \in Procs, Abort(p) PROVE LaunchedOpen'
      BY <2>5 DEF Abort
    <2>6. ASSUME NEW b \in Boxes, BoxNext(b) PROVE LaunchedOpen'
      BY <2>6 DEF BoxNext, BootStep, ScriptExits, StopBox, StartBox, Terminate, ConsoleLaunch,
         Snapshot, OnBoxes
    <2>7. CASE Revoke \/ LosePriv \/ LosePub \/ UNCHANGED vars
      BY <2>7 DEF Revoke, LosePriv, LosePub, vars
    <2> QED
      BY <2>1, <2>2, <2>3, <2>4, <2>5, <2>6, <2>7 DEF Next
  <1>3. Spec => []Types
    BY InitTypes, NextTypes, PTL DEF Spec
  <1> QED
    BY <1>1, <1>2, <1>3, PTL DEF Spec

-----------------------------------------------------------------------------
(* Sessions.  A command keeps an address while boxes move; what it can rely on is that    *)
(* the host key on record for the address stays, and that a box that is ready stays so.   *)

Finished(b) ==
  host[b].boot \in {"done", "none"} \/ host[b].lent \/ host[b].state = "gone"

InTouch == {"wait", "once", "connect", "session"}

MarkerTrue == \A b \in Boxes : host[b].marker => Finished(b)
UpHasAddr == \A b \in Boxes : host[b].state = "up" => host[b].addr \in Addrs
KnownBorn == \A a \in Addrs : known[a] # NoBox => host[known[a]].state # "none"
AddrThere == \A p \in Procs : pc[p] \in InTouch => addr[p] \in Addrs
Reached ==
  \A p \in Procs : pc[p] \in {"connect", "session"} =>
    known[addr[p]] # NoBox /\ Finished(known[addr[p]])

Sessions == MarkerTrue /\ UpHasAddr /\ KnownBorn /\ AddrThere /\ Reached /\ SessionOnBox

\* What a step does to the boxes: none is unborn again, and what is finished stays so.
Aged ==
  \A b \in Boxes : host[b].state # "none" =>
    host'[b].state # "none" /\ (Finished(b) => Finished(b)')
BoxesAge == Aged /\ MarkerTrue' /\ UpHasAddr'

\* And to the host keys: one that is on record stays.
KnownGrows ==
  \A a \in Addrs :
    \/ known'[a] = known[a]
    \/ known[a] = NoBox /\ known'[a] \in Boxes /\ host'[known'[a]].state # "none"

\* No session is open at first.
LEMMA InitSessions == Init => Sessions
  BY DEF Init, Sessions, MarkerTrue, UpHasAddr, KnownBorn, AddrThere, Reached, SessionOnBox,
     InTouch, Unborn, Finished, At

\* Where no box changes, none gets younger.
LEMMA HostKept ==
  ASSUME Sessions, UNCHANGED host
  PROVE  BoxesAge
  BY DEF Sessions, BoxesAge, Aged, MarkerTrue, UpHasAddr, Finished

\* One box changes.
LEMMA OneAges ==
  ASSUME Types, Sessions, NEW b \in Boxes, NEW h, host' = [host EXCEPT ![b] = h],
         h.state # "none",
         h.state = "up" => h.addr \in Addrs,
         h.marker => h.boot \in {"done", "none"} \/ h.lent \/ h.state = "gone",
         host[b].state # "none" /\ Finished(b) =>
           h.boot \in {"done", "none"} \/ h.lent \/ h.state = "gone"
  PROVE  BoxesAge
  <1>1. host'[b] = h /\ \A c \in Boxes : c # b => host'[c] = host[c]
    BY DEF Types, TypeOK
  <1> QED
    BY <1>1 DEF Sessions, BoxesAge, Aged, MarkerTrue, UpHasAddr, Finished

\* A box that boots, stops, starts, dies or is snapshotted does not get younger.
LEMMA BoxesMove ==
  ASSUME Types, Sessions, NEW b \in Boxes, BoxNext(b)
  PROVE  BoxesAge
  <1>0. host[b] \in Host /\ (host[b].marker => Finished(b)) /\ (host[b].state = "up" => host[b].addr \in Addrs)
    BY DEF Types, TypeOK, Sessions, MarkerTrue, UpHasAddr
  <1> USE DEF Host, Finished
  <1>1. CASE BootStep(b)
    <2>1. CASE host[b].boot = "key"
      <3> DEFINE h == [host[b] EXCEPT !.keys = @ \cup ({host[b].inject} \ {Blank}), !.boot = "scripts"]
      <3>1. host' = [host EXCEPT ![b] = h]
        BY <1>1, <2>1 DEF BootStep
      <3>2. /\ h.state = "up" /\ h.addr = host[b].addr /\ h.marker = host[b].marker
            /\ h.lent = host[b].lent
        BY <1>0, <1>1 DEF BootStep
      <3>3. host[b].boot \notin {"done", "none"} /\ host[b].state = "up"
        BY <1>1, <2>1 DEF BootStep
      <3> HIDE DEF h
      <3> QED
        BY <1>0, <3>1, <3>2, <3>3, OneAges
    <2>2. CASE host[b].boot = "scripts"
      <3> DEFINE h == [host[b] EXCEPT !.boot = "done", !.marker = TRUE, !.lent = FALSE]
      <3>1. host' = [host EXCEPT ![b] = h]
        BY <1>1, <2>2 DEF BootStep
      <3>2. h.state = "up" /\ h.addr = host[b].addr /\ h.boot = "done"
        BY <1>0, <1>1 DEF BootStep
      <3>3. host[b].state = "up"
        BY <1>1 DEF BootStep
      <3> HIDE DEF h
      <3> QED
        BY <1>0, <3>1, <3>2, <3>3, OneAges
    <2> QED
      BY <1>1, <2>1, <2>2 DEF BootStep
  <1>2. CASE ScriptExits(b)
    <2> DEFINE h == [host[b] EXCEPT !.boot = "cut"]
    <2>1. host' = [host EXCEPT ![b] = h]
      BY <1>2 DEF ScriptExits
    <2>2. /\ h.state = "up" /\ h.addr = host[b].addr /\ h.marker = host[b].marker
          /\ h.lent = host[b].lent
      BY <1>0, <1>2 DEF ScriptExits
    <2>3. host[b].boot = "scripts" /\ host[b].state = "up"
      BY <1>2 DEF ScriptExits
    <2> HIDE DEF h
    <2> QED
      BY <1>0, <2>1, <2>2, <2>3, OneAges
  <1>3. CASE StopBox(b)
    <2>1. PICK next \in {host[b].boot, IF host[b].boot \in {"none", "done"} THEN host[b].boot ELSE "cut"} :
            host' = [host EXCEPT ![b].state = "down", ![b].addr = NoAddr, ![b].boot = next]
      BY <1>3 DEF StopBox
    <2> DEFINE h == [host[b] EXCEPT !.state = "down", !.addr = NoAddr, !.boot = next]
    <2>2. host' = [host EXCEPT ![b] = h]
      BY <2>1
    <2>3. /\ h.state = "down" /\ h.marker = host[b].marker /\ h.lent = host[b].lent
          /\ host[b].boot \in {"done", "none"} => h.boot = host[b].boot
      BY <1>0, <2>1
    <2>4. host[b].state = "up"
      BY <1>3 DEF StopBox
    <2> HIDE DEF h
    <2> QED
      BY <1>0, <2>2, <2>3, <2>4, OneAges
  <1>4. CASE StartBox(b)
    <2>1. PICK a \in FreeAddrs : host' = [host EXCEPT ![b].state = "up", ![b].addr = a]
      BY <1>4 DEF StartBox
    <2> DEFINE h == [host[b] EXCEPT !.state = "up", !.addr = a]
    <2>2. host' = [host EXCEPT ![b] = h]
      BY <2>1
    <2>3. /\ h.state = "up" /\ h.addr \in Addrs /\ h.boot = host[b].boot
          /\ h.marker = host[b].marker /\ h.lent = host[b].lent
      BY <1>0, <2>1 DEF FreeAddrs
    <2>4. host[b].state = "down"
      BY <1>4 DEF StartBox
    <2> HIDE DEF h
    <2> QED
      BY <1>0, <2>2, <2>3, <2>4, OneAges
  <1>5. CASE Terminate(b)
    <2> DEFINE h == [Unborn EXCEPT !.state = "gone"]
    <2>1. host' = [host EXCEPT ![b] = h]
      BY <1>5 DEF Terminate
    <2>2. h.state = "gone"
      BY DEF Unborn
    <2> HIDE DEF h
    <2> QED
      BY <2>1, <2>2, OneAges
  <1>6. CASE ConsoleLaunch(b)
    <2>1. PICK a \in FreeAddrs :
            host' = [host EXCEPT ![b] = [Unborn EXCEPT !.state = "up", !.addr = a, !.keys = {Pem}]]
      BY <1>6 DEF ConsoleLaunch
    <2> DEFINE h == [Unborn EXCEPT !.state = "up", !.addr = a, !.keys = {Pem}]
    <2>2. host' = [host EXCEPT ![b] = h]
      BY <2>1
    <2>3. h.state = "up" /\ h.addr \in Addrs /\ h.boot = "none" /\ ~h.marker
      BY DEF Unborn, FreeAddrs
    <2> HIDE DEF h
    <2> QED
      BY <2>2, <2>3, OneAges
  <1>7. CASE Snapshot(b)
    BY <1>7, HostKept DEF Snapshot
  <1> QED
    BY <1>1, <1>2, <1>3, <1>4, <1>5, <1>6, <1>7 DEF BoxNext

\* The commands that are in touch with a box go on being so.
LEMMA SessionsKept ==
  ASSUME Types, Sessions, BoxesAge, KnownGrows,
         \A p \in Procs : pc'[p] \in InTouch =>
           pc[p] = pc'[p] /\ addr'[p] = addr[p] /\ on'[p] = on[p]
  PROVE  Sessions'
  <1>0. known \in [Addrs -> Boxes \cup {NoBox}] /\ NoBox \notin Boxes
    BY NonesAssumption DEF Types, TypeOK
  <1>1. KnownBorn'
    BY <1>0 DEF BoxesAge, Aged, KnownGrows, Sessions, KnownBorn
  <1>2. AddrThere'
    BY DEF Sessions, AddrThere
  <1>3. ASSUME NEW p \in Procs, pc'[p] \in {"connect", "session"}
        PROVE  /\ \E b \in Boxes : known'[addr'[p]] = b /\ known[addr[p]] = b /\ Finished(b)'
               /\ pc[p] = pc'[p] /\ on'[p] = on[p]
    <2>1. pc[p] = pc'[p] /\ addr'[p] = addr[p] /\ on'[p] = on[p] /\ addr[p] \in Addrs
      BY <1>3 DEF InTouch, Sessions, AddrThere
    <2>2. PICK b \in Boxes : known[addr[p]] = b /\ Finished(b)
      BY <1>0, <1>3, <2>1 DEF Sessions, Reached
    <2>3. known'[addr[p]] = b /\ host[b].state # "none"
      BY <1>0, <2>1, <2>2 DEF KnownGrows, Sessions, KnownBorn
    <2>4. Finished(b)'
      BY <2>2, <2>3 DEF BoxesAge, Aged
    <2> QED
      BY <2>1, <2>2, <2>3, <2>4
  <1>4. Reached'
    BY <1>0, <1>3 DEF Reached, Finished
  <1>5. SessionOnBox'
    BY <1>3 DEF Sessions, SessionOnBox, At
  <1> QED
    BY <1>1, <1>2, <1>4, <1>5 DEF BoxesAge, Sessions

\* A box that answers is up, and from then on its host key is on record for the address.
LEMMA LearnGrows ==
  ASSUME Types, Sessions, NEW b \in Boxes, NEW a \in Addrs, Answers(b, a), Learn(b, a),
         BoxesAge
  PROVE  KnownGrows /\ known'[a] = b /\ known' \in [Addrs -> Boxes \cup {NoBox}]
  <1>1. known \in [Addrs -> Boxes \cup {NoBox}]
    BY DEF Types, TypeOK
  <1>2. host[b].state = "up" /\ known[a] \in {NoBox, b}
    BY DEF Answers
  <1>3. host'[b].state # "none"
    BY <1>2 DEF BoxesAge, Aged
  <1> QED
    BY <1>1, <1>2, <1>3 DEF Learn, KnownGrows

\* The steps that mend the pair touch no box and no session.
LEMMA KeySessions ==
  ASSUME Types, Sessions, NEW p \in Procs, KeyNext(p) \/ Abort(p)
  PROVE  Sessions'
  <1>0. pc \in [Procs -> Steps]
    BY DEF Types, TypeOK
  <1> USE DEF InTouch, Goto, At, Exit, Take, machine, cloud, task, counts
  <1>1. UNCHANGED host /\ KnownGrows
    BY DEF KnownGrows, Abort, KeyNext, ReadPublicKey, EnsureKey, DeriveKey, SavePub, EmptyPub,
       WritePub, RemoveOrphan, Keygen, SaveKey, ReadMadeKey
  <1>2. \A q \in Procs : pc'[q] \in InTouch => pc[q] = pc'[q] /\ addr'[q] = addr[q] /\ on'[q] = on[q]
    BY <1>0 DEF Abort, KeyNext, ReadPublicKey, EnsureKey, DeriveKey, SavePub, EmptyPub,
       WritePub, RemoveOrphan, Keygen, SaveKey, ReadMadeKey, Types, TypeOK
  <1> QED
    BY <1>1, <1>2, HostKept, SessionsKept

\* A launch gives an id that was never used, so no session is on it.
LEMMA LaunchSessions ==
  ASSUME Types, Sessions, NEW p \in Procs, LaunchNext(p)
  PROVE  Sessions'
  <1>0. pc \in [Procs -> Steps]
    BY DEF Types, TypeOK
  <1>1. KnownGrows
    BY DEF KnownGrows, LaunchNext, CreateBegin, FindGroup, NewGroup, OpenGroup, Launch, machine
  <1>2. \A q \in Procs : pc'[q] \in InTouch => pc[q] = pc'[q] /\ addr'[q] = addr[q] /\ on'[q] = on[q]
    BY <1>0 DEF InTouch, LaunchNext, CreateBegin, Begin, FindGroup, NewGroup, OpenGroup, Launch,
       Goto, At, Exit, task, Types, TypeOK
  <1>3. BoxesAge
    <2>1. ASSUME NEW b \in Boxes, NEW a \in FreeAddrs, host[b] = Unborn,
                 host' = [host EXCEPT ![b] = Newborn(p, a)]
          PROVE  BoxesAge
      <3>1. /\ Newborn(p, a).state = "up" /\ Newborn(p, a).addr \in Addrs
            /\ Newborn(p, a).marker => Newborn(p, a).lent
        BY DEF Newborn, FreeAddrs
      <3>2. host[b].state = "none"
        BY <2>1 DEF Unborn
      <3> QED
        BY <2>1, <3>1, <3>2, OneAges
    <2> QED
      BY <2>1, HostKept DEF LaunchNext, CreateBegin, FindGroup, NewGroup, OpenGroup, Launch, cloud
  <1> QED
    BY <1>1, <1>2, <1>3, SessionsKept

\* Import puts a key on a box and disturbs no session.
LEMMA ImportSessions ==
  ASSUME Types, Sessions, NEW p \in Procs, ImportNext(p)
  PROVE  Sessions'
  <1>0. pc \in [Procs -> Steps] /\ host \in [Boxes -> Host]
    BY DEF Types, TypeOK
  <1>1. \A q \in Procs : pc'[q] \in InTouch => pc[q] = pc'[q] /\ addr'[q] = addr[q] /\ on'[q] = on[q]
    <2>0. pc'[p] \notin InTouch
      BY <1>0 DEF InTouch, ImportNext, ImportBox, Begin, Authorize, Goto, Exit
    <2>1. CASE Authorize(p)
      BY <1>0, <2>0, <2>1 DEF Authorize, Goto, Exit, Types, TypeOK
    <2>2. CASE \E b \in Boxes : ImportBox(p, b)
      BY <1>0, <2>0, <2>2 DEF ImportBox, Begin, Goto, Types, TypeOK
    <2> QED
      BY <2>1, <2>2 DEF ImportNext
  <1>2. CASE UNCHANGED <<known, host>>
    BY <1>1, <1>2, HostKept, SessionsKept DEF KnownGrows
  <1>3. ASSUME NEW b \in Boxes, NEW marked \in BOOLEAN, Answers(b, addr[p]), Learn(b, addr[p]),
               host' = [host EXCEPT ![b].keys = @ \cup {key[p]}, ![b].marker = @ \/ marked,
                                    ![b].lent = @ \/ marked]
        PROVE  Sessions'
    <2> DEFINE h == [host[b] EXCEPT !.keys = @ \cup {key[p]}, !.marker = @ \/ marked,
                                    !.lent = @ \/ marked]
    <2>1. host' = [host EXCEPT ![b] = h]
      BY <1>3
    <2>2. /\ h.state = "up" /\ h.addr = host[b].addr /\ h.boot = host[b].boot
          /\ h.marker = (host[b].marker \/ marked) /\ h.lent = (host[b].lent \/ marked)
      BY <1>0, <1>3 DEF Host, Answers
    <2>3. host[b].state = "up" /\ host[b].addr = addr[p] /\ addr[p] \in Addrs
      BY <1>3 DEF Answers, Sessions, UpHasAddr
    <2>4. host[b].marker => Finished(b)
      BY DEF Sessions, MarkerTrue
    <2>5. BoxesAge
      <3> HIDE DEF h
      <3> QED
        BY <2>1, <2>2, <2>3, <2>4, OneAges DEF Finished
    <2> QED
      BY <1>1, <1>3, <2>3, <2>5, LearnGrows, SessionsKept
  <1>4. \/ UNCHANGED <<known, host>>
        \/ \E b \in Boxes, marked \in BOOLEAN :
             /\ Answers(b, addr[p]) /\ Learn(b, addr[p])
             /\ host' = [host EXCEPT ![b].keys = @ \cup {key[p]}, ![b].marker = @ \/ marked,
                                     ![b].lent = @ \/ marked]
    BY DEF ImportNext, ImportBox, Authorize, machine
  <1> QED
    BY <1>2, <1>3, <1>4

\* A command that meets a box whose host key is, or comes to be, on record goes on to the
\* next step with that box.
LEMMA Meets ==
  ASSUME Types, Sessions, UNCHANGED <<host, addr>>, NEW p \in Procs, NEW b \in Boxes,
         pc[p] \in InTouch, Answers(b, addr[p]), Learn(b, addr[p]),
         pc'[p] \in {"connect", "session"} => Finished(b),
         pc'[p] = "session" => on'[p] = b,
         \A q \in Procs \ {p} : pc'[q] = pc[q] /\ on'[q] = on[q]
  PROVE  Sessions'
  <1>0. known \in [Addrs -> Boxes \cup {NoBox}] /\ NoBox \notin Boxes
    BY NonesAssumption DEF Types, TypeOK
  <1>1. addr[p] \in Addrs
    BY DEF Sessions, AddrThere
  <1>2. BoxesAge /\ KnownGrows /\ known'[addr[p]] = b
    BY <1>1, HostKept, LearnGrows
  <1>3. KnownBorn' /\ AddrThere'
    BY <1>0, <1>1, <1>2 DEF Sessions, KnownBorn, AddrThere, BoxesAge, Aged, KnownGrows
  <1>4. ASSUME NEW q \in Procs, q # p, pc'[q] \in {"connect", "session"}
        PROVE  /\ known'[addr'[q]] # NoBox /\ Finished(known[addr[q]])
               /\ known'[addr'[q]] = known[addr[q]]
    <2>1. addr[q] \in Addrs /\ known[addr[q]] # NoBox /\ Finished(known[addr[q]])
      BY <1>4 DEF Sessions, AddrThere, Reached, InTouch
    <2> QED
      BY <1>0, <1>2, <2>1 DEF KnownGrows
  <1>5. Reached'
    BY <1>0, <1>2, <1>4 DEF Reached, Finished
  <1>6. SessionOnBox'
    BY <1>2, <1>4 DEF Sessions, SessionOnBox, At
  <1> QED
    BY <1>2, <1>3, <1>5, <1>6 DEF BoxesAge, Sessions

\* Each step of a session keeps what it has found out about its box.
LEMMA TouchSessions ==
  ASSUME Types, Sessions, NEW p \in Procs, SessionNext(p)
  PROVE  Sessions'
  <1>0. /\ pc \in [Procs -> Steps] /\ addr \in [Procs -> Addrs \cup {NoAddr}]
        /\ on \in [Procs -> Boxes \cup {NoBox}]
    BY DEF Types, TypeOK
  <1> USE DEF InTouch, Goto, At
  <1>1. ASSUME NEW b \in Boxes, LookUp(p, b) PROVE Sessions'
    <2>1. host[b].addr \in Addrs /\ UNCHANGED <<host, known, on>>
      BY <1>1 DEF LookUp, Sessions, UpHasAddr, machine, cloud
    <2>2. /\ addr' = [addr EXCEPT ![p] = host[b].addr]
          /\ pc'[p] \in {"wait", "once"} /\ \A q \in Procs \ {p} : pc'[q] = pc[q]
      BY <1>0, <1>1 DEF LookUp, Begin
    <2> QED
      BY <1>0, <2>1, <2>2 DEF Sessions, MarkerTrue, UpHasAddr, KnownBorn, AddrThere, Reached,
         SessionOnBox, Finished
  <1>2. CASE Poll(p)
    <2>1. PICK b \in Boxes : /\ Answers(b, addr[p]) /\ Learn(b, addr[p])
                             /\ \/ Ready(b) /\ Goto(p, "connect")
                                \/ UNCHANGED pc
      BY <1>2 DEF Poll
    <2>2. Ready(b) => Finished(b)
      BY DEF Ready, Sessions, MarkerTrue
    <2> QED
      BY <1>0, <1>2, <2>1, <2>2, Meets DEF Poll, cloud, task
  <1>3. CASE Cancel(p) \/ EndSession(p)
    <2>1. UNCHANGED <<host, known>>
      BY <1>3 DEF Cancel, EndSession, machine, cloud
    <2>2. \A q \in Procs : pc'[q] \in InTouch => pc[q] = pc'[q] /\ addr'[q] = addr[q] /\ on'[q] = on[q]
      BY <1>0, <1>3 DEF Cancel, EndSession, Exit
    <2> QED
      BY <2>1, <2>2, HostKept, SessionsKept DEF KnownGrows
  <1>4. CASE Exit(p) /\ UNCHANGED host /\ KnownGrows
    <2>1. \A q \in Procs : pc'[q] \in InTouch => pc[q] = pc'[q] /\ addr'[q] = addr[q] /\ on'[q] = on[q]
      BY <1>0, <1>4 DEF Exit
    <2> QED
      BY <1>4, <2>1, HostKept, SessionsKept
  <1>5. CASE PollOnce(p)
    <2>1. ASSUME NEW b \in Boxes, Answers(b, addr[p]), Learn(b, addr[p]), Ready(b),
                 Goto(p, "connect"), UNCHANGED task
          PROVE  Sessions'
      <3>1. Finished(b)
        BY <2>1 DEF Ready, Sessions, MarkerTrue
      <3> QED
        BY <1>0, <1>5, <2>1, <3>1, Meets DEF PollOnce, cloud, task
    <2>2. ASSUME NEW b \in Boxes, Answers(b, addr[p]), Learn(b, addr[p]), Exit(p)
          PROVE  Sessions'
      <3>1. UNCHANGED host /\ addr[p] \in Addrs
        BY <1>5 DEF PollOnce, cloud, Sessions, AddrThere
      <3> QED
        BY <1>4, <2>2, <3>1, HostKept, LearnGrows
    <2>3. CASE Exit(p) /\ UNCHANGED known
      BY <1>4, <1>5, <2>3 DEF PollOnce, cloud, KnownGrows
    <2> QED
      BY <1>5, <2>1, <2>2, <2>3 DEF PollOnce
  <1>6. CASE Connect(p)
    <2>1. ASSUME NEW b \in Boxes, Answers(b, addr[p]), Learn(b, addr[p]),
                 on' = [on EXCEPT ![p] = b], Goto(p, "session"), UNCHANGED addr
          PROVE  Sessions'
      <3>1. Finished(b)
        BY <1>6, <2>1 DEF Connect, Answers, Sessions, Reached
      <3> QED
        BY <1>0, <1>6, <2>1, <3>1, Meets DEF Connect, cloud
    <2>2. CASE Exit(p) /\ UNCHANGED known
      BY <1>4, <1>6, <2>2 DEF Connect, cloud, KnownGrows
    <2> QED
      BY <1>6, <2>1, <2>2 DEF Connect
  <1> QED
    BY <1>1, <1>2, <1>3, <1>5, <1>6 DEF SessionNext

\* Every step keeps what sessions know.
LEMMA NextSessions == Types /\ Sessions /\ [Next]_vars => Sessions'
  <1> SUFFICES ASSUME Types, Sessions, [Next]_vars PROVE Sessions'
    OBVIOUS
  <1>1. ASSUME NEW b \in Boxes, BoxNext(b) PROVE Sessions'
    <2>1. UNCHANGED <<known, pc, addr, on>>
      BY <1>1 DEF BoxNext, BootStep, ScriptExits, StopBox, StartBox, Terminate, ConsoleLaunch,
         Snapshot, OnBoxes, machine, locals, task
    <2> QED
      BY <1>1, <2>1, BoxesMove, SessionsKept DEF KnownGrows
  <1>2. CASE Revoke \/ LosePriv \/ LosePub \/ UNCHANGED vars
    BY <1>2, HostKept, SessionsKept
    DEF KnownGrows, Revoke, LosePriv, LosePub, vars, machine, cloud, locals, task
  <1> QED
    BY <1>1, <1>2, KeySessions, LaunchSessions, ImportSessions, TouchSessions DEF Next

\* What sessions know holds in every reachable state.
LEMMA SessionsHold == Spec => []Sessions
  <1>1. Spec => []Types
    BY InitTypes, NextTypes, PTL DEF Spec
  <1> QED
    BY <1>1, InitSessions, NextSessions, PTL DEF Spec

\* A session is on the box whose host key is on record for the address that was read.
THEOREM SessionsOnBox == Spec => []SessionOnBox
  <1>1. Sessions => SessionOnBox
    BY DEF Sessions
  <1> QED
    BY <1>1, SessionsHold, PTL

\* That box has run its templates to their end, or was lent its marker, or is gone.
THEOREM SessionsReady == Spec => []SessionReady
  <1>1. Sessions => SessionReady
    BY DEF Sessions, Reached, SessionOnBox, SessionReady, Finished, At
  <1> QED
    BY <1>1, SessionsHold, PTL

=============================================================================
