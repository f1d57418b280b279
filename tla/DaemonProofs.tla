---------------------------- MODULE DaemonProofs ----------------------------
(***************************************************************************)
(* Theorems about Daemon for any command lines, number of starts and       *)
(* withdrawn globals.                                                      *)
(***************************************************************************)
EXTENDS Daemon, SequenceTheorems, FiniteSetTheorems, TLAPS

(* Types are not inductive alone: what a registry announces are globals.    *)
Announced == {m \in Message : m.ev = "globals" => m.of \subseteq Globals}

ClientInv ==
  /\ ClientTypeOK
  /\ rx \in Seq(Announced)
  /\ events \in Seq(Announced)

DaemonTypes ==
  /\ stage \in {"off", "control", "probe", "probebus", "wayland", "ibus", "v2",
                "claim", "ready", "select", "bridge", "exit"}
  /\ flags \in CommandLines
  /\ started \in 0..2
  /\ exit \in {"none", "ok", "err", "killed"}
  /\ starts \in 0..MaxStarts
  /\ files \in [Sockets -> 0..MaxStarts]
  /\ up \subseteq Sockets
  /\ name \in {"free", "ours", "other"}

\* A message made by the compositor.
LEMMA Made ==
  /\ \A o \in Objects, e \in Events \ {"globals"} : Event(o, e) \in Announced
  /\ \A o \in Objects, e \in Events \ {"globals"}, S \in SUBSET Objects : Naming(o, e, S) \in Announced
  /\ \A o \in Objects, S \in SUBSET Globals : Naming(o, "globals", S) \in Announced
BY DEF Announced, Event, Naming, Message, Objects, Globals, Events

LEMMA MessagesAreMessages ==
  /\ Announced \subseteq Message
  /\ Seq(Announced) \subseteq Seq(Message)
<1>1. Announced \subseteq Message
  BY DEF Announced
<1> QED
  BY <1>1, SeqMonotonic

\* The counters of keymap events in a read are numbers.
LEMMA KeymapsAreCounted ==
  ASSUME NEW s \in Seq(Announced)
  PROVE  Keymaps(s) \in Nat
<1> DEFINE K == {i \in DOMAIN s : s[i].ev = "keymap"}
<1>1. DOMAIN s = 1..Len(s) /\ Len(s) \in Nat
  BY LenProperties
<1>2. IsFiniteSet(1..Len(s))
  BY <1>1, FS_Interval
<1>3. IsFiniteSet(K)
  BY <1>1, <1>2, FS_Subset
<1> QED
  BY <1>3, FS_CardinalityType DEF Keymaps

\* run(): each of its steps keeps the client's types.
LEMMA RunTypes ==
  ASSUME ClientInv, Run
  PROVE  ClientInv'
<1> USE DEF ClientInv, ClientTypeOK, runVars, loopVars, compositorVars, End
<1>a. ToSet(Requested) = {"registry", "callback", "binder", "seat", "manager", "im", "grab"}
  BY DEF ToSet, Requested
<1>1. CASE Dial
  BY <1>1, <1>a DEF Dial, ConnectDisplay, Objects
<1>2. ASSUME NEW o \in ToSet(Requested), Create(o)
      PROVE  ClientInv'
  <2>1. o \in Objects /\ After(o) \in ToSet(Requested) \union {"await", "serve"}
    BY <1>a DEF Objects, After
  <2>2. CASE Register(o)
    BY <2>1, <2>2 DEF Register
  <2>3. CASE Send(o)
    <3>1. requests' \in Seq(Objects)
      BY <2>1, <2>3, AppendProperties DEF Send
    <3> QED
      BY <2>1, <2>3, <3>1 DEF Send
  <2> QED
    BY <1>2, <2>2, <2>3 DEF Create
<1>3. ASSUME NEW o \in ToSet(Requested), CreateFails(o)
      PROVE  ClientInv'
  <2>1. o \in Objects
    BY <1>a DEF Objects
  <2> QED
    BY <1>3, <2>1 DEF CreateFails
<1>4. CASE Enumerated
  BY <1>4 DEF Enumerated
<1>5. CASE LoopEndedEarly
  BY <1>5 DEF LoopEndedEarly
<1>6. CASE CheckGlobals
  BY <1>6, <1>a DEF CheckGlobals
<1>7. CASE LoopEnded
  BY <1>7 DEF LoopEnded
<1> QED
  BY <1>1, <1>2, <1>3, <1>4, <1>5, <1>6, <1>7, <1>a
     DEF Run, GetRegistry, Sync, BindSeat, BindManager, GetInputMethod, GrabKeyboard

(* Dispatcher.Run: each of its steps keeps the client's types.              *)
LEMMA DispatchTypes ==
  ASSUME ClientInv, DispatchLoop
  PROVE  ClientInv'
<1> USE DEF ClientInv, ClientTypeOK, runVars, loopVars, compositorVars
<1>1. CASE Fill
  <2>1. PICK n \in DOMAIN events :
          /\ rx' = SubSeq(events, 1, n)
          /\ events' = SubSeq(events, n + 1, Len(events))
          /\ fds' = fds + Keymaps(rx')
    BY <1>1 DEF Fill
  <2>2. n \in 1..Len(events)
    BY <2>1, LenProperties
  <2>3. rx' \in Seq(Announced) /\ events' \in Seq(Announced)
    BY <2>1, <2>2, SubSeqProperties
  <2>4. Keymaps(SubSeq(events, 1, n)) \in Nat
    BY <2>1, <2>3, KeymapsAreCounted
  <2>5. fds' = fds + Keymaps(SubSeq(events, 1, n))
    BY <2>1
  <2>6. fds' \in Nat
    BY <2>4, <2>5
  <2> QED
    BY <1>1, <2>3, <2>6, MessagesAreMessages DEF Fill
<1>2. CASE ReadEnds
  BY <1>2 DEF ReadEnds
<1>3. CASE Deliver
  <2> DEFINE m == Head(rx)
  <2>1. m \in Announced /\ rx' \in Seq(Announced)
    BY <1>3, HeadTailProperties DEF Deliver
  <2>2. fds' = 0
    BY <1>3 DEF Deliver, FdsOf
  <2>3. handlers' \subseteq Objects /\ loop' \in {"idle", "running", "nil", "err", "taken"}
    BY <1>3 DEF Deliver, HandleDisplay, HandleRegistry, HandleCallback, HandleGrab,
                HandleSeat, HandleInputMethod, Unregister
  <2>4. globals' \subseteq Globals /\ enumerated' \in BOOLEAN
    BY <1>3, <2>1 DEF Deliver, HandleDisplay, HandleRegistry, HandleCallback, HandleGrab,
                HandleSeat, HandleInputMethod, onGlobal, onGlobalRemove, Announced
  <2> QED
    BY <1>3, <2>1, <2>2, <2>3, <2>4, MessagesAreMessages DEF Deliver
<1> QED
  BY <1>1, <1>2, <1>3 DEF DispatchLoop

(* The compositor only sends what it has.                                   *)
LEMMA CompositorTypes ==
  ASSUME ClientInv, Compositor
  PROVE  ClientInv'
<1> USE DEF ClientInv, ClientTypeOK, runVars, loopVars, compositorVars
<1>a. \A e \in Announced : Append(events, e) \in Seq(Announced)
  BY AppendProperties
<1>b. Globals \subseteq Objects
  BY DEF Globals, Objects
<1>1. CASE AnswerRequest
  <2> DEFINE o == Head(requests)
  <2>1. o \in Objects /\ requests' \in Seq(Objects)
    BY <1>1, HeadTailProperties DEF AnswerRequest
  <2>2. Reply(o) \in Seq(Announced)
    <3>1. /\ Event("callback", "done") \in Announced
          /\ Naming("display", "delete_id", {"callback"}) \in Announced
          /\ Naming(o, "globals", offered) \in Announced
          /\ Event("seat", "capabilities") \in Announced
          /\ Event("im", "unavailable") \in Announced
          /\ Event("grab", "keymap") \in Announced
      BY <2>1, Made DEF Objects, Events
    <3> QED
      BY <2>1, <3>1 DEF Reply
  <2>3. events' \in Seq(Announced)
    BY <1>1, <2>2, ConcatProperties DEF AnswerRequest
  <2> QED
    BY <1>1, <2>1, <2>3, MessagesAreMessages DEF AnswerRequest
<1>2. CASE RefuseBind
  <2>1. Event("display", "error") \in Announced
    BY Made DEF Objects, Events
  <2>2. events' \in Seq(Announced) /\ line' \in {"hungup", "reset"} /\ requests' \in Seq(Objects)
    BY <1>2, <1>a, <2>1, EmptySeq DEF RefuseBind, Gone
  <2> QED
    BY <1>2, <2>2, MessagesAreMessages DEF RefuseBind
<1>3. CASE HangUp
  <2>1. line' \in {"hungup", "reset"} /\ requests' \in Seq(Objects)
    BY <1>3, EmptySeq DEF HangUp, Gone
  <2> QED
    BY <1>3, <2>1 DEF HangUp
<1>4. ASSUME NEW g \in Globals, GlobalRemoved(g)
      PROVE  ClientInv'
  <2>1. Naming("registry", "remove", {g}) \in Announced
    BY <1>b, Made DEF Objects, Events
  <2>2. events' \in Seq(Announced)
    BY <1>4, <1>a, <2>1 DEF GlobalRemoved
  <2>3. removals' \in 0..MaxRemovals
    BY <1>4, ClientAssumption DEF GlobalRemoved
  <2> QED
    BY <1>4, <2>2, <2>3, MessagesAreMessages DEF GlobalRemoved
<1> QED
  BY <1>1, <1>2, <1>3, <1>4 DEF Compositor

\* Whatever the backend or the compositor does, or does not.
LEMMA ClientTypes ==
  ASSUME ClientInv, ClientNext \/ UNCHANGED clientVars
  PROVE  ClientInv'
<1>1. CASE UNCHANGED clientVars
  BY <1>1 DEF clientVars, runVars, loopVars, compositorVars, ClientInv, ClientTypeOK
<1> QED
  BY <1>1, RunTypes, DispatchTypes, CompositorTypes DEF ClientNext

\* A process that ends, and one that begins, leave nothing of the client behind.
LEMMA DisconnectTypes ==
  ASSUME ClientInv, Disconnect
  PROVE  ClientInv'
<1> USE DEF Disconnect
<1>1. rx' \in Seq(Announced) /\ events' \in Seq(Announced) /\ requests' \in Seq(Objects)
  BY EmptySeq
<1>2. removals' \in 0..MaxRemovals
  BY ClientAssumption
<1>3. offered' \subseteq Globals /\ refused' \in BOOLEAN
  BY DEF ClientInv, ClientTypeOK
<1>4. handlers' \subseteq Objects /\ globals' \subseteq Globals /\ known' \subseteq Objects
  OBVIOUS
<1>5. /\ pc' \in {"off"} /\ result' = "none" /\ dry' \in BOOLEAN /\ line' = "none"
      /\ loop' = "idle" /\ enumerated' \in BOOLEAN /\ fds' \in Nat
  OBVIOUS
<1> QED
  BY <1>1, <1>2, <1>3, <1>4, <1>5, MessagesAreMessages DEF ClientInv, ClientTypeOK

\* run() begins.
LEMMA ConnectTypes ==
  ASSUME ClientInv, NEW probe \in BOOLEAN, Connect(probe)
  PROVE  ClientInv'
BY DEF ClientInv, ClientTypeOK, Connect

(* Whose socket is where: what lies under a path is of this process or of   *)
(* an earlier one; it is of this process exactly as long as it listens, if  *)
(* the process was not killed; and the rebroadcast listens only between its *)
(* start and runMulti's return.                                             *)
SocketInv ==
  /\ starts = 0 => stage = "off"
  /\ stage = "off" => up = {}
  /\ stage # "off" => exit # "killed"
  /\ stage = "control" => up = {}
  /\ stage \in {"probe", "probebus", "wayland", "ibus", "v2", "exit"} => "v2" \notin up
  /\ \A s \in Sockets : files[s] <= starts
  /\ SocketsFollowListeners

\* Each of the two backends is started once.
StartedInv ==
  /\ stage \in {"off", "control", "probe", "probebus", "wayland"} => started = 0
  /\ stage \in {"ibus", "v2", "claim"} => started <= 1

DaemonInv == DaemonTypes /\ StartedInv /\ SocketInv

\* Every process starts with no listener and a number of its own.
LEMMA StartKeeps ==
  ASSUME DaemonInv, Start
  PROVE  DaemonInv'
<1> USE DaemonAssumption DEF DaemonInv, DaemonTypes
<1>1. DaemonTypes'
  BY DEF Start
<1>2. \A s \in Sockets : files'[s] <= starts /\ starts' = starts + 1
  BY DEF Start, SocketInv
<1>3. \A s \in Sockets : files'[s] # starts' /\ files'[s] <= starts'
  BY <1>1, <1>2
<1>4. up' = {} /\ starts' # 0
  BY <1>2 DEF Start, SocketInv, Sockets
<1>5. StartedInv'
  BY DEF Start, StartedInv
<1> QED
  BY <1>1, <1>3, <1>4, <1>5 DEF Start, SocketInv, SocketsFollowListeners

(* Listening and not being able to, each before there was a listener, and   *)
(* closing: files and up change together.                                   *)
LEMMA ListenKeeps ==
  ASSUME DaemonInv, NEW s \in Sockets, stage # "off",
         Listen(s) \/ (s \notin up /\ ListenFails(s)) \/ Unlisten(s),
         UNCHANGED starts
  PROVE  /\ up' \subseteq Sockets
         /\ files' \in [Sockets -> 0..MaxStarts]
         /\ \A t \in Sockets : files'[t] <= starts /\ (files'[t] = starts <=> t \in up')
<1> USE DaemonAssumption DEF DaemonInv, DaemonTypes
<1>1. starts \in Nat /\ starts > 0 /\ exit # "killed"
  BY DEF SocketInv
<1>2. \A t \in Sockets : files[t] <= starts /\ (files[t] = starts <=> t \in up)
  BY <1>1 DEF SocketInv, SocketsFollowListeners
<1>3. CASE Listen(s)
  BY <1>1, <1>2, <1>3 DEF Listen
<1>4. CASE s \notin up /\ ListenFails(s)
  BY <1>1, <1>2, <1>4 DEF ListenFails
<1>5. CASE Unlisten(s)
  BY <1>1, <1>2, <1>5 DEF Unlisten
<1> QED
  BY <1>3, <1>4, <1>5

\* A step of a live process that touches no socket.
LEMMA QuietKeeps ==
  ASSUME DaemonInv, stage # "off",
         UNCHANGED <<starts, files, up>>,
         stage' \notin {"off", "control"}, exit' # "killed",
         stage' \in {"probe", "probebus", "wayland", "ibus", "v2", "exit"} => "v2" \notin up
  PROVE  SocketInv'
BY DEF DaemonInv, SocketInv, SocketsFollowListeners

\* A step that listens, fails to, or closes.
LEMMA SocketStepKeeps ==
  ASSUME DaemonInv, stage # "off", UNCHANGED starts,
         \A t \in Sockets : files'[t] <= starts /\ (files'[t] = starts <=> t \in up'),
         stage' \notin {"off", "control"}, exit' # "killed",
         stage' \in {"probe", "probebus", "wayland", "ibus", "v2", "exit"} => "v2" \notin up'
  PROVE  SocketInv'
BY DEF DaemonInv, SocketInv, SocketsFollowListeners

\* main's way up to the select, step by step.
LEMMA MainKeeps ==
  ASSUME DaemonInv, Main, ~Exit
  PROVE  (DaemonTypes /\ StartedInv /\ SocketInv)'
<1> USE DEF DaemonInv
<1>e. stage # "off" => exit # "killed"
  BY DEF SocketInv
<1>s. stage \in {"control", "probe", "probebus", "wayland", "ibus", "v2", "exit"} => "v2" \notin up
  BY DEF SocketInv
<1>1. CASE StartControl
  <2>1. stage = "control" /\ "control" \notin up /\ "control" \in Sockets /\ starts' = starts
    BY <1>1 DEF StartControl, SocketInv, Sockets
  <2>2. /\ up' \subseteq Sockets
        /\ files' \in [Sockets -> 0..MaxStarts]
        /\ \A t \in Sockets : files'[t] <= starts /\ (files'[t] = starts <=> t \in up')
    BY <1>1, <2>1, ListenKeeps DEF StartControl
  <2>3. "v2" \notin up' /\ stage' \in {"probe", "wayland"} /\ exit' = exit
    BY <1>1, <2>1, <1>s DEF StartControl, Listen, ListenFails
  <2>4. SocketInv'
    BY <2>1, <2>2, <2>3, <1>e, SocketStepKeeps
  <2> QED
    BY <1>1, <2>2, <2>3, <2>4 DEF StartControl, DaemonTypes, StartedInv
<1>2. CASE Probe \/ ProbeEnds \/ ProbeBus
  <2>1. stage \in {"probe", "probebus"} /\ stage' \in {"probe", "probebus", "exit"}
    BY <1>2 DEF Probe, ProbeEnds, ProbeBus, Goto, Leave
  <2>2. exit' \in {exit, "ok", "err"}
    BY <1>2 DEF Probe, ProbeEnds, ProbeBus, Goto, Leave
  <2>3. UNCHANGED <<flags, started, starts, files, up, name>>
    BY <1>2 DEF Probe, ProbeEnds, ProbeBus
  <2>4. SocketInv'
    BY <2>1, <2>2, <2>3, <1>e, <1>s, QuietKeeps
  <2> QED
    BY <2>1, <2>2, <2>3, <2>4 DEF DaemonTypes, StartedInv
<1>3. CASE StartWayland
  <2>1. stage = "wayland" /\ stage' \in {"ibus", "ready"} /\ exit' = exit
    BY <1>3 DEF StartWayland, Goto
  <2>2. UNCHANGED <<flags, starts, files, up, name>>
    BY <1>3 DEF StartWayland
  <2>a. started' = started + 1 \/ started' = started
    BY <1>3, Zenon DEF StartWayland
  <2>3. started' \in 0..1
    BY <2>1, <2>a DEF StartedInv
  <2>4. SocketInv'
    BY <2>1, <2>2, <1>e, <1>s, QuietKeeps
  <2> QED
    BY <2>1, <2>2, <2>3, <2>4 DEF DaemonTypes, StartedInv
<1>4. CASE ConnectBus
  <2>1. stage = "ibus" /\ stage' \in {"v2", "claim", "ready"} /\ exit' = exit
    BY <1>4 DEF ConnectBus, Goto
  <2>2. UNCHANGED <<flags, started, starts, files, up, name>>
    BY <1>4 DEF ConnectBus
  <2>3. SocketInv'
    BY <2>1, <2>2, <1>e, <1>s, QuietKeeps
  <2> QED
    BY <2>1, <2>2, <2>3 DEF DaemonTypes, StartedInv
<1>5. CASE StartRebroadcast
  <2>1. stage = "v2" /\ "v2" \notin up /\ "v2" \in Sockets /\ stage' = "claim" /\ exit' = exit
    BY <1>5, <1>s DEF StartRebroadcast, Goto, Sockets
  <2>2. UNCHANGED <<flags, started, starts, name>>
    BY <1>5 DEF StartRebroadcast
  <2>3. /\ up' \subseteq Sockets
        /\ files' \in [Sockets -> 0..MaxStarts]
        /\ \A t \in Sockets : files'[t] <= starts /\ (files'[t] = starts <=> t \in up')
    BY <1>5, <2>1, <2>2, ListenKeeps DEF StartRebroadcast
  <2>4. SocketInv'
    BY <2>1, <2>2, <2>3, <1>e, SocketStepKeeps
  <2> QED
    BY <2>1, <2>2, <2>3, <2>4 DEF DaemonTypes, StartedInv
<1>6. CASE ClaimName
  <2>1. stage = "claim" /\ stage' = "ready" /\ exit' = exit
    BY <1>6 DEF ClaimName, Goto
  <2>2. UNCHANGED <<flags, starts, files, up>> /\ name' = "ours"
    BY <1>6 DEF ClaimName
  <2>3. started' \in 0..2
    BY <1>6, <2>1 DEF ClaimName, StartedInv, DaemonTypes
  <2>4. SocketInv'
    BY <2>1, <2>2, <1>e, QuietKeeps
  <2> QED
    BY <2>1, <2>2, <2>3, <2>4 DEF DaemonTypes, StartedInv
<1>7. CASE ClaimDenied \/ CloseBridge
  <2>1. stage \in {"claim", "bridge"} /\ stage' \in {"ready", "exit"} /\ exit' = exit
    BY <1>7 DEF ClaimDenied, CloseBridge, Goto
  <2>2. UNCHANGED <<flags, started, starts, name>> /\ Unlisten("v2") /\ "v2" \in Sockets
    BY <1>7 DEF ClaimDenied, CloseBridge, Sockets
  <2>3. /\ up' \subseteq Sockets
        /\ files' \in [Sockets -> 0..MaxStarts]
        /\ \A t \in Sockets : files'[t] <= starts /\ (files'[t] = starts <=> t \in up')
    BY <2>1, <2>2, ListenKeeps
  <2>4. "v2" \notin up'
    BY <2>2 DEF Unlisten
  <2>5. SocketInv'
    BY <2>1, <2>2, <2>3, <2>4, <1>e, SocketStepKeeps
  <2> QED
    BY <2>1, <2>2, <2>3, <2>5 DEF DaemonTypes, StartedInv
<1>8. CASE NoBackends \/ Serve \/ BackendEnds
  <2>1. stage \in {"ready", "select"} /\ stage' \in {"select", "bridge"} /\ exit' \in {exit, "ok", "err"}
    BY <1>8 DEF NoBackends, Serve, BackendEnds, Goto
  <2>2. UNCHANGED <<flags, started, starts, files, up, name>>
    BY <1>8 DEF NoBackends, Serve, BackendEnds
  <2>3. SocketInv'
    BY <2>1, <2>2, <1>e, QuietKeeps
  <2> QED
    BY <2>1, <2>2, <2>3 DEF DaemonTypes, StartedInv
<1> QED
  BY <1>1, <1>2, <1>3, <1>4, <1>5, <1>6, <1>7, <1>8 DEF Main

(* What ends a process: its listeners close; if it was not killed it has    *)
(* taken its files with it.                                                 *)
LEMMA VanishKeeps ==
  ASSUME DaemonInv, Exit \/ Killed
  PROVE  (DaemonTypes /\ StartedInv /\ SocketInv)'
<1> USE DEF DaemonInv, Vanish
<1>1. stage' = "off" /\ up' = {} /\ flags' = NoFlags /\ started' = 0 /\ starts' = starts
  BY DEF Exit, Killed
<1>2. name' \in {"free", "ours", "other"} /\ exit' \in {"none", "ok", "err", "killed"}
  BY DEF Exit, Killed, DaemonTypes
<1>3. files' \in [Sockets -> 0..MaxStarts] /\ \A s \in Sockets : files'[s] <= starts
  BY DaemonAssumption DEF Exit, Killed, DaemonTypes, SocketInv, Sockets
<1>4. SocketsFollowListeners'
  <2>1. CASE Exit
    <3>1. stage = "exit" /\ exit # "killed" /\ starts \in Nat /\ starts > 0 /\ "v2" \notin up
      BY <2>1, DaemonAssumption DEF Exit, SocketInv, DaemonTypes
    <3>2. \A s \in Sockets : files[s] = starts <=> s \in up
      BY <3>1 DEF SocketInv, SocketsFollowListeners
    <3>3. \A s \in Sockets : files'[s] # starts
      BY <2>1, <3>1, <3>2 DEF Exit, DaemonTypes, Sockets
    <3> QED
      BY <1>1, <3>3 DEF SocketsFollowListeners
  <2>2. CASE Killed
    BY <2>2 DEF Killed, SocketsFollowListeners
  <2> QED
    BY <2>1, <2>2
<1>5. NoFlags \in CommandLines
  BY DEF NoFlags, CommandLines
<1>6. starts = 0 => stage = "off"
  BY DEF SocketInv
<1> QED
  BY <1>1, <1>2, <1>3, <1>4, <1>5, <1>6, DaemonAssumption DEF DaemonTypes, StartedInv, SocketInv

(* The process and its sockets.                                             *)
LEMMA DaemonKeeps ==
  ASSUME DaemonInv, [Next]_vars
  PROVE  DaemonInv'
<1> USE DEF DaemonInv
<1>1. CASE Main /\ ~Exit
  BY <1>1, MainKeeps
<1>2. CASE Exit \/ Killed
  BY <1>2, VanishKeeps
<1>3. CASE Start
  BY <1>3, StartKeeps
<1>4. CASE Signal
  <2>1. SocketInv'
    BY <1>4, QuietKeeps DEF Signal
  <2> QED
    BY <1>4, <2>1 DEF Signal, DaemonTypes, StartedInv
<1>5. CASE NameLost
  BY <1>5 DEF NameLost, DaemonTypes, StartedInv, SocketInv, SocketsFollowListeners
<1>6. CASE Backend \/ UNCHANGED vars
  BY <1>6 DEF Backend, vars, daemonVars, DaemonTypes, StartedInv, SocketInv, SocketsFollowListeners
<1> QED
  BY <1>1, <1>2, <1>3, <1>4, <1>5, <1>6 DEF Next

\* The client moves by itself, begins with a process's run, and goes with it.
LEMMA ClientKeeps ==
  ASSUME ClientInv, [Next]_vars
  PROVE  ClientInv'
<1>1. CASE UNCHANGED clientVars
  BY <1>1, ClientTypes
<1>2. CASE Backend
  BY <1>2, ClientTypes DEF Backend
<1>3. CASE Connect(TRUE) \/ Connect(FALSE)
  BY <1>3, ConnectTypes
<1>4. CASE Disconnect
  BY <1>4, DisconnectTypes
<1> QED
  BY <1>1, <1>2, <1>3, <1>4
     DEF Next, Main, Start, StartControl, Probe, ProbeEnds, ProbeBus, StartWayland, ConnectBus,
         StartRebroadcast, ClaimName, ClaimDenied, NoBackends, Serve, BackendEnds, CloseBridge,
         Exit, Killed, Vanish, Signal, NameLost, vars

LEMMA FirstState ==
  Init => DaemonInv /\ ClientInv
<1> SUFFICES ASSUME Init
             PROVE  DaemonInv /\ ClientInv
  OBVIOUS
<1>1. ClientInv
  <2>1. rx \in Seq(Announced) /\ events \in Seq(Announced) /\ requests \in Seq(Objects)
    BY EmptySeq DEF Init, ClientInit
  <2>2. removals \in 0..MaxRemovals
    BY ClientAssumption DEF Init, ClientInit
  <2>3. offered \subseteq Globals
    BY DEF Init, ClientInit, Globals
  <2> QED
    BY <2>1, <2>2, <2>3, MessagesAreMessages DEF Init, ClientInit, ClientInv, ClientTypeOK
<1>2. DaemonInv
  BY DaemonAssumption
     DEF Init, DaemonInv, DaemonTypes, StartedInv, SocketInv, SocketsFollowListeners, Sockets,
         NoFlags, CommandLines
<1> QED
  BY <1>1, <1>2

THEOREM DaemonInvariant == Spec => [](DaemonInv /\ ClientInv)
<1>1. DaemonInv /\ ClientInv /\ [Next]_vars => (DaemonInv /\ ClientInv)'
  BY DaemonKeeps, ClientKeeps
<1> QED
  BY <1>1, FirstState, PTL DEF Spec

(* Daemon.TypeOK: the process, its client and what lies on the wire between *)
(* it and the compositor stay within their types.                           *)
THEOREM DaemonTypeCorrect == Spec => []TypeOK
<1>1. DaemonInv /\ ClientInv => TypeOK
  BY DEF DaemonInv, DaemonTypes, ClientInv, TypeOK
<1> QED
  BY <1>1, DaemonInvariant, PTL

(* A socket file is a process's own exactly as long as it listens there,    *)
(* through any kills and restarts: startControlServer and NewListener remove *)
(* what was left behind, every return of main takes its own away.           *)
THEOREM SocketFilesFollow == Spec => []SocketsFollowListeners
<1>1. DaemonInv => SocketsFollowListeners
  BY DEF DaemonInv, SocketInv
<1> QED
  BY <1>1, DaemonInvariant, PTL
-----------------------------------------------------------------------------
(* Where an event finds its handler.  What lies between the compositor and  *)
(* the handlers is one sequence, cut by Fill into what was read and what    *)
(* was not.                                                                 *)
OnWire == rx \o events

\* The last event for the callback, and the one that has its object deleted.
EndsCallback(m) == m.to = "callback" \/ m.ev = "delete_id"

CallbackFree(s) == \A i \in 1..Len(s) : ~EndsCallback(s[i])

(* Every message of s finds a handler among H, now and when those before it *)
(* have been handled: the only object ever deleted is the callback, and no  *)
(* event is sent to it after "done".                                        *)
Routed(s, H) ==
  /\ \A i \in 1..Len(s) :
       /\ s[i].to \in H
       /\ s[i].ev = "delete_id" => s[i].to = "display" /\ s[i].of = {"callback"}
  /\ \A i, j \in 1..Len(s) : i < j /\ EndsCallback(s[i]) => s[j].to # "callback"

\* What was asked for, of which the callback at most once.
AsksOnce(s, H) ==
  /\ \A i \in 1..Len(s) : s[i] \in H
  /\ \A i, j \in 1..Len(s) : s[i] = "callback" /\ s[j] = "callback" => i = j

NotAsked(s) == \A i \in 1..Len(s) : s[i] # "callback"

(* Before the connection there is nothing; then every object the compositor *)
(* was asked for or has made is registered (the callback until it is done), *)
(* and what is on the wire is routed.                                       *)
Routes ==
  /\ pc \in {"off", "dial"} =>
       /\ loop = "idle" /\ line = "none"
       /\ rx = <<>> /\ events = <<>> /\ requests = <<>> /\ known = {}
  /\ pc \notin {"off", "dial"} => "display" \in handlers
  /\ pc \in {"registry", "callback"} => NotAsked(requests) /\ CallbackFree(OnWire)
  /\ known \ {"callback"} \subseteq handlers
  /\ AsksOnce(requests, handlers)
  /\ NotAsked(requests) \/ CallbackFree(OnWire)
  /\ Routed(OnWire, handlers)

RoutesInv == pc # "ended" => Routes

LEMMA RoutedMore ==
  ASSUME NEW s \in Seq(Announced), NEW H, NEW I, Routed(s, H), H \subseteq I
  PROVE  Routed(s, I)
BY DEF Routed

LEMMA RoutedGrows ==
  ASSUME NEW s \in Seq(Announced), NEW t \in Seq(Announced), NEW H,
         Routed(s, H), Routed(t, H), CallbackFree(s) \/ CallbackFree(t)
  PROVE  /\ Routed(s \o t, H)
         /\ CallbackFree(s) /\ CallbackFree(t) => CallbackFree(s \o t)
<1>1. /\ Len(s) \in Nat /\ Len(t) \in Nat
      /\ Len(s \o t) = Len(s) + Len(t)
      /\ \A i \in 1..Len(s) + Len(t) : (s \o t)[i] = IF i <= Len(s) THEN s[i] ELSE t[i - Len(s)]
  BY ConcatProperties, LenProperties
<1> DEFINE c == s \o t
<1>2. \A i \in 1..Len(c) : \/ i \in 1..Len(s) /\ c[i] = s[i]
                           \/ i - Len(s) \in 1..Len(t) /\ i > Len(s) /\ c[i] = t[i - Len(s)]
  BY <1>1
<1>3. Len(c) \in Nat
  BY <1>1
<1> HIDE DEF c
<1>4. \A i \in 1..Len(c) : c[i].to \in H
  BY <1>2 DEF Routed
<1>5. \A i \in 1..Len(c) : c[i].ev = "delete_id" => c[i].to = "display" /\ c[i].of = {"callback"}
  BY <1>2 DEF Routed
<1>6. ASSUME NEW i \in 1..Len(c), NEW j \in 1..Len(c), i < j, EndsCallback(c[i])
      PROVE  c[j].to # "callback"
  <2>1. CASE i \in 1..Len(s) /\ c[i] = s[i]
    <3>1. CASE j \in 1..Len(s) /\ c[j] = s[j]
      BY <2>1, <3>1, <1>6 DEF Routed
    <3>2. CASE j - Len(s) \in 1..Len(t) /\ c[j] = t[j - Len(s)]
      <4>1. CallbackFree(t)
        BY <2>1, <1>6 DEF CallbackFree
      <4> QED
        BY <4>1, <3>2 DEF CallbackFree, EndsCallback
    <3> QED
      BY <3>1, <3>2, <1>2
  <2>2. CASE i - Len(s) \in 1..Len(t) /\ i > Len(s) /\ c[i] = t[i - Len(s)]
    <3>a. Len(s) \in Nat /\ i > Len(s) /\ i < j /\ i \in Nat /\ j \in Nat
      BY <2>2, <1>6, <1>1, <1>3
    <3>b. j \notin 1..Len(s)
      BY <3>a
    <3>1. j - Len(s) \in 1..Len(t) /\ c[j] = t[j - Len(s)]
      BY <3>b, <1>2
    <3>2. i - Len(s) < j - Len(s)
      BY <3>a
    <3> QED
      BY <2>2, <3>1, <3>2, <1>6 DEF Routed
  <2> QED
    BY <2>1, <2>2, <1>2
<1>7. CallbackFree(s) /\ CallbackFree(t) => CallbackFree(c)
  BY <1>2 DEF CallbackFree
<1> QED
  BY <1>4, <1>5, <1>6, <1>7 DEF c, Routed

(* Handling the first message leaves the others routed, and when that ends  *)
(* the callback, also without it.                                           *)
LEMMA RoutedShrinks ==
  ASSUME NEW s \in Seq(Announced), s # <<>>, NEW H, Routed(s, H)
  PROVE  /\ Routed(Tail(s), H)
         /\ EndsCallback(Head(s)) => Routed(Tail(s), H \ {"callback"})
         /\ CallbackFree(s) => CallbackFree(Tail(s)) /\ ~EndsCallback(Head(s))
<1>1. /\ Len(s) \in Nat \ {0} /\ Len(Tail(s)) = Len(s) - 1
      /\ \A i \in 1..Len(Tail(s)) : Tail(s)[i] = s[i + 1]
      /\ Head(s) = s[1]
  BY HeadTailProperties, LenProperties, EmptySeq
<1> DEFINE t == Tail(s)
<1>2. \A i \in 1..Len(t) : i + 1 \in 1..Len(s) /\ 1 < i + 1 /\ t[i] = s[i + 1]
  BY <1>1
<1>3. 1 \in 1..Len(s) /\ Len(t) \in Nat
  BY <1>1
<1> HIDE DEF t
<1>4. Routed(t, H)
  <2>1. \A i, j \in 1..Len(t) : i < j => i + 1 < j + 1
    BY <1>3
  <2> QED
    BY <1>2, <2>1 DEF Routed
<1>5. EndsCallback(s[1]) => \A i \in 1..Len(t) : t[i].to # "callback"
  BY <1>2, <1>3 DEF Routed
<1>6. EndsCallback(s[1]) => Routed(t, H \ {"callback"})
  BY <1>4, <1>5 DEF Routed
<1>7. CallbackFree(s) => CallbackFree(t) /\ ~EndsCallback(s[1])
  BY <1>2, <1>3 DEF CallbackFree
<1> QED
  BY <1>1, <1>4, <1>6, <1>7 DEF t

LEMMA AsksMore ==
  ASSUME NEW s \in Seq(Objects), NEW H, NEW o \in Objects, AsksOnce(s, H),
         o = "callback" => NotAsked(s)
  PROVE  /\ AsksOnce(Append(s, o), H \union {o})
         /\ NotAsked(s) /\ o # "callback" => NotAsked(Append(s, o))
<1>1. /\ Len(s) \in Nat /\ Len(Append(s, o)) = Len(s) + 1
      /\ \A i \in 1..Len(s) : Append(s, o)[i] = s[i]
      /\ Append(s, o)[Len(s) + 1] = o
  BY AppendProperties, LenProperties
<1> DEFINE t == Append(s, o)
<1>2. \A i \in 1..Len(t) : (i \in 1..Len(s) /\ t[i] = s[i]) \/ (i = Len(s) + 1 /\ t[i] = o)
  BY <1>1
<1> HIDE DEF t
<1> QED
  <2>1. \A i \in 1..Len(t) : t[i] \in H \union {o}
    BY <1>2 DEF AsksOnce
  <2>2. \A i, j \in 1..Len(t) : t[i] = "callback" /\ t[j] = "callback" => i = j
    BY <1>2 DEF AsksOnce, NotAsked
  <2>3. NotAsked(s) /\ o # "callback" => NotAsked(t)
    BY <1>2 DEF NotAsked
  <2> QED
    BY <2>1, <2>2, <2>3 DEF AsksOnce, t

LEMMA AsksLess ==
  ASSUME NEW s \in Seq(Objects), s # <<>>, NEW H, AsksOnce(s, H)
  PROVE  /\ AsksOnce(Tail(s), H)
         /\ Head(s) \in H
         /\ Head(s) = "callback" => ~NotAsked(s) /\ NotAsked(Tail(s))
         /\ NotAsked(s) => NotAsked(Tail(s))
<1>1. /\ Len(s) \in Nat \ {0} /\ Len(Tail(s)) = Len(s) - 1
      /\ \A i \in 1..Len(Tail(s)) : Tail(s)[i] = s[i + 1]
      /\ Head(s) = s[1]
  BY HeadTailProperties, LenProperties, EmptySeq
<1> DEFINE t == Tail(s)
<1>2. \A i \in 1..Len(t) : i + 1 \in 1..Len(s) /\ i + 1 # 1 /\ t[i] = s[i + 1]
  BY <1>1
<1>3. 1 \in 1..Len(s) /\ Len(t) \in Nat
  BY <1>1
<1> HIDE DEF t
<1>4. ASSUME NEW i \in 1..Len(t), NEW j \in 1..Len(t), t[i] = "callback", t[j] = "callback"
      PROVE  i = j
  <2>1. s[i + 1] = "callback" /\ s[j + 1] = "callback" /\ i + 1 \in 1..Len(s) /\ j + 1 \in 1..Len(s)
    BY <1>2, <1>4
  <2>2. i + 1 = j + 1
    BY <2>1 DEF AsksOnce
  <2> QED
    BY <2>2, <1>3
<1>5. AsksOnce(t, H)
  BY <1>2, <1>4 DEF AsksOnce
<1>6. s[1] \in H
  BY <1>3 DEF AsksOnce
<1>a. s[1] = "callback" => \A k \in 1..Len(s) : k # 1 => s[k] # "callback"
  BY <1>3 DEF AsksOnce
<1>7. s[1] = "callback" => ~NotAsked(s) /\ NotAsked(t)
  BY <1>2, <1>3, <1>a DEF NotAsked
<1>8. NotAsked(s) => NotAsked(t)
  BY <1>2 DEF NotAsked
<1> QED
  BY <1>1, <1>5, <1>6, <1>7, <1>8 DEF t

LEMMA WireIsMessages ==
  ASSUME ClientInv
  PROVE  OnWire \in Seq(Announced)
BY ConcatProperties DEF OnWire, ClientInv

LEMMA TheseConcat ==
  ASSUME NEW a \in Seq(Announced), NEW b \in Seq(Announced), NEW c \in Seq(Announced)
  PROVE  (a \o b) \o c = a \o (b \o c)
BY ConcatAssociative

\* The compositor adds r at the far end of the wire.
LEMMA WireGrows ==
  ASSUME ClientInv, NEW r \in Seq(Announced), events' = events \o r, rx' = rx
  PROVE  OnWire' = OnWire \o r
<1>1. rx \in Seq(Announced) /\ events \in Seq(Announced)
  BY DEF ClientInv
<1>2. (rx \o events) \o r = rx \o (events \o r)
  BY <1>1, TheseConcat
<1> QED
  BY <1>2 DEF OnWire

\* A sequence of at most one message.
LEMMA OneMessage ==
  ASSUME NEW m \in Announced
  PROVE  /\ <<m>> \in Seq(Announced)
         /\ \A H : m.to \in H /\ m.ev # "delete_id" => Routed(<<m>>, H)
         /\ ~EndsCallback(m) => CallbackFree(<<m>>)
BY DEF Routed, CallbackFree

LEMMA NoMessage ==
  /\ \A H : Routed(<<>>, H)
  /\ CallbackFree(<<>>)
  /\ \A H : AsksOnce(<<>>, H)
  /\ NotAsked(<<>>)
BY DEF Routed, CallbackFree, AsksOnce, NotAsked

\* run(): a handler is registered before its request is written, and only
\* run() asks for the callback, once.
LEMMA RunRoutes ==
  ASSUME ClientInv, RoutesInv, Run
  PROVE  RoutesInv'
<1> USE DEF Routes, runVars, loopVars, compositorVars, End
<1>a. ToSet(Requested) = {"registry", "callback", "binder", "seat", "manager", "im", "grab"}
  BY DEF ToSet, Requested
<1>b. OnWire \in Seq(Announced) /\ requests \in Seq(Objects)
  BY WireIsMessages DEF ClientInv, ClientTypeOK
<1>1. CASE Dial
  <2>1. CASE pc' = "ended"
    BY <2>1 DEF RoutesInv
  <2>2. CASE pc' = "registry" /\ handlers' = {"display"}
    <3>1. UNCHANGED <<known, requests, rx, events>> /\ pc = "dial"
      BY <1>1 DEF Dial
    <3>2. known' = {} /\ requests' = <<>> /\ rx' = <<>> /\ events' = <<>>
      BY <3>1 DEF RoutesInv
    <3>3. OnWire' = <<>>
      BY <3>2 DEF OnWire
    <3> QED
      BY <2>2, <3>2, <3>3, NoMessage DEF RoutesInv
  <2> QED
    BY <1>1, <2>1, <2>2 DEF Dial, ConnectDisplay
<1>2. ASSUME NEW o \in ToSet(Requested), Register(o)
      PROVE  RoutesInv'
  <2>1. /\ pc = o /\ pc' = pc /\ handlers' = handlers \union {o}
        /\ UNCHANGED <<line, loop, requests, known, rx, events>>
    BY <1>2 DEF Register
  <2>2. Routes /\ OnWire' = OnWire
    BY <2>1, <1>a DEF RoutesInv, OnWire
  <2>3. Routed(OnWire', handlers')
    BY <2>1, <2>2, <1>b, RoutedMore
  <2>4. AsksOnce(requests', handlers')
    BY <2>1, <2>2 DEF AsksOnce
  <2> QED
    BY <2>1, <2>2, <2>3, <2>4, <1>a DEF RoutesInv
<1>5. ASSUME NEW o \in ToSet(Requested), Send(o)
      PROVE  RoutesInv'
  <2>1. /\ pc = o /\ pc' = After(o) /\ pc' \notin {"off", "dial", "ended"}
        /\ pc' \in {"registry", "callback"} => o = "registry" /\ pc' = "callback"
        /\ o \in Objects
    BY <1>5, <1>a DEF Send, After, Objects
  <2>2. /\ o \in handlers /\ handlers' = handlers /\ requests' = Append(requests, o)
        /\ known' = known /\ OnWire' = OnWire
    BY <1>5 DEF Send, OnWire
  <2>a. handlers \union {o} = handlers
    BY <2>2
  <2>3. Routes
    BY <2>1, <1>a DEF RoutesInv
  <2>4. o = "callback" => NotAsked(requests) /\ CallbackFree(OnWire)
    BY <2>1, <2>3
  <2>5. AsksOnce(requests', handlers')
    BY <2>1, <2>2, <2>3, <2>4, <2>a, <1>b, AsksMore
  <2>6. NotAsked(requests) /\ o # "callback" => NotAsked(requests')
    BY <2>1, <2>2, <2>3, <2>4, <1>b, AsksMore
  <2>7. pc' \in {"registry", "callback"} => NotAsked(requests') /\ CallbackFree(OnWire')
    BY <2>1, <2>2, <2>3, <2>6
  <2>8. NotAsked(requests') \/ CallbackFree(OnWire')
    BY <2>2, <2>3, <2>4, <2>6
  <2> QED
    BY <2>1, <2>2, <2>3, <2>5, <2>7, <2>8, <1>a DEF RoutesInv
<1>3. ASSUME NEW o \in ToSet(Requested), CreateFails(o)
      PROVE  RoutesInv'
  <2>1. CASE pc' = "ended"
    BY <2>1 DEF RoutesInv
  <2>2. CASE pc' # "ended"
    <3>1. /\ pc = "callback" /\ pc' = "await" /\ handlers' = handlers
          /\ requests' = requests /\ known' = known /\ OnWire' = OnWire
      BY <1>3, <2>2 DEF CreateFails, OnWire
    <3>2. Routes
      BY <3>1 DEF RoutesInv
    <3> QED
      BY <3>1, <3>2 DEF RoutesInv
  <2> QED
    BY <2>1, <2>2
<1>4. CASE Enumerated \/ LoopEndedEarly \/ CheckGlobals \/ LoopEnded
  <2>1. CASE pc' = "ended"
    BY <2>1 DEF RoutesInv
  <2>2. CASE pc' # "ended"
    <3>1. /\ pc \in {"await", "check"} /\ pc' \in {"check", "binder"}
          /\ UNCHANGED <<handlers, requests, known, rx, events>>
      BY <1>4, <2>2 DEF Enumerated, LoopEndedEarly, CheckGlobals, LoopEnded
    <3>2. OnWire' = OnWire
      BY <3>1 DEF OnWire
    <3> QED
      BY <3>1, <3>2 DEF RoutesInv
  <2> QED
    BY <2>1, <2>2
<1> QED
  BY <1>1, <1>2, <1>3, <1>4, <1>5, <1>a
     DEF Run, GetRegistry, Sync, BindSeat, BindManager, GetInputMethod, GrabKeyboard, Create

\* What a delivered message does to the table.
LEMMA DeliverRoutes ==
  ASSUME ClientInv, RoutesInv, Deliver
  PROVE  RoutesInv'
<1> USE DEF Routes
<1> SUFFICES ASSUME pc # "ended" PROVE RoutesInv'
  BY DEF Deliver, RoutesInv
<1> DEFINE m == Head(rx)
<1>1. /\ UNCHANGED <<pc, line, requests, events, known>>
      /\ rx # <<>> /\ loop = "running" /\ rx' = Tail(rx)
  BY DEF Deliver, compositorVars
<1>2. pc \notin {"off", "dial"} /\ Routes
  BY <1>1 DEF RoutesInv
<1>3. OnWire \in Seq(Announced) /\ rx \in Seq(Announced) /\ events \in Seq(Announced)
      /\ requests \in Seq(Objects)
  BY WireIsMessages DEF ClientInv, ClientTypeOK
<1>4. OnWire # <<>> /\ Head(OnWire) = m /\ OnWire' = Tail(OnWire)
  BY <1>1, <1>3 DEF OnWire
<1>5. m.to \in handlers /\ (m.ev = "delete_id" => m.to = "display" /\ m.of = {"callback"})
  <2>1. 1 \in 1..Len(OnWire) /\ OnWire[1] = m
    BY <1>3, <1>4, LenProperties, EmptySeq
  <2> QED
    BY <2>1, <1>2 DEF Routed
<1>6. handlers' = handlers \/ (EndsCallback(m) /\ handlers' = handlers \ {"callback"})
  BY <1>5 DEF Deliver, HandleDisplay, HandleRegistry, HandleCallback, HandleGrab,
              HandleSeat, HandleInputMethod, Unregister, EndsCallback
<1>7. Routed(OnWire', handlers')
  BY <1>2, <1>3, <1>4, <1>6, RoutedShrinks
<1>8. CallbackFree(OnWire) => CallbackFree(OnWire') /\ handlers' = handlers
  BY <1>2, <1>3, <1>4, <1>6, RoutedShrinks
<1>9. AsksOnce(requests', handlers')
  BY <1>1, <1>2, <1>6, <1>8 DEF AsksOnce, NotAsked
<1> QED
  BY <1>1, <1>2, <1>6, <1>7, <1>8, <1>9 DEF RoutesInv

(* Dispatcher.Run: the callback leaves the table with its "done", or with   *)
(* its deletion, and nothing for it is left behind either of them.          *)
LEMMA DispatchRoutes ==
  ASSUME ClientInv, RoutesInv, DispatchLoop
  PROVE  RoutesInv'
<1> USE DEF Routes, runVars, loopVars, compositorVars
<1>1. CASE Fill
  <2>1. /\ UNCHANGED <<pc, handlers, line, requests, known, loop>>
        /\ loop = "running" /\ rx = <<>>
        /\ \E n \in DOMAIN events : /\ rx' = SubSeq(events, 1, n)
                                    /\ events' = SubSeq(events, n + 1, Len(events))
    BY <1>1 DEF Fill
  <2>2. events \in Seq(Announced)
    BY DEF ClientInv
  <2>3. PICK n \in 1..Len(events) : /\ rx' = SubSeq(events, 1, n)
                                    /\ events' = SubSeq(events, n + 1, Len(events))
    BY <2>1, <2>2, LenProperties
  <2>a. Len(events) \in Nat
    BY <2>2, LenProperties
  <2>b. /\ n \in Int /\ 1 \in 1..Len(events) + 1 /\ n \in 1 - 1..Len(events)
        /\ Len(events) \in n..Len(events)
    BY <2>a
  <2>c. SubSeq(events, 1, n) \o SubSeq(events, n + 1, Len(events)) = SubSeq(events, 1, Len(events))
    BY <2>b, <2>2, ConcatAdjacentSubSeq
  <2>4. SubSeq(events, 1, n) \o SubSeq(events, n + 1, Len(events)) = events
    BY <2>c, <2>2, SubSeqFull
  <2>5. OnWire' = OnWire
    BY <2>1, <2>2, <2>3, <2>4, ConcatEmptySeq DEF OnWire
  <2> QED
    BY <2>1, <2>5 DEF RoutesInv
<1>2. CASE ReadEnds
  BY <1>2 DEF ReadEnds, RoutesInv, OnWire
<1> QED
  BY <1>1, <1>2, DeliverRoutes DEF DispatchLoop

\* Answers go to objects the client has asked for.
LEMMA CompositorRoutes ==
  ASSUME ClientInv, RoutesInv, Compositor
  PROVE  RoutesInv'
<1> USE DEF Routes, runVars, loopVars, compositorVars
<1>a. line = "open" /\ UNCHANGED <<pc, rx, handlers>>
  BY DEF Compositor, AnswerRequest, RefuseBind, HangUp, GlobalRemoved
<1> SUFFICES ASSUME pc # "ended" PROVE RoutesInv'
  BY <1>a DEF RoutesInv
<1>b. pc \notin {"off", "dial"} /\ Routes
  BY <1>a DEF RoutesInv
<1>c. OnWire \in Seq(Announced) /\ requests \in Seq(Objects)
  BY WireIsMessages DEF ClientInv, ClientTypeOK
<1>d. events \in Seq(Announced) /\ offered \subseteq Globals
  BY DEF ClientInv, ClientTypeOK
\* A message that does not end the callback joins the others.
<1>e. ASSUME NEW r \in Seq(Announced), OnWire' = OnWire \o r, Routed(r, handlers), CallbackFree(r)
      PROVE  /\ Routed(OnWire', handlers)
             /\ CallbackFree(OnWire) => CallbackFree(OnWire')
  BY <1>b, <1>c, <1>e, RoutedGrows
<1>1. CASE AnswerRequest
  <2> DEFINE o == Head(requests)
  <2>1. /\ requests # <<>> /\ requests' = Tail(requests) /\ known' = known \union {o}
        /\ events' = events \o Reply(o)
    BY <1>1 DEF AnswerRequest
  <2>2. o \in handlers /\ o \in Objects /\ AsksOnce(requests', handlers)
        /\ (o = "callback" => ~NotAsked(requests) /\ NotAsked(requests'))
        /\ (NotAsked(requests) => NotAsked(requests'))
    BY <2>1, <1>b, <1>c, AsksLess, HeadTailProperties
  <2> HIDE DEF o
  <2>3. CASE o # "callback"
    <3>1. Reply(o) \in Seq(Announced) /\ Routed(Reply(o), handlers) /\ CallbackFree(Reply(o))
      <4>1. Naming(o, "globals", offered) \in Announced /\ Naming(o, "globals", offered).to = o
            /\ Naming(o, "globals", offered).ev = "globals"
        BY <1>d, <2>2, Made DEF Naming
      <4>2. ASSUME NEW e \in {"capabilities", "unavailable", "keymap"}
            PROVE  Event(o, e) \in Announced /\ Event(o, e).to = o /\ Event(o, e).ev = e
        BY <2>2, Made DEF Event, Events
      <4>3. \A x \in Announced : x.to = o /\ x.ev # "delete_id" =>
              <<x>> \in Seq(Announced) /\ Routed(<<x>>, handlers) /\ CallbackFree(<<x>>)
        BY <2>2, <2>3, OneMessage DEF EndsCallback
      <4>4. <<>> \in Seq(Announced) /\ Routed(<<>>, handlers) /\ CallbackFree(<<>>)
        BY NoMessage, EmptySeq
      <4>5. \/ Reply(o) = <<>>
            \/ Reply(o) = <<Naming(o, "globals", offered)>>
            \/ \E e \in {"capabilities", "unavailable", "keymap"} : Reply(o) = <<Event(o, e)>>
        BY <2>3 DEF Reply
      <4> QED
        BY <4>1, <4>2, <4>3, <4>4, <4>5
    <3>2. OnWire' = OnWire \o Reply(o)
      BY <3>1, <2>1, <1>a, WireGrows
    <3>3. Routed(OnWire', handlers) /\ (CallbackFree(OnWire) => CallbackFree(OnWire'))
      BY <3>1, <3>2, <1>e
    <3> QED
      BY <1>a, <1>b, <2>1, <2>2, <3>3 DEF RoutesInv
  <2>4. CASE o = "callback"
    <3> DEFINE r == <<Event("callback", "done"), Naming("display", "delete_id", {"callback"})>>
    <3>1. Reply(o) = r
      BY <2>4 DEF Reply
    <3>2. r \in Seq(Announced)
      <4>1. Event("callback", "done") \in Announced /\ Naming("display", "delete_id", {"callback"}) \in Announced
        BY Made DEF Objects, Events
      <4> QED
        BY <4>1
    <3>3. Routed(r, handlers)
      BY <1>b, <2>2, <2>4 DEF Routed, Event, Naming, EndsCallback
    <3>4. CallbackFree(OnWire)
      BY <2>2, <2>4, <1>b
    <3>5. OnWire' = OnWire \o r
      BY <3>1, <3>2, <2>1, <1>a, WireGrows
    <3>6. Routed(OnWire', handlers)
      BY <3>2, <3>3, <3>4, <3>5, <1>b, <1>c, RoutedGrows
    <3>7. pc \notin {"registry", "callback"}
      BY <2>2, <2>4, <1>b
    <3> QED
      BY <1>a, <1>b, <2>1, <2>2, <2>4, <3>6, <3>7 DEF RoutesInv
  <2> QED
    BY <2>3, <2>4
<1>2. CASE RefuseBind
  <2> DEFINE e == Event("display", "error")
  <2>1. events' = Append(events, e) /\ requests' = <<>> /\ known' = {}
    BY <1>2 DEF RefuseBind
  <2>2. e \in Announced /\ e.to = "display" /\ e.ev = "error"
    BY Made DEF Objects, Events, Event
  <2>3. <<e>> \in Seq(Announced) /\ Routed(<<e>>, handlers) /\ CallbackFree(<<e>>)
    BY <2>2, <1>b, OneMessage DEF EndsCallback
  <2>4. events' = events \o <<e>>
    BY <2>1, <2>2, <1>d, AppendIsConcat
  <2>5. OnWire' = OnWire \o <<e>>
    BY <2>3, <2>4, <1>a, WireGrows
  <2>6. Routed(OnWire', handlers) /\ (CallbackFree(OnWire) => CallbackFree(OnWire'))
    BY <2>3, <2>5, <1>e
  <2> QED
    BY <1>a, <1>b, <2>1, <2>6, NoMessage DEF RoutesInv
<1>3. CASE HangUp
  <2>1. requests' = <<>> /\ known' = {} /\ OnWire' = OnWire
    BY <1>3 DEF HangUp, OnWire
  <2> QED
    BY <1>a, <1>b, <2>1, NoMessage DEF RoutesInv
<1>4. ASSUME NEW g \in Globals, GlobalRemoved(g)
      PROVE  RoutesInv'
  <2> DEFINE e == Naming("registry", "remove", {g})
  <2>1. requests' = requests /\ known' = known
        /\ ((events' = Append(events, e) /\ "registry" \in handlers) \/ events' = events)
    BY <1>4, <1>b DEF GlobalRemoved
  <2>2. CASE events' = events
    <3>1. OnWire' = OnWire
      BY <2>2, <1>a DEF OnWire
    <3> QED
      BY <1>a, <1>b, <2>1, <3>1 DEF RoutesInv
  <2>3. CASE events' = Append(events, e) /\ "registry" \in handlers
    <3>a. {g} \in SUBSET Objects
      BY DEF Globals, Objects
    <3>2. e \in Announced /\ e.to = "registry" /\ e.ev = "remove"
      BY <3>a, Made DEF Objects, Events, Naming
    <3>3. <<e>> \in Seq(Announced) /\ Routed(<<e>>, handlers) /\ CallbackFree(<<e>>)
      BY <3>2, <2>3, OneMessage DEF EndsCallback
    <3>4. events' = events \o <<e>>
      BY <2>3, <3>2, <1>d, AppendIsConcat
    <3>5. OnWire' = OnWire \o <<e>>
      BY <3>3, <3>4, <1>a, WireGrows
    <3>6. Routed(OnWire', handlers) /\ (CallbackFree(OnWire) => CallbackFree(OnWire'))
      BY <3>3, <3>5, <1>e
    <3> QED
      BY <1>a, <1>b, <2>1, <3>6 DEF RoutesInv
  <2> QED
    BY <2>1, <2>2, <2>3
<1> QED
  BY <1>1, <1>2, <1>3, <1>4 DEF Compositor

\* A run begins only where there is none.
RunInv == stage \in {"off", "control", "wayland"} => pc = "off"

LEMMA RoutesKept ==
  ASSUME DaemonInv, ClientInv, RunInv, RoutesInv, [Next]_vars
  PROVE  RunInv' /\ RoutesInv'
<1>1. CASE Backend
  <2>1. RoutesInv'
    BY <1>1, RunRoutes, DispatchRoutes, CompositorRoutes DEF Backend, ClientNext
  <2>2. pc # "off"
    <3>1. pc = "off" => loop = "idle" /\ line = "none"
      BY DEF RoutesInv, Routes
    <3>2. ToSet(Requested) = {"registry", "callback", "binder", "seat", "manager", "im", "grab"}
      BY DEF ToSet, Requested
    <3>3. Run => pc # "off"
      BY <3>2 DEF Run, Dial, Enumerated, LoopEndedEarly, CheckGlobals, LoopEnded, GetRegistry, Sync,
                  BindSeat, BindManager, GetInputMethod, GrabKeyboard, Create, Register, Send, CreateFails
    <3>4. DispatchLoop => loop = "running"
      BY DEF DispatchLoop, Fill, ReadEnds, Deliver
    <3>5. Compositor => line = "open"
      BY DEF Compositor, AnswerRequest, RefuseBind, HangUp, GlobalRemoved
    <3> QED
      BY <1>1, <3>1, <3>3, <3>4, <3>5 DEF Backend, ClientNext
  <2> QED
    BY <1>1, <2>1, <2>2 DEF Backend, daemonVars, RunInv
<1>2. CASE Disconnect /\ stage' = "off"
  <2>1. OnWire' = <<>>
    BY <1>2 DEF Disconnect, OnWire
  <2> QED
    BY <1>2, <2>1, NoMessage DEF Disconnect, RunInv, RoutesInv, Routes
<1>3. CASE pc = "off" /\ (Connect(TRUE) \/ Connect(FALSE)) /\ stage' \notin {"off", "control", "wayland"}
  <2>1. pc' = "dial" /\ UNCHANGED <<line, loop, handlers, rx, requests, events, known>>
    BY <1>3 DEF Connect
  <2>2. OnWire' = OnWire
    BY <2>1 DEF OnWire
  <2> QED
    BY <1>3, <2>1, <2>2 DEF RunInv, RoutesInv, Routes
<1>4. CASE UNCHANGED clientVars /\ (stage' \in {"off", "control", "wayland"} => stage \in {"off", "control", "wayland"})
  BY <1>4 DEF clientVars, runVars, loopVars, compositorVars, RunInv, RoutesInv, Routes, OnWire
<1> QED
  BY <1>1, <1>2, <1>3, <1>4
     DEF Next, Main, Start, StartControl, Probe, ProbeEnds, ProbeBus, StartWayland, ConnectBus,
         StartRebroadcast, ClaimName, ClaimDenied, NoBackends, Serve, BackendEnds, CloseBridge,
         Exit, Killed, Vanish, Signal, NameLost, vars, daemonVars, Goto, Leave, RunInv

(* WaylandClient.EventsFindHandlers, through every interleaving of run, the *)
(* dispatch loop and the compositor, and any kills and restarts: no event   *)
(* is dropped because its object was not yet, or is no longer, in the table *)
(* (Register before Send, and no event for wl_callback after done).         *)
THEOREM EventsAreRouted == Spec => []EventsFindHandlers
<1>1. Init => RunInv /\ RoutesInv
  <2>1. Init => OnWire = <<>>
    BY DEF Init, ClientInit, OnWire
  <2> QED
    BY <2>1, NoMessage DEF Init, ClientInit, RunInv, RoutesInv, Routes
<1>2. DaemonInv /\ ClientInv /\ RunInv /\ RoutesInv /\ [Next]_vars => (RunInv /\ RoutesInv)'
  BY RoutesKept
<1>3. ClientInv /\ RoutesInv => EventsFindHandlers
  <2> SUFFICES ASSUME ClientInv, RoutesInv, pc \notin {"off", "ended"}, NEW m \in ToSet(OnWire)
               PROVE  m.to \in handlers
    BY DEF EventsFindHandlers, OnWire
  <2>1. PICK i \in 1..Len(OnWire) : m = OnWire[i]
    BY WireIsMessages, LenProperties DEF ToSet
  <2> QED
    BY <2>1 DEF RoutesInv, Routes, Routed
<1> QED
  BY <1>1, <1>2, <1>3, DaemonInvariant, PTL DEF Spec
=============================================================================
