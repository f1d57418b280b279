------------------------------- MODULE Daemon -------------------------------
(***************************************************************************)
(* The process around the backends: main, dryRunChecks and runMulti of     *)
(* cmd/flexkb-imed/main.go, its control socket (control.go), the socket    *)
(* file of the v2 rebroadcast (wlserver/listener.go, imv2bridge) and the   *)
(* claim of the ibus bus name (ibus.go, Start), composed with the Wayland  *)
(* backend of WaylandClient, which runs beside main.  The process may be   *)
(* killed at any step and is started again, one process at a time; socket  *)
(* files and the bus outlive it.                                           *)
(***************************************************************************)
EXTENDS WaylandClient

CONSTANTS Flags,     \* the command lines it is started with
          MaxStarts  \* bound on the times it is started

CommandLines == [dry : BOOLEAN, wayland : BOOLEAN, v2 : BOOLEAN,
                 ibus : {"off", "alongside", "replace"}]

NoFlags == [dry |-> FALSE, wayland |-> FALSE, v2 |-> FALSE, ibus |-> "off"]

ASSUME DaemonAssumption == Flags \subseteq CommandLines /\ MaxStarts \in Nat

VARIABLES stage,    \* main's next step, "off" when there is no process
          flags,
          started,  \* backends of runMulti that started
          exit,     \* how the last process ended
          starts,   \* processes so far; the current one is number starts
          files,    \* whose socket is under each path, 0 if there is none
          up,       \* sockets this process listens on
          name      \* who owns org.freedesktop.IBus

daemonVars == <<stage, flags, started, exit, starts, files, up, name>>
vars == <<daemonVars, clientVars>>

Sockets == {"control", "v2"}

TypeOK ==
  /\ ClientTypeOK
  /\ stage \in {"off", "control", "probe", "probebus", "wayland", "ibus", "v2",
                "claim", "ready", "select", "bridge", "exit"}
  /\ flags \in CommandLines
  /\ started \in 0..2
  /\ exit \in {"none", "ok", "err", "killed"}
  /\ starts \in 0..MaxStarts
  /\ files \in [Sockets -> 0..MaxStarts]
  /\ up \subseteq Sockets
  /\ name \in {"free", "ours", "other"}

Init ==
  /\ ClientInit
  /\ stage = "off"
  /\ flags = NoFlags
  /\ started = 0
  /\ exit = "none"
  /\ starts = 0
  /\ files = [s \in Sockets |-> 0]
  /\ up = {}
  /\ name \in {"free", "other"}
-----------------------------------------------------------------------------
Start ==
  /\ stage = "off"
  /\ starts < MaxStarts
  /\ starts' = starts + 1
  /\ flags' \in Flags
  /\ exit' = "none"
  /\ stage' = "control"
  /\ UNCHANGED <<started, files, up, name, clientVars>>

\* A listener on socket s; one that was left behind is removed first.
Listen(s) == up' = up \union {s} /\ files' = [files EXCEPT ![s] = starts]

\* What was left behind may be gone by then or not: no step tells a path under
\* which a dead process's socket lies from a free one, and it counts as free.
ListenFails(s) == UNCHANGED up /\ files' = [files EXCEPT ![s] = 0]

\* Closing a listener takes its file with it.
Unlisten(s) == up' = up \ {s} /\ files' = [files EXCEPT ![s] = IF s \in up THEN 0 ELSE @]

(* startControlServer; without it the daemon goes on. *)
StartControl ==
  /\ stage = "control"
  /\ Listen("control") \/ ListenFails("control")
  /\ stage' = IF flags.dry THEN "probe" ELSE "wayland"
  /\ UNCHANGED <<flags, started, exit, starts, name, clientVars>>

Goto(s) == stage' = s /\ UNCHANGED exit

Leave(how) == stage' = "exit" /\ exit' = how

\* run, or the probe of a dry run, begins.
Connect(probe) ==
  /\ pc' = "dial"
  /\ dry' = probe
  /\ UNCHANGED <<result, line, loop, handlers, globals, enumerated,
                 rx, fds, requests, events, offered, known, refused, removals>>

(* dryRunChecks: the session is built, the compositor asked for its         *)
(* globals, the session bus connected to.                                   *)
Probe ==
  /\ stage = "probe" /\ pc = "off"
  /\ \/ ~flags.wayland /\ Goto("probebus") /\ UNCHANGED clientVars
     \/ flags.wayland /\ Connect(TRUE) /\ UNCHANGED <<stage, exit>>
     \/ Leave("err") /\ UNCHANGED clientVars
  /\ UNCHANGED <<flags, started, starts, files, up, name>>

ProbeEnds ==
  /\ stage = "probe" /\ pc = "ended"
  /\ IF result = "nil" THEN Goto("probebus") ELSE Leave("err")
  /\ UNCHANGED <<flags, started, starts, files, up, name, clientVars>>

ProbeBus ==
  /\ stage = "probebus"
  /\ Leave("ok") \/ (flags.ibus # "off" /\ Leave("err"))
  /\ UNCHANGED <<flags, started, starts, files, up, name, clientVars>>

(* runMulti: the Wayland backend counts as started when its goroutine is,   *)
(* and is not when its session cannot be built.                             *)
StartWayland ==
  /\ stage = "wayland"
  /\ \/ /\ flags.wayland
        /\ Connect(FALSE)
        /\ started' = started + 1
     \/ UNCHANGED <<started, clientVars>>
  /\ Goto(IF flags.ibus # "off" THEN "ibus" ELSE "ready")
  /\ UNCHANGED <<flags, starts, files, up, name>>

ConnectBus ==
  /\ stage = "ibus"
  /\ Goto(IF flags.v2 THEN "v2" ELSE "claim") \/ Goto("ready")
  /\ UNCHANGED <<flags, started, starts, files, up, name, clientVars>>

\* Without its socket the rebroadcast tier is disabled, nothing else.
StartRebroadcast ==
  /\ stage = "v2"
  /\ Listen("v2") \/ ListenFails("v2")
  /\ Goto("claim")
  /\ UNCHANGED <<flags, started, starts, name, clientVars>>

(* Server.Start.  An owner may refuse to be replaced. *)
ClaimName ==
  /\ stage = "claim"
  /\ name = "free" \/ flags.ibus = "replace"
  /\ name' = "ours"
  /\ started' = started + 1
  /\ Goto("ready")
  /\ UNCHANGED <<flags, starts, files, up, clientVars>>

\* Mutant: runMulti forgets the bridge without closing it.
ClaimDeniedForgets ==
  /\ stage = "claim"
  /\ up' = up \ {"v2"}
  /\ Goto("ready")
  /\ UNCHANGED <<flags, started, starts, files, name, clientVars>>

\* The name is another's, or the bus does not answer.
ClaimDenied ==
  /\ stage = "claim"
  /\ Unlisten("v2")
  /\ Goto("ready")
  /\ UNCHANGED <<flags, started, starts, name, clientVars>>

NoBackends ==
  /\ stage = "ready" /\ started = 0
  /\ stage' = "bridge" /\ exit' = "err"
  /\ UNCHANGED <<flags, started, starts, files, up, name, clientVars>>

Serve ==
  /\ stage = "ready" /\ started > 0
  /\ Goto("select")
  /\ UNCHANGED <<flags, started, starts, files, up, name, clientVars>>

\* Mutant: only a backend's error is waited for.
BackendFails ==
  /\ stage = "select" /\ pc = "ended" /\ result = "err"
  /\ stage' = "bridge" /\ exit' = "err"
  /\ UNCHANGED <<flags, started, starts, files, up, name, clientVars>>

(* The select of runMulti. *)
BackendEnds ==
  /\ stage = "select" /\ pc = "ended"
  /\ stage' = "bridge"
  /\ exit' = IF result = "nil" THEN "ok" ELSE "err"
  /\ UNCHANGED <<flags, started, starts, files, up, name, clientVars>>

Signal ==
  /\ stage = "select"
  /\ stage' = "bridge" /\ exit' = "ok"
  /\ UNCHANGED <<flags, started, starts, files, up, name, clientVars>>

\* runMulti's deferred Bridge.Close.
CloseBridge ==
  /\ stage = "bridge"
  /\ Unlisten("v2")
  /\ Goto("exit")
  /\ UNCHANGED <<flags, started, starts, name, clientVars>>

\* No process: its sockets are closed, its bus name is free.
Vanish ==
  /\ stage' = "off"
  /\ up' = {}
  /\ name' = IF name = "ours" THEN "free" ELSE name
  /\ Disconnect
  /\ flags' = NoFlags /\ started' = 0
  /\ UNCHANGED starts

(* ctrl.close and the end of main. *)
Exit ==
  /\ stage = "exit"
  /\ files' = [files EXCEPT !["control"] = IF "control" \in up THEN 0 ELSE @]
  /\ UNCHANGED exit
  /\ Vanish

\* SIGKILL, or SIGTERM before runMulti asks to be notified.
Killed ==
  /\ stage # "off"
  /\ exit' = "killed"
  /\ UNCHANGED files
  /\ Vanish

\* Another ibus takes the name; Start has allowed it if it was to replace one.
NameLost ==
  /\ name = "ours" /\ flags.ibus = "replace"
  /\ name' = "other"
  /\ UNCHANGED <<stage, flags, started, exit, starts, files, up, clientVars>>

Main ==
  \/ StartControl \/ Probe \/ ProbeEnds \/ ProbeBus
  \/ StartWayland \/ ConnectBus \/ StartRebroadcast \/ ClaimName \/ ClaimDenied
  \/ NoBackends \/ Serve \/ BackendEnds \/ CloseBridge \/ Exit

Backend == ClientNext /\ UNCHANGED daemonVars

Next == Main \/ Start \/ Signal \/ Killed \/ NameLost \/ Backend

Spec == Init /\ [][Next]_vars

\* The process and the compositor do not stop while one of them has a next step.
FairSpec ==
  /\ Spec
  /\ WF_vars(Main \/ ((Run \/ DispatchLoop \/ AnswerRequest \/ RefuseBind) /\ UNCHANGED daemonVars))
-----------------------------------------------------------------------------
(* A socket file is a process's own exactly as long as it listens there:    *)
(* what a killed process left behind is replaced ("Existing socket files    *)
(* are removed if present (stale from a crashed previous daemon)"), and     *)
(* every way out of main takes the files away ("defers don't fire, leaves a *)
(* stale socket otherwise", "defer runs on every return path").             *)
SocketsFollowListeners ==
  starts > 0 /\ exit # "killed" => \A s \in Sockets : files[s] = starts <=> s \in up

(* A start ends: in a daemon that serves, or in none.  run() has no timeout *)
(* of its own, so this is up to the compositor's answers.                   *)
StartupEnds ==
  stage = "control" ~>
    \/ stage = "off"
    \/ stage = "select" /\ pc \in {"off", "serve", "ended"}

(* No process stays that serves nothing: once the compositor has closed the *)
(* connection or run() has returned ("Any protocol error terminates the     *)
(* daemon", main.go, run), it ends, unless the ibus backend serves.         *)
NoIdleDaemon ==
  (line \in {"hungup", "reset"} \/ (pc = "ended" /\ ~dry)) /\ name # "ours"
    ~> stage = "off" \/ name = "ours"
=============================================================================
