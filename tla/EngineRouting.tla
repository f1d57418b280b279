---------------------------- MODULE EngineRouting ----------------------------
(***************************************************************************)
(* The ibus tier of flexkb-imed: ibus.InputContext (context.go) routes     *)
(* keys and focus to ibushost.Host (host.go), which spawns engine          *)
(* processes and binds contexts to them, and the signalBridge              *)
(* (signals.go) carries an engine's CommitText back to a context.          *)
(*                                                                         *)
(* godbus runs every method call in a goroutine of its own: call[g] is     *)
(* what is left of one.  A step is what happens between two acquisitions   *)
(* of InputContext.mu, Host.mu, signalBridge.mu or Server.mu, or one       *)
(* D-Bus call to an engine.  A handle is one ibushost.Engine value; it is  *)
(* numbered in the order of creation and 0 is nil.  What the v2 router     *)
(* does with a key it is offered is V2Bridge's subject; here it takes the  *)
(* key, declines it or fails.                                              *)
(***************************************************************************)
EXTENDS Naturals, FiniteSets

CONSTANTS
  Ctxs,        \* object paths of input contexts
  Names,       \* engine names clients and components may mention
  Catalog,     \* the ones Host.catalog knows
  Calls,       \* D-Bus method-call goroutines that may be in flight at once
  NoCtx,       \* the empty object path
  NoName,      \* the empty engine name
  MidFocus,    \* TRUE: a client also calls SetEngine on a focused context
  MaxHandles,  \* bound: Engine values created
  MaxKeys      \* bound: keystrokes delivered to focused contexts

ASSUME RoutingAssumption ==
  /\ Catalog \subseteq Names
  /\ NoCtx \notin Ctxs
  /\ NoName \notin Names
  /\ MidFocus \in BOOLEAN
  /\ MaxHandles \in Nat
  /\ MaxKeys \in Nat

VARIABLES
  ctx,       \* each path: not created yet, in Server.contexts, or destroyed
  focused,   \* contexts with InputContext.focused = true
  engine,    \* InputContext.engine
  made,      \* Engine values created so far
  hname,     \* Engine.name of each handle
  proc,      \* the process behind each handle, "none" for nil
  obj,       \* handles with obj # nil, the ones Connected() is true of
  engines,   \* Host.engines: handle of each name, 0 for no entry
  routes,    \* Host.routes: handle of each context, 0 for no entry
  started,   \* signalBridge.started
  hooked,    \* signalBridge.focused: context of each name
  emitting,  \* <<name, context>> pairs handle() has yet to emit a signal to
  late,      \* signals that reached each context after its last FocusOut
  call,      \* the method call each goroutine is inside of
  keys,      \* keystrokes so far
  asked,     \* keystrokes an engine process has and has not handled yet
  answer,    \* the engine's reply to each keystroke
  acted,     \* tiers that acted on each keystroke
  gaveUp     \* keystrokes whose engine call timed out or failed

host   == <<made, hname, proc, obj, engines, routes>>
bridge == <<started, hooked, emitting, late>>
keyed  == <<keys, asked, answer, acted, gaveUp>>
client == <<ctx, focused, engine>>
vars == <<client, host, bridge, call, keyed>>

Handles == 1..MaxHandles
Keys == 1..MaxKeys
NoHandle == 0
Tiers == {"v2", "engine", "session"}
KeyPC == {"v2", "keyRoute", "send", "await", "session"}
ControlPC == {"inRoute", "inWait", "hook", "outRoute", "outWait", "unhook",
              "select", "setRoute", "setWait", "delete"}
LeavingPC == {"outRoute", "outWait", "unhook"}
Call == [pc : {"idle"} \union KeyPC \union ControlPC, ctx : Ctxs \union {NoCtx},
         name : Names \union {NoName}, handle : 0..MaxHandles, key : 0..MaxKeys]

InCall(pc, c, n, h, k) ==
  [pc |-> pc, ctx |-> c, name |-> n, handle |-> h, key |-> k]
Idle == InCall("idle", NoCtx, NoName, NoHandle, 0)

Init ==
  /\ ctx = [c \in Ctxs |-> "none"]
  /\ focused = {}
  /\ engine = [c \in Ctxs |-> NoName]
  /\ made = 0
  /\ hname = [h \in Handles |-> NoName]
  /\ proc = [h \in Handles |-> "none"]
  /\ obj = {}
  /\ engines = [n \in Names |-> NoHandle]
  /\ routes = [c \in Ctxs |-> NoHandle]
  /\ started = FALSE
  /\ hooked = [n \in Names |-> NoCtx]
  /\ emitting = {} /\ late = [c \in Ctxs |-> 0]
  /\ call = [g \in Calls |-> Idle]
  /\ keys = 0 /\ asked = {} /\ gaveUp = {}
  /\ answer = [k \in Keys |-> "none"]
  /\ acted = [k \in Keys |-> {}]
-----------------------------------------------------------------------------
(* What the clients call.  An application waits for the reply to a focus,  *)
(* engine or destroy call on a context before it makes the next on that    *)
(* context; keystrokes are sent at any time.                               *)

Idles(g) == call[g].pc = "idle"
Enter(g, pc, c, n) == call' = [call EXCEPT ![g] = InCall(pc, c, n, NoHandle, 0)]
Leave(g) == call' = [call EXCEPT ![g] = Idle]
Step(g, pc) ==
  call' = [call EXCEPT ![g] =
             InCall(pc, call[g].ctx, call[g].name, call[g].handle, call[g].key)]

Settled(c) == \A g \in Calls : call[g].ctx = c => call[g].pc \notin ControlPC
MayCall(c) == ctx[c] = "live" /\ Settled(c)

CreateInputContext(c) ==
  /\ ctx[c] = "none"
  /\ ctx' = [ctx EXCEPT ![c] = "live"]
  /\ UNCHANGED <<focused, engine, host, bridge, call, keyed>>

\* FocusIn: focused is set and the engine name read under the lock; without
\* a name only the v2 router is told.
FocusIn(g, c) ==
  /\ Idles(g) /\ MayCall(c)
  /\ focused' = focused \union {c}
  /\ late' = [late EXCEPT ![c] = 0]
  /\ IF engine[c] = NoName THEN UNCHANGED call ELSE Enter(g, "inRoute", c, engine[c])
  /\ UNCHANGED <<ctx, engine, host, started, hooked, emitting, keyed>>

FocusOut(g, c) ==
  /\ Idles(g) /\ MayCall(c)
  /\ focused' = focused \ {c}
  /\ IF engine[c] = NoName THEN UNCHANGED call ELSE Enter(g, "outRoute", c, engine[c])
  /\ UNCHANGED <<ctx, engine, host, bridge, keyed>>

SetEngine(g, c, n) ==
  /\ Idles(g) /\ MayCall(c)
  /\ MidFocus \/ c \notin focused
  /\ engine' = [engine EXCEPT ![c] = n]
  /\ IF n = NoName THEN UNCHANGED call ELSE Enter(g, "select", c, n)
  /\ UNCHANGED <<ctx, focused, host, bridge, keyed>>

\* Destroy: ReleaseEngine first; focused and the bridge's hook stay.
Destroy(g, c) ==
  /\ Idles(g) /\ MayCall(c)
  /\ routes' = [routes EXCEPT ![c] = NoHandle]
  /\ Enter(g, "delete", c, NoName)
  /\ UNCHANGED <<client, made, hname, proc, obj, engines, bridge, keyed>>

DestroyDeletes(g) ==
  /\ call[g].pc = "delete"
  /\ ctx' = [ctx EXCEPT ![call[g].ctx] = "destroyed"]
  /\ Leave(g)
  /\ UNCHANGED <<focused, engine, host, bridge, keyed>>

\* ProcessKeyEvent of a key press on a focused context.  Releases and keys
\* of an unfocused one are handed back with no effect.
ProcessKeyEvent(g, c) ==
  /\ Idles(g)
  /\ ctx[c] = "live" /\ c \in focused
  /\ keys < MaxKeys
  /\ keys' = keys + 1
  /\ call' = [call EXCEPT ![g] = InCall("v2", c, NoName, NoHandle, keys + 1)]
  /\ UNCHANGED <<client, host, bridge, asked, answer, acted, gaveUp>>
-----------------------------------------------------------------------------
(* Host: SelectEngine, EngineFor, RegisterComponent, the reaper.           *)

\* A new Engine value for n; p is its process, c its first context if any.
NewHandle(n, p) ==
  /\ made < MaxHandles
  /\ made' = made + 1
  /\ hname' = [hname EXCEPT ![made + 1] = n]
  /\ proc' = [proc EXCEPT ![made + 1] = p]
  /\ engines' = [engines EXCEPT ![n] = made + 1]

\* Mutant: an engine that has not registered yet is spawned again.
SelectRespawnsUnregistered(g) ==
  LET c == call[g].ctx
      n == call[g].name
      bound == routes[c] # NoHandle /\ hname[routes[c]] = n IN
  /\ call[g].pc = "select"
  /\ \/ /\ n \notin Catalog
        /\ Leave(g) /\ UNCHANGED host
     \/ /\ n \in Catalog /\ bound
        /\ Step(g, "setRoute") /\ UNCHANGED host
     \/ /\ n \in Catalog /\ ~bound /\ engines[n] \in obj
        /\ routes' = [routes EXCEPT ![c] = engines[n]]
        /\ Step(g, "setRoute")
        /\ UNCHANGED <<made, hname, proc, obj, engines>>
     \/ /\ n \in Catalog /\ ~bound /\ engines[n] \notin obj
        /\ NewHandle(n, "running")
        /\ routes' = [routes EXCEPT ![c] = made + 1]
        /\ Step(g, "setRoute") /\ UNCHANGED obj
     \/ /\ n \in Catalog /\ ~bound /\ engines[n] = NoHandle
        /\ Leave(g) /\ UNCHANGED host
  /\ UNCHANGED <<client, bridge, keyed>>

\* SelectEngine: one critical section, the spawn included.  An unknown name
\* or a failed spawn is an error and leaves the route as it was.
SelectEngine(g) ==
  LET c == call[g].ctx
      n == call[g].name
      bound == routes[c] # NoHandle /\ hname[routes[c]] = n IN
  /\ call[g].pc = "select"
  /\ \/ /\ n \notin Catalog
        /\ Leave(g) /\ UNCHANGED host
     \/ /\ n \in Catalog /\ bound
        /\ Step(g, "setRoute") /\ UNCHANGED host
     \/ /\ n \in Catalog /\ ~bound /\ engines[n] # NoHandle
        /\ routes' = [routes EXCEPT ![c] = engines[n]]
        /\ Step(g, "setRoute")
        /\ UNCHANGED <<made, hname, proc, obj, engines>>
     \/ /\ n \in Catalog /\ ~bound /\ engines[n] = NoHandle
        /\ NewHandle(n, "running")
        /\ routes' = [routes EXCEPT ![c] = made + 1]
        /\ Step(g, "setRoute") /\ UNCHANGED obj
     \/ /\ n \in Catalog /\ ~bound /\ engines[n] = NoHandle
        /\ Leave(g) /\ UNCHANGED host
  /\ UNCHANGED <<client, bridge, keyed>>

\* Mutant: without a connected engine a focus-out ends early.
ReadRouteEndsFocusOut(g) ==
  LET pc == call[g].pc
      h == routes[call[g].ctx]
      to(p) == call' = [call EXCEPT ![g] =
                          InCall(p, call[g].ctx, call[g].name, h, call[g].key)] IN
  /\ pc \in {"keyRoute", "inRoute", "outRoute", "setRoute"}
  /\ IF h \in obj
     THEN \/ pc = "keyRoute" /\ to("send")
          \/ pc = "inRoute" /\ to("inWait")
          \/ pc = "outRoute" /\ to("outWait")
          \/ pc = "setRoute" /\ to("setWait")
     ELSE \/ pc = "keyRoute" /\ to("session")
          \/ pc = "inRoute" /\ to("hook")
          \/ pc \in {"outRoute", "setRoute"} /\ Leave(g)
  /\ UNCHANGED <<client, host, bridge, keyed>>

\* EngineFor(path) under Host.mu, then Connected(): what each caller does
\* with a connected engine and without one.
ReadRoute(g) ==
  LET pc == call[g].pc
      h == routes[call[g].ctx]
      to(p) == call' = [call EXCEPT ![g] =
                          InCall(p, call[g].ctx, call[g].name, h, call[g].key)] IN
  /\ pc \in {"keyRoute", "inRoute", "outRoute", "setRoute"}
  /\ IF h \in obj
     THEN \/ pc = "keyRoute" /\ to("send")
          \/ pc = "inRoute" /\ to("inWait")
          \/ pc = "outRoute" /\ to("outWait")
          \/ pc = "setRoute" /\ to("setWait")
     ELSE \/ pc = "keyRoute" /\ to("session")
          \/ pc = "inRoute" /\ to("hook")
          \/ pc = "outRoute" /\ to("unhook")
          \/ pc = "setRoute" /\ Leave(g)
  /\ UNCHANGED <<client, host, bridge, keyed>>

\* Engine.FocusIn and FocusOut: a D-Bus call with no deadline, its error
\* ignored.
EngineAnswersFocus(g) ==
  /\ \/ call[g].pc = "inWait" /\ Step(g, "hook")
     \/ call[g].pc = "outWait" /\ Step(g, "unhook")
     \/ call[g].pc = "setWait" /\ Leave(g)
  /\ UNCHANGED <<client, host, bridge, keyed>>

\* RegisterComponent for one name: subscribe (the bus may refuse, which is
\* only logged), then complete or create its Engine value.  Any process on
\* the bus may call it at any time.
RegisterComponent(n) ==
  /\ started' = TRUE \/ UNCHANGED started
  /\ \/ /\ engines[n] # NoHandle
        /\ obj' = obj \union {engines[n]}
        /\ UNCHANGED <<made, hname, proc, engines>>
     \/ /\ engines[n] = NoHandle /\ n \in Catalog
        /\ NewHandle(n, "none")
        /\ obj' = obj \union {made + 1}
     \/ /\ engines[n] = NoHandle /\ n \notin Catalog
        /\ UNCHANGED <<made, hname, proc, obj, engines>>
  /\ UNCHANGED <<client, routes, hooked, emitting, late, call, keyed>>

EngineExits(h) ==
  /\ proc[h] = "running"
  /\ proc' = [proc EXCEPT ![h] = "exited"]
  /\ UNCHANGED <<client, made, hname, obj, engines, routes, bridge, call, keyed>>

\* Mutant: the routes to the engine are left behind.
ReapKeepsRoutes(h) ==
  /\ proc[h] = "exited"
  /\ proc' = [proc EXCEPT ![h] = "reaped"]
  /\ engines' = [engines EXCEPT ![hname[h]] = NoHandle]
  /\ UNCHANGED <<client, made, hname, obj, routes, bridge, call, keyed>>

\* The goroutine of spawnEngine once Wait returns: the entry of that name
\* goes, whatever Engine it holds, and the routes to this Engine.
Reap(h) ==
  /\ proc[h] = "exited"
  /\ proc' = [proc EXCEPT ![h] = "reaped"]
  /\ engines' = [engines EXCEPT ![hname[h]] = NoHandle]
  /\ routes' = [c \in Ctxs |-> IF routes[c] = h THEN NoHandle ELSE routes[c]]
  /\ UNCHANGED <<client, made, hname, obj, bridge, call, keyed>>
-----------------------------------------------------------------------------
(* A keystroke through the three tiers.                                    *)

\* HasActiveGrab and RouteKey of the v2 router.
TryV2(g) ==
  /\ call[g].pc = "v2"
  /\ \/ /\ acted' = [acted EXCEPT ![call[g].key] = @ \union {"v2"}]
        /\ Leave(g)
     \/ Step(g, "keyRoute") /\ UNCHANGED acted
  /\ UNCHANGED <<client, host, bridge, keys, asked, answer, gaveUp>>

SendToEngine(g) ==
  /\ call[g].pc = "send"
  /\ asked' = asked \union {call[g].key}
  /\ Step(g, "await")
  /\ UNCHANGED <<client, host, bridge, keys, answer, acted, gaveUp>>

\* The engine process looks at a key: it consumes it or declines it.
EngineHandlesKey(k) ==
  /\ k \in asked
  /\ asked' = asked \ {k}
  /\ \/ /\ answer' = [answer EXCEPT ![k] = "consumed"]
        /\ acted' = [acted EXCEPT ![k] = @ \union {"engine"}]
     \/ /\ answer' = [answer EXCEPT ![k] = "declined"]
        /\ UNCHANGED acted
  /\ UNCHANGED <<client, host, bridge, call, keys, gaveUp>>

\* Mutant: the answer is not looked at.
EngineRepliesIgnored(g) ==
  /\ call[g].pc = "await"
  /\ answer[call[g].key] # "none"
  /\ Step(g, "session")
  /\ UNCHANGED <<client, host, bridge, keyed>>

EngineReplies(g) ==
  /\ call[g].pc = "await"
  /\ \/ answer[call[g].key] = "consumed" /\ Leave(g)
     \/ answer[call[g].key] = "declined" /\ Step(g, "session")
  /\ UNCHANGED <<client, host, bridge, keyed>>

\* Mutant: the call has no deadline; it only fails when the engine is gone.
WaitsForEngine(g) ==
  /\ call[g].pc = "await"
  /\ proc[call[g].handle] = "reaped"
  /\ gaveUp' = gaveUp \union {call[g].key}
  /\ Step(g, "session")
  /\ UNCHANGED <<client, host, bridge, keys, asked, answer, acted>>

\* The 100 ms deadline or a D-Bus error: fall back to the session.  The
\* engine still has the key.
EngineCallFails(g) ==
  /\ call[g].pc = "await"
  /\ gaveUp' = gaveUp \union {call[g].key}
  /\ Step(g, "session")
  /\ UNCHANGED <<client, host, bridge, keys, asked, answer, acted>>

\* The in-process Session under InputContext.mu; KeySession says when it acts.
RunSession(g) ==
  /\ call[g].pc = "session"
  /\ \/ acted' = [acted EXCEPT ![call[g].key] = @ \union {"session"}]
     \/ UNCHANGED acted
  /\ Leave(g)
  /\ UNCHANGED <<client, host, bridge, keys, asked, answer, gaveUp>>
-----------------------------------------------------------------------------
(* signalBridge.                                                           *)

NotifyFocusIn(g) ==
  /\ call[g].pc = "hook"
  /\ hooked' = [hooked EXCEPT ![call[g].name] = call[g].ctx]
  /\ Leave(g)
  /\ UNCHANGED <<client, host, started, emitting, late, keyed>>

\* Mutant: the hook stays.
NotifyFocusOutKeepsHook(g) ==
  /\ call[g].pc = "unhook"
  /\ Leave(g)
  /\ UNCHANGED <<client, host, bridge, keyed>>

\* NotifyFocusOut drops the name's entry, whichever context it holds.
NotifyFocusOut(g) ==
  /\ call[g].pc = "unhook"
  /\ hooked' = [hooked EXCEPT ![call[g].name] = NoCtx]
  /\ Leave(g)
  /\ UNCHANGED <<client, host, started, emitting, late, keyed>>

\* dispatch takes a CommitText signal an engine has sent, and handle()
\* snapshots the whole table: which engine sent it is not known.
HandleSignal ==
  /\ started /\ emitting = {}
  /\ emitting' = {<<n, hooked[n]>> : n \in {m \in Names : hooked[m] # NoCtx}}
  /\ UNCHANGED <<client, host, started, hooked, late, call, keyed>>

\* A FocusOut of c has not dropped its hook yet, and c has lost the focus
\* with no such call under way.
Leaves(c) == \E g \in Calls : call[g].ctx = c /\ call[g].pc \in LeavingPC
HasLeft(c) == ctx[c] = "live" /\ c \notin focused /\ ~Leaves(c)

\* EmitCommitText on one entry of the snapshot, whatever has become of the
\* context; lookupContext drops a destroyed one.
EmitSignal(p) ==
  /\ p \in emitting
  /\ emitting' = emitting \ {p}
  /\ late' = IF HasLeft(p[2]) THEN [late EXCEPT ![p[2]] = @ + 1] ELSE late
  /\ UNCHANGED <<client, host, started, hooked, call, keyed>>
-----------------------------------------------------------------------------
ClientCall(g) ==
  \E c \in Ctxs :
     \/ FocusIn(g, c)
     \/ FocusOut(g, c)
     \/ \E n \in Names \union {NoName} : SetEngine(g, c, n)
     \/ Destroy(g, c)
     \/ ProcessKeyEvent(g, c)

\* What a goroutine inside a keystroke still has to do.
KeyStep(g) ==
  \/ TryV2(g)
  \/ call[g].pc = "keyRoute" /\ ReadRoute(g)
  \/ SendToEngine(g)
  \/ EngineReplies(g)
  \/ EngineCallFails(g)
  \/ RunSession(g)

\* What a goroutine inside another call still has to do.
ControlStep(g) ==
  \/ call[g].pc # "keyRoute" /\ ReadRoute(g)
  \/ EngineAnswersFocus(g)
  \/ SelectEngine(g)
  \/ NotifyFocusIn(g)
  \/ NotifyFocusOut(g)
  \/ DestroyDeletes(g)

EngineProcess ==
  \/ \E n \in Names : RegisterComponent(n)
  \/ \E h \in Handles : EngineExits(h) \/ Reap(h)
  \/ \E k \in Keys : EngineHandlesKey(k)

Next ==
  \/ \E c \in Ctxs : CreateInputContext(c)
  \/ \E g \in Calls : ClientCall(g) \/ KeyStep(g) \/ ControlStep(g)
  \/ EngineProcess
  \/ HandleSignal
  \/ \E p \in emitting : EmitSignal(p)

Spec == Init /\ [][Next]_vars

\* The goroutine of a keystroke runs on once the v2 router has declined the
\* key: RouteKey sends on a downstream client's socket with no deadline (see
\* V2Bridge), a call to an engine has one.  Nothing is asked of the clients
\* nor of the engines.
FairSpec ==
  Spec /\ \A g \in Calls : WF_vars(call[g].pc # "v2" /\ KeyStep(g))
-----------------------------------------------------------------------------
(* Type invariant. *)
TypeOK ==
  /\ ctx \in [Ctxs -> {"none", "live", "destroyed"}]
  /\ focused \subseteq Ctxs
  /\ engine \in [Ctxs -> Names \union {NoName}]
  /\ made \in 0..MaxHandles
  /\ hname \in [Handles -> Names \union {NoName}]
  /\ proc \in [Handles -> {"none", "running", "exited", "reaped"}]
  /\ obj \subseteq 1..made
  /\ engines \in [Names -> 0..made]
  /\ routes \in [Ctxs -> 0..made]
  /\ started \in BOOLEAN
  /\ hooked \in [Names -> Ctxs \union {NoCtx}]
  /\ emitting \subseteq Names \X Ctxs
  /\ late \in [Ctxs -> Nat]
  /\ call \in [Calls -> Call]
  /\ keys \in 0..MaxKeys
  /\ asked \subseteq 1..keys
  /\ answer \in [Keys -> {"none", "consumed", "declined"}]
  /\ acted \in [Keys -> SUBSET Tiers]
  /\ gaveUp \subseteq 1..keys

(* A route never points at an Engine the host has forgotten: it is the one *)
(* Host.engines has under its name.  The reaper deletes the name's entry   *)
(* without looking which Engine it holds; this is why that is safe.        *)
RoutesAreLive ==
  \A c \in Ctxs : routes[c] # NoHandle =>
    /\ engines[hname[routes[c]]] = routes[c]
    /\ proc[routes[c]] # "reaped"

(* However SelectEngine, RegisterComponent, a crash and the reaper         *)
(* interleave, an engine has at most one process that is not reaped.       *)
OneProcessPerEngine ==
  \A n \in Names :
    Cardinality({h \in Handles : hname[h] = n /\ proc[h] \in {"running", "exited"}})
      <= 1

(* A keystroke is acted on by one tier, unless its engine call timed out   *)
(* or failed.                                                              *)
OneTierPerKey ==
  \A k \in Keys : k \notin gaveUp => Cardinality(acted[k]) <= 1

(* If no client changes the engine of a focused context, what handle()     *)
(* takes for an engine's signal are contexts that, at that moment, have    *)
(* the focus under the name they selected, are being destroyed, or are in  *)
(* a FocusOut that has not returned.  Nothing is said of which engine sent *)
(* the signal (handle does not look) nor of when an emission leaves.       *)
SignalsAreForFocus ==
  [][\A p \in emitting' \ emitting :
       ctx[p[2]] = "live" =>
         (p[2] \in focused /\ engine[p[2]] = p[1]) \/ Leaves(p[2])]_vars

(* FocusOut: "the client should expect no more commits until FocusIn fires *)
(* again".  handle() emits after it has unlocked, so that is not so; what  *)
(* is so is that at most one signal still arrives, the one handle() was    *)
(* taking to the context when the hook was dropped.                        *)
OneLateSignal == \A c \in Ctxs : late[c] <= 1

(* No keystroke the v2 router has declined hangs on an engine that does    *)
(* not answer.                                                             *)
KeyReturns ==
  \A g \in Calls : call[g].pc \in KeyPC \ {"v2"} ~> call[g].pc = "idle"
=============================================================================
