------------------------------ MODULE V2Bridge ------------------------------
(***************************************************************************)
(* The v2 input-method tier of flexkb-imed: imv2bridge.Bridge together     *)
(* with the server side of zwp_input_method_v2 (wlim/server.go) that       *)
(* drives it and the per-connection dispatch goroutine (wlserver) that     *)
(* runs the request handlers.                                              *)
(*                                                                         *)
(* Two kinds of goroutine act on the bridge.  Each downstream connection   *)
(* has one dispatcher goroutine: h[c] is what is left of the request it is *)
(* handling.  Each D-Bus method call that reaches the bridge runs in a     *)
(* goroutine of its own: call[g].  A step is what happens between two      *)
(* acquisitions of Bridge.mu, or one send on a connection.                 *)
(*                                                                         *)
(* Text is abstract: the string a commit_string request appends is a       *)
(* chunk, a record carrying its arrival number, the IM that sent it, the   *)
(* context that had focus on arrival and whether it crossed a deactivate   *)
(* event.  Concatenation is in arrival order, so a string under            *)
(* construction is a set of chunks.                                        *)
(***************************************************************************)
EXTENDS Naturals, FiniteSets

CONSTANTS
  Conns,       \* downstream connections the listener accepts
  Ims,         \* input_method objects the clients may create
  ImConn,      \* the connection each of them is created on
  Reading,     \* the connections whose client reads its socket
  Ctxs,        \* ibus input contexts (object paths)
  Notifying,   \* bound: the contexts that send content type and text
  Preediting,  \* bound: the input methods that send preedit strings
  Calls,       \* D-Bus method-call goroutines that may be in flight at once
  NoIm,        \* Go nil *ServerInputMethod
  NoCtx,       \* the empty object path
  Bracketed,   \* TRUE: a client sends FocusOut before the next FocusIn
  MaxText,     \* bound: commit_string requests
  MaxGrab,     \* bound: grab_keyboard requests per input method
  MaxSerial    \* bound: no key is routed once keySerial has reached it

ASSUME BridgeAssumption ==
  /\ ImConn \in [Ims -> Conns]
  /\ Reading \subseteq Conns
  /\ NoIm \notin Ims
  /\ NoCtx \notin Ctxs
  /\ Notifying \subseteq Ctxs
  /\ Preediting \subseteq Ims
  /\ Bracketed \in BOOLEAN
  /\ MaxText \in Nat
  /\ MaxGrab \in Nat
  /\ MaxSerial \in Nat

VARIABLES
  conn,          \* state of each connection and of its dispatcher goroutine
  mgrCurrent,    \* ServerManager.current of each connection
  created,       \* Ims a get_input_method request has created
  registered,    \* Ims in their dispatcher's handler table
  grab,          \* ServerInputMethod.grab: number of its grab, 0 for nil
  grabCount,     \* grabs created on each input method so far
  released,      \* grabs <<im, number>> with released = true
  grabTable,     \* grabs <<im, number>> in their dispatcher's handler table
  currentIM, focusedPath, pendingCommit, pendingPreedit, keySerial,
  h,             \* the request each dispatcher goroutine is inside of
  call,          \* the D-Bus call each goroutine is inside of
  active,        \* Ims whose last delivered activate/deactivate was activate
  told,          \* context whose content type / text the IM was last told
  nextText,      \* chunks received so far
  emits          \* how often each chunk was emitted to an application

bridge == <<currentIM, focusedPath, pendingCommit, pendingPreedit, keySerial>>
objects == <<conn, mgrCurrent, created, registered, grab, grabCount, released,
             grabTable>>
wire    == <<active, told>>
history == <<nextText, emits>>
vars == <<bridge, objects, wire, history, h, call>>

GrabIds  == Ims \X (1..MaxGrab)
NoGrab   == 0
Preedits == {"unset", "set"}   \* pendingPreedit.set
Chunk == [n : 1..MaxText, im : Ims, ctx : Ctxs \union {NoCtx}]

HandlerPC == {"idle", "retire", "adopt", "activate", "resetSerial",
              "emitText", "emitPreedit", "emitDelete", "destroyed"}
CallPC == {"idle", "activate", "deactivate", "notify", "grab", "modsSerial",
           "mods", "keySerial", "key"}

\* What is left of a request about im, and of a call that has read im.
Handler ==
  {r \in [pc : HandlerPC, im : Ims \union {NoIm}, prev : Ims \union {NoIm},
          path : Ctxs \union {NoCtx}, text : SUBSET Chunk, preedit : Preedits] :
     r.pc # "idle" => r.im \in Ims}
Call ==
  {r \in [pc : CallPC, im : Ims \union {NoIm}, ctx : Ctxs \union {NoCtx},
          grab : 0..MaxGrab, serial : Nat] :
     r.pc # "idle" => r.im \in Ims}

\* A handler that answers a request about i, and one that emits to path.
Serving(pc, i, prev) ==
  [pc |-> pc, im |-> i, prev |-> prev, path |-> NoCtx, text |-> {},
   preedit |-> "unset"]
Emitting(pc, i, path, text, preedit) ==
  [pc |-> pc, im |-> i, prev |-> NoIm, path |-> path, text |-> text,
   preedit |-> preedit]
IdleHandler == Serving("idle", NoIm, NoIm)

\* A call that has read i (and its grab and a serial), for context p.
InCall(pc, i, p, k, serial) ==
  [pc |-> pc, im |-> i, ctx |-> p, grab |-> k, serial |-> serial]
IdleCall == InCall("idle", NoIm, NoCtx, NoGrab, 0)

Init ==
  /\ conn = [c \in Conns |-> "open"]
  /\ mgrCurrent = [c \in Conns |-> NoIm]
  /\ created = {} /\ registered = {}
  /\ grab = [i \in Ims |-> NoGrab]
  /\ grabCount = [i \in Ims |-> 0]
  /\ released = {} /\ grabTable = {}
  /\ currentIM = NoIm /\ focusedPath = NoCtx
  /\ pendingCommit = {} /\ pendingPreedit = "unset"
  /\ keySerial = 0
  /\ h = [c \in Conns |-> IdleHandler]
  /\ call = [g \in Calls |-> IdleCall]
  /\ active = {} /\ told = [i \in Ims |-> NoCtx]
  /\ nextText = 0
  /\ emits = [n \in 1..MaxText |-> 0]
-----------------------------------------------------------------------------
(* Connections are accepted at the start: one that is accepted later is    *)
(* one that has been silent so far.  A peer that hangs up leaves what it   *)
(* already sent readable (Run still dispatches it); Run then returns.  Run *)
(* also returns when a handler fails, with the socket still open.  Neither *)
(* path tells the manager, the input methods or the bridge: onClose only   *)
(* drops the dispatcher from Listener.active.                              *)

HangUp(c) ==
  /\ conn[c] = "open"
  /\ conn' = [conn EXCEPT ![c] = "hungup"]
  /\ UNCHANGED <<mgrCurrent, created, registered, grab, grabCount, released,
                 grabTable, bridge, wire, history, h, call>>

RunReturns(c) ==
  /\ h[c].pc = "idle"
  /\ \/ conn[c] = "hungup" /\ conn' = [conn EXCEPT ![c] = "ended"]
     \/ conn[c] = "open" /\ conn' = [conn EXCEPT ![c] = "abandoned"]
  /\ UNCHANGED <<mgrCurrent, created, registered, grab, grabCount, released,
                 grabTable, bridge, wire, history, h, call>>

\* Run reads the next request of c only between two handlers.
Dispatches(c) == conn[c] \in {"open", "hungup"} /\ h[c].pc = "idle"
\* A send reaches the client's socket; otherwise WriteMessage fails.
Writable(i) == conn[ImConn[i]] \in {"open", "abandoned"}

\* The bridge goroutine of c is done with its request.
Return(c) == h' = [h EXCEPT ![c] = IdleHandler]
-----------------------------------------------------------------------------
(* Requests on zwp_input_method_manager_v2 and zwp_input_method_v2.        *)

\* get_input_method: Register, swap manager.current.
GetInputMethod(i) ==
  LET c == ImConn[i] IN
  /\ Dispatches(c)
  /\ i \notin created
  /\ created' = created \union {i}
  /\ registered' = registered \union {i}
  /\ mgrCurrent' = [mgrCurrent EXCEPT ![c] = i]
  /\ h' = [h EXCEPT ![c] =
             Serving(IF mgrCurrent[c] = NoIm THEN "adopt" ELSE "retire",
                     i, mgrCurrent[c])]
  /\ UNCHANGED <<conn, grab, grabCount, released, grabTable, bridge, wire,
                 history, call>>

\* Mutant: a destroyed input method stays current.
ForgetsDestroyed(i) == UNCHANGED bridge

\* Bridge.OnInputMethodDestroyed under its lock.
OnInputMethodDestroyed(i) ==
  IF currentIM = i
  THEN /\ currentIM' = NoIm
       /\ pendingCommit' = {}
       /\ pendingPreedit' = "unset"
       /\ UNCHANGED <<focusedPath, keySerial>>
  ELSE UNCHANGED bridge

\* previous.sendUnavailable (the client is told, no state of ours changes)
\* and OnInputMethodDestroyed(previous).
RetirePrevious(c) ==
  /\ h[c].pc = "retire"
  /\ OnInputMethodDestroyed(h[c].prev)
  /\ h' = [h EXCEPT ![c] = Serving("adopt", h[c].im, NoIm)]
  /\ UNCHANGED <<objects, wire, history, call>>

\* Mutant: the focus is not looked at.
CreatedIgnoresFocus(c) ==
  /\ h[c].pc = "adopt"
  /\ currentIM' = h[c].im
  /\ Return(c)
  /\ UNCHANGED <<objects, wire, history, call, focusedPath, pendingCommit,
                 pendingPreedit, keySerial>>

\* OnInputMethodCreated: currentIM = im, and the focus it read decides
\* whether activate is sent after the unlock.
OnInputMethodCreated(c) ==
  /\ h[c].pc = "adopt"
  /\ currentIM' = h[c].im
  /\ IF focusedPath # NoCtx
     THEN h' = [h EXCEPT ![c] = Serving("activate", h[c].im, NoIm)]
     ELSE Return(c)
  /\ UNCHANGED <<objects, wire, history, call, focusedPath, pendingCommit,
                 pendingPreedit, keySerial>>

\* activate + done on the wire; a new activation clears the state of the
\* previous one on the client.
DeliverActivate(i) ==
  IF Writable(i)
  THEN /\ active' = active \union {i}
       /\ told' = [told EXCEPT ![i] = NoCtx]
  ELSE UNCHANGED wire

CreatedSendsActivate(c) ==
  /\ h[c].pc = "activate"
  /\ DeliverActivate(h[c].im)
  /\ Return(c)
  /\ UNCHANGED <<objects, bridge, history, call>>

\* The n-th string, from i, and the context that had focus when it came.
Received(n, i) == [n |-> n, im |-> i, ctx |-> focusedPath]

\* Mutant: the chunk gets the number of the one before it.
CommitStringOffByOne(i) ==
  /\ Dispatches(ImConn[i])
  /\ i \in registered
  /\ nextText < MaxText
  /\ nextText' = nextText + 1
  /\ pendingCommit' = pendingCommit \union
        {Received(nextText, i)}
  /\ UNCHANGED <<objects, wire, h, call, emits, currentIM,
                 focusedPath, pendingPreedit, keySerial>>

\* commit_string: OnCommitString appends.  Any registered input method may
\* send it, the current one or not.
CommitString(i) ==
  /\ Dispatches(ImConn[i])
  /\ i \in registered
  /\ nextText < MaxText
  /\ nextText' = nextText + 1
  /\ pendingCommit' = pendingCommit \union
        {Received(nextText + 1, i)}
  /\ UNCHANGED <<objects, wire, h, call, emits, currentIM,
                 focusedPath, pendingPreedit, keySerial>>

\* set_preedit_string: OnSetPreeditString, the last one of a batch wins.
SetPreeditString(i) ==
  /\ i \in Preediting
  /\ Dispatches(ImConn[i])
  /\ i \in registered
  /\ pendingPreedit' = "set"
  /\ UNCHANGED <<objects, wire, history, h, call, currentIM, focusedPath,
                 pendingCommit, keySerial>>

\* delete_surrounding_text: the path is read under the lock, the signal is
\* emitted after it.
DeleteSurroundingText(i) ==
  /\ Dispatches(ImConn[i])
  /\ i \in registered
  /\ focusedPath # NoCtx
  /\ h' = [h EXCEPT ![ImConn[i]] =
             Emitting("emitDelete", i, focusedPath, {}, "unset")]
  /\ UNCHANGED <<objects, bridge, wire, history, call>>

EmitDelete(c) ==
  /\ h[c].pc = "emitDelete"
  /\ Return(c)
  /\ UNCHANGED <<objects, bridge, wire, history, call>>

\* What flushPending does with a batch: emit `taken`, leave `left` pending.
Flush(i, taken, left) ==
  LET c == ImConn[i] IN
  /\ Dispatches(c)
  /\ i \in registered
  /\ pendingCommit' = left
  /\ pendingPreedit' = "unset"
  /\ h' = IF focusedPath = NoCtx
          THEN h
          ELSE [h EXCEPT ![c] =
                  Emitting("emitText", i, focusedPath, taken, pendingPreedit)]
  /\ UNCHANGED <<objects, wire, history, call, currentIM, focusedPath,
                 keySerial>>

\* Mutant: only the newest string is flushed at a time.
CommitTakesNewest(i) ==
  LET newest == {t \in pendingCommit : \A u \in pendingCommit : u.n <= t.n} IN
  Flush(i, newest, pendingCommit \ newest)

\* commit(serial): flushPending takes the batch and clears it under the lock.
Commit(i) == Flush(i, pendingCommit, {})

\* Mutant: the strings are not forgotten once emitted.
EmitTextKeepsBatch(c) ==
  /\ h[c].pc = "emitText"
  /\ emits' = [n \in 1..MaxText |->
                 IF \E t \in h[c].text : t.n = n THEN emits[n] + 1 ELSE emits[n]]
  /\ h' = [h EXCEPT ![c] =
            Emitting("emitPreedit", h[c].im, h[c].path, h[c].text, h[c].preedit)]
  /\ UNCHANGED <<objects, bridge, wire, call, nextText>>

\* EmitCommitText(path, commit) when the text is not empty.
EmitText(c) ==
  /\ h[c].pc = "emitText"
  /\ emits' = [n \in 1..MaxText |->
                 IF \E t \in h[c].text : t.n = n THEN emits[n] + 1 ELSE emits[n]]
  /\ h' = [h EXCEPT ![c] =
            Emitting("emitPreedit", h[c].im, h[c].path, {}, h[c].preedit)]
  /\ UNCHANGED <<objects, bridge, wire, call, nextText>>

\* EmitHidePreedit or EmitUpdatePreedit when the batch set a preedit.
EmitPreedit(c) ==
  /\ h[c].pc = "emitPreedit"
  /\ Return(c)
  /\ UNCHANGED <<objects, bridge, wire, history, call>>

\* grab_keyboard: Register the grab, replace im.grab (an earlier grab stays
\* registered and unreleased), then OnGrabKeyboard resets keySerial.
GrabKeyboard(i) ==
  LET n == grabCount[i] + 1
      c == ImConn[i] IN
  /\ Dispatches(c)
  /\ i \in registered
  /\ n <= MaxGrab
  /\ grabCount' = [grabCount EXCEPT ![i] = n]
  /\ grab' = [grab EXCEPT ![i] = n]
  /\ grabTable' = grabTable \union {<<i, n>>}
  /\ h' = [h EXCEPT ![c] = Serving("resetSerial", i, NoIm)]
  /\ UNCHANGED <<conn, mgrCurrent, created, registered, released, bridge, wire,
                 history, call>>

OnGrabKeyboard(c) ==
  /\ h[c].pc = "resetSerial"
  /\ keySerial' = 0
  /\ Return(c)
  /\ UNCHANGED <<objects, wire, history, call, currentIM, focusedPath,
                 pendingCommit, pendingPreedit>>

\* keyboard_grab::release.  A goroutine that looks at the grab cannot tell
\* the three locked updates apart: each alone makes it unusable.
Release(k) ==
  LET i == k[1] IN
  /\ Dispatches(ImConn[i])
  /\ k \in grabTable
  /\ released' = released \union {k}
  /\ grabTable' = grabTable \ {k}
  /\ grab' = IF grab[i] = k[2] THEN [grab EXCEPT ![i] = NoGrab] ELSE grab
  /\ UNCHANGED <<conn, mgrCurrent, created, registered, grabCount, bridge,
                 wire, history, h, call>>

\* Mutant: im.grab is not set to nil.
DestroyKeepsGrab(i) ==
  LET c == ImConn[i] IN
  /\ Dispatches(c)
  /\ i \in registered
  /\ registered' = registered \ {i}
  /\ grabTable' = grabTable \ {<<i, grab[i]>>}
  /\ mgrCurrent' = IF mgrCurrent[c] = i
                   THEN [mgrCurrent EXCEPT ![c] = NoIm] ELSE mgrCurrent
  /\ h' = [h EXCEPT ![c] = Serving("destroyed", i, NoIm)]
  /\ UNCHANGED <<conn, created, grab, grabCount, released, bridge, wire,
                 history, call>>

\* destroy: detach drops the grab, unregisters both, clears manager.current ...
Destroy(i) ==
  LET c == ImConn[i] IN
  /\ Dispatches(c)
  /\ i \in registered
  /\ registered' = registered \ {i}
  /\ grab' = [grab EXCEPT ![i] = NoGrab]
  /\ grabTable' = grabTable \ {<<i, grab[i]>>}
  /\ mgrCurrent' = IF mgrCurrent[c] = i
                   THEN [mgrCurrent EXCEPT ![c] = NoIm] ELSE mgrCurrent
  /\ h' = [h EXCEPT ![c] = Serving("destroyed", i, NoIm)]
  /\ UNCHANGED <<conn, created, grabCount, released, bridge, wire, history,
                 call>>

\* ... then calls OnInputMethodDestroyed and OnDestroy (which finds currentIM
\* already different from im).
DestroyCallbacks(c) ==
  /\ h[c].pc = "destroyed"
  /\ OnInputMethodDestroyed(h[c].im)
  /\ Return(c)
  /\ UNCHANGED <<objects, wire, history, call>>
-----------------------------------------------------------------------------
(* Calls from ibus.InputContext (the V2Router interface).                  *)

Done(g) == call' = [call EXCEPT ![g] = IdleCall]

\* Mutant: no activate on focus-in.
NotifyFocusInSilent(g, p) ==
  /\ call[g].pc = "idle"
  /\ Bracketed => focusedPath = NoCtx
  /\ focusedPath' = p
  /\ UNCHANGED <<objects, wire, history, h, call, currentIM, pendingCommit,
                 pendingPreedit, keySerial>>

\* NotifyFocusIn: set the path, read currentIM; activate after the unlock.
NotifyFocusIn(g, p) ==
  /\ call[g].pc = "idle"
  /\ Bracketed => focusedPath = NoCtx
  /\ focusedPath' = p
  /\ call' = IF currentIM = NoIm THEN call
             ELSE [call EXCEPT ![g] =
                     InCall("activate", currentIM, p, NoGrab, 0)]
  /\ UNCHANGED <<objects, wire, history, h, currentIM, pendingCommit,
                 pendingPreedit, keySerial>>

FocusInSendsActivate(g) ==
  /\ call[g].pc = "activate"
  /\ DeliverActivate(call[g].im)
  /\ Done(g)
  /\ UNCHANGED <<objects, bridge, history, h>>

\* Mutant: the batch survives.
NotifyFocusOutKeepsBatch(g, p) ==
  /\ call[g].pc = "idle"
  /\ Bracketed => focusedPath = p
  /\ focusedPath' = IF focusedPath = p THEN NoCtx ELSE focusedPath
  /\ call' = IF currentIM = NoIm THEN call
             ELSE [call EXCEPT ![g] =
                     InCall("deactivate", currentIM, p, NoGrab, 0)]
  /\ UNCHANGED <<objects, wire, h, nextText, emits, currentIM, keySerial,
                 pendingCommit, pendingPreedit>>

\* NotifyFocusOut: the path is cleared only if it is ctxPath; the batch is
\* cleared and deactivate sent whichever context has focus.
NotifyFocusOut(g, p) ==
  /\ call[g].pc = "idle"
  /\ Bracketed => focusedPath = p
  /\ focusedPath' = IF focusedPath = p THEN NoCtx ELSE focusedPath
  /\ pendingCommit' = {}
  /\ pendingPreedit' = "unset"
  /\ call' = IF currentIM = NoIm THEN call
             ELSE [call EXCEPT ![g] =
                     InCall("deactivate", currentIM, p, NoGrab, 0)]
  /\ UNCHANGED <<objects, wire, h, nextText, emits, currentIM, keySerial>>

FocusOutSendsDeactivate(g) ==
  /\ call[g].pc = "deactivate"
  /\ active' = IF Writable(call[g].im) THEN active \ {call[g].im} ELSE active
  /\ Done(g)
  /\ UNCHANGED <<objects, bridge, history, h, told>>

\* NotifyContentType / NotifySurroundingText: dropped unless the context has
\* focus; the events are sent after the unlock.
NotifyContext(g, p) ==
  /\ call[g].pc = "idle"
  /\ currentIM # NoIm
  /\ focusedPath = p
  /\ call' = [call EXCEPT ![g] = InCall("notify", currentIM, p, NoGrab, 0)]
  /\ UNCHANGED <<objects, bridge, wire, history, h>>

SendContext(g) ==
  /\ call[g].pc = "notify"
  /\ told' = IF Writable(call[g].im)
             THEN [told EXCEPT ![call[g].im] = call[g].ctx] ELSE told
  /\ Done(g)
  /\ UNCHANGED <<objects, bridge, history, h, active>>

\* HasActiveGrab and RouteKey: read currentIM under Bridge.mu ...
RouteKey(g) ==
  /\ call[g].pc = "idle"
  /\ keySerial < MaxSerial
  /\ currentIM # NoIm
  /\ call' = [call EXCEPT ![g] = InCall("grab", currentIM, NoCtx, NoGrab, 0)]
  /\ UNCHANGED <<objects, bridge, wire, history, h>>

\* ... then its grab under im.mu; without a usable one the key is not routed.
RouteKeyReadsGrab(g) ==
  LET i == call[g].im IN
  /\ call[g].pc = "grab"
  /\ IF grab[i] # NoGrab /\ <<i, grab[i]>> \notin released
     THEN call' = [call EXCEPT ![g] =
                     InCall("modsSerial", i, NoCtx, grab[i], 0)]
     ELSE Done(g)
  /\ UNCHANGED <<objects, bridge, wire, history, h>>

\* nextSerial() is evaluated before the send takes the connection's lock.
NextSerial(g) ==
  /\ \/ call[g].pc = "modsSerial"
     \/ call[g].pc = "keySerial"
  /\ keySerial' = keySerial + 1
  /\ call' = [call EXCEPT ![g] =
                InCall(IF call[g].pc = "modsSerial" THEN "mods" ELSE "key",
                       call[g].im, NoCtx, call[g].grab, keySerial + 1)]
  /\ UNCHANGED <<objects, wire, history, h, currentIM, focusedPath,
                 pendingCommit, pendingPreedit>>

\* The modifiers event, then the key event on the same grab: a send that
\* fails ends the call.
SendModifiers(g) ==
  /\ call[g].pc = "mods"
  /\ IF Writable(call[g].im)
     THEN call' = [call EXCEPT ![g] =
                     InCall("keySerial", call[g].im, NoCtx, call[g].grab, 0)]
     ELSE Done(g)
  /\ UNCHANGED <<objects, bridge, wire, history, h>>

SendKey(g) ==
  /\ call[g].pc = "key"
  /\ Done(g)
  /\ UNCHANGED <<objects, bridge, wire, history, h>>
-----------------------------------------------------------------------------
\* What the dispatcher goroutine of c still has to do for its request.
HandlerStep(c) ==
  \/ RetirePrevious(c)
  \/ OnInputMethodCreated(c)
  \/ CreatedSendsActivate(c)
  \/ EmitDelete(c)
  \/ EmitText(c)
  \/ EmitPreedit(c)
  \/ OnGrabKeyboard(c)
  \/ DestroyCallbacks(c)

\* What a D-Bus call goroutine still has to do.
CallStep(g) ==
  \/ FocusInSendsActivate(g)
  \/ FocusOutSendsDeactivate(g)
  \/ SendContext(g)
  \/ RouteKeyReadsGrab(g)
  \/ NextSerial(g)
  \/ SendModifiers(g)
  \/ SendKey(g)

\* Requests of the downstream clients.
Request(i) ==
  \/ GetInputMethod(i)
  \/ CommitString(i)
  \/ SetPreeditString(i)
  \/ DeleteSurroundingText(i)
  \/ Commit(i)
  \/ GrabKeyboard(i)
  \/ Destroy(i)

\* Calls of the ibus side.
NewCall(g) ==
  \/ \E p \in Ctxs : NotifyFocusIn(g, p)
  \/ \E p \in Ctxs : NotifyFocusOut(g, p)
  \/ \E p \in Notifying : NotifyContext(g, p)
  \/ RouteKey(g)

Next ==
  \/ \E c \in Conns : HangUp(c) \/ RunReturns(c)
  \/ \E i \in Ims : Request(i)
  \/ \E k \in GrabIds : Release(k)
  \/ \E c \in Conns : HandlerStep(c)
  \/ \E g \in Calls : NewCall(g)
  \/ \E g \in Calls : CallStep(g)

Spec == Init /\ [][Next]_vars

\* The input methods whose client reads what it is sent.
Readers == {i \in Ims : ImConn[i] \in Reading}

\* A goroutine between two critical sections runs on, and Run returns once
\* its socket reports the hang-up.  A send has no deadline: it is owed only
\* to a client that reads, and a goroutine inside any other send (or inside
\* a D-Bus signal an application does not read) may stay there for ever.
Fairness ==
  /\ \A c \in Conns : WF_vars(OnInputMethodCreated(c))
  /\ \A c \in Conns : WF_vars(conn[c] = "hungup" /\ RunReturns(c))
  /\ \A c \in Reading : WF_vars(RetirePrevious(c) \/ CreatedSendsActivate(c))
  /\ \A g \in Calls : WF_vars(call[g].im \in Readers /\ FocusInSendsActivate(g))

FairSpec == Spec /\ Fairness
-----------------------------------------------------------------------------
(* Type invariant. *)
TypeOK ==
  /\ conn \in [Conns -> {"open", "hungup", "ended", "abandoned"}]
  /\ mgrCurrent \in [Conns -> Ims \union {NoIm}]
  /\ created \subseteq Ims
  /\ registered \subseteq created
  /\ grab \in [Ims -> 0..MaxGrab]
  /\ grabCount \in [Ims -> 0..MaxGrab]
  /\ released \subseteq GrabIds
  /\ grabTable \subseteq GrabIds
  /\ currentIM \in Ims \union {NoIm}
  /\ focusedPath \in Ctxs \union {NoCtx}
  /\ pendingCommit \subseteq Chunk
  /\ pendingPreedit \in Preedits
  /\ keySerial \in Nat
  /\ h \in [Conns -> Handler]
  /\ call \in [Calls -> Call]
  /\ active \subseteq Ims
  /\ told \in [Ims -> Ctxs \union {NoCtx}]
  /\ nextText \in 0..MaxText
  /\ emits \in [1..MaxText -> Nat]

Channel == INSTANCE TextChannel WITH
  Lanes <- Conns,
  received <- nextText,
  buffered <- {t.n : t \in pendingCommit},
  taken <- [c \in Conns |-> {t.n : t \in h[c].text}]

(* The bridge implements the abstract text channel: pendingCommit is its   *)
(* buffer, the batches flushPending has taken and not yet emitted are its  *)
(* lanes; focus-out and the destruction of the active IME only discard.    *)
ImplementsTextChannel == Channel!Spec

(* Text a downstream IME commits reaches an application at most once,      *)
(* however the commits of two connections interleave with each other and   *)
(* with focus changes: flushPending takes and clears the batch in one      *)
(* critical section.                                                       *)
AtMostOnce == \A n \in 1..MaxText : emits[n] <= 1

(* As long as a client leaves one context before it enters the next, text  *)
(* received while a context had focus is never emitted to another one.     *)
NoCrossContextText ==
  \A c \in Conns : \A t \in h[c].text : t.ctx \in {h[c].path, NoCtx}

(* The active input method is the one its own connection considers         *)
(* current, except inside the request that is replacing or destroying it:  *)
(* get_input_method and destroy never leave Bridge.currentIM on an object  *)
(* the client has been told is gone.                                       *)
ActiveImIsManagersCurrent ==
  currentIM # NoIm =>
    LET c == ImConn[currentIM] IN
    \/ currentIM \in registered /\ mgrCurrent[c] = currentIM
    \/ h[c].pc = "retire" /\ h[c].prev = currentIM
    \/ h[c].pc = "destroyed" /\ h[c].im = currentIM

(* im.grab never dangles: the grab a key would be sent on is one the       *)
(* client still holds, of an input method it has not destroyed.            *)
GrabIsUsable ==
  \A i \in Ims : grab[i] # NoGrab =>
    /\ i \in registered
    /\ <<i, grab[i]>> \in grabTable \ released

(* Text leaves in the order it arrived: what a batch emits is newer than   *)
(* everything emitted before.  One connection's requests are handled one   *)
(* at a time, so it holds for a single client.                             *)
TextInOrder ==
  [][\A n \in 1..MaxText : emits'[n] # emits[n] =>
       \A m \in 1..MaxText : emits[m] > 0 => m < n]_emits

(* Nobody is inside a request or a call. *)
Quiescent == /\ \A c \in Conns : h[c].pc = "idle"
             /\ \A g \in Calls : call[g].pc = "idle"

(* When the dust settles, the active IME of a focused context has been     *)
(* activated, and the last content type or text it was told is that        *)
(* context's.                                                              *)
FocusedImIsActive ==
  Quiescent /\ currentIM # NoIm /\ focusedPath # NoCtx /\ Writable(currentIM) =>
    /\ currentIM \in active
    /\ told[currentIM] \in {focusedPath, NoCtx}

(* The active IME of a focused context is eventually activated when its    *)
(* client reads its socket, whoever else does not: no goroutine that is    *)
(* stuck in a send to another client stands in the way.  Unless the focus, *)
(* the IME or its connection goes away first.                              *)
FocusReachesIm ==
  \A i \in Readers :
    (currentIM = i /\ focusedPath # NoCtx) ~>
      (i \in active \/ currentIM # i \/ focusedPath = NoCtx \/ ~Writable(i))
=============================================================================
