---------------------------- MODULE WaylandClient ----------------------------
(***************************************************************************)
(* The Wayland backend of flexkb-imed: run() of cmd/flexkb-imed/main.go on *)
(* top of internal/wlclient, wlim and wlwire, from Dial to the loop that   *)
(* serves the keyboard grab, and the part of a dry run that probes the     *)
(* compositor.  Two goroutines share the object table: run() creates       *)
(* objects and sends requests, the dispatch loop reads events and hands    *)
(* each to the handler of its object.  The compositor at the other end is  *)
(* external.  What key events do is KeySession's.                          *)
(*                                                                         *)
(* An object is named by the interface it is made for, not by its number:  *)
(* NewID never gives a number twice.                                       *)
(***************************************************************************)
EXTENDS Naturals, SequencesExt

CONSTANT MaxRemovals \* bound on the globals that go away under one client

ASSUME ClientAssumption == MaxRemovals \in Nat

VARIABLES pc,         \* run()'s next step, "ended" when it has returned
          result,     \* what run() returned
          dry,        \* this is the probe of a dry run
          line,       \* the socket
          loop,       \* the dispatch loop; "nil" or "err" waits in dispatchErr
          handlers,   \* Dispatcher.handlers
          globals,    \* registryCollector.globals
          enumerated, \* enumerationDone is closed
          rx, fds,    \* messages and file descriptors read from the socket
          requests,   \* on their way to the compositor
          events,     \* on their way from it
          offered,    \* globals the compositor has
          known,      \* objects it has made for this client
          refused,    \* another input method has the seat
          removals    \* globals it has withdrawn

runVars  == <<pc, result, dry, enumerated>>
loopVars == <<loop, globals, rx, fds>>
compositorVars == <<events, offered, known, refused, removals>>
clientVars == <<runVars, loopVars, handlers, line, requests, compositorVars>>

Globals == {"seat", "manager"}
Objects == {"display", "registry", "callback", "binder", "seat", "manager", "im", "grab"}
Events  == {"globals", "remove", "done", "delete_id", "error", "capabilities",
            "unavailable", "keymap"}

\* A message: the object it is for, the event, and the names it carries.
Message == [to : Objects, ev : Events, of : SUBSET Objects]
Event(o, e) == [to |-> o, ev |-> e, of |-> {}]
Naming(o, e, S) == [to |-> o, ev |-> e, of |-> S]

Requested == <<"registry", "callback", "binder", "seat", "manager", "im", "grab">>

ClientTypeOK ==
  /\ pc \in ToSet(Requested) \union {"off", "dial", "await", "check", "serve", "ended"}
  /\ result \in {"none", "nil", "err"}
  /\ dry \in BOOLEAN
  /\ line \in {"none", "open", "hungup", "reset", "closed"}
  /\ loop \in {"idle", "running", "nil", "err", "taken"}
  /\ handlers \subseteq Objects
  /\ globals \subseteq Globals
  /\ enumerated \in BOOLEAN
  /\ rx \in Seq(Message) /\ events \in Seq(Message)
  /\ fds \in Nat
  /\ requests \in Seq(Objects)
  /\ offered \subseteq Globals
  /\ known \subseteq Objects
  /\ refused \in BOOLEAN
  /\ removals \in 0..MaxRemovals

ClientInit ==
  /\ pc = "off" /\ result = "none" /\ dry = FALSE /\ enumerated = FALSE
  /\ loop = "idle" /\ globals = {} /\ rx = <<>> /\ fds = 0
  /\ handlers = {} /\ line = "none" /\ requests = <<>> /\ events = <<>> /\ known = {}
  /\ offered \in {Globals, {"seat"}}  \* not every compositor has the manager
  /\ refused \in BOOLEAN /\ removals = 0

\* The process is gone, and with it its end of the socket.
Disconnect ==
  /\ pc' = "off" /\ result' = "none" /\ dry' = FALSE /\ enumerated' = FALSE
  /\ loop' = "idle" /\ globals' = {} /\ rx' = <<>> /\ fds' = 0
  /\ handlers' = {} /\ line' = "none" /\ requests' = <<>> /\ events' = <<>> /\ known' = {}
  /\ removals' = 0
  /\ UNCHANGED <<offered, refused>>
-----------------------------------------------------------------------------
(* run() *)

\* The deferred conn.Close.
End(how) == pc' = "ended" /\ result' = how /\ line' = "closed"

\* wl_display is the first object in the table.
ConnectDisplay == handlers' = {"display"}

Dial ==
  /\ pc = "dial"
  /\ \/ /\ line' = "open"
        /\ ConnectDisplay
        /\ pc' = "registry"
        /\ UNCHANGED result
     \/ End("err") /\ UNCHANGED handlers
  /\ UNCHANGED <<dry, enumerated, loopVars, requests, compositorVars>>

After(o) == CASE o = "registry" -> "callback"
              [] o = "callback" -> "await"
              [] o = "binder"   -> "seat"
              [] o = "seat"     -> "manager"
              [] o = "manager"  -> "im"
              [] o = "im"       -> "grab"
              [] OTHER          -> "serve"

\* Mutant: the request is sent first, the handler registered then.
CreateSendsFirst(o) ==
  /\ pc = o
  /\ line = "open"
  /\ IF o \in ToSet(requests) \union known
     THEN /\ handlers' = handlers \union {o}
          /\ pc' = After(o)
          /\ loop' = IF o = "registry" THEN "running" ELSE loop
          /\ UNCHANGED requests
     ELSE requests' = Append(requests, o) /\ UNCHANGED <<pc, loop, handlers>>
  /\ UNCHANGED <<result, dry, enumerated, globals, rx, fds, line, compositorVars>>

(* NewID and Register, then Send: the handler of an object is in the table  *)
(* before its request is written.  The dispatch loop is started once the    *)
(* first request is on its way.                                             *)
Register(o) ==
  /\ pc = o
  /\ o \notin handlers
  /\ handlers' = handlers \union {o}
  /\ UNCHANGED <<runVars, loopVars, line, requests, compositorVars>>

Send(o) ==
  /\ pc = o
  /\ o \in handlers   \* Register has returned
  /\ line = "open"
  /\ requests' = Append(requests, o)
  /\ pc' = After(o)
  /\ loop' = IF o = "registry" THEN "running" ELSE loop
  /\ UNCHANGED <<result, dry, enumerated, globals, rx, fds, handlers, line, compositorVars>>

Create(o) == Register(o) \/ Send(o)

\* run() takes a second registry to bind with.
GetRegistry    == \E o \in {"registry", "binder"} : Create(o)
Sync           == Create("callback")
BindSeat       == Create("seat")
BindManager    == Create("manager")
GetInputMethod == Create("im")
GrabKeyboard   == Create("grab")

(* The compositor has hung up: the write fails.  Bind, GetInputMethod and   *)
(* GrabKeyboard take their handler back, GetRegistry and Sync do not.  A    *)
(* dry run does not look at what Sync returns.                              *)
CreateFails(o) ==
  /\ pc = o
  /\ o \in handlers
  /\ line \in {"hungup", "reset"}
  /\ handlers' = IF o \in {"registry", "callback", "binder"}
                   THEN handlers ELSE handlers \ {o}
  /\ IF dry /\ o = "callback" THEN pc' = "await" /\ UNCHANGED <<result, line>> ELSE End("err")
  /\ UNCHANGED <<dry, enumerated, loopVars, requests, compositorVars>>

\* The select: the enumeration is done, or the loop has ended; if both, either.
Enumerated ==
  /\ pc = "await"
  /\ enumerated
  /\ IF dry THEN End("nil") ELSE pc' = "check" /\ UNCHANGED <<result, line>>
  /\ UNCHANGED <<dry, enumerated, loopVars, handlers, requests, compositorVars>>

\* Mutant: an end without error is not waited for.
OnlyErrorEndsEarly ==
  /\ pc = "await"
  /\ loop = "err"
  /\ loop' = "taken"
  /\ End("err")
  /\ UNCHANGED <<dry, enumerated, globals, rx, fds, handlers, requests, compositorVars>>

LoopEndedEarly ==
  /\ pc = "await"
  /\ loop \in {"nil", "err"}
  /\ loop' = "taken"
  /\ End("err")
  /\ UNCHANGED <<dry, enumerated, globals, rx, fds, handlers, requests, compositorVars>>

imManager == "manager" \in globals
firstSeat == "seat" \in globals

CheckGlobals ==
  /\ pc = "check"
  /\ IF imManager /\ firstSeat THEN pc' = "binder" /\ UNCHANGED <<result, line>>
     ELSE End("err")
  /\ UNCHANGED <<dry, enumerated, loopVars, handlers, requests, compositorVars>>

LoopEnded ==
  /\ pc = "serve"
  /\ loop \in {"nil", "err"}
  /\ loop' = "taken"
  /\ End(loop)
  /\ UNCHANGED <<dry, enumerated, globals, rx, fds, handlers, requests, compositorVars>>

Run ==
  \/ Dial \/ Enumerated \/ LoopEndedEarly \/ CheckGlobals \/ LoopEnded
  \/ GetRegistry \/ Sync \/ BindSeat \/ BindManager \/ GetInputMethod \/ GrabKeyboard
  \/ \E o \in ToSet(Requested) : CreateFails(o)
-----------------------------------------------------------------------------
(* Dispatcher.Run *)

Keymaps(s) == Cardinality({i \in DOMAIN s : s[i].ev = "keymap"})

(* fillRx: one read returns what is there, up to the end of a flush that    *)
(* carries descriptors, and the descriptors with it.                        *)
Fill ==
  /\ loop = "running" /\ rx = <<>> /\ line # "closed"
  /\ \E n \in DOMAIN events :
       /\ n = Len(events) \/ events[n].ev = "keymap"
       /\ rx' = SubSeq(events, 1, n)
       /\ events' = SubSeq(events, n + 1, Len(events))
       /\ fds' = fds + Keymaps(rx')
  /\ UNCHANGED <<runVars, loop, globals, handlers, line, requests, offered, known, refused, removals>>

\* End of file, or run() has closed the socket: both end the loop without
\* error.  A compositor that left requests unread resets the connection.
ReadEnds ==
  /\ loop = "running" /\ rx = <<>>
  /\ line = "closed" \/ (line \in {"hungup", "reset"} /\ events = <<>>)
  /\ loop' = IF line = "reset" THEN "err" ELSE "nil"
  /\ UNCHANGED <<runVars, globals, rx, fds, handlers, line, requests, compositorVars>>

Unregister(S) == handlers' = handlers \ S

\* What the handlers do with an event: m is the message, n its descriptors.
HandleDisplay(m) ==
  /\ m.to = "display"
  /\ IF m.ev = "delete_id" THEN Unregister(m.of) ELSE UNCHANGED handlers
  /\ loop' = IF m.ev = "error" THEN "err" ELSE loop
  /\ UNCHANGED <<enumerated, globals>>

onGlobal(S) == globals' = globals \union S
onGlobalRemove(S) == globals' = globals \ S

HandleRegistry(m) ==
  /\ m.to = "registry"
  /\ IF m.ev = "globals" THEN onGlobal(m.of) ELSE onGlobalRemove(m.of)
  /\ UNCHANGED <<enumerated, loop, handlers>>

HandleCallback(m) ==
  /\ m.to = "callback"
  /\ Unregister({"callback"})
  /\ enumerated' = TRUE
  /\ UNCHANGED <<loop, globals>>

HandleGrab(m, n) ==
  /\ m.to = "grab"
  /\ loop' = IF n = 0 THEN "err" ELSE loop
  /\ UNCHANGED <<enumerated, handlers, globals>>

\* A seat's capabilities are of no use.
HandleSeat(m) ==
  /\ m.to = "seat"
  /\ UNCHANGED <<enumerated, loop, handlers, globals>>

\* run()'s callback for unavailable only logs it; nothing is torn down.
HandleInputMethod(m) ==
  /\ m.to = "im"
  /\ UNCHANGED <<enumerated, loop, handlers, globals>>

(* ReadMessage gives every descriptor read so far to the first message. *)
FdsOf(m) == fds

(* An event for an object without a handler is dropped. *)
Deliver ==
  LET m == Head(rx)
  IN /\ loop = "running" /\ rx # <<>>
     /\ rx' = Tail(rx)
     /\ fds' = fds - FdsOf(m)
     /\ IF m.to \notin handlers
          THEN UNCHANGED <<enumerated, loop, handlers, globals>>
          ELSE \/ HandleDisplay(m) \/ HandleRegistry(m) \/ HandleCallback(m)
               \/ HandleGrab(m, FdsOf(m)) \/ HandleSeat(m) \/ HandleInputMethod(m)
     /\ UNCHANGED <<pc, result, dry, line, requests, compositorVars>>

DispatchLoop == Fill \/ ReadEnds \/ Deliver
-----------------------------------------------------------------------------
(* The compositor.  What it sends to the second registry, whose callbacks  *)
(* are nil, and the grab's repeat_info are left out.                        *)

Reply(o) ==
  CASE o = "registry" -> <<Naming(o, "globals", offered)>>
    [] o = "callback" -> <<Event("callback", "done"), Naming("display", "delete_id", {"callback"})>>
    [] o = "seat" -> <<Event("seat", "capabilities")>>
    [] o = "im" /\ refused -> <<Event("im", "unavailable")>>
    [] o = "grab" /\ ~refused -> <<Event("grab", "keymap")>>
    [] OTHER -> <<>>

AnswerRequest ==
  LET o == Head(requests)
  IN /\ line = "open" /\ requests # <<>>
     /\ o \in Globals => o \in offered
     /\ requests' = Tail(requests)
     /\ events' = events \o Reply(o)
     /\ known' = known \union {o}
     /\ UNCHANGED <<runVars, loopVars, handlers, line, offered, refused, removals>>

\* The socket once the compositor has closed it with s unread, or read and
\* not yet answered.
Gone(s) == IF s = <<>> THEN {"hungup"} ELSE {"hungup", "reset"}

\* Binding a global that is gone is a protocol error.
RefuseBind ==
  LET o == Head(requests)
  IN /\ line = "open" /\ requests # <<>>
     /\ o \in Globals \ offered
     /\ requests' = <<>>
     /\ events' = Append(events, Event("display", "error"))
     /\ line' \in Gone(Tail(requests))
     /\ known' = {}
     /\ UNCHANGED <<runVars, loopVars, handlers, offered, refused, removals>>

HangUp ==
  /\ line = "open"
  /\ line' \in Gone(requests)
  /\ requests' = <<>> /\ known' = {}
  /\ UNCHANGED <<runVars, loopVars, handlers, events, offered, refused, removals>>

\* A seat is unplugged, the input-method service goes away.
GlobalRemoved(g) ==
  /\ line = "open"
  /\ g \in offered
  /\ removals < MaxRemovals
  /\ removals' = removals + 1
  /\ offered' = offered \ {g}
  /\ events' = IF "registry" \in known THEN Append(events, Naming("registry", "remove", {g}))
               ELSE events
  /\ UNCHANGED <<runVars, loopVars, handlers, line, requests, known, refused>>

Compositor ==
  \/ AnswerRequest \/ RefuseBind \/ HangUp
  \/ \E g \in Globals : GlobalRemoved(g)

ClientNext == Run \/ DispatchLoop \/ Compositor
-----------------------------------------------------------------------------
(* Every event on its way is for an object that is in the dispatch table    *)
(* (display.go, GetRegistry: "The dispatch table has the new ID registered  *)
(* before the call returns so subsequent global events route correctly").   *)
EventsFindHandlers ==
  pc \notin {"off", "ended"} => \A m \in ToSet(rx \o events) : m.to \in handlers

(* conn.go, ReadMessage: "Wayland associates received fds with the next     *)
(* message that consumes them": a keymap event comes with its descriptor.   *)
KeymapHasItsFd ==
  loop = "running" /\ rx # <<>> /\ Head(rx).ev = "keymap" => FdsOf(Head(rx)) > 0
=============================================================================
