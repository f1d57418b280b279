------------------------------ MODULE Listener ------------------------------
(***************************************************************************)
(* The side socket of the v2 rebroadcast: wlserver.Listener with its       *)
(* accept loop and its Close, one Dispatcher per connection with its Run   *)
(* goroutine, and the objects every connection begins with: wl_display,    *)
(* wl_registry and the input-method manager that Bridge.onAccept puts      *)
(* there.  What input methods and grabs do is V2Bridge's; here they only   *)
(* take up an object id.                                                   *)
(*                                                                         *)
(* The clients are external.  All have connected at the start: one that    *)
(* connects later is one that is accepted later.  They take the lowest id  *)
(* that is free, as libwayland does, and a careful one waits for delete_id *)
(* before it uses an id again and binds only what it was told of.          *)
(***************************************************************************)
EXTENDS Naturals, SequencesExt, FiniteSetsExt

CONSTANTS
  Clients,
  Careful,      \* the clients that keep to the protocol ...
  Readers,      \* ... and those that stay and go on reading
  Ids,          \* bound: the object ids a client may use; wl_display is 1
  MaxRequests,  \* bound on the requests of all clients
  Room          \* bound: messages a socket holds before a send blocks

DisplayId == 1
Objects == Ids \union {DisplayId}

ASSUME ListenerAssumption ==
  /\ Careful \subseteq Clients /\ Readers \subseteq Clients
  /\ Ids \subseteq Nat \ {0, DisplayId}
  /\ MaxRequests \in Nat
  /\ Room \in Nat \ {0}

VARIABLES
  listening,  \* the listening socket is open
  serve,      \* Serve's next step
  active,     \* Listener.active
  closing,    \* Close's next step
  seized,     \* the dispatchers Close has copied
  sock,       \* the server's end of each connection
  run,        \* each dispatcher's Run
  handlers,   \* Dispatcher.handlers
  out,        \* what the handler Run is inside of still has to send
  peer,       \* the client's end
  requests, events,  \* on their way
  mine,       \* what each client uses its ids for
  told,       \* the registries that told it of the manager: for careful clients ...
  before,     \* ... and the registries it had asked for when it asked for a sync
  sent        \* requests made so far

listenerVars == <<listening, serve, active, closing, seized>>
clientVars   == <<peer, mine, told, before, sent>>
vars == <<listenerVars, sock, run, handlers, out, requests, events, clientVars>>

Kinds    == {"none", "display", "registry", "manager", "im"}

\* bind carries the name of a global; the only one there is has name 1.
Request == [on : Objects, op : 0..1, name : 0..1, new : Objects]
Event   == [ev : {"global", "done", "delete_id"}, id : Objects]

TypeOK ==
  /\ listening \in BOOLEAN
  /\ serve \in {"accept", "returned"}
  /\ active \subseteq Clients /\ seized \subseteq Clients
  /\ closing \in {"none", "sock", "each", "done"}
  /\ sock \in [Clients -> {"queued", "open", "closed"}]
  /\ run \in [Clients -> {"none", "running", "ended", "failed"}]
  /\ handlers \in [Clients -> [Objects -> Kinds]]
  /\ out \in [Clients -> Seq(Event)]
  /\ peer \in [Clients -> {"there", "gone"}]
  /\ requests \in [Clients -> Seq(Request)] /\ events \in [Clients -> Seq(Event)]
  /\ \A c \in Clients : Len(out[c]) <= 2 /\ Len(requests[c]) <= Room /\ Len(events[c]) <= Room
  /\ mine \in [Clients -> [Objects -> {"free", "display", "sync", "synced", "registry",
                                   "manager", "im", "destroyed"}]]
  /\ told \in [Clients -> SUBSET Objects]
  /\ before \in [Clients -> [Objects -> SUBSET Objects]]
  /\ sent \in 0..MaxRequests

NothingMade == [i \in Objects |-> IF i = DisplayId THEN "display" ELSE "free"]

NewDispatcher == [i \in Objects |-> "none"]

Init ==
  /\ listening = TRUE
  /\ serve = "accept"
  /\ active = {} /\ closing = "none" /\ seized = {}
  /\ sock = [c \in Clients |-> "queued"]
  /\ run = [c \in Clients |-> "none"]
  /\ handlers = [c \in Clients |-> NewDispatcher]
  /\ out = [c \in Clients |-> <<>>]
  /\ peer = [c \in Clients |-> "there"]
  /\ requests = [c \in Clients |-> <<>>] /\ events = [c \in Clients |-> <<>>]
  /\ mine = [c \in Clients |-> NothingMade]
  /\ told = [c \in Clients |-> {}]
  /\ before = [c \in Clients |-> [i \in Objects |-> {}]]
  /\ sent = 0
-----------------------------------------------------------------------------
(* Serve *)

\* Bridge.onAccept finds an empty table, so it cannot fail.
OnAccept(c) == handlers' = [handlers EXCEPT ![c][DisplayId] = "display"]

(* One turn of the loop, up to go d.Run(): what becomes of the connection   *)
(* depends on whether it is added to active before or after Close takes its *)
(* copy.                                                                    *)
Accept(c) ==
  /\ serve = "accept" /\ listening
  /\ sock[c] = "queued"
  /\ sock' = [sock EXCEPT ![c] = "open"]
  /\ active' = active \union {c}
  /\ OnAccept(c)
  /\ run' = [run EXCEPT ![c] = "running"]
  /\ UNCHANGED <<listening, serve, closing, seized, out, requests, events, clientVars>>

ServeReturns ==
  /\ serve = "accept" /\ ~listening
  /\ serve' = "returned"
  /\ UNCHANGED <<listening, active, closing, seized, sock, run, handlers,
                 out, requests, events, clientVars>>
-----------------------------------------------------------------------------
(* Close.  A second call returns at once. *)

CloseBegins ==
  /\ closing = "none"
  /\ seized' = active
  /\ closing' = "sock"
  /\ UNCHANGED <<listening, serve, active, sock, run, handlers, out,
                 requests, events, clientVars>>

\* What nobody has accepted is refused.
CloseSocket ==
  /\ closing = "sock"
  /\ listening' = FALSE
  /\ sock' = [c \in Clients |-> IF sock[c] = "queued" THEN "closed" ELSE sock[c]]
  /\ closing' = "each"
  /\ UNCHANGED <<serve, active, seized, run, handlers, out, requests,
                 events, clientVars>>

CloseDispatcher(c) ==
  /\ closing = "each"
  /\ c \in seized /\ sock[c] = "open"
  /\ sock' = [sock EXCEPT ![c] = "closed"]
  /\ UNCHANGED <<listenerVars, run, handlers, out, requests, events, clientVars>>

CloseReturns ==
  /\ closing = "each"
  /\ \A c \in seized : sock[c] = "closed"
  /\ closing' = "done"
  /\ UNCHANGED <<listening, serve, active, seized, sock, run, handlers,
                 out, requests, events, clientVars>>
-----------------------------------------------------------------------------
(* Run *)

Reads(c) == run[c] = "running" /\ out[c] = <<>>

\* onClose; the socket is closed by Close alone.
Ends(c, how) ==
  /\ run' = [run EXCEPT ![c] = how]
  /\ active' = active \ {c}

\* Mutant: Run ends only when the client has hung up.
RunEndsAtEof(c) ==
  /\ Reads(c)
  /\ peer[c] = "gone" /\ requests[c] = <<>>
  /\ Ends(c, "ended")
  /\ UNCHANGED <<listening, serve, closing, seized, sock, handlers, out,
                 requests, events, clientVars>>

(* EOF, or the connection closed under the read. *)
RunEnds(c) ==
  /\ Reads(c)
  /\ sock[c] = "closed" \/ (peer[c] = "gone" /\ requests[c] = <<>>)
  /\ Ends(c, "ended")
  /\ UNCHANGED <<listening, serve, closing, seized, sock, handlers, out,
                 requests, events, clientVars>>

Dispatch(c) == Reads(c) /\ requests[c] # <<>>  \* read in before a close, if closed

Got(c) == Head(requests[c])
Object(c) == handlers[c][Got(c).on]
Took(c) == requests' = [requests EXCEPT ![c] = Tail(@)]

Fails(c) == Ends(c, "failed") /\ UNCHANGED <<handlers, out>>

(* Dispatcher.Register; a number is taken once.                             *)
Register(c, i, kind, answer) ==
  IF handlers[c][i] # "none"
  THEN Fails(c)
  ELSE /\ handlers' = [handlers EXCEPT ![c][i] = kind]
       /\ out' = [out EXCEPT ![c] = answer]
       /\ UNCHANGED <<run, active>>

Sends(c, answer) ==
  out' = [out EXCEPT ![c] = answer] /\ UNCHANGED <<handlers, run, active>>

Global(i) == [ev |-> "global", id |-> i]
Done(i)   == <<[ev |-> "done", id |-> i], [ev |-> "delete_id", id |-> i]>>

\* Mutant: a callback takes its id like any other object.
HandleDisplayRegisters(c) ==
  LET i == Got(c).new IN
  IF Got(c).op = 0 THEN Register(c, i, "callback", Done(i))
  ELSE Register(c, i, "registry", <<Global(i)>>)

\* Mutant: a registry that is asked for again is not filled again.
HandleDisplayOnce(c) ==
  LET i == Got(c).new IN
  IF Got(c).op = 0 THEN Sends(c, Done(i))
  ELSE Register(c, i, "registry",
                IF \E k \in Objects : handlers[c][k] = "registry" THEN <<>> ELSE <<Global(i)>>)

\* attach and emitAllGlobals.
GetRegistry(c) == Register(c, Got(c).new, "registry", <<Global(Got(c).new)>>)

(* Display.HandleRequest: sync, get_registry. *)
HandleDisplay(c) ==
  IF Got(c).op = 0 THEN Sends(c, Done(Got(c).new)) ELSE GetRegistry(c)

(* Registry.HandleRequest: bind, and what AddManagerGlobal does with it.    *)
HandleRegistry(c) ==
  IF Got(c).name # 1
  THEN Fails(c)
  ELSE Register(c, Got(c).new, "manager", <<>>)

Unregister(c, i) ==
  handlers' = [handlers EXCEPT ![c][i] = "none"] /\ UNCHANGED <<out, run, active>>

(* ServerManager.HandleRequest: get_input_method, destroy. *)
HandleManager(c) ==
  IF Got(c).op = 0 THEN Register(c, Got(c).new, "im", <<>>) ELSE Unregister(c, Got(c).on)

Handle(c) ==
  /\ Dispatch(c)
  /\ \/ Object(c) = "display"  /\ HandleDisplay(c)
     \/ Object(c) = "registry" /\ HandleRegistry(c)
     \/ Object(c) = "manager"  /\ HandleManager(c)
     \/ Object(c) = "none"     /\ Sends(c, <<>>)  \* a request for an unknown object is dropped
  /\ Took(c)
  /\ UNCHANGED <<listening, serve, closing, seized, sock, events, clientVars>>

(* Dispatcher.Send: a full socket blocks it, a closed one fails it.  A       *)
(* global that cannot be sent is logged, nothing else.                      *)
Send(c) ==
  /\ out[c] # <<>>
  /\ \/ /\ sock[c] = "open" /\ peer[c] = "there" /\ Len(events[c]) < Room
        /\ events' = [events EXCEPT ![c] = Append(@, Head(out[c]))]
        /\ out' = [out EXCEPT ![c] = Tail(@)]
        /\ UNCHANGED <<run, active>>
     \/ /\ sock[c] = "closed" \/ peer[c] = "gone"
        /\ out' = [out EXCEPT ![c] = <<>>]
        /\ IF Head(out[c]).ev = "global" THEN UNCHANGED <<run, active>> ELSE Ends(c, "failed")
        /\ UNCHANGED events
  /\ UNCHANGED <<listening, serve, closing, seized, sock, handlers, requests, clientVars>>
-----------------------------------------------------------------------------
(* The clients *)

\* The id c allocates next, and for another object any it has not freed yet.
FreeIds(c) ==
  LET free == {i \in Objects : mine[c][i] = "free"}
  IN  {i \in free : \A k \in free : i <= k}
NewIds(c) == FreeIds(c) \union {i \in Objects : c \notin Careful /\ mine[c][i] # "free"}

Made(c, kind) == {i \in Objects : mine[c][i] = kind}

Ask(c, object, op, name, i, use) ==
  /\ requests' = [requests EXCEPT ![c] =
                    Append(@, [on |-> object, op |-> op, name |-> name, new |-> i])]
  /\ mine' = [mine EXCEPT ![c][i] = use]
  /\ before' = [before EXCEPT ![c][i] = IF use = "sync" /\ c \in Careful THEN Made(c, "registry") ELSE {}]
  /\ told' = [told EXCEPT ![c] = @ \ {i}]

\* What c may ask to be destroyed; a careless client also what it has not made.
Destroyable(c) == Made(c, "manager") \union (IF c \in Careful THEN {} ELSE FreeIds(c))

MakeRequest(c) ==
  /\ peer[c] = "there" /\ sock[c] \in {"queued", "open"} /\ sent < MaxRequests
  /\ Len(requests[c]) < Room
  /\ run[c] \notin {"ended", "failed"}  \* later requests have no effect
  /\ sent' = sent + 1
  /\ \/ \E i \in FreeIds(c) : Ask(c, DisplayId, 0, 0, i, "sync")
     \/ \E i \in NewIds(c) : Ask(c, DisplayId, 1, 0, i, "registry")
     \/ \E i \in NewIds(c), r \in Made(c, "registry"), n \in 0..1 :
          /\ c \in Careful => r \in told[c] /\ n = 1
          /\ Ask(c, r, 0, n, i, "manager")
     \/ \E i \in NewIds(c), m \in Made(c, "manager") : Ask(c, m, 0, 0, i, "im")
     \/ \E m \in Destroyable(c) : Ask(c, m, 1, 0, m, "destroyed")
  /\ UNCHANGED <<listenerVars, sock, run, handlers, out, events, peer>>

ReadEvent(c) ==
  /\ peer[c] = "there" /\ events[c] # <<>>
  /\ events' = [events EXCEPT ![c] = Tail(@)]
  /\ LET e == Head(events[c]) IN
       /\ told' = IF e.ev = "global" /\ c \in Careful THEN [told EXCEPT ![c] = @ \union {e.id}] ELSE told
       /\ mine' = [mine EXCEPT ![c][e.id] =
                     CASE e.ev = "done" /\ @ = "sync" -> "synced"
                       [] e.ev = "delete_id" /\ @ = "synced" -> "free"
                       [] OTHER -> @]
       /\ before' = IF e.ev = "delete_id" THEN [before EXCEPT ![c][e.id] = {}] ELSE before
  /\ UNCHANGED <<listenerVars, sock, run, handlers, out, requests, peer, sent>>

HangUp(c) ==
  /\ peer[c] = "there" /\ c \notin Readers
  /\ peer' = [peer EXCEPT ![c] = "gone"]
  /\ events' = [events EXCEPT ![c] = <<>>]
  /\ mine' = [mine EXCEPT ![c] = NothingMade]
  /\ told' = [told EXCEPT ![c] = {}]
  /\ before' = [before EXCEPT ![c] = [i \in Objects |-> {}]]
  /\ UNCHANGED <<listenerVars, sock, run, handlers, out, requests, sent>>
-----------------------------------------------------------------------------
Serve == (\E c \in Clients : Accept(c)) \/ ServeReturns
Close == CloseSocket \/ (\E c \in Clients : CloseDispatcher(c)) \/ CloseReturns
Run(c) == RunEnds(c) \/ Handle(c) \/ Send(c)

Next ==
  \/ Serve \/ Close \/ CloseBegins
  \/ \E c \in Clients :
       Run(c) \/ MakeRequest(c) \/ ReadEvent(c) \/ HangUp(c)

Spec == Init /\ [][Next]_vars

(* The goroutines run.  A reader reads; nothing else is asked of a client.   *)
FairSpec ==
  /\ Spec
  /\ WF_vars(Serve)
  /\ WF_vars(Close)
  /\ \A c \in Clients : WF_vars(Run(c))
  /\ \A c \in Readers : WF_vars(ReadEvent(c))
-----------------------------------------------------------------------------
(* "wl_display: sync -- server replies with done": when a client has the     *)
(* reply, every registry it asked for before has told it of the manager.    *)
(* Downstream input methods bind right after that round trip.               *)
RoundTripSeesGlobals ==
  \A c \in Careful, i \in Ids : mine[c][i] = "synced" => before[c][i] \subseteq told[c]

(* A client that keeps to the protocol and reads its events gets every      *)
(* reply, whatever the others do, until somebody closes the connection: no  *)
(* sequence of its requests, with ids used again after delete_id, ends Run. *)
RoundTripsReturn ==
  \A c \in Careful \cap Readers, i \in Ids :
    mine[c][i] = "sync" ~> mine[c][i] # "sync" \/ closing # "none"

(* "Close stops accepting new connections and tears down all existing ones"  *)
(* ("their Run loops return on EOF, then onClose drops them"): those it has  *)
(* copied, also one that is stuck in a send to a client that does not read.  *)
CloseEndsRuns ==
  closing # "none" ~>
    /\ closing = "done" /\ serve = "returned"
    /\ \A c \in seized : run[c] \in {"ended", "failed"} /\ c \notin active
=============================================================================
