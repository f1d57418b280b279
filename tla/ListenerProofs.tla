--------------------------- MODULE ListenerProofs ---------------------------
(***************************************************************************)
(* Theorems about Listener for any clients, ids, requests and sizes of the *)
(* sockets: its types, and that a careful client's round trip follows what *)
(* its registries are told, whatever the other clients do.                 *)
(***************************************************************************)
EXTENDS Listener, SequenceTheorems, TLAPS

\* The ends of a sequence.
LEMMA Appended ==
  ASSUME NEW S, NEW s \in Seq(S), NEW e \in S
  PROVE  /\ Append(s, e) \in Seq(S) /\ Len(s) \in Nat
         /\ Len(Append(s, e)) = Len(s) + 1
         /\ Append(s, e)[Len(s) + 1] = e
         /\ \A p \in 1..Len(s) : Append(s, e)[p] = s[p]
BY AppendProperties, LenProperties

LEMMA Behead ==
  ASSUME NEW S, NEW s \in Seq(S), s # <<>>
  PROVE  /\ Head(s) \in S /\ Head(s) = s[1]
         /\ Tail(s) \in Seq(S) /\ Len(s) \in Nat /\ Len(s) >= 1
         /\ Len(Tail(s)) = Len(s) - 1
         /\ \A p \in 1..Len(Tail(s)) : Tail(s)[p] = s[p + 1]
BY HeadTailProperties, EmptySeq, LenProperties

LEMMA Answers ==
  ASSUME NEW i \in Objects
  PROVE  /\ Done(i) \in Seq(Event) /\ Len(Done(i)) <= 2
         /\ <<Global(i)>> \in Seq(Event) /\ Len(<<Global(i)>>) <= 2
         /\ <<>> \in Seq(Event) /\ Len(<<>>) <= 2
BY DEF Done, Global, Event
-----------------------------------------------------------------------------
\* What is in the table, and on the way, is of its type.
LEMMA ServeTypes ==
  ASSUME TypeOK, Serve \/ Close \/ CloseBegins
  PROVE  TypeOK'
<1>1. DisplayId \in Objects /\ "display" \in Kinds
  BY DEF Objects, Kinds
<1>2. ASSUME NEW c \in Clients, Accept(c)
      PROVE  TypeOK'
  <2>1. handlers' \in [Clients -> [Objects -> Kinds]]
    BY <1>1, <1>2 DEF TypeOK, Accept, OnAccept
  <2>2. sock' \in [Clients -> {"queued", "open", "closed"}] /\ run' \in [Clients -> {"none", "running", "ended", "failed"}]
    BY <1>2 DEF TypeOK, Accept
  <2> QED
    BY <1>2, <2>1, <2>2 DEF TypeOK, Accept, clientVars
<1>3. CASE ServeReturns
  BY <1>3 DEF TypeOK, ServeReturns, clientVars
<1>4. CASE CloseBegins
  BY <1>4 DEF TypeOK, CloseBegins, clientVars
<1>5. CASE CloseSocket
  BY <1>5 DEF TypeOK, CloseSocket, clientVars
<1>6. ASSUME NEW c \in Clients, CloseDispatcher(c)
      PROVE  TypeOK'
  BY <1>6 DEF TypeOK, CloseDispatcher, clientVars, listenerVars
<1>7. CASE CloseReturns
  BY <1>7 DEF TypeOK, CloseReturns, clientVars
<1> QED
  BY <1>2, <1>3, <1>4, <1>5, <1>6, <1>7 DEF Serve, Close

\* What a handler may change.
HandlerTypes ==
  /\ handlers \in [Clients -> [Objects -> Kinds]]
  /\ out \in [Clients -> Seq(Event)] /\ \A c \in Clients : Len(out[c]) <= 2
  /\ run \in [Clients -> {"none", "running", "ended", "failed"}]
  /\ active \subseteq Clients

LEMMA RegisterTypes ==
  ASSUME TypeOK, NEW c \in Clients, NEW i \in Objects, NEW kind \in Kinds,
         NEW o \in Seq(Event), Len(o) <= 2, Register(c, i, kind, o)
  PROVE  HandlerTypes'
<1>1. CASE Fails(c)
  BY <1>1 DEF Fails, Ends, TypeOK, HandlerTypes
<1>2. CASE /\ handlers' = [handlers EXCEPT ![c][i] = kind]
           /\ out' = [out EXCEPT ![c] = o]
           /\ UNCHANGED <<run, active>>
  BY <1>2 DEF TypeOK, HandlerTypes
<1> QED
  BY <1>1, <1>2 DEF Register

LEMMA SendsTypes ==
  ASSUME TypeOK, NEW c \in Clients, NEW o \in Seq(Event), Len(o) <= 2, Sends(c, o)
  PROVE  HandlerTypes'
BY DEF Sends, TypeOK, HandlerTypes

LEMMA HandleTypes ==
  ASSUME TypeOK, NEW c \in Clients, Handle(c)
  PROVE  TypeOK'
<1>1. Got(c) \in Request /\ requests[c] # <<>> /\ requests[c] \in Seq(Request)
  BY Behead DEF Handle, Dispatch, Got, TypeOK
<1> DEFINE i == Got(c).new
<1>2. i \in Objects /\ Got(c).on \in Objects
  BY <1>1 DEF Request
<1>3. /\ {"registry", "manager", "im", "none"} \subseteq Kinds
      /\ Done(i) \in Seq(Event) /\ Len(Done(i)) <= 2
      /\ <<Global(i)>> \in Seq(Event) /\ Len(<<Global(i)>>) <= 2
      /\ <<>> \in Seq(Event) /\ Len(<<>>) <= 2
  <2> HIDE DEF i
  <2>1. {"registry", "manager", "im", "none"} \subseteq Kinds
    BY DEF Kinds
  <2>2. /\ Done(i) \in Seq(Event) /\ Len(Done(i)) <= 2
        /\ <<Global(i)>> \in Seq(Event) /\ Len(<<Global(i)>>) <= 2
        /\ <<>> \in Seq(Event) /\ Len(<<>>) <= 2
    BY <1>2, Answers, Zenon
  <2> QED
    BY <2>1, <2>2
<1>4. HandlerTypes'
  <2> HIDE DEF i
  <2>1. CASE HandleDisplay(c)
    <3>1. Sends(c, Done(i)) \/ Register(c, i, "registry", <<Global(i)>>)
      BY <2>1 DEF HandleDisplay, GetRegistry, i
    <3> QED
      BY <1>2, <1>3, <3>1, SendsTypes, RegisterTypes
  <2>2. CASE HandleRegistry(c)
    <3>1. Fails(c) \/ Register(c, i, "manager", <<>>)
      BY <2>2 DEF HandleRegistry, i
    <3>2. CASE Fails(c)
      BY <3>2 DEF Fails, Ends, TypeOK, HandlerTypes
    <3> QED
      BY <1>2, <1>3, <3>1, <3>2, RegisterTypes
  <2>3. CASE HandleManager(c)
    <3>1. Register(c, i, "im", <<>>) \/ Unregister(c, Got(c).on)
      BY <2>3 DEF HandleManager, i
    <3>2. CASE Unregister(c, Got(c).on)
      BY <1>2, <1>3, <3>2 DEF Unregister, TypeOK, HandlerTypes
    <3> QED
      BY <1>2, <1>3, <3>1, <3>2, RegisterTypes
  <2>4. CASE Sends(c, <<>>)
    BY <1>3, <2>4, SendsTypes
  <2> QED
    BY <2>1, <2>2, <2>3, <2>4 DEF Handle
<1>5. Tail(requests[c]) \in Seq(Request) /\ Len(Tail(requests[c])) <= Room
  BY <1>1, Behead, ListenerAssumption DEF TypeOK
<1>6. requests' \in [Clients -> Seq(Request)] /\ \A d \in Clients : Len(requests'[d]) <= Room
  BY <1>5 DEF Handle, Took, TypeOK
<1> QED
  BY <1>4, <1>6 DEF HandlerTypes, Handle, TypeOK, clientVars

LEMMA RunTypes ==
  ASSUME TypeOK, NEW c \in Clients, Run(c)
  PROVE  TypeOK'
<1>1. CASE RunEnds(c)
  BY <1>1 DEF RunEnds, Ends, TypeOK, clientVars
<1>2. CASE Handle(c)
  BY <1>2, HandleTypes
<1>3. CASE Send(c)
  <2>1. out[c] # <<>> /\ out[c] \in Seq(Event) /\ events[c] \in Seq(Event)
    BY <1>3 DEF Send, TypeOK
  <2>2. /\ Head(out[c]) \in Event /\ Tail(out[c]) \in Seq(Event) /\ Len(Tail(out[c])) <= 2
        /\ <<>> \in Seq(Event) /\ Len(<<>>) <= 2
    BY <2>1, Behead, EmptySeq DEF TypeOK
  <2>3. out' \in [Clients -> Seq(Event)] /\ \A d \in Clients : Len(out'[d]) <= 2
    <3>1. PICK o \in {Tail(out[c]), <<>>} : out' = [out EXCEPT ![c] = o]
      BY <1>3, Zenon DEF Send
    <3>2. o \in Seq(Event) /\ Len(o) <= 2
      BY <2>2, <3>1
    <3> QED
      BY <3>1, <3>2 DEF TypeOK
  <2>4. events' \in [Clients -> Seq(Event)] /\ \A d \in Clients : Len(events'[d]) <= Room
    <3> DEFINE more == Append(events[c], Head(out[c]))
    <3>1. more \in Seq(Event) /\ Len(more) = Len(events[c]) + 1 /\ Len(events[c]) \in Nat
      BY <2>1, <2>2, Appended
    <3>2. Len(events[c]) < Room => Len(more) <= Room
      BY <3>1, ListenerAssumption
    <3>3. \/ events' = events
          \/ Len(events[c]) < Room /\ events' = [events EXCEPT ![c] = more]
      BY <1>3 DEF Send
    <3>4. CASE Len(events[c]) < Room /\ events' = [events EXCEPT ![c] = more]
      <4> HIDE DEF more
      <4>1. events' \in [Clients -> Seq(Event)]
        BY <3>1, <3>4 DEF TypeOK
      <4>2. \A d \in Clients : Len(events'[d]) <= Room
        BY <3>2, <3>4 DEF TypeOK
      <4> QED
        BY <4>1, <4>2
    <3> QED
      BY <3>3, <3>4 DEF TypeOK
  <2>5. run' \in [Clients -> {"none", "running", "ended", "failed"}] /\ active' \subseteq Clients
    BY <1>3 DEF Send, Ends, TypeOK
  <2> QED
    BY <1>3, <2>3, <2>4, <2>5 DEF Send, TypeOK, clientVars
<1> QED
  BY <1>1, <1>2, <1>3 DEF Run

\* What Ask puts on the wire.
Asked(object, op, name, i) == [on |-> object, op |-> op, name |-> name, new |-> i]

Uses == {"sync", "registry", "manager", "im", "destroyed"}

\* Every request a client makes is one Ask.
LEMMA Asks ==
  ASSUME TypeOK, NEW c \in Clients, MakeRequest(c)
  PROVE  \E object, i \in Objects, op, name \in 0..1, use \in Uses :
           /\ Ask(c, object, op, name, i, use)
           /\ use = "sync" => object = DisplayId /\ op = 0 /\ mine[c][i] = "free"
           /\ use = "registry" => object = DisplayId /\ op = 1
           /\ use \in {"manager", "im", "destroyed"} =>
                \/ mine[c][object] \in {"registry", "manager"}
                \/ mine[c][object] = "free" /\ object = i /\ c \notin Careful
           /\ c \in Careful => mine[c][i] \in {"free", "manager"}
<1> DEFINE Goal(object, i, op, name, use) ==
             /\ Ask(c, object, op, name, i, use)
             /\ use = "sync" => object = DisplayId /\ op = 0 /\ mine[c][i] = "free"
             /\ use = "registry" => object = DisplayId /\ op = 1
             /\ use \in {"manager", "im", "destroyed"} =>
                  \/ mine[c][object] \in {"registry", "manager"}
                  \/ mine[c][object] = "free" /\ object = i /\ c \notin Careful
             /\ c \in Careful => mine[c][i] \in {"free", "manager"}
<1>a. /\ DisplayId \in Objects /\ 0 \in 0..1 /\ 1 \in 0..1
      /\ FreeIds(c) \subseteq Objects /\ NewIds(c) \subseteq Objects
      /\ \A k : Made(c, k) \subseteq Objects
      /\ \A k : \A o \in Made(c, k) : mine[c][o] = k
      /\ \A o \in FreeIds(c) : mine[c][o] = "free"
      /\ c \in Careful => NewIds(c) = FreeIds(c)
  BY DEF Objects, FreeIds, NewIds, Made
<1>1. ASSUME NEW i \in FreeIds(c), Ask(c, DisplayId, 0, 0, i, "sync")
      PROVE  Goal(DisplayId, i, 0, 0, "sync")
  BY <1>a, <1>1
<1>2. ASSUME NEW i \in NewIds(c), Ask(c, DisplayId, 1, 0, i, "registry")
      PROVE  Goal(DisplayId, i, 1, 0, "registry")
  BY <1>a, <1>2
<1>3. ASSUME NEW i \in NewIds(c), NEW r \in Made(c, "registry"), NEW n \in 0..1,
             Ask(c, r, 0, n, i, "manager")
      PROVE  Goal(r, i, 0, n, "manager")
  BY <1>a, <1>3
<1>4. ASSUME NEW i \in NewIds(c), NEW m \in Made(c, "manager"), Ask(c, m, 0, 0, i, "im")
      PROVE  Goal(m, i, 0, 0, "im")
  BY <1>a, <1>4
<1>5. ASSUME NEW m \in Destroyable(c), Ask(c, m, 1, 0, m, "destroyed")
      PROVE  Goal(m, m, 1, 0, "destroyed") /\ m \in Objects
  BY <1>a, <1>5 DEF Destroyable
<1>6. \A k \in {"sync", "registry", "manager", "im", "destroyed"} : k \in Uses
  BY DEF Uses
<1> HIDE DEF Goal
<1>7. \E object, i \in Objects, op, name \in 0..1, use \in Uses : Goal(object, i, op, name, use)
  BY <1>a, <1>1, <1>2, <1>3, <1>4, <1>5, <1>6 DEF MakeRequest
<1> QED
  BY <1>7 DEF Goal

LEMMA ClientTypes ==
  ASSUME TypeOK, NEW c \in Clients, MakeRequest(c) \/ ReadEvent(c) \/ HangUp(c)
  PROVE  TypeOK'
<1>1. CASE MakeRequest(c)
  <2>1. PICK object, i \in Objects, op, name \in 0..1, use \in Uses : Ask(c, object, op, name, i, use)
    BY <1>1, Asks
  <2> DEFINE r == [on |-> object, op |-> op, name |-> name, new |-> i]
  <2>2. r \in Request /\ requests[c] \in Seq(Request)
    BY DEF Request, TypeOK
  <2>3. Append(requests[c], r) \in Seq(Request) /\ Len(Append(requests[c], r)) <= Room
    BY <1>1, <2>2, Appended, ListenerAssumption DEF MakeRequest
  <2>4. requests' = [requests EXCEPT ![c] = Append(requests[c], r)]
    BY <2>1 DEF Ask
  <2> HIDE DEF r
  <2>5. requests' \in [Clients -> Seq(Request)] /\ \A d \in Clients : Len(requests'[d]) <= Room
    BY <2>3, <2>4 DEF TypeOK
  <2>6. mine' \in [Clients -> [Objects -> {"free", "display", "sync", "synced", "registry",
                                           "manager", "im", "destroyed"}]]
    BY <2>1 DEF Ask, Uses, TypeOK
  <2>7. Made(c, "registry") \subseteq Objects
    BY DEF Made
  <2>8. told' \in [Clients -> SUBSET Objects] /\ before' \in [Clients -> [Objects -> SUBSET Objects]]
    BY <2>1, <2>7 DEF Ask, TypeOK
  <2>9. sent' \in 0..MaxRequests
    BY <1>1, ListenerAssumption DEF MakeRequest, TypeOK
  <2> QED
    BY <1>1, <2>5, <2>6, <2>8, <2>9 DEF MakeRequest, TypeOK, listenerVars
<1>2. CASE ReadEvent(c)
  <2> DEFINE e == Head(events[c])
  <2>1. e \in Event /\ Tail(events[c]) \in Seq(Event) /\ Len(Tail(events[c])) <= Room
    BY <1>2, Behead, ListenerAssumption DEF ReadEvent, TypeOK
  <2>2. e.id \in Objects
    BY <2>1 DEF Event
  <2>3. events' = [events EXCEPT ![c] = Tail(events[c])]
    BY <1>2 DEF ReadEvent
  <2>4. events' \in [Clients -> Seq(Event)] /\ \A d \in Clients : Len(events'[d]) <= Room
    BY <2>1, <2>3 DEF TypeOK
  <2>5. mine' \in [Clients -> [Objects -> {"free", "display", "sync", "synced", "registry",
                                           "manager", "im", "destroyed"}]]
    BY <1>2, <2>2 DEF ReadEvent, TypeOK
  <2>6. told' \in [Clients -> SUBSET Objects] /\ before' \in [Clients -> [Objects -> SUBSET Objects]]
    BY <1>2, <2>2 DEF ReadEvent, TypeOK
  <2> QED
    BY <1>2, <2>4, <2>5, <2>6 DEF ReadEvent, TypeOK, listenerVars
<1>3. CASE HangUp(c)
  <2>1. <<>> \in Seq(Event) /\ Len(<<>>) <= Room
    BY ListenerAssumption
  <2>2. events' \in [Clients -> Seq(Event)] /\ \A d \in Clients : Len(events'[d]) <= Room
    BY <1>3, <2>1 DEF HangUp, TypeOK
  <2>3. NothingMade \in [Objects -> {"free", "display"}]
    BY DEF NothingMade
  <2>4. mine' \in [Clients -> [Objects -> {"free", "display", "sync", "synced", "registry",
                                           "manager", "im", "destroyed"}]]
    BY <1>3, <2>3 DEF HangUp, TypeOK
  <2>5. told' \in [Clients -> SUBSET Objects] /\ before' \in [Clients -> [Objects -> SUBSET Objects]]
    BY <1>3 DEF HangUp, TypeOK
  <2>6. peer' \in [Clients -> {"there", "gone"}]
    BY <1>3 DEF HangUp, TypeOK
  <2> QED
    BY <1>3, <2>2, <2>4, <2>5, <2>6 DEF HangUp, TypeOK, listenerVars
<1> QED
  BY <1>1, <1>2, <1>3

LEMMA FirstTypes == Init => TypeOK
<1>1. NewDispatcher \in [Objects -> Kinds] /\ NothingMade \in [Objects -> {"free", "display"}]
  BY DEF NewDispatcher, NothingMade, Kinds
<1>2. <<>> \in Seq(Event) /\ <<>> \in Seq(Request) /\ Len(<<>>) = 0
  OBVIOUS
<1> QED
  BY <1>1, <1>2, ListenerAssumption DEF Init, TypeOK

LEMMA TypesKeep == TypeOK /\ [Next]_vars => TypeOK'
<1>1. TypeOK /\ UNCHANGED vars => TypeOK'
  BY DEF TypeOK, vars, listenerVars, clientVars
<1> QED
  BY <1>1, ServeTypes, RunTypes, ClientTypes DEF Next
-----------------------------------------------------------------------------
(* Why a careful client that is there finds its registries told when its    *)
(* sync returns.  First, nothing but wl_display is wl_display.              *)
Table(c) ==
  /\ sock[c] = "queued" => run[c] = "none" /\ out[c] = <<>>
  /\ \A j \in Objects : handlers[c][j] = "display" => j = DisplayId
  /\ run[c] = "running" => handlers[c][DisplayId] = "display"

(* It remembers registries only, and they stay what they are.               *)
Kept(c) ==
  /\ mine[c][DisplayId] = "display"
  /\ \A i \in Objects : \A k \in before[c][i] : mine[c][k] = "registry"

\* The request for a sync, and the reply to it.
IsSync(r) == r.on = DisplayId /\ r.op = 0
IsDone(e) == e.ev = "done"

(* A sync under way is one the client waits for ...                         *)
Awaited(c) ==
  /\ \A p \in 1..Len(requests[c]) : IsSync(requests[c][p]) => mine[c][requests[c][p].new] = "sync"
  /\ \A p \in 1..Len(out[c]) : IsDone(out[c][p]) => mine[c][out[c][p].id] = "sync"
  /\ \A p \in 1..Len(events[c]) : IsDone(events[c][p]) => mine[c][events[c][p].id] = "sync"

(* ... and there are no two of one id.                                      *)
Once(c) ==
  /\ \A p, q \in 1..Len(requests[c]) :
       IsSync(requests[c][p]) /\ IsSync(requests[c][q]) /\ requests[c][p].new = requests[c][q].new => p = q
  /\ \A p, q \in 1..Len(out[c]) : IsDone(out[c][p]) /\ IsDone(out[c][q]) => p = q
  /\ \A p, q \in 1..Len(events[c]) :
       IsDone(events[c][p]) /\ IsDone(events[c][q]) /\ events[c][p].id = events[c][q].id => p = q
  /\ \A p \in 1..Len(requests[c]), q \in 1..Len(out[c]) :
       IsSync(requests[c][p]) /\ IsDone(out[c][q]) => requests[c][p].new # out[c][q].id
  /\ \A p \in 1..Len(requests[c]), q \in 1..Len(events[c]) :
       IsSync(requests[c][p]) /\ IsDone(events[c][q]) => requests[c][p].new # events[c][q].id
  /\ \A p \in 1..Len(out[c]), q \in 1..Len(events[c]) :
       IsDone(out[c][p]) /\ IsDone(events[c][q]) => out[c][p].id # events[c][q].id

(* Where registry k's global is.                                            *)
Sent(es, k, n)   == \E q \in 1..n : es[q] = Global(k)
Wanted(rs, k, n) == \E q \in 1..n : rs[q].on = DisplayId /\ rs[q].op = 1 /\ rs[q].new = k

Comes(t, es, k) == k \in t \/ Sent(es, k, Len(es))

\* Its requests will still be served.
Served(c) == sock[c] # "closed" /\ run[c] \in {"none", "running"}

(* The globals of the registries a sync was asked after are ahead of it all *)
(* along the way.  A connection that is closed loses what is not sent.      *)
Ahead(c) ==
  /\ \A p \in 1..Len(events[c]) : IsDone(events[c][p]) =>
       \A k \in before[c][events[c][p].id] : k \in told[c] \/ Sent(events[c], k, p - 1)
  /\ sock[c] # "closed" => \A p \in 1..Len(out[c]) : IsDone(out[c][p]) =>
       \A k \in before[c][out[c][p].id] : Comes(told[c], events[c], k)
  /\ Served(c) => \A p \in 1..Len(requests[c]) : IsSync(requests[c][p]) =>
       \A k \in before[c][requests[c][p].new] :
         Comes(told[c], events[c], k) \/ Sent(out[c], k, Len(out[c])) \/ Wanted(requests[c], k, p - 1)
  /\ Served(c) => \A k \in Objects : mine[c][k] = "registry" =>
       Comes(told[c], events[c], k) \/ Sent(out[c], k, Len(out[c])) \/ Wanted(requests[c], k, Len(requests[c]))

Arrived(c) == \A i \in Objects : mine[c][i] = "synced" => before[c][i] \subseteq told[c]

ClientInv(c) ==
  /\ Table(c)
  /\ peer[c] = "there" => Kept(c) /\ Awaited(c) /\ Once(c) /\ Ahead(c) /\ Arrived(c)
  /\ peer[c] = "gone" => mine[c] = NothingMade

\* What another client does, and what closes c's connection or ends its Run.
LEMMA Undisturbed ==
  ASSUME NEW c \in Clients, ClientInv(c),
         sock'[c] \in {sock[c], "closed"},
         run'[c] = run[c] \/ (sock[c] # "queued" /\ run'[c] \in {"ended", "failed"}),
         handlers'[c] = handlers[c], out'[c] = out[c], peer'[c] = peer[c],
         requests'[c] = requests[c], events'[c] = events[c],
         mine'[c] = mine[c], told'[c] = told[c], before'[c] = before[c]
  PROVE  ClientInv(c)'
<1>1. Table(c)'
  BY DEF ClientInv, Table
<1>2. ASSUME peer[c] = "there"
      PROVE  (Kept(c) /\ Awaited(c) /\ Once(c) /\ Arrived(c))'
  <2>1. (Kept(c) /\ Arrived(c))'
    BY <1>2 DEF ClientInv, Kept, Arrived
  <2>2. Awaited(c)'
    BY <1>2 DEF ClientInv, Awaited
  <2>3. Once(c)'
    BY <1>2 DEF ClientInv, Once
  <2> QED
    BY <2>1, <2>2, <2>3
<1>3. ASSUME peer[c] = "there"
      PROVE  Ahead(c)'
  <2>1. Served(c)' => Served(c)
    BY <1>3 DEF ClientInv, Table, Served
  <2> QED
    BY <1>3, <2>1 DEF ClientInv, Ahead, Served
<1> QED
  BY <1>1, <1>2, <1>3 DEF ClientInv

\* onAccept gives c the object its requests begin with.
LEMMA AcceptKeeps ==
  ASSUME TypeOK, NEW c \in Clients, ClientInv(c), Accept(c)
  PROVE  ClientInv(c)'
<1>0. DisplayId \in Objects
  BY DEF Objects
<1>1. /\ sock[c] = "queued" /\ sock'[c] = "open" /\ run'[c] = "running"
      /\ handlers'[c] = [handlers[c] EXCEPT ![DisplayId] = "display"]
      /\ UNCHANGED <<out, requests, events, peer, mine, told, before>>
  BY DEF Accept, OnAccept, TypeOK, clientVars
<1>2. run[c] = "none"
  BY <1>1 DEF ClientInv, Table
<1>3. Table(c)'
  BY <1>0, <1>1 DEF ClientInv, Table, TypeOK
<1>4. ASSUME peer[c] = "there"
      PROVE  (Kept(c) /\ Awaited(c) /\ Once(c) /\ Arrived(c))'
  <2>1. (Kept(c) /\ Arrived(c))'
    BY <1>1, <1>4 DEF ClientInv, Kept, Arrived
  <2>2. Awaited(c)'
    BY <1>1, <1>4 DEF ClientInv, Awaited
  <2>3. Once(c)'
    BY <1>1, <1>4 DEF ClientInv, Once
  <2> QED
    BY <2>1, <2>2, <2>3
<1>5. ASSUME peer[c] = "there"
      PROVE  Ahead(c)'
  <2>1. Served(c)
    BY <1>1, <1>2 DEF Served
  <2> QED
    BY <1>1, <1>5, <2>1 DEF ClientInv, Ahead
<1> QED
  BY <1>1, <1>3, <1>4, <1>5 DEF ClientInv

\* A client that hangs up forgets what it asked for.
LEMMA HangUpKeeps ==
  ASSUME TypeOK, NEW c \in Clients, ClientInv(c), HangUp(c)
  PROVE  ClientInv(c)'
<1>1. peer'[c] = "gone" /\ mine'[c] = NothingMade /\ UNCHANGED <<sock, run, handlers, out>>
  BY DEF HangUp, TypeOK
<1> QED
  BY <1>1 DEF ClientInv, Table

\* What a handler does with c's next request, as far as c's syncs are concerned.
Takes(c) ==
  LET r == requests[c][1]
  IN  \/ IsSync(r) /\ out'[c] = Done(r.new) /\ run'[c] = run[c]
      \/ r.on = DisplayId /\ r.op = 1 /\ out'[c] = <<Global(r.new)>> /\ run'[c] = run[c]
      \/ r.on # DisplayId /\ out'[c] = <<>> /\ run'[c] = run[c]
      \/ ~IsSync(r) /\ out'[c] = <<>> /\ run'[c] = "failed"

LEMMA HandleTakes ==
  ASSUME TypeOK, NEW c \in Clients, ClientInv(c), Handle(c)
  PROVE  Takes(c) /\ Table(c)'
<1>1. /\ requests[c] # <<>> /\ requests[c] \in Seq(Request) /\ out[c] = <<>> /\ run[c] = "running"
      /\ out \in [Clients -> Seq(Event)]
      /\ run \in [Clients -> {"none", "running", "ended", "failed"}]
      /\ handlers \in [Clients -> [Objects -> Kinds]]
  BY DEF Handle, Dispatch, Reads, TypeOK
<1>2. Got(c) = requests[c][1] /\ Got(c) \in Request
  BY <1>1, Behead DEF Got
<1>3. Got(c).on \in Objects /\ Got(c).new \in Objects /\ Got(c).op \in 0..1
  BY <1>2 DEF Request
<1>4. /\ sock'[c] = sock[c] /\ sock[c] # "queued"
      /\ \A j \in Objects : handlers[c][j] = "display" <=> j = DisplayId
      /\ DisplayId \in Objects
  BY <1>1 DEF ClientInv, Table, Handle, Objects
<1>5. Object(c) = "display" <=> Got(c).on = DisplayId
  BY <1>3, <1>4 DEF Object
<1>6. ASSUME NEW kind \in Kinds \ {"display"}, NEW o, Register(c, Got(c).new, kind, o)
      PROVE  /\ Table(c)'
             /\ \/ out'[c] = <<>> /\ run'[c] = "failed"
                \/ out'[c] = o /\ run'[c] = run[c]
  <2>1. CASE Fails(c)
    BY <1>1, <1>4, <2>1 DEF Fails, Ends, Table
  <2>2. CASE handlers[c][Got(c).new] = "none" /\ ~Fails(c)
    BY <1>1, <1>3, <1>4, <1>6, <2>2 DEF Register, Table
  <2> QED
    BY <1>6, <2>1, <2>2 DEF Register
<1>7. CASE Object(c) = "display" /\ HandleDisplay(c)
  <2>1. CASE Got(c).op = 0
    BY <1>1, <1>2, <1>4, <1>5, <1>7, <2>1 DEF HandleDisplay, Sends, Takes, IsSync, Table
  <2>2. CASE Got(c).op # 0
    <3>1. Register(c, Got(c).new, "registry", <<Global(Got(c).new)>>)
      BY <1>7, <2>2 DEF HandleDisplay, GetRegistry
    <3> QED
      BY <1>2, <1>3, <1>5, <1>6, <1>7, <2>2, <3>1 DEF Takes, IsSync, Kinds
  <2> QED
    BY <2>1, <2>2
<1>8. CASE Object(c) = "registry" /\ HandleRegistry(c)
  <2>1. CASE Fails(c)
    BY <1>1, <1>2, <1>4, <1>5, <1>8, <2>1 DEF Fails, Ends, Table, Takes, IsSync
  <2>2. CASE Register(c, Got(c).new, "manager", <<>>)
    BY <1>2, <1>5, <1>6, <1>8, <2>2 DEF Takes, IsSync, Kinds
  <2> QED
    BY <1>8, <2>1, <2>2 DEF HandleRegistry
<1>9. CASE Object(c) = "manager" /\ HandleManager(c)
  <2>1. CASE Unregister(c, Got(c).on)
    BY <1>1, <1>2, <1>3, <1>4, <1>5, <1>9, <2>1 DEF Unregister, Table, Takes
  <2>2. CASE Register(c, Got(c).new, "im", <<>>)
    BY <1>2, <1>5, <1>6, <1>9, <2>2 DEF Takes, IsSync, Kinds
  <2> QED
    BY <1>9, <2>1, <2>2 DEF HandleManager
<1>10. CASE Object(c) = "none" /\ Sends(c, <<>>)
  BY <1>1, <1>2, <1>4, <1>5, <1>10 DEF Sends, Table, Takes
<1> QED
  BY <1>7, <1>8, <1>9, <1>10 DEF Handle

\* The rest of the queue is as it was, one place further on.
LEMMA HandleKeeps ==
  ASSUME TypeOK, NEW c \in Clients, ClientInv(c), Handle(c)
  PROVE  ClientInv(c)'
<1>1. /\ requests[c] # <<>> /\ requests[c] \in Seq(Request) /\ out[c] = <<>> /\ run[c] = "running"
      /\ UNCHANGED <<sock, events, peer, mine, told, before>>
      /\ requests'[c] = Tail(requests[c])
  BY DEF Handle, Dispatch, Reads, Took, TypeOK, clientVars
<1>2. /\ Len(requests[c]) \in Nat /\ Len(requests[c]) >= 1
      /\ Len(requests'[c]) = Len(requests[c]) - 1
      /\ \A p \in 1..Len(requests'[c]) : requests'[c][p] = requests[c][p + 1]
  BY <1>1, Behead
<1>3. Table(c)' /\ Takes(c)
  BY HandleTakes
<1> DEFINE r == requests[c][1]
<1>4. \A p \in 1..Len(out'[c]) : IsDone(out'[c][p]) =>
        p = 1 /\ IsSync(r) /\ out'[c][1].id = r.new
  BY <1>3 DEF Takes, Done, Global, IsDone
<1>5. ASSUME peer[c] = "there"
      PROVE  (Kept(c) /\ Awaited(c) /\ Once(c) /\ Arrived(c))'
  <2>1. (Kept(c) /\ Arrived(c))'
    BY <1>1, <1>5 DEF ClientInv, Kept, Arrived
  <2>2. Awaited(c)'
    BY <1>1, <1>2, <1>4, <1>5 DEF ClientInv, Awaited
  <2>3. Once(c)'
    <3>1. Once(c) /\ 1 \in 1..Len(requests[c])
      BY <1>2, <1>5 DEF ClientInv
    <3>2. \A p \in 1..Len(requests'[c]) :
            /\ p + 1 \in 1..Len(requests[c]) /\ p + 1 # 1
            /\ requests'[c][p] = requests[c][p + 1]
      BY <1>2
    <3>3. ASSUME NEW p \in 1..Len(requests'[c]), IsSync(requests'[c][p])
          PROVE  /\ \A q \in 1..Len(requests'[c]) :
                      IsSync(requests'[c][q]) /\ requests'[c][p].new = requests'[c][q].new => p = q
                 /\ IsSync(r) => requests'[c][p].new # r.new
                 /\ \A q \in 1..Len(events[c]) : IsDone(events[c][q]) => requests'[c][p].new # events[c][q].id
      <4>1. IsSync(requests[c][p + 1]) /\ p + 1 \in 1..Len(requests[c]) /\ p + 1 # 1
        BY <3>2, <3>3
      <4>2. ASSUME NEW q \in 1..Len(requests'[c]), IsSync(requests'[c][q]),
                   requests'[c][p].new = requests'[c][q].new
            PROVE  p = q
        <5>1. p + 1 = q + 1
          BY <3>1, <3>2, <4>1, <4>2 DEF Once
        <5> QED
          BY <5>1
      <4>3. IsSync(r) => requests'[c][p].new # r.new
        BY <3>1, <3>2, <4>1 DEF Once
      <4>4. \A q \in 1..Len(events[c]) : IsDone(events[c][q]) => requests'[c][p].new # events[c][q].id
        BY <3>1, <3>2, <4>1 DEF Once
      <4> QED
        BY <4>2, <4>3, <4>4
    <3>4. IsSync(r) => \A q \in 1..Len(events[c]) : IsDone(events[c][q]) => r.new # events[c][q].id
      BY <3>1 DEF Once
    <3> HIDE DEF r
    <3> QED
      BY <1>1, <1>4, <3>1, <3>3, <3>4 DEF Once
  <2> QED
    BY <2>1, <2>2, <2>3
<1>6. ASSUME peer[c] = "there"
      PROVE  Ahead(c)'
  <2>1. Ahead(c)
    BY <1>6 DEF ClientInv
  <2>2. \A k, n : Sent(events'[c], k, n) <=> Sent(events[c], k, n)
    BY <1>1 DEF Sent
  <2>3. \A k \in Objects : Comes(told'[c], events'[c], k) <=> Comes(told[c], events[c], k)
    BY <1>1, <2>2 DEF Comes
  <2>4. \A k : ~Sent(out[c], k, Len(out[c]))
    BY <1>1 DEF Sent
  <2>5. ASSUME run'[c] = run[c], NEW k \in Objects, NEW n \in 1..Len(requests[c]),
               Wanted(requests[c], k, n)
        PROVE  Sent(out'[c], k, Len(out'[c])) \/ Wanted(requests'[c], k, n - 1)
    <3>1. PICK q \in 1..n : requests[c][q].on = DisplayId /\ requests[c][q].op = 1 /\ requests[c][q].new = k
      BY <2>5 DEF Wanted
    <3>2. CASE q = 1
      <4>1. out'[c] = <<Global(k)>>
        BY <1>1, <1>3, <2>5, <3>1, <3>2 DEF Takes, IsSync
      <4> QED
        BY <4>1 DEF Sent
    <3>3. CASE q # 1
      <4>1. q - 1 \in 1..(n - 1) /\ q - 1 \in 1..Len(requests'[c])
        BY <1>2, <3>1, <3>3
      <4>2. requests'[c][q - 1] = requests[c][q]
        BY <1>2, <4>1
      <4> QED
        BY <3>1, <4>1, <4>2 DEF Wanted
    <3> QED
      BY <3>2, <3>3
  <2>6. \A p \in 1..Len(events'[c]) : IsDone(events'[c][p]) =>
          \A k \in before'[c][events'[c][p].id] : k \in told'[c] \/ Sent(events'[c], k, p - 1)
    BY <1>1, <2>1, <2>2 DEF Ahead
  <2>7. ASSUME sock'[c] # "closed", NEW p \in 1..Len(out'[c]), IsDone(out'[c][p]),
               NEW k \in before'[c][out'[c][p].id]
        PROVE  Comes(told'[c], events'[c], k)
    <3>1. p = 1 /\ IsSync(r) /\ out'[c][1].id = r.new /\ 1 \in 1..Len(requests[c])
      BY <1>2, <1>4, <2>7
    <3>2. Served(c) /\ k \in before[c][r.new]
      BY <1>1, <2>7, <3>1 DEF Served
    <3>3. ~Wanted(requests[c], k, 0)
      BY DEF Wanted
    <3>4. Comes(told[c], events[c], k) \/ Sent(out[c], k, Len(out[c])) \/ Wanted(requests[c], k, 1 - 1)
      BY <2>1, <3>1, <3>2 DEF Ahead
    <3> QED
      BY <1>1, <2>2, <2>4, <3>3, <3>4 DEF Comes
  <2>8. ASSUME Served(c)', NEW p \in 1..Len(requests'[c]), IsSync(requests'[c][p]),
               NEW k \in before'[c][requests'[c][p].new]
        PROVE  Comes(told'[c], events'[c], k) \/ Sent(out'[c], k, Len(out'[c])) \/ Wanted(requests'[c], k, p - 1)
    <3>1. p + 1 \in 1..Len(requests[c]) /\ requests'[c][p] = requests[c][p + 1] /\ p \in Nat
      BY <1>2, <2>8
    <3>2. Served(c) /\ run'[c] = run[c]
      BY <1>1, <1>3, <2>8 DEF Served, Takes
    <3>3. k \in before[c][requests[c][p + 1].new]
      BY <1>1, <2>8, <3>1
    <3>4. Comes(told[c], events[c], k) \/ Sent(out[c], k, Len(out[c])) \/ Wanted(requests[c], k, (p + 1) - 1)
      BY <2>1, <2>8, <3>1, <3>2, <3>3 DEF Ahead
    <3>5. (p + 1) - 1 = p /\ p \in 1..Len(requests[c])
      BY <1>2, <3>1
    <3>6. requests[c][p + 1] \in Request
      BY <1>1, <3>1, ElementOfSeq
    <3>7. k \in Objects
      BY <3>3, <3>6 DEF TypeOK, Request
    <3> QED
      BY <2>3, <2>4, <2>5, <3>2, <3>4, <3>5, <3>7
  <2>9. ASSUME Served(c)', NEW k \in Objects, mine'[c][k] = "registry"
        PROVE  Comes(told'[c], events'[c], k) \/ Sent(out'[c], k, Len(out'[c])) \/ Wanted(requests'[c], k, Len(requests'[c]))
    <3>1. Served(c) /\ run'[c] = run[c]
      BY <1>1, <1>3, <2>9 DEF Served, Takes
    <3>2. Comes(told[c], events[c], k) \/ Sent(out[c], k, Len(out[c])) \/ Wanted(requests[c], k, Len(requests[c]))
      BY <1>1, <2>1, <2>9, <3>1 DEF Ahead
    <3>3. Len(requests[c]) \in 1..Len(requests[c])
      BY <1>2
    <3>4. Wanted(requests[c], k, Len(requests[c])) =>
            Sent(out'[c], k, Len(out'[c])) \/ Wanted(requests'[c], k, Len(requests[c]) - 1)
      BY <2>5, <3>1, <3>3
    <3> QED
      BY <1>2, <2>3, <2>4, <3>2, <3>4
  <2> QED
    BY <2>6, <2>7, <2>8, <2>9 DEF Ahead
<1> QED
  BY <1>1, <1>3, <1>5, <1>6 DEF ClientInv

\* A reply moves on; one that cannot be sent is lost with all that comes after.
LEMMA SendKeeps ==
  ASSUME TypeOK, NEW c \in Clients, ClientInv(c), Send(c)
  PROVE  ClientInv(c)'
<1>1. /\ out[c] # <<>> /\ out[c] \in Seq(Event) /\ events[c] \in Seq(Event)
      /\ UNCHANGED <<sock, handlers, requests, peer, mine, told, before>>
      /\ out \in [Clients -> Seq(Event)] /\ events \in [Clients -> Seq(Event)]
      /\ run \in [Clients -> {"none", "running", "ended", "failed"}]
  BY DEF Send, TypeOK, clientVars
<1> DEFINE e == Head(out[c])
<1>2. /\ e \in Event /\ e = out[c][1] /\ Len(out[c]) \in Nat /\ Len(out[c]) >= 1
      /\ Len(Tail(out[c])) = Len(out[c]) - 1
      /\ \A p \in 1..Len(Tail(out[c])) : Tail(out[c])[p] = out[c][p + 1]
  BY <1>1, Behead
<1>3. /\ Len(events[c]) \in Nat /\ Len(Append(events[c], e)) = Len(events[c]) + 1
      /\ Append(events[c], e)[Len(events[c]) + 1] = e
      /\ \A p \in 1..Len(events[c]) : Append(events[c], e)[p] = events[c][p]
  BY <1>1, <1>2, Appended
<1> HIDE DEF e
<1>4. CASE /\ peer[c] = "there"
           /\ events'[c] = Append(events[c], e)
           /\ out'[c] = Tail(out[c])
           /\ run' = run /\ sock[c] = "open"
  <2>1. Len(events'[c]) = Len(events[c]) + 1 /\ events'[c][Len(events[c]) + 1] = e
    BY <1>3, <1>4
  <2>2. \A p \in 1..Len(events[c]) : events'[c][p] = events[c][p]
    BY <1>3, <1>4
  <2>3. Len(out'[c]) = Len(out[c]) - 1 /\ \A p \in 1..Len(out'[c]) : out'[c][p] = out[c][p + 1]
    BY <1>2, <1>4
  <2>4. Table(c)' /\ (Kept(c) /\ Arrived(c))'
    BY <1>1, <1>4 DEF ClientInv, Table, Kept, Arrived
  <2>5. Awaited(c)'
    BY <1>1, <1>2, <1>3, <1>4, <2>1, <2>2, <2>3 DEF ClientInv, Awaited
  <2>6. Once(c)'
    <3>1. Once(c)
      BY <1>4 DEF ClientInv
    <3>2. \A p \in 1..Len(events'[c]) :
            p \in 1..Len(events[c]) \/ (p = Len(events[c]) + 1 /\ events'[c][p] = out[c][1])
      BY <1>2, <1>3, <2>1
    <3>3. 1 \in 1..Len(out[c]) /\ \A p \in 1..Len(out'[c]) : p + 1 \in 1..Len(out[c]) /\ p + 1 # 1
      BY <1>2, <2>3
    <3>4. \A p, q \in 1..Len(events'[c]) :
            IsDone(events'[c][p]) /\ IsDone(events'[c][q]) /\ events'[c][p].id = events'[c][q].id => p = q
      <4> SUFFICES ASSUME NEW p \in 1..Len(events'[c]), NEW q \in 1..Len(events'[c]),
                          IsDone(events'[c][p]), IsDone(events'[c][q]), events'[c][p].id = events'[c][q].id
                   PROVE  p = q
        OBVIOUS
      <4>1. CASE p \in 1..Len(events[c]) /\ q \in 1..Len(events[c])
        BY <2>2, <3>1, <4>1 DEF Once
      <4>2. CASE p \in 1..Len(events[c]) /\ q \notin 1..Len(events[c])
        <5>1. events'[c][p] = events[c][p] /\ events'[c][q] = out[c][1] /\ 1 \in 1..Len(out[c])
          BY <2>2, <3>2, <3>3, <4>2
        <5> QED
          BY <3>1, <4>2, <5>1 DEF Once
      <4>3. CASE p \notin 1..Len(events[c]) /\ q \in 1..Len(events[c])
        <5>1. events'[c][q] = events[c][q] /\ events'[c][p] = out[c][1] /\ 1 \in 1..Len(out[c])
          BY <2>2, <3>2, <3>3, <4>3
        <5> QED
          BY <3>1, <4>3, <5>1 DEF Once
      <4>4. CASE p \notin 1..Len(events[c]) /\ q \notin 1..Len(events[c])
        BY <3>2, <4>4
      <4> QED
        BY <4>1, <4>2, <4>3, <4>4
    <3>5. ASSUME NEW p \in 1..Len(out'[c]), NEW q \in 1..Len(out'[c]), IsDone(out'[c][p]), IsDone(out'[c][q])
          PROVE  p = q
      <4>1. p + 1 = q + 1
        BY <2>3, <3>1, <3>3, <3>5 DEF Once
      <4> QED
        BY <4>1
    <3>6. ASSUME NEW p \in 1..Len(requests'[c]), NEW q \in 1..Len(out'[c]),
                 IsSync(requests'[c][p]), IsDone(out'[c][q])
          PROVE  requests'[c][p].new # out'[c][q].id
      <4>1. p \in 1..Len(requests[c]) /\ requests'[c][p] = requests[c][p]
        BY <1>1, <3>6
      <4>2. q + 1 \in 1..Len(out[c]) /\ out'[c][q] = out[c][q + 1]
        BY <2>3, <3>3
      <4> QED
        BY <3>1, <3>6, <4>1, <4>2 DEF Once
    <3>7. \A p \in 1..Len(requests'[c]), q \in 1..Len(events'[c]) :
            IsSync(requests'[c][p]) /\ IsDone(events'[c][q]) => requests'[c][p].new # events'[c][q].id
      <4> SUFFICES ASSUME NEW p \in 1..Len(requests[c]), NEW q \in 1..Len(events'[c]),
                          IsSync(requests[c][p]), IsDone(events'[c][q])
                   PROVE  requests[c][p].new # events'[c][q].id
        BY <1>1
      <4>1. CASE q \in 1..Len(events[c])
        <5>1. events'[c][q] = events[c][q]
          BY <2>2, <4>1
        <5> QED
          BY <3>1, <4>1, <5>1 DEF Once
      <4>2. CASE q \notin 1..Len(events[c])
        <5>1. events'[c][q] = out[c][1] /\ 1 \in 1..Len(out[c])
          BY <3>2, <3>3, <4>2
        <5> QED
          BY <3>1, <5>1 DEF Once
      <4> QED
        BY <4>1, <4>2
    <3>8. \A p \in 1..Len(out'[c]), q \in 1..Len(events'[c]) :
            IsDone(out'[c][p]) /\ IsDone(events'[c][q]) => out'[c][p].id # events'[c][q].id
      <4> SUFFICES ASSUME NEW p \in 1..Len(out'[c]), NEW q \in 1..Len(events'[c]),
                          IsDone(out'[c][p]), IsDone(events'[c][q])
                   PROVE  out'[c][p].id # events'[c][q].id
        OBVIOUS
      <4>1. out'[c][p] = out[c][p + 1] /\ p + 1 \in 1..Len(out[c]) /\ p + 1 # 1 /\ 1 \in 1..Len(out[c])
        BY <2>3, <3>3
      <4>2. CASE q \in 1..Len(events[c])
        <5>1. events'[c][q] = events[c][q]
          BY <2>2, <4>2
        <5> QED
          BY <3>1, <4>1, <4>2, <5>1 DEF Once
      <4>3. CASE q \notin 1..Len(events[c])
        <5>1. events'[c][q] = out[c][1]
          BY <3>2, <4>3
        <5> QED
          BY <3>1, <4>1, <5>1 DEF Once
      <4> QED
        BY <4>2, <4>3
    <3> QED
      BY <1>1, <3>1, <3>4, <3>5, <3>6, <3>7, <3>8 DEF Once
  <2>7. Ahead(c)'
    <3>1. Ahead(c)
      BY <1>4 DEF ClientInv
    <3>2. \A k, n : n \in 0..Len(events[c]) => (Sent(events'[c], k, n) <=> Sent(events[c], k, n))
      BY <2>2 DEF Sent
    <3>3. \A k : Comes(told[c], events[c], k) \/ e = Global(k) <=> Comes(told'[c], events'[c], k)
      <4> SUFFICES ASSUME NEW k
                   PROVE  Sent(events[c], k, Len(events[c])) \/ e = Global(k)
                            <=> Sent(events'[c], k, Len(events'[c]))
        BY <1>1 DEF Comes
      <4>1. \A q : q \in 1..Len(events'[c]) <=> q \in 1..Len(events[c]) \/ q = Len(events[c]) + 1
        BY <1>3, <2>1
      <4> QED
        BY <2>1, <2>2, <4>1 DEF Sent
    <3>4. \A k : Sent(out[c], k, Len(out[c])) => e = Global(k) \/ Sent(out'[c], k, Len(out'[c]))
      <4> SUFFICES ASSUME NEW k, NEW q \in 1..Len(out[c]), out[c][q] = Global(k), q # 1
                   PROVE  Sent(out'[c], k, Len(out'[c]))
        BY <1>2 DEF Sent, e
      <4>1. q - 1 \in 1..Len(out'[c]) /\ out'[c][q - 1] = out[c][(q - 1) + 1] /\ (q - 1) + 1 = q
        BY <1>2, <2>3
      <4> QED
        BY <4>1 DEF Sent
    <3>5. ASSUME NEW p \in 1..Len(events'[c]), IsDone(events'[c][p]),
                 NEW k \in before'[c][events'[c][p].id]
          PROVE  k \in told'[c] \/ Sent(events'[c], k, p - 1)
      <4>1. CASE p \in 1..Len(events[c])
        <5>1. k \in told[c] \/ Sent(events[c], k, p - 1)
          BY <1>1, <2>2, <3>1, <3>5, <4>1 DEF Ahead
        <5>2. p - 1 \in 0..Len(events[c])
          BY <1>3, <4>1
        <5> QED
          BY <1>1, <3>2, <5>1, <5>2
      <4>2. CASE p = Len(events[c]) + 1
        <5>1. events'[c][p] = out[c][1] /\ 1 \in 1..Len(out[c])
          BY <1>2, <2>1, <4>2
        <5>2. Comes(told[c], events[c], k)
          BY <1>1, <1>4, <3>1, <3>5, <5>1 DEF Ahead
        <5>3. p - 1 = Len(events[c]) /\ Len(events[c]) \in 0..Len(events[c])
          BY <1>3, <4>2
        <5> QED
          BY <1>1, <3>2, <5>2, <5>3 DEF Comes
      <4> QED
        BY <1>3, <2>1, <4>1, <4>2
    <3>6. ASSUME NEW p \in 1..Len(out'[c]), IsDone(out'[c][p]), NEW k \in before'[c][out'[c][p].id]
          PROVE  Comes(told'[c], events'[c], k)
      <4>1. p + 1 \in 1..Len(out[c]) /\ out'[c][p] = out[c][p + 1]
        BY <1>2, <2>3
      <4>2. Comes(told[c], events[c], k)
        BY <1>1, <1>4, <3>1, <3>6, <4>1 DEF Ahead
      <4> QED
        BY <3>3, <4>2
    <3>7. Served(c)' <=> Served(c)
      BY <1>1, <1>4 DEF Served
    <3>8. Served(c)' => \A p \in 1..Len(requests'[c]) : IsSync(requests'[c][p]) =>
            \A k \in before'[c][requests'[c][p].new] :
              Comes(told'[c], events'[c], k) \/ Sent(out'[c], k, Len(out'[c])) \/ Wanted(requests'[c], k, p - 1)
      BY <1>1, <3>1, <3>3, <3>4, <3>7 DEF Ahead
    <3>9. Served(c)' => \A k \in Objects : mine'[c][k] = "registry" =>
            Comes(told'[c], events'[c], k) \/ Sent(out'[c], k, Len(out'[c])) \/ Wanted(requests'[c], k, Len(requests'[c]))
      BY <1>1, <3>1, <3>3, <3>4, <3>7 DEF Ahead
    <3> QED
      BY <3>5, <3>6, <3>8, <3>9 DEF Ahead
  <2> QED
    BY <1>1, <1>4, <2>4, <2>5, <2>6, <2>7 DEF ClientInv
<1>5. CASE /\ sock[c] = "closed" \/ peer[c] = "gone"
           /\ out'[c] = <<>> /\ events' = events
           /\ run'[c] = run[c] \/ run'[c] = "failed"
  <2>1. Table(c)'
    BY <1>1, <1>5 DEF ClientInv, Table
  <2>2. Len(out'[c]) = 0
    BY <1>5
  <2>3. ASSUME peer[c] = "there"
        PROVE  (Kept(c) /\ Arrived(c))'
    BY <1>1, <2>3 DEF ClientInv, Kept, Arrived
  <2>4. ASSUME peer[c] = "there"
        PROVE  Awaited(c)'
    BY <1>1, <1>5, <2>2, <2>4 DEF ClientInv, Awaited
  <2>5. ASSUME peer[c] = "there"
        PROVE  Once(c)'
    <3>1. Once(c)
      BY <2>5, <1>1 DEF ClientInv
    <3>2. \A q : q \notin 1..Len(out'[c])
      BY <2>2
    <3> QED
      BY <1>1, <1>5, <3>1, <3>2 DEF Once
  <2>6. ASSUME peer[c] = "there"
        PROVE  Ahead(c)'
    BY <1>1, <1>5, <2>6 DEF ClientInv, Ahead, Served
  <2> QED
    BY <1>1, <2>1, <2>3, <2>4, <2>5, <2>6 DEF ClientInv
<1> QED
  BY <1>1, <1>4, <1>5 DEF Send, Ends, e

\* The client takes an event in.
LEMMA ReadKeeps ==
  ASSUME TypeOK, NEW c \in Clients, c \in Careful, ClientInv(c), ReadEvent(c)
  PROVE  ClientInv(c)'
<1> DEFINE e == Head(events[c])
<1>1. /\ events[c] # <<>> /\ events[c] \in Seq(Event) /\ peer[c] = "there"
      /\ UNCHANGED <<sock, run, handlers, out, requests, peer>>
      /\ events'[c] = Tail(events[c])
      /\ told[c] \subseteq Objects
  BY DEF ReadEvent, TypeOK, listenerVars
<1>2. /\ e \in Event /\ e = events[c][1] /\ Len(events[c]) \in Nat /\ Len(events[c]) >= 1
      /\ Len(events'[c]) = Len(events[c]) - 1
      /\ \A p \in 1..Len(events'[c]) : events'[c][p] = events[c][p + 1]
  BY <1>1, Behead
<1>3. e.id \in Objects /\ 1 \in 1..Len(events[c])
  BY <1>2 DEF Event
<1>4. /\ told'[c] = IF e.ev = "global" THEN told[c] \union {e.id} ELSE told[c]
      /\ \A i \in Objects \ {e.id} : mine'[c][i] = mine[c][i] /\ before'[c][i] = before[c][i]
      /\ mine'[c][e.id] = CASE e.ev = "done" /\ mine[c][e.id] = "sync" -> "synced"
                             [] e.ev = "delete_id" /\ mine[c][e.id] = "synced" -> "free"
                             [] OTHER -> mine[c][e.id]
      /\ before'[c][e.id] = IF e.ev = "delete_id" THEN {} ELSE before[c][e.id]
  BY <1>3 DEF ReadEvent, TypeOK
<1>5. Kept(c) /\ Awaited(c) /\ Once(c) /\ Ahead(c) /\ Arrived(c)
  BY <1>1 DEF ClientInv
<1>6. \A i \in Objects : before'[c][i] \subseteq before[c][i] /\ before[c][i] \subseteq Objects
  BY <1>3, <1>4 DEF TypeOK
<1>7. \A k \in Objects : mine[c][k] = "registry" <=> mine'[c][k] = "registry"
  BY <1>3, <1>4
<1> HIDE DEF e
<1>8. Table(c)'
  BY <1>1 DEF ClientInv, Table
<1>9. Kept(c)'
  <2>1. mine'[c][DisplayId] = "display"
    BY <1>3, <1>4, <1>5 DEF Kept, Objects
  <2> QED
    BY <1>5, <1>6, <1>7, <2>1 DEF Kept
<1>10. \A p \in 1..Len(events'[c]) : p + 1 \in 1..Len(events[c]) /\ p + 1 # 1
  BY <1>2
<1>11. \A i \in Objects : mine[c][i] = "sync" /\ mine'[c][i] # "sync" => i = e.id /\ IsDone(e)
  BY <1>4 DEF IsDone
<1>12. \A p \in 1..Len(requests[c]) : requests[c][p].new \in Objects
  <2>1. \A p \in 1..Len(requests[c]) : requests[c][p] \in Request
    BY ElementOfSeq DEF TypeOK
  <2> QED
    BY <2>1 DEF Request
<1>13. /\ \A p \in 1..Len(out[c]) : out[c][p].id \in Objects
       /\ \A p \in 1..Len(events[c]) : events[c][p].id \in Objects
  <2>1. /\ \A p \in 1..Len(out[c]) : out[c][p] \in Event
        /\ \A p \in 1..Len(events[c]) : events[c][p] \in Event
    BY ElementOfSeq DEF TypeOK
  <2> QED
    BY <2>1 DEF Event
<1>14. Awaited(c)'
  <2>1. \A p \in 1..Len(requests'[c]) : IsSync(requests'[c][p]) => mine'[c][requests'[c][p].new] = "sync"
    BY <1>1, <1>2, <1>3, <1>5, <1>11, <1>12 DEF Awaited, Once
  <2>2. \A p \in 1..Len(out'[c]) : IsDone(out'[c][p]) => mine'[c][out'[c][p].id] = "sync"
    BY <1>1, <1>2, <1>3, <1>5, <1>11, <1>13 DEF Awaited, Once
  <2>3. \A p \in 1..Len(events'[c]) : IsDone(events'[c][p]) => mine'[c][events'[c][p].id] = "sync"
    <3> SUFFICES ASSUME NEW p \in 1..Len(events'[c]), IsDone(events'[c][p])
                 PROVE  mine'[c][events'[c][p].id] = "sync"
      OBVIOUS
    <3>1. events'[c][p] = events[c][p + 1] /\ p + 1 \in 1..Len(events[c]) /\ p + 1 # 1
      BY <1>2, <1>10
    <3>2. mine[c][events[c][p + 1].id] = "sync" /\ events[c][p + 1].id \in Objects
      BY <1>5, <1>13, <3>1 DEF Awaited
    <3>3. IsDone(e) => events[c][p + 1].id # e.id
      BY <1>2, <1>3, <1>5, <3>1 DEF Once
    <3> QED
      BY <1>11, <3>1, <3>2, <3>3
  <2> QED
    BY <2>1, <2>2, <2>3 DEF Awaited
<1>15. Once(c)'
  <2>1. ASSUME NEW p \in 1..Len(events'[c]), NEW q \in 1..Len(events'[c]),
               IsDone(events'[c][p]), IsDone(events'[c][q]), events'[c][p].id = events'[c][q].id
        PROVE  p = q
    <3>1. /\ p + 1 \in 1..Len(events[c]) /\ events'[c][p] = events[c][p + 1]
          /\ q + 1 \in 1..Len(events[c]) /\ events'[c][q] = events[c][q + 1]
      BY <1>2, <1>10
    <3>2. p + 1 = q + 1
      BY <1>5, <2>1, <3>1 DEF Once
    <3> QED
      BY <3>2
  <2>2. ASSUME NEW p \in 1..Len(events'[c]), IsDone(events'[c][p])
        PROVE  /\ \A q \in 1..Len(requests'[c]) : IsSync(requests'[c][q]) => requests'[c][q].new # events'[c][p].id
               /\ \A q \in 1..Len(out'[c]) : IsDone(out'[c][q]) => out'[c][q].id # events'[c][p].id
    <3>1. p + 1 \in 1..Len(events[c]) /\ events'[c][p] = events[c][p + 1]
      BY <1>2, <1>10
    <3> QED
      BY <1>1, <1>5, <2>2, <3>1 DEF Once
  <2> QED
    BY <1>1, <1>5, <2>1, <2>2 DEF Once
<1>16. \A k \in Objects : \A n \in 1..Len(events[c]) :
         k \in told[c] \/ Sent(events[c], k, n) => k \in told'[c] \/ Sent(events'[c], k, n - 1)
  <2> SUFFICES ASSUME NEW k \in Objects, NEW n \in 1..Len(events[c]), k \notin told[c],
                      NEW q \in 1..n, events[c][q] = Global(k)
               PROVE  k \in told'[c] \/ Sent(events'[c], k, n - 1)
    BY <1>4 DEF Sent
  <2>1. CASE q = 1
    BY <1>2, <1>4, <2>1 DEF Global
  <2>2. CASE q # 1
    <3>1. q - 1 \in 1..(n - 1) /\ q - 1 \in 1..Len(events'[c]) /\ (q - 1) + 1 = q
      BY <1>2, <2>2
    <3> QED
      BY <1>2, <3>1 DEF Sent
  <2> QED
    BY <2>1, <2>2
<1>17. \A k \in Objects : Comes(told[c], events[c], k) => Comes(told'[c], events'[c], k)
  BY <1>2, <1>3, <1>16 DEF Comes
<1>18. Ahead(c)'
  <2>1. ASSUME NEW p \in 1..Len(events'[c]), IsDone(events'[c][p]),
               NEW k \in before'[c][events'[c][p].id]
        PROVE  k \in told'[c] \/ Sent(events'[c], k, p - 1)
    <3>1. p + 1 \in 1..Len(events[c]) /\ events'[c][p] = events[c][p + 1] /\ (p + 1) - 1 = p
      BY <1>2, <1>10
    <3>2. k \in before[c][events[c][p + 1].id] /\ k \in Objects
      BY <1>6, <1>13, <2>1, <3>1
    <3>3. k \in told[c] \/ Sent(events[c], k, p)
      BY <1>5, <2>1, <3>1, <3>2 DEF Ahead
    <3>4. p \in 1..Len(events[c])
      BY <1>2
    <3> QED
      BY <1>16, <3>2, <3>3, <3>4
  <2>2. sock'[c] # "closed" => \A p \in 1..Len(out'[c]) : IsDone(out'[c][p]) =>
          \A k \in before'[c][out'[c][p].id] : Comes(told'[c], events'[c], k)
    BY <1>1, <1>5, <1>6, <1>13, <1>17 DEF Ahead
  <2>3. Served(c)' <=> Served(c)
    BY <1>1 DEF Served
  <2>4. Served(c)' => \A p \in 1..Len(requests'[c]) : IsSync(requests'[c][p]) =>
          \A k \in before'[c][requests'[c][p].new] :
            Comes(told'[c], events'[c], k) \/ Sent(out'[c], k, Len(out'[c])) \/ Wanted(requests'[c], k, p - 1)
    BY <1>1, <1>5, <1>6, <1>12, <1>17, <2>3 DEF Ahead
  <2>5. Served(c)' => \A k \in Objects : mine'[c][k] = "registry" =>
          Comes(told'[c], events'[c], k) \/ Sent(out'[c], k, Len(out'[c])) \/ Wanted(requests'[c], k, Len(requests'[c]))
    BY <1>1, <1>5, <1>7, <1>17, <2>3 DEF Ahead
  <2> QED
    BY <2>1, <2>2, <2>4, <2>5 DEF Ahead
<1>19. Arrived(c)'
  <2> SUFFICES ASSUME NEW i \in Objects, mine'[c][i] = "synced"
               PROVE  before'[c][i] \subseteq told'[c]
    BY DEF Arrived
  <2>1. told[c] \subseteq told'[c]
    BY <1>4
  <2>2. CASE mine[c][i] = "synced"
    BY <1>5, <1>6, <2>1, <2>2 DEF Arrived
  <2>3. CASE mine[c][i] # "synced"
    <3>1. i = e.id /\ IsDone(e) /\ events[c][1] = e
      BY <1>2, <1>4, <2>3 DEF IsDone
    <3>2. \A k \in before[c][i] : k \in told[c] \/ Sent(events[c], k, 1 - 1)
      BY <1>3, <1>5, <3>1 DEF Ahead
    <3>3. \A k : ~Sent(events[c], k, 0)
      BY DEF Sent
    <3> QED
      BY <1>6, <2>1, <3>2, <3>3
  <2> QED
    BY <2>2, <2>3
<1> QED
  BY <1>1, <1>8, <1>9, <1>14, <1>15, <1>18, <1>19 DEF ClientInv

\* The client asks for something more.
LEMMA AskKeeps ==
  ASSUME TypeOK, NEW c \in Clients, c \in Careful, ClientInv(c), MakeRequest(c)
  PROVE  ClientInv(c)'
<1>1. /\ requests[c] \in Seq(Request) /\ peer[c] = "there"
      /\ UNCHANGED <<sock, run, handlers, out, events, peer>>
  BY DEF MakeRequest, TypeOK, listenerVars
<1>2. PICK object, i \in Objects, op, name \in 0..1, use \in Uses :
        /\ Ask(c, object, op, name, i, use)
        /\ use = "sync" => object = DisplayId /\ op = 0 /\ mine[c][i] = "free"
        /\ use = "registry" => object = DisplayId /\ op = 1
        /\ use \in {"manager", "im", "destroyed"} => mine[c][object] \in {"registry", "manager"}
        /\ mine[c][i] \in {"free", "manager"}
  BY Asks
<1> DEFINE r == [on |-> object, op |-> op, name |-> name, new |-> i]
<1>3. /\ requests'[c] = Append(requests[c], r)
      /\ mine'[c] = [mine[c] EXCEPT ![i] = use]
      /\ before'[c] = [before[c] EXCEPT ![i] = IF use = "sync" THEN Made(c, "registry") ELSE {}]
      /\ told'[c] = told[c] \ {i}
  BY <1>2 DEF Ask, TypeOK
<1>4. r \in Request /\ r.on = object /\ r.op = op /\ r.new = i
  BY DEF Request
<1> HIDE DEF r
<1>5. /\ Len(requests[c]) \in Nat /\ Len(requests'[c]) = Len(requests[c]) + 1
      /\ requests'[c][Len(requests[c]) + 1] = r
      /\ \A p \in 1..Len(requests[c]) : requests'[c][p] = requests[c][p]
  BY <1>1, <1>3, <1>4, Appended
<1>6. Kept(c) /\ Awaited(c) /\ Once(c) /\ Ahead(c) /\ Arrived(c)
  BY <1>1 DEF ClientInv
<1>7. mine \in [Clients -> [Objects -> {"free", "display", "sync", "synced", "registry",
                                       "manager", "im", "destroyed"}]]
      /\ before \in [Clients -> [Objects -> SUBSET Objects]]
  BY DEF TypeOK
<1>8. /\ \A j \in Objects \ {i} : mine'[c][j] = mine[c][j] /\ before'[c][j] = before[c][j]
      /\ mine'[c][i] = use
      /\ before'[c][i] = IF use = "sync" THEN Made(c, "registry") ELSE {}
  BY <1>3, <1>7
<1>9. i # DisplayId
  BY <1>2, <1>6 DEF Kept
<1>10. IsSync(r) <=> use = "sync"
  <2>1. use \in {"manager", "im", "destroyed"} => object # DisplayId
    BY <1>2, <1>6 DEF Kept
  <2> QED
    BY <1>2, <1>4, <2>1 DEF IsSync, Uses
<1>11. \A j \in Objects : mine[c][j] \in {"sync", "registry"} => j # i
  BY <1>2
<1>12. \A j \in Objects : \A k \in before[c][j] : k # i /\ k \in Objects
  BY <1>6, <1>7, <1>11 DEF Kept
<1>13. Table(c)'
  BY <1>1 DEF ClientInv, Table
<1>14. Kept(c)'
  <2>1. mine'[c][DisplayId] = "display"
    BY <1>6, <1>8, <1>9 DEF Kept, Objects
  <2>2. ASSUME NEW j \in Objects, NEW k \in before'[c][j]
        PROVE  mine'[c][k] = "registry"
    <3>1. mine[c][k] = "registry" /\ k \in Objects
      BY <1>6, <1>7, <1>8, <2>2 DEF Kept, Made
    <3> QED
      BY <1>8, <1>11, <3>1
  <2> QED
    BY <2>1, <2>2 DEF Kept
<1>15. \A p \in 1..Len(requests[c]) : requests[c][p].new \in Objects
  <2>1. \A p \in 1..Len(requests[c]) : requests[c][p] \in Request
    BY <1>1, ElementOfSeq
  <2> QED
    BY <2>1 DEF Request
<1>16. /\ \A p \in 1..Len(out[c]) : out[c][p].id \in Objects
       /\ \A p \in 1..Len(events[c]) : events[c][p].id \in Objects
  <2>1. /\ \A p \in 1..Len(out[c]) : out[c][p] \in Event
        /\ \A p \in 1..Len(events[c]) : events[c][p] \in Event
    BY ElementOfSeq DEF TypeOK
  <2> QED
    BY <2>1 DEF Event
<1>17. \A p \in 1..Len(requests'[c]) :
         p \in 1..Len(requests[c]) \/ (p = Len(requests[c]) + 1 /\ requests'[c][p] = r)
  BY <1>5
<1>18. /\ \A p \in 1..Len(requests[c]) : IsSync(requests[c][p]) => requests[c][p].new # i
       /\ \A p \in 1..Len(out[c]) : IsDone(out[c][p]) => out[c][p].id # i
       /\ \A p \in 1..Len(events[c]) : IsDone(events[c][p]) => events[c][p].id # i
  BY <1>6, <1>11, <1>15, <1>16 DEF Awaited
<1>19. Awaited(c)'
  <2>1. ASSUME NEW p \in 1..Len(requests'[c]), IsSync(requests'[c][p])
        PROVE  mine'[c][requests'[c][p].new] = "sync"
    <3>1. CASE p \in 1..Len(requests[c])
      BY <1>5, <1>6, <1>8, <1>15, <1>18, <2>1, <3>1 DEF Awaited
    <3>2. CASE p \notin 1..Len(requests[c])
      BY <1>4, <1>8, <1>10, <1>17, <2>1, <3>2
    <3> QED
      BY <3>1, <3>2
  <2>2. \A p \in 1..Len(out'[c]) : IsDone(out'[c][p]) => mine'[c][out'[c][p].id] = "sync"
    BY <1>1, <1>6, <1>8, <1>16, <1>18 DEF Awaited
  <2>3. \A p \in 1..Len(events'[c]) : IsDone(events'[c][p]) => mine'[c][events'[c][p].id] = "sync"
    BY <1>1, <1>6, <1>8, <1>16, <1>18 DEF Awaited
  <2> QED
    BY <2>1, <2>2, <2>3 DEF Awaited
<1>20. Once(c)'
  <2>1. ASSUME NEW p \in 1..Len(requests'[c]), NEW q \in 1..Len(requests'[c]),
               IsSync(requests'[c][p]), IsSync(requests'[c][q]), requests'[c][p].new = requests'[c][q].new
        PROVE  p = q
    <3>1. CASE p \in 1..Len(requests[c]) /\ q \in 1..Len(requests[c])
      BY <1>5, <1>6, <2>1, <3>1 DEF Once
    <3>2. CASE p \in 1..Len(requests[c]) /\ q \notin 1..Len(requests[c])
      BY <1>4, <1>5, <1>17, <1>18, <2>1, <3>2
    <3>3. CASE p \notin 1..Len(requests[c]) /\ q \in 1..Len(requests[c])
      BY <1>4, <1>5, <1>17, <1>18, <2>1, <3>3
    <3>4. CASE p \notin 1..Len(requests[c]) /\ q \notin 1..Len(requests[c])
      BY <1>17, <3>4
    <3> QED
      BY <3>1, <3>2, <3>3, <3>4
  <2>2. ASSUME NEW p \in 1..Len(requests'[c]), NEW q \in 1..Len(out'[c]),
               IsSync(requests'[c][p]), IsDone(out'[c][q])
        PROVE  requests'[c][p].new # out'[c][q].id
    <3>1. CASE p \in 1..Len(requests[c])
      BY <1>1, <1>5, <1>6, <2>2, <3>1 DEF Once
    <3>2. CASE p \notin 1..Len(requests[c])
      BY <1>1, <1>4, <1>17, <1>18, <2>2, <3>2
    <3> QED
      BY <3>1, <3>2
  <2>3. ASSUME NEW p \in 1..Len(requests'[c]), NEW q \in 1..Len(events'[c]),
               IsSync(requests'[c][p]), IsDone(events'[c][q])
        PROVE  requests'[c][p].new # events'[c][q].id
    <3>1. CASE p \in 1..Len(requests[c])
      BY <1>1, <1>5, <1>6, <2>3, <3>1 DEF Once
    <3>2. CASE p \notin 1..Len(requests[c])
      BY <1>1, <1>4, <1>17, <1>18, <2>3, <3>2
    <3> QED
      BY <3>1, <3>2
  <2> QED
    BY <1>1, <1>6, <2>1, <2>2, <2>3 DEF Once
<1>21. \A k \in Objects : k # i /\ Comes(told[c], events[c], k) => Comes(told'[c], events'[c], k)
  BY <1>1, <1>3 DEF Comes
<1>22. \A k, n : n \in 0..Len(requests[c]) /\ Wanted(requests[c], k, n) => Wanted(requests'[c], k, n)
  BY <1>5 DEF Wanted
<1>23. \A k : Wanted(requests[c], k, Len(requests[c])) => Wanted(requests'[c], k, Len(requests'[c]))
  <2>1. \A q \in 1..Len(requests[c]) : q \in 1..Len(requests'[c])
    BY <1>5
  <2> QED
    BY <1>5, <2>1 DEF Wanted
<1>24. Ahead(c)'
  <2>1. ASSUME NEW p \in 1..Len(events'[c]), IsDone(events'[c][p]),
               NEW k \in before'[c][events'[c][p].id]
        PROVE  k \in told'[c] \/ Sent(events'[c], k, p - 1)
    <3>1. k \in before[c][events[c][p].id] /\ k # i
      BY <1>1, <1>8, <1>12, <1>16, <1>18, <2>1
    <3> QED
      BY <1>1, <1>3, <1>6, <2>1, <3>1 DEF Ahead
  <2>2. ASSUME sock'[c] # "closed", NEW p \in 1..Len(out'[c]), IsDone(out'[c][p]),
               NEW k \in before'[c][out'[c][p].id]
        PROVE  Comes(told'[c], events'[c], k)
    <3>1. k \in before[c][out[c][p].id] /\ k # i /\ k \in Objects
      BY <1>1, <1>8, <1>12, <1>16, <1>18, <2>2
    <3> QED
      BY <1>1, <1>6, <1>21, <2>2, <3>1 DEF Ahead
  <2>3. Served(c)' <=> Served(c)
    BY <1>1 DEF Served
  <2>4. ASSUME Served(c), NEW k \in Objects, mine[c][k] = "registry"
        PROVE  Comes(told'[c], events'[c], k) \/ Sent(out'[c], k, Len(out'[c]))
                 \/ Wanted(requests'[c], k, Len(requests[c]))
    <3>1. Len(requests[c]) \in 0..Len(requests[c])
      BY <1>5
    <3> QED
      BY <1>1, <1>6, <1>11, <1>21, <1>22, <2>4, <3>1 DEF Ahead
  <2>5. ASSUME Served(c)', NEW p \in 1..Len(requests'[c]), IsSync(requests'[c][p]),
               NEW k \in before'[c][requests'[c][p].new]
        PROVE  Comes(told'[c], events'[c], k) \/ Sent(out'[c], k, Len(out'[c]))
                 \/ Wanted(requests'[c], k, p - 1)
    <3>1. CASE p \in 1..Len(requests[c])
      <4>1. k \in before[c][requests[c][p].new] /\ k # i /\ k \in Objects /\ IsSync(requests[c][p])
        BY <1>5, <1>8, <1>12, <1>15, <1>18, <2>5, <3>1
      <4>2. p - 1 \in 0..Len(requests[c])
        BY <1>5, <3>1
      <4>3. Comes(told[c], events[c], k) \/ Sent(out[c], k, Len(out[c])) \/ Wanted(requests[c], k, p - 1)
        BY <1>6, <2>3, <2>5, <3>1, <4>1 DEF Ahead
      <4> QED
        BY <1>1, <1>21, <1>22, <4>1, <4>2, <4>3
    <3>2. CASE p \notin 1..Len(requests[c])
      <4>1. p - 1 = Len(requests[c]) /\ k \in Made(c, "registry")
        BY <1>4, <1>5, <1>8, <1>17, <2>5, <3>2
      <4>2. k \in Objects /\ mine[c][k] = "registry"
        BY <4>1 DEF Made
      <4> QED
        BY <2>3, <2>4, <2>5, <4>1, <4>2
    <3> QED
      BY <3>1, <3>2
  <2>6. ASSUME Served(c)', NEW k \in Objects, mine'[c][k] = "registry"
        PROVE  Comes(told'[c], events'[c], k) \/ Sent(out'[c], k, Len(out'[c]))
                 \/ Wanted(requests'[c], k, Len(requests'[c]))
    <3>1. CASE k = i
      <4>1. use = "registry"
        BY <1>8, <2>6, <3>1
      <4>2. r.on = DisplayId /\ r.op = 1 /\ r.new = k
        BY <1>2, <1>4, <3>1, <4>1
      <4>3. Len(requests'[c]) \in 1..Len(requests'[c]) /\ requests'[c][Len(requests'[c])] = r
        BY <1>5
      <4> QED
        BY <4>2, <4>3 DEF Wanted
    <3>2. CASE k # i
      <4>1. mine[c][k] = "registry"
        BY <1>8, <2>6, <3>2
      <4>2. Comes(told[c], events[c], k) \/ Sent(out[c], k, Len(out[c]))
              \/ Wanted(requests[c], k, Len(requests[c]))
        BY <1>6, <2>3, <2>6, <4>1 DEF Ahead
      <4> QED
        BY <1>1, <1>21, <1>23, <3>2, <4>2
    <3> QED
      BY <3>1, <3>2
  <2> QED
    BY <2>1, <2>2, <2>5, <2>6 DEF Ahead
<1>25. Arrived(c)'
  <2> SUFFICES ASSUME NEW j \in Objects, mine'[c][j] = "synced"
               PROVE  before'[c][j] \subseteq told'[c]
    BY DEF Arrived
  <2>1. j # i
    BY <1>8 DEF Uses
  <2>2. before'[c][j] = before[c][j] /\ before[c][j] \subseteq told[c]
    BY <1>6, <1>8, <2>1 DEF Arrived
  <2> QED
    BY <1>3, <1>12, <2>2
<1> QED
  BY <1>1, <1>13, <1>14, <1>19, <1>20, <1>24, <1>25 DEF ClientInv

(* Nothing that is done for, or by, another client reaches c.               *)
LEMMA OthersKeep ==
  ASSUME TypeOK, NEW c \in Clients, ClientInv(c), NEW d \in Clients, d # c,
         Accept(d) \/ Run(d) \/ MakeRequest(d) \/ ReadEvent(d) \/ HangUp(d)
  PROVE  ClientInv(c)'
<1>1. CASE Accept(d)
  BY <1>1, Undisturbed DEF Accept, OnAccept, TypeOK, clientVars
<1>2. CASE RunEnds(d)
  BY <1>2, Undisturbed DEF RunEnds, Ends, TypeOK, clientVars
<1>3. CASE Handle(d)
  <2>1. handlers'[c] = handlers[c] /\ out'[c] = out[c] /\ run'[c] = run[c]
    <3>1. ASSUME NEW i, NEW kind, NEW o, Register(d, i, kind, o)
          PROVE  handlers'[c] = handlers[c] /\ out'[c] = out[c] /\ run'[c] = run[c]
      BY <3>1 DEF Register, Fails, Ends, TypeOK
    <3>2. ASSUME NEW o, Sends(d, o)
          PROVE  handlers'[c] = handlers[c] /\ out'[c] = out[c] /\ run'[c] = run[c]
      BY <3>2 DEF Sends, TypeOK
    <3>3. ASSUME NEW i, Unregister(d, i)
          PROVE  handlers'[c] = handlers[c] /\ out'[c] = out[c] /\ run'[c] = run[c]
      BY <3>3 DEF Unregister, TypeOK
    <3>4. ASSUME Fails(d)
          PROVE  handlers'[c] = handlers[c] /\ out'[c] = out[c] /\ run'[c] = run[c]
      BY <3>4 DEF Fails, Ends, TypeOK
    <3> QED
      BY <1>3, <3>1, <3>2, <3>3, <3>4
         DEF Handle, HandleDisplay, GetRegistry, HandleRegistry, HandleManager
  <2> QED
    BY <1>3, <2>1, Undisturbed DEF Handle, Took, TypeOK, clientVars
<1>4. CASE Send(d)
  BY <1>4, Undisturbed DEF Send, Ends, TypeOK, clientVars
<1>5. CASE MakeRequest(d)
  <2>1. PICK object, i \in Objects, op, name \in 0..1, use \in Uses : Ask(d, object, op, name, i, use)
    BY <1>5, Asks
  <2>2. requests'[c] = requests[c] /\ mine'[c] = mine[c] /\ before'[c] = before[c] /\ told'[c] = told[c]
    BY <2>1 DEF Ask, TypeOK
  <2> QED
    BY <1>5, <2>2, Undisturbed DEF MakeRequest, listenerVars
<1>6. CASE ReadEvent(d)
  BY <1>6, Undisturbed DEF ReadEvent, TypeOK, listenerVars
<1>7. CASE HangUp(d)
  BY <1>7, Undisturbed DEF HangUp, TypeOK, listenerVars
<1> QED
  BY <1>1, <1>2, <1>3, <1>4, <1>5, <1>6, <1>7 DEF Run

LEMMA ClientKeeps ==
  ASSUME TypeOK, NEW c \in Careful, ClientInv(c), [Next]_vars
  PROVE  ClientInv(c)'
<1>0. c \in Clients
  BY ListenerAssumption
<1>1. CASE UNCHANGED vars
  BY <1>0, <1>1, Undisturbed DEF vars, clientVars
<1>2. CASE ServeReturns \/ CloseBegins \/ CloseReturns
  BY <1>0, <1>2, Undisturbed DEF ServeReturns, CloseBegins, CloseReturns, clientVars
<1>3. CASE CloseSocket
  <2>1. sock'[c] \in {sock[c], "closed"}
    BY <1>0, <1>3 DEF CloseSocket, TypeOK
  <2> QED
    BY <1>0, <1>3, <2>1, Undisturbed DEF CloseSocket, clientVars
<1>4. ASSUME NEW d \in Clients, CloseDispatcher(d)
      PROVE  ClientInv(c)'
  <2>1. sock'[c] \in {sock[c], "closed"}
    BY <1>0, <1>4 DEF CloseDispatcher, TypeOK
  <2> QED
    BY <1>0, <1>4, <2>1, Undisturbed DEF CloseDispatcher, clientVars
<1>5. ASSUME NEW d \in Clients, Accept(d) \/ Run(d) \/ MakeRequest(d) \/ ReadEvent(d) \/ HangUp(d)
      PROVE  ClientInv(c)'
  <2>1. CASE d # c
    BY <1>0, <1>5, <2>1, OthersKeep
  <2>2. CASE d = c
    <3>1. CASE RunEnds(c)
      <4>1. run[c] = "running" /\ run'[c] = "ended"
        BY <1>0, <3>1 DEF RunEnds, Reads, Ends, TypeOK
      <4>2. sock[c] # "queued"
        BY <4>1 DEF ClientInv, Table
      <4> QED
        BY <1>0, <3>1, <4>1, <4>2, Undisturbed DEF RunEnds, clientVars
    <3> QED
      BY <1>0, <1>5, <2>2, <3>1, AcceptKeeps, HandleKeeps, SendKeeps, AskKeeps, ReadKeeps, HangUpKeeps
         DEF Run
  <2> QED
    BY <2>1, <2>2
<1> QED
  BY <1>1, <1>2, <1>3, <1>4, <1>5 DEF Next, Serve, Close

LEMMA ClientBegins ==
  ASSUME Init, NEW c \in Careful
  PROVE  ClientInv(c)
<1>0. c \in Clients
  BY ListenerAssumption
<1>1. Table(c)
  BY <1>0 DEF Init, NewDispatcher, Table
<1>2. /\ Len(requests[c]) = 0 /\ Len(out[c]) = 0 /\ Len(events[c]) = 0 /\ told[c] = {}
      /\ mine[c] = NothingMade /\ \A i \in Objects : before[c][i] = {}
  BY <1>0 DEF Init
<1>3. \A i \in Objects : mine[c][i] \in {"display", "free"}
  BY <1>2 DEF NothingMade
<1>4. mine[c][DisplayId] = "display"
  BY <1>2 DEF NothingMade, Objects
<1>5. Kept(c) /\ Arrived(c)
  BY <1>2, <1>3, <1>4 DEF Kept, Arrived
<1>6. Awaited(c) /\ Once(c)
  BY <1>2 DEF Awaited, Once
<1>7. Ahead(c)
  BY <1>2, <1>3 DEF Ahead
<1> QED
  BY <1>0, <1>1, <1>2, <1>5, <1>6, <1>7 DEF ClientInv, Init

(* Listener.TypeOK: no request or event falls out of its type, no queue and *)
(* no unsent reply outgrows its bound.                                      *)
THEOREM ListenerTypeCorrect == Spec => []TypeOK
BY FirstTypes, TypesKeep, PTL DEF Spec

(* A sync answered means every registry asked for before it has been told   *)
(* of the manager, for every client that keeps to the protocol, whatever    *)
(* the others send and whenever connections close (Display.HandleRequest,   *)
(* emitAllGlobals, Dispatcher.Send).                                        *)
THEOREM RoundTripsSeeGlobals == Spec => []RoundTripSeesGlobals
<1> DEFINE Inv == TypeOK /\ \A c \in Careful : ClientInv(c)
<1>1. Init => Inv
  BY FirstTypes, ClientBegins
<1>2. Inv /\ [Next]_vars => Inv'
  BY TypesKeep, ClientKeeps
<1>3. Inv => RoundTripSeesGlobals
  <2> SUFFICES ASSUME Inv, NEW c \in Careful, NEW i \in Ids, mine[c][i] = "synced"
               PROVE  before[c][i] \subseteq told[c]
    BY DEF RoundTripSeesGlobals
  <2>1. i \in Objects /\ c \in Clients /\ ClientInv(c)
    BY ListenerAssumption DEF Objects
  <2>2. mine[c] # NothingMade
    BY <2>1 DEF NothingMade
  <2>3. peer[c] = "there"
    BY <2>1, <2>2 DEF ClientInv, TypeOK
  <2> QED
    BY <2>1, <2>3 DEF ClientInv, Arrived
<1> QED
  BY <1>1, <1>2, <1>3, PTL DEF Spec
=============================================================================
