------------------------- MODULE EngineRoutingProofs -------------------------
(***************************************************************************)
(* Proofs about the tables of ibushost.Host, for any contexts, engines,    *)
(* calls and bounds.                                                       *)
(***************************************************************************)
EXTENDS EngineRouting, FiniteSetTheorems, TLAPS

\* Records of calls are built from parts of the right type, and taken apart.
LEMMA CallRecords ==
  /\ \A pc \in {"idle"} \union KeyPC \union ControlPC, c \in Ctxs \union {NoCtx},
        n \in Names \union {NoName}, h \in 0..MaxHandles, k \in 0..MaxKeys :
       InCall(pc, c, n, h, k) \in Call
  /\ Idle \in Call
  /\ \A r \in Call :
       /\ r.ctx \in Ctxs \union {NoCtx} /\ r.name \in Names \union {NoName}
       /\ r.handle \in 0..MaxHandles /\ r.key \in 0..MaxKeys
BY RoutingAssumption DEF Call, InCall, Idle, NoHandle

(* Types are not inductive alone: a call reads the route of a context that *)
(* exists, and asked and gaveUp take the keystroke it is about.            *)
CallsAreAbout ==
  \A g \in Calls :
    /\ call[g].pc # "idle" => call[g].ctx \in Ctxs
    /\ call[g].pc \in KeyPC => call[g].key \in 1..keys

TypeInv == TypeOK /\ CallsAreAbout

\* A call moves on with the data it has, or ends; the rest is unchanged.
Moves(g) ==
  \/ call' = [call EXCEPT ![g] = Idle]
  \/ \E pc \in KeyPC \union ControlPC, h \in 0..MaxHandles :
       /\ call[g].pc # "idle"
       /\ pc \in KeyPC => call[g].pc \in KeyPC
       /\ call' = [call EXCEPT ![g] =
                     InCall(pc, call[g].ctx, call[g].name, h, call[g].key)]

LEMMA MovesTypes ==
  ASSUME TypeInv, NEW g \in Calls, Moves(g), keys' = keys
  PROVE  call' \in [Calls -> Call] /\ CallsAreAbout'
<1> USE CallRecords DEF TypeInv, TypeOK, CallsAreAbout
<1>1. CASE call' = [call EXCEPT ![g] = Idle]
  BY <1>1 DEF Idle, InCall, KeyPC
<1>2. ASSUME NEW pc \in KeyPC \union ControlPC, NEW h \in 0..MaxHandles,
             call[g].pc # "idle", pc \in KeyPC => call[g].pc \in KeyPC,
             call' = [call EXCEPT ![g] =
                        InCall(pc, call[g].ctx, call[g].name, h, call[g].key)]
      PROVE  call' \in [Calls -> Call] /\ CallsAreAbout'
  <2>1. call[g] \in Call
    OBVIOUS
  <2>2. InCall(pc, call[g].ctx, call[g].name, h, call[g].key) \in Call
    BY <2>1
  <2>3. call' \in [Calls -> Call]
    BY <1>2, <2>2
  <2>4. CallsAreAbout'
    BY <1>2 DEF InCall
  <2> QED
    BY <2>3, <2>4
<1> QED
  BY <1>1, <1>2 DEF Moves

LEMMA ClientCallTypes ==
  ASSUME TypeInv, NEW g \in Calls, ClientCall(g)
  PROVE  TypeInv'
<1> USE RoutingAssumption DEF TypeInv, TypeOK, CallsAreAbout, host, bridge, keyed, client
<1> DEFINE InControl(c, n) ==
      \E pc \in {"idle"} \union ControlPC : call' = [call EXCEPT ![g] = InCall(pc, c, n, NoHandle, 0)]
<1>1. ASSUME NEW c \in Ctxs, NEW n \in Names \union {NoName},
             InControl(c, n) \/ call' = call, keys' = keys
      PROVE  call' \in [Calls -> Call] /\ CallsAreAbout'
  <2>1. CASE call' = call
    BY <1>1, <2>1
  <2>2. ASSUME NEW pc \in {"idle"} \union ControlPC,
               call' = [call EXCEPT ![g] = InCall(pc, c, n, NoHandle, 0)]
        PROVE  call' \in [Calls -> Call] /\ CallsAreAbout'
    <3>1. InCall(pc, c, n, NoHandle, 0) \in Call
      BY CallRecords DEF NoHandle
    <3>2. pc \notin KeyPC
      BY DEF KeyPC, ControlPC
    <3> QED
      BY <1>1, <2>2, <3>1, <3>2 DEF InCall
  <2> QED
    BY <1>1, <2>1, <2>2
<1>2. ASSUME NEW c \in Ctxs, FocusIn(g, c) \/ FocusOut(g, c)
      PROVE  TypeInv'
  <2>1. engine[c] \in Names \union {NoName}
    OBVIOUS
  <2>2. InControl(c, engine[c]) \/ call' = call
    BY <1>2 DEF FocusIn, FocusOut, Enter, ControlPC
  <2>3. /\ focused' \subseteq Ctxs /\ late' \in [Ctxs -> Nat]
        /\ UNCHANGED <<ctx, engine, host, started, hooked, emitting, keyed>>
    BY <1>2 DEF FocusIn, FocusOut
  <2>4. call' \in [Calls -> Call] /\ CallsAreAbout'
    BY <1>1, <2>1, <2>2, <2>3
  <2> QED
    BY <2>3, <2>4
<1>3. ASSUME NEW c \in Ctxs, NEW n \in Names \union {NoName}, SetEngine(g, c, n)
      PROVE  TypeInv'
  <2>1. InControl(c, n) \/ call' = call
    BY <1>3 DEF SetEngine, Enter, ControlPC
  <2> QED
    BY <1>1, <1>3, <2>1 DEF SetEngine
<1>4. ASSUME NEW c \in Ctxs, Destroy(g, c)
      PROVE  TypeInv'
  <2>1. InControl(c, NoName)
    BY <1>4 DEF Destroy, Enter, ControlPC
  <2>2. routes' \in [Ctxs -> 0..made]
    BY <1>4 DEF Destroy, NoHandle
  <2> QED
    BY <1>1, <1>4, <2>1, <2>2 DEF Destroy
<1>5. ASSUME NEW c \in Ctxs, ProcessKeyEvent(g, c)
      PROVE  TypeInv'
  <2> USE DEF ProcessKeyEvent
  <2>1. keys + 1 \in 0..MaxKeys /\ keys' = keys + 1
    BY <1>5
  <2>2. InCall("v2", c, NoName, NoHandle, keys + 1) \in Call
    BY <2>1, CallRecords DEF NoHandle, KeyPC
  <2>3. call' \in [Calls -> Call]
    BY <1>5, <2>2
  <2>4. CallsAreAbout'
    BY <1>5, <2>1 DEF InCall
  <2> QED
    BY <1>5, <2>1, <2>3, <2>4
<1> QED
  BY <1>2, <1>3, <1>4, <1>5 DEF ClientCall

LEMMA KeyStepTypes ==
  ASSUME TypeInv, NEW g \in Calls, KeyStep(g)
  PROVE  TypeInv'
<1> USE RoutingAssumption DEF host, bridge, keyed, client
<1>r. /\ call[g] \in Call /\ call[g].handle \in 0..MaxHandles
      /\ made \in 0..MaxHandles
  BY CallRecords DEF TypeInv, TypeOK
<1>k. call[g].pc \in KeyPC /\ call[g].key \in 1..keys /\ call[g].ctx \in Ctxs
  <2>1. call[g].pc \in KeyPC /\ call[g].pc # "idle"
    BY DEF KeyStep, TryV2, SendToEngine, EngineReplies, EngineCallFails, RunSession,
           KeyPC
  <2> QED
    BY <2>1 DEF TypeInv, CallsAreAbout
<1>1. Moves(g) /\ keys' = keys
  <2>1. CASE call[g].pc = "keyRoute" /\ ReadRoute(g)
    <3>1. routes[call[g].ctx] \in 0..MaxHandles
      BY <1>k, <1>r DEF TypeInv, TypeOK
    <3> QED
      BY <2>1, <3>1, <1>k DEF ReadRoute, Moves, KeyPC
  <2>2. CASE TryV2(g) \/ SendToEngine(g) \/ EngineReplies(g) \/ EngineCallFails(g)
             \/ RunSession(g)
    BY <2>2, <1>r, <1>k
       DEF TryV2, SendToEngine, EngineReplies, EngineCallFails, RunSession, Step,
           Leave, Moves, KeyPC
  <2> QED
    BY <2>1, <2>2 DEF KeyStep
<1>2. call' \in [Calls -> Call] /\ CallsAreAbout'
  BY <1>1, MovesTypes
<1>3. UNCHANGED <<client, host, bridge>>
  BY DEF KeyStep, ReadRoute, TryV2, SendToEngine, EngineReplies, EngineCallFails,
         RunSession
<1>4. /\ asked' \subseteq 1..keys /\ gaveUp' \subseteq 1..keys
      /\ answer' = answer /\ acted' \in [Keys -> SUBSET Tiers]
  <2> USE <1>k DEF TypeInv, TypeOK
  <2>1. CASE ReadRoute(g) \/ EngineReplies(g)
    BY <2>1 DEF ReadRoute, EngineReplies
  <2>2. CASE TryV2(g) \/ RunSession(g)
    <3>1. /\ UNCHANGED <<asked, answer, gaveUp>>
          /\ \/ UNCHANGED acted
             \/ \E t \in Tiers : acted' = [acted EXCEPT ![call[g].key] = @ \union {t}]
      BY <2>2 DEF TryV2, RunSession, Tiers
    <3>2. acted' \in [Keys -> SUBSET Tiers]
      BY <3>1
    <3> QED
      BY <3>1, <3>2
  <2>3. CASE SendToEngine(g) \/ EngineCallFails(g)
    BY <2>3 DEF SendToEngine, EngineCallFails
  <2> QED
    BY <2>1, <2>2, <2>3 DEF KeyStep
<1> QED
  BY <1>1, <1>2, <1>3, <1>4 DEF TypeInv, TypeOK

\* What TypeOK says of the tables of the host, at any number of handles.
HostTables(m) ==
  /\ m \in 0..MaxHandles /\ obj \subseteq 1..m
  /\ hname \in [Handles -> Names \union {NoName}]
  /\ proc \in [Handles -> {"none", "running", "exited", "reaped"}]
  /\ engines \in [Names -> 0..m] /\ routes \in [Ctxs -> 0..m]

LEMMA HostTablesTyped == TypeOK => HostTables(made)
BY DEF TypeOK, HostTables

\* A new handle is one more than those there are.
LEMMA NewHandleTypes ==
  ASSUME HostTables(made), NEW n \in Names, NEW p \in {"running", "none"},
         NewHandle(n, p)
  PROVE  /\ made' = made + 1 /\ made' \in 0..MaxHandles
         /\ hname' \in [Handles -> Names \union {NoName}]
         /\ proc' \in [Handles -> {"none", "running", "exited", "reaped"}]
         /\ engines' \in [Names -> 0..made']
<1> USE RoutingAssumption
<1>1. made' = made + 1 /\ made' \in 0..MaxHandles /\ made + 1 \in Handles
  BY DEF HostTables, NewHandle, Handles
<1>2. engines' \in [Names -> 0..made']
  BY <1>1 DEF HostTables, NewHandle
<1>3. hname' \in [Handles -> Names \union {NoName}]
  BY <1>1 DEF HostTables, NewHandle
<1>4. proc' \in [Handles -> {"none", "running", "exited", "reaped"}]
  BY <1>1 DEF HostTables, NewHandle
<1> QED
  BY <1>1, <1>2, <1>3, <1>4

LEMMA ControlStepTypes ==
  ASSUME TypeInv, NEW g \in Calls, ControlStep(g)
  PROVE  TypeInv'
<1> USE RoutingAssumption DEF host, bridge, keyed, client
<1>r. /\ call[g] \in Call /\ call[g].handle \in 0..MaxHandles
      /\ made \in 0..MaxHandles /\ call[g].ctx \in Ctxs \union {NoCtx}
      /\ call[g].name \in Names \union {NoName}
  BY CallRecords DEF TypeInv, TypeOK
<1>1. CASE call[g].pc # "keyRoute" /\ ReadRoute(g)
  <2>1. call[g].ctx \in Ctxs
    BY <1>1 DEF TypeInv, CallsAreAbout, ReadRoute
  <2>2. routes[call[g].ctx] \in 0..MaxHandles
    BY <2>1, <1>r DEF TypeInv, TypeOK
  <2>3. Moves(g)
    BY <1>1, <2>2 DEF ReadRoute, Leave, Moves, KeyPC, ControlPC
  <2> QED
    BY <1>1, <2>3, MovesTypes DEF TypeInv, TypeOK, ReadRoute
<1>2. CASE EngineAnswersFocus(g)
  <2>1. Moves(g)
    BY <1>2, <1>r DEF EngineAnswersFocus, Step, Leave, Moves, KeyPC, ControlPC
  <2> QED
    BY <1>2, <2>1, MovesTypes DEF TypeInv, TypeOK, EngineAnswersFocus
<1>3. CASE NotifyFocusIn(g) \/ NotifyFocusOut(g) \/ DestroyDeletes(g)
  <2>1. Moves(g) /\ keys' = keys
    BY <1>3 DEF NotifyFocusIn, NotifyFocusOut, DestroyDeletes, Leave, Moves
  <2>2. hooked' \in [Names -> Ctxs \union {NoCtx}]
    BY <1>3, <1>r DEF TypeInv, TypeOK, NotifyFocusIn, NotifyFocusOut, DestroyDeletes
  <2>3. ctx' \in [Ctxs -> {"none", "live", "destroyed"}]
    BY <1>3 DEF TypeInv, TypeOK, NotifyFocusIn, NotifyFocusOut, DestroyDeletes
  <2> QED
    BY <1>3, <2>1, <2>2, <2>3, MovesTypes
       DEF TypeInv, TypeOK, NotifyFocusIn, NotifyFocusOut, DestroyDeletes
<1>4. CASE SelectEngine(g)
  <2>1. Moves(g)
    BY <1>4, <1>r DEF SelectEngine, Step, Leave, Moves, KeyPC, ControlPC
  <2>2. UNCHANGED <<client, bridge, keyed, obj>>
    BY <1>4 DEF SelectEngine
  <2>3. /\ made' \in 0..MaxHandles /\ made <= made'
        /\ hname' \in [Handles -> Names \union {NoName}]
        /\ proc' \in [Handles -> {"none", "running", "exited", "reaped"}]
        /\ engines' \in [Names -> 0..made'] /\ routes' \in [Ctxs -> 0..made']
    <3>t. HostTables(made)
      BY HostTablesTyped DEF TypeInv
    <3>1. CASE UNCHANGED host
      BY <3>1, <3>t DEF HostTables
    <3>2. CASE /\ call[g].name \in Catalog
               /\ routes' = [routes EXCEPT ![call[g].ctx] = engines[call[g].name]]
               /\ UNCHANGED <<made, hname, proc, engines>>
      <4>1. engines[call[g].name] \in 0..made
        BY <3>2, <3>t DEF HostTables
      <4>2. routes' \in [Ctxs -> 0..made]
        BY <3>2, <3>t, <4>1 DEF HostTables
      <4>3. made <= made
        BY <1>r
      <4> QED
        BY <3>2, <3>t, <4>2, <4>3 DEF HostTables
    <3>3. CASE /\ call[g].name \in Catalog
               /\ NewHandle(call[g].name, "running")
               /\ routes' = [routes EXCEPT ![call[g].ctx] = made + 1]
      <4>1. call[g].name \in Names
        BY <3>3
      <4>2. /\ made' = made + 1 /\ made' \in 0..MaxHandles
            /\ hname' \in [Handles -> Names \union {NoName}]
            /\ proc' \in [Handles -> {"none", "running", "exited", "reaped"}]
            /\ engines' \in [Names -> 0..made']
        BY <3>3, <3>t, <4>1, NewHandleTypes
      <4>3. made + 1 \in 0..made' /\ 0..made \subseteq 0..made'
        BY <1>r, <4>2
      <4>4. routes' \in [Ctxs -> 0..made']
        BY <3>3, <3>t, <4>3 DEF HostTables
      <4> QED
        BY <1>r, <4>2, <4>4
    <3> QED
      BY <1>4, <3>1, <3>2, <3>3 DEF SelectEngine
  <2>4. obj' \subseteq 1..made'
    BY <2>2, <2>3, <1>r DEF TypeInv, TypeOK
  <2> QED
    BY <2>1, <2>2, <2>3, <2>4, MovesTypes DEF TypeInv, TypeOK
<1> QED
  BY <1>1, <1>2, <1>3, <1>4 DEF ControlStep

LEMMA HostTypes ==
  ASSUME TypeInv,
         \/ \E c \in Ctxs : CreateInputContext(c)
         \/ EngineProcess \/ HandleSignal \/ \E p \in emitting : EmitSignal(p)
  PROVE  TypeInv'
<1> USE RoutingAssumption DEF TypeInv, TypeOK, host, bridge, keyed, client
<1>1. ASSUME NEW c \in Ctxs, CreateInputContext(c)
      PROVE  TypeInv'
  BY <1>1 DEF CreateInputContext, CallsAreAbout
<1>2. ASSUME NEW n \in Names, RegisterComponent(n)
      PROVE  TypeInv'
  <2>1. UNCHANGED <<client, routes, hooked, emitting, late, call, keyed>> /\ started' \in BOOLEAN
    BY <1>2 DEF RegisterComponent
  <2>2. /\ made' \in 0..MaxHandles /\ made <= made'
        /\ hname' \in [Handles -> Names \union {NoName}]
        /\ proc' \in [Handles -> {"none", "running", "exited", "reaped"}]
        /\ engines' \in [Names -> 0..made'] /\ obj' \subseteq 1..made'
    <3>t. HostTables(made)
      BY HostTablesTyped
    <3>1. CASE /\ engines[n] # NoHandle /\ obj' = obj \union {engines[n]}
               /\ UNCHANGED <<made, hname, proc, engines>>
      <4>1. engines[n] \in 0..made /\ made \in Nat
        BY <3>t DEF HostTables
      <4>2. engines[n] \in 1..made
        BY <3>1, <4>1 DEF NoHandle
      <4>3. obj' \subseteq 1..made'
        BY <3>1, <3>t, <4>2 DEF HostTables
      <4> QED
        BY <3>1, <3>t, <4>1, <4>3 DEF HostTables
    <3>2. CASE UNCHANGED <<made, hname, proc, obj, engines>>
      BY <3>2, <3>t DEF HostTables
    <3>3. CASE NewHandle(n, "none") /\ obj' = obj \union {made + 1}
      <4>1. /\ made' = made + 1 /\ made' \in 0..MaxHandles
            /\ hname' \in [Handles -> Names \union {NoName}]
            /\ proc' \in [Handles -> {"none", "running", "exited", "reaped"}]
            /\ engines' \in [Names -> 0..made']
        BY <3>3, <3>t, NewHandleTypes
      <4> QED
        BY <3>3, <3>t, <4>1 DEF HostTables
    <3> QED
      BY <1>2, <3>1, <3>2, <3>3 DEF RegisterComponent
  <2> QED
    BY <2>1, <2>2 DEF CallsAreAbout
<1>3. ASSUME NEW x \in Handles, EngineExits(x) \/ Reap(x)
      PROVE  TypeInv'
  <2>1. /\ UNCHANGED <<client, made, hname, obj, bridge, call, keyed>>
        /\ proc' \in [Handles -> {"none", "running", "exited", "reaped"}]
    BY <1>3 DEF EngineExits, Reap
  <2>2. engines' \in [Names -> 0..made] /\ routes' \in [Ctxs -> 0..made]
    BY <1>3 DEF EngineExits, Reap, NoHandle
  <2> QED
    BY <2>1, <2>2 DEF CallsAreAbout
<1>4. ASSUME NEW k \in Keys, EngineHandlesKey(k)
      PROVE  TypeInv'
  <2>1. UNCHANGED <<client, host, bridge, call, keys, gaveUp>> /\ asked' \subseteq 1..keys
    BY <1>4 DEF EngineHandlesKey
  <2>2. /\ answer' \in [Keys -> {"none", "consumed", "declined"}]
        /\ acted' \in [Keys -> SUBSET Tiers]
    BY <1>4 DEF EngineHandlesKey, Tiers
  <2> QED
    BY <2>1, <2>2 DEF CallsAreAbout
<1>5. ASSUME HandleSignal \/ \E p \in emitting : EmitSignal(p)
      PROVE  TypeInv'
  <2>1. /\ UNCHANGED <<client, host, started, hooked, call, keyed>>
        /\ emitting' \subseteq Names \X Ctxs
        /\ late' \in [Ctxs -> Nat]
    BY <1>5 DEF HandleSignal, EmitSignal
  <2> QED
    BY <2>1 DEF CallsAreAbout
<1> QED
  BY <1>1, <1>2, <1>3, <1>4, <1>5 DEF EngineProcess

(* The variables of the ibus tier keep their types, for any contexts,      *)
(* engines, calls and bounds.                                              *)
THEOREM RoutingTypeCorrect == Spec => [](TypeOK /\ CallsAreAbout)
<1>1. Init => TypeInv
  <2> SUFFICES ASSUME Init
               PROVE  TypeInv
    OBVIOUS
  <2> USE RoutingAssumption DEF Init
  <2>1. TypeOK
    <3>1. call \in [Calls -> Call]
      BY CallRecords
    <3>2. acted \in [Keys -> SUBSET Tiers]
      OBVIOUS
    <3>3. made \in 0..MaxHandles /\ keys \in 0..MaxKeys
      OBVIOUS
    <3>4. /\ obj \subseteq 1..made /\ asked \subseteq 1..keys /\ gaveUp \subseteq 1..keys
          /\ focused \subseteq Ctxs /\ emitting \subseteq Names \X Ctxs
          /\ started \in BOOLEAN
      OBVIOUS
    <3>5. engines \in [Names -> 0..made] /\ routes \in [Ctxs -> 0..made]
      BY DEF NoHandle
    <3>6. /\ ctx \in [Ctxs -> {"none", "live", "destroyed"}]
          /\ engine \in [Ctxs -> Names \union {NoName}]
          /\ hname \in [Handles -> Names \union {NoName}]
          /\ proc \in [Handles -> {"none", "running", "exited", "reaped"}]
          /\ hooked \in [Names -> Ctxs \union {NoCtx}]
          /\ answer \in [Keys -> {"none", "consumed", "declined"}]
          /\ late \in [Ctxs -> Nat]
      OBVIOUS
    <3> HIDE DEF Init
    <3> QED
      BY <3>1, <3>2, <3>3, <3>4, <3>5, <3>6 DEF TypeOK
  <2>2. CallsAreAbout
    BY DEF CallsAreAbout, Idle, InCall, KeyPC
  <2> QED
    BY <2>1, <2>2 DEF TypeInv
<1>2. TypeInv /\ [Next]_vars => TypeInv'
  <2> SUFFICES ASSUME TypeInv, [Next]_vars
               PROVE  TypeInv'
    OBVIOUS
  <2>1. ASSUME NEW g \in Calls, ClientCall(g) \/ KeyStep(g) \/ ControlStep(g)
        PROVE  TypeInv'
    BY <2>1, ClientCallTypes, KeyStepTypes, ControlStepTypes
  <2>2. CASE UNCHANGED vars
    BY <2>2 DEF vars, host, bridge, keyed, client, TypeInv, TypeOK, CallsAreAbout
  <2> QED
    BY <2>1, <2>2, HostTypes DEF Next
<1>3. TypeInv => TypeOK /\ CallsAreAbout
  BY DEF TypeInv
<1> QED
  BY <1>1, <1>2, <1>3, PTL DEF Spec
-----------------------------------------------------------------------------
(* The tables of the host agree.  An entry of engines holds a handle of    *)
(* that name, not reaped; a handle with a process is the entry of its      *)
(* name; so is a handle with a route.  What the reaper deletes by name is  *)
(* therefore its own entry.                                                *)
EntriesAreOwn ==
  \A n \in Names : engines[n] # NoHandle =>
    hname[engines[n]] = n /\ proc[engines[n]] # "reaped"
ProcessesAreEntered ==
  \A h \in Handles : proc[h] \in {"running", "exited"} =>
    hname[h] \in Names /\ engines[hname[h]] = h
RoutesAreEntered ==
  \A c \in Ctxs : routes[c] # NoHandle =>
    hname[routes[c]] \in Names /\ engines[hname[routes[c]]] = routes[c]
UnmadeAreBlank ==
  \A h \in Handles : h > made => hname[h] = NoName /\ proc[h] = "none"

TablesAgree ==
  EntriesAreOwn /\ ProcessesAreEntered /\ RoutesAreEntered /\ UnmadeAreBlank

\* Handles are positive and nothing is entered that has not been made.
LEMMA EntriesAreMade ==
  ASSUME HostTables(made)
  PROVE  /\ made \in Nat /\ made <= MaxHandles
         /\ \A n \in Names : engines[n] \in Nat /\ engines[n] <= made
         /\ \A c \in Ctxs : routes[c] \in Nat /\ routes[c] <= made
         /\ \A h \in Nat : h # NoHandle /\ h <= made => h \in Handles
BY RoutingAssumption DEF HostTables, Handles, NoHandle

\* A handle made for a name that has no entry leaves the tables in agreement.
LEMMA NewHandleAgrees ==
  ASSUME HostTables(made), TablesAgree, NEW n \in Names, NEW p \in {"running", "none"},
         engines[n] = NoHandle, NewHandle(n, p)
  PROVE  /\ EntriesAreOwn' /\ ProcessesAreEntered' /\ UnmadeAreBlank'
         /\ hname'[made + 1] = n /\ engines'[n] = made + 1
         /\ \A c \in Ctxs : routes[c] # NoHandle =>
              /\ hname'[routes[c]] \in Names
              /\ engines'[hname'[routes[c]]] = routes[c]
<1>1. /\ made' = made + 1 /\ made + 1 \in Handles
      /\ hname' = [hname EXCEPT ![made + 1] = n]
      /\ proc' = [proc EXCEPT ![made + 1] = p]
      /\ engines' = [engines EXCEPT ![n] = made + 1]
  <2>1. made \in Nat /\ made < MaxHandles
    BY EntriesAreMade DEF NewHandle
  <2>2. made + 1 \in Handles
    BY <2>1, RoutingAssumption DEF Handles
  <2> QED
    BY <2>2 DEF NewHandle
<1>2. /\ hname'[made + 1] = n /\ proc'[made + 1] = p /\ engines'[n] = made + 1
      /\ \A h \in Handles : h # made + 1 => hname'[h] = hname[h] /\ proc'[h] = proc[h]
      /\ \A m \in Names : m # n => engines'[m] = engines[m]
  BY <1>1 DEF HostTables
<1>3. EntriesAreOwn'
  <2> SUFFICES ASSUME NEW m \in Names, engines'[m] # NoHandle
               PROVE  hname'[engines'[m]] = m /\ proc'[engines'[m]] # "reaped"
    BY DEF EntriesAreOwn, NoHandle
  <2>1. CASE m = n
    BY <1>2, <2>1
  <2>2. CASE m # n
    <3>1. engines'[m] = engines[m] /\ engines[m] \in Handles /\ engines[m] # made + 1
      BY <1>2, <2>2, EntriesAreMade
    <3> QED
      BY <1>2, <3>1 DEF TablesAgree, EntriesAreOwn
  <2> QED
    BY <2>1, <2>2
<1>4. ProcessesAreEntered'
  <2> SUFFICES ASSUME NEW h \in Handles, proc'[h] \in {"running", "exited"}
               PROVE  hname'[h] \in Names /\ engines'[hname'[h]] = h
    BY DEF ProcessesAreEntered, Handles
  <2>1. CASE h = made + 1
    BY <1>2, <2>1
  <2>2. CASE h # made + 1
    <3>1. hname[h] \in Names /\ engines[hname[h]] = h
      BY <1>2, <2>2 DEF TablesAgree, ProcessesAreEntered
    <3>2. hname[h] # n
      BY <3>1 DEF Handles, NoHandle
    <3> QED
      BY <1>2, <2>2, <3>1, <3>2
  <2> QED
    BY <2>1, <2>2
<1>5. UnmadeAreBlank'
  <2>1. \A h \in Handles : h > made + 1 => h > made /\ h # made + 1
    BY EntriesAreMade DEF Handles
  <2> QED
    BY <1>1, <1>2, <2>1 DEF TablesAgree, UnmadeAreBlank, Handles
<1>6. ASSUME NEW c \in Ctxs, routes[c] # NoHandle
      PROVE  hname'[routes[c]] \in Names /\ engines'[hname'[routes[c]]] = routes[c]
  <2>1. routes[c] \in Handles /\ routes[c] # made + 1
    BY <1>6, EntriesAreMade
  <2>2. hname[routes[c]] \in Names /\ engines[hname[routes[c]]] = routes[c]
    BY <1>6 DEF TablesAgree, RoutesAreEntered
  <2>3. hname[routes[c]] # n
    BY <1>6, <2>2
  <2> QED
    BY <1>2, <2>1, <2>2, <2>3
<1> QED
  BY <1>2, <1>3, <1>4, <1>5, <1>6

LEMMA SelectAgrees ==
  ASSUME TypeInv, TablesAgree, NEW g \in Calls, SelectEngine(g)
  PROVE  TablesAgree'
<1> DEFINE c == call[g].ctx
           n == call[g].name
<1>t. HostTables(made)
  BY HostTablesTyped DEF TypeInv
<1>1. CASE UNCHANGED host
  BY <1>1 DEF host, TablesAgree, EntriesAreOwn, ProcessesAreEntered, RoutesAreEntered,
              UnmadeAreBlank
<1>2. CASE /\ n \in Catalog /\ engines[n] # NoHandle
           /\ routes' = [routes EXCEPT ![c] = engines[n]]
           /\ UNCHANGED <<made, hname, proc, obj, engines>>
  <2>1. n \in Names /\ hname[engines[n]] = n
    BY <1>2, RoutingAssumption DEF TablesAgree, EntriesAreOwn
  <2>2. \A d \in Ctxs : routes'[d] = IF d = c THEN engines[n] ELSE routes[d]
    BY <1>2, <1>t DEF HostTables
  <2>3. ASSUME NEW d \in Ctxs, routes'[d] # NoHandle
        PROVE  hname[routes'[d]] \in Names /\ engines[hname[routes'[d]]] = routes'[d]
    <3>1. CASE d = c
      BY <2>1, <2>2, <3>1
    <3>2. CASE d # c
      <4>1. routes'[d] = routes[d]
        BY <2>2, <3>2
      <4> QED
        BY <2>3, <4>1 DEF TablesAgree, RoutesAreEntered
    <3> QED
      BY <3>1, <3>2
  <2>4. RoutesAreEntered'
    BY <1>2, <2>3 DEF RoutesAreEntered, NoHandle
  <2> QED
    BY <1>2, <2>4 DEF TablesAgree, EntriesAreOwn, ProcessesAreEntered, UnmadeAreBlank
<1>3. CASE /\ n \in Catalog /\ engines[n] = NoHandle
           /\ NewHandle(n, "running")
           /\ routes' = [routes EXCEPT ![c] = made + 1]
  <2>1. n \in Names
    BY <1>3, RoutingAssumption
  <2>2. /\ EntriesAreOwn' /\ ProcessesAreEntered' /\ UnmadeAreBlank'
        /\ hname'[made + 1] = n /\ engines'[n] = made + 1
        /\ \A d \in Ctxs : routes[d] # NoHandle =>
             /\ hname'[routes[d]] \in Names
             /\ engines'[hname'[routes[d]]] = routes[d]
    BY <1>3, <1>t, <2>1, NewHandleAgrees
  <2>3. \A d \in Ctxs : routes'[d] = IF d = c THEN made + 1 ELSE routes[d]
    BY <1>3, <1>t DEF HostTables
  <2>4. RoutesAreEntered'
    BY <2>1, <2>2, <2>3 DEF RoutesAreEntered, NoHandle
  <2> QED
    BY <2>2, <2>4 DEF TablesAgree
<1> QED
  BY <1>1, <1>2, <1>3 DEF SelectEngine

LEMMA RegisterAgrees ==
  ASSUME TypeInv, TablesAgree, NEW n \in Names, RegisterComponent(n)
  PROVE  TablesAgree'
<1>1. CASE UNCHANGED <<made, hname, proc, engines>>
  BY <1>1 DEF RegisterComponent, TablesAgree, EntriesAreOwn, ProcessesAreEntered,
              RoutesAreEntered, UnmadeAreBlank
<1>2. CASE engines[n] = NoHandle /\ NewHandle(n, "none")
  <2>1. HostTables(made) /\ routes' = routes
    BY HostTablesTyped DEF TypeInv, RegisterComponent
  <2>2. /\ EntriesAreOwn' /\ ProcessesAreEntered' /\ UnmadeAreBlank'
        /\ \A c \in Ctxs : routes[c] # NoHandle =>
             /\ hname'[routes[c]] \in Names
             /\ engines'[hname'[routes[c]]] = routes[c]
    BY <1>2, <2>1, NewHandleAgrees
  <2>3. RoutesAreEntered'
    BY <2>1, <2>2 DEF RoutesAreEntered, NoHandle
  <2> QED
    BY <2>2, <2>3 DEF TablesAgree
<1> QED
  BY <1>1, <1>2 DEF RegisterComponent

\* The reaper deletes by name, and the name's entry is the reaped handle.
LEMMA ReapAgrees ==
  ASSUME TypeInv, TablesAgree, NEW h \in Handles, Reap(h)
  PROVE  TablesAgree'
<1>1. /\ proc[h] = "exited" /\ UNCHANGED <<made, hname>>
      /\ engines' = [engines EXCEPT ![hname[h]] = NoHandle]
      /\ routes' = [c \in Ctxs |-> IF routes[c] = h THEN NoHandle ELSE routes[c]]
      /\ \A x \in Handles : proc'[x] = IF x = h THEN "reaped" ELSE proc[x]
  BY DEF Reap, TypeInv, TypeOK
<1>2. hname[h] \in Names /\ engines[hname[h]] = h
  BY <1>1 DEF TablesAgree, ProcessesAreEntered
<1>3. \A n \in Names : engines'[n] = IF n = hname[h] THEN NoHandle ELSE engines[n]
  BY <1>1 DEF TypeInv, TypeOK
<1>4. EntriesAreOwn'
  <2> SUFFICES ASSUME NEW n \in Names, engines'[n] # NoHandle
               PROVE  hname[engines'[n]] = n /\ proc'[engines'[n]] # "reaped"
    BY <1>1 DEF EntriesAreOwn, NoHandle
  <2>1. engines'[n] = engines[n] /\ n # hname[h]
    BY <1>3
  <2>2. hname[engines[n]] = n /\ proc[engines[n]] # "reaped" /\ engines[n] # h
    BY <2>1 DEF TablesAgree, EntriesAreOwn
  <2>3. engines[n] \in Handles
    BY <2>1, HostTablesTyped, EntriesAreMade DEF TypeInv
  <2> QED
    BY <1>1, <2>1, <2>2, <2>3
<1>5. ProcessesAreEntered'
  <2> SUFFICES ASSUME NEW x \in Handles, proc'[x] \in {"running", "exited"}
               PROVE  hname[x] \in Names /\ engines'[hname[x]] = x
    BY <1>1 DEF ProcessesAreEntered, Handles
  <2>1. x # h /\ hname[x] \in Names /\ engines[hname[x]] = x
    BY <1>1 DEF TablesAgree, ProcessesAreEntered
  <2> QED
    BY <1>2, <1>3, <2>1
<1>6. RoutesAreEntered'
  <2> SUFFICES ASSUME NEW c \in Ctxs, routes'[c] # NoHandle
               PROVE  hname[routes'[c]] \in Names /\ engines'[hname[routes'[c]]] = routes'[c]
    BY <1>1 DEF RoutesAreEntered, NoHandle
  <2>1. routes'[c] = routes[c] /\ routes[c] # h
    BY <1>1
  <2>2. hname[routes[c]] \in Names /\ engines[hname[routes[c]]] = routes[c]
    BY <2>1 DEF TablesAgree, RoutesAreEntered
  <2> QED
    BY <1>2, <1>3, <2>1, <2>2
<1>7. UnmadeAreBlank'
  BY <1>1 DEF TablesAgree, UnmadeAreBlank, ProcessesAreEntered, Handles
<1> QED
  BY <1>4, <1>5, <1>6, <1>7 DEF TablesAgree

\* A step of a call leaves the tables alone, selects, or drops a route.
LEMMA CallAgrees ==
  ASSUME TypeInv, TablesAgree, NEW g \in Calls,
         ClientCall(g) \/ KeyStep(g) \/ ControlStep(g)
  PROVE  TablesAgree'
<1>1. CASE SelectEngine(g)
  BY <1>1, SelectAgrees
<1>2. ASSUME NEW c \in Ctxs, Destroy(g, c)
      PROVE  TablesAgree'
  <2>1. /\ UNCHANGED <<made, hname, proc, engines>>
        /\ \A d \in Ctxs : routes'[d] = IF d = c THEN NoHandle ELSE routes[d]
    BY <1>2 DEF Destroy, TypeInv, TypeOK
  <2> QED
    BY <2>1 DEF TablesAgree, EntriesAreOwn, ProcessesAreEntered, RoutesAreEntered,
                UnmadeAreBlank, NoHandle
<1>3. CASE UNCHANGED host
  BY <1>3 DEF host, TablesAgree, EntriesAreOwn, ProcessesAreEntered, RoutesAreEntered,
              UnmadeAreBlank
<1>4. KeyStep(g) => UNCHANGED host
  BY DEF KeyStep, ReadRoute, TryV2, SendToEngine, EngineReplies, EngineCallFails,
         RunSession
<1>5. ControlStep(g) => SelectEngine(g) \/ UNCHANGED host
  BY DEF ControlStep, ReadRoute, EngineAnswersFocus, NotifyFocusIn, NotifyFocusOut,
         DestroyDeletes
<1>6. ClientCall(g) => (\E c \in Ctxs : Destroy(g, c)) \/ UNCHANGED host
  BY DEF ClientCall, FocusIn, FocusOut, SetEngine, ProcessKeyEvent
<1> QED
  BY <1>1, <1>2, <1>3, <1>4, <1>5, <1>6

LEMMA StepAgrees ==
  ASSUME TypeInv, TablesAgree, [Next]_vars
  PROVE  TablesAgree'
<1>1. ASSUME NEW h \in Handles, EngineExits(h)
      PROVE  TablesAgree'
  <2>1. /\ proc[h] = "running" /\ UNCHANGED <<made, hname, engines, routes>>
        /\ \A x \in Handles : proc'[x] = IF x = h THEN "exited" ELSE proc[x]
    BY <1>1 DEF EngineExits, TypeInv, TypeOK
  <2>2. \A n \in Names : engines[n] # NoHandle => engines[n] \in Handles
    BY HostTablesTyped, EntriesAreMade DEF TypeInv
  <2>3. EntriesAreOwn'
    BY <2>1, <2>2 DEF TablesAgree, EntriesAreOwn, NoHandle
  <2>4. ProcessesAreEntered' /\ UnmadeAreBlank'
    BY <2>1 DEF TablesAgree, ProcessesAreEntered, UnmadeAreBlank, Handles
  <2>5. RoutesAreEntered'
    BY <2>1 DEF TablesAgree, RoutesAreEntered, NoHandle
  <2> QED
    BY <2>3, <2>4, <2>5 DEF TablesAgree
<1>2. CASE UNCHANGED host
  BY <1>2 DEF host, TablesAgree, EntriesAreOwn, ProcessesAreEntered, RoutesAreEntered,
              UnmadeAreBlank
<1>3. \/ UNCHANGED host
      \/ \E g \in Calls : ClientCall(g) \/ KeyStep(g) \/ ControlStep(g)
      \/ \E n \in Names : RegisterComponent(n)
      \/ \E h \in Handles : EngineExits(h) \/ Reap(h)
  BY DEF Next, vars, EngineProcess, CreateInputContext, EngineHandlesKey, HandleSignal,
         EmitSignal
<1> QED
  BY <1>1, <1>2, <1>3, CallAgrees, RegisterAgrees, ReapAgrees

LEMMA TablesAlwaysAgree == Spec => [](TypeInv /\ TablesAgree)
<1>1. Init => TablesAgree
  BY DEF Init, TablesAgree, EntriesAreOwn, ProcessesAreEntered, RoutesAreEntered,
         UnmadeAreBlank, NoHandle
<1>2. TypeInv /\ TablesAgree /\ [Next]_vars => TablesAgree'
  BY StepAgrees
<1>3. Spec => []TypeInv
  BY RoutingTypeCorrect, PTL DEF TypeInv
<1> QED
  BY <1>1, <1>2, <1>3, PTL DEF Spec

(* A route never points at an Engine the host has forgotten or reaped.     *)
THEOREM RoutesStayLive == Spec => []RoutesAreLive
<1>1. TypeInv /\ TablesAgree => RoutesAreLive
  BY DEF TablesAgree, EntriesAreOwn, RoutesAreEntered, RoutesAreLive
<1> QED
  BY <1>1, TablesAlwaysAgree, PTL

(* No interleaving of selecting, registering, crashing and reaping leaves  *)
(* an engine with two processes.                                           *)
THEOREM EnginesHaveOneProcess == Spec => []OneProcessPerEngine
<1>1. TablesAgree => OneProcessPerEngine
  <2> SUFFICES ASSUME TablesAgree, NEW n \in Names
               PROVE  Cardinality({h \in Handles : /\ hname[h] = n
                                     /\ proc[h] \in {"running", "exited"}}) <= 1
    BY DEF OneProcessPerEngine
  <2> DEFINE S == {h \in Handles : hname[h] = n /\ proc[h] \in {"running", "exited"}}
  <2>1. \A h \in S : h = engines[n]
    BY DEF TablesAgree, ProcessesAreEntered
  <2>2. S = {} \/ S = {engines[n]}
    BY <2>1
  <2>3. Cardinality(S) = 0 \/ Cardinality(S) = 1
    BY <2>2, FS_EmptySet, FS_Singleton
  <2> QED
    BY <2>3
<1> QED
  BY <1>1, TablesAlwaysAgree, PTL
-----------------------------------------------------------------------------
(* A keystroke and the call that carries it.  The engine answers a key at  *)
(* most once and acts on none it has not answered; a call that has not     *)
(* asked the engine yet, or has been declined, finds the key untouched     *)
(* unless it gave up on the engine.                                        *)
AtMostOne(tiers) == tiers = {} \/ \E t \in Tiers : tiers = {t}

KeyOk(k) ==
  /\ k > keys => acted[k] = {} /\ answer[k] = "none"
  /\ k \in asked => answer[k] = "none" /\ (k \notin gaveUp => acted[k] = {})
  /\ k \notin gaveUp => AtMostOne(acted[k])

CallOk(g) ==
  LET k == call[g].key IN
  /\ call[g].pc \in {"v2", "keyRoute", "send"} =>
       k \notin asked /\ k \notin gaveUp /\ answer[k] = "none" /\ acted[k] = {}
  /\ call[g].pc = "await" =>
       k \notin gaveUp /\ (answer[k] = "declined" => acted[k] = {})
  /\ call[g].pc = "session" => k \in gaveUp \/ (acted[k] = {} /\ k \notin asked)

KeysDiffer ==
  \A g, f \in Calls :
    call[g].pc \in KeyPC /\ call[f].pc \in KeyPC /\ call[g].key = call[f].key => g = f

KeyInv ==
  /\ \A k \in Keys : KeyOk(k)
  /\ \A g \in Calls : CallOk(g)
  /\ KeysDiffer

LEMMA OneTier == AtMostOne({}) /\ \A t \in Tiers : AtMostOne({t})
BY DEF AtMostOne

\* A step that touches no keystroke and puts no call inside of one.
LEMMA NoKeyTouched ==
  ASSUME KeyInv, UNCHANGED keyed,
         \A g \in Calls : call'[g] = call[g] \/ call'[g].pc \notin KeyPC
  PROVE  KeyInv'
<1>1. UNCHANGED <<keys, asked, answer, acted, gaveUp>>
  BY DEF keyed
<1>2. \A k \in Keys : KeyOk(k)'
  BY <1>1 DEF KeyInv, KeyOk
<1>3. ASSUME NEW g \in Calls
      PROVE  CallOk(g)'
  <2>1. CASE call'[g] = call[g]
    BY <1>1, <2>1 DEF KeyInv, CallOk
  <2>2. CASE call'[g].pc \notin KeyPC
    BY <2>2 DEF CallOk, KeyPC
  <2> QED
    BY <2>1, <2>2
<1>4. KeysDiffer'
  BY DEF KeyInv, KeysDiffer
<1> QED
  BY <1>2, <1>3, <1>4 DEF KeyInv, Keys

\* A step that touches one keystroke: the others and their calls stay as
\* they are.
LEMMA OneKeyTouched ==
  ASSUME TypeInv, KeyInv, NEW k \in Keys, keys' = keys,
         \A j \in Keys \ {k} :
           /\ acted'[j] = acted[j] /\ answer'[j] = answer[j]
           /\ (j \in asked' <=> j \in asked) /\ (j \in gaveUp' <=> j \in gaveUp),
         \A g \in Calls :
           \/ call'[g] = call[g]
           \/ call'[g].pc \notin KeyPC
           \/ call[g].pc \in KeyPC /\ call'[g].key = call[g].key,
         \A g \in Calls : call[g].pc \in KeyPC /\ call[g].key # k => call'[g] = call[g],
         KeyOk(k)', \A g \in Calls : call[g].pc \in KeyPC /\ call[g].key = k => CallOk(g)'
  PROVE  KeyInv'
<1>1. \A j \in Keys : KeyOk(j)'
  <2> SUFFICES ASSUME NEW j \in Keys \ {k}
               PROVE  KeyOk(j)'
    OBVIOUS
  <2> QED
    BY DEF KeyInv, KeyOk
<1>2. ASSUME NEW g \in Calls
      PROVE  CallOk(g)'
  <2>1. CASE call[g].pc \in KeyPC /\ call[g].key = k
    BY <2>1
  <2>2. CASE call[g].pc \in KeyPC /\ call[g].key # k
    <3>1. call[g].key \in Keys \ {k} /\ call'[g] = call[g]
      BY <2>2, RoutingAssumption DEF TypeInv, TypeOK, CallsAreAbout, Keys
    <3> QED
      BY <3>1 DEF KeyInv, CallOk
  <2>3. CASE call[g].pc \notin KeyPC
    <3>1. call'[g].pc \notin KeyPC
      BY <2>3
    <3> QED
      BY <3>1 DEF CallOk, KeyPC
  <2> QED
    BY <2>1, <2>2, <2>3
<1>3. KeysDiffer'
  <2> SUFFICES ASSUME NEW g \in Calls, NEW f \in Calls,
                      call'[g].pc \in KeyPC, call'[f].pc \in KeyPC, call'[g].key = call'[f].key
               PROVE  g = f
    BY DEF KeysDiffer
  <2>1. call[g].pc \in KeyPC /\ call'[g].key = call[g].key
    OBVIOUS
  <2>2. call[f].pc \in KeyPC /\ call'[f].key = call[f].key
    OBVIOUS
  <2> QED
    BY <2>1, <2>2 DEF KeyInv, KeysDiffer
<1> QED
  BY <1>1, <1>2, <1>3 DEF KeyInv, Keys

LEMMA ClientCallOnce ==
  ASSUME TypeInv, KeyInv, NEW g \in Calls, ClientCall(g)
  PROVE  KeyInv'
<1>1. ASSUME NEW c \in Ctxs, ProcessKeyEvent(g, c)
      PROVE  KeyInv'
  <2> DEFINE k == keys + 1
  <2>1. /\ keys \in Nat /\ k \in Keys /\ keys' = k /\ k > keys
        /\ asked \subseteq 1..keys /\ gaveUp \subseteq 1..keys
    BY <1>1, RoutingAssumption DEF ProcessKeyEvent, TypeInv, TypeOK, Keys
  <2>2. /\ UNCHANGED <<asked, answer, acted, gaveUp>>
        /\ call'[g] = InCall("v2", c, NoName, NoHandle, k)
        /\ \A f \in Calls : f # g => call'[f] = call[f]
    BY <1>1 DEF ProcessKeyEvent, TypeInv, TypeOK
  <2>3. k \notin asked /\ k \notin gaveUp /\ answer[k] = "none" /\ acted[k] = {}
    BY <2>1 DEF KeyInv, KeyOk
  <2>4. ASSUME NEW j \in Keys
        PROVE  KeyOk(j)'
    <3>1. j > k => j > keys
      BY <2>1 DEF Keys
    <3> QED
      BY <2>1, <2>2, <3>1 DEF KeyInv, KeyOk
  <2>5. ASSUME NEW f \in Calls
        PROVE  CallOk(f)'
    <3>1. CASE f = g
      BY <2>2, <2>3, <3>1 DEF CallOk, InCall
    <3>2. CASE f # g
      BY <2>2, <3>2 DEF KeyInv, CallOk
    <3> QED
      BY <3>1, <3>2
  <2>6. KeysDiffer'
    <3>1. \A f \in Calls : f # g /\ call'[f].pc \in KeyPC => call'[f].key # k
      BY <2>1, <2>2 DEF TypeInv, CallsAreAbout
    <3>2. call'[g].key = k
      BY <2>2 DEF InCall
    <3> QED
      BY <2>2, <3>1, <3>2 DEF KeyInv, KeysDiffer
  <2> QED
    BY <2>4, <2>5, <2>6 DEF KeyInv, Keys
<1>2. ASSUME NEW c \in Ctxs,
             \/ FocusIn(g, c) \/ FocusOut(g, c) \/ Destroy(g, c)
             \/ \E n \in Names \union {NoName} : SetEngine(g, c, n)
      PROVE  KeyInv'
  <2>1. /\ UNCHANGED keyed
        /\ \/ UNCHANGED call
           \/ \E pc \in ControlPC, n \in Names \union {NoName} : Enter(g, pc, c, n)
    BY <1>2 DEF FocusIn, FocusOut, Destroy, SetEngine, ControlPC, TypeInv, TypeOK
  <2>2. \A f \in Calls : call'[f] = call[f] \/ call'[f].pc \notin KeyPC
    BY <2>1 DEF Enter, InCall, KeyPC, ControlPC, TypeInv, TypeOK
  <2> QED
    BY <2>1, <2>2, NoKeyTouched
<1> QED
  BY <1>1, <1>2 DEF ClientCall

LEMMA ControlStepOnce ==
  ASSUME TypeInv, KeyInv, NEW g \in Calls, ControlStep(g)
  PROVE  KeyInv'
<1>1. UNCHANGED keyed
  BY DEF ControlStep, ReadRoute, EngineAnswersFocus, SelectEngine, NotifyFocusIn,
         NotifyFocusOut, DestroyDeletes
<1>2. call'[g].pc \notin KeyPC /\ \A f \in Calls : f # g => call'[f] = call[f]
  <2> USE DEF Step, Leave, Idle, InCall, KeyPC
  <2>1. call \in [Calls -> Call]
    BY DEF TypeInv, TypeOK
  <2>2. CASE call[g].pc # "keyRoute" /\ ReadRoute(g)
    BY <2>1, <2>2 DEF ReadRoute
  <2>3. CASE EngineAnswersFocus(g)
    BY <2>1, <2>3 DEF EngineAnswersFocus
  <2>4. CASE SelectEngine(g)
    BY <2>1, <2>4 DEF SelectEngine
  <2>5. CASE NotifyFocusIn(g) \/ NotifyFocusOut(g) \/ DestroyDeletes(g)
    BY <2>1, <2>5 DEF NotifyFocusIn, NotifyFocusOut, DestroyDeletes
  <2> QED
    BY <2>2, <2>3, <2>4, <2>5 DEF ControlStep
<1>3. \A f \in Calls : call'[f] = call[f] \/ call'[f].pc \notin KeyPC
  BY <1>2
<1> QED
  BY <1>1, <1>3, NoKeyTouched

\* What a call inside a keystroke does next, and to its keystroke alone.
LEMMA KeyStepOnce ==
  ASSUME TypeInv, KeyInv, NEW g \in Calls, KeyStep(g)
  PROVE  KeyInv'
<1>1. call[g].pc \in KeyPC /\ call[g].key \in Keys /\ ~(call[g].key > keys)
  <2>1. call[g].pc \in KeyPC /\ call[g].pc # "idle"
    BY DEF KeyStep, TryV2, SendToEngine, EngineReplies, EngineCallFails, RunSession,
           KeyPC
  <2> QED
    BY <2>1, RoutingAssumption DEF TypeInv, TypeOK, CallsAreAbout, Keys
<1>k. PICK k \in Keys : k = call[g].key
  BY <1>1
<1>2. KeyOk(k) /\ CallOk(g)
  BY DEF KeyInv
<1>3. \A f \in Calls : call[f].pc \in KeyPC /\ call[f].key = k => f = g
  BY <1>1, <1>k DEF KeyInv, KeysDiffer
<1>4. call \in [Calls -> Call] /\ acted \in [Keys -> SUBSET Tiers]
  BY DEF TypeInv, TypeOK
<1>5. ASSUME call'[g].pc \notin KeyPC \/ call'[g].key = k,
             \A f \in Calls : f # g => call'[f] = call[f],
             UNCHANGED <<keys, answer>>,
             \A j \in Keys : j # k => /\ acted'[j] = acted[j]
                                      /\ (j \in asked' <=> j \in asked)
                                      /\ (j \in gaveUp' <=> j \in gaveUp),
             KeyOk(k)', CallOk(g)'
      PROVE  KeyInv'
  <2>1. \A f \in Calls : \/ call'[f] = call[f]
                         \/ call'[f].pc \notin KeyPC
                         \/ call[f].pc \in KeyPC /\ call'[f].key = call[f].key
    BY <1>1, <1>k, <1>5
  <2>2. \A f \in Calls : call[f].pc \in KeyPC /\ call[f].key # k => call'[f] = call[f]
    BY <1>k, <1>5
  <2>3. \A f \in Calls : call[f].pc \in KeyPC /\ call[f].key = k => CallOk(f)'
    BY <1>3, <1>5
  <2> QED
    BY <1>5, <2>1, <2>2, <2>3, OneKeyTouched
<1>6. CASE call[g].pc = "keyRoute" /\ ReadRoute(g)
  <2>1. UNCHANGED <<keys, asked, answer, acted, gaveUp>>
    BY <1>6 DEF ReadRoute, keyed
  <2>2. /\ call'[g].pc \in {"send", "session"} /\ call'[g].key = k
        /\ \A f \in Calls : f # g => call'[f] = call[f]
    BY <1>k, <1>4, <1>6 DEF ReadRoute, InCall
  <2>3. KeyOk(k)' /\ CallOk(g)'
    BY <1>2, <1>k, <1>6, <2>1, <2>2 DEF KeyOk, CallOk
  <2> QED
    BY <1>5, <2>1, <2>2, <2>3
<1>7. CASE TryV2(g)
  <2>1. acted[k] = {} /\ k \notin asked /\ k \notin gaveUp /\ answer[k] = "none"
    BY <1>2, <1>k, <1>7 DEF TryV2, CallOk
  <2>2. /\ UNCHANGED <<keys, asked, answer, gaveUp>>
        /\ \/ /\ acted' = [acted EXCEPT ![k] = @ \union {"v2"}]
              /\ call' = [call EXCEPT ![g] = Idle]
           \/ /\ acted' = acted
              /\ call' = [call EXCEPT ![g] = InCall("keyRoute", call[g].ctx, call[g].name,
                                                    call[g].handle, call[g].key)]
    BY <1>k, <1>7 DEF TryV2, Step, Leave
  <2>3. /\ call'[g].pc = "idle" \/ (call'[g].pc = "keyRoute" /\ call'[g].key = k /\ acted' = acted)
        /\ \A f \in Calls : f # g => call'[f] = call[f]
    BY <1>k, <1>4, <2>2 DEF Idle, InCall
  <2>4. CallOk(g)'
    BY <2>1, <2>2, <2>3 DEF CallOk
  <2>5. /\ acted'[k] = {} \/ acted'[k] = {"v2"}
        /\ \A j \in Keys : j # k => acted'[j] = acted[j]
    BY <1>4, <2>1, <2>2
  <2>6. KeyOk(k)'
    <3>1. AtMostOne(acted'[k])
      BY <2>5, OneTier DEF Tiers
    <3> QED
      BY <1>1, <1>k, <2>1, <2>2, <3>1 DEF KeyOk, AtMostOne
  <2> QED
    BY <1>5, <2>2, <2>3, <2>4, <2>5, <2>6 DEF KeyPC
<1>8. CASE SendToEngine(g)
  <2>1. acted[k] = {} /\ k \notin gaveUp /\ answer[k] = "none"
    BY <1>2, <1>k, <1>8 DEF SendToEngine, CallOk
  <2>2. UNCHANGED <<keys, answer, acted, gaveUp>> /\ asked' = asked \union {k}
    BY <1>k, <1>8 DEF SendToEngine
  <2>3. /\ call'[g].pc = "await" /\ call'[g].key = k
        /\ \A f \in Calls : f # g => call'[f] = call[f]
    BY <1>k, <1>4, <1>8 DEF SendToEngine, Step, InCall
  <2>4. KeyOk(k)' /\ CallOk(g)'
    BY <1>2, <2>1, <2>2, <2>3 DEF KeyOk, CallOk
  <2> QED
    BY <1>5, <2>2, <2>3, <2>4
<1>9. CASE EngineReplies(g)
  <2>1. UNCHANGED <<keys, asked, answer, acted, gaveUp>>
    BY <1>9 DEF EngineReplies, keyed
  <2>2. /\ \/ call'[g].pc = "idle"
           \/ /\ call'[g].pc = "session" /\ call'[g].key = k
              /\ call[g].pc = "await" /\ answer[k] = "declined"
        /\ \A f \in Calls : f # g => call'[f] = call[f]
    BY <1>k, <1>4, <1>9 DEF EngineReplies, Step, Leave, Idle, InCall
  <2>3. KeyOk(k)' /\ CallOk(g)'
    BY <1>2, <1>k, <2>1, <2>2 DEF KeyOk, CallOk
  <2> QED
    BY <1>5, <2>1, <2>2, <2>3 DEF KeyPC
<1>10. CASE EngineCallFails(g)
  <2>1. UNCHANGED <<keys, asked, answer, acted>> /\ gaveUp' = gaveUp \union {k}
    BY <1>k, <1>10 DEF EngineCallFails
  <2>2. /\ call'[g].pc = "session" /\ call'[g].key = k
        /\ \A f \in Calls : f # g => call'[f] = call[f]
    BY <1>k, <1>4, <1>10 DEF EngineCallFails, Step, InCall
  <2>3. KeyOk(k)' /\ CallOk(g)'
    BY <1>2, <2>1, <2>2 DEF KeyOk, CallOk
  <2> QED
    BY <1>5, <2>1, <2>2, <2>3
<1>11. CASE RunSession(g)
  <2>1. k \in gaveUp \/ (acted[k] = {} /\ k \notin asked)
    BY <1>2, <1>k, <1>11 DEF RunSession, CallOk
  <2>2. /\ UNCHANGED <<keys, asked, answer, gaveUp>>
        /\ acted' = acted \/ acted' = [acted EXCEPT ![k] = @ \union {"session"}]
    BY <1>k, <1>11 DEF RunSession
  <2>3. call'[g].pc = "idle" /\ \A f \in Calls : f # g => call'[f] = call[f]
    BY <1>4, <1>11 DEF RunSession, Leave, Idle, InCall
  <2>4. CallOk(g)'
    BY <2>3 DEF CallOk
  <2>5. /\ k \notin gaveUp => acted'[k] = {} \/ acted'[k] = {"session"}
        /\ \A j \in Keys : j # k => acted'[j] = acted[j]
    BY <1>4, <2>1, <2>2
  <2>6. KeyOk(k)'
    <3>1. k \notin gaveUp => AtMostOne(acted'[k])
      BY <2>5, OneTier DEF Tiers
    <3> QED
      BY <1>1, <1>2, <1>k, <2>1, <2>2, <3>1 DEF KeyOk, AtMostOne
  <2> QED
    BY <1>5, <2>2, <2>3, <2>4, <2>5, <2>6 DEF KeyPC
<1> QED
  BY <1>6, <1>7, <1>8, <1>9, <1>10, <1>11 DEF KeyStep

\* The engine answers a keystroke it has: no call is about to send it again.
LEMMA EngineHandlesOnce ==
  ASSUME TypeInv, KeyInv, NEW k \in Keys, EngineHandlesKey(k)
  PROVE  KeyInv'
<1>1. k \in asked /\ asked' = asked \ {k} /\ UNCHANGED <<call, keys, gaveUp>>
  BY DEF EngineHandlesKey
<1>2. /\ \A j \in Keys : j # k => acted'[j] = acted[j] /\ answer'[j] = answer[j]
      /\ \/ answer'[k] = "consumed" /\ acted'[k] = acted[k] \union {"engine"}
         \/ answer'[k] = "declined" /\ acted'[k] = acted[k]
  BY DEF EngineHandlesKey, TypeInv, TypeOK
<1>3. ~(k > keys) /\ keys' = keys
  BY <1>1, RoutingAssumption DEF TypeInv, TypeOK
<1>4. KeyOk(k)'
  <2>1. KeyOk(k)
    BY DEF KeyInv
  <2>2. k \notin gaveUp => acted[k] = {}
    BY <1>1, <2>1 DEF KeyOk
  <2>3. k \notin gaveUp => acted'[k] = {} \/ acted'[k] = {"engine"}
    BY <1>2, <2>2
  <2>4. k \notin gaveUp => AtMostOne(acted'[k])
    BY <2>3, OneTier DEF Tiers
  <2> QED
    BY <1>1, <1>3, <2>4 DEF KeyOk, AtMostOne
<1>5. ASSUME NEW g \in Calls, call[g].key = k
      PROVE  CallOk(g)'
  BY <1>1, <1>2, <1>5 DEF KeyInv, KeyOk, CallOk
<1> QED
  BY <1>1, <1>2, <1>3, <1>4, <1>5, OneKeyTouched

(* A keystroke is acted on by one tier, unless its call to the engine was  *)
(* given up: however many calls are in flight and however late the engine  *)
(* answers, it is never typed by the engine and by the session.            *)
THEOREM KeysAreActedOnOnce == Spec => []OneTierPerKey
<1>1. Init => KeyInv
  BY OneTier DEF Init, KeyInv, KeyOk, CallOk, KeysDiffer, Idle, InCall, KeyPC
<1>2. TypeInv /\ KeyInv /\ [Next]_vars => KeyInv'
  <2> SUFFICES ASSUME TypeInv, KeyInv, [Next]_vars
               PROVE  KeyInv'
    OBVIOUS
  <2>1. ASSUME NEW g \in Calls, ClientCall(g) \/ KeyStep(g) \/ ControlStep(g)
        PROVE  KeyInv'
    BY <2>1, ClientCallOnce, KeyStepOnce, ControlStepOnce
  <2>2. ASSUME NEW k \in Keys, EngineHandlesKey(k)
        PROVE  KeyInv'
    BY <2>2, EngineHandlesOnce
  <2>3. CASE UNCHANGED <<call, keyed>>
    BY <2>3, NoKeyTouched
  <2>4. \/ \E g \in Calls : ClientCall(g) \/ KeyStep(g) \/ ControlStep(g)
        \/ \E k \in Keys : EngineHandlesKey(k)
        \/ UNCHANGED <<call, keyed>>
    BY DEF Next, vars, EngineProcess, CreateInputContext, RegisterComponent, EngineExits,
           Reap, HandleSignal, EmitSignal
  <2> QED
    BY <2>1, <2>2, <2>3, <2>4
<1>3. TypeInv /\ KeyInv => OneTierPerKey
  <2> SUFFICES ASSUME KeyInv, NEW k \in Keys, k \notin gaveUp
               PROVE  Cardinality(acted[k]) <= 1
    BY DEF OneTierPerKey
  <2>1. acted[k] = {} \/ \E t \in Tiers : acted[k] = {t}
    BY DEF KeyInv, KeyOk, AtMostOne
  <2>2. Cardinality(acted[k]) = 0 \/ Cardinality(acted[k]) = 1
    BY <2>1, FS_EmptySet, FS_Singleton
  <2> QED
    BY <2>2
<1>4. Spec => []TypeInv
  BY RoutingTypeCorrect, PTL DEF TypeInv
<1> QED
  BY <1>1, <1>2, <1>3, <1>4, PTL DEF Spec
-----------------------------------------------------------------------------
(* Which context an engine's text goes to, when no client changes the      *)
(* engine of a focused context.  Two calls on one context do not overlap;  *)
(* a call that focuses finds the context focused with the engine it read;  *)
(* a hooked context that is not focused any more has its focus-out under   *)
(* way.  So a context is never hooked under two names.                     *)
FocusingPC == {"inRoute", "inWait", "hook"}

OneControl ==
  \A g, f \in Calls :
    call[g].pc \in ControlPC /\ call[f].pc \in ControlPC /\ call[g].ctx = call[f].ctx => g = f
ControlLive ==
  \A g \in Calls : call[g].pc \in ControlPC => ctx[call[g].ctx] = "live"
FocusingFinds ==
  \A g \in Calls : call[g].pc \in FocusingPC =>
    call[g].ctx \in focused /\ engine[call[g].ctx] = call[g].name
Leaving(c, n) ==
  \E g \in Calls : call[g].ctx = c /\ call[g].name = n /\ call[g].pc \in LeavingPC
HookedOk(c, n) ==
  /\ ctx[c] # "none"
  /\ ctx[c] = "live" => (c \in focused /\ engine[c] = n) \/ Leaving(c, n)
HookedRightly == \A n \in Names : hooked[n] # NoCtx => HookedOk(hooked[n], n)
HookedOnce ==
  \A n, m \in Names : hooked[n] = hooked[m] /\ hooked[n] # NoCtx => n = m

\* No context is twice in what is left to emit for one signal.
EmittedOnce == \A p, q \in emitting : p[2] = q[2] => p = q

HookInv ==
  OneControl /\ ControlLive /\ FocusingFinds /\ HookedRightly /\ HookedOnce /\ EmittedOnce

\* A step that leaves contexts and hooks alone, ends calls that are not
\* about to drop a hook, and moves others along the way they are on.
GoesOn(f) ==
  \/ call'[f] = call[f]
  \/ call'[f].pc \notin ControlPC /\ call[f].pc \notin LeavingPC
  \/ /\ call'[f].ctx = call[f].ctx /\ call'[f].name = call[f].name
     /\ call[f].pc \in ControlPC /\ call'[f].pc \in ControlPC
     /\ call'[f].pc \in FocusingPC => call[f].pc \in FocusingPC
     /\ call[f].pc \in LeavingPC => call'[f].pc \in LeavingPC

LEMMA HooksGoOn ==
  ASSUME HookInv, UNCHANGED <<client, hooked, emitting>>, \A f \in Calls : GoesOn(f)
  PROVE  HookInv'
<1>1. UNCHANGED <<ctx, focused, engine, hooked, emitting>>
  BY DEF client
<1>2. \A f \in Calls : call'[f].pc \in ControlPC =>
        call[f].pc \in ControlPC /\ call'[f].ctx = call[f].ctx /\ call'[f].name = call[f].name
  BY DEF GoesOn
<1>3. \A f \in Calls : call'[f].pc \in FocusingPC => call[f].pc \in FocusingPC
  BY DEF GoesOn, FocusingPC, ControlPC
<1>4. \A f \in Calls : call[f].pc \in LeavingPC =>
        call'[f].pc \in LeavingPC /\ call'[f].ctx = call[f].ctx /\ call'[f].name = call[f].name
  BY DEF GoesOn
<1>5. OneControl' /\ ControlLive'
  BY <1>1, <1>2 DEF HookInv, OneControl, ControlLive
<1>6. FocusingFinds'
  <2>1. FocusingPC \subseteq ControlPC
    BY DEF FocusingPC, ControlPC
  <2> QED
    BY <1>1, <1>2, <1>3, <2>1 DEF HookInv, FocusingFinds
<1>7. HookedRightly'
  <2>1. \A c, n : Leaving(c, n) => Leaving(c, n)'
    BY <1>4 DEF Leaving
  <2> QED
    BY <1>1, <2>1 DEF HookInv, HookedRightly, HookedOk
<1> QED
  BY <1>1, <1>5, <1>6, <1>7 DEF HookInv, HookedOnce, EmittedOnce

\* What holds once a client has called a method on a settled context: the
\* call is the only one on it.
LEMMA EnterControls ==
  ASSUME TypeInv, HookInv, NEW g \in Calls, NEW c \in Ctxs, NEW pc \in ControlPC, NEW n,
         Idles(g), MayCall(c), Enter(g, pc, c, n), ctx' = ctx
  PROVE  /\ OneControl' /\ ControlLive'
         /\ call'[g] = InCall(pc, c, n, NoHandle, 0)
         /\ \A f \in Calls : f # g => call'[f] = call[f]
         /\ \A d, m : Leaving(d, m) => Leaving(d, m)'
<1>1. /\ call'[g] = InCall(pc, c, n, NoHandle, 0)
      /\ \A f \in Calls : f # g => call'[f] = call[f]
  BY DEF Enter, TypeInv, TypeOK
<1>2. call'[g].ctx = c /\ call'[g].pc = pc
  BY <1>1 DEF InCall
<1>3. \A f \in Calls : call[f].ctx = c => call[f].pc \notin ControlPC
  BY DEF MayCall, Settled
<1>4. OneControl'
  BY <1>1, <1>2, <1>3 DEF HookInv, OneControl
<1>5. ControlLive'
  BY <1>1, <1>2 DEF HookInv, ControlLive, MayCall
<1>6. \A d, m : Leaving(d, m) => Leaving(d, m)'
  BY <1>1 DEF Leaving, Idles, LeavingPC
<1> QED
  BY <1>1, <1>4, <1>5, <1>6

\* On a settled context no call is on its way out or in.
LEMMA SettledHooks ==
  ASSUME HookInv, NEW c \in Ctxs, MayCall(c), NoCtx \notin Ctxs
  PROVE  /\ \A n : ~Leaving(c, n)
         /\ \A n \in Names : hooked[n] = c => c \in focused /\ engine[c] = n
         /\ \A g \in Calls : call[g].pc \in FocusingPC => call[g].ctx # c
<1>1. \A g \in Calls : call[g].ctx = c => call[g].pc \notin LeavingPC /\ call[g].pc \notin FocusingPC
  BY DEF MayCall, Settled, LeavingPC, FocusingPC, ControlPC
<1>2. \A n : ~Leaving(c, n)
  BY <1>1 DEF Leaving
<1>3. ASSUME NEW n \in Names, hooked[n] = c
      PROVE  c \in focused /\ engine[c] = n
  BY <1>2, <1>3 DEF HookInv, HookedRightly, HookedOk, MayCall
<1> QED
  BY <1>1, <1>2, <1>3

LEMMA FocusInHooks ==
  ASSUME TypeInv, HookInv, NEW g \in Calls, NEW c \in Ctxs, FocusIn(g, c)
  PROVE  HookInv'
<1>1. /\ Idles(g) /\ MayCall(c) /\ focused' = focused \union {c}
      /\ UNCHANGED <<ctx, engine, hooked, emitting>>
      /\ (engine[c] = NoName /\ UNCHANGED call) \/ Enter(g, "inRoute", c, engine[c])
  BY DEF FocusIn, bridge
<1>2. HookedOnce' /\ EmittedOnce'
  BY <1>1 DEF HookInv, HookedOnce, EmittedOnce
<1>3. CASE UNCHANGED call
  <2>1. OneControl' /\ ControlLive' /\ FocusingFinds'
    BY <1>1, <1>3 DEF HookInv, OneControl, ControlLive, FocusingFinds
  <2>2. HookedRightly'
    BY <1>1, <1>3 DEF HookInv, HookedRightly, HookedOk, Leaving
  <2> QED
    BY <1>2, <2>1, <2>2 DEF HookInv
<1>4. CASE Enter(g, "inRoute", c, engine[c])
  <2>0. "inRoute" \in ControlPC
    BY DEF ControlPC
  <2>1. /\ OneControl' /\ ControlLive'
        /\ call'[g] = InCall("inRoute", c, engine[c], NoHandle, 0)
        /\ \A f \in Calls : f # g => call'[f] = call[f]
        /\ \A d, m : Leaving(d, m) => Leaving(d, m)'
    BY <1>1, <1>4, <2>0, EnterControls
  <2>2. call'[g].ctx = c /\ call'[g].name = engine[c]
    BY <2>1 DEF InCall
  <2>3. FocusingFinds'
    BY <1>1, <2>1, <2>2 DEF HookInv, FocusingFinds
  <2>4. HookedRightly'
    BY <1>1, <2>1 DEF HookInv, HookedRightly, HookedOk
  <2> QED
    BY <1>2, <2>1, <2>3, <2>4 DEF HookInv
<1> QED
  BY <1>1, <1>3, <1>4

\* The context loses focus and its hook, if any, has a call that drops it.
LEMMA FocusOutHooks ==
  ASSUME TypeInv, HookInv, NEW g \in Calls, NEW c \in Ctxs, FocusOut(g, c)
  PROVE  HookInv'
<1>1. /\ Idles(g) /\ MayCall(c) /\ focused' = focused \ {c}
      /\ UNCHANGED <<ctx, engine, hooked, emitting>>
      /\ (engine[c] = NoName /\ UNCHANGED call) \/ Enter(g, "outRoute", c, engine[c])
  BY DEF FocusOut, bridge
<1>2. /\ \A n \in Names : hooked[n] = c => c \in focused /\ engine[c] = n
      /\ \A f \in Calls : call[f].pc \in FocusingPC => call[f].ctx # c
  BY <1>1, SettledHooks, RoutingAssumption
<1>3. HookedOnce' /\ EmittedOnce'
  BY <1>1 DEF HookInv, HookedOnce, EmittedOnce
<1>4. CASE engine[c] = NoName /\ UNCHANGED call
  <2>1. \A n \in Names : hooked[n] # c
    BY <1>2, <1>4, RoutingAssumption
  <2>2. OneControl' /\ ControlLive' /\ FocusingFinds'
    BY <1>1, <1>2, <1>4 DEF HookInv, OneControl, ControlLive, FocusingFinds
  <2>3. HookedRightly'
    BY <1>1, <1>4, <2>1 DEF HookInv, HookedRightly, HookedOk, Leaving
  <2> QED
    BY <1>3, <2>2, <2>3 DEF HookInv
<1>5. CASE Enter(g, "outRoute", c, engine[c])
  <2>0. "outRoute" \in ControlPC
    BY DEF ControlPC
  <2>1. /\ OneControl' /\ ControlLive'
        /\ call'[g] = InCall("outRoute", c, engine[c], NoHandle, 0)
        /\ \A f \in Calls : f # g => call'[f] = call[f]
        /\ \A d, m : Leaving(d, m) => Leaving(d, m)'
    BY <1>1, <1>5, <2>0, EnterControls
  <2>2. call'[g].ctx = c /\ call'[g].name = engine[c] /\ call'[g].pc = "outRoute"
    BY <2>1 DEF InCall
  <2>3. FocusingFinds'
    BY <1>1, <1>2, <2>1, <2>2 DEF HookInv, FocusingFinds, FocusingPC
  <2>4. Leaving(c, engine[c])'
    BY <1>1, <2>2 DEF Leaving, LeavingPC
  <2>5. HookedRightly'
    <3> SUFFICES ASSUME NEW n \in Names, hooked'[n] # NoCtx
                 PROVE  HookedOk(hooked[n], n)'
      BY <1>1 DEF HookedRightly
    <3>1. HookedOk(hooked[n], n) /\ hooked' = hooked
      BY <1>1 DEF HookInv, HookedRightly
    <3>2. CASE hooked[n] = c
      BY <1>1, <1>2, <2>4, <3>1, <3>2 DEF HookedOk
    <3>3. CASE hooked[n] # c
      BY <1>1, <2>1, <3>1, <3>3 DEF HookedOk
    <3> QED
      BY <3>2, <3>3
  <2> QED
    BY <1>3, <2>1, <2>3, <2>5 DEF HookInv
<1> QED
  BY <1>1, <1>4, <1>5

\* An unfocused settled context is not hooked: its engine may change.
LEMMA SetEngineHooks ==
  ASSUME TypeInv, HookInv, MidFocus = FALSE, NEW g \in Calls, NEW c \in Ctxs,
         NEW n \in Names \union {NoName}, SetEngine(g, c, n)
  PROVE  HookInv'
<1>1. /\ Idles(g) /\ MayCall(c) /\ c \notin focused
      /\ \A d \in Ctxs : d # c => engine'[d] = engine[d]
      /\ UNCHANGED <<ctx, focused, hooked, emitting>>
      /\ UNCHANGED call \/ Enter(g, "select", c, n)
  BY DEF SetEngine, bridge, TypeInv, TypeOK
<1>2. /\ \A m \in Names : hooked[m] # c
      /\ \A f \in Calls : call[f].pc \in FocusingPC => call[f].ctx # c
  BY <1>1, SettledHooks, RoutingAssumption
<1>3. \A m \in Names : hooked[m] # NoCtx => hooked[m] \in Ctxs
  BY DEF TypeInv, TypeOK
<1>4. \A f \in Calls : call[f].pc \in FocusingPC => call[f].ctx \in Ctxs
  BY DEF TypeInv, CallsAreAbout, FocusingPC
<1>5. HookedOnce' /\ EmittedOnce'
  BY <1>1 DEF HookInv, HookedOnce, EmittedOnce
<1>6. CASE UNCHANGED call
  <2>1. OneControl' /\ ControlLive'
    BY <1>1, <1>6 DEF HookInv, OneControl, ControlLive
  <2>2. FocusingFinds'
    BY <1>1, <1>2, <1>4, <1>6 DEF HookInv, FocusingFinds
  <2>3. HookedRightly'
    BY <1>1, <1>2, <1>3, <1>6 DEF HookInv, HookedRightly, HookedOk, Leaving
  <2> QED
    BY <1>5, <2>1, <2>2, <2>3 DEF HookInv
<1>7. CASE Enter(g, "select", c, n)
  <2>0. "select" \in ControlPC
    BY DEF ControlPC
  <2>1. /\ OneControl' /\ ControlLive'
        /\ call'[g] = InCall("select", c, n, NoHandle, 0)
        /\ \A f \in Calls : f # g => call'[f] = call[f]
        /\ \A d, m : Leaving(d, m) => Leaving(d, m)'
    BY <1>1, <1>7, <2>0, EnterControls
  <2>2. call'[g].pc \notin FocusingPC
    BY <2>1 DEF InCall, FocusingPC
  <2>3. FocusingFinds'
    BY <1>1, <1>2, <1>4, <2>1, <2>2 DEF HookInv, FocusingFinds
  <2>4. HookedRightly'
    BY <1>1, <1>2, <1>3, <2>1 DEF HookInv, HookedRightly, HookedOk
  <2> QED
    BY <1>5, <2>1, <2>3, <2>4 DEF HookInv
<1> QED
  BY <1>1, <1>6, <1>7

LEMMA DestroyHooks ==
  ASSUME TypeInv, HookInv, NEW g \in Calls, NEW c \in Ctxs, Destroy(g, c)
  PROVE  HookInv'
<1>1. /\ Idles(g) /\ MayCall(c) /\ Enter(g, "delete", c, NoName)
      /\ UNCHANGED <<ctx, focused, engine, hooked, emitting>>
  BY DEF Destroy, bridge, client
<1>2. "delete" \in ControlPC
  BY DEF ControlPC
<1>3. /\ OneControl' /\ ControlLive'
      /\ call'[g] = InCall("delete", c, NoName, NoHandle, 0)
      /\ \A f \in Calls : f # g => call'[f] = call[f]
      /\ \A d, m : Leaving(d, m) => Leaving(d, m)'
  BY <1>1, <1>2, EnterControls
<1>4. call'[g].pc \notin FocusingPC
  BY <1>3 DEF InCall, FocusingPC
<1>5. FocusingFinds'
  BY <1>1, <1>3, <1>4 DEF HookInv, FocusingFinds
<1>6. HookedRightly'
  BY <1>1, <1>3 DEF HookInv, HookedRightly, HookedOk
<1> QED
  BY <1>1, <1>3, <1>5, <1>6 DEF HookInv, HookedOnce, EmittedOnce

\* The context goes; the hook stays and finds it destroyed.
LEMMA DeleteHooks ==
  ASSUME TypeInv, HookInv, NEW g \in Calls, DestroyDeletes(g)
  PROVE  HookInv'
<1> DEFINE c == call[g].ctx
<1>1. /\ call[g].pc = "delete" /\ call'[g] = Idle
      /\ \A f \in Calls : f # g => call'[f] = call[f]
      /\ \A d \in Ctxs : ctx'[d] = IF d = c THEN "destroyed" ELSE ctx[d]
      /\ UNCHANGED <<focused, engine, hooked, emitting>>
  BY DEF DestroyDeletes, Leave, bridge, TypeInv, TypeOK
<1>2. call'[g].pc \notin ControlPC /\ call'[g].pc \notin FocusingPC
  BY <1>1 DEF Idle, InCall, ControlPC, FocusingPC
<1>3. OneControl'
  BY <1>1, <1>2 DEF HookInv, OneControl
<1>4. ControlLive'
  <2> SUFFICES ASSUME NEW f \in Calls, call'[f].pc \in ControlPC
               PROVE  ctx'[call'[f].ctx] = "live"
    BY DEF ControlLive
  <2>1. f # g /\ call'[f] = call[f] /\ call[f].pc \in ControlPC
    BY <1>1, <1>2
  <2>2. call[f].ctx # c
    BY <1>1, <2>1 DEF HookInv, OneControl, ControlPC
  <2>3. call[f].ctx \in Ctxs
    BY <2>1 DEF TypeInv, CallsAreAbout, ControlPC
  <2> QED
    BY <1>1, <2>1, <2>2, <2>3 DEF HookInv, ControlLive
<1>5. FocusingFinds'
  BY <1>1, <1>2 DEF HookInv, FocusingFinds
<1>6. \A d, m : Leaving(d, m) => Leaving(d, m)'
  BY <1>1 DEF Leaving, LeavingPC
<1>7. \A m \in Names : hooked[m] # NoCtx => hooked[m] \in Ctxs
  BY DEF TypeInv, TypeOK
<1>8. HookedRightly'
  BY <1>1, <1>6, <1>7 DEF HookInv, HookedRightly, HookedOk
<1> QED
  BY <1>1, <1>3, <1>4, <1>5, <1>8 DEF HookInv, HookedOnce, EmittedOnce

LEMMA CreateHooks ==
  ASSUME TypeInv, HookInv, NEW c \in Ctxs, CreateInputContext(c)
  PROVE  HookInv'
<1>1. /\ ctx[c] = "none" /\ \A d \in Ctxs : ctx'[d] = IF d = c THEN "live" ELSE ctx[d]
      /\ UNCHANGED <<focused, engine, hooked, emitting, call>>
  BY DEF CreateInputContext, bridge, TypeInv, TypeOK
<1>2. OneControl' /\ FocusingFinds' /\ HookedOnce' /\ EmittedOnce'
  BY <1>1 DEF HookInv, OneControl, FocusingFinds, HookedOnce, EmittedOnce
<1>3. ControlLive'
  <2>1. \A f \in Calls : call[f].pc \in ControlPC => call[f].ctx \in Ctxs
    BY DEF TypeInv, CallsAreAbout, ControlPC
  <2> QED
    BY <1>1, <2>1 DEF HookInv, ControlLive
<1>4. HookedRightly'
  <2>1. \A m \in Names : hooked[m] # NoCtx => hooked[m] \in Ctxs /\ hooked[m] # c
    BY <1>1 DEF TypeInv, TypeOK, HookInv, HookedRightly, HookedOk
  <2>2. \A d, m : Leaving(d, m) => Leaving(d, m)'
    BY <1>1 DEF Leaving
  <2> QED
    BY <1>1, <2>1, <2>2 DEF HookInv, HookedRightly, HookedOk
<1> QED
  BY <1>2, <1>3, <1>4 DEF HookInv

\* The context being focused has the engine the call read, and no other
\* name holds it: that name would be the engine of the context, or would
\* have a second call on it.
LEMMA NotifyFocusInHooks ==
  ASSUME TypeInv, HookInv, NEW g \in Calls, NotifyFocusIn(g)
  PROVE  HookInv'
<1> DEFINE c == call[g].ctx
           n == call[g].name
<1>1. /\ call[g].pc = "hook" /\ call'[g] = Idle
      /\ \A f \in Calls : f # g => call'[f] = call[f]
      /\ \A m \in Names : hooked'[m] = IF m = n THEN c ELSE hooked[m]
      /\ UNCHANGED <<ctx, focused, engine, emitting>>
  BY DEF NotifyFocusIn, Leave, client, TypeInv, TypeOK
<1>2. call'[g].pc \notin ControlPC /\ call'[g].pc \notin FocusingPC
  BY <1>1 DEF Idle, InCall, ControlPC, FocusingPC
<1>3. c \in focused /\ engine[c] = n /\ ctx[c] = "live"
  BY <1>1 DEF HookInv, FocusingFinds, ControlLive, FocusingPC, ControlPC
<1>4. OneControl' /\ ControlLive' /\ FocusingFinds'
  BY <1>1, <1>2 DEF HookInv, OneControl, ControlLive, FocusingFinds
<1>5. \A d, m : Leaving(d, m) => Leaving(d, m)'
  BY <1>1 DEF Leaving, LeavingPC
<1>6. HookedRightly'
  <2> SUFFICES ASSUME NEW m \in Names, hooked'[m] # NoCtx
               PROVE  HookedOk(hooked[m], m)'
    BY DEF HookedRightly
  <2>1. CASE m = n
    BY <1>1, <1>3, <2>1 DEF HookedOk
  <2>2. CASE m # n
    <3>1. hooked'[m] = hooked[m] /\ HookedOk(hooked[m], m)
      BY <1>1, <2>2 DEF HookInv, HookedRightly
    <3> QED
      BY <1>1, <1>5, <3>1 DEF HookedOk
  <2> QED
    BY <2>1, <2>2
<1>7. \A m \in Names : hooked[m] = c /\ c # NoCtx => m = n
  <2> SUFFICES ASSUME NEW m \in Names, hooked[m] = c, c # NoCtx
               PROVE  m = n
    OBVIOUS
  <2>1. engine[c] = m \/ Leaving(c, m)
    BY <1>3 DEF HookInv, HookedRightly, HookedOk
  <2>2. ~Leaving(c, m)
    <3>1. \A f \in Calls : call[f].ctx = c /\ call[f].pc \in LeavingPC => f = g
      BY <1>1 DEF HookInv, OneControl, ControlPC, LeavingPC
    <3> QED
      BY <1>1, <3>1 DEF Leaving, LeavingPC
  <2> QED
    BY <1>3, <2>1, <2>2
<1>8. HookedOnce'
  <2> SUFFICES ASSUME NEW m \in Names, NEW l \in Names, hooked'[m] = hooked'[l], hooked'[m] # NoCtx
               PROVE  m = l
    BY DEF HookedOnce
  <2> QED
    BY <1>1, <1>7 DEF HookInv, HookedOnce
<1> QED
  BY <1>1, <1>4, <1>6, <1>8 DEF HookInv, EmittedOnce

\* What the call drops is the entry of its own name; another context's call
\* on the way out has another name to drop.
LEMMA NotifyFocusOutHooks ==
  ASSUME TypeInv, HookInv, NEW g \in Calls, NotifyFocusOut(g)
  PROVE  HookInv'
<1> DEFINE n == call[g].name
<1>1. /\ call[g].pc = "unhook" /\ call'[g] = Idle
      /\ \A f \in Calls : f # g => call'[f] = call[f]
      /\ \A m \in Names : hooked'[m] = IF m = n THEN NoCtx ELSE hooked[m]
      /\ UNCHANGED <<ctx, focused, engine, emitting>>
  BY DEF NotifyFocusOut, Leave, client, TypeInv, TypeOK
<1>2. call'[g].pc \notin ControlPC /\ call'[g].pc \notin FocusingPC
  BY <1>1 DEF Idle, InCall, ControlPC, FocusingPC
<1>3. OneControl' /\ ControlLive' /\ FocusingFinds'
  BY <1>1, <1>2 DEF HookInv, OneControl, ControlLive, FocusingFinds
<1>4. \A d, m : m # n /\ Leaving(d, m) => Leaving(d, m)'
  BY <1>1 DEF Leaving
<1>5. HookedRightly'
  <2> SUFFICES ASSUME NEW m \in Names, hooked'[m] # NoCtx
               PROVE  HookedOk(hooked[m], m)'
    BY DEF HookedRightly
  <2>1. m # n /\ hooked'[m] = hooked[m] /\ HookedOk(hooked[m], m)
    BY <1>1 DEF HookInv, HookedRightly
  <2> QED
    BY <1>1, <1>4, <2>1 DEF HookedOk
<1>6. HookedOnce'
  BY <1>1 DEF HookInv, HookedOnce
<1> QED
  BY <1>1, <1>3, <1>5, <1>6 DEF HookInv, EmittedOnce

\* The rest of a call moves along its own way or ends without a hook.
LEMMA OtherCallsGoOn ==
  ASSUME TypeInv, HookInv, NEW g \in Calls,
         \/ KeyStep(g)
         \/ \E c \in Ctxs : ProcessKeyEvent(g, c)
         \/ call[g].pc # "keyRoute" /\ ReadRoute(g)
         \/ EngineAnswersFocus(g) \/ SelectEngine(g)
  PROVE  HookInv'
<1>1. UNCHANGED <<client, hooked, emitting>>
  BY DEF KeyStep, ProcessKeyEvent, ReadRoute, EngineAnswersFocus, SelectEngine, TryV2,
         SendToEngine, EngineReplies, EngineCallFails, RunSession, bridge
<1>2. call \in [Calls -> Call]
  BY DEF TypeInv, TypeOK
<1>3. \A f \in Calls : f # g => call'[f] = call[f]
  BY <1>2 DEF KeyStep, ProcessKeyEvent, ReadRoute, EngineAnswersFocus, SelectEngine, TryV2,
         SendToEngine, EngineReplies, EngineCallFails, RunSession, Step, Leave
<1>4. GoesOn(g)
  <2> USE <1>2 DEF GoesOn, InCall, Idle, Step, Leave, ControlPC, FocusingPC, LeavingPC
  <2>1. CASE ReadRoute(g)
    BY <2>1 DEF ReadRoute
  <2>2. CASE EngineAnswersFocus(g)
    BY <2>2 DEF EngineAnswersFocus
  <2>3. CASE SelectEngine(g)
    BY <2>3 DEF SelectEngine
  <2>4. CASE \E c \in Ctxs : ProcessKeyEvent(g, c)
    BY <2>4 DEF ProcessKeyEvent, Idles
  <2>5. CASE TryV2(g) \/ SendToEngine(g)
    BY <2>5 DEF TryV2, SendToEngine
  <2>6. CASE EngineReplies(g) \/ EngineCallFails(g) \/ RunSession(g)
    BY <2>6 DEF EngineReplies, EngineCallFails, RunSession
  <2> QED
    BY <2>1, <2>2, <2>3, <2>4, <2>5, <2>6 DEF KeyStep
<1>5. \A f \in Calls : GoesOn(f)
  BY <1>3, <1>4 DEF GoesOn
<1> QED
  BY <1>1, <1>5, HooksGoOn

\* The snapshot of a table that holds each context once.
LEMMA SignalHooks ==
  ASSUME TypeInv, HookInv, HandleSignal \/ \E p \in emitting : EmitSignal(p)
  PROVE  HookInv'
<1>1. UNCHANGED <<client, hooked, call>>
  BY DEF HandleSignal, EmitSignal
<1>2. EmittedOnce'
  <2>1. CASE HandleSignal
    <3>1. \A p \in emitting' : \E n \in Names : hooked[n] # NoCtx /\ p = <<n, hooked[n]>>
      BY <2>1 DEF HandleSignal
    <3>2. ASSUME NEW p \in emitting', NEW q \in emitting', p[2] = q[2]
          PROVE  p = q
      <4>1. PICK n \in Names : hooked[n] # NoCtx /\ p = <<n, hooked[n]>>
        BY <3>1
      <4>2. PICK m \in Names : hooked[m] # NoCtx /\ q = <<m, hooked[m]>>
        BY <3>1
      <4>3. n = m
        BY <3>2, <4>1, <4>2 DEF HookInv, HookedOnce
      <4> QED
        BY <4>1, <4>2, <4>3
    <3> QED
      BY <3>2 DEF EmittedOnce
  <2>2. ASSUME NEW p \in emitting, EmitSignal(p)
        PROVE  EmittedOnce'
    BY <2>2 DEF EmitSignal, HookInv, EmittedOnce
  <2> QED
    BY <2>1, <2>2
<1>3. /\ OneControl' /\ ControlLive' /\ FocusingFinds' /\ HookedRightly' /\ HookedOnce'
  BY <1>1 DEF client, HookInv, OneControl, ControlLive, FocusingFinds, HookedRightly,
              HookedOk, Leaving, HookedOnce
<1> QED
  BY <1>2, <1>3 DEF HookInv

LEMMA HooksInvariant == ASSUME MidFocus = FALSE PROVE Spec => [](TypeInv /\ HookInv)
<1>1. Init => HookInv
  <2> SUFFICES ASSUME Init
               PROVE  HookInv
    OBVIOUS
  <2>1. \A g \in Calls : call[g].pc = "idle"
    BY DEF Init, Idle, InCall
  <2>2. OneControl /\ ControlLive /\ FocusingFinds
    BY <2>1 DEF OneControl, ControlLive, FocusingFinds, ControlPC, FocusingPC
  <2>3. HookedRightly /\ HookedOnce /\ EmittedOnce
    BY DEF Init, HookedRightly, HookedOnce, EmittedOnce
  <2> QED
    BY <2>2, <2>3 DEF HookInv
<1>2. TypeInv /\ HookInv /\ [Next]_vars => HookInv'
  <2> SUFFICES ASSUME TypeInv, HookInv, [Next]_vars
               PROVE  HookInv'
    OBVIOUS
  <2>1. ASSUME NEW g \in Calls, ClientCall(g)
        PROVE  HookInv'
    BY <2>1, FocusInHooks, FocusOutHooks, SetEngineHooks, DestroyHooks, OtherCallsGoOn
       DEF ClientCall
  <2>2. ASSUME NEW g \in Calls, KeyStep(g)
        PROVE  HookInv'
    BY <2>2, OtherCallsGoOn
  <2>3. ASSUME NEW g \in Calls, ControlStep(g)
        PROVE  HookInv'
    BY <2>3, OtherCallsGoOn, NotifyFocusInHooks, NotifyFocusOutHooks, DeleteHooks
       DEF ControlStep
  <2>4. CASE UNCHANGED <<client, hooked, emitting, call>>
    <3>1. \A f \in Calls : GoesOn(f)
      BY <2>4 DEF GoesOn
    <3> QED
      BY <2>4, <3>1, HooksGoOn
  <2>5. \/ \E c \in Ctxs : CreateInputContext(c)
        \/ \E g \in Calls : ClientCall(g) \/ KeyStep(g) \/ ControlStep(g)
        \/ HandleSignal \/ \E p \in emitting : EmitSignal(p)
        \/ UNCHANGED <<client, hooked, emitting, call>>
    BY DEF Next, vars, bridge, EngineProcess, RegisterComponent, EngineExits, Reap,
           EngineHandlesKey
  <2> QED
    BY <2>1, <2>2, <2>3, <2>4, <2>5, CreateHooks, SignalHooks
<1>3. Spec => []TypeInv
  BY RoutingTypeCorrect, PTL DEF TypeInv
<1> QED
  BY <1>1, <1>2, <1>3, PTL DEF Spec

\* What a step does to the focus, the hooks and the signals under way.
SignalStep ==
  \/ focused' \subseteq focused /\ UNCHANGED <<hooked, emitting, late>>
  \/ \E c \in Ctxs : /\ focused' = focused \union {c}
                     /\ late' = [late EXCEPT ![c] = 0]
                     /\ UNCHANGED <<hooked, emitting>>
  \/ \E g \in Calls : NotifyFocusIn(g) \/ NotifyFocusOut(g)
  \/ HandleSignal \/ \E p \in emitting : EmitSignal(p)

LEMMA StepsSignal == ASSUME [Next]_vars PROVE SignalStep
<1>1. ASSUME NEW g \in Calls, NEW c \in Ctxs, FocusIn(g, c)
      PROVE  SignalStep
  BY <1>1 DEF FocusIn, SignalStep
<1>2. ASSUME NEW g \in Calls, NEW c \in Ctxs,
             \/ FocusOut(g, c) \/ Destroy(g, c) \/ ProcessKeyEvent(g, c)
             \/ \E n \in Names \union {NoName} : SetEngine(g, c, n)
      PROVE  SignalStep
  BY <1>2 DEF FocusOut, Destroy, ProcessKeyEvent, SetEngine, bridge, client, SignalStep
<1>3. ASSUME NEW g \in Calls, KeyStep(g) \/ ControlStep(g)
      PROVE  SignalStep
  BY <1>3 DEF KeyStep, ControlStep, ReadRoute, EngineAnswersFocus, SelectEngine, TryV2,
              SendToEngine, EngineReplies, EngineCallFails, RunSession, DestroyDeletes,
              bridge, client, SignalStep
<1>4. ASSUME \/ \E c \in Ctxs : CreateInputContext(c)
             \/ EngineProcess \/ UNCHANGED vars
      PROVE  SignalStep
  BY <1>4 DEF CreateInputContext, EngineProcess, RegisterComponent, EngineExits, Reap,
              EngineHandlesKey, vars, bridge, client, SignalStep
<1>5. CASE HandleSignal \/ \E p \in emitting : EmitSignal(p)
  BY <1>5 DEF SignalStep
<1> QED
  BY <1>1, <1>2, <1>3, <1>4, <1>5 DEF Next, ClientCall

\* A context a late signal has reached is out of everybody's hands.
NoneLeft(c) ==
  /\ c \notin focused
  /\ \A n \in Names : hooked[n] # c
  /\ \A p \in emitting : p[2] # c
LateOnce == \A c \in Ctxs : late[c] = 0 \/ (late[c] = 1 /\ NoneLeft(c))

LEMMA LateOnceStep ==
  ASSUME TypeInv, HookInv, LateOnce, [Next]_vars
  PROVE  LateOnce'
<1>t. late \in [Ctxs -> Nat] /\ hooked \in [Names -> Ctxs \union {NoCtx}]
  BY DEF TypeInv, TypeOK
<1> SUFFICES ASSUME NEW c \in Ctxs
             PROVE  late'[c] = 0 \/ (late'[c] = 1 /\ NoneLeft(c)')
  BY DEF LateOnce
<1>0. late[c] = 0 \/ (late[c] = 1 /\ NoneLeft(c))
  BY DEF LateOnce
<1>1. CASE focused' \subseteq focused /\ UNCHANGED <<hooked, emitting, late>>
  BY <1>0, <1>1 DEF NoneLeft
<1>2. ASSUME NEW d \in Ctxs, focused' = focused \union {d},
             late' = [late EXCEPT ![d] = 0], UNCHANGED <<hooked, emitting>>
      PROVE  late'[c] = 0 \/ (late'[c] = 1 /\ NoneLeft(c)')
  <2>1. CASE d = c
    BY <1>t, <1>2, <2>1
  <2>2. CASE d # c
    <3>1. late'[c] = late[c]
      BY <1>t, <1>2, <2>2
    <3>2. NoneLeft(c) => NoneLeft(c)'
      BY <1>2, <2>2 DEF NoneLeft
    <3> QED
      BY <1>0, <3>1, <3>2
  <2> QED
    BY <2>1, <2>2
<1>3. ASSUME NEW g \in Calls, NotifyFocusIn(g) \/ NotifyFocusOut(g)
      PROVE  late'[c] = 0 \/ (late'[c] = 1 /\ NoneLeft(c)')
  <2>1. UNCHANGED <<focused, emitting, late>>
    BY <1>3 DEF NotifyFocusIn, NotifyFocusOut, client
  <2>2. CASE c \notin focused
    <3>1. \A n \in Names : hooked'[n] = c => hooked[n] = c
      <4>1. CASE NotifyFocusIn(g)
        <5>1. call[g].ctx \in focused
          BY <4>1 DEF NotifyFocusIn, HookInv, FocusingFinds, FocusingPC
        <5> QED
          BY <1>t, <2>2, <4>1, <5>1 DEF NotifyFocusIn
      <4>2. CASE NotifyFocusOut(g)
        BY <1>t, <4>2, RoutingAssumption DEF NotifyFocusOut
      <4> QED
        BY <1>3, <4>1, <4>2
    <3>2. NoneLeft(c) => NoneLeft(c)'
      BY <2>1, <3>1 DEF NoneLeft
    <3> QED
      BY <1>0, <2>1, <3>2
  <2>3. CASE c \in focused
    BY <1>0, <2>1, <2>3 DEF NoneLeft
  <2> QED
    BY <2>2, <2>3
<1>4. CASE HandleSignal
  <2>1. UNCHANGED <<focused, hooked, late>>
    BY <1>4 DEF HandleSignal, client
  <2>2. \A p \in emitting' : \E n \in Names : p = <<n, hooked[n]>>
    BY <1>4 DEF HandleSignal
  <2>3. NoneLeft(c) => NoneLeft(c)'
    BY <2>1, <2>2 DEF NoneLeft
  <2> QED
    BY <1>0, <2>1, <2>3
<1>5. ASSUME NEW p \in emitting, EmitSignal(p)
      PROVE  late'[c] = 0 \/ (late'[c] = 1 /\ NoneLeft(c)')
  <2>1. UNCHANGED <<focused, hooked>> /\ emitting' = emitting \ {p}
    BY <1>5 DEF EmitSignal, client
  <2>2. NoneLeft(c) => NoneLeft(c)'
    BY <2>1 DEF NoneLeft
  <2>3. CASE late'[c] = late[c]
    BY <1>0, <2>2, <2>3
  <2>4. CASE late'[c] # late[c]
    <3>1. HasLeft(p[2]) /\ p[2] = c /\ late'[c] = late[c] + 1
      BY <1>5, <1>t, <2>4 DEF EmitSignal
    <3>2. late[c] = 0
      BY <1>0, <3>1 DEF NoneLeft
    <3>3. \A q \in emitting' : q[2] # c
      BY <2>1, <3>1 DEF HookInv, EmittedOnce
    <3>4. \A n \in Names : hooked[n] # c
      <4> SUFFICES ASSUME NEW n \in Names, hooked[n] = c
                   PROVE  FALSE
        OBVIOUS
      <4>1. HookedOk(c, n)
        BY RoutingAssumption DEF HookInv, HookedRightly
      <4>2. ~Leaving(c, n)
        BY <3>1 DEF HasLeft, Leaves, Leaving
      <4> QED
        BY <3>1, <4>1, <4>2 DEF HasLeft, HookedOk
    <3>5. NoneLeft(c)'
      BY <2>1, <3>1, <3>3, <3>4 DEF NoneLeft, HasLeft
    <3> QED
      BY <3>1, <3>2, <3>5
  <2> QED
    BY <2>3, <2>4
<1> QED
  BY <1>1, <1>2, <1>3, <1>4, <1>5, StepsSignal DEF SignalStep

(* As long as clients change the engine of a context only while it is not  *)
(* focused, handle() takes a signal only to contexts that at that moment   *)
(* have the focus under the name they selected, are destroyed or have      *)
(* their focus-out under way, for any contexts, engines and calls.         *)
THEOREM SignalsAreTakenForFocus == ASSUME MidFocus = FALSE PROVE Spec => SignalsAreForFocus
<1>1. TypeInv /\ HookInv /\ [Next]_vars =>
        [\A p \in emitting' \ emitting :
           ctx[p[2]] = "live" =>
             (p[2] \in focused /\ engine[p[2]] = p[1]) \/ Leaves(p[2])]_vars
  <2> SUFFICES ASSUME TypeInv, HookInv, [Next]_vars, NEW p \in emitting', p \notin emitting,
                      ctx[p[2]] = "live"
               PROVE  (p[2] \in focused /\ engine[p[2]] = p[1]) \/ Leaves(p[2])
    OBVIOUS
  <2>1. HandleSignal
    BY StepsSignal DEF SignalStep, NotifyFocusIn, NotifyFocusOut, EmitSignal
  <2>2. PICK n \in Names : hooked[n] # NoCtx /\ p = <<n, hooked[n]>>
    BY <2>1 DEF HandleSignal
  <2>3. p[1] = n /\ p[2] = hooked[n]
    BY <2>2
  <2>4. HookedOk(p[2], n)
    BY <2>2, <2>3 DEF HookInv, HookedRightly
  <2>5. Leaving(p[2], n) => Leaves(p[2])
    BY DEF Leaving, Leaves
  <2> QED
    BY <2>3, <2>4, <2>5 DEF HookedOk
<1> QED
  BY <1>1, HooksInvariant, PTL DEF Spec, SignalsAreForFocus

(* Under the same assumption at most one signal still reaches a context    *)
(* after its FocusOut has returned and before the next FocusIn: none is    *)
(* taken to it any more, and what one signal has left to emit holds each   *)
(* context once.                                                           *)
THEOREM FocusOutLetsOneThrough == ASSUME MidFocus = FALSE PROVE Spec => []OneLateSignal
<1>1. Init => LateOnce
  BY DEF Init, LateOnce
<1>2. TypeInv /\ HookInv /\ LateOnce /\ [Next]_vars => LateOnce'
  BY LateOnceStep
<1>3. LateOnce => OneLateSignal
  BY DEF LateOnce, OneLateSignal
<1> QED
  BY <1>1, <1>2, <1>3, HooksInvariant, PTL DEF Spec
=============================================================================
