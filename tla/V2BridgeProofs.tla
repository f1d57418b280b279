--------------------------- MODULE V2BridgeProofs ---------------------------
(***************************************************************************)
(* Theorems about V2Bridge for any number of connections, input methods,   *)
(* contexts and concurrent calls.                                          *)
(***************************************************************************)
EXTENDS V2Bridge, TLAPS

(* The records of the two kinds of goroutine: what the constructors build  *)
(* and what the fields of a well-typed one are.                            *)
LEMMA HandlerRecords ==
  /\ \A pc \in HandlerPC, i \in Ims, prev \in Ims \union {NoIm} :
        Serving(pc, i, prev) \in Handler
  /\ \A pc \in HandlerPC, i \in Ims, path \in Ctxs \union {NoCtx},
        text \in SUBSET Chunk, preedit \in Preedits :
        Emitting(pc, i, path, text, preedit) \in Handler
  /\ \A r \in Handler :
        /\ r.pc \in HandlerPC
        /\ r.im \in Ims \union {NoIm}
        /\ r.pc # "idle" => r.im \in Ims
        /\ r.prev \in Ims \union {NoIm}
        /\ r.path \in Ctxs \union {NoCtx}
        /\ r.text \subseteq Chunk
        /\ r.preedit \in Preedits
BY DEF Handler, Serving, Emitting, Preedits

LEMMA CallRecords ==
  /\ \A pc \in CallPC, i \in Ims, p \in Ctxs \union {NoCtx},
        k \in 0..MaxGrab, serial \in Nat : InCall(pc, i, p, k, serial) \in Call
  /\ \A r \in Call :
        /\ r.pc \in CallPC
        /\ r.im \in Ims \union {NoIm}
        /\ r.pc # "idle" => r.im \in Ims
        /\ r.ctx \in Ctxs \union {NoCtx}
        /\ r.grab \in 0..MaxGrab
        /\ r.serial \in Nat
BY DEF Call, InCall

LEMMA IdleRecords == IdleHandler \in Handler /\ IdleCall \in Call
BY BridgeAssumption
   DEF IdleHandler, IdleCall, Serving, InCall, Handler, Call, HandlerPC, CallPC,
       Preedits, NoGrab

(* Sending activate to an input method only changes what its client has    *)
(* been told.                                                              *)
LEMMA ActivateTypes ==
  ASSUME TypeOK, NEW i \in Ims, DeliverActivate(i)
  PROVE  /\ active' \subseteq Ims
         /\ told' \in [Ims -> Ctxs \union {NoCtx}]
<1>1. CASE Writable(i)
  <2>1. active' = active \union {i}
    BY <1>1 DEF DeliverActivate
  <2>2. told' = [told EXCEPT ![i] = NoCtx]
    BY <1>1 DEF DeliverActivate
  <2> QED
    BY <2>1, <2>2 DEF TypeOK
<1>2. CASE ~Writable(i)
  BY <1>2 DEF DeliverActivate, wire, TypeOK
<1> QED
  BY <1>1, <1>2

(* A step of one kind of goroutine keeps the types: one lemma for each.    *)
LEMMA HandlerStepTypes ==
  ASSUME TypeOK, NEW c \in Conns, HandlerStep(c)
  PROVE  TypeOK'
<1> USE BridgeAssumption DEF TypeOK
<1> USE DEF objects, bridge, wire, history
<1>h. /\ h[c] \in Handler
      /\ h[c].pc # "idle" => h[c].im \in Ims
      /\ h[c].path \in Ctxs \union {NoCtx}
      /\ h[c].preedit \in Preedits
  BY HandlerRecords
<1>r. Return(c) => h' \in [Conns -> Handler]
  BY IdleRecords DEF Return
<1>1. CASE RetirePrevious(c)
  <2>1. Serving("adopt", h[c].im, NoIm) \in Handler
    BY <1>1, <1>h, HandlerRecords DEF HandlerPC, RetirePrevious
  <2> QED
    BY <1>1, <2>1 DEF RetirePrevious, OnInputMethodDestroyed, Preedits
<1>2. CASE OnInputMethodCreated(c)
  <2>1. Serving("activate", h[c].im, NoIm) \in Handler
    BY <1>2, <1>h, HandlerRecords DEF HandlerPC, OnInputMethodCreated
  <2>2. h' \in [Conns -> Handler]
    BY <1>2, <1>r, <2>1 DEF OnInputMethodCreated
  <2> QED
    BY <1>2, <1>h, <2>2 DEF OnInputMethodCreated
<1>3. CASE CreatedSendsActivate(c)
  <2>1. /\ active' \subseteq Ims
        /\ told' \in [Ims -> Ctxs \union {NoCtx}]
    <3>1. h[c].im \in Ims
      BY <1>3, <1>h DEF CreatedSendsActivate
    <3>2. DeliverActivate(h[c].im)
      BY <1>3 DEF CreatedSendsActivate
    <3> QED
      BY <3>1, <3>2, ActivateTypes
  <2> QED
    BY <1>3, <1>r, <2>1 DEF CreatedSendsActivate
<1>4. CASE EmitDelete(c)
  BY <1>4, <1>r DEF EmitDelete
<1>5. CASE EmitText(c)
  <2>1. Emitting("emitPreedit", h[c].im, h[c].path, {}, h[c].preedit) \in Handler
    BY <1>5, <1>h, HandlerRecords DEF HandlerPC, EmitText
  <2>2. emits' \in [1..MaxText -> Nat]
    BY <1>5 DEF EmitText
  <2> QED
    BY <1>5, <2>1, <2>2 DEF EmitText
<1>6. CASE EmitPreedit(c)
  BY <1>6, <1>r DEF EmitPreedit
<1>7. CASE OnGrabKeyboard(c)
  BY <1>7, <1>r DEF OnGrabKeyboard
<1>8. CASE DestroyCallbacks(c)
  BY <1>8, <1>r DEF DestroyCallbacks, OnInputMethodDestroyed, Preedits
<1> QED
  BY <1>1, <1>2, <1>3, <1>4, <1>5, <1>6, <1>7, <1>8 DEF HandlerStep

LEMMA RequestTypes ==
  ASSUME TypeOK, NEW i \in Ims, Request(i)
  PROVE  TypeOK'
<1> USE BridgeAssumption DEF TypeOK, Dispatches
<1> USE DEF objects, bridge, wire, history
<1> DEFINE c == ImConn[i]
<1>c. c \in Conns
  OBVIOUS
<1>1. CASE GetInputMethod(i)
  <2> DEFINE pc == IF mgrCurrent[c] = NoIm THEN "adopt" ELSE "retire"
  <2>1. Serving(pc, i, mgrCurrent[c]) \in Handler
    <3>1. pc \in HandlerPC /\ mgrCurrent[c] \in Ims \union {NoIm}
      BY <1>c DEF HandlerPC
    <3> HIDE DEF pc
    <3> QED
      BY <3>1, HandlerRecords
  <2>2. h' \in [Conns -> Handler]
    BY <1>1, <1>c, <2>1 DEF GetInputMethod
  <2> QED
    BY <1>1, <1>c, <2>2 DEF GetInputMethod
<1>2. CASE CommitString(i)
  <2>1. nextText + 1 \in 1..MaxText /\ nextText' = nextText + 1
    BY <1>2 DEF CommitString
  <2>2. Received(nextText + 1, i) \in Chunk
    BY <2>1 DEF Received, Chunk
  <2> QED
    BY <1>2, <2>1, <2>2 DEF CommitString
<1>3. CASE SetPreeditString(i)
  BY <1>3 DEF SetPreeditString, Preedits
<1>4. CASE DeleteSurroundingText(i)
  <2>1. Emitting("emitDelete", i, focusedPath, {}, "unset") \in Handler
    BY HandlerRecords DEF HandlerPC, Preedits
  <2> QED
    BY <1>4, <1>c, <2>1 DEF DeleteSurroundingText
<1>5. CASE Commit(i)
  <2>1. Emitting("emitText", i, focusedPath, pendingCommit, pendingPreedit)
          \in Handler
    BY HandlerRecords DEF HandlerPC
  <2> QED
    BY <1>5, <1>c, <2>1 DEF Commit, Flush, Preedits
<1>6. CASE GrabKeyboard(i)
  <2>1. Serving("resetSerial", i, NoIm) \in Handler
    BY HandlerRecords DEF HandlerPC
  <2>2. grabCount[i] + 1 \in 1..MaxGrab
    BY <1>6 DEF GrabKeyboard
  <2>3. /\ grab' \in [Ims -> 0..MaxGrab]
        /\ grabCount' \in [Ims -> 0..MaxGrab]
        /\ grabTable' \subseteq GrabIds
    BY <1>6, <2>2 DEF GrabKeyboard, GrabIds
  <2> QED
    BY <1>6, <1>c, <2>1, <2>3 DEF GrabKeyboard
<1>7. CASE Destroy(i)
  <2>1. Serving("destroyed", i, NoIm) \in Handler
    BY HandlerRecords DEF HandlerPC
  <2> QED
    BY <1>7, <1>c, <2>1 DEF Destroy, NoGrab
<1> QED
  BY <1>1, <1>2, <1>3, <1>4, <1>5, <1>6, <1>7 DEF Request

LEMMA CallTypes ==
  ASSUME TypeOK, NEW g \in Calls, NewCall(g) \/ CallStep(g)
  PROVE  TypeOK'
<1> USE BridgeAssumption DEF TypeOK
<1> USE DEF objects, bridge, wire, history
<1>f. /\ call[g].pc \in CallPC
      /\ call[g].pc # "idle" => call[g].im \in Ims
      /\ call[g].ctx \in Ctxs \union {NoCtx}
      /\ call[g].grab \in 0..MaxGrab
      /\ call[g].serial \in Nat
  BY CallRecords
<1>d. Done(g) => call' \in [Calls -> Call]
  BY IdleRecords DEF Done
<1>w. ASSUME NEW pc \in CallPC, NEW i \in Ims,
             NEW p \in Ctxs \union {NoCtx}, NEW k \in 0..MaxGrab, NEW n \in Nat,
             call' = [call EXCEPT ![g] = InCall(pc, i, p, k, n)]
      PROVE  call' \in [Calls -> Call]
  BY <1>w, CallRecords
<1>1. ASSUME NEW p \in Ctxs, NotifyFocusIn(g, p)
      PROVE  TypeOK'
  <2>1. "activate" \in CallPC /\ NoGrab \in 0..MaxGrab
    BY DEF CallPC, NoGrab
  <2>2. call' \in [Calls -> Call]
    BY <1>1, <1>w, <2>1 DEF NotifyFocusIn
  <2> QED
    BY <1>1, <2>2 DEF NotifyFocusIn
<1>2. ASSUME NEW p \in Ctxs, NotifyFocusOut(g, p)
      PROVE  TypeOK'
  <2>1. "deactivate" \in CallPC /\ NoGrab \in 0..MaxGrab
    BY DEF CallPC, NoGrab
  <2>2. call' \in [Calls -> Call]
    BY <1>2, <1>w, <2>1 DEF NotifyFocusOut
  <2> QED
    BY <1>2, <2>2 DEF NotifyFocusOut, Preedits
<1>3. ASSUME NEW p \in Notifying, NotifyContext(g, p)
      PROVE  TypeOK'
  <2>1. "notify" \in CallPC /\ NoGrab \in 0..MaxGrab
    BY DEF CallPC, NoGrab
  <2>2. call' \in [Calls -> Call]
    BY <1>3, <1>w, <2>1 DEF NotifyContext
  <2> QED
    BY <1>3, <2>2 DEF NotifyContext
<1>4. CASE RouteKey(g)
  <2>1. "grab" \in CallPC /\ NoGrab \in 0..MaxGrab
    BY DEF CallPC, NoGrab
  <2>2. call' \in [Calls -> Call]
    BY <1>4, <1>w, <2>1 DEF RouteKey
  <2> QED
    BY <1>4, <2>2 DEF RouteKey
<1>5. CASE FocusInSendsActivate(g)
  <2>1. /\ active' \subseteq Ims
        /\ told' \in [Ims -> Ctxs \union {NoCtx}]
    <3>1. call[g].im \in Ims
      BY <1>5, <1>f DEF FocusInSendsActivate
    <3>2. DeliverActivate(call[g].im)
      BY <1>5 DEF FocusInSendsActivate
    <3> QED
      BY <3>1, <3>2, ActivateTypes
  <2> QED
    BY <1>5, <1>d, <2>1 DEF FocusInSendsActivate
<1>6. CASE FocusOutSendsDeactivate(g)
  BY <1>6, <1>d DEF FocusOutSendsDeactivate
<1>7. CASE SendContext(g)
  BY <1>7, <1>d, <1>f DEF SendContext
<1>8. CASE RouteKeyReadsGrab(g)
  <2>1. "modsSerial" \in CallPC
    BY DEF CallPC
  <2>2. CASE Done(g)
    BY <1>8, <1>d, <2>2 DEF RouteKeyReadsGrab
  <2>3. CASE ~Done(g)
    <3>1. call' = [call EXCEPT ![g] =
            InCall("modsSerial", call[g].im, NoCtx, grab[call[g].im], 0)]
      BY <1>8, <2>3 DEF RouteKeyReadsGrab
    <3>2. grab[call[g].im] \in 0..MaxGrab
      <4>1. call[g].im \in Ims
        BY <1>8, <1>f DEF RouteKeyReadsGrab
      <4> QED
        BY <4>1
    <3> QED
      BY <1>8, <1>f, <1>w, <2>1, <3>1, <3>2 DEF RouteKeyReadsGrab
  <2> QED
    BY <2>2, <2>3
<1>9. CASE NextSerial(g)
  <2> DEFINE pc == IF call[g].pc = "modsSerial" THEN "mods" ELSE "key"
  <2>1. pc \in CallPC /\ keySerial + 1 \in Nat
    BY DEF CallPC
  <2>2. call' = [call EXCEPT ![g] =
          InCall(pc, call[g].im, NoCtx, call[g].grab, keySerial + 1)]
    BY <1>9 DEF NextSerial
  <2>3. call' \in [Calls -> Call]
    <3> HIDE DEF pc
    <3> QED
      <4>1. call[g].im \in Ims
        BY <1>9, <1>f DEF NextSerial
      <4> QED
        BY <1>f, <1>w, <2>1, <2>2, <4>1
  <2> QED
    BY <1>9, <2>1, <2>3 DEF NextSerial
<1>10. CASE SendModifiers(g)
  <2>1. "keySerial" \in CallPC
    BY DEF CallPC
  <2>2. call' \in [Calls -> Call]
    BY <1>10, <1>d, <1>f, <1>w, <2>1 DEF SendModifiers
  <2> QED
    BY <1>10, <2>2 DEF SendModifiers
<1>11. CASE SendKey(g)
  BY <1>11, <1>d DEF SendKey
<1> QED
  BY <1>1, <1>2, <1>3, <1>4, <1>5, <1>6, <1>7, <1>8, <1>9, <1>10, <1>11
     DEF NewCall, CallStep

(* Every variable keeps its type.  Chunk numbers, grab numbers and the two *)
(* history counters stay within the named bounds.                          *)
THEOREM TypeCorrect == Spec => []TypeOK
<1>1. Init => TypeOK
  BY BridgeAssumption, IdleRecords DEF Init, TypeOK, Preedits, NoGrab
<1>2. TypeOK /\ [Next]_vars => TypeOK'
  <2> SUFFICES ASSUME TypeOK, [Next]_vars
               PROVE  TypeOK'
    OBVIOUS
  <2> USE DEF TypeOK, bridge, objects, wire, history
  <2>1. ASSUME NEW c \in Conns, HangUp(c) \/ RunReturns(c)
        PROVE  TypeOK'
    BY <2>1 DEF HangUp, RunReturns
  <2>2. ASSUME NEW k \in GrabIds, Release(k)
        PROVE  TypeOK'
    <3>1. k[1] \in Ims
      BY DEF GrabIds
    <3>2. grab' \in [Ims -> 0..MaxGrab]
      BY <2>2, <3>1, BridgeAssumption DEF Release, NoGrab
    <3>3. released' \subseteq GrabIds /\ grabTable' \subseteq GrabIds
      BY <2>2 DEF Release
    <3> QED
      BY <2>2, <3>2, <3>3 DEF Release
  <2>3. CASE UNCHANGED vars
    BY <2>3 DEF vars
  <2> QED
    BY <2>1, <2>2, <2>3, HandlerStepTypes, RequestTypes, CallTypes DEF Next
<1> QED
  BY <1>1, <1>2, PTL DEF Spec
-----------------------------------------------------------------------------
(***************************************************************************)
(* What every implementation of TextChannel promises, stated of the        *)
(* bridge's channel.                                                       *)
(***************************************************************************)

(* The channel's state as the bridge has it, and its steps in these terms. *)
Buffered == {t.n : t \in pendingCommit}
Taken == [c \in Conns |-> {t.n : t \in h[c].text}]

LEMMA ChannelSteps ==
  /\ Channel!Init => /\ nextText = 0 /\ Buffered = {} /\ Taken = [c \in Conns |-> {}]
                     /\ emits = [n \in 1..MaxText |-> 0]
  /\ Channel!Receive => /\ nextText < MaxText /\ nextText' = nextText + 1
                        /\ Buffered' = Buffered \union {nextText + 1}
                        /\ UNCHANGED <<Taken, emits>>
  /\ Channel!Discard => Buffered' = {} /\ UNCHANGED <<nextText, Taken, emits>>
  /\ \A c \in Conns :
       /\ Channel!Take(c) => /\ Taken[c] = {} /\ Taken' = [Taken EXCEPT ![c] = Buffered]
                             /\ Buffered' = {} /\ UNCHANGED <<nextText, emits>>
       /\ Channel!Emit(c) => /\ emits' = [n \in 1..MaxText |->
                                  IF n \in Taken[c] THEN emits[n] + 1 ELSE emits[n]]
                             /\ Taken' = [Taken EXCEPT ![c] = {}]
                             /\ UNCHANGED <<nextText, Buffered>>
  /\ UNCHANGED Channel!vars => UNCHANGED <<nextText, Buffered, Taken, emits>>
BY DEF Channel!Init, Channel!Receive, Channel!Discard, Channel!Take, Channel!Emit,
       Channel!vars, Buffered, Taken

(* Every chunk is in one place: the buffer, one lane, or an application. *)
OnePlace ==
  /\ nextText \in 0..MaxText
  /\ Buffered \subseteq 1..nextText
  /\ Taken \in [Conns -> SUBSET (1..nextText)]
  /\ emits \in [1..MaxText -> Nat]
  /\ \A n \in 1..MaxText : emits[n] <= 1
  /\ \A n \in 1..MaxText : n > nextText => emits[n] = 0
  /\ \A n \in Buffered : emits[n] = 0 /\ \A c \in Conns : n \notin Taken[c]
  /\ \A c \in Conns : \A n \in Taken[c] :
        emits[n] = 0 /\ \A d \in Conns \ {c} : n \notin Taken[d]

LEMMA ChannelInOnePlace == Channel!Spec => []OnePlace
<1>1. Channel!Init => OnePlace
  BY ChannelSteps, BridgeAssumption DEF OnePlace
<1>2. OnePlace /\ [Channel!Next]_(Channel!vars) => OnePlace'
  <2> SUFFICES ASSUME OnePlace, [Channel!Next]_(Channel!vars)
               PROVE  OnePlace'
    OBVIOUS
  <2>1. CASE Channel!Receive
    <3>1. /\ nextText < MaxText /\ nextText' = nextText + 1
          /\ Buffered' = Buffered \union {nextText + 1} /\ UNCHANGED <<Taken, emits>>
      BY <2>1, ChannelSteps
    <3> QED
      BY <3>1, BridgeAssumption DEF OnePlace, BridgeAssumption
  <2>2. CASE Channel!Discard
    BY <2>2, ChannelSteps DEF OnePlace
  <2>3. ASSUME NEW c \in Conns, Channel!Take(c)
        PROVE  OnePlace'
    <3>1. /\ Taken' = [Taken EXCEPT ![c] = Buffered] /\ Buffered' = {}
          /\ Taken[c] = {} /\ UNCHANGED <<nextText, emits>>
      BY <2>3, ChannelSteps
    <3> QED
      BY <3>1 DEF OnePlace
  <2>4. ASSUME NEW c \in Conns, Channel!Emit(c)
        PROVE  OnePlace'
    <3>1. /\ emits' = [n \in 1..MaxText |-> IF n \in Taken[c] THEN emits[n] + 1 ELSE emits[n]]
          /\ Taken' = [Taken EXCEPT ![c] = {}] /\ UNCHANGED <<nextText, Buffered>>
      BY <2>4, ChannelSteps
    <3> QED
      BY <3>1, BridgeAssumption DEF OnePlace, BridgeAssumption
  <2>5. CASE UNCHANGED Channel!vars
    BY <2>5, ChannelSteps DEF OnePlace
  <2> QED
    BY <2>1, <2>2, <2>3, <2>4, <2>5 DEF Channel!Next
<1> QED
  BY <1>1, <1>2, PTL DEF Channel!Spec

(* A channel hands a chunk to an application at most once, whatever the    *)
(* number of lanes and of chunks.                                          *)
THEOREM ChannelAtMostOnce == Channel!Spec => []Channel!AtMostOnce
<1>1. OnePlace => Channel!AtMostOnce
  BY DEF OnePlace, Channel!AtMostOnce
<1> QED
  BY <1>1, ChannelInOnePlace, PTL

(* Of one lane: what it has taken is newer than what was emitted, and what *)
(* is in the buffer newer than both.                                       *)
NewestLast ==
  /\ \A m \in 1..MaxText : emits[m] > 0 => \A n \in Buffered : m < n
  /\ \A m \in 1..MaxText : emits[m] > 0 => \A c \in Conns : \A n \in Taken[c] : m < n
  /\ \A c \in Conns : \A m \in Taken[c], n \in Buffered : m < n

EmitsNewer ==
  \A n \in 1..MaxText : emits'[n] # emits[n] =>
     \A m \in 1..MaxText : emits[m] > 0 => m < n

LEMMA OneLaneInOrder ==
  ASSUME \A c, d \in Conns : c = d
  PROVE  Channel!Spec => [][EmitsNewer]_emits
<1>1. Channel!Init => NewestLast
  BY ChannelSteps, BridgeAssumption DEF NewestLast
<1>2. OnePlace /\ NewestLast /\ [Channel!Next]_(Channel!vars)
        => NewestLast' /\ [EmitsNewer]_emits
  <2> SUFFICES ASSUME OnePlace, NewestLast, [Channel!Next]_(Channel!vars)
               PROVE  NewestLast' /\ [EmitsNewer]_emits
    OBVIOUS
  <2>1. CASE Channel!Receive
    <3>1. Buffered' = Buffered \union {nextText + 1} /\ UNCHANGED <<Taken, emits>>
      BY <2>1, ChannelSteps
    <3>2. \A m \in 1..MaxText : emits[m] > 0 => m < nextText + 1
      BY DEF OnePlace
    <3>3. \A c \in Conns : \A m \in Taken[c] : m < nextText + 1
      BY DEF OnePlace
    <3> QED
      BY <3>1, <3>2, <3>3 DEF NewestLast
  <2>2. CASE Channel!Discard
    BY <2>2, ChannelSteps DEF NewestLast
  <2>3. ASSUME NEW c \in Conns, Channel!Take(c)
        PROVE  NewestLast' /\ [EmitsNewer]_emits
    BY <2>3, ChannelSteps DEF NewestLast, OnePlace
  <2>4. ASSUME NEW c \in Conns, Channel!Emit(c)
        PROVE  NewestLast' /\ [EmitsNewer]_emits
    <3>1. \A n \in 1..MaxText : emits'[n] = IF n \in Taken[c] THEN emits[n] + 1 ELSE emits[n]
      BY <2>4, ChannelSteps
    <3>2. Buffered' = Buffered /\ \A d \in Conns : Taken'[d] = {}
      BY <2>4, ChannelSteps DEF OnePlace
    <3>3. EmitsNewer
      BY <3>1 DEF NewestLast, EmitsNewer, OnePlace
    <3>4. NewestLast'
      BY <3>1, <3>2 DEF NewestLast, OnePlace
    <3> QED
      BY <3>3, <3>4
  <2>5. CASE UNCHANGED Channel!vars
    BY <2>5, ChannelSteps DEF NewestLast
  <2> QED
    BY <2>1, <2>2, <2>3, <2>4, <2>5 DEF Channel!Next
<1> QED
  BY <1>1, <1>2, ChannelInOnePlace, PTL DEF Channel!Spec
-----------------------------------------------------------------------------
(***************************************************************************)
(* The bridge implements TextChannel; that a chunk is emitted at most once *)
(* then follows from the abstract theorem.                                 *)
(***************************************************************************)

(* Only a handler that is about to emit a batch holds text. *)
TextHeld == \A c \in Conns : h[c].pc # "emitText" => h[c].text = {}

SameTexts == \A c \in Conns : h'[c].text = h[c].text

(* How a step that moves one handler looks through the refinement mapping. *)
LEMMA ServingHoldsNothing ==
  ASSUME TypeOK, TextHeld, NEW c \in Conns, h[c].pc # "emitText",
         NEW pc, NEW i, NEW prev, h' = [h EXCEPT ![c] = Serving(pc, i, prev)]
  PROVE  TextHeld' /\ SameTexts
BY DEF TypeOK, TextHeld, SameTexts, Serving

LEMMA StutterMaps ==
  ASSUME SameTexts, UNCHANGED <<nextText, pendingCommit, emits>>
  PROVE  UNCHANGED Channel!vars
BY DEF SameTexts, Channel!vars

LEMMA DiscardMaps ==
  ASSUME SameTexts, pendingCommit' = {}, UNCHANGED <<nextText, emits>>
  PROVE  Channel!Discard
BY DEF SameTexts, Channel!Discard

LEMMA HandlerStepMaps ==
  ASSUME TypeOK, TextHeld, NEW c \in Conns, HandlerStep(c)
  PROVE  [Channel!Next]_(Channel!vars) /\ TextHeld'
<1> USE DEF objects, bridge, wire, history
<1>1. CASE RetirePrevious(c)
  <2>1. TextHeld' /\ SameTexts
    BY <1>1, ServingHoldsNothing DEF RetirePrevious
  <2>2. Channel!Discard \/ UNCHANGED Channel!vars
    BY <1>1, <2>1, StutterMaps, DiscardMaps
       DEF RetirePrevious, OnInputMethodDestroyed
  <2> QED
    BY <2>1, <2>2 DEF Channel!Next
<1>2. CASE OnInputMethodCreated(c)
  <2>1. TextHeld' /\ SameTexts
    BY <1>2, ServingHoldsNothing DEF OnInputMethodCreated, Return, IdleHandler
  <2> QED
    BY <1>2, <2>1, StutterMaps DEF OnInputMethodCreated
<1>3. CASE CreatedSendsActivate(c)
  <2>1. TextHeld' /\ SameTexts
    BY <1>3, ServingHoldsNothing DEF CreatedSendsActivate, Return, IdleHandler
  <2> QED
    BY <1>3, <2>1, StutterMaps DEF CreatedSendsActivate
<1>4. CASE EmitDelete(c)
  <2>1. TextHeld' /\ SameTexts
    BY <1>4, ServingHoldsNothing DEF EmitDelete, Return, IdleHandler
  <2> QED
    BY <1>4, <2>1, StutterMaps DEF EmitDelete
<1>5. CASE EmitText(c)
  <2>1. \A d \in Conns : h'[d].text = IF d = c THEN {} ELSE h[d].text
    BY <1>5 DEF EmitText, TypeOK, Emitting
  <2>2. TextHeld'
    BY <1>5, <2>1 DEF EmitText, TypeOK, TextHeld, Emitting
  <2>3. \A n \in 1..MaxText :
           (\E t \in h[c].text : t.n = n) <=> n \in {t.n : t \in h[c].text}
    OBVIOUS
  <2>4. Channel!Emit(c)
    <3>1. emits' = [n \in 1..MaxText |->
                      IF n \in {t.n : t \in h[c].text}
                      THEN emits[n] + 1 ELSE emits[n]]
      BY <1>5, <2>3 DEF EmitText
    <3>2. [d \in Conns |-> {t.n : t \in h'[d].text}] =
            [[d \in Conns |-> {t.n : t \in h[d].text}] EXCEPT ![c] = {}]
      BY <2>1
    <3>3. UNCHANGED <<nextText, pendingCommit>>
      BY <1>5 DEF EmitText
    <3> QED
      BY <3>1, <3>2, <3>3 DEF Channel!Emit
  <2> QED
    BY <2>2, <2>4 DEF Channel!Next
<1>6. CASE EmitPreedit(c)
  <2>1. TextHeld' /\ SameTexts
    BY <1>6, ServingHoldsNothing DEF EmitPreedit, Return, IdleHandler
  <2> QED
    BY <1>6, <2>1, StutterMaps DEF EmitPreedit
<1>7. CASE OnGrabKeyboard(c)
  <2>1. TextHeld' /\ SameTexts
    BY <1>7, ServingHoldsNothing DEF OnGrabKeyboard, Return, IdleHandler
  <2> QED
    BY <1>7, <2>1, StutterMaps DEF OnGrabKeyboard
<1>8. CASE DestroyCallbacks(c)
  <2>1. TextHeld' /\ SameTexts
    BY <1>8, ServingHoldsNothing DEF DestroyCallbacks, Return, IdleHandler
  <2>2. Channel!Discard \/ UNCHANGED Channel!vars
    BY <1>8, <2>1, StutterMaps, DiscardMaps
       DEF DestroyCallbacks, OnInputMethodDestroyed
  <2> QED
    BY <2>1, <2>2 DEF Channel!Next
<1> QED
  BY <1>1, <1>2, <1>3, <1>4, <1>5, <1>6, <1>7, <1>8 DEF HandlerStep

LEMMA RequestMaps ==
  ASSUME TypeOK, TextHeld, NEW i \in Ims, Request(i)
  PROVE  [Channel!Next]_(Channel!vars) /\ TextHeld'
<1> USE DEF objects, bridge, wire, history
<1>c. ImConn[i] \in Conns
  BY BridgeAssumption
<1>h. UNCHANGED h => TextHeld' /\ SameTexts
  BY DEF TextHeld, SameTexts
<1>1. CASE GetInputMethod(i)
  <2>1. TextHeld' /\ SameTexts
    BY <1>1, <1>c, ServingHoldsNothing DEF GetInputMethod, Dispatches
  <2> QED
    BY <1>1, <2>1, StutterMaps DEF GetInputMethod
<1>2. CASE CommitString(i)
  <2>1. {t.n : t \in pendingCommit'} =
          {t.n : t \in pendingCommit} \union {nextText + 1}
    <3> DEFINE r == Received(nextText + 1, i)
    <3>1. pendingCommit' = pendingCommit \union {r}
      BY <1>2 DEF CommitString
    <3>2. r.n = nextText + 1
      BY DEF Received
    <3> HIDE DEF r
    <3>3. \A x : x \in pendingCommit' <=> x \in pendingCommit \/ x = r
      BY <3>1
    <3> QED
      BY <3>2, <3>3
  <2>2. Channel!Receive
    BY <1>2, <2>1 DEF CommitString, Channel!Receive
  <2> QED
    BY <1>2, <1>h, <2>2 DEF CommitString, Channel!Next
<1>3. CASE SetPreeditString(i)
  BY <1>3, <1>h, StutterMaps DEF SetPreeditString
<1>4. CASE DeleteSurroundingText(i)
  <2>1. TextHeld' /\ SameTexts
    BY <1>4, <1>c
       DEF DeleteSurroundingText, Dispatches, TypeOK, TextHeld, SameTexts, Emitting
  <2> QED
    BY <1>4, <2>1, StutterMaps DEF DeleteSurroundingText
<1>5. CASE Commit(i)
  <2>1. CASE focusedPath = NoCtx
    <3>1. SameTexts /\ TextHeld'
      BY <1>5, <1>h, <2>1 DEF Commit, Flush
    <3>2. Channel!Discard
      BY <1>5, <3>1, DiscardMaps DEF Commit, Flush
    <3> QED
      BY <3>1, <3>2 DEF Channel!Next
  <2>2. CASE focusedPath # NoCtx
    <3> DEFINE c == ImConn[i]
    <3>1. /\ h[c].text = {}
          /\ h' = [h EXCEPT ![c] =
                Emitting("emitText", i, focusedPath, pendingCommit, pendingPreedit)]
          /\ pendingCommit' = {}
          /\ UNCHANGED <<nextText, emits>>
      BY <1>5, <1>c, <2>2 DEF Commit, Flush, Dispatches, TextHeld
    <3>2. \A d \in Conns :
            /\ h'[d].text = IF d = c THEN pendingCommit ELSE h[d].text
            /\ d # c => h'[d] = h[d]
            /\ h'[c].pc = "emitText"
      BY <3>1, <1>c DEF TypeOK, Emitting
    <3>3. TextHeld'
      BY <3>2 DEF TextHeld
    <3>4. Channel!Take(c)
      BY <3>1, <3>2, <1>c DEF Channel!Take
    <3> QED
      BY <1>c, <3>3, <3>4 DEF Channel!Next
  <2> QED
    BY <2>1, <2>2
<1>6. CASE GrabKeyboard(i)
  <2>1. TextHeld' /\ SameTexts
    BY <1>6, <1>c, ServingHoldsNothing DEF GrabKeyboard, Dispatches
  <2> QED
    BY <1>6, <2>1, StutterMaps DEF GrabKeyboard
<1>7. CASE Destroy(i)
  <2>1. TextHeld' /\ SameTexts
    BY <1>7, <1>c, ServingHoldsNothing DEF Destroy, Dispatches
  <2> QED
    BY <1>7, <2>1, StutterMaps DEF Destroy
<1> QED
  BY <1>1, <1>2, <1>3, <1>4, <1>5, <1>6, <1>7 DEF Request

(* The steps of a D-Bus call never move a handler's text; a focus-out is   *)
(* a Discard and everything else stutters.                                 *)
LEMMA CallMaps ==
  ASSUME TypeOK, TextHeld, NEW g \in Calls, NewCall(g) \/ CallStep(g)
  PROVE  [Channel!Next]_(Channel!vars) /\ TextHeld'
<1> USE DEF objects, bridge, wire, history
<1>1. UNCHANGED h
  BY DEF NewCall, CallStep, NotifyFocusIn, NotifyFocusOut, NotifyContext,
         RouteKey, FocusInSendsActivate, FocusOutSendsDeactivate, SendContext,
         RouteKeyReadsGrab, NextSerial, SendModifiers, SendKey
<1>2. TextHeld' /\ SameTexts
  BY <1>1 DEF TextHeld, SameTexts
<1>3. UNCHANGED <<nextText, emits>>
  BY DEF NewCall, CallStep, NotifyFocusIn, NotifyFocusOut, NotifyContext,
         RouteKey, FocusInSendsActivate, FocusOutSendsDeactivate, SendContext,
         RouteKeyReadsGrab, NextSerial, SendModifiers, SendKey
<1>4. pendingCommit' = {} \/ UNCHANGED pendingCommit
  BY DEF NewCall, CallStep, NotifyFocusIn, NotifyFocusOut, NotifyContext,
         RouteKey, FocusInSendsActivate, FocusOutSendsDeactivate, SendContext,
         RouteKeyReadsGrab, NextSerial, SendModifiers, SendKey
<1>5. CASE pendingCommit' = {}
  BY <1>2, <1>3, <1>5, DiscardMaps DEF Channel!Next
<1>6. CASE UNCHANGED pendingCommit
  BY <1>2, <1>3, <1>6, StutterMaps
<1> QED
  BY <1>4, <1>5, <1>6

(* The whole tier implements the abstract channel. *)
THEOREM BridgeImplementsChannel == Spec => ImplementsTextChannel
<1>1. Init => TextHeld /\ Channel!Init
  BY DEF Init, TextHeld, Channel!Init, IdleHandler, Serving
<1>2. TypeOK /\ TextHeld /\ [Next]_vars => TextHeld' /\ [Channel!Next]_(Channel!vars)
  <2> SUFFICES ASSUME TypeOK, TextHeld, [Next]_vars
               PROVE  TextHeld' /\ [Channel!Next]_(Channel!vars)
    OBVIOUS
  <2> USE DEF bridge, objects, wire, history
  <2>1. ASSUME NEW c \in Conns, HangUp(c) \/ RunReturns(c)
        PROVE  UNCHANGED <<h, nextText, pendingCommit, emits>>
    BY <2>1 DEF HangUp, RunReturns
  <2>2. ASSUME NEW k \in GrabIds, Release(k)
        PROVE  UNCHANGED <<h, nextText, pendingCommit, emits>>
    BY <2>2 DEF Release
  <2>3. ASSUME UNCHANGED <<h, nextText, pendingCommit, emits>>
        PROVE  TextHeld' /\ [Channel!Next]_(Channel!vars)
    BY <2>3, StutterMaps DEF TextHeld, SameTexts
  <2>4. CASE UNCHANGED vars
    BY <2>3, <2>4 DEF vars
  <2> QED
    BY <2>1, <2>2, <2>3, <2>4, HandlerStepMaps, RequestMaps, CallMaps DEF Next
<1> QED
  BY <1>1, <1>2, TypeCorrect, PTL DEF Spec, ImplementsTextChannel, Channel!Spec

(* No string a downstream IME commits reaches an application twice.        *)
THEOREM BridgeAtMostOnce == Spec => []AtMostOnce
<1>1. Channel!AtMostOnce => AtMostOnce
  BY DEF Channel!AtMostOnce, AtMostOnce
<1> QED
  BY <1>1, ChannelAtMostOnce, BridgeImplementsChannel, PTL DEF ImplementsTextChannel

(* What a client commits reaches the applications in the order in which    *)
(* it was received, across focus changes and input methods that come and   *)
(* go.  With two connections a dispatcher may emit its batch before one    *)
(* that has taken an older batch does.                                     *)
THEOREM BridgeEmitsInOrder ==
  ASSUME \A c, d \in Conns : c = d
  PROVE  Spec => TextInOrder
BY OneLaneInOrder, BridgeImplementsChannel, PTL
   DEF ImplementsTextChannel, TextInOrder, EmitsNewer
-----------------------------------------------------------------------------
(***************************************************************************)
(* Safety: the grab a key is routed to, the input method that is active,   *)
(* the context a batch is for and the modifiers a key comes with.          *)
(***************************************************************************)

(* A grab number is never handed out twice, so a new grab has not been     *)
(* released.                                                               *)
GrabNumbersCount ==
  \A i \in Ims : \A n \in 1..MaxGrab :
     <<i, n>> \in grabTable \union released => n <= grabCount[i]

(* Everything but these four requests leaves the grabs alone. *)
LEMMA GrabsUntouched ==
  ASSUME TypeOK,
         \/ \E c \in Conns : HandlerStep(c)
         \/ \E i \in Ims : CommitString(i) \/ SetPreeditString(i)
                           \/ DeleteSurroundingText(i) \/ Commit(i)
         \/ \E g \in Calls : NewCall(g) \/ CallStep(g)
         \/ \E c \in Conns : HangUp(c) \/ RunReturns(c)
         \/ UNCHANGED vars
  PROVE  UNCHANGED <<registered, grab, grabCount, released, grabTable>>
BY DEF objects, bridge, vars,
       HandlerStep, RetirePrevious, OnInputMethodCreated, CreatedSendsActivate,
       EmitDelete, EmitText, EmitPreedit, OnGrabKeyboard, DestroyCallbacks,
       CommitString, SetPreeditString, DeleteSurroundingText, Commit, Flush,
       NewCall, NotifyFocusIn, NotifyFocusOut, NotifyContext, RouteKey,
       CallStep, FocusInSendsActivate, FocusOutSendsDeactivate, SendContext,
       RouteKeyReadsGrab, NextSerial, SendModifiers, SendKey,
       HangUp, RunReturns

(* im.grab is nil or a grab that is registered and not released, however   *)
(* often a client grabs, releases and destroys.                            *)
THEOREM GrabsAreUsable == Spec => []GrabIsUsable
<1>1. Init => GrabIsUsable /\ GrabNumbersCount
  BY DEF Init, GrabIsUsable, GrabNumbersCount
<1>2. TypeOK /\ TypeOK' /\ GrabIsUsable /\ GrabNumbersCount /\ [Next]_vars
        => GrabIsUsable' /\ GrabNumbersCount'
  <2> SUFFICES ASSUME TypeOK, TypeOK', GrabIsUsable, GrabNumbersCount, [Next]_vars
               PROVE  GrabIsUsable' /\ GrabNumbersCount'
    OBVIOUS
  <2> USE BridgeAssumption DEF TypeOK, GrabIds, NoGrab
  <2>0. ASSUME UNCHANGED <<registered, grab, grabCount, released, grabTable>>
        PROVE  GrabIsUsable' /\ GrabNumbersCount'
    BY <2>0 DEF GrabIsUsable, GrabNumbersCount
  <2>1. ASSUME NEW i \in Ims, GetInputMethod(i)
        PROVE  GrabIsUsable' /\ GrabNumbersCount'
    BY <2>1 DEF GetInputMethod, GrabIsUsable, GrabNumbersCount
  <2>2. ASSUME NEW i \in Ims, GrabKeyboard(i)
        PROVE  GrabIsUsable' /\ GrabNumbersCount'
    <3> DEFINE n == grabCount[i] + 1
    <3>1. /\ n \in 1..MaxGrab
          /\ <<i, n>> \notin released
      BY <2>2 DEF GrabKeyboard, GrabNumbersCount
    <3>2. GrabIsUsable'
      BY <2>2, <3>1 DEF GrabKeyboard, GrabIsUsable
    <3>3. GrabNumbersCount'
      BY <2>2, <3>1 DEF GrabKeyboard, GrabNumbersCount
    <3> QED
      BY <3>2, <3>3
  <2>3. ASSUME NEW i \in Ims, Destroy(i)
        PROVE  GrabIsUsable' /\ GrabNumbersCount'
    <3>1. GrabIsUsable'
      BY <2>3 DEF Destroy, GrabIsUsable
    <3>2. GrabNumbersCount'
      BY <2>3 DEF Destroy, GrabNumbersCount
    <3> QED
      BY <3>1, <3>2
  <2>4. ASSUME NEW k \in GrabIds, Release(k)
        PROVE  GrabIsUsable' /\ GrabNumbersCount'
    <3>1. PICK i \in Ims, n \in 1..MaxGrab : k = <<i, n>>
      OBVIOUS
    <3>2. GrabIsUsable'
      BY <2>4, <3>1 DEF Release, GrabIsUsable
    <3>3. GrabNumbersCount'
      BY <2>4, <3>1 DEF Release, GrabNumbersCount
    <3> QED
      BY <3>2, <3>3
  <2> QED
    BY <2>0, <2>1, <2>2, <2>3, <2>4, GrabsUntouched DEF Next, Request
<1> QED
  BY <1>1, <1>2, TypeCorrect, PTL DEF Spec
-----------------------------------------------------------------------------
(* What get_input_method has done when it comes to tell the bridge. *)
AdoptsItsCurrent ==
  \A c \in Conns : h[c].pc \in {"retire", "adopt"} =>
    /\ ImConn[h[c].im] = c
    /\ h[c].im \in registered
    /\ mgrCurrent[c] = h[c].im

(* Between two requests the active IME of a connection is the one its      *)
(* manager holds.                                                          *)
THEOREM ActiveImIsCurrent == Spec => []ActiveImIsManagersCurrent
<1> DEFINE ActiveInv == ActiveImIsManagersCurrent /\ AdoptsItsCurrent
<1>1. Init => ActiveInv
  BY DEF Init, ActiveImIsManagersCurrent, AdoptsItsCurrent, IdleHandler, Serving
<1>2. TypeOK /\ ActiveInv /\ [Next]_vars => ActiveInv'
  <2> SUFFICES ASSUME TypeOK, ActiveInv, [Next]_vars
               PROVE  ActiveInv'
    OBVIOUS
  <2> USE BridgeAssumption DEF TypeOK, objects, bridge
  <2>c. ActiveImIsManagersCurrent /\ AdoptsItsCurrent
    OBVIOUS
  <2>0. ASSUME UNCHANGED <<h, currentIM, registered, mgrCurrent>>
        PROVE  ActiveInv'
    BY <2>0, <2>c DEF ActiveImIsManagersCurrent, AdoptsItsCurrent
  <2>s. ASSUME NEW c \in Conns, NEW r,
               r.pc \notin {"retire", "adopt", "destroyed"},
               h[c].pc \notin {"retire", "destroyed"},
               h' = [h EXCEPT ![c] = r],
               UNCHANGED <<currentIM, registered, mgrCurrent>>
        PROVE  ActiveInv'
    <3>1. \A d \in Conns : h'[d] = IF d = c THEN r ELSE h[d]
      BY <2>s
    <3>2. ActiveImIsManagersCurrent'
      BY <2>c, <2>s, <3>1 DEF ActiveImIsManagersCurrent
    <3>3. AdoptsItsCurrent'
      BY <2>c, <2>s, <3>1 DEF AdoptsItsCurrent
    <3> QED
      BY <3>2, <3>3
  <2>a. ASSUME NEW c \in Conns,
               h'[c].pc \in {"retire", "adopt"} =>
                 /\ ImConn[h'[c].im] = c
                 /\ h'[c].im \in registered'
                 /\ mgrCurrent'[c] = h'[c].im,
               \A d \in Conns \ {c} : h'[d] = h[d] /\ mgrCurrent'[d] = mgrCurrent[d],
               \A j \in registered : ImConn[j] # c => j \in registered'
        PROVE  AdoptsItsCurrent'
    <3> SUFFICES ASSUME NEW d \in Conns, d # c, h'[d].pc \in {"retire", "adopt"}
                 PROVE  /\ ImConn[h'[d].im] = d
                        /\ h'[d].im \in registered'
                        /\ mgrCurrent'[d] = h'[d].im
      BY <2>a DEF AdoptsItsCurrent
    <3> QED
      BY <2>a, <2>c DEF AdoptsItsCurrent
  <2>1. ASSUME NEW i \in Ims, GetInputMethod(i)
        PROVE  ActiveInv'
    <3> DEFINE c == ImConn[i]
               pc == IF mgrCurrent[c] = NoIm THEN "adopt" ELSE "retire"
    <3>1. /\ c \in Conns
          /\ h[c].pc = "idle"
          /\ h'[c] = Serving(pc, i, mgrCurrent[c])
          /\ \A d \in Conns \ {c} : h'[d] = h[d] /\ mgrCurrent'[d] = mgrCurrent[d]
          /\ mgrCurrent'[c] = i
          /\ registered' = registered \union {i}
          /\ currentIM' = currentIM
      BY <2>1 DEF GetInputMethod, Dispatches
    <3>2. h'[c].pc = pc /\ h'[c].im = i /\ h'[c].prev = mgrCurrent[c]
      BY <3>1 DEF Serving
    <3>3. ActiveImIsManagersCurrent'
      BY <2>c, <3>1, <3>2 DEF ActiveImIsManagersCurrent
    <3>4. AdoptsItsCurrent'
      BY <2>c, <3>1, <3>2 DEF AdoptsItsCurrent
    <3> QED
      BY <3>3, <3>4
  <2>2. ASSUME NEW i \in Ims, Destroy(i)
        PROVE  ActiveInv'
    <3> DEFINE c == ImConn[i]
    <3>1. /\ c \in Conns
          /\ h[c].pc = "idle"
          /\ h'[c] = Serving("destroyed", i, NoIm)
          /\ \A d \in Conns \ {c} : h'[d] = h[d] /\ mgrCurrent'[d] = mgrCurrent[d]
          /\ mgrCurrent'[c] = IF mgrCurrent[c] = i THEN NoIm ELSE mgrCurrent[c]
          /\ registered' = registered \ {i}
          /\ currentIM' = currentIM
      BY <2>2 DEF Destroy, Dispatches
    <3>2. h'[c].pc = "destroyed" /\ h'[c].im = i
      BY <3>1 DEF Serving
    <3>3. ActiveImIsManagersCurrent'
      BY <2>c, <3>1, <3>2 DEF ActiveImIsManagersCurrent
    <3>4. AdoptsItsCurrent'
      BY <2>a, <2>c, <3>1, <3>2 DEF AdoptsItsCurrent
    <3> QED
      BY <3>3, <3>4
  <2>3. ASSUME NEW i \in Ims,
               CommitString(i) \/ SetPreeditString(i) \/ DeleteSurroundingText(i)
               \/ Commit(i) \/ GrabKeyboard(i)
        PROVE  ActiveInv'
    <3> DEFINE c == ImConn[i]
    <3>1. c \in Conns /\ h[c].pc = "idle"
          /\ UNCHANGED <<currentIM, registered, mgrCurrent>>
      BY <2>3 DEF CommitString, SetPreeditString, DeleteSurroundingText, Commit,
                  Flush, GrabKeyboard, Dispatches
    <3> DEFINE delete == Emitting("emitDelete", i, focusedPath, {}, "unset")
               text == Emitting("emitText", i, focusedPath, pendingCommit,
                                pendingPreedit)
               reset == Serving("resetSerial", i, NoIm)
    <3>2. h' \in {h, [h EXCEPT ![c] = delete], [h EXCEPT ![c] = text],
                 [h EXCEPT ![c] = reset]}
      BY <2>3 DEF CommitString, SetPreeditString, DeleteSurroundingText, Commit,
                  Flush, GrabKeyboard
    <3>3. delete.pc = "emitDelete" /\ text.pc = "emitText" /\ reset.pc = "resetSerial"
      BY DEF Emitting, Serving
    <3> HIDE DEF c, delete, text, reset
    <3> QED
      BY <2>0, <2>s, <3>1, <3>2, <3>3
  <2>4. ASSUME NEW c \in Conns, RetirePrevious(c)
        PROVE  ActiveInv'
    <3>1. /\ h[c].pc = "retire"
          /\ h'[c] = Serving("adopt", h[c].im, NoIm)
          /\ \A d \in Conns \ {c} : h'[d] = h[d]
          /\ currentIM' = IF currentIM = h[c].prev THEN NoIm ELSE currentIM
          /\ UNCHANGED <<registered, mgrCurrent>>
      BY <2>4 DEF RetirePrevious, OnInputMethodDestroyed
    <3>2. h'[c].pc = "adopt" /\ h'[c].im = h[c].im
      BY <3>1 DEF Serving
    <3>3. ActiveImIsManagersCurrent'
      BY <2>c, <3>1, <3>2 DEF ActiveImIsManagersCurrent
    <3>4. ImConn[h[c].im] = c /\ h[c].im \in registered /\ mgrCurrent[c] = h[c].im
      BY <2>c, <3>1 DEF AdoptsItsCurrent
    <3>5. AdoptsItsCurrent'
      BY <2>a, <3>1, <3>2, <3>4
    <3> QED
      BY <3>3, <3>5
  <2>5. ASSUME NEW c \in Conns, OnInputMethodCreated(c)
        PROVE  ActiveInv'
    <3>1. /\ h[c].pc = "adopt"
          /\ h'[c].pc \in {"activate", "idle"}
          /\ \A d \in Conns \ {c} : h'[d] = h[d]
          /\ currentIM' = h[c].im
          /\ UNCHANGED <<registered, mgrCurrent>>
      BY <2>5 DEF OnInputMethodCreated, Return, IdleHandler, Serving
    <3>2. ActiveImIsManagersCurrent'
      BY <2>c, <3>1 DEF ActiveImIsManagersCurrent, AdoptsItsCurrent
    <3>3. AdoptsItsCurrent'
      BY <2>a, <3>1
    <3> QED
      BY <3>2, <3>3
  <2>6. ASSUME NEW c \in Conns, DestroyCallbacks(c)
        PROVE  ActiveInv'
    <3>1. /\ h[c].pc = "destroyed"
          /\ h'[c].pc = "idle"
          /\ \A d \in Conns \ {c} : h'[d] = h[d]
          /\ currentIM' = IF currentIM = h[c].im THEN NoIm ELSE currentIM
          /\ UNCHANGED <<registered, mgrCurrent>>
      BY <2>6 DEF DestroyCallbacks, OnInputMethodDestroyed, Return, IdleHandler,
                  Serving
    <3>2. ActiveImIsManagersCurrent'
      BY <2>c, <3>1 DEF ActiveImIsManagersCurrent
    <3>3. AdoptsItsCurrent'
      BY <2>a, <3>1
    <3> QED
      BY <3>2, <3>3
  <2>7. ASSUME NEW c \in Conns,
               CreatedSendsActivate(c) \/ EmitDelete(c) \/ EmitText(c)
               \/ EmitPreedit(c) \/ OnGrabKeyboard(c)
        PROVE  ActiveInv'
    <3>1. h[c].pc \notin {"retire", "destroyed"}
          /\ UNCHANGED <<currentIM, registered, mgrCurrent>>
      BY <2>7 DEF CreatedSendsActivate, EmitDelete, EmitText, EmitPreedit,
                  OnGrabKeyboard
    <3>2. \E r : r.pc \in {"idle", "emitPreedit"} /\ h' = [h EXCEPT ![c] = r]
      BY <2>7 DEF CreatedSendsActivate, EmitDelete, EmitText, EmitPreedit,
                  OnGrabKeyboard, Return, IdleHandler, Serving, Emitting
    <3> QED
      BY <2>s, <3>1, <3>2
  <2>8. ASSUME NEW g \in Calls, NewCall(g) \/ CallStep(g)
        PROVE  ActiveInv'
    <3>1. UNCHANGED <<h, currentIM, registered, mgrCurrent>>
      BY <2>8 DEF NewCall, NotifyFocusIn, NotifyFocusOut, NotifyContext,
                  RouteKey, CallStep, FocusInSendsActivate,
                  FocusOutSendsDeactivate, SendContext, RouteKeyReadsGrab,
                  NextSerial, SendModifiers, SendKey
    <3> QED
      BY <2>0, <3>1
  <2>9. ASSUME \/ \E c \in Conns : HangUp(c) \/ RunReturns(c)
               \/ \E k \in GrabIds : Release(k)
               \/ UNCHANGED vars
        PROVE  ActiveInv'
    <3>1. UNCHANGED <<h, currentIM, registered, mgrCurrent>>
      BY <2>9 DEF HangUp, RunReturns, Release, vars
    <3> QED
      BY <2>0, <3>1
  <2> HIDE DEF ActiveInv
  <2> QED
    BY <2>1, <2>2, <2>3, <2>4, <2>5, <2>6, <2>7, <2>8, <2>9
       DEF Next, Request, HandlerStep
<1> QED
  BY <1>1, <1>2, TypeCorrect, PTL DEF Spec
-----------------------------------------------------------------------------
(* With bracketed focus calls, what is pending came while the context that *)
(* has focus now had it, or while none had.                                *)
PendingIsOfFocus == \A t \in pendingCommit : t.ctx \in {focusedPath, NoCtx}

\* A dispatcher that goes on with nothing, or with the batch for the focus.
LEMMA HandlerTakes ==
  ASSUME TypeOK, NoCrossContextText, PendingIsOfFocus, NEW c \in Conns, NEW r,
         r.text = {} \/ (r.text = pendingCommit /\ r.path = focusedPath),
         h' = [h EXCEPT ![c] = r]
  PROVE  NoCrossContextText'
<1> SUFFICES ASSUME NEW d \in Conns, NEW t \in h'[d].text
             PROVE  t.ctx \in {h'[d].path, NoCtx}
  BY DEF NoCrossContextText
<1>1. h'[d] = IF d = c THEN r ELSE h[d]
  BY DEF TypeOK
<1> QED
  BY <1>1 DEF NoCrossContextText, PendingIsOfFocus

LEMMA ServingTakesNothing ==
  ASSUME TypeOK, NoCrossContextText, PendingIsOfFocus, NEW c \in Conns,
         NEW pc, NEW i, NEW prev, h' = [h EXCEPT ![c] = Serving(pc, i, prev)]
  PROVE  NoCrossContextText'
<1> DEFINE r == Serving(pc, i, prev)
<1>1. r.text = {}
  BY DEF Serving
<1> HIDE DEF r
<1> QED
  BY <1>1, HandlerTakes DEF r

LEMMA EmittingTakes ==
  ASSUME TypeOK, NoCrossContextText, PendingIsOfFocus, NEW c \in Conns,
         NEW pc, NEW i, NEW preedit, NEW path, NEW text,
         text = {} \/ (text = pendingCommit /\ path = focusedPath),
         h' = [h EXCEPT ![c] = Emitting(pc, i, path, text, preedit)]
  PROVE  NoCrossContextText'
<1> DEFINE r == Emitting(pc, i, path, text, preedit)
<1>1. r.text = text /\ r.path = path
  BY DEF Emitting
<1> HIDE DEF r
<1> QED
  BY <1>1, HandlerTakes DEF r

(* NotifyFocusOut drops the batch in the critical section that clears the  *)
(* focus, and flushPending reads both in one: text received in one context *)
(* is not emitted to another, for any number of clients and contexts that  *)
(* leave one before they enter the next.                                   *)
THEOREM TextStaysInContext ==
  ASSUME Bracketed = TRUE
  PROVE  Spec => []NoCrossContextText
<1> DEFINE ContextInv == NoCrossContextText /\ PendingIsOfFocus
<1>1. Init => ContextInv
  BY DEF Init, NoCrossContextText, PendingIsOfFocus, IdleHandler, Serving
<1>2. TypeOK /\ ContextInv /\ [Next]_vars => ContextInv'
  <2> SUFFICES ASSUME TypeOK, ContextInv, [Next]_vars
               PROVE  ContextInv'
    OBVIOUS
  <2> USE DEF objects, bridge
  <2>d. \A i \in Ims : ImConn[i] \in Conns
    BY BridgeAssumption
  <2>c. NoCrossContextText /\ PendingIsOfFocus
    OBVIOUS
  <2>p. ASSUME pendingCommit' \subseteq pendingCommit, focusedPath' = focusedPath
        PROVE  PendingIsOfFocus'
    BY <2>c, <2>p DEF PendingIsOfFocus
  <2>1. ASSUME NEW c \in Conns, HandlerStep(c)
        PROVE  ContextInv'
    <3>1. NoCrossContextText'
      <4>1. CASE RetirePrevious(c)
        BY ServingTakesNothing, <4>1 DEF RetirePrevious
      <4>2. CASE OnInputMethodCreated(c)
        BY ServingTakesNothing, <4>2 DEF OnInputMethodCreated, Return, IdleHandler
      <4>3. CASE CreatedSendsActivate(c) \/ EmitDelete(c) \/ EmitPreedit(c) \/ OnGrabKeyboard(c)
                 \/ DestroyCallbacks(c)
        <5>1. Return(c)
          BY <4>3 DEF CreatedSendsActivate, EmitDelete, EmitPreedit, OnGrabKeyboard, DestroyCallbacks
        <5> QED
          BY ServingTakesNothing, <5>1 DEF Return, IdleHandler
      <4>4. CASE EmitText(c)
        BY <4>4, EmittingTakes DEF EmitText
      <4> QED
        BY <2>1, <4>1, <4>2, <4>3, <4>4 DEF HandlerStep
    <3>3. pendingCommit' \subseteq pendingCommit /\ focusedPath' = focusedPath
      BY <2>1
         DEF HandlerStep, RetirePrevious, OnInputMethodCreated, CreatedSendsActivate, EmitDelete,
             EmitText, EmitPreedit, OnGrabKeyboard, DestroyCallbacks, OnInputMethodDestroyed
    <3> QED
      BY <2>p, <3>1, <3>3
  <2>2. ASSUME NEW i \in Ims, CommitString(i)
        PROVE  ContextInv'
    <3>1. UNCHANGED <<h, focusedPath>>
      BY <2>2 DEF CommitString
    <3>2. pendingCommit' = pendingCommit \union {Received(nextText + 1, i)}
      BY <2>2 DEF CommitString
    <3>3. Received(nextText + 1, i).ctx = focusedPath
      BY DEF Received
    <3>4. NoCrossContextText'
      BY <2>c, <3>1 DEF NoCrossContextText
    <3>5. PendingIsOfFocus'
      BY <2>c, <3>1, <3>2, <3>3 DEF PendingIsOfFocus
    <3> QED
      BY <3>4, <3>5
  <2>3. ASSUME NEW i \in Ims, Commit(i)
        PROVE  ContextInv'
    <3>1. ImConn[i] \in Conns /\ pendingCommit' = {} /\ focusedPath' = focusedPath
      BY <2>3, <2>d DEF Commit, Flush
    <3>2. NoCrossContextText'
      <4>1. CASE focusedPath = NoCtx
        BY <2>3, <2>c, <4>1 DEF Commit, Flush, NoCrossContextText
      <4>2. CASE focusedPath # NoCtx
        BY <2>3, <2>c, <3>1, <4>2, EmittingTakes DEF Commit, Flush
      <4> QED
        BY <4>1, <4>2
    <3> QED
      BY <2>p, <3>1, <3>2
  <2>4. ASSUME NEW i \in Ims,
               \/ GetInputMethod(i) \/ SetPreeditString(i) \/ DeleteSurroundingText(i)
               \/ GrabKeyboard(i) \/ Destroy(i)
        PROVE  ContextInv'
    <3>1. ImConn[i] \in Conns
      BY <2>d
    <3>2. UNCHANGED <<pendingCommit, focusedPath>>
      BY <2>4 DEF GetInputMethod, SetPreeditString, DeleteSurroundingText, GrabKeyboard, Destroy
    <3>3. NoCrossContextText'
      <4>1. CASE GetInputMethod(i)
        BY ServingTakesNothing, <3>1, <4>1 DEF GetInputMethod
      <4>2. CASE SetPreeditString(i)
        BY <2>c, <4>2 DEF SetPreeditString, NoCrossContextText
      <4>3. CASE DeleteSurroundingText(i)
        BY EmittingTakes, <3>1, <4>3 DEF DeleteSurroundingText
      <4>4. CASE GrabKeyboard(i)
        BY ServingTakesNothing, <3>1, <4>4 DEF GrabKeyboard
      <4>5. CASE Destroy(i)
        BY ServingTakesNothing, <3>1, <4>5 DEF Destroy
      <4> QED
        BY <2>4, <4>1, <4>2, <4>3, <4>4, <4>5
    <3> QED
      BY <2>p, <3>2, <3>3
  <2>5. ASSUME NEW g \in Calls, NEW p \in Ctxs, NotifyFocusIn(g, p)
        PROVE  ContextInv'
    <3>1. focusedPath = NoCtx /\ UNCHANGED <<h, pendingCommit>>
      BY <2>5 DEF NotifyFocusIn
    <3> QED
      BY <2>c, <3>1 DEF NoCrossContextText, PendingIsOfFocus
  <2>6. ASSUME NEW g \in Calls, NEW p \in Ctxs, NotifyFocusOut(g, p)
        PROVE  ContextInv'
    <3>1. pendingCommit' = {} /\ UNCHANGED h
      BY <2>6 DEF NotifyFocusOut
    <3> QED
      BY <2>c, <3>1 DEF NoCrossContextText, PendingIsOfFocus
  <2>7. ASSUME UNCHANGED <<h, pendingCommit, focusedPath>>
        PROVE  ContextInv'
    BY <2>c, <2>7 DEF NoCrossContextText, PendingIsOfFocus
  <2>8. ASSUME NEW g \in Calls,
               (\E p \in Notifying : NotifyContext(g, p)) \/ RouteKey(g) \/ CallStep(g)
        PROVE  UNCHANGED <<h, pendingCommit, focusedPath>>
    BY <2>8 DEF NotifyContext, RouteKey, CallStep, FocusInSendsActivate, FocusOutSendsDeactivate,
                SendContext, RouteKeyReadsGrab, NextSerial, SendModifiers, SendKey
  <2>9. ASSUME \/ \E c \in Conns : HangUp(c) \/ RunReturns(c)
               \/ \E k \in GrabIds : Release(k)
               \/ UNCHANGED vars
        PROVE  UNCHANGED <<h, pendingCommit, focusedPath>>
    BY <2>9 DEF HangUp, RunReturns, Release, vars
  <2> HIDE DEF ContextInv
  <2> QED
    BY <2>1, <2>2, <2>3, <2>4, <2>5, <2>6, <2>7, <2>8, <2>9 DEF Next, Request, NewCall
<1> QED
  BY <1>1, <1>2, TypeCorrect, PTL DEF Spec
-----------------------------------------------------------------------------
(* What an application that makes one focus call at a time, each in-focus  *)
(* bracketed by an out-focus, can rely on.  A pending deactivate finds     *)
(* nothing focused and a pending notification the context it is about;     *)
(* the active input method of a focused context has been told, or the      *)
(* goroutine that activates it is on its way.                              *)
DeactivatesUnfocused ==
  \A g \in Calls : call[g].pc = "deactivate" => focusedPath = NoCtx
NotifiesFocused ==
  \A g \in Calls : call[g].pc = "notify" => call[g].ctx = focusedPath
Activating(i) ==
  \/ \E c \in Conns : h[c].pc = "activate" /\ h[c].im = i
  \/ \E g \in Calls : call[g].pc = "activate" /\ call[g].im = i
ImIsTold(i) == i \in active /\ told[i] \in {focusedPath, NoCtx}
FocusedImIsTold ==
  currentIM # NoIm /\ focusedPath # NoCtx /\ Writable(currentIM) =>
    ImIsTold(currentIM) \/ Activating(currentIM)

FocusInv == DeactivatesUnfocused /\ NotifiesFocused /\ FocusedImIsTold

\* A dispatcher that was not about to activate, and the bridge keeps its
\* input method or loses it.
LEMMA DispatcherGoesOn ==
  ASSUME TypeOK, FocusInv, NEW c \in Conns, h[c].pc # "activate",
         \A d \in Conns : d # c => h'[d] = h[d],
         currentIM' \in {currentIM, NoIm},
         UNCHANGED <<call, conn, focusedPath, active, told>>
  PROVE  FocusInv'
<1>1. DeactivatesUnfocused' /\ NotifiesFocused'
  BY DEF FocusInv, DeactivatesUnfocused, NotifiesFocused
<1>2. \A i : Activating(i) => Activating(i)'
  BY DEF Activating
<1>3. FocusedImIsTold'
  BY <1>2 DEF FocusInv, FocusedImIsTold, ImIsTold, Writable
<1> QED
  BY <1>1, <1>3 DEF FocusInv

LEMMA HandlersTell ==
  ASSUME TypeOK, FocusInv, NEW c \in Conns, HandlerStep(c)
  PROVE  FocusInv'
<1> USE DEF objects, bridge, wire, history
<1>h. /\ h \in [Conns -> Handler] /\ h[c] \in Handler
      /\ \A i \in Ims : ImConn[i] \in Conns
  BY BridgeAssumption DEF TypeOK
<1>1. CASE OnInputMethodCreated(c)
  <2>1. /\ currentIM' = h[c].im /\ UNCHANGED <<call, conn, focusedPath, active, told>>
        /\ focusedPath # NoCtx => h'[c] = Serving("activate", h[c].im, NoIm)
    BY <1>1, <1>h DEF OnInputMethodCreated
  <2>2. focusedPath # NoCtx => Activating(currentIM)'
    BY <2>1 DEF Activating, Serving
  <2>3. DeactivatesUnfocused' /\ NotifiesFocused'
    BY <2>1 DEF FocusInv, DeactivatesUnfocused, NotifiesFocused
  <2> QED
    BY <2>1, <2>2, <2>3 DEF FocusInv, FocusedImIsTold
<1>2. CASE CreatedSendsActivate(c)
  <2>1. /\ UNCHANGED <<call, conn, focusedPath, currentIM>>
        /\ \A d \in Conns : d # c => h'[d] = h[d]
        /\ h[c].im \in Ims /\ h[c].pc = "activate"
    BY <1>2, <1>h DEF CreatedSendsActivate, Return, Handler
  <2>2. IF Writable(h[c].im)
        THEN active' = active \union {h[c].im} /\ told' = [told EXCEPT ![h[c].im] = NoCtx]
        ELSE UNCHANGED <<active, told>>
    BY <1>2 DEF CreatedSendsActivate, DeliverActivate
  <2>3. DeactivatesUnfocused' /\ NotifiesFocused'
    BY <2>1 DEF FocusInv, DeactivatesUnfocused, NotifiesFocused
  <2>4. ASSUME currentIM # NoIm, focusedPath # NoCtx, Writable(currentIM)
        PROVE  ImIsTold(currentIM)' \/ Activating(currentIM)'
    <3>1. CASE h[c].im = currentIM
      BY <2>1, <2>2, <2>4, <3>1 DEF ImIsTold, TypeOK
    <3>2. CASE h[c].im # currentIM
      <4>1. Activating(currentIM) => Activating(currentIM)'
        BY <2>1, <3>2 DEF Activating
      <4>2. ImIsTold(currentIM) => ImIsTold(currentIM)'
        BY <2>1, <2>2, <3>2 DEF ImIsTold, TypeOK
      <4> QED
        BY <2>4, <4>1, <4>2 DEF FocusInv, FocusedImIsTold
    <3> QED
      BY <3>1, <3>2
  <2>5. FocusedImIsTold'
    BY <2>1, <2>4 DEF FocusedImIsTold, Writable
  <2> QED
    BY <2>3, <2>5 DEF FocusInv
<1>3. CASE \/ RetirePrevious(c) \/ EmitDelete(c) \/ EmitText(c) \/ EmitPreedit(c)
           \/ OnGrabKeyboard(c) \/ DestroyCallbacks(c)
  <2>1. /\ h[c].pc # "activate" /\ \A d \in Conns : d # c => h'[d] = h[d]
        /\ currentIM' \in {currentIM, NoIm}
        /\ UNCHANGED <<call, conn, focusedPath, active, told>>
    BY <1>3, <1>h
       DEF RetirePrevious, EmitDelete, EmitText, EmitPreedit, OnGrabKeyboard, DestroyCallbacks,
           OnInputMethodDestroyed, Return
  <2> QED
    BY <2>1, DispatcherGoesOn
<1> QED
  BY <1>1, <1>2, <1>3 DEF HandlerStep

\* The one call there is: it finds the focus as it left it.
LEMMA CallsTell ==
  ASSUME TypeOK, FocusInv, Bracketed = TRUE, \A f, g \in Calls : f = g,
         NEW g \in Calls, NewCall(g) \/ CallStep(g)
  PROVE  FocusInv'
<1> USE DEF objects, bridge, wire, history
<1>h. /\ call[g] \in Call /\ call \in [Calls -> Call]
      /\ \A i \in Ims : ImConn[i] \in Conns
      /\ \A f \in Calls : f = g
  BY BridgeAssumption DEF TypeOK
<1>w. UNCHANGED <<h, conn, currentIM>>
  BY DEF NewCall, NotifyFocusIn, NotifyFocusOut, NotifyContext, RouteKey, CallStep,
         FocusInSendsActivate, FocusOutSendsDeactivate, SendContext, RouteKeyReadsGrab,
         NextSerial, SendModifiers, SendKey
<1>1. ASSUME NEW p \in Ctxs, NotifyFocusIn(g, p)
      PROVE  FocusInv'
  <2>1. /\ focusedPath' = p /\ UNCHANGED <<active, told>>
        /\ call[g].pc = "idle"
        /\ currentIM # NoIm => call'[g] = InCall("activate", currentIM, p, NoGrab, 0)
        /\ currentIM = NoIm => call' = call
    BY <1>1, <1>h DEF NotifyFocusIn
  <2>2. currentIM # NoIm => call'[g].pc = "activate" /\ call'[g].im = currentIM
    BY <2>1 DEF InCall
  <2>3. DeactivatesUnfocused' /\ NotifiesFocused'
    BY <1>h, <2>1, <2>2 DEF DeactivatesUnfocused, NotifiesFocused
  <2>4. FocusedImIsTold'
    BY <1>w, <2>2 DEF FocusedImIsTold, Activating
  <2> QED
    BY <2>3, <2>4 DEF FocusInv
<1>2. ASSUME NEW p \in Ctxs, NotifyFocusOut(g, p)
      PROVE  FocusInv'
  <2>1. focusedPath' = NoCtx /\ call[g].pc = "idle"
    BY <1>2 DEF NotifyFocusOut
  <2>2. call'[g].pc # "notify"
    BY <1>2, <1>h, <2>1 DEF NotifyFocusOut, InCall
  <2> QED
    BY <1>h, <2>1, <2>2 DEF FocusInv, DeactivatesUnfocused, NotifiesFocused, FocusedImIsTold
<1>3. CASE FocusInSendsActivate(g)
  <2>1. /\ UNCHANGED focusedPath /\ call'[g] = IdleCall
        /\ call[g].im \in Ims /\ call[g].pc = "activate"
    BY <1>3, <1>h DEF FocusInSendsActivate, Done, Call
  <2>2. IF Writable(call[g].im)
        THEN active' = active \union {call[g].im} /\ told' = [told EXCEPT ![call[g].im] = NoCtx]
        ELSE UNCHANGED <<active, told>>
    BY <1>3 DEF FocusInSendsActivate, DeliverActivate
  <2>3. DeactivatesUnfocused' /\ NotifiesFocused'
    BY <1>h, <2>1 DEF DeactivatesUnfocused, NotifiesFocused, IdleCall, InCall
  <2>4. ASSUME currentIM # NoIm, focusedPath # NoCtx, Writable(currentIM)
        PROVE  ImIsTold(currentIM)' \/ Activating(currentIM)'
    <3>1. CASE call[g].im = currentIM
      BY <1>w, <2>1, <2>2, <2>4, <3>1 DEF ImIsTold, TypeOK
    <3>2. CASE call[g].im # currentIM
      <4>1. Activating(currentIM) => Activating(currentIM)'
        BY <1>h, <1>w, <3>2 DEF Activating
      <4>2. ImIsTold(currentIM) => ImIsTold(currentIM)'
        BY <1>w, <2>1, <2>2, <3>2 DEF ImIsTold, TypeOK
      <4> QED
        BY <2>4, <4>1, <4>2 DEF FocusInv, FocusedImIsTold
    <3> QED
      BY <3>1, <3>2
  <2>5. FocusedImIsTold'
    BY <1>w, <2>1, <2>4 DEF FocusedImIsTold, Writable
  <2> QED
    BY <2>3, <2>5 DEF FocusInv
<1>4. CASE FocusOutSendsDeactivate(g)
  <2>1. focusedPath = NoCtx /\ focusedPath' = focusedPath /\ call'[g] = IdleCall
    BY <1>4, <1>h DEF FocusOutSendsDeactivate, Done, FocusInv, DeactivatesUnfocused
  <2>2. call'[g].pc = "idle"
    BY <2>1 DEF IdleCall, InCall
  <2> QED
    BY <1>h, <2>1, <2>2 DEF FocusInv, DeactivatesUnfocused, NotifiesFocused, FocusedImIsTold
<1>5. CASE SendContext(g)
  <2>1. /\ UNCHANGED <<focusedPath, active>> /\ call'[g] = IdleCall
        /\ call[g].pc = "notify" /\ call[g].im \in Ims /\ call[g].ctx = focusedPath
        /\ told' = told \/ told' = [told EXCEPT ![call[g].im] = focusedPath]
    BY <1>5, <1>h DEF SendContext, Done, Call, FocusInv, NotifiesFocused
  <2>2. call'[g].pc = "idle"
    BY <2>1 DEF IdleCall, InCall
  <2>3. Activating(currentIM) => Activating(currentIM)'
    BY <1>h, <1>w, <2>1 DEF Activating
  <2>4. ImIsTold(currentIM) => ImIsTold(currentIM)'
    BY <1>w, <2>1 DEF ImIsTold, TypeOK
  <2>5. FocusedImIsTold'
    BY <1>w, <2>1, <2>3, <2>4 DEF FocusInv, FocusedImIsTold, Writable
  <2> QED
    BY <1>h, <2>2, <2>5 DEF FocusInv, DeactivatesUnfocused, NotifiesFocused
<1>6. ASSUME NEW p \in Notifying, NotifyContext(g, p)
      PROVE  FocusInv'
  <2>1. /\ UNCHANGED <<focusedPath, active, told>> /\ focusedPath = p /\ call[g].pc = "idle"
        /\ call'[g] = InCall("notify", currentIM, p, NoGrab, 0)
    BY <1>6, <1>h DEF NotifyContext
  <2>2. call'[g].pc = "notify" /\ call'[g].ctx = p
    BY <2>1 DEF InCall
  <2>3. Activating(currentIM) => Activating(currentIM)'
    BY <1>h, <1>w, <2>1 DEF Activating
  <2>4. FocusedImIsTold'
    BY <1>w, <2>1, <2>3 DEF FocusInv, FocusedImIsTold, ImIsTold, Writable
  <2> QED
    BY <1>h, <2>1, <2>2, <2>4 DEF FocusInv, DeactivatesUnfocused, NotifiesFocused
<1>7. CASE RouteKey(g) \/ RouteKeyReadsGrab(g) \/ NextSerial(g) \/ SendModifiers(g) \/ SendKey(g)
  <2>1. /\ UNCHANGED <<focusedPath, active, told>> /\ call[g].pc # "activate"
        /\ call'[g].pc \notin {"deactivate", "notify"}
    BY <1>7, <1>h DEF RouteKey, RouteKeyReadsGrab, NextSerial, SendModifiers, SendKey, Done,
                      IdleCall, InCall
  <2>2. Activating(currentIM) => Activating(currentIM)'
    BY <1>h, <1>w, <2>1 DEF Activating
  <2>3. FocusedImIsTold'
    BY <1>w, <2>1, <2>2 DEF FocusInv, FocusedImIsTold, ImIsTold, Writable
  <2> QED
    BY <1>h, <2>1, <2>3 DEF FocusInv, DeactivatesUnfocused, NotifiesFocused
<1> QED
  BY <1>1, <1>2, <1>3, <1>4, <1>5, <1>6, <1>7 DEF NewCall, CallStep

(* For any number of clients that come, replace and destroy their input    *)
(* methods and go: once every goroutine is through, the active one of a    *)
(* focused context has been activated and told of no other context.  That  *)
(* the application's focus calls do not overlap is needed: two goroutines  *)
(* may send activate and deactivate in the other order.                    *)
THEOREM FocusedImsAreActive ==
  ASSUME Bracketed = TRUE, \A f, g \in Calls : f = g
  PROVE  Spec => []FocusedImIsActive
<1>1. Init => FocusInv
  BY DEF Init, FocusInv, DeactivatesUnfocused, NotifiesFocused, FocusedImIsTold, IdleCall, InCall
<1>2. TypeOK /\ FocusInv /\ [Next]_vars => FocusInv'
  <2> SUFFICES ASSUME TypeOK, FocusInv, [Next]_vars
               PROVE  FocusInv'
    OBVIOUS
  <2> USE DEF objects, bridge, wire, history
  <2>1. ASSUME NEW i \in Ims, Request(i)
        PROVE  FocusInv'
    <3> DEFINE c == ImConn[i]
    <3>1. c \in Conns /\ h \in [Conns -> Handler]
      BY BridgeAssumption DEF TypeOK
    <3>2. /\ h[c].pc # "activate" /\ \A d \in Conns : d # c => h'[d] = h[d]
          /\ UNCHANGED <<call, conn, focusedPath, currentIM, active, told>>
      BY <2>1, <3>1
         DEF Request, GetInputMethod, CommitString, SetPreeditString, DeleteSurroundingText,
             Commit, Flush, GrabKeyboard, Destroy, Dispatches
    <3> QED
      BY <3>1, <3>2, DispatcherGoesOn
  <2>2. ASSUME UNCHANGED <<h, call, focusedPath, currentIM, active, told>>,
               \A i \in Ims : Writable(i)' => Writable(i)
        PROVE  FocusInv'
    BY <2>2 DEF TypeOK, FocusInv, DeactivatesUnfocused, NotifiesFocused, FocusedImIsTold, ImIsTold,
                Activating
  <2>3. ASSUME NEW c \in Conns, HangUp(c) \/ RunReturns(c)
        PROVE  FocusInv'
    <3>1. /\ UNCHANGED <<h, call, focusedPath, currentIM, active, told>>
          /\ \A d \in Conns : conn'[d] \in {"open", "abandoned"} => conn[d] \in {"open", "abandoned"}
      BY <2>3 DEF HangUp, RunReturns, TypeOK
    <3>2. \A i \in Ims : Writable(i)' => Writable(i)
      BY <3>1, BridgeAssumption DEF Writable
    <3> QED
      BY <2>2, <3>1, <3>2
  <2>4. ASSUME (\E k \in GrabIds : Release(k)) \/ UNCHANGED vars
        PROVE  FocusInv'
    <3>1. UNCHANGED <<h, call, conn, focusedPath, currentIM, active, told>>
      BY <2>4 DEF Release, vars
    <3> QED
      BY <2>2, <3>1 DEF Writable
  <2> QED
    BY <2>1, <2>3, <2>4, HandlersTell, CallsTell DEF Next
<1>3. FocusInv => FocusedImIsActive
  BY DEF FocusInv, FocusedImIsTold, FocusedImIsActive, Quiescent, Activating, ImIsTold
<1> QED
  BY <1>1, <1>2, <1>3, TypeCorrect, PTL DEF Spec
=============================================================================
