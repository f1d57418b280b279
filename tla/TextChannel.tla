----------------------------- MODULE TextChannel -----------------------------
(***************************************************************************)
(* What the v2 tier promises about committed text, with no mention of      *)
(* input methods, focus or locks: numbered chunks are received into one    *)
(* buffer; a lane (a goroutine) takes the whole buffer or the buffer is    *)
(* discarded whole; a lane hands what it took to an application once.      *)
(* There is no step that puts a chunk back or copies it.                   *)
(***************************************************************************)
EXTENDS Naturals

CONSTANTS Lanes, MaxText

VARIABLES received, buffered, taken, emits

vars == <<received, buffered, taken, emits>>

Init ==
  /\ received = 0
  /\ buffered = {}
  /\ taken = [l \in Lanes |-> {}]
  /\ emits = [n \in 1..MaxText |-> 0]

Receive ==
  /\ received < MaxText
  /\ received' = received + 1
  /\ buffered' = buffered \union {received + 1}
  /\ UNCHANGED <<taken, emits>>

Discard ==
  /\ buffered' = {}
  /\ UNCHANGED <<received, taken, emits>>

Take(l) ==
  /\ taken[l] = {}
  /\ taken' = [taken EXCEPT ![l] = buffered]
  /\ buffered' = {}
  /\ UNCHANGED <<received, emits>>

Emit(l) ==
  /\ emits' = [n \in 1..MaxText |->
                 IF n \in taken[l] THEN emits[n] + 1 ELSE emits[n]]
  /\ taken' = [taken EXCEPT ![l] = {}]
  /\ UNCHANGED <<received, buffered>>

Next ==
  \/ Receive
  \/ Discard
  \/ \E l \in Lanes : Take(l) \/ Emit(l)

Spec == Init /\ [][Next]_vars
-----------------------------------------------------------------------------
(* A chunk reaches an application at most once. *)
AtMostOnce == \A n \in 1..MaxText : emits[n] <= 1
=============================================================================
