---------------------------- MODULE MCV2Bridge ----------------------------
(* Instances of V2Bridge for TLC. *)
EXTENDS V2Bridge, TLC

CONSTANTS c1, c2, i1, i2, A, B

\* Two clients, one input method each.
TwoClients == (i1 :> c1) @@ (i2 :> c2)
\* One client that asks for an input method twice.
OneClient == (i1 :> c1) @@ (i2 :> c1)

CallSymmetry == Permutations(Calls)
=============================================================================
