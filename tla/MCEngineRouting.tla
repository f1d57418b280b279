--------------------------- MODULE MCEngineRouting ---------------------------
(* Instances of EngineRouting for TLC. *)
EXTENDS EngineRouting, TLC

CONSTANTS A, B

\* No definition tells one context, or one call goroutine, from another.
Symmetry == Permutations({A, B})
=============================================================================
