---------------------------- MODULE MCUserStore ----------------------------
(* Instances of UserStore for TLC. *)
EXTENDS UserStore, TLC

CONSTANTS us, a, b, x, y, r1, r2, r3

\* The package ships a file with the variant a.
Shipped == [f \in Files |-> a :> x]

\* Two clients' saves, a raw edit, deletions and every kind of read.
EditorJobs ==
  [op : {"save"}, file : Files, put : {b :> y}, merge : BOOLEAN]
    \union [op : {"put"}, file : Files, put : {Empty, a :> x @@ b :> y}]
    \union Deletes \union Reads \union Lists

RequestSymmetry == Permutations(Requests)
=============================================================================
