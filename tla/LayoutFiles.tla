----------------------------- MODULE LayoutFiles -----------------------------
(***************************************************************************)
(* What a layout file holds and how the data layers shadow one another     *)
(* (internal/model), shared by the editor server (UserStore) and by what   *)
(* it promises (LayoutStore).  A file is a set of named variants; the      *)
(* recipe of a variant is one of Specs.  Only the user's layer is ever     *)
(* written, so the layers below it are folded into the constant System.    *)
(***************************************************************************)
CONSTANTS Files,     \* names that validFileName accepts
          Variants,  \* names of variants
          Specs,     \* recipes
          None,      \* no such file
          Broken,    \* a file that does not parse
          System     \* what the read-only layers hold under each name

Content == UNION {[S -> Specs] : S \in SUBSET Variants}

Empty == [v \in {} |-> None]

ASSUME LayersAssumption ==
  /\ Files # {}
  /\ System \in [Files -> Content \union {None}]
  /\ None \notin Content
  /\ Broken \notin Content
  /\ None # Broken

(* A user file shadows the system file of its name. *)
Shadow(user, f) == IF user # None THEN user ELSE System[f]

(* Same-named variants are replaced, new ones appended, the rest stays. *)
Merged(c, put) ==
  [v \in DOMAIN c \union DOMAIN put |-> IF v \in DOMAIN put THEN put[v] ELSE c[v]]

\* Mutant: the entry stays in the list, without a recipe.
BlankOut(c, v) == [w \in DOMAIN c |-> IF w = v THEN None ELSE c[w]]

Without(c, v) == [w \in DOMAIN c \ {v} |-> c[w]]

(* The requests a client may make: a save of variants, merging or not; the  *)
(* whole file put (the raw editor, or handleSaveAddition, which takes the   *)
(* same steps in the additions directory); the removal of a variant; a      *)
(* layout loaded to be composed; its bytes shown; the list of all.          *)
Saves   == [op : {"save"}, file : Files, put : Content \ {Empty}, merge : BOOLEAN]
Puts    == [op : {"put"}, file : Files, put : Content]
Deletes == [op : {"delete"}, file : Files, variant : Variants]
Reads   == [op : {"lookup", "raw"}, file : Files]
Lists   == [op : {"list"}]

AllJobs == Saves \union Puts \union Deletes \union Reads \union Lists

Writes(j) == j.op \in {"save", "put", "delete"}

(* The files a reading request answers about. *)
Scope(j) == CASE j.op = "list" -> Files
              [] j.op \in {"lookup", "raw"} -> {j.file}
              [] OTHER -> {}
=============================================================================
