---------------------------- MODULE MCKeySession ----------------------------
(* Instances of KeySession for TLC. *)
EXTENDS KeySession, TLC

Letters == {"c", "h"}
Part(w) == [Plain EXCEPT !.class = Letters, !.append = TRUE, !.preedit = w]

\* The method of TestMultiStateDecomposition (engine_test.go).
TestBuffer ==
  [initial |-> <<"initial">>,
   states |->
     (<<"initial">> :> [onEnter |-> Silent,
        transitions |->
          <<[Part(<<"${buffer}">>) EXCEPT !.goto = {<<"buffering">>}]>>]) @@
     (<<"buffering">> :> [onEnter |-> Silent,
        transitions |->
          <<Part(<<"${buffer}">>),
            [Plain EXCEPT !.match = "space", !.commit = <<"${buffer}">>,
                          !.clear = TRUE, !.goto = {<<"initial">>}],
            [Plain EXCEPT !.match = "BackSpace", !.pop = TRUE,
                          !.preedit = <<"${buffer}">>,
                          !.gotoIfEmpty = {<<"initial">>}]>>])]

\* The method of TestLookupTemplateExpansion.
TestLookup ==
  [initial |-> <<"initial">>,
   states |->
     (<<"initial">> :> [onEnter |-> Silent,
        transitions |->
          <<[Plain EXCEPT !.match = "space", !.lookup = TRUE,
                          !.commit = <<"${lookup.top}">>, !.clear = TRUE],
            Part(<<>>)>>])]

Both == {TestBuffer, TestLookup}

\* A key with two levels, one whose second level is empty, editing keys with
\* one level.  Breton has a symbol c_h beside its letters.
TestLayout == [AC01 |-> <<"c", "h">>, AC02 |-> <<"c_h", NoSymbol>>,
               SPCE |-> <<"space">>, BKSP |-> <<"BackSpace">>]
Mods == {{}, {"Control", "Shift"}}

Words == (UNION {[1..n -> Letters] : n \in 1..2}) \union {<<"c", "h", "c">>}
Sequence(w, out) == [input |-> w, output |-> <<out>>]
\* Every chain of up to two sequences, conflicting ones included.
LetterChains == {<<Sequence(v, "U1")>> : v \in Words} \union
                {<<Sequence(v, "U1"), Sequence(w, "U2")>> : v, w \in Words}
ASSUME AllAreWellNamed == \A c \in LetterChains : WellNamed(c)

\* A star in an input, and two paths with the id prefix_c_h.
OddChains == {<<Sequence(<<"*", "c">>, "U1")>>,
              <<Sequence(<<"c_h", "c">>, "U1"), Sequence(<<"c", "h", "h">>, "U2")>>}
ASSUME OthersAreNot == \A c \in OddChains : ~WellNamed(c)
AllChains == LetterChains \union OddChains

\* stateID.
Underscored(p) == FoldLeft(LAMBDA id, sym : id \o "_" \o sym, "prefix", p)

\* Of paths with one id the first in byte order: where they first differ one
\* ends a symbol and the other goes on with an underscore, which sorts later.
Before(p, q) ==
  \E n \in DOMAIN p \intersect DOMAIN q :
    /\ \A i \in 1..(n - 1) : p[i] = q[i]
    /\ Len(p[n]) < Len(q[n])
FirstInOrder(paths) == CHOOSE p \in paths : \A q \in paths \ {p} : Before(p, q)
=============================================================================
