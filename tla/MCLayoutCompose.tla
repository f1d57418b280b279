--------------------------- MODULE MCLayoutCompose ---------------------------
(* Instances of LayoutCompose for TLC. *)
EXTENDS LayoutCompose, TLC

Nothing == [k \in {} |-> <<>>]

\* A caps pair, a c with a cedilla pair of named keysyms, plain symbols, and a
\* dead key that stands for no character.
Plains == {"a", "A", "c", "C", "s", "x", "y", "dead"}
Tokens == Plains \union {"ccedilla", "Ccedilla", "U00A3"}
TheLowerToken == [t \in Tokens |-> CASE t = "A" -> "a" [] t = "C" -> "c"
                                    [] t = "Ccedilla" -> "ccedilla" [] OTHER -> t]
TheDecode == [t \in (Plains \ {"dead"}) |-> t]
             @@ ("ccedilla" :> "cc") @@ ("Ccedilla" :> "CC") @@ ("U00A3" :> "L")
Chars == (Plains \ {"dead"}) \union {"cc", "CC", "L"}
TheEncode == [ch \in Chars |-> CASE ch = "cc" -> "ccedilla" [] ch = "CC" -> "Ccedilla"
                                 [] ch = "L" -> "U00A3" [] OTHER -> ch]
TheLower == [ch \in Chars |-> CASE ch = "A" -> "a" [] ch = "C" -> "c"
                                [] ch = "CC" -> "cc" [] OTHER -> ch]
TheUpper == [ch \in Chars |-> CASE ch = "a" -> "A" [] ch = "c" -> "C"
                                [] ch = "cc" -> "CC" [] OTHER -> ch]

Transformations ==
  {[slug |-> "qwerty", keys |-> [K1 |-> <<"a", "A">>, K2 |-> <<"c", "C">>]],
   [slug |-> "azerty", keys |-> [K1 |-> <<"ccedilla", "x">>, K2 |-> <<"c", "C", "y", "s">>]],
   [slug |-> "half", keys |-> [K1 |-> <<"A", "", "dead", "", "s">>, K3 |-> <<"a">>]],
   [slug |-> "blank", keys |-> [K1 |-> <<"", "", "Ccedilla">>, K2 |-> <<"", "">>]]}

Letter(l, levels, fallback, rank, mode) ==
  [letter |-> l, levels |-> levels, fallback |-> fallback, rank |-> rank, mode |-> mode]
Addition(slug, mode, overlays, letters) ==
  [slug |-> slug, mode |-> mode, overlays |-> overlays, letters |-> letters]

AdditionPool ==
  {Addition("national", "force", [K1 |-> <<"", "", "y">>, K3 |-> <<"x">>], {}),
   Addition("intl", "nudge", [K1 |-> <<"x", "y">>],
            {Letter("c", <<"c", "", "ccedilla", "Ccedilla">>, <<>>, 1, "nudge"),
             Letter("x", <<"dead", "", "x">>, <<"c">>, 1, "nudge")}),
   Addition("claims", "claim", [K1 |-> <<"y", "", "x">>],
            {Letter("c", <<"s", "dead">>, <<>>, 1, "claim")}),
   Addition("high", "force", Nothing,
            {Letter("c", <<"", "", "x", "y">>, <<>>, 2, "force")}),
   Addition("plain", "force", Nothing,
            {Letter("c", <<"", "", "s">>, <<>>, 1, "force"),
             Letter("a", <<"a", "C">>, <<"ccedilla">>, 0, "force")}),
   Addition("later", "force", Nothing,
            {Letter("c", <<"", "x", "dead">>, <<>>, 1, "force")})}
AdditionLists == {<<>>} \union {<<a>> : a \in AdditionPool}
                 \union {<<p[1], p[2]>> : p \in {q \in AdditionPool \X AdditionPool : q[1] # q[2]}}

SubstitutionLists ==
  {<<>>, <<[slug |-> "hotfix", map |-> [x |-> "y"]],
           [slug |-> "broad", map |-> [x |-> "dead", y |-> "s", c |-> "a"]]>>}

TheCatalog ==
  <<[slug |-> "filler-math", categories |-> {"math"},
     overlays |-> [K1 |-> <<"x", "", "x", "x">>, K3 |-> <<"dead">>], letters |-> {}],
    [slug |-> "filler-typography", categories |-> {"typography"},
     overlays |-> [K1 |-> <<"", "", "y">>],
     letters |-> {Letter("a", <<"", "", "", "s">>, <<"c">>, 1, "force"),
                  Letter("c", <<"", "", "", "dead">>, <<>>, 1, "force")}]>>

\* Of the layout files us and half, one has a hint and one the name of a locale.
TheLocales == <<[code |-> "half", chars |-> <<"a", "C", "c", "x">>]>>
TheHints == [us |-> <<[code |-> "cs", chars |-> <<"c", "CC", "cc", "y">>]>>]

AllRecipes ==
  {[file |-> IF t.slug = "half" THEN "half" ELSE "us", physical |-> <<"K1", "K2">>, transformation |-> t, additions |-> a,
    substitutions |-> s, autofill |-> f, locales |-> l, latin |-> TRUE,
    intlLike |-> "intl" \in {a[i].slug : i \in DOMAIN a}] :
   t \in Transformations, a \in AdditionLists, s \in SubstitutionLists,
   f \in {<<>>, <<"typography", "math">>, <<"smart">>, <<"*">>},
   l \in {<<>>, <<[code |-> "fr", chars |-> <<"L", "cc", "a">>]>>,
          <<[code |-> "pt", chars |-> <<"x", "y", "L", "s", "cc">>],
            [code |-> "en", chars |-> <<"c", "a">>]>>}}

\* On the blank base there is little for a second addition to meet, and the
\* substitutions come after all of them.
TheRecipes ==
  {r \in AllRecipes : r.transformation.slug = "blank" \/ r.substitutions # <<>>
                        => Len(r.additions) <= 1}
=============================================================================
