------------------------------ MODULE MCXkbTree ------------------------------
(* Instances of XkbTree for TLC. *)
EXTENDS XkbTree, TLC

Up(name) == Block(name, "upstream")
Twin(kind) == [Block("dvorak", "old") EXCEPT !.kind = kind]

\* Tidy, and with one more variant in a comment; with an older copy of a variant
\* in either comment; with two spaces before a name; and one that the parser
\* rejects.
UsTexts ==
  LET With(twins, dvorak) == <<Up("basic")>> \o twins \o <<dvorak, Up("intl")>> IN
  {Text(With(<<>>, Up("dvorak"))),
   Text(With(<<[Twin("line") EXCEPT !.name = "older"]>>, Up("dvorak"))),
   Text(With(<<Twin("block")>>, Up("dvorak"))),
   Text(With(<<Twin("line")>>, Up("dvorak"))),
   Text(With(<<>>, [Up("dvorak") EXCEPT !.plain = FALSE])),
   [Text(With(<<>>, Up("dvorak"))) EXCEPT !.parses = FALSE]}
TheXML == <<[name |-> "us", variants |-> <<"basic", "dvorak", "intl">>],
            [name |-> "de", variants |-> <<"basic">>]>>
TheLst == [layouts |-> <<"us", "de">>,
           variants |-> <<[tag |-> "us:", name |-> "dvorak"], [tag |-> "us:", name |-> "intl"]>>]
Upstream(us, de, linked) ==
  [symbols |-> "us" :> us @@ "de" :> de @@ "de-x" :> NoFile,
   xml |-> TheXML, lst |-> IF us.parses THEN TheLst ELSE NoFile, linked |-> linked]
\* Trees with each of these; one whose root is a symlink; and one with the older
\* copy in a file that build copies.
TheUpstreams ==
  LET plain == Text(<<Up("basic"), Up("dvorak"), Up("intl")>>)
      de == Text(<<Up("basic")>>)
  IN {Upstream(t, de, FALSE) : t \in UsTexts}
     \union {Upstream(plain, de, TRUE),
             Upstream(plain, Text(<<Twin("block"), Up("dvorak")>>), FALSE)}

Variant(name, passthrough, compose) ==
  [name |-> name, passthrough |-> passthrough, composes |-> TRUE, compose |-> compose]

\* A layout that replaces one upstream variant, passes one through and adds
\* one; three files of which upstream has two, with a chain that is missing, a
\* variant to pass through that is, and two variants' chains on one path; a
\* chain that is wrong; and a recipe that does not compose.
Us == [file |-> "us", variants |-> <<Variant("basic", FALSE, "none"),
                                     Variant("dvorak", TRUE, "none"),
                                     Variant("mine", FALSE, "good")>>]
Only(file, v) == [file |-> file, variants |-> <<v>>]
TheDataTrees ==
  {<<Us>>,
   <<Only("de", Variant("x-ghost", FALSE, "missing")), Only("us", Variant("dvorak", FALSE, "good")),
     Only("de-x", Variant("ghost", TRUE, "good"))>>,
   <<Us, Only("de-x", Variant("basic", FALSE, "bad"))>>,
   <<Us, Only("de-x", [Variant("basic", FALSE, "none") EXCEPT !.composes = FALSE])>>}

\* A build over what a build left and a check of it, with generate between or
\* instead; and activations.
TheScripts == {<<"build", "build", "dropin-check">>, <<"build", "generate", "dropin-check">>,
               <<"activate", "activate", "activate">>}
=============================================================================
