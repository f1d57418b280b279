---------------------------- MODULE LayoutCompose ----------------------------
(***************************************************************************)
(* Composition of a layout: compose.Compose (compose.go) and the locale    *)
(* fill (localefill.go).  A recipe names a transformation, additions,      *)
(* substitutions, filler categories and locales; the stages run one after  *)
(* another over a table of levels per key and a table of where each level  *)
(* came from (Result.Sources).                                             *)
(*                                                                         *)
(* A step is one module applied to the table.  Go ranges over maps in any  *)
(* order: entries of one addition that share a rank are a choice, writes   *)
(* to different keys are independent and happen in one step.               *)
(* A token is an xkb symbol name, "" an empty level.                       *)
(*                                                                         *)
(* The coverage panel and validation (coverage.go, validate.go) report on  *)
(* what was composed; which other layers they suggest is left out.         *)
(***************************************************************************)
EXTENDS Naturals, SequencesExt

CONSTANTS
  Recipes,    \* model.LayoutSpec with its parts loaded
  Catalog,    \* DataRoot.ListFillers
  Decode,     \* coverage.Decode: the character of a token, if it has one
  Encode,     \* coverage.EncodeRune: the token of a character
  LowerToken, \* strings.ToLower
  Lower, Upper, \* unicode.ToLower and ToUpper
  Fold,       \* lowerRune
  Locales,    \* LocaleTable.Locales
  Hints,      \* LocaleTable.LayoutHints
  Depth       \* bound: levels of a key

Cap == 4   \* maxOverlayLevels
Token == DOMAIN LowerToken
Char == DOMAIN Encode

Empty == ""   \* a level that is not set
Value == Token \union {Empty}

(* What the loader returns.  The mode of a module is its text with the case *)
(* folded, and "force" for any text that is neither of the other two.       *)
IsSequence(s) == s \in Seq(ToSet(s))
Modes == {"force", "nudge", "claim"}
LetterOverlays == [letter : Token, levels : Seq(Value), fallback : Seq(Token),
                   rank : 0..2, mode : Modes]
IsKeys(f) == \A k \in DOMAIN f : f[k] \in Seq(Value)
IsModule(m) ==
  /\ m.slug \in STRING /\ IsKeys(m.overlays)
  /\ m.letters \subseteq LetterOverlays
IsLocale(l) == l.code \in STRING /\ l.chars \in Seq(Char)
IsRecipe(r) ==
  /\ IsSequence(r.physical)
  /\ r.transformation.slug \in STRING /\ IsKeys(r.transformation.keys)
  /\ IsSequence(r.additions)
  /\ \A m \in ToSet(r.additions) : IsModule(m) /\ m.mode \in Modes
  /\ IsSequence(r.substitutions)
  /\ \A s \in ToSet(r.substitutions) : s.slug \in STRING /\ Range(s.map) \subseteq Token
  /\ IsSequence(r.autofill)
  /\ IsSequence(r.locales) /\ \A l \in ToSet(r.locales) : IsLocale(l)
  /\ \A l, m \in ToSet(r.locales) : l.code = m.code => l = m

(* A slug is the name of a file, a locale is found by its code (byCode),    *)
(* EncodeRune never fails, and Decode reads back what it writes.            *)
ASSUME LayoutAssumption ==
  /\ Depth \in Nat /\ Depth >= Cap
  /\ LowerToken \in [Token -> Token] /\ Empty \notin Token
  /\ DOMAIN Decode \subseteq Token
  /\ \A ch \in Char : Encode[ch] \in DOMAIN Decode /\ Decode[Encode[ch]] = ch
  /\ Lower \in [Char -> Char] /\ Upper \in [Char -> Char]
  /\ \A r \in Recipes : IsRecipe(r)
  /\ \A l \in ToSet(Locales) : IsLocale(l)
  /\ \A file \in DOMAIN Hints : \A l \in ToSet(Hints[file]) : IsLocale(l)
  /\ IsSequence(Catalog) /\ \A f \in ToSet(Catalog) : IsModule(f)
  /\ \A f, g \in ToSet(Catalog) : f.slug = g.slug => f = g

VARIABLES
  recipe,   \* the input
  phase, n, \* the stage, and which module of the stage is next
  out,      \* Symbols and Sources: [levels, from] of each key
  heads,    \* the byLetter index: each key's lower-cased first level
  todo,     \* letter overlays still to apply
  claimed,  \* claimedRank
  missing   \* characters of the locale still to place

vars == <<recipe, phase, n, out, heads, todo, claimed, missing>>

Unknown == <<Empty, Empty>>   \* the zero LevelSource
Stages == {"transformation", "position", "letter", "substitution", "autofill",
           "locale-fill"}
Cell == [levels : [1..Depth -> Value],
         from : [1..Depth -> (Stages \X STRING) \union {Unknown}]]
Blank == [levels |-> [i \in 1..Depth |-> Empty], from |-> [i \in 1..Depth |-> Unknown]]
Key == ToSet(recipe.physical)
Pad(levels) == [i \in 1..Depth |-> IF i \in DOMAIN levels THEN levels[i] ELSE Empty]
-----------------------------------------------------------------------------
(* The merge rules, each on one key. *)

\* mergeLevels: what the overlay sets wins.
Overwrite(cell, overlay, by) ==
  [levels |-> [i \in 1..Depth |-> IF overlay[i] = Empty THEN cell.levels[i] ELSE overlay[i]],
   from |-> [i \in 1..Depth |-> IF overlay[i] = Empty THEN cell.from[i] ELSE by]]

\* The polite merges keep no more than Cap levels.
Capped(cell) ==
  [levels |-> [i \in 1..Depth |-> IF i <= Cap THEN cell.levels[i] ELSE Empty],
   from |-> [i \in 1..Depth |-> IF i <= Cap THEN cell.from[i] ELSE Unknown]]

\* Mutant: the last level is never used.
FreeBelowTop(levels, i) == {j \in i + 1 .. Cap - 1 : levels[j] = Empty}

FreeAbove(levels, i) == {j \in i + 1 .. Cap : levels[j] = Empty}

\* mergeLevelsNudge: an overlay value that finds its level taken slides up.
NudgeLevel(c, i, overlay, by) ==
  LET places == IF overlay[i] = Empty THEN {}
                ELSE IF c.levels[i] \in {Empty, overlay[i]} THEN {i}
                ELSE FreeAbove(c.levels, i)
  IN IF places = {} THEN c
     ELSE [levels |-> [c.levels EXCEPT ![Min(places)] = overlay[i]],
           from |-> [c.from EXCEPT ![Min(places)] = by]]

\* One level after another, up to Cap.
Nudge(cell, overlay, by) ==
  LET Put(c, i) == NudgeLevel(c, i, overlay, by)
  IN Put(Put(Put(Put(Capped(cell), 1), 2), 3), 4)

\* mergeLevelsClaim: the value that stood there slides up, or is lost.
ClaimLevel(w, i, overlay) ==
  LET free == IF w.levels[i] = Empty THEN {} ELSE FreeAbove(w.levels, i)
  IN IF overlay[i] = Empty THEN w
     ELSE IF free = {}
     THEN [levels |-> [w.levels EXCEPT ![i] = overlay[i]], moved |-> w.moved]
     ELSE [levels |-> [w.levels EXCEPT ![Min(free)] = w.levels[i], ![i] = overlay[i]],
           moved |-> [w.moved EXCEPT ![i] = Min(free)]]

Displace(cell, overlay) ==
  LET Put(w, i) == ClaimLevel(w, i, overlay)
  IN Put(Put(Put(Put([levels |-> Capped(cell).levels, moved |-> [i \in 1..Cap |-> 0]],
                     1), 2), 3), 4)

\* Mutant: displaced sources are written over the landed ones.
ClaimLandsFirst(cell, overlay, by) ==
  LET w == Displace(cell, overlay) IN
  [levels |-> w.levels,
   from |-> [j \in 1..Depth |->
     IF \E i \in 1..Cap : w.moved[i] = j
     THEN cell.from[CHOOSE i \in 1..Cap : w.moved[i] = j]
     ELSE IF j <= Cap /\ overlay[j] # Empty THEN by ELSE Capped(cell).from[j]]]

\* Sources: what was displaced takes its source along, read from the table as
\* it was before the merge; then the overlay signs its levels.
Claim(cell, overlay, by) ==
  LET w == Displace(cell, overlay) IN
  [levels |-> w.levels,
   from |-> [j \in 1..Depth |->
     IF j <= Cap /\ overlay[j] # Empty THEN by
     ELSE IF \E i \in 1..Cap : w.moved[i] = j
     THEN cell.from[CHOOSE i \in 1..Cap : w.moved[i] = j]
     ELSE Capped(cell).from[j]]]

\* applyFillerOverlay: only empty levels are filled.
FillEmpty(cell, overlay, by) ==
  LET free == {i \in 1..Depth : cell.levels[i] = Empty /\ overlay[i] # Empty} IN
  [levels |-> [i \in 1..Depth |-> IF i \in free THEN overlay[i] ELSE cell.levels[i]],
   from |-> [i \in 1..Depth |-> IF i \in free THEN by ELSE cell.from[i]]]

\* applySubsTraced: a level that is not set has nothing to replace, and a token
\* replaced by itself keeps its source.
Replaces(map, token) == token # Empty /\ token \in DOMAIN map /\ map[token] # token

Replace(cell, map, by) ==
  LET hit == {i \in 1..Depth : Replaces(map, cell.levels[i])} IN
  [levels |-> [i \in 1..Depth |-> IF i \in hit THEN map[cell.levels[i]] ELSE cell.levels[i]],
   from |-> [i \in 1..Depth |-> IF i \in hit THEN by ELSE cell.from[i]]]

\* writeLevels
Merge(cell, levels, by, mode) ==
  CASE mode = "nudge" -> Nudge(cell, Pad(levels), by)
    [] mode = "claim" -> Claim(cell, Pad(levels), by)
    [] mode = "autofill" -> FillEmpty(cell, Pad(levels), by)
    [] OTHER -> Overwrite(cell, Pad(levels), by)

\* Mutant: keys the physical layout does not have are kept.
WriteEverywhere(overlays, by, mode) ==
  [k \in Key \union DOMAIN overlays |->
     IF k \notin DOMAIN overlays THEN out[k]
     ELSE Merge(IF k \in Key THEN out[k] ELSE Blank, overlays[k], by, mode)]

\* Position overlays: a key that is not on the physical layout is dropped.
WriteOverlays(overlays, by, mode) ==
  [k \in Key |-> IF k \in DOMAIN overlays THEN Merge(out[k], overlays[k], by, mode)
                 ELSE out[k]]
-----------------------------------------------------------------------------
(* Stages 1 to 3. *)

Init ==
  /\ recipe \in Recipes
  /\ phase = "transformation" /\ n = 1
  /\ out = [k \in Key |-> Blank]
  /\ heads = [k \in Key |-> Empty] /\ todo = {} /\ missing = <<>>
  /\ claimed = [k \in Key |-> 0]

Seed ==
  /\ phase = "transformation"
  /\ out' = WriteOverlays(recipe.transformation.keys,
                          <<"transformation", recipe.transformation.slug>>, "force")
  /\ phase' = "position"
  /\ UNCHANGED <<recipe, n, heads, todo, claimed, missing>>

\* The byLetter index of the table as it stands.
Heads == [k \in Key |-> IF out[k].levels[1] = Empty THEN Empty
                        ELSE LowerToken[out[k].levels[1]]]

\* The keys of a letter, or of the first of its fallbacks that has any.
KeysFor(entry) ==
  LET tokens == <<entry.letter>> \o entry.fallback
      On(t) == {k \in Key : heads[k] = LowerToken[t]}
      found == {i \in DOMAIN tokens : On(tokens[i]) # {}}
  IN IF found = {} THEN {} ELSE On(tokens[Min(found)])

Position ==
  /\ phase = "position" /\ n <= Len(recipe.additions)
  /\ LET a == recipe.additions[n] IN
       out' = WriteOverlays(a.overlays, <<"position", a.slug>>, a.mode)
  /\ n' = n + 1
  /\ UNCHANGED <<recipe, phase, heads, todo, claimed, missing>>

AllEntries(r) ==
  UNION {{<<i, e>> : e \in r.additions[i].letters} : i \in DOMAIN r.additions}

BeginLetters ==
  /\ phase = "position" /\ n > Len(recipe.additions)
  /\ todo' = AllEntries(recipe)
  /\ heads' = Heads /\ phase' = "letter"
  /\ UNCHANGED <<recipe, n, out, claimed, missing>>

\* Mutant: a sort that is not stable.
FirstByRank(entry) == \A other \in todo : entry[2].rank >= other[2].rank

\* sort.SliceStable by rank: the declaration order of additions breaks ties.
FirstOf(entry) ==
  \A other \in todo : \/ entry[2].rank > other[2].rank
                      \/ entry[2].rank = other[2].rank /\ entry[1] <= other[1]

\* A key a higher rank has claimed is left alone.
PutLetter(entry) ==
  LET e == entry[2]
      targets == {k \in KeysFor(e) : e.rank >= claimed[k]}
  IN
  /\ phase = "letter" /\ FirstOf(entry)
  /\ out' = [k \in Key |->
               IF k \in targets
               THEN Merge(out[k], e.levels, <<"letter", recipe.additions[entry[1]].slug>>, e.mode)
               ELSE out[k]]
  /\ claimed' = [k \in Key |-> IF k \in targets THEN Max({e.rank, claimed[k]}) ELSE claimed[k]]
  /\ todo' = todo \ {entry}
  /\ UNCHANGED <<recipe, phase, n, heads, missing>>

EndLetters ==
  /\ phase = "letter" /\ todo = {}
  /\ phase' = "substitution" /\ n' = 1
  /\ UNCHANGED <<recipe, out, heads, todo, claimed, missing>>

\* Each substitution sees what the one before it made.
Substitute ==
  /\ phase = "substitution" /\ n <= Len(recipe.substitutions)
  /\ LET s == recipe.substitutions[n] IN
       out' = [k \in Key |-> Replace(out[k], s.map, <<"substitution", s.slug>>)]
  /\ n' = n + 1
  /\ UNCHANGED <<recipe, phase, heads, todo, claimed, missing>>

EndSubstitutions ==
  /\ phase = "substitution" /\ n > Len(recipe.substitutions)
  /\ phase' = "autofill" /\ n' = 1
  /\ UNCHANGED <<recipe, out, heads, todo, claimed, missing>>
-----------------------------------------------------------------------------
(* Stage 4: fillers of the requested categories. *)

SmartCategories(r) ==
  IF r.latin
  THEN <<"typography", "currency", "math">> \o (IF r.intlLike THEN <<>> ELSE <<"latin-extras">>)
  ELSE <<"typography">>

Categories(r) ==
  LET Expand(acc, c) ==
        acc \o (IF c = "smart" THEN SmartCategories(r) ELSE IF c = "*" THEN <<>> ELSE <<c>>)
  IN FoldLeft(Expand, <<>>, r.autofill)

\* Mutant: fillers in the order of the catalog.
PickInCatalogOrder(r) ==
  SelectSeq(Catalog, LAMBDA f : "*" \in ToSet(r.autofill)
                                \/ f.categories \intersect ToSet(Categories(r)) # {})

\* The fillers of category c that no category before it has taken.
Take(acc, c) ==
  LET Pick(picked, f) ==
        IF c \in f.categories /\ f \notin ToSet(picked) THEN Append(picked, f) ELSE picked
  IN FoldLeft(Pick, acc, Catalog)

\* pickFillers: in the order the categories were asked for; "*" takes all.
PickFillers(r) ==
  IF "*" \in ToSet(r.autofill) THEN Catalog ELSE FoldLeft(Take, <<>>, Categories(r))

\* The letter index is built once, before the first filler.
Fill ==
  /\ phase = "autofill" /\ n <= Len(PickFillers(recipe))
  /\ LET f == PickFillers(recipe)[n] IN
       /\ out' = WriteOverlays(f.overlays, <<"autofill", f.slug>>, "autofill")
       /\ todo' = {<<n, e>> : e \in f.letters}
  /\ heads' = IF n = 1 THEN Heads ELSE heads
  /\ phase' = "autofill-letter"
  /\ UNCHANGED <<recipe, n, claimed, missing>>

FillLetter(entry) ==
  LET e == entry[2] IN
  /\ phase = "autofill-letter"
  /\ out' = [k \in Key |->
               IF k \in KeysFor(e)
               THEN Merge(out[k], e.levels, <<"autofill", PickFillers(recipe)[n].slug>>, "autofill")
               ELSE out[k]]
  /\ todo' = todo \ {entry}
  /\ UNCHANGED <<recipe, phase, n, heads, claimed, missing>>

EndFiller ==
  /\ phase = "autofill-letter" /\ todo = {}
  /\ phase' = "autofill" /\ n' = n + 1
  /\ UNCHANGED <<recipe, out, heads, todo, claimed, missing>>

EndFill ==
  /\ phase = "autofill" /\ n > Len(PickFillers(recipe))
  /\ phase' = "locales" /\ n' = 1
  /\ UNCHANGED <<recipe, out, heads, todo, claimed, missing>>
-----------------------------------------------------------------------------
(* Stage 5: the characters a locale needs. *)

Levels(k) == {out[k].levels[i] : i \in 1..Depth}
CharsOf(tokens) == {Decode[t] : t \in tokens \intersect DOMAIN Decode}
\* producedExact
Produced == CharsOf(UNION {Levels(k) : k \in Key})

\* Upper case first, each character once.
Wanted(locale) ==
  LET Add(acc, ch) ==
        LET lower == Lower[ch]
            pair == IF Upper[ch] = lower THEN <<lower>> ELSE <<Upper[ch], lower>>
        IN IF lower \in ToSet(acc) THEN acc ELSE acc \o pair
  IN FoldLeft(Add, <<>>, locale.chars)

\* Keys whose first level, or some level, is the character's lower case.
Home(ch) == {k \in Key : \E c \in CharsOf({out[k].levels[1]}) : Fold[c] = Fold[ch]}
Relatives(ch) == {k \in Key : \E c \in CharsOf(Levels(k)) : Fold[c] = Fold[ch]}

\* Mutant: in the order of the locale table.
KeepOrder(chars) == chars

Those(chars, S) ==
  LET Keep(acc, ch) == IF ch \in S THEN Append(acc, ch) ELSE acc
  IN FoldLeft(Keep, <<>>, chars)

\* sortByAnchorQuality
SortByAnchor(chars) ==
  LET homed == {ch \in ToSet(chars) : Home(ch) # {}}
      related == {ch \in ToSet(chars) \ homed : Relatives(ch) # {}}
  IN Those(chars, homed) \o Those(chars, related)
     \o Those(chars, ToSet(chars) \ (homed \union related))

BeginLocale ==
  /\ phase = "locales" /\ n <= Len(recipe.locales)
  /\ missing' = SortByAnchor(Those(Wanted(recipe.locales[n]), Char \ Produced))
  /\ phase' = "place"
  /\ UNCHANGED <<recipe, n, out, heads, todo, claimed>>

\* Mutant: a key with a blank first level is no candidate.
FreeOnUsedKeys(k) ==
  IF out[k].levels[1] = Empty THEN {} ELSE {i \in 2..Cap : out[k].levels[i] = Empty}

Free(k) == {i \in 2..Cap : out[k].levels[i] = Empty}

\* The transformation gives the key levels, though all may be blank, and no
\* merge, which drops the blanks at the end, has touched them.
Listed(k) ==
  /\ k \in DOMAIN recipe.transformation.keys /\ recipe.transformation.keys[k] # <<>>
  /\ \A m \in ToSet(recipe.additions) \union ToSet(PickFillers(recipe)) : k \notin DOMAIN m.overlays

\* buildCandidateKeys: how far a key is from a natural place for ch.
Distance(k, ch) ==
  IF k \in Home(ch) THEN 1
  ELSE IF k \in Relatives(ch) THEN 2
  ELSE IF Levels(k) # {Empty} \/ Listed(k) THEN 3 ELSE 4

\* findLocaleFillSlot: the nearest key with room, in physical order.
PlaceFor(ch) ==
  LET open == {i \in DOMAIN recipe.physical : Free(recipe.physical[i]) # {}}
      near == {i \in open : \A j \in open :
                 Distance(recipe.physical[i], ch) <= Distance(recipe.physical[j], ch)}
  IN IF open = {} THEN {} ELSE {recipe.physical[Min(near)]}

PlaceNext ==
  LET ch == Head(missing) IN
  /\ phase = "place" /\ missing # <<>>
  /\ out' = [k \in Key |->
       IF ch \notin Produced /\ k \in PlaceFor(ch)
       THEN LET i == Max(Free(k)) IN
            [levels |-> [out[k].levels EXCEPT ![i] = Encode[ch]],
             from |-> [out[k].from EXCEPT ![i] = <<"locale-fill", recipe.locales[n].code>>]]
       ELSE out[k]]
  /\ missing' = Tail(missing)
  /\ UNCHANGED <<recipe, phase, n, heads, todo, claimed>>

EndLocale ==
  /\ phase = "place" /\ missing = <<>>
  /\ phase' = "locales" /\ n' = n + 1
  /\ UNCHANGED <<recipe, out, heads, todo, claimed, missing>>

Return ==
  /\ phase = "locales" /\ n > Len(recipe.locales)
  /\ phase' = "done"
  /\ UNCHANGED <<recipe, n, out, heads, todo, claimed, missing>>

-----------------------------------------------------------------------------
(* What is reported of the composed layout. *)

\* Case-folded.
CollectChars == {Lower[ch] : ch \in Produced}

LocalesFor(file) ==
  IF file \in DOMAIN Hints THEN ToSet(Hints[file])
  ELSE {l \in ToSet(Locales) : l.code = file}

LocalesForVariant ==
  IF recipe.locales # <<>> THEN ToSet(recipe.locales) ELSE LocalesFor(recipe.file)

\* Mutant: the required letters are not folded.
AnalyzeExact(locale) ==
  LET required == ToSet(locale.chars) IN
  [total |-> Cardinality(required), covered |-> Cardinality(required \intersect Produced),
   missing |-> required \ Produced]

\* Of the characters that fold to one letter the first is reported.
Analyze(locale) ==
  LET letter(i) == Lower[locale.chars[i]]
      first == {i \in DOMAIN locale.chars : \A j \in 1..i - 1 : letter(j) # letter(i)}
      gaps == {i \in first : letter(i) \notin CollectChars}
  IN [total |-> Cardinality(first), covered |-> Cardinality(first \ gaps),
      missing |-> {locale.chars[i] : i \in gaps}]

handleCoverage  == {Analyze(l) : l \in LocalesFor(recipe.file)}
ValidateVariant == {Analyze(l) : l \in LocalesForVariant}
-----------------------------------------------------------------------------
Next ==
  \/ Seed \/ Position \/ BeginLetters \/ EndLetters \/ Substitute \/ EndSubstitutions
  \/ \E entry \in todo : PutLetter(entry)
  \/ \E entry \in todo : FillLetter(entry)
  \/ Fill \/ EndFiller \/ EndFill
  \/ BeginLocale \/ PlaceNext \/ EndLocale \/ Return

Spec == Init /\ [][Next]_vars
-----------------------------------------------------------------------------
(* Properties. *)

Phase == {"transformation", "position", "letter", "substitution", "autofill",
          "autofill-letter", "locales", "place", "done"}

\* Types.  In particular no stage adds a key the physical layout does not have.
TypeOK ==
  /\ recipe \in Recipes /\ phase \in Phase /\ n \in Nat
  /\ out \in [Key -> Cell]
  /\ heads \in [Key -> Value]
  /\ claimed \in [Key -> 0..2]
  /\ missing \in Seq(Char)

\* What the module of a source could have written to key k.
Offers(k, stage, by) ==
  LET Of(mods, keyed) ==
        UNION {(UNION {ToSet(e.levels) : e \in m.letters}) \union
               (IF keyed /\ k \in DOMAIN m.overlays THEN ToSet(m.overlays[k]) ELSE {}) :
               m \in {x \in ToSet(mods) : x.slug = by}}
      t == recipe.transformation
  IN CASE stage = "transformation" -> IF k \in DOMAIN t.keys THEN ToSet(t.keys[k]) ELSE {}
       [] stage = "substitution" ->
            UNION {Range(s.map) : s \in {x \in ToSet(recipe.substitutions) : x.slug = by}}
       [] stage = "locale-fill" ->
            UNION {{Encode[ch] : ch \in ToSet(Wanted(l))} :
                   l \in {x \in ToSet(recipe.locales) : x.code = by}}
       [] stage = "autofill" -> Of(Catalog, TRUE)
       [] stage = "position" -> Of(recipe.additions, TRUE)
       [] OTHER -> Of(recipe.additions, FALSE)

\* The inspector never credits a module with a symbol it did not contribute:
\* sources follow their values through every nudge, claim, substitution and
\* fill.
SourcesAreTrue ==
  \A k \in Key, i \in 1..Depth :
    out[k].from[i] # Unknown =>
      out[k].levels[i] \in Offers(k, out[k].from[i][1], out[k].from[i][2]) \ {Empty}

\* Letter overlays that write key k: those of the highest rank that reach it.
Contenders(k) ==
  LET here == {x \in AllEntries(recipe) : k \in KeysFor(x[2])}
  IN {x \in here : \A y \in here : x[2].rank >= y[2].rank}

\* Once the letter overlays are done, a key holds what the last addition with
\* an overlay of the highest rank for it says, whichever order maps are read
\* in: a lower rank yields, and of equal ranks the later addition wins.
LastHighestWins ==
  (phase = "substitution" /\ n = 1) =>
    \A k \in Key : \A x \in Contenders(k) :
      (x[2].mode = "force" /\ \A y \in Contenders(k) \ {x} : y[1] < x[1]) =>
        \A i \in 1..Depth :
          Pad(x[2].levels)[i] # Empty => out[k].levels[i] = Pad(x[2].levels)[i]

\* The polite modes lose nothing without need: a nudge leaves every value
\* where it is, and a claim drops one only when each level above is taken.
PoliteWritesKeep ==
  [][LET mode == IF phase = "position" THEN recipe.additions[n].mode
                 ELSE (CHOOSE x \in todo \ todo' : TRUE)[2].mode
     IN ((phase = "position" /\ n' # n) \/ (phase = "letter" /\ todo' # todo)) =>
        \A k \in Key, i \in 1..Cap :
          out[k].levels[i] # Empty =>
            /\ mode = "nudge" => out'[k].levels[i] = out[k].levels[i]
            /\ mode = "claim" =>
                 \/ \E j \in i..Cap : out'[k].levels[j] = out[k].levels[i]
                 \/ \A j \in i + 1 .. Cap : out'[k].levels[j] # Empty]_vars

\* Autofill and the locale fill only add: no level an earlier stage, filler or
\* locale has set changes, and the locale fill keeps off the base level.
FillsOnlyAdd ==
  [][(phase \in {"autofill", "autofill-letter", "place"}) =>
       \A k \in Key, i \in 1..Depth :
         (out[k].levels[i] # Empty \/ (phase = "place" /\ i = 1)) =>
           (out'[k].levels[i] = out[k].levels[i] /\ out'[k].from[i] = out[k].from[i])]_vars

\* Where two fillers offer a symbol for the same level of a key, the one whose
\* category was asked for first has it.
EarlierCategoryWins ==
  (phase = "locales" /\ n = 1 /\ "*" \notin ToSet(recipe.autofill)) =>
    LET Asked(f) == {i \in DOMAIN Categories(recipe) : Categories(recipe)[i] \in f.categories} IN
    \A f, g \in ToSet(Catalog) :
      (Asked(f) # {} /\ Asked(g) # {} /\ Min(Asked(g)) < Min(Asked(f))) =>
        \A k \in Key \intersect DOMAIN g.overlays, i \in 1..Depth :
          Pad(g.overlays[k])[i] # Empty => out[k].from[i] # <<"autofill", f.slug>>

Full == \A k \in Key : \A i \in 2..Cap : out[k].levels[i] # Empty

\* A character that a locale needs is left out only when no key has a level
\* left beyond its base.  What is reported of the layout agrees with it: a gap
\* is a letter that can be typed in neither case, and in a filled locale the
\* fill found no room for it; every letter is counted, once.
GapsAreReal ==
  phase = "done" =>
    /\ \A l \in ToSet(recipe.locales) : \A ch \in ToSet(Wanted(l)) : ch \notin Produced => Full
    /\ \A r \in handleCoverage \union ValidateVariant :
         /\ \A ch \in r.missing : {Lower[ch], Upper[ch]} \intersect Produced = {}
         /\ r.covered + Cardinality(r.missing) = r.total
    /\ \A r \in ValidateVariant : recipe.locales # <<>> /\ r.missing # {} => Full

\* A locale's characters with no key of their own never take the room of one
\* that has: the key of a character that had to go elsewhere holds none of
\* them.
AnchorsComeFirst ==
  phase = "done" =>
    \A l \in ToSet(recipe.locales) :
      LET Placed(k) == CharsOf({out[k].levels[i] :
                         i \in {j \in 1..Cap : out[k].from[j] = <<"locale-fill", l.code>>}})
          placed == UNION {Placed(k) : k \in Key}
      IN \A ch \in placed \union (ToSet(Wanted(l)) \ Produced) :
           (Home(ch) # {} /\ \A k \in Home(ch) : ch \notin Placed(k)) =>
             \A k \in Home(ch) : \A other \in Placed(k) : Home(other) # {}
=============================================================================
