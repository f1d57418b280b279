------------------------- MODULE LayoutComposeProofs -------------------------
(***************************************************************************)
(* Theorems about LayoutCompose for any recipe, catalog, locales and number *)
(* of levels: what the stages write, what they leave alone, and who is     *)
(* credited with it.                                                       *)
(***************************************************************************)
EXTENDS LayoutCompose, SequenceTheorems, FiniteSetTheorems, WellFoundedInduction,
        TLAPS

-----------------------------------------------------------------------------
(* Induction, and what the folds of the community modules compute.          *)

\* Induction over the naturals, for a set of them.
LEMMA SetInduction ==
  ASSUME NEW S, 0 \in S, \A N \in Nat : N \in S => N + 1 \in S
  PROVE  Nat \subseteq S
<1> DEFINE T == Nat \ S
<1> SUFFICES ASSUME T # {} PROVE FALSE
  OBVIOUS
<1>1. IsWellFoundedOn(OpToRel(<, Nat), Nat)
  BY NatLessThanWellFounded
<1>2. PICK N \in T : \A m \in T : <<m, N>> \notin OpToRel(<, Nat)
  BY <1>1, WFMin
<1>3. \A m \in T : ~(m < N)
  BY <1>2 DEF OpToRel
<1>4. N - 1 \in Nat /\ N - 1 \notin T /\ (N - 1) + 1 = N
  BY <1>3
<1> QED
  BY <1>4

\* A set of numbers has a smallest one.
LEMMA MinIs ==
  ASSUME NEW S \in SUBSET Nat, S # {}
  PROVE  Min(S) \in S /\ \A m \in S : Min(S) <= m
<1>1. IsWellFoundedOn(OpToRel(<, Nat), Nat)
  BY NatLessThanWellFounded
<1>2. PICK least \in S : \A m \in S : <<m, least>> \notin OpToRel(<, Nat)
  BY <1>1, WFMin
<1>3. ASSUME NEW m \in S PROVE least <= m
  <2>1. ~(m < least)
    BY <1>2 DEF OpToRel
  <2>2. m \in Nat /\ least \in Nat
    BY <1>2
  <2> QED
    BY <2>1, <2>2
<1>4. least \in S /\ \A m \in S : least <= m
  BY <1>2, <1>3
<1> QED
  BY <1>4 DEF Min

\* A set of numbers up to N has a largest one.
LEMMA MaxIs ==
  ASSUME NEW N \in Nat, NEW s \in SUBSET (1..N), s # {}
  PROVE  Max(s) \in s /\ \A y \in s : Max(s) >= y
<1> DEFINE P(m) == \A t \in SUBSET (1..m) : t # {} => \E x \in t : \A y \in t : x >= y
           S == {m \in Nat : P(m)}
<1>1. 0 \in S
  <2>1. 1..0 = {}
    OBVIOUS
  <2> QED
    BY <2>1
<1>2. ASSUME NEW m \in Nat, P(m) PROVE P(m + 1)
  <2> SUFFICES ASSUME NEW t \in SUBSET (1..(m + 1)), t # {}
               PROVE  \E x \in t : \A y \in t : x >= y
    OBVIOUS
  <2>1. CASE m + 1 \in t
    BY <2>1
  <2>2. CASE m + 1 \notin t
    <3>1. t \in SUBSET (1..m)
      BY <2>2
    <3> QED
      BY <3>1, <1>2
  <2> QED
    BY <2>1, <2>2
<1>3. N \in S
  <2> HIDE DEF P
  <2>1. \A m \in Nat : m \in S => m + 1 \in S
    BY <1>2
  <2> QED
    BY <1>1, <2>1, SetInduction
<1> QED
  BY <1>3 DEF Max

LEMMA MaxOf ==
  ASSUME NEW N \in Nat, NEW s \in SUBSET (1..(N + 1)), N + 1 \in s
  PROVE  Max(s) = N + 1
<1>1. N + 1 \in Nat /\ s # {}
  OBVIOUS
<1>2. Max(s) \in s /\ Max(s) >= N + 1
  BY <1>1, MaxIs
<1>3. Max(s) \in 1..(N + 1)
  BY <1>2
<1> QED
  BY <1>2, <1>3

(* What the fold of a sequence of N elements is defined by (Folds): F is    *)
(* one step, applied to what the elements before have given.                *)
Folding(g, N, base, F) ==
  g = [s \in SUBSET (1..N) |-> IF s = {} THEN base ELSE F[<<g[s \ {Max(s)}], Max(s)>>]]

LEMMA FoldExists ==
  ASSUME NEW N \in Nat, NEW V, NEW base \in V, NEW F \in [V \X (1..N) -> V]
  PROVE  \E g \in [SUBSET (1..N) -> V] : Folding(g, N, base, F)
<1> DEFINE Up(m) == \E g \in [SUBSET (1..m) -> V] : Folding(g, m, base, F)
<1>1. Up(0)
  <2> DEFINE g == [s \in SUBSET (1..0) |-> base]
  <2>1. g \in [SUBSET (1..0) -> V]
    OBVIOUS
  <2>2. \A s \in SUBSET (1..0) : s = {}
    OBVIOUS
  <2>3. Folding(g, 0, base, F)
    BY <2>2, Zenon DEF Folding
  <2> QED
    BY <2>1, <2>3
<1>2. ASSUME NEW m \in Nat, m + 1 <= N, Up(m) PROVE Up(m + 1)
  <2>1. PICK g \in [SUBSET (1..m) -> V] : Folding(g, m, base, F)
    BY <1>2
  <2> DEFINE h == [s \in SUBSET (1..(m + 1)) |->
                     IF m + 1 \in s THEN F[<<g[s \ {m + 1}], m + 1>>] ELSE g[s]]
  <2>2. \A s \in SUBSET (1..(m + 1)) :
          IF m + 1 \in s THEN s \ {m + 1} \in SUBSET (1..m) ELSE s \in SUBSET (1..m)
    OBVIOUS
  <2>a. m + 1 \in 1..N
    BY <1>2
  <2>3. h \in [SUBSET (1..(m + 1)) -> V]
    BY <2>2, <2>a
  <2>4. ASSUME NEW s \in SUBSET (1..(m + 1))
        PROVE  h[s] = IF s = {} THEN base ELSE F[<<h[s \ {Max(s)}], Max(s)>>]
    <3>1. CASE m + 1 \in s
      <4>1. Max(s) = m + 1 /\ m + 1 \notin s \ {m + 1} /\ s \ {m + 1} \in SUBSET (1..(m + 1))
        BY <3>1, MaxOf
      <4>2. h[s \ {m + 1}] = g[s \ {m + 1}]
        BY <4>1
      <4> QED
        BY <3>1, <4>1, <4>2
    <3>2. CASE m + 1 \notin s
      <4>1. s \in SUBSET (1..m) /\ h[s] = g[s]
        BY <2>2, <3>2
      <4>2. g[s] = IF s = {} THEN base ELSE F[<<g[s \ {Max(s)}], Max(s)>>]
        BY <2>1, <4>1 DEF Folding
      <4>3. h[s \ {Max(s)}] = g[s \ {Max(s)}]
        BY <3>2, <4>1
      <4> QED
        BY <4>1, <4>2, <4>3
    <3> QED
      BY <3>1, <3>2
  <2>5. Folding(h, m + 1, base, F)
    BY <2>4, Zenon DEF Folding
  <2> QED
    BY <2>3, <2>5
<1> HIDE DEF Up
<1> DEFINE S == {m \in Nat : m <= N => Up(m)}
<1>3. 0 \in S
  BY <1>1
<1>4. \A m \in Nat : m \in S => m + 1 \in S
  BY <1>2
<1>5. N \in S
  BY <1>3, <1>4, SetInduction
<1>6. Up(N)
  BY <1>5
<1> QED
  BY <1>6 DEF Up

\* An interval without its last number.
LEMMA Intervals ==
  /\ 1..0 = {}
  /\ \A i \in Nat \ {0} : 1..i # {} /\ Max(1..i) = i /\ (1..i) \ {i} = 1..(i - 1)
<1>1. ASSUME NEW i \in Nat \ {0}
      PROVE  1..i # {} /\ Max(1..i) = i /\ (1..i) \ {i} = 1..(i - 1)
  <2>1. Max(1..i) \in 1..i /\ Max(1..i) >= i
    <3>1. i \in 1..i
      OBVIOUS
    <3> QED
      BY <3>1, MaxIs
  <2> QED
    BY <2>1
<1>2. 1..0 = {}
  OBVIOUS
<1> QED
  BY <1>1, <1>2

-----------------------------------------------------------------------------
(* One key.                                                                 *)

Sources == (Stages \X STRING) \union {Unknown}

LEMMA CellIs ==
  /\ Cell = [levels : [1..Depth -> Value], from : [1..Depth -> Sources]]
  /\ Depth \in Nat /\ Cap = 4 /\ Depth >= 4 /\ 1..Cap \subseteq 1..Depth
  /\ Empty \in Value /\ Unknown \in Sources /\ Blank \in Cell
<1>1. Depth \in Nat /\ Cap = 4 /\ Depth >= 4
  BY LayoutAssumption DEF Cap
<1>2. Empty \in Value /\ Unknown \in Sources
  BY DEF Value, Sources
<1>3. Cell = [levels : [1..Depth -> Value], from : [1..Depth -> Sources]]
  BY DEF Cell, Sources
<1> QED
  BY <1>1, <1>2, <1>3 DEF Blank

LEMMA PadType ==
  ASSUME NEW s \in Seq(Value)
  PROVE  Pad(s) \in [1..Depth -> Value]
BY CellIs, LenProperties DEF Pad

LEMMA OverwriteType ==
  ASSUME NEW cell \in Cell, NEW overlay \in [1..Depth -> Value], NEW by \in Sources
  PROVE  Overwrite(cell, overlay, by) \in Cell
BY CellIs DEF Overwrite

LEMMA CappedType ==
  ASSUME NEW cell \in Cell
  PROVE  Capped(cell) \in Cell
BY CellIs DEF Capped

LEMMA FillType ==
  ASSUME NEW cell \in Cell, NEW overlay \in [1..Depth -> Value], NEW by \in Sources
  PROVE  FillEmpty(cell, overlay, by) \in Cell
BY CellIs DEF FillEmpty

\* The lowest free level above i.
LEMMA LowestFree ==
  ASSUME NEW levels, NEW i \in 1..Cap, FreeAbove(levels, i) # {}
  PROVE  LET t == Min(FreeAbove(levels, i)) IN
         /\ t \in 1..Cap /\ t > i /\ levels[t] = Empty
         /\ \A j \in i + 1 .. t - 1 : levels[j] # Empty
<1> DEFINE S == FreeAbove(levels, i)
<1>1. S \subseteq Nat /\ S \subseteq 1..Cap /\ i \in Nat /\ Cap \in Nat
  BY CellIs DEF FreeAbove
<1>2. Min(S) \in S /\ \A m \in S : Min(S) <= m
  BY <1>1, MinIs
<1>3. Min(S) \in i + 1 .. Cap /\ levels[Min(S)] = Empty
  BY <1>2 DEF FreeAbove
<1>4. \A j \in i + 1 .. Min(S) - 1 : levels[j] # Empty
  <2> SUFFICES ASSUME NEW j \in i + 1 .. Min(S) - 1, levels[j] = Empty
               PROVE  FALSE
    OBVIOUS
  <2>1. j \in S
    BY <1>1, <1>3 DEF FreeAbove
  <2> QED
    BY <1>1, <1>2, <1>3, <2>1
<1> HIDE DEF S
<1> QED
  BY <1>1, <1>3, <1>4 DEF S

(* What a level holds came from the module its source names: G gives what   *)
(* each source could have written.                                          *)
Credited(cell, G) ==
  \A j \in 1..Depth : cell.from[j] # Unknown =>
    cell.levels[j] \in G[cell.from[j]] /\ cell.levels[j] # Empty

Offered(overlay, by, G) ==
  \A j \in 1..Depth : overlay[j] # Empty => overlay[j] \in G[by]

\* A nudge changes one level at most, and only if it was free or said the same.
LEMMA NudgeLevelIs ==
  ASSUME NEW c \in Cell, NEW i \in 1..Cap,
         NEW overlay \in [1..Depth -> Value], NEW by \in Sources
  PROVE  LET d == NudgeLevel(c, i, overlay, by) IN
         /\ d \in Cell
         /\ \A j \in 1..Depth :
              \/ d.levels[j] = c.levels[j] /\ d.from[j] = c.from[j]
              \/ /\ d.levels[j] = overlay[i] /\ overlay[i] # Empty /\ d.from[j] = by
                 /\ c.levels[j] \in {Empty, overlay[i]}
<1> DEFINE places == IF overlay[i] = Empty THEN {}
                     ELSE IF c.levels[i] \in {Empty, overlay[i]} THEN {i}
                     ELSE FreeAbove(c.levels, i)
<1>1. CASE places = {}
  BY <1>1 DEF NudgeLevel
<1>2. CASE places # {}
  <2> DEFINE t == Min(places)
  <2>1. t \in 1..Depth /\ overlay[i] # Empty /\ c.levels[t] \in {Empty, overlay[i]}
    <3>1. CASE c.levels[i] \in {Empty, overlay[i]}
      <4>1. places = {i} /\ {i} \in SUBSET Nat /\ i \in 1..Depth /\ overlay[i] # Empty
        BY <1>2, <3>1, CellIs
      <4>2. t \in {i}
        BY <4>1, MinIs
      <4> QED
        BY <3>1, <4>1, <4>2
    <3>2. CASE c.levels[i] \notin {Empty, overlay[i]}
      <4>1. places = FreeAbove(c.levels, i) /\ overlay[i] # Empty
        BY <1>2, <3>2
      <4>2. FreeAbove(c.levels, i) # {} /\ t = Min(FreeAbove(c.levels, i))
        BY <1>2, <4>1
      <4>3. t \in 1..Cap /\ c.levels[t] = Empty
        BY <4>2, LowestFree
      <4> QED
        BY <4>1, <4>3, CellIs
    <3> QED
      BY <3>1, <3>2
  <2>2. NudgeLevel(c, i, overlay, by) =
          [levels |-> [c.levels EXCEPT ![t] = overlay[i]], from |-> [c.from EXCEPT ![t] = by]]
    BY <1>2 DEF NudgeLevel
  <2>3. overlay[i] \in Value
    BY CellIs
  <2> HIDE DEF t, places
  <2> QED
    BY <2>1, <2>2, <2>3, CellIs
<1> QED
  BY <1>1, <1>2

LEMMA NudgeIs ==
  ASSUME NEW cell \in Cell, NEW overlay \in [1..Depth -> Value], NEW by \in Sources
  PROVE  LET d == Nudge(cell, overlay, by) IN
         /\ d \in Cell
         /\ \A j \in 1..Cap : cell.levels[j] # Empty => d.levels[j] = cell.levels[j]
         /\ \A G : Credited(cell, G) /\ Offered(overlay, by, G) => Credited(d, G)
<1> DEFINE Good(c) == /\ c \in Cell
                      /\ \A j \in 1..Cap : cell.levels[j] # Empty => c.levels[j] = cell.levels[j]
                      /\ \A G : Credited(cell, G) /\ Offered(overlay, by, G) => Credited(c, G)
           Put(c, i) == NudgeLevel(c, i, overlay, by)
<1>1. Good(Capped(cell))
  <2>1. ASSUME NEW G, Credited(cell, G) PROVE Credited(Capped(cell), G)
    BY <2>1, CellIs DEF Credited, Capped
  <2>2. \A j \in 1..Cap : Capped(cell).levels[j] = cell.levels[j]
    BY CellIs DEF Capped
  <2> QED
    BY <2>1, <2>2, CappedType
<1>2. ASSUME NEW c, Good(c), NEW i \in 1..Cap PROVE Good(Put(c, i))
  <2> DEFINE d == Put(c, i)
  <2>1. /\ d \in Cell
        /\ \A j \in 1..Depth :
              \/ d.levels[j] = c.levels[j] /\ d.from[j] = c.from[j]
              \/ /\ d.levels[j] = overlay[i] /\ overlay[i] # Empty /\ d.from[j] = by
                 /\ c.levels[j] \in {Empty, overlay[i]}
    BY <1>2, NudgeLevelIs
  <2> HIDE DEF d
  <2>2. \A j \in 1..Cap : cell.levels[j] # Empty => d.levels[j] = cell.levels[j]
    BY <1>2, <2>1, CellIs
  <2>3. ASSUME NEW G, Credited(cell, G), Offered(overlay, by, G) PROVE Credited(d, G)
    BY <1>2, <2>1, <2>3, CellIs DEF Credited, Offered
  <2> QED
    BY <2>1, <2>2, <2>3 DEF d
<1>3. Nudge(cell, overlay, by) = Put(Put(Put(Put(Capped(cell), 1), 2), 3), 4)
  BY DEF Nudge
<1>4. 1 \in 1..Cap /\ 2 \in 1..Cap /\ 3 \in 1..Cap /\ 4 \in 1..Cap
  BY DEF Cap
<1> HIDE DEF Good, Put
<1>5. Good(Nudge(cell, overlay, by))
  BY <1>1, <1>2, <1>3, <1>4
<1> QED
  BY <1>5 DEF Good

(* After a claim has gone through the first p levels: w.moved[h] says where *)
(* the value of level h went, and every level that holds one is accounted   *)
(* for.  Landed says that the overlay has level j.                          *)
Landed(j, p, overlay) == j <= p /\ overlay[j] # Empty
Displaced == [levels : [1..Depth -> Value], moved : [1..Cap -> 0..Cap]]
ClaimInv(w, p, cell, overlay) ==
  /\ w \in Displaced
  /\ \A h \in 1..Cap : w.moved[h] # 0 => h <= p /\ w.moved[h] > h
  /\ \A g, h \in 1..Cap : w.moved[g] = w.moved[h] /\ w.moved[g] # 0 => g = h
  /\ \A j \in 1..Cap : Landed(j, p, overlay) => w.levels[j] = overlay[j]
  /\ \A j \in 1..Cap : ~Landed(j, p, overlay) =>
       /\ (\A h \in 1..Cap : w.moved[h] # j) => w.levels[j] = cell.levels[j]
       /\ \A h \in 1..Cap : w.moved[h] = j =>
            w.levels[j] # Empty /\ cell.levels[j] = Empty
            /\ cell.levels[h] \in {Empty, w.levels[j]}
  /\ \A j \in 1..Depth : j > Cap => w.levels[j] = Empty
  /\ \A j \in 1..Cap : cell.levels[j] # Empty => w.levels[j] # Empty
  /\ \A h \in 1..Cap : cell.levels[h] # Empty =>
       \/ \E j \in h..Cap : /\ w.levels[j] = cell.levels[h]
                            /\ \A g \in h + 1 .. j : w.levels[g] # Empty
       \/ \A g \in h + 1 .. Cap : w.levels[g] # Empty

LEMMA ClaimStarts ==
  ASSUME NEW cell \in Cell, NEW overlay \in [1..Depth -> Value]
  PROVE  ClaimInv([levels |-> Capped(cell).levels, moved |-> [i \in 1..Cap |-> 0]],
                  0, cell, overlay)
<1> DEFINE w == [levels |-> Capped(cell).levels, moved |-> [i \in 1..Cap |-> 0]]
<1>1. Capped(cell) \in Cell
  BY CappedType
<1>2. /\ w.levels = Capped(cell).levels /\ \A h \in 1..Cap : w.moved[h] = 0
      /\ w \in Displaced
  BY <1>1, CellIs DEF Displaced
<1>3. \A j \in 1..Cap : w.levels[j] = cell.levels[j]
  BY <1>2, CellIs DEF Capped
<1>4. \A j \in 1..Depth : j > Cap => w.levels[j] = Empty
  BY <1>2, CellIs DEF Capped
<1> HIDE DEF w
<1>5. \A h \in 1..Cap : h \in h..Cap /\ h + 1 .. h = {}
  BY CellIs
<1>6. \A h \in 1..Cap : cell.levels[h] # Empty =>
        \E j \in h..Cap : /\ w.levels[j] = cell.levels[h]
                          /\ \A g \in h + 1 .. j : w.levels[g] # Empty
  BY <1>3, <1>5
<1>7. \A j \in 1..Cap : ~Landed(j, 0, overlay)
  BY CellIs DEF Landed
<1> QED
  BY <1>2, <1>3, <1>4, <1>6, <1>7 DEF ClaimInv, w

LEMMA ClaimStep ==
  ASSUME NEW cell \in Cell, NEW overlay \in [1..Depth -> Value], NEW w,
         NEW p \in 0..Cap, p + 1 \in 1..Cap, ClaimInv(w, p, cell, overlay)
  PROVE  ClaimInv(ClaimLevel(w, p + 1, overlay), p + 1, cell, overlay)
<1> DEFINE i == p + 1
           free == IF w.levels[i] = Empty THEN {} ELSE FreeAbove(w.levels, i)
           v == ClaimLevel(w, i, overlay)
<1>0. /\ w \in Displaced /\ i \in 1..Depth /\ i \in 1..Cap /\ p \in Nat /\ Cap = 4
      /\ 1..Cap \subseteq 1..Depth /\ overlay[i] \in Value /\ p < i
  BY CellIs DEF ClaimInv
<1>a. \A j \in 1..Cap : j # i => (Landed(j, i, overlay) <=> Landed(j, p, overlay))
  BY <1>0 DEF Landed
<1>b. ~Landed(i, p, overlay) /\ \A j \in 1..Cap : j > i => ~Landed(j, p, overlay)
  BY <1>0 DEF Landed
<1>1. CASE overlay[i] = Empty
  <2>1. v = w
    BY <1>1 DEF ClaimLevel
  <2>2. \A j \in 1..Cap : Landed(j, i, overlay) <=> Landed(j, p, overlay)
    BY <1>0, <1>1, <1>a DEF Landed
  <2>3. \A h \in 1..Cap : w.moved[h] # 0 => h <= i
    BY <1>0 DEF ClaimInv, Displaced
  <2> HIDE DEF v, i
  <2> QED
    BY <2>1, <2>2, <2>3 DEF ClaimInv, i, v
<1>2. CASE overlay[i] # Empty /\ free = {}
  <2>1. v = [levels |-> [w.levels EXCEPT ![i] = overlay[i]], moved |-> w.moved]
    BY <1>2 DEF ClaimLevel
  <2> HIDE DEF v
  <2>2. /\ v \in Displaced /\ v.moved = w.moved /\ v.levels[i] = overlay[i]
        /\ \A j \in 1..Depth : j # i => v.levels[j] = w.levels[j]
    BY <1>0, <2>1 DEF Displaced
  <2>3. Landed(i, i, overlay)
    BY <1>0, <1>2 DEF Landed
  <2>4. w.levels[i] # Empty => \A g \in i + 1 .. Cap : w.levels[g] # Empty
    BY <1>0, <1>2 DEF FreeAbove
  <2> HIDE DEF i, free
  <2>5. \A h \in 1..Cap : v.moved[h] # 0 => h <= i /\ v.moved[h] > h
    BY <1>0, <2>2 DEF ClaimInv, Displaced
  <2>6. \A j \in 1..Cap : Landed(j, i, overlay) => v.levels[j] = overlay[j]
    BY <1>0, <1>a, <2>2 DEF ClaimInv
  <2>7. \A j \in 1..Cap : ~Landed(j, i, overlay) =>
          /\ (\A h \in 1..Cap : v.moved[h] # j) => v.levels[j] = cell.levels[j]
          /\ \A h \in 1..Cap : v.moved[h] = j =>
               v.levels[j] # Empty /\ cell.levels[j] = Empty
               /\ cell.levels[h] \in {Empty, v.levels[j]}
    BY <1>0, <1>a, <2>2, <2>3 DEF ClaimInv
  <2>8. \A j \in 1..Depth : j > Cap => v.levels[j] = Empty
    BY <1>0, <2>2 DEF ClaimInv
  <2>9. \A j \in 1..Cap : w.levels[j] # Empty => v.levels[j] # Empty
    BY <1>0, <1>2, <2>2
  <2>10. ASSUME NEW h \in 1..Cap, cell.levels[h] # Empty
         PROVE  \/ \E j \in h..Cap : /\ v.levels[j] = cell.levels[h]
                                     /\ \A g \in h + 1 .. j : v.levels[g] # Empty
                \/ \A g \in h + 1 .. Cap : v.levels[g] # Empty
    <3>0. h..Cap \subseteq 1..Cap /\ \A j \in h..Cap : h + 1 .. j \subseteq 1..Cap
      BY <1>0
    <3>1. CASE \A g \in h + 1 .. Cap : w.levels[g] # Empty
      BY <1>0, <2>9, <3>1, <3>0
    <3>2. CASE \E j \in h..Cap : /\ w.levels[j] = cell.levels[h]
                                 /\ \A g \in h + 1 .. j : w.levels[g] # Empty
      <4>1. PICK j \in h..Cap : /\ w.levels[j] = cell.levels[h]
                                /\ \A g \in h + 1 .. j : w.levels[g] # Empty
        BY <3>2
      <4>2. CASE j # i
        BY <1>0, <2>2, <2>9, <3>0, <4>1, <4>2
      <4>3. CASE j = i
        <5>1. \A g \in i + 1 .. Cap : w.levels[g] # Empty
          BY <2>4, <2>10, <4>1, <4>3
        <5>2. \A g \in h + 1 .. Cap : g \in h + 1 .. i \/ g \in i + 1 .. Cap
          BY <1>0
        <5> QED
          BY <2>9, <3>0, <4>1, <4>3, <5>1, <5>2
      <4> QED
        BY <4>2, <4>3
    <3> QED
      BY <2>10, <3>1, <3>2 DEF ClaimInv
  <2>11. \A j \in 1..Cap : cell.levels[j] # Empty => v.levels[j] # Empty
    BY <2>9 DEF ClaimInv
  <2>12. \A g, h \in 1..Cap : v.moved[g] = v.moved[h] /\ v.moved[g] # 0 => g = h
    BY <2>2 DEF ClaimInv
  <2>13. ClaimInv(v, i, cell, overlay)
    BY <2>2, <2>5, <2>6, <2>7, <2>8, <2>10, <2>11, <2>12, Zenon DEF ClaimInv
  <2> QED
    BY <2>13 DEF v, i
<1>3. CASE overlay[i] # Empty /\ free # {}
  <2> DEFINE t == Min(free)
  <2>1. free = FreeAbove(w.levels, i) /\ w.levels[i] # Empty
    BY <1>3
  <2>2. /\ t \in 1..Cap /\ t > i /\ w.levels[t] = Empty
        /\ \A j \in i + 1 .. t - 1 : w.levels[j] # Empty
    <3>1. FreeAbove(w.levels, i) # {}
      BY <1>3, <2>1
    <3> QED
      BY <1>0, <2>1, <3>1, LowestFree
  <2>3. v = [levels |-> [w.levels EXCEPT ![t] = w.levels[i], ![i] = overlay[i]],
             moved |-> [w.moved EXCEPT ![i] = t]]
    BY <1>3 DEF ClaimLevel
  <2> HIDE DEF v, t, free, i
  <2>4. /\ v \in Displaced /\ v.levels[i] = overlay[i] /\ v.levels[t] = w.levels[i]
        /\ \A j \in 1..Depth : j # i /\ j # t => v.levels[j] = w.levels[j]
        /\ v.moved[i] = t /\ \A h \in 1..Cap : h # i => v.moved[h] = w.moved[h]
    <3> DEFINE L == [w.levels EXCEPT ![t] = w.levels[i], ![i] = overlay[i]]
               M == [w.moved EXCEPT ![i] = t]
    <3>1. w.levels \in [1..Depth -> Value] /\ w.moved \in [1..Cap -> 0..Cap]
      BY <1>0 DEF Displaced
    <3>2. t \in 1..Depth /\ t # i /\ w.levels[i] \in Value /\ t \in 0..Cap
      <4>1. t \in 1..4 /\ t > i /\ i \in 1..4
        BY <1>0, <2>2
      <4>2. t # i /\ t \in 0..4
        BY <4>1
      <4>3. t \in 1..Depth
        BY <1>0, <2>2
      <4> QED
        BY <1>0, <3>1, <4>2, <4>3
    <3>3. /\ L \in [1..Depth -> Value] /\ L[i] = overlay[i] /\ L[t] = w.levels[i]
          /\ \A j \in 1..Depth : j # i /\ j # t => L[j] = w.levels[j]
      BY <1>0, <3>1, <3>2
    <3>4. /\ M \in [1..Cap -> 0..Cap] /\ M[i] = t
          /\ \A h \in 1..Cap : h # i => M[h] = w.moved[h]
      BY <1>0, <3>1, <3>2
    <3>5. v = [levels |-> L, moved |-> M]
      BY <2>3
    <3> HIDE DEF L, M
    <3> QED
      BY <3>3, <3>4, <3>5 DEF Displaced
  <2>5. Landed(i, i, overlay) /\ ~Landed(t, i, overlay) /\ ~Landed(t, p, overlay)
    BY <1>0, <1>3, <2>2 DEF Landed
  <2>6. \A h \in 1..Cap : w.moved[h] # t
    BY <2>2, <2>5 DEF ClaimInv
  <2>7. cell.levels[t] = Empty
    BY <2>2, <2>5, <2>6 DEF ClaimInv
  <2>8. cell.levels[i] \in {Empty, w.levels[i]}
    BY <1>0, <1>b DEF ClaimInv
  <2>9. \A h \in 1..Cap : v.moved[h] # 0 => h <= i /\ v.moved[h] > h
    BY <1>0, <2>2, <2>4 DEF ClaimInv, Displaced
  <2>10. \A g, h \in 1..Cap : v.moved[g] = v.moved[h] /\ v.moved[g] # 0 => g = h
    BY <2>4, <2>6 DEF ClaimInv
  <2>11. \A j \in 1..Cap : Landed(j, i, overlay) => v.levels[j] = overlay[j]
    BY <1>0, <1>a, <2>4, <2>5 DEF ClaimInv
  <2>12. ASSUME NEW j \in 1..Cap, ~Landed(j, i, overlay)
         PROVE  /\ (\A h \in 1..Cap : v.moved[h] # j) => v.levels[j] = cell.levels[j]
                /\ \A h \in 1..Cap : v.moved[h] = j =>
                     v.levels[j] # Empty /\ cell.levels[j] = Empty
                     /\ cell.levels[h] \in {Empty, v.levels[j]}
    <3>1. CASE j = t
      BY <1>0, <2>1, <2>4, <2>6, <2>7, <2>8, <3>1
    <3>2. CASE j # t
      <4>1. j # i /\ ~Landed(j, p, overlay) /\ v.levels[j] = w.levels[j]
        BY <1>0, <1>a, <2>4, <2>5, <2>12, <3>2
      <4>2. \A h \in 1..Cap : v.moved[h] = j => w.moved[h] = j
        BY <2>4, <3>2
      <4>3. w.moved[i] # j
        <5>1. w.moved[i] # 0 => FALSE
          BY <1>0 DEF ClaimInv
        <5> QED
          BY <1>0, <5>1
      <4>4. (\A h \in 1..Cap : v.moved[h] # j) => \A h \in 1..Cap : w.moved[h] # j
        BY <2>4, <4>3
      <4> QED
        BY <4>1, <4>2, <4>4 DEF ClaimInv
    <3> QED
      BY <3>1, <3>2
  <2>13. \A j \in 1..Depth : j > Cap => v.levels[j] = Empty
    BY <1>0, <2>2, <2>4 DEF ClaimInv
  <2>14. \A j \in 1..Cap : w.levels[j] # Empty => v.levels[j] # Empty
    BY <1>0, <1>3, <2>1, <2>2, <2>4
  <2>15. ASSUME NEW h \in 1..Cap, cell.levels[h] # Empty
         PROVE  \/ \E j \in h..Cap : /\ v.levels[j] = cell.levels[h]
                                     /\ \A g \in h + 1 .. j : v.levels[g] # Empty
                \/ \A g \in h + 1 .. Cap : v.levels[g] # Empty
    <3>0. h..Cap \subseteq 1..Cap /\ \A j \in h..Cap : h + 1 .. j \subseteq 1..Cap
      BY <1>0
    <3>1. CASE \A g \in h + 1 .. Cap : w.levels[g] # Empty
      BY <1>0, <2>14, <3>1, <3>0
    <3>2. CASE \E j \in h..Cap : /\ w.levels[j] = cell.levels[h]
                                 /\ \A g \in h + 1 .. j : w.levels[g] # Empty
      <4>1. PICK j \in h..Cap : /\ w.levels[j] = cell.levels[h]
                                /\ \A g \in h + 1 .. j : w.levels[g] # Empty
        BY <3>2
      <4>2. CASE j # i
        <5>1. j # t
          BY <2>2, <2>15, <4>1
        <5>2. v.levels[j] = cell.levels[h] /\ j \in 1..Cap
          BY <1>0, <2>4, <3>0, <4>1, <4>2, <5>1
        <5>3. \A g \in h + 1 .. j : v.levels[g] # Empty
          BY <2>14, <3>0, <4>1
        <5> QED
          BY <4>1, <5>2, <5>3
      <4>3. CASE j = i
        <5>1. v.levels[t] = cell.levels[h] /\ t \in h..Cap
          BY <1>0, <2>2, <2>4, <4>1, <4>3
        <5>2. \A g \in h + 1 .. t : g \in h + 1 .. i \/ g \in i + 1 .. t - 1 \/ g = t
          BY <1>0, <2>2
        <5>3. i + 1 .. t - 1 \subseteq 1..Cap
          BY <1>0, <2>2
        <5>4. \A g \in h + 1 .. t : v.levels[g] # Empty
          BY <2>1, <2>2, <2>4, <2>14, <3>0, <4>1, <4>3, <5>2, <5>3
        <5> QED
          BY <5>1, <5>4
      <4> QED
        BY <4>2, <4>3
    <3> QED
      BY <2>15, <3>1, <3>2 DEF ClaimInv
  <2>16. \A j \in 1..Cap : cell.levels[j] # Empty => v.levels[j] # Empty
    BY <2>14 DEF ClaimInv
  <2>17. ClaimInv(v, i, cell, overlay)
    BY <2>4, <2>9, <2>10, <2>11, <2>12, <2>13, <2>15, <2>16, Zenon DEF ClaimInv
  <2> QED
    BY <2>17 DEF v, i
<1> QED
  BY <1>1, <1>2, <1>3

LEMMA DisplaceIs ==
  ASSUME NEW cell \in Cell, NEW overlay \in [1..Depth -> Value]
  PROVE  ClaimInv(Displace(cell, overlay), 4, cell, overlay)
<1> DEFINE w0 == [levels |-> Capped(cell).levels, moved |-> [i \in 1..Cap |-> 0]]
           Put(w, i) == ClaimLevel(w, i, overlay)
<1>0. Cap = 4 /\ \A p \in {0, 1, 2, 3} : p \in 0..Cap /\ p + 1 \in 1..Cap
  BY DEF Cap
<1>1. ClaimInv(w0, 0, cell, overlay)
  BY ClaimStarts
<1> HIDE DEF w0
<1>2. ASSUME NEW w, NEW p \in {0, 1, 2, 3}, ClaimInv(w, p, cell, overlay)
      PROVE  ClaimInv(Put(w, p + 1), p + 1, cell, overlay)
  BY <1>0, <1>2, ClaimStep
<1>3. Displace(cell, overlay) = Put(Put(Put(Put(w0, 1), 2), 3), 4)
  BY DEF Displace, w0
<1>4. 0 + 1 = 1 /\ 1 + 1 = 2 /\ 2 + 1 = 3 /\ 3 + 1 = 4
  OBVIOUS
<1> HIDE DEF Put
<1>5. ClaimInv(Put(w0, 1), 1, cell, overlay)
  BY <1>1, <1>2, <1>4
<1>6. ClaimInv(Put(Put(w0, 1), 2), 2, cell, overlay)
  BY <1>5, <1>2, <1>4
<1>7. ClaimInv(Put(Put(Put(w0, 1), 2), 3), 3, cell, overlay)
  BY <1>6, <1>2, <1>4
<1>8. ClaimInv(Put(Put(Put(Put(w0, 1), 2), 3), 4), 4, cell, overlay)
  BY <1>7, <1>2, <1>4
<1> QED
  BY <1>3, <1>8

\* A claim takes its levels; what stood there moves up with its source, and is
\* dropped only if there is no level above it left.
LEMMA ClaimIs ==
  ASSUME NEW cell \in Cell, NEW overlay \in [1..Depth -> Value], NEW by \in Sources
  PROVE  LET d == Claim(cell, overlay, by) IN
         /\ d \in Cell
         /\ \A h \in 1..Cap : cell.levels[h] # Empty =>
              \/ \E j \in h..Cap : d.levels[j] = cell.levels[h]
              \/ \A g \in h + 1 .. Cap : d.levels[g] # Empty
         /\ \A G : Credited(cell, G) /\ Offered(overlay, by, G) => Credited(d, G)
<1> DEFINE w == Displace(cell, overlay)
           From(j) == IF j <= Cap /\ overlay[j] # Empty THEN by
                      ELSE IF \E i \in 1..Cap : w.moved[i] = j
                      THEN cell.from[CHOOSE i \in 1..Cap : w.moved[i] = j]
                      ELSE Capped(cell).from[j]
           from == [j \in 1..Depth |-> From(j)]
           d == Claim(cell, overlay, by)
<1>0. ClaimInv(w, 4, cell, overlay)
  BY DisplaceIs
<1>2. Cap = 4 /\ 1..Cap \subseteq 1..Depth /\ Depth \in Nat
  BY CellIs
<1>3. d = [levels |-> w.levels, from |-> from]
  BY DEF Claim
<1> HIDE DEF w, d
<1>1. ClaimInv(w, 4, cell, overlay) /\ w \in Displaced
  BY <1>0 DEF ClaimInv
<1>4. ASSUME NEW j \in 1..Depth PROVE From(j) \in Sources
  <2>1. (\E i \in 1..Cap : w.moved[i] = j) =>
          (CHOOSE i \in 1..Cap : w.moved[i] = j) \in 1..Cap
    OBVIOUS
  <2>2. \A i \in 1..Depth : cell.from[i] \in Sources /\ Capped(cell).from[i] \in Sources
    BY CellIs, CappedType
  <2> QED
    BY <1>2, <2>1, <2>2
<1>5. d \in Cell
  <2>1. from \in [1..Depth -> Sources]
    BY <1>4
  <2>2. w.levels \in [1..Depth -> Value]
    BY <1>1 DEF Displaced
  <2> HIDE DEF from
  <2> QED
    BY <1>3, <2>1, <2>2, CellIs
<1>6. d.levels = w.levels /\ \A j \in 1..Depth : d.from[j] = From(j)
  BY <1>3
<1>7. ASSUME NEW G, Credited(cell, G), Offered(overlay, by, G)
      PROVE  Credited(d, G)
  <2> SUFFICES ASSUME NEW j \in 1..Depth, From(j) # Unknown
               PROVE  w.levels[j] \in G[From(j)] /\ w.levels[j] # Empty
    BY <1>6 DEF Credited
  <2>0. j \in Nat
    BY <1>2
  <2>1. CASE j <= Cap /\ overlay[j] # Empty
    <3>1. From(j) = by /\ w.levels[j] = overlay[j]
      BY <1>1, <1>2, <2>0, <2>1 DEF ClaimInv, Landed
    <3> QED
      BY <1>7, <2>1, <3>1 DEF Offered
  <2>2. CASE ~(j <= Cap /\ overlay[j] # Empty) /\ \E i \in 1..Cap : w.moved[i] = j
    <3> DEFINE h == CHOOSE i \in 1..Cap : w.moved[i] = j
    <3>1. h \in 1..Cap /\ w.moved[h] = j
      BY <2>2
    <3>2. From(j) = cell.from[h]
      BY <2>2
    <3> HIDE DEF h
    <3>3. j \in 1..Cap /\ ~Landed(j, 4, overlay)
      BY <1>1, <1>2, <2>0, <2>2, <3>1 DEF Displaced, Landed
    <3>4. w.levels[j] # Empty /\ cell.levels[h] \in {Empty, w.levels[j]}
      BY <1>1, <3>1, <3>3 DEF ClaimInv
    <3>5. cell.levels[h] \in G[cell.from[h]] /\ cell.levels[h] # Empty
      BY <1>2, <1>7, <2>2, <3>1, <3>2 DEF Credited
    <3> QED
      BY <3>2, <3>4, <3>5
  <2>3. CASE ~(j <= Cap /\ overlay[j] # Empty) /\ ~\E i \in 1..Cap : w.moved[i] = j
    <3>1. From(j) = Capped(cell).from[j]
      BY <2>3
    <3>2. j \in 1..Cap
      BY <1>2, <2>0, <3>1, CellIs DEF Capped
    <3>3. From(j) = cell.from[j] /\ ~Landed(j, 4, overlay)
      BY <1>2, <2>3, <3>1, <3>2, CellIs DEF Capped, Landed
    <3>4. w.levels[j] = cell.levels[j]
      BY <1>1, <2>3, <3>2, <3>3 DEF ClaimInv
    <3> QED
      BY <1>2, <1>7, <3>3, <3>4 DEF Credited
  <2> QED
    BY <2>1, <2>2, <2>3
<1>8. \A h \in 1..Cap : cell.levels[h] # Empty =>
        \/ \E j \in h..Cap : d.levels[j] = cell.levels[h]
        \/ \A g \in h + 1 .. Cap : d.levels[g] # Empty
  <2> SUFFICES ASSUME NEW h \in 1..Cap, cell.levels[h] # Empty
               PROVE  \/ \E j \in h..Cap : d.levels[j] = cell.levels[h]
                      \/ \A g \in h + 1 .. Cap : d.levels[g] # Empty
    OBVIOUS
  <2>1. \/ \E j \in h..Cap : /\ w.levels[j] = cell.levels[h]
                            /\ \A g \in h + 1 .. j : w.levels[g] # Empty
        \/ \A g \in h + 1 .. Cap : w.levels[g] # Empty
    BY <1>1 DEF ClaimInv
  <2> QED
    BY <1>6, <2>1
<1> QED
  BY <1>5, <1>7, <1>8 DEF d

LEMMA CreditKept ==
  ASSUME NEW cell \in Cell, NEW overlay \in [1..Depth -> Value], NEW by \in Sources, NEW G,
         Credited(cell, G), Offered(overlay, by, G)
  PROVE  Credited(Overwrite(cell, overlay, by), G) /\ Credited(FillEmpty(cell, overlay, by), G)
<1>1. Credited(Overwrite(cell, overlay, by), G)
  BY CellIs DEF Credited, Offered, Overwrite
<1>2. Credited(FillEmpty(cell, overlay, by), G)
  BY CellIs DEF Credited, Offered, FillEmpty
<1> QED
  BY <1>1, <1>2

\* Whichever rule: a cell stays a cell, and credit where it is due.
LEMMA MergeIs ==
  ASSUME NEW cell \in Cell, NEW levels \in Seq(Value), NEW by \in Sources,
         NEW mode \in Modes \union {"autofill"}
  PROVE  /\ Merge(cell, levels, by, mode) \in Cell
         /\ \A G : Credited(cell, G) /\ Offered(Pad(levels), by, G) =>
                     Credited(Merge(cell, levels, by, mode), G)
<1> DEFINE overlay == Pad(levels)
<1>1. overlay \in [1..Depth -> Value]
  BY PadType
<1> HIDE DEF overlay
<1>2. \/ Merge(cell, levels, by, mode) = Nudge(cell, overlay, by)
      \/ Merge(cell, levels, by, mode) = Claim(cell, overlay, by)
      \/ Merge(cell, levels, by, mode) = FillEmpty(cell, overlay, by)
      \/ Merge(cell, levels, by, mode) = Overwrite(cell, overlay, by)
  BY DEF Merge, Modes, overlay
<1>3. CASE Merge(cell, levels, by, mode) = Nudge(cell, overlay, by)
  BY <1>1, <1>3, NudgeIs DEF overlay
<1>4. CASE Merge(cell, levels, by, mode) = Claim(cell, overlay, by)
  BY <1>1, <1>4, ClaimIs DEF overlay
<1>5. CASE Merge(cell, levels, by, mode) = FillEmpty(cell, overlay, by)
  BY <1>1, <1>5, FillType, CreditKept DEF overlay
<1>6. CASE Merge(cell, levels, by, mode) = Overwrite(cell, overlay, by)
  BY <1>1, <1>6, OverwriteType, CreditKept DEF overlay
<1> QED
  BY <1>2, <1>3, <1>4, <1>5, <1>6
-----------------------------------------------------------------------------
(* The folds of the composition, one element at a time: what one element     *)
(* does to what the elements before it have given.                           *)

Sifted(S, w, e) == IF e \in S THEN Append(w, e) ELSE w

Picked(cat, w, e) == IF cat \in e.categories /\ e \notin ToSet(w) THEN Append(w, e) ELSE w

Added(w, e) ==
  IF Lower[e] \in ToSet(w) THEN w
  ELSE w \o (IF Upper[e] = Lower[e] THEN <<Lower[e]>> ELSE <<Upper[e], Lower[e]>>)

Expanded(r, e) ==
  IF e = "smart" THEN SmartCategories(r) ELSE IF e = "*" THEN <<>> ELSE <<e>>

\* Up to N, one number at a time.
LEMMA Along ==
  ASSUME NEW N \in Nat, NEW T, 0 \in T, \A i \in 0..(N - 1) : i \in T => i + 1 \in T
  PROVE  0..N \subseteq T
<1> DEFINE S == {m \in Nat : m <= N => m \in T}
<1>1. 0 \in S
  OBVIOUS
<1>2. \A m \in Nat : m \in S => m + 1 \in S
  OBVIOUS
<1>3. Nat \subseteq S
  <2> HIDE DEF S
  <2> QED
    BY <1>1, <1>2, SetInduction
<1> QED
  BY <1>3

\* q goes through s and takes the members of S.
Sifts(q, s, S, A) ==
  /\ q[0] = <<>> /\ q[Len(s)] = Those(s, S)
  /\ \A i \in 1..Len(s) : q[i] = Sifted(S, q[i - 1], s[i])
  /\ \A i \in 0..Len(s) : q[i] \in Seq(A)

\* Those members of a sequence that are in S.
LEMMA ThoseSteps ==
  ASSUME NEW A, NEW s \in Seq(A), NEW S
  PROVE  \E q : Sifts(q, s, S, A)
<1> USE DEF Sifted
<1> DEFINE N == Len(s)
           V == Seq(A)
           F == [p \in V \X (1..N) |-> Sifted(S, p[1], s[p[2]])]
           It(g) == g = [t \in SUBSET (1..N) |->
                           IF t = {} THEN <<>>
                           ELSE Sifted(S, g[t \ {Max(t)}], s[Max(t)])]
<1>0. N \in Nat /\ DOMAIN s = 1..N /\ \A i \in 1..N : s[i] \in A
  BY LenProperties
<1>a. ASSUME NEW w \in V, NEW e \in A PROVE Sifted(S, w, e) \in V
  BY AppendProperties
<1>1. F \in [V \X (1..N) -> V]
  BY <1>0, <1>a
<1>b. <<>> \in V
  BY EmptySeq
<1>2. PICK g \in [SUBSET (1..N) -> V] : Folding(g, N, <<>>, F)
  <2> HIDE DEF F, V
  <2> QED
    BY <1>0, <1>1, <1>b, FoldExists
<1>3. It(g)
  <2>1. \A t \in SUBSET (1..N) : t # {} => Max(t) \in 1..N
    BY <1>0, MaxIs
  <2> HIDE DEF V
  <2>2. \A t \in SUBSET (1..N) :
          t # {} => F[<<g[t \ {Max(t)}], Max(t)>>] =
                      Sifted(S, g[t \ {Max(t)}], s[Max(t)])
    BY <1>2, <2>1
  <2> QED
    BY <1>2, <2>2 DEF Folding
<1>4. It(CHOOSE h : It(h))
  <2> HIDE DEF It
  <2> QED
    BY <1>3
<1> DEFINE c == CHOOSE h : It(h)
<1>6. Those(s, S) = c[1..N]
  BY <1>0 DEF Those, FoldLeft, MapThenFoldSet
<1>7. \A t \in SUBSET (1..N) :
        c[t] = IF t = {} THEN <<>> ELSE Sifted(S, c[t \ {Max(t)}], s[Max(t)])
  BY <1>4
<1> HIDE DEF c
<1>8. ASSUME NEW i \in 1..N
      PROVE  c[1..i] = Sifted(S, c[1..(i - 1)], s[i])
  <2>1. 1..i \in SUBSET (1..N) /\ i \in Nat \ {0}
    BY <1>0
  <2> QED
    BY <1>7, <2>1, Intervals
<1>9. c[1..0] = <<>>
  BY <1>7, Intervals
<1> DEFINE q == [i \in 0..N |-> c[1..i]]
<1>q. \A i \in 0..N : q[i] = c[1..i]
  OBVIOUS
<1> HIDE DEF q, V
<1>10. q[0] = <<>> /\ q[N] = Those(s, S)
  BY <1>0, <1>6, <1>9, <1>q
<1>11. ASSUME NEW i \in 1..N
       PROVE  q[i] = Sifted(S, q[i - 1], s[i])
  <2>1. i \in 0..N /\ i - 1 \in 0..N
    BY <1>0
  <2>2. q[i] = c[1..i] /\ q[i - 1] = c[1..(i - 1)]
    BY <1>q, <2>1
  <2> QED
    BY <1>8, <2>2
<1>12. \A i \in 0..N : q[i] \in V
  <2> DEFINE T == {i \in 0..N : q[i] \in V}
  <2>1. 0 \in T
    BY <1>0, <1>10, <1>b
  <2>2. ASSUME NEW i \in 0..(N - 1), i \in T PROVE i + 1 \in T
    <3>1. i + 1 \in 1..N /\ (i + 1) - 1 = i /\ i + 1 \in 0..N
      BY <1>0
    <3>2. q[i] \in V /\ s[i + 1] \in A
      BY <1>0, <2>2, <3>1
    <3>3. q[i + 1] = Sifted(S, q[i], s[i + 1])
      BY <1>11, <3>1
    <3> QED
      BY <1>a, <3>1, <3>2, <3>3
  <2> HIDE DEF T
  <2>3. 0..N \subseteq T
    BY <1>0, <2>1, <2>2, Along
  <2> QED
    BY <2>3 DEF T
<1> QED
  BY <1>10, <1>11, <1>12 DEF V, Sifts

\* The catalog, one filler after another.
LEMMA PickSteps ==
  ASSUME NEW acc \in Seq(ToSet(Catalog)), NEW cat
  PROVE  \E q : /\ q[0] = acc /\ q[Len(Catalog)] = Take(acc, cat)
                /\ \A i \in 1..Len(Catalog) :
                     q[i] = Picked(cat, q[i - 1], Catalog[i])
                /\ \A i \in 0..Len(Catalog) : q[i] \in Seq(ToSet(Catalog))
<1> USE DEF Picked
<1> DEFINE N == Len(Catalog)
           V == Seq(ToSet(Catalog))
           F == [p \in V \X (1..N) |-> Picked(cat, p[1], Catalog[p[2]])]
           It(g) == g = [t \in SUBSET (1..N) |->
                           IF t = {} THEN acc
                           ELSE Picked(cat, g[t \ {Max(t)}], Catalog[Max(t)])]
<1>0. N \in Nat /\ DOMAIN Catalog = 1..N /\ \A i \in 1..N : Catalog[i] \in ToSet(Catalog)
  BY LayoutAssumption, LenProperties DEF IsSequence
<1>a. ASSUME NEW w \in V, NEW e \in ToSet(Catalog) PROVE Picked(cat, w, e) \in V
  BY AppendProperties
<1>1. F \in [V \X (1..N) -> V]
  BY <1>0, <1>a
<1>b. acc \in V
  OBVIOUS
<1>2. PICK g \in [SUBSET (1..N) -> V] : Folding(g, N, acc, F)
  <2> HIDE DEF F, V
  <2> QED
    BY <1>0, <1>1, <1>b, FoldExists
<1>3. It(g)
  <2>1. \A t \in SUBSET (1..N) : t # {} => Max(t) \in 1..N
    BY <1>0, MaxIs
  <2> HIDE DEF V
  <2>2. \A t \in SUBSET (1..N) :
          t # {} => F[<<g[t \ {Max(t)}], Max(t)>>] =
                      Picked(cat, g[t \ {Max(t)}], Catalog[Max(t)])
    BY <1>2, <2>1
  <2> QED
    BY <1>2, <2>2 DEF Folding
<1>4. It(CHOOSE h : It(h))
  <2> HIDE DEF It
  <2> QED
    BY <1>3
<1> DEFINE c == CHOOSE h : It(h)
<1>6. Take(acc, cat) = c[1..N]
  BY <1>0 DEF Take, FoldLeft, MapThenFoldSet
<1>7. \A t \in SUBSET (1..N) :
        c[t] = IF t = {} THEN acc ELSE Picked(cat, c[t \ {Max(t)}], Catalog[Max(t)])
  BY <1>4
<1> HIDE DEF c
<1>8. ASSUME NEW i \in 1..N
      PROVE  c[1..i] = Picked(cat, c[1..(i - 1)], Catalog[i])
  <2>1. 1..i \in SUBSET (1..N) /\ i \in Nat \ {0}
    BY <1>0
  <2> QED
    BY <1>7, <2>1, Intervals
<1>9. c[1..0] = acc
  BY <1>7, Intervals
<1> DEFINE q == [i \in 0..N |-> c[1..i]]
<1>q. \A i \in 0..N : q[i] = c[1..i]
  OBVIOUS
<1> HIDE DEF q, V
<1>10. q[0] = acc /\ q[N] = Take(acc, cat)
  BY <1>0, <1>6, <1>9, <1>q
<1>11. ASSUME NEW i \in 1..N
       PROVE  q[i] = Picked(cat, q[i - 1], Catalog[i])
  <2>1. i \in 0..N /\ i - 1 \in 0..N
    BY <1>0
  <2>2. q[i] = c[1..i] /\ q[i - 1] = c[1..(i - 1)]
    BY <1>q, <2>1
  <2> QED
    BY <1>8, <2>2
<1>12. \A i \in 0..N : q[i] \in V
  <2> DEFINE T == {i \in 0..N : q[i] \in V}
  <2>1. 0 \in T
    BY <1>0, <1>10, <1>b
  <2>2. ASSUME NEW i \in 0..(N - 1), i \in T PROVE i + 1 \in T
    <3>1. i + 1 \in 1..N /\ (i + 1) - 1 = i /\ i + 1 \in 0..N
      BY <1>0
    <3>2. q[i] \in V /\ Catalog[i + 1] \in ToSet(Catalog)
      BY <1>0, <2>2, <3>1
    <3>3. q[i + 1] = Picked(cat, q[i], Catalog[i + 1])
      BY <1>11, <3>1
    <3> QED
      BY <1>a, <3>1, <3>2, <3>3
  <2> HIDE DEF T
  <2>3. 0..N \subseteq T
    BY <1>0, <2>1, <2>2, Along
  <2> QED
    BY <2>3 DEF T
<1> QED
  BY <1>10, <1>11, <1>12 DEF V

\* What a recipe is made of.
LEMMA RecipeIs ==
  ASSUME NEW r \in Recipes
  PROVE  /\ r.physical \in Seq(ToSet(r.physical)) /\ r.autofill \in Seq(ToSet(r.autofill))
         /\ \A k \in DOMAIN r.transformation.keys : r.transformation.keys[k] \in Seq(Value)
         /\ r.transformation.slug \in STRING
         /\ Len(r.additions) \in Nat /\ DOMAIN r.additions = 1..Len(r.additions)
         /\ \A i \in 1..Len(r.additions) :
              /\ r.additions[i] \in ToSet(r.additions)
              /\ IsModule(r.additions[i]) /\ r.additions[i].mode \in Modes
         /\ Len(r.substitutions) \in Nat
         /\ \A i \in 1..Len(r.substitutions) :
              /\ r.substitutions[i] \in ToSet(r.substitutions)
              /\ r.substitutions[i].slug \in STRING
              /\ Range(r.substitutions[i].map) \subseteq Token
         /\ Len(r.locales) \in Nat
         /\ \A i \in 1..Len(r.locales) :
              r.locales[i] \in ToSet(r.locales) /\ IsLocale(r.locales[i])
<1>1. IsRecipe(r)
  BY LayoutAssumption
<1>2. \A s : IsSequence(s) =>
        Len(s) \in Nat /\ DOMAIN s = 1..Len(s) /\ \A i \in 1..Len(s) : s[i] \in ToSet(s)
  BY LenProperties DEF IsSequence
<1> QED
  BY <1>1, <1>2, Zenon DEF IsRecipe, IsSequence, IsKeys

LEMMA AppendSet ==
  ASSUME NEW A, NEW s \in Seq(A), NEW e \in A
  PROVE  ToSet(Append(s, e)) = ToSet(s) \union {e}
<1> DEFINE t == Append(s, e)
<1>1. Len(s) \in Nat /\ DOMAIN s = 1..Len(s)
  BY LenProperties
<1>2. /\ DOMAIN t = 1..(Len(s) + 1) /\ t[Len(s) + 1] = e
      /\ \A i \in 1..Len(s) : t[i] = s[i]
  BY AppendProperties, LenProperties
<1> HIDE DEF t
<1>3. DOMAIN t = DOMAIN s \union {Len(s) + 1}
  BY <1>1, <1>2
<1> QED
  BY <1>1, <1>2, <1>3 DEF ToSet, t

LEMMA ConcatSet ==
  ASSUME NEW A, NEW s \in Seq(A), NEW t \in Seq(A)
  PROVE  s \o t \in Seq(A) /\ ToSet(s \o t) = ToSet(s) \union ToSet(t)
<1> DEFINE u == s \o t
<1>1. /\ Len(s) \in Nat /\ DOMAIN s = 1..Len(s) /\ Len(t) \in Nat /\ DOMAIN t = 1..Len(t)
  BY LenProperties
<1>2. /\ u \in Seq(A) /\ Len(u) = Len(s) + Len(t)
      /\ \A i \in 1..Len(u) : u[i] = IF i <= Len(s) THEN s[i] ELSE t[i - Len(s)]
  BY ConcatProperties
<1>3. DOMAIN u = 1..(Len(s) + Len(t))
  BY <1>2, LenProperties
<1> HIDE DEF u
<1>4. ASSUME NEW x \in ToSet(u) PROVE x \in ToSet(s) \union ToSet(t)
  <2>1. PICK i \in 1..Len(u) : x = u[i]
    BY <1>2, <1>3 DEF ToSet
  <2>2. CASE i <= Len(s)
    <3>1. i \in DOMAIN s /\ x = s[i]
      BY <1>1, <1>2, <2>1, <2>2
    <3> QED
      BY <3>1 DEF ToSet
  <2>3. CASE ~(i <= Len(s))
    <3>1. i - Len(s) \in DOMAIN t /\ x = t[i - Len(s)]
      BY <1>1, <1>2, <2>1, <2>3
    <3> QED
      BY <3>1 DEF ToSet
  <2> QED
    BY <2>2, <2>3
<1>5. ASSUME NEW x \in ToSet(s) PROVE x \in ToSet(u)
  <2>1. PICK i \in 1..Len(s) : x = s[i]
    BY <1>1 DEF ToSet
  <2>2. i \in DOMAIN u /\ u[i] = s[i]
    BY <1>1, <1>2, <1>3
  <2> QED
    BY <2>1, <2>2 DEF ToSet
<1>6. ASSUME NEW x \in ToSet(t) PROVE x \in ToSet(u)
  <2>1. PICK i \in 1..Len(t) : x = t[i]
    BY <1>1 DEF ToSet
  <2>2. i + Len(s) \in DOMAIN u /\ u[i + Len(s)] = t[i]
    <3>1. i + Len(s) \in 1..Len(u) /\ ~(i + Len(s) <= Len(s)) /\ (i + Len(s)) - Len(s) = i
      BY <1>1, <1>2
    <3> QED
      BY <1>2, <1>3, <3>1
  <2> QED
    BY <2>1, <2>2 DEF ToSet
<1> QED
  BY <1>2, <1>4, <1>5, <1>6 DEF u

\* What is taken one element after another from a sequence.
LEMMA ThoseIs ==
  ASSUME NEW A, NEW s \in Seq(A), NEW S
  PROVE  Those(s, S) \in Seq(A) /\ ToSet(Those(s, S)) = ToSet(s) \intersect S
<1>0. PICK q : Sifts(q, s, S, A)
  BY ThoseSteps, Zenon
<1>1. /\ q[0] = <<>> /\ q[Len(s)] = Those(s, S)
      /\ \A i \in 1..Len(s) : q[i] = Sifted(S, q[i - 1], s[i])
      /\ \A i \in 0..Len(s) : q[i] \in Seq(A)
  BY <1>0 DEF Sifts
<1>2. Len(s) \in Nat /\ DOMAIN s = 1..Len(s) /\ \A i \in 1..Len(s) : s[i] \in A
  BY LenProperties
<1> DEFINE T == {i \in 0..Len(s) : ToSet(q[i]) = {s[j] : j \in 1..i} \intersect S}
<1>3. 0 \in T
  <2>1. ToSet(<<>>) = {} /\ 1..0 = {} /\ 0 \in 0..Len(s)
    BY <1>2 DEF ToSet
  <2> QED
    BY <1>1, <2>1
<1>4. ASSUME NEW i \in 0..(Len(s) - 1), i \in T PROVE i + 1 \in T
  <2>1. i + 1 \in 1..Len(s) /\ (i + 1) - 1 = i /\ i + 1 \in 0..Len(s) /\ i \in 0..Len(s)
    BY <1>2
  <2>2. q[i + 1] = Sifted(S, q[i], s[i + 1])
        /\ q[i] \in Seq(A) /\ s[i + 1] \in A
    BY <1>1, <1>2, <2>1
  <2>3. 1..(i + 1) = (1..i) \union {i + 1}
    BY <2>1
  <2>4. {s[j] : j \in 1..(i + 1)} = {s[j] : j \in 1..i} \union {s[i + 1]}
    BY <2>3
  <2>5. ToSet(Append(q[i], s[i + 1])) = ToSet(q[i]) \union {s[i + 1]}
    BY <2>2, AppendSet
  <2>6. ToSet(q[i]) = {s[j] : j \in 1..i} \intersect S
    BY <1>4
  <2>7. ToSet(q[i + 1]) = {s[j] : j \in 1..(i + 1)} \intersect S
    BY <2>2, <2>4, <2>5, <2>6 DEF Sifted
  <2> QED
    BY <2>1, <2>7
<1>5. Len(s) \in T
  <2> HIDE DEF T
  <2>1. 0..Len(s) \subseteq T
    BY <1>2, <1>3, <1>4, Along
  <2> QED
    BY <1>2, <2>1
<1>6. ToSet(q[Len(s)]) = {s[j] : j \in 1..Len(s)} \intersect S
  BY <1>5
<1>7. ToSet(s) = {s[j] : j \in 1..Len(s)}
  BY <1>2 DEF ToSet
<1> QED
  BY <1>1, <1>2, <1>6, <1>7

\* The characters of a locale, one after another.
LEMMA WantedSteps ==
  ASSUME NEW l, IsLocale(l)
  PROVE  \E q : /\ q[0] = <<>> /\ q[Len(l.chars)] = Wanted(l)
                /\ \A i \in 1..Len(l.chars) :
                     q[i] = Added(q[i - 1], l.chars[i])
                /\ \A i \in 0..Len(l.chars) : q[i] \in Seq(Char)
<1> USE DEF Added
<1> DEFINE N == Len(l.chars)
           V == Seq(Char)
           F == [p \in V \X (1..N) |-> Added(p[1], l.chars[p[2]])]
           It(g) == g = [t \in SUBSET (1..N) |->
                           IF t = {} THEN <<>>
                           ELSE Added(g[t \ {Max(t)}], l.chars[Max(t)])]
<1>0. N \in Nat /\ DOMAIN l.chars = 1..N /\ \A i \in 1..N : l.chars[i] \in Char
  BY LenProperties DEF IsLocale
<1>a. ASSUME NEW w \in V, NEW e \in Char PROVE Added(w, e) \in V
  <2>1. Lower[e] \in Char /\ Upper[e] \in Char
    BY LayoutAssumption
  <2>2. <<Lower[e]>> \in Seq(Char) /\ <<Upper[e], Lower[e]>> \in Seq(Char)
    BY <2>1
  <2> QED
    BY <2>2, ConcatProperties
<1>1. F \in [V \X (1..N) -> V]
  BY <1>0, <1>a
<1>b. <<>> \in V
  BY EmptySeq
<1>2. PICK g \in [SUBSET (1..N) -> V] : Folding(g, N, <<>>, F)
  <2> HIDE DEF F, V
  <2> QED
    BY <1>0, <1>1, <1>b, FoldExists
<1>3. It(g)
  <2>1. \A t \in SUBSET (1..N) : t # {} => Max(t) \in 1..N
    BY <1>0, MaxIs
  <2> HIDE DEF V
  <2>2. \A t \in SUBSET (1..N) :
          t # {} => F[<<g[t \ {Max(t)}], Max(t)>>] =
                      Added(g[t \ {Max(t)}], l.chars[Max(t)])
    BY <1>2, <2>1
  <2> QED
    BY <1>2, <2>2 DEF Folding
<1>4. It(CHOOSE h : It(h))
  <2> HIDE DEF It
  <2> QED
    BY <1>3
<1> DEFINE c == CHOOSE h : It(h)
<1>6. Wanted(l) = c[1..N]
  BY <1>0 DEF Wanted, FoldLeft, MapThenFoldSet
<1>7. \A t \in SUBSET (1..N) :
        c[t] = IF t = {} THEN <<>> ELSE Added(c[t \ {Max(t)}], l.chars[Max(t)])
  BY <1>4
<1> HIDE DEF c
<1>8. ASSUME NEW i \in 1..N
      PROVE  c[1..i] = Added(c[1..(i - 1)], l.chars[i])
  <2>1. 1..i \in SUBSET (1..N) /\ i \in Nat \ {0}
    BY <1>0
  <2>2. c[1..i] = IF 1..i = {} THEN <<>>
                  ELSE Added(c[(1..i) \ {Max(1..i)}], l.chars[Max(1..i)])
    BY <1>7, <2>1
  <2>3. 1..i # {} /\ Max(1..i) = i /\ (1..i) \ {i} = 1..(i - 1)
    BY <2>1, Intervals
  <2> HIDE DEF Added
  <2> QED
    BY <2>2, <2>3
<1>9. c[1..0] = <<>>
  BY <1>7, Intervals
<1> DEFINE q == [i \in 0..N |-> c[1..i]]
<1>q. \A i \in 0..N : q[i] = c[1..i]
  OBVIOUS
<1> HIDE DEF q, V
<1>10. q[0] = <<>> /\ q[N] = Wanted(l)
  BY <1>0, <1>6, <1>9, <1>q
<1>11. ASSUME NEW i \in 1..N
       PROVE  q[i] = Added(q[i - 1], l.chars[i])
  <2>1. i \in 0..N /\ i - 1 \in 0..N
    BY <1>0
  <2>2. q[i] = c[1..i] /\ q[i - 1] = c[1..(i - 1)]
    BY <1>q, <2>1
  <2> QED
    BY <1>8, <2>2
<1>12. \A i \in 0..N : q[i] \in V
  <2> DEFINE T == {i \in 0..N : q[i] \in V}
  <2>1. 0 \in T
    BY <1>0, <1>10, <1>b
  <2>2. ASSUME NEW i \in 0..(N - 1), i \in T PROVE i + 1 \in T
    <3>1. i + 1 \in 1..N /\ (i + 1) - 1 = i /\ i + 1 \in 0..N
      BY <1>0
    <3>2. q[i] \in V /\ l.chars[i + 1] \in Char
      BY <1>0, <2>2, <3>1
    <3>3. q[i + 1] = Added(q[i], l.chars[i + 1])
      BY <1>11, <3>1
    <3> QED
      BY <1>a, <3>1, <3>2, <3>3
  <2> HIDE DEF T
  <2>3. 0..N \subseteq T
    BY <1>0, <2>1, <2>2, Along
  <2> QED
    BY <2>3 DEF T
<1> QED
  BY <1>10, <1>11, <1>12 DEF V

\* The categories, one after another.
LEMMA FillerSteps ==
  ASSUME NEW r \in Recipes, "*" \notin ToSet(r.autofill), NEW C, Categories(r) \in Seq(C)
  PROVE  \E q : /\ q[0] = <<>> /\ q[Len(Categories(r))] = PickFillers(r)
                /\ \A i \in 1..Len(Categories(r)) :
                     q[i] = Take(q[i - 1], Categories(r)[i])
                /\ \A i \in 0..Len(Categories(r)) : q[i] \in Seq(ToSet(Catalog))
<1> DEFINE N == Len(Categories(r))
           V == Seq(ToSet(Catalog))
           F == [p \in V \X (1..N) |-> Take(p[1], Categories(r)[p[2]])]
           It(g) == g = [t \in SUBSET (1..N) |->
                           IF t = {} THEN <<>>
                           ELSE Take(g[t \ {Max(t)}], Categories(r)[Max(t)])]
<1>0. N \in Nat /\ DOMAIN Categories(r) = 1..N /\ \A i \in 1..N : Categories(r)[i] \in C
  BY LenProperties
<1>a. ASSUME NEW w \in V, NEW e \in C PROVE Take(w, e) \in V
  <2>1. PICK q : /\ q[Len(Catalog)] = Take(w, e)
                 /\ \A i \in 0..Len(Catalog) : q[i] \in Seq(ToSet(Catalog))
    BY PickSteps, Zenon
  <2>2. Len(Catalog) \in 0..Len(Catalog)
    BY LayoutAssumption, LenProperties DEF IsSequence
  <2> QED
    BY <2>1, <2>2
<1>1. F \in [V \X (1..N) -> V]
  BY <1>0, <1>a
<1>b. <<>> \in V
  BY EmptySeq
<1>2. PICK g \in [SUBSET (1..N) -> V] : Folding(g, N, <<>>, F)
  <2> HIDE DEF F, V
  <2> QED
    BY <1>0, <1>1, <1>b, FoldExists
<1>3. It(g)
  <2>1. \A t \in SUBSET (1..N) : t # {} => Max(t) \in 1..N
    BY <1>0, MaxIs
  <2> HIDE DEF V
  <2>2. \A t \in SUBSET (1..N) :
          t # {} => F[<<g[t \ {Max(t)}], Max(t)>>] =
                      Take(g[t \ {Max(t)}], Categories(r)[Max(t)])
    BY <1>2, <2>1
  <2> QED
    BY <1>2, <2>2 DEF Folding
<1>4. It(CHOOSE h : It(h))
  <2> HIDE DEF It
  <2> QED
    BY <1>3
<1> DEFINE c == CHOOSE h : It(h)
<1>6. PickFillers(r) = c[1..N]
  BY <1>0 DEF PickFillers, FoldLeft, MapThenFoldSet
<1>7. \A t \in SUBSET (1..N) :
        c[t] = IF t = {} THEN <<>> ELSE Take(c[t \ {Max(t)}], Categories(r)[Max(t)])
  BY <1>4
<1> HIDE DEF c
<1>8. ASSUME NEW i \in 1..N
      PROVE  c[1..i] = Take(c[1..(i - 1)], Categories(r)[i])
  <2>1. 1..i \in SUBSET (1..N) /\ i \in Nat \ {0}
    BY <1>0
  <2> QED
    BY <1>7, <2>1, Intervals
<1>9. c[1..0] = <<>>
  BY <1>7, Intervals
<1> DEFINE q == [i \in 0..N |-> c[1..i]]
<1>q. \A i \in 0..N : q[i] = c[1..i]
  OBVIOUS
<1> HIDE DEF q, V
<1>10. q[0] = <<>> /\ q[N] = PickFillers(r)
  BY <1>0, <1>6, <1>9, <1>q
<1>11. ASSUME NEW i \in 1..N
       PROVE  q[i] = Take(q[i - 1], Categories(r)[i])
  <2>1. i \in 0..N /\ i - 1 \in 0..N
    BY <1>0
  <2>2. q[i] = c[1..i] /\ q[i - 1] = c[1..(i - 1)]
    BY <1>q, <2>1
  <2> QED
    BY <1>8, <2>2
<1>12. \A i \in 0..N : q[i] \in V
  <2> DEFINE T == {i \in 0..N : q[i] \in V}
  <2>1. 0 \in T
    BY <1>0, <1>10, <1>b
  <2>2. ASSUME NEW i \in 0..(N - 1), i \in T PROVE i + 1 \in T
    <3>1. i + 1 \in 1..N /\ (i + 1) - 1 = i /\ i + 1 \in 0..N
      BY <1>0
    <3>2. q[i] \in V /\ Categories(r)[i + 1] \in C
      BY <1>0, <2>2, <3>1
    <3>3. q[i + 1] = Take(q[i], Categories(r)[i + 1])
      BY <1>11, <3>1
    <3> QED
      BY <1>a, <3>1, <3>2, <3>3
  <2> HIDE DEF T
  <2>3. 0..N \subseteq T
    BY <1>0, <2>1, <2>2, Along
  <2> QED
    BY <2>3 DEF T
<1> QED
  BY <1>10, <1>11, <1>12 DEF V

\* What was asked for, one after another.
LEMMA CategorySteps ==
  ASSUME NEW r \in Recipes, NEW C, ToSet(r.autofill) \subseteq C, SmartCategories(r) \in Seq(C)
  PROVE  \E q : /\ q[0] = <<>> /\ q[Len(r.autofill)] = Categories(r)
                /\ \A i \in 1..Len(r.autofill) :
                     q[i] = q[i - 1] \o Expanded(r, r.autofill[i])
                /\ \A i \in 0..Len(r.autofill) : q[i] \in Seq(C)
<1> USE DEF Expanded
<1> DEFINE N == Len(r.autofill)
           V == Seq(C)
           F == [p \in V \X (1..N) |-> p[1] \o Expanded(r, r.autofill[p[2]])]
           It(g) == g = [t \in SUBSET (1..N) |->
                           IF t = {} THEN <<>>
                           ELSE g[t \ {Max(t)}] \o Expanded(r, r.autofill[Max(t)])]
<1>0. N \in Nat /\ DOMAIN r.autofill = 1..N /\ \A i \in 1..N : r.autofill[i] \in C
  BY RecipeIs, LenProperties
<1>a. ASSUME NEW w \in V, NEW e \in C PROVE w \o Expanded(r, e) \in V
  <2>1. <<>> \in Seq(C) /\ <<e>> \in Seq(C)
    OBVIOUS
  <2> QED
    BY <2>1, ConcatProperties
<1>1. F \in [V \X (1..N) -> V]
  BY <1>0, <1>a
<1>b. <<>> \in V
  BY EmptySeq
<1>2. PICK g \in [SUBSET (1..N) -> V] : Folding(g, N, <<>>, F)
  <2> HIDE DEF F, V
  <2> QED
    BY <1>0, <1>1, <1>b, FoldExists
<1>3. It(g)
  <2>1. \A t \in SUBSET (1..N) : t # {} => Max(t) \in 1..N
    BY <1>0, MaxIs
  <2> HIDE DEF V
  <2>2. \A t \in SUBSET (1..N) :
          t # {} => F[<<g[t \ {Max(t)}], Max(t)>>] =
                      g[t \ {Max(t)}] \o Expanded(r, r.autofill[Max(t)])
    BY <1>2, <2>1
  <2> QED
    BY <1>2, <2>2 DEF Folding
<1>4. It(CHOOSE h : It(h))
  <2> HIDE DEF It
  <2> QED
    BY <1>3
<1> DEFINE c == CHOOSE h : It(h)
<1>6. Categories(r) = c[1..N]
  BY <1>0 DEF Categories, FoldLeft, MapThenFoldSet
<1>7. \A t \in SUBSET (1..N) :
        c[t] = IF t = {} THEN <<>> ELSE c[t \ {Max(t)}] \o Expanded(r, r.autofill[Max(t)])
  BY <1>4
<1> HIDE DEF c
<1>8. ASSUME NEW i \in 1..N
      PROVE  c[1..i] = c[1..(i - 1)] \o Expanded(r, r.autofill[i])
  <2>1. 1..i \in SUBSET (1..N) /\ i \in Nat \ {0}
    BY <1>0
  <2> QED
    BY <1>7, <2>1, Intervals
<1>9. c[1..0] = <<>>
  BY <1>7, Intervals
<1> DEFINE q == [i \in 0..N |-> c[1..i]]
<1>q. \A i \in 0..N : q[i] = c[1..i]
  OBVIOUS
<1> HIDE DEF q, V
<1>10. q[0] = <<>> /\ q[N] = Categories(r)
  BY <1>0, <1>6, <1>9, <1>q
<1>11. ASSUME NEW i \in 1..N
       PROVE  q[i] = q[i - 1] \o Expanded(r, r.autofill[i])
  <2>1. i \in 0..N /\ i - 1 \in 0..N
    BY <1>0
  <2>2. q[i] = c[1..i] /\ q[i - 1] = c[1..(i - 1)]
    BY <1>q, <2>1
  <2> QED
    BY <1>8, <2>2
<1>12. \A i \in 0..N : q[i] \in V
  <2> DEFINE T == {i \in 0..N : q[i] \in V}
  <2>1. 0 \in T
    BY <1>0, <1>10, <1>b
  <2>2. ASSUME NEW i \in 0..(N - 1), i \in T PROVE i + 1 \in T
    <3>1. i + 1 \in 1..N /\ (i + 1) - 1 = i /\ i + 1 \in 0..N
      BY <1>0
    <3>2. q[i] \in V /\ r.autofill[i + 1] \in C
      BY <1>0, <2>2, <3>1
    <3>3. q[i + 1] = q[i] \o Expanded(r, r.autofill[i + 1])
      BY <1>11, <3>1
    <3> QED
      BY <1>a, <3>1, <3>2, <3>3
  <2> HIDE DEF T
  <2>3. 0..N \subseteq T
    BY <1>0, <2>1, <2>2, Along
  <2> QED
    BY <2>3 DEF T
<1> QED
  BY <1>10, <1>11, <1>12 DEF V
-----------------------------------------------------------------------------
(* The parts the stages take from a recipe.                                 *)

Named(r) == ToSet(r.autofill) \union {"typography", "currency", "math", "latin-extras"}

LEMMA CategoriesAre ==
  ASSUME NEW r \in Recipes
  PROVE  Categories(r) \in Seq(Named(r))
<1> DEFINE C == Named(r)
<1>1. SmartCategories(r) \in Seq(C)
  <2>1. /\ <<"typography", "currency", "math">> \in Seq(C) /\ <<"typography">> \in Seq(C)
        /\ <<>> \in Seq(C) /\ <<"latin-extras">> \in Seq(C)
    BY DEF Named
  <2> HIDE DEF C
  <2> QED
    BY <2>1, ConcatProperties DEF SmartCategories
<1>2. Categories(r) \in Seq(C)
  <2> ToSet(r.autofill) \subseteq C
    BY DEF Named
  <2> HIDE DEF C
  <2>1. PICK q : /\ q[Len(r.autofill)] = Categories(r)
                 /\ \A i \in 0..Len(r.autofill) : q[i] \in Seq(C)
    BY <1>1, CategorySteps
  <2>2. Len(r.autofill) \in 0..Len(r.autofill)
    BY RecipeIs, LenProperties
  <2> QED
    BY <2>1, <2>2
<1> QED
  BY <1>2

LEMMA FillersAre ==
  ASSUME NEW r \in Recipes
  PROVE  /\ PickFillers(r) \in Seq(ToSet(Catalog))
         /\ Len(PickFillers(r)) \in Nat
         /\ \A i \in 1..Len(PickFillers(r)) :
              PickFillers(r)[i] \in ToSet(Catalog) /\ IsModule(PickFillers(r)[i])
<1> DEFINE C == Named(r)
<1>0. Catalog \in Seq(ToSet(Catalog)) /\ \A f \in ToSet(Catalog) : IsModule(f)
  BY LayoutAssumption DEF IsSequence
<1>2. Categories(r) \in Seq(C)
  BY CategoriesAre
<1>3. PickFillers(r) \in Seq(ToSet(Catalog))
  <2>1. CASE "*" \in ToSet(r.autofill)
    BY <1>0, <2>1 DEF PickFillers
  <2>2. CASE "*" \notin ToSet(r.autofill)
    <3> HIDE DEF C
    <3>1. PICK q : /\ q[Len(Categories(r))] = PickFillers(r)
                   /\ \A i \in 0..Len(Categories(r)) : q[i] \in Seq(ToSet(Catalog))
      BY <1>2, <2>2, FillerSteps
    <3>2. Len(Categories(r)) \in 0..Len(Categories(r))
      BY <1>2, LenProperties
    <3> QED
      BY <3>1, <3>2
  <2> QED
    BY <2>1, <2>2
<1> QED
  BY <1>0, <1>3, LenProperties

LEMMA WantedIs ==
  ASSUME NEW l, IsLocale(l)
  PROVE  Wanted(l) \in Seq(Char)
<1>1. PICK q : /\ q[Len(l.chars)] = Wanted(l)
               /\ \A i \in 0..Len(l.chars) : q[i] \in Seq(Char)
  BY WantedSteps
<1>2. Len(l.chars) \in 0..Len(l.chars)
  BY LenProperties DEF IsLocale
<1> QED
  BY <1>1, <1>2

\* Sorting loses and invents nothing.
LEMMA SortedIs ==
  ASSUME NEW s \in Seq(Char)
  PROVE  SortByAnchor(s) \in Seq(Char) /\ ToSet(SortByAnchor(s)) = ToSet(s)
<1> DEFINE homed == {ch \in ToSet(s) : Home(ch) # {}}
           related == {ch \in ToSet(s) \ homed : Relatives(ch) # {}}
           rest == ToSet(s) \ (homed \union related)
<1>1. SortByAnchor(s) = Those(s, homed) \o Those(s, related) \o Those(s, rest)
  BY DEF SortByAnchor
<1>2. ToSet(s) = homed \union related \union rest
  OBVIOUS
<1> HIDE DEF homed, related, rest
<1>3. \A S : Those(s, S) \in Seq(Char) /\ ToSet(Those(s, S)) = ToSet(s) \intersect S
  BY ThoseIs
<1>4. /\ Those(s, homed) \o Those(s, related) \in Seq(Char)
      /\ ToSet(Those(s, homed) \o Those(s, related)) = ToSet(s) \intersect (homed \union related)
  BY <1>3, ConcatSet
<1> DEFINE u == Those(s, homed) \o Those(s, related)
<1>5. SortByAnchor(s) = u \o Those(s, rest)
  BY <1>1
<1> HIDE DEF u
<1>6. u \in Seq(Char) /\ ToSet(u) = ToSet(s) \intersect (homed \union related)
  BY <1>4 DEF u
<1> QED
  BY <1>2, <1>3, <1>5, <1>6, ConcatSet

\* A letter overlay comes from its addition.
LEMMA EntryIs ==
  ASSUME NEW r \in Recipes, NEW x \in AllEntries(r)
  PROVE  /\ x[1] \in 1..Len(r.additions) /\ r.additions[x[1]] \in ToSet(r.additions)
         /\ x[2] \in r.additions[x[1]].letters /\ x[2] \in LetterOverlays
         /\ r.additions[x[1]].slug \in STRING /\ x = <<x[1], x[2]>>
<1>1. PICK i \in DOMAIN r.additions : x \in {<<i, e>> : e \in r.additions[i].letters}
  BY DEF AllEntries
<1>2. PICK e \in r.additions[i].letters : x = <<i, e>>
  BY <1>1
<1>3. i \in 1..Len(r.additions) /\ r.additions[i] \in ToSet(r.additions) /\ IsModule(r.additions[i])
  BY RecipeIs
<1> QED
  BY <1>2, <1>3 DEF IsModule
-----------------------------------------------------------------------------
(* Types, and the credit of every level.                                    *)

\* What the module a source names could have written to key k.
Given(k) == [s \in Sources |-> Offers(k, s[1], s[2])]
Credits == \A k \in Key : Credited(out[k], Given(k))

Entries(f, m) == {<<m, e>> : e \in f.letters}

Steps ==
  /\ n # 0
  /\ phase = "letter" => todo \subseteq AllEntries(recipe)
  /\ phase = "autofill-letter" =>
       /\ n <= Len(PickFillers(recipe))
       /\ todo \subseteq Entries(PickFillers(recipe)[n], n)
  /\ phase = "place" =>
       n <= Len(recipe.locales) /\ ToSet(missing) \subseteq ToSet(Wanted(recipe.locales[n]))

LayoutInv == TypeOK /\ Steps /\ Credits

LEMMA PadOffered ==
  ASSUME NEW s \in Seq(Value), NEW by, NEW G, ToSet(s) \subseteq G[by]
  PROVE  Offered(Pad(s), by, G)
<1>1. DOMAIN s = 1..Len(s) /\ Len(s) \in Nat
  BY LenProperties
<1>2. \A i \in DOMAIN s : s[i] \in ToSet(s)
  BY DEF ToSet
<1> QED
  BY <1>1, <1>2, CellIs DEF Offered, Pad

\* Overlays of any module, written in any mode.
LEMMA Written ==
  ASSUME TypeOK, NEW overlays, IsKeys(overlays), NEW by \in Sources,
         NEW mode \in Modes \union {"autofill"}
  PROVE  LET W == WriteOverlays(overlays, by, mode) IN
         /\ W \in [Key -> Cell]
         /\ (Credits /\ \A k \in Key \intersect DOMAIN overlays :
                          ToSet(overlays[k]) \subseteq Given(k)[by]) =>
              \A k \in Key : Credited(W[k], Given(k))
<1>1. \A k \in Key : out[k] \in Cell
  BY DEF TypeOK
<1>2. \A k \in DOMAIN overlays : overlays[k] \in Seq(Value)
  BY DEF IsKeys
<1>3. ASSUME NEW k \in Key, k \in DOMAIN overlays
      PROVE  /\ Merge(out[k], overlays[k], by, mode) \in Cell
             /\ Credited(out[k], Given(k)) /\ ToSet(overlays[k]) \subseteq Given(k)[by] =>
                  Credited(Merge(out[k], overlays[k], by, mode), Given(k))
  BY <1>1, <1>2, <1>3, MergeIs, PadOffered
<1> DEFINE W == WriteOverlays(overlays, by, mode)
<1>4. W = [k \in Key |-> IF k \in DOMAIN overlays THEN Merge(out[k], overlays[k], by, mode)
                         ELSE out[k]]
  BY DEF WriteOverlays
<1> HIDE DEF W
<1>5. W \in [Key -> Cell]
  BY <1>1, <1>3, <1>4
<1>6. ASSUME Credits, \A k \in Key \intersect DOMAIN overlays :
                        ToSet(overlays[k]) \subseteq Given(k)[by],
             NEW k \in Key
      PROVE  Credited(W[k], Given(k))
  <2>1. CASE k \in DOMAIN overlays
    <3>1. W[k] = Merge(out[k], overlays[k], by, mode)
      BY <1>4, <2>1
    <3> QED
      BY <1>3, <1>6, <2>1, <3>1 DEF Credits
  <2>2. CASE k \notin DOMAIN overlays
    <3>1. W[k] = out[k]
      BY <1>4, <2>2
    <3> QED
      BY <1>6, <3>1 DEF Credits
  <2> QED
    BY <2>1, <2>2
<1> QED
  BY <1>5, <1>6 DEF W

\* A letter overlay of any module, written to some keys in any mode.
WriteLetter(targets, levels, by, mode) ==
  [k \in Key |-> IF k \in targets THEN Merge(out[k], levels, by, mode) ELSE out[k]]

LEMMA LetterWritten ==
  ASSUME TypeOK, NEW targets, NEW levels \in Seq(Value), NEW by \in Sources,
         NEW mode \in Modes \union {"autofill"}
  PROVE  LET W == WriteLetter(targets, levels, by, mode) IN
         /\ W \in [Key -> Cell]
         /\ (Credits /\ \A k \in Key : ToSet(levels) \subseteq Given(k)[by]) =>
              \A k \in Key : Credited(W[k], Given(k))
<1>1. \A k \in Key : out[k] \in Cell
  BY DEF TypeOK
<1>2. ASSUME NEW k \in Key
      PROVE  /\ Merge(out[k], levels, by, mode) \in Cell
             /\ Credited(out[k], Given(k)) /\ ToSet(levels) \subseteq Given(k)[by] =>
                  Credited(Merge(out[k], levels, by, mode), Given(k))
  BY <1>1, MergeIs, PadOffered
<1> QED
  BY <1>1, <1>2 DEF Credits, WriteLetter

\* What the modules of the recipe and of the catalog may be credited with.
LEMMA GivenIs ==
  ASSUME NEW k, recipe \in Recipes
  PROVE  /\ <<"transformation", recipe.transformation.slug>> \in Sources
         /\ k \in DOMAIN recipe.transformation.keys =>
              ToSet(recipe.transformation.keys[k]) \subseteq
                Given(k)[<<"transformation", recipe.transformation.slug>>]
         /\ \A m \in ToSet(recipe.additions) : m.slug \in STRING =>
              /\ <<"position", m.slug>> \in Sources /\ <<"letter", m.slug>> \in Sources
              /\ k \in DOMAIN m.overlays =>
                   ToSet(m.overlays[k]) \subseteq Given(k)[<<"position", m.slug>>]
              /\ \A e \in m.letters : ToSet(e.levels) \subseteq Given(k)[<<"letter", m.slug>>]
         /\ \A f \in ToSet(Catalog) : f.slug \in STRING =>
              /\ <<"autofill", f.slug>> \in Sources
              /\ k \in DOMAIN f.overlays =>
                   ToSet(f.overlays[k]) \subseteq Given(k)[<<"autofill", f.slug>>]
              /\ \A e \in f.letters : ToSet(e.levels) \subseteq Given(k)[<<"autofill", f.slug>>]
         /\ \A s \in ToSet(recipe.substitutions) : s.slug \in STRING =>
              /\ <<"substitution", s.slug>> \in Sources
              /\ Range(s.map) \subseteq Given(k)[<<"substitution", s.slug>>]
         /\ \A l \in ToSet(recipe.locales) : l.code \in STRING =>
              /\ <<"locale-fill", l.code>> \in Sources
              /\ \A ch \in ToSet(Wanted(l)) : Encode[ch] \in Given(k)[<<"locale-fill", l.code>>]
<1> DEFINE Piece(m, keyed) ==
             (UNION {ToSet(e.levels) : e \in m.letters}) \union
             (IF keyed /\ k \in DOMAIN m.overlays THEN ToSet(m.overlays[k]) ELSE {})
           Of(mods, keyed, by) ==
             UNION {Piece(m, keyed) : m \in {x \in ToSet(mods) : x.slug = by}}
           Source(st, by) == <<st, by>>
<1>1. \A st \in Stages : \A by \in STRING :
        Source(st, by) \in Sources /\ Given(k)[Source(st, by)] = Offers(k, st, by)
  BY DEF Sources, Given
<1>2. /\ "transformation" \in Stages /\ "position" \in Stages /\ "letter" \in Stages
      /\ "substitution" \in Stages /\ "autofill" \in Stages /\ "locale-fill" \in Stages
  BY DEF Stages
<1>3. ASSUME NEW mods, NEW m \in ToSet(mods), NEW keyed
      PROVE  /\ \A e \in m.letters : ToSet(e.levels) \subseteq Of(mods, keyed, m.slug)
             /\ keyed /\ k \in DOMAIN m.overlays =>
                  ToSet(m.overlays[k]) \subseteq Of(mods, keyed, m.slug)
  <2>1. /\ \A e \in m.letters : ToSet(e.levels) \subseteq Piece(m, keyed)
        /\ keyed /\ k \in DOMAIN m.overlays => ToSet(m.overlays[k]) \subseteq Piece(m, keyed)
    OBVIOUS
  <2>2. Piece(m, keyed) \subseteq Of(mods, keyed, m.slug)
    <3> HIDE DEF Piece
    <3> QED
      OBVIOUS
  <2> HIDE DEF Piece, Of
  <2> QED
    BY <2>1, <2>2
<1>4. \A by : /\ Offers(k, "position", by) = Of(recipe.additions, TRUE, by)
              /\ Offers(k, "letter", by) = Of(recipe.additions, FALSE, by)
              /\ Offers(k, "autofill", by) = Of(Catalog, TRUE, by)
  BY DEF Offers
<1>5. \A by : k \in DOMAIN recipe.transformation.keys =>
        Offers(k, "transformation", by) = ToSet(recipe.transformation.keys[k])
  BY DEF Offers
<1>6. \A by : Offers(k, "substitution", by) =
                UNION {Range(s.map) : s \in {x \in ToSet(recipe.substitutions) : x.slug = by}}
  BY DEF Offers
<1>7. \A by : Offers(k, "locale-fill", by) =
                UNION {{Encode[ch] : ch \in ToSet(Wanted(l))} :
                       l \in {x \in ToSet(recipe.locales) : x.code = by}}
  BY DEF Offers
<1> HIDE DEF Of, Source
<1>8. recipe.transformation.slug \in STRING
  BY RecipeIs
<1>9. ASSUME NEW m \in ToSet(recipe.additions), m.slug \in STRING
      PROVE  /\ Source("position", m.slug) \in Sources /\ Source("letter", m.slug) \in Sources
             /\ k \in DOMAIN m.overlays =>
                  ToSet(m.overlays[k]) \subseteq Given(k)[Source("position", m.slug)]
             /\ \A e \in m.letters :
                  ToSet(e.levels) \subseteq Given(k)[Source("letter", m.slug)]
  <2> DEFINE P == Source("position", m.slug)
             L == Source("letter", m.slug)
  <2>1. P \in Sources /\ Given(k)[P] = Of(recipe.additions, TRUE, m.slug)
    BY <1>1, <1>2, <1>4, <1>9
  <2>2. L \in Sources /\ Given(k)[L] = Of(recipe.additions, FALSE, m.slug)
    BY <1>1, <1>2, <1>4, <1>9
  <2> HIDE DEF P, L
  <2>3. k \in DOMAIN m.overlays => ToSet(m.overlays[k]) \subseteq Of(recipe.additions, TRUE, m.slug)
    BY <1>3
  <2>4. \A e \in m.letters : ToSet(e.levels) \subseteq Of(recipe.additions, FALSE, m.slug)
    BY <1>3
  <2> QED
    BY <2>1, <2>2, <2>3, <2>4 DEF P, L
<1>10. ASSUME NEW f \in ToSet(Catalog), f.slug \in STRING
       PROVE  /\ Source("autofill", f.slug) \in Sources
              /\ k \in DOMAIN f.overlays =>
                   ToSet(f.overlays[k]) \subseteq Given(k)[Source("autofill", f.slug)]
              /\ \A e \in f.letters :
                   ToSet(e.levels) \subseteq Given(k)[Source("autofill", f.slug)]
  <2> DEFINE P == Source("autofill", f.slug)
  <2>1. P \in Sources /\ Given(k)[P] = Of(Catalog, TRUE, f.slug)
    BY <1>1, <1>2, <1>4, <1>10
  <2> HIDE DEF P
  <2>2. /\ k \in DOMAIN f.overlays => ToSet(f.overlays[k]) \subseteq Of(Catalog, TRUE, f.slug)
        /\ \A e \in f.letters : ToSet(e.levels) \subseteq Of(Catalog, TRUE, f.slug)
    BY <1>3
  <2> QED
    BY <2>1, <2>2 DEF P
<1>11. ASSUME NEW s \in ToSet(recipe.substitutions), s.slug \in STRING
       PROVE  /\ Source("substitution", s.slug) \in Sources
              /\ Range(s.map) \subseteq Given(k)[Source("substitution", s.slug)]
  <2>1. Range(s.map) \subseteq Offers(k, "substitution", s.slug)
    BY <1>6
  <2> QED
    BY <1>1, <1>2, <1>11, <2>1
<1>12. ASSUME NEW l \in ToSet(recipe.locales), l.code \in STRING
       PROVE  /\ Source("locale-fill", l.code) \in Sources
              /\ \A ch \in ToSet(Wanted(l)) :
                   Encode[ch] \in Given(k)[Source("locale-fill", l.code)]
  <2>1. \A ch \in ToSet(Wanted(l)) : Encode[ch] \in Offers(k, "locale-fill", l.code)
    BY <1>7
  <2> QED
    BY <1>1, <1>2, <1>12, <2>1
<1>13. /\ Source("transformation", recipe.transformation.slug) \in Sources
       /\ k \in DOMAIN recipe.transformation.keys =>
            ToSet(recipe.transformation.keys[k]) \subseteq
              Given(k)[Source("transformation", recipe.transformation.slug)]
  <2> DEFINE P == Source("transformation", recipe.transformation.slug)
  <2>1. P \in Sources
        /\ Given(k)[P] = Offers(k, "transformation", recipe.transformation.slug)
    BY <1>1, <1>2, <1>8
  <2> HIDE DEF P
  <2>2. k \in DOMAIN recipe.transformation.keys =>
          Offers(k, "transformation", recipe.transformation.slug)
            = ToSet(recipe.transformation.keys[k])
    BY <1>5
  <2> QED
    BY <2>1, <2>2 DEF P
<1> QED
  BY <1>9, <1>10, <1>11, <1>12, <1>13, Zenon DEF Source

LEMMA RecipeStays ==
  ASSUME recipe' = recipe
  PROVE  Key' = Key /\ \A k : Given(k)' = Given(k)
BY DEF Key, Given, Offers

\* A step that leaves the recipe alone and writes credited cells.
LEMMA CreditsFollow ==
  ASSUME TypeOK, recipe' = recipe, out' \in [Key -> Cell],
         \A k \in Key : Credited(out'[k], Given(k))
  PROVE  out' \in [Key' -> Cell] /\ Credits'
BY RecipeStays DEF Credits

LEMMA HeadsType ==
  ASSUME TypeOK
  PROVE  Heads \in [Key -> Value]
<1>1. \A k \in Key : out[k].levels[1] \in Value
  BY CellIs DEF TypeOK
<1>2. \A v \in Value : v # Empty => LowerToken[v] \in Value
  BY LayoutAssumption DEF Value
<1> QED
  BY <1>1, <1>2, CellIs DEF Heads

LEMMA InitInv == Init => LayoutInv
<1> SUFFICES ASSUME Init PROVE LayoutInv
  OBVIOUS
<1>1. TypeOK
  <2>1. 0 \in 0..2 /\ 1 \in Nat /\ <<>> \in Seq(Char)
    BY EmptySeq
  <2>2. out \in [Key -> Cell] /\ heads \in [Key -> Value] /\ claimed \in [Key -> 0..2]
    BY <2>1, CellIs DEF Init
  <2>3. phase \in Phase
    BY DEF Init, Phase
  <2> QED
    BY <2>1, <2>2, <2>3 DEF Init, TypeOK
<1>2. Steps
  BY DEF Init, Steps
<1>3. Credits
  <2>1. \A G : Credited(Blank, G)
    BY DEF Credited, Blank
  <2> QED
    BY <2>1 DEF Credits, Init
<1> QED
  BY <1>1, <1>2, <1>3 DEF LayoutInv

LEMMA SeedInv == LayoutInv /\ Seed => LayoutInv'
<1> SUFFICES ASSUME LayoutInv, Seed PROVE LayoutInv'
  OBVIOUS
<1> DEFINE keys == recipe.transformation.keys
           by == <<"transformation", recipe.transformation.slug>>
<1>1. TypeOK /\ Steps /\ Credits /\ recipe \in Recipes
  BY DEF LayoutInv, TypeOK
<1>2. IsKeys(keys) /\ by \in Sources
      /\ \A k \in Key \intersect DOMAIN keys : ToSet(keys[k]) \subseteq Given(k)[by]
  BY <1>1, RecipeIs, GivenIs DEF IsKeys
<1>3. out' = WriteOverlays(keys, by, "force") /\ "force" \in Modes \union {"autofill"}
  BY DEF Seed, Modes
<1> HIDE DEF keys, by
<1>4. out' \in [Key -> Cell] /\ \A k \in Key : Credited(out'[k], Given(k))
  BY <1>1, <1>2, <1>3, Written
<1>5. recipe' = recipe
  BY DEF Seed
<1>6. out' \in [Key' -> Cell] /\ Credits' /\ Key' = Key
  BY <1>1, <1>4, <1>5, CreditsFollow, RecipeStays
<1>7. TypeOK'
  BY <1>1, <1>6 DEF Seed, TypeOK, Phase
<1>8. Steps'
  BY <1>1 DEF Seed, Steps
<1> QED
  BY <1>6, <1>7, <1>8 DEF LayoutInv

LEMMA PositionInv == LayoutInv /\ Position => LayoutInv'
<1> SUFFICES ASSUME LayoutInv, Position PROVE LayoutInv'
  OBVIOUS
<1> DEFINE a == recipe.additions[n]
           by == <<"position", a.slug>>
<1>1. TypeOK /\ Steps /\ Credits /\ recipe \in Recipes /\ n \in Nat /\ n # 0
  BY DEF LayoutInv, TypeOK, Steps
<1>2. a \in ToSet(recipe.additions) /\ IsModule(a) /\ a.mode \in Modes
  <2>1. n \in 1..Len(recipe.additions)
    BY <1>1, RecipeIs DEF Position
  <2> QED
    BY <1>1, <2>1, RecipeIs
<1>3. out' = WriteOverlays(a.overlays, by, a.mode)
  BY DEF Position
<1> HIDE DEF a
<1>4. IsKeys(a.overlays) /\ by \in Sources
      /\ \A k \in Key \intersect DOMAIN a.overlays : ToSet(a.overlays[k]) \subseteq Given(k)[by]
  BY <1>1, <1>2, GivenIs DEF IsModule
<1> HIDE DEF by
<1>5. out' \in [Key -> Cell] /\ \A k \in Key : Credited(out'[k], Given(k))
  <2>1. a.mode \in Modes \union {"autofill"}
    BY <1>2
  <2> QED
    BY <1>1, <1>3, <1>4, <2>1, Written
<1>6. recipe' = recipe
  BY DEF Position
<1>7. out' \in [Key' -> Cell] /\ Credits' /\ Key' = Key
  BY <1>1, <1>5, <1>6, CreditsFollow, RecipeStays
<1>8. UNCHANGED <<phase, heads, todo, claimed, missing>> /\ n' = n + 1 /\ phase = "position"
  BY DEF Position
<1>9. TypeOK'
  BY <1>1, <1>6, <1>7, <1>8 DEF TypeOK
<1>10. Steps'
  BY <1>1, <1>8 DEF Steps
<1> QED
  BY <1>7, <1>9, <1>10 DEF LayoutInv

LEMMA PutLetterInv ==
  ASSUME LayoutInv, NEW entry \in todo, PutLetter(entry)
  PROVE  LayoutInv'
<1> DEFINE e == entry[2]
           a == recipe.additions[entry[1]]
           by == <<"letter", a.slug>>
           targets == {k \in KeysFor(e) : e.rank >= claimed[k]}
<1>1. TypeOK /\ Steps /\ Credits /\ recipe \in Recipes /\ phase = "letter"
  BY DEF LayoutInv, TypeOK, PutLetter
<1>2. /\ a \in ToSet(recipe.additions) /\ e \in a.letters /\ a.slug \in STRING
      /\ e \in LetterOverlays
  BY <1>1, EntryIs DEF Steps
<1>3. /\ out' = WriteLetter(targets, e.levels, by, e.mode)
      /\ claimed' = [k \in Key |-> IF k \in targets THEN Max({e.rank, claimed[k]}) ELSE claimed[k]]
      /\ todo' = todo \ {entry}
      /\ UNCHANGED <<recipe, phase, n, heads, missing>>
  BY DEF PutLetter, WriteLetter
<1> HIDE DEF e, a, targets
<1>4. /\ e.levels \in Seq(Value) /\ e.mode \in Modes \union {"autofill"} /\ e.rank \in 0..2
  BY <1>2 DEF LetterOverlays
<1>5. by \in Sources /\ \A k \in Key : ToSet(e.levels) \subseteq Given(k)[by]
  BY <1>1, <1>2, GivenIs
<1> HIDE DEF by
<1>6. out' \in [Key -> Cell] /\ \A k \in Key : Credited(out'[k], Given(k))
  BY <1>1, <1>3, <1>4, <1>5, LetterWritten, Zenon
<1>7. out' \in [Key' -> Cell] /\ Credits' /\ Key' = Key
  BY <1>1, <1>3, <1>6, CreditsFollow, RecipeStays
<1>8. claimed' \in [Key -> 0..2]
  <2>1. \A i, j \in 0..2 : Max({i, j}) \in 0..2
    <3> SUFFICES ASSUME NEW i \in 0..2, NEW j \in 0..2 PROVE Max({i, j}) \in 0..2
      OBVIOUS
    <3>1. \E x \in {i, j} : \A y \in {i, j} : x >= y
      OBVIOUS
    <3>2. Max({i, j}) \in {i, j}
      BY <3>1 DEF Max
    <3> QED
      BY <3>2
  <2>2. \A k \in Key : claimed[k] \in 0..2
    BY <1>1 DEF TypeOK
  <2> QED
    BY <1>3, <1>4, <2>1, <2>2
<1>9. TypeOK'
  BY <1>1, <1>3, <1>7, <1>8 DEF TypeOK
<1>10. Steps'
  BY <1>1, <1>3 DEF Steps
<1> QED
  BY <1>7, <1>9, <1>10 DEF LayoutInv

\* Replacements: a level is credited with what replaced it last.
LEMMA ReplaceIs ==
  ASSUME NEW cell \in Cell, NEW map, Range(map) \subseteq Token, NEW by \in Sources
  PROVE  LET d == Replace(cell, map, by) IN
         /\ d \in Cell
         /\ \A G : Credited(cell, G) /\ Range(map) \subseteq G[by] => Credited(d, G)
<1> DEFINE H == {i \in 1..Depth : Replaces(map, cell.levels[i])}
           x == [i \in 1..Depth |-> IF i \in H THEN map[cell.levels[i]] ELSE cell.levels[i]]
           y == [i \in 1..Depth |-> IF i \in H THEN by ELSE cell.from[i]]
<1>1. cell.levels \in [1..Depth -> Value] /\ cell.from \in [1..Depth -> Sources]
  BY CellIs
<1>2. \A i \in H : map[cell.levels[i]] \in Range(map)
  BY DEF Replaces, Range
<1>3. \A v \in Range(map) : v \in Value /\ v # Empty
  BY LayoutAssumption DEF Value
<1>4. Replace(cell, map, by) = [levels |-> x, from |-> y]
  BY DEF Replace
<1>5. H \subseteq 1..Depth
  OBVIOUS
<1> HIDE DEF H
<1>6. /\ x \in [1..Depth -> Value] /\ y \in [1..Depth -> Sources]
      /\ \A i \in H : x[i] \in Range(map) /\ y[i] = by
      /\ \A i \in (1..Depth) \ H : x[i] = cell.levels[i] /\ y[i] = cell.from[i]
  BY <1>1, <1>2, <1>3, <1>5
<1> HIDE DEF x, y
<1>7. [levels |-> x, from |-> y] \in Cell
  BY <1>6, CellIs
<1>8. ASSUME NEW G, Credited(cell, G), Range(map) \subseteq G[by], NEW i \in 1..Depth,
             y[i] # Unknown
      PROVE  x[i] \in G[y[i]] /\ x[i] # Empty
  <2>1. CASE i \in H
    BY <1>3, <1>6, <1>8, <2>1
  <2>2. CASE i \notin H
    BY <1>6, <1>8, <2>2 DEF Credited
  <2> QED
    BY <2>1, <2>2
<1>9. \A G : Credited(cell, G) /\ Range(map) \subseteq G[by] =>
              Credited([levels |-> x, from |-> y], G)
  BY <1>8 DEF Credited
<1> QED
  BY <1>4, <1>7, <1>9

LEMMA SubstituteInv == LayoutInv /\ Substitute => LayoutInv'
<1> SUFFICES ASSUME LayoutInv, Substitute PROVE LayoutInv'
  OBVIOUS
<1> DEFINE s == recipe.substitutions[n]
           by == <<"substitution", s.slug>>
<1>1. TypeOK /\ Steps /\ Credits /\ recipe \in Recipes /\ n \in Nat /\ n # 0
  BY DEF LayoutInv, TypeOK, Steps
<1>2. s \in ToSet(recipe.substitutions) /\ s.slug \in STRING /\ Range(s.map) \subseteq Token
  <2>1. n \in 1..Len(recipe.substitutions)
    BY <1>1, RecipeIs DEF Substitute
  <2> QED
    BY <1>1, <2>1, RecipeIs
<1>3. out' = [k \in Key |-> Replace(out[k], s.map, by)]
  BY DEF Substitute
<1>4. recipe' = recipe
  BY DEF Substitute
<1> HIDE DEF s
<1>5. by \in Sources /\ \A k \in Key : Range(s.map) \subseteq Given(k)[by]
  BY <1>1, <1>2, GivenIs
<1> HIDE DEF by
<1>6. ASSUME NEW k \in Key
      PROVE  Replace(out[k], s.map, by) \in Cell
             /\ Credited(Replace(out[k], s.map, by), Given(k))
  <2>1. out[k] \in Cell /\ Credited(out[k], Given(k))
    BY <1>1 DEF TypeOK, Credits
  <2> QED
    BY <1>2, <1>5, <2>1, ReplaceIs
<1>7. out' \in [Key -> Cell] /\ \A k \in Key : Credited(out'[k], Given(k))
  BY <1>3, <1>6
<1>8. out' \in [Key' -> Cell] /\ Credits' /\ Key' = Key
  BY <1>1, <1>4, <1>7, CreditsFollow, RecipeStays
<1>a. UNCHANGED <<recipe, phase, heads, claimed, missing>> /\ n' = n + 1
      /\ phase = "substitution"
  BY DEF Substitute
<1>9. TypeOK'
  BY <1>1, <1>8, <1>a DEF TypeOK
<1>10. Steps'
  BY <1>1, <1>a DEF Steps
<1> QED
  BY <1>8, <1>9, <1>10 DEF LayoutInv

\* Steps that leave the table alone.
LEMMA TableStays ==
  ASSUME LayoutInv, UNCHANGED <<recipe, out>>
  PROVE  out' \in [Key' -> Cell] /\ Credits' /\ Key' = Key
BY RecipeStays DEF LayoutInv, TypeOK, Credits

LEMMA BeginLettersInv == LayoutInv /\ BeginLetters => LayoutInv'
<1> SUFFICES ASSUME LayoutInv, BeginLetters PROVE LayoutInv'
  OBVIOUS
<1>1. TypeOK /\ Steps /\ out' \in [Key' -> Cell] /\ Credits' /\ Key' = Key
  BY TableStays DEF BeginLetters, LayoutInv
<1>2. heads' \in [Key -> Value] /\ todo' = AllEntries(recipe) /\ phase' = "letter"
      /\ UNCHANGED <<recipe, n, out, claimed, missing>>
  BY <1>1, HeadsType DEF BeginLetters
<1>3. TypeOK'
  BY <1>1, <1>2 DEF TypeOK, Phase
<1>4. Steps'
  BY <1>1, <1>2 DEF Steps
<1> QED
  BY <1>1, <1>3, <1>4 DEF LayoutInv

\* The steps between stages.
LEMMA BetweenInv ==
  ASSUME LayoutInv,
         EndLetters \/ EndSubstitutions \/ EndFiller \/ EndFill \/ EndLocale \/ Return
  PROVE  LayoutInv'
<1>1. TypeOK /\ Steps
  BY DEF LayoutInv
<1>2. /\ UNCHANGED <<recipe, out, heads, todo, claimed, missing>>
      /\ n' = 1 \/ n' = n + 1 \/ n' = n
      /\ phase' \in {"substitution", "autofill", "locales", "done"}
  BY DEF EndLetters, EndSubstitutions, EndFiller, EndFill, EndLocale, Return
<1>3. out' \in [Key' -> Cell] /\ Credits' /\ Key' = Key
  BY <1>2, TableStays
<1>4. n' \in Nat /\ n' # 0
  <2>1. n \in Nat /\ n # 0
    BY <1>1, Zenon DEF TypeOK, Steps
  <2> QED
    BY <1>2, <2>1
<1>5. TypeOK'
  BY <1>1, <1>2, <1>3, <1>4 DEF TypeOK, Phase
<1>6. Steps'
  BY <1>2, <1>4 DEF Steps
<1> QED
  BY <1>3, <1>5, <1>6 DEF LayoutInv

LEMMA FillInv == LayoutInv /\ Fill => LayoutInv'
<1> SUFFICES ASSUME LayoutInv, Fill PROVE LayoutInv'
  OBVIOUS
<1> DEFINE f == PickFillers(recipe)[n]
           by == <<"autofill", f.slug>>
<1>1. TypeOK /\ Steps /\ Credits /\ recipe \in Recipes /\ n \in Nat /\ n # 0
  BY DEF LayoutInv, TypeOK, Steps
<1>2. n <= Len(PickFillers(recipe)) /\ f \in ToSet(Catalog) /\ IsModule(f)
  <2>1. n <= Len(PickFillers(recipe))
    BY DEF Fill
  <2>2. n \in 1..Len(PickFillers(recipe))
    BY <1>1, <2>1, FillersAre
  <2> QED
    BY <1>1, <2>1, <2>2, FillersAre
<1>3. /\ out' = WriteOverlays(f.overlays, by, "autofill")
      /\ todo' = Entries(f, n)
      /\ heads' = (IF n = 1 THEN Heads ELSE heads)
      /\ phase' = "autofill-letter"
      /\ UNCHANGED <<recipe, n, claimed, missing>>
  BY DEF Fill, Entries
<1>3a. todo' = Entries(PickFillers(recipe)[n], n)
  BY <1>3
<1> HIDE DEF f
<1>4. IsKeys(f.overlays) /\ by \in Sources
      /\ \A k \in Key \intersect DOMAIN f.overlays : ToSet(f.overlays[k]) \subseteq Given(k)[by]
  BY <1>1, <1>2, GivenIs DEF IsModule
<1> HIDE DEF by
<1>5. out' \in [Key -> Cell] /\ \A k \in Key : Credited(out'[k], Given(k))
  <2>1. "autofill" \in Modes \union {"autofill"}
    OBVIOUS
  <2> QED
    BY <1>1, <1>3, <1>4, <2>1, Written
<1>6. out' \in [Key' -> Cell] /\ Credits' /\ Key' = Key
  BY <1>1, <1>3, <1>5, CreditsFollow, RecipeStays
<1>7. heads' \in [Key -> Value]
  BY <1>1, <1>3, HeadsType DEF TypeOK
<1>8. TypeOK'
  <2>1. /\ phase' = "autofill-letter" /\ UNCHANGED <<recipe, n, claimed, missing>>
    BY <1>3
  <2> QED
    BY <1>1, <1>6, <1>7, <2>1 DEF TypeOK, Phase
<1>9. Steps'
  <2>1. PickFillers(recipe)' = PickFillers(recipe)
    BY <1>3
  <2>2. n' = n /\ phase' = "autofill-letter"
    BY <1>3
  <2> QED
    BY <1>1, <1>2, <1>3a, <2>1, <2>2 DEF Steps
<1> QED
  BY <1>6, <1>8, <1>9 DEF LayoutInv

LEMMA FillLetterInv ==
  ASSUME LayoutInv, NEW entry \in todo, FillLetter(entry)
  PROVE  LayoutInv'
<1> DEFINE e == entry[2]
           f == PickFillers(recipe)[n]
           by == <<"autofill", f.slug>>
           targets == KeysFor(e)
<1>0. phase = "autofill-letter"
  BY DEF FillLetter
<1>1. TypeOK /\ Steps /\ Credits /\ recipe \in Recipes /\ n \in Nat /\ n # 0
  BY DEF LayoutInv, TypeOK, Steps
<1>2. f \in ToSet(Catalog) /\ IsModule(f) /\ e \in f.letters /\ e \in LetterOverlays
  <2>0. n <= Len(PickFillers(recipe))
    BY <1>0, <1>1, Zenon DEF Steps
  <2>1. n \in 1..Len(PickFillers(recipe))
    BY <1>1, <2>0, FillersAre
  <2>2. f \in ToSet(Catalog) /\ IsModule(f)
    BY <1>1, <2>1, FillersAre
  <2>3. e \in f.letters
    <3>1. entry \in Entries(f, n)
      BY <1>0, <1>1, Zenon DEF Steps
    <3> QED
      BY <3>1 DEF Entries
  <2> QED
    BY <2>2, <2>3 DEF IsModule
<1>3. /\ out' = WriteLetter(targets, e.levels, by, "autofill")
      /\ todo' = todo \ {entry}
      /\ UNCHANGED <<recipe, phase, n, heads, claimed, missing>>
  BY DEF FillLetter, WriteLetter
<1> HIDE DEF e, f, targets
<1>4. e.levels \in Seq(Value) /\ "autofill" \in Modes \union {"autofill"}
  BY <1>2 DEF LetterOverlays
<1>5. by \in Sources /\ \A k \in Key : ToSet(e.levels) \subseteq Given(k)[by]
  BY <1>1, <1>2, GivenIs DEF IsModule
<1> HIDE DEF by
<1>6. out' \in [Key -> Cell] /\ \A k \in Key : Credited(out'[k], Given(k))
  BY <1>1, <1>3, <1>4, <1>5, LetterWritten, Zenon
<1>7. out' \in [Key' -> Cell] /\ Credits' /\ Key' = Key
  BY <1>1, <1>3, <1>6, CreditsFollow, RecipeStays
<1>8. TypeOK'
  BY <1>1, <1>3, <1>7 DEF TypeOK
<1>9. Steps'
  <2>1. PickFillers(recipe)' = PickFillers(recipe)
    BY <1>3
  <2> QED
    BY <1>0, <1>1, <1>3, <2>1, Zenon DEF Steps
<1> QED
  BY <1>7, <1>8, <1>9 DEF LayoutInv

LEMMA BeginLocaleInv == LayoutInv /\ BeginLocale => LayoutInv'
<1> SUFFICES ASSUME LayoutInv, BeginLocale PROVE LayoutInv'
  OBVIOUS
<1> DEFINE l == recipe.locales[n]
           s == Those(Wanted(l), Char \ Produced)
<1>1. TypeOK /\ Steps /\ recipe \in Recipes /\ n \in Nat /\ n # 0
      /\ out' \in [Key' -> Cell] /\ Credits' /\ Key' = Key
  BY TableStays DEF LayoutInv, TypeOK, Steps, BeginLocale
<1>2. n \in 1..Len(recipe.locales)
  BY <1>1, RecipeIs DEF BeginLocale
<1>3. IsLocale(l)
  BY <1>1, <1>2, RecipeIs
<1>4. /\ missing' = SortByAnchor(s) /\ phase' = "place"
      /\ UNCHANGED <<recipe, n, out, heads, todo, claimed>>
  BY DEF BeginLocale
<1>5. s \in Seq(Char) /\ ToSet(s) \subseteq ToSet(Wanted(l))
  <2>1. Wanted(l) \in Seq(Char)
    BY <1>3, WantedIs
  <2> HIDE DEF l
  <2> QED
    BY <2>1, ThoseIs
<1> HIDE DEF s
<1>6. missing' \in Seq(Char) /\ ToSet(missing') \subseteq ToSet(Wanted(l))
  BY <1>4, <1>5, SortedIs
<1>7. TypeOK'
  BY <1>1, <1>4, <1>6 DEF TypeOK, Phase
<1>8. Steps'
  <2>1. Wanted(recipe.locales[n])' = Wanted(recipe.locales[n])
    BY <1>4
  <2> HIDE DEF l
  <2>2. ToSet(missing)' \subseteq ToSet(Wanted(recipe.locales[n]))'
    BY <1>6, <2>1 DEF l
  <2>3. n' <= Len(recipe.locales)' /\ n' # 0 /\ phase' = "place"
    BY <1>1, <1>2, <1>4, RecipeIs
  <2> QED
    BY <2>2, <2>3 DEF Steps
<1> QED
  BY <1>1, <1>7, <1>8 DEF LayoutInv

\* Every key that has room below Cap is some distance from the character, and
\* the place is one of the nearest of them.
LEMMA PlaceIs ==
  ASSUME recipe \in Recipes, NEW ch
  PROVE  /\ \A k \in PlaceFor(ch) : k \in Key /\ Free(k) # {}
         /\ (\E k \in Key : Free(k) # {}) => PlaceFor(ch) # {}
<1> DEFINE phys == recipe.physical
           open == {i \in DOMAIN phys : Free(phys[i]) # {}}
           D(i) == Distance(phys[i], ch)
           near == {i \in open : \A j \in open : D(i) <= D(j)}
<1>1. DOMAIN phys = 1..Len(phys) /\ Len(phys) \in Nat /\ Key = Range(phys)
      /\ Key = {phys[i] : i \in DOMAIN phys}
  BY RecipeIs, LenProperties DEF Key, ToSet, Range
<1>2. PlaceFor(ch) = IF open = {} THEN {} ELSE {phys[Min(near)]}
  BY DEF PlaceFor
<1>3. \A i : D(i) \in Nat
  BY DEF Distance
<1>4. ASSUME open # {} PROVE Min(near) \in open
  <2> DEFINE S == {D(i) : i \in open}
  <2>1. S \in SUBSET Nat /\ S # {}
    BY <1>3, <1>4
  <2>2. Min(S) \in S /\ \A m \in S : Min(S) <= m
    BY <2>1, MinIs
  <2>3. near \in SUBSET Nat /\ near # {}
    <3> HIDE DEF D
    <3>1. PICK i \in open : Min(S) = D(i)
      BY <2>2
    <3>2. i \in near
      BY <2>2, <3>1
    <3>3. near \subseteq open /\ open \subseteq DOMAIN phys
      OBVIOUS
    <3> HIDE DEF near, open
    <3> QED
      BY <1>1, <3>2, <3>3
  <2>4. Min(near) \in near
    <3> HIDE DEF near
    <3> QED
      BY <2>3, MinIs
  <2> QED
    BY <2>4
<1>5. (\E k \in Key : Free(k) # {}) => open # {}
  BY <1>1
<1>6. open # {} => PlaceFor(ch) = {phys[Min(near)]}
  BY <1>2
<1>7. open = {} => PlaceFor(ch) = {}
  BY <1>2
<1>8. \A i \in open : phys[i] \in Key /\ Free(phys[i]) # {}
  BY <1>1
<1> HIDE DEF open, near, phys
<1> QED
  BY <1>4, <1>5, <1>6, <1>7, <1>8

\* A character is put on a level that was empty, above the first.
LEMMA RoomIs ==
  ASSUME NEW k, Free(k) # {}
  PROVE  /\ Max(Free(k)) \in 2..Cap /\ Max(Free(k)) \in 1..Depth
         /\ out[k].levels[Max(Free(k))] = Empty
<1>1. Free(k) \in SUBSET (1..4)
  BY CellIs DEF Free
<1>2. Max(Free(k)) \in Free(k)
  BY <1>1, MaxIs
<1> QED
  BY <1>2, CellIs DEF Free

LEMMA PlaceNextInv == LayoutInv /\ PlaceNext => LayoutInv'
<1> SUFFICES ASSUME LayoutInv, PlaceNext PROVE LayoutInv'
  OBVIOUS
<1> DEFINE l == recipe.locales[n]
           ch == Head(missing)
           by == <<"locale-fill", l.code>>
           m(k) == Max(Free(k))
           To == {k \in Key : ch \notin Produced /\ k \in PlaceFor(ch)}
           L(k) == [out[k].levels EXCEPT ![m(k)] = Encode[ch]]
           S(k) == [out[k].from EXCEPT ![m(k)] = by]
           C(k) == [levels |-> L(k), from |-> S(k)]
<1>1. TypeOK /\ Steps /\ Credits /\ recipe \in Recipes /\ n \in Nat /\ n # 0
      /\ missing \in Seq(Char)
  BY DEF LayoutInv, TypeOK, Steps
<1>2. phase = "place" /\ missing # <<>>
      /\ n <= Len(recipe.locales) /\ ToSet(missing) \subseteq ToSet(Wanted(l))
  BY <1>1 DEF PlaceNext, Steps
<1>3. IsLocale(l) /\ l \in ToSet(recipe.locales)
  <2>1. n \in 1..Len(recipe.locales)
    BY <1>1, <1>2, RecipeIs
  <2> QED
    BY <1>1, <2>1, RecipeIs
<1>4. /\ ch \in Char /\ ch \in ToSet(missing)
      /\ Tail(missing) \in Seq(Char) /\ ToSet(Tail(missing)) \subseteq ToSet(missing)
  <2>1. Len(missing) \in Nat /\ DOMAIN missing = 1..Len(missing) /\ Len(missing) # 0
        /\ ch = missing[1]
    BY <1>1, <1>2, LenProperties, EmptySeq, HeadTailProperties
  <2>2. /\ Tail(missing) \in Seq(Char) /\ Len(Tail(missing)) = Len(missing) - 1
        /\ \A i \in 1..Len(Tail(missing)) : Tail(missing)[i] = missing[i + 1]
    BY <1>1, <1>2, HeadTailProperties
  <2>3. DOMAIN Tail(missing) = 1..Len(Tail(missing))
    BY <2>2, LenProperties
  <2>4. \A i \in DOMAIN Tail(missing) : Tail(missing)[i] \in ToSet(missing)
    BY <2>1, <2>2, <2>3 DEF ToSet
  <2>5. ch \in ToSet(missing)
    BY <2>1 DEF ToSet
  <2>6. ToSet(missing) \subseteq Char
    BY <1>1, <2>1 DEF ToSet
  <2> QED
    BY <2>2, <2>4, <2>5, <2>6 DEF ToSet
<1>5. by \in Sources /\ \A k \in Key : Encode[ch] \in Given(k)[by]
  BY <1>1, <1>2, <1>3, <1>4, GivenIs DEF IsLocale
<1>6. Encode[ch] \in Value /\ Encode[ch] # Empty
  BY <1>4, LayoutAssumption DEF Value
<1>7. /\ out' = [k \in Key |-> IF k \in To THEN C(k) ELSE out[k]]
      /\ missing' = Tail(missing)
      /\ UNCHANGED <<recipe, phase, n, heads, todo, claimed>>
  BY DEF PlaceNext
<1>8. \A k \in Key : out[k] \in Cell
  BY <1>1 DEF TypeOK
<1>10. ASSUME NEW k \in To PROVE C(k) \in Cell /\ Credited(C(k), Given(k))
  <2>1. m(k) \in 1..Depth
    BY <1>1, PlaceIs, RoomIs
  <2>2. out[k].levels \in [1..Depth -> Value] /\ out[k].from \in [1..Depth -> Sources]
    BY <1>8, CellIs
  <2> DEFINE x == L(k)
             y == S(k)
  <2> HIDE DEF m, ch, by
  <2>3. x \in [1..Depth -> Value] /\ y \in [1..Depth -> Sources]
    BY <1>5, <1>6, <2>2
  <2>4. \A i \in 1..Depth : /\ i = m(k) => x[i] = Encode[ch] /\ y[i] = by
                            /\ i # m(k) => x[i] = out[k].levels[i] /\ y[i] = out[k].from[i]
    BY <2>1, <2>2
  <2> HIDE DEF x, y
  <2>5. [levels |-> x, from |-> y] \in Cell
    BY <2>3, CellIs
  <2>6. Credited(out[k], Given(k))
    BY <1>1 DEF Credits
  <2>7. ASSUME NEW i \in 1..Depth, y[i] # Unknown
        PROVE  x[i] \in Given(k)[y[i]] /\ x[i] # Empty
    <3>1. CASE i = m(k)
      BY <1>5, <1>6, <2>4, <3>1
    <3>2. CASE i # m(k)
      BY <2>4, <2>6, <2>7, <3>2 DEF Credited
    <3> QED
      BY <3>1, <3>2
  <2>8. Credited([levels |-> x, from |-> y], Given(k))
    BY <2>7 DEF Credited
  <2> QED
    BY <2>5, <2>8 DEF x, y
<1>12. out' \in [Key -> Cell] /\ \A k \in Key : Credited(out'[k], Given(k))
  <2> HIDE DEF C, To
  <2>1. \A k \in Key : Credited(out[k], Given(k))
    BY <1>1 DEF Credits
  <2> QED
    BY <1>7, <1>8, <1>10, <2>1
<1>13. out' \in [Key' -> Cell] /\ Credits' /\ Key' = Key
  BY <1>1, <1>7, <1>12, CreditsFollow, RecipeStays
<1>14. missing' \in Seq(Char) /\ ToSet(missing') \subseteq ToSet(Wanted(l))
  BY <1>2, <1>4, <1>7
<1>15. UNCHANGED <<recipe, phase, n, heads, claimed>> /\ phase = "place"
  BY <1>2, <1>7
<1>16. TypeOK'
  BY <1>1, <1>13, <1>14, <1>15 DEF TypeOK
<1>17. Steps'
  <2>1. Wanted(recipe.locales[n])' = Wanted(recipe.locales[n])
    BY <1>15
  <2>2. ToSet(missing)' \subseteq ToSet(Wanted(recipe.locales[n]))'
    BY <1>14, <2>1
  <2>3. n' <= Len(recipe.locales)' /\ n' # 0 /\ phase' = "place"
    BY <1>1, <1>2, <1>15
  <2> HIDE DEF l, ch
  <2> QED
    BY <2>2, <2>3 DEF Steps
<1> QED
  BY <1>13, <1>16, <1>17 DEF LayoutInv

LEMMA NextInv == LayoutInv /\ [Next]_vars => LayoutInv'
<1> SUFFICES ASSUME LayoutInv, [Next]_vars PROVE LayoutInv'
  OBVIOUS
<1>1. ASSUME UNCHANGED vars PROVE LayoutInv'
  <2>1. TypeOK /\ Steps /\ UNCHANGED <<recipe, phase, n, out, heads, todo, claimed, missing>>
    BY <1>1 DEF LayoutInv, vars
  <2>2. out' \in [Key' -> Cell] /\ Credits' /\ Key' = Key
    BY <2>1, TableStays
  <2>3. TypeOK'
    BY <2>1, <2>2 DEF TypeOK
  <2>4. Steps'
    <3>1. /\ AllEntries(recipe)' = AllEntries(recipe)
          /\ PickFillers(recipe)' = PickFillers(recipe)
          /\ Wanted(recipe.locales[n])' = Wanted(recipe.locales[n])
      BY <2>1
    <3> QED
      BY <2>1, <3>1, Zenon DEF Steps
  <2> QED
    BY <2>2, <2>3, <2>4 DEF LayoutInv
<1>2. CASE EndLetters \/ EndSubstitutions \/ EndFiller \/ EndFill \/ EndLocale \/ Return
  BY <1>2, BetweenInv
<1> QED
  BY <1>1, <1>2, SeedInv, PositionInv, BeginLettersInv, SubstituteInv, FillInv,
     BeginLocaleInv, PlaceNextInv, PutLetterInv, FillLetterInv DEF Next

LEMMA LayoutInvHolds == Spec => []LayoutInv
BY InitInv, NextInv, PTL DEF Spec

\* Every stage leaves a table over the keys of the physical layout, whose levels
\* are empty or symbol names and whose sources name a stage and a module.
THEOREM LayoutTypes == Spec => []TypeOK
<1>1. LayoutInv => TypeOK
  BY DEF LayoutInv
<1> QED
  BY <1>1, LayoutInvHolds, PTL

\* The source of a level (Result.Sources, what the inspector shows) is a module
\* that says the symbol on it for that key, through every force, nudge, claim,
\* replacement and fill.
THEOREM CreditIsDue == Spec => []SourcesAreTrue
<1>1. LayoutInv => SourcesAreTrue
  <2> SUFFICES ASSUME LayoutInv, NEW k \in Key, NEW i \in 1..Depth, out[k].from[i] # Unknown
               PROVE  out[k].levels[i] \in
                        Offers(k, out[k].from[i][1], out[k].from[i][2]) \ {Empty}
    BY DEF SourcesAreTrue
  <2>1. out[k].from[i] \in Sources
    BY CellIs DEF LayoutInv, TypeOK
  <2>2. out[k].levels[i] \in Given(k)[out[k].from[i]] /\ out[k].levels[i] # Empty
    BY DEF LayoutInv, Credits, Credited
  <2> QED
    BY <2>1, <2>2 DEF Given
<1> QED
  BY <1>1, LayoutInvHolds, PTL

(***************************************************************************)
(* What a step may not do.                                                 *)

LEMMA FillKeeps ==
  ASSUME NEW cell \in Cell, NEW levels, NEW by, NEW i \in 1..Depth, cell.levels[i] # Empty
  PROVE  LET d == Merge(cell, levels, by, "autofill") IN
         d.levels[i] = cell.levels[i] /\ d.from[i] = cell.from[i]
<1>1. Merge(cell, levels, by, "autofill") = FillEmpty(cell, Pad(levels), by)
  BY DEF Merge
<1> DEFINE overlay == Pad(levels)
           free == {j \in 1..Depth : cell.levels[j] = Empty /\ overlay[j] # Empty}
           L == [j \in 1..Depth |-> IF j \in free THEN overlay[j] ELSE cell.levels[j]]
           S == [j \in 1..Depth |-> IF j \in free THEN by ELSE cell.from[j]]
<1>2. FillEmpty(cell, overlay, by) = [levels |-> L, from |-> S]
  BY DEF FillEmpty
<1>3. i \notin free
  OBVIOUS
<1> HIDE DEF free, overlay
<1>4. L[i] = cell.levels[i] /\ S[i] = cell.from[i]
  BY <1>3
<1> HIDE DEF L, S
<1> QED
  BY <1>1, <1>2, <1>4 DEF overlay

OnlyAdds ==
  (phase \in {"autofill", "autofill-letter", "place"}) =>
     \A k \in Key, i \in 1..Depth :
       (out[k].levels[i] # Empty \/ (phase = "place" /\ i = 1)) =>
         (out'[k].levels[i] = out[k].levels[i] /\ out'[k].from[i] = out[k].from[i])

LEMMA StepAdds == LayoutInv /\ [Next]_vars => OnlyAdds
<1> SUFFICES ASSUME LayoutInv, [Next]_vars,
                    phase \in {"autofill", "autofill-letter", "place"},
                    NEW k \in Key, NEW i \in 1..Depth,
                    out[k].levels[i] # Empty \/ (phase = "place" /\ i = 1)
             PROVE  out'[k].levels[i] = out[k].levels[i] /\ out'[k].from[i] = out[k].from[i]
  BY DEF OnlyAdds
<1>1. recipe \in Recipes /\ out[k] \in Cell
  BY DEF LayoutInv, TypeOK
<1>2. CASE Fill
  <2> DEFINE f == PickFillers(recipe)[n]
             by == <<"autofill", f.slug>>
  <2>1. out' = WriteOverlays(f.overlays, by, "autofill") /\ phase = "autofill"
    BY <1>2 DEF Fill
  <2> HIDE DEF f, by
  <2>2. \/ out'[k] = out[k]
        \/ out'[k] = Merge(out[k], f.overlays[k], by, "autofill")
    BY <2>1 DEF WriteOverlays
  <2> QED
    BY <1>1, <2>1, <2>2, FillKeeps
<1>3. ASSUME NEW entry \in todo, FillLetter(entry)
      PROVE  out'[k].levels[i] = out[k].levels[i] /\ out'[k].from[i] = out[k].from[i]
  <2> DEFINE e == entry[2]
             by == <<"autofill", PickFillers(recipe)[n].slug>>
  <2>1. /\ out' = WriteLetter(KeysFor(e), e.levels, by, "autofill")
        /\ phase = "autofill-letter"
    BY <1>3 DEF FillLetter, WriteLetter
  <2> HIDE DEF e, by
  <2>2. \/ out'[k] = out[k]
        \/ out'[k] = Merge(out[k], e.levels, by, "autofill")
    BY <2>1 DEF WriteLetter
  <2> QED
    BY <1>1, <2>1, <2>2, FillKeeps
<1>4. CASE PlaceNext
  <2> DEFINE m == Max(Free(k))
             ch == Head(missing)
             by == <<"locale-fill", recipe.locales[n].code>>
  <2>1. \/ out'[k] = out[k]
        \/ /\ k \in PlaceFor(ch)
           /\ out'[k] = [levels |-> [out[k].levels EXCEPT ![m] = Encode[ch]],
                         from |-> [out[k].from EXCEPT ![m] = by]]
    BY <1>4 DEF PlaceNext
  <2>2. k \in PlaceFor(ch) => i # m
    <3> SUFFICES ASSUME k \in PlaceFor(ch) PROVE i # m
      OBVIOUS
    <3>1. m \in 2..4 /\ out[k].levels[m] = Empty
      BY <1>1, PlaceIs, RoomIs, CellIs
    <3> HIDE DEF m
    <3> QED
      BY <3>1
  <2>3. out[k].levels \in [1..Depth -> Value] /\ out[k].from \in [1..Depth -> Sources]
    BY <1>1, CellIs
  <2> HIDE DEF m, ch, by
  <2> DEFINE L == [out[k].levels EXCEPT ![m] = Encode[ch]]
             S == [out[k].from EXCEPT ![m] = by]
  <2>4. k \in PlaceFor(ch) => L[i] = out[k].levels[i] /\ S[i] = out[k].from[i]
    BY <2>2, <2>3
  <2>5. out'[k] = out[k] \/ (k \in PlaceFor(ch) /\ out'[k] = [levels |-> L, from |-> S])
    BY <2>1
  <2> HIDE DEF L, S
  <2> QED
    BY <2>4, <2>5
<1>5. CASE Seed \/ Position \/ BeginLetters \/ EndLetters \/ Substitute \/ EndSubstitutions
  BY <1>5 DEF Seed, Position, BeginLetters, EndLetters, Substitute, EndSubstitutions
<1>6. ASSUME NEW entry \in todo, PutLetter(entry) PROVE FALSE
  BY <1>6 DEF PutLetter
<1>7. CASE EndFiller \/ EndFill \/ BeginLocale \/ EndLocale \/ Return
  BY <1>7 DEF EndFiller, EndFill, BeginLocale, EndLocale, Return
<1>8. CASE UNCHANGED vars
  BY <1>8 DEF vars
<1> QED
  BY <1>2, <1>3, <1>4, <1>5, <1>6, <1>7, <1>8 DEF Next

\* A level that is set when the fillers begin keeps its symbol and its source
\* through autofill and the locale fill, and the locale fill never takes a
\* first level, for every catalog and every locale.
THEOREM FillsAdd == Spec => FillsOnlyAdd
<1>1. LayoutInv /\ [Next]_vars => [OnlyAdds]_vars
  BY StepAdds
<1> QED
  BY <1>1, LayoutInvHolds, PTL DEF Spec, FillsOnlyAdd, OnlyAdds

Polite ==
  LET mode == IF phase = "position" THEN recipe.additions[n].mode
              ELSE (CHOOSE x \in todo \ todo' : TRUE)[2].mode
  IN ((phase = "position" /\ n' # n) \/ (phase = "letter" /\ todo' # todo)) =>
     \A k \in Key, i \in 1..Cap :
       out[k].levels[i] # Empty =>
         /\ mode = "nudge" => out'[k].levels[i] = out[k].levels[i]
         /\ mode = "claim" =>
              \/ \E j \in i..Cap : out'[k].levels[j] = out[k].levels[i]
              \/ \A j \in i + 1 .. Cap : out'[k].levels[j] # Empty

\* What a merge in a polite mode does to one key.
LEMMA MergeKeeps ==
  ASSUME NEW cell \in Cell, NEW levels \in Seq(Value), NEW by \in Sources, NEW mode,
         NEW i \in 1..Cap, cell.levels[i] # Empty
  PROVE  LET d == Merge(cell, levels, by, mode) IN
         /\ mode = "nudge" => d.levels[i] = cell.levels[i]
         /\ mode = "claim" => \/ \E j \in i..Cap : d.levels[j] = cell.levels[i]
                              \/ \A j \in i + 1 .. Cap : d.levels[j] # Empty
<1>1. Pad(levels) \in [1..Depth -> Value]
  BY PadType
<1>2. ASSUME mode = "nudge"
      PROVE  Merge(cell, levels, by, mode).levels[i] = cell.levels[i]
  <2>1. Merge(cell, levels, by, mode) = Nudge(cell, Pad(levels), by)
    BY <1>2 DEF Merge
  <2> QED
    BY <1>1, <2>1, NudgeIs
<1>3. ASSUME mode = "claim"
      PROVE  LET d == Merge(cell, levels, by, mode) IN
             \/ \E j \in i..Cap : d.levels[j] = cell.levels[i]
             \/ \A j \in i + 1 .. Cap : d.levels[j] # Empty
  <2>1. Merge(cell, levels, by, mode) = Claim(cell, Pad(levels), by)
    BY <1>3 DEF Merge
  <2> QED
    BY <1>1, <2>1, ClaimIs
<1> QED
  BY <1>2, <1>3

LEMMA StepIsPolite == LayoutInv /\ [Next]_vars => Polite
<1> DEFINE mode == IF phase = "position" THEN recipe.additions[n].mode
                   ELSE (CHOOSE x \in todo \ todo' : TRUE)[2].mode
           Kept(d, k, i) ==
             /\ mode = "nudge" => d.levels[i] = out[k].levels[i]
             /\ mode = "claim" =>
                  \/ \E j \in i..Cap : d.levels[j] = out[k].levels[i]
                  \/ \A j \in i + 1 .. Cap : d.levels[j] # Empty
<1> SUFFICES ASSUME LayoutInv, [Next]_vars,
                    (phase = "position" /\ n' # n) \/ (phase = "letter" /\ todo' # todo),
                    NEW k \in Key, NEW i \in 1..Cap, out[k].levels[i] # Empty
             PROVE  Kept(out'[k], k, i)
  BY DEF Polite
<1>1. recipe \in Recipes /\ out[k] \in Cell /\ n \in Nat /\ Steps /\ n # 0
  BY DEF LayoutInv, TypeOK, Steps
<1>2. Kept(out[k], k, i)
  BY CellIs
<1>3. ASSUME NEW levels \in Seq(Value), NEW by \in Sources
      PROVE  Kept(Merge(out[k], levels, by, mode), k, i)
  <2> HIDE DEF mode
  <2> QED
    BY <1>1, MergeKeeps
<1>4. CASE Position
  <2> DEFINE a == recipe.additions[n]
             by == <<"position", a.slug>>
  <2>1. n \in 1..Len(recipe.additions)
    BY <1>1, <1>4, RecipeIs DEF Position
  <2>2. a \in ToSet(recipe.additions) /\ IsModule(a)
    BY <1>1, <2>1, RecipeIs
  <2>3. mode = a.mode /\ out' = WriteOverlays(a.overlays, by, a.mode)
    BY <1>4 DEF Position
  <2> HIDE DEF a, mode
  <2>4. IsKeys(a.overlays) /\ by \in Sources
    BY <1>1, <2>2, GivenIs DEF IsModule
  <2>5. \/ out'[k] = out[k]
        \/ out'[k] = Merge(out[k], a.overlays[k], by, mode) /\ a.overlays[k] \in Seq(Value)
    BY <2>3, <2>4 DEF WriteOverlays, IsKeys
  <2> HIDE DEF by, Kept
  <2> QED
    BY <1>2, <1>3, <2>4, <2>5
<1>5. ASSUME NEW entry \in todo, PutLetter(entry) PROVE Kept(out'[k], k, i)
  <2> DEFINE e == entry[2]
             a == recipe.additions[entry[1]]
             by == <<"letter", a.slug>>
             targets == {h \in KeysFor(e) : e.rank >= claimed[h]}
  <2>1. /\ a \in ToSet(recipe.additions) /\ a.slug \in STRING /\ e \in LetterOverlays
    <3>1. phase = "letter"
      BY <1>5 DEF PutLetter
    <3> QED
      BY <1>1, <3>1, EntryIs DEF Steps
  <2>2. mode = e.mode
    <3>1. phase = "letter" /\ todo \ todo' = {entry}
      BY <1>5 DEF PutLetter
    <3> QED
      BY <3>1
  <2>3. out' = WriteLetter(targets, e.levels, by, e.mode)
    BY <1>5 DEF PutLetter, WriteLetter
  <2> HIDE DEF a, e, mode, targets
  <2>4. e.levels \in Seq(Value) /\ by \in Sources
    BY <1>1, <2>1, GivenIs DEF LetterOverlays
  <2>5. out'[k] = out[k] \/ out'[k] = Merge(out[k], e.levels, by, mode)
    BY <2>2, <2>3 DEF WriteLetter
  <2> HIDE DEF by, Kept
  <2> QED
    BY <1>2, <1>3, <2>4, <2>5
<1>6. CASE BeginLetters \/ EndLetters \/ UNCHANGED vars
  BY <1>6 DEF BeginLetters, EndLetters, vars
<1>7. CASE Seed \/ Substitute \/ EndSubstitutions \/ Fill \/ EndFiller \/ EndFill
           \/ BeginLocale \/ PlaceNext \/ EndLocale \/ Return
  BY <1>7 DEF Seed, Substitute, EndSubstitutions, Fill, EndFiller, EndFill, BeginLocale,
              PlaceNext, EndLocale, Return
<1>8. ASSUME NEW entry \in todo, FillLetter(entry) PROVE FALSE
  BY <1>8 DEF FillLetter
<1> HIDE DEF Kept, mode
<1> QED
  BY <1>4, <1>5, <1>6, <1>7, <1>8 DEF Next

\* A nudge never changes a level that is set, and a claim drops a value only
\* when every level above it is taken, for overlays of any number of levels.
THEOREM PoliteKeeps == Spec => PoliteWritesKeep
<1>1. LayoutInv /\ [Next]_vars => [Polite]_vars
  BY StepIsPolite
<1> QED
  BY <1>1, LayoutInvHolds, PTL DEF Spec, PoliteWritesKeep, Polite

(***************************************************************************)
(* The order of letter overlays.                                           *)

Done == AllEntries(recipe) \ todo
Ahead(x, y) == x[2].rank > y[2].rank \/ (x[2].rank = y[2].rank /\ x[1] <= y[1])

\* The overlay the key should end with, and that it has.
Wins(x, k) ==
  /\ x \in Contenders(k) /\ x[2].mode = "force"
  /\ \A y \in Contenders(k) \ {x} : y[1] < x[1]
Stands(x, k) ==
  \A i \in 1..Depth :
    Pad(x[2].levels)[i] # Empty => out[k].levels[i] = Pad(x[2].levels)[i]

\* What a key has been claimed with is the highest rank that has reached it.
Ranked(k) ==
  /\ claimed[k] = 0 \/ \E x \in Done : k \in KeysFor(x[2]) /\ claimed[k] = x[2].rank
  /\ \A x \in Done : k \in KeysFor(x[2]) => claimed[k] >= x[2].rank

InOrder ==
  /\ phase \in {"transformation", "position"} => claimed = [k \in Key |-> 0]
  /\ phase = "letter" =>
       /\ \A x \in Done, y \in todo : Ahead(x, y)
       /\ \A k \in Key : Ranked(k) /\ \A x \in Done : Wins(x, k) => Stands(x, k)
  /\ LastHighestWins

LEMMA EntriesAre ==
  ASSUME recipe \in Recipes, NEW x \in AllEntries(recipe)
  PROVE  x[1] \in Nat /\ x[2].rank \in 0..2 /\ x[2].levels \in Seq(Value)
<1>1. x[1] \in 1..Len(recipe.additions) /\ x[2] \in LetterOverlays
  BY EntryIs
<1>2. Len(recipe.additions) \in Nat
  BY RecipeIs
<1> QED
  BY <1>1, <1>2 DEF LetterOverlays

\* The contenders have the highest rank of all that reach the key.
LEMMA ContendersAre ==
  ASSUME recipe \in Recipes, NEW k
  PROVE  /\ \A x \in Contenders(k) : x \in AllEntries(recipe) /\ k \in KeysFor(x[2])
         /\ \A x \in Contenders(k), y \in AllEntries(recipe) :
              k \in KeysFor(y[2]) => /\ x[2].rank >= y[2].rank
                                     /\ y[2].rank >= x[2].rank => y \in Contenders(k)
<1> DEFINE here == {x \in AllEntries(recipe) : k \in KeysFor(x[2])}
<1>1. Contenders(k) = {x \in here : \A y \in here : x[2].rank >= y[2].rank}
  BY DEF Contenders
<1>2. \A x \in here : x[2].rank \in 0..2
  BY EntriesAre
<1>3. \A x \in here : x \in AllEntries(recipe) /\ k \in KeysFor(x[2])
  OBVIOUS
<1>4. \A y \in AllEntries(recipe) : k \in KeysFor(y[2]) => y \in here
  OBVIOUS
<1> HIDE DEF here
<1>5. ASSUME NEW x \in Contenders(k), NEW y \in here
      PROVE  x[2].rank >= y[2].rank /\ (y[2].rank >= x[2].rank => y \in Contenders(k))
  <2>1. x \in here /\ \A z \in here : x[2].rank >= z[2].rank
    BY <1>1, <1>5
  <2>2. ASSUME y[2].rank >= x[2].rank PROVE \A z \in here : y[2].rank >= z[2].rank
    BY <1>2, <2>1, <2>2
  <2> QED
    BY <1>1, <2>1, <2>2
<1> QED
  BY <1>1, <1>3, <1>4, <1>5

LEMMA MaxOfTwo ==
  ASSUME NEW i \in 0..2, NEW j \in 0..2
  PROVE  Max({i, j}) \in {i, j} /\ Max({i, j}) >= i /\ Max({i, j}) >= j
<1>1. \E x \in {i, j} : \A y \in {i, j} : x >= y
  OBVIOUS
<1> QED
  BY <1>1 DEF Max

\* A forced overlay stands where it is put.
LEMMA ForcedStands ==
  ASSUME NEW cell, NEW levels, NEW by, NEW i \in 1..Depth, Pad(levels)[i] # Empty
  PROVE  Merge(cell, levels, by, "force").levels[i] = Pad(levels)[i]
<1> DEFINE overlay == Pad(levels)
           L == [j \in 1..Depth |-> IF overlay[j] = Empty THEN cell.levels[j] ELSE overlay[j]]
           S == [j \in 1..Depth |-> IF overlay[j] = Empty THEN cell.from[j] ELSE by]
<1>1. Merge(cell, levels, by, "force") = [levels |-> L, from |-> S]
  BY DEF Merge, Overwrite
<1> HIDE DEF overlay
<1>2. overlay[i] # Empty => L[i] = overlay[i]
  OBVIOUS
<1> HIDE DEF L, S
<1> QED
  BY <1>1, <1>2 DEF overlay

\* What letters reach depends on the index alone.
LEMMA SameReach ==
  ASSUME UNCHANGED <<recipe, heads>>
  PROVE  /\ Key' = Key /\ AllEntries(recipe)' = AllEntries(recipe)
         /\ \A f : KeysFor(f)' = KeysFor(f)
         /\ \A k : Contenders(k)' = Contenders(k)
<1>1. Key' = Key /\ AllEntries(recipe)' = AllEntries(recipe)
  BY DEF Key
<1>2. \A f : KeysFor(f)' = KeysFor(f)
  BY DEF Key, KeysFor
<1>3. ASSUME NEW k PROVE Contenders(k)' = Contenders(k)
  BY <1>1, <1>2 DEF Contenders
<1> QED
  BY <1>1, <1>2, <1>3

LEMMA PutLetterOrder ==
  ASSUME LayoutInv, InOrder, NEW entry \in todo, PutLetter(entry)
  PROVE  InOrder'
<1> DEFINE e == entry[2]
           by == <<"letter", recipe.additions[entry[1]].slug>>
           Target(k) == k \in KeysFor(e) /\ e.rank >= claimed[k]
<1>1. /\ TypeOK /\ recipe \in Recipes /\ phase = "letter" /\ todo \subseteq AllEntries(recipe)
      /\ claimed \in [Key -> 0..2]
  BY DEF LayoutInv, TypeOK, PutLetter, Steps
<1>2. /\ UNCHANGED <<recipe, phase, n, heads, missing>> /\ todo' = todo \ {entry}
      /\ FirstOf(entry)
      /\ out' = [k \in Key |-> IF Target(k) THEN Merge(out[k], e.levels, by, e.mode) ELSE out[k]]
      /\ claimed' = [k \in Key |-> IF Target(k) THEN Max({e.rank, claimed[k]}) ELSE claimed[k]]
  BY DEF PutLetter
<1>3. /\ Key' = Key /\ AllEntries(recipe)' = AllEntries(recipe)
      /\ \A f : KeysFor(f)' = KeysFor(f)
      /\ \A k : Contenders(k)' = Contenders(k)
  BY <1>2, SameReach
<1>4. entry \in AllEntries(recipe) /\ entry \notin Done /\ Done' = Done \union {entry}
  BY <1>1, <1>2, <1>3 DEF Done
<1>5. e.rank \in 0..2 /\ \A x \in AllEntries(recipe) : x[1] \in Nat /\ x[2].rank \in 0..2
  BY <1>1, <1>4, EntriesAre
<1>6. \A x \in Done, y \in todo : Ahead(x, y)
  BY <1>1 DEF InOrder
<1>7. \A x \in Done', y \in todo' : Ahead(x, y)
  <2>1. \A y \in todo : Ahead(entry, y)
    BY <1>2 DEF FirstOf, Ahead
  <2> QED
    BY <1>2, <1>4, <1>6, <2>1
<1>8. ASSUME NEW k \in Key PROVE Ranked(k)'
  <2>1. Ranked(k)
    BY <1>1 DEF InOrder
  <2>2. CASE Target(k)
    <3>1. /\ claimed'[k] \in {e.rank, claimed[k]}
          /\ claimed'[k] >= e.rank /\ claimed'[k] >= claimed[k] /\ claimed[k] \in 0..2
          /\ k \in KeysFor(e) /\ e.rank >= claimed[k]
      BY <1>1, <1>2, <1>5, <2>2, MaxOfTwo
    <3>2. claimed'[k] = e.rank
      BY <1>5, <3>1
    <3>3. \A x \in Done : k \in KeysFor(x[2]) => claimed'[k] >= x[2].rank
      BY <1>5, <2>1, <3>1 DEF Ranked, Done
    <3> QED
      BY <1>3, <1>4, <1>5, <3>1, <3>2, <3>3 DEF Ranked
  <2>3. CASE ~Target(k)
    <3>1. claimed'[k] = claimed[k] /\ claimed[k] \in 0..2
      BY <1>1, <1>2, <2>3
    <3>2. k \in KeysFor(e) => claimed[k] >= e.rank
      BY <1>5, <2>3, <3>1
    <3> QED
      BY <1>3, <1>4, <2>1, <3>1, <3>2 DEF Ranked
  <2> QED
    BY <2>2, <2>3
<1>9. ASSUME NEW k \in Key, NEW x \in Done', Wins(x, k) PROVE Stands(x, k)'
  <2>1. /\ x \in Contenders(k) /\ x[2].mode = "force" /\ x \in AllEntries(recipe)
        /\ \A y \in Contenders(k) \ {x} : y[1] < x[1]
        /\ k \in KeysFor(x[2])
    BY <1>1, <1>9, ContendersAre DEF Wins
  <2>2. Ranked(k)
    BY <1>1 DEF InOrder
  <2>3. CASE x = entry
    <3>1. claimed[k] \in 0..2 /\ e.rank >= claimed[k]
      <4>1. \A y \in Done : k \in KeysFor(y[2]) => e.rank >= y[2].rank
        BY <1>1, <2>1, <2>3, ContendersAre DEF Done
      <4> QED
        BY <1>1, <1>5, <2>2, <4>1 DEF Ranked
    <3>2. out'[k] = Merge(out[k], x[2].levels, by, "force")
      BY <1>2, <2>1, <2>3, <3>1
    <3> HIDE DEF by
    <3> QED
      BY <3>2, ForcedStands DEF Stands, Pad
  <2>4. CASE x # entry
    <3>1. x \in Done /\ Stands(x, k)
      BY <1>1, <1>4, <1>9, <2>4 DEF InOrder
    <3>2. ~Target(k)
      <4> SUFFICES ASSUME Target(k) PROVE FALSE
        OBVIOUS
      <4>1. claimed[k] >= x[2].rank /\ claimed[k] \in 0..2
        BY <1>1, <2>1, <2>2, <3>1 DEF Ranked
      <4>2. e.rank >= x[2].rank
        BY <1>5, <2>1, <4>1
      <4>3. entry \in Contenders(k) /\ x[2].rank >= e.rank
        BY <1>1, <1>4, <2>1, <4>2, ContendersAre
      <4>4. entry[1] < x[1]
        BY <2>1, <2>4, <4>3
      <4>5. Ahead(x, entry)
        BY <1>6, <3>1
      <4> QED
        BY <1>4, <1>5, <2>1, <4>2, <4>3, <4>4, <4>5 DEF Ahead
    <3>3. out'[k] = out[k]
      BY <1>2, <3>2
    <3> QED
      BY <3>1, <3>3 DEF Stands, Pad
  <2> QED
    BY <2>3, <2>4
<1>10. \A k, x : Wins(x, k)' <=> Wins(x, k)
  BY <1>3 DEF Wins
<1>11. phase' = "letter"
  BY <1>1, <1>2
<1>12. LastHighestWins'
  BY <1>11 DEF LastHighestWins
<1> QED
  BY <1>3, <1>7, <1>8, <1>9, <1>10, <1>11, <1>12 DEF InOrder

LEMMA OrderKept == LayoutInv /\ InOrder /\ [Next]_vars => InOrder'
<1> SUFFICES ASSUME LayoutInv, InOrder, [Next]_vars PROVE InOrder'
  OBVIOUS
<1>1. ASSUME UNCHANGED vars PROVE InOrder'
  <2>1. UNCHANGED <<recipe, phase, n, out, heads, todo, claimed>>
    BY <1>1 DEF vars
  <2>2. /\ Key' = Key /\ Done' = Done
        /\ \A k, x : (Wins(x, k)' <=> Wins(x, k)) /\ (Stands(x, k)' <=> Stands(x, k))
        /\ \A k : Ranked(k)' <=> Ranked(k)
        /\ LastHighestWins' <=> LastHighestWins
    BY <2>1 DEF Key, Done, Wins, Stands, Ranked, LastHighestWins, Contenders, KeysFor, Pad
  <2> QED
    BY <2>1, <2>2, Zenon DEF InOrder
<1>2. CASE Seed \/ Position
  <2>1. /\ phase' = "position" /\ UNCHANGED <<recipe, claimed>>
        /\ phase \in {"transformation", "position"}
    BY <1>2 DEF Seed, Position
  <2>2. claimed' = [k \in Key |-> 0] /\ Key' = Key
    BY <2>1 DEF InOrder, Key
  <2>3. LastHighestWins'
    BY <2>1 DEF LastHighestWins
  <2> QED
    BY <2>1, <2>2, <2>3 DEF InOrder
<1>3. CASE BeginLetters
  <2>1. /\ phase' = "letter" /\ todo' = AllEntries(recipe) /\ UNCHANGED <<recipe, claimed>>
        /\ phase = "position"
    BY <1>3 DEF BeginLetters
  <2>2. AllEntries(recipe)' = AllEntries(recipe) /\ Key' = Key
    BY <2>1 DEF Key
  <2>3. Done' = {}
    BY <2>1, <2>2 DEF Done
  <2>4. \A k \in Key : claimed'[k] = 0
    BY <2>1 DEF InOrder
  <2>5. LastHighestWins'
    BY <2>1 DEF LastHighestWins
  <2>6. \A k \in Key : Ranked(k)'
    BY <2>3, <2>4 DEF Ranked
  <2> QED
    BY <2>1, <2>2, <2>3, <2>5, <2>6 DEF InOrder
<1>4. CASE EndLetters
  <2>1. /\ phase = "letter" /\ todo = {} /\ phase' = "substitution"
        /\ UNCHANGED <<recipe, out, heads>>
    BY <1>4 DEF EndLetters
  <2>2. recipe \in Recipes
    BY DEF LayoutInv, TypeOK
  <2>3. \A k \in Key : \A x \in AllEntries(recipe) : Wins(x, k) => Stands(x, k)
    BY <2>1 DEF InOrder, Done
  <2>4. ASSUME NEW k \in Key, NEW x \in Contenders(k), Wins(x, k) PROVE Stands(x, k)
    BY <2>2, <2>3, <2>4, ContendersAre
  <2>5. Key' = Key /\ \A k : Contenders(k)' = Contenders(k)
    BY <2>1 DEF Key, Contenders, KeysFor
  <2>6. LastHighestWins'
    BY <2>1, <2>4, <2>5 DEF LastHighestWins, Wins, Stands, Pad
  <2> QED
    BY <2>1, <2>6 DEF InOrder
<1>5. CASE Substitute
  <2>1. phase' = "substitution" /\ n' # 1
    BY <1>5 DEF Substitute, LayoutInv, TypeOK, Steps
  <2> QED
    BY <2>1 DEF InOrder, LastHighestWins
<1>6. CASE EndSubstitutions \/ Fill \/ EndFiller \/ EndFill \/ BeginLocale \/ PlaceNext
           \/ EndLocale \/ Return
  <2>1. phase' \in {"autofill", "autofill-letter", "locales", "place", "done"}
    BY <1>6 DEF EndSubstitutions, Fill, EndFiller, EndFill, BeginLocale, PlaceNext,
                EndLocale, Return
  <2> QED
    BY <2>1 DEF InOrder, LastHighestWins
<1>7. ASSUME NEW entry \in todo, FillLetter(entry) PROVE InOrder'
  <2>1. phase' = "autofill-letter"
    BY <1>7 DEF FillLetter
  <2> QED
    BY <2>1 DEF InOrder, LastHighestWins
<1> QED
  BY <1>1, <1>2, <1>3, <1>4, <1>5, <1>6, <1>7, PutLetterOrder DEF Next

\* Whichever order the overlays of one rank are read in, a key ends with what
\* the last addition of the highest rank for it says, for every list of
\* additions and every ranking.
THEOREM HighestRankWins == Spec => []LastHighestWins
<1>1. Init => InOrder
  BY DEF Init, InOrder, LastHighestWins
<1>2. InOrder => LastHighestWins
  BY DEF InOrder
<1> QED
  BY <1>1, <1>2, LayoutInvHolds, OrderKept, PTL DEF Spec

(***************************************************************************)
(* What a locale needs.                                                    *)

LEMMA ProducedIs ==
  \A ch : ch \in Produced <=>
            \E k \in Key, i \in 1..Depth :
              out[k].levels[i] \in DOMAIN Decode /\ Decode[out[k].levels[i]] = ch
BY DEF Produced, CharsOf, Levels

LEMMA WantedHas ==
  ASSUME NEW l, IsLocale(l)
  PROVE  \A i \in DOMAIN l.chars : Lower[l.chars[i]] \in ToSet(Wanted(l))
<1> DEFINE N == Len(l.chars)
           low(i) == Lower[l.chars[i]]
           pair(i) == IF Upper[l.chars[i]] = low(i) THEN <<low(i)>>
                      ELSE <<Upper[l.chars[i]], low(i)>>
<1>0. N \in Nat /\ DOMAIN l.chars = 1..N /\ \A i \in 1..N : l.chars[i] \in Char
  BY LenProperties, ElementOfSeq DEF IsLocale
<1>1. PICK q : /\ q[0] = <<>> /\ q[N] = Wanted(l)
               /\ \A i \in 1..N :
                    q[i] = (IF low(i) \in ToSet(q[i - 1]) THEN q[i - 1] ELSE q[i - 1] \o pair(i))
               /\ \A i \in 0..N : q[i] \in Seq(Char)
  BY WantedSteps DEF Added
<1>2. ASSUME NEW i \in 1..N
      PROVE  low(i) \in Char /\ pair(i) \in Seq(Char) /\ low(i) \in ToSet(pair(i))
  <2>1. Lower[l.chars[i]] \in Char /\ Upper[l.chars[i]] \in Char
    BY <1>0, LayoutAssumption
  <2> DEFINE u == Upper[l.chars[i]]
             w == low(i)
  <2>2. \A x, y \in Char : /\ <<x>> \in Seq(Char) /\ <<y, x>> \in Seq(Char)
                           /\ x \in ToSet(<<x>>) /\ x \in ToSet(<<y, x>>)
    BY DEF ToSet
  <2>3. u \in Char /\ w \in Char
    BY <2>1
  <2> HIDE DEF u, w
  <2>4. /\ (IF u = w THEN <<w>> ELSE <<u, w>>) \in Seq(Char)
        /\ w \in ToSet(IF u = w THEN <<w>> ELSE <<u, w>>)
    BY <2>2, <2>3
  <2> QED
    BY <2>3, <2>4 DEF u, w
<1>3. ASSUME NEW i \in 1..N
      PROVE  ToSet(q[i - 1]) \subseteq ToSet(q[i]) /\ low(i) \in ToSet(q[i])
  <2>1. q[i - 1] \in Seq(Char)
    BY <1>0, <1>1
  <2> HIDE DEF low, pair
  <2>2. ToSet(q[i - 1] \o pair(i)) = ToSet(q[i - 1]) \union ToSet(pair(i))
    BY <1>2, <2>1, ConcatSet
  <2> QED
    BY <1>1, <1>2, <2>2
<1> DEFINE T == {i \in Nat : i <= N => \A j \in 1..i : low(j) \in ToSet(q[i])}
<1>4. Nat \subseteq T
  <2>1. 0 \in T
    OBVIOUS
  <2>2. ASSUME NEW i \in Nat, i \in T PROVE i + 1 \in T
    <3> SUFFICES ASSUME i + 1 <= N, NEW j \in 1..(i + 1) PROVE low(j) \in ToSet(q[i + 1])
      OBVIOUS
    <3>1. i + 1 \in 1..N /\ (i + 1) - 1 = i /\ i <= N
      BY <1>0
    <3>2. ToSet(q[i]) \subseteq ToSet(q[i + 1]) /\ low(i + 1) \in ToSet(q[i + 1])
      BY <1>3, <3>1
    <3>3. j # i + 1 => j \in 1..i
      OBVIOUS
    <3> HIDE DEF low
    <3> QED
      BY <2>2, <3>1, <3>2, <3>3
  <2> HIDE DEF T
  <2> QED
    BY <2>1, <2>2, SetInduction
<1>5. \A j \in 1..N : low(j) \in ToSet(q[N])
  <2> HIDE DEF low
  <2> QED
    BY <1>0, <1>4
<1> QED
  BY <1>0, <1>1, <1>5

\* Members of a sequence, by its head and its tail.
LEMMA HeadAndTail ==
  ASSUME NEW A, NEW s \in Seq(A), s # <<>>
  PROVE  ToSet(s) = {Head(s)} \union ToSet(Tail(s))
<1>1. Len(s) \in Nat /\ DOMAIN s = 1..Len(s) /\ Len(s) # 0 /\ Head(s) = s[1]
  BY LenProperties, EmptySeq, HeadTailProperties
<1>2. /\ Tail(s) \in Seq(A) /\ Len(Tail(s)) = Len(s) - 1
      /\ \A i \in 1..Len(Tail(s)) : Tail(s)[i] = s[i + 1]
  BY HeadTailProperties
<1>3. DOMAIN Tail(s) = 1..Len(Tail(s))
  BY <1>2, LenProperties
<1>4. \A i \in DOMAIN Tail(s) : Tail(s)[i] \in ToSet(s)
  BY <1>1, <1>2, <1>3 DEF ToSet
<1>5. Head(s) \in ToSet(s)
  BY <1>1 DEF ToSet
<1>6. ASSUME NEW i \in DOMAIN s PROVE s[i] \in {Head(s)} \union ToSet(Tail(s))
  <2>1. CASE i = 1
    BY <1>1, <2>1
  <2>2. CASE i # 1
    <3>1. i - 1 \in 1..Len(Tail(s)) /\ (i - 1) + 1 = i
      BY <1>1, <1>2, <2>2
    <3>2. s[i] = Tail(s)[i - 1] /\ i - 1 \in DOMAIN Tail(s)
      BY <1>2, <1>3, <3>1
    <3> QED
      BY <3>2 DEF ToSet
  <2> QED
    BY <2>1, <2>2
<1> QED
  BY <1>4, <1>5, <1>6 DEF ToSet

Served(ch) == ch \in Produced \/ Full

\* What has been done for locale m: everything it needs can be typed, waits in
\* missing, or there is no room.
ServedUpTo(m, wait) ==
  \A j \in 1..m : \A ch \in ToSet(Wanted(recipe.locales[j])) : Served(ch) \/ (j = m /\ ch \in wait)

Serving ==
  /\ phase \in {"locales", "done"} => ServedUpTo(n - 1, {})
  /\ phase = "place" => ServedUpTo(n, ToSet(missing))
  /\ phase = "done" => n > Len(recipe.locales)

\* Nothing that can be typed is lost while levels are only added.
LEMMA ServedStays ==
  ASSUME recipe' = recipe,
         \A k \in Key, i \in 1..Depth :
           out[k].levels[i] # Empty => out'[k].levels[i] = out[k].levels[i]
  PROVE  \A ch : Served(ch) => Served(ch)'
<1>1. Key' = Key
  BY DEF Key
<1>2. \A v \in DOMAIN Decode : v # Empty
  BY LayoutAssumption
<1>3. ASSUME NEW ch, ch \in Produced PROVE ch \in Produced'
  <2>1. PICK k \in Key, i \in 1..Depth :
          out[k].levels[i] \in DOMAIN Decode /\ Decode[out[k].levels[i]] = ch
    BY <1>3, ProducedIs
  <2>2. out'[k].levels[i] = out[k].levels[i]
    BY <1>2, <2>1
  <2>3. ch \in Produced' <=>
            \E h \in Key', j \in 1..Depth :
              out'[h].levels[j] \in DOMAIN Decode /\ Decode[out'[h].levels[j]] = ch
    BY DEF Produced, CharsOf, Levels
  <2> QED
    BY <1>1, <2>1, <2>2, <2>3
<1>4. ASSUME Full PROVE Full'
  BY <1>1, <1>4, CellIs DEF Full
<1> QED
  BY <1>3, <1>4 DEF Served

\* The character at the head of the queue gets a level, if any is left.
LEMMA HeadIsServed ==
  ASSUME LayoutInv, PlaceNext, NEW ch, ch = Head(missing)
  PROVE  Served(ch)'
<1>1. /\ recipe \in Recipes /\ missing \in Seq(Char) /\ missing # <<>>
      /\ out \in [Key -> Cell]
  BY DEF LayoutInv, TypeOK, PlaceNext
<1>2. ch \in Char
  BY <1>1, HeadTailProperties, EmptySeq, LenProperties, ElementOfSeq
<1>3. /\ recipe' = recipe
      /\ \A k \in Key : (ch \notin Produced /\ k \in PlaceFor(ch)) =>
           \E by : out'[k] = [levels |-> [out[k].levels EXCEPT ![Max(Free(k))] = Encode[ch]],
                              from |-> by]
      /\ (ch \in Produced \/ PlaceFor(ch) = {}) => out' = [k \in Key |-> out[k]]
  BY DEF PlaceNext
<1>4. CASE ch \in Produced \/ PlaceFor(ch) = {}
  <2>1. out' = out
    BY <1>1, <1>3, <1>4
  <2>2. Served(ch)
    <3>1. ASSUME PlaceFor(ch) = {} PROVE Full
      <4>1. \A k \in Key : Free(k) = {}
        BY <1>1, <3>1, PlaceIs
      <4> QED
        BY <4>1 DEF Full, Free
    <3> QED
      BY <1>4, <3>1 DEF Served
  <2>3. recipe' = recipe
    BY <1>3
  <2> QED
    BY <1>1, <2>1, <2>2, <2>3, ServedStays
<1>5. CASE ch \notin Produced /\ PlaceFor(ch) # {}
  <2>1. PICK k \in PlaceFor(ch) : k \in Key /\ Free(k) # {}
    BY <1>1, <1>5, PlaceIs
  <2> DEFINE m == Max(Free(k))
             L == [out[k].levels EXCEPT ![m] = Encode[ch]]
  <2>2. m \in 1..Depth /\ out[k].levels \in [1..Depth -> Value]
    BY <1>1, <2>1, RoomIs, CellIs
  <2>3. out'[k].levels = L
    <3>1. PICK by : out'[k] = [levels |-> L, from |-> by]
      BY <1>3, <1>5, <2>1, Zenon
    <3> HIDE DEF L
    <3> QED
      BY <3>1
  <2>4. L[m] = Encode[ch]
    <3> HIDE DEF m
    <3> QED
      BY <2>2
  <2>5. Encode[ch] \in DOMAIN Decode /\ Decode[Encode[ch]] = ch
    BY <1>2, LayoutAssumption
  <2>6. k \in Key'
    BY <1>3, <2>1 DEF Key
  <2>7. ch \in Produced' <=>
            \E h \in Key', j \in 1..Depth :
              out'[h].levels[j] \in DOMAIN Decode /\ Decode[out'[h].levels[j]] = ch
    BY DEF Produced, CharsOf, Levels
  <2> HIDE DEF m, L
  <2>8. ch \in Produced'
    BY <2>2, <2>3, <2>4, <2>5, <2>6, <2>7
  <2> QED
    BY <2>8 DEF Served
<1> QED
  BY <1>4, <1>5

LEMMA ServingKept == LayoutInv /\ Serving /\ [Next]_vars => Serving'
<1> SUFFICES ASSUME LayoutInv, Serving, [Next]_vars PROVE Serving'
  OBVIOUS
<1>1. recipe \in Recipes /\ n \in Nat /\ n # 0 /\ missing \in Seq(Char) /\ Steps
  BY DEF LayoutInv, TypeOK, Steps
<1> DEFINE W(j) == ToSet(Wanted(recipe.locales[j]))
<1>2. ASSUME recipe' = recipe
      PROVE  \A j : W(j)' = W(j)
  BY <1>2
<1>3. ASSUME UNCHANGED <<recipe, out>>
      PROVE  \A ch : Served(ch)' <=> Served(ch)
  <2>1. Key' = Key
    BY <1>3 DEF Key
  <2>2. Produced' = Produced
    BY <1>3, <2>1 DEF Produced, Levels, CharsOf
  <2>3. Full' <=> Full
    BY <1>3, <2>1 DEF Full
  <2> QED
    BY <2>2, <2>3 DEF Served
<1>4. ASSUME UNCHANGED vars PROVE Serving'
  <2>1. UNCHANGED <<recipe, phase, n, out, missing>>
    BY <1>4 DEF vars
  <2>2. \A j : W(j)' = W(j)
    BY <1>2, <2>1
  <2>3. \A ch : Served(ch)' <=> Served(ch)
    BY <1>3, <2>1
  <2>4. \A m : \A wait : ServedUpTo(m, wait) => ServedUpTo(m, wait)'
    BY <2>2, <2>3 DEF ServedUpTo
  <2>5. (n - 1)' = n - 1 /\ n' = n /\ ToSet(missing)' = ToSet(missing)
    BY <2>1
  <2>6. phase' \in {"locales", "done"} => ServedUpTo(n - 1, {})'
    <3>1. ASSUME phase \in {"locales", "done"}
          PROVE  \A j \in 1..(n - 1) : \A ch \in W(j) : Served(ch)
      BY <3>1 DEF Serving, ServedUpTo
    <3> QED
      BY <2>1, <2>2, <2>3, <3>1 DEF ServedUpTo
  <2>7. phase' = "place" => ServedUpTo(n, ToSet(missing))'
    <3>1. ASSUME phase = "place"
          PROVE  \A j \in 1..n : \A ch \in W(j) : Served(ch) \/ (j = n /\ ch \in ToSet(missing))
      BY <3>1 DEF Serving, ServedUpTo
    <3> QED
      BY <2>1, <2>2, <2>3, <3>1 DEF ServedUpTo
  <2>8. phase' = "done" => n' > Len(recipe.locales)'
    BY <2>1 DEF Serving
  <2> QED
    BY <2>6, <2>7, <2>8 DEF Serving
<1>5. CASE EndFill
  <2>1. phase' = "locales" /\ n' = 1
    BY <1>5 DEF EndFill
  <2> QED
    BY <2>1 DEF Serving, ServedUpTo
<1>6. CASE BeginLocale
  <2> DEFINE s == Those(Wanted(recipe.locales[n]), Char \ Produced)
  <2>1. /\ phase = "locales" /\ phase' = "place" /\ UNCHANGED <<recipe, n, out>>
        /\ missing' = SortByAnchor(s) /\ n <= Len(recipe.locales)
    BY <1>6 DEF BeginLocale
  <2>2. Wanted(recipe.locales[n]) \in Seq(Char)
    <3>1. n \in 1..Len(recipe.locales)
      BY <1>1, <2>1, RecipeIs
    <3>2. IsLocale(recipe.locales[n])
      BY <1>1, <3>1, RecipeIs
    <3> QED
      BY <3>2, WantedIs
  <2>3. s \in Seq(Char) /\ ToSet(s) = W(n) \intersect (Char \ Produced)
    <3> DEFINE w == Wanted(recipe.locales[n])
    <3>1. Those(w, Char \ Produced) \in Seq(Char)
          /\ ToSet(Those(w, Char \ Produced)) = ToSet(w) \intersect (Char \ Produced)
      BY <2>2, ThoseIs
    <3> QED
      BY <3>1
  <2>4. W(n) \subseteq Char
    BY <2>2 DEF ToSet
  <2> HIDE DEF s
  <2>5. ToSet(missing') = W(n) \ Produced
    BY <2>1, <2>3, <2>4, SortedIs
  <2>6. ServedUpTo(n - 1, {})
    BY <2>1 DEF Serving
  <2>7. \A j \in 1..n : \A ch \in W(j) : Served(ch) \/ (j = n /\ ch \in ToSet(missing'))
    BY <1>1, <2>5, <2>6 DEF ServedUpTo, Served
  <2>8. \A j \in 1..n' : \A ch \in W(j)' : Served(ch)' \/ (j = n' /\ ch \in ToSet(missing'))
    <3>1. (\A j : W(j)' = W(j)) /\ \A ch : Served(ch)' <=> Served(ch)
      BY <1>2, <1>3, <2>1
    <3> HIDE DEF W
    <3> QED
      BY <2>1, <2>7, <3>1
  <2> QED
    BY <2>1, <2>8 DEF Serving, ServedUpTo
<1>7. CASE PlaceNext
  <2>1. /\ phase = "place" /\ phase' = "place" /\ UNCHANGED <<recipe, n>>
        /\ missing' = Tail(missing) /\ missing # <<>>
    BY <1>7 DEF PlaceNext
  <2>2. \A k \in Key, i \in 1..Depth :
          out[k].levels[i] # Empty => out'[k].levels[i] = out[k].levels[i]
    BY <2>1, StepAdds DEF OnlyAdds
  <2>3. \A ch : Served(ch) => Served(ch)'
    BY <2>1, <2>2, ServedStays
  <2>4. \A ch : ch = Head(missing) => Served(ch)'
    BY <1>7, HeadIsServed
  <2>5. ToSet(missing) = {Head(missing)} \union ToSet(missing')
    BY <1>1, <2>1, HeadAndTail
  <2>6. \A j \in 1..n : \A ch \in W(j) : Served(ch) \/ (j = n /\ ch \in ToSet(missing))
    BY <2>1 DEF Serving, ServedUpTo
  <2>7. \A j \in 1..n' : \A ch \in W(j)' : Served(ch)' \/ (j = n' /\ ch \in ToSet(missing'))
    <3>1. \A j : W(j)' = W(j)
      BY <1>2, <2>1
    <3> HIDE DEF W
    <3> QED
      BY <2>1, <2>3, <2>4, <2>5, <2>6, <3>1
  <2> QED
    BY <2>1, <2>7 DEF Serving, ServedUpTo
<1>8. CASE EndLocale
  <2>1. /\ phase = "place" /\ phase' = "locales" /\ UNCHANGED <<recipe, out>> /\ n' = n + 1
        /\ missing = <<>>
    BY <1>8 DEF EndLocale
  <2>2. ToSet(missing) = {}
    BY <2>1 DEF ToSet
  <2>3. \A j \in 1..n : \A ch \in W(j) : Served(ch)
    BY <2>1, <2>2 DEF Serving, ServedUpTo
  <2>4. \A j \in 1..n'-1 : \A ch \in W(j)' : Served(ch)'
    <3>1. (\A j : W(j)' = W(j)) /\ \A ch : Served(ch)' <=> Served(ch)
      BY <1>2, <1>3, <2>1
    <3>2. n' - 1 = n
      BY <1>1, <2>1
    <3> HIDE DEF W
    <3> QED
      BY <2>3, <3>1, <3>2
  <2> QED
    BY <2>1, <2>4 DEF Serving, ServedUpTo
<1>9. CASE Return
  <2>1. /\ phase = "locales" /\ phase' = "done" /\ UNCHANGED <<recipe, out, n>>
        /\ n > Len(recipe.locales)
    BY <1>9 DEF Return
  <2>2. \A j \in 1..n - 1 : \A ch \in W(j) : Served(ch)
    BY <2>1 DEF Serving, ServedUpTo
  <2>3. \A j \in 1..n'-1 : \A ch \in W(j)' : Served(ch)'
    <3>1. (\A j : W(j)' = W(j)) /\ \A ch : Served(ch)' <=> Served(ch)
      BY <1>2, <1>3, <2>1
    <3> HIDE DEF W
    <3> QED
      BY <2>1, <2>2, <3>1
  <2> QED
    BY <2>1, <2>3 DEF Serving, ServedUpTo
<1>10. CASE Seed \/ Position \/ BeginLetters \/ EndLetters \/ Substitute \/ EndSubstitutions
            \/ Fill \/ EndFiller
  <2>1. phase' \in {"position", "letter", "substitution", "autofill", "autofill-letter"}
    BY <1>10 DEF Seed, Position, BeginLetters, EndLetters, Substitute, EndSubstitutions,
                 Fill, EndFiller
  <2> QED
    BY <2>1 DEF Serving
<1>11. ASSUME NEW entry \in todo, PutLetter(entry) \/ FillLetter(entry) PROVE Serving'
  <2>1. phase' \in {"letter", "autofill-letter"}
    BY <1>11 DEF PutLetter, FillLetter
  <2> QED
    BY <2>1 DEF Serving
<1> QED
  BY <1>4, <1>5, <1>6, <1>7, <1>8, <1>9, <1>10, <1>11 DEF Next

\* The report on one locale.
LEMMA AnalyzeIs ==
  ASSUME NEW l, IsLocale(l)
  PROVE  /\ \A ch \in Analyze(l).missing :
              \E i \in DOMAIN l.chars : ch = l.chars[i] /\ Lower[ch] \notin CollectChars
         /\ Analyze(l).covered + Cardinality(Analyze(l).missing) = Analyze(l).total
<1> DEFINE N == Len(l.chars)
           letter(i) == Lower[l.chars[i]]
           first == {i \in DOMAIN l.chars : \A j \in 1..i - 1 : letter(j) # letter(i)}
           gaps == {i \in first : letter(i) \notin CollectChars}
           mis == {l.chars[i] : i \in gaps}
           f == [i \in gaps |-> l.chars[i]]
<1>1. N \in Nat /\ DOMAIN l.chars = 1..N
  BY LenProperties DEF IsLocale
<1>2. Analyze(l) = [total |-> Cardinality(first), covered |-> Cardinality(first \ gaps),
                    missing |-> mis]
  BY DEF Analyze
<1>3. IsFiniteSet(first) /\ IsFiniteSet(gaps) /\ IsFiniteSet(first \ gaps)
  <2>1. IsFiniteSet(1..N)
    <3>1. 1 \in Int /\ N \in Int
      BY <1>1
    <3> HIDE DEF N
    <3> QED
      BY <3>1, FS_Interval, Zenon
  <2>2. first \in SUBSET (1..N) /\ gaps \in SUBSET (1..N) /\ first \ gaps \in SUBSET (1..N)
    BY <1>1
  <2> HIDE DEF first, gaps
  <2> QED
    BY <2>1, <2>2, FS_Subset
<1>4. Cardinality(first) = Cardinality(first \ gaps) + Cardinality(gaps)
  <2>1. (first \ gaps) \union gaps = first /\ (first \ gaps) \intersect gaps = {}
    OBVIOUS
  <2> HIDE DEF first, gaps
  <2>2. Cardinality((first \ gaps) \union gaps) =
          Cardinality(first \ gaps) + Cardinality(gaps) - Cardinality((first \ gaps) \intersect gaps)
    BY <1>3, FS_Union
  <2>3. Cardinality({}) = 0
    BY FS_EmptySet
  <2>4. Cardinality(first \ gaps) \in Nat /\ Cardinality(gaps) \in Nat
    BY <1>3, FS_CardinalityType
  <2>5. /\ Cardinality((first \ gaps) \union gaps) = Cardinality(first)
        /\ Cardinality((first \ gaps) \intersect gaps) = 0
    BY <2>1, <2>3, Zenon
  <2> QED
    BY <2>2, <2>4, <2>5
<1>5. Cardinality(mis) = Cardinality(gaps)
  <2>1. \A i, j \in gaps : l.chars[i] = l.chars[j] => i = j
    <3> SUFFICES ASSUME NEW i \in gaps, NEW j \in gaps, l.chars[i] = l.chars[j], i < j
                 PROVE  FALSE
      BY <1>1
    <3>1. i \in 1..j - 1 /\ letter(j) = letter(i)
      BY <1>1
    <3> QED
      BY <3>1
  <2>2. gaps \subseteq DOMAIN l.chars
    OBVIOUS
  <2> HIDE DEF gaps
  <2>3. f \in Bijection(gaps, mis)
    BY <2>1 DEF Bijection, Injection, Surjection, IsInjective
  <2>4. ExistsBijection(gaps, mis)
    BY <2>3 DEF ExistsBijection
  <2> QED
    BY <1>3, <2>4, FS_Bijection
<1>6. \A ch \in mis : \E i \in DOMAIN l.chars : ch = l.chars[i] /\ Lower[ch] \notin CollectChars
  BY DEF mis
<1> HIDE DEF first, gaps, mis
<1>7. Cardinality(first \ gaps) \in Nat /\ Cardinality(gaps) \in Nat
  BY <1>3, FS_CardinalityType
<1> QED
  BY <1>2, <1>4, <1>5, <1>6, <1>7

\* The letters of a locale each have one lower case.
OneLowerCase(l) ==
  \A ch \in ToSet(l.chars) : Lower[Lower[ch]] = Lower[ch] /\ Lower[Upper[ch]] = Lower[ch]

\* A needed character is left out only for want of room, and what is reported
\* as a gap can be typed in neither case, for every layout and every number of
\* locales whose letters each have one lower case.  (Of data/locales.yaml that
\* leaves out Turkish, whose dotless i has an upper case that lower-cases to i:
\* there a layout with I and no dotless i has a gap.)
THEOREM GapsHaveReasons ==
  ASSUME \A r \in Recipes : \A l \in ToSet(r.locales) : OneLowerCase(l),
         \A l \in ToSet(Locales) : OneLowerCase(l),
         \A file \in DOMAIN Hints : \A l \in ToSet(Hints[file]) : OneLowerCase(l)
  PROVE  Spec => []GapsAreReal
<1>1. Init => Serving
  BY DEF Init, Serving
<1>2. LayoutInv /\ Serving => GapsAreReal
  <2> SUFFICES ASSUME LayoutInv, Serving, phase = "done" PROVE GapsAreReal
    BY DEF GapsAreReal
  <2>0. recipe \in Recipes /\ n \in Nat /\ n > Len(recipe.locales)
    BY DEF LayoutInv, TypeOK, Serving
  <2>1. ASSUME NEW l \in ToSet(recipe.locales)
        PROVE  /\ IsLocale(l) /\ OneLowerCase(l)
               /\ \A ch \in ToSet(Wanted(l)) : ch \in Produced \/ Full
    <3>1. recipe.locales \in Seq(ToSet(recipe.locales)) /\ IsLocale(l)
      BY <2>0, LayoutAssumption DEF IsRecipe, IsSequence
    <3>2. Len(recipe.locales) \in Nat /\ DOMAIN recipe.locales = 1..Len(recipe.locales)
      BY <3>1, LenProperties
    <3>3. PICK j \in 1..Len(recipe.locales) : l = recipe.locales[j]
      BY <3>2 DEF ToSet
    <3>4. j \in 1..n - 1
      BY <2>0, <3>2
    <3>5. ServedUpTo(n - 1, {})
      BY DEF Serving
    <3> QED
      BY <2>0, <3>1, <3>3, <3>4, <3>5 DEF ServedUpTo, Served
  <2>2. \A l \in LocalesFor(recipe.file) : IsLocale(l) /\ OneLowerCase(l)
    BY LayoutAssumption DEF LocalesFor
  <2>3. \A l \in LocalesForVariant : IsLocale(l) /\ OneLowerCase(l)
    BY <2>1, <2>2 DEF LocalesForVariant
  <2>4. \A ch \in Produced : Lower[ch] \in CollectChars
    BY DEF CollectChars
  <2>5. ASSUME NEW l, IsLocale(l), OneLowerCase(l)
        PROVE  /\ \A ch \in Analyze(l).missing : {Lower[ch], Upper[ch]} \intersect Produced = {}
               /\ Analyze(l).covered + Cardinality(Analyze(l).missing) = Analyze(l).total
               /\ Analyze(l).missing # {} => \E ch \in ToSet(Wanted(l)) : ch \notin Produced
    <3>1. ASSUME NEW ch \in Analyze(l).missing
          PROVE  /\ {Lower[ch], Upper[ch]} \intersect Produced = {}
                 /\ \E c \in ToSet(Wanted(l)) : c \notin Produced
      <4>1. PICK i \in DOMAIN l.chars : ch = l.chars[i] /\ Lower[ch] \notin CollectChars
        BY <2>5, <3>1, AnalyzeIs
      <4>2. Lower[Lower[ch]] = Lower[ch] /\ Lower[Upper[ch]] = Lower[ch]
        BY <2>5, <4>1 DEF OneLowerCase, ToSet
      <4>3. Lower[ch] \notin Produced /\ Upper[ch] \notin Produced
        BY <2>4, <4>1, <4>2
      <4>4. Lower[ch] \in ToSet(Wanted(l))
        BY <2>5, <4>1, WantedHas
      <4> QED
        BY <4>3, <4>4
    <3> QED
      BY <2>5, <3>1, AnalyzeIs
  <2>6. \A r \in handleCoverage \union ValidateVariant :
          /\ \A ch \in r.missing : {Lower[ch], Upper[ch]} \intersect Produced = {}
          /\ r.covered + Cardinality(r.missing) = r.total
    BY <2>2, <2>3, <2>5 DEF handleCoverage, ValidateVariant
  <2>7. ASSUME NEW r \in ValidateVariant, recipe.locales # <<>>, r.missing # {} PROVE Full
    <3>1. PICK l \in ToSet(recipe.locales) : r = Analyze(l)
      BY <2>7 DEF ValidateVariant, LocalesForVariant
    <3> QED
      BY <2>1, <2>5, <2>7, <3>1
  <2> QED
    BY <2>1, <2>6, <2>7 DEF GapsAreReal
<1> QED
  BY <1>1, <1>2, LayoutInvHolds, ServingKept, PTL DEF Spec

(***************************************************************************)
(* The order of the fillers.                                               *)

Distinct(s) == \A i, j \in 1..Len(s) : s[i] = s[j] => i = j
Extends(s, t) == Len(s) <= Len(t) /\ \A i \in 1..Len(s) : t[i] = s[i]

LEMMA AppendKeeps ==
  ASSUME NEW A, NEW s \in Seq(A), NEW e \in A, e \notin ToSet(s), Distinct(s)
  PROVE  Distinct(Append(s, e)) /\ Extends(s, Append(s, e))
<1> DEFINE t == Append(s, e)
<1>1. Len(s) \in Nat /\ DOMAIN s = 1..Len(s)
  BY LenProperties
<1>2. /\ Len(t) = Len(s) + 1 /\ t[Len(s) + 1] = e
      /\ \A i \in 1..Len(s) : t[i] = s[i]
  BY AppendProperties
<1> HIDE DEF t
<1>3. \A i \in 1..Len(s) : s[i] # e
  BY <1>1 DEF ToSet
<1>4. ASSUME NEW i \in 1..Len(t), NEW j \in 1..Len(t), t[i] = t[j] PROVE i = j
  <2>1. \A h \in 1..Len(t) : h = Len(s) + 1 \/ h \in 1..Len(s)
    BY <1>1, <1>2
  <2>2. CASE i \in 1..Len(s) /\ j \in 1..Len(s)
    BY <1>2, <1>4, <2>2 DEF Distinct
  <2>3. CASE i \in 1..Len(s) /\ j = Len(s) + 1
    BY <1>2, <1>3, <1>4, <2>3
  <2>4. CASE i = Len(s) + 1 /\ j \in 1..Len(s)
    BY <1>2, <1>3, <1>4, <2>4
  <2> QED
    BY <2>1, <2>2, <2>3, <2>4
<1>5. Extends(s, t)
  BY <1>1, <1>2 DEF Extends
<1> QED
  BY <1>4, <1>5 DEF Distinct, t

\* A category adds the fillers it has that are not there yet.
LEMMA TakeIs ==
  ASSUME NEW acc \in Seq(ToSet(Catalog)), Distinct(acc), NEW c
  PROVE  LET t == Take(acc, c) IN
         /\ t \in Seq(ToSet(Catalog)) /\ Distinct(t) /\ Extends(acc, t)
         /\ ToSet(t) = ToSet(acc) \union {f \in ToSet(Catalog) : c \in f.categories}
<1> DEFINE N == Len(Catalog)
           F == ToSet(Catalog)
           Has(i) == c \in Catalog[i].categories
<1>0. Catalog \in Seq(F) /\ N \in Nat /\ DOMAIN Catalog = 1..N
      /\ \A i \in 1..N : Catalog[i] \in F
  <2>1. Catalog \in Seq(F)
    BY LayoutAssumption DEF IsSequence
  <2>2. N \in Nat /\ DOMAIN Catalog = 1..N
    BY <2>1, LenProperties
  <2> QED
    BY <2>1, <2>2 DEF ToSet
<1>1. PICK q : /\ q[0] = acc /\ q[N] = Take(acc, c)
               /\ \A i \in 1..N :
                    q[i] = (IF Has(i) /\ Catalog[i] \notin ToSet(q[i - 1])
                            THEN Append(q[i - 1], Catalog[i]) ELSE q[i - 1])
               /\ \A i \in 0..N : q[i] \in Seq(F)
  BY PickSteps DEF Picked
<1> HIDE DEF F
<1> DEFINE P(i) == /\ Distinct(q[i]) /\ Extends(acc, q[i])
                   /\ ToSet(q[i]) = ToSet(acc) \union {Catalog[j] : j \in {h \in 1..i : Has(h)}}
           T == {i \in Nat : i <= N => P(i)}
<1>2. P(0)
  <2>1. Extends(acc, acc)
    BY LenProperties DEF Extends, F
  <2>2. {Catalog[j] : j \in {h \in 1..0 : Has(h)}} = {}
    OBVIOUS
  <2> QED
    BY <1>1, <2>1, <2>2
<1>3. ASSUME NEW i \in Nat, i + 1 <= N, P(i) PROVE P(i + 1)
  <2>1. i + 1 \in 1..N /\ (i + 1) - 1 = i /\ i \in 0..N
    BY <1>0, <1>3
  <2>2. q[i] \in Seq(F) /\ Catalog[i + 1] \in F
    BY <1>0, <1>1, <2>1
  <2>3. {h \in 1..(i + 1) : Has(h)} =
          {h \in 1..i : Has(h)} \union (IF Has(i + 1) THEN {i + 1} ELSE {})
    <3>1. \A h : h \in 1..(i + 1) <=> (h \in 1..i \/ h = i + 1)
      OBVIOUS
    <3> HIDE DEF Has
    <3> QED
      BY <3>1
  <2>4. CASE Has(i + 1) /\ Catalog[i + 1] \notin ToSet(q[i])
    <3>1. q[i + 1] = Append(q[i], Catalog[i + 1])
      BY <1>1, <2>1, <2>4
    <3>2. Distinct(q[i + 1]) /\ Extends(q[i], q[i + 1])
      BY <1>3, <2>2, <2>4, <3>1, AppendKeeps
    <3>3. ToSet(q[i + 1]) = ToSet(q[i]) \union {Catalog[i + 1]}
      BY <2>2, <3>1, AppendSet
    <3>4. Extends(acc, q[i + 1])
      <4>1. q[i + 1] \in Seq(F)
        BY <1>1, <2>1
      <4>2. Len(q[i]) \in Nat /\ Len(q[i + 1]) \in Nat /\ Len(acc) \in Nat
        BY <2>2, <4>1, LenProperties
      <4> QED
        BY <1>3, <3>2, <4>2 DEF Extends
    <3> HIDE DEF Has
    <3> QED
      BY <1>3, <2>3, <2>4, <3>2, <3>3, <3>4
  <2>5. CASE ~(Has(i + 1) /\ Catalog[i + 1] \notin ToSet(q[i]))
    <3>1. q[i + 1] = q[i]
      BY <1>1, <2>1, <2>5
    <3>2. Has(i + 1) => Catalog[i + 1] \in ToSet(q[i])
      BY <2>5
    <3> HIDE DEF Has
    <3> QED
      BY <1>3, <2>3, <3>1, <3>2
  <2> QED
    BY <2>4, <2>5
<1>4. Nat \subseteq T
  <2>1. 0 \in T
    BY <1>2
  <2>2. ASSUME NEW i \in Nat, i \in T PROVE i + 1 \in T
    <3>1. i + 1 <= N => i <= N
      BY <1>0
    <3> HIDE DEF P
    <3> QED
      BY <1>3, <2>2, <3>1
  <2> HIDE DEF T
  <2> QED
    BY <2>1, <2>2, SetInduction
<1>5. P(N)
  <2> HIDE DEF P
  <2> QED
    BY <1>0, <1>4
<1>6. {Catalog[j] : j \in {h \in 1..N : Has(h)}} = {f \in F : c \in f.categories}
  BY <1>0 DEF F, ToSet
<1>7. q[N] \in Seq(F)
  BY <1>0, <1>1
<1> QED
  BY <1>1, <1>5, <1>6, <1>7 DEF F

\* Each filler is applied once, and in the order of the first category that
\* asks for it.
LEMMA FillerOrder ==
  ASSUME NEW r \in Recipes, "*" \notin ToSet(r.autofill)
  PROVE  LET F == PickFillers(r)
             Asked(f) == {i \in DOMAIN Categories(r) : Categories(r)[i] \in f.categories}
         IN /\ Distinct(F)
            /\ \A f, g \in ToSet(Catalog) :
                 (Asked(f) # {} /\ Asked(g) # {} /\ Min(Asked(g)) < Min(Asked(f))) =>
                   \E i, j \in 1..Len(F) : i < j /\ F[i] = g /\ F[j] = f
<1> DEFINE C == Categories(r)
           N == Len(C)
           Cat == ToSet(Catalog)
           Asked(f) == {i \in DOMAIN C : C[i] \in f.categories}
<1>0. C \in Seq(Named(r)) /\ N \in Nat /\ DOMAIN C = 1..N
  BY CategoriesAre, LenProperties
<1>1. PICK q : /\ q[0] = <<>> /\ q[N] = PickFillers(r)
               /\ \A i \in 1..N : q[i] = Take(q[i - 1], C[i])
               /\ \A i \in 0..N : q[i] \in Seq(Cat)
  BY <1>0, FillerSteps
<1> HIDE DEF C
<1> DEFINE P(i) == /\ Distinct(q[i])
                   /\ \A f : f \in ToSet(q[i]) <=> f \in Cat /\ \E j \in 1..i : C[j] \in f.categories
                   /\ \A h \in 0..i : Extends(q[h], q[i])
           T == {i \in Nat : i <= N => P(i)}
<1>2. P(0)
  <2>1. Len(<<>>) = 0 /\ ToSet(<<>>) = {}
    BY DEF ToSet
  <2>2. Distinct(<<>>) /\ Extends(<<>>, <<>>)
    BY DEF Distinct, Extends
  <2> QED
    BY <1>1, <2>1, <2>2
<1>3. ASSUME NEW i \in Nat, i + 1 <= N, P(i) PROVE P(i + 1)
  <2>1. i + 1 \in 1..N /\ (i + 1) - 1 = i /\ i \in 0..N /\ i + 1 \in 0..N
    BY <1>0, <1>3
  <2>2. q[i] \in Seq(Cat) /\ q[i + 1] = Take(q[i], C[i + 1])
    BY <1>1, <2>1
  <2>3. /\ Distinct(q[i + 1]) /\ Extends(q[i], q[i + 1])
        /\ ToSet(q[i + 1]) = ToSet(q[i]) \union {f \in Cat : C[i + 1] \in f.categories}
    BY <1>3, <2>2, TakeIs
  <2>4. ASSUME NEW h \in 0..(i + 1) PROVE Extends(q[h], q[i + 1])
    <3>1. q[h] \in Seq(Cat) /\ q[i + 1] \in Seq(Cat)
      BY <1>0, <1>1, <2>1
    <3>2. Len(q[h]) \in Nat /\ Len(q[i]) \in Nat /\ Len(q[i + 1]) \in Nat
      BY <2>2, <3>1, LenProperties
    <3>3. CASE h = i + 1
      BY <3>2, <3>3 DEF Extends
    <3>4. CASE h \in 0..i
      BY <1>3, <2>3, <3>2, <3>4 DEF Extends
    <3> QED
      BY <3>3, <3>4
  <2>5. ASSUME NEW f
        PROVE  f \in ToSet(q[i + 1]) <=> f \in Cat /\ \E j \in 1..(i + 1) : C[j] \in f.categories
    <3>1. \A j : j \in 1..(i + 1) <=> (j \in 1..i \/ j = i + 1)
      OBVIOUS
    <3> QED
      BY <1>3, <2>3, <3>1
  <2> QED
    BY <2>3, <2>4, <2>5
<1>4. Nat \subseteq T
  <2>1. 0 \in T
    BY <1>2
  <2>2. ASSUME NEW i \in Nat, i \in T PROVE i + 1 \in T
    <3>1. i + 1 <= N => i <= N
      BY <1>0
    <3> HIDE DEF P
    <3> QED
      BY <1>3, <2>2, <3>1
  <2> HIDE DEF T
  <2> QED
    BY <2>1, <2>2, SetInduction
<1>5. \A i \in 0..N : P(i)
  <2> HIDE DEF P
  <2> QED
    BY <1>0, <1>4
<1>6. ASSUME NEW f \in Cat, NEW g \in Cat, Asked(f) # {}, Asked(g) # {},
             Min(Asked(g)) < Min(Asked(f))
      PROVE  \E i, j \in 1..Len(q[N]) : i < j /\ q[N][i] = g /\ q[N][j] = f
  <2> DEFINE a == Min(Asked(g))
             b == Min(Asked(f))
  <2>1. a \in Asked(g) /\ b \in Asked(f) /\ \A m \in Asked(f) : b <= m
    <3>1. Asked(f) \in SUBSET Nat /\ Asked(g) \in SUBSET Nat
      BY <1>0
    <3> HIDE DEF Asked
    <3> QED
      BY <1>6, <3>1, MinIs
  <2>2. a \in 1..N /\ C[a] \in g.categories /\ b \in 1..N /\ C[b] \in f.categories
    BY <1>0, <2>1
  <2>3. \A m \in 1..a : C[m] \notin f.categories
    <3>1. \A m \in 1..N : C[m] \in f.categories => b <= m
      BY <1>0, <2>1
    <3>2. a < b
      BY <1>6
    <3> HIDE DEF a, b
    <3> QED
      BY <1>0, <2>2, <3>1, <3>2
  <2> HIDE DEF a, b
  <2>4. /\ q[a] \in Seq(Cat) /\ q[N] \in Seq(Cat) /\ a \in 0..N /\ N \in 0..N /\ a \in 1..a
    BY <1>0, <1>1, <2>2
  <2>5. /\ Len(q[a]) \in Nat /\ DOMAIN q[a] = 1..Len(q[a])
        /\ Len(q[N]) \in Nat /\ DOMAIN q[N] = 1..Len(q[N])
    BY <2>4, LenProperties
  <2>6. g \in ToSet(q[a]) /\ f \notin ToSet(q[a]) /\ f \in ToSet(q[N]) /\ Extends(q[a], q[N])
    BY <1>5, <1>6, <2>2, <2>3, <2>4
  <2>7. PICK i \in 1..Len(q[a]) : g = q[a][i]
    BY <2>5, <2>6 DEF ToSet
  <2>8. PICK j \in 1..Len(q[N]) : f = q[N][j]
    BY <2>5, <2>6 DEF ToSet
  <2>9. \A m \in 1..Len(q[a]) : q[a][m] # f
    BY <2>5, <2>6 DEF ToSet
  <2>10. i \in 1..Len(q[N]) /\ q[N][i] = g /\ i < j
    BY <2>5, <2>6, <2>7, <2>8, <2>9 DEF Extends
  <2> QED
    BY <2>8, <2>10
<1>7. Distinct(q[N])
  BY <1>0, <1>5
<1> HIDE DEF P, T
<1>8. \A f, g \in Cat : (Asked(f) # {} /\ Asked(g) # {} /\ Min(Asked(g)) < Min(Asked(f))) =>
        \E i, j \in 1..Len(q[N]) : i < j /\ q[N][i] = g /\ q[N][j] = f
  <2> HIDE DEF Asked, Cat
  <2> QED
    BY <1>6
<1>9. Distinct(PickFillers(r))
      /\ \A f, g \in Cat : (Asked(f) # {} /\ Asked(g) # {} /\ Min(Asked(g)) < Min(Asked(f))) =>
            \E i, j \in 1..Len(PickFillers(r)) :
              i < j /\ PickFillers(r)[i] = g /\ PickFillers(r)[j] = f
  <2> HIDE DEF Asked, Cat, N
  <2> QED
    BY <1>1, <1>7, <1>8
<1> QED
  BY <1>9, Zenon DEF C

\* A table whose fillers so far are the first m.
From(m) ==
  [s \in Sources |->
     IF s[1] = "autofill" /\ ~\E j \in 1..m : PickFillers(recipe)[j].slug = s[2] THEN {}
     ELSE Value]
FilledBy(m) == \A k \in Key : Credited(out[k], From(m))

\* What one of them sets is set, and by none that comes later.
Settled(m) ==
  \A j \in 1..m :
    LET f == PickFillers(recipe)[j] IN
    \A k \in Key \intersect DOMAIN f.overlays, i \in 1..Depth :
      Pad(f.overlays[k])[i] # Empty =>
        /\ out[k].levels[i] # Empty
        /\ \A h \in j + 1 .. Len(PickFillers(recipe)) :
             out[k].from[i] # <<"autofill", PickFillers(recipe)[h].slug>>

FillOrder ==
  "*" \notin ToSet(recipe.autofill) =>
    /\ phase \in {"transformation", "position", "letter", "substitution"} => FilledBy(0)
    /\ phase = "autofill" => FilledBy(n - 1) /\ Settled(n - 1)
    /\ phase = "autofill-letter" => FilledBy(n) /\ Settled(n)
    /\ phase = "locales" /\ n = 1 => Settled(Len(PickFillers(recipe)))

LEMMA FromIs ==
  ASSUME NEW m
  PROVE  /\ \A slug \in STRING :
              /\ <<"autofill", slug>> \in Sources
              /\ From(m)[<<"autofill", slug>>] =
                   IF \E j \in 1..m : PickFillers(recipe)[j].slug = slug THEN Value ELSE {}
         /\ \A st \in Stages \ {"autofill"}, slug \in STRING : From(m)[<<st, slug>>] = Value
<1> DEFINE Source(st, by) == <<st, by>>
           Had(slug) == \E j \in 1..m : PickFillers(recipe)[j].slug = slug
           Val(s) == IF s[1] = "autofill" /\ ~Had(s[2]) THEN {} ELSE Value
<1>1. \A st \in Stages, slug \in STRING :
        /\ Source(st, slug) \in Sources /\ Source(st, slug)[1] = st
        /\ Source(st, slug)[2] = slug
  BY DEF Sources
<1>2. "autofill" \in Stages
  BY DEF Stages
<1>3. \A s \in Sources : From(m)[s] = Val(s)
  BY DEF From
<1> HIDE DEF Source, Had
<1>4. \A slug \in STRING : /\ Source("autofill", slug) \in Sources
                           /\ From(m)[Source("autofill", slug)] = IF Had(slug) THEN Value ELSE {}
  <2> SUFFICES ASSUME NEW slug \in STRING
               PROVE  /\ Source("autofill", slug) \in Sources
                      /\ From(m)[Source("autofill", slug)] = IF Had(slug) THEN Value ELSE {}
    OBVIOUS
  <2> DEFINE s == Source("autofill", slug)
  <2>1. s \in Sources /\ s[1] = "autofill" /\ s[2] = slug
    BY <1>1, <1>2
  <2> HIDE DEF s
  <2>2. From(m)[s] = Val(s)
    BY <2>1, <1>3
  <2>3. Val(s) = IF Had(slug) THEN Value ELSE {}
    BY <2>1
  <2> QED
    BY <2>1, <2>2, <2>3 DEF s
<1>5. \A st \in Stages \ {"autofill"}, slug \in STRING : From(m)[Source(st, slug)] = Value
  BY <1>1, <1>3
<1> QED
  BY <1>4, <1>5 DEF Source, Had

LEMMA FromGrows ==
  ASSUME NEW m \in Nat, NEW c \in Cell, Credited(c, From(m))
  PROVE  Credited(c, From(m + 1))
<1>1. \A s \in Sources : From(m)[s] \subseteq From(m + 1)[s]
  <2>1. 1..m \subseteq 1..(m + 1)
    OBVIOUS
  <2> QED
    BY <2>1 DEF From
<1>2. \A i \in 1..Depth : c.from[i] \in Sources
  BY CellIs
<1> HIDE DEF From
<1> QED
  BY <1>1, <1>2 DEF Credited

\* A merge credits what it writes to the module it writes for.
LEMMA MergeFrom ==
  ASSUME NEW c \in Cell, NEW levels \in Seq(Value), NEW by \in Sources,
         NEW mode \in Modes \union {"autofill"}, NEW G, Value \subseteq G[by], Credited(c, G)
  PROVE  Credited(Merge(c, levels, by, mode), G)
<1>1. ToSet(levels) \subseteq Value
  BY LenProperties, ElementOfSeq DEF ToSet
<1>2. Offered(Pad(levels), by, G)
  BY <1>1, PadOffered
<1> QED
  BY <1>2, MergeIs

\* The stages before the fillers credit what they write to themselves.
LEMMA EarlyCredit ==
  ASSUME LayoutInv, NEW G, \A k \in Key : Credited(out[k], G),
         \A st \in {"transformation", "position", "letter", "substitution"}, slug \in STRING :
           Value \subseteq G[<<st, slug>>],
         Seed \/ Position \/ Substitute \/ \E entry \in todo : PutLetter(entry)
  PROVE  \A k \in Key : Credited(out'[k], G)
<1>1. /\ TypeOK /\ Steps /\ recipe \in Recipes /\ n \in Nat /\ n # 0
      /\ \A k \in Key : out[k] \in Cell /\ Credited(out[k], G)
  BY DEF LayoutInv, TypeOK, Steps
<1>2. ASSUME NEW st \in {"transformation", "position", "letter", "substitution"},
             NEW slug \in STRING
      PROVE  Value \subseteq G[<<st, slug>>]
  OBVIOUS
<1>5. ASSUME NEW overlays, IsKeys(overlays), NEW by \in Sources, NEW mode \in Modes,
             Value \subseteq G[by], out' = WriteOverlays(overlays, by, mode), NEW k \in Key
      PROVE  Credited(out'[k], G)
  <2>1. \/ out'[k] = out[k]
        \/ out'[k] = Merge(out[k], overlays[k], by, mode) /\ overlays[k] \in Seq(Value)
    BY <1>5 DEF WriteOverlays, IsKeys
  <2>2. mode \in Modes \union {"autofill"}
    OBVIOUS
  <2> QED
    BY <1>1, <1>5, <2>1, <2>2, MergeFrom
<1>6. ASSUME Seed, NEW k \in Key PROVE Credited(out'[k], G)
  <2> DEFINE keys == recipe.transformation.keys
             by == <<"transformation", recipe.transformation.slug>>
  <2>1. IsKeys(keys) /\ by \in Sources /\ "force" \in Modes /\ Value \subseteq G[by]
    BY <1>1, <1>2, RecipeIs, GivenIs DEF IsKeys, Modes
  <2>2. out' = WriteOverlays(keys, by, "force")
    BY <1>6 DEF Seed
  <2> HIDE DEF keys, by
  <2> QED
    BY <1>5, <2>1, <2>2
<1>7. ASSUME Position, NEW k \in Key PROVE Credited(out'[k], G)
  <2> DEFINE a == recipe.additions[n]
             by == <<"position", a.slug>>
  <2>1. n \in 1..Len(recipe.additions)
    BY <1>1, <1>7, RecipeIs DEF Position
  <2>2. a \in ToSet(recipe.additions) /\ IsModule(a) /\ a.mode \in Modes
    BY <1>1, <2>1, RecipeIs
  <2>3. out' = WriteOverlays(a.overlays, by, a.mode)
    BY <1>7 DEF Position
  <2> HIDE DEF a
  <2>4. IsKeys(a.overlays) /\ by \in Sources /\ Value \subseteq G[by]
    BY <1>1, <1>2, <2>2, GivenIs DEF IsModule
  <2> HIDE DEF by
  <2> QED
    BY <1>5, <2>2, <2>3, <2>4
<1>8. ASSUME NEW entry \in todo, PutLetter(entry), NEW k \in Key PROVE Credited(out'[k], G)
  <2> DEFINE e == entry[2]
             a == recipe.additions[entry[1]]
             by == <<"letter", a.slug>>
             targets == {h \in KeysFor(e) : e.rank >= claimed[h]}
  <2>1. /\ a \in ToSet(recipe.additions) /\ a.slug \in STRING /\ e \in LetterOverlays
    <3>1. phase = "letter"
      BY <1>8 DEF PutLetter
    <3> QED
      BY <1>1, <3>1, EntryIs DEF Steps
  <2>2. out' = WriteLetter(targets, e.levels, by, e.mode)
    BY <1>8 DEF PutLetter, WriteLetter
  <2> HIDE DEF a, e, targets
  <2>3. /\ e.levels \in Seq(Value) /\ by \in Sources /\ e.mode \in Modes \union {"autofill"}
        /\ Value \subseteq G[by]
    BY <1>1, <1>2, <2>1, GivenIs DEF LetterOverlays
  <2>4. out'[k] = out[k] \/ out'[k] = Merge(out[k], e.levels, by, e.mode)
    BY <2>2 DEF WriteLetter
  <2> HIDE DEF by
  <2> QED
    BY <1>1, <2>3, <2>4, MergeFrom
<1>9. ASSUME Substitute, NEW k \in Key PROVE Credited(out'[k], G)
  <2> DEFINE s == recipe.substitutions[n]
             by == <<"substitution", s.slug>>
  <2>1. n \in 1..Len(recipe.substitutions)
    BY <1>1, <1>9, RecipeIs DEF Substitute
  <2>2. s \in ToSet(recipe.substitutions) /\ s.slug \in STRING /\ Range(s.map) \subseteq Token
    BY <1>1, <2>1, RecipeIs
  <2>3. out'[k] = Replace(out[k], s.map, by)
    BY <1>9 DEF Substitute
  <2> HIDE DEF s
  <2>4. by \in Sources /\ Range(s.map) \subseteq G[by]
    BY <1>1, <1>2, <2>2, GivenIs DEF Value
  <2> HIDE DEF by
  <2> QED
    BY <1>1, <2>2, <2>3, <2>4, ReplaceIs
<1> QED
  BY <1>6, <1>7, <1>8, <1>9

\* Before the fillers nothing is credited to one.
LEMMA BeforeFillers ==
  ASSUME LayoutInv, FilledBy(0),
         Seed \/ Position \/ Substitute \/ \E entry \in todo : PutLetter(entry)
  PROVE  FilledBy(0)'
<1>1. ASSUME NEW st \in {"transformation", "position", "letter", "substitution"},
             NEW slug \in STRING
      PROVE  Value \subseteq From(0)[<<st, slug>>]
  <2>1. st \in Stages \ {"autofill"}
    BY DEF Stages
  <2>2. \A t \in Stages \ {"autofill"}, name \in STRING : From(0)[<<t, name>>] = Value
    BY FromIs, Zenon
  <2>3. From(0)[<<st, slug>>] = Value
    BY <2>1, <2>2, Zenon
  <2> QED
    BY <2>3
<1>2. recipe' = recipe
  BY DEF Seed, Position, Substitute, PutLetter
<1>3. Key' = Key /\ From(0)' = From(0)
  BY <1>2 DEF Key, From
<1>4. \A k \in Key : Credited(out[k], From(0))
  BY DEF FilledBy
<1>5. \A k \in Key : Credited(out'[k], From(0))
  BY <1>1, <1>4, EarlyCredit
<1> QED
  BY <1>3, <1>5 DEF FilledBy

LEMMA FillEarlier ==
  ASSUME LayoutInv, "*" \notin ToSet(recipe.autofill), FilledBy(n - 1), Settled(n - 1), Fill
  PROVE  FilledBy(n)' /\ Settled(n)'
<1> DEFINE F == PickFillers(recipe)
           f == F[n]
           by == <<"autofill", f.slug>>
<1>1. /\ TypeOK /\ recipe \in Recipes /\ n \in Nat /\ n # 0
      /\ \A k \in Key : out[k] \in Cell
  BY DEF LayoutInv, TypeOK, Steps
<1>2. n \in 1..Len(F) /\ f \in ToSet(Catalog) /\ IsModule(f) /\ f.slug \in STRING
  <2>1. n <= Len(F) /\ Len(F) \in Nat
    BY <1>1, FillersAre DEF Fill
  <2>2. n \in 1..Len(F)
    BY <1>1, <2>1
  <2> QED
    BY <1>1, <2>2, FillersAre DEF IsModule
<1>3. /\ out' = WriteOverlays(f.overlays, by, "autofill") /\ UNCHANGED <<recipe, n>>
      /\ phase = "autofill"
  BY DEF Fill
<1>4. Key' = Key /\ F' = F
  BY <1>3 DEF Key
<1>5. \A m : From(m)' = From(m)
  BY <1>3 DEF From
<1>6. \A k \in Key : Credited(out[k], From(n))
  <2>1. n - 1 \in Nat /\ (n - 1) + 1 = n
    BY <1>1
  <2> QED
    BY <1>1, <2>1, FromGrows DEF FilledBy
<1>7. by \in Sources /\ Value \subseteq From(n)[by]
  <2>1. /\ by \in Sources
        /\ From(n)[by] = IF \E j \in 1..n : F[j].slug = f.slug THEN Value ELSE {}
    BY <1>2, FromIs
  <2>2. n \in 1..n /\ F[n].slug = f.slug
    BY <1>1
  <2> QED
    BY <2>1, <2>2
<1>8. \A k \in DOMAIN f.overlays : f.overlays[k] \in Seq(Value)
  BY <1>2 DEF IsModule, IsKeys
<1>9. ASSUME NEW k \in Key PROVE Credited(out'[k], From(n))
  <2> HIDE DEF by, f
  <2>1. \/ out'[k] = out[k]
        \/ /\ k \in DOMAIN f.overlays
           /\ out'[k] = Merge(out[k], f.overlays[k], by, "autofill")
    BY <1>3 DEF WriteOverlays
  <2>2. "autofill" \in Modes \union {"autofill"}
    OBVIOUS
  <2> QED
    BY <1>1, <1>6, <1>7, <1>8, <2>1, <2>2, MergeFrom
<1>10. FilledBy(n)'
  BY <1>3, <1>4, <1>5, <1>9 DEF FilledBy
<1>11. ASSUME NEW j \in 1..n, NEW k \in Key \intersect DOMAIN F[j].overlays, NEW i \in 1..Depth,
              Pad(F[j].overlays[k])[i] # Empty
       PROVE  /\ out'[k].levels[i] # Empty
              /\ \A h \in j + 1 .. Len(F) : out'[k].from[i] # <<"autofill", F[h].slug>>
  <2>1. CASE j # n
    <3>1. j \in 1..(n - 1)
      BY <1>1, <2>1
    <3>2. /\ out[k].levels[i] # Empty
          /\ \A h \in j + 1 .. Len(F) : out[k].from[i] # <<"autofill", F[h].slug>>
      BY <1>11, <3>1 DEF Settled
    <3>3. out'[k].levels[i] = out[k].levels[i] /\ out'[k].from[i] = out[k].from[i]
      <4>1. OnlyAdds
        <5>1. [Next]_vars
          BY DEF Next
        <5> QED
          BY <5>1, StepAdds
      <4> QED
        BY <1>3, <3>2, <4>1 DEF OnlyAdds
    <3> QED
      BY <3>2, <3>3
  <2>2. CASE j = n
    <3> HIDE DEF by
    <3> DEFINE overlay == Pad(f.overlays[k])
               free == {g \in 1..Depth : out[k].levels[g] = Empty /\ overlay[g] # Empty}
               L == [g \in 1..Depth |-> IF g \in free THEN overlay[g] ELSE out[k].levels[g]]
               S == [g \in 1..Depth |-> IF g \in free THEN by ELSE out[k].from[g]]
    <3>1. out'[k] = [levels |-> L, from |-> S]
      <4>1. out'[k] = Merge(out[k], f.overlays[k], by, "autofill")
        BY <1>3, <2>2 DEF WriteOverlays
      <4> QED
        BY <4>1 DEF Merge, FillEmpty
    <3>2. L[i] # Empty
      <4>1. overlay[i] # Empty
        BY <1>11, <2>2
      <4> HIDE DEF overlay
      <4> QED
        BY <4>1
    <3> HIDE DEF L, S
    <3>3. out'[k].levels[i] # Empty
      BY <3>1, <3>2
    <3>4. ASSUME NEW h \in j + 1 .. Len(F), out'[k].from[i] = <<"autofill", F[h].slug>>
          PROVE  FALSE
      <4>1. h \in 1..Len(F) /\ h # n /\ \A g \in 1..n : g # h /\ g \in 1..Len(F)
        BY <1>1, <1>2, <2>2
      <4>2. F[h] \in ToSet(Catalog) /\ F[h].slug \in STRING
        BY <1>1, <4>1, FillersAre DEF IsModule
      <4>3. \A g \in 1..n : F[g].slug # F[h].slug
        <5> SUFFICES ASSUME NEW g \in 1..n, F[g].slug = F[h].slug PROVE FALSE
          OBVIOUS
        <5>1. F[g] \in ToSet(Catalog)
          BY <1>1, <4>1, FillersAre
        <5>2. F[g] = F[h]
          BY <4>2, <5>1, LayoutAssumption
        <5>3. Distinct(F)
          BY <1>1, FillerOrder
        <5> QED
          BY <4>1, <5>2, <5>3 DEF Distinct
      <4>4. From(n)[<<"autofill", F[h].slug>>] = {}
        <5>1. From(n)[<<"autofill", F[h].slug>>] =
                IF \E g \in 1..n : F[g].slug = F[h].slug THEN Value ELSE {}
          BY <4>2, FromIs
        <5> QED
          BY <4>3, <5>1
      <4>5. out'[k].from[i] # Unknown
        <5>1. <<"autofill", F[h].slug>>[1] = "autofill" /\ Unknown[1] = Empty
          BY DEF Unknown
        <5>2. "autofill" # Empty
          BY Zenon DEF Empty
        <5> QED
          BY <3>4, <5>1, <5>2
      <4>6. out'[k].levels[i] \in From(n)[out'[k].from[i]]
        BY <1>9, <4>5 DEF Credited
      <4> QED
        BY <3>4, <4>4, <4>6
    <3> QED
      BY <3>3, <3>4
  <2> QED
    BY <2>1, <2>2
<1> HIDE DEF f, by
<1>12. ASSUME NEW m, m = n PROVE Settled(m)'
  <2>1. Key' = Key /\ PickFillers(recipe)' = PickFillers(recipe)
    BY <1>4
  <2>2. \A j \in 1..m : \A k \in Key \intersect DOMAIN F[j].overlays, i \in 1..Depth :
          Pad(F[j].overlays[k])[i] # Empty =>
            /\ out'[k].levels[i] # Empty
            /\ \A h \in j + 1 .. Len(F) : out'[k].from[i] # <<"autofill", F[h].slug>>
    BY <1>11, <1>12
  <2> QED
    BY <2>1, <2>2 DEF Settled, Pad
<1>13. \A m : m = n => (Settled(m)' <=> Settled(n)')
  BY <1>3 DEF Settled
<1>14. Settled(n)'
  BY <1>12, <1>13
<1> QED
  BY <1>10, <1>14

\* What is settled stays while levels are only added.
LEMMA SettledStays ==
  ASSUME recipe' = recipe, NEW m, Settled(m),
         \A k \in Key, i \in 1..Depth :
           out[k].levels[i] # Empty =>
             out'[k].levels[i] = out[k].levels[i] /\ out'[k].from[i] = out[k].from[i]
  PROVE  Settled(m)'
<1>1. Key' = Key /\ PickFillers(recipe)' = PickFillers(recipe)
  BY DEF Key
<1> DEFINE F == PickFillers(recipe)
<1>2. ASSUME NEW j \in 1..m, NEW k \in Key \intersect DOMAIN F[j].overlays, NEW i \in 1..Depth,
             Pad(F[j].overlays[k])[i] # Empty
      PROVE  /\ out'[k].levels[i] # Empty
             /\ \A h \in j + 1 .. Len(F) : out'[k].from[i] # <<"autofill", F[h].slug>>
  <2>1. /\ out[k].levels[i] # Empty
        /\ \A h \in j + 1 .. Len(F) : out[k].from[i] # <<"autofill", F[h].slug>>
    BY <1>2 DEF Settled
  <2> QED
    BY <2>1
<1> QED
  BY <1>1, <1>2 DEF Settled, Pad

LEMMA FillsStay ==
  ASSUME UNCHANGED <<recipe, out>>
  PROVE  \A m : (FilledBy(m) => FilledBy(m)') /\ (Settled(m) => Settled(m)')
<1>1. Key' = Key
  BY DEF Key
<1>2. \A m : From(m)' = From(m)
  BY DEF From
<1>3. \A m : FilledBy(m) => FilledBy(m)'
  BY <1>1, <1>2 DEF FilledBy
<1>4. ASSUME NEW m, Settled(m) PROVE Settled(m)'
  BY <1>4, SettledStays
<1> QED
  BY <1>3, <1>4

LEMMA FillLetterEarlier ==
  ASSUME LayoutInv, FilledBy(n), Settled(n), NEW entry \in todo, FillLetter(entry)
  PROVE  FilledBy(n)' /\ Settled(n)'
<1> DEFINE e == entry[2]
           f == PickFillers(recipe)[n]
           by == <<"autofill", f.slug>>
<1>1. /\ TypeOK /\ Steps /\ recipe \in Recipes /\ n \in Nat /\ n # 0
      /\ phase = "autofill-letter" /\ UNCHANGED <<recipe, n>>
      /\ \A k \in Key : out[k] \in Cell /\ Credited(out[k], From(n))
  BY DEF LayoutInv, TypeOK, Steps, FillLetter, FilledBy
<1>2. f \in ToSet(Catalog) /\ e \in LetterOverlays /\ f.slug \in STRING
  <2>1. n <= Len(PickFillers(recipe)) /\ entry \in Entries(f, n)
    BY <1>1 DEF Steps
  <2>2. n \in 1..Len(PickFillers(recipe))
    BY <1>1, <2>1, FillersAre
  <2>3. f \in ToSet(Catalog) /\ IsModule(f)
    BY <1>1, <2>2, FillersAre
  <2>4. e \in f.letters
    BY <2>1 DEF Entries
  <2> QED
    BY <2>3, <2>4 DEF IsModule
<1>3. out' = WriteLetter(KeysFor(e), e.levels, by, "autofill")
  BY DEF FillLetter, WriteLetter
<1>4. by \in Sources /\ Value \subseteq From(n)[by]
  <2>1. /\ by \in Sources
        /\ From(n)[by] =
             IF \E j \in 1..n : PickFillers(recipe)[j].slug = f.slug THEN Value ELSE {}
    BY <1>2, FromIs
  <2>2. n \in 1..n
    BY <1>1
  <2> QED
    BY <2>1, <2>2
<1> HIDE DEF e, f, by
<1>5. e.levels \in Seq(Value) /\ "autofill" \in Modes \union {"autofill"}
  BY <1>2 DEF LetterOverlays
<1>6. ASSUME NEW k \in Key PROVE Credited(out'[k], From(n))
  <2>1. out'[k] = out[k] \/ out'[k] = Merge(out[k], e.levels, by, "autofill")
    BY <1>3 DEF WriteLetter
  <2> QED
    BY <1>1, <1>4, <1>5, <2>1, MergeFrom
<1>7. Key' = Key /\ From(n)' = From(n)
  BY <1>1 DEF Key, From
<1>8. FilledBy(n)'
  BY <1>1, <1>6, <1>7 DEF FilledBy
<1>9. \A k \in Key, i \in 1..Depth :
        out[k].levels[i] # Empty =>
          out'[k].levels[i] = out[k].levels[i] /\ out'[k].from[i] = out[k].from[i]
  <2>1. [Next]_vars
    BY DEF Next
  <2>2. OnlyAdds
    BY <2>1, StepAdds
  <2> QED
    BY <1>1, <2>2 DEF OnlyAdds
<1>10. \A m : m = n => Settled(m)'
  BY <1>1, <1>9, SettledStays
<1>11. \A m : m = n => (Settled(m)' <=> Settled(n)')
  BY <1>1 DEF Settled
<1> QED
  BY <1>8, <1>10, <1>11

LEMMA FillOrderKept == LayoutInv /\ FillOrder /\ [Next]_vars => FillOrder'
<1> SUFFICES ASSUME LayoutInv, FillOrder, [Next]_vars PROVE FillOrder'
  OBVIOUS
<1>0. n \in Nat /\ n # 0 /\ recipe \in Recipes
  BY DEF LayoutInv, TypeOK, Steps
<1>1. recipe' = recipe
  BY DEF Next, vars, Seed, Position, BeginLetters, EndLetters, Substitute, EndSubstitutions,
         PutLetter, FillLetter, Fill, EndFiller, EndFill, BeginLocale, PlaceNext, EndLocale,
         Return
<1>2. SUFFICES ASSUME "*" \notin ToSet(recipe.autofill)
               PROVE  /\ phase' \in {"transformation", "position", "letter", "substitution"} =>
                           FilledBy(0)'
                      /\ phase' = "autofill" => (FilledBy(n - 1) /\ Settled(n - 1))'
                      /\ phase' = "autofill-letter" => (FilledBy(n) /\ Settled(n))'
                      /\ phase' = "locales" /\ n' = 1 =>
                           Settled(Len(PickFillers(recipe)))'
  BY <1>1 DEF FillOrder
<1>3. \A a : \A b : a = b => (FilledBy(a)' <=> FilledBy(b)') /\ (Settled(a)' <=> Settled(b)')
  BY DEF FilledBy, Settled, From
<1>4. ASSUME UNCHANGED vars
      PROVE  /\ phase' \in {"transformation", "position", "letter", "substitution"} =>
                  FilledBy(0)'
             /\ phase' = "autofill" => (FilledBy(n - 1) /\ Settled(n - 1))'
             /\ phase' = "autofill-letter" => (FilledBy(n) /\ Settled(n))'
             /\ phase' = "locales" /\ n' = 1 => Settled(Len(PickFillers(recipe)))'
  <2>1. UNCHANGED <<recipe, out, phase, n>>
    BY <1>4 DEF vars
  <2>2. \A m : (FilledBy(m) => FilledBy(m)') /\ (Settled(m) => Settled(m)')
    BY <2>1, FillsStay
  <2>3. n' - 1 = n - 1 /\ n' = n /\ recipe' = recipe
    BY <2>1
  <2>4. \A m : m = n - 1 => (FilledBy(m)' <=> FilledBy(n - 1)') /\ (Settled(m)' <=> Settled(n - 1)')
    BY <2>3 DEF FilledBy, Settled, From
  <2>5. \A m : m = n => (FilledBy(m)' <=> FilledBy(n)') /\ (Settled(m)' <=> Settled(n)')
    BY <2>3 DEF FilledBy, Settled, From
  <2>6. \A m : m = Len(PickFillers(recipe)) =>
              (Settled(m)' <=> Settled(Len(PickFillers(recipe)))')
    BY <2>3 DEF Settled
  <2>7. FilledBy(0) => FilledBy(0)'
    BY <2>2
  <2>8. FilledBy(n - 1) /\ Settled(n - 1) => (FilledBy(n - 1) /\ Settled(n - 1))'
    BY <2>2, <2>4
  <2>9. FilledBy(n) /\ Settled(n) => (FilledBy(n) /\ Settled(n))'
    BY <2>2, <2>5
  <2>10. Settled(Len(PickFillers(recipe))) => Settled(Len(PickFillers(recipe)))'
    BY <2>2, <2>6
  <2> QED
    BY <1>2, <2>1, <2>7, <2>8, <2>9, <2>10 DEF FillOrder
<1>5. CASE Seed \/ Position \/ Substitute \/ \E entry \in todo : PutLetter(entry)
  <2>1. /\ phase \in {"transformation", "position", "letter", "substitution"}
        /\ phase' \in {"position", "letter", "substitution"}
    BY <1>5 DEF Seed, Position, Substitute, PutLetter
  <2>2. FilledBy(0)'
    BY <1>2, <1>5, <2>1, BeforeFillers DEF FillOrder
  <2> QED
    BY <2>1, <2>2
<1>6. CASE BeginLetters \/ EndLetters
  <2>1. /\ phase \in {"position", "letter"} /\ phase' \in {"letter", "substitution"}
        /\ UNCHANGED <<recipe, out>>
    BY <1>6 DEF BeginLetters, EndLetters
  <2>2. FilledBy(0)'
    BY <1>2, <2>1, FillsStay DEF FillOrder
  <2> QED
    BY <2>1, <2>2
<1>7. CASE EndSubstitutions
  <2>1. phase = "substitution" /\ phase' = "autofill" /\ n' = 1 /\ UNCHANGED <<recipe, out>>
    BY <1>7 DEF EndSubstitutions
  <2>2. FilledBy(0) /\ Settled(0)
    BY <1>2, <2>1 DEF FillOrder, Settled
  <2>3. FilledBy(0)' /\ Settled(0)'
    BY <2>1, <2>2, FillsStay
  <2>4. n' - 1 = 0
    BY <2>1
  <2>5. (FilledBy(n - 1) /\ Settled(n - 1))'
    BY <2>3, <2>4 DEF FilledBy, Settled, From
  <2> QED
    BY <2>1, <2>5
<1>8. CASE Fill
  <2>1. phase = "autofill" /\ phase' = "autofill-letter" /\ n' = n
    BY <1>8 DEF Fill
  <2>2. (FilledBy(n) /\ Settled(n))'
    BY <1>2, <1>8, <2>1, FillEarlier DEF FillOrder
  <2> QED
    BY <2>1, <2>2
<1>9. ASSUME NEW entry \in todo, FillLetter(entry)
      PROVE  phase' = "autofill-letter" /\ (FilledBy(n) /\ Settled(n))'
  <2>1. phase = "autofill-letter" /\ phase' = "autofill-letter"
    BY <1>9 DEF FillLetter
  <2> QED
    BY <1>2, <1>9, <2>1, FillLetterEarlier DEF FillOrder
<1>10. CASE EndFiller
  <2>1. phase = "autofill-letter" /\ phase' = "autofill" /\ n' = n + 1 /\ UNCHANGED <<recipe, out>>
    BY <1>10 DEF EndFiller
  <2>2. FilledBy(n) /\ Settled(n)
    BY <1>2, <2>1 DEF FillOrder
  <2>3. \A m : (FilledBy(m) => FilledBy(m)') /\ (Settled(m) => Settled(m)')
    BY <2>1, FillsStay
  <2>4. \A m : m = n => FilledBy(m)' /\ Settled(m)'
    BY <2>2, <2>3
  <2>5. n' - 1 = n
    BY <1>0, <2>1
  <2>6. \A m : m = n => (FilledBy(m)' <=> FilledBy(n - 1)') /\ (Settled(m)' <=> Settled(n - 1)')
    BY <2>5 DEF FilledBy, Settled, From
  <2> QED
    BY <2>1, <2>4, <2>6
<1>11. CASE EndFill
  <2>1. /\ phase = "autofill" /\ phase' = "locales" /\ UNCHANGED <<recipe, out>>
        /\ n > Len(PickFillers(recipe))
    BY <1>11 DEF EndFill
  <2>2. Settled(n - 1) /\ Len(PickFillers(recipe)) \in Nat
    BY <1>0, <1>2, <2>1, FillersAre DEF FillOrder
  <2>3. 1..Len(PickFillers(recipe)) \subseteq 1..(n - 1)
    BY <1>0, <2>1, <2>2
  <2>4. Settled(Len(PickFillers(recipe)))
    BY <2>2, <2>3 DEF Settled
  <2>5. \A m : Settled(m) => Settled(m)'
    BY <2>1, FillsStay
  <2>6. \A m : m = Len(PickFillers(recipe)) =>
              (Settled(m)' <=> Settled(Len(PickFillers(recipe)))')
    BY <2>1 DEF Settled
  <2>7. Settled(Len(PickFillers(recipe)))'
    BY <2>4, <2>5, <2>6
  <2> QED
    BY <2>1, <2>7
<1>12. CASE BeginLocale \/ PlaceNext \/ Return
  <2>1. phase' \in {"place", "done"}
    BY <1>12 DEF BeginLocale, PlaceNext, Return
  <2> QED
    BY <2>1
<1>13. CASE EndLocale
  <2>1. phase' = "locales" /\ n' # 1
    BY <1>0, <1>13 DEF EndLocale
  <2> QED
    BY <2>1
<1> QED
  BY <1>4, <1>5, <1>6, <1>7, <1>8, <1>9, <1>10, <1>11, <1>12, <1>13 DEF Next

\* Of two fillers that offer a symbol for one level, the one whose category was
\* asked for first has it, for every catalog and every list of categories.
THEOREM CategoryOrderCounts == Spec => []EarlierCategoryWins
<1>1. Init => FillOrder
  <2> SUFFICES ASSUME Init PROVE FillOrder
    OBVIOUS
  <2>1. \A G : Credited(Blank, G)
    BY DEF Credited, Blank
  <2>2. FilledBy(0)
    BY <2>1 DEF FilledBy, Init
  <2>3. phase = "transformation"
    BY DEF Init
  <2> QED
    BY <2>2, <2>3 DEF FillOrder
<1>2. LayoutInv /\ FillOrder => EarlierCategoryWins
  <2> DEFINE Asked(f) ==
               {i \in DOMAIN Categories(recipe) : Categories(recipe)[i] \in f.categories}
             F == PickFillers(recipe)
  <2> SUFFICES ASSUME LayoutInv, FillOrder, phase = "locales", n = 1,
                      "*" \notin ToSet(recipe.autofill),
                      NEW f \in ToSet(Catalog), NEW g \in ToSet(Catalog),
                      Asked(f) # {}, Asked(g) # {}, Min(Asked(g)) < Min(Asked(f)),
                      NEW k \in Key \intersect DOMAIN g.overlays, NEW i \in 1..Depth,
                      Pad(g.overlays[k])[i] # Empty
               PROVE  out[k].from[i] # <<"autofill", f.slug>>
    BY DEF EarlierCategoryWins
  <2>1. recipe \in Recipes /\ Settled(Len(F))
    BY DEF LayoutInv, TypeOK, FillOrder
  <2>2. PICK a, b \in 1..Len(F) : a < b /\ F[a] = g /\ F[b] = f
    BY <2>1, FillerOrder
  <2>3. Len(F) \in Nat
    BY <2>1, FillersAre
  <2>4. \A h \in a + 1 .. Len(F) : out[k].from[i] # <<"autofill", F[h].slug>>
    <3> HIDE DEF F
    <3> QED
      BY <2>1, <2>2 DEF Settled, F
  <2>5. b \in a + 1 .. Len(F)
    BY <2>2, <2>3
  <2> QED
    BY <2>2, <2>4, <2>5
<1> QED
  BY <1>1, <1>2, LayoutInvHolds, FillOrderKept, PTL DEF Spec

(***************************************************************************)
(* The order of the locale fill.                                           *)

\* A table in which the locale fill has put nothing.
NotLocale == [s \in Sources |-> IF s[1] = "locale-fill" THEN {} ELSE Value]
Unplaced == \A k \in Key : Credited(out[k], NotLocale)

LEMMA NotLocaleIs ==
  /\ \A st \in Stages \ {"locale-fill"}, slug \in STRING : Value \subseteq NotLocale[<<st, slug>>]
  /\ \A code \in STRING : NotLocale[<<"locale-fill", code>>] = {}
<1> DEFINE Source(st, by) == <<st, by>>
<1>1. \A st \in Stages, slug \in STRING :
        /\ Source(st, slug) \in Sources /\ Source(st, slug)[1] = st
  BY DEF Sources
<1>2. "locale-fill" \in Stages
  BY DEF Stages
<1>3. \A s \in Sources : NotLocale[s] = IF s[1] = "locale-fill" THEN {} ELSE Value
  BY DEF NotLocale
<1> HIDE DEF Source
<1>4. \A st \in Stages \ {"locale-fill"}, slug \in STRING :
        Value \subseteq NotLocale[Source(st, slug)]
  BY <1>1, <1>3
<1>5. \A code \in STRING : NotLocale[Source("locale-fill", code)] = {}
  BY <1>1, <1>2, <1>3
<1> QED
  BY <1>4, <1>5 DEF Source

\* No stage before the locales writes in the name of one.
LEMMA UnplacedKept ==
  ASSUME LayoutInv, Unplaced, [Next]_vars, phase \notin {"locales", "place", "done"}
  PROVE  Unplaced'
<1>1. /\ TypeOK /\ Steps /\ recipe \in Recipes /\ n \in Nat /\ n # 0
      /\ \A k \in Key : out[k] \in Cell /\ Credited(out[k], NotLocale)
  BY DEF LayoutInv, TypeOK, Steps, Unplaced
<1>2. ASSUME UNCHANGED <<recipe, out>> PROVE Unplaced'
  <2>1. Key' = Key
    BY <1>2 DEF Key
  <2> QED
    BY <1>1, <1>2, <2>1 DEF Unplaced
<1>3. CASE Seed \/ Position \/ Substitute \/ \E entry \in todo : PutLetter(entry)
  <2>1. \A st \in {"transformation", "position", "letter", "substitution"}, slug \in STRING :
          Value \subseteq NotLocale[<<st, slug>>]
    <3>1. {"transformation", "position", "letter", "substitution"} \subseteq
            Stages \ {"locale-fill"}
      BY DEF Stages
    <3> QED
      BY <3>1, NotLocaleIs, Zenon
  <2>2. \A k \in Key : Credited(out'[k], NotLocale)
    BY <1>1, <1>3, <2>1, EarlyCredit
  <2>3. Key' = Key
    BY <1>3 DEF Key, Seed, Position, Substitute, PutLetter
  <2> QED
    BY <2>2, <2>3 DEF Unplaced
<1>4. ASSUME NEW f, f = PickFillers(recipe)[n], n <= Len(PickFillers(recipe))
      PROVE  /\ IsModule(f) /\ <<"autofill", f.slug>> \in Sources
             /\ Value \subseteq NotLocale[<<"autofill", f.slug>>]
  <2>1. n \in 1..Len(PickFillers(recipe))
    BY <1>1, <1>4, FillersAre
  <2>2. f \in ToSet(Catalog) /\ IsModule(f) /\ f.slug \in STRING
    BY <1>1, <1>4, <2>1, FillersAre DEF IsModule
  <2>3. "autofill" \in Stages \ {"locale-fill"}
    BY DEF Stages
  <2>4. \A slug \in STRING : Value \subseteq NotLocale[<<"autofill", slug>>]
    BY <2>3, NotLocaleIs, Zenon
  <2>5. <<"autofill", f.slug>> \in Sources
    BY <1>1, <2>2, GivenIs
  <2> QED
    BY <2>2, <2>4, <2>5
<1>5. CASE Fill
  <2>1. PICK f : f = PickFillers(recipe)[n]
    OBVIOUS
  <2>2. /\ out' = WriteOverlays(f.overlays, <<"autofill", f.slug>>, "autofill")
        /\ recipe' = recipe /\ n <= Len(PickFillers(recipe))
    BY <1>5, <2>1 DEF Fill
  <2>3. PICK by : by = <<"autofill", f.slug>>
    OBVIOUS
  <2>4. by \in Sources /\ Value \subseteq NotLocale[by] /\ IsKeys(f.overlays)
    BY <1>4, <2>1, <2>2, <2>3 DEF IsModule
  <2>5. ASSUME NEW k \in Key PROVE Credited(out'[k], NotLocale)
    <3>1. \/ out'[k] = out[k]
          \/ /\ k \in DOMAIN f.overlays
             /\ out'[k] = Merge(out[k], f.overlays[k], by, "autofill")
      BY <2>2, <2>3 DEF WriteOverlays
    <3>2. k \in DOMAIN f.overlays => f.overlays[k] \in Seq(Value)
      BY <2>4 DEF IsKeys
    <3>3. "autofill" \in Modes \union {"autofill"}
      OBVIOUS
    <3> QED
      BY <1>1, <2>4, <3>1, <3>2, <3>3, MergeFrom
  <2>6. Key' = Key
    BY <2>2 DEF Key
  <2> QED
    BY <2>5, <2>6 DEF Unplaced
<1>6. ASSUME NEW entry \in todo, FillLetter(entry) PROVE Unplaced'
  <2>1. PICK e : e = entry[2]
    OBVIOUS
  <2>2. PICK f : f = PickFillers(recipe)[n]
    OBVIOUS
  <2>3. PICK by : by = <<"autofill", f.slug>>
    OBVIOUS
  <2>4. /\ phase = "autofill-letter" /\ recipe' = recipe
        /\ out' = WriteLetter(KeysFor(e), e.levels, by, "autofill")
    BY <1>6, <2>1, <2>2, <2>3 DEF FillLetter, WriteLetter
  <2>5. n <= Len(PickFillers(recipe)) /\ entry \in Entries(f, n)
    BY <1>1, <2>2, <2>4 DEF Steps
  <2>6. IsModule(f) /\ by \in Sources /\ Value \subseteq NotLocale[by]
    BY <1>4, <2>2, <2>3, <2>5
  <2>7. e \in f.letters
    BY <2>1, <2>5 DEF Entries
  <2>8. e.levels \in Seq(Value) /\ "autofill" \in Modes \union {"autofill"}
    BY <2>6, <2>7 DEF IsModule, LetterOverlays
  <2>9. ASSUME NEW k \in Key PROVE Credited(out'[k], NotLocale)
    <3>1. out'[k] = out[k] \/ out'[k] = Merge(out[k], e.levels, by, "autofill")
      BY <2>4 DEF WriteLetter
    <3> QED
      BY <1>1, <2>6, <2>8, <3>1, MergeFrom
  <2>10. Key' = Key
    BY <2>4 DEF Key
  <2> QED
    BY <2>9, <2>10 DEF Unplaced
<1>7. CASE BeginLetters \/ EndLetters \/ EndSubstitutions \/ EndFiller \/ EndFill
  BY <1>2, <1>7 DEF BeginLetters, EndLetters, EndSubstitutions, EndFiller, EndFill
<1>8. CASE BeginLocale \/ PlaceNext \/ EndLocale \/ Return
  BY <1>8 DEF BeginLocale, PlaceNext, EndLocale, Return
<1>9. CASE UNCHANGED vars
  BY <1>2, <1>9 DEF vars
<1> QED
  BY <1>3, <1>5, <1>6, <1>7, <1>8, <1>9 DEF Next

\* What the fill of locale l put on key k, whether something is there, and
\* whether a character has a key of its own.
Placed(l, k) ==
  CharsOf({out[k].levels[i] : i \in {j \in 1..Cap : out[k].from[j] = <<"locale-fill", l.code>>}})
HasHome(ch) == Home(ch) # {}

LEMMA PlacedIs ==
  ASSUME NEW l, NEW k
  PROVE  \A ch : ch \in Placed(l, k) <=>
           \E i \in 1..Cap : /\ out[k].from[i] = <<"locale-fill", l.code>>
                             /\ out[k].levels[i] \in DOMAIN Decode
                             /\ Decode[out[k].levels[i]] = ch
BY DEF Placed, CharsOf

LEMMA NothingPlaced ==
  ASSUME LayoutInv, Unplaced, NEW l, l.code \in STRING, NEW k \in Key
  PROVE  Placed(l, k) = {}
<1> SUFFICES ASSUME NEW i \in 1..Cap, out[k].from[i] = <<"locale-fill", l.code>> PROVE FALSE
  BY PlacedIs
<1>1. i \in 1..Depth
  BY CellIs
<1>2. out[k].from[i] # Unknown
  <2>1. <<"locale-fill", l.code>>[1] = "locale-fill" /\ Unknown[1] = Empty
    BY DEF Unknown
  <2>2. "locale-fill" # Empty
    BY Zenon DEF Empty
  <2> QED
    BY <2>1, <2>2
<1>3. out[k].levels[i] \in NotLocale[out[k].from[i]]
  BY <1>1, <1>2 DEF Unplaced, Credited
<1> QED
  BY <1>3, NotLocaleIs

\* The queue of a locale: characters with a key of their own come first.
HomedFirst(s) == \A i, j \in 1..Len(s) : i < j /\ HasHome(s[j]) => HasHome(s[i])

LEMMA SortedHomedFirst ==
  ASSUME NEW s \in Seq(Char)
  PROVE  HomedFirst(SortByAnchor(s))
<1> DEFINE homed == {ch \in ToSet(s) : Home(ch) # {}}
           related == {ch \in ToSet(s) \ homed : Relatives(ch) # {}}
           rest == ToSet(s) \ (homed \union related)
           A == Those(s, homed)
           B == Those(s, related)
           C == Those(s, rest)
<1>1. SortByAnchor(s) = A \o B \o C
  BY DEF SortByAnchor
<1>2. /\ \A ch \in homed : HasHome(ch)
      /\ \A ch \in related \union rest : ~HasHome(ch)
  BY DEF HasHome
<1>3. /\ A \in Seq(Char) /\ ToSet(A) \subseteq homed
      /\ B \in Seq(Char) /\ ToSet(B) \subseteq related
      /\ C \in Seq(Char) /\ ToSet(C) \subseteq rest
  <2>1. \A S : Those(s, S) \in Seq(Char) /\ ToSet(Those(s, S)) = ToSet(s) \intersect S
    BY ThoseIs
  <2> HIDE DEF homed, related, rest
  <2> QED
    BY <2>1
<1> HIDE DEF homed, related, rest, A, B, C
<1>4. PICK u : u = B \o C
  OBVIOUS
<1>5. u \in Seq(Char) /\ ToSet(u) \subseteq related \union rest
  BY <1>3, <1>4, ConcatSet
<1>6. SortByAnchor(s) = A \o u
  <2>1. A \o B \o C = A \o (B \o C)
    BY <1>3, ConcatAssociative
  <2> QED
    BY <1>1, <1>4, <2>1
<1>7. /\ Len(A) \in Nat /\ Len(u) \in Nat /\ Len(A \o u) = Len(A) + Len(u)
      /\ \A i \in 1..Len(A) + Len(u) :
           (A \o u)[i] = IF i <= Len(A) THEN A[i] ELSE u[i - Len(A)]
      /\ \A i \in 1..Len(A) : A[i] \in ToSet(A)
      /\ \A i \in 1..Len(u) : u[i] \in ToSet(u)
  BY <1>3, <1>5, LenProperties, ConcatProperties DEF ToSet
<1> SUFFICES ASSUME NEW i \in 1..Len(A \o u), NEW j \in 1..Len(A \o u), i < j,
                    HasHome((A \o u)[j])
             PROVE  HasHome((A \o u)[i])
  BY <1>6 DEF HomedFirst
<1>8. j <= Len(A)
  <2> SUFFICES ASSUME ~(j <= Len(A)) PROVE FALSE
    OBVIOUS
  <2>1. j - Len(A) \in 1..Len(u) /\ (A \o u)[j] = u[j - Len(A)]
    BY <1>7
  <2>2. (A \o u)[j] \in related \union rest
    BY <1>5, <1>7, <2>1
  <2> QED
    BY <1>2, <2>2
<1>9. i \in 1..Len(A) /\ (A \o u)[i] = A[i]
  BY <1>7, <1>8
<1> QED
  BY <1>2, <1>3, <1>7, <1>9

LEMMA HomedFirstTail ==
  ASSUME NEW s \in Seq(Char), s # <<>>, HomedFirst(s)
  PROVE  /\ HomedFirst(Tail(s))
         /\ (\E ch \in ToSet(Tail(s)) : HasHome(ch)) => HasHome(Head(s))
<1>1. Len(s) \in Nat /\ Len(s) # 0 /\ Head(s) = s[1]
  BY LenProperties, EmptySeq, HeadTailProperties
<1>2. /\ Tail(s) \in Seq(Char) /\ Len(Tail(s)) = Len(s) - 1
      /\ \A i \in 1..Len(Tail(s)) : Tail(s)[i] = s[i + 1]
  BY HeadTailProperties
<1>3. DOMAIN Tail(s) = 1..Len(Tail(s))
  BY <1>2, LenProperties
<1>4. \A i \in 1..Len(Tail(s)) : i + 1 \in 1..Len(s) /\ 1 \in 1..Len(s) /\ 1 < i + 1
  BY <1>1, <1>2
<1>5. HomedFirst(Tail(s))
  <2> SUFFICES ASSUME NEW i \in 1..Len(Tail(s)), NEW j \in 1..Len(Tail(s)), i < j,
                      HasHome(Tail(s)[j])
               PROVE  HasHome(Tail(s)[i])
    BY DEF HomedFirst
  <2>1. i + 1 < j + 1
    BY <1>1, <1>2
  <2>2. HasHome(s[j + 1]) => HasHome(s[i + 1])
    BY <1>4, <2>1 DEF HomedFirst
  <2> QED
    BY <1>2, <2>2
<1>6. ASSUME NEW ch \in ToSet(Tail(s)), HasHome(ch) PROVE HasHome(Head(s))
  <2>1. PICK j \in 1..Len(Tail(s)) : ch = Tail(s)[j]
    BY <1>3 DEF ToSet
  <2>2. HasHome(s[j + 1])
    BY <1>2, <1>6, <2>1
  <2> QED
    BY <1>1, <1>4, <2>2 DEF HomedFirst
<1> QED
  BY <1>5, <1>6

\* The place of a character is on a key of its own if one of these has room.
LEMMA PlaceIsNearest ==
  ASSUME recipe \in Recipes, NEW ch, NEW k \in PlaceFor(ch)
  PROVE  k \in Home(ch) \/ \A h \in Home(ch) : Free(h) = {}
<1> DEFINE phys == recipe.physical
           open == {i \in DOMAIN phys : Free(phys[i]) # {}}
           D(i) == Distance(phys[i], ch)
           near == {i \in open : \A j \in open : D(i) <= D(j)}
           S == {D(i) : i \in open}
<1>1. DOMAIN phys = 1..Len(phys) /\ Key = {phys[i] : i \in DOMAIN phys}
  BY RecipeIs, LenProperties DEF Key, ToSet
<1>2. open # {} /\ k = phys[Min(near)]
  BY DEF PlaceFor
<1>3. \A i : /\ D(i) \in Nat /\ D(i) >= 1
             /\ D(i) = 1 <=> phys[i] \in Home(ch)
  BY DEF Distance
<1>4. S \in SUBSET Nat /\ S # {}
  BY <1>2, <1>3
<1>5. Min(S) \in S /\ \A m \in S : Min(S) <= m
  BY <1>4, MinIs
<1>6. near \in SUBSET Nat /\ near # {}
  <2> HIDE DEF D
  <2>1. PICK i \in open : Min(S) = D(i)
    BY <1>5
  <2>2. i \in near
    BY <1>5, <2>1
  <2>3. near \subseteq open /\ open \subseteq DOMAIN phys
    OBVIOUS
  <2> HIDE DEF near, open
  <2> QED
    BY <1>1, <2>2, <2>3
<1>7. Min(near) \in near
  <2> HIDE DEF near
  <2> QED
    BY <1>6, MinIs
<1> SUFFICES ASSUME NEW h \in Home(ch), Free(h) # {} PROVE k \in Home(ch)
  OBVIOUS
<1>8. h \in Key
  BY DEF Home
<1>9. PICK j \in open : phys[j] = h
  BY <1>1, <1>8
<1>10. D(Min(near)) <= D(j)
  BY <1>7, <1>9
<1> HIDE DEF D, near, open, S, phys
<1>11. D(j) = 1 /\ D(Min(near)) \in Nat /\ D(Min(near)) >= 1
  BY <1>3, <1>9
<1>12. D(Min(near)) = 1
  BY <1>10, <1>11
<1> QED
  BY <1>2, <1>3, <1>12

\* The head of the queue of locale l goes to level i of key p.
Puts(ch, l, p, i) ==
  /\ ch \notin Produced /\ out[p].levels[i] = Empty
  /\ out'[p].levels[i] = Encode[ch] /\ out'[p].from[i] = <<"locale-fill", l.code>>
  /\ \A k \in Key, j \in 1..Depth : (k # p \/ j # i) =>
       out'[k].levels[j] = out[k].levels[j] /\ out'[k].from[j] = out[k].from[j]
  /\ p \in Home(ch) \/ \A h \in Home(ch) : Free(h) = {}

LEMMA PlacingIs ==
  ASSUME LayoutInv, PlaceNext, NEW ch, ch = Head(missing), NEW l, l = recipe.locales[n]
  PROVE  \/ out' = out /\ (ch \in Produced \/ \A k \in Key : Free(k) = {})
         \/ \E p \in Key, i \in 2..Cap : Puts(ch, l, p, i)
<1>1. /\ recipe \in Recipes /\ out \in [Key -> Cell]
      /\ \A k \in Key : out[k] \in Cell
  BY DEF LayoutInv, TypeOK
<1> DEFINE by == <<"locale-fill", l.code>>
           m(k) == Max(Free(k))
           L(k) == [out[k].levels EXCEPT ![m(k)] = Encode[ch]]
           S(k) == [out[k].from EXCEPT ![m(k)] = by]
           To == {k \in Key : ch \notin Produced /\ k \in PlaceFor(ch)}
<1>2. out' = [k \in Key |-> IF k \in To THEN [levels |-> L(k), from |-> S(k)] ELSE out[k]]
  BY DEF PlaceNext
<1> HIDE DEF L, S
<1>3. CASE To = {}
  <2>1. out' = out
    BY <1>1, <1>2, <1>3
  <2>2. ch \in Produced \/ \A k \in Key : Free(k) = {}
    BY <1>1, <1>3, PlaceIs
  <2> QED
    BY <2>1, <2>2
<1>4. CASE To # {}
  <2>1. PICK p \in To : TRUE
    BY <1>4
  <2>2. p \in Key /\ p \in PlaceFor(ch) /\ ch \notin Produced /\ Free(p) # {}
    BY <1>1, <2>1, PlaceIs
  <2>3. \A k \in To : k = p
    <3>1. PlaceFor(ch) \subseteq {p}
      BY <2>2 DEF PlaceFor
    <3> QED
      BY <3>1
  <2>4. PICK i : i = m(p)
    OBVIOUS
  <2>5. i \in 2..Cap /\ i \in 1..Depth /\ out[p].levels[i] = Empty
    BY <2>2, <2>4, RoomIs
  <2>6. out[p].levels \in [1..Depth -> Value] /\ out[p].from \in [1..Depth -> Sources]
    BY <1>1, <2>2, CellIs
  <2>7. /\ L(p)[i] = Encode[ch] /\ S(p)[i] = by
        /\ \A j \in 1..Depth : j # i => L(p)[j] = out[p].levels[j] /\ S(p)[j] = out[p].from[j]
    <3>1. L(p) = [out[p].levels EXCEPT ![i] = Encode[ch]] /\ S(p) = [out[p].from EXCEPT ![i] = by]
      BY <2>4 DEF L, S
    <3> HIDE DEF by
    <3> QED
      BY <2>5, <2>6, <3>1
  <2>8. out'[p] = [levels |-> L(p), from |-> S(p)]
    BY <1>2, <2>1, <2>2
  <2>9. out'[p].levels = L(p) /\ out'[p].from = S(p)
    BY <2>8
  <2>10. \A k \in Key : k # p => out'[k] = out[k]
    BY <1>2, <2>3
  <2>11. p \in Home(ch) \/ \A h \in Home(ch) : Free(h) = {}
    BY <1>1, <2>2, PlaceIsNearest
  <2> HIDE DEF m, To
  <2>12. Puts(ch, l, p, i)
    BY <2>2, <2>5, <2>7, <2>9, <2>10, <2>11 DEF Puts, by
  <2> QED
    BY <2>2, <2>5, <2>12
<1> QED
  BY <1>3, <1>4

\* Where the characters are at home is settled when the fill begins: it keeps
\* off the first levels.
LEMMA HomesStay ==
  ASSUME recipe' = recipe, \A k \in Key : out'[k].levels[1] = out[k].levels[1]
  PROVE  \A c : Home(c)' = Home(c) /\ (HasHome(c)' <=> HasHome(c))
<1>1. Key' = Key
  BY DEF Key
<1>2. \A c : Home(c)' = {k \in Key' : \E d \in CharsOf({out'[k].levels[1]}) : Fold[d] = Fold[c]}
  BY DEF Home, CharsOf
<1>3. \A c : Home(c)' = Home(c)
  BY <1>1, <1>2 DEF Home
<1> QED
  BY <1>3 DEF HasHome

LEMMA PutsIs ==
  ASSUME LayoutInv, recipe' = recipe, NEW ch \in Char, NEW l, NEW p \in Key, NEW i \in 2..Cap,
         Puts(ch, l, p, i)
  PROVE  /\ \A c : Home(c)' = Home(c) /\ (HasHome(c)' <=> HasHome(c))
         /\ \A k \in Key : Free(k)' \subseteq Free(k)
         /\ Free(p) # {} /\ ~Full
         /\ \A m, k : k \in Key \ {p} => Placed(m, k)' = Placed(m, k)
         /\ \A m : m.code # l.code => Placed(m, p)' = Placed(m, p)
         /\ Placed(l, p)' = Placed(l, p) \union {ch}
         /\ Produced \subseteq Produced'
<1> DEFINE At(m, j, s) == s.from[j] = <<"locale-fill", m.code>> /\ s.levels[j] \in DOMAIN Decode
<1>1. /\ Key' = Key /\ i \in 1..Cap /\ i \in 1..Depth /\ 1 \in 1..Depth /\ i # 1
      /\ 1..Cap \subseteq 1..Depth /\ Empty \notin DOMAIN Decode
      /\ Encode[ch] \in DOMAIN Decode /\ Decode[Encode[ch]] = ch
  BY CellIs, LayoutAssumption DEF Key
<1>2. /\ out[p].levels[i] = Empty
      /\ out'[p].levels[i] = Encode[ch] /\ out'[p].from[i] = <<"locale-fill", l.code>>
      /\ \A k \in Key, j \in 1..Depth : (k # p \/ j # i) =>
           out'[k].levels[j] = out[k].levels[j] /\ out'[k].from[j] = out[k].from[j]
  BY DEF Puts
<1>3. \A k \in Key : out'[k].levels[1] = out[k].levels[1]
  BY <1>1, <1>2
<1>4. \A c : Home(c)' = Home(c) /\ (HasHome(c)' <=> HasHome(c))
  BY <1>3, HomesStay
<1>5. \A k \in Key : Free(k)' \subseteq Free(k)
  <2> SUFFICES ASSUME NEW k \in Key, NEW j \in 2..Cap, out'[k].levels[j] = Empty
               PROVE  out[k].levels[j] = Empty
    BY DEF Free
  <2>1. j \in 1..Depth
    BY CellIs
  <2> QED
    BY <1>2, <2>1
<1>6. Free(p) # {} /\ ~Full
  BY <1>2 DEF Free, Full
<1>7. \A m, k, c : c \in Placed(m, k) <=> \E j \in 1..Cap : At(m, j, out[k]) /\ Decode[out[k].levels[j]] = c
  BY PlacedIs
<1>8. \A m, k, c : c \in Placed(m, k)' <=>
                     \E j \in 1..Cap : At(m, j, out'[k]) /\ Decode[out'[k].levels[j]] = c
  BY DEF Placed, CharsOf
<1>9. ASSUME NEW m, NEW k \in Key \ {p} PROVE Placed(m, k)' = Placed(m, k)
  <2>1. \A j \in 1..Cap : (At(m, j, out'[k]) <=> At(m, j, out[k]))
                          /\ out'[k].levels[j] = out[k].levels[j]
    BY <1>1, <1>2
  <2> HIDE DEF At
  <2>2. \A c : c \in Placed(m, k)' <=> c \in Placed(m, k)
    BY <1>7, <1>8, <2>1
  <2> QED
    BY <2>2
<1>10. ASSUME NEW m, m.code # l.code PROVE Placed(m, p)' = Placed(m, p)
  <2>1. ~At(m, i, out[p]) /\ ~At(m, i, out'[p])
    BY <1>1, <1>2, <1>10
  <2>2. \A j \in 1..Cap : j # i => (At(m, j, out'[p]) <=> At(m, j, out[p]))
                                    /\ out'[p].levels[j] = out[p].levels[j]
    BY <1>1, <1>2
  <2> HIDE DEF At
  <2>3. \A c : c \in Placed(m, p)' <=> c \in Placed(m, p)
    BY <1>1, <1>7, <1>8, <2>1, <2>2
  <2> QED
    BY <2>3
<1>11. Placed(l, p)' = Placed(l, p) \union {ch}
  <2>1. ~At(l, i, out[p]) /\ At(l, i, out'[p]) /\ Decode[out'[p].levels[i]] = ch
    BY <1>1, <1>2
  <2>2. \A j \in 1..Cap : j # i => (At(l, j, out'[p]) <=> At(l, j, out[p]))
                                    /\ out'[p].levels[j] = out[p].levels[j]
    BY <1>1, <1>2
  <2> HIDE DEF At
  <2>3. \A c : c \in Placed(l, p)' <=> (c \in Placed(l, p) \/ c = ch)
    BY <1>1, <1>7, <1>8, <2>1, <2>2
  <2> QED
    BY <2>3
<1>12. ASSUME NEW c \in Produced PROVE c \in Produced'
  <2>1. PICK k \in Key, j \in 1..Depth :
          out[k].levels[j] \in DOMAIN Decode /\ Decode[out[k].levels[j]] = c
    BY ProducedIs
  <2>2. out'[k].levels[j] = out[k].levels[j]
    BY <1>1, <1>2, <2>1
  <2>3. c \in Produced' <=>
          \E h \in Key', g \in 1..Depth :
            out'[h].levels[g] \in DOMAIN Decode /\ Decode[out'[h].levels[g]] = c
    BY DEF Produced, CharsOf, Levels
  <2> QED
    BY <1>1, <2>1, <2>2, <2>3
<1> QED
  BY <1>4, <1>5, <1>6, <1>9, <1>10, <1>11, <1>12

\* A locale whose fill has begun, one that is filled for the first time, and
\* the characters that still wait for their turn in it.
Begun(l) ==
  \/ \E j \in 1..n - 1 : recipe.locales[j] = l
  \/ phase = "place" /\ recipe.locales[n] = l
First == \A j \in 1..n - 1 : recipe.locales[j] # recipe.locales[n]
Waits(l, ch) == phase = "place" /\ First /\ recipe.locales[n] = l /\ ch \in ToSet(missing)

\* A character of the locale that was placed, or found no room.
InHand(l, ch) ==
  \/ \E k \in Key : ch \in Placed(l, k)
  \/ ch \in ToSet(Wanted(l)) /\ ch \notin Produced /\ ~Waits(l, ch)

\* One that has a key of its own and is not there finds its keys full, and of
\* what the locale put on them everything is at home somewhere.
Anchored(l) ==
  \A ch : InHand(l, ch) /\ HasHome(ch) /\ (\A k \in Home(ch) : ch \notin Placed(l, k)) =>
    \A k \in Home(ch) : Free(k) = {} /\ \A o \in Placed(l, k) : HasHome(o)

AllHomed(l) == \A k \in Key : \A o \in Placed(l, k) : HasHome(o)
NonePlaced(l) == \A k \in Key : Placed(l, k) = {}

LocalePhases == {"locales", "place", "done"}
AnchorInv ==
  /\ phase \notin LocalePhases => Unplaced
  /\ phase \in LocalePhases =>
       \A l \in ToSet(recipe.locales) : IF Begun(l) THEN Anchored(l) ELSE NonePlaced(l)
  /\ phase = "place" /\ First =>
       /\ HomedFirst(missing)
       /\ (\E ch \in ToSet(missing) : HasHome(ch)) => AllHomed(recipe.locales[n])

LEMMA AnchoredStays ==
  ASSUME recipe' = recipe, NEW l, Anchored(l),
         \A k \in Key : Placed(l, k)' = Placed(l, k),
         \A c : Home(c)' = Home(c) /\ (HasHome(c)' <=> HasHome(c)),
         \A k \in Key : Free(k)' \subseteq Free(k),
         \A c : InHand(l, c)' => InHand(l, c)
  PROVE  Anchored(l)'
<1>1. \A c : Home(c) \subseteq Key
  BY DEF Home
<1> SUFFICES ASSUME NEW c, InHand(l, c)', HasHome(c)', \A k \in Home(c)' : c \notin Placed(l, k)',
                    NEW k \in Home(c)'
             PROVE  Free(k)' = {} /\ \A o \in Placed(l, k)' : HasHome(o)'
  BY DEF Anchored
<1>2. InHand(l, c) /\ HasHome(c) /\ k \in Home(c) /\ \A h \in Home(c) : c \notin Placed(l, h)
  BY <1>1
<1>3. Free(k) = {} /\ \A o \in Placed(l, k) : HasHome(o)
  BY <1>2 DEF Anchored
<1> QED
  BY <1>1, <1>2, <1>3

\* What a step that changes neither the recipe nor the table leaves alone.
LEMMA TableSame ==
  ASSUME UNCHANGED <<recipe, out>>
  PROVE  /\ Key' = Key /\ Produced' = Produced
         /\ \A l, k : Placed(l, k)' = Placed(l, k)
         /\ \A c : Home(c)' = Home(c) /\ (HasHome(c)' <=> HasHome(c))
         /\ \A k : Free(k)' = Free(k)
         /\ \A l : (AllHomed(l)' <=> AllHomed(l)) /\ (NonePlaced(l)' <=> NonePlaced(l))
<1>1. Key' = Key
  BY DEF Key
<1>2. Produced' = Produced
  BY <1>1 DEF Produced, CharsOf, Levels
<1>3. \A l, k : Placed(l, k)' = Placed(l, k)
  BY DEF Placed, CharsOf
<1>4. \A c : Home(c)' = Home(c) /\ (HasHome(c)' <=> HasHome(c))
  BY HomesStay
<1>5. \A k : Free(k)' = Free(k)
  BY DEF Free
<1>6. \A l : (AllHomed(l)' <=> AllHomed(l)) /\ (NonePlaced(l)' <=> NonePlaced(l))
  BY <1>1, <1>3, <1>4 DEF AllHomed, NonePlaced
<1> QED
  BY <1>1, <1>2, <1>3, <1>4, <1>5, <1>6

\* One character after another, in the locale's first turn.
LEMMA PlaceNextAnchors ==
  ASSUME LayoutInv, AnchorInv, PlaceNext, First
  PROVE  AnchorInv'
<1> DEFINE ch == Head(missing)
<1>1. /\ recipe \in Recipes /\ n \in Nat /\ missing \in Seq(Char) /\ out \in [Key -> Cell]
      /\ phase = "place" /\ phase' = "place" /\ UNCHANGED <<recipe, n>>
      /\ missing # <<>> /\ missing' = Tail(missing)
      /\ n <= Len(recipe.locales) /\ n # 0
  BY DEF LayoutInv, TypeOK, Steps, PlaceNext
<1>2. PICK l0 : l0 = recipe.locales[n]
  OBVIOUS
<1>3. l0 \in ToSet(recipe.locales)
  <2>1. n \in 1..Len(recipe.locales)
    BY <1>1, RecipeIs
  <2> QED
    BY <1>1, <1>2, <2>1, RecipeIs
<1>4. /\ ch \in Char /\ ToSet(missing) = {ch} \union ToSet(missing')
      /\ HomedFirst(missing') /\ ((\E c \in ToSet(missing') : HasHome(c)) => HasHome(ch))
  <2>1. ch \in Char
    BY <1>1, HeadTailProperties, EmptySeq, LenProperties, ElementOfSeq
  <2>2. HomedFirst(missing)
    BY <1>1 DEF AnchorInv
  <2> HIDE DEF ch
  <2> QED
    BY <1>1, <2>1, <2>2, HeadAndTail, HomedFirstTail DEF ch
<1> HIDE DEF ch
<1>5. HasHome(ch) => AllHomed(l0)
  BY <1>1, <1>2, <1>4 DEF AnchorInv
<1>6. /\ First' <=> First
      /\ \A l : Begun(l)' <=> Begun(l)
      /\ \A l, c : Waits(l, c)' <=> (l = l0 /\ c \in ToSet(missing'))
      /\ \A l, c : Waits(l, c) <=> (l = l0 /\ c \in ToSet(missing))
  BY <1>1, <1>2 DEF First, Begun, Waits
<1>7. \A l \in ToSet(recipe.locales) : IF Begun(l) THEN Anchored(l) ELSE NonePlaced(l)
  BY <1>1 DEF AnchorInv, LocalePhases
<1>8. Begun(l0)
  BY <1>1, <1>2 DEF Begun
<1>9. Key' = Key /\ recipe' = recipe /\ (\A c : Home(c) \subseteq Key)
  BY <1>1 DEF Key, Home
<1>10. SUFFICES /\ \A l \in ToSet(recipe.locales) :
                     IF Begun(l) THEN Anchored(l)' ELSE NonePlaced(l)'
                /\ HomedFirst(missing)'
                /\ (\E c \in ToSet(missing') : HasHome(c)') => AllHomed(l0)'
  <2>1. phase' = "place" /\ phase' \in LocalePhases
    BY <1>1 DEF LocalePhases
  <2>2. AllHomed(l0)' => AllHomed(recipe.locales[n])'
    <3>1. \A m : m = l0 => (AllHomed(m)' <=> AllHomed(recipe.locales[n])')
      BY <1>1, <1>2 DEF AllHomed, Placed
    <3> QED
      BY <3>1
  <2> QED
    BY <1>1, <1>6, <2>1, <2>2 DEF AnchorInv
<1>11. ASSUME \A c : HasHome(c)' <=> HasHome(c) PROVE HomedFirst(missing)'
  BY <1>1, <1>4, <1>11 DEF HomedFirst
<1>12. CASE out' = out /\ (ch \in Produced \/ \A k \in Key : Free(k) = {})
  <2>1. /\ Produced' = Produced
        /\ \A l, k : Placed(l, k)' = Placed(l, k)
        /\ \A c : Home(c)' = Home(c) /\ (HasHome(c)' <=> HasHome(c))
        /\ \A k : Free(k)' = Free(k)
        /\ \A l : (AllHomed(l)' <=> AllHomed(l)) /\ (NonePlaced(l)' <=> NonePlaced(l))
    BY <1>9, <1>12, TableSame
  <2>2. \A l, c : InHand(l, c)' => InHand(l, c) \/ (l = l0 /\ c = ch /\ ch \notin Produced)
    BY <1>4, <1>6, <1>9, <2>1 DEF InHand
  <2>3. ASSUME NEW l \in ToSet(recipe.locales), Begun(l) PROVE Anchored(l)'
    <3>1. Anchored(l)
      BY <1>7, <2>3
    <3>2. CASE \A c : InHand(l, c)' => InHand(l, c)
      BY <1>9, <2>1, <3>1, <3>2, AnchoredStays
    <3>3. CASE ~\A c : InHand(l, c)' => InHand(l, c)
      <4>1. l = l0 /\ ch \notin Produced
        BY <2>2, <3>3
      <4>2. \A k \in Key : Free(k) = {}
        BY <1>12, <4>1
      <4> SUFFICES ASSUME NEW c, InHand(l, c)', HasHome(c)',
                          \A k \in Home(c)' : c \notin Placed(l, k)', NEW k \in Home(c)'
                   PROVE  Free(k)' = {} /\ \A o \in Placed(l, k)' : HasHome(o)'
        BY DEF Anchored
      <4>3. k \in Home(c) /\ k \in Key /\ HasHome(c) /\ \A h \in Home(c) : c \notin Placed(l, h)
        BY <1>9, <2>1
      <4>4. CASE InHand(l, c)
        BY <2>1, <3>1, <4>3, <4>4 DEF Anchored
      <4>5. CASE c = ch
        <5>1. AllHomed(l)
          BY <1>5, <4>1, <4>3, <4>5
        <5> QED
          BY <2>1, <4>2, <4>3, <5>1 DEF AllHomed
      <4> QED
        BY <2>2, <4>4, <4>5
    <3> QED
      BY <3>2, <3>3
  <2> QED
    BY <1>4, <1>5, <1>7, <1>11, <2>1, <2>3
<1>13. ASSUME NEW p \in Key, NEW i \in 2..Cap, Puts(ch, l0, p, i)
       PROVE  /\ \A l \in ToSet(recipe.locales) :
                     IF Begun(l) THEN Anchored(l)' ELSE NonePlaced(l)'
              /\ HomedFirst(missing)'
              /\ (\E c \in ToSet(missing') : HasHome(c)') => AllHomed(l0)'
  <2>1. /\ \A c : Home(c)' = Home(c) /\ (HasHome(c)' <=> HasHome(c))
        /\ \A k \in Key : Free(k)' \subseteq Free(k)
        /\ Free(p) # {}
        /\ \A m, k : k \in Key \ {p} => Placed(m, k)' = Placed(m, k)
        /\ \A m : m.code # l0.code => Placed(m, p)' = Placed(m, p)
        /\ Placed(l0, p)' = Placed(l0, p) \union {ch}
        /\ Produced \subseteq Produced'
    BY <1>4, <1>9, <1>13, PutsIs
  <2>2. ASSUME NEW l \in ToSet(recipe.locales), l # l0
        PROVE  \A k \in Key : Placed(l, k)' = Placed(l, k)
    <3>1. l.code # l0.code
      BY <1>1, <1>3, <2>2, LayoutAssumption DEF IsRecipe
    <3> QED
      BY <2>1, <3>1
  <2>3. ASSUME NEW l \in ToSet(recipe.locales), Begun(l), l # l0 PROVE Anchored(l)'
    <3>1. Anchored(l) /\ \A k \in Key : Placed(l, k)' = Placed(l, k)
      BY <1>7, <2>2, <2>3
    <3>2. \A c : InHand(l, c)' => InHand(l, c)
      BY <1>6, <1>9, <2>1, <2>3, <3>1 DEF InHand
    <3> QED
      BY <1>9, <2>1, <3>1, <3>2, AnchoredStays
  <2>4. ASSUME NEW l \in ToSet(recipe.locales), ~Begun(l) PROVE NonePlaced(l)'
    <3>1. l # l0 /\ NonePlaced(l)
      BY <1>7, <1>8, <2>4
    <3> QED
      BY <1>9, <2>2, <3>1 DEF NonePlaced
  <2>5. \A c : InHand(l0, c)' => InHand(l0, c) \/ c = ch
    <3> SUFFICES ASSUME NEW c, InHand(l0, c)', c # ch PROVE InHand(l0, c)
      OBVIOUS
    <3>1. ASSUME NEW k \in Key', c \in Placed(l0, k)' PROVE c \in Placed(l0, k) /\ k \in Key
      BY <1>9, <2>1, <3>1
    <3>2. ASSUME c \in ToSet(Wanted(l0)), c \notin Produced', ~Waits(l0, c)'
          PROVE  c \notin Produced /\ ~Waits(l0, c)
      BY <1>4, <1>6, <2>1, <3>2
    <3> QED
      BY <3>1, <3>2 DEF InHand
  <2>6. Anchored(l0)'
    <3> SUFFICES ASSUME NEW c, InHand(l0, c)', HasHome(c)',
                        \A k \in Home(c)' : c \notin Placed(l0, k)', NEW k \in Home(c)'
                 PROVE  Free(k)' = {} /\ \A o \in Placed(l0, k)' : HasHome(o)'
      BY DEF Anchored
    <3>1. HasHome(c) /\ k \in Home(c) /\ k \in Key /\ Free(k)' \subseteq Free(k)
      BY <1>9, <2>1
    <3>2. \A h \in Home(c) : c \notin Placed(l0, h)
      <4> SUFFICES ASSUME NEW h \in Home(c), c \in Placed(l0, h) PROVE FALSE
        OBVIOUS
      <4>1. h \in Key /\ c \notin Placed(l0, h)'
        BY <1>9, <2>1
      <4> QED
        BY <2>1, <4>1
    <3>3. Free(k) = {} /\ \A o \in Placed(l0, k) : HasHome(o)
      <4>1. CASE InHand(l0, c)
        <5>1. Anchored(l0)
          BY <1>3, <1>7, <1>8
        <5> QED
          BY <3>1, <3>2, <4>1, <5>1 DEF Anchored
      <4>2. CASE c = ch
        <5>1. p \notin Home(ch)
          <6> SUFFICES ASSUME p \in Home(ch) PROVE FALSE
            OBVIOUS
          <6>1. ch \notin Placed(l0, p)'
            BY <2>1, <4>2
          <6> QED
            BY <2>1, <6>1
        <5>2. \A h \in Home(ch) : Free(h) = {}
          BY <1>13, <5>1 DEF Puts
        <5>3. AllHomed(l0)
          BY <1>5, <3>1, <4>2
        <5> QED
          BY <3>1, <4>2, <5>2, <5>3 DEF AllHomed
      <4> QED
        BY <2>5, <4>1, <4>2
    <3>4. k # p
      BY <2>1, <3>3
    <3> QED
      BY <2>1, <3>1, <3>3, <3>4
  <2>7. ASSUME NEW c \in ToSet(missing'), HasHome(c)' PROVE AllHomed(l0)'
    <3>1. HasHome(ch) /\ AllHomed(l0)
      BY <1>4, <1>5, <2>1, <2>7
    <3>2. ASSUME NEW k \in Key, NEW o \in Placed(l0, k)' PROVE HasHome(o)
      <4>1. o \in Placed(l0, k) \/ o = ch
        BY <2>1, <3>2
      <4> QED
        BY <3>1, <4>1 DEF AllHomed
    <3> QED
      BY <1>9, <2>1, <3>2 DEF AllHomed
  <2>8. ASSUME NEW l \in ToSet(recipe.locales), Begun(l) PROVE Anchored(l)'
    <3>1. l = l0 => (Anchored(l)' <=> Anchored(l0)')
      OBVIOUS
    <3> QED
      BY <2>3, <2>6, <2>8, <3>1
  <2> QED
    BY <1>11, <2>1, <2>4, <2>7, <2>8
<1>14. \/ out' = out /\ (ch \in Produced \/ \A k \in Key : Free(k) = {})
       \/ \E p \in Key, i \in 2..Cap : Puts(ch, l0, p, i)
  BY <1>2, PlacingIs DEF ch
<1> QED
  BY <1>12, <1>13, <1>14

\* A locale that is named twice: its second turn finds everything it needs, or
\* no room.
LEMMA SecondTurn ==
  ASSUME LayoutInv, Serving, PlaceNext, ~First
  PROVE  out' = out
<1>1. /\ recipe \in Recipes /\ n \in Nat /\ missing \in Seq(Char)
      /\ phase = "place" /\ missing # <<>>
      /\ ToSet(missing) \subseteq ToSet(Wanted(recipe.locales[n]))
  BY DEF LayoutInv, TypeOK, Steps, PlaceNext
<1>2. PICK j \in 1..n - 1 : recipe.locales[j] = recipe.locales[n]
  BY DEF First
<1>3. PICK ch : ch = Head(missing)
  OBVIOUS
<1>4. ch \in ToSet(Wanted(recipe.locales[j]))
  <2>1. ch \in ToSet(missing)
    BY <1>1, <1>3, HeadAndTail
  <2> QED
    BY <1>1, <1>2, <2>1
<1>5. Served(ch)
  <2>1. j \in 1..n /\ j # n
    BY <1>1, <1>2
  <2> QED
    BY <1>1, <1>4, <2>1 DEF Serving, ServedUpTo
<1>6. PICK l : l = recipe.locales[n]
  OBVIOUS
<1>7. \/ out' = out
      \/ \E p \in Key, i \in 2..Cap : Puts(ch, l, p, i)
  BY <1>3, <1>6, PlacingIs
<1>8. ASSUME NEW p \in Key, NEW i \in 2..Cap, Puts(ch, l, p, i) PROVE FALSE
  BY <1>5, <1>8 DEF Puts, Served, Full
<1> QED
  BY <1>7, <1>8

LEMMA AnchorsKept == LayoutInv /\ Serving /\ AnchorInv /\ [Next]_vars => AnchorInv'
<1> SUFFICES ASSUME LayoutInv, Serving, AnchorInv, [Next]_vars PROVE AnchorInv'
  OBVIOUS
<1>1. /\ recipe \in Recipes /\ n \in Nat /\ n # 0 /\ Steps
      /\ \A l \in ToSet(recipe.locales) : IsLocale(l) /\ l.code \in STRING
  BY LayoutAssumption DEF LayoutInv, TypeOK, Steps, IsRecipe, IsLocale
<1> DEFINE Good(l) == IF Begun(l) THEN Anchored(l) ELSE NonePlaced(l)
\* A step that leaves the table alone, and takes nobody's turn away.
<1>2. ASSUME UNCHANGED <<recipe, out>>, NEW l \in ToSet(recipe.locales), Good(l),
             Begun(l)' <=> Begun(l), \A c : Waits(l, c) => Waits(l, c)'
      PROVE  Good(l)'
  <2>1. /\ Key' = Key /\ Produced' = Produced
        /\ \A k : Placed(l, k)' = Placed(l, k)
        /\ \A c : Home(c)' = Home(c) /\ (HasHome(c)' <=> HasHome(c))
        /\ \A k : Free(k)' = Free(k)
        /\ (NonePlaced(l)' <=> NonePlaced(l))
    BY <1>2, TableSame
  <2>2. \A c : InHand(l, c)' => InHand(l, c)
    BY <1>2, <2>1 DEF InHand
  <2>3. Anchored(l) => Anchored(l)'
    BY <1>2, <2>1, <2>2, AnchoredStays
  <2> QED
    BY <1>2, <2>1, <2>3
<1>3. ASSUME phase \notin LocalePhases, phase' \notin LocalePhases PROVE AnchorInv'
  <2>1. Unplaced'
    BY <1>3, UnplacedKept DEF AnchorInv, LocalePhases
  <2> QED
    BY <1>3, <2>1 DEF AnchorInv, LocalePhases
<1>4. CASE EndFill
  <2>1. /\ phase \notin LocalePhases /\ phase' = "locales" /\ n' = 1
        /\ UNCHANGED <<recipe, out>>
    BY <1>4 DEF EndFill, LocalePhases
  <2>2. Unplaced
    BY <2>1 DEF AnchorInv
  <2>3. ASSUME NEW l \in ToSet(recipe.locales) PROVE ~Begun(l)' /\ NonePlaced(l)'
    <3>1. NonePlaced(l)
      BY <1>1, <2>2, NothingPlaced DEF NonePlaced
    <3>2. ~Begun(l)'
      BY <2>1 DEF Begun
    <3> QED
      BY <2>1, <3>1, <3>2, TableSame
  <2> QED
    BY <2>1, <2>3 DEF AnchorInv, LocalePhases
<1>5. CASE BeginLocale
  <2>1. /\ phase = "locales" /\ phase' = "place" /\ UNCHANGED <<recipe, n, out>>
        /\ n <= Len(recipe.locales)
    BY <1>5 DEF BeginLocale
  <2>2. PICK l0 : l0 = recipe.locales[n]
    OBVIOUS
  <2>3. l0 \in ToSet(recipe.locales) /\ Wanted(l0) \in Seq(Char)
    <3>1. n \in 1..Len(recipe.locales)
      BY <1>1, <2>1, RecipeIs
    <3>2. l0 \in ToSet(recipe.locales)
      BY <1>1, <2>2, <3>1, RecipeIs
    <3> QED
      BY <1>1, <3>2, WantedIs
  <2>4. PICK s : s = Those(Wanted(l0), Char \ Produced)
    OBVIOUS
  <2>5. s \in Seq(Char) /\ ToSet(s) = ToSet(Wanted(l0)) \intersect (Char \ Produced)
    BY <2>3, <2>4, ThoseIs
  <2>6. missing' = SortByAnchor(s)
    BY <1>5, <2>2, <2>4 DEF BeginLocale
  <2>7. ToSet(Wanted(l0)) \subseteq Char
    BY <2>3 DEF ToSet
  <2>8. ToSet(missing') = ToSet(Wanted(l0)) \ Produced
    BY <2>5, <2>6, <2>7, SortedIs
  <2>9. /\ Key' = Key /\ Produced' = Produced
        /\ \A l, k : Placed(l, k)' = Placed(l, k)
        /\ \A c : Home(c)' = Home(c) /\ (HasHome(c)' <=> HasHome(c))
        /\ \A l : (AllHomed(l)' <=> AllHomed(l)) /\ (NonePlaced(l)' <=> NonePlaced(l))
    BY <2>1, TableSame
  <2>10. /\ \A l : Begun(l)' <=> (Begun(l) \/ l = l0)
         /\ First' <=> ~Begun(l0)
         /\ \A l, c : ~Waits(l, c)
         /\ \A l, c : Waits(l, c)' <=> (First' /\ l = l0 /\ c \in ToSet(missing'))
    BY <2>1, <2>2 DEF Begun, First, Waits
  <2>11. \A l \in ToSet(recipe.locales) : Good(l)
    BY <2>1 DEF AnchorInv, LocalePhases
  <2>12. ASSUME NEW l \in ToSet(recipe.locales) PROVE Good(l)'
    <3>1. CASE Begun(l) \/ l # l0
      <4>1. (Begun(l)' <=> Begun(l)) /\ \A c : Waits(l, c) => Waits(l, c)'
        BY <2>10, <3>1
      <4> QED
        BY <1>2, <2>1, <2>11, <4>1
    <3>2. CASE ~Begun(l) /\ l = l0
      <4>1. NonePlaced(l)
        BY <2>11, <3>2
      <4>2. \A c : ~InHand(l, c)'
        BY <2>8, <2>9, <2>10, <3>2, <4>1 DEF InHand, NonePlaced
      <4>3. Anchored(l)'
        BY <4>2 DEF Anchored
      <4> QED
        BY <2>10, <3>2, <4>3
    <3> QED
      BY <3>1, <3>2
  <2>13. HomedFirst(missing)'
    <3>1. \A m : m = missing' => HomedFirst(m)
      BY <2>5, <2>6, SortedHomedFirst
    <3>2. HomedFirst(missing')
      BY <3>1
    <3> QED
      BY <2>9, <3>2 DEF HomedFirst
  <2>14. First' => AllHomed(recipe.locales[n])'
    <3> SUFFICES ASSUME First' PROVE AllHomed(recipe.locales[n])'
      OBVIOUS
    <3>1. NonePlaced(l0)
      BY <2>3, <2>10, <2>11
    <3>2. AllHomed(recipe.locales[n])
      BY <2>2, <3>1 DEF AllHomed, NonePlaced
    <3>3. AllHomed(recipe.locales[n])' <=> AllHomed(recipe.locales[n])
      BY <2>1, <2>9 DEF AllHomed
    <3> QED
      BY <3>2, <3>3
  <2> QED
    BY <2>1, <2>12, <2>13, <2>14 DEF AnchorInv, LocalePhases
<1>6. CASE PlaceNext
  <2>1. CASE First
    BY <1>6, <2>1, PlaceNextAnchors
  <2>2. CASE ~First
    <3>1. /\ phase = "place" /\ phase' = "place" /\ UNCHANGED <<recipe, n>>
      BY <1>6 DEF PlaceNext
    <3>2. out' = out
      BY <1>6, <2>2, SecondTurn
    <3>3. /\ \A l : Begun(l)' <=> Begun(l)
          /\ \A l, c : ~Waits(l, c)
          /\ ~First'
      BY <2>2, <3>1 DEF Begun, First, Waits
    <3>4. \A l \in ToSet(recipe.locales) : Good(l)
      BY <3>1 DEF AnchorInv, LocalePhases
    <3>5. \A l \in ToSet(recipe.locales) : Good(l)'
      BY <1>2, <3>1, <3>2, <3>3, <3>4
    <3> QED
      BY <3>1, <3>3, <3>5 DEF AnchorInv, LocalePhases
  <2> QED
    BY <2>1, <2>2
<1>7. CASE EndLocale
  <2>1. /\ phase = "place" /\ phase' = "locales" /\ UNCHANGED <<recipe, out>> /\ n' = n + 1
        /\ missing = <<>>
    BY <1>7 DEF EndLocale
  <2>2. ToSet(missing) = {}
    BY <2>1 DEF ToSet
  <2>3. ASSUME NEW l PROVE (Begun(l)' <=> Begun(l)) /\ \A c : ~Waits(l, c)
    <3>1. n' - 1 = n /\ 1..n = (1..n - 1) \union {n}
      BY <1>1, <2>1
    <3>2. Begun(l)' <=> \E j \in 1..n : recipe.locales[j] = l
      BY <2>1, <3>1 DEF Begun
    <3>3. Begun(l) <=> \E j \in 1..n : recipe.locales[j] = l
      BY <2>1, <3>1 DEF Begun
    <3> QED
      BY <2>2, <3>2, <3>3 DEF Waits
  <2>4. \A l \in ToSet(recipe.locales) : Good(l)
    BY <2>1 DEF AnchorInv, LocalePhases
  <2>5. \A l \in ToSet(recipe.locales) : Good(l)'
    BY <1>2, <2>1, <2>3, <2>4
  <2> QED
    BY <2>1, <2>5 DEF AnchorInv, LocalePhases
<1>8. CASE Return
  <2>1. phase = "locales" /\ phase' = "done" /\ UNCHANGED <<recipe, out, n>>
    BY <1>8 DEF Return
  <2>2. \A l : (Begun(l)' <=> Begun(l)) /\ \A c : ~Waits(l, c)
    BY <2>1 DEF Begun, Waits
  <2>3. \A l \in ToSet(recipe.locales) : Good(l)
    BY <2>1 DEF AnchorInv, LocalePhases
  <2>4. \A l \in ToSet(recipe.locales) : Good(l)'
    BY <1>2, <2>1, <2>2, <2>3
  <2> QED
    BY <2>1, <2>4 DEF AnchorInv, LocalePhases
<1>9. CASE UNCHANGED vars
  <2>1. UNCHANGED <<recipe, phase, n, out, missing>>
    BY <1>9 DEF vars
  <2>2. CASE phase \notin LocalePhases
    BY <1>3, <2>1, <2>2
  <2>3. CASE phase \in LocalePhases
    <3>1. /\ \A l : (Begun(l)' <=> Begun(l)) /\ \A c : Waits(l, c)' <=> Waits(l, c)
          /\ First' <=> First
      BY <2>1 DEF Begun, First, Waits
    <3>2. \A l \in ToSet(recipe.locales) : Good(l)'
      BY <1>2, <2>1, <2>3, <3>1 DEF AnchorInv
    <3>3. \A c : HasHome(c)' <=> HasHome(c)
      BY <2>1, TableSame
    <3>4. HomedFirst(missing)' <=> HomedFirst(missing)
      BY <2>1, <3>3 DEF HomedFirst
    <3>5. AllHomed(recipe.locales[n])' <=> AllHomed(recipe.locales[n])
      BY <2>1, TableSame DEF AllHomed
    <3> QED
      BY <2>1, <2>3, <3>1, <3>2, <3>3, <3>4, <3>5 DEF AnchorInv
  <2> QED
    BY <2>2, <2>3
<1>10. CASE Seed \/ Position \/ BeginLetters \/ EndLetters \/ Substitute \/ EndSubstitutions
            \/ Fill \/ EndFiller
  <2>1. phase \notin LocalePhases /\ phase' \notin LocalePhases
    BY <1>10 DEF Seed, Position, BeginLetters, EndLetters, Substitute, EndSubstitutions,
                 Fill, EndFiller, LocalePhases
  <2> QED
    BY <1>3, <2>1
<1>11. ASSUME NEW entry \in todo, PutLetter(entry) \/ FillLetter(entry) PROVE AnchorInv'
  <2>1. phase \notin LocalePhases /\ phase' \notin LocalePhases
    BY <1>11 DEF PutLetter, FillLetter, LocalePhases
  <2> QED
    BY <1>3, <2>1
<1> QED
  BY <1>4, <1>5, <1>6, <1>7, <1>8, <1>9, <1>10, <1>11 DEF Next

\* A character of a locale that has a key of its own and was put elsewhere, or
\* nowhere, was not crowded out by one of the same locale that has none, for
\* every layout, alphabet and list of locales, one named twice included.
THEOREM AnchoredFirst == Spec => []AnchorsComeFirst
<1>1. Init => AnchorInv
  <2> SUFFICES ASSUME Init PROVE AnchorInv
    OBVIOUS
  <2>1. phase = "transformation" /\ out = [k \in Key |-> Blank]
    BY DEF Init
  <2>2. \A G : Credited(Blank, G)
    BY DEF Credited, Blank
  <2>3. Unplaced
    BY <2>1, <2>2 DEF Unplaced
  <2> QED
    BY <2>1, <2>3 DEF AnchorInv, LocalePhases
<1>2. Init => Serving
  BY DEF Init, Serving
<1>3. LayoutInv /\ Serving /\ AnchorInv => AnchorsComeFirst
  <2> SUFFICES ASSUME LayoutInv, Serving, AnchorInv, phase = "done",
                      NEW l \in ToSet(recipe.locales), NEW ch,
                      \/ \E k \in Key : ch \in Placed(l, k)
                      \/ ch \in ToSet(Wanted(l)) /\ ch \notin Produced,
                      HasHome(ch), \A k \in Home(ch) : ch \notin Placed(l, k),
                      NEW k \in Home(ch), NEW other \in Placed(l, k)
               PROVE  HasHome(other)
    <3>1. AnchorsComeFirst <=>
            (phase = "done" =>
               \A l \in ToSet(recipe.locales) :
                 \A ch \in (UNION {Placed(l, k) : k \in Key}) \union (ToSet(Wanted(l)) \ Produced) :
                   (HasHome(ch) /\ \A k \in Home(ch) : ch \notin Placed(l, k)) =>
                     \A k \in Home(ch) : \A other \in Placed(l, k) : HasHome(other))
      BY Zenon DEF AnchorsComeFirst, Placed, HasHome
    <3> QED
      BY <3>1
  <2>1. Begun(l)
    <3>1. recipe \in Recipes /\ n \in Nat /\ n > Len(recipe.locales)
      BY DEF LayoutInv, TypeOK, Serving
    <3>2. PICK j \in DOMAIN recipe.locales : l = recipe.locales[j]
      BY DEF ToSet
    <3>3. DOMAIN recipe.locales = 1..Len(recipe.locales) /\ Len(recipe.locales) \in Nat
      BY <3>1, LenProperties, LayoutAssumption DEF IsRecipe, IsSequence
    <3>4. j \in 1..n - 1
      BY <3>1, <3>2, <3>3
    <3> QED
      BY <3>2, <3>4 DEF Begun
  <2>2. Anchored(l)
    BY <2>1 DEF AnchorInv, LocalePhases
  <2>3. InHand(l, ch)
    BY DEF InHand, Waits
  <2> QED
    BY <2>2, <2>3 DEF Anchored
<1> QED
  BY <1>1, <1>2, <1>3, LayoutInvHolds, ServingKept, AnchorsKept, PTL DEF Spec
=============================================================================
