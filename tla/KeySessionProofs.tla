-------------------------- MODULE KeySessionProofs --------------------------
(***************************************************************************)
(* Theorems about KeySession for any layout, chains, methods and number of *)
(* keys: what it keeps, that every keystroke closes its own batch, that a  *)
(* method which shows its buffer goes on showing it, and that the compiled *)
(* state machine commits what the chains spell.                            *)
(***************************************************************************)
EXTENDS KeySession, SequenceTheorems, FunctionTheorems, FiniteSetTheorems,
        WellFoundedInduction, TLAPS

-----------------------------------------------------------------------------
(* Induction, and what the folds of the community modules compute.          *)

\* Induction over the naturals, for a set of them.
LEMMA SetInduction ==
  ASSUME NEW S, 0 \in S, \A n \in Nat : n \in S => n + 1 \in S
  PROVE  Nat \subseteq S
<1> DEFINE T == Nat \ S
<1> SUFFICES ASSUME T # {} PROVE FALSE
  OBVIOUS
<1>1. IsWellFoundedOn(OpToRel(<, Nat), Nat)
  BY NatLessThanWellFounded
<1>2. PICK n \in T : \A m \in T : <<m, n>> \notin OpToRel(<, Nat)
  BY <1>1, WFMin
<1>3. \A m \in T : ~(m < n)
  BY <1>2 DEF OpToRel
<1>4. n - 1 \in Nat /\ n - 1 \notin T /\ (n - 1) + 1 = n
  BY <1>3
<1> QED
  BY <1>4

\* A set of numbers has a smallest one.
LEMMA MinIs ==
  ASSUME NEW S \in SUBSET Nat, S # {}
  PROVE  Min(S) \in S /\ \A m \in S : Min(S) <= m
<1>1. IsWellFoundedOn(OpToRel(<, Nat), Nat)
  BY NatLessThanWellFounded
<1>2. PICK n \in S : \A m \in S : <<m, n>> \notin OpToRel(<, Nat)
  BY <1>1, WFMin
<1>3. \A m \in S : ~(m < n)
  BY <1>2 DEF OpToRel
<1>4. \A m \in S : n <= m
  BY <1>3
<1> QED
  BY <1>4 DEF Min

\* A set of numbers up to n has a largest one.
LEMMA MaxIs ==
  ASSUME NEW n \in Nat, NEW s \in SUBSET (1..n), s # {}
  PROVE  Max(s) \in s /\ \A y \in s : Max(s) >= y
<1> DEFINE P(m) == \A t \in SUBSET (1..m) : t # {} => \E x \in t : \A y \in t : x >= y
           S == {m \in Nat : P(m)}
<1>1. 0 \in S
  <2>1. 1..0 = {}
    OBVIOUS
  <2> QED
    BY <2>1
<1>2. ASSUME NEW m \in Nat, P(m) PROVE P(m + 1)
  <2> SUFFICES ASSUME NEW t \in SUBSET (1..(m + 1)), t # {}
               PROVE  \E x \in t : \A y \in t : x >= y
    OBVIOUS
  <2>1. CASE m + 1 \in t
    BY <2>1
  <2>2. CASE m + 1 \notin t
    <3>1. t \in SUBSET (1..m)
      BY <2>2
    <3> QED
      BY <3>1, <1>2
  <2> QED
    BY <2>1, <2>2
<1>3. n \in S
  <2> HIDE DEF P
  <2>1. \A m \in Nat : m \in S => m + 1 \in S
    BY <1>2
  <2> QED
    BY <1>1, <2>1, SetInduction
<1> QED
  BY <1>3 DEF Max

LEMMA MaxOf ==
  ASSUME NEW n \in Nat, NEW s \in SUBSET (1..(n + 1)), n + 1 \in s
  PROVE  Max(s) = n + 1
<1>1. n + 1 \in Nat /\ s # {}
  OBVIOUS
<1>2. Max(s) \in s /\ Max(s) >= n + 1
  BY <1>1, MaxIs
<1>3. Max(s) \in 1..(n + 1)
  BY <1>2
<1> QED
  BY <1>2, <1>3

(* What the fold of a sequence of n elements is defined by (Folds): F is    *)
(* one step, applied to what the elements before have given.                *)
Folding(g, n, base, F) ==
  g = [s \in SUBSET (1..n) |-> IF s = {} THEN base ELSE F[<<g[s \ {Max(s)}], Max(s)>>]]

LEMMA FoldExists ==
  ASSUME NEW n \in Nat, NEW V, NEW base \in V, NEW F \in [V \X (1..n) -> V]
  PROVE  \E g \in [SUBSET (1..n) -> V] : Folding(g, n, base, F)
<1> DEFINE Up(m) == \E g \in [SUBSET (1..m) -> V] : Folding(g, m, base, F)
<1>1. Up(0)
  <2> DEFINE g == [s \in SUBSET (1..0) |-> base]
  <2>1. g \in [SUBSET (1..0) -> V]
    OBVIOUS
  <2>2. \A s \in SUBSET (1..0) : s = {}
    OBVIOUS
  <2>3. Folding(g, 0, base, F)
    BY <2>2, Zenon DEF Folding
  <2> QED
    BY <2>1, <2>3
<1>2. ASSUME NEW m \in Nat, m + 1 <= n, Up(m) PROVE Up(m + 1)
  <2>1. PICK g \in [SUBSET (1..m) -> V] : Folding(g, m, base, F)
    BY <1>2
  <2> DEFINE h == [s \in SUBSET (1..(m + 1)) |->
                     IF m + 1 \in s THEN F[<<g[s \ {m + 1}], m + 1>>] ELSE g[s]]
  <2>2. \A s \in SUBSET (1..(m + 1)) :
          IF m + 1 \in s THEN s \ {m + 1} \in SUBSET (1..m) ELSE s \in SUBSET (1..m)
    OBVIOUS
  <2>a. m + 1 \in 1..n
    BY <1>2
  <2>3. h \in [SUBSET (1..(m + 1)) -> V]
    BY <2>2, <2>a
  <2>4. ASSUME NEW s \in SUBSET (1..(m + 1))
        PROVE  h[s] = IF s = {} THEN base ELSE F[<<h[s \ {Max(s)}], Max(s)>>]
    <3>1. CASE m + 1 \in s
      <4>1. Max(s) = m + 1 /\ m + 1 \notin s \ {m + 1} /\ s \ {m + 1} \in SUBSET (1..(m + 1))
        BY <3>1, MaxOf
      <4>2. h[s \ {m + 1}] = g[s \ {m + 1}]
        BY <4>1
      <4> QED
        BY <3>1, <4>1, <4>2
    <3>2. CASE m + 1 \notin s
      <4>1. s \in SUBSET (1..m) /\ h[s] = g[s]
        BY <2>2, <3>2
      <4>2. g[s] = IF s = {} THEN base ELSE F[<<g[s \ {Max(s)}], Max(s)>>]
        BY <2>1, <4>1 DEF Folding
      <4>3. h[s \ {Max(s)}] = g[s \ {Max(s)}]
        BY <3>2, <4>1
      <4> QED
        BY <4>1, <4>2, <4>3
    <3> QED
      BY <3>1, <3>2
  <2>5. Folding(h, m + 1, base, F)
    BY <2>4, Zenon DEF Folding
  <2> QED
    BY <2>3, <2>5
<1> HIDE DEF Up
<1> DEFINE S == {m \in Nat : m <= n => Up(m)}
<1>3. 0 \in S
  BY <1>1
<1>4. \A m \in Nat : m \in S => m + 1 \in S
  BY <1>2
<1>5. n \in S
  BY <1>3, <1>4, SetInduction
<1>6. Up(n)
  BY <1>5
<1> QED
  BY <1>6 DEF Up

\* An interval without its last number.
LEMMA Intervals ==
  /\ 1..0 = {}
  /\ \A i \in Nat \ {0} : 1..i # {} /\ Max(1..i) = i /\ (1..i) \ {i} = 1..(i - 1)
<1>1. ASSUME NEW i \in Nat \ {0}
      PROVE  1..i # {} /\ Max(1..i) = i /\ (1..i) \ {i} = 1..(i - 1)
  <2>1. Max(1..i) \in 1..i /\ Max(1..i) >= i
    <3>1. i \in 1..i
      OBVIOUS
    <3> QED
      BY <3>1, MaxIs
  <2> QED
    BY <2>1
<1>2. 1..0 = {}
  OBVIOUS
<1> QED
  BY <1>1, <1>2

(* FlattenSeq, one sequence at a time.                                      *)
LEMMA FlattenSteps ==
  ASSUME NEW S, NEW ss \in Seq(Seq(S))
  PROVE  \E q \in [0..Len(ss) -> Seq(S)] :
           /\ q[0] = <<>> /\ q[Len(ss)] = FlattenSeq(ss)
           /\ \A i \in 1..Len(ss) : q[i] = q[i - 1] \o ss[i]
<1> DEFINE n == Len(ss)
           Is(g, m) == g = [i \in 1..m |-> IF i = 1 THEN ss[i] ELSE g[i - 1] \o ss[i]]
           Up(m) == \E g \in [1..m -> Seq(S)] : Is(g, m)
<1>0. n \in Nat /\ ss \in [1..n -> Seq(S)]
  BY LenProperties
<1>1. Up(0)
  <2>1. 1..0 = {}
    OBVIOUS
  <2> DEFINE e == [i \in 1..0 |-> <<>>]
  <2>2. e \in [1..0 -> Seq(S)]
    BY <2>1
  <2>3. Is(e, 0)
    BY <2>1
  <2> QED
    BY <2>2, <2>3
<1>2. ASSUME NEW m \in Nat, m + 1 <= n, Up(m)
      PROVE  Up(m + 1)
  <2>1. PICK g \in [1..m -> Seq(S)] : Is(g, m)
    BY <1>2
  <2> DEFINE h == [i \in 1..(m + 1) |->
                     IF i = m + 1 THEN (IF m = 0 THEN ss[1] ELSE g[m] \o ss[m + 1]) ELSE g[i]]
  <2>2. m + 1 \in 1..n /\ ss[m + 1] \in Seq(S) /\ ss[1] \in Seq(S)
    BY <1>0, <1>2
  <2>3. m # 0 => g[m] \o ss[m + 1] \in Seq(S)
    <3>1. m # 0 => g[m] \in Seq(S)
      BY <2>1
    <3> QED
      BY <2>2, <3>1, ConcatProperties
  <2>4. h \in [1..(m + 1) -> Seq(S)]
    BY <2>2, <2>3
  <2>5. ASSUME NEW i \in 1..(m + 1)
        PROVE  h[i] = IF i = 1 THEN ss[i] ELSE h[i - 1] \o ss[i]
    <3>1. CASE i = m + 1
      BY <3>1
    <3>2. CASE i # m + 1
      <4>1. i \in 1..m /\ h[i] = g[i] /\ (i # 1 => h[i - 1] = g[i - 1])
        BY <3>2
      <4>2. g[i] = IF i = 1 THEN ss[i] ELSE g[i - 1] \o ss[i]
        BY <2>1, <4>1
      <4> QED
        BY <4>1, <4>2
    <3> QED
      BY <3>1, <3>2
  <2>6. Is(h, m + 1)
    BY <2>5, Zenon
  <2> QED
    BY <2>4, <2>6
<1>3. Up(n)
  <2> HIDE DEF Up
  <2> DEFINE T == {m \in Nat : m <= n => Up(m)}
  <2>1. 0 \in T
    BY <1>1
  <2>2. \A m \in Nat : m \in T => m + 1 \in T
    BY <1>2
  <2>3. n \in T
    BY <1>0, <2>1, <2>2, SetInduction
  <2> QED
    BY <2>3
<1> DEFINE c == CHOOSE g : Is(g, n)
<1>4. Is(c, n)
  <2> HIDE DEF Is
  <2> QED
    BY <1>3
<1>5. n # 0 => FlattenSeq(ss) = c[n]
  BY DEF FlattenSeq
<1>6. n = 0 => FlattenSeq(ss) = <<>>
  BY EmptySeq DEF FlattenSeq
<1>7. \A i \in 1..n : c[i] = IF i = 1 THEN ss[i] ELSE c[i - 1] \o ss[i]
  BY <1>4
<1> HIDE DEF c
<1>8. \A i \in 1..n : c[i] \in Seq(S)
  <2> DEFINE T == {m \in Nat : m \in 1..n => c[m] \in Seq(S)}
  <2>1. 0 \in T
    OBVIOUS
  <2>2. ASSUME NEW m \in Nat, m \in T
        PROVE  m + 1 \in T
    <3> SUFFICES ASSUME m + 1 \in 1..n
                 PROVE  c[m + 1] \in Seq(S)
      OBVIOUS
    <3>1. CASE m = 0
      BY <1>0, <1>7, <3>1
    <3>2. CASE m # 0
      <4>1. m \in 1..n /\ c[m] \in Seq(S) /\ ss[m + 1] \in Seq(S)
        BY <1>0, <2>2, <3>2
      <4>2. (m + 1) - 1 = m /\ m + 1 # 1
        BY <3>2
      <4>3. c[m + 1] = IF m + 1 = 1 THEN ss[m + 1] ELSE c[(m + 1) - 1] \o ss[m + 1]
        BY <1>7, Zenon
      <4>4. c[m + 1] = c[m] \o ss[m + 1]
        BY <4>2, <4>3
      <4> QED
        BY <4>1, <4>4, ConcatProperties
    <3> QED
      BY <3>1, <3>2
  <2> HIDE DEF T
  <2>3. Nat \subseteq T
    BY <2>1, <2>2, SetInduction
  <2> QED
    BY <1>0, <2>3 DEF T
<1> DEFINE q == [i \in 0..n |-> IF i = 0 THEN <<>> ELSE c[i]]
<1>9. q \in [0..n -> Seq(S)]
  BY <1>0, <1>8, EmptySeq
<1>10. \A i \in 1..n : i - 1 \in 0..n /\ q[i] = c[i] /\ (i # 1 => q[i - 1] = c[i - 1])
  BY <1>0
<1>11. q[0] = <<>> /\ q[n] = FlattenSeq(ss)
  BY <1>0, <1>5, <1>6
<1> HIDE DEF q
<1>12. ASSUME NEW i \in 1..n
       PROVE  q[i] = q[i - 1] \o ss[i]
  <2>1. CASE i = 1
    <3>1. q[1] = ss[1] /\ ss[1] \in Seq(S)
      BY <1>0, <1>7, <1>10, <2>1
    <3>2. <<>> \o ss[1] = ss[1]
      BY <3>1, ConcatEmptySeq
    <3>3. q[i - 1] = <<>>
      BY <1>11, <2>1
    <3> QED
      BY <2>1, <3>1, <3>2, <3>3
  <2>2. CASE i # 1
    <3>1. c[i] = c[i - 1] \o ss[i]
      BY <1>7, <2>2, Zenon
    <3> QED
      BY <1>10, <2>2, <3>1
  <2> QED
    BY <2>1, <2>2
<1> QED
  BY <1>9, <1>11, <1>12

\* Sequences of S flattened are a sequence of S.
LEMMA FlattenType ==
  ASSUME NEW S, NEW ss \in Seq(Seq(S))
  PROVE  FlattenSeq(ss) \in Seq(S)
<1>1. PICK q \in [0..Len(ss) -> Seq(S)] : q[Len(ss)] = FlattenSeq(ss)
  BY FlattenSteps
<1> QED
  BY <1>1, LenProperties

\* One sequence flattened.
LEMMA FlattenOne ==
  ASSUME NEW S, NEW b \in Seq(S)
  PROVE  FlattenSeq(<<b>>) = b
<1>1. <<b>> \in Seq(Seq(S)) /\ Len(<<b>>) = 1 /\ <<b>>[1] = b
  OBVIOUS
<1> DEFINE ss == <<b>>
<1>3. ss \in Seq(Seq(S)) /\ Len(ss) = 1 /\ ss[1] = b
  BY <1>1
<1> HIDE DEF ss
<1>2. PICK q \in [0..Len(ss) -> Seq(S)] :
         /\ q[0] = <<>> /\ q[Len(ss)] = FlattenSeq(ss)
         /\ \A i \in 1..Len(ss) : q[i] = q[i - 1] \o ss[i]
  BY <1>3, FlattenSteps, Zenon
<1>4. 1 \in 1..Len(ss) /\ 1 - 1 = 0
  BY <1>3
<1>5. q[1] = q[1 - 1] \o ss[1]
  BY <1>2, <1>4, Zenon
<1>6. FlattenSeq(ss) = <<>> \o b
  BY <1>2, <1>3, <1>4, <1>5
<1> QED
  BY <1>6, ConcatEmptySeq DEF ss

\* The elements of a sequence, each on its own, flattened.
LEMMA FlattenElements ==
  ASSUME NEW S, NEW t \in Seq(S)
  PROVE  FlattenSeq([n \in DOMAIN t |-> <<t[n]>>]) = t
<1> DEFINE ss == [n \in DOMAIN t |-> <<t[n]>>]
<1>0. Len(t) \in Nat /\ DOMAIN t = 1..Len(t) /\ t \in [1..Len(t) -> S]
  BY LenProperties
<1>1. ss \in Seq(Seq(S)) /\ Len(ss) = Len(t) /\ \A i \in 1..Len(t) : ss[i] = <<t[i]>>
  <2>1. \A i \in 1..Len(t) : <<t[i]>> \in Seq(S)
    BY <1>0
  <2> QED
    BY <1>0, <2>1
<1> HIDE DEF ss
<1>a. PICK q \in [0..Len(ss) -> Seq(S)] :
         /\ q[0] = <<>> /\ q[Len(ss)] = FlattenSeq(ss)
         /\ \A i \in 1..Len(ss) : q[i] = q[i - 1] \o ss[i]
  BY <1>1, FlattenSteps, Zenon
<1>2. /\ q \in [0..Len(t) -> Seq(S)]
      /\ q[0] = <<>> /\ q[Len(t)] = FlattenSeq(ss)
      /\ \A i \in 1..Len(t) : q[i] = q[i - 1] \o <<t[i]>>
  BY <1>1, <1>a
<1> DEFINE T == {m \in Nat : m <= Len(t) => q[m] = SubSeq(t, 1, m)}
<1>3. 0 \in T
  BY <1>2, SubSeqEmpty
<1>4. ASSUME NEW m \in Nat, m \in T
      PROVE  m + 1 \in T
  <2> SUFFICES ASSUME m + 1 <= Len(t)
               PROVE  q[m + 1] = SubSeq(t, 1, m + 1)
    OBVIOUS
  <2>1. m + 1 \in 1..Len(t) /\ (m + 1) - 1 = m /\ m \in 0..Len(t) /\ 1 \in 1..Len(t)
    BY <1>0
  <2>2. q[m] = SubSeq(t, 1, m) /\ q[m + 1] = q[m] \o <<t[m + 1]>>
    BY <1>2, <1>4, <2>1
  <2>3. m + 1 \in 1..Len(t) => SubSeq(t, 1, m + 1) = SubSeq(t, 1, (m + 1) - 1) \o <<t[m + 1]>>
    BY <2>1, SubSeqRecursiveSecond
  <2> QED
    BY <2>1, <2>2, <2>3
<1>5. Len(t) \in T
  <2> HIDE DEF T
  <2> QED
    BY <1>0, <1>3, <1>4, SetInduction
<1> QED
  BY <1>0, <1>2, <1>5, SubSeqFull DEF ss

-----------------------------------------------------------------------------
(* The engine: what a symbol makes of the state, the buffer and the lookup, *)
(* and the events it gives.                                                 *)

Symbol == STRING
Text == Seq(Symbol)
Shown == [kind : {"commit", "preedit"}, text : Text]
EngineEvents == [kind : {"commit", "preedit", "passthrough", "state"}, text : Text]

\* What one or two elements make.
LEMMA OneAndTwo ==
  ASSUME NEW S, NEW a \in S, NEW b \in S
  PROVE  /\ <<a>> \in Seq(S) /\ <<a, b>> \in Seq(S) /\ Len(<<a>>) = 1 /\ Len(<<a, b>>) = 2
         /\ <<a>> \o <<b>> = <<a, b>>
         /\ <<>> \in Seq(S) /\ <<>> \o <<a>> = <<a>> /\ <<a>> \o <<>> = <<a>>
<1>1. <<a>> \in Seq(S) /\ <<a, b>> \in Seq(S) /\ Len(<<a>>) = 1 /\ Len(<<a, b>>) = 2
  OBVIOUS
<1>2. <<a>> \o <<b>> = <<a, b>>
  <2>1. Append(<<a>>, b) = <<a>> \o <<b>>
    BY <1>1, AppendIsConcat, Zenon
  <2> DEFINE s == Append(<<a>>, b)
  <2>2. s \in Seq(S) /\ Len(s) = 2 /\ s[1] = a /\ s[2] = b
    OBVIOUS
  <2> HIDE DEF s
  <2>3. \A i \in 1..2 : s[i] = <<a, b>>[i]
    BY <2>2
  <2>4. s = <<a, b>>
    BY <1>1, <2>2, <2>3, SeqEqual
  <2> QED
    BY <2>1, <2>4 DEF s
<1> QED
  BY <1>1, <1>2, EmptySeq, ConcatEmptySeq

LEMMA ExpandType ==
  ASSUME NEW t \in Text, NEW b \in Text, NEW look \in Seq(Text), NEW sym \in Symbol
  PROVE  Expand(t, b, look, sym) \in Text
<1> DEFINE part(n) == CASE t[n] = "${buffer}" -> b
                        [] t[n] = "${match}" -> <<sym>>
                        [] t[n] = "${lookup.top}" /\ look # <<>> -> look[1]
                        [] OTHER -> <<t[n]>>
           ss == [n \in DOMAIN t |-> part(n)]
<1>1. Len(t) \in Nat /\ DOMAIN t = 1..Len(t) /\ \A n \in 1..Len(t) : t[n] \in Symbol
  BY LenProperties DEF Text
<1>2. look # <<>> => look[1] \in Text
  <2>1. look # <<>> => 1 \in 1..Len(look)
    BY EmptySeq
  <2> QED
    BY <2>1, ElementOfSeq
<1>3. ASSUME NEW n \in 1..Len(t)
      PROVE  part(n) \in Text
  <2>1. \/ part(n) = b \/ part(n) = <<sym>> \/ part(n) = <<t[n]>>
        \/ look # <<>> /\ part(n) = look[1]
    BY Zenon
  <2> HIDE DEF part
  <2>2. <<sym>> \in Text /\ <<t[n]>> \in Text
    BY <1>1, OneAndTwo DEF Text
  <2> QED
    BY <1>2, <2>1, <2>2
<1> HIDE DEF part
<1>4. ss \in Seq(Text)
  BY <1>1, <1>3
<1>5. Expand(t, b, look, sym) = FlattenSeq(ss)
  BY DEF Expand, part
<1> QED
  BY <1>4, <1>5, FlattenType DEF Text

\* What has no variable is not changed.
LEMMA ExpandLiterals ==
  ASSUME NEW t \in Seq(Symbol \ Variables), NEW b, NEW look, NEW sym
  PROVE  Expand(t, b, look, sym) = t
<1>1. \A n \in DOMAIN t : t[n] \notin Variables
  BY LenProperties
<1>2. Expand(t, b, look, sym) = FlattenSeq([n \in DOMAIN t |-> <<t[n]>>])
  BY <1>1 DEF Expand, Variables
<1> QED
  BY <1>2, FlattenElements

\* The template of a method that shows its buffer.
TheBuffer == <<"${buffer}">>

LEMMA ExpandBuffer ==
  ASSUME NEW b \in Text, NEW look, NEW sym
  PROVE  Expand(TheBuffer, b, look, sym) = b
<1> DEFINE t == <<"${buffer}">>
           part(n) == CASE t[n] = "${buffer}" -> b
                        [] t[n] = "${match}" -> <<sym>>
                        [] t[n] = "${lookup.top}" /\ look # <<>> -> look[1]
                        [] OTHER -> <<t[n]>>
<1>1. DOMAIN t = 1..1 /\ t[1] = "${buffer}"
  OBVIOUS
<1>2. Expand(t, b, look, sym) = FlattenSeq([n \in DOMAIN t |-> part(n)])
  BY DEF Expand
<1>3. part(1) = b
  <2> HIDE DEF t
  <2>1. "${buffer}" # "${match}" /\ "${buffer}" # "${lookup.top}"
    OBVIOUS
  <2> QED
    BY <1>1, <2>1
<1> HIDE DEF part
<1>4. [n \in 1..1 |-> part(n)] = <<b>>
  BY <1>3
<1> QED
  BY <1>1, <1>2, <1>4, FlattenOne DEF Text, TheBuffer

\* A commit, then a preedit, or less.
LEMMA EmitIs ==
  ASSUME NEW a, a.commit \in Text, a.preedit \in Text,
         NEW b \in Text, NEW look \in Seq(Text), NEW sym \in Symbol
  PROVE  /\ Emit(a, b, look, sym) \in Seq(Shown)
         /\ a.commit = <<>> /\ a.preedit = <<>> => Emit(a, b, look, sym) = <<>>
         /\ a.commit # <<>> /\ a.preedit = <<>> =>
              Emit(a, b, look, sym) = <<Commit(Expand(a.commit, b, look, sym))>>
         /\ a.commit = <<>> /\ a.preedit # <<>> =>
              Emit(a, b, look, sym) = <<Preedit(Expand(a.preedit, b, look, sym))>>
         /\ a.commit # <<>> /\ a.preedit # <<>> =>
              Emit(a, b, look, sym) = <<Commit(Expand(a.commit, b, look, sym)),
                                        Preedit(Expand(a.preedit, b, look, sym))>>
<1> DEFINE c == Commit(Expand(a.commit, b, look, sym))
           p == Preedit(Expand(a.preedit, b, look, sym))
<1>1. c \in Shown /\ p \in Shown
  BY ExpandType DEF Commit, Preedit, Shown
<1>2. Emit(a, b, look, sym) = (IF a.commit = <<>> THEN <<>> ELSE <<c>>)
                              \o (IF a.preedit = <<>> THEN <<>> ELSE <<p>>)
  BY DEF Emit
<1> HIDE DEF c, p
<1>3. <<>> \in Seq(Shown) /\ <<c>> \in Seq(Shown) /\ <<p>> \in Seq(Shown) /\ <<c, p>> \in Seq(Shown)
  BY <1>1, OneAndTwo
<1>4. <<>> \o <<>> = <<>> /\ <<c>> \o <<>> = <<c>> /\ <<>> \o <<p>> = <<p>> /\ <<c>> \o <<p>> = <<c, p>>
  BY <1>1, OneAndTwo, ConcatEmptySeq
<1>5. Emit(a, b, look, sym) \in {<<>>, <<c>>, <<p>>, <<c, p>>}
  BY <1>2, <1>4
<1>6. Emit(a, b, look, sym) \in Seq(Shown)
  BY <1>3, <1>5
<1> QED
  BY <1>2, <1>4, <1>6 DEF c, p

(* The session of a method, seen by its own code.                           *)
EngineOK ==
  /\ IsMethod(im)
  /\ state \in DOMAIN im.states
  /\ buffer \in Text
  /\ lastLookup \in Seq(Text)
  /\ Len(lastLookup) <= 1

\* What of s is left at the end is of s.
LEMMA FrontOf ==
  ASSUME NEW S, NEW s \in Seq(S), s # <<>>
  PROVE  Front(s) \in Seq(S) /\ Len(Front(s)) = Len(s) - 1 /\ Range(Front(s)) \subseteq Range(s)
<1>1. Len(s) \in Nat /\ Len(s) # 0 /\ DOMAIN s = 1..Len(s)
  BY EmptySeq, LenProperties
<1> DEFINE m == Len(s) - 1
<1>2. m \in Nat /\ m + 1 = Len(s)
  BY <1>1
<1>3. Front(s) = SubSeq(s, 1, m)
  BY DEF Front
<1> HIDE DEF m
<1>4. SubSeq(s, 1, m) \in Seq(S) /\ Len(SubSeq(s, 1, m)) = m
  BY <1>1, <1>2
<1>5. \A i \in 1..m : SubSeq(s, 1, m)[i] = s[i] /\ i \in DOMAIN s
  BY <1>1, <1>2
<1>6. DOMAIN SubSeq(s, 1, m) = 1..m
  BY <1>4, LenProperties
<1>7. Range(SubSeq(s, 1, m)) \subseteq Range(s)
  BY <1>5, <1>6 DEF Range
<1>8. Len(s) - 1 = m
  BY DEF m
<1> QED
  BY <1>3, <1>4, <1>7, <1>8, Zenon

LEMMA AppendOf ==
  ASSUME NEW S, NEW s \in Seq(S), NEW e \in S
  PROVE  /\ Append(s, e) \in Seq(S) /\ Len(Append(s, e)) = Len(s) + 1
         /\ Range(Append(s, e)) = Range(s) \union {e}
<1>1. /\ Append(s, e) \in Seq(S) /\ Len(Append(s, e)) = Len(s) + 1
      /\ \A i \in 1..Len(s) : Append(s, e)[i] = s[i]
      /\ Append(s, e)[Len(s) + 1] = e
  BY AppendProperties
<1> DEFINE t == Append(s, e)
<1> HIDE DEF t
<1>2. DOMAIN s = 1..Len(s) /\ Len(s) \in Nat /\ DOMAIN t = 1..(Len(s) + 1)
  BY <1>1, LenProperties DEF t
<1>3. (\A i \in 1..Len(s) : t[i] = s[i]) /\ t[Len(s) + 1] = e
  BY <1>1 DEF t
<1>4. 1..(Len(s) + 1) = 1..Len(s) \union {Len(s) + 1}
  BY <1>2
<1>5. Range(t) = Range(s) \union {e}
  <2>1. DOMAIN t = DOMAIN s \union {Len(s) + 1} /\ \A i \in DOMAIN s : t[i] = s[i]
    BY <1>2, <1>3, <1>4
  <2> QED
    BY <1>3, <2>1, Zenon DEF Range
<1> QED
  BY <1>1, <1>5 DEF t

(* apply(), in one line each: what the buffer is when the action is emitted *)
(* and when the transition is done, and where it leads.                     *)
Popped(tr, sym) ==
  LET b0 == IF tr.append THEN Append(buffer, sym) ELSE buffer IN
  IF tr.pop /\ b0 # <<>> THEN Front(b0) ELSE b0
Looked(tr, sym) == IF tr.lookup THEN <<Popped(tr, sym)>> ELSE lastLookup
Left(tr, sym) == IF tr.clear THEN <<>> ELSE Popped(tr, sym)
LookLeft(tr, sym) == IF tr.clear THEN <<>> ELSE Looked(tr, sym)
Next1(tr, sym) ==
  LET next == IF tr.gotoIfEmpty # {} /\ Left(tr, sym) = <<>> THEN tr.gotoIfEmpty
              ELSE IF tr.goto # {} THEN tr.goto ELSE {state} IN
  CHOOSE id \in next : TRUE

LEMMA ApplyIs ==
  ASSUME NEW tr, NEW sym
  PROVE  Apply(tr, sym) =
           [state |-> Next1(tr, sym), buffer |-> Left(tr, sym), lastLookup |-> LookLeft(tr, sym),
            events |-> Emit(tr, Popped(tr, sym), Looked(tr, sym), sym) \o
              IF Next1(tr, sym) = state THEN <<>>
              ELSE <<StateChange>> \o Emit(im.states[Next1(tr, sym)].onEnter,
                                           Left(tr, sym), LookLeft(tr, sym), sym)]
BY DEF Apply, Next1, Left, LookLeft, Looked, Popped

LEMMA BufferOf ==
  ASSUME EngineOK, NEW tr \in Transitions(DOMAIN im.states), NEW sym \in Symbol
  PROVE  /\ Popped(tr, sym) \in Text /\ Left(tr, sym) \in Text
         /\ Looked(tr, sym) \in Seq(Text) /\ Len(Looked(tr, sym)) <= 1
         /\ LookLeft(tr, sym) \in Seq(Text) /\ Len(LookLeft(tr, sym)) <= 1
         /\ Len(Left(tr, sym)) <= Len(buffer) + 1
         /\ Range(Left(tr, sym)) \subseteq Range(buffer) \union {sym}
         /\ Next1(tr, sym) \in DOMAIN im.states
<1>1. buffer \in Text /\ Len(buffer) \in Nat /\ lastLookup \in Seq(Text) /\ Len(lastLookup) <= 1
  BY LenProperties DEF EngineOK, Text
<1> DEFINE b0 == IF tr.append THEN Append(buffer, sym) ELSE buffer
<1>2. /\ b0 \in Text /\ Len(b0) \in Nat /\ Len(b0) <= Len(buffer) + 1
      /\ Range(b0) \subseteq Range(buffer) \union {sym}
  BY <1>1, AppendOf, LenProperties DEF Text
<1> HIDE DEF b0
<1>3. Popped(tr, sym) = IF tr.pop /\ b0 # <<>> THEN Front(b0) ELSE b0
  BY DEF Popped, b0
<1>4. /\ Popped(tr, sym) \in Text /\ Len(Popped(tr, sym)) <= Len(buffer) + 1
      /\ Range(Popped(tr, sym)) \subseteq Range(buffer) \union {sym}
  <2>1. CASE tr.pop /\ b0 # <<>>
    <3>1. /\ Front(b0) \in Text /\ Len(Front(b0)) = Len(b0) - 1
          /\ Range(Front(b0)) \subseteq Range(b0)
      BY <1>2, <2>1, FrontOf DEF Text
    <3> QED
      BY <1>1, <1>2, <1>3, <2>1, <3>1
  <2>2. CASE ~(tr.pop /\ b0 # <<>>)
    BY <1>2, <1>3, <2>2
  <2> QED
    BY <2>1, <2>2
<1>5. <<>> \in Text /\ Len(<<>>) = 0 /\ Range(<<>>) = {} /\ <<>> \in Seq(Text)
  BY EmptySeq DEF Text, Range
<1>6. /\ Left(tr, sym) \in Text /\ Len(Left(tr, sym)) <= Len(buffer) + 1
      /\ Range(Left(tr, sym)) \subseteq Range(buffer) \union {sym}
  BY <1>1, <1>4, <1>5 DEF Left
<1>7. <<Popped(tr, sym)>> \in Seq(Text) /\ Len(<<Popped(tr, sym)>>) = 1
  BY <1>4, OneAndTwo
<1>8. Looked(tr, sym) \in Seq(Text) /\ Len(Looked(tr, sym)) <= 1
  BY <1>1, <1>7 DEF Looked
<1>9. LookLeft(tr, sym) \in Seq(Text) /\ Len(LookLeft(tr, sym)) <= 1
  BY <1>5, <1>8 DEF LookLeft
<1>10. Next1(tr, sym) \in DOMAIN im.states
  <2> DEFINE next == IF tr.gotoIfEmpty # {} /\ Left(tr, sym) = <<>> THEN tr.gotoIfEmpty
                     ELSE IF tr.goto # {} THEN tr.goto ELSE {state}
  <2>1. next # {} /\ next \subseteq DOMAIN im.states
    BY DEF Transitions, EngineOK
  <2> HIDE DEF next
  <2>2. (CHOOSE id \in next : TRUE) \in next
    BY <2>1
  <2> QED
    BY <2>1, <2>2 DEF Next1, next
<1> QED
  BY <1>4, <1>6, <1>8, <1>9, <1>10

LEMMA ApplyType ==
  ASSUME EngineOK, NEW tr \in Transitions(DOMAIN im.states), NEW sym \in Symbol
  PROVE  Apply(tr, sym).events \in Seq(EngineEvents)
<1> DEFINE on == im.states[Next1(tr, sym)].onEnter
           e1 == Emit(tr, Popped(tr, sym), Looked(tr, sym), sym)
           e2 == Emit(on, Left(tr, sym), LookLeft(tr, sym), sym)
<1>1. tr.commit \in Text /\ tr.preedit \in Text
  BY DEF Transitions, Text, Symbol
<1>2. on.commit \in Text /\ on.preedit \in Text
  BY BufferOf DEF EngineOK, IsMethod, Actions, Text, Symbol
<1>3. e1 \in Seq(Shown)
  BY <1>1, BufferOf, EmitIs
<1>4. e2 \in Seq(Shown)
  BY <1>2, BufferOf, EmitIs
<1>5. Apply(tr, sym).events = e1 \o IF Next1(tr, sym) = state THEN <<>> ELSE <<StateChange>> \o e2
  BY ApplyIs
<1> HIDE DEF e1, e2
<1>6. Shown \subseteq EngineEvents /\ StateChange \in EngineEvents
  BY EmptySeq DEF Shown, EngineEvents, StateChange, Text
<1>7. e1 \in Seq(EngineEvents) /\ e2 \in Seq(EngineEvents)
  BY <1>3, <1>4, <1>6, SeqMonotonic
<1>8. <<StateChange>> \in Seq(EngineEvents)
  BY <1>6, OneAndTwo
<1>9. <<StateChange>> \o e2 \in Seq(EngineEvents)
  BY <1>7, <1>8, ConcatProperties
<1> QED
  BY <1>5, <1>7, <1>9, EmptySeq, ConcatProperties

\* What Feed does: pass the symbol on, or apply a transition of the state.
LEMMA FeedIs ==
  ASSUME EngineOK, NEW sym \in Symbol
  PROVE  \/ /\ Feed(sym) = [state |-> state, buffer |-> buffer, lastLookup |-> lastLookup,
                            events |-> <<Passthrough>>]
            /\ \A n \in DOMAIN im.states[state].transitions :
                 ~Matches(im.states[state].transitions[n], sym)
         \/ \E n \in DOMAIN im.states[state].transitions :
              /\ im.states[state].transitions[n] \in Transitions(DOMAIN im.states)
              /\ Matches(im.states[state].transitions[n], sym)
              /\ \A m \in DOMAIN im.states[state].transitions :
                   Matches(im.states[state].transitions[m], sym) => n <= m
              /\ Feed(sym) = Apply(im.states[state].transitions[n], sym)
<1> DEFINE trs == im.states[state].transitions
           hits == {n \in DOMAIN trs : Matches(trs[n], sym)}
<1>1. trs \in Seq(Transitions(DOMAIN im.states))
  BY DEF EngineOK, IsMethod
<1>2. DOMAIN trs = 1..Len(trs) /\ Len(trs) \in Nat
  BY <1>1, LenProperties
<1>3. CASE hits = {}
  BY <1>3 DEF Feed
<1>4. CASE hits # {}
  <2>1. hits \subseteq Nat
    BY <1>2
  <2>2. Min(hits) \in hits /\ \A m \in hits : Min(hits) <= m
    BY <1>4, <2>1, MinIs
  <2>3. Feed(sym) = Apply(trs[Min(hits)], sym)
    BY <1>4 DEF Feed
  <2>4. trs[Min(hits)] \in Transitions(DOMAIN im.states)
    BY <1>1, <1>2, <2>2, ElementOfSeq
  <2> QED
    BY <2>2, <2>3, <2>4
<1> QED
  BY <1>3, <1>4

(* Feed keeps the session within its types, and the buffer to what was typed. *)
LEMMA FeedType ==
  ASSUME EngineOK, NEW sym \in Symbol
  PROVE  /\ Feed(sym).state \in DOMAIN im.states
         /\ Feed(sym).buffer \in Text
         /\ Len(Feed(sym).buffer) <= Len(buffer) + 1
         /\ Range(Feed(sym).buffer) \subseteq Range(buffer) \union {sym}
         /\ Feed(sym).lastLookup \in Seq(Text) /\ Len(Feed(sym).lastLookup) <= 1
         /\ Feed(sym).events \in Seq(EngineEvents)
<1>1. CASE Feed(sym) = [state |-> state, buffer |-> buffer, lastLookup |-> lastLookup,
                        events |-> <<Passthrough>>]
  <2>1. <<Passthrough>> \in Seq(EngineEvents)
    <3>1. Passthrough \in EngineEvents
      BY EmptySeq DEF Passthrough, EngineEvents, Text
    <3> QED
      BY <3>1, OneAndTwo
  <2>2. Len(buffer) \in Nat
    BY LenProperties DEF EngineOK, Text
  <2> QED
    BY <1>1, <2>1, <2>2 DEF EngineOK
<1>2. ASSUME NEW tr \in Transitions(DOMAIN im.states), Feed(sym) = Apply(tr, sym)
      PROVE  /\ Feed(sym).state \in DOMAIN im.states
             /\ Feed(sym).buffer \in Text
             /\ Len(Feed(sym).buffer) <= Len(buffer) + 1
             /\ Range(Feed(sym).buffer) \subseteq Range(buffer) \union {sym}
             /\ Feed(sym).lastLookup \in Seq(Text) /\ Len(Feed(sym).lastLookup) <= 1
             /\ Feed(sym).events \in Seq(EngineEvents)
  <2>1. /\ Feed(sym).state = Next1(tr, sym) /\ Feed(sym).buffer = Left(tr, sym)
        /\ Feed(sym).lastLookup = LookLeft(tr, sym)
    BY <1>2, ApplyIs
  <2> QED
    BY <1>2, <2>1, BufferOf, ApplyType
<1> QED
  BY <1>1, <1>2, FeedIs
-----------------------------------------------------------------------------
(* translate(): what of the events the transport is told.                   *)

Told == [kind : {"commit", "preedit", "passthrough"}, text : Text]
Acts == [kind : {"commit", "preedit", "passthrough", "finish"}, text : Text]
Kept(events) == FoldLeft(Keep, <<>>, events)

LEMMA EventTypes ==
  /\ Shown \subseteq Told /\ Told \subseteq EngineEvents /\ Told \subseteq Acts
  /\ \A e \in EngineEvents : e.kind # "state" => e \in Told
  /\ \A e \in Told : e.kind # "state" /\ e.kind # "finish"
  /\ StateChange \in EngineEvents /\ StateChange.kind = "state"
  /\ Passthrough \in Told /\ Passthrough.kind = "passthrough"
  /\ Finish \in Acts /\ Finish.kind = "finish"
<1>1. <<>> \in Text
  BY EmptySeq DEF Text
<1> QED
  BY <1>1 DEF Shown, Told, EngineEvents, Acts, StateChange, Passthrough, Finish

\* The fold, one event at a time.
LEMMA KeepSteps ==
  ASSUME NEW events \in Seq(EngineEvents)
  PROVE  \E q : /\ q[0] = <<>> /\ q[Len(events)] = Kept(events)
                /\ \A i \in 1..Len(events) : q[i] = Keep(q[i - 1], events[i])
<1> DEFINE n == Len(events)
           V == Seq(EngineEvents)
           F == [p \in V \X (1..n) |-> Keep(p[1], events[p[2]])]
           It(g) == g = [s \in SUBSET (1..n) |->
                           IF s = {} THEN <<>> ELSE Keep(g[s \ {Max(s)}], events[Max(s)])]
<1>0. n \in Nat /\ DOMAIN events = 1..n /\ \A i \in 1..n : events[i] \in EngineEvents
  BY LenProperties
<1>1. F \in [V \X (1..n) -> V]
  <2>1. ASSUME NEW p \in V \X (1..n)
        PROVE  Keep(p[1], events[p[2]]) \in V
    <3>1. p[1] \in V /\ events[p[2]] \in EngineEvents
      BY <1>0
    <3> QED
      BY <3>1, AppendProperties DEF Keep
  <2> QED
    BY <2>1
<1>2. PICK g \in [SUBSET (1..n) -> V] : Folding(g, n, <<>>, F)
  <2> HIDE DEF F
  <2>1. <<>> \in V
    BY EmptySeq
  <2> HIDE DEF V
  <2> QED
    BY <1>0, <1>1, <2>1, FoldExists
<1>3. It(g)
  <2>1. \A s \in SUBSET (1..n) : s # {} => Max(s) \in 1..n
    BY <1>0, MaxIs
  <2> HIDE DEF V
  <2>2. \A s \in SUBSET (1..n) :
          s # {} => F[<<g[s \ {Max(s)}], Max(s)>>] = Keep(g[s \ {Max(s)}], events[Max(s)])
    BY <1>2, <2>1
  <2> QED
    BY <1>2, <2>2 DEF Folding
<1>4. It(CHOOSE h : It(h))
  <2> HIDE DEF It
  <2> QED
    BY <1>3
<1>5. Kept(events) = (CHOOSE h : It(h))[1..n]
  BY <1>0 DEF Kept, FoldLeft, MapThenFoldSet
<1> DEFINE c == CHOOSE h : It(h)
<1>6. Kept(events) = c[1..n]
  BY <1>5
<1>7. \A s \in SUBSET (1..n) :
        c[s] = IF s = {} THEN <<>> ELSE Keep(c[s \ {Max(s)}], events[Max(s)])
  BY <1>4
<1> HIDE DEF c
<1>8. ASSUME NEW i \in 1..n
      PROVE  c[1..i] = Keep(c[1..(i - 1)], events[i])
  <2>1. 1..i \in SUBSET (1..n) /\ i \in Nat \ {0}
    BY <1>0
  <2> QED
    BY <1>7, <2>1, Intervals
<1>9. c[1..0] = <<>>
  BY <1>7, Intervals
<1> DEFINE q == [i \in 0..n |-> c[1..i]]
<1>10. q[0] = <<>> /\ q[n] = Kept(events)
  BY <1>0, <1>6, <1>9
<1>11. \A i \in 1..n : q[i] = Keep(q[i - 1], events[i])
  BY <1>0, <1>8
<1> QED
  BY <1>10, <1>11

\* No change of state is told.
LEMMA KeptType ==
  ASSUME NEW events \in Seq(EngineEvents)
  PROVE  Kept(events) \in Seq(Told)
<1>1. PICK q : /\ q[0] = <<>> /\ q[Len(events)] = Kept(events)
               /\ \A i \in 1..Len(events) : q[i] = Keep(q[i - 1], events[i])
  BY KeepSteps, Zenon
<1>2. Len(events) \in Nat /\ \A i \in 1..Len(events) : events[i] \in EngineEvents
  BY LenProperties
<1> DEFINE T == {m \in Nat : m <= Len(events) => q[m] \in Seq(Told)}
<1>3. 0 \in T
  BY <1>1, EmptySeq
<1>4. ASSUME NEW m \in Nat, m \in T
      PROVE  m + 1 \in T
  <2> SUFFICES ASSUME m + 1 <= Len(events)
               PROVE  q[m + 1] \in Seq(Told)
    OBVIOUS
  <2>1. m + 1 \in 1..Len(events) /\ (m + 1) - 1 = m /\ q[m] \in Seq(Told)
    BY <1>2, <1>4
  <2>2. q[m + 1] = Keep(q[m], events[m + 1]) /\ events[m + 1] \in EngineEvents
    BY <1>1, <1>2, <2>1
  <2> QED
    BY <2>1, <2>2, EventTypes, AppendProperties DEF Keep
<1>5. Nat \subseteq T
  <2> HIDE DEF T
  <2> QED
    BY <1>3, <1>4, SetInduction
<1> QED
  BY <1>1, <1>2, <1>5

\* What is told of an action, and of the change of state after it.
LEMMA KeptIs ==
  ASSUME NEW e \in Seq(Told), NEW events \in {e, e \o <<StateChange>>}
  PROVE  Kept(events) = e
<1>1. e \in Seq(EngineEvents)
  BY EventTypes, SeqMonotonic
<1>2. e \o <<StateChange>> = Append(e, StateChange)
  BY <1>1, EventTypes, AppendIsConcat
<1>3. Append(e, StateChange) \in Seq(EngineEvents)
  BY <1>1, EventTypes, AppendProperties
<1>4. Len(e) \in Nat /\ \A i \in 1..Len(e) : e[i] \in Told
  BY LenProperties
<1>5. events \in Seq(EngineEvents)
  BY <1>1, <1>2, <1>3
<1>6. /\ Len(events) = Len(e) \/ (Len(events) = Len(e) + 1 /\ events[Len(e) + 1] = StateChange)
      /\ \A i \in 1..Len(e) : events[i] = e[i]
  <2>1. CASE events = e
    BY <2>1
  <2>2. CASE events = Append(e, StateChange)
    BY <1>1, <2>2, EventTypes, AppendProperties
  <2> QED
    BY <1>2, <2>1, <2>2
<1>7. PICK q : /\ q[0] = <<>> /\ q[Len(events)] = Kept(events)
               /\ \A i \in 1..Len(events) : q[i] = Keep(q[i - 1], events[i])
  BY <1>5, KeepSteps, Zenon
<1> DEFINE T == {m \in Nat : m <= Len(e) => q[m] = SubSeq(e, 1, m)}
<1>8. 0 \in T
  <2>1. SubSeq(e, 1, 0) = <<>>
    BY SubSeqEmpty
  <2> QED
    BY <1>7, <2>1
<1>9. ASSUME NEW m \in Nat, m \in T
      PROVE  m + 1 \in T
  <2> SUFFICES ASSUME m + 1 <= Len(e)
               PROVE  q[m + 1] = SubSeq(e, 1, m + 1)
    OBVIOUS
  <2>1. /\ m + 1 \in 1..Len(e) /\ m + 1 \in 1..Len(events) /\ (m + 1) - 1 = m
        /\ 1 \in 1..Len(e) /\ q[m] = SubSeq(e, 1, m)
    BY <1>4, <1>6, <1>9
  <2>2. q[m + 1] = Keep(q[m], e[m + 1])
    BY <1>6, <1>7, <2>1
  <2>3. e[m + 1].kind # "state"
    BY <1>4, <2>1, EventTypes
  <2>4. q[m + 1] = Append(q[m], e[m + 1])
    BY <2>2, <2>3 DEF Keep
  <2>5. SubSeq(e, 1, m) \in Seq(Told)
    BY <1>4, <2>1
  <2>6. SubSeq(e, 1, m + 1) = SubSeq(e, 1, m) \o <<e[m + 1]>>
    BY <2>1, SubSeqRecursiveSecond
  <2>7. Append(SubSeq(e, 1, m), e[m + 1]) = SubSeq(e, 1, m) \o <<e[m + 1]>>
    BY <1>4, <2>1, <2>5, AppendIsConcat
  <2> QED
    BY <2>1, <2>4, <2>6, <2>7
<1>10. Nat \subseteq T
  <2> HIDE DEF T
  <2> QED
    BY <1>8, <1>9, SetInduction
<1>11. q[Len(e)] = e
  BY <1>4, <1>10, SubSeqFull
<1>12. CASE Len(events) = Len(e)
  BY <1>7, <1>11, <1>12
<1>13. CASE Len(events) = Len(e) + 1 /\ events[Len(e) + 1] = StateChange
  <2>1. Len(e) + 1 \in 1..Len(events) /\ (Len(e) + 1) - 1 = Len(e)
    BY <1>4, <1>13
  <2>2. q[Len(e) + 1] = Keep(q[Len(e)], StateChange)
    BY <1>7, <1>13, <2>1
  <2> QED
    BY <1>7, <1>11, <1>13, <2>2, EventTypes DEF Keep
<1> QED
  BY <1>6, <1>12, <1>13

\* What the transport is told: nothing while a keymap is pending, what has no
\* effect as it is, the rest with a FinishCommit after it.
LEMMA TranslateIs ==
  ASSUME NEW events \in Seq(EngineEvents)
  PROVE  \/ keymapPending /\ Translate(events) = <<>>
         \/ /\ ~keymapPending /\ ~Effective(Kept(events))
            /\ Translate(events) = Kept(events)
         \/ /\ ~keymapPending /\ Effective(Kept(events))
            /\ Translate(events) = Append(Kept(events), Finish)
BY Zenon DEF Translate, Kept

-----------------------------------------------------------------------------
(* The transports: what the actions of a keystroke make of what the         *)
(* compositor holds and the application has.                                *)

Batch == [text : Text, preedit : Text, open : BOOLEAN]
Wire == [acc : Batch, text : Text, preedit : Text]
Bus == [text : Text, preedit : Text]

LEMMA RequestType ==
  ASSUME NEW w \in Wire, NEW a \in Acts
  PROVE  Request(w, a) \in Wire
<1>0. /\ w.acc \in Batch /\ w.text \in Text /\ w.preedit \in Text
      /\ w.acc.text \in Text /\ w.acc.preedit \in Text /\ a.text \in Text
      /\ a.kind \in {"commit", "preedit", "passthrough", "finish"} /\ <<>> \in Text
  BY EmptySeq DEF Wire, Batch, Acts, Text
<1>1. CASE a.kind = "commit"
  BY <1>0, <1>1 DEF Request, Wire, Batch
<1>2. CASE a.kind = "preedit"
  BY <1>0, <1>2 DEF Request, Wire, Batch
<1>3. CASE a.kind = "finish"
  <2>1. w.text \o w.acc.text \in Text
    BY <1>0, ConcatProperties DEF Text
  <2> QED
    BY <1>0, <1>3, <2>1 DEF Request, Wire, Batch, NoBatch
<1>4. CASE a.kind = "passthrough"
  BY <1>4 DEF Request
<1> QED
  BY <1>0, <1>1, <1>2, <1>3, <1>4

\* What each request does.
LEMMA RequestIs ==
  ASSUME NEW w, NEW t
  PROVE  /\ Request(w, Finish) = [acc |-> NoBatch, text |-> w.text \o w.acc.text,
                                  preedit |-> w.acc.preedit]
         /\ Request(w, Commit(t)) = [w EXCEPT !.acc.text = t, !.acc.open = TRUE]
         /\ Request(w, Preedit(t)) = [w EXCEPT !.acc.preedit = t, !.acc.open = TRUE]
<1>1. Finish.kind = "finish" /\ Finish.kind # "commit" /\ Finish.kind # "preedit"
  BY DEF Finish
<1>2. Commit(t).kind = "commit" /\ Commit(t).text = t
  BY DEF Commit
<1>3. Preedit(t).kind = "preedit" /\ Preedit(t).kind # "commit" /\ Preedit(t).text = t
  BY DEF Preedit
<1>4. Request(w, Finish) = [acc |-> NoBatch, text |-> w.text \o w.acc.text,
                            preedit |-> w.acc.preedit]
  BY <1>1, Zenon DEF Request
<1>5. Request(w, Commit(t)) = [w EXCEPT !.acc.text = t, !.acc.open = TRUE]
  BY <1>2, Zenon DEF Request
<1>6. Request(w, Preedit(t)) = [w EXCEPT !.acc.preedit = t, !.acc.open = TRUE]
  BY <1>3, Zenon DEF Request
<1> QED
  BY <1>4, <1>5, <1>6, Zenon

LEMMA SignalType ==
  ASSUME NEW w \in Bus, NEW a \in Acts
  PROVE  Signal(w, a) \in Bus
<1>0. /\ w.text \in Text /\ w.preedit \in Text /\ a.text \in Text
      /\ a.kind \in {"commit", "preedit", "passthrough", "finish"}
  BY DEF Bus, Acts
<1>1. w.text \o a.text \in Text
  BY <1>0, ConcatProperties DEF Text
<1> QED
  BY <1>0, <1>1 DEF Signal, Bus

\* The requests of a keystroke, one at a time.
LEMMA RequestSteps ==
  ASSUME NEW w \in Wire, NEW acts \in Seq(Acts)
  PROVE  \E q : /\ q[0] = w /\ q[Len(acts)] = FoldLeft(Request, w, acts)
                /\ \A i \in 1..Len(acts) : q[i] = Request(q[i - 1], acts[i])
<1> DEFINE n == Len(acts)
           F == [p \in Wire \X (1..n) |-> Request(p[1], acts[p[2]])]
           It(g) == g = [s \in SUBSET (1..n) |->
                           IF s = {} THEN w ELSE Request(g[s \ {Max(s)}], acts[Max(s)])]
<1>0. n \in Nat /\ DOMAIN acts = 1..n /\ \A i \in 1..n : acts[i] \in Acts
  BY LenProperties
<1>1. F \in [Wire \X (1..n) -> Wire]
  <2>1. ASSUME NEW p \in Wire \X (1..n)
        PROVE  Request(p[1], acts[p[2]]) \in Wire
    BY <1>0, RequestType
  <2> QED
    BY <2>1
<1>2. PICK g \in [SUBSET (1..n) -> Wire] : Folding(g, n, w, F)
  <2> HIDE DEF F
  <2> QED
    BY <1>0, <1>1, FoldExists
<1>3. It(g)
  <2>1. \A s \in SUBSET (1..n) : s # {} => Max(s) \in 1..n
    BY <1>0, MaxIs
  <2>2. \A s \in SUBSET (1..n) :
          s # {} => F[<<g[s \ {Max(s)}], Max(s)>>] = Request(g[s \ {Max(s)}], acts[Max(s)])
    BY <1>2, <2>1
  <2> QED
    BY <1>2, <2>2 DEF Folding
<1>4. It(CHOOSE h : It(h))
  <2> HIDE DEF It
  <2> QED
    BY <1>3
<1>5. FoldLeft(Request, w, acts) = (CHOOSE h : It(h))[1..n]
  BY <1>0 DEF FoldLeft, MapThenFoldSet
<1> DEFINE c == CHOOSE h : It(h)
<1>6. FoldLeft(Request, w, acts) = c[1..n]
  BY <1>5
<1>7. \A s \in SUBSET (1..n) :
        c[s] = IF s = {} THEN w ELSE Request(c[s \ {Max(s)}], acts[Max(s)])
  BY <1>4
<1> HIDE DEF c
<1>8. ASSUME NEW i \in 1..n
      PROVE  c[1..i] = Request(c[1..(i - 1)], acts[i])
  <2>1. 1..i \in SUBSET (1..n) /\ i \in Nat \ {0}
    BY <1>0
  <2> QED
    BY <1>7, <2>1, Intervals
<1>9. c[1..0] = w
  BY <1>7, Intervals
<1> DEFINE q == [i \in 0..n |-> c[1..i]]
<1>10. q[0] = w /\ q[n] = FoldLeft(Request, w, acts)
  BY <1>0, <1>6, <1>9
<1>11. \A i \in 1..n : q[i] = Request(q[i - 1], acts[i])
  BY <1>0, <1>8
<1> QED
  BY <1>10, <1>11

\* The signals of a keystroke, one at a time.
LEMMA SignalSteps ==
  ASSUME NEW w \in Bus, NEW acts \in Seq(Acts)
  PROVE  \E q : /\ q[0] = w /\ q[Len(acts)] = FoldLeft(Signal, w, acts)
                /\ \A i \in 1..Len(acts) : q[i] = Signal(q[i - 1], acts[i])
<1> DEFINE n == Len(acts)
           F == [p \in Bus \X (1..n) |-> Signal(p[1], acts[p[2]])]
           It(g) == g = [s \in SUBSET (1..n) |->
                           IF s = {} THEN w ELSE Signal(g[s \ {Max(s)}], acts[Max(s)])]
<1>0. n \in Nat /\ DOMAIN acts = 1..n /\ \A i \in 1..n : acts[i] \in Acts
  BY LenProperties
<1>1. F \in [Bus \X (1..n) -> Bus]
  <2>1. ASSUME NEW p \in Bus \X (1..n)
        PROVE  Signal(p[1], acts[p[2]]) \in Bus
    BY <1>0, SignalType
  <2> QED
    BY <2>1
<1>2. PICK g \in [SUBSET (1..n) -> Bus] : Folding(g, n, w, F)
  <2> HIDE DEF F
  <2> QED
    BY <1>0, <1>1, FoldExists
<1>3. It(g)
  <2>1. \A s \in SUBSET (1..n) : s # {} => Max(s) \in 1..n
    BY <1>0, MaxIs
  <2>2. \A s \in SUBSET (1..n) :
          s # {} => F[<<g[s \ {Max(s)}], Max(s)>>] = Signal(g[s \ {Max(s)}], acts[Max(s)])
    BY <1>2, <2>1
  <2> QED
    BY <1>2, <2>2 DEF Folding
<1>4. It(CHOOSE h : It(h))
  <2> HIDE DEF It
  <2> QED
    BY <1>3
<1>5. FoldLeft(Signal, w, acts) = (CHOOSE h : It(h))[1..n]
  BY <1>0 DEF FoldLeft, MapThenFoldSet
<1> DEFINE c == CHOOSE h : It(h)
<1>6. FoldLeft(Signal, w, acts) = c[1..n]
  BY <1>5
<1>7. \A s \in SUBSET (1..n) :
        c[s] = IF s = {} THEN w ELSE Signal(c[s \ {Max(s)}], acts[Max(s)])
  BY <1>4
<1> HIDE DEF c
<1>8. ASSUME NEW i \in 1..n
      PROVE  c[1..i] = Signal(c[1..(i - 1)], acts[i])
  <2>1. 1..i \in SUBSET (1..n) /\ i \in Nat \ {0}
    BY <1>0
  <2> QED
    BY <1>7, <2>1, Intervals
<1>9. c[1..0] = w
  BY <1>7, Intervals
<1> DEFINE q == [i \in 0..n |-> c[1..i]]
<1>10. q[0] = w /\ q[n] = FoldLeft(Signal, w, acts)
  BY <1>0, <1>6, <1>9
<1>11. \A i \in 1..n : q[i] = Signal(q[i - 1], acts[i])
  BY <1>0, <1>8
<1> QED
  BY <1>10, <1>11

\* The requests leave what is of the right type.
LEMMA RequestsType ==
  ASSUME NEW w \in Wire, NEW acts \in Seq(Acts)
  PROVE  FoldLeft(Request, w, acts) \in Wire
<1>1. PICK q : /\ q[0] = w /\ q[Len(acts)] = FoldLeft(Request, w, acts)
               /\ \A i \in 1..Len(acts) : q[i] = Request(q[i - 1], acts[i])
  BY RequestSteps, Zenon
<1>2. Len(acts) \in Nat /\ \A i \in 1..Len(acts) : acts[i] \in Acts
  BY LenProperties
<1> DEFINE T == {m \in Nat : m <= Len(acts) => q[m] \in Wire}
<1>3. 0 \in T
  BY <1>1
<1>4. ASSUME NEW m \in Nat, m \in T
      PROVE  m + 1 \in T
  <2> SUFFICES ASSUME m + 1 <= Len(acts)
               PROVE  q[m + 1] \in Wire
    OBVIOUS
  <2>1. m + 1 \in 1..Len(acts) /\ (m + 1) - 1 = m /\ q[m] \in Wire
    BY <1>2, <1>4
  <2>2. q[m + 1] = Request(q[m], acts[m + 1]) /\ acts[m + 1] \in Acts
    BY <1>1, <1>2, <2>1
  <2> QED
    BY <2>1, <2>2, RequestType
<1>5. Nat \subseteq T
  <2> HIDE DEF T
  <2> QED
    BY <1>3, <1>4, SetInduction
<1> QED
  BY <1>1, <1>2, <1>5

LEMMA SignalsType ==
  ASSUME NEW w \in Bus, NEW acts \in Seq(Acts)
  PROVE  FoldLeft(Signal, w, acts) \in Bus
<1>1. PICK q : /\ q[0] = w /\ q[Len(acts)] = FoldLeft(Signal, w, acts)
               /\ \A i \in 1..Len(acts) : q[i] = Signal(q[i - 1], acts[i])
  BY SignalSteps, Zenon
<1>2. Len(acts) \in Nat /\ \A i \in 1..Len(acts) : acts[i] \in Acts
  BY LenProperties
<1> DEFINE T == {m \in Nat : m <= Len(acts) => q[m] \in Bus}
<1>3. 0 \in T
  BY <1>1
<1>4. ASSUME NEW m \in Nat, m \in T
      PROVE  m + 1 \in T
  <2> SUFFICES ASSUME m + 1 <= Len(acts)
               PROVE  q[m + 1] \in Bus
    OBVIOUS
  <2>1. m + 1 \in 1..Len(acts) /\ (m + 1) - 1 = m /\ q[m] \in Bus
    BY <1>2, <1>4
  <2>2. q[m + 1] = Signal(q[m], acts[m + 1]) /\ acts[m + 1] \in Acts
    BY <1>1, <1>2, <2>1
  <2> QED
    BY <2>1, <2>2, SignalType
<1>5. Nat \subseteq T
  <2> HIDE DEF T
  <2> QED
    BY <1>3, <1>4, SetInduction
<1> QED
  BY <1>1, <1>2, <1>5

\* What passes the symbol on changes nothing on either transport.
Idle(acts) == \A n \in DOMAIN acts : acts[n].kind = "passthrough"

LEMMA IdleActs ==
  ASSUME NEW w \in Wire, NEW v \in Bus, NEW acts \in Seq(Acts), Idle(acts)
  PROVE  FoldLeft(Request, w, acts) = w /\ FoldLeft(Signal, v, acts) = v
<1>1. PICK q : /\ q[0] = w /\ q[Len(acts)] = FoldLeft(Request, w, acts)
               /\ \A i \in 1..Len(acts) : q[i] = Request(q[i - 1], acts[i])
  BY RequestSteps, Zenon
<1>2. PICK p : /\ p[0] = v /\ p[Len(acts)] = FoldLeft(Signal, v, acts)
               /\ \A i \in 1..Len(acts) : p[i] = Signal(p[i - 1], acts[i])
  BY SignalSteps, Zenon
<1>3. Len(acts) \in Nat /\ \A i \in 1..Len(acts) : acts[i].kind = "passthrough"
  BY LenProperties DEF Idle
<1> DEFINE T == {m \in Nat : m <= Len(acts) => q[m] = w /\ p[m] = v}
<1>4. 0 \in T
  BY <1>1, <1>2
<1>5. ASSUME NEW m \in Nat, m \in T
      PROVE  m + 1 \in T
  <2> SUFFICES ASSUME m + 1 <= Len(acts)
               PROVE  q[m + 1] = w /\ p[m + 1] = v
    OBVIOUS
  <2>1. m + 1 \in 1..Len(acts) /\ (m + 1) - 1 = m /\ q[m] = w /\ p[m] = v
    BY <1>3, <1>5
  <2>2. q[m + 1] = Request(w, acts[m + 1]) /\ p[m + 1] = Signal(v, acts[m + 1])
    BY <1>1, <1>2, <2>1
  <2>3. acts[m + 1].kind = "passthrough"
    BY <1>3, <2>1
  <2> QED
    BY <2>2, <2>3 DEF Request, Signal
<1>6. Nat \subseteq T
  <2> HIDE DEF T
  <2> QED
    BY <1>4, <1>5, SetInduction
<1> QED
  BY <1>1, <1>2, <1>3, <1>6

\* A FinishCommit at the end leaves the compositor with nothing.
LEMMA FinishFlushes ==
  ASSUME NEW w \in Wire, NEW e \in Seq(Acts)
  PROVE  FoldLeft(Request, w, Append(e, Finish)).acc = NoBatch
<1> DEFINE acts == Append(e, Finish)
<1>1. /\ acts \in Seq(Acts) /\ Len(acts) = Len(e) + 1 /\ Len(e) \in Nat
      /\ acts[Len(e) + 1] = Finish
  BY EventTypes, AppendProperties, LenProperties
<1> HIDE DEF acts
<1>2. PICK q : /\ q[0] = w /\ q[Len(acts)] = FoldLeft(Request, w, acts)
               /\ \A i \in 1..Len(acts) : q[i] = Request(q[i - 1], acts[i])
  BY <1>1, RequestSteps, Zenon
<1>3. Len(e) + 1 \in 1..Len(acts)
  BY <1>1
<1>4. FoldLeft(Request, w, acts) = Request(q[(Len(e) + 1) - 1], Finish)
  BY <1>1, <1>2, <1>3
<1> DEFINE before == q[(Len(e) + 1) - 1]
           after == FoldLeft(Request, w, acts)
<1>5. after = [acc |-> NoBatch, text |-> before.text \o before.acc.text,
               preedit |-> before.acc.preedit]
  BY <1>4, RequestIs, Zenon
<1> HIDE DEF after, before
<1>6. after.acc = NoBatch
  BY <1>5
<1>7. FoldLeft(Request, w, acts).acc = NoBatch
  BY <1>6, Zenon DEF after
<1> QED
  BY <1>7, Zenon DEF acts

\* The two shapes of what a key press gives.
Closed(acts) == \E e \in Seq(Told) : acts = Append(e, Finish)

LEMMA TranslateShape ==
  ASSUME NEW events \in Seq(EngineEvents)
  PROVE  /\ Translate(events) \in Seq(Acts)
         /\ \/ Idle(Translate(events)) /\ Finish \notin Range(Translate(events))
            \/ Closed(Translate(events))
<1>1. Kept(events) \in Seq(Told)
  BY KeptType
<1>2. Kept(events) \in Seq(Acts)
  BY <1>1, EventTypes, SeqMonotonic
<1>3. CASE Translate(events) = <<>>
  <2>1. <<>> \in Seq(Acts) /\ DOMAIN <<>> = {}
    BY EmptySeq
  <2> QED
    BY <1>3, <2>1 DEF Idle, Range
<1>4. CASE Translate(events) = Kept(events) /\ ~Effective(Kept(events))
  <2>1. \A n \in DOMAIN Kept(events) : Kept(events)[n] \in Told
    BY <1>1, LenProperties
  <2>2. \A n \in DOMAIN Kept(events) : Kept(events)[n].kind = "passthrough"
    BY <1>4, <2>1 DEF Effective, Told
  <2>3. Finish \notin Range(Kept(events))
    BY <2>2, EventTypes DEF Range
  <2> QED
    BY <1>2, <1>4, <2>2, <2>3 DEF Idle
<1>5. CASE Translate(events) = Append(Kept(events), Finish)
  <2>1. Append(Kept(events), Finish) \in Seq(Acts)
    BY <1>2, EventTypes, AppendProperties
  <2> QED
    BY <1>1, <1>5, <2>1 DEF Closed
<1> QED
  BY <1>3, <1>4, <1>5, TranslateIs

\* The level a key resolves to is one of its symbols.
LEMMA ResolveIs ==
  ASSUME NEW k \in Key, NEW m
  PROVE  Resolve(k, m) \subseteq Symbol
<1>0. Layout[k] \in Seq(STRING)
  BY SessionAssumption DEF SessionAssumption, Key
<1> DEFINE levels == Layout[k]
           want == 1 + (IF "AltGr" \in m THEN 2 ELSE 0)
                     + (IF m \intersect {"Shift", "Lock"} # {} THEN 1 ELSE 0)
<1>1. CASE levels = <<>>
  BY <1>1 DEF Resolve
<1>2. CASE levels # <<>>
  <2>1. Len(levels) \in Nat /\ Len(levels) # 0
    BY <1>0, <1>2, EmptySeq, LenProperties
  <2>2. want \in Nat /\ want >= 1
    OBVIOUS
  <2> HIDE DEF want
  <2>3. {Len(levels), want} \in SUBSET Nat /\ {Len(levels), want} # {}
    BY <2>1, <2>2
  <2>4. /\ Min({Len(levels), want}) \in {Len(levels), want}
        /\ Min({Len(levels), want}) <= Len(levels)
    BY <2>3, MinIs
  <2>5. Min({Len(levels), want}) \in 1..Len(levels)
    BY <2>1, <2>2, <2>4
  <2>6. SelectLevel(m, Len(levels)) = Min({Len(levels), want})
    BY DEF SelectLevel, want
  <2>7. levels[SelectLevel(m, Len(levels))] \in STRING
    BY <1>0, <2>5, <2>6, ElementOfSeq
  <2> QED
    BY <1>2, <2>7 DEF Resolve, Symbol
<1> QED
  BY <1>1, <1>2

\* A key press feeds at most one symbol and its actions come in one of the
\* two shapes.
LEMMA HandleKeyIs ==
  ASSUME EngineOK, fed \in Text, Len(buffer) <= Len(fed), Range(buffer) \subseteq Range(fed),
         NEW k \in Key, NEW m
  PROVE  LET r == HandleKey(k, m) IN
         /\ r.state \in DOMAIN im.states
         /\ r.buffer \in Text /\ r.lastLookup \in Seq(Text) /\ Len(r.lastLookup) <= 1
         /\ r.fed \in Text /\ Len(r.buffer) <= Len(r.fed)
         /\ Range(r.buffer) \subseteq Range(r.fed)
         /\ r.acts \in Seq(Acts)
         /\ \/ Len(r.fed) = Len(fed) /\ Finish \notin Range(r.acts)
            \/ Len(r.fed) = Len(fed) + 1
         /\ \/ Idle(r.acts) /\ Finish \notin Range(r.acts)
            \/ Closed(r.acts)
<1> DEFINE r == HandleKey(k, m)
<1>0. Len(fed) \in Nat /\ Len(buffer) \in Nat
  BY LenProperties DEF EngineOK, Text
<1>1. CASE Resolve(k, m) = {}
  <2>1. r = [fed |-> fed, acts |-> <<Passthrough>>, state |-> state,
             buffer |-> buffer, lastLookup |-> lastLookup]
    BY <1>1 DEF HandleKey
  <2>2. <<Passthrough>> \in Seq(Acts)
    BY EventTypes, OneAndTwo
  <2>3. Idle(<<Passthrough>>) /\ Finish \notin Range(<<Passthrough>>)
    BY DEF Idle, Range, Passthrough, Finish
  <2> HIDE DEF r
  <2>4. Idle(r.acts) /\ Finish \notin Range(r.acts) /\ r.acts \in Seq(Acts) /\ r.fed = fed
    BY <2>1, <2>2, <2>3
  <2>5. r.state = state /\ r.buffer = buffer /\ r.lastLookup = lastLookup
    BY <2>1
  <2> QED
    BY <1>0, <2>4, <2>5 DEF EngineOK, r
<1>2. CASE Resolve(k, m) # {}
  <2> DEFINE sym == CHOOSE s \in Resolve(k, m) : TRUE
             f == Feed(sym)
  <2>1. sym \in Symbol
    BY <1>2, ResolveIs
  <2>2. r = [fed |-> Append(fed, sym), acts |-> Translate(f.events),
             state |-> f.state, buffer |-> f.buffer, lastLookup |-> f.lastLookup]
    BY <1>2 DEF HandleKey
  <2> HIDE DEF sym
  <2>3. /\ f.state \in DOMAIN im.states
        /\ f.buffer \in Text
        /\ Len(f.buffer) <= Len(buffer) + 1
        /\ Range(f.buffer) \subseteq Range(buffer) \union {sym}
        /\ f.lastLookup \in Seq(Text) /\ Len(f.lastLookup) <= 1
        /\ f.events \in Seq(EngineEvents)
    BY <2>1, FeedType
  <2>4. /\ Append(fed, sym) \in Text /\ Len(Append(fed, sym)) = Len(fed) + 1
        /\ Range(Append(fed, sym)) = Range(fed) \union {sym}
    BY <2>1, AppendOf DEF Text
  <2> HIDE DEF f, r
  <2>5. /\ Translate(f.events) \in Seq(Acts)
        /\ \/ Idle(Translate(f.events)) /\ Finish \notin Range(Translate(f.events))
           \/ Closed(Translate(f.events))
    BY <2>3, TranslateShape
  <2>6. /\ r.fed = Append(fed, sym) /\ r.acts = Translate(f.events)
        /\ r.state = f.state /\ r.buffer = f.buffer /\ r.lastLookup = f.lastLookup
    BY <2>2
  <2>7. Len(r.buffer) <= Len(r.fed) /\ Range(r.buffer) \subseteq Range(r.fed)
    <3>1. Len(f.buffer) \in Nat
      BY <2>3, LenProperties DEF Text
    <3> QED
      BY <1>0, <2>3, <2>4, <2>6, <3>1
  <2> QED
    BY <2>3, <2>4, <2>5, <2>6, <2>7, Zenon DEF r
<1> QED
  BY <1>1, <1>2
-----------------------------------------------------------------------------
(* FromCompose: the states and arcs of a chain.                             *)

Arc(c, p) ==
  IF p \in Inputs(c)
  THEN Move(Last(p), Output(c, p), {Initial})
  ELSE Move(Last(p), <<>>, {Found(c, p)})
Below(c, p) == {q \in Paths(c) : q # <<>> /\ Front(q) = p}
Arcs(c, p) == {Arc(c, q) : q \in Below(c, p)}

LEMMA FromComposeIs ==
  ASSUME NEW c
  PROVE  FromCompose(c) = [initial |-> Initial,
                           states |-> [p \in Paths(c) |->
                             [onEnter |-> Silent,
                              transitions |-> SetToSeq(Arcs(c, p)) \o Discard(p)]]]
BY DEF FromCompose, Arc, Below, Arcs

\* What a function gives for the members of a finite set is finite.
LEMMA FiniteImage ==
  ASSUME NEW S, IsFiniteSet(S), NEW f, DOMAIN f = S, f = [x \in S |-> f[x]]
  PROVE  IsFiniteSet({f[x] : x \in S})
<1>1. f \in [S -> {f[x] : x \in S}]
  BY Zenon
<1>2. \A t \in {f[x] : x \in S} : \E x \in S : f[x] = t
  OBVIOUS
<1>3. f \in Surjection(S, {f[x] : x \in S})
  BY <1>1, <1>2, Fun_IsSurj
<1> QED
  BY <1>3, FS_Surjection

\* A finite set is the range of the sequence made of it.
LEMMA SetToSeqIs ==
  ASSUME NEW S, IsFiniteSet(S)
  PROVE  SetToSeq(S) \in Seq(S) /\ Range(SetToSeq(S)) = S
<1> DEFINE n == Cardinality(S)
           f == SetToSeq(S)
<1>1. n \in Nat /\ ExistsBijection(1..n, S)
  BY FS_CardinalityType
<1>2. PICK b \in Bijection(1..n, S) : TRUE
  BY <1>1 DEF ExistsBijection
<1>3. b \in [1..n -> S] /\ IsInjective(b)
  BY <1>2 DEF Bijection, Injection
<1>4. f \in [1..n -> S] /\ IsInjective(f)
  BY <1>3 DEF SetToSeq
<1> HIDE DEF f
<1>5. f \in Bijection(1..n, Range(f))
  BY <1>4, Fun_InjMeansBijImage DEF Injection
<1>6. Range(f) \subseteq S
  BY <1>4, Fun_RangeProperties
<1>7. IsFiniteSet(1..n) /\ Cardinality(1..n) = n
  BY <1>1, FS_Interval
<1>8. ExistsBijection(1..n, Range(f))
  BY <1>5 DEF ExistsBijection
<1>9. Cardinality(Range(f)) = n
  BY <1>7, <1>8, FS_Bijection
<1>10. Range(f) = S
  BY <1>6, <1>9, FS_Subset
<1>11. f \in Seq(S)
  BY <1>1, <1>4
<1> QED
  BY <1>10, <1>11 DEF f

\* A chain as the theorems see it.
IsChain(c) ==
  /\ c \in Seq(ChainSequences)
  /\ \A p \in Paths(c) : Found(c, p) \in Namesakes(c, p)

LEMMA ChainTypes ==
  ASSUME NEW c, IsChain(c)
  PROVE  /\ Inputs(c) \subseteq Text \ {<<>>}
         /\ Paths(c) \subseteq Text
         /\ IsFiniteSet(Paths(c))
         /\ \A w \in Inputs(c) : w \in Paths(c) /\ <<>> \in Paths(c)
         /\ \A w \in Inputs(c) : Output(c, w) \in Seq(STRING \ Variables) \ {<<>>}
<1>1. DOMAIN c = 1..Len(c) /\ Len(c) \in Nat /\ \A n \in 1..Len(c) : c[n] \in ChainSequences
  BY LenProperties DEF IsChain
<1>2. Inputs(c) \subseteq Text \ {<<>>}
  BY <1>1 DEF Inputs, ChainSequences, Text, Symbol
<1>3. ASSUME NEW w \in Text
      PROVE  /\ Starts(w) \subseteq Text /\ IsFiniteSet(Starts(w))
             /\ w \in Starts(w) /\ <<>> \in Starts(w)
  <2>1. Len(w) \in Nat
    BY LenProperties DEF Text
  <2>2. ASSUME NEW n \in 0..Len(w)
        PROVE  SubSeq(w, 1, n) \in Text
    BY <2>1 DEF Text
  <2>3. SubSeq(w, 1, Len(w)) = w /\ SubSeq(w, 1, 0) = <<>>
    BY SubSeqFull, SubSeqEmpty DEF Text
  <2> DEFINE f == [n \in 0..Len(w) |-> SubSeq(w, 1, n)]
  <2>4. IsFiniteSet(0..Len(w))
    BY <2>1, FS_Interval
  <2>5. DOMAIN f = 0..Len(w) /\ f = [n \in 0..Len(w) |-> f[n]]
    OBVIOUS
  <2>6. IsFiniteSet({f[n] : n \in 0..Len(w)})
    <3> HIDE DEF f
    <3> QED
      BY <2>4, <2>5, FiniteImage
  <2>7. {f[n] : n \in 0..Len(w)} = Starts(w)
    BY DEF Starts
  <2>8. w \in Starts(w) /\ <<>> \in Starts(w)
    <3>1. Len(w) \in 0..Len(w) /\ 0 \in 0..Len(w)
      BY <2>1
    <3> QED
      BY <2>3, <3>1, Zenon DEF Starts
  <2>9. Starts(w) \subseteq Text
    BY <2>2 DEF Starts
  <2> QED
    BY <2>6, <2>7, <2>8, <2>9
<1>4. Paths(c) \subseteq Text
  BY <1>2, <1>3 DEF Paths
<1>5. IsFiniteSet(Paths(c))
  <2>1. IsFiniteSet(Inputs(c))
    <3> DEFINE f == [n \in DOMAIN c |-> c[n].input]
    <3>1. IsFiniteSet(DOMAIN c)
      BY <1>1, FS_Interval
    <3>2. DOMAIN f = DOMAIN c /\ f = [n \in DOMAIN c |-> f[n]]
      OBVIOUS
    <3>3. IsFiniteSet({f[n] : n \in DOMAIN c})
      <4> HIDE DEF f
      <4> QED
        BY <3>1, <3>2, FiniteImage
    <3> QED
      BY <3>3 DEF Inputs
  <2> DEFINE f == [w \in Inputs(c) |-> Starts(w)]
  <2>2. DOMAIN f = Inputs(c) /\ f = [w \in Inputs(c) |-> f[w]]
    OBVIOUS
  <2>3. IsFiniteSet({f[w] : w \in Inputs(c)})
    <3> HIDE DEF f
    <3> QED
      BY <2>1, <2>2, FiniteImage
  <2>4. {f[w] : w \in Inputs(c)} = {Starts(w) : w \in Inputs(c)}
    OBVIOUS
  <2>5. \A P \in {Starts(w) : w \in Inputs(c)} : IsFiniteSet(P)
    BY <1>2, <1>3
  <2> QED
    BY <2>3, <2>4, <2>5, FS_UNION DEF Paths
<1>6. \A w \in Inputs(c) : w \in Paths(c) /\ <<>> \in Paths(c)
  BY <1>2, <1>3 DEF Paths
<1>7. ASSUME NEW w \in Inputs(c)
      PROVE  Output(c, w) \in Seq(STRING \ Variables) \ {<<>>}
  <2> DEFINE H == {n \in DOMAIN c : c[n].input = w}
  <2>1. H \in SUBSET (1..Len(c)) /\ H # {}
    BY <1>1 DEF Inputs
  <2>2. Max(H) \in H
    <3> HIDE DEF H
    <3> QED
      BY <1>1, <2>1, MaxIs
  <2>3. c[Max(H)] \in ChainSequences
    BY <1>1, <2>2
  <2>4. Output(c, w) = c[Max(H)].output
    BY DEF Output
  <2> QED
    BY <2>3, <2>4 DEF ChainSequences
<1> QED
  BY <1>2, <1>4, <1>5, <1>6, <1>7

LEMMA MoveType ==
  ASSUME NEW ids, NEW a \in STRING \union {"*"}, NEW o \in Seq(STRING), NEW g \in SUBSET ids
  PROVE  Move(a, o, g) \in Transitions(ids)
<1>1. <<>> \in Seq(STRING)
  BY EmptySeq
<1> QED
  BY <1>1 DEF Move, Transitions

\* A compiled chain is a method like any other.
LEMMA ChainIsMethod ==
  ASSUME NEW c, IsChain(c), c # <<>>
  PROVE  /\ IsMethod(FromCompose(c))
         /\ \A p \in Paths(c) :
              /\ SetToSeq(Arcs(c, p)) \in Seq(Transitions(Paths(c)))
              /\ Range(SetToSeq(Arcs(c, p))) = Arcs(c, p)
              /\ Discard(p) \in Seq(Transitions(Paths(c)))
<1>0. <<>> \in Paths(c)
  <2>1. 1 \in DOMAIN c
    BY EmptySeq, LenProperties DEF IsChain
  <2>2. c[1].input \in Inputs(c)
    BY <2>1 DEF Inputs
  <2> QED
    BY <2>2, ChainTypes
<1>1. <<>> \in Seq(STRING) /\ Silent \in Actions
  <2>1. <<>> \in Seq(STRING)
    BY EmptySeq
  <2> QED
    BY <2>1 DEF Silent, Actions
<1>2. ASSUME NEW p \in Paths(c), p # <<>>
      PROVE  Arc(c, p) \in Transitions(Paths(c))
  <2>1. Last(p) \in STRING
    <3>1. p \in Seq(STRING)
      BY ChainTypes DEF Text, Symbol
    <3>2. Len(p) \in 1..Len(p)
      BY <1>2, <3>1, EmptySeq
    <3> QED
      BY <3>1, <3>2, ElementOfSeq DEF Last
  <2>2. p \in Inputs(c) => Output(c, p) \in Seq(STRING)
    BY ChainTypes, SeqMonotonic
  <2>3. CASE p \in Inputs(c)
    <3>1. Arc(c, p) = Move(Last(p), Output(c, p), {Initial})
      BY <2>3 DEF Arc
    <3>2. {Initial} \in SUBSET Paths(c)
      BY <1>0 DEF Initial
    <3> QED
      BY <2>1, <2>2, <2>3, <3>1, <3>2, MoveType
  <2>4. CASE p \notin Inputs(c)
    <3>1. Arc(c, p) = Move(Last(p), <<>>, {Found(c, p)})
      BY <2>4 DEF Arc
    <3>2. {Found(c, p)} \in SUBSET Paths(c)
      BY DEF IsChain, Namesakes
    <3> QED
      BY <1>1, <2>1, <3>1, <3>2, MoveType
  <2> QED
    BY <2>3, <2>4
<1>3. ASSUME NEW p \in Paths(c)
      PROVE  /\ SetToSeq(Arcs(c, p)) \in Seq(Transitions(Paths(c)))
             /\ Range(SetToSeq(Arcs(c, p))) = Arcs(c, p)
  <2>1. Arcs(c, p) \subseteq Transitions(Paths(c))
    BY <1>2 DEF Arcs, Below
  <2>2. IsFiniteSet(Below(c, p))
    <3>1. IsFiniteSet(Paths(c)) /\ Below(c, p) \in SUBSET Paths(c)
      BY ChainTypes DEF Below
    <3> QED
      BY <3>1, FS_Subset
  <2>3. IsFiniteSet(Arcs(c, p))
    <3> DEFINE f == [q \in Below(c, p) |-> Arc(c, q)]
    <3>1. DOMAIN f = Below(c, p) /\ f = [q \in Below(c, p) |-> f[q]]
      OBVIOUS
    <3>2. {f[q] : q \in Below(c, p)} = Arcs(c, p)
      BY DEF Arcs
    <3>3. IsFiniteSet({f[q] : q \in Below(c, p)})
      <4> HIDE DEF f
      <4> QED
        BY <2>2, <3>1, FiniteImage
    <3> QED
      BY <3>2, <3>3
  <2> QED
    BY <2>1, <2>3, SetToSeqIs, SeqMonotonic
<1>4. ASSUME NEW p \in Paths(c)
      PROVE  Discard(p) \in Seq(Transitions(Paths(c)))
  <2> DEFINE d == Move("*", <<>>, {Initial})
  <2>1. {Initial} \in SUBSET Paths(c)
    BY <1>0 DEF Initial
  <2>3. Discard(p) = IF p = <<>> THEN <<>> ELSE <<d>>
    BY Zenon DEF Discard
  <2>4. d \in Transitions(Paths(c))
    <3>1. "*" \in STRING \union {"*"}
      OBVIOUS
    <3> QED
      BY <1>1, <2>1, <3>1, MoveType, Zenon
  <2> HIDE DEF d
  <2> QED
    BY <2>3, <2>4, OneAndTwo, EmptySeq
<1>5. FromCompose(c).initial = Initial /\ DOMAIN FromCompose(c).states = Paths(c)
  BY FromComposeIs
<1>6. ASSUME NEW p \in Paths(c)
      PROVE  /\ FromCompose(c).states[p].onEnter = Silent
             /\ FromCompose(c).states[p].transitions \in Seq(Transitions(Paths(c)))
  <2>1. /\ FromCompose(c).states[p].onEnter = Silent
        /\ FromCompose(c).states[p].transitions = SetToSeq(Arcs(c, p)) \o Discard(p)
    BY FromComposeIs
  <2> QED
    BY <1>3, <1>4, <2>1, ConcatProperties
<1>7. IsMethod(FromCompose(c))
  BY <1>0, <1>1, <1>5, <1>6 DEF IsMethod, Initial
<1> QED
  BY <1>3, <1>4, <1>7

-----------------------------------------------------------------------------
(* What every step keeps.                                                   *)

SessionInv ==
  /\ tier \in {"wayland", "ibus"}
  /\ chain \in Chains \union {<<>>}
  /\ chain # <<>> => im = FromCompose(chain)
  /\ chain = <<>> => im \in Methods
  /\ EngineOK
  /\ fed \in Text /\ Len(fed) <= MaxKeys
  /\ Len(buffer) <= Len(fed) /\ Range(buffer) \subseteq Range(fed)
  /\ mods \subseteq {"Shift", "Lock", "AltGr"}
  /\ keymapPending \in BOOLEAN
  /\ serial \in Nat /\ serial <= Len(fed)
  /\ acc = NoBatch
  /\ text \in Text /\ preedit \in Text
  /\ hides \in 0..MaxHides
  /\ focused \in BOOLEAN
  /\ muted \in BOOLEAN

LEMMA StartsEmpty ==
  /\ <<>> \in Text /\ <<>> \in Seq(Text) /\ Len(<<>>) = 0 /\ Range(<<>>) = {}
  /\ NoBatch \in Batch
<1>1. <<>> \in Text /\ <<>> \in Seq(Text) /\ Len(<<>>) = 0
  BY EmptySeq DEF Text
<1>2. DOMAIN <<>> = {}
  BY EmptySeq, LenProperties
<1>3. Range(<<>>) = {}
  BY <1>2, Zenon DEF Range
<1> QED
  BY <1>1, <1>3 DEF NoBatch, Batch

LEMMA InitInv == Init => SessionInv
<1> SUFFICES ASSUME Init PROVE SessionInv
  OBVIOUS
<1>1. /\ state = im.initial /\ buffer = <<>> /\ lastLookup = <<>> /\ mods = {}
      /\ keymapPending = FALSE /\ serial = 0 /\ acc = NoBatch /\ text = <<>> /\ preedit = <<>>
      /\ hides = 0 /\ focused = FALSE /\ fed = <<>> /\ muted = FALSE
      /\ tier \in {"wayland", "ibus"}
  BY DEF Init
<1>2. MaxKeys \in Nat /\ MaxHides \in Nat /\ Chains \subseteq Seq(ChainSequences) \ {<<>>}
      /\ \A m \in Methods : IsMethod(m)
  BY SessionAssumption DEF SessionAssumption
<1>3. /\ chain \in Chains \union {<<>>} /\ (chain # <<>> => im = FromCompose(chain))
      /\ (chain = <<>> => im \in Methods) /\ IsMethod(im)
  <2>1. CASE chain \in Chains /\ im = FromCompose(chain)
    <3>1. IsChain(chain) /\ chain # <<>>
      BY <1>2, <2>1, NamesAssumption DEF IsChain
    <3> QED
      BY <2>1, <3>1, ChainIsMethod
  <2>2. CASE chain = <<>> /\ im \in Methods
    BY <1>2, <2>2
  <2> QED
    BY <2>1, <2>2 DEF Init
<1>4. EngineOK
  BY <1>1, <1>3, StartsEmpty DEF EngineOK, IsMethod
<1>5. /\ fed \in Text /\ Len(fed) <= MaxKeys /\ text \in Text /\ preedit \in Text
      /\ Len(buffer) <= Len(fed) /\ Range(buffer) \subseteq Range(fed)
      /\ serial \in Nat /\ serial <= Len(fed)
  BY <1>1, <1>2, StartsEmpty
<1>6. /\ tier \in {"wayland", "ibus"} /\ mods \subseteq {"Shift", "Lock", "AltGr"}
      /\ acc = NoBatch /\ hides \in 0..MaxHides
  <2>1. mods = {} /\ hides = 0
    BY <1>1
  <2>2. 0 \in 0..MaxHides
    BY <1>2
  <2> QED
    BY <1>1, <2>1, <2>2, Zenon
<1>7. keymapPending \in BOOLEAN /\ focused \in BOOLEAN /\ muted \in BOOLEAN
  BY <1>1, Zenon
<1> QED
  BY <1>3, <1>4, <1>5, <1>6, <1>7, Zenon DEF SessionInv

\* The session's own part of a key press.
LEMMA AdvanceKeeps ==
  ASSUME SessionInv, NEW k \in Key, NEW m, Len(fed) < MaxKeys,
         Advance(HandleKey(k, m)), im' = im
  PROVE  /\ EngineOK' /\ fed' \in Text /\ Len(fed') <= MaxKeys
         /\ Len(buffer') <= Len(fed') /\ Range(buffer') \subseteq Range(fed')
         /\ serial' \in Nat /\ serial' <= Len(fed') /\ muted' \in BOOLEAN
<1> DEFINE r == HandleKey(k, m)
<1>1. /\ r.state \in DOMAIN im.states
      /\ r.buffer \in Text /\ r.lastLookup \in Seq(Text) /\ Len(r.lastLookup) <= 1
      /\ r.fed \in Text /\ Len(r.buffer) <= Len(r.fed)
      /\ Range(r.buffer) \subseteq Range(r.fed)
      /\ \/ Len(r.fed) = Len(fed) /\ Finish \notin Range(r.acts)
         \/ Len(r.fed) = Len(fed) + 1
  BY HandleKeyIs DEF SessionInv
<1>2. /\ fed' = r.fed
      /\ state' = r.state /\ buffer' = r.buffer /\ lastLookup' = r.lastLookup
      /\ serial' = serial + (IF Finish \in Range(r.acts) THEN 1 ELSE 0)
      /\ muted' = (muted \/ (keymapPending /\ r.fed # fed))
  BY DEF Advance
<1> HIDE DEF r
<1>3. MaxKeys \in Nat /\ Len(fed) \in Nat /\ serial \in Nat /\ serial <= Len(fed)
  BY SessionAssumption, LenProperties DEF SessionAssumption, SessionInv, Text
<1>4. muted' \in BOOLEAN
  BY <1>2, Zenon
<1>5. EngineOK'
  BY <1>1, <1>2 DEF EngineOK, SessionInv
<1>6. serial' \in Nat /\ serial' <= Len(fed')
  BY <1>1, <1>2, <1>3
<1>7. Len(fed') <= MaxKeys
  BY <1>1, <1>2, <1>3
<1> QED
  BY <1>1, <1>2, <1>4, <1>5, <1>6, <1>7

\* The requests of a key press leave the compositor with nothing.
LEMMA OnKeyFlushes ==
  ASSUME SessionInv, NEW k \in Key, OnKey(k)
  PROVE  acc' = NoBatch /\ text' \in Text /\ preedit' \in Text
<1> DEFINE r == HandleKey(k, mods)
           w0 == [acc |-> acc, text |-> text, preedit |-> preedit]
           w == FoldLeft(Request, w0, r.acts)
           v0 == [text |-> text, preedit |-> preedit]
<1>1. /\ r.acts \in Seq(Acts)
      /\ \/ Idle(r.acts) /\ Finish \notin Range(r.acts)
         \/ Closed(r.acts)
  BY HandleKeyIs DEF SessionInv
<1>2. acc' = w.acc /\ text' = w.text /\ preedit' = w.preedit
  BY DEF OnKey
<1> HIDE DEF r
<1>3. w0 \in Wire /\ w0.acc = NoBatch /\ v0 \in Bus
  BY StartsEmpty DEF SessionInv, Wire, Bus
<1> HIDE DEF w0, v0
<1>4. w \in Wire
  BY <1>1, <1>3, RequestsType
<1>5. w.acc = NoBatch
  <2>1. CASE Idle(r.acts)
    BY <1>1, <1>3, <2>1, IdleActs
  <2>2. CASE Closed(r.acts)
    <3>1. PICK e \in Seq(Told) : r.acts = Append(e, Finish)
      BY <2>2 DEF Closed
    <3>2. e \in Seq(Acts)
      BY EventTypes, SeqMonotonic
    <3>3. FoldLeft(Request, w0, Append(e, Finish)).acc = NoBatch
      BY <1>3, <3>2, FinishFlushes
    <3> QED
      BY <3>1, <3>3
  <2> QED
    BY <1>1, <2>1, <2>2
<1> HIDE DEF w
<1> QED
  BY <1>2, <1>4, <1>5 DEF Wire

LEMMA KeyEventTypes ==
  ASSUME SessionInv, NEW k \in Key, NEW m, ProcessKeyEvent(k, m)
  PROVE  text' \in Text /\ preedit' \in Text
<1> DEFINE r == HandleKey(k, m \intersect {"Shift", "Lock", "AltGr"})
           v0 == [text |-> text, preedit |-> preedit]
           v == FoldLeft(Signal, v0, r.acts)
<1>1. r.acts \in Seq(Acts)
  BY HandleKeyIs DEF SessionInv
<1>2. text' = v.text /\ preedit' = v.preedit
  BY DEF ProcessKeyEvent
<1> HIDE DEF r
<1>3. v0 \in Bus
  BY DEF SessionInv, Bus
<1> HIDE DEF v0
<1>4. v \in Bus
  BY <1>1, <1>3, SignalsType
<1> HIDE DEF v
<1> QED
  BY <1>2, <1>4 DEF Bus

LEMMA NextInv ==
  ASSUME SessionInv, [Next]_vars
  PROVE  SessionInv'
<1> USE DEF SessionInv, fsm, session, app, history
<1>0. MaxKeys \in Nat /\ MaxHides \in Nat
  BY SessionAssumption DEF SessionAssumption
<1>1. ASSUME NEW m \in ModStates, OnModifiers(m)
      PROVE  SessionInv'
  BY <1>1 DEF OnModifiers, HandleModifiers, EngineOK
<1>2. CASE OnKeymap
  BY <1>2 DEF OnKeymap, EngineOK
<1>3. CASE OnDone
  BY <1>3 DEF OnDone, EngineOK
<1>4. CASE OnDeactivate
  BY <1>4, StartsEmpty DEF OnDeactivate, EngineOK
<1>5. ASSUME NEW k \in Key, OnKey(k)
      PROVE  SessionInv'
  <2>1. /\ Len(fed) < MaxKeys /\ Advance(HandleKey(k, mods))
        /\ UNCHANGED <<tier, chain, im, mods, keymapPending, hides, focused>>
    BY <1>5 DEF OnKey
  <2>2. acc' = NoBatch /\ text' \in Text /\ preedit' \in Text
    BY <1>5, OnKeyFlushes
  <2>3. /\ EngineOK' /\ fed' \in Text /\ Len(fed') <= MaxKeys
        /\ Len(buffer') <= Len(fed') /\ Range(buffer') \subseteq Range(fed')
        /\ serial' \in Nat /\ serial' <= Len(fed') /\ muted' \in BOOLEAN
    BY <2>1, AdvanceKeeps
  <2> QED
    BY <2>1, <2>2, <2>3
<1>6. ASSUME NEW k \in Key, NEW m \in ModStates, ProcessKeyEvent(k, m)
      PROVE  SessionInv'
  <2> DEFINE kept == m \intersect {"Shift", "Lock", "AltGr"}
  <2>1. /\ Len(fed) < MaxKeys /\ Advance(HandleKey(k, kept)) /\ mods' = kept
        /\ UNCHANGED <<tier, chain, im, keymapPending, acc, hides, focused>>
    BY <1>6 DEF ProcessKeyEvent
  <2>2. text' \in Text /\ preedit' \in Text
    BY <1>6, KeyEventTypes
  <2>3. /\ EngineOK' /\ fed' \in Text /\ Len(fed') <= MaxKeys
        /\ Len(buffer') <= Len(fed') /\ Range(buffer') \subseteq Range(fed')
        /\ serial' \in Nat /\ serial' <= Len(fed') /\ muted' \in BOOLEAN
    BY <2>1, AdvanceKeeps
  <2>4. mods' \subseteq {"Shift", "Lock", "AltGr"}
    BY <2>1
  <2> QED
    BY <2>1, <2>2, <2>3, <2>4
<1>7. CASE FocusIn
  BY <1>7 DEF FocusIn, EngineOK
<1>8. CASE FocusOut
  <2>a. hides < MaxHides /\ hides' = hides + 1 /\ focused' = FALSE /\ hides \in 0..MaxHides
    BY <1>8, Zenon DEF FocusOut
  <2>b. hides' \in 0..MaxHides
    <3> HIDE DEF SessionInv
    <3> QED
      BY <1>0, <2>a
  <2>1. hides' \in 0..MaxHides /\ focused' \in BOOLEAN
    BY <2>a, <2>b, Zenon
  <2>2. UNCHANGED <<tier, chain, im, fsm, session, acc, text, preedit, history>>
    BY <1>8 DEF FocusOut
  <2> QED
    BY <2>1, <2>2 DEF EngineOK
<1>9. CASE Reset
  <2>1. EngineOK'
    BY <1>9, StartsEmpty DEF Reset, EngineOK, IsMethod
  <2> QED
    BY <1>0, <1>9, <2>1, StartsEmpty DEF Reset
<1>10. CASE EmitHidePreedit
  BY <1>0, <1>10, StartsEmpty DEF EmitHidePreedit, EngineOK
<1>11. CASE UNCHANGED vars
  BY <1>11 DEF vars, EngineOK
<1> QED
  BY <1>1, <1>2, <1>3, <1>4, <1>5, <1>6, <1>7, <1>8, <1>9, <1>10, <1>11 DEF Next

(* The session stays within its types: the engine only ever goes to a state *)
(* of its own method, whatever the method or the chain, the buffer holds    *)
(* nothing that was not typed, and there is at most one lookup result.      *)
THEOREM SessionTypes == Spec => []TypeOK
<1>1. Init => SessionInv
  BY InitInv
<1>2. SessionInv /\ [Next]_vars => SessionInv'
  BY NextInv
<1>3. SessionInv => TypeOK
  <2> SUFFICES ASSUME SessionInv PROVE TypeOK
    OBVIOUS
  <2>1. MaxKeys \in Nat /\ Len(fed) \in Nat
    BY SessionAssumption, LenProperties DEF SessionAssumption, SessionInv, Text
  <2>2. acc.open \in BOOLEAN
    BY DEF SessionInv, NoBatch
  <2>3. serial \in 0..MaxKeys
    BY <2>1 DEF SessionInv
  <2> QED
    BY <2>2, <2>3 DEF SessionInv, EngineOK, TypeOK
<1> QED
  BY <1>1, <1>2, <1>3, PTL DEF Spec

(* Between two events the compositor holds nothing that it has not applied: *)
(* translate() ends every batch with a FinishCommit, for every method and   *)
(* chain.                                                                   *)
THEOREM BatchesAreClosed == Spec => []EffectsAreFlushed
<1>1. Init => SessionInv
  BY InitInv
<1>2. SessionInv /\ [Next]_vars => SessionInv'
  BY NextInv
<1>3. SessionInv => EffectsAreFlushed
  BY DEF SessionInv, EffectsAreFlushed, NoBatch
<1> QED
  BY <1>1, <1>2, <1>3, PTL DEF Spec

-----------------------------------------------------------------------------
(* What a keystroke shows.                                                  *)

\* A commit, a preedit or both, and the FinishCommit after them.
LEMMA CommitRequests ==
  ASSUME NEW w \in Wire, w.acc = NoBatch, NEW t \in Text,
         NEW acts \in Seq(Acts), Len(acts) = 2, acts[1] = Commit(t), acts[2] = Finish
  PROVE  /\ FoldLeft(Request, w, acts).text = w.text \o t
         /\ FoldLeft(Request, w, acts).preedit = <<>>
<1>1. PICK q : /\ q[0] = w /\ q[Len(acts)] = FoldLeft(Request, w, acts)
               /\ \A i \in 1..Len(acts) : q[i] = Request(q[i - 1], acts[i])
  BY RequestSteps, Zenon
<1>2. 1 \in 1..2 /\ 2 \in 1..2 /\ 1 - 1 = 0 /\ 2 - 1 = 1
  OBVIOUS
<1>3. q[1] = Request(w, Commit(t)) /\ q[2] = Request(q[1], Finish)
  BY <1>1, <1>2
<1>4. q[1] = [w EXCEPT !.acc.text = t, !.acc.open = TRUE]
  BY <1>3, RequestIs, Zenon
<1>5. q[1].text = w.text /\ q[1].acc.text = t /\ q[1].acc.preedit = <<>>
  <2>1. w.acc.preedit = <<>>
    BY DEF NoBatch
  <2>2. q[1].acc.text = t
    BY <1>4 DEF Wire, Batch
  <2>3. q[1].text = w.text
    BY <1>4 DEF Wire
  <2>4. q[1].acc.preedit = w.acc.preedit
    BY <1>4 DEF Wire, Batch
  <2> QED
    BY <2>1, <2>2, <2>3, <2>4
<1>6. q[2] = [acc |-> NoBatch, text |-> q[1].text \o q[1].acc.text,
              preedit |-> q[1].acc.preedit]
  BY <1>3, RequestIs, Zenon
<1>7. q[2].text = q[1].text \o q[1].acc.text /\ q[2].preedit = q[1].acc.preedit
  <2> DEFINE x == q[1].text \o q[1].acc.text
  <2>1. q[2] = [acc |-> NoBatch, text |-> x, preedit |-> q[1].acc.preedit]
    BY <1>6
  <2> HIDE DEF x
  <2>2. q[2].text = x /\ q[2].preedit = q[1].acc.preedit
    BY <2>1
  <2> QED
    BY <2>2 DEF x
<1>8. q[2] = FoldLeft(Request, w, acts)
  BY <1>1, Zenon
<1> QED
  BY <1>5, <1>7, <1>8, Zenon

LEMMA PreeditRequests ==
  ASSUME NEW w \in Wire, w.acc = NoBatch, NEW t \in Text,
         NEW acts \in Seq(Acts), Len(acts) = 2, acts[1] = Preedit(t), acts[2] = Finish
  PROVE  FoldLeft(Request, w, acts).preedit = t
<1>1. PICK q : /\ q[0] = w /\ q[Len(acts)] = FoldLeft(Request, w, acts)
               /\ \A i \in 1..Len(acts) : q[i] = Request(q[i - 1], acts[i])
  BY RequestSteps, Zenon
<1>2. 1 \in 1..2 /\ 2 \in 1..2 /\ 1 - 1 = 0 /\ 2 - 1 = 1
  OBVIOUS
<1>3. q[1] = Request(w, Preedit(t)) /\ q[2] = Request(q[1], Finish)
  BY <1>1, <1>2
<1>4. q[1] = [w EXCEPT !.acc.preedit = t, !.acc.open = TRUE]
  BY <1>3, RequestIs, Zenon
<1>5. q[1].acc.preedit = t
  BY <1>4 DEF Wire, Batch, NoBatch
<1>6. q[2] = [acc |-> NoBatch, text |-> q[1].text \o q[1].acc.text,
              preedit |-> q[1].acc.preedit]
  BY <1>3, RequestIs, Zenon
<1>7. q[2].preedit = q[1].acc.preedit
  BY <1>6
<1>8. q[2] = FoldLeft(Request, w, acts)
  BY <1>1, Zenon
<1> QED
  BY <1>5, <1>7, <1>8, Zenon

LEMMA BothRequests ==
  ASSUME NEW w \in Wire, w.acc = NoBatch, NEW s \in Text, NEW t \in Text,
         NEW acts \in Seq(Acts), Len(acts) = 3, acts[1] = Commit(s), acts[2] = Preedit(t),
         acts[3] = Finish
  PROVE  FoldLeft(Request, w, acts).preedit = t
<1>1. PICK q : /\ q[0] = w /\ q[Len(acts)] = FoldLeft(Request, w, acts)
               /\ \A i \in 1..Len(acts) : q[i] = Request(q[i - 1], acts[i])
  BY RequestSteps, Zenon
<1>2. 1 \in 1..3 /\ 2 \in 1..3 /\ 3 \in 1..3 /\ 1 - 1 = 0 /\ 2 - 1 = 1 /\ 3 - 1 = 2
  OBVIOUS
<1>3. /\ q[1] = Request(w, Commit(s)) /\ q[2] = Request(q[1], Preedit(t))
      /\ q[3] = Request(q[2], Finish)
  BY <1>1, <1>2
<1>4. q[1] \in Wire
  <2>1. Commit(s) \in Acts
    BY DEF Commit, Acts
  <2> QED
    BY <1>3, <2>1, RequestType
<1>5. q[2] = [q[1] EXCEPT !.acc.preedit = t, !.acc.open = TRUE]
  BY <1>3, RequestIs, Zenon
<1>6. q[2].acc.preedit = t
  BY <1>4, <1>5 DEF Wire, Batch
<1>7. q[3] = [acc |-> NoBatch, text |-> q[2].text \o q[2].acc.text,
              preedit |-> q[2].acc.preedit]
  BY <1>3, RequestIs, Zenon
<1>8. q[3].preedit = q[2].acc.preedit
  BY <1>7
<1>9. q[3] = FoldLeft(Request, w, acts)
  BY <1>1, Zenon
<1> QED
  BY <1>6, <1>8, <1>9, Zenon

\* The events of a symbol when no state says anything as it is entered.
Quiet(m) == \A id \in DOMAIN m.states : m.states[id].onEnter = Silent
Said(tr, sym) == Emit(tr, Popped(tr, sym), Looked(tr, sym), sym)

LEMMA FeedEvents ==
  ASSUME EngineOK, Quiet(im), NEW tr \in Transitions(DOMAIN im.states), NEW sym \in Symbol
  PROVE  /\ Said(tr, sym) \in Seq(Told)
         /\ Apply(tr, sym).events \in {Said(tr, sym), Said(tr, sym) \o <<StateChange>>}
         /\ Kept(Apply(tr, sym).events) = Said(tr, sym)
<1>1. Said(tr, sym) \in Seq(Shown)
  BY BufferOf, EmitIs DEF Said, Transitions, Text, Symbol
<1>2. Said(tr, sym) \in Seq(Told)
  BY <1>1, EventTypes, SeqMonotonic
<1>3. Emit(Silent, Left(tr, sym), LookLeft(tr, sym), sym) = <<>>
  BY BufferOf, EmitIs, StartsEmpty DEF Silent
<1>4. <<StateChange>> \o <<>> = <<StateChange>> /\ Said(tr, sym) \o <<>> = Said(tr, sym)
  BY <1>2, EventTypes, OneAndTwo, ConcatEmptySeq
<1>5. im.states[Next1(tr, sym)].onEnter = Silent
  BY BufferOf DEF Quiet
<1>6. Apply(tr, sym).events = Said(tr, sym) \o
        IF Next1(tr, sym) = state THEN <<>>
        ELSE <<StateChange>> \o Emit(im.states[Next1(tr, sym)].onEnter,
                                     Left(tr, sym), LookLeft(tr, sym), sym)
  BY ApplyIs DEF Said
<1>7. Apply(tr, sym).events \in {Said(tr, sym), Said(tr, sym) \o <<StateChange>>}
  BY <1>3, <1>4, <1>5, <1>6
<1> QED
  BY <1>2, <1>7, KeptIs

\* A method that shows its buffer: what it shows is the buffer, and it is not
\* cleared in the same step; what it commits without showing leaves no buffer.
ShowsItsBuffer(m) ==
  /\ Quiet(m)
  /\ \A id \in DOMAIN m.states : \A n \in DOMAIN m.states[id].transitions :
       LET tr == m.states[id].transitions[n] IN
       /\ tr.preedit \in {<<>>, TheBuffer}
       /\ tr.preedit # <<>> => ~tr.clear
       /\ tr.preedit = <<>> /\ tr.commit # <<>> => tr.clear

\* What the compositor shows after the actions of a transition are carried out.
LEMMA SaidShows ==
  ASSUME NEW w \in Wire, w.acc = NoBatch, EngineOK,
         NEW tr \in Transitions(DOMAIN im.states), NEW sym \in Symbol,
         tr.preedit \in {<<>>, TheBuffer}, Effective(Said(tr, sym)),
         Said(tr, sym) \in Seq(Told)
  PROVE  FoldLeft(Request, w, Append(Said(tr, sym), Finish)).preedit =
           IF tr.preedit = <<>> THEN <<>> ELSE Popped(tr, sym)
<1> DEFINE e == Said(tr, sym)
           acts == Append(e, Finish)
           out == FoldLeft(Request, w, acts)
           c == Expand(tr.commit, Popped(tr, sym), Looked(tr, sym), sym)
           p == Expand(tr.preedit, Popped(tr, sym), Looked(tr, sym), sym)
<1>1. tr.commit \in Text /\ tr.preedit \in Text /\ Popped(tr, sym) \in Text
      /\ Looked(tr, sym) \in Seq(Text)
  BY BufferOf DEF Transitions, Text, Symbol
<1>2. c \in Text /\ p \in Text
  BY <1>1, ExpandType
<1>3. tr.preedit # <<>> => p = Popped(tr, sym)
  BY <1>1, ExpandBuffer
<1>4. /\ tr.commit = <<>> /\ tr.preedit = <<>> => e = <<>>
      /\ tr.commit # <<>> /\ tr.preedit = <<>> => e = <<Commit(c)>>
      /\ tr.commit = <<>> /\ tr.preedit # <<>> => e = <<Preedit(p)>>
      /\ tr.commit # <<>> /\ tr.preedit # <<>> => e = <<Commit(c), Preedit(p)>>
  BY <1>1, EmitIs DEF Said
<1>5. e # <<>>
  <2>1. DOMAIN <<>> = {}
    BY EmptySeq, LenProperties
  <2> QED
    BY <2>1, Zenon DEF Effective
<1> HIDE DEF c, p, e
<1>6. e \in Seq(Acts)
  BY EventTypes, SeqMonotonic DEF e
<1>7. /\ acts \in Seq(Acts) /\ Len(acts) = Len(e) + 1
      /\ \A i \in 1..Len(e) : acts[i] = e[i]
      /\ acts[Len(e) + 1] = Finish
  BY <1>6, EventTypes, AppendProperties
<1> HIDE DEF acts
<1>8. CASE tr.commit # <<>> /\ tr.preedit = <<>>
  <2>1. Len(e) = 1 /\ e[1] = Commit(c)
    BY <1>4, <1>8
  <2>2. Len(acts) = 2 /\ acts[1] = Commit(c) /\ acts[2] = Finish
    BY <1>7, <2>1
  <2>3. out.preedit = <<>>
    BY <1>2, <1>7, <2>2, CommitRequests
  <2> QED
    BY <1>8, <2>3 DEF acts, e
<1>9. CASE tr.commit = <<>> /\ tr.preedit # <<>>
  <2>1. Len(e) = 1 /\ e[1] = Preedit(p)
    BY <1>4, <1>9
  <2>2. Len(acts) = 2 /\ acts[1] = Preedit(p) /\ acts[2] = Finish
    BY <1>7, <2>1
  <2>3. out.preedit = p
    BY <1>2, <1>7, <2>2, PreeditRequests
  <2> QED
    BY <1>3, <1>9, <2>3 DEF acts, e
<1>10. CASE tr.commit # <<>> /\ tr.preedit # <<>>
  <2>1. Len(e) = 2 /\ e[1] = Commit(c) /\ e[2] = Preedit(p)
    BY <1>4, <1>10
  <2>2. Len(acts) = 3 /\ acts[1] = Commit(c) /\ acts[2] = Preedit(p) /\ acts[3] = Finish
    BY <1>7, <2>1
  <2>3. out.preedit = p
    BY <1>2, <1>7, <2>2, BothRequests
  <2> QED
    BY <1>3, <1>10, <2>3 DEF acts, e
<1> QED
  BY <1>4, <1>5, <1>8, <1>9, <1>10 DEF e

\* What the transitions of the current state must be like, for a key press to
\* show the buffer.
Agrees(sym) ==
  \A n \in DOMAIN im.states[state].transitions :
    LET tr == im.states[state].transitions[n] IN
    /\ tr.preedit \in {<<>>, TheBuffer}
    /\ tr.preedit # <<>> => ~tr.clear
    /\ tr.preedit = <<>> /\ tr.commit # <<>> => Left(tr, sym) = <<>>

LEMMA PressShows ==
  ASSUME NEW w \in Wire, w.acc = NoBatch, EngineOK, NEW sym \in Symbol,
         Quiet(im), Agrees(sym), Finish \in Range(Translate(Feed(sym).events))
  PROVE  FoldLeft(Request, w, Translate(Feed(sym).events)).preedit = Feed(sym).buffer
<1>1. PICK n \in DOMAIN im.states[state].transitions :
        /\ im.states[state].transitions[n] \in Transitions(DOMAIN im.states)
        /\ Feed(sym) = Apply(im.states[state].transitions[n], sym)
  <2>1. ASSUME Feed(sym).events = <<Passthrough>>
        PROVE  FALSE
    <3>1. <<Passthrough>> \in Seq(Told)
      BY EventTypes, OneAndTwo
    <3>2. Kept(Feed(sym).events) = <<Passthrough>> /\ Feed(sym).events \in Seq(EngineEvents)
      BY <2>1, <3>1, KeptIs, EventTypes, SeqMonotonic
    <3>3. DOMAIN <<Passthrough>> = 1..1 /\ <<Passthrough>>[1] = Passthrough
      OBVIOUS
    <3>4. ~Effective(<<Passthrough>>) /\ Finish \notin Range(<<Passthrough>>)
      BY <3>3, EventTypes DEF Effective, Range
    <3>5. Finish \notin Range(<<>>)
      BY StartsEmpty
    <3> QED
      BY <3>2, <3>4, <3>5, TranslateIs
  <2> QED
    BY <2>1, FeedIs
<1> DEFINE tr == im.states[state].transitions[n]
           ev == Feed(sym).events
<1>2. /\ tr \in Transitions(DOMAIN im.states) /\ Feed(sym) = Apply(tr, sym)
      /\ tr.preedit \in {<<>>, TheBuffer}
      /\ tr.preedit # <<>> => ~tr.clear
      /\ tr.preedit = <<>> /\ tr.commit # <<>> => Left(tr, sym) = <<>>
  BY <1>1, Zenon DEF Agrees
<1> HIDE DEF tr
<1>3. /\ Said(tr, sym) \in Seq(Told) /\ Kept(ev) = Said(tr, sym)
      /\ ev \in Seq(EngineEvents)
  BY <1>2, FeedEvents, FeedType
<1>4. Feed(sym).buffer = Left(tr, sym)
  BY <1>2, ApplyIs
<1> HIDE DEF ev
<1>5. Effective(Said(tr, sym)) /\ Translate(ev) = Append(Said(tr, sym), Finish)
  <2>1. CASE ~Effective(Said(tr, sym)) \/ Translate(ev) = <<>>
    <3>1. Finish \notin Range(<<>>)
      BY StartsEmpty
    <3>2. ASSUME Translate(ev) = Said(tr, sym), ~Effective(Said(tr, sym)) PROVE FALSE
      <4>1. \A i \in DOMAIN Said(tr, sym) : Said(tr, sym)[i] \in Told
        BY <1>3, LenProperties
      <4>2. Finish \notin Range(Said(tr, sym))
        BY <4>1, EventTypes DEF Range
      <4> QED
        BY <3>2, <4>2 DEF ev
    <3> QED
      BY <1>3, <2>1, <3>1, <3>2, TranslateIs DEF ev
  <2> QED
    BY <1>3, <2>1, TranslateIs
<1>6. FoldLeft(Request, w, Translate(ev)).preedit =
        IF tr.preedit = <<>> THEN <<>> ELSE Popped(tr, sym)
  BY <1>2, <1>3, <1>5, SaidShows
<1>7. tr.preedit = <<>> => tr.commit # <<>>
  <2>1. ASSUME tr.preedit = <<>>, tr.commit = <<>> PROVE FALSE
    <3>1. Said(tr, sym) = <<>>
      BY <1>2, <2>1, BufferOf, EmitIs, StartsEmpty DEF Said
    <3>2. DOMAIN <<>> = {}
      BY EmptySeq, LenProperties
    <3> QED
      BY <1>5, <3>1, <3>2 DEF Effective
  <2> QED
    BY <2>1
<1> QED
  BY <1>2, <1>4, <1>6, <1>7 DEF Left, ev

\* The transitions of a compiled chain: the arcs, then the wildcard, which
\* comes last; none of them touches the buffer.
LEMMA ChainTransitions ==
  ASSUME NEW c, IsChain(c), c # <<>>, NEW p \in Paths(c),
         NEW n \in DOMAIN FromCompose(c).states[p].transitions
  PROVE  LET trs == FromCompose(c).states[p].transitions
             arcs == SetToSeq(Arcs(c, p)) IN
         /\ trs \in Seq(Transitions(Paths(c)))
         /\ arcs \in Seq(Transitions(Paths(c))) /\ Range(arcs) = Arcs(c, p)
         /\ \A i \in DOMAIN arcs : i \in DOMAIN trs /\ trs[i] = arcs[i]
         /\ \/ n \in DOMAIN arcs /\ trs[n] \in Arcs(c, p)
            \/ /\ n = Len(arcs) + 1 /\ p # <<>>
               /\ trs[n] = Move("*", <<>>, {Initial})
         /\ p # <<>> => Len(trs) = Len(arcs) + 1
<1> DEFINE trs == FromCompose(c).states[p].transitions
           arcs == SetToSeq(Arcs(c, p))
           d == Move("*", <<>>, {Initial})
           T == Transitions(Paths(c))
<1>1. /\ arcs \in Seq(T) /\ Range(arcs) = Arcs(c, p) /\ Discard(p) \in Seq(T)
  BY ChainIsMethod
<1>2. trs = arcs \o Discard(p)
  BY FromComposeIs
<1>3. Discard(p) = IF p = <<>> THEN <<>> ELSE <<d>>
  BY DEF Discard
<1>4. <<d>>[1] = d /\ Len(<<d>>) = 1 /\ Len(<<>>) = 0
  <2>1. \A x : <<x>>[1] = x /\ Len(<<x>>) = 1
    OBVIOUS
  <2> HIDE DEF d
  <2> QED
    BY <2>1, EmptySeq
<1> HIDE DEF trs, arcs, d, T
<1>5. /\ trs \in Seq(T) /\ Len(trs) = Len(arcs) + Len(Discard(p))
      /\ \A i \in 1..(Len(arcs) + Len(Discard(p))) :
           trs[i] = IF i <= Len(arcs) THEN arcs[i] ELSE Discard(p)[i - Len(arcs)]
  BY <1>1, <1>2, ConcatProperties
<1>6. Len(arcs) \in Nat /\ DOMAIN arcs = 1..Len(arcs) /\ DOMAIN trs = 1..Len(trs)
      /\ n \in DOMAIN trs
  BY <1>1, <1>5, LenProperties DEF trs
<1>7. Len(Discard(p)) = IF p = <<>> THEN 0 ELSE 1
  BY <1>3, <1>4
<1>8. \A i \in DOMAIN arcs : i \in DOMAIN trs /\ trs[i] = arcs[i]
  BY <1>5, <1>6, <1>7
<1>9. \/ n \in DOMAIN arcs /\ trs[n] \in Arcs(c, p)
      \/ n = Len(arcs) + 1 /\ p # <<>> /\ trs[n] = d
  <2>1. CASE n <= Len(arcs)
    <3>1. n \in DOMAIN arcs /\ trs[n] = arcs[n]
      BY <1>5, <1>6, <1>7, <2>1
    <3>2. arcs[n] \in Range(arcs)
      BY <3>1, Zenon DEF Range
    <3> QED
      BY <1>1, <3>1, <3>2
  <2>2. CASE ~(n <= Len(arcs))
    <3>1. p # <<>> /\ n = Len(arcs) + 1
      BY <1>5, <1>6, <1>7, <2>2
    <3>2. n - Len(arcs) = 1 /\ Discard(p) = <<d>>
      BY <1>3, <1>6, <3>1
    <3>3. trs[n] = Discard(p)[n - Len(arcs)]
      BY <1>5, <1>6, <2>2
    <3> QED
      BY <1>4, <3>1, <3>2, <3>3
  <2> QED
    BY <2>1, <2>2
<1>10. p # <<>> => Len(trs) = Len(arcs) + 1
  BY <1>5, <1>7
<1> QED
  BY <1>1, <1>5, <1>8, <1>9, <1>10 DEF trs, arcs, d, T

LEMMA ChainMoves ==
  ASSUME NEW c, IsChain(c), c # <<>>, NEW p \in Paths(c),
         NEW n \in DOMAIN FromCompose(c).states[p].transitions
  PROVE  LET tr == FromCompose(c).states[p].transitions[n] IN
         /\ tr.append = FALSE /\ tr.pop = FALSE /\ tr.lookup = FALSE /\ tr.clear = FALSE
         /\ tr.preedit = <<>>
<1> DEFINE tr == FromCompose(c).states[p].transitions[n]
<1>1. PICK a, o, g : tr = Move(a, o, g)
  <2>1. tr \in Arcs(c, p) \/ tr = Move("*", <<>>, {Initial})
    BY ChainTransitions, Zenon
  <2>2. tr \in Arcs(c, p) => \E q : tr = Arc(c, q)
    BY Zenon DEF Arcs
  <2> QED
    BY <2>1, <2>2, Zenon DEF Arc
<1> HIDE DEF tr
<1>2. /\ tr.append = FALSE /\ tr.pop = FALSE /\ tr.lookup = FALSE /\ tr.clear = FALSE
      /\ tr.preedit = <<>>
  BY <1>1 DEF Move
<1> QED
  BY <1>2 DEF tr

\* A chain has no buffer.
ChainInv == chain # <<>> => buffer = <<>> /\ lastLookup = <<>>

LEMMA ChainStates ==
  ASSUME SessionInv, chain # <<>>
  PROVE  /\ IsChain(chain) /\ im = FromCompose(chain) /\ Quiet(im)
         /\ DOMAIN im.states = Paths(chain) /\ state \in Paths(chain)
<1>1. IsChain(chain) /\ im = FromCompose(chain)
  BY SessionAssumption, NamesAssumption DEF SessionAssumption, SessionInv, IsChain
<1>2. DOMAIN im.states = Paths(chain) /\ \A p \in Paths(chain) : im.states[p].onEnter = Silent
  BY <1>1, FromComposeIs
<1> QED
  BY <1>1, <1>2 DEF Quiet, SessionInv, EngineOK

LEMMA ChainMovesHere ==
  ASSUME SessionInv, chain # <<>>, NEW n \in DOMAIN im.states[state].transitions
  PROVE  LET tr == im.states[state].transitions[n] IN
         /\ tr.append = FALSE /\ tr.pop = FALSE /\ tr.lookup = FALSE /\ tr.clear = FALSE
         /\ tr.preedit = <<>>
<1>1. IsChain(chain) /\ im = FromCompose(chain) /\ state \in Paths(chain)
  BY ChainStates
<1>2. n \in DOMAIN FromCompose(chain).states[state].transitions
  BY <1>1
<1>3. FromCompose(chain).states[state].transitions[n] = im.states[state].transitions[n]
  BY <1>1
<1>4. LET tr == FromCompose(chain).states[state].transitions[n] IN
      /\ tr.append = FALSE /\ tr.pop = FALSE /\ tr.lookup = FALSE /\ tr.clear = FALSE
      /\ tr.preedit = <<>>
  BY <1>1, <1>2, ChainMoves, Zenon
<1> QED
  BY <1>3, <1>4, Zenon

LEMMA ChainFeed ==
  ASSUME SessionInv, ChainInv, chain # <<>>, NEW sym \in Symbol
  PROVE  /\ Feed(sym).buffer = <<>> /\ Feed(sym).lastLookup = <<>>
         /\ \A n \in DOMAIN im.states[state].transitions :
              Left(im.states[state].transitions[n], sym) = <<>>
<1>1. buffer = <<>> /\ lastLookup = <<>>
  BY DEF ChainInv
<1>2. ASSUME NEW n \in DOMAIN im.states[state].transitions
      PROVE  LET tr == im.states[state].transitions[n] IN
             Left(tr, sym) = <<>> /\ LookLeft(tr, sym) = <<>>
  <2> DEFINE tr == im.states[state].transitions[n]
  <2>1. /\ tr.append = FALSE /\ tr.pop = FALSE /\ tr.lookup = FALSE /\ tr.clear = FALSE
    BY ChainMovesHere
  <2> HIDE DEF tr
  <2>2. Popped(tr, sym) = <<>>
    BY <1>1, <2>1 DEF Popped
  <2>3. Looked(tr, sym) = <<>>
    BY <1>1, <2>1 DEF Looked
  <2>4. Left(tr, sym) = <<>> /\ LookLeft(tr, sym) = <<>>
    BY <2>2, <2>3 DEF Left, LookLeft
  <2> QED
    BY <2>4 DEF tr
<1>3. EngineOK
  BY DEF SessionInv
<1>4. CASE Feed(sym) = [state |-> state, buffer |-> buffer, lastLookup |-> lastLookup,
                        events |-> <<Passthrough>>]
  BY <1>1, <1>2, <1>4
<1>5. ASSUME NEW n \in DOMAIN im.states[state].transitions,
             Feed(sym) = Apply(im.states[state].transitions[n], sym)
      PROVE  Feed(sym).buffer = <<>> /\ Feed(sym).lastLookup = <<>>
  <2> DEFINE tr == im.states[state].transitions[n]
  <2>1. Left(tr, sym) = <<>> /\ LookLeft(tr, sym) = <<>>
    BY <1>2
  <2>2. Feed(sym).buffer = Left(tr, sym) /\ Feed(sym).lastLookup = LookLeft(tr, sym)
    BY <1>5, ApplyIs
  <2> QED
    BY <2>1, <2>2
<1> QED
  BY <1>2, <1>3, <1>4, <1>5, FeedIs

\* A key press is a symbol fed, or none.
LEMMA PressIs ==
  ASSUME NEW k \in Key, NEW m
  PROVE  \/ HandleKey(k, m) = [fed |-> fed, acts |-> <<Passthrough>>, state |-> state,
                               buffer |-> buffer, lastLookup |-> lastLookup]
         \/ \E sym \in Symbol :
              HandleKey(k, m) = [fed |-> Append(fed, sym), acts |-> Translate(Feed(sym).events),
                                 state |-> Feed(sym).state, buffer |-> Feed(sym).buffer,
                                 lastLookup |-> Feed(sym).lastLookup]
<1>1. CASE Resolve(k, m) = {}
  BY <1>1 DEF HandleKey
<1>2. CASE Resolve(k, m) # {}
  <2> DEFINE sym == CHOOSE s \in Resolve(k, m) : TRUE
  <2>1. sym \in Symbol
    BY <1>2, ResolveIs
  <2>2. HandleKey(k, m) = [fed |-> Append(fed, sym), acts |-> Translate(Feed(sym).events),
                           state |-> Feed(sym).state, buffer |-> Feed(sym).buffer,
                           lastLookup |-> Feed(sym).lastLookup]
    BY <1>2, Zenon DEF HandleKey
  <2> HIDE DEF sym
  <2> QED
    BY <2>1, <2>2, Zenon
<1> QED
  BY <1>1, <1>2

LEMMA ChainKept ==
  ASSUME SessionInv, ChainInv, [Next]_vars
  PROVE  ChainInv'
<1> USE DEF fsm, session, app, history
<1>1. ASSUME NEW k \in Key, NEW m, Advance(HandleKey(k, m)), UNCHANGED chain
      PROVE  ChainInv'
  <2> SUFFICES ASSUME chain # <<>> PROVE buffer' = <<>> /\ lastLookup' = <<>>
    BY <1>1 DEF ChainInv
  <2> DEFINE r == HandleKey(k, m)
  <2>1. buffer' = r.buffer /\ lastLookup' = r.lastLookup
    BY <1>1 DEF Advance
  <2>2. r.buffer = <<>> /\ r.lastLookup = <<>>
    <3>1. CASE r = [fed |-> fed, acts |-> <<Passthrough>>, state |-> state,
                    buffer |-> buffer, lastLookup |-> lastLookup]
      BY <3>1 DEF ChainInv
    <3>2. ASSUME NEW sym \in Symbol,
                 r = [fed |-> Append(fed, sym), acts |-> Translate(Feed(sym).events),
                      state |-> Feed(sym).state, buffer |-> Feed(sym).buffer,
                      lastLookup |-> Feed(sym).lastLookup]
          PROVE  r.buffer = <<>> /\ r.lastLookup = <<>>
      <4>1. r.buffer = Feed(sym).buffer /\ r.lastLookup = Feed(sym).lastLookup
        BY <3>2
      <4> QED
        BY <4>1, ChainFeed
    <3> QED
      BY <3>1, <3>2, PressIs
  <2> QED
    BY <2>1, <2>2
<1>2. ASSUME NEW k \in Key, OnKey(k) PROVE ChainInv'
  BY <1>1, <1>2 DEF OnKey
<1>3. ASSUME NEW k \in Key, NEW m \in ModStates, ProcessKeyEvent(k, m) PROVE ChainInv'
  BY <1>1, <1>3 DEF ProcessKeyEvent
<1>4. CASE Reset
  BY <1>4 DEF Reset, ChainInv
<1>5. ASSUME UNCHANGED <<chain, buffer, lastLookup>>
      PROVE  ChainInv'
  BY <1>5 DEF ChainInv
<1>6. ASSUME NEW m \in ModStates, OnModifiers(m)
      PROVE  UNCHANGED <<chain, buffer, lastLookup>>
  BY <1>6 DEF OnModifiers
<1>7. OnKeymap \/ OnDone \/ OnDeactivate => UNCHANGED <<chain, buffer, lastLookup>>
  BY DEF OnKeymap, OnDone, OnDeactivate
<1>8. FocusIn \/ FocusOut \/ EmitHidePreedit => UNCHANGED <<chain, buffer, lastLookup>>
  BY DEF FocusIn, FocusOut, EmitHidePreedit
<1>9. UNCHANGED vars => UNCHANGED <<chain, buffer, lastLookup>>
  BY DEF vars
<1> QED
  BY <1>2, <1>3, <1>4, <1>5, <1>6, <1>7, <1>8, <1>9 DEF Next

LEMMA KeyShows ==
  ASSUME SessionInv, ChainInv, \A m \in Methods : ShowsItsBuffer(m),
         NEW k \in Key, OnKey(k), serial' > serial
  PROVE  preedit' = buffer'
<1> DEFINE r == HandleKey(k, mods)
           w0 == [acc |-> acc, text |-> text, preedit |-> preedit]
<1>1. /\ preedit' = FoldLeft(Request, w0, r.acts).preedit
      /\ buffer' = r.buffer
      /\ serial' = serial + (IF Finish \in Range(r.acts) THEN 1 ELSE 0)
  BY DEF OnKey, Advance
<1>2. w0 \in Wire /\ w0.acc = NoBatch
  BY StartsEmpty DEF SessionInv, Wire
<1>3. EngineOK /\ serial \in Nat
  BY DEF SessionInv
<1> HIDE DEF w0
<1>4. Finish \in Range(r.acts)
  <2> HIDE DEF r
  <2> QED
    BY <1>1, <1>3
<1>5. PICK sym \in Symbol :
        r = [fed |-> Append(fed, sym), acts |-> Translate(Feed(sym).events),
             state |-> Feed(sym).state, buffer |-> Feed(sym).buffer,
             lastLookup |-> Feed(sym).lastLookup]
  <2>1. ASSUME r = [fed |-> fed, acts |-> <<Passthrough>>, state |-> state,
                    buffer |-> buffer, lastLookup |-> lastLookup]
        PROVE  FALSE
    <3>1. r.acts = <<Passthrough>>
      BY <2>1
    <3>2. Finish \notin Range(<<Passthrough>>)
      BY DEF Range, Passthrough, Finish
    <3> QED
      BY <1>4, <3>1, <3>2
  <2> QED
    BY <2>1, PressIs
<1> HIDE DEF r
<1>6. r.acts = Translate(Feed(sym).events) /\ r.buffer = Feed(sym).buffer
  BY <1>5
<1>7. Quiet(im) /\ Agrees(sym)
  <2>1. CASE chain = <<>>
    <3>1. ShowsItsBuffer(im)
      BY <2>1 DEF SessionInv
    <3>2. \A n \in DOMAIN im.states[state].transitions :
            LET tr == im.states[state].transitions[n] IN
            /\ tr.preedit \in {<<>>, TheBuffer}
            /\ tr.preedit # <<>> => ~tr.clear
            /\ tr.preedit = <<>> /\ tr.commit # <<>> => tr.clear
      BY <1>3, <3>1, Zenon DEF ShowsItsBuffer, EngineOK
    <3>3. \A tr : tr.clear => Left(tr, sym) = <<>>
      BY Zenon DEF Left
    <3>4. Agrees(sym)
      BY <3>2, <3>3, Zenon DEF Agrees
    <3> QED
      BY <3>1, <3>4 DEF ShowsItsBuffer
  <2>2. CASE chain # <<>>
    <3>1. Quiet(im)
      BY <2>2, ChainStates
    <3>2. ASSUME NEW n \in DOMAIN im.states[state].transitions
          PROVE  /\ im.states[state].transitions[n].preedit = <<>>
                 /\ Left(im.states[state].transitions[n], sym) = <<>>
      BY <2>2, ChainMovesHere, ChainFeed
    <3>3. Agrees(sym)
      BY <3>2, Zenon DEF Agrees
    <3> QED
      BY <3>1, <3>3
  <2> QED
    BY <2>1, <2>2
<1>8. FoldLeft(Request, w0, Translate(Feed(sym).events)).preedit = Feed(sym).buffer
  BY <1>2, <1>3, <1>4, <1>6, <1>7, PressShows
<1> QED
  BY <1>1, <1>6, <1>8

(* What the compositor shows after a keystroke that had an effect is the    *)
(* buffer, for every method that shows its buffer and for every chain.      *)
THEOREM TheBufferIsShown ==
  ASSUME \A m \in Methods : ShowsItsBuffer(m)
  PROVE  Spec => KeyShowsBuffer
<1>1. Init => SessionInv /\ ChainInv
  <2>1. Init => ChainInv
    BY DEF Init, ChainInv
  <2> QED
    BY <2>1, InitInv
<1>2. SessionInv /\ ChainInv /\ [Next]_vars => SessionInv' /\ ChainInv'
  BY NextInv, ChainKept
<1>3. SessionInv /\ ChainInv /\ [Next]_vars
        => [tier = "wayland" /\ serial' > serial => preedit' = buffer']_vars
  <2> SUFFICES ASSUME SessionInv, ChainInv, [Next]_vars, tier = "wayland", serial' > serial
               PROVE  preedit' = buffer'
    OBVIOUS
  <2>1. serial \in Nat
    BY DEF SessionInv
  <2>2. serial' # serial
    BY <2>1
  <2> USE DEF fsm, session, app, history
  <2>3. ASSUME NEW k \in Key, OnKey(k) PROVE preedit' = buffer'
    BY <2>3, KeyShows
  <2>4. ASSUME NEW k \in Key, NEW m \in ModStates, ProcessKeyEvent(k, m) PROVE FALSE
    BY <2>4 DEF ProcessKeyEvent
  <2>5. ASSUME NEW m \in ModStates, OnModifiers(m) PROVE FALSE
    BY <2>2, <2>5 DEF OnModifiers
  <2>6. OnKeymap \/ OnDone \/ OnDeactivate => UNCHANGED serial
    BY DEF OnKeymap, OnDone, OnDeactivate
  <2>7. FocusIn \/ FocusOut \/ EmitHidePreedit => UNCHANGED serial
    BY DEF FocusIn, FocusOut, EmitHidePreedit
  <2>8. ~Reset
    BY DEF Reset
  <2>9. UNCHANGED vars => UNCHANGED serial
    BY DEF vars
  <2> QED
    BY <2>2, <2>3, <2>4, <2>5, <2>6, <2>7, <2>8, <2>9 DEF Next
<1> QED
  BY <1>1, <1>2, <1>3, PTL DEF Spec, KeyShowsBuffer

-----------------------------------------------------------------------------
(* Composed: how the symbols are cut, and what the pieces give.             *)

Complete(c, v) == \E n \in DOMAIN c : c[n].input = v
Dead(c, v) == \A n \in DOMAIN c : ~IsPrefix(v, c[n].input)
Cuts(c, w, i) == {j \in i..Len(w) : Complete(c, SubSeq(w, i, j)) \/ Dead(c, SubSeq(w, i, j))}
Given(c, v) == IF Complete(c, v) THEN Output(c, v) ELSE <<>>
\* What Composed's parse is at i, when g is what it is further on.
From(c, w, g, i) ==
  IF Cuts(c, w, i) = {} THEN <<>>
  ELSE Given(c, SubSeq(w, i, Min(Cuts(c, w, i)))) \o g[Min(Cuts(c, w, i)) + 1]
Parse(c, w) == CHOOSE g : g = [i \in 1..(Len(w) + 1) |-> From(c, w, g, i)]

LEMMA ComposedIs ==
  ASSUME NEW c, NEW w
  PROVE  Composed(c, w) = Parse(c, w)[1]
BY DEF Composed, Parse, From, Given, Cuts, Complete, Dead

\* The first cut of what is left lies ahead.
LEMMA CutsAhead ==
  ASSUME NEW c, NEW w \in Text, NEW i \in 1..(Len(w) + 1)
  PROVE  /\ Cuts(c, w, i) \in SUBSET Nat
         /\ i = Len(w) + 1 => Cuts(c, w, i) = {}
         /\ Cuts(c, w, i) # {} =>
              /\ Min(Cuts(c, w, i)) \in Cuts(c, w, i)
              /\ Min(Cuts(c, w, i)) \in i..Len(w)
              /\ \A j \in Cuts(c, w, i) : Min(Cuts(c, w, i)) <= j
<1>0. Len(w) \in Nat
  BY LenProperties DEF Text
<1>1. Cuts(c, w, i) \subseteq i..Len(w)
  BY DEF Cuts
<1>2. Cuts(c, w, i) \in SUBSET Nat
  BY <1>0, <1>1
<1>3. i = Len(w) + 1 => Cuts(c, w, i) = {}
  BY <1>0, <1>1
<1>4. ASSUME Cuts(c, w, i) # {}
      PROVE  /\ Min(Cuts(c, w, i)) \in Cuts(c, w, i)
             /\ \A j \in Cuts(c, w, i) : Min(Cuts(c, w, i)) <= j
  BY <1>2, <1>4, MinIs
<1> QED
  BY <1>1, <1>2, <1>3, <1>4

\* The recursion of Composed defines a function: it only looks ahead.
LEMMA ParseIs ==
  ASSUME NEW c, NEW w \in Text
  PROVE  Parse(c, w) = [i \in 1..(Len(w) + 1) |-> From(c, w, Parse(c, w), i)]
<1> DEFINE n == Len(w)
           Is(g, m) == g = [i \in (n + 1 - m)..(n + 1) |-> From(c, w, g, i)]
           Up(m) == \E g : Is(g, m)
<1>0. n \in Nat
  BY LenProperties DEF Text
<1>1. Up(0)
  <2> DEFINE g == [i \in (n + 1 - 0)..(n + 1) |-> <<>>]
  <2>1. ASSUME NEW i \in (n + 1 - 0)..(n + 1) PROVE From(c, w, g, i) = <<>>
    <3>1. i \in 1..(n + 1) /\ i = n + 1
      BY <1>0
    <3>2. Cuts(c, w, i) = {}
      BY <3>1, CutsAhead
    <3> QED
      BY <3>2 DEF From
  <2>2. Is(g, 0)
    BY <2>1
  <2> QED
    BY <2>2
<1>2. ASSUME NEW m \in Nat, m + 1 <= n, Up(m)
      PROVE  Up(m + 1)
  <2>1. PICK g : Is(g, m)
    BY <1>2
  <2> DEFINE k == n + 1 - (m + 1)
             h == [i \in k..(n + 1) |-> IF i = k THEN From(c, w, g, k) ELSE g[i]]
  <2>2. k \in 1..n /\ k + 1 = n + 1 - m
    BY <1>0, <1>2
  <2> HIDE DEF k
  <2>3. ASSUME NEW i \in k..(n + 1) PROVE From(c, w, h, i) = From(c, w, g, i)
    <3>1. CASE Cuts(c, w, i) = {}
      BY <3>1 DEF From
    <3>2. CASE Cuts(c, w, i) # {}
      <4>1. i \in 1..(n + 1)
        BY <1>0, <2>2
      <4>2. Min(Cuts(c, w, i)) \in i..n
        BY <3>2, <4>1, CutsAhead
      <4> DEFINE e == Min(Cuts(c, w, i)) + 1
      <4>3. e \in k..(n + 1) /\ e # k
        BY <1>0, <2>2, <4>1, <4>2
      <4>4. h[e] = g[e]
        BY <4>3
      <4> QED
        BY <3>2, <4>4 DEF From
    <3> QED
      BY <3>1, <3>2
  <2>4. ASSUME NEW i \in k..(n + 1) PROVE h[i] = From(c, w, h, i)
    <3>1. CASE i = k
      BY <2>3, <3>1
    <3>2. CASE i # k
      <4>1. i \in (n + 1 - m)..(n + 1)
        BY <1>0, <2>2, <3>2
      <4>2. g[i] = From(c, w, g, i)
        BY <2>1, <4>1
      <4> QED
        BY <2>3, <3>2, <4>2
    <3> QED
      BY <3>1, <3>2
  <2>5. h = [i \in k..(n + 1) |-> From(c, w, h, i)]
    <3>1. h = [i \in k..(n + 1) |-> h[i]]
      OBVIOUS
    <3> HIDE DEF h
    <3> QED
      BY <2>4, <3>1, Zenon
  <2>6. Is(h, m + 1)
    BY <2>5 DEF k
  <2> HIDE DEF h, Is
  <2> QED
    BY <2>6
<1>3. Up(n)
  <2> HIDE DEF Up
  <2> DEFINE T == {m \in Nat : m <= n => Up(m)}
  <2>1. 0 \in T
    BY <1>1
  <2>2. \A m \in Nat : m \in T => m + 1 \in T
    BY <1>2
  <2>3. n \in T
    BY <1>0, <2>1, <2>2, SetInduction
  <2> QED
    BY <2>3
<1>4. n + 1 - n = 1
  BY <1>0
<1>5. \E g : g = [i \in 1..(n + 1) |-> From(c, w, g, i)]
  BY <1>3, <1>4
<1> QED
  BY <1>5, Zenon DEF Parse

LEMMA ParseAt ==
  ASSUME NEW c, NEW w \in Text, NEW i \in 1..(Len(w) + 1)
  PROVE  Parse(c, w)[i] = From(c, w, Parse(c, w), i)
<1> DEFINE g == Parse(c, w)
<1>1. g = [j \in 1..(Len(w) + 1) |-> From(c, w, g, j)]
  BY ParseIs, Zenon
<1> HIDE DEF g
<1>2. g[i] = From(c, w, g, i)
  BY <1>1, Zenon
<1> QED
  BY <1>2 DEF g

LEMMA GivenType ==
  ASSUME NEW c, IsChain(c), NEW v
  PROVE  Given(c, v) \in Text
<1>1. Complete(c, v) => v \in Inputs(c)
  BY Zenon DEF Complete, Inputs
<1>2. Complete(c, v) => Output(c, v) \in Seq(STRING \ Variables)
  BY <1>1, ChainTypes
<1>3. Seq(STRING \ Variables) \subseteq Text
  BY SeqMonotonic DEF Text, Symbol
<1> QED
  BY <1>2, <1>3, EmptySeq DEF Given, Text

LEMMA ParseType ==
  ASSUME NEW c, IsChain(c), NEW w \in Text
  PROVE  \A i \in 1..(Len(w) + 1) : Parse(c, w)[i] \in Text
<1> DEFINE n == Len(w)
           g == Parse(c, w)
           T == {m \in Nat : \A i \in 1..(n + 1) : n + 1 - i <= m => g[i] \in Text}
<1>0. n \in Nat
  BY LenProperties DEF Text
<1>1. ASSUME NEW i \in 1..(n + 1),
             \A j \in 1..(n + 1) : j > i => g[j] \in Text
      PROVE  g[i] \in Text
  <2>1. g[i] = From(c, w, g, i)
    BY ParseAt
  <2> HIDE DEF g
  <2>2. CASE Cuts(c, w, i) = {}
    BY <2>1, <2>2, EmptySeq DEF From, Text
  <2>3. CASE Cuts(c, w, i) # {}
    <3> DEFINE e == Min(Cuts(c, w, i))
    <3>1. e \in i..n
      BY <2>3, CutsAhead
    <3>2. e + 1 \in 1..(n + 1) /\ e + 1 > i
      BY <1>0, <3>1
    <3>3. g[e + 1] \in Text
      BY <1>1, <3>2
    <3>4. g[i] = Given(c, SubSeq(w, i, e)) \o g[e + 1]
      BY <2>1, <2>3 DEF From
    <3>5. Given(c, SubSeq(w, i, e)) \in Text
      BY GivenType
    <3> HIDE DEF e
    <3> QED
      BY <3>3, <3>4, <3>5, ConcatProperties DEF Text
  <2> QED
    BY <2>2, <2>3
<1> HIDE DEF g
<1>2. 0 \in T
  <2>1. ASSUME NEW i \in 1..(n + 1), n + 1 - i <= 0 PROVE g[i] \in Text
    <3>1. \A j \in 1..(n + 1) : j > i => g[j] \in Text
      BY <1>0, <2>1
    <3> QED
      BY <1>1, <3>1
  <2> QED
    BY <2>1
<1>3. ASSUME NEW m \in Nat, m \in T PROVE m + 1 \in T
  <2>1. ASSUME NEW i \in 1..(n + 1), n + 1 - i <= m + 1 PROVE g[i] \in Text
    <3>1. \A j \in 1..(n + 1) : j > i => g[j] \in Text
      BY <1>0, <1>3, <2>1
    <3> QED
      BY <1>1, <3>1
  <2> QED
    BY <2>1
<1>4. n \in T
  <2> HIDE DEF T
  <2> QED
    BY <1>0, <1>2, <1>3, SetInduction
<1> QED
  BY <1>0, <1>4 DEF g

\* What follows v in a text is parsed as it would be on its own.
LEMMA ParseShift ==
  ASSUME NEW c, NEW v \in Text, NEW u \in Text
  PROVE  \A i \in 1..(Len(u) + 1) : Parse(c, v \o u)[Len(v) + i] = Parse(c, u)[i]
<1> DEFINE w == v \o u
           n == Len(u)
           l == Len(v)
           g == Parse(c, w)
           h == Parse(c, u)
           T == {m \in Nat : \A i \in 1..(n + 1) : n + 1 - i <= m => g[l + i] = h[i]}
<1>0. n \in Nat /\ l \in Nat /\ w \in Text /\ Len(w) = l + n
  BY LenProperties, ConcatProperties DEF Text
<1>1. /\ \A i \in 1..(n + 1) : h[i] = From(c, u, h, i)
      /\ \A i \in 1..(l + n + 1) : g[i] = From(c, w, g, i)
  <2>1. l + n + 1 = Len(w) + 1
    BY <1>0
  <2> QED
    BY <1>0, <2>1, ParseAt
<1>2. ASSUME NEW i \in 1..n, NEW j \in i..n
      PROVE  SubSeq(w, l + i, l + j) = SubSeq(u, i, j)
  <2>1. l + i \in (l + 1)..(l + n) /\ l + j \in (l + 1)..(l + n)
        /\ (l + i) - l = i /\ (l + j) - l = j
    BY <1>0
  <2>2. SubSeq(w, l + i, l + j) = SubSeq(u, (l + i) - l, (l + j) - l)
    BY <2>1, SubSeqOfConcat2 DEF Text
  <2> QED
    BY <2>1, <2>2
<1> HIDE DEF g, h, w
<1>3. ASSUME NEW i \in 1..(n + 1)
      PROVE  \A j \in Nat : j \in Cuts(c, u, i) <=> l + j \in Cuts(c, w, l + i)
  <2>1. ASSUME NEW j \in Nat
        PROVE  j \in Cuts(c, u, i) <=> l + j \in Cuts(c, w, l + i)
    <3>1. j \in i..n <=> l + j \in (l + i)..(l + n)
      BY <1>0
    <3>2. j \in i..n => SubSeq(w, l + i, l + j) = SubSeq(u, i, j)
      <4>1. j \in i..n => i \in 1..n
        BY <1>0
      <4> QED
        BY <1>2, <4>1
    <3> QED
      BY <1>0, <3>1, <3>2 DEF Cuts
  <2> QED
    BY <2>1
<1>4. ASSUME NEW i \in 1..(n + 1)
      PROVE  /\ Cuts(c, u, i) = {} <=> Cuts(c, w, l + i) = {}
             /\ Cuts(c, u, i) # {} =>
                  /\ Min(Cuts(c, w, l + i)) = l + Min(Cuts(c, u, i))
                  /\ Min(Cuts(c, u, i)) \in i..n
  <2> DEFINE A == Cuts(c, u, i)
             B == Cuts(c, w, l + i)
  <2>1. l + i \in 1..(Len(w) + 1)
    BY <1>0
  <2>2. /\ A # {} => Min(A) \in A /\ Min(A) \in i..n /\ \A j \in A : Min(A) <= j
        /\ B # {} => Min(B) \in B /\ Min(B) \in (l + i)..(l + n) /\ \A j \in B : Min(B) <= j
        /\ A \subseteq Nat
    BY <1>0, <2>1, CutsAhead
  <2>3. \A j \in Nat : j \in A <=> l + j \in B
    BY <1>3
  <2> HIDE DEF A, B
  <2>4. B # {} => Min(B) - l \in A /\ Min(B) - l \in Nat
    <3> SUFFICES ASSUME B # {} PROVE Min(B) - l \in A /\ Min(B) - l \in Nat
      OBVIOUS
    <3>1. Min(B) - l \in Nat /\ l + (Min(B) - l) = Min(B)
      BY <1>0, <2>2
    <3> QED
      BY <2>2, <2>3, <3>1
  <2>5. A # {} => l + Min(A) \in B
    BY <1>0, <2>2, <2>3
  <2>6. A = {} <=> B = {}
    BY <2>4, <2>5
  <2>7. A # {} => Min(B) = l + Min(A)
    <3> SUFFICES ASSUME A # {} PROVE Min(B) = l + Min(A)
      OBVIOUS
    <3>1. Min(B) <= l + Min(A) /\ Min(A) <= Min(B) - l
      BY <2>2, <2>4, <2>5, <2>6
    <3>2. Min(A) \in Nat /\ Min(B) \in Nat
      BY <1>0, <2>2, <2>6
    <3> QED
      BY <1>0, <3>1, <3>2
  <2> QED
    BY <2>2, <2>6, <2>7 DEF A, B
<1>5. ASSUME NEW i \in 1..(n + 1),
             \A j \in 1..(n + 1) : j > i => g[l + j] = h[j]
      PROVE  g[l + i] = h[i]
  <2>1. g[l + i] = From(c, w, g, l + i) /\ h[i] = From(c, u, h, i)
    <3>1. l + i \in 1..(l + n + 1)
      BY <1>0
    <3> QED
      BY <1>1, <3>1
  <2>2. CASE Cuts(c, u, i) = {}
    BY <1>4, <2>1, <2>2 DEF From
  <2>3. CASE Cuts(c, u, i) # {}
    <3> DEFINE e == Min(Cuts(c, u, i))
    <3>1. Cuts(c, w, l + i) # {} /\ Min(Cuts(c, w, l + i)) = l + e /\ e \in i..n
      BY <1>4, <2>3
    <3>2. e + 1 \in 1..(n + 1) /\ e + 1 > i /\ (l + e) + 1 = l + (e + 1) /\ i \in 1..n
      BY <1>0, <3>1
    <3>3. h[i] = Given(c, SubSeq(u, i, e)) \o h[e + 1]
      BY <2>1, <2>3 DEF From
    <3>4. g[l + i] = Given(c, SubSeq(w, l + i, l + e)) \o g[(l + e) + 1]
      BY <2>1, <3>1 DEF From
    <3>5. g[l + (e + 1)] = h[e + 1]
      BY <1>5, <3>2
    <3>6. SubSeq(w, l + i, l + e) = SubSeq(u, i, e)
      BY <1>2, <3>1, <3>2
    <3> HIDE DEF e
    <3> QED
      BY <3>2, <3>3, <3>4, <3>5, <3>6
  <2> QED
    BY <2>2, <2>3
<1>6. 0 \in T
  <2>1. ASSUME NEW i \in 1..(n + 1), n + 1 - i <= 0 PROVE g[l + i] = h[i]
    <3>1. \A j \in 1..(n + 1) : j > i => g[l + j] = h[j]
      BY <1>0, <2>1
    <3> QED
      BY <1>5, <3>1
  <2> QED
    BY <2>1
<1>7. ASSUME NEW m \in Nat, m \in T PROVE m + 1 \in T
  <2>1. ASSUME NEW i \in 1..(n + 1), n + 1 - i <= m + 1 PROVE g[l + i] = h[i]
    <3>1. \A j \in 1..(n + 1) : j > i => g[l + j] = h[j]
      BY <1>0, <1>7, <2>1
    <3> QED
      BY <1>5, <3>1
  <2> QED
    BY <2>1
<1>8. n \in T
  <2> HIDE DEF T
  <2> QED
    BY <1>0, <1>6, <1>7, SetInduction
<1>9. \A i \in 1..(n + 1) : n + 1 - i <= n
  BY <1>0
<1> QED
  BY <1>8, <1>9 DEF g, h, w

\* A text without a cut gives nothing.
LEMMA NothingYet ==
  ASSUME NEW c, NEW w \in Text, Cuts(c, w, 1) = {}
  PROVE  Composed(c, w) = <<>>
<1>1. 1 \in 1..(Len(w) + 1)
  BY LenProperties DEF Text
<1>2. Parse(c, w)[1] = From(c, w, Parse(c, w), 1)
  BY <1>1, ParseAt
<1> QED
  BY <1>2, ComposedIs DEF From

\* A text that begins with v, where the first cut is at the end of v.
LEMMA CutOnce ==
  ASSUME NEW c, NEW v \in Text, NEW u \in Text, v # <<>>,
         Complete(c, v) \/ Dead(c, v),
         \A k \in 1..(Len(v) - 1) : ~Complete(c, SubSeq(v, 1, k)) /\ ~Dead(c, SubSeq(v, 1, k))
  PROVE  Composed(c, v \o u) = Given(c, v) \o Composed(c, u)
<1> DEFINE w == v \o u
           l == Len(v)
           C == Cuts(c, w, 1)
<1>0. l \in Nat /\ l # 0 /\ Len(u) \in Nat /\ w \in Text /\ Len(w) = l + Len(u)
  BY LenProperties, ConcatProperties, EmptySeq DEF Text
<1>1. ASSUME NEW k \in 1..l PROVE SubSeq(w, 1, k) = SubSeq(v, 1, k)
  <2>1. 1 \in 1..Len(v) /\ k \in 1..Len(v)
    BY <1>0
  <2> QED
    BY <2>1, SubSeqOfConcat1 DEF Text
<1>2. SubSeq(v, 1, l) = v
  BY SubSeqFull DEF Text
<1> HIDE DEF w
<1>3. l \in C
  <2>1. l \in 1..l /\ l \in 1..Len(w)
    BY <1>0
  <2>2. SubSeq(w, 1, l) = v
    BY <1>1, <1>2, <2>1
  <2> QED
    BY <2>1, <2>2 DEF Cuts
<1>4. ASSUME NEW k \in C PROVE l <= k
  <2>1. k \in 1..(l + Len(u)) /\ (Complete(c, SubSeq(w, 1, k)) \/ Dead(c, SubSeq(w, 1, k)))
    BY <1>0 DEF Cuts
  <2> SUFFICES ASSUME ~(l <= k) PROVE FALSE
    OBVIOUS
  <2>2. k \in 1..(l - 1) /\ k \in 1..l
    BY <1>0, <2>1
  <2> QED
    BY <1>1, <2>1, <2>2
<1>5. Min(C) = l
  <2>1. 1 \in 1..(Len(w) + 1)
    BY <1>0
  <2>2. Min(C) \in C /\ (\A j \in C : Min(C) <= j) /\ Min(C) \in 1..(l + Len(u))
    BY <1>0, <1>3, <2>1, CutsAhead
  <2> HIDE DEF C
  <2>3. Min(C) <= l /\ l <= Min(C)
    BY <1>3, <1>4, <2>2
  <2> QED
    BY <1>0, <2>2, <2>3
<1>6. Parse(c, w)[1] = From(c, w, Parse(c, w), 1)
  <2>1. 1 \in 1..(Len(w) + 1)
    BY <1>0
  <2> QED
    BY <1>0, <2>1, ParseAt
<1>7. Parse(c, w)[1] = Given(c, v) \o Parse(c, w)[l + 1]
  <2>1. SubSeq(w, 1, l) = v
    BY <1>0, <1>1, <1>2
  <2> QED
    BY <1>3, <1>5, <1>6, <2>1 DEF From
<1>8. Parse(c, w)[l + 1] = Parse(c, u)[1]
  <2>1. 1 \in 1..(Len(u) + 1)
    BY <1>0
  <2> QED
    BY <2>1, ParseShift DEF w
<1> QED
  BY <1>7, <1>8, ComposedIs DEF w

LEMMA ComposedType ==
  ASSUME NEW c, IsChain(c), NEW w \in Text
  PROVE  Composed(c, w) \in Text
<1>1. 1 \in 1..(Len(w) + 1)
  BY LenProperties DEF Text
<1> QED
  BY <1>1, ParseType, ComposedIs

-----------------------------------------------------------------------------
(* The machine of a chain: where a symbol leads, and what it commits.       *)

\* Where no two paths share an id, an arc leads where it was meant to.
LEMMA FindsItself ==
  ASSUME NEW c, IsChain(c), WellNamed(c), NEW p \in Paths(c)
  PROVE  Found(c, p) = p
BY DEF IsChain, WellNamed, Namesakes

\* The states are what can still become a sequence.
LEMMA PathsAreAlive ==
  ASSUME NEW c, IsChain(c), NEW v \in Text
  PROVE  /\ Complete(c, v) <=> v \in Inputs(c)
         /\ Dead(c, v) <=> v \notin Paths(c)
<1>1. Complete(c, v) <=> v \in Inputs(c)
  BY Zenon DEF Complete, Inputs
<1>2. Len(v) \in Nat /\ SubSeq(v, 1, Len(v)) = v
  BY LenProperties, SubSeqFull DEF Text
<1>3. ASSUME NEW w \in Inputs(c)
      PROVE  IsPrefix(v, w) <=> v \in Starts(w)
  <2>1. w \in Text /\ Len(w) \in Nat
    BY ChainTypes, LenProperties DEF Text
  <2>2. ASSUME NEW n \in 0..Len(w), v = SubSeq(w, 1, n)
        PROVE  Len(v) = n
    <3>1. n = 0 => v = <<>>
      BY <2>2, SubSeqEmpty
    <3>2. n # 0 => Len(SubSeq(w, 1, n)) = n
      BY <2>1 DEF Text
    <3> QED
      BY <2>2, <3>1, <3>2, EmptySeq
  <2>3. IsPrefix(v, w) <=> Len(v) <= Len(w) /\ v = SubSeq(w, 1, Len(v))
    BY <1>2 DEF IsPrefix
  <2>4. Len(v) <= Len(w) <=> Len(v) \in 0..Len(w)
    BY <1>2, <2>1
  <2>5. v \in Starts(w) <=> \E n \in 0..Len(w) : v = SubSeq(w, 1, n)
    BY Zenon DEF Starts
  <2> QED
    BY <2>2, <2>3, <2>4, <2>5, Zenon
<1>4. v \in Paths(c) <=> \E w \in Inputs(c) : v \in Starts(w)
  BY Zenon DEF Paths
<1>5. Dead(c, v) <=> \A w \in Inputs(c) : ~IsPrefix(v, w)
  BY Zenon DEF Dead, Inputs
<1> QED
  BY <1>1, <1>3, <1>4, <1>5, Zenon

\* A sequence is what is before its last element, and that.
LEMMA FrontLast ==
  ASSUME NEW S, NEW s \in Seq(S), s # <<>>
  PROVE  /\ Front(s) \in Seq(S) /\ Last(s) \in S /\ s = Append(Front(s), Last(s))
<1>1. Len(s) \in Nat /\ Len(s) # 0
  BY EmptySeq, LenProperties
<1>2. Front(s) \in Seq(S)
  BY FrontOf
<1>3. Last(s) \in S /\ Last(s) = s[Len(s)]
  BY <1>1, ElementOfSeq DEF Last
<1>4. Len(s) \in 1..Len(s) /\ 1 \in 1..Len(s)
  BY <1>1
<1>5. Len(s) \in 1..Len(s) => SubSeq(s, 1, Len(s)) = SubSeq(s, 1, Len(s) - 1) \o <<s[Len(s)]>>
  BY <1>4, SubSeqRecursiveSecond
<1>6. s = Front(s) \o <<Last(s)>>
  BY <1>3, <1>4, <1>5, SubSeqFull DEF Front
<1> QED
  BY <1>2, <1>3, <1>6, AppendIsConcat

LEMMA FrontOfAppend ==
  ASSUME NEW S, NEW s \in Seq(S), NEW e \in S
  PROVE  Append(s, e) # <<>> /\ Front(Append(s, e)) = s /\ Last(Append(s, e)) = e
<1> DEFINE t == Append(s, e)
<1>1. t \in Seq(S) /\ t # <<>>
  BY AppendProperties
<1>2. Front(t) \in Seq(S) /\ Last(t) \in S /\ t = Append(Front(t), Last(t))
  BY <1>1, FrontLast
<1> DEFINE a == Front(t)
           b == Last(t)
<1>3. a \in Seq(S) /\ b \in S /\ Append(s, e) = Append(a, b)
  BY <1>2
<1> HIDE DEF a, b, t
<1>4. s = a /\ e = b
  BY <1>3, AppendInjective
<1> QED
  BY <1>1, <1>4 DEF a, b, t

\* The arc that takes a symbol, and no other, leads to the path it completes.
LEMMA ArcTakes ==
  ASSUME NEW c, IsChain(c), WellNamed(c), NEW p \in Paths(c), NEW sym \in Symbol,
         NEW q \in Below(c, p)
  PROVE  Matches(Arc(c, q), sym) <=> q = Append(p, sym)
<1>1. q \in Paths(c) /\ q # <<>> /\ Front(q) = p /\ q \in Text
  BY ChainTypes DEF Below
<1>2. Last(q) \in Keysyms
  <2>1. PICK w \in Inputs(c) : q \in Starts(w)
    BY <1>1 DEF Paths
  <2>2. w \in Seq(Keysyms) /\ Len(w) \in Nat
    BY LenProperties DEF WellNamed
  <2>3. PICK n \in 0..Len(w) : q = SubSeq(w, 1, n)
    BY <2>1 DEF Starts
  <2>4. \A i \in 1..n : w[i] \in Keysyms
    BY <2>2, LenProperties
  <2>5. q \in Seq(Keysyms)
    BY <2>2, <2>3, <2>4, SubSeqProperties
  <2> QED
    BY <1>1, <2>5, FrontLast
<1>3. q = Append(p, Last(q)) /\ p \in Text
  BY <1>1, FrontLast, ChainTypes DEF Text
<1>4. Arc(c, q).match = Last(q)
  BY DEF Arc, Move
<1>5. Matches(Arc(c, q), sym) <=> Last(q) = sym
  <2>1. Last(q) # "" /\ Last(q) # "*"
    BY <1>2, Zenon DEF Keysyms
  <2> QED
    BY <1>4, <2>1, Zenon DEF Matches
<1>6. q = Append(p, sym) => Last(q) = sym
  BY <1>3, FrontOfAppend DEF Text
<1> QED
  BY <1>3, <1>5, <1>6

\* Where a state is not the first, the wildcard is among its transitions.
LEMMA HasWildcard ==
  ASSUME NEW c, IsChain(c), c # <<>>, NEW p \in Paths(c), p # <<>>
  PROVE  \E n \in DOMAIN FromCompose(c).states[p].transitions :
           FromCompose(c).states[p].transitions[n] = Move("*", <<>>, {Initial})
<1> DEFINE trs == FromCompose(c).states[p].transitions
           arcs == SetToSeq(Arcs(c, p))
           d == Move("*", <<>>, {Initial})
           T == Transitions(Paths(c))
<1>1. arcs \in Seq(T) /\ Discard(p) \in Seq(T)
  BY ChainIsMethod
<1>2. trs = arcs \o Discard(p)
  BY FromComposeIs
<1>3. Discard(p) = <<d>>
  BY DEF Discard
<1>4. <<d>>[1] = d /\ Len(<<d>>) = 1
  <2>1. \A x : <<x>>[1] = x /\ Len(<<x>>) = 1
    OBVIOUS
  <2> HIDE DEF d
  <2> QED
    BY <2>1
<1> HIDE DEF trs, arcs, d, T
<1>5. /\ trs \in Seq(T) /\ Len(trs) = Len(arcs) + Len(Discard(p))
      /\ \A i \in 1..(Len(arcs) + Len(Discard(p))) :
           trs[i] = IF i <= Len(arcs) THEN arcs[i] ELSE Discard(p)[i - Len(arcs)]
  BY <1>1, <1>2, ConcatProperties
<1>6. Len(arcs) \in Nat /\ DOMAIN trs = 1..Len(trs)
  BY <1>1, <1>5, LenProperties
<1> DEFINE n == Len(arcs) + 1
<1>7. n \in DOMAIN trs /\ n - Len(arcs) = 1 /\ ~(n <= Len(arcs))
  BY <1>3, <1>4, <1>5, <1>6
<1>8. trs[n] = d
  BY <1>3, <1>4, <1>5, <1>6, <1>7
<1> QED
  BY <1>7, <1>8 DEF trs, d

\* The one transition that takes a symbol: the arc to the path it completes,
\* or, where there is none, the wildcard.
LEMMA ChainTakes ==
  ASSUME SessionInv, chain # <<>>, WellNamed(chain), NEW sym \in Symbol
  PROVE  LET q == Append(state, sym) IN
         \/ /\ q \in Paths(chain)
            /\ Arc(chain, q) \in Transitions(DOMAIN im.states)
            /\ Feed(sym) = Apply(Arc(chain, q), sym)
         \/ /\ q \notin Paths(chain) /\ state = <<>>
            /\ Feed(sym) = [state |-> state, buffer |-> buffer, lastLookup |-> lastLookup,
                            events |-> <<Passthrough>>]
         \/ /\ q \notin Paths(chain)
            /\ Move("*", <<>>, {Initial}) \in Transitions(DOMAIN im.states)
            /\ Feed(sym) = Apply(Move("*", <<>>, {Initial}), sym)
<1> DEFINE q == Append(state, sym)
           trs == im.states[state].transitions
           arcs == SetToSeq(Arcs(chain, state))
           d == Move("*", <<>>, {Initial})
<1>1. /\ IsChain(chain) /\ im = FromCompose(chain) /\ state \in Paths(chain)
      /\ state \in Text /\ EngineOK
  BY ChainStates, ChainTypes DEF SessionInv
<1>2. q # <<>> /\ Front(q) = state
  BY <1>1, FrontOfAppend DEF Text
<1>3. q \in Below(chain, state) <=> q \in Paths(chain)
  BY <1>2 DEF Below
<1>4. \A r \in Below(chain, state) : Matches(Arc(chain, r), sym) <=> r = q
  BY <1>1, ArcTakes
<1>5. Matches(d, sym)
  <2>1. d.match = "*" /\ "*" # ""
    BY Zenon DEF Move
  <2> QED
    BY <2>1, Zenon DEF Matches
<1>6. ASSUME NEW n \in DOMAIN trs
      PROVE  /\ Range(arcs) = Arcs(chain, state)
             /\ \A i \in DOMAIN arcs : i \in DOMAIN trs /\ trs[i] = arcs[i] /\ i < Len(arcs) + 1
             /\ \/ n \in DOMAIN arcs /\ trs[n] \in Arcs(chain, state)
                \/ n = Len(arcs) + 1 /\ trs[n] = d
  <2>1. n \in DOMAIN FromCompose(chain).states[state].transitions
    BY <1>1
  <2>2. /\ arcs \in Seq(Transitions(Paths(chain))) /\ Range(arcs) = Arcs(chain, state)
        /\ \A i \in DOMAIN arcs : i \in DOMAIN trs /\ trs[i] = arcs[i]
        /\ \/ n \in DOMAIN arcs /\ trs[n] \in Arcs(chain, state)
           \/ n = Len(arcs) + 1 /\ trs[n] = d
    BY <1>1, <2>1, ChainTransitions
  <2> HIDE DEF arcs, d, trs
  <2>3. \A i \in DOMAIN arcs : i < Len(arcs) + 1
    BY <2>2, LenProperties
  <2> QED
    BY <2>2, <2>3, Zenon
<1>7. state # <<>> => \E n \in DOMAIN trs : trs[n] = d
  BY <1>1, HasWildcard
<1> HIDE DEF q, trs, d
<1>8. CASE /\ Feed(sym) = [state |-> state, buffer |-> buffer, lastLookup |-> lastLookup,
                           events |-> <<Passthrough>>]
           /\ \A n \in DOMAIN trs : ~Matches(trs[n], sym)
  <2>1. state = <<>>
    BY <1>5, <1>7, <1>8, Zenon
  <2>2. ASSUME q \in Paths(chain) PROVE FALSE
    <3>1. Arc(chain, q) \in Arcs(chain, state) /\ Matches(Arc(chain, q), sym)
      BY <1>3, <1>4, <2>2, Zenon DEF Arcs
    <3>2. /\ Range(arcs) = Arcs(chain, state)
          /\ \A i \in DOMAIN arcs : i \in DOMAIN trs /\ trs[i] = arcs[i]
      <4>1. /\ Range(arcs) = Arcs(chain, state)
            /\ arcs \in Seq(Transitions(Paths(chain)))
            /\ Discard(state) \in Seq(Transitions(Paths(chain)))
        BY <1>1, ChainIsMethod
      <4>2. trs = arcs \o Discard(state)
        BY <1>1, FromComposeIs DEF trs
      <4> HIDE DEF arcs
      <4> QED
        BY <4>1, <4>2, ConcatProperties, LenProperties
    <3>3. PICK i \in DOMAIN arcs : arcs[i] = Arc(chain, q)
      BY <3>1, <3>2, Zenon DEF Range
    <3> HIDE DEF arcs
    <3> QED
      BY <1>8, <3>1, <3>2, <3>3
  <2> QED
    BY <1>8, <2>1, <2>2, Zenon DEF q
<1>9. ASSUME NEW n \in DOMAIN trs,
             trs[n] \in Transitions(DOMAIN im.states), Matches(trs[n], sym),
             \A m \in DOMAIN trs : Matches(trs[m], sym) => n <= m,
             Feed(sym) = Apply(trs[n], sym)
      PROVE  \/ q \in Paths(chain) /\ trs[n] = Arc(chain, q)
             \/ q \notin Paths(chain) /\ trs[n] = d
  <2>1. CASE trs[n] \in Arcs(chain, state)
    <3>1. PICK r \in Below(chain, state) : trs[n] = Arc(chain, r)
      BY <2>1, Zenon DEF Arcs
    <3>2. r = q
      BY <1>4, <1>9, <3>1
    <3> QED
      BY <1>3, <3>1, <3>2
  <2>2. CASE n = Len(arcs) + 1 /\ trs[n] = d
    <3>1. ASSUME q \in Paths(chain) PROVE FALSE
      <4>1. Arc(chain, q) \in Arcs(chain, state) /\ Matches(Arc(chain, q), sym)
        BY <1>3, <1>4, <3>1, Zenon DEF Arcs
      <4>2. PICK i \in DOMAIN arcs : arcs[i] = Arc(chain, q)
        BY <1>6, <4>1, Zenon DEF Range
      <4>3. i \in DOMAIN trs /\ trs[i] = Arc(chain, q) /\ i < Len(arcs) + 1
        BY <1>6, <4>2, Zenon
      <4>4. n <= i
        BY <1>9, <4>1, <4>3
      <4>5. Len(arcs) \in Nat /\ DOMAIN arcs = 1..Len(arcs)
        <5>1. arcs \in Seq(Transitions(Paths(chain)))
          BY <1>1, ChainIsMethod
        <5> HIDE DEF arcs
        <5> QED
          BY <5>1, LenProperties
      <4> HIDE DEF arcs
      <4> QED
        BY <2>2, <4>2, <4>3, <4>4, <4>5
    <3> QED
      BY <2>2, <3>1
  <2> HIDE DEF arcs
  <2> QED
    BY <1>6, <1>9, <2>1, <2>2, Zenon
<1>10. \/ /\ Feed(sym) = [state |-> state, buffer |-> buffer, lastLookup |-> lastLookup,
                          events |-> <<Passthrough>>]
          /\ \A n \in DOMAIN trs : ~Matches(trs[n], sym)
       \/ \E n \in DOMAIN trs :
            /\ trs[n] \in Transitions(DOMAIN im.states)
            /\ Matches(trs[n], sym)
            /\ \A m \in DOMAIN trs : Matches(trs[m], sym) => n <= m
            /\ Feed(sym) = Apply(trs[n], sym)
  BY <1>1, FeedIs DEF trs
<1>11. ASSUME NEW n \in DOMAIN trs,
              trs[n] \in Transitions(DOMAIN im.states), Matches(trs[n], sym),
              \A m \in DOMAIN trs : Matches(trs[m], sym) => n <= m,
              Feed(sym) = Apply(trs[n], sym)
       PROVE  \/ /\ q \in Paths(chain)
                 /\ Arc(chain, q) \in Transitions(DOMAIN im.states)
                 /\ Feed(sym) = Apply(Arc(chain, q), sym)
              \/ /\ q \notin Paths(chain)
                 /\ d \in Transitions(DOMAIN im.states)
                 /\ Feed(sym) = Apply(d, sym)
  <2>1. \/ q \in Paths(chain) /\ trs[n] = Arc(chain, q)
        \/ q \notin Paths(chain) /\ trs[n] = d
    BY <1>9, <1>11
  <2> QED
    BY <1>11, <2>1, Zenon
<1> QED
  BY <1>8, <1>10, <1>11, Zenon DEF q, d

\* What a transition of a chain does: it goes to g, and commits o if that is
\* not empty.
LEMMA MoveDoes ==
  ASSUME SessionInv, ChainInv, chain # <<>>, NEW sym \in Symbol, NEW a, NEW g,
         NEW o \in Seq(Symbol \ Variables),
         Move(a, o, {g}) \in Transitions(DOMAIN im.states),
         Feed(sym) = Apply(Move(a, o, {g}), sym)
  PROVE  /\ Feed(sym).state = g
         /\ Kept(Feed(sym).events) = IF o = <<>> THEN <<>> ELSE <<Commit(o)>>
<1> DEFINE tr == Move(a, o, {g})
<1>1. /\ tr.append = FALSE /\ tr.pop = FALSE /\ tr.lookup = FALSE /\ tr.clear = FALSE
      /\ tr.gotoIfEmpty = {} /\ tr.goto = {g} /\ tr.commit = o /\ tr.preedit = <<>>
  BY DEF Move
<1>2. EngineOK /\ Quiet(im)
  BY ChainStates DEF SessionInv
<1>3. Feed(sym) = Apply(tr, sym) /\ tr \in Transitions(DOMAIN im.states)
  OBVIOUS
<1> HIDE DEF tr
<1>4. Next1(tr, sym) = g
  <2>1. Next1(tr, sym) = CHOOSE id \in {g} : TRUE
    BY <1>1 DEF Next1
  <2> QED
    BY <2>1
<1>5. Feed(sym).state = g
  BY <1>3, <1>4, ApplyIs
<1>6. Kept(Feed(sym).events) = Said(tr, sym)
  BY <1>2, <1>3, FeedEvents
<1>7. o \in Text
  BY SeqMonotonic DEF Text
<1>8. Popped(tr, sym) \in Text /\ Looked(tr, sym) \in Seq(Text)
  BY <1>2, <1>3, BufferOf
<1>9. /\ o = <<>> => Said(tr, sym) = <<>>
      /\ o # <<>> => Said(tr, sym) = <<Commit(Expand(o, Popped(tr, sym), Looked(tr, sym), sym))>>
  <2>1. tr.commit \in Text /\ tr.preedit \in Text
    BY <1>1, <1>7, StartsEmpty
  <2>2. /\ tr.commit = <<>> /\ tr.preedit = <<>> => Said(tr, sym) = <<>>
        /\ tr.commit # <<>> /\ tr.preedit = <<>> =>
             Said(tr, sym) = <<Commit(Expand(tr.commit, Popped(tr, sym), Looked(tr, sym), sym))>>
    BY <1>8, <2>1, EmitIs DEF Said
  <2> QED
    BY <1>1, <2>2
<1>10. Expand(o, Popped(tr, sym), Looked(tr, sym), sym) = o
  BY ExpandLiterals
<1> QED
  BY <1>5, <1>6, <1>9, <1>10

(* A symbol fed to a chain: it completes a sequence, which is committed, it *)
(* makes a longer beginning of one, or all that was typed of one is lost.   *)
LEMMA ChainStep ==
  ASSUME SessionInv, ChainInv, chain # <<>>, WellNamed(chain), NEW sym \in Symbol
  PROVE  LET q == Append(state, sym) IN
         /\ q \in Inputs(chain) =>
              /\ Feed(sym).state = <<>>
              /\ Kept(Feed(sym).events) = <<Commit(Output(chain, q))>>
         /\ q \in Paths(chain) \ Inputs(chain) =>
              Feed(sym).state = q /\ Kept(Feed(sym).events) = <<>>
         /\ q \notin Paths(chain) =>
              Feed(sym).state = <<>> /\ Kept(Feed(sym).events) \in {<<>>, <<Passthrough>>}
<1> DEFINE q == Append(state, sym)
<1>1. IsChain(chain)
  BY ChainStates
<1>2. \A w \in Inputs(chain) : w \in Paths(chain)
                               /\ Output(chain, w) \in Seq(Symbol \ Variables) \ {<<>>}
  BY <1>1, ChainTypes DEF Symbol
<1>3. <<>> \in Seq(Symbol \ Variables)
  BY EmptySeq
<1> HIDE DEF q
<1>4. CASE /\ q \in Paths(chain)
           /\ Arc(chain, q) \in Transitions(DOMAIN im.states)
           /\ Feed(sym) = Apply(Arc(chain, q), sym)
  <2>1. CASE q \in Inputs(chain)
    <3>1. Arc(chain, q) = Move(Last(q), Output(chain, q), {Initial})
      BY <2>1 DEF Arc
    <3>2. /\ Feed(sym).state = Initial
          /\ Kept(Feed(sym).events) =
               IF Output(chain, q) = <<>> THEN <<>> ELSE <<Commit(Output(chain, q))>>
      BY <1>2, <1>4, <2>1, <3>1, MoveDoes
    <3> QED
      BY <1>2, <2>1, <3>2 DEF q, Initial
  <2>2. CASE q \notin Inputs(chain)
    <3>1. Arc(chain, q) = Move(Last(q), <<>>, {q})
      BY <1>1, <1>4, <2>2, FindsItself DEF Arc
    <3>2. Feed(sym).state = q /\ Kept(Feed(sym).events) = <<>>
      BY <1>3, <1>4, <3>1, MoveDoes
    <3> QED
      BY <1>4, <2>2, <3>2 DEF q
  <2> QED
    BY <2>1, <2>2
<1>5. CASE /\ q \notin Paths(chain) /\ state = <<>>
           /\ Feed(sym) = [state |-> state, buffer |-> buffer, lastLookup |-> lastLookup,
                           events |-> <<Passthrough>>]
  <2>1. Feed(sym).state = <<>> /\ Feed(sym).events = <<Passthrough>>
    BY <1>5
  <2>2. <<Passthrough>> \in Seq(Told)
    BY EventTypes, OneAndTwo
  <2>3. Kept(Feed(sym).events) = <<Passthrough>>
    BY <2>1, <2>2, KeptIs
  <2> QED
    BY <1>2, <1>5, <2>1, <2>3 DEF q
<1>6. CASE /\ q \notin Paths(chain)
           /\ Move("*", <<>>, {Initial}) \in Transitions(DOMAIN im.states)
           /\ Feed(sym) = Apply(Move("*", <<>>, {Initial}), sym)
  <2>1. PICK a : a = "*"
    OBVIOUS
  <2>2. Move(a, <<>>, {Initial}) \in Transitions(DOMAIN im.states)
        /\ Feed(sym) = Apply(Move(a, <<>>, {Initial}), sym)
    BY <1>6, <2>1
  <2>3. Feed(sym).state = Initial /\ Kept(Feed(sym).events) = <<>>
    BY <1>3, <2>2, MoveDoes
  <2> QED
    BY <1>2, <1>6, <2>3 DEF q, Initial
<1> QED
  BY <1>4, <1>5, <1>6, ChainTakes, Zenon DEF q

\* What a commit does to the text on each transport.
LEMMA CommitSignals ==
  ASSUME NEW w \in Bus, NEW t \in Text,
         NEW acts \in Seq(Acts), Len(acts) = 2, acts[1] = Commit(t), acts[2] = Finish
  PROVE  FoldLeft(Signal, w, acts).text = w.text \o t
<1>1. PICK q : /\ q[0] = w /\ q[Len(acts)] = FoldLeft(Signal, w, acts)
               /\ \A i \in 1..Len(acts) : q[i] = Signal(q[i - 1], acts[i])
  BY SignalSteps, Zenon
<1>2. 1 \in 1..2 /\ 2 \in 1..2 /\ 1 - 1 = 0 /\ 2 - 1 = 1
  OBVIOUS
<1>3. q[1] = Signal(w, Commit(t)) /\ q[2] = Signal(q[1], Finish)
  BY <1>1, <1>2
<1>4. q[1] = [w EXCEPT !.text = @ \o t]
  <2>1. Commit(t).kind = "commit" /\ Commit(t).text = t
    BY DEF Commit
  <2> QED
    BY <1>3, <2>1, Zenon DEF Signal
<1>5. q[2] = q[1]
  BY <1>3 DEF Signal, Finish
<1>6. q[1].text = w.text \o t
  BY <1>4 DEF Bus
<1> QED
  BY <1>1, <1>5, <1>6

\* What is added to the text by the actions of a symbol.
LEMMA TextOf ==
  ASSUME NEW w \in Wire, w.acc = NoBatch, NEW v \in Bus,
         NEW events \in Seq(EngineEvents), ~keymapPending
  PROVE  /\ \A o \in Text : Kept(events) = <<Commit(o)>> =>
              /\ FoldLeft(Request, w, Translate(events)).text = w.text \o o
              /\ FoldLeft(Signal, v, Translate(events)).text = v.text \o o
         /\ Kept(events) \in {<<>>, <<Passthrough>>} =>
              /\ FoldLeft(Request, w, Translate(events)).text = w.text
              /\ FoldLeft(Signal, v, Translate(events)).text = v.text
<1>1. ASSUME NEW o \in Text, Kept(events) = <<Commit(o)>>
      PROVE  /\ FoldLeft(Request, w, Translate(events)).text = w.text \o o
             /\ FoldLeft(Signal, v, Translate(events)).text = v.text \o o
  <2>1. PICK a : a = Commit(o)
    OBVIOUS
  <2>2. a \in Acts /\ a.kind = "commit"
    BY <2>1 DEF Commit, Acts
  <2>3. <<a>> \in Seq(Acts) /\ Len(<<a>>) = 1 /\ <<a>>[1] = a /\ DOMAIN <<a>> = 1..1
    BY <2>2, OneAndTwo
  <2>4. Effective(<<a>>)
    BY <2>2, <2>3 DEF Effective
  <2> DEFINE acts == Append(<<a>>, Finish)
  <2>5. Translate(events) = acts
    BY <1>1, <2>1, <2>4, TranslateIs
  <2>6. acts \in Seq(Acts) /\ Len(acts) = 2 /\ acts[1] = a /\ acts[2] = Finish
    <3>1. Finish \in Acts
      BY EventTypes
    <3>2. /\ Append(<<a>>, Finish) \in Seq(Acts)
          /\ Len(Append(<<a>>, Finish)) = Len(<<a>>) + 1
          /\ \A i \in 1..Len(<<a>>) : Append(<<a>>, Finish)[i] = <<a>>[i]
          /\ Append(<<a>>, Finish)[Len(<<a>>) + 1] = Finish
      BY <2>3, <3>1, AppendProperties
    <3> QED
      BY <2>3, <3>2
  <2> HIDE DEF acts
  <2>7. FoldLeft(Request, w, acts).text = w.text \o o
    BY <2>1, <2>6, CommitRequests
  <2>8. FoldLeft(Signal, v, acts).text = v.text \o o
    BY <2>1, <2>6, CommitSignals
  <2> QED
    BY <2>5, <2>7, <2>8
<1>2. ASSUME Kept(events) \in {<<>>, <<Passthrough>>}
      PROVE  /\ FoldLeft(Request, w, Translate(events)).text = w.text
             /\ FoldLeft(Signal, v, Translate(events)).text = v.text
  <2>1. Idle(<<>>) /\ <<>> \in Seq(Acts)
    BY EmptySeq DEF Idle
  <2>2. Idle(<<Passthrough>>) /\ <<Passthrough>> \in Seq(Acts)
    BY EventTypes, OneAndTwo DEF Idle
  <2>3. Idle(Kept(events)) /\ Kept(events) \in Seq(Acts)
    BY <1>2, <2>1, <2>2
  <2>4. ~Effective(Kept(events))
    BY <2>3 DEF Idle, Effective
  <2>5. Translate(events) = Kept(events)
    BY <2>4, TranslateIs
  <2> QED
    BY <2>3, <2>5, IdleActs
<1> QED
  BY <1>1, <1>2

-----------------------------------------------------------------------------
(* A chain commits what it spells out.                                      *)

\* What was typed of a sequence and does not complete one.
Waits(c, p) == \A k \in 1..Len(p) : SubSeq(p, 1, k) \notin Inputs(c)
\* Whatever is typed next: after f it comes to t, and to what follows p.
Spelled(c, f, t, p) ==
  \A u \in Text : Composed(c, f \o u) = t \o Composed(c, p \o u)

LEMMA StartsOfPaths ==
  ASSUME NEW c, IsChain(c), NEW p \in Paths(c), NEW k \in 1..Len(p)
  PROVE  SubSeq(p, 1, k) \in Paths(c)
<1>1. PICK w \in Inputs(c) : p \in Starts(w)
  BY DEF Paths
<1>2. w \in Text /\ Len(w) \in Nat /\ p \in Text
  BY ChainTypes, LenProperties DEF Text
<1>3. PICK n \in 0..Len(w) : p = SubSeq(w, 1, n)
  BY <1>1 DEF Starts
<1>4. n # 0
  <2>1. n = 0 => Len(p) = 0
    BY <1>3, SubSeqEmpty, EmptySeq
  <2> QED
    BY <2>1
<1>5. Len(p) = n
  BY <1>2, <1>3, <1>4 DEF Text
<1>6. SubSeq(p, 1, k) = SubSeq(w, 1, k)
  <2>1. 1 \in 1..Len(w) /\ n \in 1..Len(w) /\ 1 \in 1..(n - 1 + 1) /\ k \in 1..(n - 1 + 1)
        /\ 1 + 1 - 1 = 1 /\ 1 + k - 1 = k
    BY <1>2, <1>4, <1>5
  <2>2. SubSeq(SubSeq(w, 1, n), 1, k) = SubSeq(w, 1 + 1 - 1, 1 + k - 1)
    BY <1>2, <2>1, SubSeqOfSubSeq DEF Text
  <2> QED
    BY <1>3, <2>1, <2>2
<1>7. k \in 0..Len(w)
  BY <1>2, <1>5
<1>8. SubSeq(w, 1, k) \in Starts(w)
  BY <1>7, Zenon DEF Starts
<1> QED
  BY <1>6, <1>8 DEF Paths

LEMMA SpellsOn ==
  ASSUME NEW c, IsChain(c), NEW p \in Paths(c), Waits(c, p), NEW sym \in Symbol
  PROVE  LET q == Append(p, sym) IN
         /\ q \in Text
         /\ q \in Inputs(c) =>
              \A u \in Text : Composed(c, q \o u) = Output(c, q) \o Composed(c, u)
         /\ q \notin Paths(c) =>
              \A u \in Text : Composed(c, q \o u) = Composed(c, u)
         /\ q \in Paths(c) \ Inputs(c) => Waits(c, q)
<1> DEFINE q == Append(p, sym)
<1>1. p \in Text /\ Len(p) \in Nat
  BY ChainTypes, LenProperties DEF Text
<1>2. q \in Text /\ Len(q) = Len(p) + 1 /\ q # <<>> /\ q = p \o <<sym>>
  BY <1>1, AppendProperties, AppendIsConcat DEF Text
<1> HIDE DEF q
<1>3. ASSUME NEW k \in 1..Len(p)
      PROVE  SubSeq(q, 1, k) = SubSeq(p, 1, k)
  <2>1. <<sym>> \in Text /\ 1 \in 1..Len(p)
    BY <1>1, OneAndTwo DEF Text
  <2> QED
    BY <1>1, <1>2, <2>1, SubSeqOfConcat1 DEF Text
<1>4. ASSUME NEW k \in 1..(Len(q) - 1)
      PROVE  ~Complete(c, SubSeq(q, 1, k)) /\ ~Dead(c, SubSeq(q, 1, k))
  <2>1. k \in 1..Len(p)
    BY <1>1, <1>2
  <2>2. SubSeq(q, 1, k) = SubSeq(p, 1, k) /\ SubSeq(p, 1, k) \in Paths(c)
        /\ SubSeq(p, 1, k) \notin Inputs(c)
    BY <1>3, <2>1, StartsOfPaths DEF Waits
  <2> QED
    BY <2>2, ChainTypes, PathsAreAlive
<1>5. ASSUME q \in Inputs(c) \/ q \notin Paths(c), NEW u \in Text
      PROVE  Composed(c, q \o u) = Given(c, q) \o Composed(c, u)
  <2>1. Complete(c, q) \/ Dead(c, q)
    BY <1>2, <1>5, PathsAreAlive
  <2> QED
    BY <1>2, <1>4, <2>1, CutOnce
<1>6. ASSUME q \in Inputs(c) PROVE Given(c, q) = Output(c, q)
  BY <1>2, <1>6, PathsAreAlive DEF Given
<1>7. ASSUME q \notin Paths(c), NEW u \in Text
      PROVE  Composed(c, q \o u) = Composed(c, u)
  <2>1. q \notin Inputs(c)
    BY <1>7, ChainTypes
  <2>2. Given(c, q) = <<>>
    BY <1>2, <2>1, PathsAreAlive DEF Given
  <2>3. Composed(c, u) \in Text
    BY ComposedType
  <2> QED
    BY <1>5, <1>7, <2>2, <2>3, ConcatEmptySeq DEF Text
<1>8. ASSUME q \in Paths(c) \ Inputs(c) PROVE Waits(c, q)
  <2>1. ASSUME NEW k \in 1..Len(q) PROVE SubSeq(q, 1, k) \notin Inputs(c)
    <3>1. CASE k = Len(q)
      BY <1>2, <1>8, <3>1, SubSeqFull DEF Text
    <3>2. CASE k # Len(q)
      <4>1. k \in 1..Len(p)
        BY <1>1, <1>2, <3>2
      <4> QED
        BY <1>3, <4>1 DEF Waits
    <3> QED
      BY <3>1, <3>2
  <2> QED
    BY <2>1 DEF Waits
<1> QED
  BY <1>2, <1>5, <1>6, <1>7, <1>8 DEF q

\* Texts are put together in any order.
LEMMA Joined ==
  ASSUME NEW a \in Text, NEW b \in Text, NEW d \in Text
  PROVE  (a \o b) \o d = a \o (b \o d)
BY ConcatAssociative DEF Text

LEMMA SpelledOn ==
  ASSUME NEW c, IsChain(c), NEW p \in Paths(c), Waits(c, p), NEW sym \in Symbol,
         NEW f \in Text, NEW t \in Text, Spelled(c, f, t, p)
  PROVE  LET q == Append(p, sym) IN
         /\ q \in Inputs(c) => Spelled(c, Append(f, sym), t \o Output(c, q), <<>>)
         /\ q \in Paths(c) \ Inputs(c) => Spelled(c, Append(f, sym), t, q)
         /\ q \notin Paths(c) => Spelled(c, Append(f, sym), t, <<>>)
<1> DEFINE q == Append(p, sym)
           f1 == Append(f, sym)
<1>1. p \in Text /\ <<sym>> \in Text /\ q = p \o <<sym>> /\ f1 = f \o <<sym>>
  BY ChainTypes, OneAndTwo, AppendIsConcat DEF Text
<1>2. ASSUME NEW u \in Text
      PROVE  Composed(c, f1 \o u) = t \o Composed(c, q \o u)
  <2>1. <<sym>> \o u \in Text
    BY <1>1, ConcatProperties DEF Text
  <2>2. f1 \o u = f \o (<<sym>> \o u)
    <3>1. (f \o <<sym>>) \o u = f \o (<<sym>> \o u)
      BY <1>1, ConcatAssociative DEF Text
    <3> QED
      BY <1>1, <3>1
  <2>3. q \o u = p \o (<<sym>> \o u)
    <3>1. (p \o <<sym>>) \o u = p \o (<<sym>> \o u)
      BY <1>1, ConcatAssociative DEF Text
    <3> QED
      BY <1>1, <3>1
  <2>4. Composed(c, f \o (<<sym>> \o u)) = t \o Composed(c, p \o (<<sym>> \o u))
    BY <2>1 DEF Spelled
  <2> QED
    BY <2>2, <2>3, <2>4
<1>3. \A u \in Text : <<>> \o u = u
  BY ConcatEmptySeq DEF Text
<1> HIDE DEF f1, q
<1>4. ASSUME q \in Inputs(c) PROVE Spelled(c, f1, t \o Output(c, q), <<>>)
  <2>1. ASSUME NEW u \in Text
        PROVE  Composed(c, f1 \o u) = (t \o Output(c, q)) \o Composed(c, <<>> \o u)
    <3>1. Composed(c, q \o u) = Output(c, q) \o Composed(c, u)
      BY <1>4, SpellsOn DEF q
    <3>2. Composed(c, u) \in Text /\ Output(c, q) \in Text
      <4>1. Output(c, q) \in Seq(STRING \ Variables)
        BY <1>4, ChainTypes
      <4>2. Output(c, q) \in Text
        BY <4>1, SeqMonotonic DEF Text, Symbol
      <4> QED
        BY <4>2, ComposedType
    <3>3. t \o (Output(c, q) \o Composed(c, u)) = (t \o Output(c, q)) \o Composed(c, u)
      BY <3>2, Joined, Zenon
    <3> QED
      BY <1>2, <1>3, <3>1, <3>3
  <2> QED
    BY <2>1 DEF Spelled
<1>5. ASSUME q \in Paths(c) \ Inputs(c) PROVE Spelled(c, f1, t, q)
  BY <1>2 DEF Spelled
<1>6. ASSUME q \notin Paths(c) PROVE Spelled(c, f1, t, <<>>)
  <2>1. ASSUME NEW u \in Text
        PROVE  Composed(c, f1 \o u) = t \o Composed(c, <<>> \o u)
    <3>1. Composed(c, q \o u) = Composed(c, u)
      BY <1>6, SpellsOn DEF q
    <3> QED
      BY <1>2, <1>3, <3>1
  <2> QED
    BY <2>1 DEF Spelled
<1> QED
  BY <1>4, <1>5, <1>6 DEF q, f1

(* What a chain still has to do: the symbols typed of a sequence are its    *)
(* state, they are not one yet, and whatever is typed after them, all that  *)
(* was typed comes to the text and to what follows them.                    *)
ComposeInv ==
  chain # <<>> /\ WellNamed(chain) =>
    /\ Waits(chain, state)
    /\ ~muted => Spelled(chain, fed, text, state)

\* Nothing was typed.
LEMMA NothingTyped ==
  ASSUME NEW c, IsChain(c)
  PROVE  Waits(c, <<>>) /\ Spelled(c, <<>>, <<>>, <<>>)
<1>1. Waits(c, <<>>)
  BY EmptySeq DEF Waits
<1>2. ASSUME NEW u \in Text
      PROVE  Composed(c, <<>> \o u) = <<>> \o Composed(c, <<>> \o u)
  <2>1. <<>> \o u = u /\ Composed(c, u) \in Text
    BY ComposedType, ConcatEmptySeq DEF Text
  <2> QED
    BY <2>1, ConcatEmptySeq DEF Text
<1> QED
  BY <1>1, <1>2 DEF Spelled

\* A key press on either transport: t is what it makes of the text.
LEMMA PressSpells ==
  ASSUME SessionInv, ChainInv, ComposeInv, chain # <<>>, WellNamed(chain),
         NEW k \in Key, NEW m, NEW acts, acts = HandleKey(k, m).acts, NEW t,
         \/ t = FoldLeft(Request, [acc |-> acc, text |-> text, preedit |-> preedit], acts).text
         \/ t = FoldLeft(Signal, [text |-> text, preedit |-> preedit], acts).text,
         NEW f, f = HandleKey(k, m).fed, NEW p, p = HandleKey(k, m).state
  PROVE  /\ Waits(chain, p)
         /\ ~(muted \/ (keymapPending /\ f # fed)) => Spelled(chain, f, t, p)
<1> DEFINE w == [acc |-> acc, text |-> text, preedit |-> preedit]
           v == [text |-> text, preedit |-> preedit]
           r == HandleKey(k, m)
<1>1. w \in Wire /\ w.acc = NoBatch /\ v \in Bus /\ w.text = text /\ v.text = text
  BY StartsEmpty DEF SessionInv, Wire, Bus
<1>2. t = FoldLeft(Request, w, acts).text \/ t = FoldLeft(Signal, v, acts).text
  OBVIOUS
<1>3. IsChain(chain) /\ state \in Paths(chain) /\ fed \in Text /\ text \in Text
      /\ Waits(chain, state) /\ (~muted => Spelled(chain, fed, text, state)) /\ EngineOK
  BY ChainStates DEF SessionInv, ComposeInv
<1>4. acts = r.acts /\ f = r.fed /\ p = r.state
  OBVIOUS
<1>5. \/ r = [fed |-> fed, acts |-> <<Passthrough>>, state |-> state,
              buffer |-> buffer, lastLookup |-> lastLookup]
      \/ \E sym \in Symbol :
           r = [fed |-> Append(fed, sym), acts |-> Translate(Feed(sym).events),
                state |-> Feed(sym).state, buffer |-> Feed(sym).buffer,
                lastLookup |-> Feed(sym).lastLookup]
  BY PressIs
<1> HIDE DEF w, v, r
<1>6. CASE r = [fed |-> fed, acts |-> <<Passthrough>>, state |-> state,
                buffer |-> buffer, lastLookup |-> lastLookup]
  <2>1. f = fed /\ acts = <<Passthrough>> /\ p = state
    BY <1>4, <1>6
  <2>2. Idle(<<Passthrough>>) /\ <<Passthrough>> \in Seq(Acts)
    BY EventTypes, OneAndTwo DEF Idle
  <2>3. FoldLeft(Request, w, acts) = w /\ FoldLeft(Signal, v, acts) = v
    BY <1>1, <2>1, <2>2, IdleActs
  <2>4. t = text
    BY <1>1, <1>2, <2>3
  <2> QED
    BY <1>3, <2>1, <2>4
<1>7. ASSUME NEW sym \in Symbol,
             r = [fed |-> Append(fed, sym), acts |-> Translate(Feed(sym).events),
                  state |-> Feed(sym).state, buffer |-> Feed(sym).buffer,
                  lastLookup |-> Feed(sym).lastLookup]
      PROVE  /\ Waits(chain, p)
             /\ ~(muted \/ (keymapPending /\ f # fed)) => Spelled(chain, f, t, p)
  <2> DEFINE q == Append(state, sym)
             events == Feed(sym).events
  <2>1. f = Append(fed, sym) /\ acts = Translate(events) /\ p = Feed(sym).state
    BY <1>4, <1>7
  <2>2. /\ q \in Inputs(chain) =>
             p = <<>> /\ Kept(events) = <<Commit(Output(chain, q))>>
        /\ q \in Paths(chain) \ Inputs(chain) =>
             p = q /\ Kept(events) = <<>>
        /\ q \notin Paths(chain) =>
             p = <<>> /\ Kept(events) \in {<<>>, <<Passthrough>>}
    BY <2>1, ChainStep
  <2>3. Waits(chain, <<>>) /\ (q \in Paths(chain) \ Inputs(chain) => Waits(chain, q))
    BY <1>3, SpellsOn, NothingTyped
  <2>4. events \in Seq(EngineEvents)
    BY <1>3, FeedType
  <2>5. f # fed
    <3>1. Len(Append(fed, sym)) = Len(fed) + 1 /\ Len(fed) \in Nat
      BY <1>3, AppendProperties, LenProperties DEF Text
    <3> QED
      BY <2>1, <3>1
  <2>6. q \in Inputs(chain) => Output(chain, q) \in Text /\ q \in Paths(chain)
    <3>1. q \in Inputs(chain) => Output(chain, q) \in Seq(STRING \ Variables)
                                 /\ q \in Paths(chain)
      BY <1>3, ChainTypes
    <3> QED
      BY <3>1, SeqMonotonic DEF Text, Symbol
  <2>7. ASSUME ~muted
        PROVE  /\ q \in Inputs(chain) =>
                    Spelled(chain, f, text \o Output(chain, q), <<>>)
               /\ q \in Paths(chain) \ Inputs(chain) => Spelled(chain, f, text, q)
               /\ q \notin Paths(chain) => Spelled(chain, f, text, <<>>)
    BY <1>3, <2>1, <2>7, SpelledOn
  <2> HIDE DEF q, events
  <2>8. ASSUME ~keymapPending
        PROVE  /\ q \in Inputs(chain) => t = text \o Output(chain, q)
               /\ q \notin Inputs(chain) => t = text
    <3>1. /\ \A o \in Text : Kept(events) = <<Commit(o)>> =>
               /\ FoldLeft(Request, w, Translate(events)).text = w.text \o o
               /\ FoldLeft(Signal, v, Translate(events)).text = v.text \o o
          /\ Kept(events) \in {<<>>, <<Passthrough>>} =>
               /\ FoldLeft(Request, w, Translate(events)).text = w.text
               /\ FoldLeft(Signal, v, Translate(events)).text = v.text
      BY <1>1, <2>4, <2>8, TextOf
    <3>2. ASSUME q \in Inputs(chain) PROVE t = text \o Output(chain, q)
      <4>1. PICK o \in Text : o = Output(chain, q)
        BY <2>6, <3>2
      <4>2. Kept(events) = <<Commit(o)>>
        BY <2>2, <3>2, <4>1
      <4>3. /\ FoldLeft(Request, w, acts).text = text \o o
            /\ FoldLeft(Signal, v, acts).text = text \o o
        BY <1>1, <2>1, <3>1, <4>2
      <4> QED
        BY <1>2, <4>1, <4>3
    <3>3. ASSUME q \notin Inputs(chain) PROVE t = text
      <4>1. Kept(events) \in {<<>>, <<Passthrough>>}
        BY <2>2, <3>3
      <4>2. /\ FoldLeft(Request, w, acts).text = text
            /\ FoldLeft(Signal, v, acts).text = text
        BY <1>1, <2>1, <3>1, <4>1
      <4> QED
        BY <1>2, <4>2
    <3> QED
      BY <3>2, <3>3
  <2>9. Waits(chain, p)
    BY <2>2, <2>3, <2>6
  <2>10. ASSUME ~(muted \/ (keymapPending /\ f # fed)) PROVE Spelled(chain, f, t, p)
    <3>1. ~muted /\ ~keymapPending
      BY <2>5, <2>10
    <3>2. CASE q \in Inputs(chain)
      BY <2>2, <2>7, <2>8, <3>1, <3>2
    <3>3. CASE q \notin Inputs(chain)
      BY <2>2, <2>6, <2>7, <2>8, <3>1, <3>3
    <3> QED
      BY <3>2, <3>3
  <2> QED
    BY <2>9, <2>10
<1> QED
  BY <1>5, <1>6, <1>7

LEMMA ComposeKept ==
  ASSUME SessionInv, ChainInv, ComposeInv, [Next]_vars
  PROVE  ComposeInv'
<1> SUFFICES ASSUME chain' # <<>>, WellNamed(chain')
             PROVE  Waits(chain', state') /\ (~muted' => Spelled(chain', fed', text', state'))
  BY DEF ComposeInv
<1>0. chain' = chain /\ chain # <<>>
  BY DEF Next, vars, OnModifiers, OnKeymap, OnDone, OnDeactivate, OnKey, ProcessKeyEvent,
         FocusIn, FocusOut, Reset, EmitHidePreedit
<1>1. WellNamed(chain) /\ IsChain(chain)
  BY <1>0, ChainStates DEF SessionInv
<1>2. ASSUME NEW k \in Key, NEW m, Advance(HandleKey(k, m)),
             LET acts == HandleKey(k, m).acts IN
             \/ text' = FoldLeft(Request, [acc |-> acc, text |-> text, preedit |-> preedit],
                                 acts).text
             \/ text' = FoldLeft(Signal, [text |-> text, preedit |-> preedit], acts).text
      PROVE  Waits(chain, state') /\ (~muted' => Spelled(chain, fed', text', state'))
  <2> DEFINE r == HandleKey(k, m)
  <2>1. fed' = r.fed /\ state' = r.state
        /\ muted' = (muted \/ (keymapPending /\ r.fed # fed))
    BY <1>2 DEF Advance
  <2>2. PICK acts : acts = r.acts
    OBVIOUS
  <2>3. PICK t : t = text'
    OBVIOUS
  <2>4. PICK f : f = r.fed
    OBVIOUS
  <2>5. PICK p : p = r.state
    OBVIOUS
  <2>6. \/ t = FoldLeft(Request, [acc |-> acc, text |-> text, preedit |-> preedit], acts).text
        \/ t = FoldLeft(Signal, [text |-> text, preedit |-> preedit], acts).text
    BY <1>2, <2>2, <2>3
  <2>7. /\ Waits(chain, p)
        /\ ~(muted \/ (keymapPending /\ f # fed)) => Spelled(chain, f, t, p)
    BY <1>0, <1>1, <2>2, <2>4, <2>5, <2>6, PressSpells
  <2> HIDE DEF r
  <2> QED
    BY <2>1, <2>3, <2>4, <2>5, <2>7, Zenon
<1>3. ASSUME NEW k \in Key, OnKey(k)
      PROVE  Waits(chain, state') /\ (~muted' => Spelled(chain, fed', text', state'))
  BY <1>2, <1>3 DEF OnKey
<1>4. ASSUME NEW k \in Key, NEW m \in ModStates, ProcessKeyEvent(k, m)
      PROVE  Waits(chain, state') /\ (~muted' => Spelled(chain, fed', text', state'))
  BY <1>2, <1>4 DEF ProcessKeyEvent
<1>5. ASSUME Reset
      PROVE  Waits(chain, state') /\ (~muted' => Spelled(chain, fed', text', state'))
  <2>1. im.initial = <<>>
    BY <1>0, ChainStates, FromComposeIs DEF Initial
  <2>2. state' = <<>> /\ fed' = <<>> /\ text' = <<>>
    BY <1>5, <2>1 DEF Reset
  <2> QED
    BY <1>1, <2>2, NothingTyped
<1>6. ASSUME UNCHANGED <<state, fed, text, muted>>
      PROVE  Waits(chain, state') /\ (~muted' => Spelled(chain, fed', text', state'))
  BY <1>0, <1>6 DEF ComposeInv
<1> USE DEF fsm, session, app, history
<1>7. ASSUME NEW m \in ModStates, OnModifiers(m)
      PROVE  UNCHANGED <<state, fed, text, muted>>
  BY <1>7 DEF OnModifiers
<1>8. OnKeymap \/ OnDone \/ OnDeactivate => UNCHANGED <<state, fed, text, muted>>
  BY DEF OnKeymap, OnDone, OnDeactivate
<1>9. FocusIn \/ FocusOut \/ EmitHidePreedit => UNCHANGED <<state, fed, text, muted>>
  BY DEF FocusIn, FocusOut, EmitHidePreedit
<1>10. UNCHANGED vars => UNCHANGED <<state, fed, text, muted>>
  BY DEF vars
<1> QED
  BY <1>0, <1>3, <1>4, <1>5, <1>6, <1>7, <1>8, <1>9, <1>10 DEF Next

(* Every compose chain whose inputs are names of keysyms and whose states   *)
(* have names of their own, compiled to them and run by the engine, commits *)
(* exactly what the chain spells out for the symbols typed: where sequences *)
(* are each other's beginnings, wherever a beginning is given up, and on    *)
(* either transport.                                                        *)
THEOREM ChainsComposeAsWritten == Spec => []ComposesAsWritten
<1>1. Init => SessionInv /\ ChainInv /\ ComposeInv
  <2> SUFFICES ASSUME Init PROVE SessionInv /\ ChainInv /\ ComposeInv
    OBVIOUS
  <2>1. SessionInv /\ ChainInv
    BY InitInv DEF Init, ChainInv
  <2>2. ASSUME chain # <<>>
        PROVE  Waits(chain, state) /\ Spelled(chain, fed, text, state)
    <3>1. IsChain(chain) /\ im = FromCompose(chain)
      BY <2>1, <2>2, ChainStates
    <3>2. state = <<>> /\ fed = <<>> /\ text = <<>>
      BY <3>1, FromComposeIs DEF Init, Initial
    <3> QED
      BY <3>1, <3>2, NothingTyped
  <2> QED
    BY <2>1, <2>2 DEF ComposeInv
<1>2. SessionInv /\ ChainInv /\ ComposeInv /\ [Next]_vars
        => SessionInv' /\ ChainInv' /\ ComposeInv'
  BY NextInv, ChainKept, ComposeKept
<1>3. SessionInv /\ ComposeInv => ComposesAsWritten
  <2> SUFFICES ASSUME SessionInv, ComposeInv, chain # <<>>, WellNamed(chain), ~muted
               PROVE  text = Composed(chain, fed)
    BY DEF ComposesAsWritten
  <2>1. IsChain(chain) /\ state \in Paths(chain) /\ fed \in Text /\ text \in Text
        /\ state \in Text
    BY ChainStates, ChainTypes DEF SessionInv
  <2>2. Waits(chain, state) /\ Spelled(chain, fed, text, state)
    BY DEF ComposeInv
  <2>3. fed \o <<>> = fed /\ state \o <<>> = state /\ text \o <<>> = text /\ <<>> \in Text
    BY <2>1, ConcatEmptySeq, EmptySeq DEF Text
  <2>4. Composed(chain, fed) = text \o Composed(chain, state)
    BY <2>2, <2>3 DEF Spelled
  <2>5. Cuts(chain, state, 1) = {}
    <3>1. ASSUME NEW j \in 1..Len(state)
          PROVE  ~Complete(chain, SubSeq(state, 1, j)) /\ ~Dead(chain, SubSeq(state, 1, j))
      <4>1. SubSeq(state, 1, j) \in Paths(chain) /\ SubSeq(state, 1, j) \notin Inputs(chain)
        BY <2>1, <2>2, StartsOfPaths DEF Waits
      <4> QED
        BY <2>1, <4>1, ChainTypes, PathsAreAlive
    <3> QED
      BY <3>1 DEF Cuts
  <2> QED
    BY <2>1, <2>3, <2>4, <2>5, NothingYet
<1> QED
  BY <1>1, <1>2, <1>3, PTL DEF Spec
=============================================================================
