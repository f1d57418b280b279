---------------------------- MODULE XkbTreeProofs ----------------------------
(***************************************************************************)
(* Theorems about XkbTree for any files, upstream trees, data trees and    *)
(* scripts: what the commands keep, that a finished tree replaces          *)
(* upstream's, that dropin-check's report is true of the tree it read, and *)
(* that a user's ~/.XCompose survives any number of activations.           *)
(***************************************************************************)
EXTENDS XkbTree, SequenceTheorems, FunctionTheorems, FiniteSetTheorems,
        WellFoundedInduction, TLAPS

-----------------------------------------------------------------------------
(* Induction, and sequences made of sequences.                              *)

\* Induction over the naturals, for a set of them.
LEMMA SetInduction ==
  ASSUME NEW S, 0 \in S, \A n \in Nat : n \in S => n + 1 \in S
  PROVE  Nat \subseteq S
<1> DEFINE T == Nat \ S
<1> SUFFICES ASSUME T # {} PROVE FALSE
  OBVIOUS
<1>1. IsWellFoundedOn(OpToRel(<, Nat), Nat)
  BY NatLessThanWellFounded
<1>2. PICK n \in T : \A m \in T : <<m, n>> \notin OpToRel(<, Nat)
  BY <1>1, WFMin
<1>3. \A m \in T : ~(m < n)
  BY <1>2 DEF OpToRel
<1>4. n - 1 \in Nat /\ n - 1 \notin T /\ (n - 1) + 1 = n
  BY <1>3
<1> QED
  BY <1>4

\* A set of numbers has a smallest one.
LEMMA MinIs ==
  ASSUME NEW S \in SUBSET Nat, S # {}
  PROVE  Min(S) \in S /\ \A m \in S : Min(S) <= m
<1>1. IsWellFoundedOn(OpToRel(<, Nat), Nat)
  BY NatLessThanWellFounded
<1>2. PICK n \in S : \A m \in S : <<m, n>> \notin OpToRel(<, Nat)
  BY <1>1, WFMin
<1>3. \A m \in S : ~(m < n)
  BY <1>2 DEF OpToRel
<1>4. \A m \in S : n <= m
  BY <1>3
<1> QED
  BY <1>4 DEF Min

\* A set of numbers up to n has a largest one.
LEMMA MaxIs ==
  ASSUME NEW n \in Nat, NEW s \in SUBSET (1..n), s # {}
  PROVE  Max(s) \in s /\ \A y \in s : Max(s) >= y
<1> DEFINE P(m) == \A t \in SUBSET (1..m) : t # {} => \E x \in t : \A y \in t : x >= y
           S == {m \in Nat : P(m)}
<1>1. 0 \in S
  <2>1. 1..0 = {}
    OBVIOUS
  <2> QED
    BY <2>1
<1>2. ASSUME NEW m \in Nat, P(m) PROVE P(m + 1)
  <2> SUFFICES ASSUME NEW t \in SUBSET (1..(m + 1)), t # {}
               PROVE  \E x \in t : \A y \in t : x >= y
    OBVIOUS
  <2>1. CASE m + 1 \in t
    BY <2>1
  <2>2. CASE m + 1 \notin t
    <3>1. t \in SUBSET (1..m)
      BY <2>2
    <3> QED
      BY <3>1, <1>2
  <2> QED
    BY <2>1, <2>2
<1>3. n \in S
  <2> HIDE DEF P
  <2>1. \A m \in Nat : m \in S => m + 1 \in S
    BY <1>2
  <2> QED
    BY <1>1, <2>1, SetInduction
<1> QED
  BY <1>3 DEF Max

(* FlattenSeq, one sequence at a time.                                      *)
LEMMA FlattenSteps ==
  ASSUME NEW S, NEW ss \in Seq(Seq(S))
  PROVE  \E q \in [0..Len(ss) -> Seq(S)] :
           /\ q[0] = <<>> /\ q[Len(ss)] = FlattenSeq(ss)
           /\ \A i \in 1..Len(ss) : q[i] = q[i - 1] \o ss[i]
<1> DEFINE n == Len(ss)
           Is(g, m) == g = [i \in 1..m |-> IF i = 1 THEN ss[i] ELSE g[i - 1] \o ss[i]]
           Up(m) == \E g \in [1..m -> Seq(S)] : Is(g, m)
<1>0. n \in Nat /\ ss \in [1..n -> Seq(S)]
  BY LenProperties
<1>1. Up(0)
  <2>1. 1..0 = {}
    OBVIOUS
  <2> DEFINE e == [i \in 1..0 |-> <<>>]
  <2>2. e \in [1..0 -> Seq(S)]
    BY <2>1
  <2>3. Is(e, 0)
    BY <2>1
  <2> QED
    BY <2>2, <2>3
<1>2. ASSUME NEW m \in Nat, m + 1 <= n, Up(m)
      PROVE  Up(m + 1)
  <2>1. PICK g \in [1..m -> Seq(S)] : Is(g, m)
    BY <1>2
  <2> DEFINE h == [i \in 1..(m + 1) |->
                     IF i = m + 1 THEN (IF m = 0 THEN ss[1] ELSE g[m] \o ss[m + 1]) ELSE g[i]]
  <2>2. m + 1 \in 1..n /\ ss[m + 1] \in Seq(S) /\ ss[1] \in Seq(S)
    BY <1>0, <1>2
  <2>3. m # 0 => g[m] \o ss[m + 1] \in Seq(S)
    <3>1. m # 0 => g[m] \in Seq(S)
      BY <2>1
    <3> QED
      BY <2>2, <3>1, ConcatProperties
  <2>4. h \in [1..(m + 1) -> Seq(S)]
    BY <2>2, <2>3
  <2>5. ASSUME NEW i \in 1..(m + 1)
        PROVE  h[i] = IF i = 1 THEN ss[i] ELSE h[i - 1] \o ss[i]
    <3>1. CASE i = m + 1
      BY <3>1
    <3>2. CASE i # m + 1
      <4>1. i \in 1..m /\ h[i] = g[i] /\ (i # 1 => h[i - 1] = g[i - 1])
        BY <3>2
      <4>2. g[i] = IF i = 1 THEN ss[i] ELSE g[i - 1] \o ss[i]
        BY <2>1, <4>1
      <4> QED
        BY <4>1, <4>2
    <3> QED
      BY <3>1, <3>2
  <2>6. Is(h, m + 1)
    BY <2>5, Zenon
  <2> QED
    BY <2>4, <2>6
<1>3. Up(n)
  <2> HIDE DEF Up
  <2> DEFINE T == {m \in Nat : m <= n => Up(m)}
  <2>1. 0 \in T
    BY <1>1
  <2>2. \A m \in Nat : m \in T => m + 1 \in T
    BY <1>2
  <2>3. n \in T
    BY <1>0, <2>1, <2>2, SetInduction
  <2> QED
    BY <2>3
<1> DEFINE c == CHOOSE g : Is(g, n)
<1>4. Is(c, n)
  <2> HIDE DEF Is
  <2> QED
    BY <1>3
<1>5. n # 0 => FlattenSeq(ss) = c[n]
  BY DEF FlattenSeq
<1>6. n = 0 => FlattenSeq(ss) = <<>>
  BY EmptySeq DEF FlattenSeq
<1>7. \A i \in 1..n : c[i] = IF i = 1 THEN ss[i] ELSE c[i - 1] \o ss[i]
  BY <1>4
<1> HIDE DEF c
<1>8. \A i \in 1..n : c[i] \in Seq(S)
  <2> DEFINE T == {m \in Nat : m \in 1..n => c[m] \in Seq(S)}
  <2>1. 0 \in T
    OBVIOUS
  <2>2. ASSUME NEW m \in Nat, m \in T
        PROVE  m + 1 \in T
    <3> SUFFICES ASSUME m + 1 \in 1..n
                 PROVE  c[m + 1] \in Seq(S)
      OBVIOUS
    <3>1. CASE m = 0
      BY <1>0, <1>7, <3>1
    <3>2. CASE m # 0
      <4>1. m \in 1..n /\ c[m] \in Seq(S) /\ ss[m + 1] \in Seq(S)
        BY <1>0, <2>2, <3>2
      <4>2. (m + 1) - 1 = m /\ m + 1 # 1
        BY <3>2
      <4>3. c[m + 1] = IF m + 1 = 1 THEN ss[m + 1] ELSE c[(m + 1) - 1] \o ss[m + 1]
        BY <1>7, Zenon
      <4>4. c[m + 1] = c[m] \o ss[m + 1]
        BY <4>2, <4>3
      <4> QED
        BY <4>1, <4>4, ConcatProperties
    <3> QED
      BY <3>1, <3>2
  <2> HIDE DEF T
  <2>3. Nat \subseteq T
    BY <2>1, <2>2, SetInduction
  <2> QED
    BY <1>0, <2>3 DEF T
<1> DEFINE q == [i \in 0..n |-> IF i = 0 THEN <<>> ELSE c[i]]
<1>9. q \in [0..n -> Seq(S)]
  BY <1>0, <1>8, EmptySeq
<1>10. \A i \in 1..n : i - 1 \in 0..n /\ q[i] = c[i] /\ (i # 1 => q[i - 1] = c[i - 1])
  BY <1>0
<1>11. q[0] = <<>> /\ q[n] = FlattenSeq(ss)
  BY <1>0, <1>5, <1>6
<1> HIDE DEF q
<1>12. ASSUME NEW i \in 1..n
       PROVE  q[i] = q[i - 1] \o ss[i]
  <2>1. CASE i = 1
    <3>1. q[1] = ss[1] /\ ss[1] \in Seq(S)
      BY <1>0, <1>7, <1>10, <2>1
    <3>2. <<>> \o ss[1] = ss[1]
      BY <3>1, ConcatEmptySeq
    <3>3. q[i - 1] = <<>>
      BY <1>11, <2>1
    <3> QED
      BY <2>1, <3>1, <3>2, <3>3
  <2>2. CASE i # 1
    <3>1. c[i] = c[i - 1] \o ss[i]
      BY <1>7, <2>2, Zenon
    <3> QED
      BY <1>10, <2>2, <3>1
  <2> QED
    BY <2>1, <2>2
<1> QED
  BY <1>9, <1>11, <1>12

\* Sequences of S flattened are a sequence of S.
LEMMA FlattenType ==
  ASSUME NEW S, NEW ss \in Seq(Seq(S))
  PROVE  FlattenSeq(ss) \in Seq(S)
<1>1. PICK q \in [0..Len(ss) -> Seq(S)] : q[Len(ss)] = FlattenSeq(ss)
  BY FlattenSteps
<1> QED
  BY <1>1, LenProperties

\* A finite set is the range of the sequence made of it.
LEMMA SetToSeqIs ==
  ASSUME NEW S, IsFiniteSet(S)
  PROVE  SetToSeq(S) \in Seq(S) /\ Range(SetToSeq(S)) = S
<1> DEFINE n == Cardinality(S)
           f == SetToSeq(S)
<1>1. n \in Nat /\ ExistsBijection(1..n, S)
  BY FS_CardinalityType
<1>2. PICK b \in Bijection(1..n, S) : TRUE
  BY <1>1 DEF ExistsBijection
<1>3. b \in [1..n -> S] /\ IsInjective(b)
  BY <1>2 DEF Bijection, Injection
<1>4. f \in [1..n -> S] /\ IsInjective(f)
  BY <1>3 DEF SetToSeq
<1> HIDE DEF f
<1>5. f \in Bijection(1..n, Range(f))
  BY <1>4, Fun_InjMeansBijImage DEF Injection
<1>6. Range(f) \subseteq S
  BY <1>4, Fun_RangeProperties
<1>7. IsFiniteSet(1..n) /\ Cardinality(1..n) = n
  BY <1>1, FS_Interval
<1>8. ExistsBijection(1..n, Range(f))
  BY <1>5 DEF ExistsBijection
<1>9. Cardinality(Range(f)) = n
  BY <1>7, <1>8, FS_Bijection
<1>10. Range(f) = S
  BY <1>6, <1>9, FS_Subset
<1>11. f \in Seq(S)
  BY <1>1, <1>4
<1> QED
  BY <1>10, <1>11 DEF f

(* What is in a sequence; that one element of T is in it, and it is x; and  *)
(* that none is.                                                            *)
In(x, s) == \E i \in 1..Len(s) : s[i] = x
Never(s, T) == \A i \in 1..Len(s) : s[i] \notin T
Once(s, T, x) ==
  x \in T /\ \E k \in 1..Len(s) : s[k] = x /\ \A i \in 1..Len(s) : s[i] \in T => i = k

LEMMA ToSetIs ==
  ASSUME NEW S, NEW s \in Seq(S)
  PROVE  DOMAIN s = 1..Len(s) /\ Len(s) \in Nat /\ \A x : x \in ToSet(s) <=> In(x, s)
<1>1. DOMAIN s = 1..Len(s) /\ Len(s) \in Nat
  BY LenProperties
<1> QED
  BY <1>1 DEF ToSet, In

LEMMA ConcatIn ==
  ASSUME NEW S, NEW s \in Seq(S), NEW t \in Seq(S)
  PROVE  \A x : In(x, s \o t) <=> In(x, s) \/ In(x, t)
<1>1. /\ Len(s) \in Nat /\ Len(t) \in Nat
      /\ Len(s \o t) = Len(s) + Len(t)
      /\ \A i \in 1..(Len(s) + Len(t)) :
           (s \o t)[i] = IF i <= Len(s) THEN s[i] ELSE t[i - Len(s)]
  BY ConcatProperties, LenProperties
<1> DEFINE u == s \o t
<1> HIDE DEF u
<1> SUFFICES ASSUME NEW x PROVE In(x, u) <=> In(x, s) \/ In(x, t)
  BY DEF u
<1>2. ASSUME In(x, s) PROVE In(x, u)
  BY <1>1, <1>2 DEF In, u
<1>3. ASSUME In(x, t) PROVE In(x, u)
  <2>1. PICK i \in 1..Len(t) : t[i] = x
    BY <1>3 DEF In
  <2>2. /\ Len(s) + i \in 1..Len(u) /\ Len(s) + i \in 1..(Len(s) + Len(t))
        /\ ~(Len(s) + i <= Len(s)) /\ (Len(s) + i) - Len(s) = i
    BY <1>1 DEF u
  <2>3. u[Len(s) + i] = x
    BY <1>1, <2>1, <2>2 DEF u
  <2> QED
    BY <2>2, <2>3 DEF In
<1>4. ASSUME In(x, u) PROVE In(x, s) \/ In(x, t)
  <2>1. PICK i \in 1..Len(u) : u[i] = x
    BY <1>4 DEF In
  <2>2. CASE i <= Len(s)
    <3>1. i \in 1..Len(s) /\ s[i] = x
      BY <1>1, <2>1, <2>2 DEF u
    <3> QED
      BY <3>1 DEF In
  <2>3. CASE ~(i <= Len(s))
    <3>1. i - Len(s) \in 1..Len(t) /\ t[i - Len(s)] = x
      BY <1>1, <2>1, <2>3 DEF u
    <3> QED
      BY <3>1 DEF In
  <2> QED
    BY <2>2, <2>3
<1> QED
  BY <1>2, <1>3, <1>4

LEMMA ConcatNever ==
  ASSUME NEW S, NEW s \in Seq(S), NEW t \in Seq(S), NEW T
  PROVE  Never(s \o t, T) <=> Never(s, T) /\ Never(t, T)
<1>1. \A u : Never(u, T) <=> \A x \in T : ~In(x, u)
  BY DEF Never, In
<1> QED
  BY <1>1, ConcatIn

LEMMA ConcatOnce ==
  ASSUME NEW S, NEW s \in Seq(S), NEW t \in Seq(S), NEW T, NEW x,
         (Once(s, T, x) /\ Never(t, T)) \/ (Never(s, T) /\ Once(t, T, x))
  PROVE  Once(s \o t, T, x)
<1>1. /\ Len(s) \in Nat /\ Len(t) \in Nat
      /\ Len(s \o t) = Len(s) + Len(t)
      /\ \A i \in 1..(Len(s) + Len(t)) :
           (s \o t)[i] = IF i <= Len(s) THEN s[i] ELSE t[i - Len(s)]
  BY ConcatProperties, LenProperties
<1> DEFINE u == s \o t
<1> HIDE DEF u
<1>2. CASE Once(s, T, x) /\ Never(t, T)
  <2>1. PICK k \in 1..Len(s) : s[k] = x /\ \A i \in 1..Len(s) : s[i] \in T => i = k
    BY <1>2 DEF Once
  <2>2. k \in 1..Len(u) /\ u[k] = x
    BY <1>1, <2>1 DEF u
  <2>3. ASSUME NEW i \in 1..Len(u), u[i] \in T PROVE i = k
    <3>1. CASE i <= Len(s)
      <4>1. i \in 1..Len(s) /\ u[i] = s[i]
        BY <1>1, <3>1 DEF u
      <4> QED
        BY <2>1, <2>3, <4>1
    <3>2. CASE ~(i <= Len(s))
      <4>1. i - Len(s) \in 1..Len(t) /\ u[i] = t[i - Len(s)]
        BY <1>1, <3>2 DEF u
      <4> QED
        BY <1>2, <2>3, <4>1 DEF Never
    <3> QED
      BY <3>1, <3>2
  <2> QED
    BY <1>2, <2>2, <2>3 DEF Once, u
<1>3. CASE Never(s, T) /\ Once(t, T, x)
  <2>1. PICK k \in 1..Len(t) : t[k] = x /\ \A i \in 1..Len(t) : t[i] \in T => i = k
    BY <1>3 DEF Once
  <2>2. /\ Len(s) + k \in 1..Len(u) /\ Len(s) + k \in 1..(Len(s) + Len(t))
        /\ ~(Len(s) + k <= Len(s)) /\ (Len(s) + k) - Len(s) = k
    BY <1>1 DEF u
  <2>3. u[Len(s) + k] = x
    BY <1>1, <2>1, <2>2 DEF u
  <2>4. ASSUME NEW i \in 1..Len(u), u[i] \in T PROVE i = Len(s) + k
    <3>1. CASE i <= Len(s)
      <4>1. i \in 1..Len(s) /\ u[i] = s[i]
        BY <1>1, <3>1 DEF u
      <4> QED
        BY <1>3, <2>4, <4>1 DEF Never
    <3>2. CASE ~(i <= Len(s))
      <4>1. i - Len(s) \in 1..Len(t) /\ u[i] = t[i - Len(s)]
        BY <1>1, <3>2 DEF u
      <4>2. i - Len(s) = k
        BY <2>1, <2>4, <4>1
      <4> QED
        BY <1>1, <4>2 DEF u
    <3> QED
      BY <3>1, <3>2
  <2> QED
    BY <1>3, <2>2, <2>3, <2>4 DEF Once, u
<1> QED
  BY <1>2, <1>3

LEMMA FlattenIn ==
  ASSUME NEW S, NEW ss \in Seq(Seq(S))
  PROVE  \A x : In(x, FlattenSeq(ss)) <=> \E k \in 1..Len(ss) : In(x, ss[k])
<1>0. Len(ss) \in Nat /\ \A k \in 1..Len(ss) : ss[k] \in Seq(S)
  BY LenProperties
<1>1. PICK q \in [0..Len(ss) -> Seq(S)] :
           /\ q[0] = <<>> /\ q[Len(ss)] = FlattenSeq(ss)
           /\ \A i \in 1..Len(ss) : q[i] = q[i - 1] \o ss[i]
  BY FlattenSteps
<1> SUFFICES ASSUME NEW x
             PROVE  In(x, FlattenSeq(ss)) <=> \E k \in 1..Len(ss) : In(x, ss[k])
  OBVIOUS
<1> DEFINE T == {m \in Nat : m <= Len(ss) => (In(x, q[m]) <=> \E k \in 1..m : In(x, ss[k]))}
<1>2. 0 \in T
  <2>1. ~In(x, <<>>)
    BY DEF In
  <2> QED
    BY <1>1, <2>1
<1>3. ASSUME NEW m \in Nat, m \in T PROVE m + 1 \in T
  <2> SUFFICES ASSUME m + 1 <= Len(ss)
               PROVE  In(x, q[m + 1]) <=> \E k \in 1..(m + 1) : In(x, ss[k])
    OBVIOUS
  <2>1. m + 1 \in 1..Len(ss) /\ m \in 0..Len(ss) /\ (m + 1) - 1 = m
    BY <1>0
  <2>2. q[m + 1] = q[m] \o ss[m + 1]
    BY <1>1, <2>1
  <2>a. q[m] \in Seq(S) /\ ss[m + 1] \in Seq(S)
    BY <1>0, <2>1
  <2>3. In(x, q[m + 1]) <=> In(x, q[m]) \/ In(x, ss[m + 1])
    BY <2>2, <2>a, ConcatIn
  <2>4. In(x, q[m]) <=> \E k \in 1..m : In(x, ss[k])
    BY <1>0, <1>3, <2>1
  <2> QED
    BY <2>3, <2>4
<1> HIDE DEF T
<1>4. Len(ss) \in T
  BY <1>0, <1>2, <1>3, SetInduction
<1> QED
  BY <1>0, <1>1, <1>4 DEF T

LEMMA FlattenNever ==
  ASSUME NEW S, NEW ss \in Seq(Seq(S)), NEW T,
         \A k \in 1..Len(ss) : Never(ss[k], T)
  PROVE  Never(FlattenSeq(ss), T)
<1>1. \A u : Never(u, T) <=> \A x \in T : ~In(x, u)
  BY DEF Never, In
<1> QED
  BY <1>1, FlattenIn

LEMMA FlattenOnce ==
  ASSUME NEW S, NEW ss \in Seq(Seq(S)), NEW T, NEW x, NEW k \in 1..Len(ss),
         Once(ss[k], T, x), \A i \in 1..Len(ss) : i # k => Never(ss[i], T)
  PROVE  Once(FlattenSeq(ss), T, x)
<1>0. Len(ss) \in Nat /\ \A i \in 1..Len(ss) : ss[i] \in Seq(S)
  BY LenProperties
<1>1. PICK q \in [0..Len(ss) -> Seq(S)] :
           /\ q[0] = <<>> /\ q[Len(ss)] = FlattenSeq(ss)
           /\ \A i \in 1..Len(ss) : q[i] = q[i - 1] \o ss[i]
  BY FlattenSteps
<1> DEFINE P == {m \in Nat : m <= Len(ss) => IF m < k THEN Never(q[m], T) ELSE Once(q[m], T, x)}
<1>2. 0 \in P
  BY <1>1 DEF Never
<1>3. ASSUME NEW m \in Nat, m \in P PROVE m + 1 \in P
  <2> SUFFICES ASSUME m + 1 <= Len(ss)
               PROVE  IF m + 1 < k THEN Never(q[m + 1], T) ELSE Once(q[m + 1], T, x)
    OBVIOUS
  <2>1. m + 1 \in 1..Len(ss) /\ m \in 0..Len(ss) /\ (m + 1) - 1 = m
    BY <1>0
  <2>2. q[m + 1] = q[m] \o ss[m + 1] /\ q[m] \in Seq(S) /\ ss[m + 1] \in Seq(S)
    BY <1>0, <1>1, <2>1
  <2>3. IF m < k THEN Never(q[m], T) ELSE Once(q[m], T, x)
    BY <1>0, <1>3, <2>1
  <2>4. CASE m + 1 < k
    BY <2>1, <2>2, <2>3, <2>4, ConcatNever
  <2>5. CASE m + 1 = k
    BY <2>1, <2>2, <2>3, <2>5, ConcatOnce
  <2>6. CASE k < m + 1
    <3>1. Once(q[m], T, x) /\ Never(ss[m + 1], T)
      BY <2>1, <2>3, <2>6
    <3> QED
      BY <2>2, <2>6, <3>1, ConcatOnce
  <2> QED
    BY <2>4, <2>5, <2>6
<1> HIDE DEF P
<1>4. Len(ss) \in P
  BY <1>0, <1>2, <1>3, SetInduction
<1> QED
  BY <1>0, <1>1, <1>4 DEF P

\* Of sequences that are empty all but one, that one is left.
LEMMA FlattenOne ==
  ASSUME NEW S, NEW ss \in Seq(Seq(S)), NEW k \in 1..Len(ss),
         \A i \in 1..Len(ss) : i # k => ss[i] = <<>>
  PROVE  FlattenSeq(ss) = ss[k]
<1>0. Len(ss) \in Nat /\ \A i \in 1..Len(ss) : ss[i] \in Seq(S)
  BY LenProperties
<1>1. PICK q \in [0..Len(ss) -> Seq(S)] :
           /\ q[0] = <<>> /\ q[Len(ss)] = FlattenSeq(ss)
           /\ \A i \in 1..Len(ss) : q[i] = q[i - 1] \o ss[i]
  BY FlattenSteps
<1>a. \A s \in Seq(S) : <<>> \o s = s /\ s \o <<>> = s
  BY ConcatEmptySeq
<1> DEFINE P == {m \in Nat : m <= Len(ss) => q[m] = IF m < k THEN <<>> ELSE ss[k]}
<1>2. 0 \in P
  BY <1>1
<1>3. ASSUME NEW m \in Nat, m \in P PROVE m + 1 \in P
  <2> SUFFICES ASSUME m + 1 <= Len(ss)
               PROVE  q[m + 1] = IF m + 1 < k THEN <<>> ELSE ss[k]
    OBVIOUS
  <2>1. m + 1 \in 1..Len(ss) /\ m \in 0..Len(ss) /\ (m + 1) - 1 = m
    BY <1>0
  <2>2. q[m + 1] = q[m] \o ss[m + 1] /\ ss[m + 1] \in Seq(S) /\ ss[k] \in Seq(S)
    BY <1>0, <1>1, <2>1
  <2>3. q[m] = IF m < k THEN <<>> ELSE ss[k]
    BY <1>0, <1>3, <2>1
  <2>4. CASE m + 1 < k
    BY <1>a, <2>1, <2>2, <2>3, <2>4
  <2>5. CASE m + 1 = k
    <3>1. q[m] = <<>> /\ m + 1 = k /\ ~(m + 1 < k)
      BY <2>1, <2>3, <2>5
    <3>2. q[m] \o ss[m + 1] = ss[k]
      BY <1>a, <2>2, <3>1
    <3> QED
      BY <2>2, <3>1, <3>2
  <2>6. CASE k < m + 1
    <3>1. q[m] = ss[k] /\ ss[m + 1] = <<>>
      BY <2>1, <2>3, <2>6
    <3> QED
      BY <1>a, <2>2, <2>6, <3>1
  <2> QED
    BY <2>4, <2>5, <2>6
<1> HIDE DEF P
<1>4. Len(ss) \in P
  BY <1>0, <1>2, <1>3, SetInduction
<1> QED
  BY <1>0, <1>1, <1>4 DEF P

LEMMA FnSeq ==
  ASSUME NEW S, NEW n \in Nat, NEW f \in [1..n -> S]
  PROVE  f \in Seq(S) /\ Len(f) = n
OBVIOUS

LEMMA ElementsIn ==
  ASSUME NEW S, NEW s \in Seq(S)
  PROVE  Len(s) \in Nat /\ DOMAIN s = 1..Len(s) /\ \A i \in 1..Len(s) : s[i] \in S
BY LenProperties

LEMMA EmptyAndOne ==
  ASSUME NEW S
  PROVE  <<>> \in Seq(S) /\ \A x \in S : <<x>> \in Seq(S) /\ Len(<<x>>) = 1 /\ <<x>>[1] = x
OBVIOUS

LEMMA InShort == \A u : ~In(u, <<>>) /\ \A x : In(u, <<x>>) <=> u = x
<1>1. \A x : Len(<<x>>) = 1 /\ <<x>>[1] = x
  OBVIOUS
<1>2. Len(<<>>) = 0 /\ 1..0 = {} /\ 1..1 = {1}
  OBVIOUS
<1> QED
  BY <1>1, <1>2 DEF In

\* The first n elements.
LEMMA PrefixType ==
  ASSUME NEW S, NEW s \in Seq(S), NEW p \in Prefixes(s)
  PROVE  p \in Seq(S)
<1>1. PICK n \in 0..Len(s) : p = SubSeq(s, 1, n)
  BY DEF Prefixes
<1>2. Len(s) \in Nat /\ \A i \in 1..Len(s) : s[i] \in S
  BY ElementsIn
<1>3. n \in Int /\ \A i \in 1..n : s[i] \in S
  BY <1>2
<1> QED
  BY <1>1, <1>3, SubSeqProperties
-----------------------------------------------------------------------------
(* What the parser makes of a text, and what a command makes of a layout.   *)

LEMMA TextIs ==
  ASSUME NEW text \in Texts
  PROVE  /\ text.blocks \in Seq(Blocks) /\ text.parses \in BOOLEAN /\ text.open \in BOOLEAN
         /\ text # NoFile
         /\ Len(text.blocks) \in Nat /\ DOMAIN text.blocks = 1..Len(text.blocks)
         /\ \A i \in 1..Len(text.blocks) : text.blocks[i] \in Blocks
<1>1. /\ text.blocks \in Seq(Blocks) /\ text.parses \in BOOLEAN /\ text.open \in BOOLEAN
      /\ text # NoFile
  BY UpstreamAssumption DEF Texts
<1> QED
  BY <1>1, ElementsIn

LEMMA SourceIs ==
  ASSUME NEW text \in Texts, NEW i \in 1..Len(text.blocks), NEW from \in 1..(Len(text.blocks) + 1)
  PROVE  /\ Source(text, i, from) \subseteq 1..Len(text.blocks)
         /\ \A j \in Source(text, i, from) :
              /\ from <= j /\ text.blocks[j].name = text.blocks[i].name
              /\ text.blocks[j].plain
         /\ Source(text, i, from) # {} => Min(Source(text, i, from)) \in Source(text, i, from)
<1>1. Len(text.blocks) \in Nat
  BY TextIs
<1>2. Source(text, i, from) \subseteq 1..Len(text.blocks)
  BY <1>1 DEF Source
<1>3. \A j \in Source(text, i, from) :
              /\ from <= j /\ text.blocks[j].name = text.blocks[i].name
              /\ text.blocks[j].plain
  BY <1>1 DEF Source
<1>4. Source(text, i, from) \in SUBSET Nat
  BY <1>1, <1>2
<1> QED
  BY <1>2, <1>3, <1>4, MinIs

\* The search goes on at 1, and after a block where its source ends.
After(text, i, from) ==
  LET found == Source(text, i, from)
  IN IF Seen(text, i) /\ found # {} THEN Min(found) + 1 ELSE from

LEMMA OffsetsAre ==
  ASSUME NEW text \in Texts
  PROVE  /\ Offsets(text) \in [0..Len(text.blocks) -> 1..(Len(text.blocks) + 1)]
         /\ Offsets(text)[0] = 1
         /\ \A i \in 1..Len(text.blocks) :
              Offsets(text)[i] = After(text, i, Offsets(text)[i - 1])
<1> DEFINE n == Len(text.blocks)
           Is(g, m) == g = [i \in 0..m |-> IF i = 0 THEN 1 ELSE After(text, i, g[i - 1])]
           Up(m) == \E g \in [0..m -> 1..(n + 1)] : Is(g, m)
<1>0. n \in Nat
  BY TextIs
<1>1. Up(0)
  <2> DEFINE e == [i \in 0..0 |-> 1]
  <2>1. e \in [0..0 -> 1..(n + 1)]
    BY <1>0
  <2>2. Is(e, 0)
    OBVIOUS
  <2> QED
    BY <2>1, <2>2
<1>2. ASSUME NEW m \in Nat, m + 1 <= n, Up(m)
      PROVE  Up(m + 1)
  <2>1. PICK g \in [0..m -> 1..(n + 1)] : Is(g, m)
    BY <1>2
  <2> DEFINE h == [i \in 0..(m + 1) |-> IF i = m + 1 THEN After(text, m + 1, g[m]) ELSE g[i]]
  <2>2. g[m] \in 1..(n + 1) /\ m + 1 \in 1..n
    BY <1>0, <1>2
  <2>3. After(text, m + 1, g[m]) \in 1..(n + 1)
    <3>1. Source(text, m + 1, g[m]) # {} => Min(Source(text, m + 1, g[m])) \in 1..n
      BY <2>2, SourceIs
    <3> QED
      BY <1>0, <2>2, <3>1 DEF After
  <2>4. h \in [0..(m + 1) -> 1..(n + 1)]
    BY <2>3
  <2>5. ASSUME NEW i \in 0..(m + 1)
        PROVE  h[i] = IF i = 0 THEN 1 ELSE After(text, i, h[i - 1])
    <3>1. CASE i = m + 1
      <4>1. h[i] = After(text, m + 1, g[m]) /\ h[i - 1] = g[m] /\ i # 0
        BY <3>1
      <4> QED
        BY <3>1, <4>1
    <3>2. CASE i # m + 1
      <4>1. i \in 0..m /\ h[i] = g[i] /\ (i # 0 => h[i - 1] = g[i - 1])
        BY <3>2
      <4>2. g[i] = IF i = 0 THEN 1 ELSE After(text, i, g[i - 1])
        BY <2>1, <4>1
      <4> QED
        BY <4>1, <4>2
    <3> QED
      BY <3>1, <3>2
  <2>6. Is(h, m + 1)
    BY <2>5, Zenon
  <2> QED
    BY <2>4, <2>6
<1>3. Up(n)
  <2> HIDE DEF Up
  <2> DEFINE T == {m \in Nat : m <= n => Up(m)}
  <2>1. 0 \in T
    BY <1>1
  <2>2. \A m \in Nat : m \in T => m + 1 \in T
    BY <1>2
  <2>3. n \in T
    BY <1>0, <2>1, <2>2, SetInduction
  <2> QED
    BY <2>3
<1> DEFINE c == CHOOSE g : Is(g, n)
<1>4. Is(c, n)
  <2> HIDE DEF Is
  <2> QED
    BY <1>3
<1>5. Offsets(text) = c
  BY Zenon DEF Offsets, After
<1> HIDE DEF c
<1>6. \A i \in 0..n : c[i] = IF i = 0 THEN 1 ELSE After(text, i, c[i - 1])
  BY <1>4
<1>7. c[0] = 1 /\ \A i \in 1..n : c[i] = After(text, i, c[i - 1])
  <2>1. 0 \in 0..n /\ \A i \in 1..n : i \in 0..n /\ i # 0
    BY <1>0
  <2> QED
    BY <1>6, <2>1
<1>8. \A i \in 0..n : c[i] \in 1..(n + 1)
  <2> DEFINE T == {m \in Nat : m <= n => c[m] \in 1..(n + 1)}
  <2>1. 0 \in T
    BY <1>0, <1>7
  <2>2. ASSUME NEW m \in Nat, m \in T PROVE m + 1 \in T
    <3> SUFFICES ASSUME m + 1 <= n PROVE c[m + 1] \in 1..(n + 1)
      OBVIOUS
    <3>1. m + 1 \in 1..n /\ (m + 1) - 1 = m /\ c[m] \in 1..(n + 1)
      BY <1>0, <2>2
    <3>2. c[m + 1] = After(text, m + 1, c[m])
      BY <1>7, <3>1
    <3>3. Source(text, m + 1, c[m]) # {} => Min(Source(text, m + 1, c[m])) \in 1..n
      BY <3>1, SourceIs
    <3> QED
      BY <1>0, <3>1, <3>2, <3>3 DEF After
  <2> HIDE DEF T
  <2>3. Nat \subseteq T
    BY <2>1, <2>2, SetInduction
  <2> QED
    BY <1>0, <2>3 DEF T
<1>9. c \in [0..n -> 1..(n + 1)]
  BY <1>4, <1>8
<1> QED
  BY <1>5, <1>7, <1>9

Parsed == [name : STRING, raw : Seq(Blocks)]

\* What a block's raw source is: nothing, or a live block of its name.
LEMMA RawIs ==
  ASSUME NEW text \in Texts, NEW i \in 1..Len(text.blocks)
  PROVE  \/ Raw(text, i) = <<>>
         \/ \E b \in Blocks : /\ Raw(text, i) = <<b>> /\ b.kind = "live"
                              /\ b.name = text.blocks[i].name
<1> DEFINE from == Offsets(text)[i - 1]
           found == Source(text, i, from)
<1>0. Len(text.blocks) \in Nat /\ \A j \in 1..Len(text.blocks) : text.blocks[j] \in Blocks
  BY TextIs
<1>1. from \in 1..(Len(text.blocks) + 1)
  <2>1. i - 1 \in 0..Len(text.blocks)
    BY <1>0
  <2>2. Offsets(text) \in [0..Len(text.blocks) -> 1..(Len(text.blocks) + 1)]
    BY OffsetsAre
  <2> QED
    BY <2>1, <2>2
<1>2. CASE found = {}
  BY <1>2 DEF Raw
<1>3. CASE found # {}
  <2>1. PICK j : j = Min(found)
    OBVIOUS
  <2>2. /\ j \in 1..Len(text.blocks) /\ text.blocks[j].name = text.blocks[i].name
    BY <1>1, <1>3, <2>1, SourceIs
  <2> DEFINE b == [text.blocks[j] EXCEPT !.kind = "live"]
  <2>3. Raw(text, i) = <<b>>
    BY <1>3, <2>1, Zenon DEF Raw
  <2>4. b \in Blocks /\ b.kind = "live" /\ b.name = text.blocks[j].name
    BY <1>0, <2>2 DEF Blocks
  <2> QED
    BY <2>2, <2>3, <2>4
<1> QED
  BY <1>2, <1>3

\* What is parsed of a text: a variant for every block that is seen.
LEMMA ParseIs ==
  ASSUME NEW text \in Texts \union {NoFile}
  PROVE  /\ Parse(text) \in Seq(Parsed)
         /\ \A u : In(u, Parse(text)) <=>
              /\ text # NoFile /\ text.parses
              /\ \E i \in 1..Len(text.blocks) :
                   /\ Seen(text, i)
                   /\ u = [name |-> text.blocks[i].name, raw |-> Raw(text, i)]
<1>0. <<>> \in Seq(Parsed) /\ \A u : ~In(u, <<>>)
  BY DEF In
<1>1. CASE text = NoFile \/ ~text.parses
  <2>1. Parse(text) = <<>>
    BY <1>1 DEF Parse
  <2> QED
    BY <1>0, <1>1, <2>1
<1>2. CASE ~(text = NoFile \/ ~text.parses)
  <2> DEFINE n == Len(text.blocks)
             V(i) == [name |-> text.blocks[i].name, raw |-> Raw(text, i)]
             ss == [i \in 1..n |-> IF ~Seen(text, i) THEN <<>> ELSE <<V(i)>>]
  <2>1. text \in Texts
    BY <1>2
  <2>2. n \in Nat /\ DOMAIN text.blocks = 1..n /\ \A i \in 1..n : text.blocks[i] \in Blocks
    BY <2>1, TextIs
  <2>3. Parse(text) = FlattenSeq(ss)
    BY <1>2, <2>2 DEF Parse
  <2>4. ASSUME NEW i \in 1..n PROVE V(i) \in Parsed
    <3>1. Raw(text, i) \in Seq(Blocks)
      BY <2>1, RawIs, EmptyAndOne
    <3>2. text.blocks[i].name \in STRING
      BY <2>2 DEF Blocks
    <3> QED
      BY <3>1, <3>2 DEF Parsed
  <2> HIDE DEF V
  <2>5. \A i \in 1..n : ss[i] \in Seq(Parsed)
    BY <2>4, EmptyAndOne
  <2>6. ss \in Seq(Seq(Parsed)) /\ Len(ss) = n
    <3>1. ss \in [1..n -> Seq(Parsed)]
      BY <2>5
    <3> HIDE DEF ss
    <3> QED
      BY <2>2, <3>1, FnSeq
  <2>a. \A i \in 1..n : ss[i] = IF ~Seen(text, i) THEN <<>> ELSE <<V(i)>>
    OBVIOUS
  <2> HIDE DEF ss
  <2>7. \A i \in 1..n : \A u : In(u, ss[i]) <=> Seen(text, i) /\ u = V(i)
    <3> SUFFICES ASSUME NEW i \in 1..n, NEW u
                 PROVE  In(u, ss[i]) <=> Seen(text, i) /\ u = V(i)
      OBVIOUS
    <3>1. CASE Seen(text, i)
      <4>1. ss[i] = <<V(i)>>
        BY <2>a, <3>1
      <4> QED
        BY <3>1, <4>1, InShort
    <3>2. CASE ~Seen(text, i)
      <4>1. ss[i] = <<>>
        BY <2>a, <3>2
      <4> QED
        BY <3>2, <4>1, InShort
    <3> QED
      BY <3>1, <3>2
  <2>8. FlattenSeq(ss) \in Seq(Parsed)
    BY <2>6, FlattenType
  <2>9. \A u : In(u, FlattenSeq(ss)) <=> \E i \in 1..n : In(u, ss[i])
    BY <2>6, FlattenIn
  <2>10. \A u : In(u, FlattenSeq(ss)) <=> \E i \in 1..n : Seen(text, i) /\ u = V(i)
    BY <2>7, <2>9
  <2> QED
    BY <1>2, <2>3, <2>8, <2>10 DEF V
<1> QED
  BY <1>1, <1>2

\* The names dropin-check compares are those of the blocks seen.
LEMMA VariantNamesAre ==
  ASSUME NEW text \in Texts, text.parses
  PROVE  VariantNames(text) =
           {text.blocks[i].name : i \in {j \in 1..Len(text.blocks) : Seen(text, j)}}
<1>1. /\ Parse(text) \in Seq(Parsed)
      /\ \A u : In(u, Parse(text)) <=>
              \E i \in 1..Len(text.blocks) :
                   /\ Seen(text, i)
                   /\ u = [name |-> text.blocks[i].name, raw |-> Raw(text, i)]
  BY ParseIs, TextIs
<1>2. \A u : u \in ToSet(Parse(text)) <=> In(u, Parse(text))
  BY <1>1, ToSetIs
<1> DEFINE V(i) == [name |-> text.blocks[i].name, raw |-> Raw(text, i)]
           at == {j \in 1..Len(text.blocks) : Seen(text, j)}
<1>3. \A i : V(i).name = text.blocks[i].name
  OBVIOUS
<1>4. \A u : u \in ToSet(Parse(text)) <=> \E i \in at : u = V(i)
  BY <1>1, <1>2
<1>5. VariantNames(text) = {v.name : v \in ToSet(Parse(text))}
  BY DEF VariantNames
<1> HIDE DEF V
<1>6. {v.name : v \in ToSet(Parse(text))} = {text.blocks[i].name : i \in at}
  BY <1>3, <1>4
<1> QED
  BY <1>5, <1>6

LEMMA SeenIs ==
  /\ \A text, i : text.blocks[i].kind = "live" => Seen(text, i)
  /\ \A text, i : ~text.open => (Seen(text, i) <=> text.blocks[i].kind = "live")
BY DEF Seen

\* In a text that is not open these are the live ones.
LEMMA LiveNamesAre ==
  ASSUME NEW text \in Texts, text.parses
  PROVE  LET names == {text.blocks[i].name :
                         i \in {j \in 1..Len(text.blocks) : text.blocks[j].kind = "live"}}
         IN /\ names \subseteq VariantNames(text)
            /\ ~text.open => VariantNames(text) = names
BY VariantNamesAre, SeenIs

LiveAs(name) == {b \in Blocks : b.kind = "live" /\ b.name = name}

\* The one live block under a name, or none.
LEMMA LiveIs ==
  ASSUME NEW text \in Texts, NEW name
  PROVE  /\ \A b : Once(text.blocks, LiveAs(name), b) => Live(text, name) = <<b>>
         /\ ~Never(text.blocks, LiveAs(name)) => Live(text, name) # <<>>
<1> DEFINE n == Len(text.blocks)
           named == LiveAs(name)
           ss == [i \in 1..n |-> IF text.blocks[i].kind = "live" /\ text.blocks[i].name = name
                                 THEN <<text.blocks[i]>> ELSE <<>>]
<1>1. /\ n \in Nat /\ DOMAIN text.blocks = 1..n /\ text # NoFile
      /\ \A i \in 1..n : text.blocks[i] \in Blocks
  BY TextIs
<1>2. Live(text, name) = FlattenSeq(ss)
  BY <1>1 DEF Live
<1>3. ss \in Seq(Seq(Blocks)) /\ Len(ss) = n
  <2>1. \A i \in 1..n : ss[i] \in Seq(Blocks)
    BY <1>1, EmptyAndOne
  <2> QED
    BY <1>1, <2>1, FnSeq
<1>4. \A i \in 1..n : ss[i] = IF text.blocks[i] \in named THEN <<text.blocks[i]>> ELSE <<>>
  BY <1>1 DEF LiveAs
<1> HIDE DEF ss, named
<1>5. ASSUME NEW b, Once(text.blocks, named, b) PROVE FlattenSeq(ss) = <<b>>
  <2>1. PICK k \in 1..n : text.blocks[k] = b /\ \A i \in 1..n : text.blocks[i] \in named => i = k
    BY <1>5 DEF Once
  <2>2. ss[k] = <<b>> /\ \A i \in 1..n : i # k => ss[i] = <<>>
    BY <1>4, <1>5, <2>1 DEF Once
  <2> QED
    BY <1>3, <2>2, FlattenOne
<1>6. ASSUME ~Never(text.blocks, named) PROVE FlattenSeq(ss) # <<>>
  <2>1. PICK k \in 1..n : text.blocks[k] \in named
    BY <1>6 DEF Never
  <2>2. ss[k] = <<text.blocks[k]>>
    BY <1>4, <2>1
  <2>3. In(text.blocks[k], ss[k])
    BY <2>2 DEF In
  <2>4. In(text.blocks[k], FlattenSeq(ss))
    BY <1>3, <2>3, FlattenIn
  <2> QED
    BY <2>4 DEF In
<1> QED
  BY <1>2, <1>5, <1>6 DEF named

LEMMA LayoutIs ==
  ASSUME NEW l \in Layouts
  PROVE  /\ l.file \in Files /\ l.variants \in Seq(Variants)
         /\ Len(l.variants) \in Nat /\ DOMAIN l.variants = 1..Len(l.variants)
         /\ \A i \in 1..Len(l.variants) :
              /\ l.variants[i] \in Variants /\ l.variants[i].name \in STRING
              /\ l.variants[i] \in ToSet(l.variants)
         /\ \A v \in ToSet(l.variants) : v \in Variants /\ v.name \in STRING
                                         /\ \E i \in 1..Len(l.variants) : l.variants[i] = v
<1>1. l.file \in Files /\ l.variants \in Seq(Variants)
  BY DEF Layouts
<1>2. /\ Len(l.variants) \in Nat /\ DOMAIN l.variants = 1..Len(l.variants)
      /\ \A i \in 1..Len(l.variants) : l.variants[i] \in Variants
  BY <1>1, ElementsIn
<1>3. \A v \in Variants : v.name \in STRING
  BY DEF Variants
<1>4. \A v : v \in ToSet(l.variants) <=> In(v, l.variants)
  BY <1>1, ToSetIs
<1>5. \A v \in ToSet(l.variants) : \E i \in 1..Len(l.variants) : l.variants[i] = v
  BY <1>4 DEF In
<1>6. \A i \in 1..Len(l.variants) : l.variants[i] \in ToSet(l.variants)
  BY <1>4 DEF In
<1> QED
  BY <1>1, <1>2, <1>3, <1>5, <1>6

LEMMA BlockIs ==
  ASSUME NEW name \in STRING
  PROVE  Block(name, "ours") \in LiveAs(name) /\ Block(name, "ours") \in Blocks
BY DEF Block, Blocks, LiveAs

LEMMA OneIs ==
  ASSUME NEW T, NEW x
  PROVE  /\ x \in T => Once(<<x>>, T, x)
         /\ x \notin T => Never(<<x>>, T)
         /\ Never(<<>>, T)
         /\ \A s : Once(s, T, x) => ~Never(s, T) /\ In(x, s)
<1>1. Len(<<x>>) = 1 /\ <<x>>[1] = x /\ 1..1 = {1}
  OBVIOUS
<1>2. Len(<<>>) = 0 /\ 1..0 = {}
  OBVIOUS
<1>3. x \in T => Once(<<x>>, T, x)
  BY <1>1 DEF Once
<1>4. x \notin T => Never(<<x>>, T)
  BY <1>1 DEF Never
<1>5. Never(<<>>, T)
  BY <1>2 DEF Never
<1>6. \A s : Once(s, T, x) => ~Never(s, T) /\ In(x, s)
  BY DEF Once, Never, In
<1> QED
  BY <1>3, <1>4, <1>5, <1>6

\* The blocks flexkb composes of a layout.
LEMMA ComposedIs ==
  ASSUME NEW l \in Layouts
  PROVE  /\ Composed(l) \in Seq(Blocks)
         /\ \A name : (\A v \in Named(l, name) : v.passthrough)
              => Never(Composed(l), LiveAs(name))
         /\ \A v \in ToSet(l.variants) : ~v.passthrough =>
              /\ In(Block(v.name, "ours"), Composed(l))
              /\ OneOfEach(l) => Once(Composed(l), LiveAs(v.name), Block(v.name, "ours"))
<1> DEFINE n == Len(l.variants)
           vs == l.variants
           ss == [i \in 1..n |-> IF vs[i].passthrough THEN <<>> ELSE <<Block(vs[i].name, "ours")>>]
<1>0. n \in Nat /\ DOMAIN vs = 1..n /\ \A i \in 1..n : vs[i] \in Variants /\ vs[i].name \in STRING
  BY LayoutIs
<1>1. Composed(l) = FlattenSeq(ss)
  BY <1>0 DEF Composed
<1>2. \A i \in 1..n : Block(vs[i].name, "ours") \in LiveAs(vs[i].name) /\ Block(vs[i].name, "ours") \in Blocks
  BY <1>0, BlockIs
<1>3. ss \in Seq(Seq(Blocks)) /\ Len(ss) = n
  <2>1. \A i \in 1..n : ss[i] \in Seq(Blocks)
    BY <1>2, EmptyAndOne
  <2>2. ss \in [1..n -> Seq(Blocks)]
    BY <2>1
  <2> HIDE DEF ss
  <2> QED
    BY <1>0, <2>2, FnSeq
<1>4. \A i \in 1..n : ss[i] = IF vs[i].passthrough THEN <<>> ELSE <<Block(vs[i].name, "ours")>>
  OBVIOUS
<1> HIDE DEF ss
<1>5. FlattenSeq(ss) \in Seq(Blocks)
  BY <1>3, FlattenType
<1>6. ASSUME NEW i \in 1..n, NEW name, name # vs[i].name \/ vs[i].passthrough
      PROVE  Never(ss[i], LiveAs(name))
  <2>1. CASE vs[i].passthrough
    BY <1>4, <2>1, OneIs
  <2>2. CASE ~vs[i].passthrough
    <3>1. Block(vs[i].name, "ours") \notin LiveAs(name)
      BY <1>2, <1>6, <2>2 DEF LiveAs
    <3>2. ss[i] = <<Block(vs[i].name, "ours")>>
      BY <1>4, <2>2
    <3> QED
      BY <3>1, <3>2, OneIs
  <2> QED
    BY <2>1, <2>2
<1>7. ASSUME NEW name, \A v \in Named(l, name) : v.passthrough
      PROVE  Never(FlattenSeq(ss), LiveAs(name))
  <2>1. \A i \in 1..n : name # vs[i].name \/ vs[i].passthrough
    BY <1>7, LayoutIs DEF Named
  <2>2. \A i \in 1..Len(ss) : Never(ss[i], LiveAs(name))
    BY <1>3, <1>6, <2>1
  <2> QED
    BY <1>3, <2>2, FlattenNever
<1>8. ASSUME NEW v \in ToSet(l.variants), ~v.passthrough
      PROVE  /\ In(Block(v.name, "ours"), FlattenSeq(ss))
             /\ OneOfEach(l) => Once(FlattenSeq(ss), LiveAs(v.name), Block(v.name, "ours"))
  <2>1. PICK k \in 1..n : vs[k] = v
    BY LayoutIs
  <2>2. ss[k] = <<Block(v.name, "ours")>>
    BY <1>4, <1>8, <2>1
  <2>3. In(Block(v.name, "ours"), ss[k])
    BY <2>2, InShort
  <2>4. In(Block(v.name, "ours"), FlattenSeq(ss))
    BY <1>3, <2>3, FlattenIn
  <2>5. ASSUME OneOfEach(l)
        PROVE  Once(FlattenSeq(ss), LiveAs(v.name), Block(v.name, "ours"))
    <3>1. Once(ss[k], LiveAs(v.name), Block(v.name, "ours"))
      BY <1>2, <2>1, <2>2, OneIs
    <3>2. \A i \in 1..Len(ss) : i # k => Never(ss[i], LiveAs(v.name))
      BY <1>0, <1>3, <1>6, <2>1, <2>5 DEF OneOfEach
    <3> QED
      BY <1>3, <3>1, <3>2, FlattenOnce
  <2> QED
    BY <2>4, <2>5
<1> QED
  BY <1>1, <1>5, <1>7, <1>8

ParsedAs(name) == {u \in Parsed : u.name = name}

\* A variant's raw source is nothing or one live block of its name.
Sourced(up) ==
  /\ up \in Seq(Parsed)
  /\ \A j \in 1..Len(up) : up[j].raw = <<>> \/ \E b \in LiveAs(up[j].name) : up[j].raw = <<b>>

LEMMA SourcedRaw ==
  ASSUME NEW up, Sourced(up), NEW j \in 1..Len(up)
  PROVE  /\ up[j].raw \in Seq(Blocks) /\ up[j] \in ParsedAs(up[j].name)
         /\ \A name : name # up[j].name => Never(up[j].raw, LiveAs(name))
<1>1. up[j] \in Parsed
  BY ElementsIn DEF Sourced
<1>2. up[j].raw \in Seq(Blocks) /\ up[j] \in ParsedAs(up[j].name)
  BY <1>1 DEF Parsed, ParsedAs
<1>3. ASSUME NEW name, name # up[j].name PROVE Never(up[j].raw, LiveAs(name))
  <2>1. CASE up[j].raw = <<>>
    BY <2>1, OneIs
  <2>2. ASSUME NEW b \in LiveAs(up[j].name), up[j].raw = <<b>>
        PROVE  Never(up[j].raw, LiveAs(name))
    <3>1. b \notin LiveAs(name)
      BY <1>3 DEF LiveAs
    <3> QED
      BY <2>2, <3>1, OneIs
  <2> QED
    BY <2>1, <2>2 DEF Sourced
<1> QED
  BY <1>2, <1>3

\* The raw sources of the variants marked passthrough.
LEMMA PassthroughsAre ==
  ASSUME NEW l \in Layouts, NEW up, Sourced(up)
  PROVE  /\ Passthroughs(l, up) \in Seq(Blocks)
         /\ \A name : (\A v \in Named(l, name) : ~v.passthrough)
              => Never(Passthroughs(l, up), LiveAs(name))
         /\ \A v \in ToSet(l.variants) : \A u, b :
              v.passthrough /\ Once(up, ParsedAs(v.name), u) /\ u.raw = <<b>> /\ b \in LiveAs(v.name) =>
                /\ In(b, Passthroughs(l, up))
                /\ OneOfEach(l) => Once(Passthroughs(l, up), LiveAs(v.name), b)
<1> DEFINE n == Len(l.variants)
           vs == l.variants
           from(v) == {j \in DOMAIN up : up[j].name = v.name}
           raw(v) == IF v.passthrough /\ from(v) # {} THEN up[Max(from(v))].raw ELSE <<>>
           ss == [i \in 1..n |-> raw(vs[i])]
<1>0. n \in Nat /\ DOMAIN vs = 1..n /\ \A i \in 1..n : vs[i] \in Variants /\ vs[i].name \in STRING
  BY LayoutIs
<1>1. Passthroughs(l, up) = FlattenSeq(ss)
  BY <1>0 DEF Passthroughs
<1>2. Len(up) \in Nat /\ DOMAIN up = 1..Len(up) /\ \A j \in 1..Len(up) : up[j] \in Parsed
  BY ElementsIn DEF Sourced
<1>3. ASSUME NEW v, from(v) # {}
      PROVE  Max(from(v)) \in 1..Len(up) /\ up[Max(from(v))].name = v.name
  <2>1. from(v) \in SUBSET (1..Len(up))
    BY <1>2
  <2>2. Max(from(v)) \in from(v)
    BY <1>2, <1>3, <2>1, MaxIs
  <2> QED
    BY <1>2, <2>2
<1>4. ASSUME NEW v
      PROVE  /\ raw(v) \in Seq(Blocks)
             /\ \A name : name # v.name \/ ~v.passthrough => Never(raw(v), LiveAs(name))
  <2> HIDE DEF from
  <2>1. CASE v.passthrough /\ from(v) # {}
    <3>1. PICK j : j = Max(from(v))
      OBVIOUS
    <3>2. raw(v) = up[j].raw /\ j \in 1..Len(up) /\ up[j].name = v.name
      BY <1>3, <2>1, <3>1
    <3> QED
      BY <2>1, <3>2, SourcedRaw
  <2>2. CASE ~(v.passthrough /\ from(v) # {})
    BY <2>2, OneIs, EmptyAndOne
  <2> QED
    BY <2>1, <2>2
<1> HIDE DEF raw
<1>5. ss \in Seq(Seq(Blocks)) /\ Len(ss) = n
  <2>1. ss \in [1..n -> Seq(Blocks)]
    BY <1>4
  <2> HIDE DEF ss
  <2> QED
    BY <1>0, <2>1, FnSeq
<1>6. \A i \in 1..n : ss[i] = raw(vs[i])
  OBVIOUS
<1> HIDE DEF ss
<1>7. FlattenSeq(ss) \in Seq(Blocks)
  BY <1>5, FlattenType
<1>8. ASSUME NEW name, \A v \in Named(l, name) : ~v.passthrough
      PROVE  Never(FlattenSeq(ss), LiveAs(name))
  <2>1. \A i \in 1..n : name # vs[i].name \/ ~vs[i].passthrough
    BY <1>8, LayoutIs DEF Named
  <2>2. \A i \in 1..Len(ss) : Never(ss[i], LiveAs(name))
    BY <1>4, <1>5, <1>6, <2>1
  <2> QED
    BY <1>5, <2>2, FlattenNever
<1>9. ASSUME NEW v \in ToSet(l.variants), NEW u, NEW b, v.passthrough,
             Once(up, ParsedAs(v.name), u), u.raw = <<b>>, b \in LiveAs(v.name)
      PROVE  /\ In(b, FlattenSeq(ss))
             /\ OneOfEach(l) => Once(FlattenSeq(ss), LiveAs(v.name), b)
  <2>1. PICK k \in 1..n : vs[k] = v
    BY LayoutIs
  <2>2. PICK j \in 1..Len(up) : up[j] = u /\ \A i \in 1..Len(up) : up[i] \in ParsedAs(v.name) => i = j
    BY <1>9 DEF Once
  <2>3. u.name = v.name
    BY <1>9 DEF Once, ParsedAs
  <2>4. from(v) = {j}
    <3>1. \A i \in 1..Len(up) : up[i].name = v.name => up[i] \in ParsedAs(v.name)
      BY <1>2 DEF ParsedAs
    <3> QED
      BY <1>2, <2>2, <2>3, <3>1
  <2>5. raw(v) = <<b>>
    <3>1. from(v) # {} /\ Max(from(v)) = j
      <4>1. {j} \in SUBSET (1..Len(up)) /\ {j} # {}
        OBVIOUS
      <4>2. Max({j}) \in {j}
        BY <1>2, <4>1, MaxIs
      <4> QED
        BY <2>4, <4>2
    <3> HIDE DEF from
    <3> QED
      BY <1>9, <2>2, <3>1 DEF raw
  <2>6. ss[k] = <<b>>
    BY <1>6, <2>1, <2>5
  <2>7. In(b, FlattenSeq(ss))
    BY <1>5, <2>6, InShort, FlattenIn
  <2>8. ASSUME OneOfEach(l)
        PROVE  Once(FlattenSeq(ss), LiveAs(v.name), b)
    <3>1. Once(ss[k], LiveAs(v.name), b)
      BY <1>9, <2>6, OneIs
    <3>2. \A i \in 1..n : i # k => vs[i].name # v.name
      BY <1>0, <2>1, <2>8 DEF OneOfEach
    <3>3. \A i \in 1..Len(ss) : i # k => Never(ss[i], LiveAs(v.name))
      BY <1>4, <1>5, <1>6, <3>2
    <3> QED
      BY <1>5, <3>1, <3>3, FlattenOnce
  <2> QED
    BY <2>7, <2>8
<1> QED
  BY <1>1, <1>7, <1>8, <1>9

\* The raw sources of the variants the layout does not name.
LEMMA ImplicitIs ==
  ASSUME NEW l \in Layouts, NEW up, Sourced(up)
  PROVE  /\ Implicit(l, up) \in Seq(Blocks)
         /\ \A name : Named(l, name) # {} => Never(Implicit(l, up), LiveAs(name))
         /\ \A name, u, b :
              Named(l, name) = {} /\ Once(up, ParsedAs(name), u) /\ u.raw = <<b>> /\ b \in LiveAs(name)
                => Once(Implicit(l, up), LiveAs(name), b)
<1> DEFINE n == Len(up)
           ss == [i \in 1..n |-> IF Named(l, up[i].name) = {} THEN up[i].raw ELSE <<>>]
<1>0. n \in Nat /\ DOMAIN up = 1..n /\ \A j \in 1..n : up[j] \in Parsed
  BY ElementsIn DEF Sourced
<1>1. Implicit(l, up) = FlattenSeq(ss)
  BY <1>0 DEF Implicit
<1>2. ss \in Seq(Seq(Blocks)) /\ Len(ss) = n
  <2>1. \A i \in 1..n : ss[i] \in Seq(Blocks)
    BY SourcedRaw, EmptyAndOne
  <2>2. ss \in [1..n -> Seq(Blocks)]
    BY <2>1
  <2> HIDE DEF ss
  <2> QED
    BY <1>0, <2>2, FnSeq
<1>3. \A i \in 1..n : ss[i] = IF Named(l, up[i].name) = {} THEN up[i].raw ELSE <<>>
  OBVIOUS
<1> HIDE DEF ss
<1>4. FlattenSeq(ss) \in Seq(Blocks)
  BY <1>2, FlattenType
<1>5. ASSUME NEW i \in 1..n, NEW name, name # up[i].name \/ Named(l, up[i].name) # {}
      PROVE  Never(ss[i], LiveAs(name))
  BY <1>3, <1>5, SourcedRaw, OneIs
<1>6. ASSUME NEW name, Named(l, name) # {}
      PROVE  Never(FlattenSeq(ss), LiveAs(name))
  <2>1. \A i \in 1..Len(ss) : Never(ss[i], LiveAs(name))
    BY <1>2, <1>5, <1>6
  <2> QED
    BY <1>2, <2>1, FlattenNever
<1>7. ASSUME NEW name, NEW u, NEW b, Named(l, name) = {}, Once(up, ParsedAs(name), u),
             u.raw = <<b>>, b \in LiveAs(name)
      PROVE  Once(FlattenSeq(ss), LiveAs(name), b)
  <2>1. PICK j \in 1..n : up[j] = u /\ \A i \in 1..n : up[i] \in ParsedAs(name) => i = j
    BY <1>7 DEF Once
  <2>2. u.name = name
    BY <1>7 DEF Once, ParsedAs
  <2>3. ss[j] = <<b>>
    BY <1>3, <1>7, <2>1, <2>2
  <2>4. Once(ss[j], LiveAs(name), b)
    BY <1>7, <2>3, OneIs
  <2>5. \A i \in 1..n : i # j => up[i].name # name
    BY <1>0, <2>1 DEF ParsedAs
  <2>6. \A i \in 1..Len(ss) : i # j => Never(ss[i], LiveAs(name))
    BY <1>2, <1>5, <2>5
  <2> QED
    BY <1>2, <2>4, <2>6, FlattenOnce
<1> QED
  BY <1>1, <1>4, <1>6, <1>7

\* A parsed text's raw sources.
LEMMA ParseSourced ==
  ASSUME NEW text \in Texts \union {NoFile}
  PROVE  Sourced(Parse(text)) /\ Sourced(<<>>)
<1>1. Parse(text) \in Seq(Parsed)
  BY ParseIs
<1>2. ASSUME NEW j \in 1..Len(Parse(text))
      PROVE  \/ Parse(text)[j].raw = <<>>
             \/ \E b \in LiveAs(Parse(text)[j].name) : Parse(text)[j].raw = <<b>>
  <2>1. PICK u : u = Parse(text)[j]
    OBVIOUS
  <2>2. In(u, Parse(text))
    BY <2>1 DEF In
  <2>3. PICK i \in 1..Len(text.blocks) :
          u = [name |-> text.blocks[i].name, raw |-> Raw(text, i)] /\ text \in Texts
    BY <2>2, ParseIs
  <2>4. u.name = text.blocks[i].name /\ u.raw = Raw(text, i)
    BY <2>3
  <2>5. u.raw = <<>> \/ \E b \in LiveAs(u.name) : u.raw = <<b>>
    BY <2>3, <2>4, RawIs DEF LiveAs
  <2> QED
    BY <2>1, <2>5
<1>3. Sourced(<<>>)
  BY DEF Sourced
<1> QED
  BY <1>1, <1>2, <1>3 DEF Sourced

\* Of a tidy text, each live block is parsed once, with itself for a source.
LEMMA TidyOffsets ==
  ASSUME NEW text \in Texts, Tidy(text), NEW i \in 1..Len(text.blocks)
  PROVE  Offsets(text)[i - 1] \in 1..i
<1> DEFINE n == Len(text.blocks)
           g == Offsets(text)
           T == {m \in Nat : m <= n => g[m] \in 1..(m + 1)}
<1>0. n \in Nat /\ DOMAIN text.blocks = 1..n
  BY TextIs
<1>1. g \in [0..n -> 1..(n + 1)] /\ g[0] = 1 /\ \A k \in 1..n : g[k] = After(text, k, g[k - 1])
  BY OffsetsAre
<1> HIDE DEF g
<1>2. 0 \in T
  BY <1>1
<1>3. ASSUME NEW m \in Nat, m \in T PROVE m + 1 \in T
  <2> SUFFICES ASSUME m + 1 <= n PROVE g[m + 1] \in 1..((m + 1) + 1)
    OBVIOUS
  <2>1. m + 1 \in 1..n /\ (m + 1) - 1 = m /\ g[m] \in 1..(m + 1) /\ g[m] \in 1..(n + 1)
    BY <1>0, <1>3
  <2>2. g[m + 1] = After(text, m + 1, g[m])
    BY <1>1, <2>1
  <2>3. PICK js : js = Source(text, m + 1, g[m])
    OBVIOUS
  <2>4. CASE js = {}
    BY <2>1, <2>2, <2>3, <2>4 DEF After
  <2>5. CASE js # {}
    <3>1. Min(js) \in 1..n /\ text.blocks[Min(js)].name = text.blocks[m + 1].name
      BY <2>1, <2>3, <2>5, SourceIs
    <3>2. Min(js) = m + 1
      BY <1>0, <2>1, <3>1 DEF Tidy
    <3> QED
      BY <2>1, <2>2, <2>3, <3>2 DEF After
  <2> QED
    BY <2>4, <2>5
<1> HIDE DEF T
<1>4. i - 1 \in T
  <2>1. i - 1 \in Nat
    BY <1>0
  <2> QED
    BY <1>2, <1>3, <2>1, SetInduction
<1>5. i - 1 <= n /\ (i - 1) + 1 = i
  BY <1>0
<1> QED
  BY <1>4, <1>5 DEF T, g

LEMMA TidyRaw ==
  ASSUME NEW text \in Texts, Tidy(text), NEW i \in 1..Len(text.blocks),
         text.blocks[i].kind = "live"
  PROVE  Raw(text, i) = <<text.blocks[i]>>
<1> DEFINE n == Len(text.blocks)
<1>0. n \in Nat /\ DOMAIN text.blocks = 1..n /\ \A k \in 1..n : text.blocks[k] \in Blocks
  BY TextIs
<1>1. PICK from : from = Offsets(text)[i - 1]
  OBVIOUS
<1>2. from \in 1..i
  BY <1>1, TidyOffsets
<1>3. Source(text, i, from) = {i}
  <2>1. i \in from..n /\ text.blocks[i].plain
    BY <1>0, <1>2 DEF Tidy
  <2>2. \A j \in from..n : text.blocks[j].name = text.blocks[i].name => j = i
    <3>1. \A j \in from..n : j \in 1..n
      BY <1>0, <1>2
    <3> QED
      BY <1>0, <3>1 DEF Tidy
  <2>3. {j \in from..n : text.blocks[j].name = text.blocks[i].name /\ text.blocks[j].plain} = {i}
    BY <2>1, <2>2
  <2>4. Source(text, i, from) = {j \in {i} : text.blocks[j].kind # "line" /\ \A k \in {i} : j <= k}
    BY <2>3, Zenon DEF Source
  <2> QED
    BY <2>4, <1>0
<1>4. Min({i}) = i
  <2>1. Min({i}) \in {i}
    BY <1>0, MinIs
  <2> QED
    BY <2>1
<1>5. [text.blocks[i] EXCEPT !.kind = "live"] = text.blocks[i]
  BY <1>0 DEF Blocks
<1>6. Source(text, i, Offsets(text)[i - 1]) = {i}
  BY <1>1, <1>3
<1>7. Raw(text, i) = <<[text.blocks[Min({i})] EXCEPT !.kind = "live"]>>
  BY <1>6 DEF Raw
<1> QED
  BY <1>4, <1>5, <1>7

LEMMA TidyParse ==
  ASSUME NEW text \in Texts, Tidy(text), NEW i \in 1..Len(text.blocks),
         text.blocks[i].kind = "live"
  PROVE  LET name == text.blocks[i].name
         IN /\ Once(Parse(text), ParsedAs(name), [name |-> name, raw |-> <<text.blocks[i]>>])
            /\ text.blocks[i] \in LiveAs(name)
<1> DEFINE n == Len(text.blocks)
           name == text.blocks[i].name
           V(k) == [name |-> text.blocks[k].name, raw |-> Raw(text, k)]
           ss == [k \in 1..n |-> IF ~Seen(text, k) THEN <<>> ELSE <<V(k)>>]
<1>0. n \in Nat /\ DOMAIN text.blocks = 1..n /\ \A k \in 1..n : text.blocks[k] \in Blocks
  BY TextIs
<1>1. Parse(text) = FlattenSeq(ss)
  BY <1>0, TextIs DEF Parse, Tidy
<1>2. \A k \in 1..n : V(k) \in ParsedAs(text.blocks[k].name)
  <2> SUFFICES ASSUME NEW k \in 1..n PROVE V(k) \in ParsedAs(text.blocks[k].name)
    OBVIOUS
  <2>1. Raw(text, k) \in Seq(Blocks)
    BY RawIs, EmptyAndOne
  <2>2. text.blocks[k].name \in STRING
    BY <1>0 DEF Blocks
  <2> QED
    BY <2>1, <2>2 DEF ParsedAs, Parsed
<1>3. V(i) = [name |-> name, raw |-> <<text.blocks[i]>>]
  BY TidyRaw
<1> HIDE DEF V
<1>4. ss \in Seq(Seq(Parsed)) /\ Len(ss) = n
  <2>1. \A k \in 1..n : ss[k] \in Seq(Parsed)
    BY <1>2, EmptyAndOne DEF ParsedAs
  <2>2. ss \in [1..n -> Seq(Parsed)]
    BY <2>1
  <2> HIDE DEF ss
  <2> QED
    BY <1>0, <2>2, FnSeq
<1>5. \A k \in 1..n : ss[k] = IF ~Seen(text, k) THEN <<>> ELSE <<V(k)>>
  OBVIOUS
<1> HIDE DEF ss
<1>6. Once(ss[i], ParsedAs(name), V(i))
  BY <1>2, <1>5, SeenIs, OneIs
<1>7. \A k \in 1..Len(ss) : k # i => Never(ss[k], ParsedAs(name))
  <2> SUFFICES ASSUME NEW k \in 1..n, k # i PROVE Never(ss[k], ParsedAs(name))
    BY <1>4
  <2>1. text.blocks[k].name # name
    BY <1>0 DEF Tidy
  <2>2. V(k) \notin ParsedAs(name)
    BY <1>2, <2>1 DEF ParsedAs
  <2> QED
    BY <1>5, <2>2, OneIs
<1>8. Once(FlattenSeq(ss), ParsedAs(name), V(i))
  BY <1>4, <1>6, <1>7, FlattenOnce
<1>9. text.blocks[i] \in LiveAs(name)
  BY <1>0 DEF LiveAs
<1> QED
  BY <1>1, <1>3, <1>8, <1>9

LEMMA ThreeIn ==
  ASSUME NEW S, NEW a \in Seq(S), NEW b \in Seq(S), NEW c \in Seq(S)
  PROVE  \A x : In(x, (a \o b) \o c) <=> In(x, a) \/ In(x, b) \/ In(x, c)
<1>1. a \o b \in Seq(S)
  BY ConcatProperties
<1>2. PICK d \in Seq(S) : d = a \o b
  BY <1>1
<1>3. \A x : In(x, d) <=> In(x, a) \/ In(x, b)
  BY <1>2, ConcatIn
<1>4. \A x : In(x, d \o c) <=> In(x, d) \/ In(x, c)
  BY ConcatIn
<1> QED
  BY <1>2, <1>3, <1>4

LEMMA ThreeOnce ==
  ASSUME NEW S, NEW a \in Seq(S), NEW b \in Seq(S), NEW c \in Seq(S), NEW T, NEW x,
         \/ Once(a, T, x) /\ Never(b, T) /\ Never(c, T)
         \/ Never(a, T) /\ Once(b, T, x) /\ Never(c, T)
         \/ Never(a, T) /\ Never(b, T) /\ Once(c, T, x)
  PROVE  Once((a \o b) \o c, T, x)
<1>1. PICK d : d = a \o b
  OBVIOUS
<1>2. d \in Seq(S)
  BY <1>1, ConcatProperties
<1>3. (Once(d, T, x) /\ Never(c, T)) \/ (Never(d, T) /\ Once(c, T, x))
  BY <1>1, ConcatOnce, ConcatNever
<1>4. Once(d \o c, T, x)
  BY <1>2, <1>3, ConcatOnce
<1> QED
  BY <1>1, <1>4

\* What a layout's file holds after generate or activate, and after build.
LEMMA GeneratedIs ==
  ASSUME NEW op, NEW l \in Layouts, upstream.symbols[l.file] \in Texts \union {NoFile}
  PROVE  /\ Generated(op, l) \in Texts /\ Generated(op, l).parses /\ ~Generated(op, l).open
         /\ OneOfEach(l) => \A v \in ToSet(l.variants) : ~v.passthrough =>
              Live(Generated(op, l), v.name) = <<Block(v.name, "ours")>>
         /\ LET up == upstream.symbols[l.file] IN
            op = "build" /\ up # NoFile /\ Tidy(up) =>
              \A i \in 1..Len(up.blocks) : up.blocks[i].kind = "live" =>
                /\ ~Never(Generated(op, l).blocks, LiveAs(up.blocks[i].name))
                /\ OneOfEach(l) =>
                     Live(Generated(op, l), up.blocks[i].name) =
                       <<IF \E v \in Named(l, up.blocks[i].name) : ~v.passthrough
                         THEN Block(up.blocks[i].name, "ours") ELSE up.blocks[i]>>
<1> DEFINE text == upstream.symbols[l.file]
           up == IF op = "build" THEN Parse(text) ELSE <<>>
           A == Composed(l)
           B == Passthroughs(l, up)
           C == Implicit(l, up)
           G == Generated(op, l)
<1>1. Sourced(up)
  BY ParseSourced
<1>2. G = Text(A \o B \o C)
  BY DEF Generated
<1>3. A \in Seq(Blocks) /\ B \in Seq(Blocks) /\ C \in Seq(Blocks)
  BY <1>1, ComposedIs, PassthroughsAre, ImplicitIs
<1>4. A \o B \in Seq(Blocks) /\ (A \o B) \o C \in Seq(Blocks)
  BY <1>3, ConcatProperties
<1>5. G \in Texts /\ G.parses /\ ~G.open /\ G.blocks = (A \o B) \o C
  BY <1>2, <1>4 DEF Text, Texts
<1> HIDE DEF A, B, C, G, up
<1>6. \A T, x :
        /\ Once(A, T, x) /\ Never(B, T) /\ Never(C, T) => Once(G.blocks, T, x)
        /\ Never(A, T) /\ Once(B, T, x) /\ Never(C, T) => Once(G.blocks, T, x)
        /\ Never(A, T) /\ Never(B, T) /\ Once(C, T, x) => Once(G.blocks, T, x)
  BY <1>3, <1>5, ThreeOnce
<1>7. \A x : In(x, G.blocks) <=> In(x, A) \/ In(x, B) \/ In(x, C)
  BY <1>3, <1>5, ThreeIn
<1>8. \A name : /\ \A b : Once(G.blocks, LiveAs(name), b) => Live(G, name) = <<b>>
  BY <1>5, LiveIs
<1>9. \A T : \A x \in T : In(x, G.blocks) => ~Never(G.blocks, T)
  BY DEF In, Never
<1>10. ASSUME OneOfEach(l), NEW v \in ToSet(l.variants), ~v.passthrough
       PROVE  Once(G.blocks, LiveAs(v.name), Block(v.name, "ours"))
  <2>1. v \in Named(l, v.name) /\ \A w \in Named(l, v.name) : w = v
    BY <1>10, LayoutIs DEF Named, OneOfEach
  <2>2. Once(A, LiveAs(v.name), Block(v.name, "ours"))
    BY <1>10, ComposedIs DEF A
  <2>3. Never(B, LiveAs(v.name))
    BY <1>1, <1>10, <2>1, PassthroughsAre DEF B
  <2>4. Never(C, LiveAs(v.name))
    BY <1>1, <2>1, ImplicitIs DEF C
  <2> QED
    BY <1>6, <2>2, <2>3, <2>4
<1>11. ASSUME op = "build", text # NoFile, Tidy(text), NEW i \in 1..Len(text.blocks),
              text.blocks[i].kind = "live"
       PROVE  /\ ~Never(G.blocks, LiveAs(text.blocks[i].name))
              /\ OneOfEach(l) =>
                   Live(G, text.blocks[i].name) =
                     <<IF \E v \in Named(l, text.blocks[i].name) : ~v.passthrough
                       THEN Block(text.blocks[i].name, "ours") ELSE text.blocks[i]>>
  <2> DEFINE name == text.blocks[i].name
             b == text.blocks[i]
             u == [name |-> name, raw |-> <<b>>]
  <2>1. Once(up, ParsedAs(name), u) /\ b \in LiveAs(name) /\ u.raw = <<b>>
    <3>1. text \in Texts
      BY <1>11
    <3> QED
      BY <1>11, <3>1, TidyParse DEF up
  <2>a. \A v \in Named(l, name) : v \in ToSet(l.variants) /\ v.name = name /\ v.name \in STRING
    BY LayoutIs DEF Named
  <2> HIDE DEF name, b, u
  <2>2. CASE Named(l, name) = {}
    <3>1. Once(C, LiveAs(name), b)
      BY <1>1, <2>1, <2>2, ImplicitIs DEF C
    <3>2. Never(A, LiveAs(name)) /\ Never(B, LiveAs(name))
      BY <1>1, <2>2, ComposedIs, PassthroughsAre DEF A, B
    <3>3. Once(G.blocks, LiveAs(name), b)
      BY <1>6, <3>1, <3>2
    <3>4. ~Never(G.blocks, LiveAs(name)) /\ Live(G, name) = <<b>>
      BY <1>8, <3>3, OneIs
    <3> QED
      BY <2>2, <3>4 DEF name, b
  <2>3. ASSUME NEW v \in Named(l, name), ~v.passthrough
        PROVE  /\ ~Never(G.blocks, LiveAs(name))
               /\ OneOfEach(l) => Live(G, name) = <<Block(name, "ours")>>
    <3>1. In(Block(name, "ours"), A) /\ Block(name, "ours") \in LiveAs(name)
      BY <2>3, <2>a, ComposedIs, BlockIs DEF A
    <3>2. ~Never(G.blocks, LiveAs(name))
      BY <1>7, <1>9, <3>1
    <3>3. OneOfEach(l) => Live(G, name) = <<Block(name, "ours")>>
      BY <1>8, <1>10, <2>3, <2>a
    <3> QED
      BY <3>2, <3>3
  <2>4. ASSUME NEW v \in Named(l, name), \A w \in Named(l, name) : w.passthrough
        PROVE  /\ ~Never(G.blocks, LiveAs(name))
               /\ OneOfEach(l) => Live(G, name) = <<b>>
    <3>1. /\ In(b, B)
          /\ OneOfEach(l) => Once(B, LiveAs(name), b)
      <4>1. v \in ToSet(l.variants) /\ v.passthrough /\ v.name = name
        BY <2>4, <2>a
      <4> QED
        BY <1>1, <2>1, <4>1, PassthroughsAre DEF B
    <3>2. Never(A, LiveAs(name)) /\ Never(C, LiveAs(name))
      BY <1>1, <2>4, ComposedIs, ImplicitIs DEF A, C
    <3>3. ~Never(G.blocks, LiveAs(name))
      BY <1>7, <1>9, <2>1, <3>1
    <3>4. OneOfEach(l) => Live(G, name) = <<b>>
      BY <1>6, <1>8, <3>1, <3>2
    <3> QED
      BY <3>3, <3>4
  <2>5. CASE \E v \in Named(l, name) : ~v.passthrough
    <3>1. /\ ~Never(G.blocks, LiveAs(name))
          /\ OneOfEach(l) => Live(G, name) = <<Block(name, "ours")>>
      BY <2>3, <2>5
    <3> QED
      BY <2>5, <3>1 DEF name, b
  <2>6. CASE Named(l, name) # {} /\ \A v \in Named(l, name) : v.passthrough
    <3>1. /\ ~Never(G.blocks, LiveAs(name))
          /\ OneOfEach(l) => Live(G, name) = <<b>>
      BY <2>4, <2>6
    <3> QED
      BY <2>6, <3>1 DEF name, b
  <2> QED
    BY <2>2, <2>5, <2>6
<1> QED
  BY <1>5, <1>8, <1>10, <1>11 DEF G

-----------------------------------------------------------------------------
(* What the registry lists.                                                 *)

LEMMA DataIs ==
  ASSUME NEW d \in DataTrees
  PROVE  /\ d \in Seq(Layouts) /\ Len(d) \in Nat /\ DOMAIN d = 1..Len(d)
         /\ \A k \in 1..Len(d) : d[k] \in Layouts /\ d[k] \in ToSet(d)
         /\ \A l \in ToSet(d) : l \in Layouts /\ \E k \in 1..Len(d) : d[k] = l
         /\ \A j, k \in 1..Len(d) : d[j].file = d[k].file => j = k
<1>1. d \in Seq(Layouts)
  BY TreeAssumption
<1>2. Len(d) \in Nat /\ DOMAIN d = 1..Len(d) /\ \A k \in 1..Len(d) : d[k] \in Layouts
  BY <1>1, ElementsIn
<1>3. \A l : l \in ToSet(d) <=> \E k \in 1..Len(d) : d[k] = l
  BY <1>1, ToSetIs DEF In
<1>4. \A j, k \in 1..Len(d) : d[j].file = d[k].file => j = k
  BY <1>2, TreeAssumption
<1>5. \A k \in 1..Len(d) : d[k] \in ToSet(d)
  BY <1>3
<1>6. \A l \in ToSet(d) : \E k \in 1..Len(d) : d[k] = l
  BY <1>3
<1> QED
  BY <1>1, <1>2, <1>4, <1>5, <1>6

LEMMA NamesIs ==
  ASSUME NEW l \in Layouts
  PROVE  /\ Names(l) \in Seq(STRING) /\ Len(Names(l)) = Len(l.variants)
         /\ \A i \in 1..Len(l.variants) : Names(l)[i] = l.variants[i].name
<1>1. Names(l) = [i \in 1..Len(l.variants) |-> l.variants[i].name]
  BY LayoutIs DEF Names
<1>2. Names(l) \in [1..Len(l.variants) -> STRING]
  BY <1>1, LayoutIs
<1>3. Names(l) \in Seq(STRING) /\ Len(Names(l)) = Len(l.variants)
  BY <1>2, LayoutIs, FnSeq
<1> QED
  BY <1>1, <1>3

Listing == [name : Files, variants : Seq(STRING)]
ListingOf(file) == {e \in Listing : e.name = file}

LEMMA ListedOnceIs ==
  ASSUME NEW reg \in Registry, NEW file, NEW name, NEW e,
         Once(reg, ListingOf(file), e), Once(e.variants, {name}, name)
  PROVE  ListedOnce(reg, file, name)
<1>0. DOMAIN reg = 1..Len(reg) /\ \A i \in 1..Len(reg) : reg[i] \in Listing
  BY ElementsIn DEF Registry, Listing
<1>1. PICK i \in 1..Len(reg) : reg[i] = e /\ \A j \in 1..Len(reg) : reg[j] \in ListingOf(file) => j = i
  BY DEF Once
<1>2. e \in Listing /\ e.name = file
  BY DEF Once, ListingOf
<1>3. PICK p \in 1..Len(e.variants) :
        e.variants[p] = name /\ \A q \in 1..Len(e.variants) : e.variants[q] \in {name} => q = p
  BY DEF Once
<1>4. DOMAIN e.variants = 1..Len(e.variants)
  BY <1>2, ElementsIn DEF Listing
<1>5. <<i, p>> \in Entries(reg, file, name)
  <2>1. <<i, p>> \in {i} \X DOMAIN reg[i].variants
    BY <1>1, <1>3, <1>4
  <2>2. <<i, p>> \in UNION {{j} \X DOMAIN reg[j].variants : j \in DOMAIN reg}
    BY <1>0, <2>1
  <2> QED
    BY <1>1, <1>2, <1>3, <2>2 DEF Entries
<1>6. ASSUME NEW x \in Entries(reg, file, name) PROVE x = <<i, p>>
  <2>1. PICK j \in DOMAIN reg : x \in {j} \X DOMAIN reg[j].variants
    BY <1>6 DEF Entries
  <2>2. x = <<x[1], x[2]>> /\ x[1] = j /\ x[2] \in DOMAIN reg[j].variants
    BY <2>1
  <2>3. reg[j].name = file /\ reg[j].variants[x[2]] = name
    BY <1>6, <2>2 DEF Entries
  <2>4. j = i
    BY <1>0, <1>1, <2>3 DEF ListingOf
  <2>5. x[2] = p
    BY <1>1, <1>3, <1>4, <2>2, <2>3, <2>4
  <2> QED
    BY <2>2, <2>4, <2>5
<1>7. Entries(reg, file, name) = {<<i, p>>}
  BY <1>5, <1>6
<1> QED
  BY <1>7, FS_Singleton DEF ListedOnce

(* The parts of PatchXML.                                                   *)
ListedAt(reg, l) == {i \in DOMAIN reg : reg[i].name = l.file}
NewNames(reg, l, i) ==
  IF ListedAt(reg, l) = {} \/ i # Max(ListedAt(reg, l)) THEN <<>>
  ELSE FlattenSeq([k \in DOMAIN l.variants |->
         IF l.variants[k].name \in ToSet(reg[i].variants) THEN <<>>
         ELSE <<l.variants[k].name>>])
NewListing(reg, l) ==
  IF ListedAt(reg, l) # {} THEN <<>> ELSE <<[name |-> l.file, variants |-> Names(l)]>>
AllNewNames(reg, i) == FlattenSeq([k \in DOMAIN data |-> NewNames(reg, data[k], i)])
Known(reg) == [i \in DOMAIN reg |-> [reg[i] EXCEPT !.variants = @ \o AllNewNames(reg, i)]]
Added(reg) == FlattenSeq([k \in DOMAIN data |-> NewListing(reg, data[k])])

LEMMA PatchXMLParts ==
  ASSUME NEW reg
  PROVE  PatchXML(reg) = Known(reg) \o Added(reg)
BY Zenon DEF PatchXML, Known, Added, AllNewNames, NewNames, NewListing, ListedAt

LEMMA ListedAtIs ==
  ASSUME NEW reg \in Registry, NEW l, ListedAt(reg, l) # {}
  PROVE  LET i == Max(ListedAt(reg, l)) IN i \in 1..Len(reg) /\ reg[i].name = l.file
<1>1. Len(reg) \in Nat /\ DOMAIN reg = 1..Len(reg)
  BY ElementsIn DEF Registry
<1>2. ListedAt(reg, l) \in SUBSET (1..Len(reg))
  BY <1>1 DEF ListedAt
<1>3. Max(ListedAt(reg, l)) \in ListedAt(reg, l)
  BY <1>1, <1>2, MaxIs
<1> QED
  BY <1>2, <1>3 DEF ListedAt

\* The names a layout adds to a listing: those it does not have, as often as
\* the layout has them.
LEMMA NewNamesIs ==
  ASSUME NEW reg \in Registry, NEW l \in Layouts, NEW i \in 1..Len(reg)
  PROVE  /\ NewNames(reg, l, i) \in Seq(STRING)
         /\ \A v \in ToSet(reg[i].variants) : Never(NewNames(reg, l, i), {v})
         /\ reg[i].name # l.file => NewNames(reg, l, i) = <<>>
         /\ \A v \in ToSet(Names(l)) :
              ListedAt(reg, l) = {i} /\ OneOfEach(l) /\ v \notin ToSet(reg[i].variants)
                => Once(NewNames(reg, l, i), {v}, v)
<1> DEFINE n == Len(l.variants)
           vs == l.variants
           have == ToSet(reg[i].variants)
           ss == [k \in 1..n |-> IF vs[k].name \in have THEN <<>> ELSE <<vs[k].name>>]
<1>0. n \in Nat /\ DOMAIN vs = 1..n /\ \A k \in 1..n : vs[k].name \in STRING
  BY LayoutIs
<1>1. NewNames(reg, l, i) = IF ListedAt(reg, l) = {} \/ i # Max(ListedAt(reg, l)) THEN <<>>
                            ELSE FlattenSeq(ss)
  BY <1>0 DEF NewNames
<1>2. ss \in Seq(Seq(STRING)) /\ Len(ss) = n
  <2>1. \A k \in 1..n : ss[k] \in Seq(STRING)
    BY <1>0, EmptyAndOne
  <2>2. ss \in [1..n -> Seq(STRING)]
    BY <2>1
  <2> HIDE DEF ss
  <2> QED
    BY <1>0, <2>2, FnSeq
<1>3. \A k \in 1..n : ss[k] = IF vs[k].name \in have THEN <<>> ELSE <<vs[k].name>>
  OBVIOUS
<1> HIDE DEF ss, have
<1>4. NewNames(reg, l, i) \in Seq(STRING)
  <2>1. FlattenSeq(ss) \in Seq(STRING)
    BY <1>2, FlattenType
  <2> QED
    BY <1>1, <2>1, EmptyAndOne
<1>5. ASSUME NEW v \in have PROVE Never(NewNames(reg, l, i), {v})
  <2>1. ASSUME NEW k \in 1..n PROVE Never(ss[k], {v})
    <3>1. CASE vs[k].name \in have
      <4>1. ss[k] = <<>>
        BY <1>3, <3>1
      <4> QED
        BY <4>1, OneIs
    <3>2. CASE vs[k].name \notin have
      <4>1. ss[k] = <<vs[k].name>> /\ vs[k].name \notin {v}
        BY <1>3, <1>5, <3>2
      <4> QED
        BY <4>1, OneIs
    <3> QED
      BY <3>1, <3>2
  <2>2. Never(FlattenSeq(ss), {v})
    BY <1>2, <2>1, FlattenNever
  <2>3. Never(<<>>, {v})
    BY OneIs
  <2> QED
    BY <1>1, <2>2, <2>3
<1>6. ASSUME reg[i].name # l.file PROVE NewNames(reg, l, i) = <<>>
  BY <1>1, <1>6, ListedAtIs
<1>7. ASSUME NEW v \in ToSet(Names(l)), ListedAt(reg, l) = {i}, OneOfEach(l), v \notin have
      PROVE  Once(NewNames(reg, l, i), {v}, v)
  <2>1. PICK k \in 1..n : vs[k].name = v
    <3>1. In(v, Names(l))
      BY NamesIs, ToSetIs
    <3> QED
      BY <3>1, NamesIs DEF In
  <2>2. \A j \in 1..n : j # k => vs[j].name # v
    BY <1>0, <1>7, <2>1 DEF OneOfEach
  <2>3. Once(ss[k], {v}, v)
    <3>1. ss[k] = <<v>> /\ v \in {v}
      BY <1>3, <1>7, <2>1
    <3> QED
      BY <3>1, OneIs
  <2>4. \A j \in 1..Len(ss) : j # k => Never(ss[j], {v})
    <3> SUFFICES ASSUME NEW j \in 1..n, j # k PROVE Never(ss[j], {v})
      BY <1>2
    <3>1. CASE vs[j].name \in have
      <4>1. ss[j] = <<>>
        BY <1>3, <3>1
      <4> QED
        BY <4>1, OneIs
    <3>2. CASE vs[j].name \notin have
      <4>1. ss[j] = <<vs[j].name>> /\ vs[j].name \notin {v}
        BY <1>3, <2>2, <3>2
      <4> QED
        BY <4>1, OneIs
    <3> QED
      BY <3>1, <3>2
  <2>5. Once(FlattenSeq(ss), {v}, v)
    BY <1>2, <2>3, <2>4, FlattenOnce
  <2>6. Max(ListedAt(reg, l)) = i
    <3>1. {i} \in SUBSET (1..Len(reg)) /\ {i} # {}
      OBVIOUS
    <3>2. Len(reg) \in Nat
      BY ElementsIn DEF Registry
    <3>3. Max({i}) \in {i}
      BY <3>1, <3>2, MaxIs
    <3> QED
      BY <1>7, <3>3
  <2> QED
    BY <1>1, <1>7, <2>5, <2>6
<1> QED
  BY <1>4, <1>5, <1>6, <1>7 DEF have

LEMMA AllNewNamesAre ==
  ASSUME NEW reg \in Registry, data \in DataTrees, NEW i \in 1..Len(reg)
  PROVE  /\ AllNewNames(reg, i) \in Seq(STRING)
         /\ \A v \in ToSet(reg[i].variants) : Never(AllNewNames(reg, i), {v})
         /\ \A l \in ToSet(data) : \A v \in ToSet(Names(l)) :
              ListedAt(reg, l) = {i} /\ OneOfEach(l) /\ v \notin ToSet(reg[i].variants)
                => Once(AllNewNames(reg, i), {v}, v)
<1> DEFINE ss == [k \in 1..Len(data) |-> NewNames(reg, data[k], i)]
<1>0. Len(data) \in Nat /\ DOMAIN data = 1..Len(data) /\ \A k \in 1..Len(data) : data[k] \in Layouts
  BY DataIs
<1>1. AllNewNames(reg, i) = FlattenSeq(ss)
  BY <1>0 DEF AllNewNames
<1>2. ss \in Seq(Seq(STRING)) /\ Len(ss) = Len(data)
  <2>1. ss \in [1..Len(data) -> Seq(STRING)]
    BY <1>0, NewNamesIs
  <2> HIDE DEF ss
  <2> QED
    BY <1>0, <2>1, FnSeq
<1>3. \A k \in 1..Len(data) : ss[k] = NewNames(reg, data[k], i)
  OBVIOUS
<1> HIDE DEF ss
<1>4. FlattenSeq(ss) \in Seq(STRING)
  BY <1>2, FlattenType
<1>5. ASSUME NEW v \in ToSet(reg[i].variants) PROVE Never(FlattenSeq(ss), {v})
  <2>1. ASSUME NEW k \in 1..Len(ss) PROVE Never(ss[k], {v})
    <3>1. data[k] \in Layouts /\ ss[k] = NewNames(reg, data[k], i)
      BY <1>0, <1>2, <1>3
    <3>2. Never(NewNames(reg, data[k], i), {v})
      BY <3>1, NewNamesIs
    <3> QED
      BY <3>1, <3>2
  <2> QED
    BY <1>2, <2>1, FlattenNever
<1>6. ASSUME NEW l \in ToSet(data), NEW v \in ToSet(Names(l)), ListedAt(reg, l) = {i},
             OneOfEach(l), v \notin ToSet(reg[i].variants)
      PROVE  Once(FlattenSeq(ss), {v}, v)
  <2>1. PICK k \in 1..Len(data) : data[k] = l
    BY DataIs
  <2>2. Once(ss[k], {v}, v)
    BY <1>0, <1>3, <1>6, <2>1, NewNamesIs
  <2>3. reg[i].name = l.file
    BY <1>6 DEF ListedAt
  <2>4. ASSUME NEW j \in 1..Len(data), j # k PROVE Never(ss[j], {v})
    <3>1. data[j].file # l.file
      BY <2>1, <2>4, DataIs
    <3>2. ss[j] = <<>>
      BY <1>0, <1>3, <2>3, <3>1, NewNamesIs
    <3> QED
      BY <3>2, OneIs
  <2>5. \A j \in 1..Len(ss) : j # k => Never(ss[j], {v})
    BY <1>2, <2>4
  <2>6. k \in 1..Len(ss)
    BY <1>2
  <2> QED
    BY <1>2, <2>2, <2>5, <2>6, FlattenOnce
<1> QED
  BY <1>1, <1>4, <1>5, <1>6

LEMMA KnownIs ==
  ASSUME NEW reg \in Registry, data \in DataTrees
  PROVE  /\ Known(reg) \in Seq(Listing) /\ Len(Known(reg)) = Len(reg)
         /\ \A i \in 1..Len(reg) :
              /\ Known(reg)[i].name = reg[i].name
              /\ Known(reg)[i].variants = reg[i].variants \o AllNewNames(reg, i)
<1>0. /\ Len(reg) \in Nat /\ DOMAIN reg = 1..Len(reg)
      /\ \A i \in 1..Len(reg) : reg[i] \in Listing
  BY ElementsIn DEF Registry, Listing
<1>1. \A i \in 1..Len(reg) : Known(reg)[i] = [reg[i] EXCEPT !.variants = @ \o AllNewNames(reg, i)]
  BY <1>0 DEF Known
<1>2. ASSUME NEW i \in 1..Len(reg)
      PROVE  /\ Known(reg)[i] \in Listing
             /\ Known(reg)[i].name = reg[i].name
             /\ Known(reg)[i].variants = reg[i].variants \o AllNewNames(reg, i)
  <2>1. reg[i].variants \in Seq(STRING) /\ AllNewNames(reg, i) \in Seq(STRING)
    BY <1>0, AllNewNamesAre DEF Listing
  <2>2. PICK w : w = reg[i].variants \o AllNewNames(reg, i)
    OBVIOUS
  <2>3. w \in Seq(STRING)
    BY <2>1, <2>2, ConcatProperties
  <2>4. Known(reg)[i] = [reg[i] EXCEPT !.variants = w]
    BY <1>1, <2>2
  <2> QED
    BY <1>0, <2>2, <2>3, <2>4 DEF Listing
<1>3. Known(reg) \in [1..Len(reg) -> Listing]
  <2>1. Known(reg) = [i \in 1..Len(reg) |-> [reg[i] EXCEPT !.variants = @ \o AllNewNames(reg, i)]]
    BY <1>0 DEF Known
  <2> QED
    BY <1>1, <1>2, <2>1
<1> QED
  BY <1>0, <1>2, <1>3, FnSeq

LEMMA AddedIs ==
  ASSUME NEW reg \in Registry, data \in DataTrees
  PROVE  /\ Added(reg) \in Seq(Listing)
         /\ \A i \in 1..Len(reg) : Never(Added(reg), ListingOf(reg[i].name))
         /\ \A l \in ToSet(data) : ListedAt(reg, l) = {} =>
              Once(Added(reg), ListingOf(l.file), [name |-> l.file, variants |-> Names(l)])
<1> DEFINE ss == [k \in 1..Len(data) |-> NewListing(reg, data[k])]
           L(l) == [name |-> l.file, variants |-> Names(l)]
<1>0. /\ Len(data) \in Nat /\ DOMAIN data = 1..Len(data)
      /\ \A k \in 1..Len(data) : data[k] \in Layouts
      /\ DOMAIN reg = 1..Len(reg)
  BY DataIs, ElementsIn DEF Registry
<1>1. Added(reg) = FlattenSeq(ss)
  BY <1>0 DEF Added
<1>2. \A l \in Layouts : L(l) \in ListingOf(l.file) /\ L(l) \in Listing /\ L(l).name = l.file
  BY NamesIs, LayoutIs DEF ListingOf, Listing
<1>a. \A l : NewListing(reg, l) = IF ListedAt(reg, l) # {} THEN <<>> ELSE <<L(l)>>
  BY DEF NewListing
<1> HIDE DEF L
<1>3. \A k \in 1..Len(data) : ss[k] = NewListing(reg, data[k])
  OBVIOUS
<1>4. ss \in Seq(Seq(Listing)) /\ Len(ss) = Len(data)
  <2>1. ASSUME NEW k \in 1..Len(data) PROVE ss[k] \in Seq(Listing)
    <3>1. PICK l \in Layouts : l = data[k]
      BY <1>0
    <3>2. <<>> \in Seq(Listing) /\ <<L(l)>> \in Seq(Listing)
      BY <1>2, EmptyAndOne
    <3> QED
      BY <1>3, <1>a, <3>1, <3>2
  <2>2. ss \in [1..Len(data) -> Seq(Listing)]
    BY <2>1
  <2> HIDE DEF ss
  <2> QED
    BY <1>0, <2>2, FnSeq
<1> HIDE DEF ss
<1>5. FlattenSeq(ss) \in Seq(Listing)
  BY <1>4, FlattenType
<1>6. ASSUME NEW k \in 1..Len(data), NEW file, file # data[k].file \/ ListedAt(reg, data[k]) # {}
      PROVE  Never(ss[k], ListingOf(file))
  <2>1. CASE ListedAt(reg, data[k]) # {}
    <3>1. ss[k] = <<>>
      BY <1>3, <1>a, <2>1
    <3> QED
      BY <3>1, OneIs
  <2>2. CASE ListedAt(reg, data[k]) = {}
    <3>1. ss[k] = <<L(data[k])>> /\ L(data[k]) \notin ListingOf(file)
      BY <1>0, <1>2, <1>3, <1>6, <1>a, <2>2 DEF ListingOf
    <3> QED
      BY <3>1, OneIs
  <2> QED
    BY <2>1, <2>2
<1>7. ASSUME NEW i \in 1..Len(reg) PROVE Never(FlattenSeq(ss), ListingOf(reg[i].name))
  <2>1. ASSUME NEW k \in 1..Len(data) PROVE Never(ss[k], ListingOf(reg[i].name))
    <3>1. reg[i].name # data[k].file \/ ListedAt(reg, data[k]) # {}
      BY <1>0 DEF ListedAt
    <3> QED
      BY <1>6, <3>1
  <2>2. \A k \in 1..Len(ss) : Never(ss[k], ListingOf(reg[i].name))
    BY <1>4, <2>1
  <2> QED
    BY <1>4, <2>2, FlattenNever
<1>8. ASSUME NEW l \in ToSet(data), ListedAt(reg, l) = {}
      PROVE  Once(FlattenSeq(ss), ListingOf(l.file), L(l))
  <2>1. PICK k \in 1..Len(data) : data[k] = l
    BY DataIs
  <2>2. ss[k] = <<L(l)>> /\ L(l) \in ListingOf(l.file)
    BY <1>0, <1>2, <1>3, <1>8, <1>a, <2>1
  <2>3. Once(ss[k], ListingOf(l.file), L(l))
    BY <2>2, OneIs
  <2>4. ASSUME NEW j \in 1..Len(ss), j # k PROVE Never(ss[j], ListingOf(l.file))
    <3>1. j \in 1..Len(data) /\ data[j].file # l.file
      BY <1>4, <2>1, <2>4, DataIs
    <3> QED
      BY <1>6, <3>1
  <2>5. k \in 1..Len(ss)
    BY <1>4
  <2> QED
    BY <1>4, <2>3, <2>4, <2>5, FlattenOnce
<1> QED
  BY <1>1, <1>5, <1>7, <1>8 DEF L

\* The patched registry: what was listed stays listed, and where nothing was
\* listed twice, nothing is, nor is what the data adds.
LEMMA PatchXMLIs ==
  ASSUME NEW reg \in Registry, data \in DataTrees
  PROVE  /\ PatchXML(reg) \in Registry
         /\ Pairs(reg) \subseteq Pairs(PatchXML(reg))
         /\ OneOfEachListed(reg) =>
              /\ \A i \in 1..Len(reg) : \A v \in ToSet(reg[i].variants) :
                   ListedOnce(PatchXML(reg), reg[i].name, v)
              /\ \A l \in ToSet(data) : OneOfEach(l) => \A v \in ToSet(Names(l)) :
                   ListedOnce(PatchXML(reg), l.file, v)
<1> DEFINE K == Known(reg)
           A == Added(reg)
           P == PatchXML(reg)
<1>0. /\ Len(reg) \in Nat /\ DOMAIN reg = 1..Len(reg)
      /\ \A i \in 1..Len(reg) : reg[i] \in Listing /\ reg[i].variants \in Seq(STRING)
  <2>1. /\ Len(reg) \in Nat /\ DOMAIN reg = 1..Len(reg)
        /\ \A i \in 1..Len(reg) : reg[i] \in Listing
    BY ElementsIn DEF Registry, Listing
  <2>2. \A e \in Listing : e.variants \in Seq(STRING)
    BY DEF Listing
  <2> QED
    BY <2>1, <2>2
<1>1. /\ K \in Seq(Listing) /\ Len(K) = Len(reg)
      /\ \A i \in 1..Len(reg) :
              /\ K[i].name = reg[i].name
              /\ K[i].variants = reg[i].variants \o AllNewNames(reg, i)
  BY KnownIs
<1>2. A \in Seq(Listing)
  BY AddedIs
<1>3. P = K \o A
  BY PatchXMLParts
<1>4. P \in Registry
  BY <1>1, <1>2, <1>3, ConcatProperties DEF Registry, Listing
<1> HIDE DEF K, A, P
<1>5. \A i \in 1..Len(reg) : K[i] \in Listing
  BY <1>1, ElementsIn
<1>6. Len(P) \in Nat /\ DOMAIN P = 1..Len(P) /\ \A i \in 1..Len(reg) : i \in 1..Len(P) /\ P[i] = K[i]
  <2>1. Len(A) \in Nat
    BY <1>2, ElementsIn
  <2>2. /\ Len(P) = Len(K) + Len(A)
        /\ \A i \in 1..(Len(K) + Len(A)) : P[i] = IF i <= Len(K) THEN K[i] ELSE A[i - Len(K)]
    BY <1>1, <1>2, <1>3, ConcatProperties
  <2>3. DOMAIN P = 1..Len(P)
    BY <1>4, ElementsIn DEF Registry
  <2> QED
    BY <1>0, <1>1, <2>1, <2>2, <2>3
<1>7. ASSUME NEW i \in 1..Len(reg), NEW v \in ToSet(reg[i].variants)
      PROVE  v \in ToSet(P[i].variants)
  <2>1. reg[i].variants \in Seq(STRING) /\ AllNewNames(reg, i) \in Seq(STRING)
    BY <1>0, AllNewNamesAre
  <2>2. In(v, reg[i].variants)
    BY <1>7, <2>1, ToSetIs
  <2>3. In(v, reg[i].variants \o AllNewNames(reg, i))
    BY <2>1, <2>2, ConcatIn
  <2>4. In(v, P[i].variants) /\ P[i].variants \in Seq(STRING)
    BY <1>1, <1>5, <1>6, <2>3 DEF Listing
  <2> QED
    BY <2>4, ToSetIs
<1>8. Pairs(reg) \subseteq Pairs(P)
  <2> SUFFICES ASSUME NEW x \in Pairs(reg) PROVE x \in Pairs(P)
    OBVIOUS
  <2>1. PICK i \in DOMAIN reg :
          x \in {<<reg[i].name>>} \union {<<reg[i].name, v>> : v \in ToSet(reg[i].variants)}
    BY DEF Pairs
  <2>2. i \in 1..Len(reg) /\ i \in DOMAIN P /\ P[i].name = reg[i].name
    BY <1>0, <1>1, <1>6, <2>1
  <2>3. \A v \in ToSet(reg[i].variants) : v \in ToSet(P[i].variants)
    BY <1>7, <2>2
  <2>4. x \in {<<P[i].name>>} \union {<<P[i].name, v>> : v \in ToSet(P[i].variants)}
    BY <2>1, <2>2, <2>3
  <2> QED
    BY <2>2, <2>4 DEF Pairs
<1>9. ASSUME OneOfEachListed(reg), NEW i \in 1..Len(reg)
      PROVE  Once(P, ListingOf(reg[i].name), K[i])
  <2>1. K[i] \in ListingOf(reg[i].name)
    BY <1>1, <1>5 DEF ListingOf
  <2>2. \A j \in 1..Len(K) : K[j] \in ListingOf(reg[i].name) => j = i
    BY <1>0, <1>1, <1>9 DEF OneOfEachListed, ListingOf
  <2>3. Once(K, ListingOf(reg[i].name), K[i])
    BY <1>1, <2>1, <2>2 DEF Once
  <2>4. Never(A, ListingOf(reg[i].name))
    BY AddedIs DEF A
  <2> QED
    BY <1>1, <1>2, <1>3, <2>3, <2>4, ConcatOnce
<1>10. ASSUME OneOfEachListed(reg), NEW i \in 1..Len(reg), NEW v \in ToSet(reg[i].variants)
       PROVE  ListedOnce(P, reg[i].name, v)
  <2>1. /\ reg[i].variants \in Seq(STRING) /\ AllNewNames(reg, i) \in Seq(STRING)
        /\ DOMAIN reg[i].variants = 1..Len(reg[i].variants)
    BY <1>0, AllNewNamesAre, ElementsIn
  <2>2. PICK p \in 1..Len(reg[i].variants) : reg[i].variants[p] = v
    BY <1>10, <2>1, ToSetIs DEF In
  <2>3. \A q \in 1..Len(reg[i].variants) : reg[i].variants[q] \in {v} => q = p
    BY <1>0, <1>10, <2>1, <2>2 DEF OneOfEachListed
  <2>4. Once(reg[i].variants, {v}, v)
    BY <2>2, <2>3 DEF Once
  <2>5. Never(AllNewNames(reg, i), {v})
    BY <1>10, AllNewNamesAre
  <2>6. Once(K[i].variants, {v}, v)
    BY <1>1, <2>1, <2>4, <2>5, ConcatOnce
  <2> QED
    BY <1>4, <1>9, <1>10, <2>6, ListedOnceIs
<1>11. ASSUME OneOfEachListed(reg), NEW l \in ToSet(data), OneOfEach(l), NEW v \in ToSet(Names(l))
       PROVE  ListedOnce(P, l.file, v)
  <2>1. CASE ListedAt(reg, l) = {}
    <3> DEFINE e == [name |-> l.file, variants |-> Names(l)]
    <3>1. Once(A, ListingOf(l.file), e)
      BY <2>1, AddedIs DEF A
    <3>2. Never(K, ListingOf(l.file))
      BY <1>0, <1>1, <2>1 DEF Never, ListingOf, ListedAt
    <3>3. Once(P, ListingOf(l.file), e)
      BY <1>1, <1>2, <1>3, <3>1, <3>2, ConcatOnce
    <3>4. l \in Layouts
      BY DataIs
    <3>5. PICK k \in 1..Len(Names(l)) : Names(l)[k] = v
      BY <3>4, NamesIs, ToSetIs DEF In
    <3>6. \A j \in 1..Len(Names(l)) : Names(l)[j] \in {v} => j = k
      BY <1>11, <3>4, <3>5, NamesIs, LayoutIs DEF OneOfEach
    <3>7. Once(e.variants, {v}, v)
      BY <3>5, <3>6 DEF Once
    <3> HIDE DEF e
    <3> QED
      BY <1>4, <3>3, <3>7, ListedOnceIs
  <2>2. CASE ListedAt(reg, l) # {}
    <3>1. PICK i \in 1..Len(reg) : reg[i].name = l.file
      BY <2>2, ListedAtIs
    <3>2. ListedAt(reg, l) = {i}
      BY <1>0, <1>11, <3>1 DEF ListedAt, OneOfEachListed
    <3>3. CASE v \in ToSet(reg[i].variants)
      BY <1>10, <1>11, <3>1, <3>3
    <3>4. CASE v \notin ToSet(reg[i].variants)
      <4>1. reg[i].variants \in Seq(STRING) /\ AllNewNames(reg, i) \in Seq(STRING)
        BY <1>0, AllNewNamesAre
      <4>2. Never(reg[i].variants, {v})
        BY <3>4, <4>1, ToSetIs DEF Never, In
      <4>3. Once(AllNewNames(reg, i), {v}, v)
        BY <1>11, <3>2, <3>4, AllNewNamesAre
      <4>4. Once(K[i].variants, {v}, v)
        BY <1>1, <4>1, <4>2, <4>3, ConcatOnce
      <4> QED
        BY <1>4, <1>9, <1>11, <3>1, <4>4, ListedOnceIs
    <3> QED
      BY <3>3, <3>4
  <2> QED
    BY <2>1, <2>2
<1> QED
  BY <1>4, <1>8, <1>10, <1>11 DEF P

Line == [tag : {f \o ":" : f \in Files}, name : STRING]

LEMMA TagIs == \A f \in Files : Tag(f) = f \o ":" /\ Tag(f) \in {g \o ":" : g \in Files}
BY DEF Tag

LEMMA LstIs ==
  ASSUME NEW lst \in Lst
  PROVE  /\ lst.layouts \in Seq(Files) /\ lst.variants \in Seq(Line)
         /\ DOMAIN lst.variants = 1..Len(lst.variants)
         /\ \A i \in 1..Len(lst.variants) : lst.variants[i] \in Line
<1>1. lst.layouts \in Seq(Files) /\ lst.variants \in Seq(Line)
  BY DEF Lst, Line
<1> QED
  BY <1>1, ElementsIn

(* The parts of PatchLst.                                                   *)
IsKnown(lst, l, v) ==
  \E i \in DOMAIN lst.variants : lst.variants[i].tag = l.file /\ lst.variants[i].name = v.name
NewLine(lst, l, v) ==
  IF IsKnown(lst, l, v) THEN <<>> ELSE <<[tag |-> Tag(l.file), name |-> v.name]>>
NewLines(lst, l) == FlattenSeq([i \in DOMAIN l.variants |-> NewLine(lst, l, l.variants[i])])
NewLayout(lst, l) == IF l.file \in ToSet(lst.layouts) THEN <<>> ELSE <<l.file>>

LEMMA PatchLstParts ==
  ASSUME NEW lst
  PROVE  PatchLst(lst) =
           [layouts |-> lst.layouts \o FlattenSeq([k \in DOMAIN data |-> NewLayout(lst, data[k])]),
            variants |-> lst.variants \o FlattenSeq([k \in DOMAIN data |-> NewLines(lst, data[k])])]
BY Zenon DEF PatchLst, NewLayout, NewLines, NewLine, IsKnown

\* No line of the .lst has a bare file name for a tag, so none is known.
LEMMA NewLinesAre ==
  ASSUME NEW lst \in Lst, NEW l \in Layouts
  PROVE  /\ NewLines(lst, l) \in Seq(Line)
         /\ \A v \in ToSet(Names(l)) : In([tag |-> Tag(l.file), name |-> v], NewLines(lst, l))
<1> DEFINE n == Len(l.variants)
           L(v) == [tag |-> Tag(l.file), name |-> v.name]
           ss == [i \in 1..n |-> NewLine(lst, l, l.variants[i])]
<1>0. /\ n \in Nat /\ DOMAIN l.variants = 1..n /\ l.file \in Files
      /\ \A i \in 1..n : l.variants[i].name \in STRING
  BY LayoutIs
<1>1. NewLines(lst, l) = FlattenSeq(ss)
  BY <1>0 DEF NewLines
<1>2. ASSUME NEW v PROVE ~IsKnown(lst, l, v)
  <2>1. \A i \in 1..Len(lst.variants) : \E f \in Files : lst.variants[i].tag = f \o ":"
    BY LstIs DEF Line
  <2>2. \A f \in Files : f \o ":" # l.file
    BY <1>0, FilesAssumption
  <2> QED
    BY <2>1, <2>2, LstIs DEF IsKnown
<1>3. \A i \in 1..n : ss[i] = <<L(l.variants[i])>>
  BY <1>2 DEF NewLine
<1>4. \A i \in 1..n : L(l.variants[i]) \in Line
  BY <1>0, TagIs DEF Line
<1>5. ss \in Seq(Seq(Line)) /\ Len(ss) = n
  <2> HIDE DEF L
  <2>1. \A i \in 1..n : ss[i] \in Seq(Line)
    BY <1>3, <1>4, EmptyAndOne
  <2>2. ss \in [1..n -> Seq(Line)]
    BY <2>1
  <2> HIDE DEF ss
  <2> QED
    BY <1>0, <2>2, FnSeq
<1> HIDE DEF ss
<1>6. FlattenSeq(ss) \in Seq(Line)
  BY <1>5, FlattenType
<1>7. ASSUME NEW v \in ToSet(Names(l)) PROVE In([tag |-> Tag(l.file), name |-> v], FlattenSeq(ss))
  <2>1. PICK k \in 1..n : l.variants[k].name = v
    BY NamesIs, ToSetIs DEF In
  <2>2. L(l.variants[k]) = [tag |-> Tag(l.file), name |-> v]
    BY <2>1
  <2> HIDE DEF L
  <2>3. In(L(l.variants[k]), ss[k])
    <3>1. PICK x : x = L(l.variants[k])
      OBVIOUS
    <3>2. ss[k] = <<x>>
      BY <1>3, <3>1
    <3>3. In(x, <<x>>)
      BY InShort
    <3> QED
      BY <3>1, <3>2, <3>3
  <2>4. In(L(l.variants[k]), FlattenSeq(ss))
    BY <1>5, <2>3, FlattenIn
  <2> QED
    BY <2>2, <2>4
<1> QED
  BY <1>1, <1>6, <1>7

\* The patched .lst names every variant of the data.
LEMMA PatchLstIs ==
  ASSUME NEW lst \in Lst, data \in DataTrees
  PROVE  /\ PatchLst(lst) \in Lst
         /\ \A l \in ToSet(data) : \A v \in ToSet(Names(l)) :
              \E line \in ToSet(PatchLst(lst).variants) : line = [tag |-> l.file \o ":", name |-> v]
<1> DEFINE n == Len(data)
           ff == [k \in 1..n |-> NewLayout(lst, data[k])]
           ll == [k \in 1..n |-> NewLines(lst, data[k])]
           a == lst.layouts \o FlattenSeq(ff)
           b == lst.variants \o FlattenSeq(ll)
<1>0. n \in Nat /\ DOMAIN data = 1..n /\ \A k \in 1..n : data[k] \in Layouts /\ data[k].file \in Files
  BY DataIs, LayoutIs
<1>1. PatchLst(lst) = [layouts |-> a, variants |-> b]
  BY <1>0, PatchLstParts
<1>2. ff \in Seq(Seq(Files))
  <2>1. \A k \in 1..n : NewLayout(lst, data[k]) \in Seq(Files)
    BY <1>0, EmptyAndOne DEF NewLayout
  <2>2. ff \in [1..n -> Seq(Files)]
    BY <2>1
  <2> HIDE DEF ff
  <2> QED
    BY <1>0, <2>2, FnSeq
<1>3. ll \in Seq(Seq(Line)) /\ Len(ll) = n
  <2>1. ll \in [1..n -> Seq(Line)]
    BY <1>0, NewLinesAre
  <2> HIDE DEF ll
  <2> QED
    BY <1>0, <2>1, FnSeq
<1>4. \A k \in 1..n : ll[k] = NewLines(lst, data[k])
  OBVIOUS
<1> HIDE DEF ff, ll
<1>5. a \in Seq(Files)
  BY <1>2, LstIs, FlattenType, ConcatProperties
<1>6. FlattenSeq(ll) \in Seq(Line) /\ b \in Seq(Line)
  BY <1>3, LstIs, FlattenType, ConcatProperties
<1>7. ASSUME NEW l \in ToSet(data), NEW v \in ToSet(Names(l))
      PROVE  [tag |-> l.file \o ":", name |-> v] \in ToSet(b)
  <2>1. PICK k \in 1..n : data[k] = l
    BY DataIs
  <2>2. PICK x : x = [tag |-> Tag(l.file), name |-> v]
    OBVIOUS
  <2>3. In(x, ll[k])
    BY <1>0, <1>4, <2>1, <2>2, NewLinesAre
  <2>4. In(x, FlattenSeq(ll))
    BY <1>3, <2>3, FlattenIn
  <2>5. In(x, b)
    BY <1>6, <2>4, LstIs, ConcatIn
  <2>6. x \in ToSet(b)
    BY <1>6, <2>5, ToSetIs
  <2>7. Tag(l.file) = l.file \o ":"
    BY <1>0, <2>1, TagIs
  <2> QED
    BY <2>2, <2>6, <2>7
<1> HIDE DEF a, b
<1>8. PatchLst(lst) \in Lst /\ PatchLst(lst).variants = b
  BY <1>1, <1>5, <1>6 DEF Lst, Line
<1> QED
  BY <1>7, <1>8

-----------------------------------------------------------------------------
(* What a command has to do.                                                *)

Copied == {f \in Files \ Owned : upstream.symbols[f] # NoFile}
ChainsOf(l) == {[file |-> l.file, variant |-> v] : v \in {w \in ToSet(l.variants) : w.compose # "none"}}
Chained == UNION {ChainsOf(l) : l \in ToSet(data)}
Kinds == {"xml", "lst"}

Steps ==
  [do : {"registry", "patch"}, at : Kinds] \union [do : {"copy"}, at : Copied]
  \union [do : {"symbols"}, at : ToSet(data)] \union [do : {"compose"}, at : Chained]
  \union [do : {"keep", "install", "sign"}, at : Variants] \union [do : {"check"}, at : {"out"}]

Step(do, at) == [do |-> do, at |-> at]

\* The steps each command is made of.
Does(op) ==
  IF op = "generate" THEN {"symbols", "compose"}
  ELSE IF op = "build" THEN {"registry", "copy", "symbols", "patch", "compose"}
  ELSE IF op = "dropin-check" THEN {"check"}
  ELSE IF op = "activate" THEN {"symbols", "keep", "install", "sign"}
  ELSE {}

(* The registry files are copied before anything else is done, and each is  *)
(* patched once, after that.                                                *)
RegistryFirst(seq) ==
  \A i, j \in 1..Len(seq) : seq[i].do = "registry" /\ j < i => seq[j].do = "registry"
PatchOnce(seq) ==
  \A k \in Kinds : \/ Never(seq, {Step("patch", k)})
                   \/ Once(seq, {Step("patch", k)}, Step("patch", k))
CopiedIsPatched(seq) ==
  \A k \in Kinds : In(Step("registry", k), seq) => In(Step("patch", k), seq)
Orderly(seq) == RegistryFirst(seq) /\ PatchOnce(seq) /\ CopiedIsPatched(seq)

LEMMA StepIs == \A a, b : Step(a, b).do = a /\ Step(a, b).at = b
BY DEF Step

LEMMA MemberSeq ==
  ASSUME NEW S, NEW s \in Seq(S), NEW T, \A x : In(x, s) => x \in T
  PROVE  s \in Seq(T)
<1>1. Len(s) \in Nat /\ \A i \in 1..Len(s) : s[i] \in T
  BY ElementsIn DEF In
<1>2. s \in [1..Len(s) -> T]
  BY <1>1
<1> QED
  BY <1>1, <1>2, FnSeq

LEMMA EachIs ==
  ASSUME NEW S, NEW s \in Seq(S), NEW do
  PROVE  /\ Each(do, s) \in Seq([do : {do}, at : S])
         /\ \A x : In(x, Each(do, s)) <=> \E y : In(y, s) /\ x = Step(do, y)
         /\ Len(Each(do, s)) = Len(s) /\ \A i \in 1..Len(s) : Each(do, s)[i] = Step(do, s[i])
<1>0. Len(s) \in Nat /\ DOMAIN s = 1..Len(s) /\ \A i \in 1..Len(s) : s[i] \in S
  BY ElementsIn
<1>1. Each(do, s) = [i \in 1..Len(s) |-> Step(do, s[i])]
  BY <1>0 DEF Each, Step
<1>2. Each(do, s) \in [1..Len(s) -> [do : {do}, at : S]]
  BY <1>0, <1>1 DEF Step
<1>3. Each(do, s) \in Seq([do : {do}, at : S]) /\ Len(Each(do, s)) = Len(s)
  BY <1>0, <1>2, FnSeq
<1>4. \A i \in 1..Len(s) : Each(do, s)[i] = Step(do, s[i])
  BY <1>1
<1> QED
  BY <1>3, <1>4 DEF In

\* A list of one kind of steps, of all the things they are for.
LEMMA EachType ==
  ASSUME NEW S, NEW s \in Seq(S), NEW do, [do : {do}, at : S] \subseteq Steps
  PROVE  /\ Each(do, s) \in Seq(Steps)
         /\ \A x \in S : In(x, s) => In(Step(do, x), Each(do, s))
         /\ \A i \in 1..Len(Each(do, s)) : Each(do, s)[i].do = do
<1>1. /\ Each(do, s) \in Seq([do : {do}, at : S])
      /\ \A x : In(x, Each(do, s)) <=> \E y : In(y, s) /\ x = Step(do, y)
      /\ Len(Each(do, s)) = Len(s) /\ \A i \in 1..Len(s) : Each(do, s)[i] = Step(do, s[i])
  BY EachIs
<1>2. \A i \in 1..Len(s) : Each(do, s)[i].do = do
  BY <1>1, StepIs
<1>3. \A x : In(x, Each(do, s)) => x \in Steps
  <2>1. \A i \in 1..Len(Each(do, s)) : Each(do, s)[i] \in [do : {do}, at : S]
    BY <1>1, ElementsIn
  <2> QED
    BY <2>1 DEF In
<1> QED
  BY <1>1, <1>2, <1>3, MemberSeq

LEMMA DataMembers ==
  ASSUME data \in DataTrees
  PROVE  data \in Seq(ToSet(data)) /\ \A l \in ToSet(data) : In(l, data)
<1>1. data \in Seq(Layouts)
  BY DataIs
<1>2. \A l : l \in ToSet(data) <=> In(l, data)
  BY <1>1, ToSetIs
<1> QED
  BY <1>1, <1>2, MemberSeq

LEMMA CopiesAre ==
  /\ SetToSeq(Copied) \in Seq(Copied)
  /\ \A f \in Copied : In(f, SetToSeq(Copied))
<1>1. IsFiniteSet(Copied)
  <2>1. Copied \in SUBSET Files
    BY DEF Copied
  <2> QED
    BY <2>1, FilesAssumption, FS_Subset
<1>2. SetToSeq(Copied) \in Seq(Copied) /\ Range(SetToSeq(Copied)) = Copied
  BY <1>1, SetToSeqIs
<1>3. PICK s \in Seq(Copied) : s = SetToSeq(Copied)
  BY <1>2
<1>4. DOMAIN s = 1..Len(s) /\ Range(s) = Copied
  BY <1>2, <1>3, ElementsIn
<1>5. \A f \in Copied : In(f, s)
  BY <1>4 DEF Range, In
<1> QED
  BY <1>2, <1>3, <1>5

(* The parts of ComposeFiles.                                               *)
ChainAt(l, v) == IF v.compose = "none" THEN <<>> ELSE <<[file |-> l.file, variant |-> v]>>
ChainList(l) == FlattenSeq([i \in DOMAIN l.variants |-> ChainAt(l, l.variants[i])])
ChainLists == FlattenSeq([k \in DOMAIN data |-> ChainList(data[k])])

LEMMA ChainListIs ==
  ASSUME NEW l \in Layouts
  PROVE  ChainList(l) \in Seq(ChainsOf(l)) /\ \A x \in ChainsOf(l) : In(x, ChainList(l))
<1> DEFINE n == Len(l.variants)
           ss == [i \in 1..n |-> ChainAt(l, l.variants[i])]
           X(v) == [file |-> l.file, variant |-> v]
<1>0. n \in Nat /\ DOMAIN l.variants = 1..n /\ \A i \in 1..n : l.variants[i] \in ToSet(l.variants)
  BY LayoutIs
<1>1. ChainList(l) = FlattenSeq(ss)
  BY <1>0 DEF ChainList
<1>2. \A v \in ToSet(l.variants) : v.compose # "none" => X(v) \in ChainsOf(l)
  BY DEF ChainsOf
<1>3. \A v : ChainAt(l, v) = IF v.compose = "none" THEN <<>> ELSE <<X(v)>>
  BY DEF ChainAt
<1> HIDE DEF X
<1>4. ss \in Seq(Seq(ChainsOf(l))) /\ Len(ss) = n
  <2>1. \A i \in 1..n : ss[i] \in Seq(ChainsOf(l))
    BY <1>0, <1>2, <1>3, EmptyAndOne
  <2>2. ss \in [1..n -> Seq(ChainsOf(l))]
    BY <2>1
  <2> HIDE DEF ss
  <2> QED
    BY <1>0, <2>2, FnSeq
<1>5. \A i \in 1..n : ss[i] = ChainAt(l, l.variants[i])
  OBVIOUS
<1> HIDE DEF ss
<1>6. FlattenSeq(ss) \in Seq(ChainsOf(l))
  BY <1>4, FlattenType
<1>7. ASSUME NEW x \in ChainsOf(l) PROVE In(x, FlattenSeq(ss))
  <2>1. PICK v \in ToSet(l.variants) : v.compose # "none" /\ x = X(v)
    BY DEF ChainsOf, X
  <2>2. PICK i \in 1..n : l.variants[i] = v
    BY LayoutIs
  <2>3. ss[i] = <<x>>
    BY <1>3, <1>5, <2>1, <2>2
  <2>4. In(x, ss[i])
    BY <2>3, InShort
  <2> QED
    BY <1>4, <2>4, FlattenIn
<1> QED
  BY <1>1, <1>6, <1>7

LEMMA ChainListsAre ==
  ASSUME data \in DataTrees
  PROVE  ChainLists \in Seq(Chained) /\ \A x \in Chained : In(x, ChainLists)
<1> DEFINE ss == [k \in 1..Len(data) |-> ChainList(data[k])]
<1>0. /\ Len(data) \in Nat /\ DOMAIN data = 1..Len(data)
      /\ \A k \in 1..Len(data) : data[k] \in Layouts /\ data[k] \in ToSet(data)
  BY DataIs
<1>1. ChainLists = FlattenSeq(ss)
  BY <1>0 DEF ChainLists
<1>2. \A k \in 1..Len(data) : ChainList(data[k]) \in Seq(Chained)
  <2> SUFFICES ASSUME NEW k \in 1..Len(data) PROVE ChainList(data[k]) \in Seq(Chained)
    OBVIOUS
  <2>1. ChainList(data[k]) \in Seq(ChainsOf(data[k]))
    BY <1>0, ChainListIs
  <2>2. ChainsOf(data[k]) \subseteq Chained
    BY <1>0 DEF Chained
  <2>3. \A x : In(x, ChainList(data[k])) => x \in Chained
    BY <2>1, <2>2, ElementsIn DEF In
  <2> QED
    BY <2>1, <2>3, MemberSeq
<1>3. ss \in Seq(Seq(Chained)) /\ Len(ss) = Len(data)
  <2>1. ss \in [1..Len(data) -> Seq(Chained)]
    BY <1>2
  <2> HIDE DEF ss
  <2> QED
    BY <1>0, <2>1, FnSeq
<1>4. \A k \in 1..Len(data) : ss[k] = ChainList(data[k])
  OBVIOUS
<1> HIDE DEF ss
<1>5. FlattenSeq(ss) \in Seq(Chained)
  BY <1>3, FlattenType
<1>6. ASSUME NEW x \in Chained PROVE In(x, FlattenSeq(ss))
  <2>1. PICK l \in ToSet(data) : x \in ChainsOf(l)
    BY DEF Chained
  <2>2. PICK k \in 1..Len(data) : data[k] = l
    BY DataIs
  <2>3. In(x, ss[k])
    BY <1>0, <1>4, <2>1, <2>2, ChainListIs
  <2> QED
    BY <1>3, <2>3, FlattenIn
<1> QED
  BY <1>1, <1>5, <1>6

-----------------------------------------------------------------------------
(* The commands' plans.                                                     *)

StepsOf(op) == {x \in Steps : x.do \in Does(op)}
Cmds ==
  {Idle} \union [op : {"generate", "build", "dropin-check"}]
  \union [op : {"activate"}, variant : Variants]

\* What has been done is not to be done again, and the order is kept.
LEMMA TailIs ==
  ASSUME NEW S, NEW s \in Seq(S), s # <<>>
  PROVE  /\ Head(s) \in S /\ Tail(s) \in Seq(S)
         /\ \A x : In(x, s) <=> x = Head(s) \/ In(x, Tail(s))
         /\ Len(s) \in Nat \ {0} /\ Head(s) = s[1]
         /\ Len(Tail(s)) = Len(s) - 1 /\ \A i \in 1..Len(Tail(s)) : Tail(s)[i] = s[i + 1]
<1>1. /\ Tail(s) \in Seq(S) /\ Len(Tail(s)) = Len(s) - 1 /\ Len(s) \in Nat \ {0}
      /\ \A i \in 1..Len(Tail(s)) : Tail(s)[i] = s[i + 1]
      /\ Head(s) \in S
  BY HeadTailProperties, EmptySeq
<1>2. Head(s) = s[1]
  OBVIOUS
<1> DEFINE t == Tail(s)
           n == Len(s)
<1>3. /\ Len(t) = n - 1 /\ n \in Nat \ {0} /\ \A i \in 1..(n - 1) : t[i] = s[i + 1]
  BY <1>1
<1> HIDE DEF t, n
<1>4. ASSUME NEW x, NEW i \in 1..n, s[i] = x PROVE x = s[1] \/ \E j \in 1..Len(t) : t[j] = x
  <2>1. CASE i = 1
    BY <1>4, <2>1
  <2>2. CASE i # 1
    <3>1. i - 1 \in 1..(n - 1) /\ (i - 1) + 1 = i
      BY <1>3, <2>2
    <3>2. t[i - 1] = x
      BY <1>3, <1>4, <3>1
    <3> QED
      BY <1>3, <3>1, <3>2
  <2> QED
    BY <2>1, <2>2
<1>5. ASSUME NEW x, NEW j \in 1..Len(t), t[j] = x PROVE \E i \in 1..n : s[i] = x
  <2>1. j + 1 \in 1..n /\ s[j + 1] = x
    BY <1>3, <1>5
  <2> QED
    BY <2>1
<1>6. \A x : x = s[1] => \E i \in 1..n : s[i] = x
  BY <1>3
<1>7. \A x : In(x, s) <=> x = Head(s) \/ In(x, Tail(s))
  BY <1>2, <1>4, <1>5, <1>6 DEF In, t, n
<1> QED
  BY <1>1, <1>2, <1>7

LEMMA OrderlyTail ==
  ASSUME NEW S, NEW s \in Seq(S), s # <<>>, Orderly(s)
  PROVE  /\ Orderly(Tail(s))
         /\ Head(s).do # "registry" => \A k : ~In(Step("registry", k), s)
         /\ \A k \in Kinds : Head(s) = Step("patch", k) => ~In(Step("patch", k), Tail(s))
<1> DEFINE t == Tail(s)
<1>1. /\ \A x : In(x, s) <=> x = Head(s) \/ In(x, t)
      /\ Len(s) \in Nat \ {0} /\ Head(s) = s[1] /\ t \in Seq(S)
      /\ Len(t) = Len(s) - 1 /\ \A i \in 1..Len(t) : t[i] = s[i + 1]
  BY TailIs
<1> HIDE DEF t
<1>2. RegistryFirst(t)
  <2>1. \A i \in 1..Len(t) : i + 1 \in 1..Len(s)
    BY <1>1
  <2>2. \A i, j \in 1..Len(t) : j < i => j + 1 < i + 1
    BY <1>1
  <2> QED
    BY <1>1, <2>1, <2>2 DEF Orderly, RegistryFirst
<1>3. ASSUME Head(s).do # "registry", NEW k, In(Step("registry", k), s) PROVE FALSE
  <2>1. PICK i \in 1..Len(s) : s[i] = Step("registry", k)
    BY <1>3 DEF In
  <2>2. s[i].do = "registry" /\ i # 1
    BY <1>1, <1>3, <2>1, StepIs
  <2>3. 1 \in 1..Len(s) /\ 1 < i
    BY <1>1, <2>2
  <2> QED
    BY <1>1, <1>3, <2>2, <2>3 DEF Orderly, RegistryFirst
<1>4. ASSUME NEW k \in Kinds, Head(s) = Step("patch", k) PROVE Never(t, {Step("patch", k)})
  <2> DEFINE p == Step("patch", k)
  <2> HIDE DEF p
  <2>1. s[1] = p /\ 1 \in 1..Len(s)
    BY <1>1, <1>4 DEF p
  <2>2. PICK m \in 1..Len(s) : \A i \in 1..Len(s) : s[i] = p => i = m
    BY <2>1 DEF p, Orderly, PatchOnce, Once, Never
  <2>3. m = 1
    BY <2>1, <2>2
  <2>4. \A i \in 1..Len(t) : i + 1 \in 1..Len(s) /\ i + 1 # 1
    BY <1>1
  <2> QED
    BY <1>1, <2>2, <2>3, <2>4 DEF p, Never
<1>5. PatchOnce(t)
  <2> SUFFICES ASSUME NEW k \in Kinds
               PROVE  \/ Never(t, {Step("patch", k)})
                      \/ Once(t, {Step("patch", k)}, Step("patch", k))
    BY DEF PatchOnce
  <2> DEFINE p == Step("patch", k)
  <2>1. CASE Never(s, {p})
    <3>1. \A i \in 1..Len(t) : i + 1 \in 1..Len(s)
      BY <1>1
    <3> QED
      BY <1>1, <2>1, <3>1 DEF Never
  <2>2. CASE Head(s) = p
    BY <1>4, <2>2
  <2>3. CASE Once(s, {p}, p) /\ Head(s) # p
    <3> HIDE DEF p
    <3>1. PICK m \in 1..Len(s) : s[m] = p /\ \A i \in 1..Len(s) : s[i] \in {p} => i = m
      BY <2>3 DEF Once
    <3>2. m # 1
      BY <1>1, <2>3, <3>1
    <3>3. m - 1 \in 1..Len(t) /\ (m - 1) + 1 = m
      BY <1>1, <3>2
    <3>4. t[m - 1] = p
      BY <1>1, <3>1, <3>3
    <3>5. ASSUME NEW i \in 1..Len(t), t[i] \in {p} PROVE i = m - 1
      <4>1. i + 1 \in 1..Len(s) /\ s[i + 1] \in {p}
        BY <1>1, <3>5
      <4>2. i + 1 = m
        BY <3>1, <4>1
      <4> QED
        BY <1>1, <4>2
    <3>6. Once(t, {p}, p)
      BY <3>3, <3>4, <3>5 DEF Once
    <3> QED
      BY <3>6 DEF p
  <2> QED
    BY <2>1, <2>2, <2>3 DEF Orderly, PatchOnce
<1>6. CopiedIsPatched(t)
  <2> SUFFICES ASSUME NEW k \in Kinds, In(Step("registry", k), t) PROVE In(Step("patch", k), t)
    BY DEF CopiedIsPatched
  <2>1. In(Step("registry", k), s)
    BY <1>1
  <2>2. In(Step("patch", k), s) /\ Head(s).do = "registry"
    BY <1>3, <2>1 DEF Orderly, CopiedIsPatched
  <2>3. Head(s) # Step("patch", k)
    BY <2>2, StepIs
  <2> QED
    BY <1>1, <2>2, <2>3
<1>7. \A k \in Kinds : Head(s) = Step("patch", k) => ~In(Step("patch", k), t)
  BY <1>4 DEF Never, In
<1> QED
  BY <1>2, <1>3, <1>5, <1>6, <1>7 DEF Orderly, t

LEMMA RegistryThen ==
  ASSUME NEW S, NEW s \in Seq(S), NEW t \in Seq(S), RegistryFirst(s),
         \A i \in 1..Len(t) : t[i].do # "registry"
  PROVE  RegistryFirst(s \o t)
<1>1. /\ Len(s) \in Nat /\ Len(t) \in Nat
      /\ Len(s \o t) = Len(s) + Len(t)
      /\ \A i \in 1..(Len(s) + Len(t)) :
           (s \o t)[i] = IF i <= Len(s) THEN s[i] ELSE t[i - Len(s)]
  BY ConcatProperties, LenProperties
<1> DEFINE u == s \o t
<1> HIDE DEF u
<1> SUFFICES ASSUME NEW i \in 1..Len(u), NEW j \in 1..Len(u), u[i].do = "registry", j < i
             PROVE  u[j].do = "registry"
  BY DEF RegistryFirst, u
<1>2. i <= Len(s)
  <2> SUFFICES ASSUME ~(i <= Len(s)) PROVE FALSE
    OBVIOUS
  <2>1. i - Len(s) \in 1..Len(t) /\ u[i] = t[i - Len(s)]
    BY <1>1 DEF u
  <2> QED
    BY <2>1
<1>3. i \in 1..Len(s) /\ j \in 1..Len(s) /\ u[i] = s[i] /\ u[j] = s[j]
  BY <1>1, <1>2 DEF u
<1> QED
  BY <1>3 DEF RegistryFirst

\* One part of a plan, for all the things in a list.
LEMMA PartIs ==
  ASSUME NEW op, NEW do \in Does(op), NEW S, NEW s \in Seq(S), [do : {do}, at : S] \subseteq Steps
  PROVE  /\ Each(do, s) \in Seq(StepsOf(op))
         /\ \A x : In(x, s) => In(Step(do, x), Each(do, s))
         /\ \A i \in 1..Len(Each(do, s)) : Each(do, s)[i].do = do
<1>1. /\ Each(do, s) \in Seq(Steps)
      /\ \A i \in 1..Len(Each(do, s)) : Each(do, s)[i].do = do
  BY EachType
<1>2. \A x : In(x, s) => In(Step(do, x), Each(do, s))
  BY EachIs
<1>3. \A i \in 1..Len(Each(do, s)) : Each(do, s)[i] \in Steps
  BY <1>1, ElementsIn
<1>4. \A x : In(x, Each(do, s)) => x \in StepsOf(op)
  BY <1>1, <1>3 DEF In, StepsOf
<1> QED
  BY <1>1, <1>2, <1>4, MemberSeq

LEMMA KindsOfSteps ==
  /\ [do : {"registry"}, at : Kinds] \subseteq Steps /\ [do : {"patch"}, at : Kinds] \subseteq Steps
  /\ [do : {"copy"}, at : Copied] \subseteq Steps
  /\ [do : {"symbols"}, at : ToSet(data)] \subseteq Steps
  /\ [do : {"compose"}, at : Chained] \subseteq Steps
  /\ \A do \in {"keep", "install", "sign"} : [do : {do}, at : Variants] \subseteq Steps
  /\ [do : {"check"}, at : {"out"}] \subseteq Steps
<1>1. /\ [do : {"registry"}, at : Kinds] \subseteq [do : {"registry", "patch"}, at : Kinds]
      /\ [do : {"patch"}, at : Kinds] \subseteq [do : {"registry", "patch"}, at : Kinds]
  OBVIOUS
<1>2. \A do \in {"keep", "install", "sign"} :
        [do : {do}, at : Variants] \subseteq [do : {"keep", "install", "sign"}, at : Variants]
  OBVIOUS
<1> QED
  BY <1>1, <1>2 DEF Steps

LEMMA SymbolsPart ==
  ASSUME data \in DataTrees, NEW op \in {"generate", "build", "activate"}
  PROVE  /\ Each("symbols", data) \in Seq(StepsOf(op))
         /\ \A l \in ToSet(data) : In(Step("symbols", l), Each("symbols", data))
         /\ \A i \in 1..Len(Each("symbols", data)) : Each("symbols", data)[i].do = "symbols"
<1>1. "symbols" \in Does(op)
  BY DEF Does
<1> QED
  BY <1>1, DataMembers, KindsOfSteps, PartIs

LEMMA ComposePart ==
  ASSUME data \in DataTrees, NEW op \in {"generate", "build"}
  PROVE  /\ ComposeFiles \in Seq(StepsOf(op))
         /\ \A x \in Chained : In(Step("compose", x), ComposeFiles)
         /\ \A i \in 1..Len(ComposeFiles) : ComposeFiles[i].do = "compose"
<1>1. "compose" \in Does(op)
  BY DEF Does
<1>2. ComposeFiles = Each("compose", ChainLists)
  BY Zenon DEF ComposeFiles, ChainLists, ChainList, ChainAt
<1>3. ChainLists \in Seq(Chained) /\ \A x \in Chained : In(x, ChainLists)
  BY ChainListsAre
<1> HIDE DEF ChainLists
<1>4. /\ Each("compose", ChainLists) \in Seq(StepsOf(op))
      /\ \A x : In(x, ChainLists) => In(Step("compose", x), Each("compose", ChainLists))
      /\ \A i \in 1..Len(Each("compose", ChainLists)) : Each("compose", ChainLists)[i].do = "compose"
  BY <1>1, <1>3, KindsOfSteps, PartIs
<1> QED
  BY <1>2, <1>3, <1>4

LEMMA CopyPart ==
  /\ Each("copy", SetToSeq(Copied)) \in Seq(StepsOf("build"))
  /\ \A f \in Copied : In(Step("copy", f), Each("copy", SetToSeq(Copied)))
  /\ \A i \in 1..Len(Each("copy", SetToSeq(Copied))) : Each("copy", SetToSeq(Copied))[i].do = "copy"
<1>1. "copy" \in Does("build")
  BY DEF Does
<1>2. PICK s \in Seq(Copied) : s = SetToSeq(Copied) /\ \A f \in Copied : In(f, s)
  BY CopiesAre
<1>3. /\ Each("copy", s) \in Seq(StepsOf("build"))
      /\ \A x : In(x, s) => In(Step("copy", x), Each("copy", s))
      /\ \A i \in 1..Len(Each("copy", s)) : Each("copy", s)[i].do = "copy"
  BY <1>1, KindsOfSteps, PartIs
<1> QED
  BY <1>2, <1>3

LEMMA RegistryPart ==
  /\ Each("registry", <<"lst", "xml">>) \in Seq(StepsOf("build"))
  /\ \A i \in 1..Len(Each("registry", <<"lst", "xml">>)) :
       Each("registry", <<"lst", "xml">>)[i].do = "registry"
  /\ \A k \in Kinds : In(Step("registry", k), Each("registry", <<"lst", "xml">>))
<1>1. "registry" \in Does("build")
  BY DEF Does
<1>2. <<"lst", "xml">> \in Seq(Kinds) /\ \A k \in Kinds : In(k, <<"lst", "xml">>)
  <2>1. Len(<<"lst", "xml">>) = 2 /\ <<"lst", "xml">>[1] = "lst" /\ <<"lst", "xml">>[2] = "xml"
    OBVIOUS
  <2> QED
    BY <2>1 DEF Kinds, In
<1> QED
  BY <1>1, <1>2, KindsOfSteps, PartIs

LEMMA PatchPart ==
  /\ Each("patch", <<"xml", "lst">>) \in Seq(StepsOf("build"))
  /\ \A i \in 1..Len(Each("patch", <<"xml", "lst">>)) :
       Each("patch", <<"xml", "lst">>)[i].do = "patch"
  /\ \A k \in Kinds : Once(Each("patch", <<"xml", "lst">>), {Step("patch", k)}, Step("patch", k))
<1>1. "patch" \in Does("build")
  BY DEF Does
<1> DEFINE two == <<"xml", "lst">>
<1>2. two \in Seq(Kinds) /\ Len(two) = 2 /\ two[1] = "xml" /\ two[2] = "lst"
  BY DEF Kinds
<1> HIDE DEF two
<1>3. /\ Each("patch", two) \in Seq(StepsOf("build"))
      /\ \A i \in 1..Len(Each("patch", two)) : Each("patch", two)[i].do = "patch"
  BY <1>1, <1>2, KindsOfSteps, PartIs
<1>4. Len(Each("patch", two)) = 2 /\ \A i \in 1..2 : Each("patch", two)[i] = Step("patch", two[i])
  <2>1. /\ Len(Each("patch", two)) = Len(two)
        /\ \A i \in 1..Len(two) : Each("patch", two)[i] = Step("patch", two[i])
    BY <1>2, EachIs
  <2> QED
    BY <1>2, <2>1
<1>5. ASSUME NEW k \in Kinds
      PROVE  Once(Each("patch", two), {Step("patch", k)}, Step("patch", k))
  <2>1. \A a, b : Step("patch", a) = Step("patch", b) => a = b
    BY StepIs
  <2>2. PICK m \in 1..2 : two[m] = k /\ \A i \in 1..2 : two[i] = k => i = m
    <3>1. CASE k = "xml"
      <4>1. \A i \in 1..2 : two[i] = k => i = 1
        BY <1>2, <3>1
      <4> QED
        BY <1>2, <3>1, <4>1
    <3>2. CASE k = "lst"
      <4>1. \A i \in 1..2 : two[i] = k => i = 2
        BY <1>2, <3>2
      <4> QED
        BY <1>2, <3>2, <4>1
    <3> QED
      BY <3>1, <3>2 DEF Kinds
  <2>3. Each("patch", two)[m] = Step("patch", k)
    BY <1>4, <2>2
  <2>4. \A i \in 1..2 : Each("patch", two)[i] \in {Step("patch", k)} => i = m
    BY <1>4, <2>1, <2>2
  <2> QED
    BY <1>4, <2>3, <2>4 DEF Once
<1> QED
  BY <1>3, <1>5 DEF two

AllOf(s, do) == \A i \in 1..Len(s) : s[i].do = do

LEMMA NeverPatch ==
  ASSUME NEW s, NEW do, do # "patch", AllOf(s, do), NEW k
  PROVE  Never(s, {Step("patch", k)})
BY StepIs DEF Never, AllOf

\* A build's five parts, one after the other.
Five(r, c, y, p, x) == (((r \o c) \o y) \o p) \o x
PatchesEach(p) == \A k \in Kinds : Once(p, {Step("patch", k)}, Step("patch", k))

LEMMA BuildOrder ==
  ASSUME NEW S, NEW r \in Seq(S), NEW c \in Seq(S), NEW y \in Seq(S), NEW p \in Seq(S),
         NEW x \in Seq(S),
         AllOf(r, "registry"), AllOf(c, "copy"), AllOf(y, "symbols"), AllOf(p, "patch"),
         AllOf(x, "compose"),
         PatchesEach(p)
  PROVE  /\ Five(r, c, y, p, x) \in Seq(S) /\ Orderly(Five(r, c, y, p, x))
         /\ \A e : In(e, Five(r, c, y, p, x)) <=>
                     In(e, r) \/ In(e, c) \/ In(e, y) \/ In(e, p) \/ In(e, x)
<1> DEFINE b1 == r \o c
           b2 == b1 \o y
           b3 == b2 \o p
           b4 == b3 \o x
<1>1. b1 \in Seq(S) /\ b2 \in Seq(S) /\ b3 \in Seq(S) /\ b4 \in Seq(S)
  BY ConcatProperties
<1>2. RegistryFirst(r)
  BY DEF RegistryFirst, AllOf
<1>3. RegistryFirst(b1)
  BY <1>2, RegistryThen DEF AllOf
<1> HIDE DEF b1
<1>4. RegistryFirst(b2)
  BY <1>1, <1>3, RegistryThen DEF AllOf
<1> HIDE DEF b2
<1>5. RegistryFirst(b3)
  BY <1>1, <1>4, RegistryThen DEF AllOf
<1> HIDE DEF b3
<1>6. RegistryFirst(b4)
  BY <1>1, <1>5, RegistryThen DEF AllOf
<1>7. \A e : In(e, b1) <=> In(e, r) \/ In(e, c)
  BY ConcatIn DEF b1
<1>8. \A e : In(e, b2) <=> In(e, b1) \/ In(e, y)
  BY <1>1, ConcatIn DEF b2
<1>9. \A e : In(e, b3) <=> In(e, b2) \/ In(e, p)
  BY <1>1, ConcatIn DEF b3
<1>10. \A e : In(e, b4) <=> In(e, b3) \/ In(e, x)
  BY <1>1, ConcatIn
<1>11. \A k \in Kinds : Once(b4, {Step("patch", k)}, Step("patch", k))
  <2> SUFFICES ASSUME NEW k \in Kinds PROVE Once(b4, {Step("patch", k)}, Step("patch", k))
    OBVIOUS
  <2>1. Never(r, {Step("patch", k)}) /\ Never(c, {Step("patch", k)})
    BY NeverPatch
  <2>2. Never(y, {Step("patch", k)}) /\ Never(x, {Step("patch", k)})
    BY NeverPatch
  <2>3. Never(b1, {Step("patch", k)})
    BY <2>1, ConcatNever DEF b1
  <2>4. Never(b2, {Step("patch", k)})
    BY <1>1, <2>2, <2>3, ConcatNever DEF b2
  <2>5. Once(b3, {Step("patch", k)}, Step("patch", k))
    BY <1>1, <2>4, ConcatOnce DEF b3, PatchesEach
  <2> QED
    BY <1>1, <2>2, <2>5, ConcatOnce
<1>12. PatchOnce(b4)
  BY <1>11 DEF PatchOnce
<1>13. CopiedIsPatched(b4)
  <2>1. \A k \in Kinds : In(Step("patch", k), b4)
    BY <1>11 DEF Once, In
  <2> QED
    BY <2>1 DEF CopiedIsPatched
<1>14. Orderly(b4)
  BY <1>6, <1>12, <1>13 DEF Orderly
<1>15. b4 \in Seq(S) /\ \A e : In(e, b4) <=> In(e, r) \/ In(e, c) \/ In(e, y) \/ In(e, p) \/ In(e, x)
  BY <1>1, <1>7, <1>8, <1>9, <1>10
<1> QED
  BY <1>14, <1>15 DEF b1, b2, b3, Five

LEMMA InstallIs ==
  ASSUME NEW v \in Variants
  PROVE  Install(v) \in Seq(StepsOf("activate"))
<1>1. "keep" \in Does("activate") /\ "install" \in Does("activate") /\ "sign" \in Does("activate")
  BY DEF Does
<1>2. <<v>> \in Seq(Variants)
  OBVIOUS
<1>3. /\ Each("keep", <<v>>) \in Seq(StepsOf("activate"))
      /\ Each("install", <<v>>) \in Seq(StepsOf("activate"))
      /\ Each("sign", <<v>>) \in Seq(StepsOf("activate"))
  BY <1>1, <1>2, KindsOfSteps, PartIs
<1> DEFINE a == Each("keep", <<v>>)
           b == Each("install", <<v>>)
           c == Each("sign", <<v>>)
<1>4. Install(v) \in {<<>>, a \o b \o <<>>, a \o b \o c}
  BY DEF Install
<1> HIDE DEF a, b, c
<1>5. a \in Seq(StepsOf("activate")) /\ b \in Seq(StepsOf("activate")) /\ c \in Seq(StepsOf("activate"))
  BY <1>3 DEF a, b, c
<1>6. <<>> \in Seq(StepsOf("activate"))
  BY EmptyAndOne
<1>7. a \o b \in Seq(StepsOf("activate"))
  BY <1>5, ConcatProperties
<1>8. a \o b \o <<>> \in Seq(StepsOf("activate")) /\ a \o b \o c \in Seq(StepsOf("activate"))
  BY <1>5, <1>6, <1>7, ConcatProperties
<1> QED
  BY <1>4, <1>6, <1>8

\* What a plan has in it for a command to do.
Complete(op, seq) ==
  /\ op \in {"generate", "build", "activate"} =>
       \A l \in ToSet(data) : In(Step("symbols", l), seq)
  /\ op \in {"generate", "build"} => \A x \in Chained : In(Step("compose", x), seq)
  /\ op = "build" => /\ \A f \in Copied : In(Step("copy", f), seq)
                     /\ \A k \in Kinds : In(Step("patch", k), seq)
                     /\ \A k \in Kinds : In(Step("registry", k), seq)

LEMMA CommandsAre ==
  ASSUME data \in DataTrees, NEW c \in Commands
  PROVE  /\ c \in Cmds \ {Idle}
         /\ c.op \in {"generate", "build", "dropin-check", "activate"}
         /\ c.op = "activate" => c.variant \in Variants
<1>1. \A v \in UNION {ToSet(l.variants) : l \in ToSet(data)} : v \in Variants
  BY DataIs, LayoutIs
<1>2. CASE c \in [op : {"generate", "build", "dropin-check"}]
  BY <1>2 DEF Cmds, Idle
<1>3. CASE c \in [op : {"activate"}, variant : UNION {ToSet(l.variants) : l \in ToSet(data)}]
  <2>1. c.op = "activate" /\ c.variant \in Variants /\ c \in [op : {"activate"}, variant : Variants]
    BY <1>1, <1>3
  <2>2. c # Idle
    BY <2>1 DEF Idle
  <2> QED
    BY <2>1, <2>2 DEF Cmds
<1> QED
  BY <1>2, <1>3 DEF Commands

LEMMA PlanIs ==
  ASSUME data \in DataTrees, NEW c \in Commands
  PROVE  /\ Plan(c) \in Seq(StepsOf(c.op)) /\ Complete(c.op, Plan(c))
         /\ c.op = "build" => Orderly(Plan(c))
<1> DEFINE Y == Each("symbols", data)
           X == ComposeFiles
           C == Each("copy", SetToSeq(Copied))
           R == Each("registry", <<"lst", "xml">>)
           P == Each("patch", <<"xml", "lst">>)
<1>1. c.op \in {"generate", "build", "dropin-check", "activate"}
      /\ (c.op = "activate" => c.variant \in Variants)
  BY CommandsAre
<1>2. CASE c.op = "generate"
  <2>1. Plan(c) = Y \o X
    BY <1>2 DEF Plan
  <2>2. /\ Y \in Seq(StepsOf("generate")) /\ \A l \in ToSet(data) : In(Step("symbols", l), Y)
        /\ X \in Seq(StepsOf("generate")) /\ \A x \in Chained : In(Step("compose", x), X)
    BY SymbolsPart, ComposePart
  <2> HIDE DEF Y, X
  <2>3. Y \o X \in Seq(StepsOf("generate"))
    BY <2>2, ConcatProperties
  <2>4. \A e : In(e, Y \o X) <=> In(e, Y) \/ In(e, X)
    BY <2>2, ConcatIn
  <2>5. Complete("generate", Y \o X)
    BY <2>2, <2>4 DEF Complete
  <2> QED
    BY <1>2, <2>1, <2>3, <2>5
<1>3. CASE c.op = "build"
  <2>1. Plan(c) = Five(R, C, Y, P, X)
    <3>1. CopyTree = R \o C
      BY Zenon DEF CopyTree, Copied
    <3>2. Plan(c) = ((CopyTree \o Y) \o P) \o X
      BY <1>3 DEF Plan
    <3> QED
      BY <3>1, <3>2 DEF Five
  <2>2. /\ Y \in Seq(StepsOf("build")) /\ \A l \in ToSet(data) : In(Step("symbols", l), Y)
        /\ AllOf(Y, "symbols")
    BY SymbolsPart DEF AllOf
  <2>3. /\ X \in Seq(StepsOf("build")) /\ \A x \in Chained : In(Step("compose", x), X)
        /\ AllOf(X, "compose")
    BY ComposePart DEF AllOf
  <2>4. /\ C \in Seq(StepsOf("build")) /\ \A f \in Copied : In(Step("copy", f), C)
        /\ AllOf(C, "copy")
    BY CopyPart DEF AllOf
  <2>5. /\ R \in Seq(StepsOf("build")) /\ AllOf(R, "registry")
        /\ \A k \in Kinds : In(Step("registry", k), R)
    BY RegistryPart DEF AllOf
  <2>6. /\ P \in Seq(StepsOf("build")) /\ AllOf(P, "patch")
        /\ PatchesEach(P)
    BY PatchPart DEF AllOf, PatchesEach
  <2> DEFINE B == Five(R, C, Y, P, X)
  <2> HIDE DEF Y, X, C, R, P
  <2>7. /\ B \in Seq(StepsOf("build")) /\ Orderly(B)
        /\ \A e : In(e, B) <=> In(e, R) \/ In(e, C) \/ In(e, Y) \/ In(e, P) \/ In(e, X)
    BY <2>2, <2>3, <2>4, <2>5, <2>6, BuildOrder
  <2>8. \A k \in Kinds : In(Step("patch", k), P)
    BY <2>6 DEF Once, In, PatchesEach
  <2> HIDE DEF B
  <2>9. Complete("build", B)
    BY <2>2, <2>3, <2>4, <2>5, <2>7, <2>8 DEF Complete
  <2> QED
    BY <1>3, <2>1, <2>7, <2>9 DEF B
<1>4. CASE c.op = "dropin-check"
  <2>1. Plan(c) = Each("check", <<"out">>)
    BY <1>4 DEF Plan
  <2>2. "check" \in Does("dropin-check") /\ <<"out">> \in Seq({"out"})
    BY DEF Does
  <2>3. Each("check", <<"out">>) \in Seq(StepsOf("dropin-check"))
    BY <2>2, KindsOfSteps, PartIs
  <2> QED
    BY <1>4, <2>1, <2>3 DEF Complete
<1>5. CASE c.op = "activate"
  <2>1. Plan(c) = Y \o Install(c.variant)
    BY <1>5 DEF Plan
  <2>2. /\ Y \in Seq(StepsOf("activate")) /\ \A l \in ToSet(data) : In(Step("symbols", l), Y)
        /\ Install(c.variant) \in Seq(StepsOf("activate"))
    BY <1>1, <1>5, SymbolsPart, InstallIs
  <2> HIDE DEF Y
  <2>3. Y \o Install(c.variant) \in Seq(StepsOf("activate"))
    BY <2>2, ConcatProperties
  <2>4. \A e : In(e, Y \o Install(c.variant)) <=> In(e, Y) \/ In(e, Install(c.variant))
    BY <2>2, ConcatIn
  <2>5. Complete("activate", Y \o Install(c.variant))
    BY <2>2, <2>4 DEF Complete
  <2> QED
    BY <1>5, <2>1, <2>3, <2>5
<1> QED
  BY <1>1, <1>2, <1>3, <1>4, <1>5
-----------------------------------------------------------------------------
(* Types.                                                                   *)

\* What is left of a command's plan.
TodoOK ==
  /\ cmd \in Cmds /\ todo \in Seq(StepsOf(cmd.op))
  /\ cmd = Idle => todo = <<>>
  /\ cmd.op = "build" => Orderly(todo)

TypeInv == TypeOK /\ TodoOK

LEMMA SameSteps ==
  ASSUME UNCHANGED <<upstream, data>>
  PROVE  /\ Copied' = Copied /\ Chained' = Chained /\ Owned' = Owned
         /\ \A op : StepsOf(op)' = StepsOf(op)
         /\ \A op, l : Generated(op, l)' = Generated(op, l)
         /\ \A reg : PatchXML(reg)' = PatchXML(reg)
         /\ \A lst : PatchLst(lst)' = PatchLst(lst)
<1>1. Owned' = Owned
  BY DEF Owned
<1>2. Copied' = Copied
  BY <1>1 DEF Copied
<1>3. Chained' = Chained
  BY DEF Chained
<1>4. Steps' = Steps
  BY <1>2, <1>3 DEF Steps
<1>5. \A op : StepsOf(op)' = StepsOf(op)
  BY <1>4 DEF StepsOf
<1>6. \A op, l : Generated(op, l)' = Generated(op, l)
  BY DEF Generated
<1>7. \A reg : PatchXML(reg)' = PatchXML(reg)
  BY DEF PatchXML
<1>8. \A lst : PatchLst(lst)' = PatchLst(lst)
  BY DEF PatchLst
<1> QED
  BY <1>1, <1>2, <1>3, <1>5, <1>6, <1>7, <1>8

LEMMA CmdIs ==
  ASSUME cmd \in Cmds
  PROVE  /\ cmd.op \in {"none", "generate", "build", "dropin-check", "activate"}
         /\ cmd.op = "none" <=> cmd = Idle
BY DEF Cmds, Idle

LEMMA HeadIs ==
  ASSUME TodoOK, todo # <<>>
  PROVE  /\ Head(todo) \in Steps /\ Head(todo).do \in Does(cmd.op)
         /\ Head(todo) = Step(Head(todo).do, Head(todo).at)
         /\ cmd # Idle
         /\ Head(todo).do = "registry" => Head(todo).at \in Kinds /\ cmd.op = "build"
         /\ Head(todo).do = "patch" => Head(todo).at \in Kinds /\ cmd.op = "build"
         /\ Head(todo).do = "copy" => Head(todo).at \in Copied /\ cmd.op = "build"
         /\ Head(todo).do = "symbols" =>
              Head(todo).at \in ToSet(data) /\ cmd.op \in {"generate", "build", "activate"}
         /\ Head(todo).do = "compose" =>
              Head(todo).at \in Chained /\ cmd.op \in {"generate", "build"}
         /\ Head(todo).do \in {"keep", "install", "sign"} => cmd.op = "activate"
         /\ Head(todo).do = "check" => cmd.op = "dropin-check"
<1>1. Head(todo) \in StepsOf(cmd.op)
  BY TailIs DEF TodoOK
<1> DEFINE x == Head(todo)
<1>2. x \in Steps /\ x.do \in Does(cmd.op)
  BY <1>1 DEF StepsOf
<1> HIDE DEF x
<1>3. cmd # Idle
  BY DEF TodoOK
<1>4. x = Step(x.do, x.at)
  BY <1>2 DEF Steps, Step
<1>5. /\ x.do \in {"registry", "patch"} => x.at \in Kinds
      /\ x.do = "copy" => x.at \in Copied
      /\ x.do = "symbols" => x.at \in ToSet(data)
      /\ x.do = "compose" => x.at \in Chained
  BY <1>2 DEF Steps
<1>6. cmd.op \in {"none", "generate", "build", "dropin-check", "activate"}
  BY CmdIs DEF TodoOK
<1>7. /\ x.do \in {"registry", "patch", "copy"} => cmd.op = "build"
      /\ x.do = "symbols" => cmd.op \in {"generate", "build", "activate"}
      /\ x.do = "compose" => cmd.op \in {"generate", "build"}
      /\ x.do \in {"keep", "install", "sign"} => cmd.op = "activate"
      /\ x.do = "check" => cmd.op = "dropin-check"
  BY <1>2, <1>6 DEF Does
<1> QED
  BY <1>2, <1>3, <1>4, <1>5, <1>7 DEF x

\* A command that goes on, and one that ends.
Advance == todo # <<>> /\ todo' = Tail(todo) /\ UNCHANGED <<upstream, data, cmd>>
Halt == cmd' = Idle /\ todo' = <<>>

LEMMA AdvanceOK ==
  ASSUME TodoOK, Advance
  PROVE  TodoOK'
<1>1. cmd' = cmd /\ StepsOf(cmd.op)' = StepsOf(cmd.op)
  BY SameSteps DEF Advance
<1>2. Tail(todo) \in Seq(StepsOf(cmd.op))
  BY TailIs DEF TodoOK, Advance
<1>3. cmd.op = "build" => Orderly(Tail(todo))
  BY OrderlyTail DEF TodoOK, Advance
<1>4. cmd # Idle
  BY DEF TodoOK, Advance
<1>5. Orderly(todo)' <=> Orderly(todo')
  BY DEF Orderly, RegistryFirst, PatchOnce, CopiedIsPatched, Never, Once, In
<1> QED
  BY <1>1, <1>2, <1>3, <1>4, <1>5 DEF TodoOK, Advance

LEMMA HaltOK ==
  ASSUME Halt
  PROVE  TodoOK'
<1>1. cmd' = Idle /\ todo' = <<>> /\ Idle \in Cmds /\ Idle.op = "none"
  BY DEF Halt, Cmds, Idle
<1>2. <<>> \in Seq(StepsOf(cmd.op)')
  BY EmptyAndOne
<1>3. cmd'.op # "build"
  BY <1>1
<1> QED
  BY <1>1, <1>2, <1>3 DEF TodoOK

\* What a write that stops half way leaves is a text, or a registry, too.
LEMMA PartTypes ==
  /\ \A text \in Texts : Cut(text) \subseteq Texts
  /\ \A reg \in Registry : PartsXML(reg) \subseteq Registry
  /\ \A lst \in Lst : PartsLst(lst) \subseteq Lst
<1>1. ASSUME NEW text \in Texts, NEW part \in Cut(text) PROVE part \in Texts
  <2>1. /\ part.blocks \in Prefixes(text.blocks)
        /\ part.parses \in BOOLEAN /\ part.open \in BOOLEAN
        /\ part = [blocks |-> part.blocks, parses |-> part.parses, open |-> part.open]
    BY DEF Cut
  <2>2. part.blocks \in Seq(Blocks)
    BY <2>1, TextIs, PrefixType
  <2> QED
    BY <2>1, <2>2 DEF Texts
<1>2. ASSUME NEW reg \in Registry, NEW part \in PartsXML(reg) PROVE part \in Registry
  BY PrefixType DEF PartsXML, Registry
<1>3. ASSUME NEW lst \in Lst, NEW part \in PartsLst(lst) PROVE part \in Lst
  <2>1. lst.layouts \in Seq(Files) /\ lst.variants \in Seq(Line)
    BY LstIs
  <2>2. CASE \E l \in Prefixes(lst.layouts) : part = [layouts |-> l, variants |-> <<>>]
    <3>1. PICK l \in Prefixes(lst.layouts) : part = [layouts |-> l, variants |-> <<>>]
      BY <2>2
    <3>2. l \in Seq(Files) /\ <<>> \in Seq(Line)
      BY <2>1, PrefixType, EmptyAndOne
    <3> QED
      BY <3>1, <3>2 DEF Lst, Line
  <2>3. CASE part \in [layouts : {lst.layouts}, variants : Prefixes(lst.variants)]
    <3>1. part.layouts = lst.layouts /\ part.variants \in Prefixes(lst.variants)
          /\ part = [layouts |-> part.layouts, variants |-> part.variants]
      BY <2>3
    <3>2. part.variants \in Seq(Line)
      BY <2>1, <3>1, PrefixType
    <3> QED
      BY <2>1, <3>1, <3>2 DEF Lst, Line
  <2> QED
    BY <2>2, <2>3 DEF PartsLst
<1> QED
  BY <1>1, <1>2, <1>3

\* The parts of TypeOK.
TreeOK == tree \in [{"out", "home"} -> [Files -> Texts \union {NoFile}]]
RulesOK == rules \in [xml : Registry \union {NoFile}, lst : Lst \union {NoFile}]
ChainsOK == chains \subseteq [path : Paths, state : {"whole", "part", "empty"}]
HandOK ==
  \A x \in {xcompose} \union {b.of : b \in backups} :
    x = NoFile \/ (x.by \in Hands \union {"flexkb"} /\ (x.marked => x.by = "flexkb"))
RestOK ==
  /\ upstream \in Upstreams /\ data \in DataTrees /\ owed \subseteq Hands
  /\ report \in {"none", "clean", "missing"}
  /\ finished \in [{"out", "home"} -> {"none", "generate", "build", "activate"}]

LEMMA TypeParts ==
  TypeInv <=> TodoOK /\ TreeOK /\ RulesOK /\ ChainsOK /\ HandOK /\ RestOK
<1>1. TodoOK => (cmd # Idle => cmd.op \in {"generate", "build", "dropin-check", "activate"})
  BY CmdIs DEF TodoOK
<1> QED
  BY <1>1 DEF TypeInv, TypeOK, TreeOK, RulesOK, ChainsOK, HandOK, RestOK

LEMMA NextTypeParts ==
  TypeInv' <=> TodoOK' /\ TreeOK' /\ RulesOK' /\ ChainsOK' /\ HandOK' /\ RestOK'
BY TypeParts, PTL

LEMMA UpstreamIs ==
  ASSUME upstream \in Upstreams
  PROVE  /\ upstream.symbols \in [Files -> Texts \union {NoFile}]
         /\ upstream.xml \in Registry \union {NoFile} /\ upstream.lst \in Lst \union {NoFile}
BY UpstreamAssumption

LEMMA TypeInit == Init => TypeInv
<1> SUFFICES ASSUME Init PROVE TypeInv
  OBVIOUS
<1>1. TodoOK
  <2>1. cmd = Idle /\ todo = <<>> /\ cmd.op = "none" /\ cmd \in Cmds
    BY DEF Init, Cmds, Idle
  <2>2. todo \in Seq(StepsOf(cmd.op))
    BY <2>1, EmptyAndOne
  <2> QED
    BY <2>1, <2>2 DEF TodoOK
<1>2. TreeOK
  BY DEF Init, TreeOK
<1>3. RulesOK /\ ChainsOK /\ HandOK /\ RestOK
  BY DEF Init, RulesOK, ChainsOK, HandOK, RestOK
<1> QED
  BY <1>1, <1>2, <1>3, TypeParts

LEMMA StartType ==
  ASSUME TypeInv, NEW c \in Commands, Start(c)
  PROVE  TypeInv'
<1>1. data \in DataTrees /\ upstream \in Upstreams
  BY TypeParts DEF RestOK
<1>2. /\ cmd' = c /\ todo' = Plan(c)
      /\ UNCHANGED <<upstream, data, tree, rules, chains, xcompose, backups, owed>>
  BY DEF Start
<1>3. c \in Cmds /\ c # Idle /\ c.op \in {"generate", "build", "dropin-check", "activate"}
  BY <1>1, CommandsAre
<1>4. TodoOK'
  <2>1. Plan(c) \in Seq(StepsOf(c.op)) /\ (c.op = "build" => Orderly(Plan(c)))
    BY <1>1, PlanIs
  <2>2. StepsOf(c.op)' = StepsOf(c.op)
    BY <1>2, SameSteps
  <2>3. Orderly(todo)' <=> Orderly(todo')
    BY DEF Orderly, RegistryFirst, PatchOnce, CopiedIsPatched, Never, Once, In
  <2> QED
    BY <1>2, <1>3, <2>1, <2>2, <2>3 DEF TodoOK
<1>5. TreeOK' /\ RulesOK' /\ ChainsOK' /\ HandOK'
  BY <1>2, TypeParts DEF TreeOK, RulesOK, ChainsOK, HandOK
<1>6. finished' \in [{"out", "home"} -> {"none", "generate", "build", "activate"}]
  <2>1. finished \in [{"out", "home"} -> {"none", "generate", "build", "activate"}]
    BY TypeParts DEF RestOK
  <2>2. finished' \in {[finished EXCEPT !["home"] = "none"], [finished EXCEPT !["out"] = "none"], finished}
    BY <1>3 DEF Start
  <2> QED
    BY <2>1, <2>2
<1>7. RestOK'
  <2>1. report' \in {report, "none"}
    BY DEF Start
  <2>2. RestOK
    BY TypeParts
  <2> QED
    BY <1>2, <1>6, <2>1, <2>2 DEF RestOK
<1> QED
  BY <1>4, <1>5, <1>7, NextTypeParts

\* A step that writes ends the command or goes on with it.
LEMMA Goes ==
  ASSUME \/ CopyFile \/ CopyRules \/ WriteSymbols \/ PatchRules \/ WriteCompose
         \/ KeepUserFile \/ InstallXCompose \/ SignXCompose
  PROVE  /\ Advance \/ Halt
         /\ todo # <<>> /\ UNCHANGED <<upstream, data, finished, report, owed, script>>
<1>1. todo # <<>> /\ (Proceed \/ Stop)
  <2>1. CASE CopyFile \/ WriteSymbols
    BY <2>1 DEF CopyFile, WriteSymbols, PutSymbols, At
  <2>2. CASE CopyRules \/ PatchRules
    BY <2>2 DEF CopyRules, PatchRules, PutRules, At
  <2>3. CASE WriteCompose \/ KeepUserFile \/ InstallXCompose \/ SignXCompose
    BY <2>3 DEF WriteCompose, KeepUserFile, InstallXCompose, SignXCompose, At
  <2> QED
    BY <2>1, <2>2, <2>3
<1> QED
  BY <1>1 DEF Proceed, Stop, Advance, Halt

LEMMA GoesType ==
  ASSUME TypeInv, Advance \/ Halt, UNCHANGED <<upstream, data, finished, report, owed>>
  PROVE  TodoOK' /\ RestOK'
<1>1. TodoOK'
  BY AdvanceOK, HaltOK DEF TypeInv
<1>2. RestOK'
  BY TypeParts DEF RestOK
<1> QED
  BY <1>1, <1>2

LEMMA DestIs == Dest \in {"out", "home"}
BY DEF Dest

LEMMA PutSymbolsType ==
  ASSUME TypeInv, NEW f \in Files, NEW text \in Texts, PutSymbols(f, text)
  PROVE  TreeOK'
<1>1. \E new \in Texts : tree' = [tree EXCEPT ![Dest][f] = new]
  <2>1. CASE tree' = [tree EXCEPT ![Dest][f] = text] /\ Proceed
    BY <2>1
  <2>2. CASE \E part \in Cut(text) : tree' = [tree EXCEPT ![Dest][f] = part] /\ Stop
    BY <2>2, PartTypes
  <2> QED
    BY <2>1, <2>2 DEF PutSymbols
<1>2. PICK new \in Texts : tree' = [tree EXCEPT ![Dest][f] = new]
  BY <1>1
<1> QED
  BY <1>2, DestIs, TypeParts DEF TreeOK

LEMMA CopyFileType ==
  ASSUME TypeInv, CopyFile
  PROVE  TypeInv'
<1>1. TodoOK' /\ RestOK'
  BY Goes, GoesType
<1>2. TodoOK /\ todo # <<>> /\ Head(todo).do = "copy"
  BY DEF TypeInv, CopyFile, At
<1>3. Head(todo).at \in Copied
  BY <1>2, HeadIs
<1>4. Head(todo).at \in Files /\ upstream.symbols[Head(todo).at] \in Texts
  BY <1>3, TypeParts, UpstreamIs DEF Copied, RestOK
<1>5. TreeOK'
  BY <1>4, PutSymbolsType DEF CopyFile
<1>6. RulesOK' /\ ChainsOK' /\ HandOK'
  BY TypeParts DEF CopyFile, RulesOK, ChainsOK, HandOK
<1> QED
  BY <1>1, <1>5, <1>6, NextTypeParts

LEMMA WriteSymbolsType ==
  ASSUME TypeInv, WriteSymbols
  PROVE  TypeInv'
<1>1. TodoOK' /\ RestOK'
  BY Goes, GoesType
<1> DEFINE l == Head(todo).at
<1>2. TodoOK /\ todo # <<>> /\ Head(todo).do = "symbols"
  BY DEF TypeInv, WriteSymbols, At
<1>3. l \in ToSet(data)
  BY <1>2, HeadIs
<1>4. l \in Layouts /\ l.file \in Files
  BY <1>3, TypeParts, DataIs, LayoutIs DEF RestOK
<1>5. Generated(cmd.op, l) \in Texts
  BY <1>4, GeneratedIs, TypeParts, UpstreamIs DEF RestOK
<1>6. TreeOK'
  <2>1. tree' = tree \/ PutSymbols(l.file, Generated(cmd.op, l))
    BY DEF WriteSymbols
  <2>2. CASE tree' = tree
    BY <2>2, TypeParts DEF TreeOK
  <2>3. CASE PutSymbols(l.file, Generated(cmd.op, l))
    BY <1>4, <1>5, <2>3, PutSymbolsType
  <2> QED
    BY <2>1, <2>2, <2>3
<1>7. RulesOK' /\ ChainsOK' /\ HandOK'
  BY TypeParts DEF WriteSymbols, RulesOK, ChainsOK, HandOK
<1> QED
  BY <1>1, <1>6, <1>7, NextTypeParts

\* A registry file that is written, whole or in part.
LEMMA PutRulesType ==
  ASSUME TypeInv, NEW kind \in Kinds, NEW content, NEW parts, PutRules(kind, content, parts),
         \/ kind = "xml" /\ content \in Registry /\ parts \subseteq Registry
         \/ kind = "lst" /\ content \in Lst /\ parts \subseteq Lst
  PROVE  RulesOK'
<1>1. \E new \in parts \union {content} : rules' = [rules EXCEPT ![kind] = new]
  BY DEF PutRules
<1>2. rules \in [xml : Registry \union {NoFile}, lst : Lst \union {NoFile}]
  BY TypeParts DEF RulesOK
<1>3. PICK new \in parts \union {content} : rules' = [rules EXCEPT ![kind] = new]
  BY <1>1
<1>4. CASE kind = "xml"
  <2>1. new \in Registry
    BY <1>3, <1>4
  <2>2. rules' = [rules EXCEPT !["xml"] = new]
    BY <1>3, <1>4
  <2> QED
    BY <1>2, <2>1, <2>2 DEF RulesOK
<1>5. CASE kind = "lst"
  <2>1. new \in Lst
    BY <1>3, <1>5
  <2>2. rules' = [rules EXCEPT !["lst"] = new]
    BY <1>3, <1>5
  <2> QED
    BY <1>2, <2>1, <2>2 DEF RulesOK
<1> QED
  BY <1>4, <1>5 DEF Kinds

LEMMA CopyRulesType ==
  ASSUME TypeInv, CopyRules
  PROVE  TypeInv'
<1>1. TodoOK' /\ RestOK'
  BY Goes, GoesType
<1> DEFINE kind == Head(todo).at
<1>2. TodoOK /\ todo # <<>> /\ Head(todo).do = "registry"
  BY DEF TypeInv, CopyRules, At
<1>3. kind \in Kinds
  BY <1>2, HeadIs
<1>4. upstream.xml \in Registry \union {NoFile} /\ upstream.lst \in Lst \union {NoFile}
  BY TypeParts, UpstreamIs DEF RestOK
<1>5. RulesOK'
  <2>1. CASE upstream[kind] = NoFile
    <3>1. rules' = rules
      BY <2>1 DEF CopyRules
    <3> QED
      BY <3>1, TypeParts DEF RulesOK
  <2>2. CASE kind = "xml" /\ upstream[kind] # NoFile
    <3>1. PutRules("xml", upstream.xml, PartsXML(upstream.xml)) /\ upstream.xml \in Registry
      BY <1>4, <2>2 DEF CopyRules
    <3> QED
      BY <3>1, PutRulesType, PartTypes DEF Kinds
  <2>3. CASE kind = "lst" /\ upstream[kind] # NoFile
    <3>1. PutRules("lst", upstream.lst, PartsLst(upstream.lst)) /\ upstream.lst \in Lst
      BY <1>4, <2>3 DEF CopyRules
    <3> QED
      BY <3>1, PutRulesType, PartTypes DEF Kinds
  <2> QED
    BY <1>3, <2>1, <2>2, <2>3 DEF Kinds
<1>6. TreeOK' /\ ChainsOK' /\ HandOK'
  BY TypeParts DEF CopyRules, TreeOK, ChainsOK, HandOK
<1> QED
  BY <1>1, <1>5, <1>6, NextTypeParts

LEMMA PatchRulesType ==
  ASSUME TypeInv, PatchRules
  PROVE  TypeInv'
<1>1. TodoOK' /\ RestOK'
  BY Goes, GoesType
<1> DEFINE kind == Head(todo).at
<1>2. TodoOK /\ todo # <<>> /\ Head(todo).do = "patch"
  BY DEF TypeInv, PatchRules, At
<1>3. kind \in Kinds
  BY <1>2, HeadIs
<1>4. /\ rules.xml \in Registry \union {NoFile} /\ rules.lst \in Lst \union {NoFile}
      /\ data \in DataTrees
  BY TypeParts DEF RulesOK, RestOK
<1>5. RulesOK'
  <2>1. CASE rules[kind] = NoFile
    <3>1. rules' = rules
      BY <2>1 DEF PatchRules
    <3> QED
      BY <3>1, TypeParts DEF RulesOK
  <2>2. CASE kind = "xml" /\ rules[kind] # NoFile
    <3>1. PutRules("xml", PatchXML(rules.xml), PartsXML(PatchXML(rules.xml)))
          /\ rules.xml \in Registry
      BY <1>4, <2>2 DEF PatchRules
    <3>2. PatchXML(rules.xml) \in Registry
      BY <1>4, <3>1, PatchXMLIs
    <3> QED
      BY <3>1, <3>2, PutRulesType, PartTypes DEF Kinds
  <2>3. CASE kind = "lst" /\ rules[kind] # NoFile
    <3>1. PutRules("lst", PatchLst(rules.lst), PartsLst(PatchLst(rules.lst)))
          /\ rules.lst \in Lst
      BY <1>4, <2>3 DEF PatchRules
    <3>2. PatchLst(rules.lst) \in Lst
      BY <1>4, <3>1, PatchLstIs
    <3> QED
      BY <3>1, <3>2, PutRulesType, PartTypes DEF Kinds
  <2> QED
    BY <1>3, <2>1, <2>2, <2>3 DEF Kinds
<1>6. TreeOK' /\ ChainsOK' /\ HandOK'
  BY TypeParts DEF PatchRules, TreeOK, ChainsOK, HandOK
<1> QED
  BY <1>1, <1>5, <1>6, NextTypeParts

\* A variant to write chains of.
ChainOf(l, v) == [file |-> l.file, variant |-> v]

LEMMA ChainOfIs == \A l, v : ChainOf(l, v).file = l.file /\ ChainOf(l, v).variant = v
BY DEF ChainOf

LEMMA ChainedIs ==
  /\ \A x \in Chained : \E l \in ToSet(data) : \E v \in ToSet(l.variants) :
       v.compose # "none" /\ x = ChainOf(l, v)
  /\ \A l \in ToSet(data) : \A v \in ToSet(l.variants) :
       v.compose # "none" => ChainOf(l, v) \in Chained
<1>1. ASSUME NEW x \in Chained
      PROVE  \E l \in ToSet(data) : \E v \in ToSet(l.variants) : v.compose # "none" /\ x = ChainOf(l, v)
  <2>1. PICK l \in ToSet(data) : x \in ChainsOf(l)
    BY DEF Chained
  <2> QED
    BY <2>1 DEF ChainsOf, ChainOf
<1>2. ASSUME NEW l \in ToSet(data), NEW v \in ToSet(l.variants), v.compose # "none"
      PROVE  ChainOf(l, v) \in Chained
  <2>1. ChainOf(l, v) \in ChainsOf(l)
    BY <1>2 DEF ChainsOf, ChainOf
  <2> QED
    BY <2>1 DEF Chained
<1> QED
  BY <1>1, <1>2

\* What the files of the other variants are after one of them is written, and
\* what its own is.
Others(path) == {c \in chains : c.path # path}
ChainFile(path, state) == [path |-> path, state |-> state]
PathOf(x) == Path(x.file, x.variant.name)

LEMMA ComposeWrites ==
  ASSUME WriteCompose
  PROVE  LET x == Head(todo).at
             old == Others(PathOf(x))
         IN \/ /\ Advance /\ x.variant.compose = "good"
               /\ chains' = old \union {ChainFile(PathOf(x), "whole")}
            \/ Advance /\ x.variant.compose = "missing" /\ chains' = old
            \/ /\ Halt
               /\ \E state \in {"empty", "part"} :
                    chains' = old \union {ChainFile(PathOf(x), state)}
<1>1. todo # <<>>
  BY DEF WriteCompose, At
<1>2. (Proceed => Advance) /\ (Stop => Halt)
  BY <1>1 DEF Proceed, Stop, Advance, Halt
<1> QED
  BY <1>2 DEF WriteCompose, Others, ChainFile, PathOf

LEMMA WriteComposeType ==
  ASSUME TypeInv, WriteCompose
  PROVE  TypeInv'
<1>1. TodoOK' /\ RestOK'
  BY Goes, GoesType
<1> DEFINE x == Head(todo).at
<1>2. TodoOK /\ todo # <<>> /\ Head(todo).do = "compose"
  BY DEF TypeInv, WriteCompose, At
<1>3. x \in Chained
  BY <1>2, HeadIs
<1> HIDE DEF x
<1>4. PathOf(x) \in Paths
  <2>1. PICK l \in ToSet(data) : \E v \in ToSet(l.variants) : x = ChainOf(l, v)
    BY <1>3, ChainedIs
  <2>2. PICK v \in ToSet(l.variants) : x = ChainOf(l, v)
    BY <2>1
  <2>3. data \in DataTrees
    BY TypeParts DEF RestOK
  <2>4. l \in UNION {ToSet(d) : d \in DataTrees}
    BY <2>3
  <2>5. Path(l.file, v.name) \in Paths
    BY <2>4 DEF Paths
  <2> QED
    BY <2>2, <2>5, ChainOfIs DEF PathOf
<1>5. \A state \in {"whole", "part", "empty"} :
        ChainFile(PathOf(x), state) \in [path : Paths, state : {"whole", "part", "empty"}]
  BY <1>4 DEF ChainFile
<1>6. chains' \subseteq chains \union
        {ChainFile(PathOf(x), state) : state \in {"whole", "part", "empty"}}
  <2>1. Others(PathOf(x)) \subseteq chains
    BY DEF Others
  <2> QED
    BY <2>1, ComposeWrites DEF x
<1>7. ChainsOK'
  BY <1>5, <1>6, TypeParts DEF ChainsOK
<1>8. TreeOK' /\ RulesOK' /\ HandOK'
  BY TypeParts DEF WriteCompose, TreeOK, RulesOK, HandOK
<1> QED
  BY <1>1, <1>7, <1>8, NextTypeParts

LEMMA HandType ==
  ASSUME TypeInv, KeepUserFile \/ InstallXCompose \/ SignXCompose
  PROVE  TypeInv'
<1>1. TodoOK' /\ RestOK'
  BY Goes, GoesType
<1>2. TreeOK' /\ RulesOK' /\ ChainsOK'
  BY TypeParts DEF KeepUserFile, InstallXCompose, SignXCompose, TreeOK, RulesOK, ChainsOK
<1>3. HandOK
  BY TypeParts
<1>4. HandOK'
  <2>1. CASE KeepUserFile
    <3>1. CASE xcompose = NoFile \/ xcompose.marked
      BY <1>3, <2>1, <3>1 DEF KeepUserFile, HandOK
    <3>2. CASE ~(xcompose = NoFile \/ xcompose.marked)
      <4>1. /\ xcompose' = NoFile
            /\ backups' = {b \in backups : b.pid # BackupName}
                          \union {[pid |-> BackupName, of |-> xcompose]}
        BY <2>1, <3>2 DEF KeepUserFile
      <4>2. \A b \in backups' : b.of = xcompose \/ b \in backups
        BY <4>1
      <4> QED
        BY <1>3, <4>1, <4>2 DEF HandOK
    <3> QED
      BY <3>1, <3>2
  <2>2. CASE InstallXCompose \/ SignXCompose
    <3>1. backups' = backups /\ \E m \in BOOLEAN : xcompose' = Written(m)
      BY <2>2 DEF InstallXCompose, SignXCompose
    <3>2. \A m : Written(m).by = "flexkb"
      BY DEF Written
    <3>3. xcompose'.by = "flexkb"
      BY <3>1, <3>2
    <3> QED
      BY <1>3, <3>1, <3>3 DEF HandOK
  <2> QED
    BY <2>1, <2>2
<1> QED
  BY <1>1, <1>2, <1>4, NextTypeParts

LEMMA CheckType ==
  ASSUME TypeInv, DropinCheck
  PROVE  TypeInv'
<1>1. Advance
  BY DEF DropinCheck, At, Advance
<1>2. TodoOK'
  BY <1>1, AdvanceOK DEF TypeInv
<1>3. TreeOK' /\ RulesOK' /\ ChainsOK' /\ HandOK'
  BY TypeParts DEF DropinCheck, TreeOK, RulesOK, ChainsOK, HandOK
<1>4. RestOK'
  <2>1. report' \in {"none", "clean", "missing"}
    BY DEF DropinCheck
  <2> QED
    BY <2>1, TypeParts DEF DropinCheck, RestOK
<1> QED
  BY <1>2, <1>3, <1>4, NextTypeParts

LEMMA EndType ==
  ASSUME TypeInv, Killed \/ Finish
  PROVE  TypeInv'
<1>1. Halt
  BY DEF Killed, Finish, Stop, Halt
<1>2. TodoOK'
  BY <1>1, HaltOK
<1>3. TreeOK' /\ RulesOK' /\ ChainsOK' /\ HandOK'
  BY TypeParts DEF Killed, Finish, Stop, TreeOK, RulesOK, ChainsOK, HandOK
<1>4. RestOK
  BY TypeParts
<1>5. CASE Killed
  BY <1>2, <1>3, <1>4, <1>5, NextTypeParts DEF Killed, Stop, RestOK
<1>6. CASE Finish
  <2>1. cmd # Idle /\ cmd.op \in {"generate", "build", "dropin-check", "activate"}
    BY <1>6, CmdIs, TypeParts DEF Finish, TodoOK
  <2>2. finished' \in [{"out", "home"} -> {"none", "generate", "build", "activate"}]
    <3>1. CASE cmd.op = "dropin-check"
      BY <1>4, <1>6, <3>1 DEF Finish, RestOK
    <3>2. CASE cmd.op # "dropin-check"
      <4>1. finished' = [finished EXCEPT ![Dest] = cmd.op]
        BY <1>6, <3>2 DEF Finish
      <4> QED
        BY <1>4, <2>1, <3>2, <4>1, DestIs DEF RestOK
    <3> QED
      BY <3>1, <3>2
  <2>3. RestOK'
    BY <1>4, <1>6, <2>2 DEF Finish, RestOK
  <2> QED
    BY <1>2, <1>3, <2>3, NextTypeParts
<1> QED
  BY <1>5, <1>6

LEMMA UserType ==
  ASSUME TypeInv, EditData \/ \E h \in Hands : UserWrites(h)
  PROVE  TypeInv'
<1>1. cmd = Idle /\ UNCHANGED <<upstream, tree, rules, chains, cmd, todo, report>>
  BY DEF EditData, UserWrites
<1>2. Halt
  BY <1>1, TypeParts DEF TodoOK, Halt
<1>3. TodoOK' /\ TreeOK' /\ RulesOK' /\ ChainsOK'
  BY <1>1, <1>2, HaltOK, TypeParts DEF TreeOK, RulesOK, ChainsOK
<1>4. RestOK /\ HandOK
  BY TypeParts
<1>5. CASE EditData
  <2>1. HandOK'
    BY <1>4, <1>5 DEF EditData, HandOK
  <2>2. RestOK'
    <3>1. finished' \in [{"out", "home"} -> {"none", "generate", "build", "activate"}]
      BY <1>5 DEF EditData
    <3> QED
      BY <1>1, <1>4, <1>5, <3>1 DEF EditData, RestOK
  <2> QED
    BY <1>3, <2>1, <2>2, NextTypeParts
<1>6. ASSUME NEW h \in Hands, UserWrites(h) PROVE TypeInv'
  <2>1. /\ xcompose' = [by |-> h, marked |-> FALSE] /\ backups' = backups
        /\ owed' \subseteq owed \union {h} /\ data' = data /\ finished' = finished
    BY <1>6 DEF UserWrites
  <2>2. xcompose'.by = h /\ xcompose'.marked = FALSE
    BY <2>1
  <2>3. HandOK'
    BY <1>4, <2>1, <2>2 DEF HandOK
  <2>4. RestOK'
    BY <1>1, <1>4, <2>1 DEF RestOK
  <2> QED
    BY <1>3, <2>3, <2>4, NextTypeParts
<1> QED
  BY <1>5, <1>6

LEMMA TypeStep == TypeInv /\ [Next]_vars => TypeInv'
<1> SUFFICES ASSUME TypeInv, [Next]_vars PROVE TypeInv'
  OBVIOUS
<1>1. CASE \E c \in Commands : Start(c)
  BY <1>1, StartType
<1>2. CASE CopyFile \/ WriteSymbols \/ CopyRules \/ PatchRules \/ WriteCompose
  BY <1>2, CopyFileType, WriteSymbolsType, CopyRulesType, PatchRulesType, WriteComposeType
<1>3. CASE KeepUserFile \/ InstallXCompose \/ SignXCompose
  BY <1>3, HandType
<1>4. CASE DropinCheck
  BY <1>4, CheckType
<1>5. CASE Killed \/ Finish
  BY <1>5, EndType
<1>6. CASE EditData \/ \E h \in Hands : UserWrites(h)
  BY <1>6, UserType
<1>7. CASE UNCHANGED vars
  <2>1. UNCHANGED <<upstream, data, cmd, todo, finished, report, owed>> /\ StepsOf(cmd.op)' = StepsOf(cmd.op)
    BY <1>7, SameSteps DEF vars
  <2>2. TodoOK'
    <3>1. Orderly(todo)' <=> Orderly(todo)
      BY <2>1 DEF Orderly, RegistryFirst, PatchOnce, CopiedIsPatched, Never, Once, In
    <3> QED
      BY <2>1, <3>1, TypeParts DEF TodoOK
  <2>3. TreeOK' /\ RulesOK' /\ ChainsOK' /\ HandOK' /\ RestOK'
    BY <1>7, TypeParts DEF vars, TreeOK, RulesOK, ChainsOK, HandOK, RestOK
  <2> QED
    BY <2>2, <2>3, NextTypeParts
<1> QED
  BY <1>1, <1>2, <1>3, <1>4, <1>5, <1>6, <1>7 DEF Next

(* Whatever commands run, and wherever they stop, the trees hold texts, the *)
(* registry listings and ~/.XCompose a file of the user's or of ours: what  *)
(* PatchXML, PatchLst and the generator make of what they read is again     *)
(* what they can read.                                                      *)
THEOREM TypesHold == Spec => []TypeOK
<1>1. TypeInv => TypeOK
  BY DEF TypeInv
<1> QED
  BY <1>1, TypeInit, TypeStep, PTL DEF Spec
-----------------------------------------------------------------------------
(* What a command has made of a tree so far.                                *)

\* The command that writes the tree, or that last wrote it to the end, and
\* what it has left to do.
Writes(d) == cmd.op \in (IF d = "home" THEN {"activate"} ELSE {"generate", "build"})
Op(d) == IF Writes(d) THEN cmd.op ELSE finished[d]
Left(d) == IF Writes(d) THEN todo ELSE <<>>
Pending(d, do, at) == In(Step(do, at), Left(d))

SymbolsMade(d) ==
  \A op \in {"generate", "build", "activate"} : Op(d) = op =>
    \A l \in ToSet(data) : Pending(d, "symbols", l) \/ tree[d][l.file] = Generated(op, l)

CopiesMade ==
  Op("out") = "build" =>
    \A f \in Copied : Pending("out", "copy", f) \/ tree["out"][f] = upstream.symbols[f]

Patched(kind) == IF kind = "xml" THEN PatchXML(upstream.xml) ELSE PatchLst(upstream.lst)

LEMMA SamePatched ==
  ASSUME UNCHANGED <<upstream, data>>
  PROVE  \A k : Patched(k)' = Patched(k)
  BY DEF Patched, PatchXML, PatchLst

RulesMade ==
  Op("out") = "build" =>
    \A k \in Kinds : upstream[k] # NoFile =>
      \/ Pending("out", "registry", k)
      \/ Pending("out", "patch", k) /\ rules[k] = upstream[k]
      \/ ~Pending("out", "patch", k) /\ rules[k] = Patched(k)

ChainStates(path) == {c.state : c \in {x \in chains : x.path = path}}

ChainsMade ==
  Op("out") # "none" =>
    \A l \in ToSet(data) : \A v \in ToSet(l.variants) : (OwnPath(l, v) /\ v.compose # "none") =>
      \/ Pending("out", "compose", ChainOf(l, v))
      \/ ChainStates(Path(l.file, v.name)) = (IF v.compose = "good" THEN {"whole"} ELSE {})

LEMMA SamePaths ==
  ASSUME data' = data
  PROVE  \A l, v : OwnPath(l, v)' <=> OwnPath(l, v)
BY DEF OwnPath

\* A tree that is written is not a finished one.
Unfinished ==
  /\ finished["home"] \in {"none", "activate"} /\ finished["out"] \in {"none", "generate", "build"}
  /\ \A d \in {"out", "home"} : Writes(d) => finished[d] = "none"

MadeInv ==
  /\ Unfinished /\ \A d \in {"out", "home"} : SymbolsMade(d)
  /\ CopiesMade /\ RulesMade /\ ChainsMade

LEMMA WhoWrites ==
  /\ \A d \in {"out", "home"} : Writes(d) => d = Dest /\ Op(d) = cmd.op /\ Left(d) = todo
  /\ \A d \in {"out", "home"} : ~Writes(d) => Op(d) = finished[d] /\ Left(d) = <<>>
  /\ Writes("out") <=> cmd.op \in {"generate", "build"}
  /\ Writes("home") <=> cmd.op = "activate"
BY DEF Writes, Op, Left, Dest

LEMMA AdvancePending ==
  ASSUME TodoOK, Advance, finished' = finished, NEW d \in {"out", "home"}
  PROVE  /\ Writes(d)' <=> Writes(d)
         /\ Op(d)' = Op(d)
         /\ \A do, at : Pending(d, do, at)' => Pending(d, do, at)
         /\ \A do, at : Pending(d, do, at) =>
              Pending(d, do, at)' \/ (Writes(d) /\ Head(todo) = Step(do, at))
<1>1. (Writes(d)' <=> Writes(d)) /\ Op(d)' = Op(d)
  BY DEF Advance, Writes, Op
<1>2. \A x : In(x, todo) <=> x = Head(todo) \/ In(x, Tail(todo))
  BY TailIs DEF TodoOK, Advance
<1>3. CASE Writes(d)
  <2>1. Left(d) = todo /\ Left(d)' = Tail(todo)
    BY <1>1, <1>3 DEF Left, Advance
  <2>2. \A do, at : Pending(d, do, at) <=> In(Step(do, at), todo)
    BY <2>1 DEF Pending
  <2>3. \A do, at : Pending(d, do, at)' <=> In(Step(do, at), Tail(todo))
    BY <2>1 DEF Pending, In
  <2> QED
    BY <1>1, <1>2, <1>3, <2>2, <2>3
<1>4. CASE ~Writes(d)
  <2>1. Left(d) = <<>> /\ Left(d)' = <<>>
    BY <1>1, <1>4 DEF Left
  <2>2. \A do, at : Pending(d, do, at)' <=> Pending(d, do, at)
    BY <2>1 DEF Pending, In
  <2> QED
    BY <1>1, <1>4, <2>2
<1> QED
  BY <1>3, <1>4

LEMMA HaltPending ==
  ASSUME Unfinished, Halt, finished' = finished, NEW d \in {"out", "home"}
  PROVE  /\ ~Writes(d)'
         /\ Writes(d) => Op(d)' = "none"
         /\ ~Writes(d) => Op(d)' = Op(d) /\ \A do, at : Pending(d, do, at)' <=> Pending(d, do, at)
<1>1. cmd'.op = "none"
  BY DEF Halt, Idle
<1>2. ~Writes(d)'
  BY <1>1 DEF Writes
<1>3. Op(d)' = finished[d] /\ Left(d)' = <<>>
  BY <1>2 DEF Op, Left
<1>4. Writes(d) => Op(d)' = "none"
  BY <1>3 DEF Unfinished
<1>5. ASSUME ~Writes(d) PROVE Op(d)' = Op(d) /\ \A do, at : Pending(d, do, at)' <=> Pending(d, do, at)
  <2>1. Left(d) = <<>> /\ Op(d) = finished[d]
    BY <1>5 DEF Left, Op
  <2> QED
    BY <1>3, <2>1 DEF Pending, In
<1> QED
  BY <1>2, <1>4, <1>5

\* What no step of another command does to a tree.
Spares ==
  /\ UNCHANGED <<upstream, data, finished>>
  /\ \A d \in {"out", "home"} : ~Writes(d) => tree'[d] = tree[d]
  /\ ~Writes("out") => UNCHANGED <<rules, chains>>

LEMMA UnfinishedKept ==
  ASSUME TodoOK, Unfinished, Advance \/ Halt, finished' = finished
  PROVE  Unfinished'
<1>1. \A d \in {"out", "home"} : Writes(d)' => Writes(d)
  BY AdvancePending, HaltPending
<1> QED
  BY <1>1 DEF Unfinished

\* A tree whose writing does not go on.
LEMMA SparedSymbols ==
  ASSUME TypeInv, MadeInv, Spares, NEW d \in {"out", "home"}, Halt \/ (Advance /\ ~Writes(d))
  PROVE  SymbolsMade(d)'
<1>1. Op(d)' = "none" \/ (~Writes(d) /\ Op(d)' = Op(d)
                          /\ \A do, at : Pending(d, do, at) => Pending(d, do, at)')
  BY AdvancePending, HaltPending DEF MadeInv, Spares, TypeInv
<1>2. CASE Op(d)' = "none"
  BY <1>2 DEF SymbolsMade
<1>3. CASE ~Writes(d) /\ Op(d)' = Op(d) /\ \A do, at : Pending(d, do, at) => Pending(d, do, at)'
  <2>1. tree'[d] = tree[d] /\ data' = data /\ upstream' = upstream
    BY <1>3 DEF Spares
  <2>2. \A op, l : Generated(op, l)' = Generated(op, l)
    BY <2>1, SameSteps
  <2>3. SymbolsMade(d)
    BY DEF MadeInv
  <2> SUFFICES ASSUME NEW op \in {"generate", "build", "activate"}, Op(d)' = op,
                      NEW l \in ToSet(data)
               PROVE  Pending(d, "symbols", l)' \/ tree'[d][l.file] = Generated(op, l)'
    BY <2>1 DEF SymbolsMade
  <2>4. Pending(d, "symbols", l) \/ tree[d][l.file] = Generated(op, l)
    BY <1>3, <2>3 DEF SymbolsMade
  <2> QED
    BY <1>3, <2>1, <2>2, <2>4
<1> QED
  BY <1>1, <1>2, <1>3

LEMMA SparedOut ==
  ASSUME TypeInv, MadeInv, Spares, Halt \/ (Advance /\ ~Writes("out"))
  PROVE  CopiesMade' /\ RulesMade' /\ ChainsMade'
<1>1. Op("out")' = "none" \/ (~Writes("out") /\ Op("out")' = Op("out")
                    /\ \A do, at : Pending("out", do, at) <=> Pending("out", do, at)')
  <2>1. CASE Halt
    BY <2>1, HaltPending DEF MadeInv, Spares
  <2>2. CASE Advance /\ ~Writes("out")
    BY <2>2, AdvancePending DEF TypeInv, Spares
  <2> QED
    BY <2>1, <2>2
<1>2. CASE Op("out")' = "none"
  BY <1>2 DEF CopiesMade, RulesMade, ChainsMade
<1>3. CASE ~Writes("out") /\ Op("out")' = Op("out")
           /\ \A do, at : Pending("out", do, at) <=> Pending("out", do, at)'
  <2>1. tree'["out"] = tree["out"] /\ UNCHANGED <<upstream, data, rules, chains>>
    BY <1>3 DEF Spares
  <2>2. CopiesMade'
    <3>1. Copied' = Copied
      BY <2>1, SameSteps
    <3> QED
      BY <1>3, <2>1, <3>1 DEF CopiesMade, MadeInv
  <2>3. RulesMade'
    <3>1. \A k : Patched(k)' = Patched(k)
      BY <2>1, SamePatched
    <3> QED
      BY <1>3, <2>1, <3>1 DEF RulesMade, MadeInv
  <2>4. ChainsMade'
    <3>1. \A path : ChainStates(path)' = ChainStates(path)
      BY <2>1 DEF ChainStates
    <3> QED
      BY <1>3, <2>1, <3>1, SamePaths DEF ChainsMade, MadeInv
  <2> QED
    BY <2>2, <2>3, <2>4
<1> QED
  BY <1>1, <1>2, <1>3

\* A tree whose writing goes on.
LEMMA SymbolsGoOn ==
  ASSUME TypeInv, MadeInv, Advance, finished' = finished,
         NEW d \in {"out", "home"}, Writes(d),
         \A l \in ToSet(data) :
           \/ tree'[d][l.file] = tree[d][l.file] /\ Head(todo) # Step("symbols", l)
           \/ tree'[d][l.file] = Generated(cmd.op, l)
  PROVE  SymbolsMade(d)'
<1>1. /\ Op(d)' = cmd.op /\ Op(d) = cmd.op
      /\ \A do, at : Pending(d, do, at) => Pending(d, do, at)' \/ Head(todo) = Step(do, at)
  BY AdvancePending, WhoWrites DEF TypeInv
<1>2. data' = data /\ \A op, l : Generated(op, l)' = Generated(op, l)
  BY SameSteps DEF Advance
<1> QED
  BY <1>1, <1>2 DEF SymbolsMade, MadeInv

LEMMA CopiesGoOn ==
  ASSUME TypeInv, MadeInv, Advance, finished' = finished, Writes("out"),
         \A f \in Copied :
           \/ tree'["out"][f] = tree["out"][f] /\ Head(todo) # Step("copy", f)
           \/ tree'["out"][f] = upstream.symbols[f]
  PROVE  CopiesMade'
<1>1. /\ Op("out")' = Op("out")
      /\ \A do, at : Pending("out", do, at) => Pending("out", do, at)' \/ Head(todo) = Step(do, at)
  BY AdvancePending DEF TypeInv
<1>2. upstream' = upstream /\ Copied' = Copied
  BY SameSteps DEF Advance
<1> QED
  BY <1>1, <1>2 DEF CopiesMade, MadeInv

\* The order of the plan comes in: a registry file is patched after it is
\* copied, and once.
LEMMA RulesGoOn ==
  ASSUME TypeInv, MadeInv, Advance, finished' = finished, Writes("out"),
         \A k \in Kinds : upstream[k] # NoFile =>
           /\ Head(todo) \notin {Step("registry", k), Step("patch", k)} => rules'[k] = rules[k]
           /\ Head(todo) = Step("registry", k) => rules'[k] = upstream[k]
           /\ Head(todo) = Step("patch", k) /\ rules[k] = upstream[k] => rules'[k] = Patched(k)
  PROVE  RulesMade'
<1> SUFFICES ASSUME Op("out")' = "build", NEW k \in Kinds, upstream'[k] # NoFile
             PROVE  \/ Pending("out", "registry", k)'
                    \/ Pending("out", "patch", k)' /\ rules'[k] = upstream'[k]
                    \/ ~Pending("out", "patch", k)' /\ rules'[k] = Patched(k)'
  BY DEF RulesMade
<1>1. /\ Op("out")' = Op("out") /\ cmd.op = Op("out") /\ Left("out") = todo
      /\ \A do, at : Pending("out", do, at)' => Pending("out", do, at)
      /\ \A do, at : Pending("out", do, at) => Pending("out", do, at)' \/ Head(todo) = Step(do, at)
  BY AdvancePending, WhoWrites DEF TypeInv
<1>2. upstream' = upstream /\ Patched(k)' = Patched(k)
  BY SamePatched DEF Advance
<1>3. /\ Head(todo).do # "registry" => ~In(Step("registry", k), todo)
      /\ Head(todo) = Step("patch", k) => ~In(Step("patch", k), Tail(todo))
      /\ In(Step("registry", k), todo) => In(Step("patch", k), todo)
  BY <1>1, OrderlyTail DEF TypeInv, TodoOK, Advance, Orderly, CopiedIsPatched
<1>4. \A do, at : Pending("out", do, at) <=> In(Step(do, at), todo)
  BY <1>1 DEF Pending
<1>5. \A do, at : Pending("out", do, at)' <=> In(Step(do, at), Tail(todo))
  <2>1. Left("out")' = Tail(todo)
    BY DEF Left, Writes, Advance
  <2> QED
    BY <2>1 DEF Pending, In
<1>6. \/ Pending("out", "registry", k)
      \/ Pending("out", "patch", k) /\ rules[k] = upstream[k]
      \/ ~Pending("out", "patch", k) /\ rules[k] = Patched(k)
  BY <1>1, <1>2 DEF MadeInv, RulesMade
<1>7. CASE Head(todo) = Step("registry", k)
  <2>1. In(Step("registry", k), todo)
    BY <1>7, TailIs DEF TypeInv, TodoOK, Advance
  <2>2. In(Step("patch", k), Tail(todo))
    <3>1. Head(todo) # Step("patch", k)
      BY <1>7, StepIs
    <3> QED
      BY <1>1, <1>3, <1>4, <1>5, <2>1, <3>1
  <2>3. rules'[k] = upstream[k]
    BY <1>2, <1>7
  <2> QED
    BY <1>2, <1>5, <2>2, <2>3
<1>8. CASE Head(todo) = Step("patch", k)
  <2>1. In(Step("patch", k), todo)
    BY <1>8, TailIs DEF TypeInv, TodoOK, Advance
  <2>2. ~In(Step("registry", k), todo) /\ ~In(Step("patch", k), Tail(todo))
    BY <1>3, <1>8, StepIs
  <2>3. rules[k] = upstream[k]
    BY <1>4, <1>6, <2>1, <2>2
  <2>4. rules'[k] = Patched(k)
    BY <1>2, <1>8, <2>3
  <2> QED
    BY <1>2, <1>5, <2>2, <2>4
<1>9. CASE Head(todo) \notin {Step("registry", k), Step("patch", k)}
  <2>1. rules'[k] = rules[k]
    BY <1>2, <1>9
  <2>2. /\ Pending("out", "registry", k) => Pending("out", "registry", k)'
        /\ Pending("out", "patch", k) <=> Pending("out", "patch", k)'
    BY <1>1, <1>9
  <2> QED
    BY <1>2, <1>6, <2>1, <2>2
<1> QED
  BY <1>7, <1>8, <1>9

LEMMA ChainsGoOn ==
  ASSUME TypeInv, MadeInv, Advance, finished' = finished, Writes("out"),
         \A l \in ToSet(data) : \A v \in ToSet(l.variants) : (OwnPath(l, v) /\ v.compose # "none") =>
           \/ /\ Head(todo) # Step("compose", ChainOf(l, v))
              /\ ChainStates(Path(l.file, v.name))' = ChainStates(Path(l.file, v.name))
           \/ ChainStates(Path(l.file, v.name))' = (IF v.compose = "good" THEN {"whole"} ELSE {})
  PROVE  ChainsMade'
<1>1. /\ Op("out")' = Op("out")
      /\ \A do, at : Pending("out", do, at) => Pending("out", do, at)' \/ Head(todo) = Step(do, at)
  BY AdvancePending DEF TypeInv
<1>2. data' = data
  BY DEF Advance
<1>4. \A l, v : OwnPath(l, v)' <=> OwnPath(l, v)
  BY <1>2, SamePaths
<1> SUFFICES ASSUME Op("out") # "none", NEW l \in ToSet(data),
                    NEW v \in ToSet(l.variants), OwnPath(l, v), v.compose # "none"
             PROVE  \/ Pending("out", "compose", ChainOf(l, v))'
                    \/ ChainStates(Path(l.file, v.name))' = (IF v.compose = "good" THEN {"whole"} ELSE {})
  BY <1>1, <1>2, <1>4 DEF ChainsMade
<1>3. \/ Pending("out", "compose", ChainOf(l, v))
      \/ ChainStates(Path(l.file, v.name)) = (IF v.compose = "good" THEN {"whole"} ELSE {})
  BY DEF MadeInv, ChainsMade
<1> QED
  BY <1>1, <1>3

LEMMA MadeFrom ==
  ASSUME TypeInv, MadeInv, Spares, Advance \/ Halt,
         Advance => \A d \in {"out", "home"} : Writes(d) => SymbolsMade(d)',
         Advance /\ Writes("out") => CopiesMade' /\ RulesMade' /\ ChainsMade'
  PROVE  MadeInv'
<1>1. Unfinished'
  BY UnfinishedKept DEF TypeInv, MadeInv, Spares
<1>2. \A d \in {"out", "home"} : SymbolsMade(d)'
  BY SparedSymbols
<1>3. CopiesMade' /\ RulesMade' /\ ChainsMade'
  BY SparedOut
<1> QED
  BY <1>1, <1>2, <1>3 DEF MadeInv

LEMMA SameRules ==
  ASSUME TypeInv, MadeInv, Advance, finished' = finished, Writes("out"), rules' = rules,
         Head(todo).do \notin {"registry", "patch"}
  PROVE  RulesMade'
<1>1. \A k : Head(todo) # Step("registry", k) /\ Head(todo) # Step("patch", k)
  BY StepIs
<1> QED
  BY <1>1, RulesGoOn

LEMMA SameChains ==
  ASSUME TypeInv, MadeInv, Advance, finished' = finished, Writes("out"), chains' = chains,
         Head(todo).do # "compose"
  PROVE  ChainsMade'
<1>1. \A x : Head(todo) # Step("compose", x)
  BY StepIs
<1>2. \A path : ChainStates(path)' = ChainStates(path)
  BY DEF ChainStates
<1> QED
  BY <1>1, <1>2, ChainsGoOn

LEMMA SameSymbols ==
  ASSUME TypeInv, MadeInv, Advance, finished' = finished, NEW d \in {"out", "home"}, Writes(d),
         \A l \in ToSet(data) : tree'[d][l.file] = tree[d][l.file], Head(todo).do # "symbols"
  PROVE  SymbolsMade(d)'
<1>1. \A l : Head(todo) # Step("symbols", l)
  BY StepIs
<1> QED
  BY <1>1, SymbolsGoOn

LEMMA SameCopies ==
  ASSUME TypeInv, MadeInv, Advance, finished' = finished, Writes("out"),
         \A f \in Copied : tree'["out"][f] = tree["out"][f], Head(todo).do # "copy"
  PROVE  CopiesMade'
<1>1. \A f : Head(todo) # Step("copy", f)
  BY StepIs
<1> QED
  BY <1>1, CopiesGoOn

\* A step that writes nothing of a tree.
LEMMA Untouched ==
  ASSUME TypeInv, MadeInv, Advance \/ Halt, UNCHANGED <<upstream, data, finished, tree, rules, chains>>,
         Advance => Head(todo).do \in {"keep", "install", "sign", "check"}
  PROVE  MadeInv'
<1>1. Spares
  BY DEF Spares
<1>2. ASSUME Advance PROVE \A d \in {"out", "home"} : Writes(d) => SymbolsMade(d)'
  BY <1>2, SameSymbols
<1>3. ASSUME Advance, Writes("out") PROVE CopiesMade' /\ RulesMade' /\ ChainsMade'
  BY <1>3, SameCopies, SameRules, SameChains
<1> QED
  BY <1>1, <1>2, <1>3, MadeFrom

LEMMA PutSymbolsIs ==
  ASSUME TypeInv, NEW f \in Files, NEW text, PutSymbols(f, text), todo # <<>>
  PROVE  /\ \A d \in {"out", "home"} : d # Dest => tree'[d] = tree[d]
         /\ \A g \in Files : g # f => tree'[Dest][g] = tree[Dest][g]
         /\ Halt \/ (Advance /\ tree'[Dest][f] = text)
         /\ UNCHANGED <<upstream, data, finished>>
<1>1. /\ \E new : tree' = [tree EXCEPT ![Dest][f] = new] /\ (Proceed => new = text)
      /\ Proceed \/ Stop
  <2>1. CASE tree' = [tree EXCEPT ![Dest][f] = text] /\ Proceed
    BY <2>1
  <2>2. CASE \E part \in Cut(text) : tree' = [tree EXCEPT ![Dest][f] = part] /\ Stop
    <3>1. PICK part \in Cut(text) : tree' = [tree EXCEPT ![Dest][f] = part] /\ Stop
      BY <2>2
    <3>2. CASE Proceed
      <4>1. cmd' = cmd /\ cmd' = Idle
        BY <3>1, <3>2 DEF Proceed, Stop
      <4>2. cmd # Idle
        BY TypeParts DEF TodoOK
      <4> QED
        BY <4>1, <4>2
    <3>3. CASE ~Proceed
      BY <3>1, <3>3
    <3> QED
      BY <3>2, <3>3
  <2> QED
    BY <2>1, <2>2 DEF PutSymbols
<1>2. PICK new : tree' = [tree EXCEPT ![Dest][f] = new] /\ (Proceed => new = text)
  BY <1>1
<1>3. tree \in [{"out", "home"} -> [Files -> Texts \union {NoFile}]]
  BY TypeParts DEF TreeOK
<1>4. /\ \A d \in {"out", "home"} : d # Dest => tree'[d] = tree[d]
      /\ \A g \in Files : g # f => tree'[Dest][g] = tree[Dest][g]
      /\ tree'[Dest][f] = new
  BY <1>2, <1>3, DestIs
<1> QED
  BY <1>1, <1>2, <1>4 DEF Proceed, Stop, Advance, Halt

LEMMA CopyFileMade ==
  ASSUME TypeInv, MadeInv, CopyFile
  PROVE  MadeInv'
<1> DEFINE f == Head(todo).at
<1>1. TodoOK /\ todo # <<>> /\ Head(todo).do = "copy" /\ data \in DataTrees
  BY TypeParts DEF CopyFile, At, RestOK
<1>2. f \in Copied /\ cmd.op = "build" /\ Head(todo) = Step("copy", f)
  BY <1>1, HeadIs
<1> HIDE DEF f
<1>3. Writes("out") /\ ~Writes("home") /\ Dest = "out"
  BY <1>2 DEF Writes, Dest
<1>4. f \in Files /\ f \notin Owned
  BY <1>2 DEF Copied
<1>5. /\ tree'["home"] = tree["home"]
      /\ \A g \in Files : g # f => tree'["out"][g] = tree["out"][g]
      /\ Halt \/ (Advance /\ tree'["out"][f] = upstream.symbols[f])
      /\ UNCHANGED <<upstream, data, finished>>
  BY <1>1, <1>3, <1>4, PutSymbolsIs DEF CopyFile, f
<1>6. rules' = rules /\ chains' = chains
  BY DEF CopyFile
<1>7. Spares
  <2>1. \A d \in {"out", "home"} : ~Writes(d) => d = "home"
    BY <1>3
  <2>2. \A d \in {"out", "home"} : ~Writes(d) => tree'[d] = tree[d]
    BY <1>5, <2>1
  <2> QED
    BY <1>3, <1>5, <2>2 DEF Spares
<1>8. ASSUME Advance PROVE SymbolsMade("out")' /\ CopiesMade' /\ RulesMade' /\ ChainsMade'
  <2>1. \A l \in ToSet(data) : l.file \in Owned /\ l.file \in Files
    <3> SUFFICES ASSUME NEW l \in ToSet(data) PROVE l.file \in Owned /\ l.file \in Files
      OBVIOUS
    <3>1. l \in Layouts /\ \E k \in 1..Len(data) : data[k] = l
      BY <1>1, DataIs
    <3>2. l.file \in Owned
      BY <1>1, <3>1, DataIs DEF Owned
    <3> QED
      BY <3>1, <3>2, LayoutIs
  <2>2. SymbolsMade("out")'
    BY <1>1, <1>3, <1>4, <1>5, <1>8, <2>1, SameSymbols
  <2>3. CopiesMade'
    <3>1. ~Halt
      BY <1>2, <1>8 DEF Halt, Advance, Idle
    <3>2. \A g \in Copied : g # f => Head(todo) # Step("copy", g) /\ g \in Files
      BY <1>2, StepIs DEF Copied
    <3>3. \A g \in Copied : \/ tree'["out"][g] = tree["out"][g] /\ Head(todo) # Step("copy", g)
                            \/ tree'["out"][g] = upstream.symbols[g]
      BY <1>5, <3>1, <3>2
    <3> QED
      BY <1>3, <1>5, <1>8, <3>3, CopiesGoOn
  <2> QED
    BY <1>1, <1>3, <1>5, <1>6, <1>8, <2>2, <2>3, SameRules, SameChains
<1> QED
  BY <1>3, <1>5, <1>7, <1>8, MadeFrom

LEMMA WriteSymbolsMade ==
  ASSUME TypeInv, MadeInv, WriteSymbols
  PROVE  MadeInv'
<1> DEFINE l == Head(todo).at
<1>1. TodoOK /\ todo # <<>> /\ Head(todo).do = "symbols" /\ data \in DataTrees
  BY TypeParts DEF WriteSymbols, At, RestOK
<1>2. l \in ToSet(data) /\ cmd.op \in {"generate", "build", "activate"} /\ Head(todo) = Step("symbols", l)
  BY <1>1, HeadIs
<1> HIDE DEF l
<1>3. Writes(Dest) /\ Dest \in {"out", "home"} /\ \A d \in {"out", "home"} : d # Dest => ~Writes(d)
  BY <1>2 DEF Writes, Dest
<1>4. l.file \in Files /\ \A k \in ToSet(data) : k.file \in Files /\ (k.file = l.file => k = l)
  <2>1. \A k \in ToSet(data) : k.file \in Files
    BY <1>1, DataIs, LayoutIs
  <2>2. \A k \in ToSet(data) : k.file = l.file => k = l
    BY <1>1, <1>2, DataIs
  <2> QED
    BY <1>2, <2>1, <2>2
<1>5. rules' = rules /\ chains' = chains
  BY DEF WriteSymbols
<1>6. CASE Stop /\ UNCHANGED tree
  BY <1>6, Untouched, <1>5 DEF Stop, Halt, Advance, Idle, TypeInv, TodoOK
<1>7. CASE PutSymbols(l.file, Generated(cmd.op, l))
  <2>1. /\ \A d \in {"out", "home"} : d # Dest => tree'[d] = tree[d]
        /\ \A g \in Files : g # l.file => tree'[Dest][g] = tree[Dest][g]
        /\ Halt \/ (Advance /\ tree'[Dest][l.file] = Generated(cmd.op, l))
        /\ UNCHANGED <<upstream, data, finished>>
    BY <1>1, <1>4, <1>7, PutSymbolsIs
  <2>2. Spares
    BY <1>3, <1>5, <2>1 DEF Spares
  <2>3. ASSUME Advance PROVE SymbolsMade(Dest)'
    <3>1. ~Halt
      BY <1>2, <2>3 DEF Halt, Advance, Idle
    <3>2. \A k \in ToSet(data) : k # l => Head(todo) # Step("symbols", k)
      BY <1>2, StepIs
    <3>3. \A k \in ToSet(data) :
            \/ tree'[Dest][k.file] = tree[Dest][k.file] /\ Head(todo) # Step("symbols", k)
            \/ tree'[Dest][k.file] = Generated(cmd.op, k)
      BY <1>4, <2>1, <3>1, <3>2
    <3>4. PICK d \in {"out", "home"} : d = Dest
      BY <1>3
    <3>5. SymbolsMade(d)'
      BY <1>3, <2>1, <2>3, <3>3, <3>4, SymbolsGoOn
    <3>6. Dest' = d
      BY <2>3, <3>4 DEF Dest, Advance
    <3> QED
      BY <3>5, <3>6
  <2>4. ASSUME Advance, Writes("out") PROVE CopiesMade' /\ RulesMade' /\ ChainsMade'
    <3>1. Dest = "out"
      BY <1>3, <2>4
    <3>2. \A f \in Copied : f \in Files /\ f # l.file
      BY <1>1, <1>2, DataIs DEF Copied, Owned
    <3>3. CopiesMade'
      BY <1>1, <2>1, <2>4, <3>1, <3>2, SameCopies
    <3> QED
      BY <1>1, <1>5, <2>1, <2>4, <3>3, SameRules, SameChains
  <2>5. ASSUME Advance, NEW d \in {"out", "home"}, Writes(d) PROVE SymbolsMade(d)'
    <3>1. d = Dest /\ Dest' = d
      BY <1>3, <2>5 DEF Dest, Advance
    <3> QED
      BY <2>3, <2>5, <3>1
  <2> QED
    BY <2>1, <2>2, <2>4, <2>5, MadeFrom
<1> QED
  BY <1>6, <1>7 DEF WriteSymbols, l

LEMMA PutRulesIs ==
  ASSUME TypeInv, NEW kind \in Kinds, NEW content, NEW parts, PutRules(kind, content, parts),
         todo # <<>>
  PROVE  /\ \A k \in Kinds : k # kind => rules'[k] = rules[k]
         /\ Halt \/ (Advance /\ rules'[kind] = content)
         /\ UNCHANGED <<upstream, data, finished>>
<1>1. /\ \E new : /\ rules' = [rules EXCEPT ![kind] = new]
                  /\ (Proceed /\ new = content) \/ Stop
  <2>1. CASE rules' = [rules EXCEPT ![kind] = content] /\ Proceed
    BY <2>1
  <2>2. CASE \E part \in parts : rules' = [rules EXCEPT ![kind] = part] /\ Stop
    BY <2>2
  <2> QED
    BY <2>1, <2>2 DEF PutRules
<1>2. PICK new : rules' = [rules EXCEPT ![kind] = new] /\ ((Proceed /\ new = content) \/ Stop)
  BY <1>1
<1>3. rules \in [xml : Registry \union {NoFile}, lst : Lst \union {NoFile}]
  BY TypeParts DEF RulesOK
<1>4. rules'[kind] = new /\ \A k \in Kinds : k # kind => rules'[k] = rules[k]
  <2>1. CASE kind = "xml"
    <3>1. rules' = [rules EXCEPT !["xml"] = new]
      BY <1>2, <2>1
    <3>2. rules'["xml"] = new /\ rules'["lst"] = rules["lst"]
      BY <1>3, <3>1
    <3> QED
      BY <2>1, <3>2 DEF Kinds
  <2>2. CASE kind = "lst"
    <3>1. rules' = [rules EXCEPT !["lst"] = new]
      BY <1>2, <2>2
    <3>2. rules'["lst"] = new /\ rules'["xml"] = rules["xml"]
      BY <1>3, <3>1
    <3> QED
      BY <2>2, <3>2 DEF Kinds
  <2> QED
    BY <2>1, <2>2 DEF Kinds
<1> QED
  BY <1>2, <1>4 DEF Proceed, Stop, Advance, Halt

\* Only the registry is written, by a build.
LEMMA RulesStep ==
  ASSUME TypeInv, MadeInv, UNCHANGED <<upstream, data, finished, tree, chains>>,
         todo # <<>>, Head(todo).do \in {"registry", "patch"}, Advance \/ Halt,
         Advance => RulesMade'
  PROVE  MadeInv'
<1>1. TodoOK /\ cmd.op = "build"
  BY HeadIs, TypeParts
<1>2. Writes("out") /\ ~Writes("home")
  BY <1>1 DEF Writes
<1>3. Spares
  BY <1>2 DEF Spares
<1>4. ASSUME Advance, NEW d \in {"out", "home"}, Writes(d) PROVE SymbolsMade(d)'
  BY <1>4, SameSymbols
<1>5. ASSUME Advance PROVE CopiesMade' /\ ChainsMade'
  BY <1>2, <1>5, SameCopies, SameChains
<1> QED
  BY <1>2, <1>3, <1>4, <1>5, MadeFrom

LEMMA CopyRulesMade ==
  ASSUME TypeInv, MadeInv, CopyRules
  PROVE  MadeInv'
<1> DEFINE kind == Head(todo).at
<1>1. TodoOK /\ todo # <<>> /\ Head(todo).do = "registry"
  BY TypeParts DEF CopyRules, At
<1>2. kind \in Kinds /\ cmd.op = "build" /\ Head(todo) = Step("registry", kind)
  BY <1>1, HeadIs
<1>3. \/ upstream[kind] = NoFile /\ Proceed /\ UNCHANGED rules
      \/ \E parts : upstream[kind] # NoFile /\ PutRules(kind, upstream[kind], parts)
  <2>1. CASE upstream[kind] = NoFile
    BY <2>1 DEF CopyRules
  <2>2. CASE upstream[kind] # NoFile
    <3>1. PutRules(kind, upstream[kind], IF kind = "xml" THEN PartsXML(upstream.xml)
                                         ELSE PartsLst(upstream.lst))
      BY <2>2 DEF CopyRules
    <3> QED
      BY <2>2, <3>1
  <2> QED
    BY <2>1, <2>2
<1> HIDE DEF kind
<1>4. /\ \A k \in Kinds : k # kind => rules'[k] = rules[k]
      /\ Halt \/ (Advance /\ (upstream[kind] # NoFile => rules'[kind] = upstream[kind]))
      /\ UNCHANGED <<upstream, data, finished>>
  <2>1. CASE upstream[kind] = NoFile /\ Proceed /\ UNCHANGED rules
    BY <1>1, <2>1 DEF Proceed, Advance
  <2>2. CASE \E parts : upstream[kind] # NoFile /\ PutRules(kind, upstream[kind], parts)
    BY <1>1, <1>2, <2>2, PutRulesIs
  <2> QED
    BY <1>3, <2>1, <2>2
<1>5. ASSUME Advance PROVE RulesMade'
  <2>1. ~Halt /\ Writes("out")
    BY <1>2, <1>5 DEF Halt, Advance, Idle, Writes
  <2>2. \A k \in Kinds : /\ Head(todo) # Step("patch", k)
                         /\ Head(todo) = Step("registry", k) <=> k = kind
    BY <1>1, <1>2, StepIs
  <2> QED
    BY <1>4, <1>5, <2>1, <2>2, RulesGoOn
<1> QED
  BY <1>1, <1>4, <1>5, RulesStep DEF CopyRules

LEMMA PatchRulesMade ==
  ASSUME TypeInv, MadeInv, PatchRules
  PROVE  MadeInv'
<1> DEFINE kind == Head(todo).at
           made == IF kind = "xml" THEN PatchXML(rules.xml) ELSE PatchLst(rules.lst)
<1>1. TodoOK /\ todo # <<>> /\ Head(todo).do = "patch"
  BY TypeParts DEF PatchRules, At
<1>2. kind \in Kinds /\ cmd.op = "build" /\ Head(todo) = Step("patch", kind)
  BY <1>1, HeadIs
<1>3. \/ rules[kind] = NoFile /\ Proceed /\ UNCHANGED rules
      \/ \E parts : rules[kind] # NoFile /\ PutRules(kind, made, parts)
  <2>1. CASE rules[kind] = NoFile
    BY <2>1 DEF PatchRules
  <2>2. CASE rules[kind] # NoFile /\ kind = "xml"
    <3>1. PutRules(kind, made, PartsXML(PatchXML(rules.xml)))
      BY <2>2 DEF PatchRules
    <3> QED
      BY <2>2, <3>1
  <2>3. CASE rules[kind] # NoFile /\ kind # "xml"
    <3>1. kind = "lst" /\ PutRules("lst", PatchLst(rules.lst), PartsLst(PatchLst(rules.lst)))
      BY <1>2, <2>3 DEF PatchRules, Kinds
    <3>2. PutRules(kind, made, PartsLst(PatchLst(rules.lst)))
      BY <3>1
    <3> QED
      BY <2>3, <3>2
  <2> QED
    BY <2>1, <2>2, <2>3
<1>m. rules[kind] = upstream[kind] => made = Patched(kind)
  <2>1. CASE kind = "xml"
    BY <2>1 DEF Patched
  <2>2. CASE kind = "lst"
    BY <2>2 DEF Patched
  <2> QED
    BY <1>2, <2>1, <2>2 DEF Kinds
<1> HIDE DEF kind, made
<1>4. /\ \A k \in Kinds : k # kind => rules'[k] = rules[k]
      /\ Halt \/ (Advance /\ (rules[kind] # NoFile => rules'[kind] = made))
      /\ UNCHANGED <<upstream, data, finished>>
  <2>1. CASE rules[kind] = NoFile /\ Proceed /\ UNCHANGED rules
    BY <1>1, <2>1 DEF Proceed, Advance
  <2>2. CASE \E parts : rules[kind] # NoFile /\ PutRules(kind, made, parts)
    BY <1>1, <1>2, <2>2, PutRulesIs
  <2> QED
    BY <1>3, <2>1, <2>2
<1>5. ASSUME Advance PROVE RulesMade'
  <2>1. ~Halt /\ Writes("out")
    BY <1>2, <1>5 DEF Halt, Advance, Idle, Writes
  <2>2. \A k \in Kinds : /\ Head(todo) # Step("registry", k)
                         /\ Head(todo) = Step("patch", k) <=> k = kind
    BY <1>1, <1>2, StepIs
  <2> QED
    BY <1>4, <1>5, <1>m, <2>1, <2>2, RulesGoOn
<1> QED
  BY <1>1, <1>4, <1>5, RulesStep DEF PatchRules

\* One compose file is written, by generate or build.
LEMMA ChainStatesAre ==
  ASSUME NEW path, NEW state, NEW p
  PROVE  LET old == Others(path) IN
         /\ chains' = old /\ p = path => ChainStates(p)' = {}
         /\ chains' = old \union {ChainFile(path, state)} /\ p = path => ChainStates(p)' = {state}
         /\ (chains' = old \/ chains' = old \union {ChainFile(path, state)}) /\ p # path =>
              ChainStates(p)' = ChainStates(p)
<1> DEFINE c0 == ChainFile(path, state)
           old == Others(path)
<1>1. c0.path = path /\ c0.state = state
  BY DEF ChainFile
<1>2. \A c : c \in old <=> c \in chains /\ c.path # path
  BY DEF Others
<1> HIDE DEF c0, old
<1>3. ASSUME chains' = old, p = path PROVE ChainStates(p)' = {}
  <2>1. {x \in chains' : x.path = p} = {}
    BY <1>2, <1>3
  <2> QED
    BY <2>1 DEF ChainStates
<1>4. ASSUME chains' = old \union {c0}, p = path PROVE ChainStates(p)' = {state}
  <2>1. {x \in chains' : x.path = p} = {c0}
    BY <1>1, <1>2, <1>4
  <2> QED
    BY <1>1, <2>1 DEF ChainStates
<1>5. ASSUME chains' = old \/ chains' = old \union {c0}, p # path
      PROVE  ChainStates(p)' = ChainStates(p)
  <2>1. {x \in chains' : x.path = p} = {x \in chains : x.path = p}
    BY <1>1, <1>2, <1>5
  <2> QED
    BY <2>1 DEF ChainStates
<1> QED
  BY <1>3, <1>4, <1>5 DEF c0, old

LEMMA WriteComposeMade ==
  ASSUME TypeInv, MadeInv, WriteCompose
  PROVE  MadeInv'
<1> DEFINE x == Head(todo).at
<1>1. TodoOK /\ todo # <<>> /\ Head(todo).do = "compose" /\ data \in DataTrees
  BY TypeParts DEF WriteCompose, At, RestOK
<1>2. x \in Chained /\ cmd.op \in {"generate", "build"} /\ Head(todo) = Step("compose", x)
  BY <1>1, HeadIs
<1>3. /\ Advance \/ Halt
      /\ Advance => \/ /\ x.variant.compose = "good"
                       /\ chains' = Others(PathOf(x))
                                      \union {ChainFile(PathOf(x), "whole")}
                    \/ /\ x.variant.compose = "missing"
                       /\ chains' = Others(PathOf(x))
      /\ UNCHANGED <<upstream, data, finished, tree, rules>>
  <2>1. ~(Advance /\ Halt)
    BY <1>2 DEF Advance, Halt, Idle
  <2>2. UNCHANGED <<upstream, data, finished, tree, rules>>
    BY Goes DEF WriteCompose
  <2> QED
    BY <2>1, <2>2, ComposeWrites
<1> HIDE DEF x
<1>4. Writes("out") /\ ~Writes("home")
  BY <1>2 DEF Writes
<1>5. Spares
  BY <1>3, <1>4 DEF Spares
<1>6. PICK l0 \in ToSet(data) : \E v \in ToSet(l0.variants) : v.compose # "none" /\ x = ChainOf(l0, v)
  BY <1>2, ChainedIs
<1>7. PICK v0 \in ToSet(l0.variants) : v0.compose # "none" /\ x = ChainOf(l0, v0)
  BY <1>6
<1>8. PathOf(x) = Path(l0.file, v0.name) /\ x.variant = v0
  BY <1>7, ChainOfIs DEF PathOf
<1>9. ASSUME Advance PROVE ChainsMade'
  <2> SUFFICES ASSUME NEW l \in ToSet(data), NEW v \in ToSet(l.variants), OwnPath(l, v),
                      v.compose # "none"
               PROVE  \/ /\ Head(todo) # Step("compose", ChainOf(l, v))
                         /\ ChainStates(Path(l.file, v.name))' = ChainStates(Path(l.file, v.name))
                      \/ ChainStates(Path(l.file, v.name))'
                           = (IF v.compose = "good" THEN {"whole"} ELSE {})
    BY <1>3, <1>4, <1>9, ChainsGoOn
  <2>0. PICK p : p = Path(l.file, v.name)
    OBVIOUS
  <2>1. CASE p = PathOf(x)
    <3>1. v = x.variant
      BY <1>7, <1>8, <2>0, <2>1 DEF OwnPath
    <3>2. CASE x.variant.compose = "good"
      BY <1>3, <1>9, <2>0, <2>1, <3>1, <3>2, ChainStatesAre
    <3>3. CASE x.variant.compose = "missing"
      BY <1>3, <1>9, <2>0, <2>1, <3>1, <3>3, ChainStatesAre
    <3> QED
      BY <1>3, <1>9, <3>2, <3>3
  <2>2. CASE p # PathOf(x)
    <3>1. Head(todo) # Step("compose", ChainOf(l, v))
      <4>1. ChainOf(l, v) # x
        BY <2>0, <2>2, ChainOfIs DEF PathOf
      <4> QED
        BY <1>2, <4>1, StepIs
    <3> QED
      BY <1>3, <1>9, <2>0, <2>2, <3>1, ChainStatesAre
  <2> QED
    BY <2>1, <2>2
<1>10. ASSUME Advance, NEW d \in {"out", "home"}, Writes(d) PROVE SymbolsMade(d)'
  BY <1>1, <1>3, <1>10, SameSymbols
<1>11. ASSUME Advance PROVE CopiesMade' /\ RulesMade'
  BY <1>1, <1>3, <1>4, <1>11, SameCopies, SameRules
<1> QED
  BY <1>3, <1>4, <1>5, <1>9, <1>10, <1>11, MadeFrom

LEMMA MadeInit == Init => MadeInv
<1> SUFFICES ASSUME Init PROVE MadeInv
  OBVIOUS
<1>1. cmd.op = "none" /\ \A d \in {"out", "home"} : finished[d] = "none"
  BY DEF Init, Idle
<1>2. \A d \in {"out", "home"} : ~Writes(d) /\ Op(d) = "none"
  BY <1>1 DEF Writes, Op
<1>3. Unfinished
  BY <1>1, <1>2 DEF Unfinished
<1>4. \A d \in {"out", "home"} : SymbolsMade(d)
  BY <1>2 DEF SymbolsMade
<1>5. CopiesMade /\ RulesMade /\ ChainsMade
  BY <1>2 DEF CopiesMade, RulesMade, ChainsMade
<1> QED
  BY <1>3, <1>4, <1>5 DEF MadeInv

\* A tree whose contents, and whose writer, are as they were.
LEMMA SameSymbolsMade ==
  ASSUME UNCHANGED <<upstream, data>>, NEW d, SymbolsMade(d), tree'[d] = tree[d], Op(d)' = Op(d),
         \A do, at : Pending(d, do, at)' <=> Pending(d, do, at)
  PROVE  SymbolsMade(d)'
<1>1. \A op, l : Generated(op, l)' = Generated(op, l)
  BY SameSteps
<1> QED
  BY <1>1 DEF SymbolsMade

LEMMA SameOutMade ==
  ASSUME UNCHANGED <<upstream, data, rules, chains>>, tree'["out"] = tree["out"],
         CopiesMade, RulesMade, ChainsMade, Op("out")' = Op("out"),
         \A do, at : Pending("out", do, at)' <=> Pending("out", do, at)
  PROVE  CopiesMade' /\ RulesMade' /\ ChainsMade'
<1>1. CopiesMade'
  <2>1. Copied' = Copied
    BY SameSteps
  <2> QED
    BY <2>1 DEF CopiesMade
<1>2. RulesMade'
  <2>1. \A k : Patched(k)' = Patched(k)
    BY SamePatched
  <2> QED
    BY <2>1 DEF RulesMade
<1>3. ChainsMade'
  <2>1. \A path : ChainStates(path)' = ChainStates(path)
    BY DEF ChainStates
  <2> QED
    BY <2>1, SamePaths DEF ChainsMade
<1> QED
  BY <1>1, <1>2, <1>3

LEMMA StartMade ==
  ASSUME TypeInv, MadeInv, NEW c \in Commands, Start(c)
  PROVE  MadeInv'
<1>1. /\ cmd = Idle /\ cmd' = c /\ todo' = Plan(c)
      /\ UNCHANGED <<upstream, data, tree, rules, chains>>
      /\ data \in DataTrees
  BY TypeParts DEF Start, RestOK
<1>2. c.op \in {"generate", "build", "dropin-check", "activate"} /\ Complete(c.op, Plan(c))
  BY <1>1, CommandsAre, PlanIs
<1>3. \A d \in {"out", "home"} : ~Writes(d) /\ Op(d) = finished[d] /\ Left(d) = <<>>
  BY <1>1, WhoWrites DEF Writes, Idle
<1>4. finished \in [{"out", "home"} -> {"none", "generate", "build", "activate"}]
  BY TypeParts DEF RestOK
<1>5. \A d \in {"out", "home"} :
        \/ Writes(d)' /\ finished'[d] = "none"
        \/ ~Writes(d)' /\ finished'[d] = finished[d]
  <2>1. CASE c.op = "activate"
    <3>1. finished' = [finished EXCEPT !["home"] = "none"]
      BY <2>1 DEF Start
    <3>2. Writes("home")' /\ ~Writes("out")'
      BY <1>1, <2>1 DEF Writes
    <3>3. finished'["home"] = "none" /\ finished'["out"] = finished["out"]
      BY <1>4, <3>1
    <3> QED
      BY <3>2, <3>3
  <2>2. CASE c.op \in {"generate", "build"}
    <3>1. finished' = [finished EXCEPT !["out"] = "none"]
      BY <2>2 DEF Start
    <3>2. Writes("out")' /\ ~Writes("home")'
      BY <1>1, <2>2 DEF Writes
    <3>3. finished'["out"] = "none" /\ finished'["home"] = finished["home"]
      BY <1>4, <3>1
    <3> QED
      BY <3>2, <3>3
  <2>3. CASE c.op = "dropin-check"
    <3>1. finished' = finished
      BY <2>3 DEF Start
    <3>2. ~Writes("out")' /\ ~Writes("home")'
      BY <1>1, <2>3 DEF Writes
    <3> QED
      BY <3>1, <3>2
  <2> QED
    BY <1>2, <2>1, <2>2, <2>3
<1>6. Unfinished'
  <2>1. /\ finished'["home"] \in {"none", finished["home"]}
        /\ finished'["out"] \in {"none", finished["out"]}
    BY <1>5
  <2>2. \A d \in {"out", "home"} : Writes(d)' => finished'[d] = "none"
    BY <1>3, <1>5, <1>2, <1>4 DEF Start
  <2> QED
    BY <2>1, <2>2 DEF MadeInv, Unfinished
<1>7. \A d \in {"out", "home"} : ~Writes(d)' =>
        Op(d)' = Op(d) /\ \A do, at : Pending(d, do, at)' <=> Pending(d, do, at)
  <2> SUFFICES ASSUME NEW d \in {"out", "home"}, ~Writes(d)'
               PROVE  Op(d)' = Op(d) /\ \A do, at : Pending(d, do, at)' <=> Pending(d, do, at)
    OBVIOUS
  <2>1. Op(d)' = Op(d)
    BY <1>3, <1>5 DEF Op
  <2>2. Left(d)' = <<>> /\ Left(d) = <<>>
    BY <1>3 DEF Left
  <2> QED
    BY <2>1, <2>2 DEF Pending, In
<1>8. \A d \in {"out", "home"} : Writes(d)' =>
        Op(d)' = c.op /\ \A do, at : Pending(d, do, at)' <=> In(Step(do, at), Plan(c))
  <2> SUFFICES ASSUME NEW d \in {"out", "home"}, Writes(d)'
               PROVE  Op(d)' = c.op /\ \A do, at : Pending(d, do, at)' <=> In(Step(do, at), Plan(c))
    OBVIOUS
  <2>1. Op(d)' = c.op
    BY <1>1 DEF Op
  <2>2. Left(d)' = Plan(c)
    BY <1>1 DEF Left
  <2> QED
    BY <2>1, <2>2 DEF Pending, In
<1>9. ASSUME NEW d \in {"out", "home"} PROVE SymbolsMade(d)'
  <2>1. CASE Writes(d)'
    <3>1. \A op \in {"generate", "build", "activate"} : Op(d)' = op =>
            \A l \in ToSet(data) : Pending(d, "symbols", l)'
      BY <1>2, <1>8, <2>1 DEF Complete
    <3> QED
      BY <1>1, <3>1 DEF SymbolsMade
  <2>2. CASE ~Writes(d)'
    BY <1>1, <1>7, <2>2, SameSymbolsMade DEF MadeInv
  <2> QED
    BY <2>1, <2>2
<1>10. CopiesMade' /\ RulesMade' /\ ChainsMade'
  <2>1. CASE Writes("out")'
    <3>1. Op("out")' = c.op /\ \A do, at : Pending("out", do, at)' <=> In(Step(do, at), Plan(c))
      BY <1>8, <2>1
    <3>2. c.op \in {"generate", "build"}
      BY <1>1, <2>1 DEF Writes
    <3>3. Copied' = Copied
      BY <1>1, SameSteps
    <3>4. CopiesMade'
      BY <1>2, <3>1, <3>3 DEF Complete, CopiesMade
    <3>5. RulesMade'
      BY <1>2, <3>1 DEF Complete, RulesMade
    <3>6. ChainsMade'
      <4>1. \A l \in ToSet(data) : \A v \in ToSet(l.variants) :
              v.compose # "none" => Pending("out", "compose", ChainOf(l, v))'
        BY <1>2, <3>1, <3>2, ChainedIs DEF Complete
      <4> QED
        BY <1>1, <4>1 DEF ChainsMade
    <3> QED
      BY <3>4, <3>5, <3>6
  <2>2. CASE ~Writes("out")'
    BY <1>1, <1>7, <2>2, SameOutMade DEF MadeInv
  <2> QED
    BY <2>1, <2>2
<1> QED
  BY <1>6, <1>9, <1>10 DEF MadeInv

\* A command that comes to its end has nothing left to do.
LEMMA FinishMade ==
  ASSUME TypeInv, MadeInv, Finish
  PROVE  MadeInv'
<1>1. /\ cmd # Idle /\ todo = <<>> /\ cmd' = Idle
      /\ UNCHANGED <<upstream, data, tree, rules, chains, todo>>
  BY DEF Finish
<1>2. cmd.op \in {"generate", "build", "dropin-check", "activate"} /\ cmd'.op = "none"
  BY <1>1, CmdIs, TypeParts DEF TodoOK, Idle
<1>3. finished \in [{"out", "home"} -> {"none", "generate", "build", "activate"}]
  BY TypeParts DEF RestOK
<1>4. \A d \in {"out", "home"} : ~Writes(d)' /\ finished'[d] = Op(d)
  <2>1. \A d \in {"out", "home"} : ~Writes(d)'
    BY <1>2 DEF Writes
  <2>2. CASE cmd.op = "dropin-check"
    <3>1. finished' = finished
      BY <2>2 DEF Finish
    <3>2. \A d \in {"out", "home"} : ~Writes(d)
      BY <2>2 DEF Writes
    <3> QED
      BY <2>1, <3>1, <3>2, WhoWrites
  <2>3. CASE cmd.op # "dropin-check"
    <3>1. finished' = [finished EXCEPT ![Dest] = cmd.op]
      BY <2>3 DEF Finish
    <3>2. Writes(Dest) /\ \A d \in {"out", "home"} : d # Dest => ~Writes(d)
      BY <1>2, <2>3 DEF Writes, Dest
    <3>3. \A d \in {"out", "home"} : finished'[d] = IF d = Dest THEN cmd.op ELSE finished[d]
      BY <1>3, <3>1
    <3>4. ASSUME NEW d \in {"out", "home"} PROVE finished'[d] = Op(d)
      <4>1. CASE d = Dest
        <5>1. Writes(d)
          BY <3>2, <4>1
        <5> QED
          BY <3>3, <4>1, <5>1, WhoWrites
      <4>2. CASE d # Dest
        BY <3>2, <3>3, <4>2, WhoWrites
      <4> QED
        BY <4>1, <4>2
    <3> QED
      BY <2>1, <3>4
  <2> QED
    BY <2>1, <2>2, <2>3
<1>5. \A d \in {"out", "home"} :
        Op(d)' = Op(d) /\ \A do, at : Pending(d, do, at)' <=> Pending(d, do, at)
  <2> SUFFICES ASSUME NEW d \in {"out", "home"}
               PROVE  Op(d)' = Op(d) /\ \A do, at : Pending(d, do, at)' <=> Pending(d, do, at)
    OBVIOUS
  <2>1. Op(d)' = Op(d)
    BY <1>4 DEF Op
  <2>2. Left(d)' = <<>> /\ Left(d) = <<>>
    BY <1>1, <1>4 DEF Left
  <2> QED
    BY <2>1, <2>2 DEF Pending, In
<1>6. Unfinished'
  <2>1. Op("home") \in {"none", "activate"} /\ Op("out") \in {"none", "generate", "build"}
    BY <1>2 DEF Op, Writes, MadeInv, Unfinished
  <2> QED
    BY <1>4, <2>1 DEF Unfinished
<1>7. \A d \in {"out", "home"} : SymbolsMade(d)'
  BY <1>1, <1>5, SameSymbolsMade DEF MadeInv
<1>8. CopiesMade' /\ RulesMade' /\ ChainsMade'
  BY <1>1, <1>5, SameOutMade DEF MadeInv
<1> QED
  BY <1>6, <1>7, <1>8 DEF MadeInv

LEMMA UserMade ==
  ASSUME TypeInv, MadeInv, EditData \/ \E h \in Hands : UserWrites(h)
  PROVE  MadeInv'
<1>1. cmd = Idle /\ UNCHANGED <<upstream, tree, rules, chains, cmd, todo>>
  BY DEF EditData, UserWrites
<1>2. \A d \in {"out", "home"} : ~Writes(d) /\ ~Writes(d)'
  BY <1>1 DEF Writes, Idle
<1>3. CASE EditData
  <2>1. \A d \in {"out", "home"} : finished'[d] = "none"
    BY <1>3 DEF EditData
  <2>2. \A d \in {"out", "home"} : Op(d)' = "none"
    BY <1>2, <2>1 DEF Op
  <2>3. Unfinished'
    BY <2>1 DEF Unfinished
  <2>4. \A d \in {"out", "home"} : SymbolsMade(d)'
    BY <2>2 DEF SymbolsMade
  <2>5. CopiesMade' /\ RulesMade' /\ ChainsMade'
    BY <2>2 DEF CopiesMade, RulesMade, ChainsMade
  <2> QED
    BY <2>3, <2>4, <2>5 DEF MadeInv
<1>4. CASE \E h \in Hands : UserWrites(h)
  <2>1. UNCHANGED <<data, finished>> /\ Halt
    BY <1>1, <1>4, TypeParts DEF UserWrites, TodoOK, Halt
  <2> QED
    BY <1>1, <2>1, Untouched DEF Advance, Halt, TypeInv, TodoOK
<1> QED
  BY <1>3, <1>4

LEMMA MadeStep == TypeInv /\ MadeInv /\ [Next]_vars => MadeInv'
<1> SUFFICES ASSUME TypeInv, MadeInv, [Next]_vars PROVE MadeInv'
  OBVIOUS
<1>1. CASE \E c \in Commands : Start(c)
  BY <1>1, StartMade
<1>2. CASE CopyFile \/ WriteSymbols \/ CopyRules \/ PatchRules \/ WriteCompose
  BY <1>2, CopyFileMade, WriteSymbolsMade, CopyRulesMade, PatchRulesMade, WriteComposeMade
<1>3. CASE KeepUserFile \/ InstallXCompose \/ SignXCompose \/ DropinCheck
  <2>1. UNCHANGED <<upstream, data, finished, tree, rules, chains>>
    <3>1. CASE DropinCheck
      BY <3>1 DEF DropinCheck
    <3>2. CASE KeepUserFile \/ InstallXCompose \/ SignXCompose
      BY <3>2, Goes DEF KeepUserFile, InstallXCompose, SignXCompose
    <3> QED
      BY <1>3, <3>1, <3>2
  <2>2. Advance \/ Halt
    BY <1>3, Goes DEF DropinCheck, At, Advance
  <2>3. Head(todo).do \in {"keep", "install", "sign", "check"}
    BY <1>3 DEF KeepUserFile, InstallXCompose, SignXCompose, DropinCheck, At
  <2> QED
    BY <2>1, <2>2, <2>3, Untouched
<1>4. CASE Killed
  <2>1. UNCHANGED <<upstream, data, finished, tree, rules, chains>> /\ Halt /\ ~Advance
    BY <1>4 DEF Killed, Stop, Halt, Advance
  <2> QED
    BY <2>1, Untouched
<1>5. CASE Finish
  BY <1>5, FinishMade
<1>6. CASE EditData \/ \E h \in Hands : UserWrites(h)
  BY <1>6, UserMade
<1>7. CASE UNCHANGED vars
  <2>1. UNCHANGED <<upstream, data, tree, rules, chains, cmd, todo, finished>>
    BY <1>7 DEF vars
  <2>2. \A d : Op(d)' = Op(d) /\ (Writes(d)' <=> Writes(d))
    BY <2>1 DEF Op, Writes
  <2>3. \A d, do, at : Pending(d, do, at)' <=> Pending(d, do, at)
    BY <2>1 DEF Pending, Left, Writes, In
  <2>4. Unfinished'
    BY <2>1, <2>2 DEF MadeInv, Unfinished
  <2>5. \A d \in {"out", "home"} : SymbolsMade(d)'
    BY <2>1, <2>2, <2>3, SameSymbolsMade DEF MadeInv
  <2>6. CopiesMade' /\ RulesMade' /\ ChainsMade'
    BY <2>1, <2>2, <2>3, SameOutMade DEF MadeInv
  <2> QED
    BY <2>4, <2>5, <2>6 DEF MadeInv
<1> QED
  BY <1>1, <1>2, <1>3, <1>4, <1>5, <1>6, <1>7 DEF Next
-----------------------------------------------------------------------------
(* What the properties say of it.                                           *)

LEMMA FinishedIs ==
  ASSUME MadeInv, NEW d \in {"out", "home"}, finished[d] # "none"
  PROVE  Op(d) = finished[d] /\ \A do, at : ~Pending(d, do, at)
<1>1. ~Writes(d)
  BY DEF MadeInv, Unfinished
<1>2. Op(d) = finished[d] /\ Left(d) = <<>>
  BY <1>1, WhoWrites
<1> QED
  BY <1>2, InShort DEF Pending

\* A finished tree has each layout's file as it is generated.
LEMMA FinishedSymbols ==
  ASSUME TypeInv, MadeInv, NEW d \in {"out", "home"}, finished[d] # "none", NEW l \in ToSet(data)
  PROVE  l \in Layouts /\ tree[d][l.file] = Generated(finished[d], l)
<1>1. finished[d] \in {"generate", "build", "activate"} /\ data \in DataTrees
  BY TypeParts DEF RestOK
<1>2. Op(d) = finished[d] /\ ~Pending(d, "symbols", l)
  BY FinishedIs
<1>3. tree[d][l.file] = Generated(finished[d], l)
  BY <1>1, <1>2 DEF MadeInv, SymbolsMade
<1> QED
  BY <1>1, <1>3, DataIs

LEMMA UpstreamText ==
  ASSUME TypeInv, NEW f \in Files
  PROVE  upstream.symbols[f] \in Texts \union {NoFile}
BY TypeParts, UpstreamIs DEF RestOK

LEMMA FinishedRules ==
  ASSUME TypeInv, MadeInv, finished["out"] = "build", NEW k \in Kinds, upstream[k] # NoFile
  PROVE  rules[k] = Patched(k)
<1>1. Op("out") = "build" /\ \A do, at : ~Pending("out", do, at)
  BY FinishedIs
<1> QED
  BY <1>1 DEF MadeInv, RulesMade

LEMMA DropInFollows ==
  ASSUME TypeInv, MadeInv
  PROVE  FinishedTreeIsDropIn
<1>0. data \in DataTrees
  BY TypeParts DEF RestOK
<1>1. ASSUME NEW d \in {"out", "home"}, finished[d] # "none", NEW l \in ToSet(data), OneOfEach(l),
             NEW v \in ToSet(l.variants), ~v.passthrough
      PROVE  Live(tree[d][l.file], v.name) = <<Block(v.name, "ours")>>
  <2>1. l \in Layouts /\ tree[d][l.file] = Generated(finished[d], l)
    BY <1>1, FinishedSymbols
  <2>2. upstream.symbols[l.file] \in Texts \union {NoFile}
    BY <2>1, LayoutIs, UpstreamText
  <2> QED
    BY <1>1, <2>1, <2>2, GeneratedIs
<1>2. ASSUME finished["out"] # "none", NEW l \in ToSet(data),
             NEW v \in ToSet(l.variants), OwnPath(l, v), v.compose # "none"
      PROVE  ChainStates(Path(l.file, v.name)) = (IF v.compose = "good" THEN {"whole"} ELSE {})
  <2>1. Op("out") # "none" /\ ~Pending("out", "compose", ChainOf(l, v))
    BY <1>2, FinishedIs
  <2> QED
    BY <1>2, <2>1 DEF MadeInv, ChainsMade
<1>3. ASSUME finished["out"] = "build", NEW f \in Files \ Owned, upstream.symbols[f] # NoFile
      PROVE  tree["out"][f] = upstream.symbols[f]
  <2>1. Op("out") = "build" /\ ~Pending("out", "copy", f)
    BY <1>3, FinishedIs
  <2>2. f \in Copied
    BY <1>3 DEF Copied
  <2> QED
    BY <2>1, <2>2 DEF MadeInv, CopiesMade
<1>4. ASSUME finished["out"] = "build", NEW l \in ToSet(data), OneOfEach(l),
             upstream.symbols[l.file] # NoFile, Tidy(upstream.symbols[l.file]),
             NEW b \in ToSet(upstream.symbols[l.file].blocks), b.kind = "live"
      PROVE  Live(tree["out"][l.file], b.name) =
               <<IF \E v \in Named(l, b.name) : ~v.passthrough THEN Block(b.name, "ours") ELSE b>>
  <2>1. l \in Layouts /\ tree["out"][l.file] = Generated("build", l)
    BY <1>4, FinishedSymbols
  <2>2. upstream.symbols[l.file] \in Texts \union {NoFile}
    BY <2>1, LayoutIs, UpstreamText
  <2>3. PICK up : up = upstream.symbols[l.file]
    OBVIOUS
  <2>4. up \in Texts
    BY <1>4, <2>2, <2>3
  <2>5. PICK i \in 1..Len(up.blocks) : up.blocks[i] = b
    BY <1>4, <2>3, <2>4, TextIs, ToSetIs DEF In
  <2>6. Live(Generated("build", l), up.blocks[i].name) =
          <<IF \E v \in Named(l, up.blocks[i].name) : ~v.passthrough
            THEN Block(up.blocks[i].name, "ours") ELSE up.blocks[i]>>
    BY <1>4, <2>1, <2>2, <2>3, <2>5, GeneratedIs
  <2> QED
    BY <2>1, <2>5, <2>6
<1>5. ASSUME finished["out"] = "build", upstream.xml # NoFile, OneOfEachListed(upstream.xml)
      PROVE  /\ \A i \in DOMAIN upstream.xml : \A v \in ToSet(upstream.xml[i].variants) :
                  ListedOnce(rules.xml, upstream.xml[i].name, v)
             /\ \A l \in ToSet(data) : OneOfEach(l) =>
                  \A v \in ToSet(Names(l)) : ListedOnce(rules.xml, l.file, v)
  <2>1. rules["xml"] = Patched("xml")
    BY <1>5, FinishedRules DEF Kinds
  <2>2. rules.xml = PatchXML(upstream.xml)
    BY <2>1 DEF Patched
  <2>3. upstream.xml \in Registry
    BY <1>5, TypeParts, UpstreamIs DEF RestOK
  <2>4. DOMAIN upstream.xml = 1..Len(upstream.xml)
    BY <2>3, ElementsIn DEF Registry
  <2> QED
    BY <1>0, <1>5, <2>2, <2>3, <2>4, PatchXMLIs
<1>6. ASSUME finished["out"] = "build", upstream.lst # NoFile,
             NEW l \in ToSet(data), NEW v \in ToSet(Names(l))
      PROVE  \E line \in ToSet(rules.lst.variants) : line = [tag |-> l.file \o ":", name |-> v]
  <2>1. rules["lst"] = Patched("lst")
    BY <1>6, FinishedRules DEF Kinds
  <2>2. rules.lst = PatchLst(upstream.lst)
    BY <2>1 DEF Patched
  <2>3. upstream.lst \in Lst
    BY <1>6, TypeParts, UpstreamIs DEF RestOK
  <2> QED
    BY <1>0, <2>2, <2>3, PatchLstIs
<1>7. \A d \in {"out", "home"} : finished[d] # "none" =>
        \A l \in ToSet(data) : OneOfEach(l) => \A v \in ToSet(l.variants) : ~v.passthrough =>
          Live(tree[d][l.file], v.name) = <<Block(v.name, "ours")>>
  BY <1>1
<1>8. finished["out"] # "none" =>
        \A l \in ToSet(data) : \A v \in ToSet(l.variants) : (OwnPath(l, v) /\ v.compose # "none") =>
          ChainStates(Path(l.file, v.name)) = (IF v.compose = "good" THEN {"whole"} ELSE {})
  BY <1>2
<1>9. ASSUME finished["out"] = "build"
      PROVE  \A l \in ToSet(data) :
               LET up == upstream.symbols[l.file] IN
               (OneOfEach(l) /\ up # NoFile /\ Tidy(up)) =>
                 \A b \in ToSet(up.blocks) : b.kind = "live" =>
                   LET ours == \E v \in Named(l, b.name) : ~v.passthrough IN
                   Live(tree["out"][l.file], b.name) =
                     <<IF ours THEN Block(b.name, "ours") ELSE b>>
  BY <1>4, <1>9
<1>10. ASSUME finished["out"] = "build"
       PROVE  \A f \in Files \ Owned :
                upstream.symbols[f] # NoFile => tree["out"][f] = upstream.symbols[f]
  BY <1>3, <1>10
<1>11. ASSUME finished["out"] = "build", upstream.lst # NoFile
       PROVE  \A l \in ToSet(data) : \A v \in ToSet(Names(l)) :
                \E line \in ToSet(rules.lst.variants) : line = [tag |-> l.file \o ":", name |-> v]
  BY <1>6, <1>11
<1> QED
  BY <1>5, <1>7, <1>8, <1>9, <1>10, <1>11, Zenon DEF FinishedTreeIsDropIn, ChainStates

(* A finished tree is a drop-in replacement for upstream's, whatever the    *)
(* data and the upstream tree are and whatever was killed over it before.   *)
THEOREM FinishedTreeHolds == Spec => []FinishedTreeIsDropIn
<1>1. TypeInv /\ MadeInv => FinishedTreeIsDropIn
  BY DropInFollows
<1> QED
  BY <1>1, TypeInit, TypeStep, MadeInit, MadeStep, PTL DEF Spec
-----------------------------------------------------------------------------
(* What dropin-check says.                                                  *)

NoneMissing(made) == MissingFiles(made) = {} /\ MissingVariants = {} /\ MissingRules = {}
Clean == \E made \in BOOLEAN : NoneMissing(made)
TidyUpstream == \A f \in Files : upstream.symbols[f] # NoFile => Tidy(upstream.symbols[f])

(* A report is of the tree as it is, and a build of a tidy tree has none    *)
(* missing.                                                                 *)
ReportInv ==
  /\ report = "clean" => Clean
  /\ Writes("out") => report = "none"
  /\ report = "missing" /\ finished["out"] = "build" => ~TidyUpstream

\* Of a finished build of a tidy tree.
LEMMA BuiltFiles ==
  ASSUME TypeInv, MadeInv, finished["out"] = "build"
  PROVE  MissingFiles(TRUE) = {}
<1>0. data \in DataTrees
  BY TypeParts DEF RestOK
<1>1. ASSUME NEW f \in Files, upstream.symbols[f] # NoFile PROVE tree["out"][f] # NoFile
  <2>1. CASE f \in Copied
    <3>1. Op("out") = "build" /\ ~Pending("out", "copy", f)
      BY FinishedIs
    <3> QED
      BY <1>1, <2>1, <3>1 DEF MadeInv, CopiesMade
  <2>2. CASE f \notin Copied
    <3>1. f \in Owned
      BY <1>1, <2>2 DEF Copied
    <3>2. PICK i \in 1..Len(data) : data[i].file = f
      BY <1>0, <3>1, DataIs DEF Owned
    <3>3. data[i] \in ToSet(data)
      BY <1>0, DataIs
    <3>4. data[i] \in Layouts /\ tree["out"][data[i].file] = Generated("build", data[i])
      BY <3>3, FinishedSymbols
    <3>5. Generated("build", data[i]) \in Texts
      BY <3>4, LayoutIs, UpstreamText, GeneratedIs
    <3> QED
      BY <3>2, <3>4, <3>5, UpstreamAssumption
  <2> QED
    BY <2>1, <2>2
<1>2. ASSUME NEW k \in {"xml", "lst"}, upstream[k] # NoFile PROVE rules[k] # NoFile
  <2>1. rules[k] = Patched(k)
    BY <1>2, FinishedRules DEF Kinds
  <2>2. upstream.xml \in Registry \union {NoFile} /\ upstream.lst \in Lst \union {NoFile}
    BY TypeParts, UpstreamIs DEF RestOK
  <2>3. CASE k = "xml"
    <3>1. Patched(k) = PatchXML(upstream.xml) /\ upstream.xml \in Registry
      BY <1>2, <2>2, <2>3 DEF Patched
    <3>2. PatchXML(upstream.xml) \in Registry
      BY <1>0, <3>1, PatchXMLIs
    <3> QED
      BY <2>1, <3>1, <3>2, UpstreamAssumption
  <2>4. CASE k = "lst"
    <3>1. Patched(k) = PatchLst(upstream.lst) /\ upstream.lst \in Lst
      BY <1>2, <2>2, <2>4 DEF Patched
    <3>2. PatchLst(upstream.lst) \in Lst
      BY <1>0, <3>1, PatchLstIs
    <3> QED
      BY <2>1, <3>1, <3>2, UpstreamAssumption
  <2> QED
    BY <2>3, <2>4
<1> QED
  BY <1>1, <1>2 DEF MissingFiles

LEMMA BuiltVariants ==
  ASSUME TypeInv, MadeInv, finished["out"] = "build", TidyUpstream
  PROVE  MissingVariants = {}
<1>0. data \in DataTrees
  BY TypeParts DEF RestOK
<1>1. ASSUME NEW f \in Files, upstream.symbols[f] # NoFile
      PROVE  VariantNames(upstream.symbols[f]) \subseteq VariantNames(tree["out"][f])
  <2>1. PICK up : up = upstream.symbols[f]
    OBVIOUS
  <2>2. up \in Texts /\ Tidy(up) /\ up.parses /\ ~up.open
    BY <1>1, <2>1, UpstreamText DEF TidyUpstream, Tidy
  <2>3. CASE f \in Copied
    <3>1. Op("out") = "build" /\ ~Pending("out", "copy", f)
      BY FinishedIs
    <3>2. tree["out"][f] = up
      BY <1>1, <2>1, <2>3, <3>1 DEF MadeInv, CopiesMade
    <3> QED
      BY <2>1, <3>2
  <2>4. CASE f \notin Copied
    <3>1. f \in Owned
      BY <1>1, <2>4 DEF Copied
    <3>2. PICK k \in 1..Len(data) : data[k].file = f
      BY <1>0, <3>1, DataIs DEF Owned
    <3>3. PICK l \in ToSet(data) : l = data[k]
      BY <1>0, DataIs
    <3>4. l \in Layouts /\ l.file = f /\ tree["out"][f] = Generated("build", l)
      BY <3>2, <3>3, FinishedSymbols
    <3>5. PICK g : g = Generated("build", l)
      OBVIOUS
    <3>6. g \in Texts /\ g.parses /\ ~g.open
      BY <2>1, <2>2, <3>4, <3>5, GeneratedIs
    <3>7. \A i \in 1..Len(up.blocks) : up.blocks[i].kind = "live" =>
            ~Never(g.blocks, LiveAs(up.blocks[i].name))
      BY <1>1, <2>1, <2>2, <3>4, <3>5, GeneratedIs
    <3>8. \A i \in 1..Len(up.blocks) : up.blocks[i].kind = "live" =>
            \E j \in 1..Len(g.blocks) : g.blocks[j].kind = "live" /\ g.blocks[j].name = up.blocks[i].name
      BY <3>7 DEF Never, LiveAs
    <3>9. /\ VariantNames(up) = {up.blocks[i].name : i \in {j \in 1..Len(up.blocks) : up.blocks[j].kind = "live"}}
          /\ VariantNames(g) = {g.blocks[i].name : i \in {j \in 1..Len(g.blocks) : g.blocks[j].kind = "live"}}
      BY <2>2, <3>6, LiveNamesAre
    <3>10. VariantNames(up) \subseteq VariantNames(g)
      BY <3>8, <3>9
    <3> QED
      BY <2>1, <3>4, <3>5, <3>10
  <2> QED
    BY <2>3, <2>4
<1> QED
  BY <1>1 DEF MissingVariants

LEMMA BuiltRules ==
  ASSUME TypeInv, MadeInv, finished["out"] = "build"
  PROVE  MissingRules = {}
<1>1. CASE upstream.xml = NoFile
  BY <1>1 DEF MissingRules
<1>2. CASE upstream.xml # NoFile
  <2>1. rules["xml"] = Patched("xml")
    BY <1>2, FinishedRules DEF Kinds
  <2>2. rules.xml = PatchXML(upstream.xml)
    BY <2>1 DEF Patched
  <2>3. upstream.xml \in Registry /\ data \in DataTrees
    BY <1>2, TypeParts, UpstreamIs DEF RestOK
  <2>4. Pairs(upstream.xml) \subseteq Pairs(rules.xml)
    BY <2>2, <2>3, PatchXMLIs
  <2> QED
    BY <2>4 DEF MissingRules
<1> QED
  BY <1>1, <1>2

LEMMA ReportInit == Init => ReportInv
BY DEF Init, ReportInv, Writes, Idle

\* The check is of the directory that only generate and build write.
LEMMA SameReport ==
  ASSUME ReportInv, UNCHANGED <<upstream, report>>,
         \/ UNCHANGED <<finished, cmd>>
         \/ cmd' = Idle /\ (finished'["out"] # "build" \/ finished'["out"] = finished["out"]
                            \/ report = "none"),
         tree'["out"] = tree["out"] \/ Writes("out"), rules' = rules \/ Writes("out")
  PROVE  ReportInv'
<1>1. Writes("out")' => Writes("out")
  BY DEF Writes, Idle
<1>2. CASE Writes("out")
  BY <1>1, <1>2 DEF ReportInv
<1>3. CASE ~Writes("out")
  <2>1. tree'["out"] = tree["out"] /\ rules' = rules
    BY <1>3
  <2>2. Clean' <=> Clean
    BY <2>1 DEF Clean, NoneMissing, MissingFiles, MissingVariants, MissingRules
  <2>3. TidyUpstream' <=> TidyUpstream
    BY DEF TidyUpstream
  <2> QED
    BY <1>1, <1>3, <2>2, <2>3 DEF ReportInv
<1> QED
  BY <1>2, <1>3

LEMMA StartReport ==
  ASSUME TypeInv, ReportInv, NEW c \in Commands, Start(c)
  PROVE  ReportInv'
<1>1. cmd' = c /\ UNCHANGED <<upstream, tree, rules>> /\ data \in DataTrees
  BY TypeParts DEF Start, RestOK
<1>2. CASE c.op = "activate"
  <2>1. report' = report /\ finished' = [finished EXCEPT !["home"] = "none"] /\ ~Writes("out")'
    BY <1>1, <1>2 DEF Start, Writes
  <2>2. finished'["out"] = finished["out"]
    BY <2>1, TypeParts DEF RestOK
  <2>3. Clean' <=> Clean
    BY <1>1 DEF Clean, NoneMissing, MissingFiles, MissingVariants, MissingRules
  <2>4. TidyUpstream' <=> TidyUpstream
    BY <1>1 DEF TidyUpstream
  <2> QED
    BY <2>1, <2>2, <2>3, <2>4 DEF ReportInv
<1>3. CASE c.op # "activate"
  <2>1. report' = "none"
    BY <1>3 DEF Start
  <2> QED
    BY <2>1 DEF ReportInv
<1> QED
  BY <1>2, <1>3

LEMMA CheckReport ==
  ASSUME TypeInv, MadeInv, ReportInv, DropinCheck
  PROVE  ReportInv'
<1>1. PICK made \in BOOLEAN :
        /\ made \/ finished["out"] = "none"
        /\ report' = IF NoneMissing(made) THEN "clean" ELSE "missing"
        /\ UNCHANGED <<upstream, tree, rules, cmd, finished>>
  BY DEF DropinCheck, NothingYet, NoneMissing
<1>2. Clean' <=> Clean
  BY <1>1 DEF Clean, NoneMissing, MissingFiles, MissingVariants, MissingRules
<1>3. TidyUpstream' <=> TidyUpstream
  BY <1>1 DEF TidyUpstream
<1>4. ~Writes("out")'
  <2>1. TodoOK /\ todo # <<>> /\ Head(todo).do = "check"
    BY TypeParts DEF DropinCheck, At
  <2>2. cmd.op = "dropin-check"
    BY <2>1, HeadIs
  <2> QED
    BY <1>1, <2>2 DEF Writes
<1>5. finished["out"] = "build" /\ TidyUpstream => made /\ NoneMissing(TRUE)
  BY <1>1, BuiltFiles, BuiltVariants, BuiltRules DEF NoneMissing
<1>6. report' = "clean" => Clean
  BY <1>1 DEF Clean
<1>7. report' = "missing" /\ finished["out"] = "build" => ~TidyUpstream
  BY <1>1, <1>5
<1> QED
  BY <1>1, <1>2, <1>3, <1>4, <1>6, <1>7 DEF ReportInv

LEMMA ReportStep == TypeInv /\ MadeInv /\ ReportInv /\ [Next]_vars => ReportInv'
<1> SUFFICES ASSUME TypeInv, MadeInv, ReportInv, [Next]_vars PROVE ReportInv'
  OBVIOUS
<1>0. TodoOK
  BY TypeParts
<1>1. CASE \E c \in Commands : Start(c)
  BY <1>1, StartReport
<1>2. CASE CopyFile \/ WriteSymbols
  <2>1. UNCHANGED <<upstream, report, finished, rules>> /\ (cmd' = cmd \/ cmd' = Idle) /\ todo # <<>>
    <3>1. rules' = rules
      BY <1>2 DEF CopyFile, WriteSymbols
    <3> QED
      BY <1>2, <3>1, Goes DEF Advance, Halt
  <2>2. tree'["out"] = tree["out"] \/ Writes("out")
    <3>1. CASE Dest = "out"
      <4>1. cmd.op \in {"generate", "build"}
        <5>1. Head(todo).do \in {"copy", "symbols"}
          BY <1>2 DEF CopyFile, WriteSymbols, At
        <5>2. cmd.op \in {"generate", "build", "activate"}
          BY <1>0, <2>1, <5>1, HeadIs
        <5> QED
          BY <3>1, <5>2 DEF Dest
      <4> QED
        BY <4>1 DEF Writes
    <3>2. CASE Dest # "out"
      <4>1. \/ tree' = tree
            \/ \E f, new : tree' = [tree EXCEPT ![Dest][f] = new]
        <5>1. CASE CopyFile
          BY <5>1 DEF CopyFile, PutSymbols
        <5>2. CASE WriteSymbols
          BY <5>2 DEF WriteSymbols, PutSymbols
        <5> QED
          BY <1>2, <5>1, <5>2
      <4>2. CASE tree' = tree
        BY <4>2
      <4>3. CASE \E f, new : tree' = [tree EXCEPT ![Dest][f] = new]
        <5>1. PICK f, new : tree' = [tree EXCEPT ![Dest][f] = new]
          BY <4>3
        <5> QED
          BY <3>2, <5>1, TypeParts DEF TreeOK
      <4> QED
        BY <4>1, <4>2, <4>3
    <3> QED
      BY <3>1, <3>2
  <2> QED
    BY <2>1, <2>2, SameReport
<1>3. CASE CopyRules \/ PatchRules
  <2>1. UNCHANGED <<upstream, report, finished, tree>> /\ (cmd' = cmd \/ cmd' = Idle) /\ todo # <<>>
    <3>1. tree' = tree
      BY <1>3 DEF CopyRules, PatchRules
    <3> QED
      BY <1>3, <3>1, Goes DEF Advance, Halt
  <2>2. Writes("out")
    <3>1. Head(todo).do \in {"registry", "patch"}
      BY <1>3 DEF CopyRules, PatchRules, At
    <3>2. cmd.op = "build"
      BY <1>0, <2>1, <3>1, HeadIs
    <3> QED
      BY <3>2 DEF Writes
  <2> QED
    BY <2>1, <2>2, SameReport
<1>4. CASE WriteCompose \/ KeepUserFile \/ InstallXCompose \/ SignXCompose
  <2>1. UNCHANGED <<tree, rules>>
    BY <1>4 DEF WriteCompose, KeepUserFile, InstallXCompose, SignXCompose
  <2>2. UNCHANGED <<upstream, report, finished>> /\ (cmd' = cmd \/ cmd' = Idle)
    BY <1>4, Goes DEF Advance, Halt
  <2> QED
    BY <2>1, <2>2, SameReport
<1>5. CASE DropinCheck
  BY <1>5, CheckReport
<1>6. CASE Killed
  BY <1>6, SameReport DEF Killed, Stop
<1>7. CASE Finish
  <2>1. cmd' = Idle /\ UNCHANGED <<upstream, report, tree, rules>>
    BY <1>7 DEF Finish
  <2>2. finished'["out"] = finished["out"] \/ report = "none"
    <3>1. CASE cmd.op = "dropin-check"
      BY <1>7, <3>1 DEF Finish
    <3>2. CASE cmd.op = "activate"
      <4>1. finished' = [finished EXCEPT !["home"] = "activate"]
        BY <1>7, <3>2 DEF Finish, Dest
      <4> QED
        BY <4>1, TypeParts DEF RestOK
    <3>3. CASE cmd.op \in {"generate", "build"}
      BY <3>3 DEF ReportInv, Writes
    <3> QED
      BY <1>0, <1>7, <3>1, <3>2, <3>3, CmdIs DEF Finish, TodoOK
  <2> QED
    BY <2>1, <2>2, SameReport
<1>8. CASE EditData
  <2>1. cmd = Idle /\ UNCHANGED <<cmd, upstream, report, tree, rules>> /\ finished'["out"] = "none"
    BY <1>8 DEF EditData
  <2> QED
    BY <2>1, SameReport
<1>9. CASE \E h \in Hands : UserWrites(h)
  BY <1>9, SameReport DEF UserWrites
<1>10. CASE UNCHANGED vars
  BY <1>10, SameReport DEF vars
<1> QED
  BY <1>1, <1>2, <1>3, <1>4, <1>5, <1>6, <1>7, <1>8, <1>9, <1>10 DEF Next

\* What a clean report says of a symbols file and of the registry.
FileIsTrue(f) ==
  LET up == upstream.symbols[f]
      out == tree["out"][f]
  IN up # NoFile =>
       /\ upstream.linked \/ out # NoFile
       /\ (out # NoFile /\ up.parses /\ out.parses /\ ~out.open) =>
            \A b \in ToSet(up.blocks) : b.kind = "live" => Live(out, b.name) # <<>>

RegistryIsTrue ==
  /\ upstream.linked \/ rules.xml # NoFile
  /\ rules.xml # NoFile =>
       \A i \in DOMAIN upstream.xml : \A v \in ToSet(upstream.xml[i].variants) :
         Entries(rules.xml, upstream.xml[i].name, v) # {}

LEMMA CleanIsTrue ==
  ASSUME TypeInv, Clean
  PROVE  /\ \A f \in Files : FileIsTrue(f)
         /\ upstream.xml # NoFile => RegistryIsTrue
<1>0. PICK made \in BOOLEAN : NoneMissing(made)
  BY DEF Clean
<1>1. ASSUME NEW f \in Files, upstream.symbols[f] # NoFile
      PROVE  upstream.linked \/ tree["out"][f] # NoFile
  BY <1>0, <1>1 DEF NoneMissing, MissingFiles
<1>2. ASSUME NEW f \in Files, upstream.symbols[f] # NoFile, tree["out"][f] # NoFile,
             upstream.symbols[f].parses, tree["out"][f].parses, ~tree["out"][f].open,
             NEW b \in ToSet(upstream.symbols[f].blocks), b.kind = "live"
      PROVE  Live(tree["out"][f], b.name) # <<>>
  <2>1. PICK up : up = upstream.symbols[f]
    OBVIOUS
  <2>2. PICK text : text = tree["out"][f]
    OBVIOUS
  <2>3. up \in Texts
    BY <1>2, <2>1, UpstreamText
  <2>4. tree["out"][f] \in Texts \union {NoFile}
    BY TypeParts DEF TreeOK
  <2>5. text \in Texts
    BY <1>2, <2>2, <2>4
  <2>6. VariantNames(up) \subseteq VariantNames(text)
    <3>1. {f} \X (VariantNames(up) \ VariantNames(text)) = {}
      BY <1>0, <1>2, <2>1, <2>2 DEF NoneMissing, MissingVariants
    <3>2. ASSUME NEW n \in VariantNames(up), n \notin VariantNames(text) PROVE FALSE
      <4>1. n \in VariantNames(up) \ VariantNames(text)
        BY <3>2
      <4>2. <<f, n>> \in {f} \X (VariantNames(up) \ VariantNames(text))
        BY <4>1, Zenon
      <4> QED
        BY <3>1, <4>2, Zenon
    <3> QED
      BY <3>2
  <2>7. /\ {up.blocks[i].name : i \in {j \in 1..Len(up.blocks) : up.blocks[j].kind = "live"}}
             \subseteq VariantNames(up)
        /\ VariantNames(text) =
             {text.blocks[i].name : i \in {j \in 1..Len(text.blocks) : text.blocks[j].kind = "live"}}
    BY <1>2, <2>1, <2>2, <2>3, <2>5, LiveNamesAre
  <2>8. PICK i \in 1..Len(up.blocks) : up.blocks[i] = b
    <3>1. up.blocks \in Seq(Blocks)
      BY <2>3, TextIs
    <3> QED
      BY <1>2, <2>1, <3>1, ToSetIs DEF In
  <2>9. b.name \in VariantNames(text)
    BY <1>2, <2>6, <2>7, <2>8
  <2>10. PICK j \in 1..Len(text.blocks) : text.blocks[j].kind = "live" /\ text.blocks[j].name = b.name
    BY <2>7, <2>9
  <2>11. text.blocks[j] \in LiveAs(b.name)
    BY <2>5, <2>10, TextIs DEF LiveAs
  <2>12. ~Never(text.blocks, LiveAs(b.name))
    BY <2>11 DEF Never
  <2> QED
    BY <2>2, <2>5, <2>12, LiveIs
<1>3. ASSUME upstream.xml # NoFile PROVE upstream.linked \/ rules.xml # NoFile
  <2> SUFFICES ASSUME ~upstream.linked PROVE rules["xml"] # NoFile
    OBVIOUS
  <2>1. {k \in {"xml", "lst"} : upstream[k] # NoFile /\ rules[k] = NoFile} = {}
    BY <1>0 DEF NoneMissing, MissingFiles
  <2>2. ~(upstream["xml"] # NoFile /\ rules["xml"] = NoFile)
    BY <2>1
  <2> QED
    BY <1>3, <2>2
<1>4. ASSUME upstream.xml # NoFile, rules.xml # NoFile, NEW i \in DOMAIN upstream.xml,
             NEW v \in ToSet(upstream.xml[i].variants)
      PROVE  Entries(rules.xml, upstream.xml[i].name, v) # {}
  <2>1. Pairs(upstream.xml) \subseteq Pairs(rules.xml)
    BY <1>0, <1>4 DEF NoneMissing, MissingRules
  <2>2. PICK n : n = upstream.xml[i].name
    OBVIOUS
  <2>3. <<n, v>> \in Pairs(upstream.xml)
    BY <1>4, <2>2 DEF Pairs
  <2>4. <<n, v>> \in Pairs(rules.xml)
    BY <2>1, <2>3
  <2>5. PICK reg : reg = rules.xml
    OBVIOUS
  <2>6. reg \in Registry
    BY <1>4, <2>5, TypeParts DEF RulesOK
  <2>7. PICK j \in DOMAIN reg :
          <<n, v>> \in {<<reg[j].name>>} \union {<<reg[j].name, u>> : u \in ToSet(reg[j].variants)}
    BY <2>4, <2>5 DEF Pairs
  <2>8. reg[j].name = n /\ v \in ToSet(reg[j].variants)
    BY <2>7
  <2>9. PICK k \in DOMAIN reg[j].variants : reg[j].variants[k] = v
    BY <2>8 DEF ToSet
  <2>10. <<j, k>> \in {j} \X DOMAIN reg[j].variants
    OBVIOUS
  <2>11. <<j, k>> \in Entries(reg, n, v)
    BY <2>8, <2>9, <2>10 DEF Entries
  <2> QED
    BY <2>2, <2>5, <2>11
<1>5. ASSUME NEW f \in Files PROVE FileIsTrue(f)
  BY <1>1, <1>2 DEF FileIsTrue
<1>6. ASSUME upstream.xml # NoFile PROVE RegistryIsTrue
  BY <1>3, <1>4, <1>6 DEF RegistryIsTrue
<1> QED
  BY <1>5, <1>6

(* What dropin-check can be relied on for: a clean report is of a tree that  *)
(* has, in each file that is there and that the parser reads, every upstream *)
(* variant of it, and every upstream file too if upstream's root is no       *)
(* symlink; and a finished build of a tidy upstream tree always gets one.    *)
THEOREM ReportHolds == Spec => []ReportIsTrue
<1>1. ASSUME TypeInv, MadeInv, ReportInv PROVE ReportIsTrue
  <2>1. report = "clean" => Clean
    BY <1>1 DEF ReportInv
  <2>2. ASSUME report # "none", finished["out"] = "build", TidyUpstream PROVE report = "clean"
    <3>1. report \in {"none", "clean", "missing"}
      BY <1>1, TypeParts DEF RestOK
    <3> QED
      BY <1>1, <2>2, <3>1 DEF ReportInv
  <2>3. Clean => (\A f \in Files : FileIsTrue(f)) /\ (upstream.xml # NoFile => RegistryIsTrue)
    BY <1>1, CleanIsTrue
  <2> QED
    BY <2>1, <2>2, <2>3, Zenon DEF ReportIsTrue, TidyUpstream, FileIsTrue, RegistryIsTrue
<1>2. TypeInv /\ MadeInv /\ ReportInv => ReportIsTrue
  BY <1>1
<1> QED
  BY <1>2, TypeInit, TypeStep, MadeInit, MadeStep, ReportInit, ReportStep, PTL DEF Spec

-----------------------------------------------------------------------------
(* What a user wrote to ~/.XCompose, whoever runs and wherever it stops.     *)

Subjects == UNION {ToSet(d) \union UNION {ToSet(l.variants) : l \in ToSet(d)} : d \in DataTrees}
UserSteps == [do : {"symbols", "keep", "install", "sign"}, at : Subjects]

(* The look at the user's file comes first of what touches it, and once. *)
KeepsFirst(seq) ==
  \A i, j \in 1..Len(seq) : seq[i].do = "keep" /\ j < i => seq[j].do = "symbols"

ToKeep == \E i \in 1..Len(todo) : todo[i].do = "keep"
ToWrite == \E i \in 1..Len(todo) : todo[i].do \in {"install", "sign"}

(* Who wrote a file under the name, or in a backup. *)
FileOK ==
  xcompose = NoFile \/
  (/\ xcompose \in [by : Hands \union {"flexkb"}, marked : BOOLEAN]
   /\ xcompose.marked => xcompose.by = "flexkb")

(* The name of a backup is of this command or of an earlier one, and of an *)
(* earlier one while the file has yet to be looked at.                     *)
NamesAreFresh ==
  /\ script \in Seq(STRING)
  /\ \A b \in backups :
       /\ b.pid \in Nat /\ b.pid >= Len(script)
       /\ cmd.op = "activate" /\ ToKeep => b.pid > Len(script)

(* An activation that writes the file has looked at it, and there is none  *)
(* of the user's under the name any more.                                  *)
LookedFirst ==
  cmd.op = "activate" =>
    /\ todo \in Seq(UserSteps) /\ KeepsFirst(todo)
    /\ ToWrite /\ ~ToKeep => xcompose = NoFile \/ xcompose.by = "flexkb"

KeptInv ==
  /\ data \in DataTrees /\ owed \subseteq Hands
  /\ FileOK /\ NamesAreFresh /\ LookedFirst /\ HandWrittenIsKept

(* What a step takes off the front of an activation's list. *)
LEMMA RestOfTodo ==
  ASSUME todo \in Seq(UserSteps), KeepsFirst(todo), todo # <<>>, todo' = Tail(todo)
  PROVE  /\ todo' \in Seq(UserSteps) /\ KeepsFirst(todo')
         /\ ToKeep' => ToKeep /\ Head(todo).do = "symbols"
         /\ ToWrite' => ToWrite
         /\ ToKeep => ToKeep' \/ Head(todo).do = "keep"
<1>1. /\ todo' \in Seq(UserSteps) /\ Len(todo') = Len(todo) - 1 /\ Len(todo) \in Nat \ {0}
      /\ \A i \in 1..Len(todo') : todo'[i] = todo[i + 1]
  BY HeadTailProperties, EmptySeq
<1>2. Head(todo) = todo[1]
  OBVIOUS
<1>3. KeepsFirst(todo')
  BY <1>1 DEF KeepsFirst
<1>4. ASSUME ToKeep' PROVE ToKeep /\ Head(todo).do = "symbols"
  <2>1. PICK i \in 1..Len(todo') : todo'[i].do = "keep"
    BY <1>4 DEF ToKeep
  <2>2. i + 1 \in 1..Len(todo) /\ 1 \in 1..Len(todo) /\ 1 < i + 1 /\ todo[i + 1].do = "keep"
    BY <1>1, <2>1
  <2>3. QED
    BY <1>2, <2>2 DEF ToKeep, KeepsFirst
<1>5. ToWrite' => ToWrite
  BY <1>1 DEF ToWrite
<1>6. ASSUME ToKeep, Head(todo).do # "keep" PROVE ToKeep'
  <2>1. PICK i \in 1..Len(todo) : todo[i].do = "keep"
    BY <1>6 DEF ToKeep
  <2>2. i # 1
    BY <1>2, <1>6, <2>1
  <2>3. i - 1 \in 1..Len(todo') /\ todo'[i - 1] = todo[(i - 1) + 1]
    BY <1>1, <2>1, <2>2
  <2>4. QED
    BY <2>1, <2>3 DEF ToKeep
<1>7. QED
  BY <1>1, <1>3, <1>4, <1>5, <1>6

(* A step that leaves ~/.XCompose alone. *)
LEMMA OtherSteps ==
  ASSUME KeptInv,
         \/ cmd' = cmd /\ todo # <<>> /\ todo' = Tail(todo) /\ Head(todo).do # "keep"
         \/ cmd' = Idle,
         UNCHANGED <<data, script, owed, xcompose, backups>>
  PROVE  KeptInv'
<1>1. data' \in DataTrees /\ owed' \subseteq Hands /\ FileOK' /\ HandWrittenIsKept'
  BY DEF KeptInv, FileOK, HandWrittenIsKept
<1>2. CASE cmd' = Idle
  BY <1>1, <1>2 DEF KeptInv, NamesAreFresh, LookedFirst, Idle
<1>3. CASE cmd' = cmd /\ todo # <<>> /\ todo' = Tail(todo) /\ Head(todo).do # "keep"
  <2>1. CASE cmd.op # "activate"
    BY <1>1, <1>3, <2>1 DEF KeptInv, NamesAreFresh, LookedFirst
  <2>2. CASE cmd.op = "activate"
    <3>1. /\ todo' \in Seq(UserSteps) /\ KeepsFirst(todo')
          /\ (ToKeep' => ToKeep) /\ (ToWrite' => ToWrite) /\ (ToKeep => ToKeep')
      BY <1>3, <2>2, RestOfTodo DEF KeptInv, LookedFirst
    <3>2. NamesAreFresh'
      BY <1>3, <2>2, <3>1 DEF KeptInv, NamesAreFresh
    <3>3. LookedFirst'
      BY <1>3, <2>2, <3>1 DEF KeptInv, LookedFirst
    <3>4. QED
      BY <1>1, <3>2, <3>3 DEF KeptInv
  <2>3. QED
    BY <2>1, <2>2
<1>4. QED
  BY <1>2, <1>3

(* Three short lists written one after the other. *)
LEMMA ShortLists ==
  ASSUME NEW S, NEW a \in S, NEW b \in S, NEW end \in Seq(S)
  PROVE  LET seq == <<a>> \o <<b>> \o end
         IN /\ seq \in Seq(S)
            /\ Len(seq) \in Nat \ {0} /\ seq[1] = a
            /\ \A i \in 1..Len(seq) : i # 1 => seq[i] = b \/ \E j \in 1..Len(end) : seq[i] = end[j]
<1>1. /\ <<a>> \in Seq(S) /\ Len(<<a>>) = 1 /\ <<a>>[1] = a
      /\ <<b>> \in Seq(S) /\ Len(<<b>>) = 1 /\ <<b>>[1] = b
  OBVIOUS
<1> DEFINE start == <<a>> \o <<b>>
<1>2. start \in Seq(S) /\ Len(start) = 2 /\ start[1] = a /\ start[2] = b
  <2>1. /\ start \in Seq(S) /\ Len(start) = Len(<<a>>) + Len(<<b>>)
        /\ \A i \in 1..Len(<<a>>) + Len(<<b>>) :
             start[i] = IF i <= Len(<<a>>) THEN <<a>>[i] ELSE <<b>>[i - Len(<<a>>)]
    BY <1>1, ConcatProperties
  <2>2. QED
    BY <1>1, <2>1
<1> HIDE DEF start
<1>3. /\ start \o end \in Seq(S) /\ Len(start \o end) = 2 + Len(end) /\ Len(end) \in Nat
      /\ \A i \in 1..(2 + Len(end)) :
           (start \o end)[i] = IF i <= 2 THEN start[i] ELSE end[i - 2]
  <2>1. /\ start \o end \in Seq(S) /\ Len(start \o end) = Len(start) + Len(end)
        /\ \A i \in 1..(Len(start) + Len(end)) :
             (start \o end)[i] = IF i <= Len(start) THEN start[i] ELSE end[i - Len(start)]
    BY <1>2, ConcatProperties
  <2>2. Len(end) \in Nat
    BY LenProperties
  <2>3. QED
    BY <1>2, <2>1, <2>2
<1>4. QED
  BY <1>2, <1>3 DEF start

(* The list an activation starts with. *)
LEMMA ActivationPlan ==
  ASSUME data \in DataTrees, NEW v \in UNION {ToSet(l.variants) : l \in ToSet(data)}
  PROVE  LET plan == Each("symbols", data) \o Install(v)
         IN /\ plan \in Seq(UserSteps) /\ KeepsFirst(plan)
            /\ (\E i \in 1..Len(plan) : plan[i].do \in {"install", "sign"})
                 => \E i \in 1..Len(plan) : plan[i].do = "keep"
<1> DEFINE files == Each("symbols", data)
           rest == Install(v)
<1>1. data \in Seq(ToSet(data)) /\ Len(data) \in Nat /\ DOMAIN data = 1..Len(data)
  BY DataMembers, DataIs
<1>2. \A x \in ToSet(data) : x \in Subjects
  BY DEF Subjects
<1>3. v \in Subjects
  BY DEF Subjects
<1>4. /\ files \in Seq(UserSteps) /\ Len(files) = Len(data)
      /\ \A i \in 1..Len(files) : files[i].do = "symbols"
  <2>1. \A i \in 1..Len(data) : data[i] \in Subjects
    BY <1>1, <1>2 DEF ToSet
  <2>2. files = [i \in 1..Len(data) |-> [do |-> "symbols", at |-> data[i]]]
    BY <1>1 DEF Each
  <2>3. \A i \in 1..Len(data) : [do |-> "symbols", at |-> data[i]] \in UserSteps
    BY <2>1 DEF UserSteps
  <2>4. files \in Seq(UserSteps)
    BY <1>1, <2>2, <2>3, IsASeq
  <2>5. Len(files) = Len(data)
    BY <1>1, <2>2, <2>4, LenProperties
  <2>6. QED
    BY <2>2, <2>4, <2>5
<1>5. /\ rest \in Seq(UserSteps)
      /\ \A i \in 1..Len(rest) : rest[i].do = "keep" => i = 1
      /\ Len(rest) # 0 => rest[1].do = "keep"
  <2> DEFINE S(do) == <<[do |-> do, at |-> v]>>
  <2>1. \A do \in {"keep", "install", "sign"} : S(do) \in Seq(UserSteps) /\ Len(S(do)) = 1
    BY <1>3 DEF UserSteps
  <2>2. \A do \in {"keep", "install", "sign"} : Each(do, <<v>>) = S(do)
    BY DEF Each
  <2>3. rest \in {<<>>, S("keep") \o S("install") \o <<>>,
                  S("keep") \o S("install") \o S("sign")}
    BY <2>2 DEF Install
  <2>4. CASE rest = <<>>
    BY <2>4
  <2>5. ASSUME NEW end \in {<<>>, S("sign")}, rest = S("keep") \o S("install") \o end
        PROVE  /\ rest \in Seq(UserSteps)
               /\ \A i \in 1..Len(rest) : rest[i].do = "keep" => i = 1
               /\ rest[1].do = "keep"
    <3>1. [do |-> "keep", at |-> v] \in UserSteps /\ [do |-> "install", at |-> v] \in UserSteps
      BY <1>3 DEF UserSteps
    <3>2. S("sign") \in Seq(UserSteps) /\ Len(S("sign")) = 1 /\ S("sign")[1].do = "sign"
      BY <2>1
    <3>3. end \in Seq(UserSteps) /\ \A j \in 1..Len(end) : end[j].do # "keep"
      <4>1. CASE end = <<>>
        BY <4>1
      <4>2. CASE end = S("sign")
        BY <3>2, <4>2
      <4>3. QED
        BY <4>1, <4>2
    <3>4. QED
      BY <2>5, <3>1, <3>3, ShortLists
  <2>6. QED
    BY <2>3, <2>4, <2>5
<1> DEFINE plan == files \o rest
<1>6. /\ plan \in Seq(UserSteps) /\ Len(plan) = Len(files) + Len(rest)
      /\ Len(files) \in Nat /\ Len(rest) \in Nat
      /\ \A i \in 1..Len(plan) :
           plan[i] = IF i <= Len(files) THEN files[i] ELSE rest[i - Len(files)]
  BY <1>4, <1>5, ConcatProperties, LenProperties
<1>7. ASSUME NEW i \in 1..Len(plan), NEW j \in 1..Len(plan), plan[i].do = "keep", j < i
      PROVE  plan[j].do = "symbols"
  <2>1. i = Len(files) + 1
    BY <1>4, <1>5, <1>6, <1>7
  <2>2. j \in 1..Len(files) /\ plan[j] = files[j]
    BY <1>6, <1>7, <2>1
  <2>3. QED
    BY <1>4, <2>2
<1>8. ASSUME NEW i \in 1..Len(plan), plan[i].do \in {"install", "sign"}
      PROVE  \E j \in 1..Len(plan) : plan[j].do = "keep"
  <2>1. i > Len(files) /\ Len(rest) # 0
    BY <1>4, <1>6, <1>8
  <2>2. Len(files) + 1 \in 1..Len(plan) /\ plan[Len(files) + 1] = rest[1]
    BY <1>6, <2>1
  <2>3. QED
    BY <1>5, <2>1, <2>2
<1> HIDE DEF plan
<1>9. KeepsFirst(plan)
  BY <1>7 DEF KeepsFirst
<1>10. QED
  BY <1>6, <1>8, <1>9 DEF plan
-----------------------------------------------------------------------------
LEMMA KeptInit == Init => KeptInv
<1> SUFFICES ASSUME Init PROVE KeptInv
  OBVIOUS
<1>1. script \in Seq(STRING) /\ Len(script) \in Nat
  BY ScriptAssumption, LenProperties DEF Init
<1>2. QED
  BY <1>1 DEF Init, Idle, KeptInv, FileOK, NamesAreFresh, LookedFirst, HandWrittenIsKept

(* A new command has a name for its backup that no earlier one had. *)
LEMMA KeptStart ==
  ASSUME KeptInv, NEW c \in Commands, Start(c)
  PROVE  KeptInv'
<1>1. /\ UNCHANGED <<data, xcompose, backups, owed>>
      /\ cmd' = c /\ todo' = Plan(c) /\ script # <<>> /\ script' = Tail(script)
  BY DEF Start
<1>2. data' \in DataTrees /\ owed' \subseteq Hands /\ FileOK' /\ HandWrittenIsKept'
  BY <1>1 DEF KeptInv, FileOK, HandWrittenIsKept
<1>3. /\ script' \in Seq(STRING) /\ Len(script') = Len(script) - 1
      /\ Len(script) \in Nat \ {0}
  BY <1>1, HeadTailProperties, EmptySeq DEF KeptInv, NamesAreFresh
<1>4. NamesAreFresh'
  BY <1>1, <1>3 DEF KeptInv, NamesAreFresh
<1>5. LookedFirst'
  <2> SUFFICES ASSUME c.op = "activate"
               PROVE  /\ todo' \in Seq(UserSteps) /\ KeepsFirst(todo')
                      /\ ToWrite' /\ ~ToKeep' => xcompose' = NoFile \/ xcompose'.by = "flexkb"
    BY <1>1 DEF LookedFirst
  <2>1. c.variant \in UNION {ToSet(l.variants) : l \in ToSet(data)}
    BY DEF Commands
  <2>2. Plan(c) = Each("symbols", data) \o Install(c.variant)
    BY DEF Plan
  <2>3. todo' \in Seq(UserSteps) /\ KeepsFirst(todo')
    BY <1>1, <2>1, <2>2, ActivationPlan DEF KeptInv
  <2>4. ToWrite' => ToKeep'
    BY <1>1, <2>1, <2>2, ActivationPlan DEF KeptInv, ToWrite, ToKeep
  <2>5. QED
    BY <2>3, <2>4
<1>6. QED
  BY <1>2, <1>4, <1>5 DEF KeptInv

(* The user's file goes to a backup that has its name to itself. *)
LEMMA KeptKeep ==
  ASSUME KeptInv, KeepUserFile
  PROVE  KeptInv'
<1>1. /\ cmd.op = "activate" /\ todo # <<>> /\ Head(todo).do = "keep"
      /\ todo' = Tail(todo) /\ UNCHANGED <<data, cmd, script, owed>>
  BY DEF KeepUserFile, At, Proceed
<1>2. /\ todo' \in Seq(UserSteps) /\ KeepsFirst(todo') /\ ~ToKeep'
  BY <1>1, RestOfTodo DEF KeptInv, LookedFirst
<1>3. ToKeep
  BY <1>1, HeadTailProperties, EmptySeq DEF KeptInv, LookedFirst, ToKeep
<1>4. /\ Len(script) \in Nat /\ script \in Seq(STRING)
      /\ \A b \in backups : b.pid \in Nat /\ b.pid > Len(script)
  BY <1>1, <1>3, LenProperties DEF KeptInv, NamesAreFresh
<1>5. CASE xcompose = NoFile \/ xcompose.marked
  <2>1. UNCHANGED <<xcompose, backups>>
    BY <1>5 DEF KeepUserFile
  <2>2. xcompose = NoFile \/ xcompose.by = "flexkb"
    BY <1>5 DEF KeptInv, FileOK
  <2>3. QED
    BY <1>1, <1>2, <1>4, <2>1, <2>2
    DEF KeptInv, FileOK, NamesAreFresh, LookedFirst, HandWrittenIsKept
<1>6. CASE ~(xcompose = NoFile \/ xcompose.marked)
  <2> DEFINE new == [pid |-> Len(script), of |-> xcompose]
  <2>1. xcompose' = NoFile /\ backups' = backups \union {new}
    <3>1. /\ xcompose' = NoFile
          /\ backups' = {b \in backups : b.pid # Len(script)} \union {new}
      BY <1>6 DEF KeepUserFile, BackupName
    <3>2. QED
      BY <1>4, <3>1
  <2>2. HandWrittenIsKept'
    <3> SUFFICES ASSUME NEW h \in owed PROVE \E b \in backups' : b.of.by = h
      BY <1>1 DEF HandWrittenIsKept
    <3>1. CASE xcompose.by = h
      <4>1. new \in backups' /\ new.of.by = h
        BY <2>1, <3>1
      <4>2. QED
        BY <4>1
    <3>2. CASE xcompose.by # h
      BY <2>1, <3>2 DEF KeptInv, HandWrittenIsKept
    <3>3. QED
      BY <3>1, <3>2
  <2>3. NamesAreFresh'
    BY <1>1, <1>2, <1>4, <2>1 DEF NamesAreFresh
  <2>4. LookedFirst' /\ FileOK'
    BY <1>2, <2>1 DEF LookedFirst, FileOK
  <2>5. QED
    BY <1>1, <2>2, <2>3, <2>4 DEF KeptInv
<1>7. QED
  BY <1>5, <1>6

(* What activate writes over is not the user's. *)
LEMMA KeptWrite ==
  ASSUME KeptInv, InstallXCompose \/ SignXCompose
  PROVE  KeptInv'
<1>1. /\ cmd.op = "activate" /\ todo # <<>> /\ Head(todo).do \in {"install", "sign"}
      /\ UNCHANGED <<data, script, owed, backups>>
      /\ (cmd' = cmd /\ todo' = Tail(todo)) \/ cmd' = Idle
      /\ \E m \in BOOLEAN : xcompose' = Written(m)
  BY DEF InstallXCompose, SignXCompose, At, Proceed, Stop
<1>2. todo \in Seq(UserSteps) /\ KeepsFirst(todo)
  BY <1>1 DEF KeptInv, LookedFirst
<1>3. Head(todo) = todo[1] /\ Len(todo) \in Nat \ {0}
  BY <1>1, <1>2, HeadTailProperties, EmptySeq
<1>4. ToWrite /\ ~ToKeep
  BY <1>1, <1>2, <1>3 DEF ToWrite, ToKeep, KeepsFirst
<1>5. xcompose = NoFile \/ xcompose.by = "flexkb"
  BY <1>1, <1>4 DEF KeptInv, LookedFirst
<1>6. FileOK' /\ xcompose'.by = "flexkb"
  BY <1>1 DEF FileOK, Written
<1>7. HandWrittenIsKept'
  BY <1>1, <1>5, HandAssumption DEF KeptInv, HandWrittenIsKept
<1>8. NamesAreFresh' /\ LookedFirst'
  <2>1. CASE cmd' = Idle
    BY <1>1, <2>1 DEF KeptInv, NamesAreFresh, LookedFirst, Idle
  <2>2. CASE cmd' = cmd /\ todo' = Tail(todo)
    <3>1. todo' \in Seq(UserSteps) /\ KeepsFirst(todo') /\ (ToKeep' => ToKeep)
      BY <1>1, <1>2, <2>2, RestOfTodo
    <3>2. QED
      BY <1>1, <1>6, <2>2, <3>1 DEF KeptInv, NamesAreFresh, LookedFirst
  <2>3. QED
    BY <1>1, <2>1, <2>2
<1>9. QED
  BY <1>1, <1>6, <1>7, <1>8 DEF KeptInv

(* Between commands the user writes the file or changes his layouts. *)
LEMMA KeptUser ==
  ASSUME KeptInv, EditData \/ \E h \in Hands : UserWrites(h)
  PROVE  KeptInv'
<1>1. cmd = Idle /\ UNCHANGED <<cmd, todo, script, backups>> /\ data' \in DataTrees
  BY DEF EditData, UserWrites, KeptInv
<1>2. NamesAreFresh' /\ LookedFirst'
  BY <1>1 DEF KeptInv, NamesAreFresh, LookedFirst, Idle
<1>3. CASE EditData
  BY <1>1, <1>2, <1>3 DEF EditData, KeptInv, FileOK, HandWrittenIsKept
<1>4. ASSUME NEW h \in Hands, UserWrites(h)
      PROVE  owed' \subseteq Hands /\ FileOK' /\ HandWrittenIsKept'
  <2>1. xcompose' = [by |-> h, marked |-> FALSE] /\ owed' \subseteq Hands
    BY <1>4 DEF UserWrites, KeptInv
  <2>2. ASSUME NEW k \in owed', k # h PROVE \E b \in backups' : b.of.by = k
    <3>1. k \in owed /\ (xcompose # NoFile => xcompose.by # k)
      BY <1>4, <2>2 DEF UserWrites
    <3>2. QED
      BY <1>1, <3>1 DEF KeptInv, HandWrittenIsKept
  <2>3. xcompose' # NoFile
    <3>1. [by |-> h, marked |-> FALSE] \in [by : Hands \union {"flexkb"}, marked : BOOLEAN]
      OBVIOUS
    <3>2. QED
      BY <2>1, <3>1, HandAssumption
  <2>4. QED
    BY <2>1, <2>2, <2>3 DEF FileOK, HandWrittenIsKept
<1>5. QED
  BY <1>1, <1>2, <1>3, <1>4 DEF KeptInv

LEMMA KeptStep == KeptInv /\ [Next]_vars => KeptInv'
<1> SUFFICES ASSUME KeptInv, [Next]_vars PROVE KeptInv'
  OBVIOUS
<1>1. CASE \E c \in Commands : Start(c)
  BY <1>1, KeptStart
<1>2. CASE CopyFile \/ CopyRules \/ WriteSymbols \/ PatchRules \/ WriteCompose
  <2>1. /\ todo # <<>> /\ Head(todo).do \notin {"keep"}
        /\ UNCHANGED <<xcompose, backups>>
    BY <1>2 DEF CopyFile, CopyRules, WriteSymbols, PatchRules, WriteCompose, At
  <2>2. Proceed \/ Stop
    BY <1>2 DEF CopyFile, CopyRules, WriteSymbols, PatchRules, WriteCompose,
                PutSymbols, PutRules
  <2>3. QED
    BY <2>1, <2>2, OtherSteps DEF Proceed, Stop
<1>3. CASE KeepUserFile
  BY <1>3, KeptKeep
<1>4. CASE InstallXCompose \/ SignXCompose
  BY <1>4, KeptWrite
<1>5. CASE DropinCheck
  BY <1>5, OtherSteps DEF DropinCheck, At
<1>6. CASE Killed \/ Finish
  BY <1>6, OtherSteps DEF Killed, Finish, Stop
<1>7. CASE EditData \/ \E h \in Hands : UserWrites(h)
  BY <1>7, KeptUser
<1>8. CASE UNCHANGED vars
  BY <1>8 DEF vars, KeptInv, FileOK, NamesAreFresh, LookedFirst, HandWrittenIsKept,
              ToKeep, ToWrite
<1>9. QED
  BY <1>1, <1>2, <1>3, <1>4, <1>5, <1>6, <1>7, <1>8 DEF Next

(* installUserXCompose: whatever a user wrote to ~/.XCompose, and did not  *)
(* replace himself, stays there or in a backup.                            *)
THEOREM HandWrittenSurvives == Spec => []HandWrittenIsKept
<1>1. KeptInv => HandWrittenIsKept
  BY DEF KeptInv
<1>2. QED
  BY <1>1, KeptInit, KeptStep, PTL DEF Spec
=============================================================================
