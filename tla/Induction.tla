------------------------------ MODULE Induction ------------------------------
(***************************************************************************)
(* Induction over the natural numbers, without an operator as a parameter: *)
(* a set of numbers has a least member, so a set that goes on from every   *)
(* number to the next contains them all. With it the folds of the          *)
(* community modules, which are recursive functions over the subsets of an *)
(* interval or of a finite set, are shown to exist, and what repeats one   *)
(* step.                                                                   *)
(***************************************************************************)
EXTENDS FiniteSetsExt, FiniteSetTheorems, WellFoundedInduction, TLAPS

\* The order of the natural numbers as a relation.
Less == {ss \in Nat \X Nat : ss[1] < ss[2]}

\* A set of natural numbers that is not empty has a least member.
LEMMA LeastNatural ==
    ASSUME NEW T, T \subseteq Nat, T # {}
    PROVE  \E m \in T : \A n \in T : m <= n
<1>1. IsWellFoundedOn(Less, Nat) BY NatLessThanWellFounded DEF OpToRel, Less
<1>2. PICK m \in T : \A n \in T : ~(<<n, m>> \in Less) BY <1>1, WFMin, Zenon
<1>3. ASSUME NEW n \in T PROVE m <= n
  <2>1. m \in Nat /\ n \in Nat OBVIOUS
  <2>2. n < m => <<n, m>> \in Less BY <2>1 DEF Less
  <2>. QED BY <1>2, <2>1, <2>2
<1>. QED BY <1>3

\* A set that contains 0 and goes on from every number below n to the next one
\* contains all numbers up to n.
LEMMA UpTo ==
    ASSUME NEW n \in Nat, NEW T, 0 \in T, \A i \in 0 .. n - 1 : i \in T => i + 1 \in T
    PROVE  \A i \in 0 .. n : i \in T
<1> DEFINE Missing == {i \in 0 .. n : i \notin T}
<1>1. SUFFICES ASSUME Missing # {} PROVE FALSE OBVIOUS
<1>2. PICK m \in Missing : \A i \in Missing : m <= i
  <2>1. Missing \subseteq Nat OBVIOUS
  <2>. HIDE DEF Missing
  <2>. QED BY <1>1, <2>1, LeastNatural
<1>3. m \in 0 .. n /\ m # 0 /\ m \notin T OBVIOUS
<1>4. m - 1 \in 0 .. n - 1 /\ m - 1 \notin Missing /\ m = (m - 1) + 1 BY <1>2, <1>3
<1>. QED BY <1>3, <1>4

LEMMA MaxIs ==
    ASSUME NEW S \in SUBSET Int, NEW x \in S, \A y \in S : y <= x
    PROVE  Max(S) = x
<1>1. \A y \in S : x >= y OBVIOUS
<1>2. \A z \in S : (\A y \in S : z >= y) => z = x OBVIOUS
<1>. QED BY <1>1, <1>2, Zenon DEF Max

\* The last number of an interval, and the interval without it.
LEMMA LastOfInterval ==
    ASSUME NEW m \in Nat \ {0}, NEW s \in SUBSET (1 .. m), m \in s
    PROVE  Max(s) = m /\ s \ {m} \in SUBSET (1 .. m - 1)
<1>1. \A y \in s : m >= y OBVIOUS
<1>2. \A x \in s : (\A y \in s : x >= y) => x = m OBVIOUS
<1>3. Max(s) = m BY <1>1, <1>2, Zenon DEF Max
<1>4. s \ {m} \in SUBSET (1 .. m - 1) OBVIOUS
<1>. QED BY <1>3, <1>4

\* A set of positions that is not empty has a last one.
LEMMA MaxInInterval ==
    ASSUME NEW n \in Nat, NEW s \in SUBSET (1 .. n), s # {}
    PROVE  Max(s) \in s /\ \A y \in s : y <= Max(s)
<1> DEFINE T == {n - i : i \in s}
<1>1. T \subseteq Nat /\ T # {}
  <2>1. \A i \in s : n - i \in Nat OBVIOUS
  <2>. QED BY <2>1
<1>2. PICK m \in T : \A k \in T : m <= k
  <2>. HIDE DEF T
  <2>. QED BY <1>1, LeastNatural
<1>3. PICK x \in s : m = n - x BY <1>2
<1>4. ASSUME NEW y \in s PROVE x >= y
  <2>1. n - y \in T OBVIOUS
  <2>2. m <= n - y
    <3>. HIDE DEF T
    <3>. QED BY <1>2, <2>1
  <2>. QED BY <1>3, <2>2
<1>5. Max(s) \in s /\ \A y \in s : Max(s) >= y BY <1>3, <1>4, Zenon DEF Max
<1>. QED BY <1>5

LEMMA Interval ==
    ASSUME NEW m \in Nat \ {0}
    PROVE  1 .. m # {} /\ Max(1 .. m) = m /\ (1 .. m) \ {m} = 1 .. m - 1
<1>1. m \in 1 .. m OBVIOUS
<1>2. Max(1 .. m) = m BY <1>1, LastOfInterval
<1>. QED BY <1>1, <1>2

-----------------------------------------------------------------------------
\* What g is to be: the fold of F, which takes a value and a position, over the
\* positions s from the first to the last.
Folds(g, base, F, m) ==
    \A s \in SUBSET (1 .. m) :
        g[s] = IF s = {} THEN base ELSE F[<<g[s \ {Max(s)}], Max(s)>>]

\* A fold over a sequence exists, and its values are those of F.
LEMMA FoldExists ==
    ASSUME NEW W, NEW base \in W, NEW n \in Nat, NEW F \in [W \X (1 .. n) -> W]
    PROVE  \E g \in [SUBSET (1 .. n) -> W] : Folds(g, base, F, n)
<1> DEFINE T == {m \in 0 .. n : \E g \in [SUBSET (1 .. m) -> W] : Folds(g, base, F, m)}
<1>1. 0 \in T
  <2> DEFINE g == [s \in SUBSET (1 .. 0) |-> base]
  <2>1. \A s \in SUBSET (1 .. 0) : s = {} OBVIOUS
  <2>2. g \in [SUBSET (1 .. 0) -> W] /\ Folds(g, base, F, 0) BY <2>1 DEF Folds
  <2>. QED BY <2>2
<1>2. ASSUME NEW m \in 0 .. n - 1, m \in T PROVE m + 1 \in T
  <2>1. PICK g \in [SUBSET (1 .. m) -> W] : Folds(g, base, F, m) BY <1>2
  <2> DEFINE h == [s \in SUBSET (1 .. m + 1) |->
                     IF s \in SUBSET (1 .. m) THEN g[s] ELSE F[<<g[s \ {m + 1}], m + 1>>]]
  <2>2. m \in Nat /\ m + 1 \in 1 .. n /\ m + 1 \in 0 .. n /\ m + 1 \in Nat \ {0} /\ (m + 1) - 1 = m OBVIOUS
  <2>3. ASSUME NEW s \in SUBSET (1 .. m + 1), s \notin SUBSET (1 .. m)
        PROVE  /\ s # {} /\ Max(s) = m + 1 /\ s \ {m + 1} \in SUBSET (1 .. m)
    <3>1. m + 1 \in s BY <2>2, <2>3
    <3>. QED BY <2>2, <3>1, LastOfInterval
  <2>4. h \in [SUBSET (1 .. m + 1) -> W]
    <3>1. ASSUME NEW s \in SUBSET (1 .. m + 1) PROVE h[s] \in W
      <4>1. CASE s \in SUBSET (1 .. m) BY <4>1
      <4>2. CASE s \notin SUBSET (1 .. m)
        <5>1. g[s \ {m + 1}] \in W BY <2>3, <4>2
        <5>. QED BY <2>2, <4>2, <5>1
      <4>. QED BY <4>1, <4>2
    <3>. QED BY <3>1
  <2>5. Folds(h, base, F, m + 1)
    <3>1. ASSUME NEW s \in SUBSET (1 .. m + 1)
          PROVE  h[s] = IF s = {} THEN base ELSE F[<<h[s \ {Max(s)}], Max(s)>>]
      <4>1. CASE s \in SUBSET (1 .. m)
        <5>1. h[s] = g[s] BY <4>1
        <5>2. s \ {Max(s)} \in SUBSET (1 .. m) /\ s \ {Max(s)} \in SUBSET (1 .. m + 1) BY <4>1
        <5>3. h[s \ {Max(s)}] = g[s \ {Max(s)}] BY <5>2
        <5>4. g[s] = IF s = {} THEN base ELSE F[<<g[s \ {Max(s)}], Max(s)>>]
          BY <2>1, <4>1, Zenon DEF Folds
        <5>. QED BY <5>1, <5>3, <5>4, Zenon
      <4>2. CASE s \notin SUBSET (1 .. m)
        <5>1. s # {} /\ Max(s) = m + 1 /\ s \ {m + 1} \in SUBSET (1 .. m) BY <2>3, <4>2
        <5>2. s \ {m + 1} \in SUBSET (1 .. m + 1) OBVIOUS
        <5>3. h[s \ {m + 1}] = g[s \ {m + 1}] BY <5>1, <5>2
        <5>4. h[s] = F[<<g[s \ {m + 1}], m + 1>>] BY <4>2
        <5>. QED BY <5>1, <5>3, <5>4, Zenon
      <4>. QED BY <4>1, <4>2
    <3>. HIDE DEF h
    <3>. QED BY <3>1, Zenon DEF Folds
  <2>. HIDE DEF h
  <2>. QED BY <2>2, <2>4, <2>5
<1>3. \A m \in 0 .. n : m \in T
  <2>. HIDE DEF T
  <2>. QED BY <1>1, <1>2, UpTo
<1>4. n \in T
  <2>1. n \in 0 .. n OBVIOUS
  <2>. HIDE DEF T
  <2>. QED BY <1>3, <2>1
<1>. QED BY <1>4

\* The positions up to i, the last of them and the others.
LEMMA Prefix ==
    ASSUME NEW n \in Nat, NEW i \in 1 .. n
    PROVE  /\ 1 .. i \in SUBSET (1 .. n) /\ 1 .. i # {}
           /\ Max(1 .. i) = i /\ (1 .. i) \ {Max(1 .. i)} = 1 .. i - 1
<1>1. i \in Nat \ {0} OBVIOUS
<1>2. 1 .. i # {} /\ Max(1 .. i) = i /\ (1 .. i) \ {i} = 1 .. i - 1 BY <1>1, Interval
<1>3. 1 .. i \in SUBSET (1 .. n) OBVIOUS
<1>. QED BY <1>2, <1>3

\* it unfolds as a fold of F over the positions does, as long as its values are
\* in W; and v goes on with F from position to
\* position up to the value of it.
Unfolds(it, W, base, F, n) ==
    /\ it[{}] = base
    /\ \A s \in SUBSET (1 .. n) :
          s # {} /\ it[s \ {Max(s)}] \in W => it[s] = F[<<it[s \ {Max(s)}], Max(s)>>]
Walk(v, it, base, F, n) ==
    /\ v[0] = base /\ v[n] = it[1 .. n]
    /\ \A i \in 1 .. n : v[i] = F[<<v[i - 1], i>>]

\* Whatever does what a fold of F does, is the end of a walk with F from the
\* first position to the last.
LEMMA FoldWalk ==
    ASSUME NEW W, NEW base \in W, NEW n \in Nat, NEW F \in [W \X (1 .. n) -> W],
           NEW it, Unfolds(it, W, base, F, n)
    PROVE  \E v \in [0 .. n -> W] : Walk(v, it, base, F, n)
<1> DEFINE T == {i \in 0 .. n : it[1 .. i] \in W}
           v == [i \in 0 .. n |-> it[1 .. i]]
<1>1. ASSUME NEW i \in 1 .. n, it[1 .. i - 1] \in W
      PROVE  it[1 .. i] = F[<<it[1 .. i - 1], i>>] /\ it[1 .. i] \in W
  <2>1. /\ 1 .. i \in SUBSET (1 .. n) /\ 1 .. i # {}
        /\ Max(1 .. i) = i /\ (1 .. i) \ {Max(1 .. i)} = 1 .. i - 1
    BY Prefix
  <2>2. it[(1 .. i) \ {Max(1 .. i)}] \in W BY <1>1, <2>1
  <2>3. it[1 .. i] = F[<<it[(1 .. i) \ {Max(1 .. i)}], Max(1 .. i)>>] BY <2>1, <2>2, Zenon DEF Unfolds
  <2>. QED BY <1>1, <2>1, <2>3
<1>2. 0 \in T
  <2>1. 1 .. 0 = {} /\ 0 \in 0 .. n OBVIOUS
  <2>. QED BY <2>1 DEF Unfolds
<1>3. ASSUME NEW i \in 0 .. n - 1, i \in T PROVE i + 1 \in T
  <2>1. i + 1 \in 1 .. n /\ (i + 1) - 1 = i /\ i + 1 \in 0 .. n OBVIOUS
  <2>2. it[1 .. (i + 1) - 1] \in W BY <1>3, <2>1
  <2>. QED BY <1>1, <2>1, <2>2
<1>4. \A i \in 0 .. n : i \in T
  <2>. HIDE DEF T
  <2>. QED BY <1>2, <1>3, UpTo
<1>5. v \in [0 .. n -> W] BY <1>4
<1>6. v[0] = base /\ v[n] = it[1 .. n]
  <2>1. 1 .. 0 = {} /\ 0 \in 0 .. n /\ n \in 0 .. n OBVIOUS
  <2>. QED BY <2>1 DEF Unfolds
<1>7. ASSUME NEW i \in 1 .. n PROVE v[i] = F[<<v[i - 1], i>>]
  <2>1. i \in 0 .. n /\ i - 1 \in 0 .. n OBVIOUS
  <2>2. v[i] = it[1 .. i] /\ v[i - 1] = it[1 .. i - 1] /\ it[1 .. i - 1] \in W BY <1>4, <2>1
  <2>. QED BY <1>1, <2>2
<1>. HIDE DEF v
<1>. QED BY <1>5, <1>6, <1>7 DEF Walk

-----------------------------------------------------------------------------
\* A property of the subsets of a finite set that every subset has when all
\* smaller ones inside it have it, is one of them all.
LEMMA SubsetInduction ==
    ASSUME NEW S, IsFiniteSet(S), NEW T,
           \A s \in SUBSET S : (\A r \in SUBSET s : r # s => r \in T) => s \in T
    PROVE  \A s \in SUBSET S : s \in T
<1> DEFINE n == Cardinality(S)
           Done == {i \in 0 .. n : \A s \in SUBSET S : Cardinality(s) <= i => s \in T}
<1>1. n \in Nat /\ \A s \in SUBSET S : IsFiniteSet(s) /\ Cardinality(s) \in Nat /\ Cardinality(s) <= n
  BY FS_CardinalityType, FS_Subset
<1>2. ASSUME NEW s \in SUBSET S, NEW r \in SUBSET s, r # s
      PROVE  r \in SUBSET S /\ Cardinality(r) < Cardinality(s)
  <2>1. r \in SUBSET S OBVIOUS
  <2>2. Cardinality(r) <= Cardinality(s) /\ (Cardinality(s) = Cardinality(r) => s = r)
    BY <1>1, FS_Subset
  <2>. QED BY <1>1, <1>2, <2>1, <2>2
<1>3. 0 \in Done
  <2>1. ASSUME NEW s \in SUBSET S, Cardinality(s) <= 0 PROVE s \in T
    <3>1. Cardinality(s) = 0 BY <1>1, <2>1
    <3>2. s = {} BY <1>1, <3>1, FS_EmptySet
    <3>. QED BY <3>2
  <2>. QED BY <1>1, <2>1
<1>4. ASSUME NEW i \in 0 .. n - 1, i \in Done PROVE i + 1 \in Done
  <2>1. ASSUME NEW s \in SUBSET S, Cardinality(s) <= i + 1 PROVE s \in T
    <3>1. ASSUME NEW r \in SUBSET s, r # s PROVE r \in T
      <4>1. r \in SUBSET S /\ Cardinality(r) < Cardinality(s) BY <1>2, <3>1
      <4>2. Cardinality(r) <= i BY <1>1, <2>1, <4>1
      <4>. QED BY <1>4, <4>1, <4>2
    <3>. QED BY <3>1
  <2>. QED BY <1>1, <2>1
<1>5. \A i \in 0 .. n : i \in Done
  <2>. HIDE DEF Done, n
  <2>. QED BY <1>1, <1>3, <1>4, UpTo
<1>6. n \in Done
  <2>. HIDE DEF Done, n
  <2>. QED BY <1>1, <1>5
<1>. QED BY <1>1, <1>6

\* What g is to be: the fold of F, which takes a value and a member, over the
\* subsets of S in the order of CHOOSE.
SetFolds(g, base, F, S) ==
    \A s \in SUBSET S :
        g[s] = IF s = {} THEN base
               ELSE F[<<g[s \ {CHOOSE x \in s : TRUE}], CHOOSE x \in s : TRUE>>]

\* A fold over a finite set exists, and its values are those of F.
LEMMA SetFoldExists ==
    ASSUME NEW S, IsFiniteSet(S), NEW W, NEW base \in W, NEW F \in [W \X S -> W]
    PROVE  \E g \in [SUBSET S -> W] : SetFolds(g, base, F, S)
<1> DEFINE n == Cardinality(S)
           First(s) == CHOOSE x \in s : TRUE
           Small(i) == {s \in SUBSET S : Cardinality(s) <= i}
           Is(g, i) == \A s \in Small(i) :
                          g[s] = IF s = {} THEN base ELSE F[<<g[s \ {First(s)}], First(s)>>]
           T == {i \in 0 .. n : \E g \in [Small(i) -> W] : Is(g, i)}
<1>1. n \in Nat /\ \A s \in SUBSET S : IsFiniteSet(s) /\ Cardinality(s) \in Nat /\ Cardinality(s) <= n
  BY FS_CardinalityType, FS_Subset
<1>2. ASSUME NEW s \in SUBSET S, s # {}
      PROVE  /\ First(s) \in s /\ s \ {First(s)} \in SUBSET S
             /\ Cardinality(s \ {First(s)}) = Cardinality(s) - 1
  <2>1. First(s) \in s BY <1>2
  <2>2. s \ {First(s)} \in SUBSET S OBVIOUS
  <2>. HIDE DEF First
  <2>3. Cardinality(s \ {First(s)}) = Cardinality(s) - 1 BY <1>1, <2>1, FS_RemoveElement
  <2>. QED BY <2>1, <2>2, <2>3
<1>. HIDE DEF First
<1>3. 0 \in T
  <2> DEFINE g == [s \in Small(0) |-> base]
  <2>1. ASSUME NEW s \in Small(0) PROVE s = {}
    <3>1. Cardinality(s) = 0 BY <1>1
    <3>. QED BY <1>1, <3>1, FS_EmptySet
  <2>2. g \in [Small(0) -> W] /\ Is(g, 0)
    <3>. HIDE DEF Small
    <3>. QED BY <2>1
  <2>. HIDE DEF Small, g, Is
  <2>. QED BY <1>1, <2>2
<1>4. ASSUME NEW i \in 0 .. n - 1, i \in T PROVE i + 1 \in T
  <2>1. PICK g \in [Small(i) -> W] : Is(g, i) BY <1>4
  <2> DEFINE h == [s \in Small(i + 1) |->
                     IF s \in Small(i) THEN g[s] ELSE F[<<g[s \ {First(s)}], First(s)>>]]
  <2>2. Small(i) \subseteq Small(i + 1) BY <1>1
  <2>3. ASSUME NEW s \in Small(i + 1), s # {}
        PROVE  s \in SUBSET S /\ First(s) \in S /\ s \ {First(s)} \in Small(i)
    <3>1. s \in SUBSET S /\ Cardinality(s) <= i + 1 OBVIOUS
    <3>2. First(s) \in s /\ s \ {First(s)} \in SUBSET S /\ Cardinality(s \ {First(s)}) = Cardinality(s) - 1
      BY <1>2, <2>3, <3>1
    <3>3. Cardinality(s) - 1 <= i BY <1>1, <3>1
    <3>. QED BY <3>1, <3>2, <3>3
  <2>3a. {} \in Small(i)
    <3>1. {} \in SUBSET S /\ Cardinality({}) = 0 BY FS_EmptySet
    <3>. QED BY <3>1
  <2>4. h \in [Small(i + 1) -> W]
    <3>. HIDE DEF Small
    <3>1. ASSUME NEW s \in Small(i + 1), s \notin Small(i) PROVE F[<<g[s \ {First(s)}], First(s)>>] \in W
      <4>1. s # {} BY <3>1, <2>3a
      <4>2. g[s \ {First(s)}] \in W /\ First(s) \in S BY <2>3, <4>1
      <4>. QED BY <4>2
    <3>. QED BY <3>1
  <2>5. Is(h, i + 1)
    <3>. HIDE DEF Small
    <3>1. ASSUME NEW s \in Small(i + 1)
          PROVE  h[s] = IF s = {} THEN base ELSE F[<<h[s \ {First(s)}], First(s)>>]
      <4>1. CASE s = {}
        <5>1. s \in Small(i) BY <4>1, <2>3a
        <5>2. g[s] = base BY <2>1, <4>1, <5>1
        <5>. QED BY <4>1, <5>1, <5>2
      <4>2. CASE s # {}
        <5>1. s \ {First(s)} \in Small(i) /\ s \ {First(s)} \in Small(i + 1) BY <2>2, <2>3, <4>2
        <5>2. h[s \ {First(s)}] = g[s \ {First(s)}] BY <5>1
        <5>3. h[s] = F[<<g[s \ {First(s)}], First(s)>>]
          <6>1. CASE s \in Small(i)
            <7>1. h[s] = g[s] BY <6>1
            <7>2. g[s] = F[<<g[s \ {First(s)}], First(s)>>] BY <2>1, <4>2, <6>1
            <7>. QED BY <7>1, <7>2
          <6>2. CASE s \notin Small(i) BY <6>2
          <6>. QED BY <6>1, <6>2
        <5>. HIDE DEF h
        <5>. QED BY <4>2, <5>2, <5>3
      <4>. QED BY <4>1, <4>2
    <3>. HIDE DEF h
    <3>. QED BY <3>1
  <2>. HIDE DEF h, Small, Is
  <2>6. i + 1 \in 0 .. n BY <1>1
  <2>. QED BY <2>4, <2>5, <2>6
<1>5. n \in T
  <2>1. \A i \in 0 .. n : i \in T
    <3>. HIDE DEF T, n
    <3>. QED BY <1>1, <1>3, <1>4, UpTo
  <2>2. n \in 0 .. n
    <3>. HIDE DEF n
    <3>. QED BY <1>1
  <2>. HIDE DEF T, n
  <2>. QED BY <2>1, <2>2
<1>6. Small(n) = SUBSET S BY <1>1
<1>. QED BY <1>5, <1>6 DEF SetFolds, First

\* Whatever does with the members of S what a fold of F does, has values in W.
LEMMA SetFoldIn ==
    ASSUME NEW S, IsFiniteSet(S), NEW W, NEW it, it[{}] \in W,
           \A s \in SUBSET S :
               s # {} /\ it[s \ {CHOOSE x \in s : TRUE}] \in W => it[s] \in W
    PROVE  \A s \in SUBSET S : it[s] \in W
<1> DEFINE T == {s \in SUBSET S : it[s] \in W}
<1>1. ASSUME NEW s \in SUBSET S, \A r \in SUBSET s : r # s => r \in T PROVE s \in T
  <2>1. CASE s = {} BY <2>1
  <2>2. CASE s # {}
    <3>1. (CHOOSE x \in s : TRUE) \in s BY <2>2
    <3>2. s \ {CHOOSE x \in s : TRUE} \in T
      <4>1. s \ {CHOOSE x \in s : TRUE} \in SUBSET s /\ s \ {CHOOSE x \in s : TRUE} # s BY <3>1
      <4>. HIDE DEF T
      <4>. QED BY <1>1, <4>1
    <3>. QED BY <2>2, <3>2
  <2>. QED BY <2>1, <2>2
<1>2. \A s \in SUBSET S : s \in T
  <2>. HIDE DEF T
  <2>. QED BY <1>1, SubsetInduction
<1>. QED BY <1>2

\* A sequence that begins with base and goes on with G exists.
Iterates(g, base, G) ==
    g = [i \in Nat |-> IF i = 0 THEN base ELSE G[g[i - 1]]]

LEMMA IterateExists ==
    ASSUME NEW W, NEW base \in W, NEW G \in [W -> W]
    PROVE  \E g \in [Nat -> W] : Iterates(g, base, G)
<1> DEFINE Is(g, n) == \A i \in 0 .. n : g[i] = IF i = 0 THEN base ELSE G[g[i - 1]]
<1>1. ASSUME NEW n \in Nat PROVE \E g \in [0 .. n -> W] : Is(g, n)
  <2> DEFINE T == {m \in 0 .. n : \E g \in [0 .. m -> W] : Is(g, m)}
  <2>1. 0 \in T
    <3> DEFINE g == [i \in 0 .. 0 |-> base]
    <3>1. g \in [0 .. 0 -> W] /\ Is(g, 0) OBVIOUS
    <3>. HIDE DEF g, Is
    <3>. QED BY <3>1
  <2>2. ASSUME NEW m \in 0 .. n - 1, m \in T PROVE m + 1 \in T
    <3>1. PICK g \in [0 .. m -> W] : Is(g, m) BY <2>2
    <3> DEFINE h == [i \in 0 .. m + 1 |-> IF i = m + 1 THEN G[g[m]] ELSE g[i]]
    <3>2. h \in [0 .. m + 1 -> W] OBVIOUS
    <3>3. ASSUME NEW i \in 0 .. m + 1 PROVE h[i] = IF i = 0 THEN base ELSE G[h[i - 1]]
      <4>1. CASE i = m + 1
        <5>1. i - 1 = m /\ m # m + 1 /\ m \in 0 .. m + 1 /\ i # 0 BY <4>1
        <5>2. h[m] = g[m] /\ h[i] = G[g[m]] BY <4>1, <5>1
        <5>. QED BY <5>1, <5>2
      <4>2. CASE i # m + 1
        <5>1. i \in 0 .. m /\ h[i] = g[i] BY <4>2
        <5>2. i # 0 => i - 1 \in 0 .. m + 1 /\ i - 1 # m + 1 BY <5>1
        <5>3. i # 0 => h[i - 1] = g[i - 1] BY <5>2
        <5>. HIDE DEF h
        <5>. QED BY <3>1, <5>1, <5>3
      <4>. QED BY <4>1, <4>2
    <3>4. Is(h, m + 1)
      <4>. HIDE DEF h
      <4>. QED BY <3>3
    <3>5. m + 1 \in 0 .. n OBVIOUS
    <3>. HIDE DEF h, Is
    <3>. QED BY <3>2, <3>4, <3>5
  <2>3. \A m \in 0 .. n : m \in T
    <3>. HIDE DEF T
    <3>. QED BY <2>1, <2>2, UpTo
  <2>4. n \in T BY <2>3
  <2>. QED BY <2>4
<1> DEFINE at(n) == CHOOSE g \in [0 .. n -> W] : Is(g, n)
           g == [n \in Nat |-> at(n)[n]]
<1>2. ASSUME NEW n \in Nat PROVE at(n) \in [0 .. n -> W] /\ Is(at(n), n)
  <2>. HIDE DEF Is
  <2>. QED BY <1>1
<1>3. ASSUME NEW n \in Nat PROVE at(n + 1)[n] = at(n)[n]
  <2> DEFINE T == {i \in 0 .. n : at(n + 1)[i] = at(n)[i]}
  <2>. HIDE DEF at
  <2>0. n + 1 \in Nat OBVIOUS
  <2>1. ASSUME NEW i \in 0 .. n
        PROVE  /\ at(n)[i] = IF i = 0 THEN base ELSE G[at(n)[i - 1]]
               /\ at(n + 1)[i] = IF i = 0 THEN base ELSE G[at(n + 1)[i - 1]]
    BY <1>2, <2>0
  <2>2. 0 \in T BY <2>1
  <2>3. ASSUME NEW i \in 0 .. n - 1, i \in T PROVE i + 1 \in T
    <3>1. i + 1 \in 0 .. n /\ i + 1 # 0 /\ (i + 1) - 1 = i OBVIOUS
    <3>. QED BY <2>1, <2>3, <3>1
  <2>4. \A i \in 0 .. n : i \in T
    <3>. HIDE DEF T
    <3>. QED BY <2>2, <2>3, UpTo
  <2>. QED BY <2>4
<1>4. g \in [Nat -> W]
  <2>1. ASSUME NEW n \in Nat PROVE at(n)[n] \in W
    <3>. HIDE DEF at
    <3>. QED BY <1>2
  <2>. HIDE DEF at
  <2>. QED BY <2>1
<1>5. ASSUME NEW n \in Nat PROVE g[n] = IF n = 0 THEN base ELSE G[g[n - 1]]
  <2>. HIDE DEF at
  <2>1. at(n)[n] = IF n = 0 THEN base ELSE G[at(n)[n - 1]] BY <1>2
  <2>2. CASE n = 0 BY <2>1, <2>2
  <2>3. CASE n # 0
    <3>1. n - 1 \in Nat /\ (n - 1) + 1 = n BY <2>3
    <3>2. at(n)[n - 1] = at(n - 1)[n - 1] BY <1>3, <3>1
    <3>. QED BY <2>1, <2>3, <3>1, <3>2
  <2>. QED BY <2>2, <2>3
<1>6. Iterates(g, base, G)
  <2>. HIDE DEF g
  <2>1. g = [n \in Nat |-> g[n]] BY <1>4
  <2>. QED BY <1>5, <2>1 DEF Iterates
<1>. HIDE DEF g
<1>. QED BY <1>4, <1>6
=============================================================================
