----------------------------- MODULE FoldProofs -----------------------------
(***************************************************************************)
(* Folds over sequences, for proofs.  FoldLeft of SequencesExt is a fold   *)
(* over the sets of indices; here it is shown to run through the sequence  *)
(* from its first element to its last.                                     *)
(*                                                                         *)
(* The step of a fold is the constant Op, which has a parameter besides    *)
(* the state and the element: a module takes this one by INSTANCE for each *)
(* step that it folds.  Induction is stated with a set in place of a       *)
(* predicate, as the numbers that satisfy it.                              *)
(***************************************************************************)
EXTENDS Integers, SequencesExt, WellFoundedInduction, TLAPS

CONSTANT Op(_, _, _)

Fold(p, base, seq) == FoldLeft(LAMBDA s, x : Op(p, s, x), base, seq)

-----------------------------------------------------------------------------
\* Induction: a set of numbers with 0, and with each number the next, has all.
LEMMA NatSetInduction ==
  ASSUME NEW S \in SUBSET Nat, 0 \in S, \A n \in S : n + 1 \in S
  PROVE  S = Nat
<1>1. SUFFICES ASSUME Nat \ S # {} PROVE FALSE
  OBVIOUS
<1>2. PICK x \in Nat \ S : \A y \in Nat \ S : ~(<<y, x>> \in OpToRel(<, Nat))
  BY <1>1, NatLessThanWellFounded, WFMin
<1>3. \A y \in Nat \ S : ~(y < x)
  BY <1>2 DEF OpToRel
<1>4. x \in Nat /\ x \notin S /\ x # 0
  OBVIOUS
<1>5. x - 1 \in Nat /\ x - 1 < x
  BY <1>4
<1>6. (x - 1) + 1 \in S
  BY <1>3, <1>5
<1> QED
  BY <1>4, <1>6

\* The same up to a number n.
LEMMA UpTo ==
  ASSUME NEW n \in Nat, NEW S, 0 \in S, \A i \in 0..(n - 1) : i \in S => i + 1 \in S
  PROVE  0..n \subseteq S
<1> DEFINE T == {i \in Nat : i <= n => i \in S}
<1>1. 0 \in T /\ \A i \in T : i + 1 \in T
  OBVIOUS
<1>2. T \in SUBSET Nat
  OBVIOUS
<1>3. T = Nat
  <2> HIDE DEF T
  <2> QED
    BY <1>1, <1>2, NatSetInduction
<1> QED
  BY <1>3

\* A set of positions that is not empty has a last one.
LEMMA MaxOf ==
  ASSUME NEW k \in Nat, NEW s \in SUBSET (1..k), s # {}
  PROVE  Max(s) \in s /\ \A y \in s : Max(s) >= y
<1> DEFINE HasMax(t) == \E x \in t : \A y \in t : x >= y
           S == {j \in 0..k : \A t \in SUBSET (1..j) : t # {} => HasMax(t)}
<1>1. 0 \in S
  <2>1. 1..0 = {}
    OBVIOUS
  <2>2. \A t \in SUBSET (1..0) : t # {} => HasMax(t)
    BY <2>1
  <2> HIDE DEF HasMax
  <2> QED
    BY <2>2
<1>2. ASSUME NEW j \in 0..(k - 1), j \in S
      PROVE  j + 1 \in S
  <2>1. ASSUME NEW t \in SUBSET (1..(j + 1)), t # {}
        PROVE  HasMax(t)
    <3>1. CASE j + 1 \in t
      BY <3>1
    <3>2. CASE j + 1 \notin t
      <4>1. t \in SUBSET (1..j)
        BY <3>2
      <4> QED
        BY <1>2, <2>1, <4>1
    <3> QED
      BY <3>1, <3>2
  <2> QED
    BY <2>1
<1>3. k \in S
  <2> HIDE DEF S
  <2> QED
    BY <1>1, <1>2, UpTo
<1>4. HasMax(s)
  BY <1>3
<1> QED
  BY <1>4 DEF Max

-----------------------------------------------------------------------------
\* What FoldLeft stands for: a function on the sets of indices.
After(p, base, seq, g, s) ==
  IF s = {} THEN base ELSE Op(p, g[s \ {Max(s)}], seq[Max(s)])

IsFold(p, base, seq, k, g) == g = [s \in SUBSET (1..k) |-> After(p, base, seq, g, s)]

\* A fold is the value at 1..n of a function on its subsets, which the recursion in
\* the library chooses.
LEMMA FoldIsChosen ==
  ASSUME NEW p, NEW base, NEW seq, NEW n \in Nat, DOMAIN seq = 1..n
  PROVE  Fold(p, base, seq) = (CHOOSE g : IsFold(p, base, seq, n, g))[1..n]
BY DEF Fold, FoldLeft, MapThenFoldSet, IsFold, After

\* There is such a function: each index adds the sets of which it is the last.
LEMMA FoldExists ==
  ASSUME NEW p, NEW base, NEW seq, NEW n \in Nat
  PROVE  \E g : IsFold(p, base, seq, n, g)
<1> DEFINE S == {k \in 0..n : \E g : IsFold(p, base, seq, k, g)}
<1>1. 0 \in S
  <2>1. SUBSET (1..0) = {{}}
    OBVIOUS
  <2>2. IsFold(p, base, seq, 0, [s \in SUBSET (1..0) |-> base])
    BY <2>1 DEF IsFold, After
  <2> QED
    BY <2>2
<1>2. ASSUME NEW k \in 0..(n - 1), k \in S
      PROVE  k + 1 \in S
  <2>1. PICK g : IsFold(p, base, seq, k, g)
    BY <1>2
  <2> DEFINE h == [s \in SUBSET (1..(k + 1)) |->
                     IF k + 1 \in s THEN Op(p, g[s \ {k + 1}], seq[k + 1]) ELSE g[s]]
  <2>2. ASSUME NEW s \in SUBSET (1..(k + 1))
        PROVE  h[s] = After(p, base, seq, h, s)
    <3>1. CASE k + 1 \in s
      <4>1. Max(s) \in s /\ \A y \in s : Max(s) >= y
        <5>1. k + 1 \in Nat /\ s # {}
          BY <3>1
        <5> QED
          BY <5>1, MaxOf
      <4>2. Max(s) = k + 1
        <5>1. Max(s) \in 1..(k + 1) /\ Max(s) >= k + 1
          BY <3>1, <4>1
        <5> QED
          BY <5>1
      <4>3. s \ {k + 1} \in SUBSET (1..k) /\ s \ {k + 1} \in SUBSET (1..(k + 1))
        OBVIOUS
      <4>4. h[s \ {k + 1}] = g[s \ {k + 1}]
        BY <4>3
      <4> QED
        BY <3>1, <4>2, <4>4 DEF After
    <3>2. CASE k + 1 \notin s
      <4>1. s \in SUBSET (1..k)
        BY <3>2
      <4>2. h[s] = After(p, base, seq, g, s)
        BY <2>1, <3>2, <4>1 DEF IsFold
      <4>3. CASE s = {}
        BY <4>2, <4>3 DEF After
      <4>4. CASE s # {}
        <5>1. h[s \ {Max(s)}] = g[s \ {Max(s)}]
          BY <3>2
        <5> QED
          BY <4>2, <4>4, <5>1 DEF After
      <4> QED
        BY <4>3, <4>4
    <3> QED
      BY <3>1, <3>2
  <2>3. IsFold(p, base, seq, k + 1, h)
    BY <2>2 DEF IsFold
  <2> QED
    BY <2>3
<1>3. n \in S
  <2> HIDE DEF S
  <2> QED
    BY <1>1, <1>2, UpTo
<1> QED
  BY <1>3

-----------------------------------------------------------------------------
\* The states r[0] .. r[Len(seq)] that a fold over seq goes through
IsRun(p, base, seq, r) ==
  /\ r[0] = base
  /\ \A i \in 0..(Len(seq) - 1) : r[i + 1] = Op(p, r[i], seq[i + 1])

\* A fold is the last state of a run.
LEMMA FoldRun ==
  ASSUME NEW p, NEW base, NEW T, NEW seq \in Seq(T)
  PROVE  \E r : IsRun(p, base, seq, r) /\ Fold(p, base, seq) = r[Len(seq)]
<1> DEFINE n == Len(seq)
           g == CHOOSE g : IsFold(p, base, seq, n, g)
           r == [i \in 0..n |-> g[1..i]]
<1>1. n \in Nat /\ DOMAIN seq = 1..n
  OBVIOUS
<1>2. IsFold(p, base, seq, n, g)
  BY <1>1, FoldExists
<1>3. Fold(p, base, seq) = g[1..n]
  BY <1>1, FoldIsChosen
<1>4. ASSUME NEW i \in 0..n
      PROVE  r[i] = After(p, base, seq, g, 1..i)
  <2>1. 1..i \in SUBSET (1..n)
    BY <1>1
  <2> QED
    BY <1>2, <2>1 DEF IsFold
<1>5. r[0] = base
  <2>1. r[0] = After(p, base, seq, g, 1..0) /\ 1..0 = {}
    BY <1>1, <1>4
  <2> HIDE DEF r, g
  <2> QED
    BY <2>1 DEF After
<1>6. ASSUME NEW i \in 1..n
      PROVE  r[i] = Op(p, r[i - 1], seq[i])
  <2>1. n \in Nat /\ i \in Int /\ 1 <= i /\ i <= n
    BY <1>1
  <2>2. 1..i # {} /\ 1..i \in SUBSET (1..n) /\ (1..i) \ {i} = 1..(i - 1)
    <3> HIDE DEF n
    <3>1. \A y : y \in (1..i) \ {i} <=> y \in 1..(i - 1)
      BY <2>1
    <3>2. (1..i) \ {i} = 1..(i - 1)
      BY <3>1
    <3>3. i \in 1..i /\ 1..i \in SUBSET (1..n)
      BY <2>1
    <3> QED
      BY <3>2, <3>3
  <2>3. Max(1..i) = i
    <3>1. Max(1..i) \in 1..i /\ \A y \in 1..i : Max(1..i) >= y
      BY <2>1, <2>2, MaxOf
    <3>2. i \in 1..i /\ Max(1..i) >= i
      BY <2>1, <3>1
    <3> QED
      BY <2>1, <3>1, <3>2
  <2>4. r[i] = Op(p, g[1..(i - 1)], seq[i])
    <3>1. r[i] = After(p, base, seq, g, 1..i)
      BY <1>4, <2>1
    <3> HIDE DEF r, g
    <3> QED
      BY <2>2, <2>3, <3>1 DEF After
  <2> QED
    BY <2>1, <2>4
<1>7. IsRun(p, base, seq, r) /\ r[Len(seq)] = g[1..n]
  <2>1. n \in 0..n
    BY <1>1
  <2>2. ASSUME NEW i \in 0..(n - 1)
        PROVE  r[i + 1] = Op(p, r[i], seq[i + 1])
    <3>1. i + 1 \in 1..n /\ (i + 1) - 1 = i
      BY <1>1
    <3> QED
      BY <1>6, <3>1
  <2> QED
    BY <1>5, <2>1, <2>2 DEF IsRun
<1> QED
  BY <1>3, <1>7

=============================================================================
