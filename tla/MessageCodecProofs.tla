------------------------- MODULE MessageCodecProofs -------------------------
(***************************************************************************)
(* Proofs about MessageCodec for messages of any length: what the loops of *)
(* the generated code leave is what MessageMeaning says of the fields.     *)
(***************************************************************************)
EXTENDS MessageMeaning, FiniteSetTheorems, TLAPS

AddStep(p, m, n) == m + n
Adding == INSTANCE FoldProofs WITH Op <- AddStep

PickStep(num, items, f) == IF f.num = num THEN Append(items, f) ELSE items
Picking == INSTANCE FoldProofs WITH Op <- PickStep

\* A set of numbers that has 0 and with each number the next has all of them:
\* the induction over the fields of a message.
LEMMA UpTo ==
  ASSUME NEW n \in Nat, NEW S, 0 \in S, \A i \in 0..(n - 1) : i \in S => i + 1 \in S
  PROVE  0..n \subseteq S
BY Adding!UpTo

\* A set of positions that is not empty has a last one.
LEMMA MaxOf ==
  ASSUME NEW k \in Nat, NEW s \in SUBSET (1..k), s # {}
  PROVE  Max(s) \in s /\ \A y \in s : Max(s) >= y
BY Adding!MaxOf DEF Max, Adding!Max

-----------------------------------------------------------------------------
\* The first i fields: how many are numbered in nums, what the last of those
\* numbered num says, whether they are typed.

CountTo(fields, nums, i) == Cardinality({j \in 1..i : fields[j].num \in nums})

ValueTo(fields, num, i) ==
  LET found == {j \in 1..i : fields[j].num = num}
  IN  IF found = {} THEN 0 ELSE fields[Max(found)].val

TypedTo(fields, wires, i) ==
  \A j \in 1..i : fields[j].num \in DOMAIN wires => fields[j].wire = wires[fields[j].num]

\* No field before the first.
LEMMA CountNone == \A fields, nums : CountTo(fields, nums, 0) = 0
<1>1. 1..0 = {}
  OBVIOUS
<1> QED
  BY <1>1, FS_EmptySet DEF CountTo

\* The fields counted are finitely many.
LEMMA FiniteCount ==
  ASSUME NEW fields, NEW nums, NEW i \in Nat
  PROVE  IsFiniteSet({j \in 1..i : fields[j].num \in nums})
<1>1. IsFiniteSet(1..i)
  BY FS_Interval
<1>2. {j \in 1..i : fields[j].num \in nums} \subseteq 1..i
  OBVIOUS
<1> QED
  BY <1>1, <1>2, FS_Subset

\* Their count is a number.
LEMMA CountNat ==
  ASSUME NEW fields, NEW nums, NEW i \in Nat
  PROVE  CountTo(fields, nums, i) \in Nat
BY FiniteCount, FS_CardinalityType DEF CountTo

\* One more field counts if it is numbered in nums.
LEMMA CountStep ==
  ASSUME NEW fields, NEW nums, NEW i \in Nat
  PROVE  CountTo(fields, nums, i + 1) =
           CountTo(fields, nums, i) + (IF fields[i + 1].num \in nums THEN 1 ELSE 0)
<1> DEFINE Counted(k) == {j \in 1..k : fields[j].num \in nums}
<1>1. IsFiniteSet(Counted(i)) /\ CountTo(fields, nums, i) \in Nat
  BY FiniteCount, CountNat
<1>2. CASE fields[i + 1].num \in nums
  <2>1. Counted(i + 1) = Counted(i) \cup {i + 1} /\ i + 1 \notin Counted(i)
    BY <1>2
  <2> HIDE DEF Counted
  <2>2. Cardinality(Counted(i + 1)) = Cardinality(Counted(i)) + 1
    BY <1>1, <2>1, FS_AddElement
  <2> QED
    BY <1>2, <2>2 DEF Counted, CountTo
<1>3. CASE fields[i + 1].num \notin nums
  <2>1. Counted(i + 1) = Counted(i)
    BY <1>3
  <2>2. CountTo(fields, nums, i + 1) = CountTo(fields, nums, i)
    BY <2>1 DEF CountTo
  <2> QED
    BY <1>1, <1>3, <2>2
<1> QED
  BY <1>2, <1>3

\* The count of some of the fields is not more than that of all.
LEMMA CountMonotone ==
  ASSUME NEW fields, NEW nums, NEW n \in Nat, NEW i \in 0..n
  PROVE  CountTo(fields, nums, i) <= CountTo(fields, nums, n)
<1> DEFINE C(k) == CountTo(fields, nums, k)
           S == {k \in 0..n : \A j \in 0..k : C(j) <= C(k)}
<1>1. ASSUME NEW k \in Nat
      PROVE  C(k) \in Nat /\ C(k) <= C(k + 1)
  BY CountNat, CountStep
<1> HIDE DEF C
<1>2. 0 \in S
  BY <1>1
<1>3. ASSUME NEW k \in 0..(n - 1), k \in S
      PROVE  k + 1 \in S
  <2>1. \A j \in 0..(k + 1) : j = k + 1 \/ j \in 0..k
    OBVIOUS
  <2> QED
    BY <1>1, <1>3, <2>1
<1>4. n \in S
  <2> HIDE DEF S
  <2> QED
    BY <1>2, <1>3, UpTo
<1> QED
  BY <1>4 DEF C

\* All the fields are counted by Occurrences.
LEMMA OccurrencesAre ==
  ASSUME NEW T, NEW fields \in Seq(T), NEW nums
  PROVE  Occurrences(fields, nums) = CountTo(fields, nums, Len(fields))
<1>1. DOMAIN fields = 1..Len(fields)
  OBVIOUS
<1> QED
  BY <1>1 DEF Occurrences, CountTo

\* Before the first field the value is the default.
LEMMA ValueNone == \A fields, num : ValueTo(fields, num, 0) = 0
<1>1. 1..0 = {}
  OBVIOUS
<1> QED
  BY <1>1 DEF ValueTo

\* One more field gives the value if it has the number.
LEMMA ValueStep ==
  ASSUME NEW fields, NEW num, NEW i \in Nat
  PROVE  ValueTo(fields, num, i + 1) =
           IF fields[i + 1].num = num THEN fields[i + 1].val ELSE ValueTo(fields, num, i)
<1> DEFINE found == {j \in 1..(i + 1) : fields[j].num = num}
<1>1. CASE fields[i + 1].num = num
  <2>1. found \in SUBSET (1..(i + 1)) /\ i + 1 \in found
    BY <1>1
  <2>2. Max(found) \in found /\ Max(found) >= i + 1
    <3> HIDE DEF found
    <3> QED
      BY <2>1, MaxOf
  <2>3. Max(found) = i + 1
    BY <2>2
  <2> QED
    BY <1>1, <2>1, <2>3 DEF ValueTo
<1>2. CASE fields[i + 1].num # num
  <2>1. found = {j \in 1..i : fields[j].num = num}
    BY <1>2
  <2> QED
    BY <1>2, <2>1 DEF ValueTo
<1> QED
  BY <1>1, <1>2

\* The value after all the fields is what the message says.
LEMMA ValueIs ==
  ASSUME NEW T, NEW fields \in Seq(T), NEW num
  PROVE  Value(fields, num) = ValueTo(fields, num, Len(fields))
<1>1. DOMAIN fields = 1..Len(fields)
  OBVIOUS
<1> QED
  BY <1>1 DEF Value, ValueTo

\* A value that is not the default comes from a field.
LEMMA ValueOccurs ==
  ASSUME NEW fields, NEW num, NEW n \in Nat, ValueTo(fields, num, n) # 0, NEW nums,
         num \in nums
  PROVE  CountTo(fields, nums, n) >= 1
<1> DEFINE found == {j \in 1..n : fields[j].num = num}
<1>1. PICK j \in 1..n : fields[j].num = num
  BY DEF ValueTo
<1>2. j - 1 \in Nat /\ (j - 1) + 1 = j /\ j \in 0..n
  OBVIOUS
<1>3. CountTo(fields, nums, j) = CountTo(fields, nums, j - 1) + 1
  BY <1>1, <1>2, CountStep
<1>4. CountTo(fields, nums, j - 1) \in Nat /\ CountTo(fields, nums, n) \in Nat
  BY <1>2, CountNat
<1> QED
  BY <1>2, <1>3, <1>4, CountMonotone

\* Nothing before the first field is wrongly typed.
LEMMA TypedNone == \A fields, wires : TypedTo(fields, wires, 0)
<1>1. 1..0 = {}
  OBVIOUS
<1> QED
  BY <1>1 DEF TypedTo

\* One more field must be of its own wire type.
LEMMA TypedStep ==
  ASSUME NEW fields, NEW wires, NEW i \in Nat
  PROVE  TypedTo(fields, wires, i + 1) <=>
           /\ TypedTo(fields, wires, i)
           /\ fields[i + 1].num \in DOMAIN wires =>
                fields[i + 1].wire = wires[fields[i + 1].num]
<1>1. 1..(i + 1) = 1..i \cup {i + 1}
  OBVIOUS
<1> QED
  BY <1>1 DEF TypedTo

\* All the fields are typed exactly if the message is.
LEMMA TypedIs ==
  ASSUME NEW T, NEW fields \in Seq(T), NEW wires
  PROVE  Typed(fields, wires) <=> TypedTo(fields, wires, Len(fields))
<1>1. DOMAIN fields = 1..Len(fields)
  OBVIOUS
<1> QED
  BY <1>1 DEF Typed, TypedTo

-----------------------------------------------------------------------------
\* Sums

\* t has the sums of the first numbers.
IsSums(numbers, t) ==
  /\ t[0] = 0
  /\ \A i \in 0..(Len(numbers) - 1) : t[i + 1] = t[i] + numbers[i + 1]
  /\ \A i \in 0..Len(numbers) : t[i] \in Nat

\* A sum is the last of the sums of the first i numbers.
LEMMA SumRun ==
  ASSUME NEW numbers \in Seq(Nat)
  PROVE  \E t : IsSums(numbers, t) /\ Sum(numbers) = t[Len(numbers)]
<1> DEFINE n == Len(numbers)
<1>1. n \in Nat /\ \A i \in 0..(n - 1) : numbers[i + 1] \in Nat
  OBVIOUS
<1>2. Sum(numbers) = Adding!Fold(0, 0, numbers)
  BY DEF Sum, Adding!Fold, AddStep, FoldLeft, MapThenFoldSet, Max,
         Adding!FoldLeft, Adding!MapThenFoldSet, Adding!Max
<1>3. PICK t : Adding!IsRun(0, 0, numbers, t) /\ Sum(numbers) = t[n]
  BY <1>2, Adding!FoldRun
<1>4. t[0] = 0 /\ \A i \in 0..(n - 1) : t[i + 1] = t[i] + numbers[i + 1]
  BY <1>3 DEF Adding!IsRun, AddStep
<1> DEFINE S == {i \in 0..n : t[i] \in Nat}
<1>5. 0 \in S /\ \A i \in 0..(n - 1) : i \in S => i + 1 \in S
  <2> HIDE DEF n
  <2> QED
    BY <1>1, <1>4
<1>6. 0..n \subseteq S
  <2> HIDE DEF S, n
  <2> QED
    BY <1>1, <1>5, UpTo
<1> QED
  BY <1>3, <1>4, <1>6 DEF IsSums

\* Sums that never get less on the way are at most the last.
LEMMA SumsMonotone ==
  ASSUME NEW n \in Nat, NEW t, \A i \in 0..n : t[i] \in Nat,
         \A i \in 0..(n - 1) : t[i] <= t[i + 1],
         NEW i \in 0..n
  PROVE  t[i] <= t[n]
<1> DEFINE S == {k \in 0..n : \A j \in 0..k : t[j] <= t[k]}
<1>1. 0 \in S
  OBVIOUS
<1>2. ASSUME NEW k \in 0..(n - 1), k \in S
      PROVE  k + 1 \in S
  <2>1. \A j \in 0..(k + 1) : j = k + 1 \/ j \in 0..k
    OBVIOUS
  <2> QED
    BY <1>2, <2>1
<1>3. 0..n \subseteq S
  <2> HIDE DEF S
  <2> QED
    BY <1>1, <1>2, UpTo
<1> QED
  BY <1>3

\* A sum is not greater than one of numbers none of which is smaller.
LEMMA SumMonotone ==
  ASSUME NEW a \in Seq(Nat), NEW b \in Seq(Nat), Len(a) = Len(b),
         \A i \in 1..Len(a) : a[i] <= b[i]
  PROVE  Sum(a) <= Sum(b) /\ Sum(a) \in Nat /\ Sum(b) \in Nat
<1> DEFINE n == Len(a)
<1>1. PICK s : IsSums(a, s) /\ Sum(a) = s[n]
  BY SumRun
<1>2. PICK t : IsSums(b, t) /\ Sum(b) = t[n]
  BY SumRun
<1>3. n \in Nat /\ \A i \in 0..(n - 1) : a[i + 1] \in Nat /\ b[i + 1] \in Nat /\ a[i + 1] <= b[i + 1]
  OBVIOUS
<1> DEFINE S == {i \in 0..n : s[i] <= t[i]}
<1>4. 0 \in S /\ \A i \in 0..(n - 1) : i \in S => i + 1 \in S
  <2>1. /\ s[0] = 0 /\ t[0] = 0
        /\ \A i \in 0..n : s[i] \in Nat /\ t[i] \in Nat
        /\ \A i \in 0..(n - 1) : s[i + 1] = s[i] + a[i + 1] /\ t[i + 1] = t[i] + b[i + 1]
    BY <1>1, <1>2 DEF IsSums
  <2>2. ASSUME NEW i \in 0..(n - 1), s[i] <= t[i]
        PROVE  i + 1 \in 0..n /\ s[i + 1] <= t[i + 1]
    <3>1. i \in 0..n /\ i + 1 \in 0..n
      BY <1>3
    <3>2. /\ s[i] \in Nat /\ t[i] \in Nat /\ a[i + 1] \in Nat /\ b[i + 1] \in Nat
          /\ s[i + 1] = s[i] + a[i + 1] /\ t[i + 1] = t[i] + b[i + 1] /\ a[i + 1] <= b[i + 1]
      BY <1>3, <2>1, <3>1
    <3> QED
      BY <2>2, <3>1, <3>2
  <2> HIDE DEF n
  <2> QED
    BY <1>3, <2>1, <2>2
<1>5. n \in S
  <2>1. 0..n \subseteq S
    <3> HIDE DEF S, n
    <3> QED
      BY <1>3, <1>4, UpTo
  <2> QED
    BY <1>3, <2>1
<1> QED
  BY <1>1, <1>2, <1>3, <1>5 DEF IsSums

\* Of numbers that are greater by c the sum is greater by c for each.
LEMMA SumShift ==
  ASSUME NEW a \in Seq(Nat), NEW b \in Seq(Nat), NEW c \in Nat, Len(a) = Len(b),
         \A i \in 1..Len(a) : b[i] = c + a[i]
  PROVE  Sum(b) = Len(a) * c + Sum(a)
<1> DEFINE n == Len(a)
<1>1. PICK s : IsSums(a, s) /\ Sum(a) = s[n]
  BY SumRun
<1>2. PICK t : IsSums(b, t) /\ Sum(b) = t[n]
  BY SumRun
<1>3. n \in Nat /\ \A i \in 0..(n - 1) : a[i + 1] \in Nat /\ b[i + 1] = c + a[i + 1]
  OBVIOUS
<1>4. /\ s[0] = 0 /\ t[0] = 0
      /\ \A i \in 0..n : s[i] \in Nat /\ t[i] \in Nat
      /\ \A i \in 0..(n - 1) : s[i + 1] = s[i] + a[i + 1] /\ t[i + 1] = t[i] + b[i + 1]
  BY <1>1, <1>2 DEF IsSums
<1>5. \A i \in Nat : i * c \in Nat /\ (i + 1) * c = i * c + c /\ 0 * c = 0
  OBVIOUS
<1> DEFINE S == {i \in 0..n : t[i] = i * c + s[i]}
<1>6. 0 \in S
  BY <1>3, <1>4, <1>5
<1>7. ASSUME NEW i \in 0..(n - 1), t[i] = i * c + s[i]
      PROVE  i + 1 \in 0..n /\ t[i + 1] = (i + 1) * c + s[i + 1]
  <2>1. i \in Nat /\ i \in 0..n /\ i + 1 \in 0..n
    BY <1>3
  <2> DEFINE p == i * c
             q == (i + 1) * c
  <2>2. p \in Nat /\ q = p + c
    BY <1>5, <2>1
  <2>3. /\ s[i] \in Nat /\ a[i + 1] \in Nat
        /\ t[i + 1] = t[i] + b[i + 1] /\ b[i + 1] = c + a[i + 1]
        /\ s[i + 1] = s[i] + a[i + 1] /\ t[i] = p + s[i]
    BY <1>3, <1>4, <1>7, <2>1
  <2> HIDE DEF p, q
  <2>4. t[i + 1] = q + s[i + 1]
    BY <2>2, <2>3
  <2> QED
    BY <2>1, <2>4 DEF q
<1>8. 0..n \subseteq S
  <2>1. \A i \in 0..(n - 1) : i \in S => i + 1 \in S
    BY <1>7
  <2> HIDE DEF S, n
  <2> QED
    BY <1>3, <1>6, <2>1, UpTo
<1>9. t[n] = n * c + s[n]
  <2>1. n \in S
    <3> HIDE DEF S, n
    <3> QED
      BY <1>3, <1>8
  <2> QED
    BY <2>1
<1> QED
  BY <1>1, <1>2, <1>9

-----------------------------------------------------------------------------
\* The items of a repeated field

ItemsRun(fields, num, r) ==
  /\ r[0] = <<>>
  /\ \A i \in 0..(Len(fields) - 1) :
       r[i + 1] = IF fields[i + 1].num = num THEN Append(r[i], fields[i + 1]) ELSE r[i]

\* What has been picked after the first i fields
Picked(T, fields, num, items, i) ==
  /\ items \in Seq(T) /\ Len(items) = CountTo(fields, {num}, i)
  /\ \A k \in 1..Len(items) :
       \E j \in 1..i : fields[j].num = num /\ CountTo(fields, {num}, j) = k
  /\ \A j \in 1..i : fields[j].num = num =>
       /\ CountTo(fields, {num}, j) \in 1..Len(items)
       /\ items[CountTo(fields, {num}, j)] = fields[j]

\* Counting one more field as an item or not keeps the items those of the
\* fields read.
LEMMA PickedStep ==
  ASSUME NEW T, NEW fields \in Seq(T), NEW num, NEW i \in 0..(Len(fields) - 1),
         NEW items, Picked(T, fields, num, items, i)
  PROVE  Picked(T, fields, num,
                IF fields[i + 1].num = num THEN Append(items, fields[i + 1]) ELSE items, i + 1)
<1> DEFINE C(j) == CountTo(fields, {num}, j)
           f == fields[i + 1]
           more == Append(items, f)
<1>1. i \in Nat /\ f \in T /\ items \in Seq(T) /\ Len(items) = C(i) /\ C(i) \in Nat
  BY CountNat DEF Picked
<1>2. \A j \in 1..(i + 1) : j = i + 1 \/ j \in 1..i
  BY <1>1
<1>3. CASE f.num # num
  <2>1. C(i + 1) = C(i)
    BY <1>1, <1>3, CountStep
  <2>2. ASSUME NEW j \in 1..(i + 1), fields[j].num = num
        PROVE  C(j) \in 1..Len(items) /\ items[C(j)] = fields[j]
    BY <1>2, <1>3, <2>2 DEF Picked
  <2>3. ASSUME NEW k \in 1..Len(items)
        PROVE  \E j \in 1..(i + 1) : fields[j].num = num /\ C(j) = k
    <3>1. PICK j \in 1..i : fields[j].num = num /\ C(j) = k
      BY DEF Picked
    <3> QED
      BY <1>1, <3>1
  <2>4. Picked(T, fields, num, items, i + 1)
    BY <1>1, <2>1, <2>2, <2>3 DEF Picked
  <2> QED
    BY <1>3, <2>4
<1>4. CASE f.num = num
  <2>1. C(i + 1) = C(i) + 1
    BY <1>1, <1>4, CountStep
  <2>2. /\ more \in Seq(T) /\ Len(more) = C(i) + 1 /\ more[C(i) + 1] = f
        /\ \A k \in 1..C(i) : more[k] = items[k]
    <3> HIDE DEF C, f
    <3> QED
      BY <1>1
  <2>3. ASSUME NEW k \in 1..Len(more)
        PROVE  \E j \in 1..(i + 1) : fields[j].num = num /\ C(j) = k
    <3>1. CASE k = C(i) + 1
      BY <1>1, <1>4, <2>1, <3>1
    <3>2. CASE k \in 1..C(i)
      <4>1. PICK j \in 1..i : fields[j].num = num /\ C(j) = k
        BY <1>1, <3>2 DEF Picked
      <4> QED
        BY <1>1, <4>1
    <3>3. k = C(i) + 1 \/ k \in 1..C(i)
      <4> HIDE DEF C, more
      <4> QED
        BY <1>1, <2>2
    <3> QED
      BY <3>1, <3>2, <3>3
  <2>4. ASSUME NEW j \in 1..(i + 1), fields[j].num = num
        PROVE  C(j) \in 1..Len(more) /\ more[C(j)] = fields[j]
    <3>1. CASE j = i + 1
      BY <1>1, <2>1, <2>2, <3>1
    <3>2. CASE j \in 1..i
      <4>1. C(j) \in 1..C(i) /\ items[C(j)] = fields[j]
        BY <1>1, <2>4, <3>2 DEF Picked
      <4> QED
        BY <1>1, <2>2, <4>1
    <3> QED
      BY <1>2, <3>1, <3>2
  <2> QED
    BY <1>4, <2>1, <2>2, <2>3, <2>4 DEF Picked
<1> QED
  BY <1>3, <1>4

\* The items counted are the fields with the number, in order.
LEMMA ItemsPicked ==
  ASSUME NEW T, NEW fields \in Seq(T), NEW num
  PROVE  Picked(T, fields, num, Items(fields, num), Len(fields))
<1> DEFINE n == Len(fields)
<1>1. Items(fields, num) = Picking!Fold(num, <<>>, fields)
  BY DEF Items, Picking!Fold, PickStep, FoldLeft, MapThenFoldSet, Max,
         Picking!FoldLeft, Picking!MapThenFoldSet, Picking!Max
<1>2. PICK r : Picking!IsRun(num, <<>>, fields, r) /\ Items(fields, num) = r[n]
  BY <1>1, Picking!FoldRun
<1>3. ItemsRun(fields, num, r) /\ n \in Nat
  BY <1>2 DEF Picking!IsRun, PickStep, ItemsRun
<1> DEFINE S == {i \in 0..n : Picked(T, fields, num, r[i], i)}
<1>4. 0 \in S
  <2>1. r[0] = <<>> /\ 1..0 = {} /\ Len(r[0]) = 0
    BY <1>3 DEF ItemsRun
  <2>2. r[0] \in Seq(T) /\ CountTo(fields, {num}, 0) = 0
    BY <2>1, CountNone
  <2>3. Picked(T, fields, num, r[0], 0)
    <3> HIDE DEF n
    <3> QED
      BY <2>1, <2>2 DEF Picked
  <2> QED
    BY <1>3, <2>3
<1>5. ASSUME NEW i \in 0..(n - 1), i \in S
      PROVE  i + 1 \in S
  BY <1>3, <1>5, PickedStep DEF ItemsRun
<1>6. 0..n \subseteq S
  <2> HIDE DEF S, n
  <2> QED
    BY <1>3, <1>4, <1>5, UpTo
<1> QED
  BY <1>2, <1>3, <1>6

\* A field, for any kind of embedded message
FieldOver(Sub) == [num : Nat, wire : {VARINT, I64, LEN, I32}, val : Int, sub : Sub]

\* What each field of a message is.
LEMMA FieldFacts ==
  ASSUME NEW Sub, NEW fields \in FieldsOver(Sub)
  PROVE  /\ fields \in Seq(FieldOver(Sub)) /\ Len(fields) \in Nat
         /\ DOMAIN fields = 1..Len(fields)
         /\ \A i \in 1..Len(fields) :
              /\ fields[i] \in FieldOver(Sub)
              /\ fields[i].num \in Nat /\ fields[i].val \in Int /\ fields[i].sub \in Sub
<1>1. fields \in Seq(FieldOver(Sub))
  BY DEF FieldsOver, FieldOver
<1>2. \A f \in FieldOver(Sub) : f.num \in Nat /\ f.val \in Int /\ f.sub \in Sub
  BY DEF FieldOver
<1> QED
  BY <1>1, <1>2

\* The items that the loop counts are the embedded messages of that number.
LEMMA SubsAreItems ==
  ASSUME NEW Sub, NEW fields \in FieldsOver(Sub), NEW num
  PROVE  /\ Subs(fields, num) \in Seq(Sub)
         /\ Len(Items(fields, num)) = Len(Subs(fields, num))
         /\ \A k \in 1..Len(Subs(fields, num)) :
              Subs(fields, num)[k] = Items(fields, num)[k].sub
<1> DEFINE items == Items(fields, num)
           found == {i \in DOMAIN fields : fields[i].num = num}
           nth(k) == CHOOSE i \in found : Cardinality({j \in found : j <= i}) = k
<1>1. /\ fields \in Seq(FieldOver(Sub)) /\ DOMAIN fields = 1..Len(fields)
      /\ Len(fields) \in Nat
  BY FieldFacts
<1>2. Picked(FieldOver(Sub), fields, num, items, Len(fields))
  BY <1>1, ItemsPicked
<1>3. Cardinality(found) = Len(items) /\ Len(items) \in Nat
  <2>1. found = {j \in 1..Len(fields) : fields[j].num \in {num}}
    BY <1>1
  <2> QED
    BY <1>1, <1>2, <2>1, CountNat DEF Picked, CountTo
<1>4. ASSUME NEW i \in found
      PROVE  Cardinality({j \in found : j <= i}) = CountTo(fields, {num}, i)
  <2>1. {j \in found : j <= i} = {j \in 1..i : fields[j].num \in {num}}
    BY <1>1
  <2> QED
    BY <2>1 DEF CountTo
<1>5. ASSUME NEW k \in 1..Len(items)
      PROVE  nth(k) \in found /\ items[k] = fields[nth(k)]
  <2>1. \E i \in found : CountTo(fields, {num}, i) = k
    BY <1>1, <1>2 DEF Picked
  <2>2. nth(k) \in found /\ CountTo(fields, {num}, nth(k)) = k
    <3>1. \E i \in found : Cardinality({j \in found : j <= i}) = k
      BY <1>4, <2>1
    <3>2. nth(k) \in found /\ Cardinality({j \in found : j <= nth(k)}) = k
      <4> HIDE DEF found
      <4> QED
        BY <3>1
    <3> QED
      BY <1>4, <3>2
  <2> QED
    BY <1>1, <1>2, <2>2 DEF Picked
<1>6. Subs(fields, num) = [k \in 1..Len(items) |-> fields[nth(k)].sub]
  BY <1>3 DEF Subs
<1>7. \A k \in 1..Len(items) : fields[nth(k)].sub \in Sub
  <2>1. \A k \in 1..Len(items) : nth(k) \in 1..Len(fields)
    BY <1>1, <1>5
  <2> HIDE DEF nth, items
  <2> QED
    BY <2>1, FieldFacts
<1> HIDE DEF items, nth
<1> QED
  BY <1>3, <1>5, <1>6, <1>7 DEF items

-----------------------------------------------------------------------------
\* The bytes that the strings of the first i fields take

StringsTo(fields, nums, i) == STRING_SIZE * CountTo(fields, nums, i)

\* The sizes are numbers to add.
LEMMA Sizes == PERSON_SIZE \in Nat /\ PHONE_SIZE \in Nat /\ STRING_SIZE \in Nat
BY CodecAssumption

\* No string takes nothing.
LEMMA StringsNone == \A fields, nums : StringsTo(fields, nums, 0) = 0
BY CountNone, Sizes DEF StringsTo

\* One more field takes the room of a string if it is one.
LEMMA StringsStep ==
  ASSUME NEW fields, NEW nums, NEW i \in Nat
  PROVE  /\ StringsTo(fields, nums, i) \in Nat
         /\ StringsTo(fields, nums, i + 1) =
              StringsTo(fields, nums, i) + (IF fields[i + 1].num \in nums THEN STRING_SIZE ELSE 0)
<1>1. CountTo(fields, nums, i) \in Nat
  BY CountNat
<1>2. \A k \in Nat : STRING_SIZE * k \in Nat /\ STRING_SIZE * (k + 1) = STRING_SIZE * k + STRING_SIZE
  BY Sizes
<1>3. STRING_SIZE * 0 = 0
  BY Sizes
<1>4. CountTo(fields, nums, i + 1) =
        CountTo(fields, nums, i) + (IF fields[i + 1].num \in nums THEN 1 ELSE 0)
  BY CountStep
<1> QED
  BY <1>1, <1>2, <1>4, Sizes DEF StringsTo

-----------------------------------------------------------------------------
\* pbtools: a state of a loop, and the functions that read a field into it

State(msg, heap, aborted) == [msg |-> msg, heap |-> heap, aborted |-> aborted]

NotAborted == FALSE        \* kept folded: the provers are better with a name

At(msg, heap)   == State(msg, heap, NotAborted)
Stop(msg, heap) == State(msg, heap, TRUE)

StateFields == {"msg", "heap", "aborted"}

With(msg, name, val) == [msg EXCEPT ![name] = val]

\* A record with the fields of a state of decoding is that state.
LEMMA StateIs ==
  ASSUME NEW msg, NEW heap, NEW aborted, NEW s, s = [k \in StateFields |-> s[k]],
         s["msg"] = msg, s["heap"] = heap, s["aborted"] = aborted
  PROVE  s = State(msg, heap, aborted)
<1> DEFINE t == State(msg, heap, aborted)
<1>1. /\ t = [k \in StateFields |-> t[k]]
      /\ t["msg"] = msg /\ t["heap"] = heap /\ t["aborted"] = aborted
  BY DEF State, StateFields
<1> HIDE DEF t
<1>2. \A k \in StateFields : t[k] = s[k]
  BY <1>1 DEF StateFields
<1>3. s = t
  BY <1>1, <1>2
<1> QED
  BY <1>3 DEF t

\* An aborted state is one that has stopped.
LEMMA AbortStops ==
  ASSUME NEW msg, NEW heap, NEW aborted
  PROVE  Abort(State(msg, heap, aborted)) = Stop(msg, heap)
<1> DEFINE s == Abort(State(msg, heap, aborted))
<1>1. /\ s = [k \in StateFields |-> s[k]]
      /\ s["msg"] = msg /\ s["heap"] = heap /\ s["aborted"] = TRUE
  BY DEF Abort, State, StateFields
<1> HIDE DEF s
<1>2. s = State(msg, heap, TRUE)
  BY <1>1, StateIs
<1> QED
  BY <1>2 DEF s, Stop

\* Reading a number stores it, or aborts at another wire type.
LEMMA ReadScalarState ==
  ASSUME NEW msg, NEW heap, NEW aborted, NEW name, NEW f, NEW wire
  PROVE  IF f.wire = wire
         THEN ReadScalar(State(msg, heap, aborted), name, f, wire) =
                State(With(msg, name, f.val), heap, aborted)
         ELSE ReadScalar(State(msg, heap, aborted), name, f, wire) = Stop(msg, heap)
<1> DEFINE s == ReadScalar(State(msg, heap, aborted), name, f, wire)
           m == With(msg, name, f.val)
<1>1. CASE f.wire = wire
  <2>1. /\ s = [k \in StateFields |-> s[k]]
        /\ s["msg"] = m /\ s["heap"] = heap /\ s["aborted"] = aborted
    BY <1>1 DEF ReadScalar, State, StateFields, With
  <2> HIDE DEF s, m
  <2>2. s = State(m, heap, aborted)
    BY <2>1, StateIs
  <2> QED
    BY <1>1, <2>2 DEF s, m
<1>2. CASE f.wire # wire
  BY <1>2, AbortStops DEF ReadScalar
<1> QED
  BY <1>1, <1>2

\* Reading a string stores it and takes its room, or aborts for want of it.
LEMMA ReadStringState ==
  ASSUME NEW msg, NEW heap, NEW aborted, NEW name, NEW f
  PROVE  IF f.wire = LEN /\ heap >= STRING_SIZE
         THEN ReadString(State(msg, heap, aborted), name, f) =
                State(With(msg, name, f.val), heap - STRING_SIZE, aborted)
         ELSE ReadString(State(msg, heap, aborted), name, f) = Stop(msg, heap)
<1> DEFINE s == ReadString(State(msg, heap, aborted), name, f)
           m == With(msg, name, f.val)
           h == heap - STRING_SIZE
<1>1. State(msg, heap, aborted).heap = heap
  BY DEF State
<1>2. CASE f.wire = LEN /\ heap >= STRING_SIZE
  <2>1. /\ s = [k \in StateFields |-> s[k]]
        /\ s["msg"] = m /\ s["heap"] = h /\ s["aborted"] = aborted
    BY <1>2 DEF ReadString, State, StateFields, With
  <2> HIDE DEF s, m, h
  <2>2. s = State(m, h, aborted)
    BY <2>1, StateIs
  <2> QED
    BY <1>2, <2>2 DEF s, m, h
<1>3. CASE ~(f.wire = LEN /\ heap >= STRING_SIZE)
  <2>1. s = Abort(State(msg, heap, aborted))
    BY <1>1, <1>3 DEF ReadString
  <2>2. Abort(State(msg, heap, aborted)) = Stop(msg, heap)
    BY AbortStops
  <2> QED
    BY <1>3, <2>1, <2>2
<1> QED
  BY <1>2, <1>3

\* ReadScalarState for a decoding that goes on.
LEMMA ReadScalarAt ==
  ASSUME NEW msg, NEW heap, NEW name, NEW f, NEW wire
  PROVE  IF f.wire = wire
         THEN ReadScalar(At(msg, heap), name, f, wire) = At(With(msg, name, f.val), heap)
         ELSE ReadScalar(At(msg, heap), name, f, wire) = Stop(msg, heap)
BY ReadScalarState DEF At

\* ReadStringState for a decoding that goes on.
LEMMA ReadStringAt ==
  ASSUME NEW msg, NEW heap, NEW name, NEW f
  PROVE  IF f.wire = LEN /\ heap >= STRING_SIZE
         THEN ReadString(At(msg, heap), name, f) =
                At(With(msg, name, f.val), heap - STRING_SIZE)
         ELSE ReadString(At(msg, heap), name, f) = Stop(msg, heap)
BY ReadStringState DEF At

-----------------------------------------------------------------------------
\* Foo

FooStep(wire, s, f) == FooField(wire, s, f)
FooLoop == INSTANCE FoldProofs WITH Op <- FooStep

\* What the state of the loop is after i fields.
FooRead(wire, fields, heap, i, s) ==
  IF TypedTo(fields, <<wire>>, i) THEN s = At([bar |-> ValueTo(fields, 1, i)], heap)
                                  ELSE s.aborted = TRUE

\* One more field of Foo keeps the invariant of its loop.
LEMMA FooReadStep ==
  ASSUME NEW wire, NEW fields \in ScalarFields, NEW heap, NEW i \in 0..(Len(fields) - 1),
         NEW s, FooRead(wire, fields, heap, i, s)
  PROVE  FooRead(wire, fields, heap, i + 1, FooField(wire, s, fields[i + 1]))
<1> DEFINE f == fields[i + 1]
<1>1. i \in Nat /\ f.num \in Nat
  BY FieldFacts DEF ScalarFields
<1>2. TypedTo(fields, <<wire>>, i + 1) <=>
        TypedTo(fields, <<wire>>, i) /\ (f.num = 1 => f.wire = wire)
  <2> DEFINE wires == <<wire>>
  <2>1. DOMAIN wires = {1} /\ wires[1] = wire
    OBVIOUS
  <2> HIDE DEF wires
  <2>2. TypedTo(fields, wires, i + 1) <=>
          TypedTo(fields, wires, i) /\ (f.num \in DOMAIN wires => f.wire = wires[f.num])
    BY <1>1, TypedStep
  <2> HIDE DEF f
  <2>3. TypedTo(fields, wires, i + 1) <=>
          TypedTo(fields, wires, i) /\ (f.num = 1 => f.wire = wire)
    BY <2>1, <2>2
  <2> QED
    BY <2>3 DEF wires
<1>3. ValueTo(fields, 1, i + 1) = IF f.num = 1 THEN f.val ELSE ValueTo(fields, 1, i)
  BY <1>1, ValueStep
<1> HIDE DEF f
<1>4. CASE ~TypedTo(fields, <<wire>>, i)
  BY <1>2, <1>4 DEF FooRead, FooField, f
<1>5. CASE TypedTo(fields, <<wire>>, i) /\ f.num = 1
  <2>1. s = At([bar |-> ValueTo(fields, 1, i)], heap) /\ ~s.aborted
    BY <1>5 DEF FooRead, At, State, NotAborted
  <2>2. FooField(wire, s, f) = ReadScalar(s, "bar", f, wire)
    BY <1>5, <2>1 DEF FooField
  <2>3. With([bar |-> ValueTo(fields, 1, i)], "bar", f.val) = [bar |-> f.val]
    BY DEF With
  <2> DEFINE m == [bar |-> ValueTo(fields, 1, i)]
  <2>4. IF f.wire = wire
        THEN ReadScalar(At(m, heap), "bar", f, wire) = At(With(m, "bar", f.val), heap)
        ELSE ReadScalar(At(m, heap), "bar", f, wire) = Stop(m, heap)
    <3> HIDE DEF m
    <3> QED
      BY ReadScalarAt
  <2>5. Stop(m, heap).aborted = TRUE
    BY DEF Stop, State
  <2> HIDE DEF m
  <2> QED
    BY <1>2, <1>3, <1>5, <2>1, <2>2, <2>3, <2>4, <2>5 DEF FooRead, f, m
<1>6. CASE TypedTo(fields, <<wire>>, i) /\ f.num # 1
  <2>1. ~s.aborted
    BY <1>6 DEF FooRead, At, State, NotAborted
  <2> QED
    BY <1>2, <1>3, <1>6, <2>1 DEF FooRead, FooField, f
<1> QED
  BY <1>4, <1>5, <1>6

\* decode_inner of Foo
LEMMA FooDecoded ==
  ASSUME NEW wire, NEW fields \in ScalarFields, NEW heap
  PROVE  IF Typed(fields, <<wire>>)
         THEN DecodeFoo(wire, fields, heap) = At(FooMeaning(fields), heap)
         ELSE DecodeFoo(wire, fields, heap).aborted = TRUE
<1> DEFINE n == Len(fields)
           d == DecodeFoo(wire, fields, heap)
           base == Start(FooInit, heap)
<1>1. n \in Nat /\ fields \in Seq(FieldOver({<<>>}))
  BY FieldFacts DEF ScalarFields
<1>2. d = FooLoop!Fold(wire, base, fields)
  BY DEF DecodeFoo, FooLoop!Fold, FooStep, FoldLeft, MapThenFoldSet, Max,
         FooLoop!FoldLeft, FooLoop!MapThenFoldSet, FooLoop!Max
<1>3. PICK r : FooLoop!IsRun(wire, base, fields, r) /\ d = r[n]
  BY <1>1, <1>2, FooLoop!FoldRun
<1>4. /\ r[0] = Start(FooInit, heap)
      /\ \A i \in 0..(n - 1) : r[i + 1] = FooField(wire, r[i], fields[i + 1])
  BY <1>3 DEF FooLoop!IsRun, FooStep
<1> DEFINE S == {i \in 0..n : FooRead(wire, fields, heap, i, r[i])}
<1>5. 0 \in S
  <2>1. TypedTo(fields, <<wire>>, 0) /\ ValueTo(fields, 1, 0) = 0
    BY TypedNone, ValueNone
  <2>2. FooRead(wire, fields, heap, 0, r[0])
    BY <1>4, <2>1 DEF FooRead, Start, FooInit, At, State, NotAborted
  <2> QED
    BY <1>1, <2>2
<1>6. ASSUME NEW i \in 0..(n - 1), i \in S
      PROVE  i + 1 \in S
  BY <1>1, <1>4, <1>6, FooReadStep
<1>7. 0..n \subseteq S
  <2> HIDE DEF S, n
  <2> QED
    BY <1>1, <1>5, <1>6, UpTo
<1>8. FooRead(wire, fields, heap, n, d)
  BY <1>1, <1>3, <1>7
<1>9. /\ Typed(fields, <<wire>>) <=> TypedTo(fields, <<wire>>, n)
      /\ Value(fields, 1) = ValueTo(fields, 1, n)
  BY <1>1, TypedIs, ValueIs
<1> QED
  BY <1>8, <1>9 DEF FooRead, FooMeaning

-----------------------------------------------------------------------------
\* PhoneNumber

PhoneStep(none, s, f) == PhoneField(s, f)
PhoneLoop == INSTANCE FoldProofs WITH Op <- PhoneStep

PhoneWires == <<LEN, VARINT>>

PhoneAt(number, type, heap) == At([number |-> number, type |-> type], heap)

PhoneRead(fields, heap, i, s) ==
  IF TypedTo(fields, PhoneWires, i) /\ StringsTo(fields, {1}, i) <= heap
  THEN s = PhoneAt(ValueTo(fields, 1, i), ValueTo(fields, 2, i),
                   heap - StringsTo(fields, {1}, i))
  ELSE s.aborted = TRUE

\* What storing a field makes of a phone number.
LEMMA PhoneUpdates ==
  ASSUME NEW number, NEW type, NEW v
  PROVE  /\ With([number |-> number, type |-> type], "number", v) =
              [number |-> v, type |-> type]
         /\ With([number |-> number, type |-> type], "type", v) =
              [number |-> number, type |-> v]
<1> DEFINE D == {"number", "type"}
           m == [number |-> number, type |-> type]
<1>1. [m EXCEPT !["number"] = v] = [k \in D |-> IF k = "number" THEN v ELSE m[k]]
  OBVIOUS
<1>2. [m EXCEPT !["type"] = v] = [k \in D |-> IF k = "type" THEN v ELSE m[k]]
  OBVIOUS
<1>3. [number |-> v, type |-> type] = [k \in D |-> IF k = "number" THEN v ELSE m[k]]
  OBVIOUS
<1>4. [number |-> number, type |-> v] = [k \in D |-> IF k = "type" THEN v ELSE m[k]]
  OBVIOUS
<1> HIDE DEF m
<1>5. [m EXCEPT !["number"] = v] = [number |-> v, type |-> type]
  BY <1>1, <1>3
<1>6. [m EXCEPT !["type"] = v] = [number |-> number, type |-> v]
  BY <1>2, <1>4
<1> QED
  BY <1>5, <1>6 DEF m, With

\* One field, read by a loop that has not been aborted
LEMMA PhoneFieldAt ==
  ASSUME NEW number, NEW type, NEW heap, NEW f
  PROVE  /\ f.num = 1 =>
              IF f.wire = LEN /\ heap >= STRING_SIZE
              THEN PhoneField(PhoneAt(number, type, heap), f) =
                     PhoneAt(f.val, type, heap - STRING_SIZE)
              ELSE PhoneField(PhoneAt(number, type, heap), f).aborted = TRUE
         /\ f.num = 2 =>
              IF f.wire = VARINT
              THEN PhoneField(PhoneAt(number, type, heap), f) = PhoneAt(number, f.val, heap)
              ELSE PhoneField(PhoneAt(number, type, heap), f).aborted = TRUE
         /\ f.num \notin {1, 2} =>
              PhoneField(PhoneAt(number, type, heap), f) = PhoneAt(number, type, heap)
<1> DEFINE s == PhoneAt(number, type, heap)
<1> DEFINE m == [number |-> number, type |-> type]
<1>1. s = At(m, heap) /\ s.aborted = FALSE
  BY DEF PhoneAt, At, State, NotAborted
<1>2. /\ With(m, "number", f.val) = [number |-> f.val, type |-> type]
      /\ With(m, "type", f.val) = [number |-> number, type |-> f.val]
  BY PhoneUpdates
<1> HIDE DEF m, s
<1>3. ASSUME f.num = 1
      PROVE  IF f.wire = LEN /\ heap >= STRING_SIZE
             THEN PhoneField(s, f) = PhoneAt(f.val, type, heap - STRING_SIZE)
             ELSE PhoneField(s, f).aborted = TRUE
  <2>1. PhoneField(s, f) = ReadString(At(m, heap), "number", f)
    BY <1>1, <1>3 DEF PhoneField
  <2> QED
    BY <1>2, <2>1, ReadStringAt DEF PhoneAt, Stop, State
<1>4. ASSUME f.num = 2
      PROVE  IF f.wire = VARINT THEN PhoneField(s, f) = PhoneAt(number, f.val, heap)
                                ELSE PhoneField(s, f).aborted = TRUE
  <2>1. PhoneField(s, f) = ReadScalar(At(m, heap), "type", f, VARINT)
    BY <1>1, <1>4 DEF PhoneField
  <2>2. IF f.wire = VARINT
        THEN ReadScalar(At(m, heap), "type", f, VARINT) = At(With(m, "type", f.val), heap)
        ELSE ReadScalar(At(m, heap), "type", f, VARINT) = Stop(m, heap)
    BY ReadScalarAt
  <2> QED
    BY <1>2, <2>1, <2>2 DEF PhoneAt, Stop, State
<1>5. ASSUME f.num \notin {1, 2}
      PROVE  PhoneField(s, f) = s
  BY <1>1, <1>5 DEF PhoneField
<1> QED
  BY <1>3, <1>4, <1>5 DEF s

\* One more field of PhoneNumber keeps the invariant of its loop.
LEMMA PhoneReadStep ==
  ASSUME NEW fields \in ScalarFields, NEW heap \in Nat, NEW i \in 0..(Len(fields) - 1),
         NEW s, PhoneRead(fields, heap, i, s)
  PROVE  PhoneRead(fields, heap, i + 1, PhoneField(s, fields[i + 1]))
<1> DEFINE f == fields[i + 1]
           B(k) == StringsTo(fields, {1}, k)
           V(num, k) == ValueTo(fields, num, k)
           OK(k) == TypedTo(fields, PhoneWires, k)
           t == PhoneField(s, f)
<1>1. i \in Nat /\ f.num \in Nat
  BY FieldFacts DEF ScalarFields
<1>2. OK(i + 1) <=> OK(i) /\ (f.num = 1 => f.wire = LEN) /\ (f.num = 2 => f.wire = VARINT)
  <2>1. DOMAIN PhoneWires = {1, 2} /\ PhoneWires[1] = LEN /\ PhoneWires[2] = VARINT
    BY DEF PhoneWires
  <2>2. OK(i + 1) <=> OK(i) /\ (f.num \in DOMAIN PhoneWires => f.wire = PhoneWires[f.num])
    BY <1>1, TypedStep
  <2> HIDE DEF OK, f
  <2> QED
    BY <2>1, <2>2
<1>3. /\ V(1, i + 1) = IF f.num = 1 THEN f.val ELSE V(1, i)
      /\ V(2, i + 1) = IF f.num = 2 THEN f.val ELSE V(2, i)
  BY <1>1, ValueStep
<1>4. /\ B(i) \in Nat /\ STRING_SIZE \in Nat
      /\ B(i + 1) = B(i) + (IF f.num = 1 THEN STRING_SIZE ELSE 0)
  <2>1. /\ B(i) \in Nat
        /\ B(i + 1) = B(i) + (IF f.num \in {1} THEN STRING_SIZE ELSE 0)
    BY <1>1, StringsStep
  <2> HIDE DEF B, f
  <2> QED
    BY <2>1, Sizes
<1>5. /\ OK(i) /\ B(i) <= heap => s = PhoneAt(V(1, i), V(2, i), heap - B(i))
      /\ ~(OK(i) /\ B(i) <= heap) => s.aborted = TRUE
  BY DEF PhoneRead
<1>6. SUFFICES /\ OK(i + 1) /\ B(i + 1) <= heap
                    => t = PhoneAt(V(1, i + 1), V(2, i + 1), heap - B(i + 1))
               /\ ~(OK(i + 1) /\ B(i + 1) <= heap) => t.aborted = TRUE
  BY DEF PhoneRead
<1> HIDE DEF f, B, V, OK
<1>7. CASE ~(OK(i) /\ B(i) <= heap)
  <2>1. t.aborted = TRUE
    BY <1>5, <1>7 DEF PhoneField
  <2> QED
    BY <1>2, <1>4, <1>7, <2>1
<1>8. CASE OK(i) /\ B(i) <= heap
  <2>1. s = PhoneAt(V(1, i), V(2, i), heap - B(i))
    BY <1>5, <1>8
  <2> DEFINE h == heap - B(i)
             number == V(1, i)
             type == V(2, i)
  <2>2. s = PhoneAt(number, type, h)
    BY <2>1
  <2> DEFINE r == PhoneField(PhoneAt(number, type, h), f)
  <2>3. t = r
    BY <2>2
  <2> HIDE DEF h, number, type
  <2>4. CASE f.num = 1
    <3>1. IF f.wire = LEN /\ h >= STRING_SIZE
          THEN r = PhoneAt(f.val, type, h - STRING_SIZE)
          ELSE r.aborted = TRUE
      BY <2>4, PhoneFieldAt
    <3>2. V(1, i + 1) = f.val /\ V(2, i + 1) = type
      BY <1>3, <2>4 DEF type
    <3>3. /\ OK(i + 1) <=> f.wire = LEN
          /\ B(i + 1) <= heap <=> h >= STRING_SIZE
          /\ heap - B(i + 1) = h - STRING_SIZE
      BY <1>2, <1>4, <1>8, <2>4 DEF h
    <3> HIDE DEF r, t
    <3> QED
      BY <2>3, <3>1, <3>2, <3>3
  <2>5. CASE f.num = 2
    <3>1. IF f.wire = VARINT THEN r = PhoneAt(number, f.val, h) ELSE r.aborted = TRUE
      BY <2>5, PhoneFieldAt
    <3>2. V(1, i + 1) = number /\ V(2, i + 1) = f.val
      BY <1>3, <2>5 DEF number
    <3>3. (OK(i + 1) <=> f.wire = VARINT) /\ B(i + 1) <= heap /\ heap - B(i + 1) = h
      BY <1>2, <1>4, <1>8, <2>5 DEF h
    <3> HIDE DEF r, t
    <3> QED
      BY <2>3, <3>1, <3>2, <3>3
  <2>6. CASE f.num \notin {1, 2}
    <3>1. r = PhoneAt(number, type, h)
      BY <2>6, PhoneFieldAt
    <3>2. V(1, i + 1) = number /\ V(2, i + 1) = type
      BY <1>3, <2>6 DEF number, type
    <3>3. OK(i + 1) /\ B(i + 1) <= heap /\ heap - B(i + 1) = h
      BY <1>2, <1>4, <1>8, <2>6 DEF h
    <3> HIDE DEF r, t
    <3> QED
      BY <2>3, <3>1, <3>2, <3>3
  <2> QED
    BY <2>4, <2>5, <2>6
<1> QED
  BY <1>7, <1>8

PhoneStrings(fields) == STRING_SIZE * Occurrences(fields, {1})

\* decode_inner of PhoneNumber
LEMMA PhoneDecoded ==
  ASSUME NEW fields \in ScalarFields, NEW heap \in Nat
  PROVE  /\ PhoneStrings(fields) \in Nat
         /\ IF PhoneTyped(fields) /\ PhoneStrings(fields) <= heap
            THEN DecodePhone(fields, heap) = At(PhoneMeaning(fields), heap - PhoneStrings(fields))
            ELSE DecodePhone(fields, heap).aborted = TRUE
<1> DEFINE n == Len(fields)
           d == DecodePhone(fields, heap)
           base == Start(PhoneInit, heap)
<1>1. n \in Nat /\ fields \in Seq(FieldOver({<<>>}))
  BY FieldFacts DEF ScalarFields
<1>2. d = PhoneLoop!Fold(0, base, fields)
  BY DEF DecodePhone, PhoneLoop!Fold, PhoneStep, FoldLeft, MapThenFoldSet, Max,
         PhoneLoop!FoldLeft, PhoneLoop!MapThenFoldSet, PhoneLoop!Max
<1>3. PICK r : PhoneLoop!IsRun(0, base, fields, r) /\ d = r[n]
  BY <1>1, <1>2, PhoneLoop!FoldRun
<1>4. /\ r[0] = Start(PhoneInit, heap)
      /\ \A i \in 0..(n - 1) : r[i + 1] = PhoneField(r[i], fields[i + 1])
  BY <1>3 DEF PhoneLoop!IsRun, PhoneStep
<1> DEFINE S == {i \in 0..n : PhoneRead(fields, heap, i, r[i])}
<1>5. 0 \in S
  <2>1. /\ TypedTo(fields, PhoneWires, 0) /\ StringsTo(fields, {1}, 0) = 0
        /\ ValueTo(fields, 1, 0) = 0 /\ ValueTo(fields, 2, 0) = 0
    BY TypedNone, ValueNone, StringsNone
  <2>2. r[0] = PhoneAt(0, 0, heap - 0)
    BY <1>4 DEF Start, PhoneInit, PhoneAt, At, State, NotAborted
  <2>3. PhoneRead(fields, heap, 0, r[0])
    BY <2>1, <2>2 DEF PhoneRead
  <2> QED
    BY <1>1, <2>3
<1>6. ASSUME NEW i \in 0..(n - 1), i \in S
      PROVE  i + 1 \in S
  BY <1>1, <1>4, <1>6, PhoneReadStep
<1>7. 0..n \subseteq S
  <2> HIDE DEF S, n
  <2> QED
    BY <1>1, <1>5, <1>6, UpTo
<1>8. PhoneRead(fields, heap, n, d)
  BY <1>1, <1>3, <1>7
<1>9. /\ PhoneTyped(fields) <=> TypedTo(fields, PhoneWires, n)
      /\ Value(fields, 1) = ValueTo(fields, 1, n) /\ Value(fields, 2) = ValueTo(fields, 2, n)
      /\ PhoneStrings(fields) = StringsTo(fields, {1}, n)
      /\ PhoneStrings(fields) \in Nat
  BY <1>1, TypedIs, ValueIs, OccurrencesAre, StringsStep
     DEF PhoneTyped, PhoneWires, PhoneStrings, StringsTo
<1> HIDE DEF d, n
<1>10. IF PhoneTyped(fields) /\ PhoneStrings(fields) <= heap
       THEN d = At(PhoneMeaning(fields), heap - PhoneStrings(fields))
       ELSE d.aborted = TRUE
  BY <1>8, <1>9 DEF PhoneRead, PhoneAt, PhoneMeaning
<1> QED
  BY <1>9, <1>10 DEF d

-----------------------------------------------------------------------------
\* Person, up to its phones

PersonStep(none, s, f) == PersonField(s, f)
PersonLoop == INSTANCE FoldProofs WITH Op <- PersonStep

PersonWires == <<LEN, VARINT, LEN, LEN>>

Person(name, id, email, phones) ==
  [name |-> name, id |-> id, email |-> email, phones |-> phones]

PersonAt(name, id, email, heap) == At(Person(name, id, email, <<>>), heap)

\* aborted before there was room for phones
PersonStopped(s) == \E msg, heap : msg.phones = <<>> /\ s = Stop(msg, heap)

PersonRead(fields, heap, i, s) ==
  IF TypedTo(fields, PersonWires, i) /\ StringsTo(fields, {1, 3}, i) <= heap
  THEN s = PersonAt(ValueTo(fields, 1, i), ValueTo(fields, 2, i), ValueTo(fields, 3, i),
                    heap - StringsTo(fields, {1, 3}, i))
  ELSE PersonStopped(s)

PersonNames == {"name", "id", "email", "phones"}

\* A record with the fields of a person is that person.
LEMMA PersonIs ==
  ASSUME NEW name, NEW id, NEW email, NEW phones, NEW m, m = [k \in PersonNames |-> m[k]],
         m["name"] = name, m["id"] = id, m["email"] = email, m["phones"] = phones
  PROVE  m = Person(name, id, email, phones)
<1> DEFINE p == Person(name, id, email, phones)
<1>1. /\ p = [k \in PersonNames |-> p[k]]
      /\ p["name"] = name /\ p["id"] = id /\ p["email"] = email /\ p["phones"] = phones
  BY DEF Person, PersonNames
<1> HIDE DEF p
<1>2. \A k \in PersonNames : p[k] = m[k]
  BY <1>1 DEF PersonNames
<1>3. m = p
  BY <1>1, <1>2
<1> QED
  BY <1>3 DEF p

\* What storing a field makes of a person.
LEMMA PersonUpdates ==
  ASSUME NEW name, NEW id, NEW email, NEW phones, NEW v
  PROVE  /\ With(Person(name, id, email, phones), "name", v) = Person(v, id, email, phones)
         /\ With(Person(name, id, email, phones), "id", v) = Person(name, v, email, phones)
         /\ With(Person(name, id, email, phones), "email", v) = Person(name, id, v, phones)
         /\ With(Person(name, id, email, phones), "phones", v) = Person(name, id, email, v)
<1> DEFINE W(field) == With(Person(name, id, email, phones), field, v)
<1>1. W("name") = Person(v, id, email, phones)
  <2> DEFINE m == W("name")
  <2>1. /\ m = [k \in PersonNames |-> m[k]]
        /\ m["name"] = v /\ m["id"] = id /\ m["email"] = email /\ m["phones"] = phones
    BY DEF With, Person, PersonNames
  <2> HIDE DEF m
  <2>2. m = Person(v, id, email, phones)
    BY <2>1, PersonIs
  <2> QED
    BY <2>2 DEF m
<1>2. W("id") = Person(name, v, email, phones)
  <2> DEFINE m == W("id")
  <2>1. /\ m = [k \in PersonNames |-> m[k]]
        /\ m["name"] = name /\ m["id"] = v /\ m["email"] = email /\ m["phones"] = phones
    BY DEF With, Person, PersonNames
  <2> HIDE DEF m
  <2>2. m = Person(name, v, email, phones)
    BY <2>1, PersonIs
  <2> QED
    BY <2>2 DEF m
<1>3. W("email") = Person(name, id, v, phones)
  <2> DEFINE m == W("email")
  <2>1. /\ m = [k \in PersonNames |-> m[k]]
        /\ m["name"] = name /\ m["id"] = id /\ m["email"] = v /\ m["phones"] = phones
    BY DEF With, Person, PersonNames
  <2> HIDE DEF m
  <2>2. m = Person(name, id, v, phones)
    BY <2>1, PersonIs
  <2> QED
    BY <2>2 DEF m
<1>4. W("phones") = Person(name, id, email, v)
  <2> DEFINE m == W("phones")
  <2>1. /\ m = [k \in PersonNames |-> m[k]]
        /\ m["name"] = name /\ m["id"] = id /\ m["email"] = email /\ m["phones"] = v
    BY DEF With, Person, PersonNames
  <2> HIDE DEF m
  <2>2. m = Person(name, id, email, v)
    BY <2>1, PersonIs
  <2> QED
    BY <2>2 DEF m
<1> QED
  BY <1>1, <1>2, <1>3, <1>4

\* The switch of address_book_person_decode_inner, case by case.
LEMMA PersonFieldAt ==
  ASSUME NEW name, NEW id, NEW email, NEW heap, NEW f
  PROVE  /\ f.num = 1 =>
              IF f.wire = LEN /\ heap >= STRING_SIZE
              THEN PersonField(PersonAt(name, id, email, heap), f) =
                     PersonAt(f.val, id, email, heap - STRING_SIZE)
              ELSE PersonStopped(PersonField(PersonAt(name, id, email, heap), f))
         /\ f.num = 2 =>
              IF f.wire = VARINT
              THEN PersonField(PersonAt(name, id, email, heap), f) =
                     PersonAt(name, f.val, email, heap)
              ELSE PersonStopped(PersonField(PersonAt(name, id, email, heap), f))
         /\ f.num = 3 =>
              IF f.wire = LEN /\ heap >= STRING_SIZE
              THEN PersonField(PersonAt(name, id, email, heap), f) =
                     PersonAt(name, id, f.val, heap - STRING_SIZE)
              ELSE PersonStopped(PersonField(PersonAt(name, id, email, heap), f))
         /\ f.num = 4 =>
              IF f.wire = LEN
              THEN PersonField(PersonAt(name, id, email, heap), f) =
                     PersonAt(name, id, email, heap)
              ELSE PersonStopped(PersonField(PersonAt(name, id, email, heap), f))
         /\ f.num \notin {1, 2, 3, 4} =>
              PersonField(PersonAt(name, id, email, heap), f) = PersonAt(name, id, email, heap)
<1> DEFINE m == Person(name, id, email, <<>>)
           s == PersonAt(name, id, email, heap)
           t == PersonField(s, f)
<1>1. s = At(m, heap) /\ ~s.aborted
  BY DEF PersonAt, At, State, NotAborted
<1>2. /\ With(m, "name", f.val) = Person(f.val, id, email, <<>>)
      /\ With(m, "id", f.val) = Person(name, f.val, email, <<>>)
      /\ With(m, "email", f.val) = Person(name, id, f.val, <<>>)
  BY PersonUpdates
<1>3. \A h : PersonStopped(Stop(m, h))
  BY DEF PersonStopped, Person
<1> HIDE DEF m, s
<1>4. ASSUME f.num = 1
      PROVE  IF f.wire = LEN /\ heap >= STRING_SIZE
             THEN t = PersonAt(f.val, id, email, heap - STRING_SIZE) ELSE PersonStopped(t)
  <2>1. t = ReadString(At(m, heap), "name", f)
    BY <1>1, <1>4 DEF PersonField
  <2> HIDE DEF t
  <2> QED
    BY <1>2, <1>3, <2>1, ReadStringAt DEF PersonAt
<1>5. ASSUME f.num = 2
      PROVE  IF f.wire = VARINT
             THEN t = PersonAt(name, f.val, email, heap) ELSE PersonStopped(t)
  <2>1. t = ReadScalar(At(m, heap), "id", f, VARINT)
    BY <1>1, <1>5 DEF PersonField
  <2>2. IF f.wire = VARINT
        THEN ReadScalar(At(m, heap), "id", f, VARINT) = At(With(m, "id", f.val), heap)
        ELSE ReadScalar(At(m, heap), "id", f, VARINT) = Stop(m, heap)
    BY ReadScalarAt
  <2> HIDE DEF t
  <2> QED
    BY <1>2, <1>3, <2>1, <2>2 DEF PersonAt
<1>6. ASSUME f.num = 3
      PROVE  IF f.wire = LEN /\ heap >= STRING_SIZE
             THEN t = PersonAt(name, id, f.val, heap - STRING_SIZE) ELSE PersonStopped(t)
  <2>1. t = ReadString(At(m, heap), "email", f)
    BY <1>1, <1>6 DEF PersonField
  <2> HIDE DEF t
  <2> QED
    BY <1>2, <1>3, <2>1, ReadStringAt DEF PersonAt
<1>7. ASSUME f.num = 4
      PROVE  IF f.wire = LEN THEN t = s ELSE PersonStopped(t)
  <2>1. t = CountItem(At(m, heap), f)
    BY <1>1, <1>7 DEF PersonField
  <2>2. Abort(At(m, heap)) = Stop(m, heap)
    BY AbortStops DEF At
  <2> HIDE DEF t
  <2> QED
    BY <1>1, <1>3, <2>1, <2>2 DEF CountItem
<1>8. ASSUME f.num \notin {1, 2, 3, 4}
      PROVE  t = s
  BY <1>1, <1>8 DEF PersonField
<1> QED
  BY <1>4, <1>5, <1>6, <1>7, <1>8 DEF s

\* One more field of Person keeps the invariant of its loop.
LEMMA PersonReadStep ==
  ASSUME NEW Sub, NEW fields \in FieldsOver(Sub), NEW heap \in Nat,
         NEW i \in 0..(Len(fields) - 1), NEW s, PersonRead(fields, heap, i, s)
  PROVE  PersonRead(fields, heap, i + 1, PersonField(s, fields[i + 1]))
<1> DEFINE f == fields[i + 1]
           B(k) == StringsTo(fields, {1, 3}, k)
           V(num, k) == ValueTo(fields, num, k)
           OK(k) == TypedTo(fields, PersonWires, k)
           t == PersonField(s, f)
<1>1. i \in Nat /\ f.num \in Nat
  BY FieldFacts
<1>2. OK(i + 1) <=> /\ OK(i)
                    /\ f.num \in {1, 3, 4} => f.wire = LEN
                    /\ f.num = 2 => f.wire = VARINT
  <2>1. /\ DOMAIN PersonWires = {1, 2, 3, 4} /\ PersonWires[1] = LEN
        /\ PersonWires[2] = VARINT /\ PersonWires[3] = LEN /\ PersonWires[4] = LEN
    BY DEF PersonWires
  <2>2. OK(i + 1) <=> OK(i) /\ (f.num \in DOMAIN PersonWires => f.wire = PersonWires[f.num])
    BY <1>1, TypedStep
  <2> HIDE DEF OK, f
  <2> QED
    BY <2>1, <2>2
<1>3. /\ V(1, i + 1) = IF f.num = 1 THEN f.val ELSE V(1, i)
      /\ V(2, i + 1) = IF f.num = 2 THEN f.val ELSE V(2, i)
      /\ V(3, i + 1) = IF f.num = 3 THEN f.val ELSE V(3, i)
  BY <1>1, ValueStep
<1>4. /\ B(i) \in Nat /\ STRING_SIZE \in Nat
      /\ B(i + 1) = B(i) + (IF f.num \in {1, 3} THEN STRING_SIZE ELSE 0)
  BY <1>1, StringsStep, Sizes
<1>5. /\ OK(i) /\ B(i) <= heap => s = PersonAt(V(1, i), V(2, i), V(3, i), heap - B(i))
      /\ ~(OK(i) /\ B(i) <= heap) => PersonStopped(s)
  BY DEF PersonRead
<1>6. SUFFICES /\ OK(i + 1) /\ B(i + 1) <= heap =>
                    t = PersonAt(V(1, i + 1), V(2, i + 1), V(3, i + 1), heap - B(i + 1))
               /\ ~(OK(i + 1) /\ B(i + 1) <= heap) => PersonStopped(t)
  BY DEF PersonRead
<1> HIDE DEF f, B, V, OK
<1>7. CASE ~(OK(i) /\ B(i) <= heap)
  <2>1. PersonStopped(s) /\ s.aborted
    BY <1>5, <1>7 DEF PersonStopped, Stop, State
  <2>2. t = s
    BY <2>1 DEF PersonField
  <2> QED
    BY <1>2, <1>4, <1>7, <2>1, <2>2
<1>8. CASE OK(i) /\ B(i) <= heap
  <2> DEFINE h == heap - B(i)
             name == V(1, i)
             id == V(2, i)
             email == V(3, i)
             r == PersonField(PersonAt(name, id, email, h), f)
  <2>1. t = r
    BY <1>5, <1>8
  <2> HIDE DEF h, name, id, email
  <2>2. CASE f.num = 1
    <3>1. IF f.wire = LEN /\ h >= STRING_SIZE
          THEN r = PersonAt(f.val, id, email, h - STRING_SIZE) ELSE PersonStopped(r)
      BY <2>2, PersonFieldAt
    <3>2. V(1, i + 1) = f.val /\ V(2, i + 1) = id /\ V(3, i + 1) = email
      BY <1>3, <2>2 DEF id, email
    <3>3. /\ OK(i + 1) <=> f.wire = LEN
          /\ B(i + 1) <= heap <=> h >= STRING_SIZE
          /\ heap - B(i + 1) = h - STRING_SIZE
      BY <1>2, <1>4, <1>8, <2>2 DEF h
    <3> HIDE DEF r, t
    <3> QED
      BY <2>1, <3>1, <3>2, <3>3
  <2>3. CASE f.num = 2
    <3>1. IF f.wire = VARINT THEN r = PersonAt(name, f.val, email, h) ELSE PersonStopped(r)
      BY <2>3, PersonFieldAt
    <3>2. V(1, i + 1) = name /\ V(2, i + 1) = f.val /\ V(3, i + 1) = email
      BY <1>3, <2>3 DEF name, email
    <3>3. (OK(i + 1) <=> f.wire = VARINT) /\ B(i + 1) <= heap /\ heap - B(i + 1) = h
      BY <1>2, <1>4, <1>8, <2>3 DEF h
    <3> HIDE DEF r, t
    <3> QED
      BY <2>1, <3>1, <3>2, <3>3
  <2>4. CASE f.num = 3
    <3>1. IF f.wire = LEN /\ h >= STRING_SIZE
          THEN r = PersonAt(name, id, f.val, h - STRING_SIZE) ELSE PersonStopped(r)
      BY <2>4, PersonFieldAt
    <3>2. V(1, i + 1) = name /\ V(2, i + 1) = id /\ V(3, i + 1) = f.val
      BY <1>3, <2>4 DEF name, id
    <3>3. /\ OK(i + 1) <=> f.wire = LEN
          /\ B(i + 1) <= heap <=> h >= STRING_SIZE
          /\ heap - B(i + 1) = h - STRING_SIZE
      BY <1>2, <1>4, <1>8, <2>4 DEF h
    <3> HIDE DEF r, t
    <3> QED
      BY <2>1, <3>1, <3>2, <3>3
  <2>5. CASE f.num \notin {1, 2, 3}
    <3>1. IF f.num = 4 => f.wire = LEN THEN r = PersonAt(name, id, email, h)
                                       ELSE PersonStopped(r)
      <4>1. CASE f.num = 4
        <5>1. IF f.wire = LEN THEN r = PersonAt(name, id, email, h) ELSE PersonStopped(r)
          BY <4>1, PersonFieldAt
        <5> HIDE DEF r
        <5> QED
          BY <4>1, <5>1
      <4>2. CASE f.num # 4
        <5>1. r = PersonAt(name, id, email, h)
          BY <2>5, <4>2, PersonFieldAt
        <5> QED
          BY <4>2, <5>1
      <4> QED
        BY <4>1, <4>2
    <3>2. V(1, i + 1) = name /\ V(2, i + 1) = id /\ V(3, i + 1) = email
      BY <1>3, <2>5 DEF name, id, email
    <3>3. /\ OK(i + 1) <=> (f.num = 4 => f.wire = LEN)
          /\ B(i + 1) <= heap /\ heap - B(i + 1) = h
      BY <1>2, <1>4, <1>8, <2>5 DEF h
    <3> HIDE DEF r, t
    <3> QED
      BY <2>1, <3>1, <3>2, <3>3
  <2> QED
    BY <2>2, <2>3, <2>4, <2>5
<1> QED
  BY <1>7, <1>8

PersonStrings(fields) == STRING_SIZE * Occurrences(fields, {1, 3})

\* decode_inner of Person, up to its phones
LEMMA PersonIsRead ==
  ASSUME NEW Sub, NEW fields \in FieldsOver(Sub), NEW heap \in Nat
  PROVE  LET read == FoldLeft(PersonField, Start(PersonInit, heap), fields)
         IN  /\ PersonStrings(fields) \in Nat
             /\ IF Typed(fields, PersonWires) /\ PersonStrings(fields) <= heap
                THEN read = PersonAt(Value(fields, 1), Value(fields, 2), Value(fields, 3),
                                     heap - PersonStrings(fields))
                ELSE PersonStopped(read)
<1> DEFINE n == Len(fields)
           base == Start(PersonInit, heap)
           d == FoldLeft(PersonField, base, fields)
<1>1. n \in Nat /\ fields \in Seq(FieldOver(Sub))
  BY FieldFacts
<1>2. d = PersonLoop!Fold(0, base, fields)
  BY DEF PersonLoop!Fold, PersonStep, FoldLeft, MapThenFoldSet, Max,
         PersonLoop!FoldLeft, PersonLoop!MapThenFoldSet, PersonLoop!Max
<1>3. PICK r : PersonLoop!IsRun(0, base, fields, r) /\ d = r[n]
  BY <1>1, <1>2, PersonLoop!FoldRun
<1>4. /\ r[0] = Start(PersonInit, heap)
      /\ \A i \in 0..(n - 1) : r[i + 1] = PersonField(r[i], fields[i + 1])
  BY <1>3 DEF PersonLoop!IsRun, PersonStep
<1> DEFINE S == {i \in 0..n : PersonRead(fields, heap, i, r[i])}
<1>5. 0 \in S
  <2>1. /\ TypedTo(fields, PersonWires, 0) /\ StringsTo(fields, {1, 3}, 0) = 0
        /\ ValueTo(fields, 1, 0) = 0 /\ ValueTo(fields, 2, 0) = 0 /\ ValueTo(fields, 3, 0) = 0
    BY TypedNone, ValueNone, StringsNone
  <2>2. r[0] = PersonAt(0, 0, 0, heap - 0)
    BY <1>4 DEF Start, PersonInit, PersonAt, Person, At, State, NotAborted
  <2>3. PersonRead(fields, heap, 0, r[0])
    BY <2>1, <2>2 DEF PersonRead
  <2> QED
    BY <1>1, <2>3
<1>6. ASSUME NEW i \in 0..(n - 1), i \in S
      PROVE  i + 1 \in S
  BY <1>1, <1>4, <1>6, PersonReadStep
<1>7. 0..n \subseteq S
  <2> HIDE DEF S, n
  <2> QED
    BY <1>1, <1>5, <1>6, UpTo
<1>8. PersonRead(fields, heap, n, d)
  BY <1>1, <1>3, <1>7
<1>9. /\ Typed(fields, PersonWires) <=> TypedTo(fields, PersonWires, n)
      /\ Value(fields, 1) = ValueTo(fields, 1, n) /\ Value(fields, 2) = ValueTo(fields, 2, n)
      /\ Value(fields, 3) = ValueTo(fields, 3, n)
      /\ PersonStrings(fields) = StringsTo(fields, {1, 3}, n)
      /\ PersonStrings(fields) \in Nat
  BY <1>1, TypedIs, ValueIs, OccurrencesAre, StringsStep DEF PersonStrings, StringsTo
<1> HIDE DEF d, n
<1>10. IF Typed(fields, PersonWires) /\ PersonStrings(fields) <= heap
       THEN d = PersonAt(Value(fields, 1), Value(fields, 2), Value(fields, 3),
                         heap - PersonStrings(fields))
       ELSE PersonStopped(d)
  BY <1>8, <1>9 DEF PersonRead
<1> QED
  BY <1>9, <1>10 DEF d

-----------------------------------------------------------------------------
\* The items of a repeated field, decoded one after the other

\* A field set is read back, and setting it again forgets the first.
LEMMA WithIs ==
  ASSUME NEW msg, NEW name \in DOMAIN msg, msg = [x \in DOMAIN msg |-> msg[x]], NEW a, NEW b
  PROVE  /\ With(msg, name, a)[name] = a
         /\ With(With(msg, name, a), name, b) = With(msg, name, b)
<1> DEFINE D == DOMAIN msg
           A == With(msg, name, a)
           AB == With(A, name, b)
           B == With(msg, name, b)
<1>1. A = [x \in D |-> IF x = name THEN a ELSE msg[x]]
  BY DEF With
<1>2. B = [x \in D |-> IF x = name THEN b ELSE msg[x]]
  BY DEF With
<1>3. AB = [x \in DOMAIN A |-> IF x = name THEN b ELSE A[x]]
  BY DEF With
<1> HIDE DEF A, B, AB
<1>4. DOMAIN A = D /\ \A x \in D : A[x] = IF x = name THEN a ELSE msg[x]
  BY <1>1
<1>5. AB = [x \in D |-> IF x = name THEN b ELSE msg[x]]
  BY <1>3, <1>4
<1>6. AB = B /\ A[name] = a
  BY <1>2, <1>4, <1>5
<1> QED
  BY <1>6 DEF A, B, AB

\* What decoding one item does to the message and the workspace.
LEMMA PutItemAt ==
  ASSUME NEW msg, NEW name \in DOMAIN msg, msg = [x \in DOMAIN msg |-> msg[x]],
         NEW items, NEW heap, NEW i, NEW d
  PROVE  PutItem(At(With(msg, name, items), heap), name, i, d) =
           State(With(msg, name, ReplaceAt(items, i, d.msg)), d.heap, d.aborted)
<1> DEFINE m == With(msg, name, items)
           s == At(m, heap)
           new == ReplaceAt(items, i, d.msg)
<1>1. m[name] = items /\ With(m, name, new) = With(msg, name, new)
  BY WithIs
<1>2. ~s.aborted /\ s.msg = m
  BY DEF At, State, NotAborted
<1> HIDE DEF s, m
<1>3. PutItem(s, name, i, d) =
        [msg |-> [m EXCEPT ![name] = ReplaceAt(m[name], i, d.msg)], heap |-> d.heap,
         aborted |-> d.aborted]
  BY <1>2 DEF PutItem
<1>4. PutItem(s, name, i, d) = State(With(m, name, new), d.heap, d.aborted)
  BY <1>1, <1>3 DEF State, With
<1> QED
  BY <1>1, <1>4 DEF s, m

\* n items, as long as none has gone wrong, and when one has
Filled(n, mean, init, i) == [k \in 1..n |-> IF k <= i THEN mean[k] ELSE init]

Partly(n, mean, init, k, partial) ==
  [j \in 1..n |-> IF j < k THEN mean[j] ELSE IF j = k THEN partial ELSE init]

\* Putting an item behind those that are filled in leaves the others alone.
LEMMA FilledReplace ==
  ASSUME NEW n \in Nat, NEW mean, NEW init, NEW i \in 0..(n - 1), NEW x
  PROVE  ReplaceAt(Filled(n, mean, init, i), i + 1, x) =
           [k \in 1..n |-> IF k = i + 1 THEN x ELSE IF k <= i THEN mean[k] ELSE init]
<1> DEFINE F == Filled(n, mean, init, i)
<1>1. DOMAIN F = 1..n /\ \A k \in 1..n : F[k] = IF k <= i THEN mean[k] ELSE init
  BY DEF Filled
<1>2. ReplaceAt(F, i + 1, x) = [k \in DOMAIN F |-> IF k = i + 1 THEN x ELSE F[k]]
  BY DEF ReplaceAt
<1> HIDE DEF F
<1>3. ReplaceAt(F, i + 1, x) =
        [k \in 1..n |-> IF k = i + 1 THEN x ELSE IF k <= i THEN mean[k] ELSE init]
  BY <1>1, <1>2
<1> QED
  BY <1>3 DEF F

\* An item decoded whole is filled in.
LEMMA FilledStep ==
  ASSUME NEW n \in Nat, NEW mean, NEW init, NEW i \in 0..(n - 1)
  PROVE  ReplaceAt(Filled(n, mean, init, i), i + 1, mean[i + 1]) = Filled(n, mean, init, i + 1)
<1> DEFINE x == mean[i + 1]
<1>1. \A k \in 1..n : (IF k = i + 1 THEN x ELSE IF k <= i THEN mean[k] ELSE init)
                        = (IF k <= i + 1 THEN mean[k] ELSE init)
  OBVIOUS
<1> HIDE DEF x
<1>2. Filled(n, mean, init, i + 1) =
        [k \in 1..n |-> IF k = i + 1 THEN x ELSE IF k <= i THEN mean[k] ELSE init]
  BY <1>1 DEF Filled
<1>3. ReplaceAt(Filled(n, mean, init, i), i + 1, x) = Filled(n, mean, init, i + 1)
  BY <1>2, FilledReplace
<1> QED
  BY <1>3 DEF x

\* An item cut short is the last one that is not initial.
LEMMA PartlyStep ==
  ASSUME NEW n \in Nat, NEW mean, NEW init, NEW i \in 0..(n - 1), NEW x
  PROVE  ReplaceAt(Filled(n, mean, init, i), i + 1, x) = Partly(n, mean, init, i + 1, x)
<1>1. \A k \in 1..n : (IF k = i + 1 THEN x ELSE IF k <= i THEN mean[k] ELSE init)
                        = (IF k < i + 1 THEN mean[k] ELSE IF k = i + 1 THEN x ELSE init)
  OBVIOUS
<1> QED
  BY <1>1, FilledReplace DEF Partly

\* One more position.
LEMMA NextInterval == \A i \in Nat : 1..(i + 1) = 1..i \cup {i + 1}
OBVIOUS

\* t[i] is what the first i items take.
IsTotals(n, need, t) ==
  /\ t[0] = 0
  /\ \A i \in 0..(n - 1) : t[i + 1] = t[i] + need[i + 1]
  /\ \A i \in 0..n : t[i] \in Nat

\* D[i][h], the decoding of item i with h bytes left, gives what the item means
\* if the item is good and needs no more.
IsDecoder(n, D, good, need, mean) ==
  \A i \in 1..n, h \in Nat :
    IF i \in good /\ need[i] <= h THEN D[i][h] = At(mean[i], h - need[i])
                                  ELSE D[i][h].aborted = TRUE

\* The first i items are good and there is room for them.
Fit(good, t, heap, i) == 1..i \subseteq good /\ t[i] <= heap

\* What the state is after i of the items.
ItemsRead(msg, name, n, D, good, t, mean, init, heap, i, s) ==
  IF Fit(good, t, heap, i)
  THEN s = At(With(msg, name, Filled(n, mean, init, i)), heap - t[i])
  ELSE \E k \in 1..n, h \in Nat : \E rest :
         /\ ~Fit(good, t, heap, k)
         /\ D[k][h].aborted = TRUE
         /\ s = Stop(With(msg, name, Partly(n, mean, init, k, D[k][h].msg)), rest)

\* One more item keeps the invariant of the loop over the items.
LEMMA ItemsReadStep ==
  ASSUME NEW msg, NEW name \in DOMAIN msg, msg = [x \in DOMAIN msg |-> msg[x]],
         NEW n \in Nat, NEW D, NEW good, NEW need, NEW t, NEW mean, NEW init,
         NEW heap \in Nat, NEW i \in 0..(n - 1), NEW s,
         \A k \in 1..n : need[k] \in Nat, IsTotals(n, need, t),
         IsDecoder(n, D, good, need, mean),
         ItemsRead(msg, name, n, D, good, t, mean, init, heap, i, s)
  PROVE  ItemsRead(msg, name, n, D, good, t, mean, init, heap, i + 1,
                   PutItem(s, name, i + 1, D[i + 1][s.heap]))
<1> DEFINE new == PutItem(s, name, i + 1, D[i + 1][s.heap])
<1>1. /\ i \in Nat /\ i + 1 \in 1..n /\ i \in 0..n /\ t[i] \in Nat /\ need[i + 1] \in Nat
      /\ t[i + 1] = t[i] + need[i + 1]
  BY DEF IsTotals
<1>2. Fit(good, t, heap, i + 1) <=>
        Fit(good, t, heap, i) /\ i + 1 \in good /\ need[i + 1] <= heap - t[i]
  <2>1. 1..(i + 1) = 1..i \cup {i + 1}
    BY <1>1, NextInterval
  <2>2. 1..(i + 1) \subseteq good <=> 1..i \subseteq good /\ i + 1 \in good
    BY <2>1
  <2>3. t[i + 1] <= heap <=> t[i] <= heap /\ need[i + 1] <= heap - t[i]
    BY <1>1
  <2> QED
    BY <2>2, <2>3 DEF Fit
<1>3. CASE ~Fit(good, t, heap, i)
  <2>1. s.aborted
    BY <1>3 DEF ItemsRead, Stop, State
  <2>2. new = s
    BY <2>1 DEF PutItem
  <2> HIDE DEF new
  <2> QED
    BY <1>2, <1>3, <2>2 DEF ItemsRead, new
<1>4. CASE Fit(good, t, heap, i)
  <2> DEFINE h == heap - t[i]
             d == D[i + 1][h]
             items == Filled(n, mean, init, i)
             m == With(msg, name, items)
  <2>1. s = At(m, h) /\ h \in Nat
    BY <1>1, <1>4 DEF ItemsRead, Fit
  <2>2. s.heap = h
    BY <2>1 DEF At, State
  <2>3. new = State(With(msg, name, ReplaceAt(items, i + 1, d.msg)), d.heap, d.aborted)
    <3>1. new = PutItem(At(m, h), name, i + 1, d)
      BY <2>1, <2>2
    <3> HIDE DEF d, h, items, new
    <3> QED
      BY <3>1, PutItemAt
  <2>4. IF i + 1 \in good /\ need[i + 1] <= h
        THEN d = At(mean[i + 1], h - need[i + 1]) ELSE d.aborted = TRUE
    <3> HIDE DEF h
    <3> QED
      BY <1>1, <2>1 DEF IsDecoder
  <2> HIDE DEF d, new, m
  <2>5. CASE Fit(good, t, heap, i + 1)
    <3>1. /\ d = At(mean[i + 1], h - need[i + 1])
          /\ h - need[i + 1] = heap - t[i + 1]
      BY <1>1, <1>2, <2>4, <2>5
    <3>2. d.msg = mean[i + 1] /\ d.heap = heap - t[i + 1] /\ d.aborted = NotAborted
      BY <3>1 DEF At, State
    <3>3. ReplaceAt(items, i + 1, d.msg) = Filled(n, mean, init, i + 1)
      BY <3>2, FilledStep
    <3>4. new = At(With(msg, name, Filled(n, mean, init, i + 1)), heap - t[i + 1])
      BY <2>3, <3>2, <3>3 DEF At
    <3> QED
      BY <2>5, <3>4 DEF ItemsRead, new
  <2>6. CASE ~Fit(good, t, heap, i + 1)
    <3>1. d.aborted = TRUE
      <4>1. ~(i + 1 \in good /\ need[i + 1] <= h)
        BY <1>2, <1>4, <2>6
      <4> HIDE DEF h
      <4> QED
        BY <2>4, <4>1
    <3>2. ReplaceAt(items, i + 1, d.msg) = Partly(n, mean, init, i + 1, d.msg)
      BY PartlyStep
    <3>3. new = Stop(With(msg, name, Partly(n, mean, init, i + 1, d.msg)), d.heap)
      BY <2>3, <3>1, <3>2 DEF Stop
    <3> QED
      BY <1>1, <2>1, <2>6, <3>1, <3>3 DEF ItemsRead, new, d
  <2> QED
    BY <2>5, <2>6
<1> QED
  BY <1>3, <1>4

\* r[i] is the state after i items.
IsItemsRun(name, n, D, r) ==
  \A i \in 0..(n - 1) :
    /\ r[i].aborted => r[i + 1] = r[i]
    /\ r[i].heap \in Nat => r[i + 1] = PutItem(r[i], name, i + 1, D[i + 1][r[i].heap])

\* That invariant holds at the end of the loop.
LEMMA ItemsRunEnds ==
  ASSUME NEW msg, NEW name \in DOMAIN msg, msg = [x \in DOMAIN msg |-> msg[x]],
         NEW n \in Nat, NEW D, NEW good, NEW need, NEW t, NEW mean, NEW init,
         NEW heap \in Nat, NEW r,
         \A k \in 1..n : need[k] \in Nat, IsTotals(n, need, t),
         IsDecoder(n, D, good, need, mean),
         r[0] = At(With(msg, name, Filled(n, mean, init, 0)), heap), IsItemsRun(name, n, D, r)
  PROVE  ItemsRead(msg, name, n, D, good, t, mean, init, heap, n, r[n])
<1> DEFINE R(i, s) == ItemsRead(msg, name, n, D, good, t, mean, init, heap, i, s)
           S == {i \in 0..n : R(i, r[i])}
<1>1. 0 \in S
  <2>1. 1..0 \subseteq good /\ t[0] = 0 /\ heap - 0 = heap
    BY DEF IsTotals
  <2>2. Fit(good, t, heap, 0) /\ heap - t[0] = heap
    BY <2>1 DEF Fit
  <2>3. R(0, r[0])
    BY <2>2 DEF ItemsRead
  <2> HIDE DEF R
  <2> QED
    BY <2>3
<1>2. ASSUME NEW i \in 0..(n - 1), R(i, r[i])
      PROVE  R(i + 1, r[i + 1])
  <2>1. R(i + 1, PutItem(r[i], name, i + 1, D[i + 1][r[i].heap]))
    BY <1>2, ItemsReadStep
  <2>2. CASE r[i].aborted
    <3>1. r[i + 1] = r[i] /\ PutItem(r[i], name, i + 1, D[i + 1][r[i].heap]) = r[i]
      BY <2>2 DEF IsItemsRun, PutItem
    <3> HIDE DEF R
    <3> QED
      BY <2>1, <3>1
  <2>3. CASE ~r[i].aborted
    <3>1. Fit(good, t, heap, i)
      <4>1. \A m, h : Stop(m, h).aborted
        BY DEF Stop, State
      <4>2. ~Fit(good, t, heap, i) => \E m, h : r[i] = Stop(m, h)
        BY <1>2 DEF ItemsRead
      <4> QED
        BY <2>3, <4>1, <4>2
    <3>2. r[i] = At(With(msg, name, Filled(n, mean, init, i)), heap - t[i])
      BY <1>2, <3>1 DEF ItemsRead
    <3>3. r[i].heap = heap - t[i]
      BY <3>2 DEF At, State
    <3>4. heap - t[i] \in Nat
      BY <3>1 DEF Fit, IsTotals
    <3>5. r[i + 1] = PutItem(r[i], name, i + 1, D[i + 1][r[i].heap])
      BY <3>3, <3>4 DEF IsItemsRun
    <3> HIDE DEF R
    <3> QED
      BY <2>1, <3>5
  <2> QED
    BY <2>2, <2>3
<1>3. 0..n \subseteq S
  <2>1. \A i \in 0..(n - 1) : i \in S => i + 1 \in S
    <3> HIDE DEF R
    <3> QED
      BY <1>2
  <2> HIDE DEF S
  <2> QED
    BY <1>1, <2>1, UpTo
<1> QED
  BY <1>3

\* Room for n items, which PhoneInit or PersonInit fills
IsRoom(room, n, size) == room = n * size /\ room \in Nat

\* With room, all items are initial ones.
LEMMA AllocAt ==
  ASSUME NEW msg, NEW name, NEW h \in Nat, NEW n \in Nat, NEW size \in Nat, NEW init, NEW mean,
         NEW read, read = At(msg, h), NEW room, IsRoom(room, n, size), room <= h
  PROVE  AllocRepeated(read, name, n, size, init) =
           At(With(msg, name, Filled(n, mean, init, 0)), h - room)
<1> DEFINE s == AllocRepeated(read, name, n, size, init)
           new == [i \in 1..n |-> init]
           m == With(msg, name, new)
           rest == h - room
<1>1. ~read.aborted /\ read.heap = h
  BY DEF At, State, NotAborted
<1>2. ~(h < room)
  BY DEF IsRoom
<1>3. s = [read EXCEPT !.msg[name] = new, !.heap = @ - room]
  BY <1>1, <1>2 DEF AllocRepeated, IsRoom
<1>4. new = Filled(n, mean, init, 0)
  BY DEF Filled
<1> HIDE DEF s, new
<1>5. /\ s = [k \in StateFields |-> s[k]]
      /\ s["msg"] = m /\ s["heap"] = rest /\ s["aborted"] = NotAborted
  BY <1>3 DEF At, State, StateFields, With
<1> HIDE DEF m, rest
<1>6. s = State(m, rest, NotAborted)
  BY <1>5, StateIs
<1> QED
  BY <1>4, <1>6 DEF s, m, rest, At

\* Without, decoding stops and the list stays empty.
LEMMA AllocFull ==
  ASSUME NEW msg, NEW name, NEW h \in Nat, NEW n \in Nat, NEW size \in Nat, NEW init,
         NEW read, read = At(msg, h), NEW room, IsRoom(room, n, size), ~(room <= h)
  PROVE  AllocRepeated(read, name, n, size, init) = Stop(msg, h)
<1>1. read.heap = h /\ h < n * size
  BY DEF At, State, IsRoom
<1>2. AllocRepeated(read, name, n, size, init) = Abort(At(msg, h))
  BY <1>1 DEF AllocRepeated
<1> QED
  BY <1>2, AbortStops DEF At

\* After an abort no room is taken.
LEMMA AllocStopped ==
  ASSUME NEW msg, NEW name, NEW heap, NEW n, NEW size, NEW init
  PROVE  AllocRepeated(Stop(msg, heap), name, n, size, init) = Stop(msg, heap)
<1>1. Stop(msg, heap).aborted
  BY DEF Stop, State
<1>2. AllocRepeated(Stop(msg, heap), name, n, size, init) = Abort(Stop(msg, heap))
  BY <1>1 DEF AllocRepeated
<1> QED
  BY <1>2, AbortStops DEF Stop

-----------------------------------------------------------------------------
\* Person

PhoneItemStep(phones, s, i) == PutItem(s, "phones", i, DecodePhone(phones[i].sub, s.heap))
PhoneItems == INSTANCE FoldProofs WITH Op <- PhoneItemStep

\* Decoding of the phones of a person, as ItemsRunEnds takes it
PhoneDecoder(subs) ==
  [i \in 1..Len(subs) |-> [h \in Nat |-> DecodePhone(subs[i], h)]]

\* Decoding a person ends with a loop over its phones.
LEMMA PersonItemsRun ==
  ASSUME NEW fields \in PersonFields, NEW heap \in Nat
  PROVE  LET subs == Subs(fields, 4)
             read == FoldLeft(PersonField, Start(PersonInit, heap), fields)
         IN  \E r : /\ r[0] = AllocRepeated(read, "phones", Len(subs), PHONE_SIZE, PhoneInit)
                    /\ IsItemsRun("phones", Len(subs), PhoneDecoder(subs), r)
                    /\ DecodePerson(fields, heap) = r[Len(subs)]
<1> DEFINE subs == Subs(fields, 4)
           n == Len(subs)
           phones == Items(fields, 4)
           read == FoldLeft(PersonField, Start(PersonInit, heap), fields)
           base == AllocRepeated(read, "phones", Len(phones), PHONE_SIZE, PhoneInit)
           seq == [i \in DOMAIN phones |-> i]
<1>1. /\ subs \in Seq(ScalarFields) /\ Len(phones) = n /\ n \in Nat
      /\ \A i \in 1..n : subs[i] = phones[i].sub
  BY SubsAreItems DEF PersonFields
<1>2. phones \in Seq(FieldOver(ScalarFields))
  BY FieldFacts, ItemsPicked DEF PersonFields, Picked
<1>3. DOMAIN phones = 1..n
  <2> HIDE DEF n, phones
  <2> QED
    BY <1>1, <1>2
<1>4. seq \in Seq(Nat) /\ Len(seq) = n /\ \A i \in 0..(n - 1) : seq[i + 1] = i + 1
  <2>1. seq = [i \in 1..n |-> i]
    BY <1>3
  <2> HIDE DEF seq, n
  <2> QED
    BY <1>1, <2>1
<1>5. DecodePerson(fields, heap) = PhoneItems!Fold(phones, base, seq)
  BY DEF DecodePerson, FoldLeftDomain, PhoneItems!Fold, PhoneItemStep, FoldLeft, MapThenFoldSet,
         Max, PhoneItems!FoldLeft, PhoneItems!MapThenFoldSet, PhoneItems!Max
<1>6. PICK r : PhoneItems!IsRun(phones, base, seq, r) /\ DecodePerson(fields, heap) = r[n]
  BY <1>4, <1>5, PhoneItems!FoldRun
<1>7. r[0] = base /\ \A i \in 0..(n - 1) : r[i + 1] = PhoneItemStep(phones, r[i], i + 1)
  BY <1>4, <1>6 DEF PhoneItems!IsRun
<1>8. ASSUME NEW i \in 0..(n - 1)
      PROVE  /\ r[i].aborted => r[i + 1] = r[i]
             /\ r[i].heap \in Nat =>
                  r[i + 1] = PutItem(r[i], "phones", i + 1, PhoneDecoder(subs)[i + 1][r[i].heap])
  <2>1. r[i + 1] = PutItem(r[i], "phones", i + 1, DecodePhone(subs[i + 1], r[i].heap))
    <3>1. i + 1 \in 1..n
      BY <1>1
    <3> QED
      BY <1>1, <1>7, <3>1 DEF PhoneItemStep
  <2>2. ASSUME r[i].heap \in Nat
        PROVE  PhoneDecoder(subs)[i + 1][r[i].heap] = DecodePhone(subs[i + 1], r[i].heap)
    BY <1>1, <2>2 DEF PhoneDecoder
  <2>3. r[i].aborted => r[i + 1] = r[i]
    BY <2>1 DEF PutItem
  <2> QED
    BY <2>1, <2>2, <2>3
<1>9. IsItemsRun("phones", n, PhoneDecoder(subs), r)
  BY <1>8 DEF IsItemsRun
<1> QED
  BY <1>1, <1>6, <1>7, <1>9

\* Once aborted, no item is decoded.
LEMMA StoppedRun ==
  ASSUME NEW name, NEW n \in Nat, NEW D, NEW r, IsItemsRun(name, n, D, r), r[0].aborted
  PROVE  r[n] = r[0]
<1> DEFINE S == {i \in 0..n : r[i] = r[0]}
<1>1. 0 \in S /\ \A i \in 0..(n - 1) : i \in S => i + 1 \in S
  BY DEF IsItemsRun
<1>2. 0..n \subseteq S
  <2> HIDE DEF S
  <2> QED
    BY <1>1, UpTo
<1> QED
  BY <1>2

PhoneNeeds(subs)    == [k \in 1..Len(subs) |-> PhoneStrings(subs[k])]
PhoneMeanings(subs) == [k \in 1..Len(subs) |-> PhoneMeaning(subs[k])]
GoodPhones(subs)    == {k \in 1..Len(subs) : PhoneTyped(subs[k])}

\* Each phone is decoded to its meaning exactly if it is typed and has its
\* room.
LEMMA PhonesDecode ==
  ASSUME NEW subs \in Seq(ScalarFields)
  PROVE  /\ PhoneNeeds(subs) \in Seq(Nat) /\ Len(PhoneNeeds(subs)) = Len(subs)
         /\ \A k \in 1..Len(subs) : PhoneNeeds(subs)[k] \in Nat
         /\ IsDecoder(Len(subs), PhoneDecoder(subs), GoodPhones(subs), PhoneNeeds(subs),
                      PhoneMeanings(subs))
<1> DEFINE n == Len(subs)
<1>1. n \in Nat /\ \A k \in 1..n : subs[k] \in ScalarFields
  OBVIOUS
<1>2. ASSUME NEW k \in 1..n
      PROVE  PhoneNeeds(subs)[k] = PhoneStrings(subs[k]) /\ PhoneStrings(subs[k]) \in Nat
  <2>1. 0 \in Nat /\ subs[k] \in ScalarFields
    BY <1>1
  <2>2. PhoneStrings(subs[k]) \in Nat
    BY <2>1, PhoneDecoded
  <2> QED
    BY <2>2 DEF PhoneNeeds
<1>3. PhoneNeeds(subs) \in Seq(Nat) /\ Len(PhoneNeeds(subs)) = n
  <2>1. PhoneNeeds(subs) = [k \in 1..n |-> PhoneStrings(subs[k])]
    BY DEF PhoneNeeds
  <2>2. \A k \in 1..n : PhoneStrings(subs[k]) \in Nat
    BY <1>2
  <2> HIDE DEF n
  <2> QED
    BY <1>1, <2>1, <2>2
<1>4. ASSUME NEW k \in 1..n, NEW h \in Nat
      PROVE  IF k \in GoodPhones(subs) /\ PhoneNeeds(subs)[k] <= h
             THEN PhoneDecoder(subs)[k][h] = At(PhoneMeanings(subs)[k], h - PhoneNeeds(subs)[k])
             ELSE PhoneDecoder(subs)[k][h].aborted = TRUE
  <2>1. IF PhoneTyped(subs[k]) /\ PhoneStrings(subs[k]) <= h
        THEN DecodePhone(subs[k], h) = At(PhoneMeaning(subs[k]), h - PhoneStrings(subs[k]))
        ELSE DecodePhone(subs[k], h).aborted = TRUE
    BY <1>1, PhoneDecoded
  <2>2. /\ PhoneDecoder(subs)[k][h] = DecodePhone(subs[k], h)
        /\ PhoneMeanings(subs)[k] = PhoneMeaning(subs[k])
        /\ k \in GoodPhones(subs) <=> PhoneTyped(subs[k])
    BY DEF PhoneDecoder, PhoneMeanings, GoodPhones
  <2> QED
    BY <1>2, <2>1, <2>2
<1> QED
  BY <1>2, <1>3, <1>4 DEF IsDecoder

\* What a person takes besides its own struct, which the book has room for.
PersonTakes(fields) ==
  PersonStrings(fields) + Len(Subs(fields, 4)) * PHONE_SIZE + Sum(PhoneNeeds(Subs(fields, 4)))

\* What a person needs is its struct and what its own decoding takes.
LEMMA PersonNeedIs ==
  ASSUME NEW fields \in PersonFields
  PROVE  PersonNeed(fields) = PERSON_SIZE + PersonTakes(fields)
<1> DEFINE subs == Subs(fields, 4)
           n == Len(subs)
           strings == PhoneNeeds(subs)
           needs == [k \in DOMAIN subs |-> PhoneNeed(subs[k])]
<1>1. subs \in Seq(ScalarFields)
  BY SubsAreItems DEF PersonFields
<1>2. /\ n \in Nat /\ DOMAIN subs = 1..n /\ strings \in Seq(Nat) /\ Len(strings) = n
      /\ \A k \in 1..n : strings[k] \in Nat
  BY <1>1, PhonesDecode
<1>3. \A k \in 1..n : PhoneNeed(subs[k]) = PHONE_SIZE + strings[k]
  BY DEF PhoneNeed, PhoneNeeds, PhoneStrings
<1>4. needs = [k \in 1..n |-> PHONE_SIZE + strings[k]]
  BY <1>2, <1>3
<1>5. needs \in Seq(Nat) /\ Len(needs) = n /\ \A k \in 1..n : needs[k] = PHONE_SIZE + strings[k]
  <2> HIDE DEF needs, n, strings
  <2> QED
    BY <1>2, <1>4, Sizes
<1>6. Sum(needs) = n * PHONE_SIZE + Sum(strings)
  <2> HIDE DEF needs, n, strings
  <2> QED
    BY <1>2, <1>5, Sizes, SumShift
<1>7. Sum(strings) \in Nat /\ n * PHONE_SIZE \in Nat
  <2>1. Sum(strings) \in Nat
    BY <1>2, SumMonotone
  <2> QED
    BY <1>2, <2>1, Sizes
<1>8. PersonStrings(fields) \in Nat
  BY PersonIsRead DEF PersonFields
<1>9. PersonNeed(fields) = PERSON_SIZE + PersonStrings(fields) + Sum(needs)
  BY DEF PersonNeed, PersonStrings
<1>10. PersonTakes(fields) = PersonStrings(fields) + n * PHONE_SIZE + Sum(strings)
  BY DEF PersonTakes
<1> HIDE DEF needs, n, strings
<1> QED
  BY <1>6, <1>7, <1>8, <1>9, <1>10, Sizes

\* What is left of a person that was not decoded to its end
PersonPartial(fields, msg) ==
  \/ msg.phones = <<>>
  \/ /\ Len(msg.phones) = Len(Subs(fields, 4))
     /\ msg = [PersonMeaning(fields) EXCEPT !.phones = msg.phones]

\* decode_inner of Person
LEMMA PersonDecoded ==
  ASSUME NEW fields \in PersonFields, NEW heap \in Nat
  PROVE  /\ PersonTakes(fields) \in Nat
         /\ IF PersonTyped(fields) /\ PersonTakes(fields) <= heap
            THEN DecodePerson(fields, heap) =
                   At(PersonMeaning(fields), heap - PersonTakes(fields))
            ELSE /\ DecodePerson(fields, heap).aborted = TRUE
                 /\ PersonPartial(fields, DecodePerson(fields, heap).msg)
<1> DEFINE subs == Subs(fields, 4)
           n == Len(subs)
           D == PhoneDecoder(subs)
           good == GoodPhones(subs)
           need == PhoneNeeds(subs)
           mean == PhoneMeanings(subs)
           read == FoldLeft(PersonField, Start(PersonInit, heap), fields)
           d == DecodePerson(fields, heap)
           name == Value(fields, 1)
           id == Value(fields, 2)
           email == Value(fields, 3)
           strings == PersonStrings(fields)
           room == n * PHONE_SIZE
           typed == Typed(fields, PersonWires)
<1>1. subs \in Seq(ScalarFields) /\ n \in Nat /\ DOMAIN subs = 1..n
  BY SubsAreItems DEF PersonFields
<1>2. /\ need \in Seq(Nat) /\ Len(need) = n /\ \A k \in 1..n : need[k] \in Nat
      /\ IsDecoder(n, D, good, need, mean)
  BY <1>1, PhonesDecode
<1>3. PICK t : IsSums(need, t) /\ Sum(need) = t[n]
  BY <1>2, SumRun
<1>4. IsTotals(n, need, t) /\ t[n] \in Nat
  BY <1>1, <1>2, <1>3 DEF IsSums, IsTotals
<1>5. PICK r : /\ r[0] = AllocRepeated(read, "phones", n, PHONE_SIZE, PhoneInit)
               /\ IsItemsRun("phones", n, D, r)
               /\ d = r[n]
  BY PersonItemsRun
<1>6. /\ strings \in Nat
      /\ IF typed /\ strings <= heap THEN read = PersonAt(name, id, email, heap - strings)
                                     ELSE PersonStopped(read)
  BY PersonIsRead DEF PersonFields
<1>7. room \in Nat /\ PHONE_SIZE \in Nat
  BY <1>1, Sizes
<1>8. PersonTakes(fields) = strings + room + t[n] /\ PersonTakes(fields) \in Nat
  <2>1. PersonTakes(fields) = strings + room + Sum(need)
    BY DEF PersonTakes
  <2> HIDE DEF strings, room, need
  <2> QED
    BY <1>3, <1>4, <1>6, <1>7, <2>1
<1>9. PersonTyped(fields) <=> typed /\ 1..n \subseteq good
  BY <1>1 DEF PersonTyped, PersonWires, GoodPhones
<1>10. PersonMeaning(fields) = Person(name, id, email, Filled(n, mean, PhoneInit, n))
  <2>1. Filled(n, mean, PhoneInit, n) = [k \in DOMAIN subs |-> PhoneMeaning(subs[k])]
    BY <1>1 DEF Filled, PhoneMeanings
  <2> QED
    BY <2>1 DEF PersonMeaning, Person
<1>11. SUFFICES IF typed /\ 1..n \subseteq good /\ strings + room + t[n] <= heap
                THEN d = At(PersonMeaning(fields), heap - (strings + room + t[n]))
                ELSE d.aborted = TRUE /\ PersonPartial(fields, d.msg)
  BY <1>8, <1>9
<1>12. \A msg, h : msg.phones = <<>> =>
         Stop(msg, h).aborted = TRUE /\ PersonPartial(fields, Stop(msg, h).msg)
  BY DEF Stop, State, PersonPartial
<1> HIDE DEF D, good, need, mean, read, d, name, id, email, strings, room, typed
<1>13. CASE ~(typed /\ strings <= heap)
  <2>1. PICK msg, h : msg.phones = <<>> /\ read = Stop(msg, h)
    BY <1>6, <1>13 DEF PersonStopped
  <2>2. r[0] = Stop(msg, h) /\ Stop(msg, h).aborted
    BY <1>5, <2>1, AllocStopped DEF Stop, State
  <2>3. d = Stop(msg, h)
    <3> HIDE DEF n
    <3> QED
      BY <1>1, <1>5, <2>2, StoppedRun
  <2>4. d.aborted = TRUE /\ PersonPartial(fields, d.msg)
    BY <1>12, <2>1, <2>3
  <2>5. ~(typed /\ strings + room + t[n] <= heap)
    BY <1>4, <1>6, <1>7, <1>13
  <2> QED
    BY <2>4, <2>5
<1> DEFINE h1 == heap - strings
           msg0 == Person(name, id, email, <<>>)
<1>14. CASE typed /\ strings <= heap /\ ~(room <= h1)
  <2>1. read = At(msg0, h1) /\ h1 \in Nat
    BY <1>6, <1>14 DEF PersonAt
  <2>2. r[0] = Stop(msg0, h1)
    <3>1. IsRoom(room, n, PHONE_SIZE) /\ PHONE_SIZE \in Nat
      BY <1>7 DEF room, IsRoom
    <3> HIDE DEF h1, msg0, n
    <3>2. AllocRepeated(read, "phones", n, PHONE_SIZE, PhoneInit) = Stop(msg0, h1)
      BY <1>1, <1>14, <2>1, <3>1, AllocFull
    <3> QED
      BY <1>5, <3>2
  <2>3. d = Stop(msg0, h1)
    <3>1. Stop(msg0, h1).aborted
      BY DEF Stop, State
    <3> HIDE DEF n, h1, msg0
    <3> QED
      BY <1>1, <1>5, <2>2, <3>1, StoppedRun
  <2>4. d.aborted = TRUE /\ PersonPartial(fields, d.msg)
    <3>1. msg0.phones = <<>>
      BY DEF Person
    <3> HIDE DEF msg0, h1
    <3> QED
      BY <1>12, <2>3, <3>1
  <2>5. ~(strings + room + t[n] <= heap)
    BY <1>4, <1>6, <1>7, <1>14
  <2> QED
    BY <2>4, <2>5
<1>15. CASE typed /\ strings <= heap /\ room <= h1
  <2> DEFINE h2 == h1 - room
  <2>1. read = At(msg0, h1) /\ h1 \in Nat /\ h2 \in Nat
    BY <1>6, <1>7, <1>15 DEF PersonAt
  <2>2. r[0] = At(With(msg0, "phones", Filled(n, mean, PhoneInit, 0)), h2)
    <3>1. IsRoom(room, n, PHONE_SIZE) /\ PHONE_SIZE \in Nat
      BY <1>7 DEF room, IsRoom
    <3> HIDE DEF h1, msg0, n
    <3>2. AllocRepeated(read, "phones", n, PHONE_SIZE, PhoneInit) =
            At(With(msg0, "phones", Filled(n, mean, PhoneInit, 0)), h1 - room)
      BY <1>1, <1>15, <2>1, <3>1, AllocAt
    <3> QED
      BY <1>5, <3>2
  <2>3. "phones" \in DOMAIN msg0 /\ msg0 = [x \in DOMAIN msg0 |-> msg0[x]]
    BY DEF Person
  <2>4. \A x : With(msg0, "phones", x) = Person(name, id, email, x)
    BY PersonUpdates
  <2> HIDE DEF h1, msg0, h2
  <2>5. ItemsRead(msg0, "phones", n, D, good, t, mean, PhoneInit, h2, n, d)
    <3> HIDE DEF n
    <3> QED
      BY <1>1, <1>2, <1>4, <1>5, <2>1, <2>2, <2>3, ItemsRunEnds
  <2>6. Fit(good, t, h2, n) <=> 1..n \subseteq good /\ strings + room + t[n] <= heap
    <3> HIDE DEF n
    <3>1. t[n] <= h2 <=> strings + room + t[n] <= heap
      BY <1>4, <1>6, <1>7, <2>1 DEF h1, h2
    <3> QED
      BY <3>1 DEF Fit
  <2>7. CASE Fit(good, t, h2, n)
    <3>1. d = At(PersonMeaning(fields), h2 - t[n])
      BY <1>10, <2>4, <2>5, <2>7 DEF ItemsRead
    <3>2. h2 - t[n] = heap - (strings + room + t[n])
      BY <1>4, <1>6, <1>7, <2>1 DEF h1, h2
    <3> QED
      BY <1>15, <2>6, <2>7, <3>1, <3>2
  <2>8. CASE ~Fit(good, t, h2, n)
    <3>1. PICK k \in 1..n, h \in Nat : \E rest :
            d = Stop(With(msg0, "phones", Partly(n, mean, PhoneInit, k, D[k][h].msg)), rest)
      BY <2>5, <2>8 DEF ItemsRead
    <3> DEFINE phones == Partly(n, mean, PhoneInit, k, D[k][h].msg)
    <3>2. \E rest : d = Stop(Person(name, id, email, phones), rest)
      BY <2>4, <3>1
    <3>3. Len(phones) = n
      BY <1>1 DEF Partly
    <3> HIDE DEF phones
    <3>4. [PersonMeaning(fields) EXCEPT !.phones = phones] = Person(name, id, email, phones)
      <4>1. With(Person(name, id, email, Filled(n, mean, PhoneInit, n)), "phones", phones) =
              Person(name, id, email, phones)
        BY PersonUpdates
      <4>2. With(PersonMeaning(fields), "phones", phones) = Person(name, id, email, phones)
        BY <1>10, <4>1
      <4> QED
        BY <4>2 DEF With
    <3>5. d.aborted = TRUE /\ d.msg = Person(name, id, email, phones)
      BY <3>2 DEF Stop, State
    <3>6. d.msg.phones = phones
      BY <3>5 DEF Person
    <3>7. PersonPartial(fields, d.msg)
      BY <3>3, <3>4, <3>5, <3>6 DEF PersonPartial
    <3> QED
      BY <2>6, <2>8, <3>5, <3>7
  <2> QED
    BY <2>7, <2>8
<1> QED
  BY <1>13, <1>14, <1>15

-----------------------------------------------------------------------------
\* AddressBook

BookStep(none, s, f) == BookField(s, f)
BookLoop == INSTANCE FoldProofs WITH Op <- BookStep

BookWires == <<LEN>>

Book(people) == [people |-> people]

\* decode_inner of AddressBook, after i fields
BookRead(fields, heap, i, s) ==
  IF TypedTo(fields, BookWires, i) THEN s = At(Book(<<>>), heap) ELSE s = Stop(Book(<<>>), heap)

\* One more field of AddressBook keeps the invariant of its loop.
LEMMA BookReadStep ==
  ASSUME NEW fields, NEW heap \in Nat, NEW i \in Nat, NEW s, BookRead(fields, heap, i, s)
  PROVE  BookRead(fields, heap, i + 1, BookField(s, fields[i + 1]))
<1> DEFINE f == fields[i + 1]
           OK(k) == TypedTo(fields, BookWires, k)
           m == Book(<<>>)
           t == BookField(s, f)
<1>1. OK(i + 1) <=> OK(i) /\ (f.num = 1 => f.wire = LEN)
  <2>1. DOMAIN BookWires = {1} /\ BookWires[1] = LEN
    BY DEF BookWires
  <2>2. OK(i + 1) <=> OK(i) /\ (f.num \in DOMAIN BookWires => f.wire = BookWires[f.num])
    BY TypedStep
  <2> HIDE DEF OK, f
  <2> QED
    BY <2>1, <2>2
<1>2. IF OK(i) THEN s = At(m, heap) ELSE s = Stop(m, heap)
  BY DEF BookRead
<1>3. SUFFICES IF OK(i + 1) THEN t = At(m, heap) ELSE t = Stop(m, heap)
  BY DEF BookRead
<1> HIDE DEF f, OK, m
<1>4. CASE ~OK(i)
  <2>1. s = Stop(m, heap) /\ s.aborted
    BY <1>2, <1>4 DEF Stop, State
  <2>2. t = s
    BY <2>1 DEF BookField
  <2> QED
    BY <1>1, <1>4, <2>1, <2>2
<1>5. CASE OK(i)
  <2>1. s = At(m, heap) /\ ~s.aborted
    BY <1>2, <1>5 DEF At, State, NotAborted
  <2>2. CASE f.num = 1
    <3>1. t = CountItem(At(m, heap), f)
      BY <2>1, <2>2 DEF BookField
    <3>2. Abort(At(m, heap)) = Stop(m, heap)
      BY AbortStops DEF At
    <3> HIDE DEF t
    <3> QED
      BY <1>1, <1>5, <2>2, <3>1, <3>2 DEF CountItem
  <2>3. CASE f.num # 1
    BY <1>1, <1>5, <2>1, <2>3 DEF BookField
  <2> QED
    BY <2>2, <2>3
<1> QED
  BY <1>4, <1>5

\* decode_inner of AddressBook, up to its people
LEMMA BookIsRead ==
  ASSUME NEW Sub, NEW fields \in FieldsOver(Sub), NEW heap \in Nat
  PROVE  LET read == FoldLeft(BookField, Start(BookInit, heap), fields)
         IN  IF Typed(fields, BookWires) THEN read = At(Book(<<>>), heap)
                                         ELSE read = Stop(Book(<<>>), heap)
<1> DEFINE n == Len(fields)
           base == Start(BookInit, heap)
           d == FoldLeft(BookField, base, fields)
<1>1. n \in Nat /\ fields \in Seq(FieldOver(Sub))
  BY FieldFacts
<1>2. d = BookLoop!Fold(0, base, fields)
  BY DEF BookLoop!Fold, BookStep, FoldLeft, MapThenFoldSet, Max,
         BookLoop!FoldLeft, BookLoop!MapThenFoldSet, BookLoop!Max
<1>3. PICK r : BookLoop!IsRun(0, base, fields, r) /\ d = r[n]
  BY <1>1, <1>2, BookLoop!FoldRun
<1>4. /\ r[0] = Start(BookInit, heap)
      /\ \A i \in 0..(n - 1) : r[i + 1] = BookField(r[i], fields[i + 1])
  BY <1>3 DEF BookLoop!IsRun, BookStep
<1> DEFINE S == {i \in 0..n : BookRead(fields, heap, i, r[i])}
<1>5. 0 \in S
  <2>1. TypedTo(fields, BookWires, 0)
    BY TypedNone
  <2>2. r[0] = At(Book(<<>>), heap)
    BY <1>4 DEF Start, BookInit, Book, At, State, NotAborted
  <2>3. BookRead(fields, heap, 0, r[0])
    BY <2>1, <2>2 DEF BookRead
  <2> QED
    BY <1>1, <2>3
<1>6. ASSUME NEW i \in 0..(n - 1), i \in S
      PROVE  i + 1 \in S
  BY <1>1, <1>4, <1>6, BookReadStep
<1>7. 0..n \subseteq S
  <2> HIDE DEF S, n
  <2> QED
    BY <1>1, <1>5, <1>6, UpTo
<1>8. BookRead(fields, heap, n, d)
  BY <1>1, <1>3, <1>7
<1>9. Typed(fields, BookWires) <=> TypedTo(fields, BookWires, n)
  BY <1>1, TypedIs
<1> HIDE DEF d, n
<1>10. IF Typed(fields, BookWires) THEN d = At(Book(<<>>), heap) ELSE d = Stop(Book(<<>>), heap)
  BY <1>8, <1>9 DEF BookRead
<1> QED
  BY <1>10 DEF d

PersonItemStep(people, s, i) == PutItem(s, "people", i, DecodePerson(people[i].sub, s.heap))
PersonItems == INSTANCE FoldProofs WITH Op <- PersonItemStep

\* Decoding of the people of a book, as ItemsRunEnds takes it
PersonDecoder(subs) ==
  [i \in 1..Len(subs) |-> [h \in Nat |-> DecodePerson(subs[i], h)]]

\* Decoding a book ends with a loop over its people.
LEMMA BookItemsRun ==
  ASSUME NEW fields \in BookFields, NEW heap \in Nat
  PROVE  LET subs == Subs(fields, 1)
             read == FoldLeft(BookField, Start(BookInit, heap), fields)
         IN  \E r : /\ r[0] = AllocRepeated(read, "people", Len(subs), PERSON_SIZE, PersonInit)
                    /\ IsItemsRun("people", Len(subs), PersonDecoder(subs), r)
                    /\ DecodeBook(fields, heap) = r[Len(subs)]
<1> DEFINE subs == Subs(fields, 1)
           n == Len(subs)
           people == Items(fields, 1)
           read == FoldLeft(BookField, Start(BookInit, heap), fields)
           base == AllocRepeated(read, "people", Len(people), PERSON_SIZE, PersonInit)
           seq == [i \in DOMAIN people |-> i]
<1>1. /\ subs \in Seq(PersonFields) /\ Len(people) = n /\ n \in Nat
      /\ \A i \in 1..n : subs[i] = people[i].sub
  BY SubsAreItems DEF BookFields
<1>2. people \in Seq(FieldOver(PersonFields))
  BY FieldFacts, ItemsPicked DEF BookFields, Picked
<1>3. DOMAIN people = 1..n
  <2> HIDE DEF n, people
  <2> QED
    BY <1>1, <1>2
<1>4. seq \in Seq(Nat) /\ Len(seq) = n /\ \A i \in 0..(n - 1) : seq[i + 1] = i + 1
  <2>1. seq = [i \in 1..n |-> i]
    BY <1>3
  <2> HIDE DEF seq, n
  <2> QED
    BY <1>1, <2>1
<1>5. DecodeBook(fields, heap) = PersonItems!Fold(people, base, seq)
  BY DEF DecodeBook, FoldLeftDomain, PersonItems!Fold, PersonItemStep, FoldLeft, MapThenFoldSet,
         Max, PersonItems!FoldLeft, PersonItems!MapThenFoldSet, PersonItems!Max
<1>6. PICK r : PersonItems!IsRun(people, base, seq, r) /\ DecodeBook(fields, heap) = r[n]
  BY <1>4, <1>5, PersonItems!FoldRun
<1>7. r[0] = base /\ \A i \in 0..(n - 1) : r[i + 1] = PersonItemStep(people, r[i], i + 1)
  BY <1>4, <1>6 DEF PersonItems!IsRun
<1>8. ASSUME NEW i \in 0..(n - 1)
      PROVE  /\ r[i].aborted => r[i + 1] = r[i]
             /\ r[i].heap \in Nat =>
                  r[i + 1] = PutItem(r[i], "people", i + 1, PersonDecoder(subs)[i + 1][r[i].heap])
  <2>1. r[i + 1] = PutItem(r[i], "people", i + 1, DecodePerson(subs[i + 1], r[i].heap))
    <3>1. i + 1 \in 1..n
      BY <1>1
    <3> QED
      BY <1>1, <1>7, <3>1 DEF PersonItemStep
  <2>2. ASSUME r[i].heap \in Nat
        PROVE  PersonDecoder(subs)[i + 1][r[i].heap] = DecodePerson(subs[i + 1], r[i].heap)
    BY <1>1, <2>2 DEF PersonDecoder
  <2>3. r[i].aborted => r[i + 1] = r[i]
    BY <2>1 DEF PutItem
  <2> QED
    BY <2>1, <2>2, <2>3
<1>9. IsItemsRun("people", n, PersonDecoder(subs), r)
  BY <1>8 DEF IsItemsRun
<1> QED
  BY <1>1, <1>6, <1>7, <1>9

PersonNeeds(subs)    == [k \in 1..Len(subs) |-> PersonTakes(subs[k])]
PersonMeanings(subs) == [k \in 1..Len(subs) |-> PersonMeaning(subs[k])]
GoodPeople(subs)     == {k \in 1..Len(subs) : PersonTyped(subs[k])}

\* Each person is decoded to its meaning exactly if it is typed and has its
\* room.
LEMMA PeopleDecode ==
  ASSUME NEW subs \in Seq(PersonFields)
  PROVE  /\ PersonNeeds(subs) \in Seq(Nat) /\ Len(PersonNeeds(subs)) = Len(subs)
         /\ \A k \in 1..Len(subs) : PersonNeeds(subs)[k] \in Nat
         /\ IsDecoder(Len(subs), PersonDecoder(subs), GoodPeople(subs), PersonNeeds(subs),
                      PersonMeanings(subs))
<1> DEFINE n == Len(subs)
<1>1. n \in Nat /\ \A k \in 1..n : subs[k] \in PersonFields
  OBVIOUS
<1>2. ASSUME NEW k \in 1..n
      PROVE  PersonNeeds(subs)[k] = PersonTakes(subs[k]) /\ PersonTakes(subs[k]) \in Nat
  <2>1. 0 \in Nat /\ subs[k] \in PersonFields
    BY <1>1
  <2>2. PersonTakes(subs[k]) \in Nat
    BY <2>1, PersonDecoded
  <2> QED
    BY <2>2 DEF PersonNeeds
<1>3. PersonNeeds(subs) \in Seq(Nat) /\ Len(PersonNeeds(subs)) = n
  <2>1. PersonNeeds(subs) = [k \in 1..n |-> PersonTakes(subs[k])]
    BY DEF PersonNeeds
  <2>2. \A k \in 1..n : PersonTakes(subs[k]) \in Nat
    BY <1>2
  <2> HIDE DEF n
  <2> QED
    BY <1>1, <2>1, <2>2
<1>4. ASSUME NEW k \in 1..n, NEW h \in Nat
      PROVE  IF k \in GoodPeople(subs) /\ PersonNeeds(subs)[k] <= h
             THEN PersonDecoder(subs)[k][h] = At(PersonMeanings(subs)[k], h - PersonNeeds(subs)[k])
             ELSE PersonDecoder(subs)[k][h].aborted = TRUE
  <2>1. IF PersonTyped(subs[k]) /\ PersonTakes(subs[k]) <= h
        THEN DecodePerson(subs[k], h) = At(PersonMeaning(subs[k]), h - PersonTakes(subs[k]))
        ELSE DecodePerson(subs[k], h).aborted = TRUE
    BY <1>1, PersonDecoded
  <2>2. /\ PersonDecoder(subs)[k][h] = DecodePerson(subs[k], h)
        /\ PersonMeanings(subs)[k] = PersonMeaning(subs[k])
        /\ k \in GoodPeople(subs) <=> PersonTyped(subs[k])
    BY DEF PersonDecoder, PersonMeanings, GoodPeople
  <2> QED
    BY <1>2, <2>1, <2>2
<1> QED
  BY <1>2, <1>3, <1>4 DEF IsDecoder

\* What a book needs is the structs of its people and what decoding them takes.
LEMMA BookNeedIs ==
  ASSUME NEW fields \in BookFields
  PROVE  LET subs == Subs(fields, 1)
         IN  BookNeed(fields) = Len(subs) * PERSON_SIZE + Sum(PersonNeeds(subs))
<1> DEFINE subs == Subs(fields, 1)
           n == Len(subs)
           takes == PersonNeeds(subs)
           needs == [k \in DOMAIN subs |-> PersonNeed(subs[k])]
<1>1. subs \in Seq(PersonFields)
  BY SubsAreItems DEF BookFields
<1>2. /\ n \in Nat /\ DOMAIN subs = 1..n /\ takes \in Seq(Nat) /\ Len(takes) = n
      /\ \A k \in 1..n : takes[k] \in Nat
  BY <1>1, PeopleDecode
<1>3. \A k \in 1..n : PersonNeed(subs[k]) = PERSON_SIZE + takes[k]
  BY <1>1, PersonNeedIs DEF PersonNeeds
<1>4. needs = [k \in 1..n |-> PERSON_SIZE + takes[k]]
  BY <1>2, <1>3
<1>5. needs \in Seq(Nat) /\ Len(needs) = n /\ \A k \in 1..n : needs[k] = PERSON_SIZE + takes[k]
  <2> HIDE DEF needs, n, takes
  <2> QED
    BY <1>2, <1>4, Sizes
<1>6. Sum(needs) = n * PERSON_SIZE + Sum(takes)
  <2> HIDE DEF needs, n, takes
  <2> QED
    BY <1>2, <1>5, Sizes, SumShift
<1>7. BookNeed(fields) = Sum(needs)
  BY DEF BookNeed
<1> QED
  BY <1>6, <1>7

\* What is left of a book that was not decoded to its end, people being of it:
\* persons as they mean, then at most one in part, then persons as init leaves
\* them.
BookPartial(fields, people) ==
  LET full == BookMeaning(fields).people
  IN  \/ people = <<>>
      \/ /\ Len(people) = Len(full) /\ DOMAIN people = 1..Len(full)
         /\ \E k \in DOMAIN people :
              /\ \A i \in 1..(k - 1) : people[i] = full[i]
              /\ \A i \in (k + 1)..Len(people) : people[i] = PersonInit
              /\ PersonPartial(Subs(fields, 1)[k], people[k])

\* With room for the structs of all people the loop over them is entered.
LEMMA BookItemsRead ==
  ASSUME NEW fields \in BookFields, NEW heap \in Nat, Typed(fields, BookWires),
         NEW room, IsRoom(room, Len(Subs(fields, 1)), PERSON_SIZE), room <= heap
  PROVE  LET subs == Subs(fields, 1)
             n == Len(subs)
             need == PersonNeeds(subs)
         IN  \E t : /\ IsTotals(n, need, t) /\ Sum(need) = t[n]
                    /\ ItemsRead(Book(<<>>), "people", n, PersonDecoder(subs), GoodPeople(subs),
                                 t, PersonMeanings(subs), PersonInit, heap - room, n,
                                 DecodeBook(fields, heap))
<1> DEFINE subs == Subs(fields, 1)
           n == Len(subs)
           D == PersonDecoder(subs)
           good == GoodPeople(subs)
           need == PersonNeeds(subs)
           mean == PersonMeanings(subs)
           read == FoldLeft(BookField, Start(BookInit, heap), fields)
           d == DecodeBook(fields, heap)
           none == Book(<<>>)
           rest == heap - room
<1>1. subs \in Seq(PersonFields) /\ n \in Nat
  BY SubsAreItems DEF BookFields
<1>2. /\ need \in Seq(Nat) /\ Len(need) = n /\ \A k \in 1..n : need[k] \in Nat
      /\ IsDecoder(n, D, good, need, mean)
  BY <1>1, PeopleDecode
<1>3. PICK t : IsSums(need, t) /\ Sum(need) = t[n]
  BY <1>2, SumRun
<1>4. IsTotals(n, need, t)
  BY <1>1, <1>2, <1>3 DEF IsSums, IsTotals
<1>5. PICK r : /\ r[0] = AllocRepeated(read, "people", n, PERSON_SIZE, PersonInit)
               /\ IsItemsRun("people", n, D, r)
               /\ d = r[n]
  BY BookItemsRun
<1>6. read = At(none, heap)
  BY BookIsRead DEF BookFields
<1>7. rest \in Nat
  BY DEF IsRoom
<1>8. "people" \in DOMAIN none /\ none = [x \in DOMAIN none |-> none[x]]
  BY DEF Book
<1>9. IsRoom(room, n, PERSON_SIZE)
  OBVIOUS
<1> HIDE DEF D, good, need, mean, read, d, none, n
<1>10. r[0] = At(With(none, "people", Filled(n, mean, PersonInit, 0)), rest)
  <2>1. AllocRepeated(read, "people", n, PERSON_SIZE, PersonInit) =
          At(With(none, "people", Filled(n, mean, PersonInit, 0)), heap - room)
    BY <1>1, <1>6, <1>9, Sizes, AllocAt
  <2> QED
    BY <1>5, <2>1
<1> HIDE DEF rest
<1>11. ItemsRead(none, "people", n, D, good, t, mean, PersonInit, rest, n, d)
  BY <1>1, <1>2, <1>4, <1>5, <1>7, <1>8, <1>10, ItemsRunEnds
<1> QED
  BY <1>3, <1>4, <1>11 DEF D, good, need, mean, d, none, n, rest

\* A book is its people.
LEMMA OneBook == \A x : With(Book(<<>>), "people", x) = Book(x)
BY DEF With, Book

\* decode_inner of AddressBook
LEMMA BookDecoded ==
  ASSUME NEW fields \in BookFields, NEW heap \in Nat
  PROVE  LET d == DecodeBook(fields, heap)
         IN  /\ BookNeed(fields) \in Nat
             /\ IF BookTyped(fields) /\ BookNeed(fields) <= heap
                THEN d = At(BookMeaning(fields), heap - BookNeed(fields))
                ELSE d.aborted = TRUE /\ BookPartial(fields, d.msg.people)
<1> DEFINE subs == Subs(fields, 1)
           n == Len(subs)
           D == PersonDecoder(subs)
           good == GoodPeople(subs)
           need == PersonNeeds(subs)
           sum == Sum(need)
           mean == PersonMeanings(subs)
           read == FoldLeft(BookField, Start(BookInit, heap), fields)
           d == DecodeBook(fields, heap)
           room == n * PERSON_SIZE
           typed == Typed(fields, BookWires)
           none == Book(<<>>)
<1>1. subs \in Seq(PersonFields) /\ n \in Nat /\ DOMAIN subs = 1..n
  BY SubsAreItems DEF BookFields
<1>2. sum \in Nat
  BY <1>1, PeopleDecode, SumMonotone
<1>3. PICK r : /\ r[0] = AllocRepeated(read, "people", n, PERSON_SIZE, PersonInit)
               /\ IsItemsRun("people", n, D, r)
               /\ d = r[n]
  BY BookItemsRun
<1>4. IF typed THEN read = At(none, heap) ELSE read = Stop(none, heap)
  BY BookIsRead DEF BookFields
<1>5. room \in Nat /\ PERSON_SIZE \in Nat
  BY <1>1, Sizes
<1>6. IsRoom(room, n, PERSON_SIZE)
  BY <1>5 DEF IsRoom
<1>7. BookNeed(fields) = room + sum /\ BookNeed(fields) \in Nat
  <2>1. BookNeed(fields) = room + sum
    BY BookNeedIs
  <2> HIDE DEF room, sum
  <2> QED
    BY <1>2, <1>5, <2>1
<1>8. BookTyped(fields) <=> typed /\ 1..n \subseteq good
  BY <1>1 DEF BookTyped, BookWires, GoodPeople
<1>9. BookMeaning(fields) = Book(Filled(n, mean, PersonInit, n))
  <2>1. Filled(n, mean, PersonInit, n) = [k \in DOMAIN subs |-> PersonMeaning(subs[k])]
    BY <1>1 DEF Filled, PersonMeanings
  <2> QED
    BY <2>1 DEF BookMeaning, Book
<1>10. SUFFICES IF typed /\ 1..n \subseteq good /\ room + sum <= heap
                THEN d = At(BookMeaning(fields), heap - (room + sum))
                ELSE d.aborted = TRUE /\ BookPartial(fields, d.msg.people)
  BY <1>7, <1>8
<1>11. \A h : Stop(none, h).aborted = TRUE /\ BookPartial(fields, Stop(none, h).msg.people)
  BY DEF Stop, State, BookPartial, Book
<1>12. ASSUME NEW k \in 1..n, NEW h \in Nat, D[k][h].aborted = TRUE
       PROVE  PersonPartial(subs[k], D[k][h].msg)
  <2>1. D[k][h] = DecodePerson(subs[k], h) /\ subs[k] \in PersonFields
    BY <1>1 DEF PersonDecoder
  <2>2. IF PersonTyped(subs[k]) /\ PersonTakes(subs[k]) <= h
        THEN DecodePerson(subs[k], h) = At(PersonMeaning(subs[k]), h - PersonTakes(subs[k]))
        ELSE /\ DecodePerson(subs[k], h).aborted = TRUE
             /\ PersonPartial(subs[k], DecodePerson(subs[k], h).msg)
    BY <2>1, PersonDecoded
  <2>3. \A msg, rest : ~At(msg, rest).aborted
    BY DEF At, State, NotAborted
  <2> HIDE DEF D, subs
  <2> QED
    BY <1>12, <2>1, <2>2, <2>3
<1>13. ASSUME typed, room <= heap
       PROVE  \E t : /\ IsTotals(n, need, t) /\ sum = t[n]
                     /\ ItemsRead(none, "people", n, D, good, t, mean, PersonInit, heap - room,
                                  n, d)
  BY <1>6, <1>13, BookItemsRead
<1> HIDE DEF D, good, need, sum, mean, read, d, room, typed
<1>14. CASE ~typed
  <2>1. r[0] = Stop(none, heap) /\ Stop(none, heap).aborted
    BY <1>3, <1>4, <1>14, AllocStopped DEF Stop, State
  <2>2. d = Stop(none, heap)
    <3> HIDE DEF n
    <3> QED
      BY <1>1, <1>3, <2>1, StoppedRun
  <2> QED
    BY <1>11, <1>14, <2>2
<1>15. CASE typed /\ ~(room <= heap)
  <2>1. r[0] = Stop(none, heap) /\ Stop(none, heap).aborted
    <3>1. read = At(none, heap)
      BY <1>4, <1>15
    <3> HIDE DEF none, n
    <3>2. AllocRepeated(read, "people", n, PERSON_SIZE, PersonInit) = Stop(none, heap)
      BY <1>1, <1>5, <1>6, <1>15, <3>1, AllocFull
    <3> QED
      BY <1>3, <3>2 DEF Stop, State
  <2>2. d = Stop(none, heap)
    <3> HIDE DEF n, none
    <3> QED
      BY <1>1, <1>3, <2>1, StoppedRun
  <2>3. ~(room + sum <= heap)
    BY <1>2, <1>5, <1>15
  <2> QED
    BY <1>11, <2>2, <2>3
<1>16. CASE typed /\ room <= heap
  <2> DEFINE h2 == heap - room
  <2>1. PICK t : /\ IsTotals(n, need, t) /\ sum = t[n]
                 /\ ItemsRead(none, "people", n, D, good, t, mean, PersonInit, h2, n, d)
    BY <1>13, <1>16
  <2>2. Fit(good, t, h2, n) <=> 1..n \subseteq good /\ room + sum <= heap
    <3>1. t[n] <= h2 <=> room + sum <= heap
      BY <1>2, <1>5, <2>1
    <3> HIDE DEF n, h2
    <3> QED
      BY <3>1 DEF Fit
  <2>3. CASE Fit(good, t, h2, n)
    <3>1. d = At(BookMeaning(fields), h2 - t[n])
      BY <1>9, <2>1, <2>3, OneBook DEF ItemsRead
    <3>2. h2 - t[n] = heap - (room + sum)
      BY <1>2, <1>5, <2>1
    <3> QED
      BY <1>16, <2>2, <2>3, <3>1, <3>2
  <2>4. CASE ~Fit(good, t, h2, n)
    <3>1. PICK k \in 1..n, h \in Nat : \E rest :
            /\ D[k][h].aborted = TRUE
            /\ d = Stop(With(none, "people", Partly(n, mean, PersonInit, k, D[k][h].msg)), rest)
      BY <2>1, <2>4 DEF ItemsRead
    <3> DEFINE part == D[k][h].msg
               people == Partly(n, mean, PersonInit, k, part)
               full == Filled(n, mean, PersonInit, n)
    <3>2. PersonPartial(subs[k], part)
      BY <1>12, <3>1
    <3>3. \E rest : d = Stop(Book(people), rest)
      BY <3>1, OneBook
    <3> HIDE DEF part
    <3>4. /\ Len(people) = n /\ DOMAIN people = 1..n /\ people[k] = part
          /\ \A i \in 1..(k - 1) : people[i] = full[i]
          /\ \A i \in (k + 1)..n : people[i] = PersonInit
      <4> HIDE DEF n
      <4> QED
        BY <1>1 DEF Partly, Filled
    <3>5. BookMeaning(fields).people = full /\ Len(full) = n
      <4>1. BookMeaning(fields).people = full
        BY <1>9 DEF Book
      <4>2. Len(full) = n
        <5> HIDE DEF n
        <5> QED
          BY <1>1 DEF Filled
      <4> QED
        BY <4>1, <4>2
    <3> HIDE DEF people, full, n
    <3>6. BookPartial(fields, people)
      BY <3>2, <3>4, <3>5 DEF BookPartial
    <3>7. d.aborted = TRUE /\ d.msg.people = people
      BY <3>3 DEF Stop, State, Book
    <3> QED
      BY <2>2, <2>4, <3>6, <3>7
  <2> QED
    BY <2>3, <2>4
<1> QED
  BY <1>14, <1>15, <1>16

\* If there is room for the structs of all people and for what the first takes,
\* the first is there, whatever becomes of the others.
LEMMA FirstDecoded ==
  ASSUME NEW fields \in BookFields, NEW heap \in Nat, Typed(fields, BookWires),
         Len(Subs(fields, 1)) >= 1, PersonTyped(Subs(fields, 1)[1]),
         NEW room, IsRoom(room, Len(Subs(fields, 1)), PERSON_SIZE),
         room + PersonTakes(Subs(fields, 1)[1]) <= heap
  PROVE  LET people == DecodeBook(fields, heap).msg.people
         IN  people # <<>> /\ people[1] = PersonMeaning(Subs(fields, 1)[1])
<1> DEFINE subs == Subs(fields, 1)
           n == Len(subs)
           D == PersonDecoder(subs)
           good == GoodPeople(subs)
           need == PersonNeeds(subs)
           mean == PersonMeanings(subs)
           d == DecodeBook(fields, heap)
           none == Book(<<>>)
           rest == heap - room
<1>1. subs \in Seq(PersonFields) /\ n \in Nat /\ 1 \in 1..n /\ 0 \in 0..(n - 1)
  BY SubsAreItems DEF BookFields
<1>2. /\ need[1] = PersonTakes(subs[1]) /\ need[1] \in Nat
      /\ mean[1] = PersonMeaning(subs[1]) /\ 1 \in good
  BY <1>1, PeopleDecode DEF PersonNeeds, PersonMeanings, GoodPeople
<1>3. room \in Nat /\ room <= heap /\ rest \in Nat /\ need[1] <= rest
  BY <1>2 DEF IsRoom
<1>4. PICK t : /\ IsTotals(n, need, t)
               /\ ItemsRead(none, "people", n, D, good, t, mean, PersonInit, rest, n, d)
  BY <1>3, BookItemsRead
<1>5. Fit(good, t, rest, 1)
  <2>1. t[0] = 0 /\ t[0 + 1] = t[0] + need[0 + 1]
    BY <1>1, <1>4 DEF IsTotals
  <2>2. t[1] = need[1] /\ 1..1 = {1}
    BY <1>2, <2>1
  <2> QED
    BY <1>2, <1>3, <2>2 DEF Fit
<1> HIDE DEF D, good, need, d
<1>6. CASE Fit(good, t, rest, n)
  <2>1. d = At(Book(Filled(n, mean, PersonInit, n)), rest - t[n])
    BY <1>4, <1>6, OneBook DEF ItemsRead
  <2>2. d.msg.people = Filled(n, mean, PersonInit, n)
    BY <2>1 DEF At, State, Book
  <2> HIDE DEF mean, n
  <2> QED
    BY <1>1, <1>2, <2>2 DEF Filled, d
<1>7. CASE ~Fit(good, t, rest, n)
  <2>1. PICK k \in 1..n, h \in Nat : \E left :
          /\ ~Fit(good, t, rest, k)
          /\ d = Stop(With(none, "people", Partly(n, mean, PersonInit, k, D[k][h].msg)), left)
    BY <1>4, <1>7 DEF ItemsRead
  <2>2. k # 1
    BY <1>5, <2>1
  <2>3. \E left : d = Stop(Book(Partly(n, mean, PersonInit, k, D[k][h].msg)), left)
    BY <2>1, OneBook
  <2>4. d.msg.people = Partly(n, mean, PersonInit, k, D[k][h].msg)
    BY <2>3 DEF Stop, State, Book
  <2> HIDE DEF mean, n
  <2> QED
    BY <1>1, <1>2, <2>2, <2>4 DEF Partly, d
<1> QED
  BY <1>6, <1>7

-----------------------------------------------------------------------------
\* Encoding: what is written after the fields s

Lacks(s, num) == \A i \in DOMAIN s : s[i].num # num

\* The encoding of a message of default values is empty, and typed.
LEMMA NoFields ==
  ASSUME NEW Sub
  PROVE  /\ <<>> \in FieldsOver(Sub)
         /\ \A num : Lacks(<<>>, num) /\ Value(<<>>, num) = 0
         /\ \A nums : Occurrences(<<>>, nums) = 0
         /\ \A wires : Typed(<<>>, wires)
<1>1. <<>> \in FieldsOver(Sub)
  BY DEF FieldsOver
<1>2. DOMAIN <<>> = {}
  OBVIOUS
<1>3. \A num : Lacks(<<>>, num) /\ Value(<<>>, num) = 0
  BY <1>2 DEF Lacks, Value
<1>4. \A nums : Occurrences(<<>>, nums) = 0
  BY <1>2, FS_EmptySet DEF Occurrences
<1>5. \A wires : Typed(<<>>, wires)
  BY <1>2 DEF Typed
<1> QED
  BY <1>1, <1>3, <1>4, <1>5

\* e is s and behind it a scalar field, of which nothing is written if it has
\* its default value.
Appended(Sub, s, e, num, wire, val) ==
  /\ e \in FieldsOver(Sub)
  /\ \A k : k # num => Value(e, k) = Value(s, k)
  /\ Lacks(s, num) => Value(e, num) = val
  /\ \A nums : Occurrences(e, nums) =
                 Occurrences(s, nums) + (IF val # 0 /\ num \in nums THEN 1 ELSE 0)
  /\ \A wires : Typed(s, wires) /\ (num \in DOMAIN wires => wires[num] = wire)
                  => Typed(e, wires)
  /\ \A k : k # num /\ Lacks(s, k) => Lacks(e, k)

\* A field written behind a message, or left out for its default value.
LEMMA EncodeAppends ==
  ASSUME NEW Sub, <<>> \in Sub, NEW s \in FieldsOver(Sub),
         NEW num \in Nat, NEW wire \in {VARINT, I64, LEN, I32}, NEW val \in Int
  PROVE  Appended(Sub, s, s \o EncodeScalar(num, wire, val), num, wire, val)
<1> DEFINE e == s \o EncodeScalar(num, wire, val)
           n == Len(s)
           f == Scalar(num, wire, val)
<1>1. s \in Seq(FieldOver(Sub)) /\ n \in Nat /\ DOMAIN s = 1..n
  BY FieldFacts
<1>2. \A nums : Occurrences(s, nums) \in Nat
  BY <1>1, OccurrencesAre, CountNat
<1>3. ASSUME Lacks(s, num)
      PROVE  Value(s, num) = 0
  BY <1>3 DEF Lacks, Value
<1>4. CASE val = 0
  <2>1. e = s
    BY <1>1, <1>4 DEF EncodeScalar
  <2>2. \A nums : Occurrences(s, nums) = Occurrences(s, nums) + 0
    BY <1>2
  <2> HIDE DEF e
  <2>3. /\ e \in FieldsOver(Sub)
        /\ \A k : k # num => Value(e, k) = Value(s, k)
        /\ Lacks(s, num) => Value(e, num) = val
        /\ \A nums : Occurrences(e, nums) =
                       Occurrences(s, nums) + (IF val # 0 /\ num \in nums THEN 1 ELSE 0)
        /\ \A wires : Typed(s, wires) => Typed(e, wires)
        /\ \A k : Lacks(s, k) => Lacks(e, k)
    BY <1>3, <1>4, <2>1, <2>2
  <2> QED
    BY <2>3 DEF e, Appended
<1>5. CASE val # 0
  <2>1. f \in FieldOver(Sub) /\ f.num = num /\ f.val = val /\ f.wire = wire
    BY DEF Scalar, FieldOver
  <2>2. e = s \o <<f>>
    BY <1>5 DEF EncodeScalar
  <2> HIDE DEF f, e
  <2>3. /\ e \in Seq(FieldOver(Sub)) /\ Len(e) = n + 1 /\ DOMAIN e = 1..(n + 1) /\ e[n + 1] = f
        /\ \A i \in 1..n : e[i] = s[i]
    BY <1>1, <2>1, <2>2
  <2>4. e \in FieldsOver(Sub)
    BY <2>3 DEF FieldsOver, FieldOver
  <2>5. ASSUME NEW nums
        PROVE  CountTo(e, nums, n) = CountTo(s, nums, n)
    <3>1. {j \in 1..n : e[j].num \in nums} = {j \in 1..n : s[j].num \in nums}
      BY <2>3
    <3> QED
      BY <3>1 DEF CountTo
  <2>6. ASSUME NEW k
        PROVE  ValueTo(e, k, n) = ValueTo(s, k, n)
    <3> DEFINE found == {j \in 1..n : s[j].num = k}
    <3>1. {j \in 1..n : e[j].num = k} = found
      BY <2>3
    <3>2. found # {} => Max(found) \in 1..n
      <4>1. found \in SUBSET (1..n)
        OBVIOUS
      <4> HIDE DEF found
      <4> QED
        BY <1>1, <4>1, MaxOf
    <3>3. found # {} => e[Max(found)] = s[Max(found)]
      BY <2>3, <3>2
    <3> QED
      BY <3>1, <3>3 DEF ValueTo
  <2>7. \A k : Value(e, k) = IF num = k THEN val ELSE Value(s, k)
    <3>1. ASSUME NEW k
          PROVE  Value(e, k) = IF num = k THEN val ELSE Value(s, k)
      <4>1. Value(e, k) = ValueTo(e, k, n + 1) /\ Value(s, k) = ValueTo(s, k, n)
        BY <1>1, <2>3, ValueIs
      <4>2. ValueTo(e, k, n + 1) = IF num = k THEN val ELSE ValueTo(e, k, n)
        BY <1>1, <2>1, <2>3, ValueStep
      <4> QED
        BY <2>6, <4>1, <4>2
    <3> QED
      BY <3>1
  <2>8. \A nums : Occurrences(e, nums) = Occurrences(s, nums) + (IF num \in nums THEN 1 ELSE 0)
    <3>1. ASSUME NEW nums
          PROVE  Occurrences(e, nums) = Occurrences(s, nums) + (IF num \in nums THEN 1 ELSE 0)
      <4>1. /\ Occurrences(e, nums) = CountTo(e, nums, n + 1)
            /\ Occurrences(s, nums) = CountTo(s, nums, n)
        BY <1>1, <2>3, OccurrencesAre
      <4>2. CountTo(e, nums, n + 1) = CountTo(e, nums, n) + (IF num \in nums THEN 1 ELSE 0)
        BY <1>1, <2>1, <2>3, CountStep
      <4> QED
        BY <2>5, <4>1, <4>2
    <3> QED
      BY <3>1
  <2>9. \A i \in DOMAIN e : i \in DOMAIN s \/ i = n + 1
    BY <1>1, <2>3
  <2>10. ASSUME NEW wires, Typed(s, wires), num \in DOMAIN wires => wires[num] = wire
         PROVE  Typed(e, wires)
    BY <1>1, <2>1, <2>3, <2>9, <2>10 DEF Typed
  <2>11. ASSUME NEW k, k # num, Lacks(s, k)
         PROVE  Lacks(e, k)
    BY <1>1, <2>1, <2>3, <2>9, <2>11 DEF Lacks
  <2> QED
    BY <1>5, <2>4, <2>7, <2>8, <2>10, <2>11 DEF e, Appended
<1> QED
  BY <1>4, <1>5

\* e is s and behind it the items of a repeated field that s lacks.
AppendedItems(Sub, s, e, num, subs) ==
  /\ e \in FieldsOver(Sub)
  /\ \A k : k # num => Value(e, k) = Value(s, k)
  /\ \A nums : num \notin nums => Occurrences(e, nums) = Occurrences(s, nums)
  /\ \A wires : Typed(s, wires) /\ (num \in DOMAIN wires => wires[num] = LEN) => Typed(e, wires)
  /\ Subs(e, num) = subs

\* The items written behind a message that has none.
LEMMA EncodeAppendsItems ==
  ASSUME NEW Sub, NEW s \in FieldsOver(Sub), NEW num \in Nat, NEW subs \in Seq(Sub),
         Lacks(s, num)
  PROVE  AppendedItems(Sub, s, s \o EncodeRepeated(num, subs), num, subs)
<1> DEFINE rep == EncodeRepeated(num, subs)
           e == s \o rep
           q == Len(s)
           m == Len(subs)
<1>1. /\ s \in Seq(FieldOver(Sub)) /\ q \in Nat /\ DOMAIN s = 1..q
      /\ m \in Nat /\ DOMAIN subs = 1..m /\ \A i \in 1..m : subs[i] \in Sub
  BY FieldFacts
<1>2. \A i \in 1..m : /\ Embedded(num, subs[i]) \in FieldOver(Sub)
                      /\ Embedded(num, subs[i]).num = num
                      /\ Embedded(num, subs[i]).wire = LEN
                      /\ Embedded(num, subs[i]).sub = subs[i]
  BY <1>1 DEF Embedded, FieldOver
<1>3. rep = [i \in 1..m |-> Embedded(num, subs[i])]
  BY <1>1 DEF EncodeRepeated
<1>4. rep \in Seq(FieldOver(Sub)) /\ Len(rep) = m /\ \A i \in 1..m : rep[i] = Embedded(num, subs[i])
  <2> HIDE DEF rep, m
  <2> QED
    BY <1>1, <1>2, <1>3
<1> HIDE DEF rep
<1>5. /\ e \in Seq(FieldOver(Sub)) /\ DOMAIN e = 1..(q + m)
      /\ \A i \in 1..q : e[i] = s[i]
      /\ \A i \in 1..m : e[q + i] = rep[i]
  BY <1>1, <1>4
<1>6. e \in FieldsOver(Sub)
  BY <1>5 DEF FieldsOver, FieldOver
<1>7. \A i \in 1..m : e[q + i].num = num /\ e[q + i].wire = LEN /\ e[q + i].sub = subs[i]
  BY <1>2, <1>4, <1>5
<1>8. \A j \in (q + 1)..(q + m) : j - q \in 1..m /\ j = q + (j - q)
  BY <1>1
<1>9. \A j \in (q + 1)..(q + m) : e[j].num = num /\ e[j].wire = LEN
  <2> HIDE DEF e, q, m
  <2> QED
    BY <1>7, <1>8
<1>10. DOMAIN e = 1..q \cup (q + 1)..(q + m) /\ 1..q \cap (q + 1)..(q + m) = {}
  <2> HIDE DEF e, q, m
  <2> QED
    BY <1>1, <1>5
<1>11. \A i \in 1..q : e[i] = s[i] /\ e[i].num # num
  BY <1>1, <1>5 DEF Lacks
<1> HIDE DEF e, q, m
<1>12. ASSUME NEW k, k # num
       PROVE  Value(e, k) = Value(s, k)
  <2> DEFINE found == {i \in 1..q : s[i].num = k}
  <2>1. {i \in DOMAIN e : e[i].num = k} = found
    BY <1>9, <1>10, <1>11, <1>12
  <2>2. found # {} => Max(found) \in 1..q
    <3>1. found \in SUBSET (1..q)
      OBVIOUS
    <3> HIDE DEF found
    <3> QED
      BY <1>1, <3>1, MaxOf
  <2>3. found # {} => e[Max(found)] = s[Max(found)]
    BY <1>11, <2>2
  <2> QED
    BY <1>1, <2>1, <2>3 DEF Value
<1>13. ASSUME NEW nums, num \notin nums
       PROVE  Occurrences(e, nums) = Occurrences(s, nums)
  <2>1. {i \in DOMAIN e : e[i].num \in nums} = {i \in DOMAIN s : s[i].num \in nums}
    BY <1>1, <1>9, <1>10, <1>11, <1>13
  <2> QED
    BY <2>1 DEF Occurrences
<1>14. ASSUME NEW wires, Typed(s, wires), num \in DOMAIN wires => wires[num] = LEN
       PROVE  Typed(e, wires)
  BY <1>1, <1>9, <1>10, <1>11, <1>14 DEF Typed
<1>15. Subs(e, num) = subs
  <2> DEFINE found == {i \in DOMAIN e : e[i].num = num}
             nth(k) == CHOOSE i \in found : Cardinality({j \in found : j <= i}) = k
  <2>1. found = (q + 1)..(q + m)
    BY <1>9, <1>10, <1>11
  <2>2. ASSUME NEW i \in 0..m
        PROVE  Cardinality({j \in found : j <= q + i}) = i
    <3>1. {j \in found : j <= q + i} = (q + 1)..(q + i)
      BY <1>1, <2>1
    <3>2. q + 1 \in Int /\ q + i \in Int
      BY <1>1
    <3>3. Cardinality((q + 1)..(q + i)) =
            IF q + 1 > q + i THEN 0 ELSE (q + i) - (q + 1) + 1
      BY <3>2, FS_Interval
    <3>4. (IF q + 1 > q + i THEN 0 ELSE (q + i) - (q + 1) + 1) = i
      BY <1>1
    <3> HIDE DEF found
    <3> QED
      BY <3>1, <3>3, <3>4
  <2>3. Cardinality(found) = m
    <3>1. {j \in found : j <= q + m} = found
      BY <1>1, <2>1
    <3> QED
      BY <1>1, <2>2, <3>1
  <2>4. ASSUME NEW k \in 1..m
        PROVE  e[nth(k)].sub = subs[k]
    <3>1. q + k \in found /\ Cardinality({j \in found : j <= q + k}) = k
      <4>1. k \in 0..m /\ q + k \in (q + 1)..(q + m)
        BY <1>1
      <4> HIDE DEF found
      <4> QED
        BY <2>1, <2>2, <4>1
    <3>2. nth(k) \in found /\ Cardinality({j \in found : j <= nth(k)}) = k
      <4> HIDE DEF found
      <4> QED
        BY <3>1
    <3>3. nth(k) - q \in 0..m /\ nth(k) = q + (nth(k) - q)
      <4> HIDE DEF nth, found
      <4> QED
        BY <1>1, <2>1, <3>2
    <3>4. nth(k) - q = k
      <4> DEFINE i == nth(k) - q
      <4>1. Cardinality({j \in found : j <= q + i}) = i
        <5> HIDE DEF i, found
        <5> QED
          BY <2>2, <3>3 DEF i
      <4> HIDE DEF nth
      <4> QED
        BY <3>2, <3>3, <4>1
    <3>5. nth(k) = q + k
      BY <3>3, <3>4
    <3> QED
      BY <1>7, <3>5
  <2>5. Subs(e, num) = [k \in 1..m |-> e[nth(k)].sub]
    BY <2>3 DEF Subs
  <2>6. subs = [k \in 1..m |-> subs[k]]
    BY <1>1
  <2> HIDE DEF nth
  <2> QED
    BY <2>4, <2>5, <2>6
<1> QED
  BY <1>6, <1>12, <1>13, <1>14, <1>15 DEF e, rep, AppendedItems

-----------------------------------------------------------------------------
\* Encoding: the messages

\* What a string that has to be written counts
Given(val) == IF val = 0 THEN 0 ELSE 1

\* A field is written once or not.
LEMMA GivenNat == \A val : Given(val) \in Nat
BY DEF Given

\* encode_inner of Foo
LEMMA FooEncoded ==
  ASSUME NEW wire \in {VARINT, I64, LEN, I32}, NEW foo, foo.bar \in Int
  PROVE  LET e == EncodeFoo(wire, foo)
         IN  e \in ScalarFields /\ Typed(e, <<wire>>) /\ Value(e, 1) = foo.bar
<1> DEFINE Sub == {<<>>}
           none == <<>>
           bar == foo.bar
           e == none \o EncodeScalar(1, wire, bar)
<1>1. none \in FieldsOver(Sub) /\ Lacks(none, 1) /\ \A wires : Typed(none, wires)
  BY NoFields
<1>2. Appended(Sub, none, e, 1, wire, bar)
  <2>1. <<>> \in Sub /\ bar \in Int
    OBVIOUS
  <2> HIDE DEF Sub, none, bar
  <2> QED
    BY <1>1, <2>1, EncodeAppends DEF none
<1>3. DOMAIN <<wire>> = {1} /\ <<wire>>[1] = wire
  OBVIOUS
<1>4. EncodeFoo(wire, foo) = e
  BY DEF EncodeFoo, EncodeScalar
<1> HIDE DEF e
<1>5. e \in FieldsOver(Sub) /\ Typed(e, <<wire>>) /\ Value(e, 1) = bar
  BY <1>1, <1>2, <1>3 DEF Appended
<1> QED
  BY <1>4, <1>5 DEF ScalarFields

\* encode_inner of PhoneNumber
LEMMA PhoneEncoded ==
  ASSUME NEW phone \in PhoneNumbers
  PROVE  LET e == EncodePhone(phone)
         IN  /\ e \in ScalarFields /\ PhoneTyped(e) /\ PhoneMeaning(e) = phone
             /\ Occurrences(e, {1}) = Given(phone.number)
<1> DEFINE Sub == {<<>>}
           number == phone.number
           type == phone.type
           a == <<>>
           b == a \o EncodeScalar(1, LEN, number)
           c == b \o EncodeScalar(2, VARINT, type)
<1>1. number \in Int /\ type \in Int /\ <<>> \in Sub
  BY DEF PhoneNumbers
<1>2. /\ a \in FieldsOver(Sub) /\ Lacks(a, 1) /\ Lacks(a, 2) /\ Typed(a, PhoneWires)
      /\ Occurrences(a, {1}) = 0
  BY NoFields
<1>3. DOMAIN PhoneWires = {1, 2} /\ PhoneWires[1] = LEN /\ PhoneWires[2] = VARINT
  BY DEF PhoneWires
<1>4. EncodePhone(phone) = c
  BY DEF EncodePhone, EncodeScalar
<1> HIDE DEF a, Sub, number, type
<1>5. /\ b \in FieldsOver(Sub) /\ Value(b, 1) = number /\ Lacks(b, 2) /\ Typed(b, PhoneWires)
      /\ Occurrences(b, {1}) = Given(number)
  <2>1. Appended(Sub, a, b, 1, LEN, number)
    BY <1>1, <1>2, EncodeAppends
  <2> HIDE DEF b
  <2>2. Occurrences(b, {1}) =
          Occurrences(a, {1}) + (IF number # 0 /\ 1 \in {1} THEN 1 ELSE 0)
    BY <2>1 DEF Appended
  <2> QED
    BY <1>2, <1>3, <2>1, <2>2 DEF Given, Appended
<1> HIDE DEF b
<1>6. /\ c \in FieldsOver(Sub) /\ Value(c, 1) = number /\ Value(c, 2) = type
      /\ Typed(c, PhoneWires) /\ Occurrences(c, {1}) = Given(number)
  <2>1. Appended(Sub, b, c, 2, VARINT, type)
    BY <1>1, <1>5, EncodeAppends
  <2> HIDE DEF c
  <2>2. Occurrences(c, {1}) =
          Occurrences(b, {1}) + (IF type # 0 /\ 2 \in {1} THEN 1 ELSE 0)
    BY <2>1 DEF Appended
  <2>3. Occurrences(c, {1}) = Given(number)
    BY <1>5, <2>2, GivenNat
  <2> QED
    BY <1>3, <1>5, <2>1, <2>3 DEF Appended
<1> HIDE DEF c
<1>7. PhoneMeaning(c) = phone
  BY <1>6 DEF PhoneMeaning, PhoneNumbers, number, type
<1> QED
  BY <1>4, <1>6, <1>7 DEF ScalarFields, PhoneTyped, PhoneWires, Sub, number

EncodedPhones(phones) == [i \in DOMAIN phones |-> EncodePhone(phones[i])]

\* encode_inner of Person
LEMMA PersonEncoded ==
  ASSUME NEW person \in Persons
  PROVE  LET e == EncodePerson(person)
         IN  /\ e \in PersonFields /\ PersonTyped(e) /\ PersonMeaning(e) = person
             /\ Subs(e, 4) = EncodedPhones(person.phones)
             /\ Occurrences(e, {1, 3}) = Given(person.name) + Given(person.email)
<1> DEFINE Sub == ScalarFields
           subs == EncodedPhones(person.phones)
           n == Len(person.phones)
           name == person.name
           id == person.id
           email == person.email
           a == <<>>
           b == a \o EncodeScalar(1, LEN, name)
           c == b \o EncodeScalar(2, VARINT, id)
           d == c \o EncodeScalar(3, LEN, email)
           e == d \o EncodeRepeated(4, subs)
<1>1. /\ name \in Int /\ id \in Int /\ email \in Int /\ <<>> \in Sub
      /\ person.phones \in Seq(PhoneNumbers) /\ n \in Nat /\ DOMAIN person.phones = 1..n
      /\ \A i \in 1..n : person.phones[i] \in PhoneNumbers
  BY DEF Persons, ScalarFields, FieldsOver
<1>2. \A i \in 1..n : EncodePhone(person.phones[i]) \in Sub
  BY <1>1, PhoneEncoded
<1>3. subs \in Seq(Sub) /\ Len(subs) = n /\ \A i \in 1..n : subs[i] = EncodePhone(person.phones[i])
  <2>1. subs = [i \in 1..n |-> EncodePhone(person.phones[i])]
    BY <1>1 DEF EncodedPhones
  <2> HIDE DEF subs, n, Sub
  <2> QED
    BY <1>1, <1>2, <2>1
<1>4. /\ a \in FieldsOver(Sub) /\ Lacks(a, 1) /\ Lacks(a, 2) /\ Lacks(a, 3) /\ Lacks(a, 4)
      /\ Typed(a, PersonWires) /\ Occurrences(a, {1, 3}) = 0
  BY NoFields
<1>5. /\ DOMAIN PersonWires = {1, 2, 3, 4} /\ PersonWires[1] = LEN
      /\ PersonWires[2] = VARINT /\ PersonWires[3] = LEN /\ PersonWires[4] = LEN
  BY DEF PersonWires
<1>6. EncodePerson(person) = e
  BY DEF EncodePerson, EncodeScalar, EncodedPhones
<1> HIDE DEF a, Sub, subs, n, name, id, email
<1>7. /\ b \in FieldsOver(Sub) /\ Value(b, 1) = name
      /\ Lacks(b, 2) /\ Lacks(b, 3) /\ Lacks(b, 4)
      /\ Typed(b, PersonWires) /\ Occurrences(b, {1, 3}) = Given(name)
  <2>1. Appended(Sub, a, b, 1, LEN, name)
    BY <1>1, <1>4, EncodeAppends
  <2> HIDE DEF b
  <2>2. Occurrences(b, {1, 3}) =
          Occurrences(a, {1, 3}) + (IF name # 0 /\ 1 \in {1, 3} THEN 1 ELSE 0)
    BY <2>1 DEF Appended
  <2> QED
    BY <1>4, <1>5, <2>1, <2>2 DEF Given, Appended
<1> HIDE DEF b
<1>8. /\ c \in FieldsOver(Sub) /\ Value(c, 1) = name /\ Value(c, 2) = id
      /\ Lacks(c, 3) /\ Lacks(c, 4)
      /\ Typed(c, PersonWires) /\ Occurrences(c, {1, 3}) = Given(name)
  <2>1. Appended(Sub, b, c, 2, VARINT, id)
    BY <1>1, <1>7, EncodeAppends
  <2> HIDE DEF c
  <2>2. Occurrences(c, {1, 3}) =
          Occurrences(b, {1, 3}) + (IF id # 0 /\ 2 \in {1, 3} THEN 1 ELSE 0)
    BY <2>1 DEF Appended
  <2>3. Occurrences(c, {1, 3}) = Given(name)
    BY <1>7, <2>2, GivenNat
  <2> QED
    BY <1>5, <1>7, <2>1, <2>3 DEF Appended
<1> HIDE DEF c
<1>9. /\ d \in FieldsOver(Sub) /\ Value(d, 1) = name /\ Value(d, 2) = id /\ Value(d, 3) = email
      /\ Lacks(d, 4)
      /\ Typed(d, PersonWires) /\ Occurrences(d, {1, 3}) = Given(name) + Given(email)
  <2>1. Appended(Sub, c, d, 3, LEN, email)
    BY <1>1, <1>8, EncodeAppends
  <2> HIDE DEF d
  <2>2. Occurrences(d, {1, 3}) =
          Occurrences(c, {1, 3}) + (IF email # 0 /\ 3 \in {1, 3} THEN 1 ELSE 0)
    BY <2>1 DEF Appended
  <2>3. Occurrences(d, {1, 3}) = Given(name) + Given(email)
    BY <1>8, <2>2 DEF Given
  <2> QED
    BY <1>5, <1>8, <2>1, <2>3 DEF Appended
<1> HIDE DEF d
<1>10. /\ e \in FieldsOver(Sub) /\ Value(e, 1) = name /\ Value(e, 2) = id /\ Value(e, 3) = email
       /\ Typed(e, PersonWires) /\ Subs(e, 4) = subs
       /\ Occurrences(e, {1, 3}) = Given(name) + Given(email)
  <2>1. AppendedItems(Sub, d, e, 4, subs)
    BY <1>3, <1>9, EncodeAppendsItems
  <2> HIDE DEF e
  <2>2. Occurrences(e, {1, 3}) = Occurrences(d, {1, 3})
    BY <2>1 DEF AppendedItems
  <2> QED
    BY <1>5, <1>9, <2>1, <2>2 DEF AppendedItems
<1> HIDE DEF e
<1>11. \A i \in 1..n : PhoneTyped(subs[i]) /\ PhoneMeaning(subs[i]) = person.phones[i]
  BY <1>1, <1>3, PhoneEncoded
<1>12. PersonTyped(e)
  BY <1>3, <1>10, <1>11 DEF PersonTyped, PersonWires
<1>13. [k \in DOMAIN subs |-> PhoneMeaning(subs[k])] = person.phones
  <2>1. [k \in DOMAIN subs |-> PhoneMeaning(subs[k])] = [k \in 1..n |-> person.phones[k]]
    BY <1>3, <1>11
  <2>2. person.phones = [k \in 1..n |-> person.phones[k]]
    BY <1>1
  <2> QED
    BY <2>1, <2>2
<1>14. PersonMeaning(e) = Person(name, id, email, person.phones)
  BY <1>10, <1>13 DEF PersonMeaning, Person
<1>15. person = Person(name, id, email, person.phones)
  BY DEF Person, Persons, name, id, email
<1> QED
  BY <1>6, <1>10, <1>12, <1>14, <1>15 DEF PersonFields, Sub, subs, name, email

EncodedPeople(people) == [i \in DOMAIN people |-> EncodePerson(people[i])]

\* encode_inner of AddressBook
LEMMA BookEncoded ==
  ASSUME NEW book, book.people \in Seq(Persons)
  PROVE  LET e == EncodeBook(book)
         IN  /\ e \in BookFields /\ BookTyped(e) /\ BookMeaning(e) = Book(book.people)
             /\ Subs(e, 1) = EncodedPeople(book.people)
             /\ Len(Subs(e, 1)) = Len(book.people)
<1> DEFINE Sub == PersonFields
           people == book.people
           subs == EncodedPeople(people)
           n == Len(people)
           a == <<>>
           e == a \o EncodeRepeated(1, subs)
<1>1. n \in Nat /\ DOMAIN people = 1..n /\ \A i \in 1..n : people[i] \in Persons
  OBVIOUS
<1>2. \A i \in 1..n : EncodePerson(people[i]) \in Sub
  BY <1>1, PersonEncoded
<1>3. subs \in Seq(Sub) /\ Len(subs) = n /\ \A i \in 1..n : subs[i] = EncodePerson(people[i])
  <2>1. subs = [i \in 1..n |-> EncodePerson(people[i])]
    BY <1>1 DEF EncodedPeople
  <2> HIDE DEF subs, n, Sub
  <2> QED
    BY <1>1, <1>2, <2>1
<1>4. a \in FieldsOver(Sub) /\ Lacks(a, 1) /\ Typed(a, BookWires)
  BY NoFields
<1>5. DOMAIN BookWires = {1} /\ BookWires[1] = LEN
  BY DEF BookWires
<1>6. EncodeBook(book) = e
  <2> DEFINE r == EncodeRepeated(1, subs)
  <2>1. EncodeBook(book) = r
    BY DEF EncodeBook, EncodedPeople
  <2>2. r = [i \in 1..n |-> Embedded(1, subs[i])]
    BY <1>3 DEF EncodeRepeated
  <2> HIDE DEF r, n, subs
  <2>3. r \in Seq({Embedded(1, subs[i]) : i \in 1..n})
    BY <1>1, <2>2
  <2>4. a \o r = r
    BY <2>3
  <2> QED
    BY <2>1, <2>4 DEF r, e
<1> HIDE DEF a, Sub, subs, n, people
<1>7. e \in FieldsOver(Sub) /\ Typed(e, BookWires) /\ Subs(e, 1) = subs
  <2>1. AppendedItems(Sub, a, e, 1, subs)
    BY <1>3, <1>4, EncodeAppendsItems
  <2> HIDE DEF e
  <2> QED
    BY <1>4, <1>5, <2>1 DEF AppendedItems
<1> HIDE DEF e
<1>8. \A i \in 1..n : PersonTyped(subs[i]) /\ PersonMeaning(subs[i]) = people[i]
  BY <1>1, <1>3, PersonEncoded
<1>9. BookTyped(e)
  BY <1>3, <1>7, <1>8 DEF BookTyped, BookWires
<1>10. [k \in DOMAIN subs |-> PersonMeaning(subs[k])] = people
  <2>1. [k \in DOMAIN subs |-> PersonMeaning(subs[k])] = [k \in 1..n |-> people[k]]
    BY <1>3, <1>8
  <2>2. people = [k \in 1..n |-> people[k]]
    BY <1>1 DEF people
  <2> QED
    BY <2>1, <2>2
<1>11. BookMeaning(e) = Book(people)
  BY <1>7, <1>10 DEF BookMeaning, Book
<1> QED
  BY <1>3, <1>6, <1>7, <1>9, <1>11 DEF BookFields, Sub, subs, people, n

-----------------------------------------------------------------------------
\* What an encoded message takes of the workspace; decoding does not give a
\* message that takes more than what it was decoded from.

\* A value is a number, given or default.
LEMMA ValueInt ==
  ASSUME NEW Sub, NEW fields \in FieldsOver(Sub), NEW num
  PROVE  Value(fields, num) \in Int
<1> DEFINE found == {i \in DOMAIN fields : fields[i].num = num}
           n == Len(fields)
<1>1. n \in Nat /\ DOMAIN fields = 1..n /\ \A i \in 1..n : fields[i].val \in Int
  BY FieldFacts
<1>2. found # {} => Max(found) \in 1..n
  <2>1. found \in SUBSET (1..n)
    BY <1>1
  <2> HIDE DEF found, n
  <2> QED
    BY <1>1, <2>1, MaxOf
<1> QED
  BY <1>1, <1>2 DEF Value

\* Phones and people that are decoded have the types of the structs.
LEMMA PhoneMeant ==
  ASSUME NEW fields \in ScalarFields
  PROVE  PhoneMeaning(fields) \in PhoneNumbers
<1>1. Value(fields, 1) \in Int /\ Value(fields, 2) \in Int
  BY ValueInt DEF ScalarFields
<1> QED
  BY <1>1 DEF PhoneMeaning, PhoneNumbers

\* The meaning of a person is a person, with one phone for each embedded
\* message.
LEMMA PersonMeant ==
  ASSUME NEW fields \in PersonFields
  PROVE  /\ PersonMeaning(fields) \in Persons
         /\ Len(PersonMeaning(fields).phones) = Len(Subs(fields, 4))
         /\ \A k \in 1..Len(Subs(fields, 4)) :
              PersonMeaning(fields).phones[k] = PhoneMeaning(Subs(fields, 4)[k])
<1> DEFINE subs == Subs(fields, 4)
           n == Len(subs)
           phones == [k \in DOMAIN subs |-> PhoneMeaning(subs[k])]
<1>1. subs \in Seq(ScalarFields) /\ n \in Nat /\ DOMAIN subs = 1..n
  BY SubsAreItems DEF PersonFields
<1>2. Value(fields, 1) \in Int /\ Value(fields, 2) \in Int /\ Value(fields, 3) \in Int
  BY ValueInt DEF PersonFields
<1>3. \A k \in 1..n : PhoneMeaning(subs[k]) \in PhoneNumbers
  BY <1>1, PhoneMeant
<1>4. phones = [k \in 1..n |-> PhoneMeaning(subs[k])]
  BY <1>1
<1>5. /\ phones \in Seq(PhoneNumbers) /\ Len(phones) = n
      /\ \A k \in 1..n : phones[k] = PhoneMeaning(subs[k])
  <2> HIDE DEF n, phones
  <2> QED
    BY <1>1, <1>3, <1>4
<1>6. PersonMeaning(fields) = Person(Value(fields, 1), Value(fields, 2), Value(fields, 3), phones)
  BY DEF PersonMeaning, Person
<1> HIDE DEF phones, n
<1>7. PersonMeaning(fields) \in Persons /\ PersonMeaning(fields).phones = phones
  BY <1>2, <1>5, <1>6 DEF Person, Persons
<1> QED
  BY <1>5, <1>7 DEF n

\* The meaning of a book is people, one for each embedded message.
LEMMA BookMeant ==
  ASSUME NEW fields \in BookFields
  PROVE  /\ BookMeaning(fields).people \in Seq(Persons)
         /\ BookMeaning(fields) = Book(BookMeaning(fields).people)
         /\ Len(BookMeaning(fields).people) = Len(Subs(fields, 1))
         /\ \A k \in 1..Len(Subs(fields, 1)) :
              BookMeaning(fields).people[k] = PersonMeaning(Subs(fields, 1)[k])
<1> DEFINE subs == Subs(fields, 1)
           n == Len(subs)
           people == [k \in DOMAIN subs |-> PersonMeaning(subs[k])]
<1>1. subs \in Seq(PersonFields) /\ n \in Nat /\ DOMAIN subs = 1..n
  BY SubsAreItems DEF BookFields
<1>2. \A k \in 1..n : PersonMeaning(subs[k]) \in Persons
  BY <1>1, PersonMeant
<1>3. people = [k \in 1..n |-> PersonMeaning(subs[k])]
  BY <1>1
<1>4. /\ people \in Seq(Persons) /\ Len(people) = n
      /\ \A k \in 1..n : people[k] = PersonMeaning(subs[k])
  <2> HIDE DEF n, people
  <2> QED
    BY <1>1, <1>2, <1>3
<1>5. BookMeaning(fields) = Book(people)
  BY DEF BookMeaning, Book
<1> HIDE DEF people, n
<1>6. BookMeaning(fields).people = people
  BY <1>5 DEF Book
<1> QED
  BY <1>4, <1>5, <1>6 DEF n

PhoneSpaces(phones) == [k \in 1..Len(phones) |-> STRING_SIZE * Given(phones[k].number)]

\* What a person takes besides its struct
PersonSpace(person) ==
  STRING_SIZE * (Given(person.name) + Given(person.email)) + Len(person.phones) * PHONE_SIZE
    + Sum(PhoneSpaces(person.phones))

\* Decoding what was encoded takes a string for each that is not empty.
LEMMA EncodedTakes ==
  ASSUME NEW person \in Persons
  PROVE  PersonTakes(EncodePerson(person)) = PersonSpace(person)
<1> DEFINE e == EncodePerson(person)
           phones == person.phones
           subs == EncodedPhones(phones)
           n == Len(phones)
<1>1. /\ Subs(e, 4) = subs
      /\ Occurrences(e, {1, 3}) = Given(person.name) + Given(person.email)
  BY PersonEncoded
<1>2. /\ phones \in Seq(PhoneNumbers) /\ n \in Nat /\ DOMAIN phones = 1..n
      /\ \A i \in 1..n : phones[i] \in PhoneNumbers
  BY DEF Persons
<1>3. Len(subs) = n /\ \A i \in 1..n : subs[i] = EncodePhone(phones[i])
  <2>1. subs = [i \in 1..n |-> EncodePhone(phones[i])]
    BY <1>2 DEF EncodedPhones
  <2> HIDE DEF subs, n
  <2> QED
    BY <1>2, <2>1
<1>4. PhoneNeeds(subs) = PhoneSpaces(phones)
  <2>1. \A i \in 1..n : PhoneStrings(subs[i]) = STRING_SIZE * Given(phones[i].number)
    BY <1>2, <1>3, PhoneEncoded DEF PhoneStrings
  <2> HIDE DEF subs
  <2> QED
    BY <1>3, <2>1 DEF PhoneNeeds, PhoneSpaces
<1> HIDE DEF e, subs, n, phones
<1>5. PersonTakes(e) = STRING_SIZE * (Given(person.name) + Given(person.email)) + n * PHONE_SIZE
                         + Sum(PhoneSpaces(phones))
  BY <1>1, <1>3, <1>4 DEF PersonTakes, PersonStrings
<1> QED
  BY <1>5 DEF PersonSpace, e, n, phones

\* A value that is not the default comes from some field.
LEMMA GivenOccurs ==
  ASSUME NEW Sub, NEW fields \in FieldsOver(Sub), NEW num
  PROVE  Given(Value(fields, num)) <= Occurrences(fields, {num}) /\ Occurrences(fields, {num}) \in Nat
<1> DEFINE n == Len(fields)
<1>1. n \in Nat /\ fields \in Seq(FieldOver(Sub))
  BY FieldFacts
<1>2. /\ Value(fields, num) = ValueTo(fields, num, n)
      /\ Occurrences(fields, {num}) = CountTo(fields, {num}, n)
  BY <1>1, ValueIs, OccurrencesAre
<1>3. CountTo(fields, {num}, n) \in Nat
  BY <1>1, CountNat
<1> HIDE DEF n
<1>4. ValueTo(fields, num, n) # 0 => CountTo(fields, {num}, n) >= 1
  BY <1>1, ValueOccurs
<1> QED
  BY <1>2, <1>3, <1>4 DEF Given

\* The strings of a person are its names and its emails.
LEMMA NamesAndEmails ==
  ASSUME NEW Sub, NEW fields \in FieldsOver(Sub)
  PROVE  Occurrences(fields, {1, 3}) = Occurrences(fields, {1}) + Occurrences(fields, {3})
<1> DEFINE n == Len(fields)
           C(nums, i) == CountTo(fields, nums, i)
           S == {i \in 0..n : C({1, 3}, i) = C({1}, i) + C({3}, i)}
<1>1. n \in Nat /\ fields \in Seq(FieldOver(Sub))
  BY FieldFacts
<1>2. 0 \in S
  BY <1>1, CountNone
<1>3. ASSUME NEW i \in 0..(n - 1), i \in S
      PROVE  i + 1 \in S
  <2>1. i \in Nat /\ i + 1 \in 0..n
    BY <1>1
  <2>2. /\ C({1, 3}, i + 1) = C({1, 3}, i) + (IF fields[i + 1].num \in {1, 3} THEN 1 ELSE 0)
        /\ C({1}, i + 1) = C({1}, i) + (IF fields[i + 1].num \in {1} THEN 1 ELSE 0)
        /\ C({3}, i + 1) = C({3}, i) + (IF fields[i + 1].num \in {3} THEN 1 ELSE 0)
        /\ C({1}, i) \in Nat /\ C({3}, i) \in Nat
    BY <2>1, CountStep, CountNat
  <2> HIDE DEF C, n
  <2>3. C({1, 3}, i) = C({1}, i) + C({3}, i)
    BY <1>3
  <2> QED
    BY <2>1, <2>2, <2>3
<1>4. n \in S
  <2>1. 0..n \subseteq S
    <3> HIDE DEF S, n
    <3> QED
      BY <1>1, <1>2, <1>3, UpTo
  <2> QED
    BY <1>1, <2>1
<1> QED
  BY <1>1, <1>4, OccurrencesAre

\* Encoding anew what a person means never takes more room than the person did.
LEMMA PersonSpaceBound ==
  ASSUME NEW fields \in PersonFields
  PROVE  PersonSpace(PersonMeaning(fields)) <= PersonTakes(fields)
<1> DEFINE subs == Subs(fields, 4)
           n == Len(subs)
           p == PersonMeaning(fields)
           phones == p.phones
           a == PhoneSpaces(phones)
           b == PhoneNeeds(subs)
<1>1. \A i, j \in Nat : i <= j => /\ STRING_SIZE * i <= STRING_SIZE * j
                                  /\ STRING_SIZE * i \in Nat /\ STRING_SIZE * j \in Nat
  <2>1. ASSUME NEW i \in Nat, NEW j \in Nat, i <= j
        PROVE  /\ STRING_SIZE * i <= STRING_SIZE * j
               /\ STRING_SIZE * i \in Nat /\ STRING_SIZE * j \in Nat
    <3>1. STRING_SIZE * j = STRING_SIZE * i + STRING_SIZE * (j - i)
      BY Sizes
    <3>2. j - i \in Nat /\ STRING_SIZE * i \in Nat
      BY <2>1, Sizes
    <3>3. STRING_SIZE * (j - i) \in Nat
      <4> DEFINE k == j - i
      <4> k \in Nat
        BY <3>2
      <4> HIDE DEF k
      <4>1. STRING_SIZE * k \in Nat
        BY Sizes
      <4> QED
        BY <4>1 DEF k
    <3> HIDE DEF n
    <3> QED
      BY <3>1, <3>2, <3>3
  <2> QED
    BY <2>1
<1>2. subs \in Seq(ScalarFields) /\ n \in Nat /\ DOMAIN subs = 1..n
  BY SubsAreItems DEF PersonFields
<1>3. /\ p \in Persons /\ Len(phones) = n
      /\ \A k \in 1..n : phones[k] = PhoneMeaning(subs[k])
  BY PersonMeant
<1>4. /\ p.name = Value(fields, 1) /\ p.email = Value(fields, 3)
      /\ \A k \in 1..n : phones[k].number = Value(subs[k], 1)
  BY <1>3 DEF PersonMeaning, PhoneMeaning
<1>5. b \in Seq(Nat) /\ Len(b) = n /\ \A k \in 1..n : b[k] = STRING_SIZE * Occurrences(subs[k], {1})
  BY <1>2, PhonesDecode DEF PhoneNeeds, PhoneStrings
<1>6. \A k \in 1..n : a[k] \in Nat /\ a[k] <= b[k]
  <2>1. ASSUME NEW k \in 1..n
        PROVE  a[k] \in Nat /\ a[k] <= b[k]
    <3>1. /\ Given(Value(subs[k], 1)) <= Occurrences(subs[k], {1})
          /\ Occurrences(subs[k], {1}) \in Nat
      <4>1. subs[k] \in FieldsOver({<<>>})
        BY <1>2 DEF ScalarFields
      <4> QED
        BY <4>1, GivenOccurs
    <3>2. a[k] = STRING_SIZE * Given(Value(subs[k], 1))
      BY <1>3, <1>4 DEF PhoneSpaces
    <3>3. Given(Value(subs[k], 1)) \in Nat /\ b[k] = STRING_SIZE * Occurrences(subs[k], {1})
      BY <1>5, GivenNat
    <3> HIDE DEF a, b, subs
    <3> QED
      BY <1>1, <3>1, <3>2, <3>3
  <2> QED
    BY <2>1
<1>7. a \in Seq(Nat) /\ Len(a) = n
  <2>1. a = [k \in 1..n |-> a[k]]
    BY <1>3 DEF PhoneSpaces
  <2> HIDE DEF a, b, n
  <2> QED
    BY <1>2, <1>6, <2>1
<1>8. Sum(a) <= Sum(b) /\ Sum(a) \in Nat /\ Sum(b) \in Nat
  BY <1>5, <1>6, <1>7, SumMonotone
<1> DEFINE g == Given(Value(fields, 1)) + Given(Value(fields, 3))
           o == Occurrences(fields, {1, 3})
<1>9. g \in Nat /\ o \in Nat /\ g <= o
  <2>1. /\ Given(Value(fields, 1)) <= Occurrences(fields, {1}) /\ Occurrences(fields, {1}) \in Nat
        /\ Given(Value(fields, 3)) <= Occurrences(fields, {3}) /\ Occurrences(fields, {3}) \in Nat
    BY GivenOccurs DEF PersonFields
  <2>2. o = Occurrences(fields, {1}) + Occurrences(fields, {3})
    BY NamesAndEmails DEF PersonFields
  <2> QED
    BY <2>1, <2>2, GivenNat
<1>10. STRING_SIZE * g <= STRING_SIZE * o /\ STRING_SIZE * g \in Nat /\ STRING_SIZE * o \in Nat
  <2> HIDE DEF g, o
  <2> QED
    BY <1>1, <1>9
<1> DEFINE x == STRING_SIZE * g
           y == STRING_SIZE * o
           room == n * PHONE_SIZE
<1>11. PersonSpace(p) = x + room + Sum(a)
  BY <1>3, <1>4 DEF PersonSpace
<1>12. PersonTakes(fields) = y + room + Sum(b)
  BY DEF PersonTakes, PersonStrings
<1>13. room \in Nat
  BY <1>2, Sizes
<1> HIDE DEF x, y, room, a, b, p
<1>14. x <= y /\ x \in Nat /\ y \in Nat
  BY <1>10 DEF x, y
<1>15. PersonSpace(p) <= PersonTakes(fields)
  BY <1>8, <1>11, <1>12, <1>13, <1>14
<1> QED
  BY <1>15 DEF p

\* Nor does encoding a book anew.
LEMMA BookSpaceBound ==
  ASSUME NEW fields \in BookFields
  PROVE  BookNeed(EncodeBook(BookMeaning(fields))) <= BookNeed(fields)
<1> DEFINE subs == Subs(fields, 1)
           n == Len(subs)
           book == BookMeaning(fields)
           people == book.people
           e == EncodeBook(book)
           again == EncodedPeople(people)
           a == PersonNeeds(again)
           b == PersonNeeds(subs)
<1>1. subs \in Seq(PersonFields) /\ n \in Nat /\ DOMAIN subs = 1..n
  BY SubsAreItems DEF BookFields
<1>2. /\ people \in Seq(Persons) /\ Len(people) = n
      /\ \A k \in 1..n : people[k] = PersonMeaning(subs[k])
  BY BookMeant
<1>3. e \in BookFields /\ Subs(e, 1) = again /\ Len(again) = n
  BY <1>2, BookEncoded
<1>4. \A k \in 1..n : again[k] = EncodePerson(people[k]) /\ people[k] \in Persons
  <2>1. DOMAIN people = 1..n
    BY <1>2
  <2> QED
    BY <1>2, <2>1 DEF EncodedPeople
<1>5. again \in Seq(PersonFields)
  BY <1>3, SubsAreItems DEF BookFields
<1>6. /\ a \in Seq(Nat) /\ Len(a) = n /\ b \in Seq(Nat) /\ Len(b) = n
  BY <1>1, <1>3, <1>5, PeopleDecode
<1>7. \A k \in 1..n : a[k] <= b[k]
  <2>1. ASSUME NEW k \in 1..n
        PROVE  a[k] <= b[k]
    <3>1. a[k] = PersonTakes(EncodePerson(people[k]))
      BY <1>3, <1>4 DEF PersonNeeds
    <3>2. PersonTakes(EncodePerson(people[k])) = PersonSpace(people[k])
      BY <1>4, EncodedTakes
    <3>3. b[k] = PersonTakes(subs[k])
      BY DEF PersonNeeds
    <3>4. PersonSpace(PersonMeaning(subs[k])) <= PersonTakes(subs[k])
      BY <1>1, PersonSpaceBound
    <3> HIDE DEF a, b
    <3> QED
      BY <1>2, <3>1, <3>2, <3>3, <3>4
  <2> QED
    BY <2>1
<1> HIDE DEF a, b
<1>8. Sum(a) <= Sum(b) /\ Sum(a) \in Nat /\ Sum(b) \in Nat
  BY <1>6, <1>7, SumMonotone
<1> DEFINE room == n * PERSON_SIZE
<1>9. BookNeed(fields) = room + Sum(b)
  BY BookNeedIs DEF b
<1>10. BookNeed(e) = room + Sum(a)
  <2>1. BookNeed(e) = Len(Subs(e, 1)) * PERSON_SIZE + Sum(PersonNeeds(Subs(e, 1)))
    BY <1>3, BookNeedIs
  <2> HIDE DEF e, again
  <2> QED
    BY <1>3, <2>1 DEF a
<1>11. room \in Nat
  BY <1>1, Sizes
<1> HIDE DEF room
<1> QED
  BY <1>8, <1>9, <1>10, <1>11

=============================================================================
