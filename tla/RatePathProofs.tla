---------------------------- MODULE RatePathProofs ----------------------------
(***************************************************************************)
(* Proofs about the way of the rates: for any exchanges asked, any trades  *)
(* and failures, any number of rates and any values of them, and any       *)
(* number of decimals.                                                     *)
(***************************************************************************)
EXTENDS RatePathProperties, SumTheorems, SequenceTheorems

(* What is sorted: finitely many numbers. *)
IsNumbers(f) == IsFiniteSet(DOMAIN f) /\ f \in [DOMAIN f -> Nat]

-----------------------------------------------------------------------------
(* Induction and iteration *)

(* Induction, for a set of numbers. *)
LEMMA AllNumbers ==
    ASSUME NEW T, 0 \in T, \A k \in Nat : k \in T => k + 1 \in T
    PROVE  \A k \in Nat : k \in T
<1> DEFINE Bad == {k \in Nat : k \notin T}
<1> SUFFICES ASSUME Bad # {} PROVE FALSE
  OBVIOUS
<1>1. PICK k \in Bad : \A j \in Bad : k <= j
  <2>1. Bad \subseteq Nat
    OBVIOUS
  <2> QED
    BY <2>1, LeastNatural
<1>2. k \in Nat /\ k # 0 /\ k \notin T
  BY <1>1
<1>3. k - 1 \in Nat /\ ~ (k <= k - 1) /\ (k - 1) + 1 = k
  BY <1>2
<1>4. k - 1 \in T
  BY <1>1, <1>3
<1> QED
  BY <1>2, <1>3, <1>4

(* The first n values of an iteration. *)
AreValues(g, n, step, start) ==
    g[0] = start /\ \A k \in 1..n : g[k] = step[g[k - 1]]

LEMMA ValuesExist ==
    ASSUME NEW step, NEW start
    PROVE  \A n \in Nat : \E g : AreValues(g, n, step, start)
<1> DEFINE T == {n \in Nat : \E g : AreValues(g, n, step, start)}
<1>1. 0 \in T
  <2> DEFINE g == [k \in 0..0 |-> start]
  <2>1. AreValues(g, 0, step, start)
    BY DEF AreValues
  <2> QED
    BY <2>1
<1>2. ASSUME NEW n \in Nat, n \in T PROVE n + 1 \in T
  <2>1. PICK h : AreValues(h, n, step, start)
    BY <1>2
  <2> DEFINE g == [k \in 0..n + 1 |-> IF k = n + 1 THEN step[h[n]] ELSE h[k]]
  <2>2. g[0] = start
    BY <2>1 DEF AreValues
  <2>3. ASSUME NEW k \in 1..n + 1 PROVE g[k] = step[g[k - 1]]
    <3>1. k \in 0..n + 1 /\ k - 1 \in 0..n + 1 /\ k - 1 # n + 1 /\ g[k - 1] = h[k - 1]
      OBVIOUS
    <3>2. CASE k = n + 1
      BY <3>1, <3>2
    <3>3. CASE k # n + 1
      BY <2>1, <3>1, <3>3 DEF AreValues
    <3> QED
      BY <3>2, <3>3
  <2>4. AreValues(g, n + 1, step, start)
    BY <2>2, <2>3 DEF AreValues
  <2> QED
    BY <2>4
<1> HIDE DEF T
<1>3. \A n \in Nat : n \in T
  BY <1>1, <1>2, AllNumbers
<1> QED
  BY <1>3 DEF T

LEMMA ValuesAgree ==
    ASSUME NEW step, NEW start, NEW m \in Nat, NEW n \in Nat, NEW g, NEW h,
           AreValues(g, m, step, start), AreValues(h, n, step, start),
           NEW i \in Nat, i <= m, i <= n
    PROVE  g[i] = h[i]
<1> DEFINE T == {k \in Nat : k <= m /\ k <= n => g[k] = h[k]}
<1>1. 0 \in T
  BY DEF AreValues
<1>2. ASSUME NEW k \in Nat, k \in T PROVE k + 1 \in T
  <2> SUFFICES ASSUME k + 1 <= m, k + 1 <= n PROVE g[k + 1] = h[k + 1]
    OBVIOUS
  <2>1. k + 1 \in 1..m /\ k + 1 \in 1..n /\ (k + 1) - 1 = k /\ g[k] = h[k]
    BY <1>2
  <2> QED
    BY <2>1 DEF AreValues
<1> HIDE DEF T
<1>3. i \in T
  BY <1>1, <1>2, AllNumbers
<1> QED
  BY <1>3 DEF T

(* An iteration applies the step to the value before. *)
LEMMA Iteration ==
    ASSUME NEW step, NEW start
    PROVE  /\ Iterated(step, start)[0] = start
           /\ \A k \in Nat : Iterated(step, start)[k + 1] = step[Iterated(step, start)[k]]
<1> DEFINE G(n) == CHOOSE g : AreValues(g, n, step, start)
           f == [k \in Nat |-> G(k)[k]]
<1>1. \A n \in Nat : AreValues(G(n), n, step, start)
  BY ValuesExist
<1> HIDE DEF G
<1>2. f[0] = start
  BY <1>1 DEF AreValues
<1>3. ASSUME NEW n \in Nat, n # 0 PROVE f[n] = step[f[n - 1]]
  <2>1. n - 1 \in Nat /\ n - 1 <= n /\ n \in 1..n
    BY <1>3
  <2>2. G(n)[n - 1] = G(n - 1)[n - 1]
    BY <1>1, <2>1, ValuesAgree
  <2>3. G(n)[n] = step[G(n)[n - 1]]
    BY <1>1, <2>1 DEF AreValues
  <2> QED
    BY <2>1, <2>2, <2>3
<1>4. f = [k \in Nat |-> IF k = 0 THEN start ELSE step[f[k - 1]]]
  <2> DEFINE t == [k \in Nat |-> IF k = 0 THEN start ELSE step[f[k - 1]]]
  <2>1. \A k \in Nat : f[k] = t[k]
    BY <1>2, <1>3
  <2>2. DOMAIN f = Nat /\ DOMAIN t = Nat
    OBVIOUS
  <2> QED
    BY <2>1, <2>2
<1> HIDE DEF f
<1>5. Iterated(step, start)
        = [k \in Nat |-> IF k = 0 THEN start ELSE step[Iterated(step, start)[k - 1]]]
  BY <1>4 DEF Iterated
<1>6. Iterated(step, start)[0] = start
  BY <1>5
<1>7. ASSUME NEW k \in Nat
      PROVE  Iterated(step, start)[k + 1] = step[Iterated(step, start)[k]]
  <2>1. k + 1 \in Nat /\ k + 1 # 0 /\ (k + 1) - 1 = k
    OBVIOUS
  <2> QED
    BY <1>5, <2>1
<1> QED
  BY <1>6, <1>7

LEMMA Powers ==
    /\ TenTo[0] = 1
    /\ \A k \in Nat : TenTo[k] \in Nat \ {0} /\ TenTo[k + 1] = 10 * TenTo[k]
<1> DEFINE next == [n \in Nat |-> 10 * n]
           T == {k \in Nat : TenTo[k] \in Nat \ {0}}
<1>1. TenTo = Iterated(next, 1)
  BY DEF TenTo
<1> HIDE DEF next
<1>2. TenTo[0] = 1 /\ \A k \in Nat : TenTo[k + 1] = next[TenTo[k]]
  BY <1>1, Iteration
<1>3. \A n \in Nat : next[n] = 10 * n
  BY DEF next
<1>4. 0 \in T
  BY <1>2
<1>5. ASSUME NEW k \in Nat, k \in T PROVE k + 1 \in T
  BY <1>2, <1>3, <1>5
<1> HIDE DEF T
<1>6. \A k \in Nat : k \in T
  BY <1>4, <1>5, AllNumbers
<1> QED
  BY <1>2, <1>3, <1>6 DEF T

LEMMA PowersAdd ==
    \A j, k \in Nat : TenTo[j + k] = TenTo[j] * TenTo[k]
<1> SUFFICES ASSUME NEW j \in Nat PROVE \A k \in Nat : TenTo[j + k] = TenTo[j] * TenTo[k]
  OBVIOUS
<1> DEFINE T == {k \in Nat : TenTo[j + k] = TenTo[j] * TenTo[k]}
<1>1. 0 \in T
  <2>1. TenTo[j] \in Nat /\ \A m \in Nat : m * 1 = m
    BY Powers
  <2> QED
    BY <2>1, Powers
<1>2. ASSUME NEW k \in Nat, k \in T PROVE k + 1 \in T
  <2>1. j + (k + 1) = (j + k) + 1 /\ j + k \in Nat
    OBVIOUS
  <2>2. TenTo[k + 1] = 10 * TenTo[k] /\ TenTo[j + (k + 1)] = 10 * TenTo[j + k]
        /\ TenTo[k] \in Nat /\ TenTo[j] \in Nat
    BY <2>1, Powers
  <2>3. \A m, n \in Nat : 10 * (m * n) = m * (10 * n)
    OBVIOUS
  <2> QED
    BY <1>2, <2>2, <2>3
<1> HIDE DEF T
<1>3. \A k \in Nat : k \in T
  BY <1>1, <1>2, AllNumbers
<1> QED
  BY <1>3 DEF T

-----------------------------------------------------------------------------
(* Sorting by ranks *)

LEMMA GreatestInteger ==
    ASSUME NEW S, IsFiniteSet(S), S \subseteq Int, S # {}
    PROVE  \E m \in S : \A x \in S : x <= m
<1> DEFINE Above(x) == {y \in S : y > x}
           Ranks == {Cardinality(Above(x)) : x \in S}
<1>1. \A x \in S : IsFiniteSet(Above(x)) /\ Cardinality(Above(x)) \in Nat
  BY FS_Subset, FS_CardinalityType
<1>2. PICK r \in Ranks : \A other \in Ranks : r <= other
  <2>1. Ranks \subseteq Nat /\ Ranks # {}
    BY <1>1
  <2> QED
    BY <2>1, LeastNatural
<1>3. PICK m \in S : r = Cardinality(Above(m))
  OBVIOUS
<1>4. ASSUME NEW x \in S, ~ (x <= m) PROVE FALSE
  <2>1. Above(x) \subseteq Above(m)
    <3>1. \A y \in S : y \in Int
      OBVIOUS
    <3>2. \A y \in S : y > x => y > m
      BY <1>4, <3>1
    <3> QED
      BY <3>2
  <2>2. x \in Above(m) /\ x \notin Above(x)
    BY <1>4
  <2>3. Cardinality(Above(m)) <= Cardinality(Above(x))
    BY <1>2, <1>3
  <2> HIDE DEF Above
  <2>4. Cardinality(Above(x)) <= Cardinality(Above(m))
        /\ (Cardinality(Above(x)) = Cardinality(Above(m)) => Above(x) = Above(m))
    BY <1>1, <2>1, FS_Subset
  <2>5. Cardinality(Above(x)) \in Nat /\ Cardinality(Above(m)) \in Nat
    BY <1>1
  <2> QED
    BY <2>2, <2>3, <2>4, <2>5
<1> QED
  BY <1>4

(* How many values there are up to a number, and below it. *)
LEMMA Counts ==
    ASSUME NEW f, IsNumbers(f), NEW x \in Int
    PROVE  /\ IsFiniteSet({i \in DOMAIN f : f[i] <= x})
           /\ CountUpTo(f, x) \in Nat /\ CountUpTo(f, x) <= Cardinality(DOMAIN f)
           /\ Cardinality(DOMAIN f) \in Nat
           /\ CountBelow(f, x) = CountUpTo(f, x - 1)
           /\ \A y \in Int : x <= y => CountUpTo(f, x) <= CountUpTo(f, y)
<1> DEFINE UpTo(y) == {i \in DOMAIN f : f[i] <= y}
<1>1. \A y \in Int : IsFiniteSet(UpTo(y)) /\ Cardinality(UpTo(y)) \in Nat
                     /\ Cardinality(UpTo(y)) <= Cardinality(DOMAIN f)
  BY FS_Subset, FS_CardinalityType DEF IsNumbers
<1>2. {i \in DOMAIN f : f[i] < x} = UpTo(x - 1)
  BY DEF IsNumbers
<1>3. ASSUME NEW y \in Int, x <= y PROVE Cardinality(UpTo(x)) <= Cardinality(UpTo(y))
  <2>1. UpTo(x) \subseteq UpTo(y)
    BY <1>3 DEF IsNumbers
  <2> HIDE DEF UpTo
  <2> QED
    BY <1>1, <2>1, FS_Subset
<1>4. Cardinality(DOMAIN f) \in Nat
  BY FS_CardinalityType DEF IsNumbers
<1> QED
  BY <1>1, <1>2, <1>3, <1>4 DEF CountUpTo, CountBelow

(* There is a k-th value. *)
LEMMA RankTaken ==
    ASSUME NEW f, IsNumbers(f), NEW k \in 1..Cardinality(DOMAIN f)
    PROVE  \E x \in Range(f) : CountBelow(f, x) < k /\ k <= CountUpTo(f, x)
<1>0. \A x \in Int : CountBelow(f, x) = CountUpTo(f, x - 1) /\ CountUpTo(f, x) \in Nat
  BY Counts
<1> DEFINE T == {x \in Range(f) : k <= CountUpTo(f, x)}
           R == Range(f)
<1>1. R \subseteq Nat /\ \A i \in DOMAIN f : f[i] \in R
  BY DEF IsNumbers, Range
<1>2. IsFiniteSet(R)
  <2>1. f \in Surjection(DOMAIN f, R)
    BY DEF IsNumbers, Range, Surjection
  <2> QED
    BY <2>1, FS_Surjection DEF IsNumbers
<1>3. Cardinality(DOMAIN f) \in Nat /\ k \in Nat
  BY FS_CardinalityType DEF IsNumbers
<1>4. R # {}
  <2>1. DOMAIN f # {}
    BY <1>3, FS_EmptySet DEF IsNumbers
  <2> QED
    BY <1>1, <2>1
<1>5. T # {}
  <2>1. PICK m \in R : \A x \in R : x <= m
    BY <1>1, <1>2, <1>4, GreatestInteger
  <2>2. {i \in DOMAIN f : f[i] <= m} = DOMAIN f
    BY <1>1, <2>1
  <2>3. m \in T
    BY <1>3, <2>2 DEF CountUpTo
  <2> QED
    BY <2>3
<1>6. PICK x \in T : \A y \in T : x <= y
  BY <1>1, <1>5, LeastNatural
<1>7. ASSUME ~ (CountBelow(f, x) < k) PROVE FALSE
  <2> DEFINE S == {y \in R : y < x}
  <2>1. x \in Nat
    BY <1>1
  <2>2. CountBelow(f, x) \in Nat /\ k <= CountBelow(f, x)
    BY <1>0, <1>3, <1>7, <2>1
  <2>3. S # {}
    <3>1. {i \in DOMAIN f : f[i] < x} # {}
      BY <1>3, <2>2, FS_EmptySet DEF CountBelow
    <3> QED
      BY <1>1, <3>1
  <2>4. IsFiniteSet(S) /\ S \subseteq Int
    BY <1>1, <1>2, FS_Subset
  <2>5. PICK y \in S : \A z \in S : z <= y
    BY <2>3, <2>4, GreatestInteger
  <2>6. {i \in DOMAIN f : f[i] < x} = {i \in DOMAIN f : f[i] <= y}
    BY <1>1, <2>1, <2>5
  <2>7. y \in T
    BY <2>2, <2>6 DEF CountBelow, CountUpTo
  <2> QED
    BY <1>1, <1>6, <2>1, <2>5, <2>7
<1> QED
  BY <1>6, <1>7

(* The k-th value is not above x if and only if there are k values that    *)
(* are not.                                                                *)
LEMMA SortedRanks ==
    ASSUME NEW f, IsNumbers(f)
    PROVE  /\ Sorted(f) \in Seq(Nat) /\ Len(Sorted(f)) = Cardinality(DOMAIN f)
           /\ DOMAIN Sorted(f) = 1..Cardinality(DOMAIN f)
           /\ \A k \in DOMAIN Sorted(f) :
                 /\ Sorted(f)[k] \in Range(f)
                 /\ \A x \in Int : Sorted(f)[k] <= x <=> k <= CountUpTo(f, x)
<1>0. \A x \in Int :
        /\ CountBelow(f, x) = CountUpTo(f, x - 1) /\ CountUpTo(f, x) \in Nat
        /\ \A y \in Int : x <= y => CountUpTo(f, x) <= CountUpTo(f, y)
  BY Counts
<1> DEFINE s == Sorted(f)
           n == Cardinality(DOMAIN f)
<1>1. n \in Nat
  BY FS_CardinalityType DEF IsNumbers
<1>2. DOMAIN s = 1..n
  BY DEF Sorted
<1>3. \A k \in 1..n : s[k] \in Range(f) /\ CountBelow(f, s[k]) < k /\ k <= CountUpTo(f, s[k])
  BY RankTaken DEF Sorted
<1>4. Range(f) \subseteq Nat
  BY DEF IsNumbers, Range
<1>5. s \in [1..n -> Nat]
  BY <1>3, <1>4 DEF Sorted
<1>6. s \in Seq(Nat) /\ Len(s) = n
  BY <1>1, <1>2, <1>5
<1>7. ASSUME NEW k \in 1..n, NEW x \in Int PROVE s[k] <= x <=> k <= CountUpTo(f, x)
  <2>1. s[k] \in Nat
    BY <1>5
  <2>2. CountBelow(f, s[k]) < k /\ k <= CountUpTo(f, s[k])
    BY <1>3
  <2> HIDE DEF s, n
  <2>3. /\ CountBelow(f, s[k]) = CountUpTo(f, s[k] - 1)
        /\ CountUpTo(f, s[k]) \in Nat /\ CountUpTo(f, x) \in Nat
        /\ s[k] - 1 \in Int
    BY <1>0, <2>1
  <2>4. CountUpTo(f, s[k] - 1) \in Nat
    BY <1>0, <2>3
  <2>5. s[k] <= x => CountUpTo(f, s[k]) <= CountUpTo(f, x)
    BY <1>0, <2>1
  <2>6. x <= s[k] - 1 => CountUpTo(f, x) <= CountUpTo(f, s[k] - 1)
    BY <1>0, <2>3
  <2> QED
    BY <2>1, <2>2, <2>3, <2>4, <2>5, <2>6
<1> QED
  BY <1>2, <1>3, <1>6, <1>7

(* Sorting puts in order and keeps the number of values of any size.       *)
LEMMA SortedOrder ==
    ASSUME NEW f, IsNumbers(f)
    PROVE  /\ \A i, j \in DOMAIN Sorted(f) : i <= j => Sorted(f)[i] <= Sorted(f)[j]
           /\ \A x \in Int : CountUpTo(Sorted(f), x) = CountUpTo(f, x)
<1>0. \A x \in Int : CountUpTo(f, x) \in Nat /\ CountUpTo(f, x) <= Cardinality(DOMAIN f)
  BY Counts
<1> DEFINE s == Sorted(f)
           n == Cardinality(DOMAIN f)
<1>1. /\ s \in Seq(Nat) /\ n \in Nat /\ DOMAIN s = 1..n
      /\ \A k \in 1..n, x \in Int : s[k] <= x <=> k <= CountUpTo(f, x)
  BY SortedRanks, FS_CardinalityType DEF IsNumbers
<1>2. \A k \in 1..n : s[k] \in Nat
  BY <1>1
<1> HIDE DEF s, n
<1>3. ASSUME NEW i \in 1..n, NEW j \in 1..n, i <= j PROVE s[i] <= s[j]
  <2>1. s[j] \in Nat /\ CountUpTo(f, s[j]) \in Nat
    BY <1>0, <1>2
  <2>2. j <= CountUpTo(f, s[j])
    BY <1>1, <2>1
  <2>3. i <= CountUpTo(f, s[j])
    BY <1>3, <2>1, <2>2
  <2> QED
    BY <1>1, <2>1, <2>3
<1>4. ASSUME NEW x \in Int PROVE CountUpTo(s, x) = CountUpTo(f, x)
  <2>1. CountUpTo(f, x) \in Nat /\ CountUpTo(f, x) <= n
    BY <1>0 DEF n
  <2>2. {k \in DOMAIN s : s[k] <= x} = 1..CountUpTo(f, x)
    BY <1>1, <2>1
  <2>3. Cardinality(1..CountUpTo(f, x)) = CountUpTo(f, x)
    BY <2>1, FS_Interval
  <2>4. CountUpTo(s, x) = Cardinality({k \in DOMAIN s : s[k] <= x})
    BY DEF CountUpTo
  <2> QED
    BY <2>2, <2>3, <2>4
<1> QED
  BY <1>1, <1>3, <1>4 DEF s

(* How many values lie in an interval. *)
CountWithin(f, low, high) == Cardinality({i \in DOMAIN f : low <= f[i] /\ f[i] <= high})

LEMMA WithinInterval ==
    ASSUME NEW f, IsNumbers(f), NEW low \in Nat, NEW high \in Nat, low <= high
    PROVE  /\ CountWithin(f, low, high) = CountUpTo(f, high) - CountUpTo(f, low - 1)
           /\ CountWithin(f, low, high) \in Nat
<1> DEFINE Inside == {i \in DOMAIN f : low <= f[i] /\ f[i] <= high}
           UpTo(x) == {i \in DOMAIN f : f[i] <= x}
<1>1. \A i \in DOMAIN f : f[i] \in Nat
  BY DEF IsNumbers
<1>2. IsFiniteSet(Inside) /\ Cardinality(Inside) \in Nat
  BY FS_Subset, FS_CardinalityType DEF IsNumbers
<1>3. \A x \in Int : IsFiniteSet(UpTo(x))
  BY FS_Subset DEF IsNumbers
<1>4. UpTo(high) = UpTo(low - 1) \cup Inside
  BY <1>1
<1>5. UpTo(low - 1) \cap Inside = {}
  BY <1>1
<1>6. CountUpTo(f, high) = Cardinality(UpTo(high)) /\ CountUpTo(f, low - 1) = Cardinality(UpTo(low - 1))
      /\ CountWithin(f, low, high) = Cardinality(Inside)
  BY DEF CountUpTo, CountWithin
<1>7. IsFiniteSet(UpTo(low - 1)) /\ Cardinality(UpTo(low - 1)) \in Nat
  BY <1>3, FS_CardinalityType
<1> HIDE DEF Inside, UpTo
<1>8. Cardinality(UpTo(high)) =
        Cardinality(UpTo(low - 1)) + Cardinality(Inside) - Cardinality({})
  BY <1>2, <1>4, <1>5, <1>7, FS_Union
<1> QED
  BY <1>2, <1>6, <1>7, <1>8, FS_EmptySet

(* The median of a majority's interval lies in it: the one or two values   *)
(* in the middle belong to the majority.                                   *)
LEMMA MedianOfMajority ==
    ASSUME NEW f, IsNumbers(f), NEW low \in Nat, NEW high \in Nat,
           low <= high, 2 * high < WORD,
           2 * CountWithin(f, low, high) > Cardinality(DOMAIN f)
    PROVE  Median(f) \in low..high
<1> DEFINE s == Sorted(f)
           n == Cardinality(DOMAIN f)
           a == CountUpTo(f, low - 1)
           b == CountUpTo(f, high)
<1>1. /\ n \in Nat /\ a \in Nat /\ b \in Nat /\ b <= n
      /\ CountWithin(f, low, high) = b - a /\ 2 * (b - a) > n
  <2>1. /\ n \in Nat
        /\ \A x \in Int : CountUpTo(f, x) \in Nat /\ CountUpTo(f, x) <= Cardinality(DOMAIN f)
    BY Counts, FS_CardinalityType DEF IsNumbers
  <2>2. CountWithin(f, low, high) = b - a
    BY WithinInterval
  <2> QED
    BY <2>1, <2>2
<1>2. /\ DOMAIN s = 1..n /\ Len(s) = n
      /\ \A k \in 1..n : s[k] \in Nat
      /\ \A k \in 1..n : s[k] <= low - 1 <=> k <= a
      /\ \A k \in 1..n : s[k] <= high <=> k <= b
  <2>1. /\ s \in Seq(Nat) /\ DOMAIN s = 1..n /\ Len(s) = n
        /\ \A k \in DOMAIN s : \A x \in Int : s[k] <= x <=> k <= CountUpTo(f, x)
    BY SortedRanks
  <2>2. low - 1 \in Int /\ high \in Int
    OBVIOUS
  <2> HIDE DEF s, n
  <2>3. \A k \in 1..n : s[k] \in Nat
    BY <2>1
  <2>4. \A k \in 1..n : s[k] <= low - 1 <=> k <= a
    BY <2>1, <2>2
  <2>5. \A k \in 1..n : s[k] <= high <=> k <= b
    BY <2>1, <2>2
  <2> QED
    BY <2>1, <2>3, <2>4, <2>5
<1>3. Median(f) = IF n = 0 THEN 0
                  ELSE IF n % 2 = 0 THEN ((s[n \div 2] + s[n \div 2 + 1]) % WORD) \div 2
                  ELSE s[n \div 2 + 1]
  BY <1>2 DEF Median
<1> HIDE DEF s, n, a, b
<1>4. \A k \in 1..n : a < k /\ k <= b => low <= s[k] /\ s[k] <= high
  BY <1>1, <1>2
<1>5. n # 0 /\ n \div 2 + 1 \in 1..n /\ a < n \div 2 + 1 /\ n \div 2 + 1 <= b
  BY <1>1
<1>6. s[n \div 2 + 1] \in low..high
  BY <1>2, <1>4, <1>5
<1>7. CASE n % 2 = 0
  <2>1. n \div 2 \in 1..n /\ a < n \div 2 /\ n \div 2 <= b
    BY <1>1, <1>7
  <2>2. s[n \div 2] \in low..high
    BY <1>2, <1>4, <2>1
  <2>3. \A x, y \in low..high : ((x + y) % WORD) \div 2 \in low..high
    <3> SUFFICES ASSUME NEW x \in low..high, NEW y \in low..high
                 PROVE  ((x + y) % WORD) \div 2 \in low..high
      OBVIOUS
    <3>1. WORD \in Nat /\ x + y < WORD /\ x + y \in Nat
      BY ScaleAssumption
    <3>2. (x + y) % WORD = x + y
      BY <3>1
    <3> QED
      BY <3>2
  <2> QED
    BY <1>3, <1>5, <1>6, <1>7, <2>2, <2>3
<1>8. CASE n % 2 # 0
  BY <1>3, <1>5, <1>6, <1>8
<1> QED
  BY <1>7, <1>8

-----------------------------------------------------------------------------
(* The filter of QueriedExchangeRate::new *)

LEMMA Scale ==
    /\ RATE_UNIT \in Nat \ {0} /\ MaxRate \in Nat \ {0}
    /\ WORD \in Nat \ {0} /\ 10 * MaxRate < WORD
<1>1. RATE_UNIT \in Nat \ {0}
  BY Powers, ScaleAssumption DEF RATE_UNIT
<1>2. \A m, n \in Nat \ {0} : m * n \in Nat \ {0}
  OBVIOUS
<1>3. MaxRate \in Nat \ {0}
  BY <1>1, <1>2 DEF MaxRate
<1> QED
  BY <1>1, <1>3, ScaleAssumption

LEMMA SequenceNumbers ==
    ASSUME NEW s \in Seq(Nat)
    PROVE  IsNumbers(s) /\ \A T : (\A k \in DOMAIN s : s[k] \in T) => s \in Seq(T)
<1>1. /\ Len(s) \in Nat /\ DOMAIN s = 1..Len(s)
      /\ s \in [1..Len(s) -> Nat]
  OBVIOUS
<1>2. IsFiniteSet(1..Len(s))
  BY <1>1, FS_Interval
<1>3. IsNumbers(s)
  BY <1>1, <1>2 DEF IsNumbers
<1>4. ASSUME NEW T, \A k \in DOMAIN s : s[k] \in T PROVE s \in Seq(T)
  BY <1>1, <1>4
<1> QED
  BY <1>3, <1>4

(* A restricted function has the values that pass. *)
LEMMA RestrictedNumbers ==
    ASSUME NEW f, IsNumbers(f), NEW K, K \subseteq DOMAIN f
    PROVE  /\ IsNumbers(Restrict(f, K)) /\ DOMAIN Restrict(f, K) = K
           /\ Cardinality(K) <= Cardinality(DOMAIN f)
           /\ Cardinality(K) \in Nat /\ Cardinality(DOMAIN f) \in Nat
           /\ Range(Restrict(f, K)) = {f[i] : i \in K}
<1>1. IsFiniteSet(K) /\ Cardinality(K) <= Cardinality(DOMAIN f)
  BY FS_Subset DEF IsNumbers
<1>2. Cardinality(K) \in Nat /\ Cardinality(DOMAIN f) \in Nat
  BY <1>1, FS_CardinalityType DEF IsNumbers
<1> QED
  BY <1>1, <1>2 DEF IsNumbers, Restrict, Range

IsKept(rate, median) == rate > 0 /\ rate <= MaxRate /\ CloseTo(rate, median)
KeptOf(f) == {i \in DOMAIN f : IsKept(f[i], Median(f))}

LEMMA RetainedIs == \A f : Retained(f) = Sorted(Restrict(f, KeptOf(f)))
BY DEF Retained, RestrictValues, KeptOf, IsKept

(* What new keeps of the received rates is sorted and in range. *)
LEMMA RetainedRates ==
    ASSUME NEW f, IsNumbers(f)
    PROVE  /\ Retained(f) \in Seq(1..MaxRate) /\ IsNumbers(Retained(f))
           /\ \A i, j \in DOMAIN Retained(f) : i <= j => Retained(f)[i] <= Retained(f)[j]
<1> DEFINE g == Restrict(f, KeptOf(f))
<1>1. IsNumbers(g) /\ Range(g) = {f[i] : i \in KeptOf(f)}
  BY RestrictedNumbers DEF KeptOf
<1>2. \A x \in Range(g) : x \in 1..MaxRate
  BY <1>1, Scale DEF KeptOf, IsKept, IsNumbers
<1>3. /\ Sorted(g) \in Seq(Nat) /\ Len(Sorted(g)) \in Nat
      /\ DOMAIN Sorted(g) = 1..Len(Sorted(g))
      /\ \A k \in DOMAIN Sorted(g) : Sorted(g)[k] \in Range(g)
  BY <1>1, SortedRanks
<1>4. \A i, j \in DOMAIN Sorted(g) : i <= j => Sorted(g)[i] <= Sorted(g)[j]
  BY <1>1, SortedOrder
<1>5. Retained(f) = Sorted(g)
  BY RetainedIs
<1> HIDE DEF g
<1>6. Sorted(g) \in Seq(1..MaxRate)
  BY <1>2, <1>3, SequenceNumbers
<1>7. IsNumbers(Sorted(g))
  BY <1>3, SequenceNumbers
<1> QED
  BY <1>4, <1>5, <1>6, <1>7

LEMMA RetainedValues ==
    ASSUME NEW f, IsNumbers(f)
    PROVE  ToSet(Retained(f)) \subseteq Range(f)
<1> DEFINE g == Restrict(f, KeptOf(f))
<1>1. IsNumbers(g) /\ Range(g) = {f[i] : i \in KeptOf(f)}
  BY RestrictedNumbers DEF KeptOf
<1>2. Retained(f) = Sorted(g)
  BY RetainedIs
<1>3. \A k \in DOMAIN Sorted(g) : Sorted(g)[k] \in Range(g)
  BY <1>1, SortedRanks
<1> HIDE DEF g
<1> QED
  BY <1>1, <1>2, <1>3 DEF ToSet, Range, KeptOf

(* What the majority of sources agrees on is not taken away, nor outvoted  *)
(* by what else is left.                                                   *)
LEMMA MajorityStays ==
    ASSUME NEW f, IsNumbers(f), NEW low \in Nat, NEW high \in Nat, HasMajority(f, low, high)
    PROVE  Median(Retained(f)) \in low..high
<1> DEFINE g == Restrict(f, KeptOf(f))
<1>1. /\ 0 < low /\ low <= high /\ high <= MaxRate /\ high - low <= low \div 5
      /\ 2 * CountWithin(f, low, high) > Cardinality(DOMAIN f)
      /\ 2 * high < WORD
  BY Scale DEF HasMajority, CountWithin, MAX_RELATIVE_DIFFERENCE_DIVISOR
<1>2. Median(f) \in low..high
  BY <1>1, MedianOfMajority
<1>3. \A x \in low..high : IsKept(x, Median(f))
  <2> SUFFICES ASSUME NEW x \in low..high PROVE IsKept(x, Median(f))
    OBVIOUS
  <2>1. x \in Nat /\ Median(f) \in Nat /\ x > 0 /\ x <= MaxRate
    BY <1>1, <1>2, Scale
  <2>2. Distance(x, Median(f)) <= Median(f) \div 5
    BY <1>1, <1>2, <2>1 DEF Distance
  <2> QED
    BY <2>1, <2>2 DEF IsKept, CloseTo, MAX_RELATIVE_DIFFERENCE_DIVISOR
<1>4. IsNumbers(g) /\ DOMAIN g = KeptOf(f) /\ Cardinality(KeptOf(f)) <= Cardinality(DOMAIN f)
      /\ Cardinality(KeptOf(f)) \in Nat /\ Cardinality(DOMAIN f) \in Nat
  BY RestrictedNumbers DEF KeptOf
<1>5. {i \in DOMAIN g : low <= g[i] /\ g[i] <= high} = {i \in DOMAIN f : low <= f[i] /\ f[i] <= high}
  <2>1. \A i \in DOMAIN f : low <= f[i] /\ f[i] <= high => i \in KeptOf(f)
    BY <1>3 DEF KeptOf, IsNumbers
  <2>2. \A i \in KeptOf(f) : i \in DOMAIN f /\ g[i] = f[i]
    BY DEF Restrict, KeptOf
  <2> QED
    BY <1>4, <2>1, <2>2
<1>6. CountWithin(g, low, high) = CountWithin(f, low, high)
  BY <1>5 DEF CountWithin
<1> HIDE DEF g
<1>7. /\ IsNumbers(Sorted(g)) /\ DOMAIN Sorted(g) = 1..Cardinality(DOMAIN g)
      /\ \A x \in Int : CountUpTo(Sorted(g), x) = CountUpTo(g, x)
  <2>1. Sorted(g) \in Seq(Nat) /\ DOMAIN Sorted(g) = 1..Cardinality(DOMAIN g)
    BY <1>4, SortedRanks
  <2>2. IsNumbers(Sorted(g))
    BY <2>1, SequenceNumbers
  <2>3. \A x \in Int : CountUpTo(Sorted(g), x) = CountUpTo(g, x)
    BY <1>4, SortedOrder
  <2> QED
    BY <2>1, <2>2, <2>3
<1>8. CountWithin(Sorted(g), low, high) = CountWithin(g, low, high)
  <2>1. CountWithin(Sorted(g), low, high) = CountUpTo(Sorted(g), high) - CountUpTo(Sorted(g), low - 1)
    BY <1>1, <1>7, WithinInterval
  <2>2. CountWithin(g, low, high) = CountUpTo(g, high) - CountUpTo(g, low - 1)
    BY <1>1, <1>4, WithinInterval
  <2>3. high \in Int /\ low - 1 \in Int
    OBVIOUS
  <2> QED
    BY <1>7, <2>1, <2>2, <2>3
<1>9. CountWithin(f, low, high) \in Nat
  BY <1>1, WithinInterval
<1>10. Cardinality(DOMAIN Sorted(g)) = Cardinality(KeptOf(f))
  BY <1>4, <1>7, FS_Interval
<1>11. 2 * CountWithin(Sorted(g), low, high) > Cardinality(DOMAIN Sorted(g))
  BY <1>1, <1>4, <1>6, <1>8, <1>9, <1>10
<1>12. Median(Sorted(g)) \in low..high
  BY <1>1, <1>7, <1>11, MedianOfMajority
<1> QED
  BY <1>12, RetainedIs DEF g

-----------------------------------------------------------------------------
(* Products and inverses *)

LEMMA LeastNumber ==
    ASSUME NEW T, T \subseteq Nat, T # {}
    PROVE  Min(T) \in T /\ \A m \in T : Min(T) <= m
<1>1. PICK n \in T : \A m \in T : n <= m
  BY LeastNatural
<1> QED
  BY <1>1 DEF Min

IsAscending(s) == \A i, j \in DOMAIN s : i <= j => s[i] <= s[j]

LEMMA SortedNumbers ==
    ASSUME NEW f, IsNumbers(f)
    PROVE  Sorted(f) \in Seq(Nat) /\ IsAscending(Sorted(f)) /\ IsNumbers(Sorted(f))
BY SortedRanks, SortedOrder, SequenceNumbers DEF IsAscending

LEMMA MiddleNumber == \A s \in Seq(Nat) : MiddleOf(s) \in Nat
<1> SUFFICES ASSUME NEW s \in Seq(Nat) PROVE MiddleOf(s) \in Nat
  OBVIOUS
<1>1. Len(s) \in Nat /\ DOMAIN s = 1..Len(s) /\ \A i \in 1..Len(s) : s[i] \in Nat
  OBVIOUS
<1>2. CASE s = <<>>
  BY <1>2 DEF MiddleOf
<1>3. CASE s # <<>>
  <2>1. Len(s) # 0
    BY <1>3
  <2>2. Len(s) \div 2 + 1 \in 1..Len(s)
    BY <1>1, <2>1
  <2> QED
    BY <1>1, <1>3, <2>2 DEF MiddleOf
<1> QED
  BY <1>2, <1>3

LEMMA SortedValues ==
    ASSUME NEW f, IsNumbers(f)
    PROVE  ToSet(Sorted(f)) \subseteq Range(f) /\ MiddleOf(Sorted(f)) \in Range(f) \cup {0}
<1> DEFINE s == Sorted(f)
<1>1. s \in Seq(Nat) /\ \A k \in DOMAIN s : s[k] \in Range(f)
  BY SortedRanks
<1> HIDE DEF s
<1>2. ToSet(s) \subseteq Range(f)
  BY <1>1 DEF ToSet
<1>3. s # <<>> => Len(s) \div 2 + 1 \in DOMAIN s
  <2>1. Len(s) \in Nat /\ DOMAIN s = 1..Len(s) /\ (s # <<>> => Len(s) # 0)
    BY <1>1
  <2> QED
    BY <2>1
<1> QED
  BY <1>1, <1>2, <1>3 DEF MiddleOf, s

LEMMA ProductNumbers ==
    ASSUME NEW a \in Seq(Nat), NEW b \in Seq(Nat)
    PROVE  Products(a, b) \in Seq(Nat) /\ IsNumbers(Products(a, b))
<1> DEFINE D == (DOMAIN a) \X (DOMAIN b)
           f == [ij \in D |-> a[ij[1]] * b[ij[2]]]
<1>1. IsFiniteSet(D)
  BY SequenceNumbers, FS_Product DEF IsNumbers
<1>2. \A m, n \in Nat : m * n \in Nat
  OBVIOUS
<1>3. \A ij \in D : a[ij[1]] \in Nat /\ b[ij[2]] \in Nat
  OBVIOUS
<1>4. f \in [D -> Nat]
  BY <1>2, <1>3
<1>5. IsNumbers(f)
  BY <1>1, <1>4 DEF IsNumbers
<1> QED
  BY <1>5, SortedNumbers DEF Products

(* What is left of the products is in the order of the products.           *)
LEMMA RescaledNumbers ==
    ASSUME NEW all \in Seq(Nat), NEW few \in Nat, NEW many \in Nat
    PROVE  /\ IsNumbers(Rescaled(all, few, many).rates)
           /\ Rescaled(all, few, many).decimals \in Nat
           /\ DOMAIN Rescaled(all, few, many).rates # {} =>
                 Rescaled(all, few, many).decimals <= 2 * DECIMALS
<1> DEFINE median == MiddleOf(all)
           Enough == {few} \cup {k \in 0..few : median >= TenTo[few - k]}
           added == Min(Enough)
           denominator == IF median = 0 THEN 0 ELSE TenTo[few - added]
           grown == many + (IF median = 0 THEN few + 1 ELSE added)
           quotients == IF denominator > 0 /\ grown <= 2 * DECIMALS
                        THEN [i \in DOMAIN all |-> all[i] \div denominator]
                        ELSE <<>>
           newMedian == IF denominator = 0 THEN 0 ELSE median \div denominator
           Small == {grown} \cup {k \in 0..grown : newMedian \div TenTo[k] <= MaxRate}
           removed == Min(Small)
<1>1. Rescaled(all, few, many) =
        [rates |-> [i \in DOMAIN quotients |-> quotients[i] \div TenTo[removed]],
         decimals |-> grown - removed]
  BY DEF Rescaled
<1>2. DECIMALS \in Nat
  BY ScaleAssumption
<1>3. added \in 0..few
  <2>1. Enough \subseteq Nat /\ Enough # {} /\ Enough \subseteq 0..few
    BY <1>2
  <2> QED
    BY <2>1, LeastNumber
<1>4. median \in Nat
  BY MiddleNumber
<1> HIDE DEF added, median
<1>5. denominator \in Nat
  <2>1. few - added \in Nat
    BY <1>3
  <2> QED
    BY <2>1, Powers
<1>6. grown \in Nat
  BY <1>2, <1>3
<1> HIDE DEF denominator, grown
<1>7. quotients \in Seq(Nat) /\ (DOMAIN quotients # {} => grown <= 2 * DECIMALS)
  <2>1. CASE denominator > 0 /\ grown <= 2 * DECIMALS
    <3>1. \A m \in Nat : m \div denominator \in Nat
      BY <1>5, <2>1
    <3>2. DOMAIN all = 1..Len(all) /\ Len(all) \in Nat /\ \A i \in DOMAIN all : all[i] \in Nat
      OBVIOUS
    <3>3. quotients = [i \in 1..Len(all) |-> all[i] \div denominator]
      BY <2>1, <3>2
    <3> QED
      BY <2>1, <3>1, <3>2, <3>3
  <2>2. CASE ~ (denominator > 0 /\ grown <= 2 * DECIMALS)
    BY <2>2
  <2> QED
    BY <2>1, <2>2
<1>8. removed \in 0..grown
  <2>1. Small \subseteq Nat /\ Small # {} /\ Small \subseteq 0..grown
    BY <1>6
  <2> QED
    BY <2>1, LeastNumber
<1> HIDE DEF quotients, removed
<1> DEFINE rates == [i \in DOMAIN quotients |-> quotients[i] \div TenTo[removed]]
<1>9. IsNumbers(rates)
  <2>1. IsFiniteSet(DOMAIN quotients) /\ \A i \in DOMAIN quotients : quotients[i] \in Nat
    BY <1>7, SequenceNumbers DEF IsNumbers
  <2>2. TenTo[removed] \in Nat \ {0}
    BY <1>6, <1>8, Powers
  <2>3. \A m \in Nat, n \in Nat \ {0} : m \div n \in Nat
    OBVIOUS
  <2>4. \A i \in DOMAIN quotients : rates[i] \in Nat
    BY <2>1, <2>2, <2>3
  <2> QED
    BY <2>1, <2>4 DEF IsNumbers
<1>10. grown - removed \in Nat /\ grown - removed <= grown
  BY <1>6, <1>8
<1>11. grown <= 2 * DECIMALS => grown - removed <= 2 * DECIMALS
  BY <1>2, <1>6, <1>10
<1>12. Rescaled(all, few, many).rates = rates
       /\ Rescaled(all, few, many).decimals = grown - removed
  BY <1>1
<1> QED
  BY <1>7, <1>9, <1>10, <1>11, <1>12

(* A rate whose numbers can be calculated with. *)
IsCalculable(rate) ==
    rate.rates \in Seq(Nat) /\ rate.decimals \in Nat

(* A product is in range and sorted, whatever its factors are.             *)
LEMMA ProductInRange ==
    ASSUME NEW a, NEW b, a.rates \in Seq(Nat), a.decimals \in Nat, IsCalculable(b)
    PROVE  /\ Times(a, b).rates \in Seq(1..MaxRate) /\ IsAscending(Times(a, b).rates)
           /\ Times(a, b).decimals \in Nat
           /\ Times(a, b).rates # <<>> => Times(a, b).decimals <= 2 * DECIMALS
<1> DEFINE all == Products(a.rates, b.rates)
           few == Lesser(a.decimals, b.decimals)
           many == Greater(a.decimals, b.decimals)
           scaled == Rescaled(all, few, many)
           passes(r) == r > 0 /\ r <= MaxRate
           K == {i \in DOMAIN scaled.rates : passes(scaled.rates[i])}
           g == Restrict(scaled.rates, K)
           kept == Sorted(g)
<1>1. all \in Seq(Nat)
  BY ProductNumbers DEF IsCalculable
<1>2. few \in Nat /\ many \in Nat
  BY DEF IsCalculable, Lesser, Greater
<1> HIDE DEF all, few, many
<1>3. /\ IsNumbers(scaled.rates) /\ scaled.decimals \in Nat
      /\ DOMAIN scaled.rates # {} => scaled.decimals <= 2 * DECIMALS
  BY <1>1, <1>2, RescaledNumbers
<1> HIDE DEF scaled
<1>4. /\ IsNumbers(g) /\ DOMAIN g = K /\ Range(g) = {scaled.rates[i] : i \in K}
  BY <1>3, RestrictedNumbers
<1>5. \A x \in Range(g) : x \in 1..MaxRate
  BY <1>3, <1>4, Scale DEF IsNumbers
<1> HIDE DEF g
<1>6. kept \in Seq(Nat) /\ IsAscending(kept)
  BY <1>4, SortedNumbers
<1>7. /\ DOMAIN kept = 1..Cardinality(DOMAIN g)
      /\ \A k \in DOMAIN kept : kept[k] \in Range(g)
  BY <1>4, SortedRanks
<1>8. kept \in Seq(1..MaxRate)
  BY <1>5, <1>6, <1>7, SequenceNumbers
<1>9. kept # <<>> => scaled.decimals <= 2 * DECIMALS
  <2>1. CASE K = {}
    <3>1. Cardinality(DOMAIN g) = 0
      BY <1>4, <2>1, FS_EmptySet
    <3>2. Len(kept) = 0
      BY <1>6, <1>7, <3>1
    <3> QED
      BY <1>6, <3>2
  <2>2. CASE K # {}
    BY <1>3, <2>2
  <2> QED
    BY <2>1, <2>2
<1>10. /\ Times(a, b).rates \in {<<>>, kept}
       /\ Times(a, b).decimals = scaled.decimals
  BY DEF Times, Rate, RestrictValues, scaled, all, few, many, g
<1>11. <<>> \in Seq(1..MaxRate) /\ IsAscending(<<>>)
  BY DEF IsAscending
<1> HIDE DEF kept
<1> QED
  BY <1>3, <1>6, <1>8, <1>9, <1>10, <1>11

LEMMA InverseNumber ==
    ASSUME NEW r \in Nat \ {0}, NEW decimals \in Nat
    PROVE  Invert(r, decimals) \in Nat /\ Invert(r, decimals) < WORD
<1>1. 2 * decimals \in Nat
  OBVIOUS
<1>2. TenTo[2 * decimals] \in Nat
  BY <1>1, Powers
<1>3. \A m, w \in Nat : w # 0 => (m \div r) % w \in Nat /\ (m \div r) % w < w
  OBVIOUS
<1> QED
  BY <1>2, <1>3, Scale DEF Invert

(* An inverse can be calculated with, however many decimals it gets.       *)
LEMMA InverseCalculable ==
    ASSUME NEW rate, rate.rates \in Seq(Nat), rate.decimals \in Nat
    PROVE  IsCalculable(Inverted(rate))
<1> DEFINE maxValue == TenTo[2 * rate.decimals]
           median == MiddleOf(Sorted(rate.rates))
           Enough == {k \in 0..2 * DECIMALS + 1 :
                         median <= maxValue * TenTo[k] \/ rate.decimals + k > 2 * DECIMALS}
           added == Min(Enough)
           decimals == rate.decimals + added
           invertible == {i \in DOMAIN rate.rates : decimals <= 2 * DECIMALS /\ rate.rates[i] > 0}
           inverses == [i \in invertible |-> Invert(rate.rates[i] * TenTo[added], decimals)]
<1>1. Inverted(rate).rates = Sorted(inverses) /\ Inverted(rate).decimals = decimals
  BY DEF Inverted, Rate
<1>2. added \in 0..2 * DECIMALS + 1
  <2>1. 2 * DECIMALS + 1 \in Enough /\ Enough \subseteq 0..2 * DECIMALS + 1
        /\ Enough \subseteq Nat
    BY ScaleAssumption
  <2> QED
    BY <2>1, LeastNumber
<1> HIDE DEF added
<1>3. decimals \in Nat
  BY <1>2, ScaleAssumption
<1>4. IsFiniteSet(DOMAIN rate.rates) /\ \A i \in DOMAIN rate.rates : rate.rates[i] \in Nat
  BY SequenceNumbers DEF IsNumbers
<1>5. ASSUME NEW i \in invertible PROVE inverses[i] \in Nat
  <2>1. TenTo[added] \in Nat \ {0}
    BY <1>2, Powers
  <2>2. rate.rates[i] \in Nat \ {0}
    BY <1>4, <1>5
  <2>3. \A m, n \in Nat \ {0} : m * n \in Nat \ {0}
    OBVIOUS
  <2>4. Invert(rate.rates[i] * TenTo[added], decimals) \in Nat
    BY <1>3, <2>1, <2>2, <2>3, InverseNumber
  <2> QED
    BY <2>4
<1>6. IsFiniteSet(invertible)
  BY <1>4, FS_Subset
<1>7. IsNumbers(inverses)
  BY <1>5, <1>6 DEF IsNumbers
<1> HIDE DEF inverses, decimals
<1> QED
  BY <1>1, <1>3, <1>7, SortedNumbers DEF IsCalculable

-----------------------------------------------------------------------------
(* validate *)

(* Half of the sorted rates and one more lie within a tenth of each other  *)
(* if and only if the two ends of some window do.                          *)
LEMMA NarrowWindow ==
    ASSUME NEW r \in Seq(Nat), IsAscending(r)
    PROVE  TRUE \in Windows(r) <=>
             \E low \in ToSet(r) :
                2 * Cardinality({i \in DOMAIN r :
                        low <= r[i] /\ r[i] <= low + low \div RATE_DEVIATION_DIVISOR})
                    >= 2 * (Len(r) \div 2) + 2
<1> DEFINE n == Len(r)
           half == n \div 2
           Near(low) == {i \in DOMAIN r : low <= r[i] /\ r[i] <= low + low \div 10}
           Narrow(end) == r[end] - r[end - half] <= r[end - half] \div 10
<1>1. /\ n \in Nat /\ half \in Nat /\ DOMAIN r = 1..n
      /\ \A i \in 1..n : r[i] \in Nat
      /\ \A i, j \in 1..n : i <= j => r[i] <= r[j]
  BY DEF IsAscending
<1>2. TRUE \in Windows(r) <=> \E end \in half + 1..n : Narrow(end)
  BY DEF Windows, RATE_DEVIATION_DIVISOR
<1>3. \A low \in ToSet(r) :
        /\ low \in Nat /\ IsFiniteSet(Near(low)) /\ Cardinality(Near(low)) \in Nat
        /\ Near(low) \subseteq 1..n
  <2>1. IsFiniteSet(1..n)
    BY <1>1, FS_Interval
  <2> QED
    BY <1>1, <2>1, FS_Subset, FS_CardinalityType DEF ToSet
<1> HIDE DEF n, half
<1>4. ASSUME NEW end \in half + 1..n, Narrow(end)
      PROVE  \E low \in ToSet(r) : Cardinality(Near(low)) >= half + 1
  <2> DEFINE low == r[end - half]
  <2>1. end - half \in 1..n /\ end \in 1..n /\ end \in Int
    BY <1>1
  <2>2. low \in ToSet(r) /\ low \in Nat
    BY <1>1, <2>1 DEF ToSet
  <2>3. ASSUME NEW i \in end - half..end PROVE i \in Near(low)
    <3>1. i \in 1..n /\ end - half <= i /\ i <= end
      BY <1>1, <2>1
    <3>2. low <= r[i] /\ r[i] <= r[end] /\ r[i] \in Nat /\ r[end] \in Nat
      BY <1>1, <2>1, <3>1
    <3>3. r[end] <= low + low \div 10
      BY <1>4, <2>2, <3>2
    <3> HIDE DEF low
    <3>4. r[i] <= low + low \div 10
      BY <2>2, <3>2, <3>3
    <3> QED
      BY <1>1, <3>1, <3>2, <3>4
  <2>4. Cardinality(end - half..end) = half + 1
    BY <1>1, <2>1, FS_Interval
  <2>5. Cardinality(end - half..end) <= Cardinality(Near(low))
    <3>1. end - half..end \subseteq Near(low) /\ IsFiniteSet(Near(low))
      BY <1>3, <2>2, <2>3
    <3> QED
      BY <3>1, FS_Subset
  <2>6. Cardinality(Near(low)) >= half + 1
    BY <1>1, <1>3, <2>2, <2>4, <2>5
  <2> QED
    BY <2>2, <2>6
<1>5. ASSUME NEW low \in ToSet(r), Cardinality(Near(low)) >= half + 1
      PROVE  \E end \in half + 1..n : Narrow(end)
  <2> HIDE DEF Near
  <2>1. low \in Nat /\ IsFiniteSet(Near(low)) /\ Cardinality(Near(low)) \in Nat
        /\ Near(low) \subseteq 1..n /\ Near(low) \subseteq Int /\ Near(low) \subseteq Nat
    BY <1>1, <1>3
  <2>2. Near(low) # {}
    <3>1. Cardinality(Near(low)) # 0
      BY <1>1, <1>5, <2>1
    <3> QED
      BY <3>1, FS_EmptySet
  <2>3. PICK first \in Near(low) : \A i \in Near(low) : first <= i
    BY <2>1, <2>2, LeastNatural
  <2>4. PICK last \in Near(low) : \A i \in Near(low) : i <= last
    BY <2>1, <2>2, GreatestInteger
  <2>5. /\ first \in 1..n /\ last \in 1..n /\ low <= r[first]
        /\ r[last] <= low + low \div 10
    BY <2>1 DEF Near
  <2>6. Cardinality(Near(low)) <= Cardinality(first..last)
    <3>1. Near(low) \subseteq first..last
      BY <2>1, <2>3, <2>4
    <3>2. IsFiniteSet(first..last)
      BY <1>1, <2>5, FS_Interval
    <3> QED
      BY <3>1, <3>2, FS_Subset
  <2>7. Cardinality(first..last) = last - first + 1
    <3>1. first <= last /\ first \in Int /\ last \in Int
      BY <1>1, <2>3, <2>4, <2>5
    <3> QED
      BY <3>1, FS_Interval
  <2> DEFINE end == first + half
  <2>8. end \in half + 1..n /\ end <= last /\ end \in 1..n /\ end - half = first
    BY <1>1, <1>5, <2>1, <2>5, <2>6, <2>7
  <2>9. r[end] <= r[last] /\ r[end] \in Nat /\ r[last] \in Nat /\ r[first] \in Nat
    BY <1>1, <2>5, <2>8
  <2>10. r[end] - r[first] <= r[first] \div 10
    <3>1. \A x, y, z \in Nat : x <= y /\ z <= x + x \div 10 => z - y <= y \div 10
      OBVIOUS
    <3> HIDE DEF end
    <3>2. r[end] <= low + low \div 10
      BY <2>1, <2>5, <2>9
    <3> QED
      BY <2>1, <2>5, <2>9, <3>1, <3>2
  <2> QED
    BY <2>8, <2>10
<1>6. \A low \in ToSet(r) :
        Cardinality(Near(low)) >= half + 1 <=> 2 * Cardinality(Near(low)) >= 2 * half + 2
  <2> HIDE DEF Near
  <2> QED
    BY <1>1, <1>3
<1>7. TRUE \in Windows(r) <=> \E low \in ToSet(r) : 2 * Cardinality(Near(low)) >= 2 * half + 2
  BY <1>2, <1>4, <1>5, <1>6
<1> QED
  BY <1>7 DEF n, half, RATE_DEVIATION_DIVISOR

LEMMA MedianNumber == \A s \in Seq(Nat) : Median(s) \in Nat
<1> SUFFICES ASSUME NEW s \in Seq(Nat) PROVE Median(s) \in Nat
  OBVIOUS
<1> DEFINE t == Sorted(s)
           n == Len(t)
<1>1. t \in Seq(Nat)
  BY SequenceNumbers, SortedNumbers
<1> HIDE DEF t
<1>2. n \in Nat /\ \A i \in 1..n : t[i] \in Nat
  BY <1>1
<1>3. Median(s) = IF n = 0 THEN 0
                  ELSE IF n % 2 = 0 THEN ((t[n \div 2] + t[n \div 2 + 1]) % WORD) \div 2
                  ELSE t[n \div 2 + 1]
  BY DEF Median, t
<1> HIDE DEF n
<1>4. CASE n = 0
  BY <1>3, <1>4
<1>5. CASE n # 0 /\ n % 2 = 0
  <2>1. n \div 2 \in 1..n /\ n \div 2 + 1 \in 1..n
    BY <1>2, <1>5
  <2>2. \A x, y \in Nat : ((x + y) % WORD) \div 2 \in Nat
    BY Scale
  <2> QED
    BY <1>2, <1>3, <1>5, <2>1, <2>2
<1>6. CASE n # 0 /\ n % 2 # 0
  <2>1. n \div 2 + 1 \in 1..n
    BY <1>2, <1>6
  <2> QED
    BY <1>2, <1>3, <1>6, <2>1
<1> QED
  BY <1>4, <1>5, <1>6

LEMMA NoMedian == Median(<<>>) = 0
<1>1. <<>> \in Seq(Nat) /\ DOMAIN <<>> = {}
  OBVIOUS
<1>2. Len(Sorted(<<>>)) = 0
  BY <1>1, SequenceNumbers, SortedRanks, FS_EmptySet
<1> QED
  BY <1>2 DEF Median

-----------------------------------------------------------------------------
(* The rates a quote is composed of *)

LEMMA OperandRates ==
    ASSUME NEW o, IsNumbers(received[o])
    PROVE  /\ OperandOf(o).rates = Retained(received[o])
           /\ OperandOf(o).rates \in Seq(1..MaxRate) /\ OperandOf(o).rates \in Seq(Nat)
           /\ OperandOf(o).decimals = DECIMALS
<1>1. OperandOf(o).rates = Retained(received[o]) /\ OperandOf(o).decimals = DECIMALS
  BY DEF OperandOf, NewRate, Rate
<1>2. Retained(received[o]) \in Seq(1..MaxRate)
  BY RetainedRates
<1>3. Seq(1..MaxRate) \subseteq Seq(Nat)
  BY Scale
<1> QED
  BY <1>1, <1>2, <1>3

(* Of two coins the one is taken whose rate is nearest to the median.      *)
LEMMA StablecoinIs ==
    ASSUME NEW coins, coins \in [1..2 -> {OperandOf("coin1"), OperandOf("coin2")}],
           IsNumbers(received["coin1"]), IsNumbers(received["coin2"]),
           NEW target
    PROVE  \E new :
              /\ StablecoinRate(coins, target) = Inverted(new)
              /\ new.rates \in Seq(1..MaxRate) /\ new.decimals = DECIMALS
              /\ \A c \in ToSet(new.rates) : \E i \in 1..2 : c \in ToSet(coins[i].rates)
<1> DEFINE medians == CoinMedians(coins)
           m == Median(medians)
           nearest(i) == \A j \in 1..Len(medians) :
                            Distance(medians[i], m) <= Distance(medians[j], m)
           first == CHOOSE i \in 1..Len(medians) : nearest(i) /\ \A j \in 1..i - 1 : ~nearest(j)
           best == MedianInSet(medians)
           place == CHOOSE i \in DOMAIN coins :
                       medians[i] = best /\ \A j \in 1..i - 1 : medians[j] # best
           chosen == coins[place]
           new == NewRate(target, chosen.quote.asset, chosen.rates,
                          chosen.base.queried, chosen.base.received, NoTime)
<1>1. \A i \in 1..2 : coins[i].rates \in Seq(Nat)
  BY OperandRates
<1>2. DOMAIN coins = 1..2
  OBVIOUS
<1>3. medians \in [1..2 -> Nat]
  BY <1>1, <1>2, MedianNumber DEF CoinMedians
<1>4. medians \in Seq(Nat) /\ Len(medians) = 2
  <2> HIDE DEF medians
  <2>1. \A n \in Nat : \A f \in [1..n -> Nat] : f \in Seq(Nat) /\ Len(f) = n
    OBVIOUS
  <2> QED
    BY <1>3, <2>1
<1>5. m \in Nat
  BY <1>4, MedianNumber
<1> HIDE DEF medians, m
<1>6. best = medians[first]
  BY <1>4 DEF MedianInSet, m
<1>7. first \in 1..2
  <2>1. \A i \in 1..2 : Distance(medians[i], m) \in Nat
    BY <1>3, <1>5 DEF Distance
  <2>2. \A i \in 1..2 : nearest(i) <=>
           /\ Distance(medians[i], m) <= Distance(medians[1], m)
           /\ Distance(medians[i], m) <= Distance(medians[2], m)
    BY <1>4
  <2>3. nearest(1) \/ nearest(2)
    BY <2>1, <2>2
  <2> HIDE DEF nearest
  <2>4. \E i \in 1..2 : nearest(i) /\ \A j \in 1..i - 1 : ~nearest(j)
    <3>1. CASE nearest(1)
      BY <3>1
    <3>2. CASE ~nearest(1)
      <4>1. nearest(2) /\ \A j \in 1..2 - 1 : ~nearest(j)
        BY <2>3, <3>2
      <4> QED
        BY <4>1
    <3> QED
      BY <3>1, <3>2
  <2> QED
    BY <1>4, <2>4
<1> HIDE DEF best, first
<1>8. place \in 1..2
  <2>1. \E i \in 1..2 : medians[i] = best /\ \A j \in 1..i - 1 : medians[j] # best
    <3>1. CASE medians[1] = best
      BY <3>1
    <3>2. CASE medians[1] # best
      <4>1. first = 2
        BY <1>6, <1>7, <3>2
      <4>2. medians[2] = best /\ \A j \in 1..2 - 1 : medians[j] # best
        BY <1>6, <3>2, <4>1
      <4> QED
        BY <4>2
    <3> QED
      BY <3>1, <3>2
  <2> QED
    BY <1>2, <2>1
<1> HIDE DEF place
<1>9. chosen.rates \in Seq(Nat)
  BY <1>1, <1>8
<1>10. StablecoinRate(coins, target) = Inverted(new)
  BY DEF StablecoinRate, best, place, medians
<1> HIDE DEF chosen
<1>11. /\ new.rates \in Seq(1..MaxRate) /\ new.decimals = DECIMALS
       /\ ToSet(new.rates) \subseteq ToSet(chosen.rates)
  <2>1. new.rates = Retained(chosen.rates) /\ new.decimals = DECIMALS
    BY DEF NewRate, Rate
  <2>2. Retained(chosen.rates) \in Seq(1..MaxRate)
    BY <1>9, SequenceNumbers, RetainedRates
  <2>3. ToSet(Retained(chosen.rates)) \subseteq Range(chosen.rates)
    BY <1>9, SequenceNumbers, RetainedValues
  <2> QED
    BY <2>1, <2>2, <2>3 DEF Range, ToSet
<1> HIDE DEF new
<1>12. chosen.rates = coins[place].rates
  BY DEF chosen
<1> QED
  BY <1>8, <1>10, <1>11, <1>12

LEMMA TwoCoins ==
    ASSUME StablecoinResult(Coins) = "Ok"
    PROVE  Coins \in [1..2 -> {OperandOf("coin1"), OperandOf("coin2")}]
<1> DEFINE x == OperandOf("coin1")
           y == OperandOf("coin2")
           a == IF received["coin1"] = <<>> THEN <<>> ELSE <<x>>
           b == IF received["coin2"] = <<>> THEN <<>> ELSE <<y>>
<1>1. Coins = a \o b
  BY DEF Coins
<1>2. ~ (Len(Coins) < 2)
  BY DEF StablecoinResult, MIN_NUM_STABLECOIN_RATES
<1> HIDE DEF x, y
<1>3. ASSUME NEW u, NEW v
      PROVE  /\ Len(<<>> \o <<>>) = 0 /\ Len(<<u>> \o <<>>) = 1
             /\ Len(<<>> \o <<v>>) = 1 /\ <<u>> \o <<v>> = <<u, v>>
  <2>1. /\ <<>> \in Seq({u, v}) /\ <<u>> \in Seq({u, v})
        /\ <<v>> \in Seq({u, v}) /\ <<u, v>> \in Seq({u, v})
    OBVIOUS
  <2>2. /\ Len(<<>>) = 0 /\ Len(<<u>>) = 1 /\ Len(<<v>>) = 1 /\ Len(<<u, v>>) = 2
        /\ <<u>>[1] = u /\ <<v>>[1] = v /\ <<u, v>>[1] = u /\ <<u, v>>[2] = v
    OBVIOUS
  <2>3. Len(<<>> \o <<>>) = 0 /\ Len(<<u>> \o <<>>) = 1 /\ Len(<<>> \o <<v>>) = 1
    BY <2>1, <2>2, ConcatProperties
  <2>4. <<u>> \o <<v>> \in Seq({u, v}) /\ Len(<<u>> \o <<v>>) = 2
    BY <2>1, <2>2, ConcatProperties
  <2>5. (<<u>> \o <<v>>)[1] = u /\ (<<u>> \o <<v>>)[2] = v
    BY <2>1, <2>2, ConcatProperties
  <2>6. \A i \in 1..Len(<<u>> \o <<v>>) : (<<u>> \o <<v>>)[i] = <<u, v>>[i]
    BY <2>2, <2>4, <2>5
  <2>7. <<u>> \o <<v>> = <<u, v>>
    BY <2>1, <2>2, <2>4, <2>6, SeqEqual
  <2> QED
    BY <2>3, <2>7
<1>4. (a = <<>> \/ a = <<x>>) /\ (b = <<>> \/ b = <<y>>)
  OBVIOUS
<1> HIDE DEF a, b
<1>5. a = <<x>> /\ b = <<y>>
  <2>1. CASE a = <<>> /\ b = <<>>
    BY <1>1, <1>2, <1>3, <2>1
  <2>2. CASE a = <<>> /\ b = <<y>>
    BY <1>1, <1>2, <1>3, <2>2
  <2>3. CASE a = <<x>> /\ b = <<>>
    BY <1>1, <1>2, <1>3, <2>3
  <2> QED
    BY <1>4, <2>1, <2>2, <2>3
<1>6. Coins = <<x, y>>
  BY <1>1, <1>3, <1>5
<1>7. \A u, v : <<u, v>> \in [1..2 -> {u, v}]
  OBVIOUS
<1> QED
  BY <1>6, <1>7 DEF x, y

LEMMA ComposedRates ==
    ASSUME request.pair \in {"same", "cf", "fc"},
           \A o \in Operands(request.pair) : IsNumbers(received[o]),
           OperandsResult = "Ok"
    PROVE  /\ Composed.rates \in Seq(1..MaxRate) /\ IsAscending(Composed.rates)
           /\ Composed.decimals \in Nat
           /\ Composed.rates # <<>> => Composed.decimals <= 2 * DECIMALS
<1>1. DECIMALS \in Nat
  BY ScaleAssumption
<1>2. CASE request.pair = "same"
  <2>1. IsNumbers(received["base"]) /\ IsNumbers(received["quote"])
    BY <1>2 DEF Operands
  <2>2. IsCalculable(Inverted(OperandOf("quote")))
    BY <2>1, OperandRates, InverseCalculable, ScaleAssumption
  <2>3. OperandOf("base").rates \in Seq(Nat) /\ OperandOf("base").decimals \in Nat
    BY <1>1, <2>1, OperandRates
  <2>4. Composed = Times(OperandOf("base"), Inverted(OperandOf("quote")))
    BY <1>2 DEF Composed, DividedBy
  <2> QED
    BY <2>2, <2>3, <2>4, ProductInRange
<1>3. CASE request.pair # "same"
  <2>1. /\ IsNumbers(received["base"]) /\ IsNumbers(received["forex"])
        /\ IsNumbers(received["coin1"]) /\ IsNumbers(received["coin2"])
    BY <1>3 DEF Operands
  <2>2. StablecoinResult(Coins) = "Ok"
    BY <1>3 DEF OperandsResult
  <2>3. IsCalculable(StablecoinRate(Coins, "USD"))
    <3>1. PICK new : /\ StablecoinRate(Coins, "USD") = Inverted(new)
                     /\ new.rates \in Seq(1..MaxRate) /\ new.decimals = DECIMALS
      BY <2>1, <2>2, TwoCoins, StablecoinIs
    <3>2. Seq(1..MaxRate) \subseteq Seq(Nat)
      BY Scale
    <3> QED
      BY <3>1, <3>2, InverseCalculable, ScaleAssumption
  <2> DEFINE inUSD == Times(OperandOf("base"), StablecoinRate(Coins, "USD"))
  <2>4. OperandOf("base").rates \in Seq(Nat) /\ OperandOf("base").decimals \in Nat
    BY <1>1, <2>1, OperandRates
  <2>5. inUSD.rates \in Seq(1..MaxRate) /\ inUSD.decimals \in Nat
    BY <2>3, <2>4, ProductInRange
  <2>6. inUSD.rates \in Seq(Nat)
    <3>1. Seq(1..MaxRate) \subseteq Seq(Nat)
      BY Scale
    <3> QED
      BY <2>5, <3>1
  <2>7. IsCalculable(Inverted(OperandOf("forex")))
    BY <2>1, OperandRates, InverseCalculable, ScaleAssumption
  <2>8. Composed = Times(inUSD, Inverted(OperandOf("forex")))
    BY <1>3 DEF Composed, DividedBy
  <2> HIDE DEF inUSD
  <2> QED
    BY <2>5, <2>6, <2>7, <2>8, ProductInRange
<1> QED
  BY <1>2, <1>3

(* What a validated rate is. *)
IsComposed(answer) ==
    /\ answer.direct.rates \in Seq(1..MaxRate) /\ IsAscending(answer.direct.rates)
    /\ answer.direct.decimals \in Nat
    /\ answer.direct.rates # <<>> => answer.direct.decimals <= 2 * DECIMALS
    /\ answer.result = Validated(answer.direct)

LEMMA ReplyComposed ==
    ASSUME request.pair \in {"same", "cf", "fc"},
           \A o \in Operands(request.pair) : IsNumbers(received[o]),
           ReplyTo.result \in {"Ok", "InconsistentRatesReceived"}
    PROVE  IsComposed(ReplyTo)
<1>1. OperandsResult # "InconsistentRatesReceived"
  BY DEF OperandsResult, StablecoinResult
<1>2. ReplyTo.result = IF OperandsResult = "Ok" THEN Validated(Composed) ELSE OperandsResult
  BY DEF ReplyTo
<1>3. OperandsResult = "Ok"
  BY <1>1, <1>2
<1>4. ReplyTo.direct = Composed
  BY <1>3 DEF ReplyTo
<1> QED
  BY <1>2, <1>3, <1>4, ComposedRates DEF IsComposed

-----------------------------------------------------------------------------
(* The exchanges and their trades *)

LEMMA ListedNames == IsFiniteSet(ToSet(EXCHANGES)) /\ IsFiniteSet(ToSet(AllForexSources))
<1>1. ASSUME NEW n \in Nat, NEW s, s = [i \in 1..n |-> s[i]] PROVE IsFiniteSet(ToSet(s))
  <2>1. IsFiniteSet(1..n) /\ DOMAIN s = 1..n
    BY <1>1, FS_Interval
  <2>2. s \in Surjection(1..n, ToSet(s))
    BY <1>1, <2>1 DEF Surjection, ToSet
  <2> QED
    BY <2>1, <2>2, FS_Surjection
<1>2. EXCHANGES = [i \in 1..9 |-> EXCHANGES[i]]
  BY DEF EXCHANGES
<1>3. AllForexSources = [i \in 1..11 |-> AllForexSources[i]]
  BY DEF AllForexSources
<1>4. 9 \in Nat /\ 11 \in Nat
  OBVIOUS
<1> QED
  BY <1>1, <1>2, <1>3, <1>4

LEMMA RequestFacts ==
    ASSUME request \in Requests
    PROVE  /\ request.pair \in {"same", "cf", "fc"}
           /\ request.live \in Operands(request.pair) \cup {"none"}
           /\ IsFiniteSet(request.sources)
           /\ request.timestamp \in Nat /\ request.timestamp > 0
           /\ request.timestamp % MINUTE = 0 /\ request.timestamp <= MaxTime
           /\ request.day \in Nat
           /\ request.live = "forex" => request.sources \subseteq ToSet(AllForexSources)
<1>1. /\ request \in Request /\ request.live \in Operands(request.pair) \cup {"none"}
      /\ request.sources \subseteq ToSet(IF request.live = "forex" THEN AllForexSources ELSE EXCHANGES)
      /\ request.timestamp > 0 /\ request.timestamp % MINUTE = 0 /\ request.timestamp <= MaxTime
  BY RatePathAssumption
<1>2. request.pair \in {"same", "cf", "fc"} /\ request.timestamp \in Nat /\ request.day \in Nat
  BY <1>1 DEF Request
<1>3. IsFiniteSet(request.sources)
  BY <1>1, ListedNames, FS_Subset
<1> QED
  BY <1>1, <1>2, <1>3

LEMMA GreatestMember ==
    ASSUME NEW T, IsFiniteSet(T), T \subseteq Int, T # {}
    PROVE  Max(T) \in T /\ \A x \in T : x <= Max(T)
<1>1. PICK m \in T : \A x \in T : x <= m
  BY GreatestInteger
<1>2. \A x \in T : m >= x
  BY <1>1
<1> QED
  BY <1>1, <1>2 DEF Max

(* The candle looked at is one of the answer. *)
LEMMA CandleOfAnswer ==
    ASSUME NEW exchange, NEW f, IsTrading(f), NEW t,
           CandlesInAnswer(exchange, f, t) # {}
    PROVE  FirstCandle(exchange, CandlesInAnswer(exchange, f, t))
               \in CandlesInAnswer(exchange, f, t)
<1>1. CandlesInAnswer(exchange, f, t) \subseteq DOMAIN f
  BY DEF CandlesInAnswer
<1> DEFINE C == CandlesInAnswer(exchange, f, t)
<1>2. IsFiniteSet(C) /\ C \subseteq Nat /\ C \subseteq Int
  BY <1>1, FS_Subset DEF IsTrading
<1> HIDE DEF C
<1>3. C # {} => Max(C) \in C /\ Min(C) \in C
  BY <1>2, GreatestMember, LeastNumber
<1> QED
  BY <1>3 DEF FirstCandle, C

LEMMA ListedNumber ==
    ASSUME NEW name, NEW price \in Prices
    PROVE  ListedPrice(name, price) \in Nat /\ ListedPrice(name, price) \div 10 \in 0..WORD - 1
<1>1. price \in Nat \ {0} /\ price < 10 * WORD /\ WORD \in Nat
  BY Scale DEF Prices
<1>2. CASE ~IsInverse(name)
  BY <1>1, <1>2 DEF ListedPrice
<1>3. CASE IsInverse(name)
  <2>1. PRICE_UNIT * PRICE_UNIT = 100 * MaxRate
    <3>1. \A u \in Nat : (10 * u) * (10 * u) = 100 * (u * u)
      OBVIOUS
    <3> QED
      BY <3>1, Scale DEF PRICE_UNIT, MaxRate
  <2>2. \A m \in Nat, p \in Nat \ {0} : m \div p \in Nat /\ m \div p <= m
    OBVIOUS
  <2>3. MaxRate \in Nat /\ 100 * MaxRate \in Nat
    BY Scale
  <2>4. (100 * MaxRate) \div price \in Nat /\ (100 * MaxRate) \div price <= 100 * MaxRate
    BY <1>1, <2>2, <2>3
  <2>5. ListedPrice(name, price) = (100 * MaxRate) \div price
    BY <1>3, <2>1 DEF ListedPrice
  <2>6. \A q \in Nat : q <= 100 * MaxRate => q \div 10 \in 0..WORD - 1
    BY <2>3, Scale
  <2> QED
    BY <2>4, <2>5, <2>6
<1> QED
  BY <1>2, <1>3

(* The price taken from a candle is one of its prices.                     *)
LEMMA PriceTaken ==
    ASSUME NEW exchange, NEW n \in Nat \ {0}, NEW f \in [1..n -> Int]
    PROVE  \E i \in 1..n : PriceOf(exchange, f) = f[i]
<1>1. ToSet(f) \subseteq Int /\ ToSet(f) # {}
  BY DEF ToSet
<1>2. IsFiniteSet(ToSet(f))
  <2>1. f \in Surjection(1..n, ToSet(f))
    BY DEF Surjection, ToSet
  <2> QED
    BY <2>1, FS_Surjection, FS_Interval
<1>3. Max(ToSet(f)) \in ToSet(f)
  BY <1>1, <1>2, GreatestMember
<1>4. PICK i \in 1..n : Max(ToSet(f)) = f[i]
  BY <1>3 DEF ToSet
<1>5. Head(f) = f[1]
  <2>1. f \in Seq(Int)
    OBVIOUS
  <2> QED
    BY <2>1
<1> QED
  BY <1>4, <1>5 DEF PriceOf

(* An exchange's answer gives a 64-bit rate, or none. *)
LEMMA TransformedType ==
    ASSUME NEW name, IsTrading(trades)
    PROVE  Transformed(name) \in Responses
<1> DEFINE exchange == Exchange(name, request.timestamp)
           candles == CandlesInAnswer(exchange, trades, now)
           start == FirstCandle(exchange, candles)
           prices == trades[start]
           listed == [i \in DOMAIN prices |-> ListedPrice(name, prices[i])]
<1>1. Transformed(name) = IF candles = {} THEN Without("NoData")
                          ELSE Found(PriceOf(exchange, listed) \div 10)
  BY DEF Transformed
<1>2. Without("NoData") \in Responses
  <2>1. 0 \in 0..WORD - 1
    BY Scale
  <2> QED
    BY <2>1 DEF Without, Responses
<1>3. ASSUME candles # {} PROVE PriceOf(exchange, listed) \div 10 \in 0..WORD - 1
  <2>1. start \in DOMAIN trades /\ prices # <<>>
    <3>1. start \in candles
      BY <1>3, CandleOfAnswer
    <3> QED
      BY <3>1 DEF CandlesInAnswer
  <2>2. prices \in Seq(Prices)
    BY <2>1 DEF IsTrading
  <2> HIDE DEF start, candles, prices, exchange
  <2>3. /\ DOMAIN prices = 1..Len(prices) /\ Len(prices) \in Nat /\ Len(prices) # 0
        /\ \A i \in DOMAIN prices : prices[i] \in Prices
    BY <2>1, <2>2
  <2>4. \A i \in DOMAIN prices : listed[i] \in Nat /\ listed[i] \div 10 \in 0..WORD - 1
    BY <2>3, ListedNumber
  <2>5. listed \in [1..Len(prices) -> Int]
    BY <2>3, <2>4
  <2> HIDE DEF listed
  <2>6. PICK i \in 1..Len(prices) : PriceOf(exchange, listed) = listed[i]
    BY <2>3, <2>5, PriceTaken
  <2> QED
    BY <2>3, <2>4, <2>6
<1> HIDE DEF candles, listed, exchange
<1>4. \A rate \in 0..WORD - 1 : Found(rate) \in Responses
  BY DEF Found, Responses
<1> QED
  BY <1>1, <1>2, <1>3, <1>4

(* What call_exchange and call_exchange_for_stablecoin return. *)
LEMMA OutcomeType ==
    ASSUME NEW name, fetched[name] \in [Replicas -> Responses]
    PROVE  Outcome(name) \in Responses /\ Oriented(name, Outcome(name)) \in Responses
<1>1. \A kind \in {"Http", "NoRatesFound"} : Without(kind) \in Responses
  <2>1. 0 \in 0..WORD - 1
    BY Scale
  <2> QED
    BY <2>1 DEF Without, Responses
<1>2. Outcome(name) \in Responses
  <2>1. Agreed(name) \subseteq Responses
    BY DEF Agreed
  <2> HIDE DEF Agreed
  <2> QED
    BY <1>1, <2>1 DEF Outcome
<1> DEFINE outcome == Outcome(name)
<1> HIDE DEF outcome
<1>3. ASSUME outcome \in Responses PROVE Oriented(name, outcome) \in Responses
  <2>1. outcome.rate \in Nat
    BY <1>3, Scale DEF Responses
  <2>2. outcome.rate # 0 => Invert(outcome.rate, DECIMALS) \in 0..WORD - 1
    <3>1. DECIMALS \in Nat
      BY ScaleAssumption
    <3>2. outcome.rate # 0 =>
            /\ Invert(outcome.rate, DECIMALS) \in Nat
            /\ Invert(outcome.rate, DECIMALS) < WORD
      BY <2>1, <3>1, InverseNumber
    <3> QED
      BY <3>2, Scale
  <2>3. \A rate \in 0..WORD - 1 : Found(rate) \in Responses
    BY DEF Found, Responses
  <2> QED
    BY <1>1, <1>3, <2>2, <2>3 DEF Oriented
<1> QED
  BY <1>2, <1>3 DEF outcome

(* The windows of Coinbase and KuCoin end before the requested minute and  *)
(* do not depend on the time.                                              *)
LEMMA ClosedWindow ==
    ASSUME NEW name \in {"Coinbase", "KuCoin"}, request \in Requests
    PROVE  /\ Exchange(name, request.timestamp).closedOnly = FALSE
           /\ \A start \in Nat :
                 1000 * start <= Exchange(name, request.timestamp).to => start < request.timestamp
<1> DEFINE t == (request.timestamp \div MINUTE) * MINUTE
<1>1. /\ t = request.timestamp /\ t \in Nat /\ t >= 60
  BY RequestFacts DEF MINUTE
<1> HIDE DEF t
<1>2. Before(t, 60) = t - 60
  BY <1>1 DEF Before
<1>3. CASE name = "Coinbase"
  <2>1. Exchange(name, request.timestamp) = Coinbase(t)
    BY <1>3 DEF Exchange, t
  <2>2. Coinbase(t).closedOnly = FALSE /\ Coinbase(t).to = 1000 * (t - 60)
    BY <1>2 DEF Coinbase, DefaultExchange, COINBASE_CANDLE_END_OFFSET_SEC
  <2> QED
    BY <1>1, <2>1, <2>2
<1>4. CASE name = "KuCoin"
  <2>1. Exchange(name, request.timestamp) = KuCoin(t)
    BY <1>4 DEF Exchange, t
  <2>2. KuCoin(t).closedOnly = FALSE /\ KuCoin(t).to = 1000 * ((t - 60) + 1) - 1
    BY <1>2 DEF KuCoin, DefaultExchange, KUCOIN_CANDLE_END_OFFSET_SEC
  <2> QED
    BY <1>1, <2>1, <2>2
<1> QED
  BY <1>3, <1>4

-----------------------------------------------------------------------------
(* The banks and their documents *)

HasNumbers(document) ==
    \A item \in document.items :
        item.num \in Nat /\ item.den \in Nat \ {0} /\ item.units \in Nat \ {0}

HasRates(answer) == answer.ok => answer.rates \in [DOMAIN answer.rates -> 0..WORD - 1]

LEMMA ItemNumber ==
    ASSUME NEW source, NEW item, item.num \in Nat, item.den \in Nat \ {0},
           item.units \in Nat \ {0}
    PROVE  ItemRate(source, item) \in Nat
<1>1. \A m \in Nat, n \in Nat \ {0} : m \div n \in Nat
  OBVIOUS
<1>2. \A m, n \in Nat \ {0} : m * n \in Nat \ {0}
  OBVIOUS
<1>3. item.num * RATE_UNIT \in Nat /\ item.den * RATE_UNIT \in Nat
  <2>1. \A m, n \in Nat : m * n \in Nat
    OBVIOUS
  <2> QED
    BY <2>1, Scale
<1> DEFINE units == UnitsTaken(source, item)
<1>4. item.den * units \in Nat \ {0}
  <2>1. units \in Nat \ {0}
    BY DEF UnitsTaken
  <2> QED
    BY <1>2, <2>1
<1>5. WORD - 1 \in Nat
  BY Scale
<1>6. (item.num * RATE_UNIT) \div (item.den * units) \in Nat
  BY <1>1, <1>3, <1>4
<1>7. item.num # 0 => (item.den * RATE_UNIT) \div item.num \in Nat
  BY <1>1, <1>3
<1> QED
  BY <1>5, <1>6, <1>7 DEF ItemRate

(* Whatever a bank publishes, the rates taken from it are 64-bit numbers.  *)
LEMMA ExtractedRates ==
    ASSUME NEW name, NEW document, HasNumbers(document), NEW date
    PROVE  HasRates(ExtractRates(name, document, date))
<1> DEFINE source == ForexSource(name)
           items == UsableItems(source, document, date)
           quoted == {item.symbol : item \in items}
           rate(c) == ItemRate(source, CHOOSE item \in items : item.symbol = c)
           D == quoted \cup ({source.own} \ {"none"})
           values == [c \in D |-> IF c = source.own THEN RATE_UNIT ELSE rate(c)]
<1>1. ExtractRates(name, document, date) \in {Fails, NormalizeToUsd(values)}
  BY DEF ExtractRates
<1>2. \A c \in quoted : rate(c) \in Nat
  <2> SUFFICES ASSUME NEW c \in quoted PROVE rate(c) \in Nat
    OBVIOUS
  <2> DEFINE chosen == CHOOSE item \in items : item.symbol = c
  <2>1. chosen \in items
    OBVIOUS
  <2>2. chosen \in document.items
    BY <2>1 DEF UsableItems
  <2> HIDE DEF chosen
  <2>3. ItemRate(source, chosen) \in Nat
    BY <2>2, ItemNumber DEF HasNumbers
  <2> QED
    BY <2>3 DEF chosen
<1> HIDE DEF source, items, rate
<1>3. \A c \in D : values[c] \in Nat
  BY <1>2, Scale
<1>4. DOMAIN values = D
  OBVIOUS
<1> HIDE DEF values, D
<1>5. HasRates(Fails)
  BY DEF HasRates, Fails
<1>6. HasRates(NormalizeToUsd(values))
  <2> DEFINE usd == values["USD"]
             rates == [c \in DOMAIN values |-> ((RATE_UNIT * values[c]) \div usd) % WORD]
  <2>1. NormalizeToUsd(values) =
          IF "USD" \notin DOMAIN values \/ usd = 0 THEN Fails ELSE Answer(rates)
    BY DEF NormalizeToUsd
  <2>2. ASSUME "USD" \in DOMAIN values, usd # 0 PROVE rates \in [DOMAIN rates -> 0..WORD - 1]
    <3>1. usd \in Nat \ {0}
      BY <1>3, <1>4, <2>2
    <3>2. \A v \in Nat : ((RATE_UNIT * v) \div usd) % WORD \in 0..WORD - 1
      <4>1. \A m, n \in Nat : m * n \in Nat
        OBVIOUS
      <4>2. \A m \in Nat, n, w \in Nat \ {0} : (m \div n) % w \in 0..w - 1
        OBVIOUS
      <4> QED
        BY <3>1, <4>1, <4>2, Scale
    <3> QED
      BY <1>3, <1>4, <3>2
  <2> HIDE DEF rates
  <2>3. ("USD" \in DOMAIN values /\ usd # 0) => HasRates(Answer(rates))
    BY <2>2 DEF HasRates, Answer
  <2> QED
    BY <1>5, <2>1, <2>3
<1> QED
  BY <1>1, <1>5, <1>6

(* The documents have the numbers that the worths of currencies give them. *)
LEMMA PublishedNumbers ==
    ASSUME request \in Requests, NEW name \in request.sources, name \in ToSet(AllForexSources),
           NEW date \in {QueryDay(name, request.day), QueryDay(name, request.day) - 1},
           NEW symbols, symbols \subseteq DOMAIN Worth[request.day], NEW zeros
    PROVE  HasNumbers(Published(name, Worth, symbols, date, zeros))
<1> DEFINE day == date - PublicationShift(name)
<1>1. day \in request.day - 2..request.day + 1
  <2>1. ForexSource(name).queryShift \in {0, 1}
    <3>1. name \in {"CentralBankOfMyanmar", "CentralBankOfBosniaHerzegovina",
                   "EuropeanCentralBank", "BankOfCanada",
                   "CentralBankOfUzbekistan", "ReserveBankOfAustralia",
                   "CentralBankOfNepal", "CentralBankOfGeorgia",
                   "BankOfItaly", "SwissFederalOfficeForCustoms",
                   "CentralBankOfTurkey"}
      BY DEF AllForexSources, ToSet
    <3>2. ForexSource(name) \in {CentralBankOfMyanmar,
                                CentralBankOfBosniaHerzegovina,
                                EuropeanCentralBank, BankOfCanada,
                                CentralBankOfUzbekistan,
                                ReserveBankOfAustralia, CentralBankOfNepal,
                                CentralBankOfGeorgia, BankOfItaly,
                                SwissFederalOfficeForCustoms,
                                CentralBankOfTurkey}
      BY <3>1 DEF ForexSource
    <3> QED
      BY <3>2 DEF DefaultSource, CentralBankOfMyanmar, CentralBankOfBosniaHerzegovina,
         EuropeanCentralBank, BankOfCanada, CentralBankOfUzbekistan,
         ReserveBankOfAustralia, CentralBankOfNepal, CentralBankOfGeorgia,
         BankOfItaly, SwissFederalOfficeForCustoms, CentralBankOfTurkey
  <2>2. PublicationShift(name) \in {0, 1}
    BY DEF PublicationShift
  <2>3. request.day \in Nat
    BY RequestFacts
  <2> QED
    BY <2>1, <2>2, <2>3 DEF QueryDay
<1>2. \A c \in DOMAIN Worth[request.day] \cup {HomeCurrency(name)} : Worth[day][c] \in Nat \ {0}
  BY <1>1, RatePathAssumption
<1> HIDE DEF day
<1>3. ASSUME NEW c \in symbols
      PROVE  LET item == PublishedItem(name, Worth, c, date, c \in zeros)
             IN  item.num \in Nat /\ item.den \in Nat \ {0} /\ item.units \in Nat \ {0}
  <2>1. Worth[day][c] \in Nat \ {0} /\ Worth[day][HomeCurrency(name)] \in Nat \ {0}
    BY <1>2
  <2>2. Units(c) \in Nat \ {0}
    BY DEF Units
  <2>3. \A m, n \in Nat \ {0} : m * n \in Nat \ {0}
    OBVIOUS
  <2> QED
    BY <2>1, <2>2, <2>3 DEF PublishedItem, day
<1> QED
  BY <1>3 DEF HasNumbers, Published

LEMMA PossibleNumbers ==
    ASSUME request \in Requests, request.live = "forex", NEW name \in request.sources,
           NEW answer \in PossibleDocuments(name)
    PROVE  HasNumbers(answer.document)
<1> DEFINE date == QueryDay(name, request.day)
           right == Published(name, Worth, QuotedCurrencies, date, {})
           old == Published(name, Worth, QuotedCurrencies, date - 1, {})
           zero == Published(name, Worth, QuotedCurrencies, date, {"USD"})
           mixed == [right EXCEPT
                        !.items = {item \in right.items : item.symbol # request.symbol}
                                    \cup {item \in old.items : item.symbol = request.symbol}]
<1>1. name \in ToSet(AllForexSources)
  BY RequestFacts
<1>2. QuotedCurrencies \subseteq DOMAIN Worth[request.day]
  BY DEF QuotedCurrencies
<1>3. HasNumbers(right) /\ HasNumbers(old) /\ HasNumbers(zero)
  BY <1>1, <1>2, PublishedNumbers
<1>4. HasNumbers(mixed)
  <2>1. mixed.items \subseteq right.items \cup old.items
    BY DEF Published
  <2> HIDE DEF mixed, right, old
  <2> QED
    BY <1>3, <2>1 DEF HasNumbers
<1>5. answer.document \in {right, old, zero, mixed}
  BY DEF PossibleDocuments
<1> QED
  BY <1>3, <1>4, <1>5

-----------------------------------------------------------------------------
(* The types of everything *)

IsReceived(f) == IsFiniteSet(DOMAIN f) /\ f \in [DOMAIN f -> 0..WORD - 1]

TypeInv ==
    /\ request \in Requests
    /\ now \in request.timestamp..MaxTime
    /\ IsTrading(trades)
    /\ DOMAIN received \subseteq Operands(request.pair)
    /\ \A o \in DOMAIN received : IsReceived(received[o])
    /\ fetched \in [Called -> [Replicas -> Responses]]
    /\ outcomes \in [Called -> Responses]
    /\ DOMAIN documents = IF request.live = "forex" THEN request.sources ELSE {}
    /\ \A name \in DOMAIN documents : HasRates(documents[name].answer)

LEMMA ReceivedNumbers == \A f : IsReceived(f) => IsNumbers(f)
BY Scale DEF IsReceived, IsNumbers

LEMMA PendingType == Pending \in Responses /\ Without("Trap") \in Responses
<1>1. 0 \in 0..WORD - 1
  BY Scale
<1> QED
  BY <1>1 DEF Pending, Without, Responses

LEMMA TypeInit == Init => TypeInv
<1> SUFFICES ASSUME Init PROVE TypeInv
  OBVIOUS
<1>1. request \in Requests
  BY DEF Init
<1>2. now \in request.timestamp..MaxTime
  BY <1>1, RequestFacts, RatePathAssumption DEF Init
<1>3. IsTrading(trades)
  <2>1. IsTrading(<<>>)
    <3>1. DOMAIN <<>> = {} /\ <<>> \in [{} -> Seq(Prices)]
      OBVIOUS
    <3> QED
      BY <3>1, FS_EmptySet DEF IsTrading
  <2>2. \A past \in PastTrades : IsTrading(past)
    BY RatePathAssumption
  <2>3. trades \in PastTrades \cup {<<>>}
    BY DEF Init
  <2> QED
    BY <2>1, <2>2, <2>3
<1>4. received \in [Operands(request.pair) \ {request.live} -> Seq(0..WORD - 1)]
  BY <1>1, RatePathAssumption DEF Init
<1>5. ASSUME NEW o \in DOMAIN received PROVE IsReceived(received[o])
  <2> DEFINE s == received[o]
  <2>1. s \in Seq(0..WORD - 1)
    BY <1>4
  <2> HIDE DEF s
  <2>2. DOMAIN s = 1..Len(s) /\ Len(s) \in Nat /\ s \in [1..Len(s) -> 0..WORD - 1]
    <3>1. \A T : \A t \in Seq(T) :
             DOMAIN t = 1..Len(t) /\ Len(t) \in Nat /\ t \in [1..Len(t) -> T]
      OBVIOUS
    <3> QED
      BY <2>1, <3>1
  <2>3. IsFiniteSet(DOMAIN s)
    BY <2>2, FS_Interval
  <2> QED
    BY <2>2, <2>3 DEF IsReceived, s
<1>6. fetched \in [Called -> [Replicas -> Responses]] /\ outcomes \in [Called -> Responses]
  BY PendingType DEF Init
<1>7. /\ DOMAIN documents = IF request.live = "forex" THEN request.sources ELSE {}
      /\ \A name \in DOMAIN documents : HasRates(documents[name].answer)
  BY DEF Init, HasRates, Fails
<1> QED
  BY <1>1, <1>2, <1>3, <1>4, <1>5, <1>6, <1>7 DEF TypeInv

LEMMA CalledStays ==
    ASSUME request' = request
    PROVE  Called' = Called
BY DEF Called, PairsWith

(* The rates of the live operand, once they are there. *)
LEMMA LiveReceived ==
    ASSUME TypeInv, NEW rates, IsReceived(rates), request.live # "none",
           received' = WithLive(rates)
    PROVE  /\ DOMAIN received' \subseteq Operands(request.pair)
           /\ \A o \in DOMAIN received' : IsReceived(received'[o])
<1>1. request.live \in Operands(request.pair)
  BY RequestFacts DEF TypeInv
<1>2. DOMAIN received' = DOMAIN received \cup {request.live}
  BY DEF WithLive
<1>3. \A o \in DOMAIN received' : received'[o] = IF o = request.live THEN rates ELSE received[o]
  BY DEF WithLive
<1>4. \A o \in DOMAIN received' : IsReceived(received'[o])
  <2> SUFFICES ASSUME NEW o \in DOMAIN received' PROVE IsReceived(received'[o])
    OBVIOUS
  <2>1. CASE o = request.live
    BY <1>3, <2>1
  <2>2. CASE o # request.live
    <3>1. o \in DOMAIN received /\ received'[o] = received[o]
      BY <1>2, <1>3, <2>2
    <3> QED
      BY <3>1 DEF TypeInv
  <2> QED
    BY <2>1, <2>2
<1> QED
  BY <1>1, <1>2, <1>4 DEF TypeInv

LEMMA TypeFetch ==
    ASSUME TypeInv, NEW name \in request.sources, NEW replica \in Replicas, Fetch(name, replica)
    PROVE  TypeInv'
<1>1. PICK response \in {Transformed(name), Without("Trap")} :
        fetched' = [fetched EXCEPT ![name][replica] = response]
  BY DEF Fetch
<1>2. response \in Responses
  BY TransformedType, PendingType DEF TypeInv
<1>3. fetched' \in [Called -> [Replicas -> Responses]]
  BY <1>1, <1>2 DEF TypeInv
<1>4. Called' = Called
  BY CalledStays DEF Fetch
<1> QED
  BY <1>3, <1>4 DEF TypeInv, Fetch

LEMMA TypeRespond ==
    ASSUME TypeInv, NEW name \in request.sources, Respond(name)
    PROVE  TypeInv'
<1>1. name \in Called
  BY DEF Respond
<1>2. Oriented(name, Outcome(name)) \in Responses
  <2>1. fetched[name] \in [Replicas -> Responses]
    BY <1>1 DEF TypeInv
  <2> QED
    BY <2>1, OutcomeType
<1>3. outcomes' \in [Called -> Responses]
  BY <1>2 DEF TypeInv, Respond
<1>4. Called' = Called
  BY CalledStays DEF Respond
<1> QED
  BY <1>3, <1>4 DEF TypeInv, Respond

LEMMA TypeRespondBank ==
    ASSUME TypeInv, NEW name \in request.sources, RespondBank(name)
    PROVE  TypeInv'
<1>1. PICK answer \in PossibleDocuments(name) :
        documents' = [documents EXCEPT ![name] =
            [kind |-> answer.kind,
             answer |-> ExtractRates(name, answer.document, QueryDay(name, request.day))]]
  BY DEF RespondBank
<1>2. HasRates(ExtractRates(name, answer.document, QueryDay(name, request.day)))
  BY PossibleNumbers, ExtractedRates DEF TypeInv, RespondBank
<1>3. DOMAIN documents' = DOMAIN documents
  BY <1>1
<1>4. ASSUME NEW other \in DOMAIN documents PROVE HasRates(documents'[other].answer)
  <2>1. CASE other = name
    <3>1. documents'[other].answer =
            ExtractRates(name, answer.document, QueryDay(name, request.day))
      BY <1>1, <1>4, <2>1
    <3> QED
      BY <1>2, <3>1
  <2>2. CASE other # name
    <3>1. documents'[other] = documents[other]
      BY <1>1, <1>4, <2>2
    <3> QED
      BY <3>1 DEF TypeInv
  <2> QED
    BY <2>1, <2>2
<1>5. Called' = Called
  BY CalledStays DEF RespondBank
<1> QED
  BY <1>3, <1>4, <1>5 DEF TypeInv, RespondBank

LEMMA TypeCollectRates ==
    ASSUME TypeInv, CollectRates
    PROVE  TypeInv'
<1> DEFINE successes == {name \in Called : outcomes[name].kind = "Rate"}
           rates == [name \in successes |-> outcomes[name].rate]
<1>1. received' = WithLive(rates)
  BY DEF CollectRates
<1>2. IsFiniteSet(successes)
  <2>1. successes \subseteq request.sources
    BY DEF Called
  <2> QED
    BY <2>1, RequestFacts, FS_Subset DEF TypeInv
<1>3. \A name \in successes : outcomes[name].rate \in 0..WORD - 1
  BY DEF TypeInv, Responses
<1>4. IsReceived(rates)
  BY <1>2, <1>3 DEF IsReceived
<1> HIDE DEF rates
<1>5. /\ DOMAIN received' \subseteq Operands(request.pair)
      /\ \A o \in DOMAIN received' : IsReceived(received'[o])
  BY <1>1, <1>4, LiveReceived DEF CollectRates, AsksExchanges
<1>6. Called' = Called
  BY CalledStays DEF CollectRates
<1> QED
  BY <1>5, <1>6 DEF TypeInv, CollectRates

LEMMA TypeCollectForex ==
    ASSUME TypeInv, CollectForex
    PROVE  TypeInv'
<1> DEFINE quoting == {name \in request.sources :
                          /\ documents[name].answer.ok
                          /\ request.symbol \in DOMAIN documents[name].answer.rates}
           rates == [name \in quoting |-> documents[name].answer.rates[request.symbol]]
<1>1. received' = WithLive(rates)
  BY DEF CollectForex
<1>2. IsFiniteSet(quoting)
  BY RequestFacts, FS_Subset DEF TypeInv
<1>3. \A name \in quoting : documents[name].answer.rates[request.symbol] \in 0..WORD - 1
  BY DEF TypeInv, CollectForex, HasRates
<1>4. IsReceived(rates)
  BY <1>2, <1>3 DEF IsReceived
<1> HIDE DEF rates
<1>5. /\ DOMAIN received' \subseteq Operands(request.pair)
      /\ \A o \in DOMAIN received' : IsReceived(received'[o])
  BY <1>1, <1>4, LiveReceived DEF CollectForex
<1>6. Called' = Called
  BY CalledStays DEF CollectForex
<1> QED
  BY <1>5, <1>6 DEF TypeInv, CollectForex

(* The minute of a trade, or of the clock. *)
LEMMA CurrentMinute ==
    ASSUME TypeInv
    PROVE  /\ (now \div MINUTE) * MINUTE \in Nat
           /\ (now \div MINUTE) * MINUTE >= request.timestamp
           /\ LivePrices[(now \div MINUTE) * MINUTE] \subseteq Prices
<1>1. /\ request.timestamp \in Nat /\ request.timestamp % 60 = 0
      /\ MaxTime \in Nat /\ now \in request.timestamp..MaxTime
  BY RequestFacts, RatePathAssumption DEF TypeInv, MINUTE
<1>2. LivePrices[(now \div MINUTE) * MINUTE] \subseteq Prices
  BY RatePathAssumption DEF TypeInv
<1> QED
  BY <1>1, <1>2 DEF MINUTE

LEMMA TypeTrade ==
    ASSUME TypeInv, Trade
    PROVE  TypeInv'
<1> DEFINE minute == (now \div MINUTE) * MINUTE
<1>1. PICK price \in LivePrices[minute] :
        trades' = [trades EXCEPT ![minute] = Append(@, price)]
  BY DEF Trade
<1>2. price \in Prices
  BY CurrentMinute
<1> HIDE DEF minute
<1>3. DOMAIN trades' = DOMAIN trades
  BY <1>1
<1>4. \A s \in Seq(Prices) : Append(s, price) \in Seq(Prices)
  BY <1>2
<1>5. \A m \in DOMAIN trades : trades'[m] \in Seq(Prices)
  BY <1>1, <1>4 DEF TypeInv, IsTrading
<1>6. trades' \in [DOMAIN trades -> Seq(Prices)]
  BY <1>1, <1>3, <1>5
<1>7. IsTrading(trades')
  BY <1>3, <1>6 DEF TypeInv, IsTrading
<1>8. Called' = Called
  BY CalledStays DEF Trade
<1> QED
  BY <1>7, <1>8 DEF TypeInv, Trade

LEMMA TypeTick ==
    ASSUME TypeInv, Tick
    PROVE  TypeInv'
<1>1. now' \in request.timestamp..MaxTime
  BY RequestFacts, RatePathAssumption DEF TypeInv, Tick, MINUTE
<1>2. Called' = Called
  BY CalledStays DEF Tick
<1> QED
  BY <1>1, <1>2 DEF TypeInv, Tick

LEMMA TypeStep == TypeInv /\ [Next]_vars => TypeInv'
<1> SUFFICES ASSUME TypeInv, [Next]_vars PROVE TypeInv'
  OBVIOUS
<1>1. CASE Compose
  <2>1. Called' = Called
    BY <1>1, CalledStays DEF Compose
  <2> QED
    BY <1>1, <2>1 DEF Compose, TypeInv
<1>2. CASE UNCHANGED vars
  <2>1. Called' = Called
    BY <1>2, CalledStays DEF vars
  <2> QED
    BY <1>2, <2>1 DEF vars, TypeInv
<1> QED
  BY <1>1, <1>2, TypeFetch, TypeRespond, TypeRespondBank, TypeCollectRates,
     TypeCollectForex, TypeTrade, TypeTick DEF Next

-----------------------------------------------------------------------------
(* The inductive invariant *)

(* A quoted rate, and one refused as inconsistent, is the composed one.    *)
ReplyInv == reply.result \in {"Ok", "InconsistentRatesReceived"} => IsComposed(reply)

(* What a replica got from Coinbase or KuCoin is what it would get now.    *)
WindowInv ==
    \A name \in Called \cap {"Coinbase", "KuCoin"} : \A r \in Replicas :
        fetched[name][r] \in {Pending, Without("Trap"), Transformed(name)}

(* A quote was composed when all rates were there, so they are what they   *)
(* were.                                                                   *)
AnswerInv ==
    reply.result = "Ok" =>
        /\ DOMAIN received = Operands(request.pair)
        /\ OperandsResult = "Ok" /\ reply.direct = Composed
        /\ reply.quote = Answered(reply.direct)

IInv == TypeInv /\ ReplyInv /\ WindowInv /\ AnswerInv

LEMMA ReplyStep == TypeInv /\ ReplyInv /\ [Next]_vars => ReplyInv'
<1> SUFFICES ASSUME TypeInv, ReplyInv, [Next]_vars PROVE ReplyInv'
  OBVIOUS
<1>1. CASE Compose
  <2>1. \A o \in Operands(request.pair) : IsNumbers(received[o])
    BY <1>1, ReceivedNumbers DEF Compose, TypeInv
  <2>2. ReplyTo.result \in {"Ok", "InconsistentRatesReceived"} => IsComposed(ReplyTo)
    BY <2>1, RequestFacts, ReplyComposed DEF TypeInv
  <2>3. reply' = ReplyTo
    BY <1>1 DEF Compose
  <2> QED
    BY <2>2, <2>3 DEF ReplyInv
<1>2. CASE reply' = reply
  BY <1>2 DEF ReplyInv
<1> QED
  BY <1>1, <1>2 DEF Next, vars, Fetch, Respond, RespondBank, CollectRates, CollectForex, Trade, Tick

(* Later trades are not seen, and the time does not matter. *)
LEMMA ClosedAnswer ==
    ASSUME TypeInv, request' = request, NEW name \in {"Coinbase", "KuCoin"},
           DOMAIN trades' = DOMAIN trades,
           \A start \in DOMAIN trades : start < request.timestamp => trades'[start] = trades[start]
    PROVE  Transformed(name)' = Transformed(name)
<1> DEFINE exchange == Exchange(name, request.timestamp)
           candles == CandlesInAnswer(exchange, trades, now)
           first == FirstCandle(exchange, candles)
           rate(f) == PriceOf(exchange, [i \in DOMAIN f |-> ListedPrice(name, f[i])]) \div 10
<1>1. /\ exchange.closedOnly = FALSE
      /\ \A start \in Nat : 1000 * start <= exchange.to => start < request.timestamp
  <2>1. request \in Requests
    BY DEF TypeInv
  <2>2. Exchange(name, request.timestamp).closedOnly = FALSE
    BY <2>1, ClosedWindow
  <2>3. ASSUME NEW start \in Nat, 1000 * start <= Exchange(name, request.timestamp).to
        PROVE  start < request.timestamp
    BY <2>1, <2>3, ClosedWindow
  <2> QED
    BY <2>2, <2>3
<1>2. Transformed(name) =
        IF candles = {} THEN Without("NoData") ELSE Found(rate(trades[first]))
  BY DEF Transformed
<1>3. Transformed(name)' =
        LET cs == CandlesInAnswer(exchange, trades', now')
        IN  IF cs = {} THEN Without("NoData")
            ELSE Found(rate(trades'[FirstCandle(exchange, cs)]))
  BY DEF Transformed, ListedPrice, IsInverse, PairsWith
<1> HIDE DEF exchange, rate
<1>4. \A start \in DOMAIN trades : start \in Nat
  BY DEF TypeInv, IsTrading
<1>5. CandlesInAnswer(exchange, trades', now') = candles
  BY <1>1, <1>4 DEF CandlesInAnswer
<1>6. candles # {} => trades'[first] = trades[first]
  <2>1. candles # {} => first \in candles
    BY CandleOfAnswer DEF TypeInv
  <2>2. \A start \in candles : start \in DOMAIN trades /\ start < request.timestamp
    BY <1>1, <1>4 DEF CandlesInAnswer
  <2> QED
    BY <2>1, <2>2
<1> QED
  BY <1>2, <1>3, <1>5, <1>6

LEMMA WindowStays ==
    ASSUME TypeInv, WindowInv, request' = request, fetched' = fetched,
           DOMAIN trades' = DOMAIN trades,
           \A start \in DOMAIN trades : start < request.timestamp => trades'[start] = trades[start]
    PROVE  WindowInv'
<1>1. Called' = Called
  BY CalledStays
<1>2. \A name \in {"Coinbase", "KuCoin"} : Transformed(name)' = Transformed(name)
  BY ClosedAnswer
<1>3. Pending' = Pending /\ Without("Trap")' = Without("Trap")
  BY DEF Pending, Without
<1> QED
  BY <1>1, <1>2, <1>3 DEF WindowInv

LEMMA WindowStep == TypeInv /\ WindowInv /\ [Next]_vars => WindowInv'
<1> SUFFICES ASSUME TypeInv, WindowInv, [Next]_vars PROVE WindowInv'
  OBVIOUS
<1>1. CASE \E name \in request.sources, replica \in Replicas : Fetch(name, replica)
  <2> PICK name \in request.sources, replica \in Replicas : Fetch(name, replica)
    BY <1>1
  <2>1. PICK response \in {Transformed(name), Without("Trap")} :
          fetched' = [fetched EXCEPT ![name][replica] = response]
    BY DEF Fetch
  <2>2. Called' = Called /\ request' = request /\ trades' = trades
    BY CalledStays DEF Fetch
  <2>3. \A other \in {"Coinbase", "KuCoin"} : Transformed(other)' = Transformed(other)
    BY <2>2, ClosedAnswer
  <2>4. ASSUME NEW other \in Called \cap {"Coinbase", "KuCoin"}, NEW r \in Replicas
        PROVE  fetched'[other][r] \in {Pending, Without("Trap"), Transformed(other)}
    <3>1. fetched[other][r] \in {Pending, Without("Trap"), Transformed(other)}
      BY DEF WindowInv
    <3>2. fetched'[other][r] = IF other = name /\ r = replica THEN response ELSE fetched[other][r]
      BY <2>1 DEF TypeInv
    <3> QED
      BY <3>1, <3>2
  <2> QED
    BY <2>2, <2>3, <2>4 DEF WindowInv, Pending, Without
<1>2. CASE Trade
  <2> DEFINE minute == (now \div MINUTE) * MINUTE
  <2>1. PICK price : trades' = [trades EXCEPT ![minute] = Append(@, price)]
    BY <1>2 DEF Trade
  <2>2. minute \in Nat /\ minute >= request.timestamp /\ request.timestamp \in Nat
    BY CurrentMinute, RequestFacts DEF TypeInv
  <2> HIDE DEF minute
  <2>3. DOMAIN trades' = DOMAIN trades
    BY <2>1
  <2>4. \A start \in DOMAIN trades : start < request.timestamp => trades'[start] = trades[start]
    BY <2>1, <2>2 DEF TypeInv, IsTrading
  <2> QED
    BY <1>2, <2>3, <2>4, WindowStays DEF Trade
<1>3. CASE UNCHANGED <<request, trades, fetched>>
  BY <1>3, WindowStays
<1> QED
  BY <1>1, <1>2, <1>3
     DEF Next, vars, Respond, RespondBank, CollectRates, CollectForex, Compose, Tick

LEMMA OperandsStay ==
    ASSUME request' = request, received' = received
    PROVE  OperandsResult' = OperandsResult /\ Composed' = Composed
<1>1. \A o : OperandOf(o)' = OperandOf(o)
  BY DEF OperandOf
<1>2. Coins' = Coins
  BY <1>1 DEF Coins
<1> QED
  BY <1>1, <1>2 DEF OperandsResult, Composed

LEMMA AnswerStep == TypeInv /\ AnswerInv /\ [Next]_vars => AnswerInv'
<1> SUFFICES ASSUME TypeInv, AnswerInv, [Next]_vars PROVE AnswerInv'
  OBVIOUS
<1>1. CASE Compose
  <2>1. /\ DOMAIN received = Operands(request.pair) /\ reply' = ReplyTo
        /\ request' = request /\ received' = received
    BY <1>1 DEF Compose
  <2>2. ReplyTo.result = "Ok" =>
          /\ OperandsResult = "Ok" /\ ReplyTo.direct = Composed
          /\ ReplyTo.quote = Answered(ReplyTo.direct)
    BY DEF ReplyTo
  <2> QED
    BY <2>1, <2>2, OperandsStay DEF AnswerInv, Answered
<1>2. CASE CollectRates \/ CollectForex
  <2>1. /\ request.live \notin DOMAIN received /\ request.live # "none" /\ reply' = reply
    BY <1>2 DEF CollectRates, CollectForex, AsksExchanges
  <2>2. request.live \in Operands(request.pair)
    BY <2>1, RequestFacts DEF TypeInv
  <2>3. reply.result # "Ok"
    BY <2>1, <2>2 DEF AnswerInv
  <2> QED
    BY <2>1, <2>3 DEF AnswerInv
<1>3. CASE request' = request /\ received' = received /\ reply' = reply
  BY <1>3, OperandsStay DEF AnswerInv, Answered
<1> QED
  BY <1>1, <1>2, <1>3 DEF Next, vars, Fetch, Respond, RespondBank, Trade, Tick

LEMMA InvInit == Init => IInv
<1> SUFFICES ASSUME Init PROVE IInv
  OBVIOUS
<1>1. TypeInv
  BY TypeInit
<1>2. ReplyInv
  BY DEF Init, ReplyInv, NoReply
<1>3. WindowInv
  BY DEF Init, WindowInv
<1>4. AnswerInv
  BY DEF Init, AnswerInv, NoReply
<1> QED
  BY <1>1, <1>2, <1>3, <1>4 DEF IInv

LEMMA InvStep == IInv /\ [Next]_vars => IInv'
BY TypeStep, ReplyStep, WindowStep, AnswerStep DEF IInv

LEMMA InductiveInvariant == Spec => []IInv
BY InvInit, InvStep, PTL DEF Spec

-----------------------------------------------------------------------------
(* Multiplying and dividing in inequations *)

LEMMA TimesNat == \A a, b \in Nat : a * b \in Nat
OBVIOUS

LEMMA TimesAssociative == \A a, b, c \in Nat : a * (b * c) = (a * b) * c /\ a * b = b * a
OBVIOUS

LEMMA TimesMonotone == \A a, b, c \in Nat : a <= b => a * c <= b * c /\ c * a <= c * b
OBVIOUS

LEMMA TimesCancels == \A a, b \in Nat, c \in Nat \ {0} : a * c <= b * c => a <= b
OBVIOUS

LEMMA Quotient ==
    \A m \in Nat, n \in Nat \ {0} :
        m \div n \in Nat /\ (m \div n) * n <= m /\ m < (m \div n + 1) * n
OBVIOUS

LEMMA QuotientTwice ==
    ASSUME NEW m \in Nat, NEW a \in Nat \ {0}, NEW b \in Nat \ {0}
    PROVE  /\ ((m \div a) \div b) * (a * b) <= m
           /\ m < ((m \div a) \div b + 1) * (a * b)
<1> DEFINE q == m \div a
           r == q \div b
<1>1. q \in Nat /\ q * a <= m /\ m < (q + 1) * a
  BY Quotient
<1> HIDE DEF q
<1>2. r \in Nat /\ r * b <= q /\ q < (r + 1) * b
  BY <1>1, Quotient
<1> HIDE DEF r
<1>3. (r * b) * a <= q * a
  BY <1>1, <1>2, TimesMonotone, TimesNat
<1>4. (q + 1) * a <= ((r + 1) * b) * a
  <2>1. q + 1 <= (r + 1) * b /\ q + 1 \in Nat /\ (r + 1) * b \in Nat
    BY <1>1, <1>2, TimesNat
  <2> QED
    BY <2>1, TimesMonotone
<1>5. (r * b) * a = r * (a * b) /\ ((r + 1) * b) * a = (r + 1) * (a * b)
  BY <1>2, TimesAssociative
<1>6. r * (a * b) \in Nat /\ (r + 1) * (a * b) \in Nat /\ q * a \in Nat /\ (q + 1) * a \in Nat
  BY <1>1, <1>2, TimesNat
<1> QED
  BY <1>1, <1>3, <1>4, <1>5, <1>6 DEF q, r

(* A quotient r of x and q is not above x by q: u is the one of which the  *)
(* inverse of q is taken, t and p the scales.                              *)
LEMMA QuotientAbove ==
    ASSUME NEW r \in Nat, NEW x \in Nat, NEW q \in Nat \ {0}, NEW u \in Nat,
           NEW t \in Nat \ {0}, r * t <= x * (u \div q)
    PROVE  (r * q) * t <= x * u
<1> DEFINE i == u \div q
<1>1. i \in Nat /\ i * q <= u
  BY Quotient
<1> HIDE DEF i
<1>2. (r * t) * q <= (x * i) * q
  <2>1. r * t <= x * i /\ r * t \in Nat /\ x * i \in Nat
    BY <1>1, TimesNat DEF i
  <2> QED
    BY <2>1, TimesMonotone
<1>3. x * (i * q) <= x * u
  BY <1>1, TimesMonotone, TimesNat
<1>4. (r * t) * q = (r * q) * t /\ (x * i) * q = x * (i * q)
  <2>1. (r * t) * q = r * (t * q) /\ t * q = q * t /\ r * (q * t) = (r * q) * t
    BY TimesAssociative
  <2> QED
    BY <1>1, <2>1, TimesAssociative
<1>5. (r * q) * t \in Nat /\ x * (i * q) \in Nat /\ x * u \in Nat
  BY <1>1, TimesNat
<1> QED
  BY <1>2, <1>3, <1>4, <1>5

LEMMA QuotientBelow ==
    ASSUME NEW r \in Nat, NEW x \in Nat, NEW q \in Nat \ {0}, NEW u \in Nat, q <= u,
           NEW t \in Nat \ {0}, x * (u \div q) < (r + 1) * t
    PROVE  x * (u - q + 1) < ((r + 1) * t) * q
<1> DEFINE i == u \div q
           s == (r + 1) * t
<1>1. i \in Nat /\ u < (i + 1) * q
  BY Quotient
<1>2. x * i < s /\ s \in Nat
  BY TimesNat
<1> HIDE DEF i, s
<1>3. u - q + 1 \in Nat /\ u - q + 1 <= i * q
  <2>1. (i + 1) * q = i * q + q /\ i * q \in Nat
    BY <1>1
  <2> QED
    BY <1>1, <2>1
<1>4. x * (u - q + 1) <= x * (i * q)
  BY <1>1, <1>3, TimesMonotone, TimesNat
<1>5. (x * i + 1) * q <= s * q
  <2>1. x * i + 1 <= s /\ x * i + 1 \in Nat
    BY <1>1, <1>2, TimesNat
  <2> QED
    BY <1>2, <2>1, TimesMonotone
<1>6. (x * i + 1) * q = x * (i * q) + q
  <2>1. \A m \in Nat : (m + 1) * q = m * q + q
    OBVIOUS
  <2> QED
    BY <1>1, <2>1, TimesNat, TimesAssociative
<1>7. x * (u - q + 1) \in Nat /\ x * (i * q) \in Nat /\ s * q \in Nat
  BY <1>1, <1>2, <1>3, TimesNat
<1> QED
  BY <1>4, <1>5, <1>6, <1>7 DEF s

-----------------------------------------------------------------------------
(* What the rates of a quote are made of *)

LEMMA MaxRateIs == TenTo[2 * DECIMALS] = MaxRate
<1>1. DECIMALS \in Nat /\ 2 * DECIMALS = DECIMALS + DECIMALS
  BY ScaleAssumption
<1> QED
  BY <1>1, PowersAdd DEF MaxRate, RATE_UNIT

(* The inverses of the rates of one asset: no decimals need to be added,   *)
(* and none is cut to 64 bits.                                             *)
LEMMA InverseExact ==
    ASSUME NEW rate, rate.rates \in Seq(1..MaxRate), rate.decimals = DECIMALS
    PROVE  /\ Inverted(rate).decimals = DECIMALS
           /\ \A y \in ToSet(Inverted(rate).rates) :
                 \E q \in ToSet(rate.rates) : y = MaxRate \div q
<1> DEFINE maxValue == TenTo[2 * rate.decimals]
           median == MiddleOf(Sorted(rate.rates))
           Enough == {k \in 0..2 * DECIMALS + 1 :
                         median <= maxValue * TenTo[k] \/ rate.decimals + k > 2 * DECIMALS}
           added == Min(Enough)
           decimals == rate.decimals + added
           invertible == {i \in DOMAIN rate.rates : decimals <= 2 * DECIMALS /\ rate.rates[i] > 0}
           inverses == [i \in invertible |-> Invert(rate.rates[i] * TenTo[added], decimals)]
<1>1. Inverted(rate).rates = Sorted(inverses) /\ Inverted(rate).decimals = decimals
  BY DEF Inverted, Rate
<1>2. /\ rate.rates \in Seq(Nat) /\ IsFiniteSet(DOMAIN rate.rates)
      /\ \A i \in DOMAIN rate.rates : rate.rates[i] \in 1..MaxRate
  <2>1. Seq(1..MaxRate) \subseteq Seq(Nat)
    BY Scale
  <2>2. \A T : \A s \in Seq(T) : \A i \in DOMAIN s : s[i] \in T
    OBVIOUS
  <2> QED
    BY <2>1, <2>2, SequenceNumbers DEF IsNumbers
<1>3. added = 0
  <2>1. median \in Nat /\ median <= MaxRate
    <3>1. median \in Range(rate.rates) \cup {0}
      BY <1>2, SequenceNumbers, SortedValues
    <3> QED
      BY <1>2, <3>1, Scale DEF Range
  <2>2. maxValue * TenTo[0] = MaxRate
    <3>1. \A m \in Nat : m * 1 = m
      OBVIOUS
    <3> QED
      BY <3>1, MaxRateIs, Powers, Scale
  <2>3. 0 \in Enough /\ Enough \subseteq Nat
    BY <2>1, <2>2, ScaleAssumption
  <2> HIDE DEF Enough
  <2>4. Min(Enough) \in Nat /\ Min(Enough) <= 0
    BY <2>3, LeastNumber
  <2> QED
    BY <2>4
<1> HIDE DEF added
<1>4. decimals = DECIMALS
  BY <1>3, ScaleAssumption
<1>5. ASSUME NEW i \in invertible
      PROVE  inverses[i] = MaxRate \div rate.rates[i] /\ inverses[i] \in Nat
  <2> DEFINE q == rate.rates[i]
  <2>1. q \in 1..MaxRate /\ q \in Nat \ {0}
    BY <1>2, <1>5, Scale
  <2> HIDE DEF q
  <2>2. q * TenTo[added] = q
    BY <1>3, <2>1, Powers
  <2>3. inverses[i] = (MaxRate \div q) % WORD
    BY <1>4, <1>5, <2>2, MaxRateIs DEF Invert, q
  <2>4. MaxRate \div q \in Nat /\ MaxRate \div q < WORD
    <3>1. \A m \in Nat : m \div q \in Nat /\ m \div q <= m
      BY <2>1
    <3>2. MaxRate \in Nat /\ MaxRate < WORD /\ WORD \in Nat
      BY Scale
    <3> QED
      BY <3>1, <3>2
  <2>5. (MaxRate \div q) % WORD = MaxRate \div q
    <3>1. \A m, w \in Nat : m < w => m % w = m
      OBVIOUS
    <3> QED
      BY <2>4, <3>1, Scale
  <2> QED
    BY <2>3, <2>4, <2>5 DEF q
<1>6. IsNumbers(inverses)
  <2>1. IsFiniteSet(invertible)
    BY <1>2, FS_Subset
  <2> QED
    BY <1>5, <2>1 DEF IsNumbers
<1>7. DOMAIN inverses = invertible
  OBVIOUS
<1> HIDE DEF inverses, decimals
<1>8. ASSUME NEW y \in ToSet(Inverted(rate).rates)
      PROVE  \E q \in ToSet(rate.rates) : y = MaxRate \div q
  <2>1. y \in Range(inverses)
    BY <1>1, <1>6, SortedValues
  <2>2. PICK i \in invertible : y = inverses[i]
    BY <1>7, <2>1 DEF Range
  <2> QED
    BY <1>5, <2>2 DEF ToSet
<1> QED
  BY <1>1, <1>4, <1>8

(* A rescaled product r is p divided by the power of ten by which its      *)
(* decimals are fewer than those of p.                                     *)
LEMMA RescaledExact ==
    ASSUME NEW all \in Seq(Nat), NEW few \in Nat, NEW many \in Nat,
           NEW i \in DOMAIN Rescaled(all, few, many).rates
    PROVE  LET scaled == Rescaled(all, few, many)
               r == scaled.rates[i]
               fewer == few + many - scaled.decimals
           IN  /\ fewer \in Nat
               /\ \E p \in ToSet(all) : r * TenTo[fewer] <= p /\ p < (r + 1) * TenTo[fewer]
<1> DEFINE median == MiddleOf(all)
           Enough == {few} \cup {k \in 0..few : median >= TenTo[few - k]}
           added == Min(Enough)
           denominator == IF median = 0 THEN 0 ELSE TenTo[few - added]
           grown == many + (IF median = 0 THEN few + 1 ELSE added)
           quotients == IF denominator > 0 /\ grown <= 2 * DECIMALS
                        THEN [j \in DOMAIN all |-> all[j] \div denominator]
                        ELSE <<>>
           newMedian == IF denominator = 0 THEN 0 ELSE median \div denominator
           Small == {grown} \cup {k \in 0..grown : newMedian \div TenTo[k] <= MaxRate}
           removed == Min(Small)
           scaled == Rescaled(all, few, many)
<1>1. scaled =
        [rates |-> [j \in DOMAIN quotients |-> quotients[j] \div TenTo[removed]],
         decimals |-> grown - removed]
  BY DEF Rescaled
<1>2. added \in 0..few
  <2>1. Enough \subseteq Nat /\ Enough # {} /\ Enough \subseteq 0..few
    OBVIOUS
  <2> QED
    BY <2>1, LeastNumber
<1> HIDE DEF added, median
<1>3. denominator > 0 => denominator = TenTo[few - added] /\ grown = many + added
  OBVIOUS
<1>4. grown \in Nat
  BY <1>2
<1> HIDE DEF grown, denominator
<1>5. removed \in 0..grown
  <2>1. Small \subseteq Nat /\ Small # {} /\ Small \subseteq 0..grown
    BY <1>4
  <2> QED
    BY <2>1, LeastNumber
<1> HIDE DEF removed
<1>6. i \in DOMAIN quotients /\ scaled.rates[i] = quotients[i] \div TenTo[removed]
  BY <1>1
<1>7. denominator > 0 /\ i \in DOMAIN all /\ quotients[i] = all[i] \div denominator
  BY <1>6
<1> HIDE DEF quotients
<1> DEFINE r == scaled.rates[i]
           p == all[i]
           fewer == few + many - scaled.decimals
<1>8. fewer = (few - added) + removed /\ few - added \in Nat /\ removed \in Nat
  <2>1. scaled.decimals = grown - removed
    BY <1>1
  <2> QED
    BY <1>2, <1>3, <1>4, <1>5, <1>7, <2>1
<1>9. p \in ToSet(all) /\ p \in Nat
  BY <1>7 DEF ToSet
<1>10. r = (p \div TenTo[few - added]) \div TenTo[removed]
  BY <1>3, <1>6, <1>7
<1> HIDE DEF r, p, fewer, scaled
<1>11. TenTo[fewer] = TenTo[few - added] * TenTo[removed]
  BY <1>8, PowersAdd
<1>12. r * TenTo[fewer] <= p /\ p < (r + 1) * TenTo[fewer]
  BY <1>8, <1>9, <1>10, <1>11, Powers, QuotientTwice
<1>13. fewer \in Nat
  BY <1>8
<1> QED
  BY <1>9, <1>12, <1>13 DEF r, p, fewer, scaled

(* A rate of a product is, but for what is rounded away, the product of    *)
(* two rates.                                                              *)
LEMMA ProductExact ==
    ASSUME NEW a, NEW b, a.rates \in Seq(Nat), a.decimals \in Nat, IsCalculable(b),
           NEW r \in ToSet(Times(a, b).rates)
    PROVE  \E fewer \in Nat :
              /\ fewer + Times(a, b).decimals = a.decimals + b.decimals
              /\ \E x \in ToSet(a.rates), y \in ToSet(b.rates) :
                    r * TenTo[fewer] <= x * y /\ x * y < (r + 1) * TenTo[fewer]
<1> DEFINE D == (DOMAIN a.rates) \X (DOMAIN b.rates)
           f == [ij \in D |-> a.rates[ij[1]] * b.rates[ij[2]]]
           all == Products(a.rates, b.rates)
           few == Lesser(a.decimals, b.decimals)
           many == Greater(a.decimals, b.decimals)
           scaled == Rescaled(all, few, many)
           passes(n) == n > 0 /\ n <= MaxRate
           K == {i \in DOMAIN scaled.rates : passes(scaled.rates[i])}
           g == Restrict(scaled.rates, K)
           kept == Sorted(g)
<1>1. all \in Seq(Nat)
  BY ProductNumbers DEF IsCalculable
<1>2. few \in Nat /\ many \in Nat /\ few + many = a.decimals + b.decimals
  BY DEF IsCalculable, Lesser, Greater
<1>3. \A p \in ToSet(all) : \E x \in ToSet(a.rates), y \in ToSet(b.rates) : p = x * y
  <2>1. IsNumbers(a.rates) /\ IsNumbers(b.rates)
    BY SequenceNumbers DEF IsCalculable
  <2>2. \A ij \in D : ij[1] \in DOMAIN a.rates /\ ij[2] \in DOMAIN b.rates
    OBVIOUS
  <2>3. IsFiniteSet(D)
    BY <2>1, FS_Product DEF IsNumbers
  <2>4. ToSet(all) = ToSet(Sorted(f))
    BY DEF Products
  <2> HIDE DEF D
  <2>5. \A ij \in D : f[ij] \in Nat
    <3>1. \A ij \in D : a.rates[ij[1]] \in Nat /\ b.rates[ij[2]] \in Nat
      BY <2>1, <2>2 DEF IsNumbers
    <3> QED
      BY <3>1, TimesNat
  <2>6. f = [ij \in D |-> f[ij]] /\ DOMAIN f = D
    OBVIOUS
  <2>7. \A ij \in D : f[ij] = a.rates[ij[1]] * b.rates[ij[2]]
    OBVIOUS
  <2> HIDE DEF f
  <2>8. IsNumbers(f)
    BY <2>3, <2>5, <2>6 DEF IsNumbers
  <2> SUFFICES ASSUME NEW p \in ToSet(all)
               PROVE  \E x \in ToSet(a.rates), y \in ToSet(b.rates) : p = x * y
    OBVIOUS
  <2>9. PICK ij \in D : p = f[ij]
    <3>1. p \in Range(f)
      BY <2>4, <2>8, SortedValues
    <3> QED
      BY <2>6, <3>1 DEF Range
  <2>10. a.rates[ij[1]] \in ToSet(a.rates) /\ b.rates[ij[2]] \in ToSet(b.rates)
    BY <2>2 DEF ToSet
  <2> QED
    BY <2>7, <2>9, <2>10
<1>4. /\ Times(a, b).rates \in {<<>>, kept}
      /\ Times(a, b).decimals = scaled.decimals
  BY DEF Times, Rate, RestrictValues
<1> HIDE DEF all, few, many, D, f
<1>5. IsNumbers(scaled.rates) /\ scaled.decimals \in Nat
  BY <1>1, <1>2, RescaledNumbers
<1>6. ASSUME NEW i \in DOMAIN scaled.rates
      PROVE  /\ few + many - scaled.decimals \in Nat
             /\ \E p \in ToSet(all) :
                   /\ scaled.rates[i] * TenTo[few + many - scaled.decimals] <= p
                   /\ p < (scaled.rates[i] + 1) * TenTo[few + many - scaled.decimals]
  BY <1>1, <1>2, <1>6, RescaledExact
<1> HIDE DEF scaled
<1>7. IsNumbers(g) /\ Range(g) = {scaled.rates[i] : i \in K}
  BY <1>5, RestrictedNumbers
<1> HIDE DEF g
<1>8. PICK i \in K : r = scaled.rates[i]
  <2>1. r \in ToSet(kept)
    BY <1>4 DEF ToSet
  <2> QED
    BY <1>7, <2>1, SortedValues
<1> DEFINE fewer == few + many - scaled.decimals
<1>9. fewer \in Nat /\ fewer + scaled.decimals = a.decimals + b.decimals
  BY <1>2, <1>5, <1>6, <1>8
<1>10. \E p \in ToSet(all) : r * TenTo[fewer] <= p /\ p < (r + 1) * TenTo[fewer]
  BY <1>6, <1>8
<1> HIDE DEF fewer
<1> QED
  BY <1>3, <1>4, <1>9, <1>10

LEMMA Extremes ==
    ASSUME NEW s \in Seq(Nat), s # <<>>
    PROVE  /\ Max(ToSet(s)) \in ToSet(s) /\ \A x \in ToSet(s) : x <= Max(ToSet(s))
           /\ Min(ToSet(s)) \in ToSet(s) /\ \A x \in ToSet(s) : Min(ToSet(s)) <= x
<1>1. IsFiniteSet(DOMAIN s) /\ \A i \in DOMAIN s : s[i] \in Nat
  BY SequenceNumbers DEF IsNumbers
<1>2. IsFiniteSet(ToSet(s))
  <2>1. s \in Surjection(DOMAIN s, ToSet(s))
    BY DEF Surjection, ToSet
  <2> QED
    BY <1>1, <2>1, FS_Surjection
<1>3. ToSet(s) \subseteq Nat /\ ToSet(s) # {}
  <2>1. Len(s) \in Nat /\ DOMAIN s = 1..Len(s) /\ Len(s) # 0
    OBVIOUS
  <2>2. 1 \in DOMAIN s
    BY <2>1
  <2> QED
    BY <1>1, <2>2 DEF ToSet
<1>4. ToSet(s) \subseteq Int
  BY <1>3
<1> QED
  BY <1>2, <1>3, <1>4, GreatestMember, LeastNumber

-----------------------------------------------------------------------------
(* The range of a quote *)

(* A rate r of a quotient, some rate x of the dividend and some rate q of  *)
(* the divisor.                                                            *)
LEMMA RatioExact ==
    ASSUME NEW a, NEW b, a.rates \in Seq(Nat), a.decimals \in Nat,
           b.rates \in Seq(1..MaxRate), b.decimals = DECIMALS,
           NEW r \in ToSet(DividedBy(a, b).rates), r \in Nat
    PROVE  \E fewer \in Nat :
              /\ fewer + DividedBy(a, b).decimals = a.decimals + DECIMALS
              /\ \E x \in ToSet(a.rates), q \in ToSet(b.rates) :
                    /\ (r * q) * TenTo[fewer] <= x * MaxRate
                    /\ x * (MaxRate - q + 1) < ((r + 1) * TenTo[fewer]) * q
<1> DEFINE i == Inverted(b)
<1>1. IsCalculable(i) /\ i.decimals = DECIMALS
      /\ \A y \in ToSet(i.rates) : \E q \in ToSet(b.rates) : y = MaxRate \div q
  <2>1. b.rates \in Seq(Nat)
    BY Scale
  <2> QED
    BY <2>1, InverseCalculable, ScaleAssumption, InverseExact
<1>2. DividedBy(a, b) = Times(a, i)
  BY DEF DividedBy
<1> HIDE DEF i
<1>3. PICK fewer \in Nat :
         /\ fewer + DividedBy(a, b).decimals = a.decimals + DECIMALS
         /\ \E x \in ToSet(a.rates), y \in ToSet(i.rates) :
               r * TenTo[fewer] <= x * y /\ x * y < (r + 1) * TenTo[fewer]
  <2>1. r \in ToSet(Times(a, i).rates)
    BY <1>2
  <2> QED
    BY <1>1, <1>2, <2>1, ProductExact
<1>4. PICK x \in ToSet(a.rates), y \in ToSet(i.rates) :
         r * TenTo[fewer] <= x * y /\ x * y < (r + 1) * TenTo[fewer]
  BY <1>3
<1>5. PICK q \in ToSet(b.rates) : y = MaxRate \div q
  BY <1>1
<1>6. x \in Nat /\ q \in Nat \ {0} /\ q <= MaxRate
  <2>1. \A T : \A s \in Seq(T) : \A k \in DOMAIN s : s[k] \in T
    OBVIOUS
  <2>2. x \in Nat /\ q \in 1..MaxRate
    BY <2>1 DEF ToSet
  <2> QED
    BY <2>2, Scale
<1>7. TenTo[fewer] \in Nat \ {0}
  BY Powers
<1>8. (r * q) * TenTo[fewer] <= x * MaxRate
  BY <1>4, <1>5, <1>6, <1>7, Scale, QuotientAbove
<1>9. x * (MaxRate - q + 1) < ((r + 1) * TenTo[fewer]) * q
  BY <1>4, <1>5, <1>6, <1>7, Scale, QuotientBelow
<1> QED
  BY <1>3, <1>8, <1>9

(* The scales cancel out. *)
LEMMA RatioAbove ==
    ASSUME NEW m \in Nat, NEW x \in Nat, NEW fewer \in Nat, NEW d \in Nat,
           fewer + d = DECIMALS + DECIMALS, m * TenTo[fewer] <= x * MaxRate
    PROVE  m <= x * TenTo[d]
<1> DEFINE t == TenTo[fewer]
           p == TenTo[d]
<1>1. t \in Nat \ {0} /\ p \in Nat
  BY Powers
<1>2. MaxRate = p * t
  <2>1. d + fewer = 2 * DECIMALS
    BY ScaleAssumption
  <2>2. TenTo[d + fewer] = p * t
    BY PowersAdd
  <2> QED
    BY <2>1, <2>2, MaxRateIs
<1> HIDE DEF t, p
<1>3. x * MaxRate = (x * p) * t
  BY <1>1, <1>2, TimesAssociative
<1>4. m * t <= (x * p) * t
  BY <1>3 DEF t
<1>5. m <= x * p
  BY <1>1, <1>4, TimesNat, TimesCancels
<1> QED
  BY <1>5 DEF p

(* A quotient of a quotient. *)
LEMMA RatioOfRatio ==
    ASSUME NEW r \in Nat, NEW q \in Nat, NEW x \in Nat, NEW s \in Nat, NEW c \in Nat,
           NEW fewer \in Nat, NEW d \in Nat, NEW e \in Nat, fewer + d = e + DECIMALS,
           (r * q) * TenTo[fewer] <= s * MaxRate, s * c <= x * TenTo[e]
    PROVE  (r * c) * q <= x * TenTo[DECIMALS + d]
<1> DEFINE t == TenTo[fewer]
           p == TenTo[DECIMALS + d]
           u == TenTo[e]
<1>1. DECIMALS \in Nat /\ DECIMALS + d \in Nat /\ 2 * DECIMALS \in Nat
  BY ScaleAssumption
<1>2. t \in Nat \ {0} /\ p \in Nat /\ u \in Nat /\ MaxRate \in Nat
  BY <1>1, Powers, Scale
<1>3. u * MaxRate = p * t
  <2>1. e + 2 * DECIMALS = (DECIMALS + d) + fewer
    BY <1>1
  <2>2. TenTo[e + 2 * DECIMALS] = u * MaxRate
    BY <1>1, PowersAdd, MaxRateIs
  <2>3. TenTo[(DECIMALS + d) + fewer] = p * t
    BY <1>1, PowersAdd
  <2> QED
    BY <2>1, <2>2, <2>3
<1>4. (r * q) * t <= s * MaxRate /\ s * c <= x * u
  OBVIOUS
<1> HIDE DEF t, p, u
<1>5. ((r * q) * t) * c <= (s * MaxRate) * c
  BY <1>2, <1>4, TimesNat, TimesMonotone
<1>6. (s * c) * MaxRate <= (x * u) * MaxRate
  BY <1>2, <1>4, TimesNat, TimesMonotone
<1>7. (s * MaxRate) * c = (s * c) * MaxRate
  <2>1. (s * MaxRate) * c = s * (MaxRate * c) /\ MaxRate * c = c * MaxRate
        /\ s * (c * MaxRate) = (s * c) * MaxRate
    BY <1>2, TimesAssociative
  <2> QED
    BY <2>1
<1>8. (x * u) * MaxRate = (x * p) * t
  <2>1. (x * u) * MaxRate = x * (u * MaxRate) /\ x * (p * t) = (x * p) * t
    BY <1>2, TimesAssociative
  <2> QED
    BY <1>3, <2>1
<1>9. ((r * q) * t) * c = ((r * c) * q) * t
  <2>1. ((r * q) * t) * c = (r * q) * (t * c) /\ t * c = c * t
        /\ (r * q) * (c * t) = ((r * q) * c) * t
    BY <1>2, TimesNat, TimesAssociative
  <2>2. (r * q) * c = r * (q * c) /\ q * c = c * q /\ r * (c * q) = (r * c) * q
    BY TimesAssociative
  <2> QED
    BY <2>1, <2>2
<1>10. ((r * c) * q) * t <= (x * p) * t
  <2>1. /\ ((r * c) * q) * t \in Nat /\ (s * c) * MaxRate \in Nat /\ (x * p) * t \in Nat
    BY <1>2, TimesNat
  <2> QED
    BY <1>5, <1>6, <1>7, <1>8, <1>9, <2>1
<1>11. (r * c) * q <= x * p
  BY <1>2, <1>10, TimesNat, TimesCancels
<1> QED
  BY <1>11 DEF p

LEMMA SequenceMembers == \A n \in Nat : \A s \in Seq(1..n) :
    s \in Seq(Nat) /\ \A x \in ToSet(s) : x \in 1..n /\ x \in Nat
<1> SUFFICES ASSUME NEW n \in Nat, NEW s \in Seq(1..n)
             PROVE  s \in Seq(Nat) /\ \A x \in ToSet(s) : x \in 1..n /\ x \in Nat
  OBVIOUS
<1>1. \A T : \A t \in Seq(T) : \A k \in DOMAIN t : t[k] \in T
  OBVIOUS
<1>2. \A k \in DOMAIN s : s[k] \in 1..n
  BY <1>1
<1> QED
  BY <1>2 DEF ToSet

(* Between the quotients of the highest and the lowest rates. *)
LEMMA RatioBounds ==
    ASSUME NEW a, NEW b, a.rates \in Seq(1..MaxRate), a.decimals = DECIMALS,
           b.rates \in Seq(1..MaxRate), b.decimals = DECIMALS,
           DividedBy(a, b).rates \in Seq(1..MaxRate), DividedBy(a, b).rates # <<>>,
           DividedBy(a, b).decimals \in Nat
    PROVE  /\ Highest(DividedBy(a, b).rates) * Lowest(b.rates)
                <= Highest(a.rates) * TenTo[DividedBy(a, b).decimals]
           /\ (Lowest(DividedBy(a, b).rates) + 1)
                  * TenTo[2 * DECIMALS - DividedBy(a, b).decimals] * Highest(b.rates)
                > Lowest(a.rates) * (MaxRate - Highest(b.rates) + 1)
<1> DEFINE rs == DividedBy(a, b).rates
           d == DividedBy(a, b).decimals
<1>1. /\ a.rates \in Seq(Nat) /\ \A x \in ToSet(a.rates) : x \in Nat
      /\ b.rates \in Seq(Nat) /\ \A q \in ToSet(b.rates) : q \in Nat /\ q \in 1..MaxRate
      /\ rs \in Seq(Nat) /\ \A r \in ToSet(rs) : r \in Nat
  BY Scale, SequenceMembers
<1>2. DECIMALS \in Nat /\ d \in Nat
  BY ScaleAssumption
<1>3. \A r \in ToSet(rs) : \E fewer \in Nat :
         /\ fewer + d = DECIMALS + DECIMALS
         /\ \E x \in ToSet(a.rates), q \in ToSet(b.rates) :
               /\ (r * q) * TenTo[fewer] <= x * MaxRate
               /\ x * (MaxRate - q + 1) < ((r + 1) * TenTo[fewer]) * q
  BY <1>1, <1>2, RatioExact
<1>4. /\ Highest(rs) \in ToSet(rs) /\ Lowest(rs) \in ToSet(rs)
  BY <1>1, Extremes DEF Highest, Lowest
<1> HIDE DEF rs, d
<1>5. \A s \in Seq(Nat) : \A x \in ToSet(s) : Lowest(s) <= x /\ x <= Highest(s)
                                     /\ Lowest(s) \in ToSet(s) /\ Highest(s) \in ToSet(s)
  <2> SUFFICES ASSUME NEW s \in Seq(Nat), NEW x \in ToSet(s)
               PROVE  Lowest(s) <= x /\ x <= Highest(s)
                      /\ Lowest(s) \in ToSet(s) /\ Highest(s) \in ToSet(s)
    OBVIOUS
  <2>1. s # <<>>
    BY DEF ToSet
  <2> QED
    BY <2>1, Extremes DEF Highest, Lowest
<1>6. Highest(rs) * Lowest(b.rates) <= Highest(a.rates) * TenTo[d]
  <2> DEFINE r == Highest(rs)
             low == Lowest(b.rates)
             high == Highest(a.rates)
  <2>1. PICK fewer \in Nat, x \in ToSet(a.rates), q \in ToSet(b.rates) :
           fewer + d = DECIMALS + DECIMALS /\ (r * q) * TenTo[fewer] <= x * MaxRate
    BY <1>3, <1>4
  <2>2. /\ low <= q /\ x <= high /\ r \in Nat /\ x \in Nat /\ q \in Nat
        /\ low \in Nat /\ high \in Nat
    BY <1>1, <1>4, <1>5
  <2>3. TenTo[d] \in Nat
    BY <1>2, Powers
  <2> HIDE DEF r, low, high
  <2>4. r * q <= x * TenTo[d]
    BY <1>2, <2>1, <2>2, TimesNat, RatioAbove
  <2>5. r * low <= r * q /\ x * TenTo[d] <= high * TenTo[d]
    BY <2>2, <2>3, TimesMonotone
  <2>6. r * low \in Nat /\ r * q \in Nat /\ x * TenTo[d] \in Nat /\ high * TenTo[d] \in Nat
    BY <2>2, <2>3, TimesNat
  <2>7. r * low <= high * TenTo[d]
    BY <2>4, <2>5, <2>6
  <2> QED
    BY <2>7 DEF r, low, high
<1>7. (Lowest(rs) + 1) * TenTo[2 * DECIMALS - d] * Highest(b.rates)
         > Lowest(a.rates) * (MaxRate - Highest(b.rates) + 1)
  <2> DEFINE r == Lowest(rs)
             high == Highest(b.rates)
             low == Lowest(a.rates)
  <2>1. PICK fewer \in Nat, x \in ToSet(a.rates), q \in ToSet(b.rates) :
           fewer + d = DECIMALS + DECIMALS
           /\ x * (MaxRate - q + 1) < ((r + 1) * TenTo[fewer]) * q
    BY <1>3, <1>4
  <2>2. /\ q <= high /\ low <= x /\ r \in Nat /\ x \in Nat /\ q \in 1..MaxRate
        /\ high \in 1..MaxRate /\ low \in Nat
    BY <1>1, <1>4, <1>5
  <2>3. fewer = 2 * DECIMALS - d
    BY <1>2, <2>1
  <2> HIDE DEF r, high, low
  <2> DEFINE t == (r + 1) * TenTo[fewer]
             m == MaxRate - q + 1
             n == MaxRate - high + 1
  <2>4. t \in Nat
    <3>1. TenTo[fewer] \in Nat
      BY <2>1, Powers
    <3>2. r + 1 \in Nat
      BY <2>2
    <3> QED
      BY <3>1, <3>2, TimesNat
  <2>5. m \in Nat /\ n \in Nat /\ n <= m /\ q \in Nat /\ high \in Nat
    BY <2>2, Scale
  <2>6. x * m < t * q
    BY <2>1 DEF r
  <2> HIDE DEF t, m, n
  <2>7. low * n <= x * n /\ x * n <= x * m /\ t * q <= t * high
    BY <2>2, <2>4, <2>5, TimesMonotone
  <2>8. low * n \in Nat /\ x * n \in Nat /\ x * m \in Nat /\ t * q \in Nat /\ t * high \in Nat
    BY <2>2, <2>4, <2>5, TimesNat
  <2>9. t * high > low * n
    BY <2>6, <2>7, <2>8
  <2> QED
    BY <2>3, <2>9 DEF t, n, r, high, low
<1> QED
  BY <1>6, <1>7 DEF rs, d

(* At most the quotient of the highest rate of a, and the lowest rates of  *)
(* b and of the numbers in C, among which the rates of c are.              *)
LEMMA PriceBound ==
    ASSUME NEW a, NEW b, NEW c, NEW C,
           a.rates \in Seq(1..MaxRate), a.decimals = DECIMALS,
           c.rates \in Seq(1..MaxRate), c.decimals = DECIMALS,
           b.rates \in Seq(1..MaxRate), b.decimals = DECIMALS,
           DividedBy(a, c).rates \in Seq(1..MaxRate), DividedBy(a, c).decimals \in Nat,
           ToSet(c.rates) \subseteq C, C \subseteq Nat,
           DividedBy(DividedBy(a, c), b).rates \in Seq(1..MaxRate),
           DividedBy(DividedBy(a, c), b).rates # <<>>,
           DividedBy(DividedBy(a, c), b).decimals \in Nat
    PROVE  Highest(DividedBy(DividedBy(a, c), b).rates) * Min(C) * Lowest(b.rates)
              <= Highest(a.rates)
                     * TenTo[DECIMALS + DividedBy(DividedBy(a, c), b).decimals]
<1> DEFINE inUSD == DividedBy(a, c)
           rs == DividedBy(inUSD, b).rates
           d == DividedBy(inUSD, b).decimals
           e == inUSD.decimals
           r == Highest(rs)
<1>1. /\ a.rates \in Seq(Nat) /\ \A x \in ToSet(a.rates) : x \in Nat
      /\ b.rates \in Seq(Nat) /\ \A q \in ToSet(b.rates) : q \in Nat
      /\ \A m \in ToSet(c.rates) : m \in Nat
      /\ inUSD.rates \in Seq(Nat) /\ \A m \in ToSet(inUSD.rates) : m \in Nat
      /\ rs \in Seq(Nat) /\ \A m \in ToSet(rs) : m \in Nat
  BY Scale, SequenceMembers
<1>2. DECIMALS \in Nat /\ d \in Nat /\ e \in Nat
  BY ScaleAssumption
<1>3. r \in ToSet(rs) /\ r \in Nat
  BY <1>1, Extremes DEF Highest
<1>4. PICK fewer \in Nat, s \in ToSet(inUSD.rates), q \in ToSet(b.rates) :
         fewer + d = e + DECIMALS /\ (r * q) * TenTo[fewer] <= s * MaxRate
  <2> HIDE DEF inUSD, r
  <2> QED
    BY <1>1, <1>2, <1>3, RatioExact
<1>5. PICK less \in Nat, x \in ToSet(a.rates), m \in ToSet(c.rates) :
         less + e = DECIMALS + DECIMALS /\ (s * m) * TenTo[less] <= x * MaxRate
  <2>1. s \in ToSet(DividedBy(a, c).rates) /\ s \in Nat /\ a.decimals \in Nat
    BY <1>1, <1>2
  <2>2. \E less \in Nat :
           /\ less + DividedBy(a, c).decimals = a.decimals + DECIMALS
           /\ \E x \in ToSet(a.rates), m \in ToSet(c.rates) :
                 /\ (s * m) * TenTo[less] <= x * MaxRate
                 /\ x * (MaxRate - m + 1) < ((s + 1) * TenTo[less]) * m
    BY <1>1, <2>1, RatioExact
  <2> QED
    BY <2>2
<1> HIDE DEF inUSD, rs, d, e, r
<1>6. x \in Nat /\ m \in Nat /\ s \in Nat /\ q \in Nat
  BY <1>1
<1>7. s * m <= x * TenTo[e]
  BY <1>2, <1>5, <1>6, TimesNat, RatioAbove
<1>8. (r * m) * q <= x * TenTo[DECIMALS + d]
  BY <1>2, <1>3, <1>4, <1>6, <1>7, RatioOfRatio
<1> DEFINE least == Min(C)
           low == Lowest(b.rates)
           high == Highest(a.rates)
           p == TenTo[DECIMALS + d]
<1>9. /\ least \in Nat /\ least <= m
      /\ low \in Nat /\ low <= q
      /\ high \in Nat /\ x <= high
      /\ p \in Nat
  <2>1. C # {} /\ m \in C
    OBVIOUS
  <2>2. least \in Nat /\ least <= m
    BY <2>1, LeastNumber
  <2>3. a.rates # <<>> /\ b.rates # <<>>
    BY DEF ToSet
  <2>4. low \in ToSet(b.rates) /\ low <= q /\ high \in ToSet(a.rates) /\ x <= high
    BY <1>1, <2>3, Extremes DEF Highest, Lowest
  <2>5. DECIMALS + d \in Nat
    BY <1>2
  <2> QED
    BY <1>1, <2>2, <2>4, <2>5, Powers
<1> HIDE DEF least, low, high, p
<1>10. r * least <= r * m
  BY <1>3, <1>6, <1>9, TimesMonotone
<1>11. /\ (r * least) * low <= (r * m) * low
       /\ (r * m) * low <= (r * m) * q
       /\ x * p <= high * p
  BY <1>3, <1>6, <1>9, <1>10, TimesNat, TimesMonotone
<1>12. /\ (r * least) * low \in Nat /\ (r * m) * low \in Nat /\ (r * m) * q \in Nat
       /\ x * p \in Nat /\ high * p \in Nat
  BY <1>3, <1>6, <1>9, TimesNat
<1>13. (r * m) * q <= x * p
  BY <1>8 DEF p
<1>14. (r * least) * low <= high * p
  BY <1>11, <1>12, <1>13
<1> QED
  BY <1>14 DEF least, low, high, p, r, rs, d, inUSD

(* A quotient of a quotient, from below: l and t are the scales of the     *)
(* first one and of the second.                                            *)
LEMMA RatioOfRatioBelow ==
    ASSUME NEW r \in Nat, NEW s \in Nat, NEW x \in Nat, NEW n \in Nat \ {0}, NEW k \in Nat,
           NEW m \in Nat \ {0}, NEW q \in Nat \ {0}, NEW t \in Nat \ {0}, NEW l \in Nat \ {0},
           s * n < (r * t) * q, x * k < ((s + 1) * l) * m
    PROVE  n * (x * k - m * l) < ((r * (t * l)) * m) * q
<1> DEFINE z == x * k - m * l
           lm == l * m
<1>1. /\ x * k \in Nat /\ lm \in Nat \ {0} /\ m * l = lm /\ s * lm \in Nat
      /\ (r * t) * q \in Nat /\ s * n \in Nat
  <2>1. \A a, b \in Nat \ {0} : a * b \in Nat \ {0}
    OBVIOUS
  <2> QED
    BY <2>1, TimesNat, TimesAssociative
<1>2. ((s + 1) * l) * m = s * lm + lm
  <2>1. ((s + 1) * l) * m = (s + 1) * lm
    BY TimesAssociative
  <2>2. \A a \in Nat : (s + 1) * a = s * a + a
    OBVIOUS
  <2> QED
    BY <1>1, <2>1, <2>2
<1>3. z \in Int /\ z < s * lm
  BY <1>1, <1>2
<1> HIDE DEF z, lm
<1>4. n * z < n * (s * lm) /\ n * z \in Int
  <2>1. \A a, b \in Int : a < b => n * a < n * b
    OBVIOUS
  <2> QED
    BY <1>1, <1>3, <2>1
<1>5. n * (s * lm) = (s * n) * lm
  BY <1>1, TimesAssociative
<1>6. (s * n) * lm <= ((r * t) * q) * lm
  BY <1>1, TimesMonotone
<1>7. ((r * t) * q) * lm = ((r * (t * l)) * m) * q
  <2>1. ((r * t) * q) * lm = (r * t) * (lm * q)
    <3>1. ((r * t) * q) * lm = (r * t) * (q * lm) /\ q * lm = lm * q
      BY <1>1, TimesNat, TimesAssociative
    <3> QED
      BY <3>1
  <2>2. (r * t) * (lm * q) = ((r * t) * lm) * q
    BY <1>1, TimesNat, TimesAssociative
  <2>3. (r * t) * lm = ((r * t) * l) * m
    BY TimesNat, TimesAssociative DEF lm
  <2>4. (r * t) * l = r * (t * l)
    BY TimesAssociative
  <2> QED
    BY <2>1, <2>2, <2>3, <2>4
<1>8. /\ n * (s * lm) \in Nat /\ (s * n) * lm \in Nat /\ ((r * t) * q) * lm \in Nat
  BY <1>1, TimesNat
<1> QED
  BY <1>4, <1>5, <1>6, <1>7, <1>8 DEF z

(* At least the quotient of the lowest rate of a, and the highest rates of *)
(* b and of the numbers in C, less what is rounded away.                   *)
LEMMA PriceBoundBelow ==
    ASSUME NEW a, NEW b, NEW c, NEW C,
           a.rates \in Seq(1..MaxRate), a.decimals = DECIMALS,
           c.rates \in Seq(1..MaxRate), c.decimals = DECIMALS,
           b.rates \in Seq(1..MaxRate), b.decimals = DECIMALS,
           DividedBy(a, c).rates \in Seq(1..MaxRate), DividedBy(a, c).decimals \in Nat,
           ToSet(c.rates) \subseteq C, C \subseteq 1..MaxRate,
           DividedBy(DividedBy(a, c), b).rates \in Seq(1..MaxRate),
           DividedBy(DividedBy(a, c), b).rates # <<>>,
           DividedBy(DividedBy(a, c), b).decimals \in Nat
    PROVE  (Lowest(DividedBy(DividedBy(a, c), b).rates) + 1)
                  * TenTo[3 * DECIMALS - DividedBy(DividedBy(a, c), b).decimals]
                  * Max(C) * Highest(b.rates)
              > (MaxRate - Highest(b.rates) + 1)
                    * (Lowest(a.rates) * (MaxRate - Max(C) + 1)
                           - Max(C) * TenTo[2 * DECIMALS - DividedBy(a, c).decimals])
<1> DEFINE inUSD == DividedBy(a, c)
           rs == DividedBy(inUSD, b).rates
           d == DividedBy(inUSD, b).decimals
           e == inUSD.decimals
           r == Lowest(rs)
<1>1. /\ a.rates \in Seq(Nat) /\ \A x \in ToSet(a.rates) : x \in Nat
      /\ b.rates \in Seq(Nat) /\ \A q \in ToSet(b.rates) : q \in Nat /\ q \in 1..MaxRate
      /\ \A m \in ToSet(c.rates) : m \in Nat
      /\ inUSD.rates \in Seq(Nat) /\ \A m \in ToSet(inUSD.rates) : m \in Nat
      /\ rs \in Seq(Nat) /\ \A m \in ToSet(rs) : m \in Nat
  BY Scale, SequenceMembers
<1>2. DECIMALS \in Nat /\ d \in Nat /\ e \in Nat
  BY ScaleAssumption
<1>3. r \in ToSet(rs) /\ r \in Nat
  BY <1>1, Extremes DEF Lowest
<1>4. PICK fewer \in Nat, s \in ToSet(inUSD.rates), q \in ToSet(b.rates) :
         fewer + d = e + DECIMALS /\ s * (MaxRate - q + 1) < ((r + 1) * TenTo[fewer]) * q
  <2> HIDE DEF inUSD, r
  <2> QED
    BY <1>1, <1>2, <1>3, RatioExact
<1>5. PICK less \in Nat, x \in ToSet(a.rates), m \in ToSet(c.rates) :
         less + e = DECIMALS + DECIMALS /\ x * (MaxRate - m + 1) < ((s + 1) * TenTo[less]) * m
  <2>1. s \in ToSet(DividedBy(a, c).rates) /\ s \in Nat /\ a.decimals \in Nat
    BY <1>1, <1>2
  <2>2. \E less \in Nat :
           /\ less + DividedBy(a, c).decimals = a.decimals + DECIMALS
           /\ \E x \in ToSet(a.rates), m \in ToSet(c.rates) :
                 /\ (s * m) * TenTo[less] <= x * MaxRate
                 /\ x * (MaxRate - m + 1) < ((s + 1) * TenTo[less]) * m
    BY <1>1, <2>1, RatioExact
  <2> QED
    BY <2>2
<1> HIDE DEF inUSD, rs, d, e, r
<1> DEFINE most == Max(C)
           high == Highest(b.rates)
           low == Lowest(a.rates)
<1>6. /\ most \in 1..MaxRate /\ m <= most
      /\ high \in 1..MaxRate /\ q <= high
      /\ low \in Nat /\ low <= x
      /\ s \in Nat /\ x \in Nat /\ q \in 1..MaxRate /\ m \in 1..MaxRate
  <2>1. C # {} /\ m \in C /\ IsFiniteSet(C) /\ C \subseteq Int
    <3>1. MaxRate \in Int
      BY Scale
    <3>2. IsFiniteSet(1..MaxRate) /\ 1..MaxRate \subseteq Int
      BY <3>1, FS_Interval
    <3> QED
      BY <3>2, FS_Subset
  <2>2. most \in C /\ m <= most
    BY <2>1, GreatestMember
  <2>3. a.rates # <<>> /\ b.rates # <<>>
    BY DEF ToSet
  <2>4. low \in ToSet(a.rates) /\ low <= x /\ high \in ToSet(b.rates) /\ q <= high
    BY <1>1, <2>3, Extremes DEF Highest, Lowest
  <2> QED
    BY <1>1, <2>1, <2>2, <2>4
<1> HIDE DEF most, high, low
<1> DEFINE n == MaxRate - high + 1
           k == MaxRate - most + 1
           t == TenTo[fewer]
           l == TenTo[less]
<1>7. /\ n \in Nat \ {0} /\ k \in Nat /\ n <= MaxRate - q + 1 /\ k <= MaxRate - m + 1
      /\ MaxRate - q + 1 \in Nat /\ MaxRate - m + 1 \in Nat
      /\ most \in Nat \ {0} /\ high \in Nat \ {0} /\ q \in Nat /\ m \in Nat
      /\ t \in Nat \ {0} /\ l \in Nat \ {0} /\ r + 1 \in Nat /\ s + 1 \in Nat
  <2>1. t \in Nat \ {0} /\ l \in Nat \ {0}
    BY Powers
  <2>2. MaxRate \in Nat
    BY Scale
  <2> HIDE DEF t, l
  <2> QED
    BY <1>3, <1>6, <2>1, <2>2
<1>8. s * n < ((r + 1) * t) * high
  <2>1. s * n <= s * (MaxRate - q + 1) /\ ((r + 1) * t) * q <= ((r + 1) * t) * high
    BY <1>6, <1>7, TimesNat, TimesMonotone
  <2>2. /\ s * n \in Nat /\ s * (MaxRate - q + 1) \in Nat
        /\ ((r + 1) * t) * q \in Nat /\ ((r + 1) * t) * high \in Nat
    BY <1>6, <1>7, TimesNat
  <2>3. s * (MaxRate - q + 1) < ((r + 1) * t) * q
    BY <1>4
  <2> HIDE DEF n, t
  <2> QED
    BY <2>1, <2>2, <2>3
<1>9. low * k < ((s + 1) * l) * most
  <2>1. /\ low * k <= x * k /\ x * k <= x * (MaxRate - m + 1)
        /\ ((s + 1) * l) * m <= ((s + 1) * l) * most
    BY <1>6, <1>7, TimesNat, TimesMonotone
  <2>2. /\ low * k \in Nat /\ x * k \in Nat /\ x * (MaxRate - m + 1) \in Nat
        /\ ((s + 1) * l) * m \in Nat /\ ((s + 1) * l) * most \in Nat
    BY <1>6, <1>7, TimesNat
  <2>3. x * (MaxRate - m + 1) < ((s + 1) * l) * m
    BY <1>5
  <2> HIDE DEF k, l
  <2> QED
    BY <2>1, <2>2, <2>3
<1>10. t * l = TenTo[3 * DECIMALS - d] /\ l = TenTo[2 * DECIMALS - e]
  <2>1. less = 2 * DECIMALS - e /\ fewer + less = 3 * DECIMALS - d
    BY <1>2, <1>4, <1>5
  <2> QED
    BY <2>1, PowersAdd
<1> HIDE DEF n, k, t, l
<1>11. n * (low * k - most * l) < (((r + 1) * (t * l)) * most) * high
  BY <1>6, <1>7, <1>8, <1>9, RatioOfRatioBelow
<1>12. n * (low * k - most * TenTo[2 * DECIMALS - e])
         < (((r + 1) * TenTo[3 * DECIMALS - d]) * most) * high
  BY <1>10, <1>11
<1> QED
  BY <1>12 DEF n, k, most, high, low, r, rs, d, e, inUSD

-----------------------------------------------------------------------------
(* Square roots *)

LEMMA FourPowers ==
    /\ FourTo[0] = 1
    /\ \A k \in Nat : FourTo[k] \in Nat /\ FourTo[k] > k /\ FourTo[k + 1] = 4 * FourTo[k]
<1> DEFINE next == [n \in Nat |-> 4 * n]
           T == {k \in Nat : FourTo[k] \in Nat /\ FourTo[k] > k}
<1>1. FourTo = Iterated(next, 1)
  BY DEF FourTo
<1> HIDE DEF next
<1>2. FourTo[0] = 1 /\ \A k \in Nat : FourTo[k + 1] = next[FourTo[k]]
  BY <1>1, Iteration
<1>3. \A n \in Nat : next[n] = 4 * n
  BY DEF next
<1>4. 0 \in T
  BY <1>2
<1>5. ASSUME NEW k \in Nat, k \in T PROVE k + 1 \in T
  BY <1>2, <1>3, <1>5
<1> HIDE DEF T
<1>6. \A k \in Nat : k \in T
  BY <1>4, <1>5, AllNumbers
<1> QED
  BY <1>2, <1>3, <1>6 DEF T

RootState == [power : Nat, rest : Nat, result : Nat]

(* When the root is known in units of the root of a power of four, m is    *)
(* that root.                                                              *)
IsRootSoFar(state, number, power) ==
    /\ state \in RootState /\ state.power = power
    /\ \E m \in Nat :
          /\ state.result = m * power
          /\ state.rest + (m * m) * power = number
          /\ state.rest < (2 * m + 1) * power

(* The next binary digit of the root is 1 or 0. *)
LEMMA RootDigit ==
    ASSUME NEW m \in Nat, NEW p \in Nat, NEW rest \in Nat, NEW number \in Nat,
           rest + (m * m) * (4 * p) = number, rest < (2 * m + 1) * (4 * p)
    PROVE  /\ (m * (4 * p)) \div 2 = (2 * m) * p
           /\ rest >= m * (4 * p) + p =>
                 /\ (2 * m) * p + p = (2 * m + 1) * p
                 /\ rest - (m * (4 * p) + p) + ((2 * m + 1) * (2 * m + 1)) * p = number
                 /\ rest - (m * (4 * p) + p) < (2 * (2 * m + 1) + 1) * p
           /\ rest < m * (4 * p) + p =>
                 /\ rest + ((2 * m) * (2 * m)) * p = number
                 /\ rest < (2 * (2 * m) + 1) * p
<1> DEFINE w == m * p
           v == (m * m) * p
<1>1. w \in Nat /\ v \in Nat
  BY TimesNat
<1>2. m * (4 * p) = 4 * w /\ (2 * m) * p = 2 * w /\ (m * m) * (4 * p) = 4 * v
  OBVIOUS
<1>3. (2 * m + 1) * (4 * p) = 8 * w + 4 * p /\ (2 * m + 1) * p = 2 * w + p
  OBVIOUS
<1>4. ((2 * m + 1) * (2 * m + 1)) * p = 4 * v + 4 * w + p /\ ((2 * m) * (2 * m)) * p = 4 * v
  OBVIOUS
<1>5. (2 * (2 * m + 1) + 1) * p = 4 * w + 3 * p /\ (2 * (2 * m) + 1) * p = 4 * w + p
  OBVIOUS
<1> HIDE DEF w, v
<1> QED
  BY <1>1, <1>2, <1>3, <1>4, <1>5

LEMMA RootStep ==
    ASSUME NEW number \in Nat, NEW count \in Nat, NEW i \in Nat, i < count,
           IsRootSoFar(RootStates(number, count)[i], number, FourTo[count - i])
    PROVE  IsRootSoFar(RootStates(number, count)[i + 1], number, FourTo[count - (i + 1)])
<1> DEFINE next(state) ==
               LET power == state.power \div 4
                   trial == state.result + power
                   half == state.result \div 2
               IN  IF state.rest >= trial
                   THEN [power |-> power, rest |-> state.rest - trial, result |-> half + power]
                   ELSE [power |-> power, rest |-> state.rest, result |-> half]
           step == [state \in [power : Nat, rest : Nat, result : Nat] |-> next(state)]
           states == RootStates(number, count)
           state == states[i]
           p == FourTo[count - (i + 1)]
<1>1. states = Iterated(step, [power |-> FourTo[count], rest |-> number, result |-> 0])
  BY DEF RootStates
<1> HIDE DEF step, states
<1>2. states[i + 1] = step[state]
  BY <1>1, Iteration
<1>3. FourTo[count - i] = 4 * p /\ p \in Nat
  <2>1. count - (i + 1) \in Nat /\ (count - (i + 1)) + 1 = count - i
    OBVIOUS
  <2> QED
    BY <2>1, FourPowers
<1> HIDE DEF p
<1>4. state \in RootState /\ state.power = 4 * p
  BY <1>3 DEF IsRootSoFar, states
<1>5. PICK m \in Nat : /\ state.result = m * (4 * p)
                       /\ state.rest + (m * m) * (4 * p) = number
                       /\ state.rest < (2 * m + 1) * (4 * p)
  BY <1>3 DEF IsRootSoFar, states
<1>6. step[state] = next(state)
  BY <1>4 DEF step, RootState
<1> HIDE DEF state
<1>7. state.rest \in Nat
  BY <1>4 DEF RootState
<1>8. state.power \div 4 = p
  BY <1>3, <1>4
<1> DEFINE trial == m * (4 * p) + p
           half == (2 * m) * p
<1>9. state.result \div 2 = half
  BY <1>3, <1>5, <1>7, RootDigit
<1>10. trial \in Nat /\ half \in Nat
  BY <1>3, TimesNat
<1>11. CASE state.rest >= trial
  <2>1. next(state) = [power |-> p, rest |-> state.rest - trial, result |-> half + p]
    BY <1>5, <1>8, <1>9, <1>11
  <2>2. /\ half + p = (2 * m + 1) * p
        /\ state.rest - trial + ((2 * m + 1) * (2 * m + 1)) * p = number
        /\ state.rest - trial < (2 * (2 * m + 1) + 1) * p
    BY <1>3, <1>5, <1>7, <1>11, RootDigit
  <2>3. state.rest - trial \in Nat /\ half + p \in Nat /\ 2 * m + 1 \in Nat
    BY <1>3, <1>7, <1>10, <1>11
  <2> HIDE DEF trial, half
  <2>4. next(state) \in RootState
    BY <1>3, <2>1, <2>3 DEF RootState
  <2> HIDE DEF next
  <2>5. IsRootSoFar(next(state), number, p)
    BY <2>1, <2>2, <2>3, <2>4 DEF IsRootSoFar
  <2> QED
    BY <1>2, <1>6, <2>5 DEF states, p
<1>12. CASE ~ (state.rest >= trial)
  <2>1. next(state) = [power |-> p, rest |-> state.rest, result |-> half]
    BY <1>5, <1>8, <1>9, <1>12
  <2>2. /\ state.rest + ((2 * m) * (2 * m)) * p = number
        /\ state.rest < (2 * (2 * m) + 1) * p
    <3>1. state.rest < trial
      BY <1>7, <1>10, <1>12
    <3> QED
      BY <1>3, <1>5, <1>7, <3>1, RootDigit
  <2>3. 2 * m \in Nat
    OBVIOUS
  <2>4. next(state) \in RootState
    <3> HIDE DEF trial, half, next
    <3> QED
      BY <1>3, <1>7, <1>10, <2>1 DEF RootState
  <2> HIDE DEF next, trial
  <2>5. IsRootSoFar(next(state), number, p)
    BY <2>1, <2>2, <2>3, <2>4 DEF IsRootSoFar
  <2> QED
    BY <1>2, <1>6, <2>5 DEF states, p
<1> QED
  BY <1>11, <1>12

(* The square root of any number, rounded down. *)
LEMMA SquareRootExact ==
    ASSUME NEW number \in Nat
    PROVE  /\ SquareRoot(number) \in Nat
           /\ SquareRoot(number) * SquareRoot(number) <= number
           /\ number < (SquareRoot(number) + 1) * (SquareRoot(number) + 1)
<1> DEFINE Enough == {k \in Nat : FourTo[k] > number}
           count == CHOOSE k \in 0..number :
                       FourTo[k] > number /\ \A j \in 0..k - 1 : FourTo[j] <= number
<1>1. count \in Nat /\ FourTo[count] > number
  <2>1. PICK k \in Enough : \A j \in Enough : k <= j
    <3>1. Enough \subseteq Nat /\ number \in Enough
      BY FourPowers
    <3> QED
      BY <3>1, LeastNatural
  <2>2. k <= number /\ k \in Nat
    BY <2>1, FourPowers
  <2>3. \A j \in 0..k - 1 : FourTo[j] <= number
    <3> SUFFICES ASSUME NEW j \in 0..k - 1 PROVE FourTo[j] <= number
      OBVIOUS
    <3>1. j \in Nat /\ ~ (k <= j)
      BY <2>2
    <3>2. j \notin Enough /\ FourTo[j] \in Nat
      BY <2>1, <3>1, FourPowers
    <3> QED
      BY <3>1, <3>2
  <2>4. k \in 0..number /\ FourTo[k] > number
    BY <2>1, <2>2
  <2> HIDE DEF Enough
  <2>5. count \in 0..number /\ FourTo[count] > number
    BY <2>3, <2>4
  <2> QED
    BY <2>5
<1>2. SquareRoot(number) = RootStates(number, count)[count].result
  BY DEF SquareRoot
<1> HIDE DEF count
<1> DEFINE states == RootStates(number, count)
           T == {i \in Nat : i <= count => IsRootSoFar(states[i], number, FourTo[count - i])}
<1>3. states[0] = [power |-> FourTo[count], rest |-> number, result |-> 0]
  BY Iteration DEF RootStates
<1>4. 0 \in T
  <2>1. FourTo[count] \in Nat /\ count - 0 = count
    BY <1>1, FourPowers
  <2> DEFINE p == FourTo[count]
  <2>2. states[0] \in RootState /\ states[0].power = p
        /\ states[0].rest = number /\ states[0].result = 0
    BY <1>3, <2>1 DEF RootState
  <2> HIDE DEF p, states
  <2>3. 0 = 0 * p /\ number + (0 * 0) * p = number /\ number < (2 * 0 + 1) * p
    BY <1>1, <2>1 DEF p
  <2>4. IsRootSoFar(states[0], number, p)
    BY <2>2, <2>3 DEF IsRootSoFar
  <2> QED
    BY <2>1, <2>4 DEF p, states
<1>5. ASSUME NEW i \in Nat, i \in T PROVE i + 1 \in T
  BY <1>1, <1>5, RootStep
<1> HIDE DEF T
<1>6. count \in T
  BY <1>1, <1>4, <1>5, AllNumbers
<1>7. IsRootSoFar(states[count], number, 1)
  <2>1. count - count = 0 /\ count <= count
    BY <1>1
  <2> QED
    BY <1>6, <2>1, FourPowers DEF T
<1> HIDE DEF states
<1>8. PICK m \in Nat : /\ states[count].result = m * 1
                       /\ states[count].rest + (m * m) * 1 = number
                       /\ states[count].rest < (2 * m + 1) * 1
  BY <1>7 DEF IsRootSoFar
<1>9. states[count].rest \in Nat
  BY <1>7 DEF IsRootSoFar, RootState
<1>10. SquareRoot(number) = m
  <2>1. m * 1 = m
    OBVIOUS
  <2> QED
    BY <1>2, <1>8, <2>1 DEF states
<1>11. m * m <= number /\ number < (m + 1) * (m + 1)
  <2>1. m * m \in Nat /\ (m * m) * 1 = m * m /\ (2 * m + 1) * 1 = 2 * m + 1
        /\ (m + 1) * (m + 1) = m * m + (2 * m + 1)
    OBVIOUS
  <2> QED
    BY <1>8, <1>9, <2>1
<1> QED
  BY <1>10, <1>11

-----------------------------------------------------------------------------
(* The results *)

LEMMA QuotedInRange ==
    ASSUME ReplyInv, reply.result = "Ok"
    PROVE  /\ InRange(reply.direct)
           /\ reply.direct.rates \in Seq(1..MaxRate) /\ reply.direct.decimals \in Nat
           /\ reply.direct.rates # <<>>
<1> DEFINE r == reply.direct.rates
<1>1. /\ r \in Seq(1..MaxRate) /\ reply.direct.decimals \in Nat
      /\ r # <<>> => reply.direct.decimals <= 2 * DECIMALS
      /\ reply.result = Validated(reply.direct)
  BY DEF ReplyInv, IsComposed
<1>2. r # <<>>
  <2>1. Median(r) # 0
    BY <1>1 DEF Validated
  <2> QED
    BY <2>1, NoMedian
<1>3. \A i \in DOMAIN r : r[i] \in 1..MaxRate
  <2>1. \A T : \A s \in Seq(T) : \A i \in DOMAIN s : s[i] \in T
    OBVIOUS
  <2> QED
    BY <1>1, <2>1
<1> QED
  BY <1>1, <1>2, <1>3, ScaleAssumption DEF InRange

(* Every variable has its type, and what is quoted is in range: products   *)
(* and quotients of any received rates are, with as many decimals as the   *)
(* code works with (Mul, inverted, get_stablecoin_rate, validate).         *)
THEOREM TypeCorrect == Spec => []TypeOK
<1>1. TypeInv /\ ReplyInv => TypeOK
  <2> SUFFICES ASSUME TypeInv, ReplyInv PROVE TypeOK
    OBVIOUS
  <2>1. now \in 0..MaxTime
    BY RequestFacts DEF TypeInv
  <2> QED
    BY <2>1, QuotedInRange DEF TypeInv, TypeOK, IsReceived
<1> QED
  BY <1>1, InductiveInvariant, PTL DEF IInv

(* The replicas that get an answer from Coinbase or KuCoin get the same,   *)
(* at whatever moments they ask and whatever is traded meanwhile.          *)
THEOREM WindowsAreClosed == Spec => []ClosedWindowsAgree
<1>1. WindowInv => ClosedWindowsAgree
  BY DEF WindowInv, ClosedWindowsAgree
<1> QED
  BY <1>1, InductiveInvariant, PTL DEF IInv

(* Whatever a minority of the sources answers, the rate of an asset lies   *)
(* within the narrow interval the others agree on: however many sources,   *)
(* rates and decimals there are (QueriedExchangeRate::new).                *)
THEOREM MajorityPrevails == Spec => []MajorityDecides
<1>1. TypeInv => MajorityDecides
  <2> SUFFICES ASSUME TypeInv, NEW o \in DOMAIN received,
                      NEW low \in Range(received[o]), NEW high \in Range(received[o]),
                      HasMajority(received[o], low, high)
               PROVE  Median(OperandOf(o).rates) \in low..high
    BY DEF MajorityDecides
  <2>1. IsNumbers(received[o])
    BY ReceivedNumbers DEF TypeInv
  <2>2. low \in Nat /\ high \in Nat
    BY <2>1 DEF IsNumbers, Range
  <2>3. Median(Retained(received[o])) \in low..high
    BY <2>1, <2>2, MajorityStays
  <2>4. OperandOf(o).rates = Retained(received[o])
    BY <2>1, OperandRates
  <2> QED
    BY <2>3, <2>4
<1> QED
  BY <1>1, InductiveInvariant, PTL DEF IInv

(* No composed rate is quoted unless half of the products and one more     *)
(* agree, and none on which they agree is refused as inconsistent: looking *)
(* at the two ends of the windows of the sorted products is enough         *)
(* (validate).                                                             *)
THEOREM AgreementEnforced == Spec => []AgreementRequired
<1>1. ReplyInv => AgreementRequired
  <2> SUFFICES ASSUME ReplyInv, reply.result \in {"Ok", "InconsistentRatesReceived"}
               PROVE  LET r == reply.direct.rates
                      IN  IsQuoted <=> \E low \in ToSet(r) :
                            2 * Cardinality({i \in DOMAIN r :
                                    low <= r[i] /\ r[i] <= low + low \div RATE_DEVIATION_DIVISOR})
                                >= 2 * (Len(r) \div 2) + 2
    BY DEF AgreementRequired
  <2> DEFINE r == reply.direct.rates
  <2>1. /\ r \in Seq(1..MaxRate) /\ IsAscending(r)
        /\ reply.result = Validated(reply.direct)
    BY DEF ReplyInv, IsComposed
  <2>2. IsQuoted <=> TRUE \in Windows(r)
    BY <2>1 DEF IsQuoted, Validated
  <2>3. r \in Seq(Nat)
    <3>1. Seq(1..MaxRate) \subseteq Seq(Nat)
      BY Scale
    <3> QED
      BY <2>1, <3>1
  <2> QED
    BY <2>1, <2>2, <2>3, NarrowWindow
<1> QED
  BY <1>1, InductiveInvariant, PTL DEF IInv

LEMMA QuotientBetween ==
    ASSUME TypeInv, ReplyInv, AnswerInv, IsQuoted, request.pair = "same"
    PROVE  QuotientWithinSources
<1> DEFINE a == OperandOf("base")
           b == OperandOf("quote")
<1>1. IsNumbers(received["base"]) /\ IsNumbers(received["quote"])
  BY ReceivedNumbers DEF TypeInv, AnswerInv, IsQuoted, Operands
<1>2. /\ a.rates \in Seq(1..MaxRate) /\ a.decimals = DECIMALS
      /\ b.rates \in Seq(1..MaxRate) /\ b.decimals = DECIMALS
  BY <1>1, OperandRates
<1>3. reply.direct = DividedBy(a, b)
  BY DEF AnswerInv, IsQuoted, Composed
<1>4. /\ reply.direct.rates \in Seq(1..MaxRate) /\ reply.direct.decimals \in Nat
      /\ reply.direct.rates # <<>>
  BY QuotedInRange DEF IsQuoted
<1> HIDE DEF a, b
<1> DEFINE d == reply.direct.decimals
           r == reply.direct.rates
<1>5. /\ Highest(r) * Lowest(b.rates) <= Highest(a.rates) * TenTo[d]
      /\ (Lowest(r) + 1) * TenTo[2 * DECIMALS - d] * Highest(b.rates)
            > Lowest(a.rates) * (MaxRate - Highest(b.rates) + 1)
  BY <1>2, <1>3, <1>4, RatioBounds
<1>6. Kept("base") = a.rates /\ Kept("quote") = b.rates
  BY DEF Kept, a, b
<1> HIDE DEF r, d
<1> QED
  BY <1>5, <1>6, MaxRateIs DEF QuotientWithinSources, r, d

LEMMA FiatPriceBetween ==
    ASSUME TypeInv, ReplyInv, AnswerInv, IsQuoted, request.pair # "same"
    PROVE  FiatPriceWithinSources
<1> DEFINE a == OperandOf("base")
           b == OperandOf("forex")
<1>1. /\ IsNumbers(received["base"]) /\ IsNumbers(received["forex"])
      /\ IsNumbers(received["coin1"]) /\ IsNumbers(received["coin2"])
  BY ReceivedNumbers DEF TypeInv, AnswerInv, IsQuoted, Operands
<1>2. /\ a.rates \in Seq(1..MaxRate) /\ a.decimals = DECIMALS
      /\ b.rates \in Seq(1..MaxRate) /\ b.decimals = DECIMALS
  BY <1>1, OperandRates
<1>3. StablecoinResult(Coins) = "Ok"
  BY DEF AnswerInv, IsQuoted, OperandsResult
<1>4. Coins \in [1..2 -> {OperandOf("coin1"), OperandOf("coin2")}]
  BY <1>3, TwoCoins
<1>5. PICK c : /\ StablecoinRate(Coins, "USD") = Inverted(c)
               /\ c.rates \in Seq(1..MaxRate) /\ c.decimals = DECIMALS
               /\ \A m \in ToSet(c.rates) : \E i \in 1..2 : m \in ToSet(Coins[i].rates)
  BY <1>1, <1>4, StablecoinIs
<1>6. ToSet(c.rates) \subseteq CoinRates
  BY <1>4, <1>5 DEF CoinRates
<1>7. CoinRates \subseteq 1..MaxRate /\ CoinRates \subseteq Nat
  <2>1. \A i \in 1..2 : Coins[i].rates \in Seq(1..MaxRate)
    BY <1>1, <1>4, OperandRates
  <2>2. \A i \in 1..2 : \A x \in ToSet(Coins[i].rates) : x \in 1..MaxRate /\ x \in Nat
    BY <2>1, Scale, SequenceMembers
  <2> QED
    BY <1>4, <2>2 DEF CoinRates
<1>8. reply.direct = DividedBy(DividedBy(a, c), b)
  <2>1. reply.direct = DividedBy(Times(a, StablecoinRate(Coins, "USD")), b)
    BY DEF AnswerInv, IsQuoted, Composed
  <2>2. DividedBy(a, c) = Times(a, Inverted(c))
    BY DEF DividedBy
  <2> QED
    BY <1>5, <2>1, <2>2
<1>9. /\ reply.direct.rates \in Seq(1..MaxRate) /\ reply.direct.decimals \in Nat
      /\ reply.direct.rates # <<>>
  BY QuotedInRange DEF IsQuoted
<1> HIDE DEF a, b
<1>10. DividedBy(a, c).rates \in Seq(1..MaxRate) /\ DividedBy(a, c).decimals \in Nat
  <2>1. c.rates \in Seq(Nat) /\ a.rates \in Seq(Nat) /\ a.decimals \in Nat
    BY <1>2, <1>5, Scale, SequenceMembers, ScaleAssumption
  <2>2. IsCalculable(Inverted(c))
    BY <1>5, <2>1, InverseCalculable, ScaleAssumption
  <2> QED
    BY <2>1, <2>2, ProductInRange DEF DividedBy
<1> DEFINE d == reply.direct.decimals
           r == reply.direct.rates
<1>11. Highest(r) * Min(CoinRates) * Lowest(b.rates)
          <= Highest(a.rates) * TenTo[DECIMALS + d]
  BY <1>2, <1>5, <1>6, <1>7, <1>8, <1>9, <1>10, PriceBound
<1>12. (Lowest(r) + 1) * TenTo[3 * DECIMALS - d] * Max(CoinRates) * Highest(b.rates)
          > (MaxRate - Highest(b.rates) + 1)
                * (Lowest(a.rates) * (MaxRate - Max(CoinRates) + 1)
                       - Max(CoinRates) * TenTo[2 * DECIMALS - DividedBy(a, c).decimals])
  BY <1>2, <1>5, <1>6, <1>7, <1>8, <1>9, <1>10, PriceBoundBelow
<1>13. Times(OperandOf("base"), StablecoinRate(Coins, "USD")) = DividedBy(a, c)
  BY <1>5 DEF DividedBy, a
<1>14. Kept("base") = a.rates /\ Kept("forex") = b.rates
  BY DEF Kept, a, b
<1> HIDE DEF r, d
<1> QED
  BY <1>11, <1>12, <1>13, <1>14, MaxRateIs DEF FiatPriceWithinSources, r, d

(* No quote is outside the range that the rates of its operands span, with *)
(* any number of decimals, any rates, and however often the products and   *)
(* the inverses were scaled and cut (Mul, inverted, get_stablecoin_rate).  *)
THEOREM QuotedWithinSources == Spec => []QuoteWithinSources
<1>1. TypeInv /\ ReplyInv /\ AnswerInv => QuoteWithinSources
  BY QuotientBetween, FiatPriceBetween DEF QuoteWithinSources
<1> QED
  BY <1>1, InductiveInvariant, PTL DEF IInv

LEMMA VarianceNumber ==
    ASSUME NEW s \in Seq(Nat), Len(s) >= 2
    PROVE  Variance(s) \in Nat
<1> DEFINE mean == SumFunction(s) \div Len(s)
           square(n) == n * n
           f == [i \in DOMAIN s |-> square(s[i] - mean)]
<1>1. IsFiniteSet(DOMAIN s) /\ \A i \in DOMAIN s : s[i] \in Nat
  BY SequenceNumbers DEF IsNumbers
<1>2. Len(s) \in Nat
  OBVIOUS
<1>3. mean \in Int
  <2>1. SumFunction(s) \in Nat
    BY <1>1, SumNat DEF SumFunction
  <2>2. \A m \in Nat, n \in Nat : n >= 2 => m \div n \in Int
    OBVIOUS
  <2> QED
    BY <1>2, <2>1, <2>2
<1> HIDE DEF mean
<1>4. \A i \in DOMAIN s : f[i] \in Nat
  <2>1. \A n \in Int : n * n \in Nat
    OBVIOUS
  <2>2. \A i \in DOMAIN s : s[i] - mean \in Int
    BY <1>1, <1>3
  <2> QED
    BY <2>1, <2>2
<1>5. DOMAIN f = DOMAIN s
  OBVIOUS
<1>6. Variance(s) = SumFunction(f) \div (Len(s) - 1)
  BY DEF Variance, mean
<1> HIDE DEF f
<1>7. SumFunction(f) \in Nat
  BY <1>1, <1>4, <1>5, SumNat DEF SumFunction
<1>8. \A m \in Nat, n \in Nat : n >= 2 => m \div (n - 1) \in Nat
  OBVIOUS
<1> QED
  BY <1>2, <1>6, <1>7, <1>8

(* The deviation in a reply is the root of the variance, rounded down, for *)
(* any number of rates of any size (integer_sqrt).                         *)
THEOREM DeviationIsExact == Spec => []DeviationExact
<1> DEFINE quoted == IF request.pair = "fc" THEN Inverted(reply.direct) ELSE reply.direct
           r == quoted.rates
<1>1. ReplyInv /\ AnswerInv => DeviationExact
  <2> SUFFICES ASSUME ReplyInv, AnswerInv, IsQuoted, Len(r) >= 2
               PROVE  LET v == Variance(r)
                          d == reply.quote.deviation
                      IN  d * d <= v /\ v < (d + 1) * (d + 1)
    BY DEF DeviationExact
  <2>1. r \in Seq(Nat)
    <3>1. reply.direct.rates \in Seq(Nat) /\ reply.direct.decimals \in Nat
      BY QuotedInRange, Scale, SequenceMembers DEF IsQuoted
    <3>2. Inverted(reply.direct).rates \in Seq(Nat)
      BY <3>1, InverseCalculable DEF IsCalculable
    <3> QED
      BY <3>1, <3>2
  <2>2. reply.quote.deviation = StandardDeviation(r)
    BY DEF AnswerInv, IsQuoted, Answered, Reply
  <2> HIDE DEF r
  <2>3. StandardDeviation(r) = SquareRoot(Variance(r))
    <3>1. Len(r) \in Nat /\ ~ (Len(r) < 2)
      BY <2>1
    <3> QED
      BY <3>1 DEF StandardDeviation
  <2>4. Variance(r) \in Nat
    BY <2>1, VarianceNumber
  <2> QED
    BY <2>2, <2>3, <2>4, SquareRootExact
<1> QED
  BY <1>1, InductiveInvariant, PTL DEF IInv

-----------------------------------------------------------------------------
(* The rates of the exchanges and the trades they come from *)

(* The candles these exchanges are asked for are recent.                   *)
LEMMA RecentWindow ==
    ASSUME NEW name \in ClosedWindowExchanges, request \in Requests, NEW start \in Nat,
           Exchange(name, request.timestamp).from <= 1000 * start,
           1000 * start <= Exchange(name, request.timestamp).to
    PROVE  IsRecent(start)
<1> DEFINE t == (request.timestamp \div MINUTE) * MINUTE
<1>1. t = request.timestamp /\ t \in Nat /\ t >= 60
  BY RequestFacts DEF MINUTE
<1> HIDE DEF t
<1>2. ASSUME NEW e, Exchange(name, request.timestamp) = e,
             e.from \in Int, e.to \in Int, e.from >= 1000 * t - 360000, e.to <= 1000 * t + 1
      PROVE  IsRecent(start)
  <2>1. t - 360 <= start /\ start <= t
    BY <1>1, <1>2
  <2> QED
    BY <1>1, <2>1 DEF IsRecent, MINUTE
<1>3. Before(t, 360) \in Nat /\ Before(t, 360) >= t - 360 /\ Before(t, 60) = t - 60
  BY <1>1 DEF Before
<1>4. CASE name = "Coinbase"
  <2>1. Exchange(name, request.timestamp) = Coinbase(t)
    BY <1>4 DEF Exchange, t
  <2>2. Coinbase(t).from = 1000 * Before(t, 360) /\ Coinbase(t).to = 1000 * (t - 60)
    BY <1>3 DEF Coinbase, DefaultExchange, COINBASE_CANDLE_END_OFFSET_SEC,
       COINBASE_CANDLE_LOOKBACK_SEC
  <2> QED
    BY <1>1, <1>2, <1>3, <2>1, <2>2
<1>5. CASE name = "KuCoin"
  <2>1. Exchange(name, request.timestamp) = KuCoin(t)
    BY <1>5 DEF Exchange, t
  <2>2. /\ KuCoin(t).from = 1000 * Before(t, 360)
        /\ KuCoin(t).to = 1000 * ((t - 60) + 1) - 1
    BY <1>3 DEF KuCoin, DefaultExchange, KUCOIN_CANDLE_END_OFFSET_SEC,
       KUCOIN_CANDLE_LOOKBACK_SEC
  <2> QED
    BY <1>1, <1>2, <1>3, <2>1, <2>2
<1>6. CASE name = "Okx"
  <2>1. Exchange(name, request.timestamp) = Okx(t)
    BY <1>6 DEF Exchange, t
  <2>2. Okx(t).from = Before(1000 * t, 60001) + 1 /\ Okx(t).to = 1000 * t + 1 - 1
    BY DEF Okx, DefaultExchange
  <2>3. Before(1000 * t, 60001) \in Nat /\ Before(1000 * t, 60001) >= 1000 * t - 60001
    BY <1>1 DEF Before
  <2> QED
    BY <1>1, <1>2, <2>1, <2>2, <2>3
<1>7. CASE name = "GateIo"
  <2>1. Exchange(name, request.timestamp) = GateIo(t)
    BY <1>7 DEF Exchange, t
  <2>2. GateIo(t).from = 1000 * t /\ GateIo(t).to = 1000 * t
    BY DEF GateIo, DefaultExchange
  <2> QED
    BY <1>1, <1>2, <2>1, <2>2
<1>8. CASE name = "Poloniex"
  <2>1. Exchange(name, request.timestamp) = Poloniex(t)
    BY <1>8 DEF Exchange, t
  <2>2. Poloniex(t).from = 1000 * t /\ Poloniex(t).to = 1000 * t + 1
    BY DEF Poloniex, DefaultExchange
  <2> QED
    BY <1>1, <1>2, <2>1, <2>2
<1>9. CASE name = "Digifinex"
  <2>1. Exchange(name, request.timestamp) = Digifinex(t)
    BY <1>9 DEF Exchange, t
  <2>2. Digifinex(t).from = 1000 * t /\ Digifinex(t).to = 1000 * t
    BY DEF Digifinex, DefaultExchange
  <2> QED
    BY <1>1, <1>2, <2>1, <2>2
<1> QED
  BY <1>4, <1>5, <1>6, <1>7, <1>8, <1>9 DEF ClosedWindowExchanges

(* A response has the listed price of a recent trade, or no rate.          *)
IsTraded(name, response) ==
    response.kind = "Rate" =>
        \E minute \in DOMAIN trades : \E i \in DOMAIN trades[minute] :
            IsRecent(minute) /\ response.rate = ListedPrice(name, trades[minute][i]) \div 10

LEMMA TransformedTraded ==
    ASSUME TypeInv, NEW name \in ClosedWindowExchanges
    PROVE  IsTraded(name, Transformed(name))
<1> DEFINE exchange == Exchange(name, request.timestamp)
           candles == CandlesInAnswer(exchange, trades, now)
           start == FirstCandle(exchange, candles)
           prices == trades[start]
           listed == [i \in DOMAIN prices |-> ListedPrice(name, prices[i])]
<1>1. Transformed(name) = IF candles = {} THEN Without("NoData")
                          ELSE Found(PriceOf(exchange, listed) \div 10)
  BY DEF Transformed
<1>2. CASE candles = {}
  BY <1>1, <1>2 DEF IsTraded, Without
<1>3. CASE candles # {}
  <2>1. start \in candles
    BY <1>3, CandleOfAnswer DEF TypeInv
  <2>2. /\ start \in DOMAIN trades /\ prices # <<>>
        /\ exchange.from <= 1000 * start /\ 1000 * start <= exchange.to
    BY <2>1 DEF CandlesInAnswer
  <2>3. IsRecent(start)
    <3>1. start \in Nat /\ request \in Requests
      BY <2>2 DEF TypeInv, IsTrading
    <3> QED
      BY <2>2, <3>1, RecentWindow
  <2>4. prices \in Seq(Prices)
    BY <2>2 DEF TypeInv, IsTrading
  <2>5. Transformed(name) = Found(PriceOf(exchange, listed) \div 10)
    BY <1>1, <1>3
  <2> HIDE DEF exchange, candles, start
  <2> DEFINE n == Len(prices)
  <2>6. n \in Nat \ {0} /\ DOMAIN prices = 1..n /\ \A i \in 1..n : prices[i] \in Prices
    <3>1. \A T : \A s \in Seq(T) :
             s # <<>> => /\ Len(s) \in Nat \ {0} /\ DOMAIN s = 1..Len(s)
                         /\ \A i \in 1..Len(s) : s[i] \in T
      OBVIOUS
    <3> QED
      BY <2>2, <2>4, <3>1
  <2>7. listed \in [1..n -> Int]
    BY <2>6, ListedNumber
  <2> HIDE DEF n
  <2>8. PICK i \in 1..n : PriceOf(exchange, listed) = listed[i]
    BY <2>6, <2>7, PriceTaken
  <2>9. listed[i] = ListedPrice(name, prices[i])
    BY <2>6
  <2>10. Transformed(name).rate = ListedPrice(name, prices[i]) \div 10
    BY <2>5, <2>8, <2>9 DEF Found
  <2>11. i \in DOMAIN prices
    BY <2>6
  <2> QED
    BY <2>2, <2>3, <2>10, <2>11 DEF IsTraded
<1> QED
  BY <1>2, <1>3

(* Turning a price around twice. *)
LEMMA TurnedTwice ==
    ASSUME NEW m \in Nat, NEW p \in Nat \ {0}, NEW a \in Nat \ {0}, a = ((100 * m) \div p) \div 10
    PROVE  /\ p \div 10 <= m \div a
           /\ (m \div a) * (10 * m - p + 1) <= m * p
<1> DEFINE r == m \div a
           q == p \div 10
           x == 10 * m - p + 1
<1>1. a * (p * 10) <= 100 * m /\ 100 * m < (a + 1) * (p * 10)
  <2>1. 100 * m \in Nat /\ 10 \in Nat \ {0}
    OBVIOUS
  <2> QED
    BY <2>1, QuotientTwice
<1>2. a * p <= 10 * m /\ 10 * m < a * p + p /\ a * p \in Nat
  <2>1. \A b \in Nat : b * (p * 10) = 10 * (b * p) /\ (b + 1) * p = b * p + p /\ b * p \in Nat
    OBVIOUS
  <2>2. a * (p * 10) = 10 * (a * p) /\ (a + 1) * (p * 10) = 10 * (a * p + p) /\ a * p \in Nat
    BY <2>1
  <2> QED
    BY <1>1, <2>2
<1>3. r \in Nat /\ r * a <= m /\ m < (r + 1) * a
  BY Quotient
<1>4. q \in Nat /\ 10 * q <= p
  OBVIOUS
<1>5. q * a <= m
  <2>1. (10 * q) * a <= p * a
    BY <1>4, TimesMonotone
  <2>2. (10 * q) * a = 10 * (q * a) /\ p * a = a * p /\ q * a \in Nat
    BY <1>4, TimesAssociative, TimesNat
  <2> QED
    BY <1>2, <2>1, <2>2
<1> HIDE DEF r, q
<1>6. q <= r
  <2>1. q * a < (r + 1) * a /\ q * a \in Nat /\ (r + 1) * a \in Nat
    BY <1>3, <1>4, <1>5, TimesNat
  <2>2. ~(r + 1 <= q)
    <3>1. r + 1 <= q => (r + 1) * a <= q * a
      BY <1>3, <1>4, TimesMonotone
    <3> QED
      BY <2>1, <3>1
  <2> QED
    BY <1>3, <1>4, <2>2
<1>7. r * x <= m * p
  <2>1. x \in Int /\ x <= a * p
    BY <1>2
  <2>2. \A s \in Nat, y, z \in Int : y <= z => s * y <= s * z
    OBVIOUS
  <2>3. r * x <= r * (a * p)
    BY <1>2, <1>3, <2>1, <2>2
  <2>4. r * (a * p) = (r * a) * p
    BY <1>3, TimesAssociative
  <2>5. (r * a) * p <= m * p
    BY <1>3, TimesMonotone, TimesNat
  <2>6. r * x \in Int /\ r * (a * p) \in Nat /\ m * p \in Nat
    <3>1. \A s \in Nat, y \in Int : s * y \in Int
      OBVIOUS
    <3> QED
      BY <1>2, <1>3, <2>1, <3>1, TimesNat
  <2> QED
    BY <2>3, <2>4, <2>5, <2>6
<1> QED
  BY <1>6, <1>7 DEF r, q

(* The inverse of a rate fits into 64 bits.                                *)
LEMMA InverseFits ==
    ASSUME NEW a \in Nat \ {0}
    PROVE  Invert(a, DECIMALS) = MaxRate \div a
<1>1. Invert(a, DECIMALS) = (MaxRate \div a) % WORD
  BY MaxRateIs DEF Invert
<1>2. MaxRate \in Nat /\ WORD \in Nat /\ MaxRate < WORD
  BY Scale
<1>3. \A m \in Nat, n \in Nat \ {0} : m \div n \in Nat /\ m \div n <= m
  OBVIOUS
<1>4. MaxRate \div a \in Nat /\ MaxRate \div a < WORD
  BY <1>2, <1>3
<1>5. \A m, w \in Nat : m < w => m % w = m
  OBVIOUS
<1> QED
  BY <1>1, <1>2, <1>4, <1>5

(* A rate agreed on, and turned around if need be, was paid if it is the   *)
(* listed price of a trade.                                                *)
LEMMA OrientedPaid ==
    ASSUME NEW name, NEW response \in Responses, response.kind = "Rate",
           NEW price \in Prices, response.rate = ListedPrice(name, price) \div 10,
           Oriented(name, response).kind = "Rate"
    PROVE  IsPaid(name, Oriented(name, response).rate, price)
<1>1. price \in Nat \ {0}
  BY Scale DEF Prices
<1>2. CASE ~IsInverse(name)
  BY <1>1, <1>2 DEF IsPaid, Oriented, ListedPrice
<1>3. CASE IsInverse(name)
  <2> DEFINE a == response.rate
  <2>1. a # 0 /\ Oriented(name, response) = Found(Invert(a, DECIMALS))
    BY <1>3 DEF Oriented, Without
  <2>2. a \in Nat \ {0}
    BY <2>1, Scale DEF Responses
  <2>3. a = ((100 * MaxRate) \div price) \div 10
    <3>1. \A u \in Nat : (10 * u) * (10 * u) = 100 * (u * u)
      OBVIOUS
    <3>2. PRICE_UNIT * PRICE_UNIT = 100 * MaxRate
      BY <3>1, Scale DEF PRICE_UNIT, MaxRate
    <3> QED
      BY <1>3, <3>2 DEF ListedPrice
  <2> HIDE DEF a
  <2>4. Invert(a, DECIMALS) = MaxRate \div a
    BY <2>2, InverseFits
  <2>5. /\ price \div 10 <= MaxRate \div a
        /\ (MaxRate \div a) * (10 * MaxRate - price + 1) <= MaxRate * price
    BY <1>1, <2>2, <2>3, TurnedTwice, Scale
  <2> QED
    BY <1>3, <2>1, <2>4, <2>5 DEF IsPaid, Found
<1> QED
  BY <1>2, <1>3

(* What was paid stays paid: trades are only added.                        *)
IsOutcomePaid(name, outcome) ==
    outcome.kind = "Rate" =>
        \E minute \in DOMAIN trades : \E i \in DOMAIN trades[minute] :
            IsRecent(minute) /\ IsPaid(name, outcome.rate, trades[minute][i])

TradesStay ==
    /\ DOMAIN trades \subseteq DOMAIN trades'
    /\ \A minute \in DOMAIN trades : \A i \in DOMAIN trades[minute] :
          i \in DOMAIN trades'[minute] /\ trades'[minute][i] = trades[minute][i]

LEMMA PaidStays ==
    ASSUME request' = request, TradesStay, NEW name, NEW response
    PROVE  /\ IsTraded(name, response) => IsTraded(name, response)'
           /\ IsOutcomePaid(name, response) => IsOutcomePaid(name, response)'
<1>1. \A price : ListedPrice(name, price)' = ListedPrice(name, price)
  BY DEF ListedPrice, IsInverse, PairsWith
<1>2. \A rate, price : IsPaid(name, rate, price)' = IsPaid(name, rate, price)
  BY DEF IsPaid, IsInverse, PairsWith
<1>3. \A minute : IsRecent(minute)' = IsRecent(minute)
  BY DEF IsRecent
<1>4. IsTraded(name, response) => IsTraded(name, response)'
  BY <1>1, <1>3 DEF IsTraded, TradesStay
<1>5. IsOutcomePaid(name, response) => IsOutcomePaid(name, response)'
  BY <1>2, <1>3 DEF IsOutcomePaid, TradesStay
<1> QED
  BY <1>4, <1>5

(* A rate that call_exchange returns is one that a replica got.            *)
LEMMA OutcomeFetched ==
    ASSUME NEW name, Outcome(name).kind = "Rate"
    PROVE  /\ \E r \in Replicas : Outcome(name) = fetched[name][r]
           /\ Outcome(name) \notin {Pending, Without("Trap")}
<1>1. Agreed(name) # {}
  BY DEF Outcome, Without
<1>2. Outcome(name) \in Agreed(name)
  BY <1>1 DEF Outcome
<1> QED
  BY <1>2 DEF Agreed

PaidInv ==
    /\ \A name \in Called \cap ClosedWindowExchanges : \A r \in Replicas :
          IsTraded(name, fetched[name][r])
    /\ \A name \in Called \cap ClosedWindowExchanges : IsOutcomePaid(name, outcomes[name])

LEMMA PaidInit == Init => PaidInv
BY DEF Init, PaidInv, IsTraded, IsOutcomePaid, Pending

LEMMA PaidFetch ==
    ASSUME TypeInv, PaidInv, NEW name \in request.sources, NEW replica \in Replicas,
           Fetch(name, replica)
    PROVE  PaidInv'
<1>1. PICK response \in {Transformed(name), Without("Trap")} :
        fetched' = [fetched EXCEPT ![name][replica] = response]
  BY DEF Fetch
<1>2. /\ Called' = Called /\ request' = request /\ trades' = trades
      /\ outcomes' = outcomes /\ TradesStay
  BY CalledStays DEF Fetch, TradesStay
<1>3. ASSUME NEW other \in Called \cap ClosedWindowExchanges, NEW r \in Replicas
      PROVE  IsTraded(other, fetched'[other][r])
  <2>1. CASE other = name /\ r = replica
    <3>1. fetched'[other][r] = response
      BY <1>1, <2>1 DEF TypeInv
    <3>2. IsTraded(other, Without("Trap"))
      BY DEF IsTraded, Without
    <3>3. IsTraded(other, Transformed(other))
      BY TransformedTraded
    <3> QED
      BY <1>1, <2>1, <3>1, <3>2, <3>3
  <2>2. CASE ~(other = name /\ r = replica)
    <3>1. fetched'[other][r] = fetched[other][r]
      BY <1>1, <2>2 DEF TypeInv
    <3> QED
      BY <3>1 DEF PaidInv
  <2> QED
    BY <2>1, <2>2
<1>4. ASSUME NEW other \in Called \cap ClosedWindowExchanges, NEW r \in Replicas
      PROVE  IsTraded(other, fetched[other][r])'
  BY <1>2, <1>3, PaidStays
<1>5. ASSUME NEW other \in Called \cap ClosedWindowExchanges
      PROVE  IsOutcomePaid(other, outcomes[other])'
  BY <1>2, PaidStays DEF PaidInv
<1> QED
  BY <1>2, <1>4, <1>5 DEF PaidInv

LEMMA PaidRespond ==
    ASSUME TypeInv, PaidInv, NEW name \in request.sources, Respond(name)
    PROVE  PaidInv'
<1>1. /\ Called' = Called /\ request' = request /\ fetched' = fetched
      /\ name \in Called /\ TradesStay
      /\ outcomes' = [outcomes EXCEPT ![name] = Oriented(name, Outcome(name))]
  BY CalledStays DEF Respond, TradesStay
<1>2. ASSUME name \in ClosedWindowExchanges
      PROVE  IsOutcomePaid(name, Oriented(name, Outcome(name)))
  <2> SUFFICES ASSUME Oriented(name, Outcome(name)).kind = "Rate"
               PROVE  \E minute \in DOMAIN trades : \E i \in DOMAIN trades[minute] :
                          /\ IsRecent(minute)
                          /\ IsPaid(name, Oriented(name, Outcome(name)).rate, trades[minute][i])
    BY DEF IsOutcomePaid
  <2>1. Outcome(name).kind = "Rate"
    BY DEF Oriented
  <2>2. PICK r \in Replicas : Outcome(name) = fetched[name][r]
    BY <2>1, OutcomeFetched
  <2>3. Outcome(name) \in Responses
    BY <1>1, <2>2 DEF TypeInv
  <2>0. PICK minute \in DOMAIN trades : \E i \in DOMAIN trades[minute] :
          IsRecent(minute) /\ Outcome(name).rate = ListedPrice(name, trades[minute][i]) \div 10
    BY <1>1, <1>2, <2>1, <2>2 DEF PaidInv, IsTraded
  <2>4. PICK i \in DOMAIN trades[minute] :
          IsRecent(minute) /\ Outcome(name).rate = ListedPrice(name, trades[minute][i]) \div 10
    BY <2>0
  <2>5. trades[minute][i] \in Prices
    <3>1. \A T : \A s \in Seq(T) : \A j \in DOMAIN s : s[j] \in T
      OBVIOUS
    <3> QED
      BY <3>1 DEF TypeInv, IsTrading
  <2>6. IsPaid(name, Oriented(name, Outcome(name)).rate, trades[minute][i])
    BY <2>1, <2>3, <2>4, <2>5, OrientedPaid
  <2> QED
    BY <2>4, <2>6
<1>3. ASSUME NEW other \in Called \cap ClosedWindowExchanges
      PROVE  IsOutcomePaid(other, outcomes'[other])
  <2>1. CASE other = name
    BY <1>1, <1>2, <2>1 DEF TypeInv
  <2>2. CASE other # name
    <3>1. outcomes'[other] = outcomes[other]
      BY <1>1, <2>2 DEF TypeInv
    <3> QED
      BY <3>1 DEF PaidInv
  <2> QED
    BY <2>1, <2>2
<1>4. ASSUME NEW other \in Called \cap ClosedWindowExchanges
      PROVE  IsOutcomePaid(other, outcomes[other])'
  BY <1>1, <1>3, PaidStays
<1>5. ASSUME NEW other \in Called \cap ClosedWindowExchanges, NEW r \in Replicas
      PROVE  IsTraded(other, fetched[other][r])'
  BY <1>1, PaidStays DEF PaidInv
<1> QED
  BY <1>1, <1>4, <1>5 DEF PaidInv

LEMMA TradeStays ==
    ASSUME TypeInv, Trade
    PROVE  TradesStay
<1> DEFINE minute == (now \div MINUTE) * MINUTE
<1>1. PICK price \in LivePrices[minute] : trades' = [trades EXCEPT ![minute] = Append(@, price)]
  BY DEF Trade
<1>0. price \in Prices
  BY CurrentMinute
<1> HIDE DEF minute
<1>2. DOMAIN trades' = DOMAIN trades
  BY <1>1
<1>3. ASSUME NEW m \in DOMAIN trades, NEW i \in DOMAIN trades[m]
      PROVE  i \in DOMAIN trades'[m] /\ trades'[m][i] = trades[m][i]
  <2>1. \A T : \A s \in Seq(T) : \A x \in T : \A j \in DOMAIN s :
           j \in DOMAIN Append(s, x) /\ Append(s, x)[j] = s[j]
    OBVIOUS
  <2>2. trades[m] \in Seq(Prices)
    BY DEF TypeInv, IsTrading
  <2>3. trades'[m] = IF m = minute THEN Append(trades[m], price) ELSE trades[m]
    BY <1>1
  <2> QED
    BY <1>0, <2>1, <2>2, <2>3
<1> QED
  BY <1>2, <1>3 DEF TradesStay

LEMMA PaidStep == TypeInv /\ PaidInv /\ [Next]_vars => PaidInv'
<1> SUFFICES ASSUME TypeInv, PaidInv, [Next]_vars PROVE PaidInv'
  OBVIOUS
<1>1. ASSUME request' = request, fetched' = fetched, outcomes' = outcomes, TradesStay
      PROVE  PaidInv'
  <2>1. Called' = Called
    BY <1>1, CalledStays
  <2> QED
    BY <1>1, <2>1, PaidStays DEF PaidInv
<1>2. CASE Trade
  BY <1>1, <1>2, TradeStays DEF Trade
<1>3. CASE trades' = trades /\ request' = request /\ fetched' = fetched /\ outcomes' = outcomes
  BY <1>1, <1>3 DEF TradesStay
<1> QED
  BY <1>2, <1>3, PaidFetch, PaidRespond
     DEF Next, vars, RespondBank, CollectRates, CollectForex, Compose, Tick

(* A rate from an exchange whose window is near the requested minute was   *)
(* paid in a recent trade, whatever the prices and however many trades and *)
(* replicas there are; rounding is in the statement.                       *)
THEOREM RatesWerePaid == Spec => []RatesAreRecent
<1>1. PaidInv => RatesAreRecent
  BY DEF PaidInv, RatesAreRecent, IsOutcomePaid
<1>2. IInv /\ IInv' /\ PaidInv /\ [Next]_vars => PaidInv'
  BY PaidStep DEF IInv
<1> QED
  BY <1>1, <1>2, PaidInit, InductiveInvariant, PTL DEF Spec

-----------------------------------------------------------------------------
(* The metrics of the exchanges *)

(* The exchanges that are called have a metric for the calls.              *)
LEMMA CalledAreFed ==
    ASSUME request \in Requests, NEW name \in Called
    PROVE  <<name, Kind>> \in DOMAIN InitialMetrics(0).lastSuccess
<1>1. request.live \in {"base", "coin2"} /\ name \in request.sources
  BY DEF Called
<1>2. name \in ToSet(EXCHANGES)
  BY <1>1, RatePathAssumption
<1>3. IsFed(name, Kind)
  <2>1. CASE request.live = "base"
    BY <2>1 DEF IsFed, Kind
  <2>2. CASE request.live = "coin2"
    <3>1. PICK pair : pair \in ToSet(Exchange(name, 0).stablecoinPairs)
      BY <2>2 DEF Called, PairsWith
    <3>2. ToSet(<<>>) = {}
      BY DEF ToSet
    <3>3. Exchange(name, 0).stablecoinPairs # <<>>
      BY <3>1, <3>2
    <3> QED
      BY <3>3 DEF IsFed
  <2> QED
    BY <1>1, <2>1, <2>2
<1>4. Kind \in CallKinds
  BY DEF Kind, CallKinds
<1> DEFINE series == <<name, Kind>>
           all == {s \in ToSet(EXCHANGES) \X CallKinds : IsFed(s[1], s[2])}
<1>5. series \in ToSet(EXCHANGES) \X CallKinds /\ series[1] = name /\ series[2] = Kind
  BY <1>2, <1>4
<1>6. series \in all
  BY <1>3, <1>5
<1>7. InitialMetrics(0).lastSuccess = [s \in all |-> 0]
  BY DEF InitialMetrics
<1> HIDE DEF all, series
<1>8. series \in DOMAIN InitialMetrics(0).lastSuccess
  BY <1>6, <1>7
<1> QED
  BY <1>8 DEF series

(* What call_exchange returns, and what becomes of it.                     *)
LEMMA OutcomeSettled ==
    ASSUME NEW name, fetched[name] \in [Replicas -> Responses]
    PROVE  /\ Oriented(name, Outcome(name)) # Pending
           /\ Oriented(name, Outcome(name)).kind = "Rate" /\ Oriented(name, Outcome(name)).rate > 0
                 => OutcomeOf(Outcome(name)) = "success"
           /\ OutcomeOf(Outcome(name)) = "success" =>
                 \/ /\ Oriented(name, Outcome(name)).kind = "Rate"
                    /\ Oriented(name, Outcome(name)).rate > 0
                 \/ /\ IsInverse(name)
                    /\ \E r \in Replicas : fetched[name][r].rate > MaxRate
<1> DEFINE outcome == Outcome(name)
           oriented == Oriented(name, outcome)
<1>1. outcome \in Responses /\ outcome.rate \in Nat
  BY OutcomeType, Scale DEF Responses
<1>2. outcome # Pending
  BY DEF Outcome, Agreed, Pending, Without
<1>3. outcome.kind = "Rate" => \E r \in Replicas : outcome = fetched[name][r]
  BY OutcomeFetched
<1> HIDE DEF outcome
<1>4. oriented # Pending
  BY <1>2 DEF Oriented, Pending, Found, Without
<1>5. oriented.kind = "Rate" /\ oriented.rate > 0 => OutcomeOf(outcome) = "success"
  BY <1>1 DEF Oriented, OutcomeOf, Without, Found
<1>6. ASSUME OutcomeOf(outcome) = "success", ~(oriented.kind = "Rate" /\ oriented.rate > 0)
      PROVE  IsInverse(name) /\ outcome.rate > MaxRate /\ outcome.kind = "Rate"
  <2>1. outcome.kind = "Rate" /\ outcome.rate \in Nat \ {0}
    <3>1. outcome.kind = "Rate"
      <4>1. \A k : Without(k).kind = k
        BY DEF Without
      <4>2. outcome.kind \in {"Pending", "Rate", "NoData", "Trap", "Http", "NoRatesFound"}
        BY <1>1 DEF Responses
      <4> QED
        BY <1>6, <4>2 DEF OutcomeOf
    <3> QED
      BY <1>1, <1>6, <3>1 DEF OutcomeOf
  <2>2. IsInverse(name)
    BY <1>6, <2>1 DEF Oriented
  <2>3. oriented = Found(Invert(outcome.rate, DECIMALS))
    BY <2>1, <2>2 DEF Oriented
  <2>4. ~(Invert(outcome.rate, DECIMALS) > 0)
    BY <1>6, <2>3 DEF Found
  <2>5. Invert(outcome.rate, DECIMALS) = MaxRate \div outcome.rate
    BY <2>1, InverseFits
  <2>6. \A m, a \in Nat \ {0} : a <= m => m \div a > 0
    OBVIOUS
  <2>7. outcome.rate > MaxRate
    BY <2>1, <2>4, <2>5, <2>6, Scale
  <2> QED
    BY <2>1, <2>2, <2>7
<1> QED
  BY <1>3, <1>4, <1>5, <1>6 DEF outcome

IsUsable(name) == outcomes[name].kind = "Rate" /\ outcomes[name].rate > 0
LastSuccess(name) == metrics.lastSuccess[<<name, Kind>>]

(* The metrics of an exchange tell what call_exchange returned, and what   *)
(* the replicas got is still there to tell it from.                        *)
IsMetered(name) ==
    /\ <<name, Kind>> \in DOMAIN metrics.lastSuccess
    /\ outcomes[name] = Pending => LastSuccess(name) = 0
    /\ outcomes[name] # Pending =>
          /\ \A r \in Replicas : fetched[name][r] # Pending
          /\ outcomes[name] = Oriented(name, Outcome(name))
          /\ LastSuccess(name) \in Nat
          /\ (LastSuccess(name) > 0) <=> OutcomeOf(Outcome(name)) = "success"

MetricsInv ==
    /\ DOMAIN metrics = {"fetched", "symbolRates", "lastSuccess"}
    /\ \A name \in Called : IsMetered(name)
    /\ IF AsksExchanges /\ request.live \in DOMAIN received
       THEN /\ \A name \in Called : outcomes[name] # Pending
            /\ Kind = "stablecoin" =>
                  metrics.symbolRates[request.symbol]
                      = Cardinality({name \in Called : IsUsable(name)})
       ELSE metrics.symbolRates = <<>>

LEMMA MetricsInit == Init => MetricsInv
<1> SUFFICES ASSUME Init PROVE MetricsInv
  OBVIOUS
<1>1. request \in Requests /\ metrics = InitialMetrics(0)
  BY DEF Init
<1>2. DOMAIN metrics = {"fetched", "symbolRates", "lastSuccess"} /\ metrics.symbolRates = <<>>
  BY <1>1 DEF InitialMetrics
<1>3. ASSUME NEW name \in Called
      PROVE  /\ <<name, Kind>> \in DOMAIN metrics.lastSuccess
             /\ outcomes[name] = Pending /\ LastSuccess(name) = 0
  <2>1. <<name, Kind>> \in DOMAIN metrics.lastSuccess
    BY <1>1, CalledAreFed
  <2>2. \A s \in DOMAIN metrics.lastSuccess : metrics.lastSuccess[s] = 0
    BY <1>1 DEF InitialMetrics
  <2>3. outcomes[name] = Pending
    BY DEF Init
  <2> QED
    BY <2>1, <2>2, <2>3 DEF LastSuccess
<1>4. AsksExchanges => request.live \notin DOMAIN received
  <2>1. received \in [Operands(request.pair) \ {request.live} -> Seq(0..WORD - 1)]
    BY <1>1, RatePathAssumption DEF Init
  <2> QED
    BY <2>1
<1> QED
  BY <1>2, <1>3, <1>4 DEF MetricsInv, IsMetered

LEMMA OutcomeStays ==
    ASSUME NEW name, request' = request, fetched'[name] = fetched[name]
    PROVE  /\ Outcome(name)' = Outcome(name)
           /\ Oriented(name, Outcome(name))' = Oriented(name, Outcome(name))
<1>1. Agreed(name)' = Agreed(name)
  BY DEF Agreed, Pending, Without
<1>2. Outcome(name)' = Outcome(name)
  BY <1>1 DEF Outcome, Without
<1>3. IsInverse(name)' = IsInverse(name)
  BY DEF IsInverse, PairsWith
<1> QED
  BY <1>2, <1>3 DEF Oriented, Without, Found

LEMMA MeteredStays ==
    ASSUME NEW name, IsMetered(name), request' = request, fetched'[name] = fetched[name],
           outcomes'[name] = outcomes[name],
           <<name, Kind>> \in DOMAIN metrics'.lastSuccess,
           metrics'.lastSuccess[<<name, Kind>>] = metrics.lastSuccess[<<name, Kind>>]
    PROVE  IsMetered(name)'
<1>1. /\ Outcome(name)' = Outcome(name)
      /\ Oriented(name, Outcome(name))' = Oriented(name, Outcome(name))
  BY OutcomeStays
<1>2. Kind' = Kind /\ Pending' = Pending
  BY DEF Kind, Pending
<1>3. LastSuccess(name)' = LastSuccess(name)
  BY <1>2 DEF LastSuccess
<1>4. (OutcomeOf(Outcome(name)) = "success")' <=> OutcomeOf(Outcome(name)) = "success"
  BY <1>1 DEF OutcomeOf
<1> QED
  BY <1>1, <1>2, <1>3, <1>4 DEF IsMetered

LEMMA MetricsFetch ==
    ASSUME TypeInv, MetricsInv, NEW name \in request.sources, NEW replica \in Replicas,
           Fetch(name, replica)
    PROVE  MetricsInv'
<1>1. PICK response :
        fetched' = [fetched EXCEPT ![name][replica] = response]
  BY DEF Fetch
<1>2. /\ Called' = Called /\ request' = request /\ outcomes' = outcomes
      /\ metrics' = metrics /\ received' = received
      /\ name \in Called /\ fetched[name][replica] = Pending
  BY CalledStays DEF Fetch
<1>3. Kind' = Kind /\ Pending' = Pending /\ AsksExchanges' = AsksExchanges
  BY <1>2 DEF Kind, Pending, AsksExchanges
<1>4. ASSUME NEW other \in Called PROVE IsMetered(other)'
  <2>1. IsMetered(other)
    BY DEF MetricsInv, IsMetered
  <2>2. CASE other = name
    <3>1. outcomes[other] = Pending
      BY <1>2, <2>1, <2>2 DEF IsMetered
    <3>2. <<other, Kind>> \in DOMAIN metrics.lastSuccess /\ LastSuccess(other) = 0
      BY <2>1, <3>1 DEF IsMetered
    <3>3. LastSuccess(other)' = LastSuccess(other)
      BY <1>2, <1>3 DEF LastSuccess
    <3> QED
      BY <1>2, <1>3, <3>1, <3>2, <3>3 DEF IsMetered
  <2>3. CASE other # name
    <3>1. fetched'[other] = fetched[other]
      BY <1>1, <2>3 DEF TypeInv
    <3>2. <<other, Kind>> \in DOMAIN metrics'.lastSuccess
      BY <1>2, <2>1 DEF IsMetered
    <3> QED
      BY <1>2, <2>1, <3>1, <3>2, MeteredStays
  <2> QED
    BY <2>2, <2>3
<1>5. \A other : IsUsable(other)' <=> IsUsable(other)
  BY <1>2 DEF IsUsable
<1> QED
  BY <1>2, <1>3, <1>4, <1>5 DEF MetricsInv, IsMetered

LEMMA MetricsRespond ==
    ASSUME TypeInv, MetricsInv, NEW name \in request.sources, Respond(name)
    PROVE  MetricsInv'
<1>1. /\ Called' = Called /\ request' = request /\ fetched' = fetched /\ received' = received
      /\ name \in Called /\ outcomes[name] = Pending
      /\ \A r \in Replicas : fetched[name][r] # Pending
      /\ outcomes' = [outcomes EXCEPT ![name] = Oriented(name, Outcome(name))]
      /\ metrics' = RecordExchangeOutcome(metrics, name, Kind, Outcome(name), now)
  BY CalledStays DEF Respond
<1>2. Kind' = Kind /\ Pending' = Pending /\ AsksExchanges' = AsksExchanges
  BY <1>1 DEF Kind, Pending, AsksExchanges
<1> DEFINE succeeds == OutcomeOf(Outcome(name)) = "success"
           series == <<name, Kind>>
           last == metrics.lastSuccess
           later == IF ~succeeds THEN last
                    ELSE [s \in DOMAIN last \cup {series} |-> IF s = series THEN now ELSE last[s]]
<1>3. /\ DOMAIN metrics' = {"fetched", "symbolRates", "lastSuccess"}
      /\ metrics'.lastSuccess = later /\ metrics'.symbolRates = metrics.symbolRates
  BY <1>1 DEF RecordExchangeOutcome, MetricsInv
<1>4. now \in Nat \ {0}
  BY RequestFacts DEF TypeInv
<1>5. IsMetered(name)'
  <2>1. IsMetered(name)
    BY <1>1 DEF MetricsInv, IsMetered
  <2>2. series \in DOMAIN last /\ last[series] = 0
    BY <1>1, <2>1 DEF IsMetered, LastSuccess
  <2>3. /\ <<name, Kind>>' \in DOMAIN metrics'.lastSuccess
        /\ LastSuccess(name)' = IF succeeds THEN now ELSE 0
    <3> HIDE DEF series, succeeds, last
    <3>1. series \in DOMAIN later /\ later[series] = IF succeeds THEN now ELSE 0
      BY <2>2
    <3> QED
      BY <1>2, <1>3, <3>1 DEF LastSuccess, series
  <2>4. outcomes'[name] = Oriented(name, Outcome(name))
    BY <1>1 DEF TypeInv
  <2>5. Oriented(name, Outcome(name)) # Pending
    <3>1. fetched[name] \in [Replicas -> Responses]
      BY <1>1 DEF TypeInv
    <3> QED
      BY <3>1, OutcomeSettled
  <2>6. /\ Outcome(name)' = Outcome(name)
        /\ Oriented(name, Outcome(name))' = Oriented(name, Outcome(name))
    BY <1>1, OutcomeStays
  <2>7. (OutcomeOf(Outcome(name)) = "success")' <=> succeeds
    BY <2>6 DEF OutcomeOf
  <2>8. LastSuccess(name)' \in Nat /\ (LastSuccess(name)' > 0 <=> succeeds)
    BY <1>4, <2>3
  <2> HIDE DEF succeeds
  <2> QED
    BY <1>1, <1>2, <2>3, <2>4, <2>5, <2>6, <2>7, <2>8 DEF IsMetered
<1>6. ASSUME NEW other \in Called, other # name PROVE IsMetered(other)'
  <2>1. IsMetered(other)
    BY DEF MetricsInv, IsMetered
  <2>2. <<other, Kind>> \in DOMAIN last /\ <<other, Kind>> # series
    BY <1>6, <2>1 DEF IsMetered
  <2>3. /\ <<other, Kind>> \in DOMAIN metrics'.lastSuccess
        /\ metrics'.lastSuccess[<<other, Kind>>] = last[<<other, Kind>>]
    <3> HIDE DEF series, succeeds, last
    <3> QED
      BY <1>3, <2>2
  <2>4. outcomes'[other] = outcomes[other]
    BY <1>1, <1>6 DEF TypeInv
  <2> QED
    BY <1>1, <2>1, <2>3, <2>4, MeteredStays
<1>7. /\ ~(AsksExchanges /\ request.live \in DOMAIN received)
      /\ metrics.symbolRates = <<>>
  BY <1>1 DEF MetricsInv
<1>8. \A other \in Called : IsMetered(other)'
  BY <1>5, <1>6
<1> HIDE DEF later
<1> QED
  BY <1>1, <1>2, <1>3, <1>7, <1>8 DEF MetricsInv, IsMetered

LEMMA MetricsCollect ==
    ASSUME TypeInv, MetricsInv, CollectRates
    PROVE  MetricsInv'
<1> DEFINE successes == {name \in Called : outcomes[name].kind = "Rate"}
           rates == [name \in successes |-> outcomes[name].rate]
           usable == {name \in Called : IsUsable(name)}
<1>1. /\ Called' = Called /\ request' = request /\ fetched' = fetched /\ outcomes' = outcomes
      /\ AsksExchanges /\ request.live \notin DOMAIN received
      /\ \A name \in Called : outcomes[name] # Pending
      /\ received' = WithLive(rates)
      /\ metrics' = IF Kind = "stablecoin"
                    THEN RecordSymbolRates(metrics, request.symbol, rates) ELSE metrics
  BY CalledStays DEF CollectRates, IsSettled
<1>2. Kind' = Kind /\ AsksExchanges' /\ request'.live \in DOMAIN received'
  BY <1>1 DEF Kind, AsksExchanges, WithLive
<1>3. {i \in DOMAIN rates : rates[i] > 0} = usable
  BY DEF IsUsable
<1>4. Cardinality(usable) \in Nat
  <2>1. usable \subseteq request.sources
    BY DEF Called
  <2> QED
    BY <2>1, RequestFacts, FS_Subset, FS_CardinalityType DEF TypeInv
<1> HIDE DEF rates
<1>5. /\ DOMAIN metrics' = {"fetched", "symbolRates", "lastSuccess"}
      /\ metrics'.lastSuccess = metrics.lastSuccess
      /\ Kind = "stablecoin" =>
            metrics'.symbolRates = Add(metrics.symbolRates, request.symbol, Cardinality(usable))
  BY <1>1, <1>3 DEF RecordSymbolRates, MetricsInv
<1> HIDE DEF usable
<1>6. Add(metrics.symbolRates, request.symbol, Cardinality(usable))[request.symbol]
        = Cardinality(usable)
  <2>1. metrics.symbolRates = <<>> /\ request.symbol \notin DOMAIN metrics.symbolRates
    BY <1>1 DEF MetricsInv
  <2>2. Count(metrics.symbolRates, request.symbol) = 0
    BY <2>1 DEF Count
  <2> QED
    BY <1>4, <2>2 DEF Add
<1>7. ASSUME NEW name \in Called PROVE IsMetered(name)'
  <2>1. IsMetered(name)
    BY DEF MetricsInv, IsMetered
  <2>2. <<name, Kind>> \in DOMAIN metrics'.lastSuccess
    BY <1>5, <2>1 DEF IsMetered
  <2> QED
    BY <1>1, <1>5, <2>1, <2>2, MeteredStays
<1>8. {name \in Called : IsUsable(name)}' = usable
  BY <1>1 DEF usable, IsUsable
<1>9. Kind' = "stablecoin" =>
        metrics'.symbolRates[request'.symbol] = Cardinality({name \in Called : IsUsable(name)}')
  BY <1>1, <1>2, <1>5, <1>6, <1>8
<1>10. \A name \in Called' : outcomes'[name] # Pending'
  BY <1>1 DEF Pending
<1> QED
  BY <1>1, <1>2, <1>5, <1>7, <1>9, <1>10 DEF MetricsInv, IsMetered

LEMMA MetricsStep == TypeInv /\ MetricsInv /\ [Next]_vars => MetricsInv'
<1> SUFFICES ASSUME TypeInv, MetricsInv, [Next]_vars PROVE MetricsInv'
  OBVIOUS
<1>1. ASSUME request' = request, fetched' = fetched, outcomes' = outcomes, metrics' = metrics,
             AsksExchanges => received' = received
      PROVE  MetricsInv'
  <2>1. Called' = Called /\ Kind' = Kind /\ AsksExchanges' = AsksExchanges /\ Pending' = Pending
    BY <1>1, CalledStays DEF Kind, AsksExchanges, Pending
  <2>2. ASSUME NEW name \in Called PROVE IsMetered(name)'
    <3>1. IsMetered(name)
      BY DEF MetricsInv, IsMetered
    <3> QED
      BY <1>1, <3>1, MeteredStays DEF IsMetered
  <2>3. \A name : IsUsable(name)' <=> IsUsable(name)
    BY <1>1 DEF IsUsable
  <2> QED
    BY <1>1, <2>1, <2>2, <2>3 DEF MetricsInv, IsMetered
<1>2. CASE CollectForex
  BY <1>1, <1>2 DEF CollectForex, AsksExchanges
<1>3. CASE UNCHANGED <<request, fetched, outcomes, metrics, received>>
  BY <1>1, <1>3
<1> QED
  BY <1>2, <1>3, MetricsFetch, MetricsRespond, MetricsCollect
     DEF Next, vars, RespondBank, Compose, Trade, Tick

LEMMA MetricsTell == TypeInv /\ MetricsInv => MetricsMatchRates
<1> SUFFICES ASSUME TypeInv, MetricsInv PROVE MetricsMatchRates
  OBVIOUS
<1> DEFINE upToDate == {name \in Called : metrics.lastSuccess[<<name, Kind>>] > 0}
           usable == {name \in Called : outcomes[name].kind = "Rate" /\ outcomes[name].rate > 0}
<1>1. ASSUME NEW name \in usable PROVE name \in upToDate
  <2>1. outcomes[name] # Pending
    BY DEF Pending
  <2>2. /\ outcomes[name] = Oriented(name, Outcome(name))
        /\ LastSuccess(name) > 0 <=> OutcomeOf(Outcome(name)) = "success"
    BY <2>1 DEF MetricsInv, IsMetered
  <2>3. fetched[name] \in [Replicas -> Responses]
    BY DEF TypeInv
  <2> QED
    BY <2>2, <2>3, OutcomeSettled DEF LastSuccess
<1>2. ASSUME NEW name \in upToDate \ usable
      PROVE  IsInverse(name) /\ \E r \in Replicas : fetched[name][r].rate > MaxRate
  <2>1. name \in Called /\ LastSuccess(name) > 0
    BY DEF LastSuccess
  <2>2. outcomes[name] # Pending
    BY <2>1 DEF MetricsInv, IsMetered
  <2>3. /\ outcomes[name] = Oriented(name, Outcome(name))
        /\ OutcomeOf(Outcome(name)) = "success"
    BY <2>1, <2>2 DEF MetricsInv, IsMetered
  <2>4. fetched[name] \in [Replicas -> Responses]
    BY <2>1 DEF TypeInv
  <2> QED
    BY <2>1, <2>3, <2>4, OutcomeSettled
<1>3. ASSUME Kind = "stablecoin", "coin2" \in DOMAIN received
      PROVE  metrics.symbolRates[request.symbol] = Cardinality(usable)
  <2>1. request.live = "coin2" /\ AsksExchanges
    BY <1>3 DEF Kind, AsksExchanges
  <2>2. {name \in Called : IsUsable(name)} = usable
    BY DEF IsUsable
  <2> HIDE DEF usable
  <2> QED
    BY <1>3, <2>1, <2>2 DEF MetricsInv
<1> QED
  BY <1>1, <1>2, <1>3 DEF MetricsMatchRates

(* The metrics of the exchanges say which of them gave a positive rate,    *)
(* and for a stablecoin how many: for any number of exchanges and          *)
(* replicas, and whatever rates they answer with.                          *)
THEOREM MetricsTellTheTruth == Spec => []MetricsMatchRates
<1>1. IInv /\ MetricsInv => MetricsMatchRates
  BY MetricsTell DEF IInv
<1>2. IInv /\ IInv' /\ MetricsInv /\ [Next]_vars => MetricsInv'
  BY MetricsStep DEF IInv
<1> QED
  BY <1>1, <1>2, MetricsInit, InductiveInvariant, PTL DEF Spec

-----------------------------------------------------------------------------
(* The rates of the banks *)

(* The banks write in the currency the code takes for their own, and under *)
(* the date that the code asks for.                                        *)
LEMMA SourceFacts ==
    ASSUME NEW name \in ToSet(AllForexSources)
    PROVE  /\ ForexSource(name).queryShift = PublicationShift(name)
           /\ PublicationShift(name) \in {0, 1}
           /\ HomeCurrency(name) # "USD" /\ HomeCurrency(name) # "none"
           /\ ForexSource(name).own = IF HomeCurrency(name) = "LCU" THEN "none"
                                      ELSE HomeCurrency(name)
           /\ ForexSource(name).dated \in {"document", "items", "all"}
           /\ ForexSource(name).perUnits \in {"no", "item", "JPY"}
           /\ ForexSource(name).perUnits = "JPY" <=> name = "CentralBankOfMyanmar"
           /\ ForexSource("CentralBankOfMyanmar").priced = "yes"
<1>1. name \in {"CentralBankOfMyanmar", "CentralBankOfBosniaHerzegovina",
                "EuropeanCentralBank", "BankOfCanada", "CentralBankOfUzbekistan",
                "ReserveBankOfAustralia", "CentralBankOfNepal", "CentralBankOfGeorgia",
                "BankOfItaly", "SwissFederalOfficeForCustoms", "CentralBankOfTurkey"}
  BY DEF AllForexSources, ToSet
<1>0. ForexSource("CentralBankOfMyanmar").priced = "yes"
  BY DEF ForexSource, CentralBankOfMyanmar, DefaultSource
<1>2. CASE name \in {"EuropeanCentralBank", "BankOfItaly"}
  <2>1. ForexSource(name) \in {EuropeanCentralBank, BankOfItaly}
    BY <1>2 DEF ForexSource
  <2>2. HomeCurrency(name) = "EUR" /\ PublicationShift(name) = 0
    BY <1>2 DEF HomeCurrency, PublicationShift
  <2> QED
    BY <1>0, <1>2, <2>1, <2>2 DEF EuropeanCentralBank, BankOfItaly, DefaultSource
<1>3. CASE name = "BankOfCanada"
  BY <1>0, <1>3 DEF ForexSource, HomeCurrency, PublicationShift, BankOfCanada, DefaultSource
<1>4. CASE name = "ReserveBankOfAustralia"
  BY <1>0, <1>4
     DEF ForexSource, HomeCurrency, PublicationShift, ReserveBankOfAustralia, DefaultSource
<1>5. CASE name = "SwissFederalOfficeForCustoms"
  BY <1>0, <1>5
     DEF ForexSource, HomeCurrency, PublicationShift, SwissFederalOfficeForCustoms, DefaultSource
<1>6. CASE name = "CentralBankOfTurkey"
  BY <1>0, <1>6
     DEF ForexSource, HomeCurrency, PublicationShift, CentralBankOfTurkey, DefaultSource
<1>7. CASE name \in {"CentralBankOfBosniaHerzegovina", "CentralBankOfGeorgia"}
  <2>1. ForexSource(name) \in {CentralBankOfBosniaHerzegovina, CentralBankOfGeorgia}
    BY <1>7 DEF ForexSource
  <2>2. HomeCurrency(name) = "LCU" /\ PublicationShift(name) = 1
    BY <1>7 DEF HomeCurrency, PublicationShift
  <2> QED
    BY <1>0, <1>7, <2>1, <2>2
       DEF CentralBankOfBosniaHerzegovina, CentralBankOfGeorgia, DefaultSource
<1>8. CASE name \in {"CentralBankOfUzbekistan", "CentralBankOfNepal"}
  <2>1. ForexSource(name) \in {CentralBankOfUzbekistan, CentralBankOfNepal}
    BY <1>8 DEF ForexSource
  <2>2. HomeCurrency(name) = "LCU" /\ PublicationShift(name) = 0
    BY <1>8 DEF HomeCurrency, PublicationShift
  <2> QED
    BY <1>0, <1>8, <2>1, <2>2 DEF CentralBankOfUzbekistan, CentralBankOfNepal, DefaultSource
<1>9. CASE name = "CentralBankOfMyanmar"
  BY <1>0, <1>9
     DEF ForexSource, HomeCurrency, PublicationShift, CentralBankOfMyanmar, DefaultSource
<1> QED
  BY <1>1, <1>2, <1>3, <1>4, <1>5, <1>6, <1>7, <1>8, <1>9

(* No price of a dollar or of the bank's own currency is overstated, and   *)
(* a price is for as many units as it is taken to be for, times that.      *)
LEMMA OverstatedFacts ==
    ASSUME NEW name \in ToSet(AllForexSources)
    PROVE  /\ \A c : Overstated(name, c) \in Nat \ {0}
           /\ Overstated(name, "USD") = 1
           /\ Overstated(name, HomeCurrency(name)) = 1
<1>1. name = "CentralBankOfMyanmar" => HomeCurrency(name) = "LCU"
  BY DEF HomeCurrency
<1> QED
  BY <1>1 DEF Overstated, PerHundred

LEMMA UnitsOfPrice ==
    ASSUME NEW name \in ToSet(AllForexSources), NEW item,
           item.units = IF ForexSource(name).perUnits = "no" THEN 1 ELSE Units(item.symbol)
    PROVE  /\ UnitsTaken(ForexSource(name), item) \in Nat \ {0}
           /\ item.units = UnitsTaken(ForexSource(name), item) * Overstated(name, item.symbol)
<1> DEFINE c == item.symbol
<1>1. ForexSource(name).perUnits \in {"no", "item", "JPY"}
  BY SourceFacts
<1>2. ForexSource(name).perUnits = "JPY" <=> name = "CentralBankOfMyanmar"
  BY SourceFacts
<1>3. Units(c) \in {1, 100} /\ (Units(c) = 100 <=> c \in PerHundred) /\ "JPY" \in PerHundred
  BY DEF Units, PerHundred
<1>4. CASE ForexSource(name).perUnits = "JPY"
  BY <1>2, <1>3, <1>4 DEF UnitsTaken, Overstated
<1>5. CASE ForexSource(name).perUnits # "JPY"
  <2>1. Overstated(name, c) = 1
    BY <1>2, <1>5 DEF Overstated
  <2> QED
    BY <1>1, <1>3, <1>5, <2>1 DEF UnitsTaken
<1> QED
  BY <1>4, <1>5

LEMMA QuotientIs ==
    ASSUME NEW m \in Nat, NEW n \in Nat \ {0}, NEW q \in Nat, q * n <= m, m < (q + 1) * n
    PROVE  m \div n = q
<1> DEFINE p == m \div n
<1>1. p \in Nat /\ p * n <= m /\ m < (p + 1) * n
  BY Quotient
<1> HIDE DEF p
<1>2. \A a, b \in Nat : a + 1 <= b => (a + 1) * n <= b * n
  BY TimesMonotone
<1>3. ~(p + 1 <= q) /\ ~(q + 1 <= p)
  <2>1. p * n \in Nat /\ q * n \in Nat /\ (p + 1) * n \in Nat /\ (q + 1) * n \in Nat
    BY <1>1, TimesNat
  <2> QED
    BY <1>1, <1>2, <2>1
<1>4. p = q
  BY <1>1, <1>3
<1> QED
  BY <1>4 DEF p

(* A price for several units is not rounded differently. *)
LEMMA QuotientOfMultiples ==
    ASSUME NEW m \in Nat, NEW n \in Nat \ {0}, NEW k \in Nat \ {0}
    PROVE  (m * k) \div (n * k) = m \div n
<1> DEFINE q == m \div n
<1>1. q \in Nat /\ q * n <= m /\ m < (q + 1) * n
  BY Quotient
<1> HIDE DEF q
<1>2. (q * n) * k <= m * k /\ m * k < ((q + 1) * n) * k
  <2>1. \A a, b \in Nat : a < b => a * k < b * k
    OBVIOUS
  <2> QED
    BY <1>1, <2>1, TimesMonotone, TimesNat
<1>3. (q * n) * k = q * (n * k) /\ ((q + 1) * n) * k = (q + 1) * (n * k)
  BY <1>1, TimesAssociative
<1>4. m * k \in Nat /\ n * k \in Nat \ {0}
  <2>1. \A a, b \in Nat \ {0} : a * b \in Nat \ {0}
    OBVIOUS
  <2> QED
    BY <2>1, TimesNat
<1>5. (m * k) \div (n * k) = q
  BY <1>1, <1>2, <1>3, <1>4, QuotientIs
<1> QED
  BY <1>5 DEF q

(* What is published about a currency becomes what it is worth, or what a  *)
(* hundred units are if the price is overstated, however the bank says it; *)
(* and 0, for a price, or the largest number, for an     *)
(* amount, if the currency is said to be worth nothing.                    *)
LEMMA ItemWorth ==
    ASSUME NEW name \in ToSet(AllForexSources), NEW c, NEW date, NEW isZero \in BOOLEAN, NEW item,
           item = PublishedItem(name, Worth, c, date, isZero),
           NEW w \in Nat \ {0}, w = Worth[date - PublicationShift(name)][c],
           NEW h \in Nat \ {0}, h = Worth[date - PublicationShift(name)][HomeCurrency(name)]
    PROVE  /\ item.symbol = c /\ item.day = date
           /\ ~isZero => item.num > 0
           /\ isZero => ItemRate(ForexSource(name), item) \in {0, WORD - 1}
           /\ ~isZero => ItemRate(ForexSource(name), item) =
                             (RATE_UNIT * (w * Overstated(name, c))) \div h
<1> DEFINE source == ForexSource(name)
           priced == source.priced = "yes" \/ (source.priced = "item" /\ c = "USD")
           units == IF source.perUnits = "no" THEN 1 ELSE Units(c)
           taken == UnitsTaken(source, item)
           f == Overstated(name, c)
<1>1. /\ item.symbol = c /\ item.day = date /\ item.units = units
      /\ item.isPrice <=> priced
      /\ item.num = IF isZero THEN 0 ELSE IF priced THEN w * units ELSE h
      /\ item.den = IF priced THEN h ELSE w
  BY DEF PublishedItem
<1>2. units = taken * f /\ taken \in Nat \ {0} /\ f \in Nat \ {0} /\ units \in Nat \ {0}
  BY <1>1, UnitsOfPrice, OverstatedFacts DEF Units
<1>3. IsPrice(source, item) <=> priced
  BY <1>1 DEF IsPrice
<1>4. ~priced => f = 1
  BY SourceFacts DEF Overstated
<1>5. item.symbol = c /\ item.day = date /\ item.den \in Nat \ {0}
  BY <1>1
<1>6. \A a, b \in Nat \ {0} : a * b \in Nat \ {0}
  OBVIOUS
<1>7. ItemRate(source, item) =
        IF priced THEN (item.num * RATE_UNIT) \div (item.den * taken)
        ELSE IF item.num = 0 THEN WORD - 1
        ELSE (item.den * RATE_UNIT) \div item.num
  BY <1>3 DEF ItemRate
<1> HIDE DEF units, taken, f
<1>8. CASE isZero
  <2>1. item.num = 0
    BY <1>1, <1>8
  <2>2. 0 * RATE_UNIT = 0 /\ item.den * taken \in Nat \ {0}
    BY <1>2, <1>5, <1>6, Scale
  <2>3. \A n \in Nat \ {0} : 0 \div n = 0
    OBVIOUS
  <2>4. (item.num * RATE_UNIT) \div (item.den * taken) = 0
    BY <2>1, <2>2, <2>3
  <2> QED
    BY <1>5, <1>7, <1>8, <2>1, <2>4 DEF source
<1>9. CASE ~isZero /\ priced
  <2>1. item.num = w * units /\ item.den = h
    BY <1>1, <1>9
  <2>2. w * (taken * f) = (w * f) * taken
    BY <1>2, TimesAssociative
  <2>3. ((w * f) * taken) * RATE_UNIT = (RATE_UNIT * (w * f)) * taken
    <3>1. w * f \in Nat
      BY <1>2, TimesNat
    <3> QED
      BY <1>2, <3>1, TimesAssociative, Scale
  <2>4. ((RATE_UNIT * (w * f)) * taken) \div (h * taken) = (RATE_UNIT * (w * f)) \div h
    <3>1. RATE_UNIT * (w * f) \in Nat
      BY <1>2, TimesNat, Scale
    <3> QED
      BY <1>2, <3>1, QuotientOfMultiples
  <2>5. w * units \in Nat \ {0}
    BY <1>2, <1>6
  <2>6. (item.num * RATE_UNIT) \div (item.den * taken) = (RATE_UNIT * (w * f)) \div h
    BY <1>2, <2>1, <2>2, <2>3, <2>4
  <2>7. ItemRate(source, item) = (RATE_UNIT * (w * f)) \div h
    BY <1>7, <1>9, <2>6
  <2>8. item.num > 0
    BY <2>1, <2>5
  <2> QED
    BY <1>5, <1>9, <2>7, <2>8 DEF source, f
<1>10. CASE ~isZero /\ ~priced
  <2>1. item.num = h /\ item.den = w /\ item.num > 0
    BY <1>1, <1>10
  <2>2. w * RATE_UNIT = RATE_UNIT * (w * f)
    BY <1>4, <1>10, TimesAssociative, Scale
  <2>3. ItemRate(source, item) = (RATE_UNIT * (w * f)) \div h
    BY <1>7, <1>10, <2>1, <2>2
  <2> QED
    BY <1>5, <1>10, <2>1, <2>3 DEF source, f
<1> QED
  BY <1>8, <1>9, <1>10

(* The currencies a document gives values for, and their rates if v are    *)
(* the values.                                                             *)
Valued(name, document, date) ==
    {item.symbol : item \in UsableItems(ForexSource(name), document, date)}
        \cup ({ForexSource(name).own} \ {"none"})
GivesValues(name, document, date, v) ==
    /\ ForexSource(name).own # "none" => v[ForexSource(name).own] = RATE_UNIT
    /\ \A item \in UsableItems(ForexSource(name), document, date) :
          item.symbol # ForexSource(name).own =>
              ItemRate(ForexSource(name), item) = v[item.symbol]
RatesInUsd(symbols, v) == [c \in symbols |-> ((RATE_UNIT * v[c]) \div v["USD"]) % WORD]

(* The rates taken from a document. *)
LEMMA ExtractedFrom ==
    ASSUME NEW name, NEW document, NEW date, NEW v, NEW D,
           D = Valued(name, document, date),
           "none" \notin D, GivesValues(name, document, date, v)
    PROVE  ExtractRates(name, document, date) =
               IF \/ IsOutdated(ForexSource(name), document, date)
                  \/ "USD" \notin D \/ v["USD"] = 0
               THEN Fails
               ELSE Answer(RatesInUsd(D, v))
<1> DEFINE source == ForexSource(name)
           items == UsableItems(source, document, date)
           quoted == {item.symbol : item \in items}
           rate(c) == ItemRate(source, CHOOSE item \in items : item.symbol = c)
           values == [c \in quoted \cup ({source.own} \ {"none"}) |->
                         IF c = source.own THEN RATE_UNIT ELSE rate(c)]
<1>0. D = quoted \cup ({source.own} \ {"none"})
  BY DEF Valued
<1>1. ExtractRates(name, document, date) =
        IF IsOutdated(source, document, date) THEN Fails ELSE NormalizeToUsd(values)
  BY DEF ExtractRates
<1>2. ASSUME NEW c \in quoted, c # source.own PROVE rate(c) = v[c]
  <2> DEFINE chosen == CHOOSE item \in items : item.symbol = c
  <2>1. chosen \in items /\ chosen.symbol = c
    OBVIOUS
  <2> HIDE DEF chosen
  <2>2. ItemRate(source, chosen) = v[c]
    BY <1>2, <2>1 DEF GivesValues
  <2> QED
    BY <2>2 DEF chosen
<1> HIDE DEF rate
<1>3. values = [c \in D |-> v[c]]
  <2>1. source.own \in D => v[source.own] = RATE_UNIT
    BY DEF GivesValues
  <2> HIDE DEF quoted, items, source
  <2>2. \A c \in D : (IF c = source.own THEN RATE_UNIT ELSE rate(c)) = v[c]
    BY <1>0, <1>2, <2>1
  <2> QED
    BY <1>0, <2>2
<1> HIDE DEF values, quoted, items
<1>4. DOMAIN values = D /\ \A c \in D : values[c] = v[c]
  BY <1>3
<1>5. NormalizeToUsd(values) =
        IF "USD" \notin D \/ v["USD"] = 0 THEN Fails
        ELSE Answer(RatesInUsd(D, v))
  <2>1. CASE "USD" \notin D
    BY <1>4, <2>1 DEF NormalizeToUsd
  <2>2. CASE "USD" \in D
    <3>1. values["USD"] = v["USD"]
      BY <1>4, <2>2
    <3>2. [c \in DOMAIN values |-> ((RATE_UNIT * values[c]) \div values["USD"]) % WORD]
            = RatesInUsd(D, v)
      BY <1>4, <3>1 DEF RatesInUsd
    <3> QED
      BY <1>4, <2>2, <3>1, <3>2 DEF NormalizeToUsd
  <2> QED
    BY <2>1, <2>2
<1> QED
  BY <1>1, <1>5

(* A request for banks. *)
LEMMA BankFacts ==
    ASSUME request \in Requests, request.live = "forex", NEW name \in request.sources
    PROVE  /\ name \in ToSet(AllForexSources)
           /\ "USD" \in QuotedCurrencies /\ "none" \notin QuotedCurrencies
           /\ QueryDay(name, request.day) \in Int
           /\ QueryDay(name, request.day) - PublicationShift(name) = request.day
           /\ \A c \in QuotedCurrencies \cup {HomeCurrency(name)} :
                 Worth[request.day][c] \in Nat \ {0} /\ InHome(name, c) \in Nat
           /\ \A c : Overstated(name, c) \in Nat \ {0}
           /\ Overstated(name, "USD") = 1
           /\ InHome(name, HomeCurrency(name)) = RATE_UNIT
<1>1. name \in ToSet(AllForexSources) /\ request.day \in Nat
  BY RequestFacts
<1>2. "USD" \in QuotedCurrencies /\ "none" \notin QuotedCurrencies
  BY RatePathAssumption DEF QuotedCurrencies
<1>3. /\ QueryDay(name, request.day) \in Int
      /\ QueryDay(name, request.day) - PublicationShift(name) = request.day
  BY <1>1, SourceFacts DEF QueryDay
<1>4. \A c \in QuotedCurrencies \cup {HomeCurrency(name)} : Worth[request.day][c] \in Nat \ {0}
  <2>1. request.day \in request.day - 2..request.day + 1
    BY <1>1
  <2>2. QuotedCurrencies \subseteq DOMAIN Worth[request.day]
    BY DEF QuotedCurrencies
  <2> QED
    BY <2>1, <2>2, RatePathAssumption
<1>5. \A w \in Nat, f \in Nat, h \in Nat \ {0} : (RATE_UNIT * (w * f)) \div h \in Nat
  BY Scale, TimesNat, Quotient
<1>6. \A h \in Nat \ {0} : (RATE_UNIT * h) \div h = RATE_UNIT
  <2> SUFFICES ASSUME NEW h \in Nat \ {0} PROVE (RATE_UNIT * h) \div h = RATE_UNIT
    OBVIOUS
  <2>1. RATE_UNIT \in Nat /\ RATE_UNIT * h \in Nat
    BY Scale, TimesNat
  <2>2. \A u \in Nat : u * h <= u * h /\ u * h < (u + 1) * h
    OBVIOUS
  <2> QED
    BY <2>1, <2>2, QuotientIs
<1>7. /\ \A c : Overstated(name, c) \in Nat \ {0}
      /\ Overstated(name, "USD") = 1 /\ Overstated(name, HomeCurrency(name)) = 1
  BY <1>1, OverstatedFacts
<1>8. \A c \in QuotedCurrencies \cup {HomeCurrency(name)} : InHome(name, c) \in Nat
  BY <1>4, <1>5, <1>7 DEF InHome
<1>9. InHome(name, HomeCurrency(name)) = RATE_UNIT
  <2> DEFINE h == Worth[request.day][HomeCurrency(name)]
  <2>1. h \in Nat \ {0}
    BY <1>4
  <2>2. h * 1 = h
    BY <2>1
  <2>3. InHome(name, HomeCurrency(name)) = (RATE_UNIT * (h * 1)) \div h
    BY <1>7 DEF InHome
  <2> HIDE DEF h
  <2> QED
    BY <1>6, <2>1, <2>2, <2>3
<1> QED
  BY <1>1, <1>2, <1>3, <1>4, <1>7, <1>8, <1>9

(* The items that count are the ones of the requested day.                 *)
LEMMA UsableItem ==
    ASSUME request \in Requests, request.live = "forex", NEW name \in request.sources,
           NEW answer \in PossibleDocuments(name),
           ~IsOutdated(ForexSource(name), answer.document, QueryDay(name, request.day)),
           NEW item \in UsableItems(ForexSource(name), answer.document,
                                    QueryDay(name, request.day))
    PROVE  \E c \in QuotedCurrencies \ {HomeCurrency(name)} :
               item = PublishedItem(name, Worth, c, QueryDay(name, request.day),
                                    answer.kind = "zero" /\ c = "USD")
<1> DEFINE source == ForexSource(name)
           date == QueryDay(name, request.day)
           C == QuotedCurrencies
           H == HomeCurrency(name)
           right == Published(name, Worth, C, date, {})
           old == Published(name, Worth, C, date - 1, {})
           zero == Published(name, Worth, C, date, {"USD"})
           mixed == [right EXCEPT
                        !.items = {i \in right.items : i.symbol # request.symbol}
                                    \cup {i \in old.items : i.symbol = request.symbol}]
<1>1. source.dated \in {"document", "items", "all"} /\ date \in Int
  BY BankFacts, SourceFacts
<1>2. \/ answer = [kind |-> "right", document |-> right]
      \/ answer = [kind |-> "old", document |-> old]
      \/ answer = [kind |-> "zero", document |-> zero]
      \/ source.dated # "document" /\ answer = [kind |-> "mixed", document |-> mixed]
  BY DEF PossibleDocuments
<1>3. /\ \A i \in right.items : \E c \in C \ {H} : i = PublishedItem(name, Worth, c, date, FALSE)
      /\ \A i \in zero.items : \E c \in C \ {H} : i = PublishedItem(name, Worth, c, date, c = "USD")
      /\ \A i \in old.items : i.day = date - 1
      /\ old.day = date - 1
  BY DEF Published, PublishedItem
<1>4. mixed.items \subseteq right.items \cup old.items
  BY DEF Published
<1>5. /\ item \in answer.document.items
      /\ source.dated = "items" => item.day = date
      /\ source.dated = "all" => item.day = date
      /\ source.dated = "document" => answer.document.day = date
  BY DEF UsableItems, IsOutdated
<1> HIDE DEF source, date, C, H, right, old, zero, mixed
<1>6. CASE answer = [kind |-> "right", document |-> right]
  <2>1. answer.kind # "zero" /\ item \in right.items
    BY <1>5, <1>6
  <2>2. PICK c \in C \ {H} : item = PublishedItem(name, Worth, c, date, FALSE)
    BY <1>3, <2>1
  <2>3. (answer.kind = "zero" /\ c = "USD") = FALSE
    BY <2>1
  <2> QED
    BY <2>2, <2>3 DEF C, H, date
<1>7. CASE answer = [kind |-> "old", document |-> old]
  <2>1. item.day = date - 1 /\ answer.document.day = date - 1
    BY <1>3, <1>5, <1>7
  <2> QED
    BY <1>1, <1>5, <2>1
<1>8. CASE answer = [kind |-> "zero", document |-> zero]
  <2>1. answer.kind = "zero" /\ item \in zero.items
    BY <1>5, <1>8
  <2>2. PICK c \in C \ {H} : item = PublishedItem(name, Worth, c, date, c = "USD")
    BY <1>3, <2>1
  <2>3. (answer.kind = "zero" /\ c = "USD") = (c = "USD")
    BY <2>1
  <2> QED
    BY <2>2, <2>3 DEF C, H, date
<1>9. CASE source.dated # "document" /\ answer = [kind |-> "mixed", document |-> mixed]
  <2>1. answer.kind # "zero" /\ item \in right.items \cup old.items
    BY <1>4, <1>5, <1>9
  <2>2. item \in right.items
    <3>1. item.day = date
      BY <1>1, <1>5, <1>9
    <3> QED
      BY <1>1, <1>3, <2>1, <3>1
  <2>3. PICK c \in C \ {H} : item = PublishedItem(name, Worth, c, date, FALSE)
    BY <1>3, <2>2
  <2>4. (answer.kind = "zero" /\ c = "USD") = FALSE
    BY <2>1
  <2> QED
    BY <2>3, <2>4 DEF C, H, date
<1> QED
  BY <1>2, <1>6, <1>7, <1>8, <1>9

(* What is published for a day about one currency, taken as a rate.        *)
LEMMA PublishedWorth ==
    ASSUME request \in Requests, request.live = "forex", NEW name \in request.sources,
           NEW c \in QuotedCurrencies, NEW item
    PROVE  /\ item = PublishedItem(name, Worth, c, QueryDay(name, request.day), FALSE) =>
                 item.num > 0 /\ ItemRate(ForexSource(name), item) = InHome(name, c)
           /\ item = PublishedItem(name, Worth, c, QueryDay(name, request.day), TRUE) =>
                 ItemRate(ForexSource(name), item) \in {0, WORD - 1}
<1> DEFINE date == QueryDay(name, request.day)
           w == Worth[request.day][c]
           h == Worth[request.day][HomeCurrency(name)]
<1>1. /\ name \in ToSet(AllForexSources) /\ date - PublicationShift(name) = request.day
      /\ w \in Nat \ {0} /\ h \in Nat \ {0}
  BY BankFacts
<1>2. /\ w = Worth[date - PublicationShift(name)][c]
      /\ h = Worth[date - PublicationShift(name)][HomeCurrency(name)]
  BY <1>1
<1>3. InHome(name, c) = (RATE_UNIT * (w * Overstated(name, c))) \div h
  BY DEF InHome
<1> HIDE DEF date, w, h
<1>4. ASSUME NEW isZero \in BOOLEAN, item = PublishedItem(name, Worth, c, date, isZero)
      PROVE  /\ ~isZero => item.num > 0 /\ ItemRate(ForexSource(name), item) = InHome(name, c)
             /\ isZero => ItemRate(ForexSource(name), item) \in {0, WORD - 1}
  BY <1>1, <1>2, <1>3, <1>4, ItemWorth
<1>5. FALSE \in BOOLEAN /\ TRUE \in BOOLEAN
  OBVIOUS
<1>6. ASSUME item = PublishedItem(name, Worth, c, date, FALSE)
      PROVE  item.num > 0 /\ ItemRate(ForexSource(name), item) = InHome(name, c)
  BY <1>4, <1>5, <1>6
<1>7. ASSUME item = PublishedItem(name, Worth, c, date, TRUE)
      PROVE  ItemRate(ForexSource(name), item) \in {0, WORD - 1}
  BY <1>4, <1>5, <1>7
<1> QED
  BY <1>6, <1>7 DEF date

(* What BankRatesMatchWorth says of one answer; and it has rates for the      *)
(* currencies of the document only, and only if USD is worth something.    *)
MatchesWorth(name, kind, answer) ==
    /\ answer.ok => /\ kind # "zero" => InHome(name, "USD") > 0
                    /\ DOMAIN answer.rates \subseteq QuotedCurrencies \cup {HomeCurrency(name)}
    /\ kind = "right" /\ InHome(name, "USD") > 0 =>
          /\ answer.ok
          /\ \A c \in QuotedCurrencies \cup ({HomeCurrency(name)} \ {"LCU"}) :
                InHome(name, c) > 0 => c \in DOMAIN answer.rates
    /\ answer.ok => \A c \in DOMAIN answer.rates :
          IF kind # "zero" THEN answer.rates[c] = InUsd(name, c)
          ELSE c # "USD" => answer.rates[c] * (WORD - 1) <= RATE_UNIT * InHome(name, c)

(* Every item of the right document counts, unless it is too small.        *)
LEMMA RightDocument ==
    ASSUME request \in Requests, request.live = "forex", NEW name \in request.sources,
           NEW answer \in PossibleDocuments(name), answer.kind = "right"
    PROVE  /\ ~IsOutdated(ForexSource(name), answer.document, QueryDay(name, request.day))
           /\ \A c \in QuotedCurrencies \ {HomeCurrency(name)} :
                 InHome(name, c) > 0 =>
                     c \in {item.symbol : item \in
                               UsableItems(ForexSource(name), answer.document,
                                           QueryDay(name, request.day))}
<1> DEFINE date == QueryDay(name, request.day)
           right == Published(name, Worth, QuotedCurrencies, date, {})
<1>1. answer.document = right
  BY DEF PossibleDocuments
<1>2. /\ right.day = date
      /\ \A c \in QuotedCurrencies \ {HomeCurrency(name)} :
            PublishedItem(name, Worth, c, date, FALSE) \in right.items
  BY DEF Published, PublishedItem
<1>3. \A item \in right.items : item.day = date
  BY DEF Published, PublishedItem
<1> HIDE DEF right, date
<1>4. ~IsOutdated(ForexSource(name), answer.document, date)
  BY <1>1, <1>2, <1>3 DEF IsOutdated
<1>5. ASSUME NEW c \in QuotedCurrencies \ {HomeCurrency(name)}, InHome(name, c) > 0
      PROVE  c \in {item.symbol : item \in UsableItems(ForexSource(name), answer.document, date)}
  <2> DEFINE published == PublishedItem(name, Worth, c, date, FALSE)
  <2>1. published \in answer.document.items
    BY <1>1, <1>2
  <2> HIDE DEF published
  <2>2. /\ published.symbol = c /\ published.day = date /\ published.num > 0
        /\ ItemRate(ForexSource(name), published) = InHome(name, c)
    <3>1. published = PublishedItem(name, Worth, c, QueryDay(name, request.day), FALSE)
      BY DEF published, date
    <3>2. published.symbol = c /\ published.day = QueryDay(name, request.day)
      BY <3>1 DEF PublishedItem
    <3>3. published.num > 0 /\ ItemRate(ForexSource(name), published) = InHome(name, c)
      BY <3>1, PublishedWorth
    <3> QED
      BY <3>2, <3>3 DEF date
  <2>3. published \in UsableItems(ForexSource(name), answer.document, date)
    BY <1>5, <2>1, <2>2 DEF UsableItems
  <2> QED
    BY <2>2, <2>3
<1> QED
  BY <1>4, <1>5 DEF date

LEMMA NextToNothing ==
    ASSUME NEW m \in Nat, NEW n \in Nat \ {0}, NEW w \in Nat \ {0}
    PROVE  ((m \div n) % w) * n <= m
<1> DEFINE q == m \div n
<1>1. q \in Nat /\ q * n <= m
  BY Quotient
<1> HIDE DEF q
<1>2. q % w \in Nat /\ q % w <= q
  BY <1>1
<1>3. (q % w) * n <= q * n
  BY <1>1, <1>2, TimesMonotone
<1>4. (q % w) * n \in Nat /\ q * n \in Nat
  BY <1>1, <1>2, TimesNat
<1> QED
  BY <1>1, <1>3, <1>4 DEF q

LEMMA BankAnswer ==
    ASSUME request \in Requests, request.live = "forex", NEW name \in request.sources,
           NEW answer \in PossibleDocuments(name)
    PROVE  MatchesWorth(name, answer.kind,
                        ExtractRates(name, answer.document, QueryDay(name, request.day)))
<1> DEFINE source == ForexSource(name)
           date == QueryDay(name, request.day)
           home == HomeCurrency(name)
           items == UsableItems(source, answer.document, date)
           extracted == ExtractRates(name, answer.document, date)
           isZero(c) == answer.kind = "zero" /\ c = "USD"
           zeroRate == ItemRate(source, PublishedItem(name, Worth, "USD", date, TRUE))
           D == Valued(name, answer.document, date)
           v == [c \in QuotedCurrencies \cup {home} |->
                    IF isZero(c) THEN zeroRate ELSE InHome(name, c)]
           rates == RatesInUsd(D, v)
<1>1. CASE IsOutdated(source, answer.document, date)
  <2>1. answer.kind # "right"
    BY <1>1, RightDocument
  <2>2. extracted = Fails
    BY <1>1 DEF ExtractRates
  <2> QED
    BY <2>1, <2>2 DEF MatchesWorth, Fails
<1>2. CASE ~IsOutdated(source, answer.document, date)
  <2>1. /\ "USD" \in QuotedCurrencies /\ "none" \notin QuotedCurrencies
        /\ home # "USD" /\ home # "none"
        /\ source.own = IF home = "LCU" THEN "none" ELSE home
        /\ InHome(name, home) = RATE_UNIT
        /\ \A c \in QuotedCurrencies \cup {home} : InHome(name, c) \in Nat
    BY BankFacts, SourceFacts
  <2>2. ASSUME NEW item \in items
        PROVE  /\ item.symbol \in QuotedCurrencies \ {home}
               /\ ItemRate(source, item) = v[item.symbol]
    <3>1. PICK c \in QuotedCurrencies \ {home} :
            item = PublishedItem(name, Worth, c, date, isZero(c))
      BY <1>2, UsableItem
    <3>2. c \in QuotedCurrencies
      OBVIOUS
    <3>3. CASE isZero(c)
      <4>1. item = PublishedItem(name, Worth, c, date, TRUE) /\ c = "USD"
        BY <3>1, <3>3
      <4>2. item.symbol = c
        BY <4>1 DEF PublishedItem
      <4>3. ItemRate(source, item) = zeroRate
        BY <4>1
      <4>4. v[c] = zeroRate
        <5> HIDE DEF zeroRate
        <5> QED
          BY <3>2, <3>3
      <4> QED
        BY <3>1, <4>2, <4>3, <4>4
    <3>4. CASE ~isZero(c)
      <4>1. item = PublishedItem(name, Worth, c, date, FALSE)
        BY <3>1, <3>4
      <4>2. item.symbol = c
        BY <4>1 DEF PublishedItem
      <4>4. ItemRate(source, item) = InHome(name, c)
        BY <3>2, <4>1, PublishedWorth
      <4>3. v[c] = InHome(name, c)
        <5> HIDE DEF zeroRate
        <5> QED
          BY <3>2, <3>4
      <4> QED
        BY <3>1, <4>2, <4>3, <4>4
    <3> QED
      BY <3>3, <3>4
  <2>3. /\ D = {item.symbol : item \in items} \cup ({source.own} \ {"none"})
        /\ "none" \notin D /\ D \subseteq QuotedCurrencies \cup {home}
    BY <2>1, <2>2 DEF Valued
  <2>4. source.own # "none" => v[source.own] = RATE_UNIT
    <3> HIDE DEF zeroRate
    <3> QED
      BY <2>1
  <2>5. zeroRate \in {0, WORD - 1}
    BY <2>1, PublishedWorth
  <2>6. extracted = IF "USD" \notin D \/ v["USD"] = 0 THEN Fails ELSE Answer(rates)
    <3>1. D = Valued(name, answer.document, date)
      OBVIOUS
    <3>3. GivesValues(name, answer.document, date, v)
      BY <2>2, <2>4 DEF GivesValues
    <3>4. ~IsOutdated(ForexSource(name), answer.document, date)
      BY <1>2
    <3> HIDE DEF v, D, date
    <3>5. ExtractRates(name, answer.document, date) =
            IF \/ IsOutdated(ForexSource(name), answer.document, date)
               \/ "USD" \notin D \/ v["USD"] = 0
            THEN Fails
            ELSE Answer(RatesInUsd(D, v))
      BY <2>3, <3>1, <3>3, ExtractedFrom
    <3> QED
      BY <3>4, <3>5
  <2>7. v["USD"] = IF answer.kind = "zero" THEN zeroRate ELSE InHome(name, "USD")
    BY <2>1
  <2>8. \A c \in D \ {"USD"} : v[c] = InHome(name, c) /\ InHome(name, c) \in Nat
    BY <2>1, <2>3
  <2>9. ASSUME answer.kind = "right", InHome(name, "USD") > 0
        PROVE  /\ extracted.ok
               /\ \A c \in QuotedCurrencies \cup ({home} \ {"LCU"}) :
                     InHome(name, c) > 0 => c \in DOMAIN extracted.rates
    <3>1. ASSUME NEW c \in QuotedCurrencies \cup ({home} \ {"LCU"}), InHome(name, c) > 0
          PROVE  c \in D
      <4>1. CASE c = home
        <5>1. home # "LCU"
          BY <3>1, <4>1 DEF QuotedCurrencies
        <5> QED
          BY <2>1, <2>3, <4>1, <5>1
      <4>2. CASE c # home
        <5>1. c \in {item.symbol : item \in items}
          BY <2>9, <3>1, <4>2, RightDocument
        <5> QED
          BY <2>3, <5>1
      <4> QED
        BY <4>1, <4>2
    <3>2. v["USD"] = InHome(name, "USD") /\ "USD" \in D
      BY <2>1, <2>7, <2>9, <3>1
    <3> HIDE DEF D, v
    <3>3. extracted = Answer(rates)
      BY <2>6, <2>9, <3>2
    <3>4. DOMAIN rates = D
      BY DEF RatesInUsd
    <3> HIDE DEF rates
    <3> QED
      BY <3>1, <3>3, <3>4 DEF Answer
  <2>10. ASSUME extracted.ok, NEW c \in DOMAIN extracted.rates
         PROVE  IF answer.kind # "zero" THEN extracted.rates[c] = InUsd(name, c)
                ELSE c # "USD" => extracted.rates[c] * (WORD - 1) <= RATE_UNIT * InHome(name, c)
    <3> HIDE DEF v, D
    <3>1. "USD" \in D /\ v["USD"] # 0 /\ extracted = Answer(rates)
      BY <2>6, <2>10 DEF Fails
    <3>2. c \in D /\ extracted.rates[c] = ((RATE_UNIT * v[c]) \div v["USD"]) % WORD
      BY <3>1 DEF Answer, RatesInUsd
    <3>3. CASE answer.kind # "zero"
      <4>1. v["USD"] = InHome(name, "USD") /\ v[c] = InHome(name, c)
        BY <2>7, <2>8, <3>2, <3>3
      <4> QED
        BY <3>2, <3>3, <4>1 DEF InUsd
    <3>4. CASE answer.kind = "zero"
      <4> SUFFICES ASSUME c # "USD"
                   PROVE  extracted.rates[c] * (WORD - 1) <= RATE_UNIT * InHome(name, c)
        BY <3>4
      <4>1. v["USD"] = WORD - 1 /\ v[c] = InHome(name, c) /\ InHome(name, c) \in Nat
        BY <2>5, <2>7, <2>8, <3>1, <3>2, <3>4
      <4>2. WORD - 1 \in Nat \ {0} /\ WORD \in Nat \ {0} /\ RATE_UNIT \in Nat
        BY Scale
      <4>3. RATE_UNIT * InHome(name, c) \in Nat
        BY <4>1, <4>2, TimesNat
      <4>4. (((RATE_UNIT * InHome(name, c)) \div (WORD - 1)) % WORD) * (WORD - 1)
              <= RATE_UNIT * InHome(name, c)
        BY <4>2, <4>3, NextToNothing
      <4> QED
        BY <3>2, <4>1, <4>4
    <3> QED
      BY <3>3, <3>4
  <2>11. ASSUME extracted.ok
         PROVE  /\ answer.kind # "zero" => InHome(name, "USD") > 0
                /\ DOMAIN extracted.rates \subseteq QuotedCurrencies \cup {home}
    <3>1. /\ "USD" \in QuotedCurrencies \cup {home}
          /\ \A c \in QuotedCurrencies \cup {home} : InHome(name, c) \in Nat
      BY <2>1
    <3> HIDE DEF v, D
    <3>2. v["USD"] # 0 /\ extracted = Answer(rates)
      BY <2>6, <2>11 DEF Fails
    <3>3. DOMAIN extracted.rates = D
      BY <3>2 DEF Answer, RatesInUsd
    <3>4. answer.kind # "zero" => InHome(name, "USD") > 0
      <4>1. InHome(name, "USD") \in Nat
        BY <3>1
      <4>2. answer.kind # "zero" => v["USD"] = InHome(name, "USD")
        BY <2>7
      <4> QED
        BY <3>2, <4>1, <4>2
    <3> QED
      BY <2>3, <3>3, <3>4
  <2> QED
    BY <2>9, <2>10, <2>11 DEF MatchesWorth
<1> QED
  BY <1>1, <1>2

BanksInv ==
    \A name \in DOMAIN documents :
        MatchesWorth(name, documents[name].kind, documents[name].answer)

LEMMA BanksInit == Init => BanksInv
BY DEF Init, BanksInv, MatchesWorth, Fails

LEMMA MatchStays ==
    ASSUME request' = request, NEW name, NEW kind, NEW answer, MatchesWorth(name, kind, answer)
    PROVE  MatchesWorth(name, kind, answer)'
<1>1. \A c : InHome(name, c)' = InHome(name, c) /\ InUsd(name, c)' = InUsd(name, c)
  BY DEF InHome, InUsd
<1>2. QuotedCurrencies' = QuotedCurrencies
  BY DEF QuotedCurrencies
<1> QED
  BY <1>1, <1>2 DEF MatchesWorth

LEMMA BanksRespond ==
    ASSUME TypeInv, BanksInv, NEW name \in request.sources, RespondBank(name)
    PROVE  BanksInv'
<1>1. PICK answer \in PossibleDocuments(name) :
        documents' = [documents EXCEPT ![name] =
            [kind |-> answer.kind,
             answer |-> ExtractRates(name, answer.document, QueryDay(name, request.day))]]
  BY DEF RespondBank
<1>2. request.live = "forex" /\ request' = request /\ request \in Requests
  BY DEF RespondBank, TypeInv
<1>3. ASSUME NEW other \in DOMAIN documents
      PROVE  MatchesWorth(other, documents'[other].kind, documents'[other].answer)
  <2>1. CASE other = name
    <3>1. /\ documents'[other].kind = answer.kind
          /\ documents'[other].answer =
                ExtractRates(name, answer.document, QueryDay(name, request.day))
      BY <1>1, <1>3, <2>1
    <3> QED
      BY <1>2, <2>1, <3>1, BankAnswer
  <2>2. CASE other # name
    <3>1. documents'[other] = documents[other]
      BY <1>1, <1>3, <2>2
    <3> QED
      BY <3>1 DEF BanksInv
  <2> QED
    BY <2>1, <2>2
<1>4. DOMAIN documents' = DOMAIN documents
  BY <1>1
<1>5. \A other \in DOMAIN documents :
        MatchesWorth(other, documents[other].kind, documents[other].answer)'
  BY <1>2, <1>3, MatchStays
<1> QED
  BY <1>4, <1>5 DEF BanksInv

LEMMA BanksStep == TypeInv /\ BanksInv /\ [Next]_vars => BanksInv'
<1> SUFFICES ASSUME TypeInv, BanksInv, [Next]_vars PROVE BanksInv'
  OBVIOUS
<1>1. CASE UNCHANGED <<request, documents>>
  BY <1>1, MatchStays DEF BanksInv
<1> QED
  BY <1>1, BanksRespond
     DEF Next, vars, Fetch, Respond, CollectRates, CollectForex, Compose, Trade, Tick

(* Whatever the documents of the banks say, and in whichever of the ways   *)
(* the banks have, the rates taken from them are what the currencies were  *)
(* worth on the requested day, or, for the won, rupiah, dong, kip and riel *)
(* of the Central Bank of Myanmar, what a hundred of them were worth       *)
(* (myanmar.rs:42 divides the price of the yen only): for all worths.      *)
THEOREM WorthFromDocuments == Spec => []BankRatesMatchWorth
<1>1. BanksInv => BankRatesMatchWorth
  BY DEF BanksInv, BankRatesMatchWorth, MatchesWorth
<1>2. IInv /\ IInv' /\ BanksInv /\ [Next]_vars => BanksInv'
  BY BanksStep DEF IInv
<1> QED
  BY <1>1, <1>2, BanksInit, InductiveInvariant, PTL DEF Spec

(* Two divisions that round down.                                          *)
LEMMA TwoQuotients ==
    ASSUME NEW u \in Nat \ {0}, NEW w \in Nat \ {0}, NEW d \in Nat \ {0}, NEW h \in Nat \ {0},
           NEW a \in Nat, a = (u * w) \div h, NEW b \in Nat, b = (u * d) \div h, b > 0,
           NEW r \in Nat, r = (u * a) \div b
    PROVE  /\ r * (u * d - h + 1) <= (u * u) * w
           /\ (r + 1) * d + h > u * w + 1
<1>1. /\ u * w \in Nat /\ u * d \in Nat /\ u * a \in Nat /\ u * u \in Nat
      /\ a * h \in Nat /\ b * h \in Nat /\ r * b \in Nat
  BY TimesNat
<1>2. a * h <= u * w /\ u * w < (a + 1) * h
  BY <1>1, Quotient
<1>3. b * h <= u * d /\ u * d < (b + 1) * h
  BY <1>1, Quotient
<1>4. r * b <= u * a /\ u * a < (r + 1) * b
  <2>1. u * a \in Nat /\ b \in Nat \ {0}
    BY <1>1
  <2> DEFINE m == u * a
  <2> HIDE DEF m
  <2>2. m \in Nat /\ r = m \div b
    BY <2>1 DEF m
  <2>3. r * b <= m /\ m < (r + 1) * b
    BY <2>1, <2>2, Quotient
  <2> QED
    BY <2>3 DEF m
<1>5. (a + 1) * h = a * h + h /\ (b + 1) * h = b * h + h /\ (r + 1) * b \in Nat
  BY TimesNat
<1>6. r * (u * d - h + 1) <= (u * u) * w
  <2>1. u * d - h + 1 <= b * h
    BY <1>1, <1>3, <1>5
  <2>2. r * (u * d - h + 1) <= r * (b * h)
    <3>1. \A x, y \in Int : x <= y => r * x <= r * y
      OBVIOUS
    <3>2. u * d - h + 1 \in Int /\ b * h \in Int
      BY <1>1
    <3> QED
      BY <2>1, <3>1, <3>2
  <2>3. r * (b * h) = (r * b) * h /\ (u * a) * h = u * (a * h) /\ u * (u * w) = (u * u) * w
    BY TimesAssociative
  <2>4. (r * b) * h <= (u * a) * h
    BY <1>1, <1>4, TimesMonotone
  <2>5. u * (a * h) <= u * (u * w)
    <3>1. \A x, y \in Nat : x <= y => u * x <= u * y
      OBVIOUS
    <3> QED
      BY <1>1, <1>2, <3>1
  <2>6. /\ r * (u * d - h + 1) \in Int /\ (r * b) * h \in Int /\ (u * a) * h \in Int
        /\ u * (u * w) \in Int
    BY <1>1
  <2> QED
    BY <2>2, <2>3, <2>4, <2>5, <2>6
<1>7. (r + 1) * d + h > u * w + 1
  <2>1. (u * a + 1) * h <= ((r + 1) * b) * h
    BY <1>1, <1>4, <1>5, TimesMonotone
  <2>2. ((r + 1) * b) * h = (r + 1) * (b * h) /\ (u * a) * h = u * (a * h)
    BY TimesAssociative
  <2>3. (r + 1) * (b * h) <= (r + 1) * (u * d)
    <3>1. \A x, y \in Nat : x <= y => (r + 1) * x <= (r + 1) * y
      OBVIOUS
    <3> QED
      BY <1>1, <1>3, <3>1
  <2>4. (u * a + 1) * h = (u * a) * h + h
    BY <1>1
  <2>5. u * (u * w - h + 1) <= u * (a * h)
    <3>1. \A x, y \in Int : x <= y => u * x <= u * y
      OBVIOUS
    <3>2. u * w - h + 1 \in Int /\ a * h \in Int /\ u * w - h + 1 <= a * h
      BY <1>1, <1>2, <1>5
    <3> QED
      BY <3>1, <3>2
  <2>6. (r + 1) * (u * d) = u * ((r + 1) * d)
    OBVIOUS
  <2> DEFINE x == u * w - h + 1
             y == (r + 1) * d
  <2>7. x \in Int /\ y \in Int
    BY <1>1
  <2>8. u * x + h <= u * y
    <3>1. /\ (u * a + 1) * h \in Int /\ ((r + 1) * b) * h \in Int /\ (u * a) * h \in Int
          /\ (r + 1) * (u * d) \in Int /\ u * x \in Int /\ u * y \in Int
      BY <1>1, <1>5, <2>7
    <3> QED
      BY <2>1, <2>2, <2>3, <2>4, <2>5, <2>6, <3>1
  <2> HIDE DEF x, y
  <2>9. y > x
    <3>1. \A m, n \in Int : m <= n => u * m <= u * n
      OBVIOUS
    <3>2. u * x \in Int /\ u * y \in Int
      BY <2>7
    <3> QED
      BY <2>7, <2>8, <3>1, <3>2
  <2> QED
    BY <1>1, <2>7, <2>9 DEF x, y
<1> QED
  BY <1>6, <1>7

(* What a rate has to do with the worths, if it fits the word: between     *)
(*    (RATE_UNIT * w - h) / d - 1  and  RATE_UNIT * w / (d - h / RATE_UNIT) *)
(* for a currency, USD and the currency of the bank worth w, d and h, or a *)
(* hundred units of a currency whose price is overstated.                  *)
IsNearWorth(name, symbol, rate) ==
    LET worth == Worth[request.day]
        read == worth[symbol] * Overstated(name, symbol)
    IN  /\ rate * (RATE_UNIT * worth["USD"] - worth[HomeCurrency(name)] + 1) <= MaxRate * read
        /\ (rate + 1) * worth["USD"] + worth[HomeCurrency(name)] > RATE_UNIT * read + 1

RatesNearWorth ==
    \A name \in DOMAIN documents :
        documents[name].answer.ok /\ documents[name].kind # "zero" =>
            \A c \in DOMAIN documents[name].answer.rates :
                (RATE_UNIT * InHome(name, c)) \div InHome(name, "USD") < WORD =>
                    IsNearWorth(name, c, documents[name].answer.rates[c])

LEMMA InUsdNearWorth ==
    ASSUME request \in Requests, request.live = "forex", NEW name \in request.sources,
           NEW c \in QuotedCurrencies \cup {HomeCurrency(name)}, InHome(name, "USD") > 0,
           (RATE_UNIT * InHome(name, c)) \div InHome(name, "USD") < WORD
    PROVE  IsNearWorth(name, c, InUsd(name, c))
<1> DEFINE w == Worth[request.day][c] * Overstated(name, c)
           d == Worth[request.day]["USD"]
           h == Worth[request.day][HomeCurrency(name)]
           a == InHome(name, c)
           b == InHome(name, "USD")
           r == (RATE_UNIT * a) \div b
<1>1. /\ w \in Nat \ {0} /\ d \in Nat \ {0} /\ h \in Nat \ {0}
      /\ a \in Nat /\ b \in Nat
  <2>1. /\ Worth[request.day][c] \in Nat \ {0} /\ Overstated(name, c) \in Nat \ {0}
        /\ d \in Nat \ {0} /\ h \in Nat \ {0} /\ a \in Nat /\ b \in Nat
    BY BankFacts
  <2>2. \A m, n \in Nat \ {0} : m * n \in Nat \ {0}
    OBVIOUS
  <2> QED
    BY <2>1, <2>2
<1>2. a = (RATE_UNIT * w) \div h /\ b = (RATE_UNIT * d) \div h
  <2>1. b = (RATE_UNIT * (d * 1)) \div h
    BY BankFacts DEF InHome
  <2>2. d * 1 = d
    BY <1>1
  <2> QED
    BY <2>1, <2>2 DEF InHome
<1>3. InUsd(name, c) = r % WORD /\ r < WORD /\ b > 0
  BY DEF InUsd
<1>4. IsNearWorth(name, c, r) <=>
          /\ r * (RATE_UNIT * d - h + 1) <= MaxRate * w
          /\ (r + 1) * d + h > RATE_UNIT * w + 1
  BY DEF IsNearWorth
<1> HIDE DEF w, d, h, a, b
<1>5. RATE_UNIT \in Nat \ {0} /\ MaxRate = RATE_UNIT * RATE_UNIT /\ WORD \in Nat \ {0}
  BY Scale DEF MaxRate
<1>6. RATE_UNIT * a \in Nat
  BY <1>1, <1>5, TimesNat
<1>7. r \in Nat
  BY <1>1, <1>3, <1>6, Quotient
<1> HIDE DEF r
<1>8. r % WORD = r
  BY <1>3, <1>5, <1>7
<1>9. /\ r * (RATE_UNIT * d - h + 1) <= (RATE_UNIT * RATE_UNIT) * w
      /\ (r + 1) * d + h > RATE_UNIT * w + 1
  BY <1>1, <1>2, <1>3, <1>5, <1>7, TwoQuotients DEF r
<1> QED
  BY <1>3, <1>4, <1>5, <1>8, <1>9

(* A rate taken from a document that does not deny USD its worth is what   *)
(* the currency was worth, or a hundred units of it if the bank's price is *)
(* overstated, but for what the two divisions round away: for all worths.  *)
THEOREM BankRatesNearWorth == Spec => []RatesNearWorth
<1>1. TypeInv /\ BanksInv => RatesNearWorth
  <2> SUFFICES ASSUME TypeInv, BanksInv, NEW name \in DOMAIN documents,
                      documents[name].answer.ok, documents[name].kind # "zero",
                      NEW c \in DOMAIN documents[name].answer.rates,
                      (RATE_UNIT * InHome(name, c)) \div InHome(name, "USD") < WORD
               PROVE  IsNearWorth(name, c, documents[name].answer.rates[c])
    BY DEF RatesNearWorth
  <2>1. request \in Requests /\ request.live = "forex" /\ name \in request.sources
    BY DEF TypeInv
  <2>2. /\ InHome(name, "USD") > 0 /\ c \in QuotedCurrencies \cup {HomeCurrency(name)}
        /\ documents[name].answer.rates[c] = InUsd(name, c)
    BY DEF BanksInv, MatchesWorth
  <2> QED
    BY <2>1, <2>2, InUsdNearWorth
<1>2. IInv /\ IInv' /\ BanksInv /\ [Next]_vars => BanksInv'
  BY BanksStep DEF IInv
<1>3. IInv => TypeInv
  BY DEF IInv
<1> QED
  BY <1>1, <1>2, <1>3, BanksInit, InductiveInvariant, PTL DEF Spec

=============================================================================
