----------------------------- MODULE SumTheorems -----------------------------
(***************************************************************************)
(* What sums over finite sets are, for the proofs about requests and logs: *)
(* the sum of no numbers, of one more or one fewer, of the same numbers,   *)
(* and of smaller ones.                                                    *)
(*                                                                         *)
(* The library's induction principles take an operator as a parameter,     *)
(* which the provers do not instantiate.  A proof by induction is here a   *)
(* proof that there is no least counterexample.                            *)
(***************************************************************************)
EXTENDS Functions, FiniteSetTheorems, TLAPS

Less == {pair \in Nat \X Nat : pair[1] < pair[2]}

(* Nothing descends in the natural numbers for ever. *)
LEMMA LessIsWellFounded == IsWellFoundedOn(Less, Nat)
BY NatLessThanWellFounded DEF OpToRel, Less

(* Of some natural numbers one is the least. *)
LEMMA LeastNatural ==
    ASSUME NEW T, T \subseteq Nat, T # {}
    PROVE  \E n \in T : \A m \in T : n <= m
<1>1. PICK n \in T : \A m \in T : ~ (<<m, n>> \in Less)
  BY WFMin, LessIsWellFounded
<1>2. \A m \in T : ~ (m < n)
  BY <1>1 DEF Less
<1> QED
  BY <1>2

-----------------------------------------------------------------------------
(* The function that SumFunctionOnSet is defined by *)

Chosen(s) == CHOOSE x \in s : TRUE

Step(f, g, s) == IF s = {} THEN 0 ELSE f[Chosen(s)] + g[s \ {Chosen(s)}]

PartialSums(f, S) == CHOOSE g : g = [s \in SUBSET S |-> Step(f, g, s)]

(* A sum is the last of the partial sums. *)
LEMMA SumIsLast == \A f, S : SumFunctionOnSet(f, S) = PartialSums(f, S)[S]
BY DEF SumFunctionOnSet, FoldFunctionOnSet, MapThenFoldSet, PartialSums, Step, Chosen

(* There are partial sums of any finite set, because there are for its     *)
(* subsets of any size.                                                    *)
LEMMA PartialSumsExist ==
    ASSUME NEW f, NEW S, IsFiniteSet(S)
    PROVE  \A s \in SUBSET S : PartialSums(f, S)[s] = Step(f, PartialSums(f, S), s)
<1> DEFINE Small(n) == {s \in SUBSET S : Cardinality(s) <= n}
           Sums(n, g) == g = [s \in Small(n) |-> Step(f, g, s)]
           Bad == {n \in Nat : ~ \E g : Sums(n, g)}
<1>1. \A s \in SUBSET S : IsFiniteSet(s) /\ Cardinality(s) \in Nat
  BY FS_Subset, FS_CardinalityType
<1>2. Bad = {}
  <2> SUFFICES ASSUME Bad # {} PROVE FALSE
    OBVIOUS
  <2>1. PICK n \in Bad : \A m \in Bad : n <= m
    BY LeastNatural
  <2>2. n # 0
    <3>1. SUFFICES ASSUME n = 0 PROVE FALSE
      OBVIOUS
    <3>2. \A s \in Small(0) : s = {}
      BY <1>1, FS_EmptySet
    <3>3. Sums(0, [s \in Small(0) |-> 0])
      BY <3>2 DEF Step
    <3> QED
      BY <3>1, <3>3
  <2>3. n - 1 \in Nat /\ n - 1 \notin Bad
    <3>1. n \in Nat
      OBVIOUS
    <3> HIDE DEF Bad
    <3> QED
      BY <2>1, <2>2, <3>1
  <2>4. PICK g : Sums(n - 1, g)
    BY <2>3
  <2> DEFINE h == [s \in Small(n) |-> Step(f, g, s)]
  <2>5. ASSUME NEW s \in Small(n) PROVE h[s] = Step(f, h, s)
    <3>1. CASE s = {}
      BY <3>1 DEF Step
    <3>2. CASE s # {}
      <4> DEFINE t == s \ {Chosen(s)}
      <4>1. Chosen(s) \in s
        BY <3>2 DEF Chosen
      <4>2. Cardinality(t) = Cardinality(s) - 1
        BY <4>1, <1>1, FS_RemoveElement
      <4>3. t \in Small(n - 1) /\ t \in Small(n)
        BY <4>2, <1>1, <2>3
      <4>4. g[t] = h[t]
        <5> HIDE DEF t, Small
        <5>1. g[t] = Step(f, g, t)
          BY <2>4, <4>3
        <5>2. h[t] = Step(f, g, t)
          BY <4>3
        <5> QED BY <5>1, <5>2
      <4>5. h[s] = Step(f, g, s)
        OBVIOUS
      <4> QED
        BY <4>4, <4>5, <3>2 DEF Step
    <3> QED BY <3>1, <3>2
  <2>6. Sums(n, h)
    BY <2>5
  <2> QED
    BY <2>6, <2>1
<1>3. PICK g : Sums(Cardinality(S), g)
  BY <1>2, <1>1
<1>4. Small(Cardinality(S)) = SUBSET S
  BY FS_Subset
<1>5. \E h : h = [s \in SUBSET S |-> Step(f, h, s)]
  BY <1>3, <1>4
<1> DEFINE sums == PartialSums(f, S)
<1>6. sums = [s \in SUBSET S |-> Step(f, sums, s)]
  BY <1>5 DEF PartialSums
<1> HIDE DEF sums
<1>7. \A s \in SUBSET S : sums[s] = Step(f, sums, s)
  BY <1>6
<1> QED
  BY <1>7 DEF sums

(* Partial sums do not depend on the set they are part of the sums of. *)
LEMMA PartialSumsAgree ==
    ASSUME NEW f, NEW S, IsFiniteSet(S), NEW T \in SUBSET S
    PROVE  PartialSums(f, T)[T] = PartialSums(f, S)[T]
<1> DEFINE Differ(s) == PartialSums(f, T)[s] # PartialSums(f, S)[s]
           Bad == {Cardinality(s) : s \in {t \in SUBSET T : Differ(t)}}
<1>1. \A s \in SUBSET T : s \in SUBSET S /\ IsFiniteSet(s) /\ Cardinality(s) \in Nat
  BY FS_Subset, FS_CardinalityType
<1>2. Bad = {}
  <2> SUFFICES ASSUME Bad # {} PROVE FALSE
    OBVIOUS
  <2>1. Bad \subseteq Nat
    BY <1>1
  <2>2. PICK n \in Bad : \A m \in Bad : n <= m
    BY <2>1, LeastNatural
  <2>3. PICK s \in SUBSET T : Differ(s) /\ n = Cardinality(s)
    OBVIOUS
  <2>4. /\ PartialSums(f, T)[s] = Step(f, PartialSums(f, T), s)
        /\ PartialSums(f, S)[s] = Step(f, PartialSums(f, S), s)
    BY <1>1, PartialSumsExist
  <2>5. s # {}
    BY <2>3, <2>4 DEF Step
  <2> DEFINE t == s \ {Chosen(s)}
  <2>6. Chosen(s) \in s
    BY <2>5 DEF Chosen
  <2>7. t \in SUBSET T /\ Cardinality(t) = n - 1
    BY <2>3, <2>6, <1>1, FS_RemoveElement
  <2>8. Differ(t)
    BY <2>3, <2>4, <2>5 DEF Step
  <2>9. n - 1 \in Bad
    BY <2>7, <2>8
  <2>10. n \in Nat
    BY <2>1
  <2> HIDE DEF Bad
  <2> QED
    BY <2>9, <2>2, <2>10
<1> QED
  BY <1>2

-----------------------------------------------------------------------------
(* Sums *)

(* The sum of nothing. *)
LEMMA SumEmpty == \A f : SumFunctionOnSet(f, {}) = 0
<1> TAKE f
<1> QED
  BY SumIsLast, FS_EmptySet, PartialSumsExist DEF Step

(* A sum is that of all numbers but one, and that one. *)
LEMMA SumChosen ==
    ASSUME NEW f, NEW S, IsFiniteSet(S), S # {}
    PROVE  \E x \in S : SumFunctionOnSet(f, S) = f[x] + SumFunctionOnSet(f, S \ {x})
<1> DEFINE x == Chosen(S)
<1>1. x \in S
  BY DEF Chosen
<1>2. PartialSums(f, S)[S] = f[x] + PartialSums(f, S)[S \ {x}]
  BY PartialSumsExist DEF Step
<1>3. PartialSums(f, S)[S \ {x}] = PartialSums(f, S \ {x})[S \ {x}]
  BY PartialSumsAgree
<1>4. SumFunctionOnSet(f, S) = f[x] + SumFunctionOnSet(f, S \ {x})
  BY <1>2, <1>3, SumIsLast
<1> QED
  BY <1>1, <1>4

(* Sums of integers are integers. *)
LEMMA SumType ==
    ASSUME NEW f, NEW S, IsFiniteSet(S), \A x \in S : f[x] \in Int
    PROVE  SumFunctionOnSet(f, S) \in Int
<1> DEFINE Bad == {Cardinality(s) : s \in {t \in SUBSET S : SumFunctionOnSet(f, t) \notin Int}}
<1>1. \A s \in SUBSET S : IsFiniteSet(s) /\ Cardinality(s) \in Nat
  BY FS_Subset, FS_CardinalityType
<1> SUFFICES ASSUME Bad # {} PROVE FALSE
  OBVIOUS
<1>2. Bad \subseteq Nat
  BY <1>1
<1>3. PICK n \in Bad : \A m \in Bad : n <= m
  BY <1>2, LeastNatural
<1>4. PICK s \in SUBSET S : SumFunctionOnSet(f, s) \notin Int /\ n = Cardinality(s)
  OBVIOUS
<1>5. s # {}
  BY <1>4, SumEmpty
<1>6. PICK x \in s : SumFunctionOnSet(f, s) = f[x] + SumFunctionOnSet(f, s \ {x})
  BY <1>1, <1>5, SumChosen
<1>7. Cardinality(s \ {x}) = n - 1
  BY <1>1, <1>4, FS_RemoveElement
<1>8. SumFunctionOnSet(f, s \ {x}) \notin Int
  BY <1>4, <1>6
<1>9. n - 1 \in Bad
  BY <1>7, <1>8
<1>10. n \in Nat
  BY <1>2
<1> HIDE DEF Bad
<1> QED
  BY <1>9, <1>3, <1>10

(* Any number may be the one left out. *)
LEMMA SumRemove ==
    ASSUME NEW f, NEW S, IsFiniteSet(S), \A x \in S : f[x] \in Int, NEW x \in S
    PROVE  SumFunctionOnSet(f, S) = f[x] + SumFunctionOnSet(f, S \ {x})
<1> DEFINE Fails(s) == \E y \in s :
               SumFunctionOnSet(f, s) # f[y] + SumFunctionOnSet(f, s \ {y})
           Bad == {Cardinality(s) : s \in {t \in SUBSET S : Fails(t)}}
<1>1. \A s \in SUBSET S : IsFiniteSet(s) /\ Cardinality(s) \in Nat
  BY FS_Subset, FS_CardinalityType
<1> SUFFICES ASSUME Bad # {} PROVE FALSE
  OBVIOUS
<1>2. Bad \subseteq Nat
  BY <1>1
<1>3. PICK n \in Bad : \A m \in Bad : n <= m
  BY <1>2, LeastNatural
<1>4. PICK s \in SUBSET S : Fails(s) /\ n = Cardinality(s)
  OBVIOUS
<1>5. PICK y \in s : SumFunctionOnSet(f, s) # f[y] + SumFunctionOnSet(f, s \ {y})
  BY <1>4
<1>6. PICK z \in s : SumFunctionOnSet(f, s) = f[z] + SumFunctionOnSet(f, s \ {z})
  BY <1>1, <1>5, SumChosen
<1>7. y # z
  BY <1>5, <1>6
<1>8. \A u \in s : Cardinality(s \ {u}) = n - 1
  BY <1>1, <1>4, FS_RemoveElement
<1>9. n - 1 \notin Bad
  <2>1. n \in Nat
    BY <1>2
  <2> HIDE DEF Bad
  <2> QED
    BY <1>3, <2>1
<1>10. \A u \in s : ~ Fails(s \ {u})
  BY <1>8, <1>9
<1>11. SumFunctionOnSet(f, s \ {z}) = f[y] + SumFunctionOnSet(f, (s \ {z}) \ {y})
  BY <1>7, <1>10
<1>12. SumFunctionOnSet(f, s \ {y}) = f[z] + SumFunctionOnSet(f, (s \ {y}) \ {z})
  BY <1>7, <1>10
<1>13. (s \ {z}) \ {y} = (s \ {y}) \ {z}
  OBVIOUS
<1>14. SumFunctionOnSet(f, (s \ {z}) \ {y}) \in Int
  BY <1>1, SumType
<1>15. f[y] \in Int /\ f[z] \in Int
  OBVIOUS
<1> DEFINE rest == SumFunctionOnSet(f, (s \ {z}) \ {y})
<1>16. SumFunctionOnSet(f, s) = f[z] + (f[y] + rest)
  BY <1>6, <1>11
<1>17. f[y] + SumFunctionOnSet(f, s \ {y}) = f[y] + (f[z] + rest)
  BY <1>12, <1>13
<1>18. f[z] + (f[y] + rest) = f[y] + (f[z] + rest)
  <2> HIDE DEF rest
  <2> QED
    BY <1>14, <1>15 DEF rest
<1> QED
  BY <1>5, <1>16, <1>17, <1>18

(* The sum with one number more. *)
LEMMA SumAdd ==
    ASSUME NEW f, NEW S, IsFiniteSet(S), NEW x, x \notin S, \A y \in S \cup {x} : f[y] \in Int
    PROVE  SumFunctionOnSet(f, S \cup {x}) = SumFunctionOnSet(f, S) + f[x]
<1>1. IsFiniteSet(S \cup {x})
  BY FS_AddElement
<1>2. (S \cup {x}) \ {x} = S
  OBVIOUS
<1>3. SumFunctionOnSet(f, S \cup {x}) = f[x] + SumFunctionOnSet(f, S)
  BY <1>1, <1>2, SumRemove
<1>4. SumFunctionOnSet(f, S) \in Int /\ f[x] \in Int
  BY SumType
<1> QED
  BY <1>3, <1>4

(* Of smaller numbers the sum is smaller. *)
LEMMA SumMonotone ==
    ASSUME NEW f, NEW g, NEW S, IsFiniteSet(S),
           \A x \in S : f[x] \in Int /\ g[x] \in Int /\ f[x] <= g[x]
    PROVE  SumFunctionOnSet(f, S) <= SumFunctionOnSet(g, S)
<1> DEFINE Fails(s) == ~ (SumFunctionOnSet(f, s) <= SumFunctionOnSet(g, s))
           Bad == {Cardinality(s) : s \in {t \in SUBSET S : Fails(t)}}
<1>1. \A s \in SUBSET S : IsFiniteSet(s) /\ Cardinality(s) \in Nat
  BY FS_Subset, FS_CardinalityType
<1> SUFFICES ASSUME Bad # {} PROVE FALSE
  OBVIOUS
<1>2. Bad \subseteq Nat
  BY <1>1
<1>3. PICK n \in Bad : \A m \in Bad : n <= m
  BY <1>2, LeastNatural
<1>4. PICK s \in SUBSET S : Fails(s) /\ n = Cardinality(s)
  OBVIOUS
<1>5. s # {}
  BY <1>4, SumEmpty
<1>6. PICK x \in s : SumFunctionOnSet(f, s) = f[x] + SumFunctionOnSet(f, s \ {x})
  BY <1>1, <1>5, SumChosen
<1>7. SumFunctionOnSet(g, s) = g[x] + SumFunctionOnSet(g, s \ {x})
  BY <1>1, SumRemove
<1>8. Cardinality(s \ {x}) = n - 1
  BY <1>1, <1>4, FS_RemoveElement
<1>9. /\ SumFunctionOnSet(f, s \ {x}) \in Int /\ SumFunctionOnSet(g, s \ {x}) \in Int
      /\ f[x] \in Int /\ g[x] \in Int /\ f[x] <= g[x]
  BY <1>1, SumType
<1>10. Fails(s \ {x})
  BY <1>4, <1>6, <1>7, <1>9
<1>11. n - 1 \in Bad
  BY <1>8, <1>10
<1>12. n \in Nat
  BY <1>2
<1> HIDE DEF Bad
<1> QED
  BY <1>11, <1>3, <1>12

(* The same numbers have the same sum. *)
LEMMA SumSame ==
    ASSUME NEW f, NEW g, NEW S, IsFiniteSet(S),
           \A x \in S : f[x] \in Int /\ f[x] = g[x]
    PROVE  SumFunctionOnSet(f, S) = SumFunctionOnSet(g, S)
<1>1. SumFunctionOnSet(f, S) <= SumFunctionOnSet(g, S)
  BY SumMonotone
<1>2. SumFunctionOnSet(g, S) <= SumFunctionOnSet(f, S)
  BY SumMonotone
<1>3. SumFunctionOnSet(f, S) \in Int /\ SumFunctionOnSet(g, S) \in Int
  BY SumType
<1> QED
  BY <1>1, <1>2, <1>3

(* Sums of natural numbers are natural numbers. *)
LEMMA SumNat ==
    ASSUME NEW f, NEW S, IsFiniteSet(S), \A x \in S : f[x] \in Nat
    PROVE  SumFunctionOnSet(f, S) \in Nat
<1> DEFINE Bad == {Cardinality(s) : s \in {t \in SUBSET S : SumFunctionOnSet(f, t) \notin Nat}}
<1>1. \A s \in SUBSET S : IsFiniteSet(s) /\ Cardinality(s) \in Nat
  BY FS_Subset, FS_CardinalityType
<1> SUFFICES ASSUME Bad # {} PROVE FALSE
  OBVIOUS
<1>2. Bad \subseteq Nat
  BY <1>1
<1>3. PICK n \in Bad : \A m \in Bad : n <= m
  BY <1>2, LeastNatural
<1>4. PICK s \in SUBSET S : SumFunctionOnSet(f, s) \notin Nat /\ n = Cardinality(s)
  OBVIOUS
<1>5. s # {}
  BY <1>4, SumEmpty
<1>6. PICK x \in s : SumFunctionOnSet(f, s) = f[x] + SumFunctionOnSet(f, s \ {x})
  BY <1>1, <1>5, SumChosen
<1>7. Cardinality(s \ {x}) = n - 1
  BY <1>1, <1>4, FS_RemoveElement
<1>8. SumFunctionOnSet(f, s \ {x}) \notin Nat
  BY <1>4, <1>6
<1>9. n - 1 \in Bad
  BY <1>7, <1>8
<1>10. n \in Nat
  BY <1>2
<1> HIDE DEF Bad
<1> QED
  BY <1>9, <1>3, <1>10

(* A part of some natural numbers has no greater a sum. *)
LEMMA SumOfSubset ==
    ASSUME NEW f, NEW S, IsFiniteSet(S), \A x \in S : f[x] \in Nat, NEW T \in SUBSET S
    PROVE  SumFunctionOnSet(f, T) <= SumFunctionOnSet(f, S)
<1> DEFINE Fails(s) == T \subseteq s /\ ~ (SumFunctionOnSet(f, T) <= SumFunctionOnSet(f, s))
           Bad == {Cardinality(s) : s \in {t \in SUBSET S : Fails(t)}}
<1>1. \A s \in SUBSET S : /\ IsFiniteSet(s) /\ Cardinality(s) \in Nat
                          /\ SumFunctionOnSet(f, s) \in Nat
  BY FS_Subset, FS_CardinalityType, SumNat
<1> SUFFICES ASSUME Bad # {} PROVE FALSE
  OBVIOUS
<1>2. Bad \subseteq Nat
  BY <1>1
<1>3. PICK n \in Bad : \A m \in Bad : n <= m
  BY <1>2, LeastNatural
<1>4. PICK s \in SUBSET S : Fails(s) /\ n = Cardinality(s)
  OBVIOUS
<1>5. PICK x \in s : x \notin T
  BY <1>1, <1>4
<1>6. SumFunctionOnSet(f, s) = f[x] + SumFunctionOnSet(f, s \ {x})
  <2>1. IsFiniteSet(s) /\ \A y \in s : f[y] \in Int
    BY <1>1
  <2> QED
    BY <2>1, SumRemove
<1>7. Cardinality(s \ {x}) = n - 1
  BY <1>1, <1>4, FS_RemoveElement
<1>8. Fails(s \ {x})
  <2>1. SumFunctionOnSet(f, s \ {x}) \in Nat /\ SumFunctionOnSet(f, T) \in Nat /\ f[x] \in Nat
    BY <1>1
  <2> QED
    BY <2>1, <1>4, <1>5, <1>6
<1>9. n - 1 \in Bad
  BY <1>7, <1>8
<1>10. n \in Nat
  BY <1>2
<1> HIDE DEF Bad
<1> QED
  BY <1>9, <1>3, <1>10

(* The sum of numbers that are at most k is at most k for each. *)
LEMMA SumBounded ==
    ASSUME NEW f, NEW S, IsFiniteSet(S), NEW k \in Nat, \A x \in S : f[x] \in Nat /\ f[x] <= k
    PROVE  SumFunctionOnSet(f, S) <= k * Cardinality(S)
<1> DEFINE Fails(s) == ~ (SumFunctionOnSet(f, s) <= k * Cardinality(s))
           Bad == {Cardinality(s) : s \in {t \in SUBSET S : Fails(t)}}
<1>1. \A s \in SUBSET S : /\ IsFiniteSet(s) /\ Cardinality(s) \in Nat
                          /\ SumFunctionOnSet(f, s) \in Nat
  BY FS_Subset, FS_CardinalityType, SumNat
<1> SUFFICES ASSUME Bad # {} PROVE FALSE
  OBVIOUS
<1>2. Bad \subseteq Nat
  BY <1>1
<1>3. PICK n \in Bad : \A m \in Bad : n <= m
  BY <1>2, LeastNatural
<1>4. PICK s \in SUBSET S : Fails(s) /\ n = Cardinality(s)
  OBVIOUS
<1>5. s # {}
  BY <1>4, SumEmpty, FS_EmptySet
<1>6. PICK x \in s : SumFunctionOnSet(f, s) = f[x] + SumFunctionOnSet(f, s \ {x})
  BY <1>1, <1>5, SumChosen
<1>7. Cardinality(s \ {x}) = n - 1 /\ n \in Nat
  BY <1>1, <1>2, <1>4, FS_RemoveElement
<1>8. Fails(s \ {x})
  <2> DEFINE rest == SumFunctionOnSet(f, s \ {x})
  <2>1. rest \in Nat /\ f[x] \in Nat /\ f[x] <= k
    BY <1>1
  <2>2. ~ (f[x] + rest <= k * n)
    BY <1>4, <1>6
  <2>3. k * n = k * (n - 1) + k
    BY <1>7
  <2>4. k * (n - 1) \in Int
    BY <1>7
  <2> HIDE DEF rest
  <2>5. ~ (rest <= k * (n - 1))
    BY <2>1, <2>2, <2>3, <2>4
  <2> QED
    BY <2>5, <1>7 DEF rest
<1>9. n - 1 \in Bad
  BY <1>7, <1>8
<1> HIDE DEF Bad
<1> QED
  BY <1>9, <1>3, <1>7

=============================================================================
