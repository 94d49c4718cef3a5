----------------------------- MODULE SumsProofs -----------------------------
(***************************************************************************)
(* How a sum changes with its set and its numbers.                         *)
(***************************************************************************)
EXTENDS Sums, FiniteSetTheorems, TLAPS

\* One element has as many units as its number.
LEMMA UnitsOfOne ==
  ASSUME NEW x, NEW n \in Nat
  PROVE  /\ IsFiniteSet({x} \X (1..n))
         /\ Cardinality({x} \X (1..n)) = n
<1>1. IsFiniteSet(1..n) /\ Cardinality(1..n) = n
  BY FS_Interval
<1>2. IsFiniteSet({x}) /\ Cardinality({x}) = 1
  BY FS_Singleton
<1>3. /\ IsFiniteSet({x} \X (1..n))
      /\ Cardinality({x} \X (1..n)) = Cardinality({x}) * Cardinality(1..n)
  BY <1>1, <1>2, FS_Product
<1>4. Cardinality({x}) * Cardinality(1..n) = n
  BY <1>1, <1>2
<1>5. QED
  BY <1>3, <1>4

LEMMA UnitsOfMore ==
  ASSUME NEW S, NEW x, NEW w
  PROVE  Units(S \cup {x}, w) = Units(S, w) \cup ({x} \X (1..w[x]))
BY DEF Units

LEMMA UnitsApart ==
  ASSUME NEW S, NEW x, x \notin S, NEW w
  PROVE  Units(S, w) \cap ({x} \X (1..w[x])) = {}
BY DEF Units

LEMMA UnitsFinite ==
  ASSUME NEW S, IsFiniteSet(S), NEW w, \A x \in S : w[x] \in Nat
  PROVE  IsFiniteSet(Units(S, w))
<1> DEFINE all == {{x} \X (1..w[x]) : x \in S}
<1>1. ASSUME NEW T \in all PROVE IsFiniteSet(T)
  <2>1. PICK x \in S : T = {x} \X (1..w[x])
    BY <1>1
  <2>2. QED
    BY <2>1, UnitsOfOne
<1>2. IsFiniteSet(all)
  <2> DEFINE f == [x \in S |-> {x} \X (1..w[x])]
  <2>1. f \in Surjection(S, all)
    BY DEF Surjection
  <2>2. QED
    BY <2>1, FS_Surjection DEF ExistsSurjection
<1>3. QED
  BY <1>1, <1>2, FS_UNION DEF Units

\* A sum of natural numbers over a finite set is one.
LEMMA SumType ==
  ASSUME NEW S, IsFiniteSet(S), NEW w, \A x \in S : w[x] \in Nat
  PROVE  SumOf(S, w) \in Nat
BY UnitsFinite, FS_CardinalityType DEF SumOf

LEMMA SumOfNone ==
  ASSUME NEW w
  PROVE  SumOf({}, w) = 0
<1>1. Units({}, w) = {}
  BY DEF Units
<1>2. QED
  BY <1>1, FS_EmptySet DEF SumOf

\* A new element adds its number.
LEMMA SumOfMore ==
  ASSUME NEW S, IsFiniteSet(S), NEW x, x \notin S, NEW w,
         \A y \in S \cup {x} : w[y] \in Nat
  PROVE  SumOf(S \cup {x}, w) = SumOf(S, w) + w[x]
<1> DEFINE U == Units(S, w)
           V == {x} \X (1..w[x])
<1>1. IsFiniteSet(U) /\ IsFiniteSet(V) /\ Cardinality(V) = w[x]
  BY UnitsFinite, UnitsOfOne
<1>2. U \cap V = {} /\ Units(S \cup {x}, w) = U \cup V
  BY UnitsApart, UnitsOfMore
<1> HIDE DEF U, V
<1>3. Cardinality(U \cup V) = Cardinality(U) + Cardinality(V) - Cardinality(U \cap V)
  BY <1>1, FS_Union
<1>4. Cardinality(U \cap V) = 0 /\ Cardinality(U) \in Nat /\ w[x] \in Nat
  BY <1>1, <1>2, FS_EmptySet, FS_CardinalityType
<1>5. Cardinality(U \cup V) = Cardinality(U) + w[x]
  BY <1>1, <1>3, <1>4
<1>6. QED
  BY <1>2, <1>5 DEF SumOf, U

\* The sum depends on nothing but the numbers.
LEMMA SumSame ==
  ASSUME NEW S, NEW v, NEW w, \A x \in S : v[x] = w[x]
  PROVE  SumOf(S, v) = SumOf(S, w)
<1>1. Units(S, v) = Units(S, w)
  BY DEF Units
<1>2. QED
  BY <1>1 DEF SumOf

\* One number of the sum changes.
LEMMA SumChanges ==
  ASSUME NEW S, IsFiniteSet(S), NEW x \in S, NEW v, NEW w,
         \A y \in S : v[y] \in Nat /\ w[y] \in Nat,
         \A y \in S \ {x} : v[y] = w[y]
  PROVE  SumOf(S, w) = SumOf(S, v) - v[x] + w[x]
<1> DEFINE T == S \ {x}
<1>1. IsFiniteSet(T) /\ S = T \cup {x} /\ x \notin T
  BY FS_Subset
<1> HIDE DEF T
<1>2. SumOf(S, v) = SumOf(T, v) + v[x] /\ SumOf(S, w) = SumOf(T, w) + w[x]
  BY <1>1, SumOfMore
<1>3. SumOf(T, v) = SumOf(T, w)
  BY SumSame DEF T
<1>4. SumOf(T, v) \in Nat /\ SumOf(T, w) \in Nat /\ v[x] \in Nat /\ w[x] \in Nat
  BY <1>1, SumType
<1>5. QED
  BY <1>2, <1>3, <1>4

\* A sum of zeros is zero.
LEMMA SumOfZeros ==
  ASSUME NEW S, NEW w, \A x \in S : w[x] = 0
  PROVE  SumOf(S, w) = 0
<1>1. Units(S, w) = {}
  BY DEF Units
<1>2. QED
  BY <1>1, FS_EmptySet DEF SumOf
=============================================================================
