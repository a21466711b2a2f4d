--------------------------- MODULE TotalsTheorems ---------------------------
(* The laws of sums over finite sets that the other proofs need, from the  *)
(* laws of cardinality.                                                    *)
EXTENDS Totals, FiniteSetTheorems, WellFoundedInduction, TLAPS

(* A unit is a pair of an element and a number. *)
LEMMA UnitsAre ==
  ASSUME NEW S, NEW w
  PROVE  \A p : p \in Units(S, w) <=> \E x \in S : \E j \in 1..w[x] : p = <<x, j>>
  BY DEF Units

(* The units of one element are as many as its weight. *)
LEMMA OneWeight ==
  ASSUME NEW x, NEW n \in Nat
  PROVE  IsFiniteSet({x} \X (1..n)) /\ Cardinality({x} \X (1..n)) = n
<1>1. IsFiniteSet({x}) /\ Cardinality({x}) = 1
  BY FS_Singleton
<1>2. IsFiniteSet(1..n) /\ Cardinality(1..n) = n
  BY FS_Interval
<1>3. Cardinality({x} \X (1..n)) = 1 * n
  BY <1>1, <1>2, FS_Product
<1> QED
  BY <1>1, <1>2, <1>3, FS_Product

(* A finite set has finitely many units. *)
LEMMA UnitsFinite ==
  ASSUME NEW S, IsFiniteSet(S), NEW w, \A x \in S : w[x] \in Nat
  PROVE  IsFiniteSet(Units(S, w)) /\ Total(S, w) \in Nat
<1> DEFINE Of == [x \in S |-> {x} \X (1..w[x])]
           T == {{x} \X (1..w[x]) : x \in S}
<1>1. Of \in Surjection(S, T)
  BY DEF Surjection
<1>2. IsFiniteSet(T)
  BY <1>1, FS_Surjection
<1>3. ASSUME NEW t \in T PROVE IsFiniteSet(t)
  <2>1. PICK x \in S : t = {x} \X (1..w[x])
    OBVIOUS
  <2> QED
    BY <2>1, OneWeight
<1> HIDE DEF T
<1>4. IsFiniteSet(UNION T)
  BY <1>2, <1>3, FS_UNION
<1> QED
  BY <1>4, FS_CardinalityType DEF Units, Total, T

(* An element that is added adds its weight. *)
LEMMA TotalAdd ==
  ASSUME NEW S, IsFiniteSet(S), NEW w, NEW x, x \notin S,
         \A y \in S : w[y] \in Nat, w[x] \in Nat
  PROVE  Total(S \cup {x}, w) = Total(S, w) + w[x]
<1> DEFINE X == {x} \X (1..w[x])
<1>1. Units(S \cup {x}, w) = Units(S, w) \cup X
  BY DEF Units
<1>2. Units(S, w) \cap X = {}
  BY UnitsAre
<1>3. IsFiniteSet(X) /\ Cardinality(X) = w[x]
  BY OneWeight
<1>4. IsFiniteSet(Units(S, w)) /\ Total(S, w) \in Nat
  BY UnitsFinite
<1> HIDE DEF X
<1>5. Cardinality(Units(S, w) \cup X) =
        Cardinality(Units(S, w)) + Cardinality(X) - Cardinality(Units(S, w) \cap X)
  BY <1>3, <1>4, FS_Union
<1>6. Cardinality(Units(S, w) \cap X) = 0
  BY <1>2, FS_EmptySet
<1>7. Total(S \cup {x}, w) = Total(S, w) + w[x] - 0
  BY <1>1, <1>3, <1>5, <1>6 DEF Total
<1> QED
  BY <1>4, <1>7

(* An element that is removed takes its weight away. *)
LEMMA TotalRemove ==
  ASSUME NEW S, IsFiniteSet(S), NEW w, NEW x \in S, \A y \in S : w[y] \in Nat
  PROVE  Total(S, w) = Total(S \ {x}, w) + w[x]
<1>1. IsFiniteSet(S \ {x}) /\ (S \ {x}) \cup {x} = S
  BY FS_RemoveElement
<1> QED
  BY <1>1, TotalAdd

(* Only the weights of the elements count. *)
LEMMA TotalSame ==
  ASSUME NEW S, NEW w, NEW v, \A x \in S : w[x] = v[x]
  PROVE  Total(S, w) = Total(S, v)
<1>1. \A p : p \in Units(S, w) <=> p \in Units(S, v)
  BY UnitsAre
<1>2. Units(S, w) = Units(S, v)
  BY <1>1
<1> QED
  BY <1>2 DEF Total

(* A part weighs no more than the whole. *)
LEMMA TotalPart ==
  ASSUME NEW S, IsFiniteSet(S), NEW w, \A x \in S : w[x] \in Nat, NEW T \in SUBSET S
  PROVE  Total(T, w) <= Total(S, w)
<1>1. Units(T, w) \subseteq Units(S, w)
  BY DEF Units
<1> QED
  BY <1>1, UnitsFinite, FS_Subset DEF Total

(* Two sets together weigh no more than one and the other. *)
LEMMA TotalUnion ==
  ASSUME NEW S, IsFiniteSet(S), NEW T, IsFiniteSet(T), NEW w,
         \A x \in S \cup T : w[x] \in Nat
  PROVE  Total(S \cup T, w) <= Total(S, w) + Total(T, w)
<1>1. Units(S \cup T, w) = Units(S, w) \cup Units(T, w)
  BY DEF Units
<1>2. /\ IsFiniteSet(Units(S, w)) /\ Total(S, w) \in Nat
      /\ IsFiniteSet(Units(T, w)) /\ Total(T, w) \in Nat
  BY UnitsFinite
<1>3. Cardinality(Units(S, w) \cup Units(T, w)) =
        Total(S, w) + Total(T, w) - Cardinality(Units(S, w) \cap Units(T, w))
  BY <1>2, FS_Union DEF Total
<1>4. Cardinality(Units(S, w) \cap Units(T, w)) \in Nat
  BY <1>2, FS_Intersection, FS_CardinalityType
<1>5. Cardinality(Units(S, w) \cup Units(T, w)) <= Total(S, w) + Total(T, w)
  BY <1>2, <1>3, <1>4
<1> QED
  BY <1>1, <1>5 DEF Total

(* Elements of a bounded weight weigh at most their number times the bound.*)
LEMMA TotalBound ==
  ASSUME NEW S, IsFiniteSet(S), NEW w, NEW n \in Nat, \A x \in S : w[x] \in 0..n
  PROVE  Total(S, w) <= Cardinality(S) * n
<1>1. Units(S, w) \subseteq S \X (1..n)
  <2>1. \A x \in S : 1..w[x] \subseteq 1..n
    OBVIOUS
  <2> QED
    BY <2>1, UnitsAre
<1>2. IsFiniteSet(1..n) /\ Cardinality(1..n) = n
  BY FS_Interval
<1>3. IsFiniteSet(S \X (1..n)) /\ Cardinality(S \X (1..n)) = Cardinality(S) * n
  BY <1>2, FS_Product
<1> QED
  BY <1>1, <1>3, FS_Subset DEF Total

(* A set of natural numbers has a least element.  This stands in for        *)
(* induction: a least counterexample is one whose predecessor is none.      *)
LEMMA Least ==
  ASSUME NEW S, S \subseteq Nat, S # {}
  PROVE  \E x \in S : \A y \in S : x <= y
<1> DEFINE R == OpToRel(<, Nat)
<1>1. IsWellFoundedOn(R, Nat)
  BY NatLessThanWellFounded
<1>2. \A a, b \in Nat : a < b => <<a, b>> \in R
  BY DEF OpToRel
<1> HIDE DEF R
<1>3. PICK x \in S : \A y \in S : ~(<<y, x>> \in R)
  BY <1>1, WFMin
<1>4. ASSUME NEW y \in S PROVE x <= y
  <2>1. x \in Nat /\ y \in Nat
    OBVIOUS
  <2>2. ~(y < x)
    BY <1>2, <1>3, <2>1, Zenon
  <2> QED
    BY <2>1, <2>2
<1> QED
  BY <1>4

(* A bounded set of natural numbers has a greatest element.                *)
LEMMA Greatest ==
  ASSUME NEW n \in Nat, NEW S \in SUBSET (0..n), S # {}
  PROVE  \E x \in S : \A y \in S : y <= x
<1> DEFINE D == {n - x : x \in S}
<1>1. D \subseteq Nat /\ D # {}
  <2>1. \A x \in S : n - x \in Nat
    OBVIOUS
  <2> QED
    BY <2>1, Zenon
<1>2. PICK d \in D : \A e \in D : d <= e
  BY <1>1, Least, Zenon
<1>3. PICK x \in S : d = n - x
  OBVIOUS
<1>4. ASSUME NEW y \in S PROVE y <= x
  <2>1. n - x <= n - y
    BY <1>2, <1>3
  <2>2. x \in Int /\ y \in Int
    OBVIOUS
  <2> QED
    BY <2>1, <2>2
<1> QED
  BY <1>4
=============================================================================
