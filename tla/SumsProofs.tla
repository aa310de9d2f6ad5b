----------------------------- MODULE SumsProofs -----------------------------
(***************************************************************************)
(* What adding to, and taking from, a set does to the sum over it.         *)
(***************************************************************************)
EXTENDS Sums, FiniteSetTheorems, TLAPS

LEMMA UnitsOfOne ==
  ASSUME NEW f, NEW x, f[x] \in Nat
  PROVE  /\ IsFiniteSet({x} \X (1..f[x]))
         /\ Cardinality({x} \X (1..f[x])) = f[x]
<1>1. IsFiniteSet({x}) /\ Cardinality({x}) = 1
  BY FS_Singleton
<1>2. IsFiniteSet(1..f[x]) /\ Cardinality(1..f[x]) = f[x]
  BY FS_Interval
<1>3. /\ IsFiniteSet({x} \X (1..f[x]))
      /\ Cardinality({x} \X (1..f[x])) = Cardinality({x}) * Cardinality(1..f[x])
  BY <1>1, <1>2, FS_Product
<1> QED
  BY <1>1, <1>2, <1>3

LEMMA SumType ==
  ASSUME NEW f, NEW S, IsFiniteSet(S), \A x \in S : f[x] \in Nat
  PROVE  IsFiniteSet(Units(f, S)) /\ SumOver(f, S) \in Nat
<1> DEFINE U == {{x} \X (1..f[x]) : x \in S}
<1>1. IsFiniteSet(U)
  <2>1. [x \in S |-> {x} \X (1..f[x])] \in Surjection(S, U)
    BY DEF Surjection
  <2> QED
    BY <2>1, FS_Surjection
<1>2. \A T \in U : IsFiniteSet(T)
  BY UnitsOfOne
<1>3. IsFiniteSet(UNION U)
  BY <1>1, <1>2, FS_UNION
<1> QED
  BY <1>3, FS_CardinalityType DEF Units, SumOver

LEMMA SumEmpty == ASSUME NEW f PROVE SumOver(f, {}) = 0
<1>1. Units(f, {}) = {}
  BY DEF Units
<1> QED
  BY <1>1, FS_EmptySet DEF SumOver

LEMMA SumAdd ==
  ASSUME NEW f, NEW S, IsFiniteSet(S), \A x \in S : f[x] \in Nat,
         NEW y, y \notin S, f[y] \in Nat
  PROVE  SumOver(f, S \cup {y}) = SumOver(f, S) + f[y]
<1> DEFINE T == {y} \X (1..f[y])
<1>1. Units(f, S \cup {y}) = Units(f, S) \cup T
  BY DEF Units
<1>2. Units(f, S) \cap T = {}
  BY DEF Units
<1>3. IsFiniteSet(Units(f, S)) /\ Cardinality(Units(f, S)) \in Nat
  BY SumType DEF SumOver
<1>4. IsFiniteSet(T) /\ Cardinality(T) = f[y]
  BY UnitsOfOne
<1> HIDE DEF T
<1>5. Cardinality(Units(f, S) \cup T)
        = Cardinality(Units(f, S)) + Cardinality(T)
            - Cardinality(Units(f, S) \cap T)
  BY <1>3, <1>4, FS_Union
<1>6. Cardinality(Units(f, S) \cap T) = 0
  BY <1>2, FS_EmptySet
<1>7. Cardinality(Units(f, S) \cup T) = Cardinality(Units(f, S)) + f[y]
  BY <1>3, <1>4, <1>5, <1>6
<1> QED
  BY <1>1, <1>7 DEF SumOver

LEMMA SumRemove ==
  ASSUME NEW f, NEW S, IsFiniteSet(S), \A x \in S : f[x] \in Nat,
         NEW y \in S
  PROVE  /\ SumOver(f, S \ {y}) = SumOver(f, S) - f[y]
         /\ f[y] <= SumOver(f, S)
<1>1. IsFiniteSet(S \ {y})
  BY FS_RemoveElement
<1>2. SumOver(f, (S \ {y}) \cup {y}) = SumOver(f, S \ {y}) + f[y]
  BY <1>1, SumAdd
<1>3. (S \ {y}) \cup {y} = S
  OBVIOUS
<1>4. SumOver(f, S \ {y}) \in Nat /\ f[y] \in Nat
  BY <1>1, SumType
<1>5. SumOver(f, S) = SumOver(f, S \ {y}) + f[y]
  BY <1>2, <1>3
<1> QED
  BY <1>4, <1>5

(* Only the values on the set matter.                                      *)
LEMMA SumSame ==
  ASSUME NEW f, NEW g, NEW S, \A x \in S : f[x] = g[x]
  PROVE  SumOver(f, S) = SumOver(g, S)
<1>1. Units(f, S) = Units(g, S)
  BY DEF Units
<1> QED
  BY <1>1 DEF SumOver
=============================================================================
