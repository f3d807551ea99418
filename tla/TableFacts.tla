----------------------------- MODULE TableFacts -----------------------------
(***************************************************************************)
(* Facts about searches of tables, ranges of positions and counts, which   *)
(* the proofs of the components share.                                     *)
(***************************************************************************)
EXTENDS Integers, FiniteSets, FiniteSetsExt, FiniteSetTheorems, FunctionTheorems, WellFoundedInduction, TLAPS

-----------------------------------------------------------------------------
(* Least and greatest elements.                                            *)

LEMMA LessThanNat == OpToRel(<, Nat) = {ss \in Nat \X Nat : ss[1] < ss[2]}
  BY Zenon DEF OpToRel

\* A non-empty set of numbers has a least one: what there is of induction.
LEMMA Least ==
  ASSUME NEW S, S \subseteq Nat, S # {}
  PROVE  \E m \in S : \A y \in S : m =< y
<1> DEFINE R == {ss \in Nat \X Nat : ss[1] < ss[2]}
<1>1. IsWellFoundedOn(R, Nat)
  BY NatLessThanWellFounded, LessThanNat, Zenon
<1>2. PICK m \in S : \A y \in S : ~ (<<y, m>> \in R)
  BY <1>1, WFMin, Zenon
<1>3. \A y \in S : ~ (y < m)
  BY <1>2
<1> QED
  BY <1>3

\* A search that finds something finds a member of what it looks for.
LEMMA MinIn ==
  ASSUME NEW S, S \subseteq Nat, S # {}
  PROVE  Min(S) \in S /\ \A y \in S : Min(S) =< y
  BY Least DEF Min

LEMMA MaxIn ==
  ASSUME NEW n \in Nat, NEW S, S \subseteq 0..n-1, S # {}
  PROVE  Max(S) \in S /\ \A y \in S : y =< Max(S)
<1> DEFINE T == {n - x : x \in S}
<1>1. T \subseteq Nat /\ T # {}
  OBVIOUS
<1>2. PICK m \in T : \A y \in T : m =< y
  BY <1>1, Least
<1>3. PICK x \in S : m = n - x
  BY <1>2
<1>4. \A y \in S : y =< x
  <2> SUFFICES ASSUME NEW y \in S PROVE y =< x
    OBVIOUS
  <2>1. n - y \in T
    OBVIOUS
  <2>2. m =< n - y
    BY <1>2, <2>1
  <2> QED
    BY <1>3, <2>2
<1>5. \E z \in S : \A y \in S : z >= y
  BY <1>4
<1> QED
  BY <1>5 DEF Max

LEMMA LeastOfTwo ==
  ASSUME NEW a \in Nat, NEW b \in Nat
  PROVE  Min({a, b}) \in Nat /\ Min({a, b}) =< b /\ Min({a, b}) =< a
<1>1. CASE a =< b
  BY <1>1 DEF Min
<1>2. CASE b < a
  BY <1>2 DEF Min
<1> QED
  BY <1>1, <1>2
-----------------------------------------------------------------------------
(* Positions around a ring of N places.                                    *)

LEMMA Around ==
  ASSUME NEW N \in Nat, N >= 1, NEW i \in 0..N-1
  PROVE  /\ (i + 1) % N = (IF i = N - 1 THEN 0 ELSE i + 1)
         /\ (i + N - 1) % N = (IF i = 0 THEN N - 1 ELSE i - 1)
  OBVIOUS
-----------------------------------------------------------------------------
(* Counting.                                                               *)

\* The members of a set with some property, and those without.
LEMMA SplitCount ==
  ASSUME NEW S, NEW T, IsFiniteSet(S)
  PROVE  /\ IsFiniteSet(S \cap T) /\ IsFiniteSet(S \ T)
         /\ Cardinality(S) \in Nat /\ Cardinality(S \cap T) \in Nat
         /\ Cardinality(S \ T) \in Nat
         /\ Cardinality(S) = Cardinality(S \cap T) + Cardinality(S \ T)
<1> DEFINE A == S \cap T
           B == S \ T
<1>1. IsFiniteSet(A) /\ IsFiniteSet(B) /\ S = A \cup B /\ A \cap B = {}
  BY FS_Subset
<1>2. Cardinality(A) \in Nat /\ Cardinality(B) \in Nat /\ Cardinality(S) \in Nat
  BY <1>1, FS_CardinalityType
<1>3. Cardinality(A \cup B) = Cardinality(A) + Cardinality(B) - Cardinality(A \cap B)
  BY <1>1, FS_Union
<1>4. Cardinality(S) = Cardinality(A) + Cardinality(B) - Cardinality({})
  BY <1>1, <1>3, Zenon
<1> QED
  BY <1>1, <1>2, <1>4, FS_EmptySet

\* A cell p of a table of sets counts as many pairs as it has members.
LEMMA PairCount ==
  ASSUME NEW p, NEW C, IsFiniteSet(C)
  PROVE  IsFiniteSet({p} \X C) /\ Cardinality({p} \X C) = Cardinality(C)
<1>1. IsFiniteSet({p}) /\ Cardinality({p}) = 1 /\ Cardinality(C) \in Nat
  BY FS_Singleton, FS_CardinalityType
<1>2. IsFiniteSet({p} \X C) /\ Cardinality({p} \X C) = Cardinality({p}) * Cardinality(C)
  BY <1>1, FS_Product
<1> QED
  BY <1>1, <1>2

LEMMA NoneCounted ==
  ASSUME NEW S, IsFiniteSet(S)
  PROVE  Cardinality(S) \in Nat /\ (Cardinality(S) = 0 <=> S = {})
  BY FS_CardinalityType, FS_EmptySet
=============================================================================
