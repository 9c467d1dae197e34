---------------------------- MODULE FiniteOrder ----------------------------
(***************************************************************************)
(* Induction over finite sets, in the form of a smallest counterexample:   *)
(* the provers take it as a fact about sets, with no operator parameter.   *)
(* From it, the least and the greatest number of a finite set.             *)
(***************************************************************************)
EXTENDS Naturals, FiniteSets, FiniteSetTheorems, WellFoundedInduction, TLAPS

SmallestIn(F, T) == T \in F /\ \A U \in F : U \subseteq T => U = T

(* A family of subsets of a finite set has one that includes no other.     *)
LEMMA SmallestSubset ==
  ASSUME NEW S, IsFiniteSet(S), NEW F \in SUBSET (SUBSET S), F # {}
  PROVE  \E T : SmallestIn(F, T)
<1>1. IsWellFoundedOn(StrictSubsetOrdering(S), SUBSET S)
  BY FS_StrictSubsetOrderingWellFounded, FS_FiniteSubsetsOfFinite
<1>2. PICK T \in F : \A U \in F : ~(<<U, T>> \in StrictSubsetOrdering(S))
  BY <1>1, WFMin
<1>3. ASSUME NEW U \in F, U \subseteq T, U # T PROVE FALSE
  <2>1. <<U, T>> \in StrictSubsetOrdering(S)
    BY <1>3 DEF StrictSubsetOrdering
  <2> QED
    BY <1>2, <2>1
<1> QED
  BY <1>2, <1>3 DEF SmallestIn

(* The least number of a finite set.                                       *)
LEMMA LeastExists ==
  ASSUME NEW S \in SUBSET Nat, IsFiniteSet(S), S # {}
  PROVE  \E m \in S : \A e \in S : m <= e
<1> DEFINE Below(k) == {e \in S : e <= k}
           F == {Below(k) : k \in S}
<1>1. F \in SUBSET (SUBSET S) /\ F # {}
  OBVIOUS
<1> HIDE DEF F
<1>2. PICK T : SmallestIn(F, T)
  BY <1>1, SmallestSubset
<1> USE DEF F
<1>3. PICK m \in S : T = Below(m)
  BY <1>2 DEF SmallestIn
<1>4. ASSUME NEW e \in S, e < m PROVE FALSE
  <2>0. \A x \in S : x \in Nat
    OBVIOUS
  <2>1. \A x \in S : x <= e => x <= m
    BY <1>4, <2>0
  <2>2. m \in Below(m) /\ m \notin Below(e)
    BY <1>4, <2>0
  <2>3. Below(e) \subseteq Below(m)
    BY <2>1
  <2>4. Below(e) \in F
    OBVIOUS
  <2> HIDE DEF F, Below
  <2> QED
    BY <1>2, <1>3, <2>2, <2>3, <2>4 DEF SmallestIn
<1> QED
  BY <1>4

(* The greatest number of a finite set.                                    *)
LEMMA GreatestExists ==
  ASSUME NEW S \in SUBSET Nat, IsFiniteSet(S), S # {}
  PROVE  \E m \in S : \A e \in S : e <= m
<1> DEFINE Above(k) == {e \in S : k <= e}
           F == {Above(k) : k \in S}
<1>1. F \in SUBSET (SUBSET S) /\ F # {}
  OBVIOUS
<1> HIDE DEF F
<1>2. PICK T : SmallestIn(F, T)
  BY <1>1, SmallestSubset
<1> USE DEF F
<1>3. PICK m \in S : T = Above(m)
  BY <1>2 DEF SmallestIn
<1>4. ASSUME NEW e \in S, m < e PROVE FALSE
  <2>1. \A x \in S : x \in Nat
    OBVIOUS
  <2>2. m \in Above(m) /\ m \notin Above(e)
    BY <1>4, <2>1
  <2>2a. \A x \in S : e <= x => m <= x
    BY <1>4, <2>1
  <2>2b. Above(e) \subseteq Above(m)
    BY <2>2a
  <2>3. Above(e) \in F
    OBVIOUS
  <2> HIDE DEF F, Above
  <2> QED
    BY <1>2, <1>3, <2>2, <2>2b, <2>3 DEF SmallestIn
<1> QED
  BY <1>4
=============================================================================
