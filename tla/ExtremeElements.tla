--------------------------- MODULE ExtremeElements ---------------------------
(***************************************************************************)
(* Least and greatest elements of sets of natural numbers: what the Min    *)
(* and Max of the models return.                                           *)
(***************************************************************************)
EXTENDS Integers, FiniteSetsExt, WellFoundedInduction, FiniteSetTheorems, TLAPS

\* By the well-foundedness of the order.
LEMMA LeastOfNaturals ==
    ASSUME NEW T, T \subseteq Nat, T # {}
    PROVE  \E x \in T : \A y \in T : x =< y
<1> DEFINE R == OpToRel(<, Nat)
<1>1. IsWellFoundedOn(R, Nat)
  BY NatLessThanWellFounded
<1>2. \A x, y \in Nat : x < y => <<x, y>> \in R
  BY DEF OpToRel
<1> HIDE DEF R
<1>3. PICK x \in T : \A y \in T : ~ (<<y, x>> \in R)
  BY <1>1, WFMin, Zenon
<1>4. \A y \in T : x =< y
  <2> TAKE y \in T
  <2>1. x \in Nat /\ y \in Nat
    OBVIOUS
  <2>2. ~(y < x)
    BY <1>2, <1>3, <2>1, Zenon
  <2> QED
    BY <2>1, <2>2
<1> QED
  BY <1>4

\* By the least position up to which a counting of the set has no greatest.
LEMMA GreatestOfFinite ==
    ASSUME NEW S, S \subseteq Nat, IsFiniteSet(S), S # {}
    PROVE  \E x \in S : \A y \in S : x >= y
<1>0. PICK n \in Nat : ExistsSurjection(1..n, S)
  BY FS_NatSurjection
<1>1. PICK f \in [1..n -> S] : \A x \in S : \E i \in 1..n : f[i] = x
  BY <1>0 DEF ExistsSurjection, Surjection
<1>2. \A i \in 1..n : f[i] \in Nat
  BY <1>1
<1>3. 1 \in 1..n /\ n \in 1..n
  <2>1. PICK x \in S : TRUE
    OBVIOUS
  <2>2. PICK i \in 1..n : f[i] = x
    BY <1>1
  <2> QED
    BY <2>2
<1> DEFINE Bounded(k) == \E i \in 1..k : \A j \in 1..k : f[i] >= f[j]
           Bad == {k \in 1..n : ~Bounded(k)}
<1>4. Bad = {}
  <2> SUFFICES ASSUME Bad # {} PROVE FALSE
    OBVIOUS
  <2>1. PICK k \in Bad : \A l \in Bad : k =< l
    <3>1. Bad \subseteq Nat
      OBVIOUS
    <3> HIDE DEF Bad
    <3> QED
      BY <3>1, LeastOfNaturals, Zenon
  <2>2. k \in 1..n /\ ~Bounded(k)
    OBVIOUS
  <2>3. k # 1
    <3>1. Bounded(1)
      BY <1>2, <1>3
    <3> QED
      BY <3>1, <2>2
  <2>4. k - 1 \in 1..n
    BY <2>2, <2>3
  <2>5. k - 1 \notin Bad
    <3> HIDE DEF Bad
    <3> QED
      BY <2>1, <2>2
  <2>6. PICK i \in 1..(k - 1) : \A j \in 1..(k - 1) : f[i] >= f[j]
    BY <2>4, <2>5
  <2>7. i \in 1..n /\ f[i] \in Nat /\ f[k] \in Nat
    BY <1>2, <2>2, <2>4
  <2>8. \A j \in 1..k : j \in 1..(k - 1) \/ j = k
    BY <2>2
  <2>9. CASE f[i] >= f[k]
    <3>1. \A j \in 1..k : f[i] >= f[j]
      BY <2>6, <2>8, <2>9
    <3>2. i \in 1..k
      BY <2>2
    <3> QED
      BY <2>2, <3>1, <3>2
  <2>10. CASE f[k] >= f[i]
    <3>1. \A j \in 1..(k - 1) : j \in 1..n
      BY <2>2
    <3>2. \A j \in 1..k : f[k] >= f[j]
      <4> TAKE j \in 1..k
      <4>1. CASE j = k
        BY <2>7, <4>1
      <4>2. CASE j \in 1..(k - 1)
        <5>1. f[i] >= f[j] /\ f[j] \in Nat
          BY <1>2, <2>6, <3>1, <4>2
        <5> QED
          BY <2>7, <2>10, <5>1
      <4> QED
        BY <2>8, <4>1, <4>2
    <3>3. k \in 1..k
      BY <2>2
    <3> QED
      BY <2>2, <3>2, <3>3
  <2> QED
    BY <2>7, <2>9, <2>10
<1>5. Bounded(n)
  BY <1>3, <1>4
<1>6. PICK i \in 1..n : \A j \in 1..n : f[i] >= f[j]
  BY <1>5
<1> QED
  BY <1>1, <1>6

\* What Min returns, of any nonempty set.
LEMMA MinOf ==
    ASSUME NEW T, T \subseteq Nat, T # {}
    PROVE  Min(T) \in T /\ \A y \in T : Min(T) =< y
  BY LeastOfNaturals DEF Min

\* What Max returns, of a nonempty set that is finite.
LEMMA MaxOf ==
    ASSUME NEW S, S \subseteq Nat, IsFiniteSet(S), S # {}
    PROVE  Max(S) \in S /\ \A y \in S : Max(S) >= y
  BY GreatestOfFinite DEF Max
=============================================================================
