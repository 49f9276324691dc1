---------------------------- MODULE NaturalSets ----------------------------
(***************************************************************************)
(* Least and greatest elements of sets of event sequences, for the proofs. *)
(***************************************************************************)
EXTENDS Integers, FiniteSets, FiniteSetTheorems, TLAPS

\* A set of naturals that is not empty has a least element: there is always
\* an active grant with the lowest event sequence to cite (authorization.evaluate),
\* and a first pending event to project (reconcile_pending_receipts).
LEMMA LeastExists ==
  ASSUME NEW S, S \subseteq Nat, S # {}
  PROVE  \E x \in S : \A y \in S : x <= y
<1> DEFINE I == {1..s : s \in S}
           R == StrictSubsetOrdering(Nat)
<1>1. I \subseteq FiniteSubsetsOf(Nat) /\ I # {}
  <2>1. \A s \in S : (1..s) \subseteq Nat /\ IsFiniteSet(1..s)
    BY FS_Interval
  <2> QED BY <2>1 DEF FiniteSubsetsOf
<1>2. \E X \in I : \A Y \in I : <<Y, X>> \notin R
  <2> HIDE DEF I
  <2> QED BY <1>1, FS_StrictSubsetOrderingWellFounded, WFMin
<1> HIDE DEF R
<1>3. PICK x \in S : \A y \in S : <<1..y, 1..x>> \notin R
  BY <1>2
<1>4. \A y \in S : y < x => <<1..y, 1..x>> \in R
  <2> SUFFICES ASSUME NEW y \in S, y < x PROVE <<1..y, 1..x>> \in R
    OBVIOUS
  <2>1. (1..y) \subseteq Nat /\ (1..x) \subseteq Nat /\ (1..y) \subseteq (1..x)
    OBVIOUS
  <2>2. x \in 1..x /\ x \notin 1..y
    OBVIOUS
  <2> QED BY <2>1, <2>2 DEF StrictSubsetOrdering, R
<1>5. \A y \in S : ~ (y < x)
  BY <1>3, <1>4
<1> QED BY <1>5

\* And a set of naturals that is bounded has a greatest one: the newest
\* approval exists (get_approved_approval).
LEMMA GreatestExists ==
  ASSUME NEW S, NEW n \in Nat, S \subseteq Nat, S # {}, \A s \in S : s <= n
  PROVE  \E x \in S : \A y \in S : y <= x
<1> DEFINE D == {n - s : s \in S}
<1>1. D \subseteq Nat /\ D # {}
  <2>1. PICK s \in S : TRUE
    OBVIOUS
  <2>2. n - s \in D
    OBVIOUS
  <2>3. \A t \in S : n - t \in Nat
    OBVIOUS
  <2> QED BY <2>2, <2>3
<1>2. PICK d \in D : \A e \in D : d <= e
  <2> HIDE DEF D
  <2> QED BY <1>1, LeastExists
<1>3. PICK x \in S : d = n - x
  OBVIOUS
<1>4. \A y \in S : n - x <= n - y
  BY <1>2, <1>3
<1> HIDE DEF D
<1> QED BY <1>4
=============================================================================
