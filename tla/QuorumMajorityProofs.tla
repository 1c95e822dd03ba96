----------------------- MODULE QuorumMajorityProofs -------------------------
(***************************************************************************)
(* What the vote threshold guarantees for every quorum size.               *)
(***************************************************************************)
EXTENDS QuorumMajority, FiniteSetTheorems, TLAPS

\* The threshold is never more than the whole quorum, so it can be reached,
\* and with at least one member it asks for at least one vote.
LEMMA MajorityBounds ==
    ASSUME NEW n \in Nat
    PROVE  /\ MajorityOf(n) \in Nat
           /\ MajorityOf(n) <= n
           /\ n > 0 => MajorityOf(n) > 0
BY DEF MajorityOf

\* Two majorities of one quorum share more than a third of its members: if
\* every one of them signed two blocks for one height, over a third of the
\* anchors signed both.
THEOREM MajoritiesIntersect ==
    ASSUME NEW quorum, IsFiniteSet(quorum), quorum # {},
           NEW A \in SUBSET quorum, NEW B \in SUBSET quorum,
           Cardinality(A) >= GetQuorumMajority(quorum),
           Cardinality(B) >= GetQuorumMajority(quorum)
    PROVE  3 * Cardinality(A \cap B) > Cardinality(quorum)
<1> DEFINE n == Cardinality(quorum)
<1>1. /\ IsFiniteSet(A) /\ IsFiniteSet(B)
      /\ IsFiniteSet(A \cup B) /\ IsFiniteSet(A \cap B)
  BY FS_Subset, FS_Union, FS_Intersection
<1>2. Cardinality(A \cup B) = Cardinality(A) + Cardinality(B)
                                - Cardinality(A \cap B)
  BY <1>1, FS_Union
<1>3. Cardinality(A \cup B) <= n
  <2>1. A \cup B \subseteq quorum
    OBVIOUS
  <2> QED  BY <2>1, FS_Subset
<1>4. /\ n \in Nat /\ n > 0
      /\ Cardinality(A) \in Nat /\ Cardinality(B) \in Nat
      /\ Cardinality(A \cap B) \in Nat /\ Cardinality(A \cup B) \in Nat
  BY <1>1, FS_CardinalityType, FS_EmptySet
<1>5. /\ Cardinality(A) >= MajorityOf(n)
      /\ Cardinality(B) >= MajorityOf(n)
  BY DEF GetQuorumMajority
<1>6. 3 * MajorityOf(n) > 2 * n
  BY <1>4 DEF MajorityOf
<1> HIDE DEF n
<1> QED
  BY <1>2, <1>3, <1>4, <1>5, <1>6, MajorityBounds DEF n

\* A collector of rotation proofs never asks itself and gets nothing from
\* the creator being rotated out when that one is down: the remaining n - 2
\* anchors can reach the threshold exactly when there are at least seven.
THEOREM RotationNeedsSevenAnchors ==
    ASSUME NEW n \in Nat, n >= 2
    PROVE  n - 2 >= MajorityOf(n) <=> n >= 7
BY DEF MajorityOf
=============================================================================
