------------------------- MODULE ChainVotesProofs ---------------------------
(***************************************************************************)
(* What the contract of the votes promises, for every quorum: whoever      *)
(* keeps it need not prove that the chain freezes.                         *)
(***************************************************************************)
EXTENDS ChainVotes, QuorumMajorityProofs

-----------------------------------------------------------------------------
(***************************************************************************)
(* Counting the members of the quorum.                                     *)
(***************************************************************************)
LEMMA MajorityFacts ==
    /\ Majority \in Nat
    /\ Majority > 0
    /\ 3 * Majority > 2 * Cardinality(Quorum)
    /\ Cardinality(Quorum) \in Nat
    /\ Majority <= Cardinality(Quorum)
<1>1. Cardinality(Quorum) \in Nat /\ Cardinality(Quorum) > 0
  BY VotesAssumption, FS_CardinalityType, FS_EmptySet
<1>2. 3 * MajorityOf(Cardinality(Quorum)) > 2 * Cardinality(Quorum)
  BY <1>1 DEF MajorityOf
<1> QED  BY <1>1, <1>2, MajorityBounds DEF Majority, GetQuorumMajority

LEMMA QuorumSubsets ==
    ASSUME NEW S \in SUBSET Quorum
    PROVE  IsFiniteSet(S) /\ Cardinality(S) \in Nat
BY VotesAssumption, FS_Subset, FS_CardinalityType

\* More members never make a smaller count.
LEMMA BiggerCount ==
    ASSUME NEW S \in SUBSET Quorum, NEW T \in SUBSET Quorum, S \subseteq T
    PROVE  Cardinality(S) <= Cardinality(T)
<1>1. IsFiniteSet(T)
  BY QuorumSubsets
<1> QED  BY <1>1, FS_Subset

LEMMA NoMajorityOfNobody == Cardinality({}) < Majority
BY MajorityFacts, FS_EmptySet

\* Two majorities have a member in common.
LEMMA TwoMajorities ==
    ASSUME NEW A \in SUBSET Quorum, NEW B \in SUBSET Quorum,
           Cardinality(A) >= Majority, Cardinality(B) >= Majority
    PROVE  A \cap B # {}
<1>1. 3 * Cardinality(A \cap B) > Cardinality(Quorum)
  BY VotesAssumption, MajoritiesIntersect DEF Majority
<1>2. Cardinality({}) = 0
  BY FS_EmptySet
<1> QED  BY <1>1, <1>2, MajorityFacts

\* Even three majorities have: each misses less than a third.
LEMMA ThreeMajorities ==
    ASSUME NEW A \in SUBSET Quorum, NEW B \in SUBSET Quorum,
           NEW C \in SUBSET Quorum,
           Cardinality(A) >= Majority, Cardinality(B) >= Majority,
           Cardinality(C) >= Majority
    PROVE  A \cap B \cap C # {}
<1> DEFINE D == A \cap B
<1>1. /\ Cardinality(A \cup B)
           = Cardinality(A) + Cardinality(B) - Cardinality(D)
      /\ Cardinality(D \cup C)
           = Cardinality(D) + Cardinality(C) - Cardinality(D \cap C)
  BY QuorumSubsets, FS_Union
<1>2. /\ Cardinality(A \cup B) <= Cardinality(Quorum)
      /\ Cardinality(D \cup C) <= Cardinality(Quorum)
  BY BiggerCount
<1>3. /\ Cardinality(A) \in Nat /\ Cardinality(B) \in Nat
      /\ Cardinality(C) \in Nat /\ Cardinality(D) \in Nat
      /\ Cardinality(A \cup B) \in Nat /\ Cardinality(D \cup C) \in Nat
      /\ Cardinality(D \cap C) \in Nat
  BY QuorumSubsets
<1> HIDE DEF D
<1>4. Cardinality(D \cap C) > 0
  BY <1>1, <1>2, <1>3, MajorityFacts
<1>5. D \cap C # {}
  BY <1>4, FS_EmptySet
<1> QED  BY <1>5 DEF D

\* What has a majority of votes has some.
LEMMA FinalHasVoters ==
    ASSUME NEW i, IsFinal(i)
    PROVE  voters[i] # {}
BY NoMajorityOfNobody, MajorityFacts, FS_EmptySet DEF IsFinal

-----------------------------------------------------------------------------
(***************************************************************************)
(* Votes follow finalization, those under way too.                         *)
(***************************************************************************)
VotesFollow ==
    /\ VotesTypeOK
    /\ \A i, j \in Indices : j < i /\ voters[i] # {} => IsFinal(j)
    /\ \A v \in Quorum : \A h \in handlers[v] :
         \A j \in Indices : j < h.index => IsFinal(j)

LEMMA NewHandlerType ==
    ASSUME NEW i \in Indices, NEW s \in Stat
    PROVE  [index |-> i, stat |-> FutureStat(s, i)] \in Handler
BY VotesAssumption DEF FutureStat, Handler, Stat, Indices

LEMMA VotesTypeStep ==
    ASSUME VotesTypeOK, [VotesNext]_contractVars
    PROVE  VotesTypeOK'
<1>1. CASE UNCHANGED contractVars
  BY <1>1 DEF VotesTypeOK, contractVars, voteVars
<1>2. ASSUME NEW v \in Quorum, NEW i \in Indices, Begin(v, i)
      PROVE  VotesTypeOK'
  <2>1. [index |-> i, stat |-> FutureStat(votingStat[v], i)] \in Handler
    BY NewHandlerType DEF VotesTypeOK
  <2> QED  BY <1>2, <2>1 DEF Begin, VotesTypeOK
<1>3. ASSUME NEW v \in Quorum, NEW i \in Indices, SetStat(v, i)
      PROVE  VotesTypeOK'
  BY <1>3 DEF SetStat, VotesTypeOK, Stat
<1>4. ASSUME NEW v \in Quorum, NEW h \in handlers[v], Finish(v, h)
      PROVE  VotesTypeOK'
  <2>1. h.index \in Indices /\ h.stat \in Stat
    BY DEF VotesTypeOK, Handler
  <2>2. votingStat' \in [Quorum -> Stat] /\ disabled' \in SUBSET Quorum
    BY <1>4, <2>1 DEF Finish, VotesTypeOK
  <2>3. voters' \in [Indices -> SUBSET Quorum]
    BY <1>4, <2>1 DEF Finish, VotesTypeOK
  <2>4. handlers' \in [Quorum -> SUBSET Handler]
    BY <1>4 DEF Finish, VotesTypeOK
  <2> QED  BY <2>2, <2>3, <2>4 DEF VotesTypeOK
<1>5. ASSUME NEW v \in Quorum, NEW left \in SUBSET handlers[v],
             Abandon(v, left)
      PROVE  VotesTypeOK'
  BY <1>5 DEF Abandon, VotesTypeOK
<1>6. ASSUME NEW v \in Quorum, Flag(v)
      PROVE  VotesTypeOK'
  BY <1>6 DEF Flag, VotesTypeOK
<1> QED  BY <1>1, <1>2, <1>3, <1>4, <1>5, <1>6 DEF VotesNext

\* What one step adds to the votes, and to those under way.
LEMMA VotesChange ==
    ASSUME VotesTypeOK, [VotesNext]_contractVars
    PROVE  /\ disabled \subseteq disabled'
           /\ \A i \in Indices :
                /\ voters[i] \subseteq voters'[i]
                /\ \A v \in Quorum :
                     v \in voters'[i] =>
                       \/ v \in voters[i]
                       \/ \E h \in handlers[v] : h.index = i
           /\ \A v \in Quorum : \A h \in handlers'[v] :
                \/ h \in handlers[v]
                \/ /\ v \notin disabled
                   /\ h.index \in Indices
                   /\ h.index > 0 => IsFinal(h.index - 1)
<1> DEFINE Goal ==
             /\ disabled \subseteq disabled'
             /\ \A i \in Indices :
                  /\ voters[i] \subseteq voters'[i]
                  /\ \A v \in Quorum :
                       v \in voters'[i] =>
                         \/ v \in voters[i]
                         \/ \E h \in handlers[v] : h.index = i
             /\ \A v \in Quorum : \A h \in handlers'[v] :
                  \/ h \in handlers[v]
                  \/ /\ v \notin disabled
                     /\ h.index \in Indices
                     /\ h.index > 0 => IsFinal(h.index - 1)
<1>1. CASE UNCHANGED contractVars
  BY <1>1 DEF contractVars, voteVars
<1>2. ASSUME NEW v \in Quorum, NEW i \in Indices, Begin(v, i)
      PROVE  Goal
  <2>1. /\ disabled' = disabled /\ voters' = voters
        /\ v \notin disabled /\ (i > 0 => IsFinal(i - 1))
    BY <1>2 DEF Begin
  <2> DEFINE new == [index |-> i, stat |-> FutureStat(votingStat[v], i)]
  <2>2. /\ handlers'[v] = handlers[v] \cup {new}
        /\ \A w \in Quorum : w # v => handlers'[w] = handlers[w]
    BY <1>2 DEF Begin, VotesTypeOK
  <2>3. new.index = i
    OBVIOUS
  <2> HIDE DEF new
  <2> QED  BY <2>1, <2>2, <2>3
<1>3. ASSUME NEW v \in Quorum, NEW i \in Indices, SetStat(v, i)
      PROVE  Goal
  BY <1>3 DEF SetStat
<1>4. ASSUME NEW v \in Quorum, NEW h \in handlers[v], Finish(v, h)
      PROVE  Goal
  BY <1>4 DEF Finish, VotesTypeOK
<1>5. ASSUME NEW v \in Quorum, NEW left \in SUBSET handlers[v],
             Abandon(v, left)
      PROVE  Goal
  BY <1>5 DEF Abandon, VotesTypeOK
<1>6. ASSUME NEW v \in Quorum, Flag(v)
      PROVE  Goal
  BY <1>6 DEF Flag, VotesTypeOK
<1> QED  BY <1>1, <1>2, <1>3, <1>4, <1>5, <1>6 DEF VotesNext

\* A final block stays final.
LEMMA FinalLasts ==
    ASSUME VotesTypeOK, [VotesNext]_contractVars, NEW i \in Indices,
           IsFinal(i)
    PROVE  IsFinal(i)'
<1>1. voters[i] \in SUBSET Quorum /\ voters'[i] \in SUBSET Quorum
  BY VotesTypeStep DEF VotesTypeOK
<1>2. Cardinality(voters[i]) <= Cardinality(voters'[i])
  BY <1>1, VotesChange, BiggerCount
<1> QED  BY <1>1, <1>2, QuorumSubsets, MajorityFacts DEF IsFinal

LEMMA VotesFollowInit == VotesInit => VotesFollow
BY DEF VotesInit, VotesFollow

LEMMA VotesFollowStep ==
    VotesFollow /\ [VotesNext]_contractVars => VotesFollow'
<1> SUFFICES ASSUME VotesFollow, [VotesNext]_contractVars
             PROVE  VotesFollow'
  OBVIOUS
<1>1. VotesTypeOK /\ VotesTypeOK'
  BY VotesTypeStep DEF VotesFollow
<1>2. ASSUME NEW i \in Indices, NEW j \in Indices, j < i, voters'[i] # {}
      PROVE  IsFinal(j)'
  <2>1. PICK v \in Quorum : v \in voters'[i]
    BY <1>1, <1>2 DEF VotesTypeOK
  <2>2. v \in voters[i] \/ \E h \in handlers[v] : h.index = i
    BY <1>1, <2>1, VotesChange
  <2>3. IsFinal(j)
    BY <1>2, <2>2 DEF VotesFollow
  <2> QED  BY <1>1, <2>3, FinalLasts
<1>3. ASSUME NEW v \in Quorum, NEW h \in handlers'[v],
             NEW j \in Indices, j < h.index
      PROVE  IsFinal(j)'
  <2>1. CASE h \in handlers[v]
    BY <1>1, <1>3, <2>1, FinalLasts DEF VotesFollow
  <2>2. CASE h \notin handlers[v]
    <3>1. h.index \in Indices /\ (h.index > 0 => IsFinal(h.index - 1))
      BY <1>1, <2>2, VotesChange
    <3>2. /\ h.index > 0 /\ h.index - 1 \in Indices
          /\ j = h.index - 1 \/ j < h.index - 1
      BY <1>3, <3>1, VotesAssumption DEF Indices
    <3>3. IsFinal(h.index - 1) /\ voters[h.index - 1] # {}
      BY <3>1, <3>2, FinalHasVoters
    <3>4. IsFinal(j)
      BY <3>2, <3>3 DEF VotesFollow
    <3> QED  BY <1>1, <3>4, FinalLasts
  <2> QED  BY <2>1, <2>2
<1> QED  BY <1>1, <1>2, <1>3 DEF VotesFollow

-----------------------------------------------------------------------------
(***************************************************************************)
(* The freeze.                                                             *)
(***************************************************************************)
LEMMA MayVoteInQuorum ==
    ASSUME VotesTypeOK, NEW i \in Indices
    PROVE  MayVote(i) \in SUBSET Quorum
BY DEF MayVote, VotesTypeOK

\* Once the block below is not final and a majority has disabled the
\* creator, nobody but the others can vote.
LEMMA FrozenAbove ==
    ASSUME VotesFollow, NEW i \in 0 .. MaxIndex - 1,
           MajorityDisabled, ~IsFinal(i)
    PROVE  OutOfReach(i + 1)
<1>1. i \in Indices /\ i + 1 \in Indices /\ i < i + 1
  BY VotesAssumption DEF Indices
<1>2. /\ voters[i + 1] = {}
      /\ \A v \in Quorum : \A h \in handlers[v] : h.index # i + 1
  BY <1>1 DEF VotesFollow
<1>3. MayVote(i + 1) = Quorum \ disabled
  BY <1>2 DEF MayVote
<1>4. /\ MayVote(i + 1) \in SUBSET Quorum
      /\ disabled \in SUBSET Quorum
      /\ disabled \cap MayVote(i + 1) = {}
  BY <1>3 DEF VotesFollow, VotesTypeOK
<1>5. ~(Cardinality(MayVote(i + 1)) >= Majority)
  BY <1>4, TwoMajorities DEF MajorityDisabled
<1> QED  BY <1>4, <1>5, QuorumSubsets, MajorityFacts DEF OutOfReach

LEMMA OutOfReachLasts ==
    ASSUME VotesFollow, [VotesNext]_contractVars, NEW i \in Indices,
           OutOfReach(i)
    PROVE  OutOfReach(i)'
<1>1. VotesTypeOK /\ VotesTypeOK'
  BY VotesTypeStep DEF VotesFollow
<1>2. ASSUME NEW v \in MayVote(i)'
      PROVE  v \in MayVote(i)
  <2>1. v \in Quorum
    BY <1>1, <1>2, MayVoteInQuorum DEF MayVote, VotesTypeOK
  <2>2. CASE v \in Quorum \ disabled'
    BY <1>1, <2>2, VotesChange DEF MayVote
  <2>3. CASE v \in voters'[i]
    BY <1>1, <2>1, <2>3, VotesChange DEF MayVote
  <2>4. CASE \E h \in handlers'[v] : h.index = i
    BY <1>1, <2>1, <2>4, VotesChange DEF MayVote
  <2> QED  BY <1>2, <2>2, <2>3, <2>4 DEF MayVote
<1>3. /\ MayVote(i) \in SUBSET Quorum
      /\ MayVote(i)' \in SUBSET Quorum
  BY <1>1, <1>2, MayVoteInQuorum
<1>4. Cardinality(MayVote(i)') <= Cardinality(MayVote(i))
  BY <1>2, <1>3, BiggerCount
<1> QED  BY <1>3, <1>4, QuorumSubsets, MajorityFacts DEF OutOfReach

\* Whoever writes the stats, whatever crashes and however late votes under
\* way are given: once a majority has disabled the creator, the block after
\* the first one that is not final never becomes final.
THEOREM ContractFreezes == VotesSpec => VotesFreeze
<1>1. VotesInit => VotesFollow
  BY VotesFollowInit
<1>2. VotesFollow /\ [VotesNext]_contractVars => VotesFollow'
  BY VotesFollowStep
<1>3. VotesFollow =>
        \A i \in 0 .. MaxIndex - 1 :
            MajorityDisabled /\ ~IsFinal(i) => OutOfReach(i + 1)
  BY FrozenAbove
<1>4. VotesFollow /\ [VotesNext]_contractVars =>
        [\A i \in Indices : OutOfReach(i) => OutOfReach(i)']_contractVars
  BY OutOfReachLasts
<1> QED  BY <1>1, <1>2, <1>3, <1>4, PTL DEF VotesSpec, VotesFreeze
=============================================================================
