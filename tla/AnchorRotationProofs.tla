----------------------- MODULE AnchorRotationProofs -------------------------
(***************************************************************************)
(* The safety properties of AnchorRotation for every quorum, every set of  *)
(* collectors and every bound.                                             *)
(***************************************************************************)
EXTENDS AnchorRotation, ChainVotesProofs

-----------------------------------------------------------------------------
(***************************************************************************)
(* Facts about the operators.                                              *)
(***************************************************************************)
LEMMA VotersType ==
    ASSUME NEW signatures \in SUBSET Signature
    PROVE  Voters(signatures) \in SUBSET Quorum
BY DEF Voters, Signature

-----------------------------------------------------------------------------
(***************************************************************************)
(* Type correctness.                                                       *)
(***************************************************************************)
LEMMA IdleRecords ==
    ASSUME NEW n \in Quorum
    PROVE  /\ Idle(n) \in Collector
           /\ [Idle(n) EXCEPT !.pc = "broadcasting"] \in Collector
BY DEF Idle, Collector, NoAnswer, Answer, Stat

LEMMA StartRecord ==
    ASSUME NEW n \in Quorum, NEW stat \in Stat
    PROVE  [pc |-> "asking", proposal |-> stat, left |-> Quorum \ {n},
            member |-> n, answer |-> NoAnswer, signatures |-> {}]
               \in Collector
BY DEF Collector, NoAnswer, Answer, Stat

LEMMA AskRecord ==
    ASSUME NEW c \in Collector, NEW m \in Quorum
    PROVE  [c EXCEPT !.pc = "waiting", !.left = c.left \ {m},
                     !.member = m, !.answer = NoAnswer] \in Collector
BY DEF Collector, NoAnswer, Answer, Stat

LEMMA NextRecord ==
    ASSUME NEW c \in Collector, NEW n \in Quorum
    PROVE  [c EXCEPT !.pc = "asking", !.member = n,
                     !.answer = NoAnswer] \in Collector
BY DEF Collector, NoAnswer, Answer, Stat

LEMMA SignatureRecord ==
    ASSUME NEW c \in Collector, NEW signatures \in SUBSET Signature
    PROVE  [c EXCEPT !.signatures = signatures] \in Collector
BY DEF Collector

LEMMA AnswerRecord ==
    ASSUME NEW c \in Collector, NEW a \in Answer
    PROVE  [c EXCEPT !.answer = a] \in Collector
BY DEF Collector

LEMMA TypeInit == Init => TypeOK
<1> SUFFICES ASSUME Init PROVE TypeOK
  OBVIOUS
<1>1. votingStat \in [Quorum -> Stat]
  BY StartAssumption DEF Init
<1>2. voters \in [Indices -> SUBSET Quorum]
  BY StartAssumption DEF Init
<1>3. collector \in [Quorum -> Collector]
  BY IdleRecords DEF Init
<1>4. rotationProof \in [Quorum -> Proof]
  BY DEF Init, NoProof, Proof, Stat
<1>5. /\ handlers \in [Quorum -> SUBSET Handler]
      /\ disabled \in SUBSET Quorum
      /\ broadcast \in SUBSET Broadcast
  BY StartAssumption DEF Init
<1>6. setBack \in BOOLEAN
  BY DEF Init
<1>7. restarts \in 0 .. MaxRestarts
  BY BoundAssumption DEF Init
<1> QED
  BY <1>1, <1>2, <1>3, <1>4, <1>5, <1>6, <1>7 DEF TypeOK, VotesTypeOK

LEMMA TypeVotes ==
    ASSUME TypeOK, NEW v \in Quorum, VoteNext(v)
    PROVE  TypeOK'
<1>1. ASSUME NEW i \in Indices, BeginVote(v, i)
      PROVE  TypeOK'
  <2>1. [index |-> i, stat |-> FutureStat(votingStat[v], i)] \in Handler
    BY VotesAssumption
       DEF FutureStat, Handler, TypeOK, VotesTypeOK, Stat, Indices
  <2> QED  BY <1>1, <2>1 DEF BeginVote, Begin, TypeOK, VotesTypeOK, proofVars
<1>2. ASSUME NEW h \in handlers[v], FinishVote(v, h)
      PROVE  TypeOK'
  <2>1. h \in Handler
    BY DEF TypeOK, VotesTypeOK
  <2>2. h.index \in Indices /\ h.stat \in Stat
    BY <2>1 DEF Handler
  <2>3. setBack' \in BOOLEAN
    BY <1>2 DEF FinishVote, Finish
  <2>4. UNCHANGED <<disabled, collector, rotationProof, broadcast, restarts>>
    BY <1>2 DEF FinishVote, Finish, proofVars
  <2>5. votingStat' \in [Quorum -> Stat]
    BY <1>2, <2>2 DEF FinishVote, Finish, TypeOK, VotesTypeOK
  <2>6. voters' \in [Indices -> SUBSET Quorum]
    BY <1>2, <2>2 DEF FinishVote, Finish, TypeOK, VotesTypeOK
  <2>7. handlers' \in [Quorum -> SUBSET Handler]
    BY <1>2 DEF FinishVote, Finish, TypeOK, VotesTypeOK
  <2> QED  BY <2>3, <2>4, <2>5, <2>6, <2>7 DEF TypeOK, VotesTypeOK
<1>3. CASE Disable(v)
  BY <1>3 DEF Disable, Flag, TypeOK, VotesTypeOK, proofVars
<1>4. CASE Restart(v)
  <2>1. /\ restarts' \in 0 .. MaxRestarts
        /\ handlers' \in [Quorum -> SUBSET Handler]
    BY <1>4, BoundAssumption DEF Restart, Abandon, TypeOK, VotesTypeOK
  <2>2. collector' \in [Quorum -> Collector]
    BY <1>4, IdleRecords DEF Restart, Abandon, TypeOK, VotesTypeOK
  <2> QED  BY <1>4, <2>1, <2>2
              DEF Restart, Abandon, TypeOK, VotesTypeOK, proofVars
<1> QED  BY <1>1, <1>2, <1>3, <1>4 DEF VoteNext

LEMMA TypePass ==
    ASSUME TypeOK, NEW n \in Quorum, StartPass(n) \/ PassStep(n)
    PROVE  TypeOK'
<1>1. collector[n] \in Collector /\ votingStat[n] \in Stat
  BY DEF TypeOK, VotesTypeOK
<1>2. NextMember(n) \in Collector
  BY <1>1, NextRecord DEF NextMember
<1>3. CASE StartPass(n)
  BY <1>1, <1>3, StartRecord
     DEF StartPass, TypeOK, VotesTypeOK, voteVars, proofVars
<1>4. ASSUME NEW m \in Quorum, Ask(n, m)
      PROVE  TypeOK'
  <2> DEFINE c == [collector[n] EXCEPT
                     !.pc = "waiting", !.left = collector[n].left \ {m},
                     !.member = m, !.answer = NoAnswer]
  <2>1. c \in Collector
    BY <1>1, AskRecord
  <2>2. collector' = [collector EXCEPT ![n] = c]
    BY <1>4 DEF Ask
  <2> HIDE DEF c
  <2> QED  BY <1>4, <2>1, <2>2
              DEF Ask, TypeOK, VotesTypeOK, voteVars, proofVars
<1>5. CASE ReceiveSignature(n)
  <2> DEFINE s == [voter |-> collector[n].member,
                   index |-> collector[n].answer.stat]
             c == [NextMember(n) EXCEPT !.signatures = @ \cup {s}]
  <2>1. s \in Signature
    BY <1>1 DEF Collector, Answer, Signature
  <2>2. NextMember(n).signatures \in SUBSET Signature
    BY <1>2 DEF Collector
  <2>3. c = [NextMember(n) EXCEPT
               !.signatures = NextMember(n).signatures \cup {s}]
    BY <1>2 DEF Collector
  <2>4. c \in Collector
    BY <1>2, <2>1, <2>2, <2>3, SignatureRecord
  <2>5. collector' = [collector EXCEPT ![n] = c]
    BY <1>5 DEF ReceiveSignature
  <2> HIDE DEF c
  <2> QED  BY <1>5, <2>4, <2>5
              DEF ReceiveSignature, TypeOK, VotesTypeOK, voteVars, proofVars
<1>6. CASE ReceiveUpgrade(n)
  <2>1. collector[n].answer.stat \in Stat
    BY <1>1 DEF Collector, Answer
  <2> QED  BY <1>6, <2>1, IdleRecords
           DEF ReceiveUpgrade, TypeOK, VotesTypeOK, voteVars, proofVars
<1>7. CASE GiveUp(n)
  BY <1>2, <1>7 DEF GiveUp, TypeOK, VotesTypeOK, voteVars, proofVars
<1>8. CASE EndPass(n)
  BY <1>8, IdleRecords DEF EndPass, TypeOK, VotesTypeOK, voteVars, proofVars
<1>9. CASE StoreProof(n)
  <2> DEFINE proof == [index |-> collector[n].proposal,
                       signatures |-> collector[n].signatures]
  <2>1. proof \in Proof
    BY <1>1 DEF Collector, Proof
  <2>2. [from |-> n, proof |-> proof] \in Broadcast
    BY <2>1 DEF Broadcast
  <2>3. /\ rotationProof' = [rotationProof EXCEPT ![n] = proof]
        /\ broadcast' = broadcast \cup {[from |-> n, proof |-> proof]}
    BY <1>9 DEF StoreProof
  <2>4. collector' \in [Quorum -> Collector]
    BY <1>9, IdleRecords DEF StoreProof, TypeOK, VotesTypeOK
  <2> HIDE DEF proof
  <2> QED  BY <1>9, <2>1, <2>2, <2>3, <2>4
           DEF StoreProof, TypeOK, VotesTypeOK, voteVars
<1>10. CASE EndBroadcast(n)
  BY <1>10, IdleRecords
     DEF EndBroadcast, TypeOK, VotesTypeOK, voteVars, proofVars
<1> QED  BY <1>3, <1>4, <1>5, <1>6, <1>7, <1>8, <1>9, <1>10 DEF PassStep

LEMMA TypeAnswer ==
    ASSUME TypeOK, NEW n \in Quorum, NEW m \in Quorum, HandleRequest(n, m)
    PROVE  TypeOK'
<1>1. collector[n] \in Collector /\ votingStat[m] \in Stat
  BY DEF TypeOK, VotesTypeOK
<1>2. collector[n].proposal \in Stat
  BY <1>1 DEF Collector
<1>3. ASSUME NEW status \in {"OK", "UPGRADE"}, NEW stat \in Stat,
             AnswerTo(n, status, stat)
      PROVE  collector' \in [Quorum -> Collector]
  <2> DEFINE a == [status |-> status, stat |-> stat]
             c == [collector[n] EXCEPT !.answer = a]
  <2>1. a \in Answer
    BY DEF Answer
  <2>2. c \in Collector
    BY <1>1, <2>1, AnswerRecord
  <2>3. collector' = [collector EXCEPT ![n] = c]
    BY <1>3 DEF AnswerTo
  <2> HIDE DEF c
  <2> QED  BY <2>2, <2>3 DEF TypeOK, VotesTypeOK
<1>4. CASE RespondWithUpgrade(n, m)
  <2>1. collector' \in [Quorum -> Collector]
    BY <1>1, <1>3, <1>4 DEF RespondWithUpgrade
  <2> QED  BY <1>4, <2>1
              DEF RespondWithUpgrade, TypeOK, VotesTypeOK, voteVars, proofVars
<1>5. CASE HandleMatchingProposal(n, m)
  <2>1. collector' \in [Quorum -> Collector]
    BY <1>1, <1>3, <1>5 DEF HandleMatchingProposal
  <2> QED  BY <1>5, <2>1
           DEF HandleMatchingProposal, TypeOK, VotesTypeOK, voteVars,
               proofVars
<1>6. CASE HandleUpgradeProposal(n, m)
  <2>1. collector' \in [Quorum -> Collector]
    BY <1>2, <1>3, <1>6 DEF HandleUpgradeProposal
  <2> QED  BY <1>2, <1>6, <2>1
           DEF HandleUpgradeProposal, TypeOK, VotesTypeOK, voteVars, proofVars
<1> QED  BY <1>4, <1>5, <1>6 DEF HandleRequest

LEMMA TypeLate ==
    ASSUME TypeOK, NEW m \in Quorum, NEW i \in Indices,
           HandleLateRequest(m, i)
    PROVE  TypeOK'
BY DEF HandleLateRequest, TypeOK, VotesTypeOK, Stat, voteVars, proofVars

LEMMA TypeAccept ==
    ASSUME TypeOK, NEW m \in Quorum, NEW b \in broadcast, AcceptProof(m, b)
    PROVE  TypeOK'
<1>1. b.proof \in Proof /\ b.proof.index \in Stat
  BY DEF TypeOK, VotesTypeOK, Broadcast, Proof
<1> QED  BY <1>1 DEF AcceptProof, TypeOK, VotesTypeOK, voteVars

LEMMA TypeStep == TypeOK /\ [Next]_vars => TypeOK'
<1> SUFFICES ASSUME TypeOK, [Next]_vars
             PROVE  TypeOK'
  OBVIOUS
<1>1. CASE UNCHANGED vars
  BY <1>1 DEF TypeOK, VotesTypeOK, vars, voteVars, proofVars
<1>2. Collectors \subseteq Quorum
  BY BoundAssumption
<1> QED
  BY <1>1, <1>2, TypeVotes, TypePass, TypeAnswer, TypeLate, TypeAccept
     DEF Next

\* Nodes, blocks, stats and proofs stay what they are, whatever the bounds.
THEOREM TypeCorrect == Spec => []TypeOK
<1>1. Init => TypeOK
  BY TypeInit
<1>2. TypeOK /\ [Next]_vars => TypeOK'
  BY TypeStep
<1> QED  BY <1>1, <1>2, PTL DEF Spec

-----------------------------------------------------------------------------
(***************************************************************************)
(* What a step may change.                                                 *)
(***************************************************************************)
LEMMA VoteSteps ==
    ASSUME [Next]_vars
    PROVE  \/ UNCHANGED <<disabled, voters, handlers>>
           \/ \E v \in Quorum : VoteNext(v)
BY DEF Next, PassStep, HandleRequest, StartPass, Ask, ReceiveSignature,
       ReceiveUpgrade, GiveUp, EndPass, StoreProof, EndBroadcast,
       RespondWithUpgrade, HandleMatchingProposal, HandleUpgradeProposal,
       HandleLateRequest, AcceptProof, vars, voteVars

\* Only the end of a handler adds a voter.
LEMMA VotersChange ==
    ASSUME TypeOK, [Next]_vars
    PROVE  \/ voters' = voters
           \/ \E v \in Quorum : \E h \in handlers[v] : FinishVote(v, h)
BY VoteSteps DEF VoteNext, BeginVote, Begin, Disable, Flag, Restart, Abandon

\* A final block stays final.
LEMMA FinalStable ==
    ASSUME TypeOK, [Next]_vars, NEW i \in Indices
    PROVE  /\ voters[i] \subseteq voters'[i]
           /\ IsFinal(i) => IsFinal(i)'
<1>1. voters[i] \in SUBSET Quorum /\ voters'[i] \in SUBSET Quorum
  BY TypeStep DEF TypeOK, VotesTypeOK
<1>2. voters[i] \subseteq voters'[i]
  <2>1. ASSUME NEW v \in Quorum, NEW h \in handlers[v], FinishVote(v, h)
        PROVE  voters[i] \subseteq voters'[i]
    BY <2>1 DEF FinishVote, Finish, TypeOK, VotesTypeOK
  <2> QED  BY <2>1, VotersChange
<1>3. Cardinality(voters[i]) <= Cardinality(voters'[i])
  BY <1>1, <1>2, BiggerCount
<1>4. /\ Cardinality(voters[i]) \in Nat
      /\ Cardinality(voters'[i]) \in Nat
  BY <1>1, QuorumSubsets
<1> QED  BY <1>2, <1>3, <1>4, MajorityFacts DEF IsFinal

\* Everything that writes a stat.
LEMMA StatChange ==
    ASSUME TypeOK, [Next]_vars, NEW n \in Quorum
    PROVE  \/ votingStat'[n] = votingStat[n]
           \/ \E h \in handlers[n] : FinishVote(n, h)
           \/ ReceiveUpgrade(n)
           \/ \E i \in Indices :
                /\ MutexIsFree(n)
                /\ Follows(votingStat[n], i)
                /\ votingStat'[n] = i
                /\ setBack' = setBack
           \/ \E b \in broadcast : AcceptProof(n, b)
<1>1. ASSUME NEW v \in Quorum, VoteNext(v)
      PROVE  \/ votingStat'[n] = votingStat[n]
             \/ \E h \in handlers[n] : FinishVote(n, h)
  <2>1. ASSUME NEW h \in handlers[v], FinishVote(v, h), v # n
        PROVE  votingStat'[n] = votingStat[n]
    BY <2>1 DEF FinishVote, Finish, TypeOK, VotesTypeOK
  <2> QED  BY <1>1, <2>1
              DEF VoteNext, BeginVote, Begin, Disable, Flag, Restart, Abandon
<1>2. ASSUME NEW m \in Quorum, StartPass(m) \/ PassStep(m)
      PROVE  \/ votingStat'[n] = votingStat[n]
             \/ ReceiveUpgrade(n)
  <2>1. ASSUME ReceiveUpgrade(m), m # n
        PROVE  votingStat'[n] = votingStat[n]
    BY <2>1 DEF ReceiveUpgrade, TypeOK, VotesTypeOK
  <2> QED  BY <1>2, <2>1
           DEF PassStep, StartPass, Ask, ReceiveSignature, GiveUp, EndPass,
               StoreProof, EndBroadcast
<1>3. ASSUME NEW c \in Quorum, NEW m \in Quorum, HandleRequest(c, m)
      PROVE  \/ votingStat'[n] = votingStat[n]
             \/ \E i \in Indices :
                  /\ MutexIsFree(n)
                  /\ Follows(votingStat[n], i)
                  /\ votingStat'[n] = i
                  /\ setBack' = setBack
  <2>1. CASE HandleUpgradeProposal(c, m)
    <3>1. collector[c].proposal \in Stat /\ votingStat[m] \in Stat
      BY DEF TypeOK, VotesTypeOK, Collector
    <3>2. collector[c].proposal \in Indices
      BY <2>1, <3>1, VotesAssumption
         DEF HandleUpgradeProposal, Follows, Stat, Indices
    <3> QED  BY <2>1, <3>2
             DEF HandleUpgradeProposal, MayAnswer, TypeOK, VotesTypeOK
  <2> QED  BY <1>3, <2>1
           DEF HandleRequest, RespondWithUpgrade, HandleMatchingProposal
<1>4. ASSUME NEW m \in Quorum, NEW i \in Indices, HandleLateRequest(m, i)
      PROVE  \/ votingStat'[n] = votingStat[n]
             \/ /\ MutexIsFree(n)
                /\ Follows(votingStat[n], i)
                /\ votingStat'[n] = i
                /\ setBack' = setBack
  BY <1>4 DEF HandleLateRequest, MayAnswer, TypeOK, VotesTypeOK
<1>5. ASSUME NEW m \in Quorum, NEW b \in broadcast, AcceptProof(m, b)
      PROVE  \/ votingStat'[n] = votingStat[n]
             \/ AcceptProof(n, b)
  BY <1>5 DEF AcceptProof, TypeOK, VotesTypeOK
<1> QED  BY <1>1, <1>2, <1>3, <1>4, <1>5, BoundAssumption DEF Next, vars

-----------------------------------------------------------------------------
(***************************************************************************)
(* The parts of the invariant, one by one.                                 *)
(***************************************************************************)
LEMMA FinalStep ==
    ASSUME IInv, [Next]_vars
    PROVE  StatsAreFinal'
<1> SUFFICES ASSUME NEW n \in Quorum, votingStat'[n] >= 0
             PROVE  IsFinal(votingStat[n])'
  BY DEF StatsAreFinal
<1> DEFINE stat == votingStat'[n]
<1>1. TypeOK /\ TypeOK'
  BY TypeStep DEF IInv
<1>2. stat \in Indices
  BY <1>1 DEF TypeOK, VotesTypeOK, Stat, Indices
<1>3. SUFFICES IsFinal(stat)
  <2>1. \A i \in Indices : IsFinal(i) => Cardinality(voters'[i]) >= Majority
    BY <1>1, FinalStable DEF IsFinal
  <2> QED  BY <1>2, <2>1 DEF IsFinal
<1>4. CASE stat = votingStat[n]
  BY <1>4 DEF IInv, StatsAreFinal
<1>5. ASSUME NEW h \in handlers[n], FinishVote(n, h)
      PROVE  IsFinal(stat)
  <2>1. stat = h.stat
    BY <1>1, <1>5 DEF FinishVote, Finish, TypeOK, VotesTypeOK
  <2> QED  BY <2>1 DEF IInv, VotesInv
<1>6. CASE ReceiveUpgrade(n)
  <2>1. stat = collector[n].answer.stat
    BY <1>1, <1>6 DEF ReceiveUpgrade, TypeOK, VotesTypeOK
  <2>2. collector[n].answer.status \in {"OK", "UPGRADE", "none"}
    BY <1>1 DEF TypeOK, VotesTypeOK, Collector, Answer
  <2>3. GoodPass(n, collector[n])
    BY DEF IInv, PassInv
  <2> QED  BY <1>6, <2>1, <2>2, <2>3
           DEF ReceiveUpgrade, IsFresher, IsUsable, GoodPass
<1>7. ASSUME NEW b \in broadcast, AcceptProof(n, b)
      PROVE  IsFinal(stat)
  <2>1. stat = b.proof.index
    BY <1>1, <1>7 DEF AcceptProof, TypeOK, VotesTypeOK
  <2> QED  BY <2>1 DEF IInv, BroadcastInv
<1>8. ASSUME NEW i \in Indices, Follows(votingStat[n], i), stat = i
      PROVE  IsFinal(stat)
  BY <1>8 DEF Follows
<1> QED  BY <1>1, <1>4, <1>5, <1>6, <1>7, <1>8, StatChange

LEMMA VotesStep ==
    ASSUME IInv, [Next]_vars
    PROVE  VotesInv'
<1>1. TypeOK /\ TypeOK'
  BY TypeStep DEF IInv
<1>2. ASSUME NEW i \in Indices, IsFinal(i)
      PROVE  IsFinal(i)'
  BY <1>1, <1>2, FinalStable
<1>3. ASSUME NEW i \in Indices, NEW j \in Indices, j < i, voters'[i] # {}
      PROVE  IsFinal(j)
  <2>1. CASE voters'[i] = voters[i]
    BY <1>3, <2>1 DEF IInv, VotesInv
  <2>2. ASSUME NEW v \in Quorum, NEW h \in handlers[v], FinishVote(v, h)
        PROVE  IsFinal(j)
    <3>1. CASE h.index = i
      BY <1>3, <3>1 DEF IInv, VotesInv
    <3>2. CASE h.index # i
      BY <1>1, <2>1, <2>2, <3>2 DEF FinishVote, Finish, TypeOK, VotesTypeOK
    <3> QED  BY <3>1, <3>2
  <2> QED  BY <1>1, <2>1, <2>2, VotersChange
<1>4. ASSUME NEW v \in Quorum, NEW h \in handlers'[v]
      PROVE  /\ \A j \in Indices : j < h.index => IsFinal(j)
             /\ h.stat \in {h.index - 1, h.index}
             /\ h.stat >= 0 => IsFinal(h.stat)
  <2>1. CASE h \in handlers[v]
    BY <2>1 DEF IInv, VotesInv
  <2>2. ASSUME NEW i \in Indices, BeginVote(v, i), h \notin handlers[v]
        PROVE  /\ h.index = i
               /\ h.stat = FutureStat(votingStat[v], i)
               /\ i > 0 => IsFinal(i - 1)
    BY <1>1, <2>2 DEF BeginVote, Begin, TypeOK, VotesTypeOK
  <2>3. ASSUME NEW i \in Indices, BeginVote(v, i), h \notin handlers[v]
        PROVE  /\ \A j \in Indices : j < h.index => IsFinal(j)
               /\ h.stat \in {h.index - 1, h.index}
               /\ h.stat >= 0 => IsFinal(h.stat)
    <3>1. ASSUME NEW j \in Indices, j < i
          PROVE  IsFinal(j)
      <4>1. i - 1 \in Indices /\ IsFinal(i - 1)
        BY <2>2, <2>3, <3>1, VotesAssumption DEF Indices
      <4>2. voters[i - 1] # {}
        BY <4>1, FinalHasVoters
      <4>3. j < i - 1 => IsFinal(j)
        BY <4>1, <4>2 DEF IInv, VotesInv
      <4> QED  BY <3>1, <4>1, <4>3, VotesAssumption DEF Indices
    <3>2. CASE votingStat[v] = i
      BY <2>2, <2>3, <3>1, <3>2, VotesAssumption
         DEF FutureStat, IInv, StatsAreFinal, Indices
    <3>3. CASE votingStat[v] # i
      <4>1. h.index = i /\ h.stat = i - 1
        BY <2>2, <2>3, <3>3 DEF FutureStat
      <4> QED  BY <2>2, <2>3, <3>1, <4>1, VotesAssumption DEF Indices
    <3> QED  BY <3>2, <3>3
  <2>4. h \notin handlers[v] => \E i \in Indices : BeginVote(v, i)
    <3>1. ASSUME NEW w \in Quorum, VoteNext(w), h \notin handlers[v]
          PROVE  \E i \in Indices : BeginVote(v, i)
      BY <1>1, <3>1
         DEF VoteNext, BeginVote, Begin, FinishVote, Finish, Disable, Flag,
             Restart, Abandon, TypeOK, VotesTypeOK
    <3> QED  BY <3>1, VoteSteps
  <2> QED  BY <2>1, <2>3, <2>4
<1>5. ASSUME NEW v \in Quorum, NEW h \in handlers'[v]
      PROVE  /\ \A j \in Indices : j < h.index => IsFinal(j)'
             /\ h.stat \in {h.index - 1, h.index}
             /\ h.stat >= 0 => IsFinal(h.stat)'
  <2>1. h.stat \in Stat
    BY <1>1 DEF TypeOK, VotesTypeOK, Handler
  <2>2. h.stat >= 0 => h.stat \in Indices
    BY <2>1 DEF Stat, Indices
  <2> QED  BY <1>2, <1>4, <2>2
<1> QED  BY <1>2, <1>3, <1>5 DEF VotesInv, IsFinal

\* Only the collector itself and who answers it touch a pass.
LEMMA CollectorChange ==
    ASSUME TypeOK, [Next]_vars, NEW n \in Quorum
    PROVE  \/ collector'[n] = collector[n]
           \/ collector'[n] = Idle(n)
           \/ StartPass(n) \/ PassStep(n)
           \/ \E m \in Quorum : HandleRequest(n, m)
<1>1. ASSUME NEW v \in Quorum, VoteNext(v)
      PROVE  collector'[n] = collector[n] \/ collector'[n] = Idle(n)
  BY <1>1
     DEF VoteNext, BeginVote, Begin, FinishVote, Finish, Disable, Flag,
         Restart, Abandon, TypeOK, VotesTypeOK
<1>2. ASSUME NEW m \in Quorum, StartPass(m) \/ PassStep(m), m # n
      PROVE  collector'[n] = collector[n]
  BY <1>2
     DEF StartPass, PassStep, Ask, ReceiveSignature, ReceiveUpgrade, GiveUp,
         EndPass, StoreProof, EndBroadcast, TypeOK, VotesTypeOK
<1>3. ASSUME NEW c \in Quorum, NEW m \in Quorum, HandleRequest(c, m), c # n
      PROVE  collector'[n] = collector[n]
  BY <1>3
     DEF HandleRequest, RespondWithUpgrade, HandleMatchingProposal,
         HandleUpgradeProposal, AnswerTo, TypeOK, VotesTypeOK
<1>4. ASSUME NEW m \in Quorum, NEW i \in Indices, HandleLateRequest(m, i)
      PROVE  collector'[n] = collector[n]
  BY <1>4 DEF HandleLateRequest
<1>5. ASSUME NEW m \in Quorum, NEW b \in broadcast, AcceptProof(m, b)
      PROVE  collector'[n] = collector[n]
  BY <1>5 DEF AcceptProof
<1> QED
  BY <1>1, <1>2, <1>3, <1>4, <1>5, BoundAssumption DEF Next, vars

LEMMA AskEffect ==
    ASSUME TypeOK, NEW n \in Quorum, NEW m \in Quorum, Ask(n, m)
    PROVE  /\ collector'[n].pc = "waiting"
           /\ collector'[n].proposal = collector[n].proposal
           /\ collector'[n].signatures = collector[n].signatures
           /\ collector'[n].answer.status = "none"
<1>1. collector[n] \in Collector
  BY DEF TypeOK, VotesTypeOK
<1>2. collector'[n] = [collector[n] EXCEPT
                         !.pc = "waiting", !.left = collector[n].left \ {m},
                         !.member = m, !.answer = NoAnswer]
  BY DEF Ask, TypeOK, VotesTypeOK
<1> QED  BY <1>1, <1>2 DEF Collector, NoAnswer

LEMMA NextEffect ==
    ASSUME TypeOK, NEW n \in Quorum, GiveUp(n) \/ ReceiveSignature(n)
    PROVE  LET c == collector[n]
           IN  /\ collector'[n].pc = "asking"
               /\ collector'[n].proposal = c.proposal
               /\ collector'[n].signatures \in
                    {c.signatures,
                     c.signatures
                        \cup {[voter |-> c.member, index |-> c.answer.stat]}}
               /\ GiveUp(n) => collector'[n].signatures = c.signatures
<1> DEFINE c == collector[n]
           s == [voter |-> c.member, index |-> c.answer.stat]
<1>1. c \in Collector
  BY DEF TypeOK, VotesTypeOK
<1>2. CASE GiveUp(n)
  <2>1. collector'[n] = NextMember(n)
    BY <1>2 DEF GiveUp, TypeOK, VotesTypeOK
  <2> QED  BY <1>1, <2>1 DEF NextMember, Collector
<1>3. CASE ReceiveSignature(n) /\ ~GiveUp(n)
  <2>1. collector'[n] = [NextMember(n) EXCEPT !.signatures = @ \cup {s}]
    BY <1>3 DEF ReceiveSignature, TypeOK, VotesTypeOK
  <2> QED  BY <1>1, <1>3, <2>1 DEF NextMember, Collector
<1> QED  BY <1>2, <1>3

\* A pass that is good stays good while neither it nor its stat changes.
LEMMA GoodPassStable ==
    ASSUME TypeOK, [Next]_vars, NEW n \in Quorum,
           GoodPass(n, collector[n]), collector'[n] = collector[n],
           \/ votingStat'[n] = votingStat[n]
           \/ collector[n].pc \notin {"asking", "waiting"}
    PROVE  GoodPass(n, collector[n])'
<1> DEFINE c == collector[n]
<1>1. c \in Collector /\ c.answer.stat \in Stat /\ c.proposal \in Stat
  BY DEF TypeOK, VotesTypeOK, Collector, Answer
<1>2. ASSUME c.pc = "waiting", c.answer.status = "UPGRADE"
      PROVE  IsFinal(c.answer.stat)'
  <2>1. c.answer.stat \in Indices
    BY <1>1, <1>2, VotesAssumption DEF GoodPass, Stat, Indices
  <2>2. \A i \in Indices : IsFinal(i) => Cardinality(voters'[i]) >= Majority
    BY FinalStable DEF IsFinal
  <2> QED  BY <1>2, <2>1, <2>2 DEF GoodPass, IsFinal
<1> QED  BY <1>2 DEF GoodPass, IsFinal

LEMMA PassInvStep ==
    ASSUME IInv, [Next]_vars
    PROVE  PassInv'
<1> SUFFICES ASSUME NEW n \in Quorum
             PROVE  GoodPass(n, collector[n])'
  BY DEF PassInv
<1> DEFINE c == collector[n]
           d == collector'[n]
<1>1. TypeOK /\ TypeOK'
  BY TypeStep DEF IInv
<1>2. GoodPass(n, c) /\ c \in Collector /\ c.answer \in Answer
  BY <1>1 DEF IInv, PassInv, TypeOK, VotesTypeOK, Collector
<1>3. votingStat[n] \in Stat
  BY <1>1 DEF TypeOK, VotesTypeOK
<1>4. CASE d = Idle(n)
  BY <1>4 DEF GoodPass, Idle
<1>5. CASE StartPass(n)
  <2>1. d = [pc |-> "asking", proposal |-> votingStat[n],
             left |-> Quorum \ {n}, member |-> n,
             answer |-> NoAnswer, signatures |-> {}]
    BY <1>1, <1>5 DEF StartPass, TypeOK, VotesTypeOK
  <2>2. votingStat' = votingStat /\ votingStat[n] \in Indices
    BY <1>3, <1>5, VotesAssumption DEF StartPass, Stat, Indices
  <2> QED  BY <2>1, <2>2 DEF GoodPass
<1>6. ASSUME NEW m \in Quorum, Ask(n, m)
      PROVE  GoodPass(n, c)'
  <2>1. c.pc = "asking"
    BY <1>6 DEF Ask
  <2>2. /\ d.pc = "waiting" /\ d.proposal = c.proposal
        /\ d.signatures = c.signatures /\ d.answer.status = "none"
    BY <1>1, <1>6, AskEffect
  <2>3. votingStat' = votingStat
    BY <1>6 DEF Ask
  <2> QED  BY <1>2, <2>1, <2>2, <2>3 DEF GoodPass
<1>7. CASE ReceiveSignature(n)
  <2> DEFINE s == [voter |-> c.member, index |-> c.answer.stat]
  <2>2. /\ d.pc = "asking" /\ d.proposal = c.proposal
        /\ d.signatures \in {c.signatures, c.signatures \cup {s}}
    BY <1>1, <1>7, NextEffect
  <2>3. /\ votingStat' = votingStat
        /\ c.pc = "waiting" /\ s.index = c.proposal
    BY <1>7 DEF ReceiveSignature, IsUsable
  <2> QED  BY <1>2, <2>2, <2>3 DEF GoodPass
<1>8. CASE GiveUp(n)
  <2>1. c.pc = "waiting" /\ votingStat' = votingStat
    BY <1>8 DEF GiveUp
  <2>2. /\ d.pc = "asking" /\ d.proposal = c.proposal
        /\ d.signatures = c.signatures
    BY <1>1, <1>8, NextEffect
  <2> QED  BY <1>2, <2>1, <2>2 DEF GoodPass
<1>9. CASE StoreProof(n)
  <2>1. d = [Idle(n) EXCEPT !.pc = "broadcasting"]
    BY <1>1, <1>9 DEF StoreProof, TypeOK, VotesTypeOK
  <2> QED  BY <2>1 DEF Idle, GoodPass
<1>10. CASE ReceiveUpgrade(n) \/ EndPass(n) \/ EndBroadcast(n)
  <2>1. d = Idle(n)
    BY <1>1, <1>10
       DEF ReceiveUpgrade, EndPass, EndBroadcast, TypeOK, VotesTypeOK
  <2> QED  BY <1>4, <2>1
<1>11. ASSUME NEW m \in Quorum, HandleRequest(n, m)
       PROVE  GoodPass(n, c)'
  <2>1. m # n
    BY <1>11 DEF HandleRequest, RespondWithUpgrade, HandleMatchingProposal,
                 HandleUpgradeProposal, Awaits, MayAnswer, MutexIsFree
  <2>2. c.pc = "waiting" /\ votingStat'[n] = votingStat[n]
    BY <1>1, <1>11, <2>1
       DEF HandleRequest, RespondWithUpgrade, HandleMatchingProposal,
           HandleUpgradeProposal, Awaits, TypeOK, VotesTypeOK
  <2>3. \E status \in {"OK", "UPGRADE"}, stat \in Stat :
          /\ d = [c EXCEPT !.answer = [status |-> status, stat |-> stat]]
          /\ status = "OK" => stat = c.proposal
          /\ status = "UPGRADE" => c.proposal < stat /\ stat = votingStat[m]
    <3>1. votingStat[m] \in Stat /\ c.proposal \in Stat
      BY <1>1, <1>2 DEF TypeOK, VotesTypeOK, Collector
    <3>2. CASE RespondWithUpgrade(n, m)
      BY <1>1, <3>1, <3>2
         DEF RespondWithUpgrade, AnswerTo, TypeOK, VotesTypeOK
    <3>3. CASE HandleMatchingProposal(n, m)
      BY <1>1, <3>1, <3>3
         DEF HandleMatchingProposal, AnswerTo, TypeOK, VotesTypeOK
    <3>4. CASE HandleUpgradeProposal(n, m)
      BY <1>1, <3>1, <3>4
         DEF HandleUpgradeProposal, AnswerTo, TypeOK, VotesTypeOK
    <3> QED  BY <1>11, <3>2, <3>3, <3>4 DEF HandleRequest
  <2>4. PICK status \in {"OK", "UPGRADE"}, stat \in Stat :
          /\ d = [c EXCEPT !.answer = [status |-> status, stat |-> stat]]
          /\ status = "OK" => stat = c.proposal
          /\ status = "UPGRADE" => c.proposal < stat /\ stat = votingStat[m]
    BY <2>3
  <2>5. /\ d.pc = "waiting" /\ d.proposal = c.proposal
        /\ d.signatures = c.signatures
        /\ d.answer.status = status /\ d.answer.stat = stat
    BY <1>2, <2>2, <2>4 DEF Collector
  <2>6. ASSUME status = "UPGRADE"
        PROVE  d.answer.stat > d.proposal /\ IsFinal(stat)'
    <3>1. c.proposal \in Indices /\ stat \in Indices /\ stat > c.proposal
      BY <1>2, <2>2, <2>4, <2>6, VotesAssumption
         DEF GoodPass, Stat, Indices
    <3>2. IsFinal(stat)
      BY <2>4, <2>6, <3>1 DEF IInv, StatsAreFinal, Indices
    <3> QED  BY <1>1, <2>5, <3>1, <3>2, FinalStable
  <2> QED  BY <1>2, <2>2, <2>4, <2>5, <2>6 DEF GoodPass, IsFinal
<1>12. CASE d = c
  <2>1. \/ votingStat'[n] = votingStat[n]
        \/ c.pc \notin {"asking", "waiting"}
    <3>1. ASSUME ReceiveUpgrade(n)
          PROVE  c.pc \notin {"asking", "waiting"}
      BY <1>1, <1>12, <3>1 DEF ReceiveUpgrade, TypeOK, VotesTypeOK, Idle
    <3> QED  BY <1>1, <3>1, StatChange
             DEF FinishVote, Finish, MutexIsFree, AcceptProof
  <2> QED  BY <1>1, <1>2, <1>12, <2>1, GoodPassStable
<1> QED
  BY <1>1, <1>4, <1>5, <1>6, <1>7, <1>8, <1>9, <1>10, <1>11, <1>12,
     CollectorChange DEF PassStep

LEMMA BroadcastChange ==
    ASSUME [Next]_vars
    PROVE  broadcast' = broadcast \/ \E n \in Quorum : StoreProof(n)
BY BoundAssumption
   DEF Next, VoteNext, BeginVote, Begin, FinishVote, Finish, Disable, Flag,
       Restart, Abandon, PassStep, HandleRequest, StartPass, Ask,
       ReceiveSignature, ReceiveUpgrade, GiveUp, EndPass, EndBroadcast,
       RespondWithUpgrade, HandleMatchingProposal, HandleUpgradeProposal,
       HandleLateRequest, AcceptProof, vars, proofVars

LEMMA DisabledChange ==
    ASSUME [Next]_vars
    PROVE  disabled \subseteq disabled'
BY VoteSteps
   DEF VoteNext, BeginVote, Begin, FinishVote, Finish, Disable, Flag, Restart,
       Abandon

LEMMA SetBackStays ==
    ASSUME [Next]_vars, setBack
    PROVE  setBack'
BY
   DEF Next, VoteNext, BeginVote, Begin, FinishVote, Finish, Disable, Flag,
       Restart, Abandon, PassStep, HandleRequest, StartPass, Ask,
       ReceiveSignature, ReceiveUpgrade, GiveUp, EndPass, StoreProof,
       EndBroadcast, RespondWithUpgrade, HandleMatchingProposal,
       HandleUpgradeProposal, HandleLateRequest, AcceptProof, vars

\* A pass has signatures over its own proposal only, so the proof it makes
\* is one that verifies, over the final block that is the node's stat.
LEMMA StoredProof ==
    ASSUME IInv, NEW n \in Quorum, StoreProof(n)
    PROVE  LET proof == [index |-> collector[n].proposal,
                         signatures |-> collector[n].signatures]
           IN  /\ broadcast' = broadcast
                     \cup {[from |-> n, proof |-> proof]}
               /\ rotationProof' = [rotationProof EXCEPT ![n] = proof]
               /\ proof.index \in Indices
               /\ Verifies(proof)
               /\ IsFinal(proof.index)
<1> DEFINE c == collector[n]
           proof == [index |-> c.proposal, signatures |-> c.signatures]
<1>1. /\ c.pc = "asking"
      /\ Cardinality(Voters(c.signatures)) >= Majority
      /\ broadcast' = broadcast \cup {[from |-> n, proof |-> proof]}
      /\ rotationProof' = [rotationProof EXCEPT ![n] = proof]
  BY DEF StoreProof, HasMajority
<1>2. /\ c.proposal = votingStat[n] /\ c.proposal \in Indices
      /\ \A s \in c.signatures : s.index = c.proposal
  BY <1>1 DEF IInv, PassInv, GoodPass
<1>3. Genuine(proof) = c.signatures
  BY <1>2 DEF Genuine
<1>4. Verifies(proof)
  BY <1>1, <1>2, <1>3 DEF Verifies, Indices
<1>5. IsFinal(c.proposal)
  BY <1>2 DEF IInv, StatsAreFinal, Indices
<1> QED  BY <1>1, <1>2, <1>4, <1>5

LEMMA BroadcastStep ==
    ASSUME IInv, [Next]_vars
    PROVE  BroadcastInv'
<1>1. TypeOK /\ TypeOK'
  BY TypeStep DEF IInv
<1>2. \A i \in Indices : IsFinal(i) => Cardinality(voters'[i]) >= Majority
  BY <1>1, FinalStable DEF IsFinal
<1>3. ASSUME NEW b \in broadcast'
      PROVE  Verifies(b.proof) /\ IsFinal(b.proof.index)
  <2>1. ASSUME NEW n \in Quorum, StoreProof(n), b \notin broadcast
        PROVE  Verifies(b.proof) /\ IsFinal(b.proof.index)
    <3> DEFINE proof == [index |-> collector[n].proposal,
                         signatures |-> collector[n].signatures]
    <3>1. b = [from |-> n, proof |-> proof]
      BY <1>3, <2>1, StoredProof
    <3>2. Verifies(proof) /\ IsFinal(proof.index)
      BY <2>1, StoredProof
    <3> HIDE DEF proof
    <3> QED  BY <3>1, <3>2
  <2> QED  BY <2>1, BroadcastChange DEF IInv, BroadcastInv
<1>4. ASSUME NEW b \in broadcast'
      PROVE  IsFinal(b.proof.index)'
  <2>1. b.proof.index \in Stat /\ b.proof.index >= 0
    BY <1>1, <1>3 DEF TypeOK, VotesTypeOK, Broadcast, Proof, Verifies
  <2>2. b.proof.index \in Indices
    BY <2>1, VotesAssumption DEF Stat, Indices
  <2> QED  BY <1>2, <1>3, <2>2 DEF IsFinal
<1>5. ASSUME NEW n \in Quorum, rotationProof'[n] # NoProof
      PROVE  \E b \in broadcast' : b.proof = rotationProof'[n]
  <2>1. CASE rotationProof'[n] = rotationProof[n]
    <3>1. broadcast \subseteq broadcast'
      BY BroadcastChange, StoredProof
    <3> QED  BY <1>5, <2>1, <3>1 DEF IInv, BroadcastInv
  <2>2. ASSUME NEW m \in Quorum, StoreProof(m),
               rotationProof'[n] # rotationProof[n]
        PROVE  \E b \in broadcast' : b.proof = rotationProof'[n]
    <3> DEFINE proof == [index |-> collector[m].proposal,
                         signatures |-> collector[m].signatures]
               b == [from |-> m, proof |-> proof]
    <3>1. b \in broadcast' /\ rotationProof'[n] = proof
      BY <1>1, <2>2, StoredProof DEF TypeOK, VotesTypeOK
    <3>2. b.proof = proof
      OBVIOUS
    <3> QED  BY <3>1, <3>2
  <2>3. ASSUME NEW m \in Quorum, NEW b \in broadcast, AcceptProof(m, b),
               rotationProof'[n] # rotationProof[n]
        PROVE  \E d \in broadcast' : d.proof = rotationProof'[n]
    <3>1. broadcast' = broadcast /\ rotationProof'[n] = b.proof
      BY <1>1, <2>3 DEF AcceptProof, TypeOK, VotesTypeOK
    <3> QED  BY <3>1
  <2>4. \/ rotationProof' = rotationProof
        \/ \E m \in Quorum : StoreProof(m)
        \/ \E m \in Quorum, b \in broadcast : AcceptProof(m, b)
    BY BoundAssumption
       DEF Next, VoteNext, BeginVote, Begin, FinishVote, Finish, Disable,
           Flag, Restart, Abandon, PassStep, HandleRequest, StartPass, Ask,
           ReceiveSignature, ReceiveUpgrade, GiveUp, EndPass, EndBroadcast,
           RespondWithUpgrade, HandleMatchingProposal, HandleUpgradeProposal,
           HandleLateRequest, vars, proofVars
  <2> QED  BY <2>1, <2>2, <2>3, <2>4
<1> QED  BY <1>3, <1>4, <1>5 DEF BroadcastInv

\* A new signature is one that a member gives now, having disabled the
\* creator, over its stat or over the next block, which becomes its stat.
LEMMA NewSignature ==
    ASSUME IInv, [Next]_vars, NEW v \in Quorum, NEW i \in Indices,
           HasSigned(v, i)', ~HasSigned(v, i)
    PROVE  /\ v \in disabled
           /\ votingStat[v] \in {i, i - 1}
           /\ UNCHANGED <<disabled, voters, handlers, broadcast>>
<1> DEFINE s == [voter |-> v, index |-> i]
<1>1. TypeOK /\ TypeOK'
  BY TypeStep DEF IInv
<1>2. ASSUME NEW n \in Quorum, s \in collector'[n].signatures
      PROVE  FALSE
  <2> DEFINE c == collector[n]
             d == collector'[n]
  <2>1. c \in Collector
    BY <1>1 DEF TypeOK, VotesTypeOK
  <2>2. s \notin c.signatures
    BY DEF HasSigned
  <2>3. d # Idle(n)
    BY <1>2 DEF Idle
  <2>4. ~StartPass(n)
    BY <1>1, <1>2 DEF StartPass, TypeOK, VotesTypeOK
  <2>5. \A m \in Quorum : ~Ask(n, m)
    BY <1>1, <1>2, <2>2, AskEffect
  <2>6. ~ReceiveSignature(n)
    <3> SUFFICES ASSUME ReceiveSignature(n) PROVE FALSE
      OBVIOUS
    <3> DEFINE t == [voter |-> c.member, index |-> c.answer.stat]
    <3>1. d = [NextMember(n) EXCEPT !.signatures = @ \cup {t}]
      BY <1>1 DEF ReceiveSignature, TypeOK, VotesTypeOK
    <3>2. d.signatures = c.signatures \cup {t}
      BY <2>1, <3>1 DEF NextMember, Collector
    <3>3. c.member = v /\ c.answer.stat = i
      BY <1>2, <2>2, <3>2
    <3> QED  BY <3>3 DEF ReceiveSignature, IsUsable, HasSigned
  <2>7. ~GiveUp(n)
    BY <1>1, <1>2, <2>2, NextEffect
  <2>8. ~StoreProof(n)
    BY <1>1, <1>2 DEF StoreProof, Idle, TypeOK, VotesTypeOK
  <2>9. ~ReceiveUpgrade(n) /\ ~EndPass(n) /\ ~EndBroadcast(n)
    BY <1>1, <2>3
       DEF ReceiveUpgrade, EndPass, EndBroadcast, TypeOK, VotesTypeOK
  <2>10. \A m \in Quorum : ~HandleRequest(n, m)
    BY <1>1, <1>2, <2>1, <2>2
       DEF HandleRequest, RespondWithUpgrade, HandleMatchingProposal,
           HandleUpgradeProposal, AnswerTo, TypeOK, VotesTypeOK, Collector
  <2> QED  BY <1>1, <1>2, <2>2, <2>3, <2>4, <2>5, <2>6, <2>7, <2>8, <2>9,
              <2>10, CollectorChange DEF PassStep
<1>3. ASSUME NEW b \in broadcast', s \in b.proof.signatures
      PROVE  FALSE
  <2>1. b \notin broadcast
    BY <1>3 DEF HasSigned
  <2>2. PICK n \in Quorum : StoreProof(n)
    BY <2>1, BroadcastChange
  <2>3. b.proof.signatures = collector[n].signatures
    <3> DEFINE proof == [index |-> collector[n].proposal,
                         signatures |-> collector[n].signatures]
    <3>1. b = [from |-> n, proof |-> proof]
      BY <1>3, <2>1, <2>2, StoredProof
    <3> QED  BY <3>1
  <2> QED  BY <1>3, <2>3 DEF HasSigned
<1>4. ASSUME NEW n \in Quorum, collector'[n].pc = "waiting",
             collector'[n].answer.status = "OK",
             collector'[n].member = v, collector'[n].answer.stat = i
      PROVE  \/ HandleMatchingProposal(n, v) /\ i = votingStat[v]
             \/ HandleUpgradeProposal(n, v) /\ i = votingStat[v] + 1
  <2> DEFINE c == collector[n]
             d == collector'[n]
  <2>1. c \in Collector
    BY <1>1 DEF TypeOK, VotesTypeOK
  <2>2. d # c
    BY <1>4 DEF HasSigned
  <2>3. d # Idle(n) /\ ~StartPass(n)
    BY <1>1, <1>4 DEF Idle, StartPass, TypeOK, VotesTypeOK
  <2>4. \A m \in Quorum : ~Ask(n, m)
    BY <1>1, <1>4, AskEffect
  <2>5. ~GiveUp(n) /\ ~ReceiveSignature(n)
    BY <1>1, <1>4, NextEffect
  <2>6. ~StoreProof(n)
    BY <1>1, <1>4 DEF StoreProof, Idle, TypeOK, VotesTypeOK
  <2>7. ~ReceiveUpgrade(n) /\ ~EndPass(n) /\ ~EndBroadcast(n)
    BY <1>1, <2>3
       DEF ReceiveUpgrade, EndPass, EndBroadcast, TypeOK, VotesTypeOK
  <2>8. PICK m \in Quorum : HandleRequest(n, m)
    BY <1>1, <2>2, <2>3, <2>4, <2>5, <2>6, <2>7, CollectorChange DEF PassStep
  <2>9. \E status, stat :
          /\ d = [c EXCEPT !.answer = [status |-> status, stat |-> stat]]
          /\ \/ RespondWithUpgrade(n, m) /\ status = "UPGRADE"
             \/ HandleMatchingProposal(n, m) /\ stat = votingStat[m]
             \/ HandleUpgradeProposal(n, m) /\ stat = c.proposal
    BY <1>1, <2>8
       DEF HandleRequest, RespondWithUpgrade, HandleMatchingProposal,
           HandleUpgradeProposal, AnswerTo, TypeOK, VotesTypeOK
  <2>10. c.member = m
    BY <2>8 DEF HandleRequest, RespondWithUpgrade, HandleMatchingProposal,
                HandleUpgradeProposal, Awaits
  <2>11. m = v
    BY <1>4, <2>1, <2>9, <2>10 DEF Collector
  <2> QED  BY <1>4, <2>1, <2>9, <2>11
           DEF Collector, HandleUpgradeProposal, Follows
<1>5. PICK n \in Quorum :
        \/ HandleMatchingProposal(n, v) /\ i = votingStat[v]
        \/ HandleUpgradeProposal(n, v) /\ i = votingStat[v] + 1
  BY <1>2, <1>3, <1>4 DEF HasSigned
<1>6. votingStat[v] \in {i, i - 1}
  <2>1. votingStat[v] \in Int /\ i \in Int
    BY <1>1 DEF TypeOK, VotesTypeOK, Stat, Indices
  <2> QED  BY <1>5, <2>1
<1> QED  BY <1>5, <1>6 DEF HandleMatchingProposal, HandleUpgradeProposal,
                           MayAnswer, voteVars, proofVars

LEMMA SignersStep ==
    ASSUME IInv, [Next]_vars
    PROVE  SignersInv'
<1> SUFFICES ASSUME NEW v \in Quorum, NEW i \in Indices, HasSigned(v, i)'
             PROVE  v \in disabled'
  BY DEF SignersInv
<1>1. v \in disabled
  BY NewSignature DEF IInv, SignersInv
<1> QED  BY <1>1, DisabledChange

LEMMA RotatedStays ==
    ASSUME [Next]_vars, IInv, NEW i, IsRotated(i)
    PROVE  IsRotated(i)'
<1>1. broadcast \subseteq broadcast'
  BY BroadcastChange, StoredProof
<1> QED  BY <1>1 DEF IsRotated

\* As long as no vote takes a stat back, only an accepted proof does.
LEMMA StatInvStep ==
    ASSUME IInv, [Next]_vars, ~setBack'
    PROVE  StatInv'
<1> SUFFICES ASSUME NEW v \in Quorum, NEW i \in Indices, v \in voters'[i]
             PROVE  \/ votingStat'[v] >= i - 1
                    \/ \E j \in Indices : /\ j < i - 1
                                         /\ j <= votingStat'[v]
                                         /\ IsRotated(j)'
  BY DEF StatInv
<1>1. TypeOK /\ TypeOK' /\ StatInv
  BY TypeStep, SetBackStays DEF IInv
<1>2. /\ votingStat[v] \in Int /\ votingStat'[v] \in Int
      /\ i \in Int /\ Indices \subseteq Int
  BY <1>1, VotesAssumption DEF TypeOK, VotesTypeOK, Stat, Indices
<1>3. CASE v \in voters[i] /\ votingStat'[v] >= votingStat[v]
  <2>1. \/ votingStat[v] >= i - 1
        \/ \E j \in Indices :
             j < i - 1 /\ j <= votingStat[v] /\ IsRotated(j)
    BY <1>1, <1>3 DEF StatInv
  <2>2. \A j : IsRotated(j) => IsRotated(j)'
    BY RotatedStays
  <2> QED  BY <1>2, <1>3, <2>1, <2>2
<1>4. ASSUME NEW h \in handlers[v], FinishVote(v, h)
      PROVE  \/ v \in voters[i] /\ votingStat'[v] >= votingStat[v]
             \/ votingStat'[v] >= i - 1
  <2>1. votingStat'[v] = h.stat /\ h.index \in Int /\ h.stat \in Int
    BY <1>1, <1>4, VotesAssumption
       DEF FinishVote, Finish, TypeOK, VotesTypeOK, Handler, Stat, Indices
  <2>2. CASE h.index = i
    <3>1. h.stat \in {h.index - 1, h.index}
      BY DEF IInv, VotesInv
    <3> QED  BY <1>2, <2>1, <2>2, <3>1
  <2>3. CASE h.index # i
    <3>1. v \in voters[i]
      BY <1>1, <1>4, <2>3 DEF FinishVote, Finish, TypeOK, VotesTypeOK
    <3>2. ~(h.stat < votingStat[v])
      BY <1>4 DEF FinishVote, Finish
    <3> QED  BY <1>2, <2>1, <3>1, <3>2
  <2> QED  BY <2>2, <2>3
<1>5. CASE \E h \in handlers[v] : FinishVote(v, h)
  BY <1>3, <1>4, <1>5
<1>6. CASE ~\E h \in handlers[v] : FinishVote(v, h)
  <2>1. v \in voters[i]
    <3>1. ASSUME NEW w \in Quorum, NEW h \in handlers[w], FinishVote(w, h),
                 w # v
          PROVE  v \in voters[i]
      BY <1>1, <3>1 DEF FinishVote, Finish, TypeOK, VotesTypeOK
    <3> QED  BY <1>1, <1>6, <3>1, VotersChange
  <2>2. ASSUME NEW b \in broadcast, AcceptProof(v, b)
        PROVE  \/ votingStat'[v] >= i - 1
               \/ \E j \in Indices : /\ j < i - 1
                                    /\ j <= votingStat'[v]
                                    /\ IsRotated(j)'
    <3>1. votingStat'[v] = b.proof.index /\ IsRotated(b.proof.index)'
      BY <1>1, <2>2 DEF AcceptProof, IsRotated, TypeOK, VotesTypeOK
    <3>2. b.proof.index \in Indices
      BY <1>1, <2>2, VotesAssumption
         DEF AcceptProof, Verifies, TypeOK, VotesTypeOK, Broadcast, Proof,
             Stat, Indices
    <3> QED  BY <1>2, <3>1, <3>2
  <2>3. ASSUME ReceiveUpgrade(v)
        PROVE  votingStat'[v] >= votingStat[v]
    <3> DEFINE c == collector[v]
    <3>1. votingStat'[v] = c.answer.stat
      BY <1>1, <2>3 DEF ReceiveUpgrade, TypeOK, VotesTypeOK
    <3>2. c.answer.status \in {"OK", "UPGRADE", "none"}
      BY <1>1 DEF TypeOK, VotesTypeOK, Collector, Answer
    <3>3. GoodPass(v, c)
      BY DEF IInv, PassInv
    <3>4. c.answer.stat > votingStat[v]
      BY <2>3, <3>2, <3>3 DEF ReceiveUpgrade, IsFresher, IsUsable, GoodPass
    <3> QED  BY <1>2, <3>1, <3>4
  <2>4. ASSUME NEW k \in Indices, Follows(votingStat[v], k),
               votingStat'[v] = k
        PROVE  votingStat'[v] >= votingStat[v]
    BY <1>2, <2>4 DEF Follows
  <2> QED  BY <1>1, <1>2, <1>3, <1>6, <2>1, <2>2, <2>3, <2>4, StatChange
<1> QED  BY <1>5, <1>6

-----------------------------------------------------------------------------
(***************************************************************************)
(* A rotation is recent.                                                   *)
(***************************************************************************)
LEMMA MayVoteType ==
    ASSUME TypeOK, NEW i \in Indices
    PROVE  MayVote(i) \in SUBSET Quorum
BY DEF MayVote, TypeOK, VotesTypeOK

\* Nobody comes to vote for a block who could not before.
LEMMA MayVoteShrinks ==
    ASSUME TypeOK, [Next]_vars, NEW i \in Indices
    PROVE  MayVote(i)' \subseteq MayVote(i)
<1>1. ASSUME NEW v \in Quorum, NEW k \in Indices, BeginVote(v, k)
      PROVE  MayVote(i)' \subseteq MayVote(i)
  <2>1. /\ v \in Quorum \ disabled
        /\ disabled' = disabled /\ voters' = voters
        /\ \A w \in Quorum : w # v => handlers'[w] = handlers[w]
    BY <1>1 DEF BeginVote, Begin, TypeOK, VotesTypeOK
  <2> QED  BY <2>1 DEF MayVote
<1>2. ASSUME NEW v \in Quorum, NEW h \in handlers[v], FinishVote(v, h)
      PROVE  MayVote(i)' \subseteq MayVote(i)
  <2>1. /\ disabled' = disabled
        /\ \A w \in Quorum : handlers'[w] \subseteq handlers[w]
        /\ voters'[i] \subseteq voters[i]
             \cup {w \in Quorum : \E g \in handlers[w] : g.index = i}
    BY <1>2 DEF FinishVote, Finish, TypeOK, VotesTypeOK
  <2> QED  BY <2>1 DEF MayVote
<1>3. ASSUME NEW v \in Quorum, Disable(v) \/ Restart(v)
      PROVE  MayVote(i)' \subseteq MayVote(i)
  <2>1. /\ disabled \subseteq disabled' /\ voters' = voters
        /\ \A w \in Quorum : handlers'[w] \subseteq handlers[w]
    BY <1>3 DEF Disable, Flag, Restart, Abandon, TypeOK, VotesTypeOK
  <2> QED  BY <2>1 DEF MayVote
<1> QED  BY <1>1, <1>2, <1>3, VoteSteps DEF VoteNext, MayVote

\* A rotation proof leaves at most two final blocks out.
LEMMA NotRotatedBelow ==
    ASSUME IInv, ~setBack, NEW j \in Indices, IsRotated(j),
           NEW k \in Indices, IsFinal(k)
    PROVE  k <= j + 2
<1> SUFFICES ASSUME k >= j + 3 PROVE FALSE
  BY VotesAssumption DEF Indices
<1>1. /\ j + 2 \in Indices /\ j + 3 \in Indices
      /\ j + 2 < k /\ (j + 3 < k \/ j + 3 = k)
  BY VotesAssumption DEF Indices
<1>2. voters[k] # {}
  BY FinalHasVoters
<1>3. IsFinal(j + 2) /\ IsFinal(j + 3)
  BY <1>1, <1>2 DEF IInv, VotesInv
<1>4. Cardinality(MayVote(j + 3)) < Majority
  BY <1>1, <1>3 DEF IInv, RecentInv
<1>5. /\ voters[j + 3] \in SUBSET Quorum
      /\ MayVote(j + 3) \in SUBSET Quorum
      /\ voters[j + 3] \subseteq MayVote(j + 3)
  BY <1>1, MayVoteType DEF IInv, TypeOK, VotesTypeOK, MayVote
<1>6. Cardinality(voters[j + 3]) <= Cardinality(MayVote(j + 3))
  BY <1>5, BiggerCount
<1>7. /\ Cardinality(voters[j + 3]) \in Nat
      /\ Cardinality(MayVote(j + 3)) \in Nat
  BY <1>5, QuorumSubsets
<1> QED  BY <1>3, <1>4, <1>6, <1>7, MajorityFacts DEF IsFinal

LEMMA RecentStep ==
    ASSUME IInv, [Next]_vars, ~setBack', NEW i \in Indices,
           i + 3 \in Indices, IsFinal(i + 2)'
    PROVE  IF IsRotated(i)'
           THEN Cardinality(MayVote(i + 3)') < Majority
           ELSE Cardinality(Unsigned(i)') >= Majority
<1>1. /\ TypeOK /\ TypeOK' /\ SignersInv /\ SignersInv'
      /\ VotesInv /\ StatInv /\ RecentInv /\ BroadcastInv /\ ~setBack
  BY TypeStep, SignersStep, SetBackStays DEF IInv
<1>2. i + 2 \in Indices /\ i + 1 \in Indices
  BY VotesAssumption DEF Indices
<1>3. MayVote(i + 3)' \subseteq MayVote(i + 3)
  BY <1>1, MayVoteShrinks
<1>4. /\ MayVote(i + 3) \in SUBSET Quorum
      /\ MayVote(i + 3)' \in SUBSET Quorum
      /\ Unsigned(i) \in SUBSET Quorum
      /\ Unsigned(i)' \in SUBSET Quorum
      /\ voters'[i + 2] \in SUBSET Quorum
  <2>1. MayVote(i + 3) \in SUBSET Quorum
    BY <1>1, MayVoteType
  <2> QED  BY <1>1, <1>2, <1>3, <2>1 DEF Unsigned, TypeOK, VotesTypeOK
<1>5. /\ Cardinality(MayVote(i + 3)) \in Nat
      /\ Cardinality(MayVote(i + 3)') \in Nat
      /\ Cardinality(MayVote(i + 3)') <= Cardinality(MayVote(i + 3))
  BY <1>3, <1>4, QuorumSubsets, BiggerCount
<1>6. CASE IsFinal(i + 2)
  <2>1. CASE IsRotated(i)
    <3>1. Cardinality(MayVote(i + 3)) < Majority
      BY <1>1, <1>6, <2>1 DEF RecentInv
    <3> QED  BY <1>5, <2>1, <3>1, RotatedStays, MajorityFacts
  <2>2. CASE ~IsRotated(i)
    <3>1. Cardinality(Unsigned(i)) >= Majority
      BY <1>1, <1>6, <2>2 DEF RecentInv, Unsigned
    <3>2. ASSUME NEW v \in voters[i + 2], HasSigned(v, i)'
          PROVE  HasSigned(v, i)
      <4> SUFFICES ASSUME ~HasSigned(v, i) PROVE FALSE
        OBVIOUS
      <4>1. v \in Quorum
        BY <1>1, <1>2 DEF TypeOK, VotesTypeOK
      <4>2. votingStat[v] \in {i, i - 1}
        BY <3>2, <4>1, NewSignature
      <4>3. PICK j \in Indices : /\ j < i + 1
                                /\ j <= votingStat[v]
                                /\ IsRotated(j)
        BY <1>1, <1>2, <4>1, <4>2 DEF StatInv, Indices
      <4>4. i + 2 <= j + 2
        BY <1>1, <1>2, <1>6, <4>3, NotRotatedBelow
      <4>5. j = i
        BY <4>3, <4>4 DEF Indices
      <4> QED  BY <2>2, <4>3, <4>5
    <3>3. CASE ~IsRotated(i)'
      <4>1. voters[i + 2] \subseteq voters'[i + 2]
        BY <1>1, <1>2, FinalStable
      <4>2. Unsigned(i) \subseteq Unsigned(i)'
        BY <1>3, <3>2, <4>1 DEF Unsigned
      <4>3. Cardinality(Unsigned(i)) <= Cardinality(Unsigned(i)')
        BY <1>4, <4>2, BiggerCount
      <4>4. /\ Cardinality(Unsigned(i)) \in Nat
            /\ Cardinality(Unsigned(i)') \in Nat
        BY <1>4, QuorumSubsets
      <4> QED  BY <3>1, <3>3, <4>3, <4>4, MajorityFacts
    <3>4. CASE IsRotated(i)'
      <4>1. PICK n \in Quorum : StoreProof(n)
        BY <2>2, <3>4, BroadcastChange DEF IsRotated
      <4> DEFINE c == collector[n]
                 A == Voters(c.signatures)
      <4>2. c.proposal = i
        <5> DEFINE proof == [index |-> c.proposal,
                             signatures |-> c.signatures]
        <5>1. PICK b \in broadcast' : b.proof.index = i
          BY <3>4 DEF IsRotated
        <5>2. b = [from |-> n, proof |-> proof]
          BY <2>2, <4>1, <5>1, StoredProof DEF IsRotated
        <5> QED  BY <5>1, <5>2
      <4>3. c.signatures \in SUBSET Signature
        BY <1>1 DEF TypeOK, VotesTypeOK, Collector
      <4>4. /\ A \in SUBSET Quorum
            /\ Cardinality(A) >= Majority
        BY <4>1, <4>3, VotersType DEF StoreProof, HasMajority
      <4>5. \A v \in A : HasSigned(v, i)
        <5> SUFFICES ASSUME NEW s \in c.signatures
                     PROVE  HasSigned(s.voter, i)
          BY DEF Voters
        <5>1. s.index = i
          BY <4>2 DEF IInv, PassInv, GoodPass
        <5>2. s = [voter |-> s.voter, index |-> i]
          BY <4>3, <5>1 DEF Signature
        <5> QED  BY <5>2 DEF HasSigned
      <4>6. Unsigned(i) \cap A \cap MayVote(i + 3) = {}
        BY <4>5 DEF Unsigned
      <4>7. ~(Cardinality(MayVote(i + 3)) >= Majority)
        BY <1>4, <3>1, <4>4, <4>6, ThreeMajorities
      <4> QED  BY <1>5, <3>4, <4>7, MajorityFacts
    <3> QED  BY <3>3, <3>4
  <2> QED  BY <2>1, <2>2
<1>7. CASE ~IsFinal(i + 2)
  <2>1. voters'[i + 2] # voters[i + 2]
    BY <1>7 DEF IsFinal
  <2>2. PICK v \in Quorum : \E h \in handlers[v] : FinishVote(v, h)
    BY <1>1, <2>1, VotersChange
  <2>3. PICK h \in handlers[v] : FinishVote(v, h)
    BY <2>2
  <2>4. h.index = i + 2
    BY <1>1, <1>2, <2>1, <2>3 DEF FinishVote, Finish, TypeOK, VotesTypeOK
  <2>5. /\ voters[i + 3] = {}
        /\ \A w \in Quorum : \A g \in handlers[w] : g.index # i + 3
    <3>1. i + 2 < i + 3
      BY DEF Indices
    <3> QED  BY <1>1, <1>2, <1>7, <3>1 DEF VotesInv
  <2>6. MayVote(i + 3) = Quorum \ disabled
    BY <2>5 DEF MayVote
  <2>7. disabled' = disabled /\ broadcast' = broadcast
    BY <2>3 DEF FinishVote, Finish, proofVars
  <2>8. CASE IsRotated(i)
    <3>1. PICK b \in broadcast : b.proof.index = i
      BY <2>8 DEF IsRotated
    <3> DEFINE A == Voters(Genuine(b.proof))
    <3>2. /\ b.proof.signatures \in SUBSET Signature
          /\ Genuine(b.proof) \in SUBSET Signature
      BY <1>1 DEF TypeOK, VotesTypeOK, Broadcast, Proof, Genuine
    <3>3. A \in SUBSET Quorum /\ Cardinality(A) >= Majority
      BY <1>1, <3>2, VotersType DEF BroadcastInv, Verifies
    <3>4. A \subseteq disabled
      <4> SUFFICES ASSUME NEW s \in Genuine(b.proof)
                   PROVE  s.voter \in disabled
        BY DEF Voters
      <4>1. /\ s \in b.proof.signatures
            /\ s = [voter |-> s.voter, index |-> i]
            /\ s.voter \in Quorum
        BY <3>1, <3>2 DEF Genuine, Signature
      <4>2. HasSigned(s.voter, i)
        BY <4>1 DEF HasSigned
      <4> QED  BY <1>1, <4>1, <4>2 DEF SignersInv
    <3>5. A \cap MayVote(i + 3) = {}
      BY <2>6, <3>4
    <3>6. ~(Cardinality(MayVote(i + 3)) >= Majority)
      BY <1>4, <3>3, <3>5, TwoMajorities
    <3> QED  BY <1>5, <2>8, <3>6, RotatedStays, MajorityFacts
  <2>9. CASE ~IsRotated(i)
    <3>1. ~IsRotated(i)'
      BY <2>7, <2>9 DEF IsRotated
    <3>2. Unsigned(i)' = voters'[i + 2]
      <4>1. ASSUME NEW w \in voters'[i + 2], HasSigned(w, i)'
            PROVE  w \notin MayVote(i + 3)'
        BY <1>1, <1>3, <1>4, <2>6, <2>7, <4>1 DEF SignersInv
      <4> QED  BY <4>1 DEF Unsigned
    <3>3. Cardinality(voters'[i + 2]) >= Majority
      BY DEF IsFinal
    <3> QED  BY <3>1, <3>2, <3>3
  <2> QED  BY <2>8, <2>9
<1> QED  BY <1>6, <1>7

-----------------------------------------------------------------------------
(***************************************************************************)
(* The inductive invariant and what follows from it.                       *)
(***************************************************************************)
LEMMA InvInit == Init => IInv
<1> SUFFICES ASSUME Init PROVE IInv
  OBVIOUS
<1>1. TypeOK
  BY TypeInit
<1>2. /\ \A n \in Quorum : handlers[n] = {} /\ collector[n] = Idle(n)
      /\ broadcast = {}
      /\ \A n \in Quorum : rotationProof[n] = NoProof
  BY DEF Init
<1>3. /\ \A i, j \in Indices : j < i /\ voters[i] # {} => IsFinal(j)
      /\ \A n \in Quorum, i \in Indices :
           n \in voters[i] => votingStat[n] >= i - 1
      /\ \A n \in Quorum : votingStat[n] >= 0 => IsFinal(votingStat[n])
  BY StartAssumption DEF Init, IsFinal
<1>4. StatsAreFinal
  BY <1>3 DEF StatsAreFinal
<1>5. VotesInv
  BY <1>2, <1>3 DEF VotesInv
<1>6. \A n \in Quorum : /\ collector[n].pc = "idle"
                        /\ collector[n].signatures = {}
  <2> SUFFICES ASSUME NEW n \in Quorum
               PROVE  /\ collector[n].pc = "idle"
                      /\ collector[n].signatures = {}
    OBVIOUS
  <2>1. collector[n] = Idle(n)
    BY <1>2
  <2> QED  BY <2>1 DEF Idle
<1>7. \A v \in Quorum, i \in Indices : ~HasSigned(v, i)
  BY <1>2, <1>6 DEF HasSigned
<1>8. PassInv
  <2> SUFFICES ASSUME NEW n \in Quorum
               PROVE  GoodPass(n, collector[n])
    BY DEF PassInv
  <2> QED  BY <1>6 DEF GoodPass
<1>9. BroadcastInv /\ SignersInv
  BY <1>2, <1>7 DEF BroadcastInv, SignersInv
<1>10. StatInv
  BY <1>3 DEF StatInv
<1>11. RecentInv
  <2> SUFFICES ASSUME NEW i \in Indices, i + 3 \in Indices, IsFinal(i + 2)
               PROVE  IF IsRotated(i)
                      THEN Cardinality(MayVote(i + 3)) < Majority
                      ELSE Cardinality(Unsigned(i)) >= Majority
    BY DEF RecentInv, Unsigned
  <2>1. i + 2 \in Indices
    BY VotesAssumption DEF Indices
  <2>2. ~IsRotated(i)
    BY <1>2 DEF IsRotated
  <2>3. Unsigned(i) = voters[i + 2]
    BY <1>1, <1>7, <2>1 DEF Unsigned, TypeOK, VotesTypeOK
  <2> QED  BY <2>2, <2>3 DEF IsFinal
<1> QED
  BY <1>1, <1>4, <1>5, <1>8, <1>9, <1>10, <1>11 DEF IInv

LEMMA InvStep == IInv /\ [Next]_vars => IInv'
<1> SUFFICES ASSUME IInv, [Next]_vars
             PROVE  IInv'
  OBVIOUS
<1>1. TypeOK'
  BY TypeStep DEF IInv
<1>2. ASSUME ~setBack'
      PROVE  RecentInv'
  <2> SUFFICES ASSUME NEW i \in Indices, i + 3 \in Indices, IsFinal(i + 2)'
               PROVE  IF IsRotated(i)'
                      THEN Cardinality(MayVote(i + 3)') < Majority
                      ELSE Cardinality(Unsigned(i)') >= Majority
    BY DEF RecentInv, Unsigned
  <2> QED  BY <1>2, RecentStep
<1> QED
  BY <1>1, <1>2, FinalStep, VotesStep, PassInvStep, BroadcastStep,
     SignersStep, StatInvStep DEF IInv

THEOREM Invariant == Spec => []IInv
<1> QED  BY InvInit, InvStep, PTL DEF Spec

\* What a collector or a member writes to a voting stat is final, although
\* neither of them looks at the AFP it comes with.
THEOREM FinalStats == Spec => []StatsAreFinal
<1>1. IInv => StatsAreFinal
  BY DEF IInv
<1> QED  BY <1>1, Invariant, PTL

\* Every stored rotation proof is for a final block and verifies at every
\* member.
THEOREM GenuineProofs == Spec => []ProofsAreGenuine
<1>1. IInv => ProofsAreGenuine
  BY DEF IInv, BroadcastInv, ProofsAreGenuine, Verifies
<1> QED  BY <1>1, Invariant, PTL

\* At most two final blocks of the creator lie behind a rotation proof, for
\* every quorum: any number of votes may be under way when the creator is
\* disabled, but they are all for the next two heights.
THEOREM RecentRotation == Spec => []RotationIsRecent
<1>1. ASSUME IInv
      PROVE  RotationIsRecent
  <2> SUFFICES ASSUME ~setBack, NEW n \in Quorum, NEW k \in Indices,
                      rotationProof[n] # NoProof, IsFinal(k)
               PROVE  k <= rotationProof[n].index + 2
    BY DEF RotationIsRecent
  <2>1. PICK b \in broadcast : b.proof = rotationProof[n]
    BY <1>1 DEF IInv, BroadcastInv
  <2>2. b.proof.index \in Indices
    BY <1>1, VotesAssumption
       DEF IInv, TypeOK, VotesTypeOK, BroadcastInv, Verifies, Broadcast,
           Proof, Stat, Indices
  <2> QED  BY <1>1, <2>1, <2>2, NotRotatedBelow DEF IsRotated
<1> QED  BY <1>1, Invariant, PTL

-----------------------------------------------------------------------------
(***************************************************************************)
(* The contract of the votes is kept.                                      *)
(***************************************************************************)
LEMMA StatIsSet ==
    ASSUME TypeOK, NEW n \in Quorum, NEW i \in Stat, IsFinal(i), i >= 0,
           votingStat' = [votingStat EXCEPT ![n] = i],
           UNCHANGED voteVars
    PROVE  VotesNext
<1>1. i \in Indices
  BY DEF Stat, Indices
<1>2. SetStat(n, i)
  BY DEF SetStat, voteVars
<1> QED  BY <1>1, <1>2 DEF VotesNext

LEMMA ContractInit == Init => VotesInit
<1> SUFFICES ASSUME Init PROVE VotesInit
  OBVIOUS
<1>1. VotesTypeOK
  BY TypeInit DEF TypeOK
<1>2. /\ votingStat = StatAtStart
      /\ disabled = Stalled
      /\ voters = VotersAtStart
      /\ handlers = [n \in Quorum |-> {}]
  BY DEF Init
<1> QED  BY <1>1, <1>2, StartAssumption DEF VotesInit, IsFinal

LEMMA ContractVotes ==
    ASSUME IInv, NEW v \in Quorum, VoteNext(v)
    PROVE  VotesNext
<1>1. ASSUME NEW i \in Indices, BeginVote(v, i)
      PROVE  VotesNext
  BY <1>1 DEF BeginVote, VotesNext
<1>2. ASSUME NEW h \in handlers[v], FinishVote(v, h)
      PROVE  VotesNext
  BY <1>2 DEF FinishVote, VotesNext
<1>3. CASE Disable(v)
  BY <1>3 DEF Disable, VotesNext
<1>4. CASE Restart(v)
  <2>1. {} \in SUBSET handlers[v] /\ Abandon(v, {})
    BY <1>4 DEF Restart
  <2> QED  BY <2>1 DEF VotesNext
<1> QED  BY <1>1, <1>2, <1>3, <1>4 DEF VoteNext

LEMMA ContractPass ==
    ASSUME IInv, NEW n \in Quorum, StartPass(n) \/ PassStep(n)
    PROVE  [VotesNext]_contractVars
<1>1. CASE ReceiveUpgrade(n)
  <2> DEFINE i == collector[n].answer.stat
  <2>1. /\ collector[n].answer.status \in {"OK", "UPGRADE", "none"}
        /\ collector[n].proposal \in Stat
        /\ i \in Stat
    BY DEF IInv, TypeOK, VotesTypeOK, Collector, Answer
  <2>2. GoodPass(n, collector[n])
    BY DEF IInv, PassInv
  <2>3. i > collector[n].proposal /\ IsFinal(i)
    BY <1>1, <2>1, <2>2 DEF ReceiveUpgrade, IsFresher, IsUsable, GoodPass
  <2>4. i >= 0
    BY <2>1, <2>3, VotesAssumption DEF Stat, Indices
  <2> QED  BY <1>1, <2>1, <2>3, <2>4, StatIsSet DEF ReceiveUpgrade, IInv
<1>2. CASE ~ReceiveUpgrade(n)
  BY <1>2
     DEF PassStep, StartPass, Ask, ReceiveSignature, GiveUp, EndPass,
         StoreProof, EndBroadcast, contractVars
<1> QED  BY <1>1, <1>2

LEMMA ContractAnswer ==
    ASSUME IInv, NEW n \in Quorum, NEW m \in Quorum, HandleRequest(n, m)
    PROVE  [VotesNext]_contractVars
<1>1. CASE HandleUpgradeProposal(n, m)
  <2>1. collector[n].proposal \in Stat /\ votingStat[m] \in Stat
    BY DEF IInv, TypeOK, VotesTypeOK, Collector
  <2>2. IsFinal(collector[n].proposal) /\ collector[n].proposal >= 0
    BY <1>1, <2>1, VotesAssumption
       DEF HandleUpgradeProposal, Follows, Stat, Indices
  <2> QED  BY <1>1, <2>1, <2>2, StatIsSet DEF HandleUpgradeProposal, IInv
<1> QED
  BY <1>1 DEF HandleRequest, RespondWithUpgrade, HandleMatchingProposal,
              contractVars

LEMMA ContractStep == IInv /\ [Next]_vars => [VotesNext]_contractVars
<1> SUFFICES ASSUME IInv, [Next]_vars
             PROVE  [VotesNext]_contractVars
  OBVIOUS
<1>1. CASE UNCHANGED vars
  BY <1>1 DEF vars, contractVars
<1>2. ASSUME NEW m \in Quorum, NEW i \in Indices, HandleLateRequest(m, i)
      PROVE  VotesNext
  BY <1>2 DEF HandleLateRequest, Follows, SetStat, VotesNext, voteVars
<1>3. ASSUME NEW m \in Quorum, NEW b \in broadcast, AcceptProof(m, b)
      PROVE  VotesNext
  <2>1. b.proof.index \in Stat /\ IsFinal(b.proof.index)
    BY DEF IInv, TypeOK, BroadcastInv, Broadcast, Proof
  <2> QED  BY <1>3, <2>1, StatIsSet DEF AcceptProof, Verifies, IInv
<1> QED
  BY <1>1, <1>2, <1>3, BoundAssumption, ContractVotes, ContractPass,
     ContractAnswer DEF Next

\* The rotation treats the votes and the stats as BlockFinalization does: it
\* begins and ends votes no differently, and every stat that a collector or
\* a route writes is one that the contract lets it write.
THEOREM KeepsContract == Spec => ImplementsChainVotes
<1>1. Init => VotesInit
  BY ContractInit
<1>2. IInv /\ [Next]_vars => [VotesNext]_contractVars
  BY ContractStep
<1> QED
  BY <1>1, <1>2, Invariant, PTL DEF Spec, ImplementsChainVotes, VotesSpec

\* What the contract promises therefore holds while the creator is rotated
\* out: upgrades, accepted proofs and late requests that move the stats do
\* not bring votes back.
THEOREM RotationKeepsFreeze == Spec => VotesFreeze
BY KeepsContract, ContractFreezes DEF ImplementsChainVotes
=============================================================================
