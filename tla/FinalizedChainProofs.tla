----------------------- MODULE FinalizedChainProofs -------------------------
(***************************************************************************)
(* BlockFinalization implements FinalizedChain, for every quorum and every *)
(* bound: a vote that completes a majority makes a block final, the write  *)
(* of the grabber advances the creator, its restart recovers it, and all   *)
(* other steps stutter.                                                    *)
(***************************************************************************)
EXTENDS BlockFinalizationProofs

\* Below a signed block everything is final.
PrefixInv ==
    \A p \in finalizationProofs : \A j \in Indices :
        j < p.index => FinalHashes(j) # {}

\* No two blocks of the chain have one hash.
DistinctInv ==
    \A i, j \in Indices :
        i < j /\ j < generation.nextIndex => Chain[i].hash # Chain[j].hash

RefinementInv == IInv /\ PrefixInv /\ DistinctInv

-----------------------------------------------------------------------------
(***************************************************************************)
(* What is final in one state.                                             *)
(***************************************************************************)
LEMMA SignedIsOfChain ==
    ASSUME IInv, NEW p \in finalizationProofs
    PROVE  /\ p.index \in Indices /\ p.index < generation.nextIndex
           /\ p.hash = Chain[p.index].hash
           /\ p.prev = HashAt(Chain, p.index - 1)
           /\ p.hash \in Hashes
<1>1. /\ p.index \in Indices /\ Chain[p.index].index = p.index
      /\ p.hash = Chain[p.index].hash
      /\ p.prev = HashAt(Chain, p.index - 1)
  BY DEF IInv, ProofsInv, GoodProof, Exists
<1>2. p.index < generation.nextIndex
  BY <1>1, BoundAssumption DEF IInv, ChainInv, NoBlock, Indices
<1> QED  BY <1>1, <1>2 DEF IInv, ChainInv

\* A majority of signatures over anything at height i makes block i final.
LEMMA MajorityMakesFinal ==
    ASSUME NEW prev, NEW i, NEW hash,
           Cardinality(Signers(prev, i, hash)) >= Majority
    PROVE  FinalHashes(i) # {}
<1>1. Signers(prev, i, hash) # {}
  BY MajorityFacts, FS_EmptySet
<1>2. PICK q \in finalizationProofs :
        q.prev = prev /\ q.index = i /\ q.hash = hash
  BY <1>1 DEF Signers, SignersIn
<1>3. hash \in FinalHashes(i)
  BY <1>2 DEF FinalHashes
<1> QED  BY <1>3

LEMMA FinalHasProof ==
    ASSUME NEW i, NEW hash \in FinalHashes(i)
    PROVE  \E q \in finalizationProofs :
              /\ q.index = i /\ q.hash = hash
              /\ Cardinality(Signers(q.prev, i, q.hash)) >= Majority
BY DEF FinalHashes

\* The block of the chain is the final one, if there is a final one.
IsOfChain(i) ==
    IF FinalHashes(i) = {} THEN FinalHash(i) = EmptyHash
    ELSE /\ FinalHash(i) = Chain[i].hash
         /\ FinalHash(i) \in Hashes
         /\ FinalHash(i) # EmptyHash
         /\ i < generation.nextIndex

LEMMA FinalHashIs ==
    ASSUME IInv, NEW i \in Indices
    PROVE  IsOfChain(i)
<1>1. CASE FinalHashes(i) = {}
  BY <1>1 DEF FinalHash, IsOfChain
<1>2. CASE FinalHashes(i) # {}
  <2>1. FinalHash(i) \in FinalHashes(i)
    BY <1>2 DEF FinalHash
  <2>2. PICK q \in finalizationProofs : q.index = i /\ q.hash = FinalHash(i)
    BY <2>1, FinalHasProof
  <2> QED  BY <1>2, <2>2, SignedIsOfChain, HashAssumption DEF IsOfChain
<1> QED  BY <1>1, <1>2

LEMMA FinalHashIsNext ==
    ASSUME NEW i \in Indices
    PROVE  IInv' => IsOfChain(i)'
<1>1. IInv => IsOfChain(i)
  BY FinalHashIs
<1> QED  BY <1>1, PTL

-----------------------------------------------------------------------------
(***************************************************************************)
(* What a step makes final.                                                *)
(***************************************************************************)
LEMMA ProofsChange ==
    ASSUME IInv, [Next]_vars
    PROVE  \/ finalizationProofs' = finalizationProofs
           \/ \E v \in Quorum : \E h \in handlers[v] : FinishVote(v, h)
BY QuorumAssumption
   DEF Next, CreatorNext, GenerateBlock, ShareBlock, RoundTimesOut,
   RoundCollects, RoundSucceeds, PersistGrabber, PersistGrabberFails,
   RestartCreator, VoterNext, BeginVote, PartialVote, RestartVoter,
   HealthNext, HealthRead, HealthEvaluate, vars, networkVars

LEMMA SameProofs ==
    ASSUME finalizationProofs' = finalizationProofs, NEW i
    PROVE  /\ FinalHashes(i)' = FinalHashes(i)
           /\ FinalHash(i)' = FinalHash(i)
<1>1. FinalHashes(i)' = FinalHashes(i)
  BY DEF FinalHashes, Signers
<1> QED  BY <1>1 DEF FinalHash

\* The signature a handler issues, and what its request was worth.
LEMMA NewProof ==
    ASSUME IInv, NEW v \in Quorum, NEW h \in handlers[v], FinishVote(v, h)
    PROVE  LET p == FinalizationProof(v, h.request)
           IN  /\ finalizationProofs' = finalizationProofs \cup {p}
               /\ p.index \in Indices
               /\ p.index <= Durable + 2
               /\ UNCHANGED <<grabber, storedGrabber, generation>>
               /\ p.index > 0 => FinalHashes(p.index - 1) # {}
<1> DEFINE r == h.request
           i == r.block.index
<1>1. FinalizationProof(v, r).index = i
  BY DEF FinalizationProof
<1>2. GoodRequest(r, Chain, finalizationProofs, Durable)
  BY DEF IInv, HandlersInv, RequestsInv
<1>3. i \in Indices /\ i <= Durable + 2
  BY <1>2 DEF GoodRequest, Exists
<1>4. ASSUME i > 0
      PROVE  FinalHashes(i - 1) # {}
  <2>1. i - 1 \in Indices
    BY <1>3, <1>4, BoundAssumption DEF Indices
  <2>2. IsFinal(i - 1)
    BY <1>2, <2>1, FinalWhenCertified DEF GoodRequest
  <2> QED  BY <2>2, MajorityMakesFinal DEF IsFinal, MajoritySigned
<1> QED  BY <1>1, <1>3, <1>4 DEF FinishVote, creatorVars

LEMMA FinalStays ==
    ASSUME IInv, IInv', [Next]_vars, NEW i, FinalHashes(i) # {}
    PROVE  FinalHashes(i)' # {}
<1>1. PICK q \in finalizationProofs :
        q.index = i /\ Cardinality(Signers(q.prev, i, q.hash)) >= Majority
  BY FinalHasProof
<1>2. finalizationProofs \subseteq finalizationProofs'
  BY ProofsChange, NewProof
<1>3. /\ Signers(q.prev, i, q.hash) \in SUBSET Quorum
      /\ Signers(q.prev, i, q.hash)' \in SUBSET Quorum
  BY SignersType DEF IInv, TypeOK, Signers
<1>4. Signers(q.prev, i, q.hash) \subseteq Signers(q.prev, i, q.hash)'
  BY <1>2, SignersGrow DEF Signers
<1>5. Cardinality(Signers(q.prev, i, q.hash))
        <= Cardinality(Signers(q.prev, i, q.hash)')
  BY <1>3, <1>4, BiggerCount
<1>6. Cardinality(Signers(q.prev, i, q.hash)') >= Majority
  BY <1>1, <1>3, <1>5, QuorumSubsets, MajorityFacts
<1> QED  BY <1>1, <1>2, <1>6 DEF FinalHashes

-----------------------------------------------------------------------------
(***************************************************************************)
(* The two additions to the invariant.                                     *)
(***************************************************************************)
LEMMA ChainChange ==
    ASSUME IInv, [Next]_vars
    PROVE  \/ Chain' = Chain /\ generation' = generation
           \/ GenerateBlock
<1> USE QuorumAssumption
<1>1. ASSUME NEW v \in Quorum, NEW h \in handlers[v],
             FinishVote(v, h) \/ PartialVote(v, h)
      PROVE  Chain' = Chain /\ generation' = generation
  <2>1. /\ BLOCKS' = StoreBlock(v, h.request.block)
        /\ EPOCH_DATA' \in {EPOCH_DATA, StorePreviousAfp(v, h.request.afp)}
        /\ generation' = generation
    BY <1>1 DEF FinishVote, PartialVote, creatorVars
  <2> QED  BY <2>1, HandlerStoresGood DEF Chain
<1>2. CASE RestartCreator
  BY <1>2 DEF RestartCreator, storeVars, IInv, ChainInv, Chain
<1>3. CASE CreatorNext /\ ~GenerateBlock /\ ~RestartCreator
  BY <1>3 DEF CreatorNext, ShareBlock, RoundTimesOut, RoundCollects,
              RoundSucceeds, PersistGrabber, PersistGrabberFails, storeVars,
              Chain
<1>4. ASSUME NEW v \in Quorum,
             \/ \E request \in requests : BeginVote(v, request)
             \/ RestartVoter(v)
             \/ HealthNext(v)
      PROVE  Chain' = Chain /\ generation' = generation
  BY <1>4 DEF BeginVote, RestartVoter, HealthNext, HealthRead,
              HealthEvaluate, creatorVars, storeVars, Chain
<1>5. CASE UNCHANGED vars
  BY <1>5 DEF vars, creatorVars, storeVars, Chain
<1> QED  BY <1>1, <1>2, <1>3, <1>4, <1>5 DEF Next, VoterNext

LEMMA DistinctStep ==
    ASSUME IInv, TypeOK', DistinctInv, [Next]_vars
    PROVE  DistinctInv'
<1>1. CASE Chain' = Chain /\ generation' = generation
  BY <1>1 DEF DistinctInv
<1>2. CASE GenerateBlock
  <2> DEFINE new == generation.nextIndex
  <2>1. PICK hash \in Hashes :
          /\ FreshHash(hash)
          /\ BLOCKS' = [BLOCKS EXCEPT ![Creator][new] = NewBlock(hash)]
          /\ generation' = [nextIndex |-> new + 1, prevHash |-> hash]
    BY <1>2 DEF GenerateBlock, StoreGeneration
  <2>2. new \in Indices /\ new \in Int
    BY <1>2, BoundAssumption
       DEF GenerateBlock, IInv, TypeOK, Generation, Indices
  <2>3. /\ \A i \in Indices : i # new => Chain'[i] = Chain[i]
        /\ Chain'[new].hash = hash
    BY <2>1, <2>2, QuorumAssumption DEF Chain, IInv, TypeOK, NewBlock
  <2>4. \A i \in Indices : Chain[i].hash # hash
    BY <2>1, QuorumAssumption DEF FreshHash, Chain
  <2>5. generation'.nextIndex = new + 1
    BY <2>1
  <2> SUFFICES ASSUME NEW i \in Indices, NEW j \in Indices,
                      i < j, j < new + 1
               PROVE  Chain'[i].hash # Chain'[j].hash
    BY <2>5 DEF DistinctInv
  <2>6. i # new /\ i \in Int /\ j \in Int
    BY <2>2 DEF Indices
  <2>7. CASE j = new
    BY <2>3, <2>4, <2>6, <2>7
  <2>8. CASE j # new
    <3>1. j < new
      BY <2>2, <2>6, <2>8
    <3> QED  BY <2>3, <2>6, <2>8, <3>1 DEF DistinctInv
  <2> QED  BY <2>7, <2>8
<1> QED  BY <1>1, <1>2, ChainChange

LEMMA PrefixStep ==
    ASSUME IInv, IInv', PrefixInv, [Next]_vars
    PROVE  PrefixInv'
<1> SUFFICES ASSUME NEW p \in finalizationProofs', NEW j \in Indices,
                    j < p.index
             PROVE  FinalHashes(j)' # {}
  BY DEF PrefixInv
<1>1. SUFFICES FinalHashes(j) # {}
  BY FinalStays
<1>2. CASE p \in finalizationProofs
  BY <1>2 DEF PrefixInv
<1>3. CASE p \notin finalizationProofs
  <2>1. PICK v \in Quorum : \E h \in handlers[v] : FinishVote(v, h)
    BY <1>3, ProofsChange
  <2>2. PICK h \in handlers[v] : FinishVote(v, h)
    BY <2>1
  <2>3. /\ p.index \in Indices
        /\ p.index > 0 => FinalHashes(p.index - 1) # {}
    BY <1>3, <2>2, NewProof
  <2>4. j <= p.index - 1 /\ p.index > 0 /\ p.index - 1 \in Indices
    BY <2>3, BoundAssumption DEF Indices
  <2>5. PICK q \in finalizationProofs : q.index = p.index - 1
    BY <2>3, <2>4, FinalHasProof
  <2>6. CASE j = p.index - 1
    BY <2>3, <2>4, <2>6
  <2>7. CASE j < p.index - 1
    BY <2>5, <2>7 DEF PrefixInv
  <2>8. j = p.index - 1 \/ j < p.index - 1
    BY <2>4, BoundAssumption DEF Indices
  <2> QED  BY <2>6, <2>7, <2>8
<1> QED  BY <1>2, <1>3

LEMMA RefinementInvInit == Init => RefinementInv
BY InvariantInit, BoundAssumption
   DEF Init, RefinementInv, PrefixInv, DistinctInv, FreshGeneration, Indices

LEMMA RefinementInvStep == RefinementInv /\ [Next]_vars => RefinementInv'
BY InvariantStep, TypeStep, DistinctStep, PrefixStep
   DEF RefinementInv, IInv

-----------------------------------------------------------------------------
(***************************************************************************)
(* The simulation.                                                         *)
(***************************************************************************)
LEMMA InitSimulates == Init => Abstract!Init
<1> SUFFICES ASSUME Init PROVE Abstract!Init
  OBVIOUS
<1>1. \A i \in Indices : FinalHash(i) = EmptyHash
  BY DEF Init, FinalHash, FinalHashes
<1>2. grabber.acceptedIndex = -1 /\ storedGrabber.acceptedIndex = -1
  BY DEF Init, FreshGrabber
<1> QED  BY <1>1, <1>2 DEF Abstract!Init, Abstract!Heights, Indices

LEMMA GrabbersChange ==
    ASSUME [Next]_vars
    PROVE  \/ grabber' = grabber /\ storedGrabber' = storedGrabber
           \/ PersistGrabber
           \/ RestartCreator
BY DEF Next, CreatorNext, GenerateBlock, ShareBlock, RoundTimesOut,
   RoundCollects, RoundSucceeds, PersistGrabberFails, VoterNext, BeginVote,
   FinishVote, PartialVote, RestartVoter, HealthNext, HealthRead,
   HealthEvaluate, vars, creatorVars

\* What the creator does to its grabber, seen from outside.
LEMMA GrabberSimulates ==
    ASSUME RefinementInv, [Next]_vars,
           finalizationProofs' = finalizationProofs
    PROVE  [Abstract!Next]_(Abstract!chainVars)
<1> DEFINE tip == grabber.acceptedIndex
<1>1. /\ IInv /\ TypeOK
      /\ [i \in Indices |-> FinalHash(i)'] = [i \in Indices |-> FinalHash(i)]
  BY SameProofs DEF RefinementInv, IInv
<1>2. CASE PersistGrabber
  <2>1. /\ grabber'.acceptedIndex = tip + 1
        /\ storedGrabber'.acceptedIndex = tip
    BY <1>2 DEF PersistGrabber, HuntedIndex
  <2>2. /\ HuntedIndex \in Indices
        /\ FinalHashes(HuntedIndex) # {}
    <3>1. /\ Cardinality(proofsCache) >= Majority
          /\ proofsCache \subseteq UsefulAnswers
          /\ blockToShare.index = HuntedIndex
      BY <1>1, <1>2 DEF PersistGrabber, IInv, ShareInv
    <3>2. UsefulAnswers \in SUBSET Quorum /\ proofsCache \in SUBSET Quorum
      BY <1>1, UsefulAnswersType DEF TypeOK
    <3>3. Cardinality(proofsCache) <= Cardinality(UsefulAnswers)
      BY <3>1, <3>2, BiggerCount
    <3>4. Cardinality(UsefulAnswers) >= Majority
      BY <3>1, <3>2, <3>3, QuorumSubsets, MajorityFacts
    <3>5. FinalHashes(HuntedIndex) # {}
      BY <3>4, MajorityMakesFinal DEF UsefulAnswers
    <3> QED  BY <1>1, <3>1, <3>5, HuntedExists DEF IInv
  <2>3. FinalHash(tip + 1) # EmptyHash
    BY <1>1, <2>2, FinalHashIs DEF HuntedIndex, IsOfChain
  <2>4. Abstract!Advance
    BY <1>1, <2>1, <2>2, <2>3
       DEF Abstract!Advance, Abstract!Heights, HuntedIndex, Indices
  <2> QED  BY <2>4 DEF Abstract!Next
<1>3. CASE RestartCreator
  <2>1. /\ grabber'.acceptedIndex = storedGrabber.acceptedIndex
        /\ storedGrabber' = storedGrabber
    BY <1>3 DEF RestartCreator
  <2>2. Abstract!Recover
    BY <1>1, <2>1 DEF Abstract!Recover
  <2> QED  BY <2>2 DEF Abstract!Next
<1>4. CASE grabber' = grabber /\ storedGrabber' = storedGrabber
  BY <1>1, <1>4 DEF Abstract!chainVars
<1> QED  BY <1>2, <1>3, <1>4, GrabbersChange

\* A vote completes a majority for one block, or for none.
LEMMA VoteSimulates ==
    ASSUME RefinementInv, RefinementInv', [Next]_vars,
           NEW v \in Quorum, NEW h \in handlers[v], FinishVote(v, h)
    PROVE  [Abstract!Next]_(Abstract!chainVars)
<1> DEFINE p == FinalizationProof(v, h.request)
           i == p.index
<1>1. /\ IInv /\ IInv' /\ PrefixInv' /\ DistinctInv'
  BY DEF RefinementInv
<1>2. /\ finalizationProofs' = finalizationProofs \cup {p}
      /\ i \in Indices
      /\ i <= Durable + 2
      /\ UNCHANGED <<grabber, storedGrabber, generation>>
  BY <1>1, NewProof
<1> HIDE DEF p
<1>3. ASSUME NEW j \in Indices, j # i
      PROVE  FinalHash(j)' = FinalHash(j)
  <2>1. \A prev, hash : Signers(prev, j, hash)' = Signers(prev, j, hash)
    BY <1>2, <1>3 DEF Signers, SignersIn
  <2>2. FinalHashes(j)' = FinalHashes(j)
    BY <1>2, <1>3, <2>1 DEF FinalHashes
  <2> QED  BY <2>2 DEF FinalHash
<1>4. Chain' = Chain
  <2>1. ~GenerateBlock
    <3> SUFFICES ASSUME GenerateBlock PROVE FALSE
      OBVIOUS
    <3>1. generation'.nextIndex = generation.nextIndex + 1
      BY DEF GenerateBlock, StoreGeneration
    <3>2. generation.nextIndex \in Int
      BY <1>1 DEF IInv, TypeOK, Generation
    <3> QED  BY <1>2, <3>1, <3>2
  <2> QED  BY <1>1, <2>1, ChainChange
<1>5. CASE FinalHashes(i) # {} \/ FinalHashes(i)' = {}
  <2>1. FinalHash(i)' = FinalHash(i)
    <3>1. CASE FinalHashes(i)' = {}
      <4>1. FinalHashes(i) = {}
        BY <1>1, <3>1, FinalStays
      <4> QED  BY <3>1, <4>1 DEF FinalHash
    <3>2. CASE FinalHashes(i) # {}
      <4>1. FinalHashes(i)' # {}
        BY <1>1, <3>2, FinalStays
      <4>2. FinalHash(i) = Chain[i].hash
        BY <1>1, <1>2, <3>2, FinalHashIs DEF IsOfChain
      <4>3. FinalHash(i)' = Chain'[i].hash
        BY <1>1, <1>2, <4>1, FinalHashIsNext DEF IsOfChain
      <4> QED  BY <1>4, <4>2, <4>3
    <3> QED  BY <1>5, <3>1, <3>2
  <2>2. \A j \in Indices : FinalHash(j)' = FinalHash(j)
    BY <1>3, <2>1
  <2>3. [j \in Indices |-> FinalHash(j)'] = [j \in Indices |-> FinalHash(j)]
    BY <2>2
  <2> QED  BY <1>2, <2>3 DEF Abstract!chainVars
<1>6. CASE FinalHashes(i) = {} /\ FinalHashes(i)' # {}
  <2> DEFINE hash == FinalHash(i)'
  <2>1. /\ FinalHash(i) = EmptyHash
        /\ hash = Chain'[i].hash /\ hash \in Hashes
        /\ i < generation'.nextIndex
    BY <1>1, <1>2, <1>6, FinalHashIs, FinalHashIsNext DEF IsOfChain
  <2>2. PICK q \in finalizationProofs' : q.index = i
    BY <1>6 DEF FinalHashes
  <2>3. ASSUME NEW j \in Indices, j < i
        PROVE  FinalHash(j) # EmptyHash
    <3>1. j # i
      BY <1>2, <2>3 DEF Indices
    <3>2. FinalHashes(j)' # {}
      BY <1>1, <2>2, <2>3 DEF PrefixInv
    <3>3. FinalHash(j)' # EmptyHash
      BY <1>1, <3>2, FinalHashIsNext DEF IsOfChain
    <3> QED  BY <1>3, <3>1, <3>3
  <2>6. hash # EmptyHash
    BY <1>1, <1>2, <1>6, FinalHashIsNext DEF IsOfChain
  <2>7. ASSUME NEW j \in Indices
        PROVE  FinalHash(j) # hash
    <3>1. CASE j = i
      BY <2>1, <2>6, <3>1
    <3>2. CASE j # i /\ FinalHashes(j)' = {}
      <4>1. FinalHash(j)' = EmptyHash
        BY <1>1, <3>2, FinalHashIsNext DEF IsOfChain
      <4> QED  BY <1>3, <2>6, <3>2, <4>1
    <3>3. CASE j # i /\ FinalHashes(j)' # {}
      <4>1. FinalHash(j)' = Chain'[j].hash /\ j < generation'.nextIndex
        BY <1>1, <3>3, FinalHashIsNext DEF IsOfChain
      <4>2. i < j \/ j < i
        BY <1>2, <3>3 DEF Indices
      <4>3. Chain'[j].hash # Chain'[i].hash
        BY <1>1, <1>2, <2>1, <4>1, <4>2 DEF DistinctInv
      <4> QED  BY <1>3, <2>1, <3>3, <4>1, <4>3
    <3> QED  BY <3>1, <3>2, <3>3
  <2>4. [j \in Indices |-> FinalHash(j)']
           = [[j \in Indices |-> FinalHash(j)] EXCEPT ![i] = hash]
    BY <1>2, <1>3
  <2> HIDE DEF hash, i
  <2>5. Abstract!Finalize(i, hash)
    <3>1. [j \in Indices |-> FinalHash(j)][i] = EmptyHash
      BY <1>2, <2>1
    <3>2. \A j \in Abstract!Heights :
            /\ j < i => [k \in Indices |-> FinalHash(k)][j] # EmptyHash
            /\ [k \in Indices |-> FinalHash(k)][j] # hash
      BY <2>3, <2>7 DEF Abstract!Heights, Indices
    <3>3. i <= storedGrabber.acceptedIndex + 2
      BY <1>2 DEF Durable
    <3>4. UNCHANGED <<grabber.acceptedIndex, storedGrabber.acceptedIndex>>
      BY <1>2
    <3> QED  BY <2>4, <3>1, <3>2, <3>3, <3>4 DEF Abstract!Finalize
  <2> QED  BY <1>2, <2>1, <2>5
           DEF Abstract!Next, Abstract!Heights, Indices
<1> QED  BY <1>5, <1>6

\* The detailed protocol implements the abstract chain: a final block is
\* final for ever and on top of a final one, at most one is final beyond the
\* one a restarted creator would ask for, and a restart takes the creator
\* back by one block at most.
THEOREM Refinement == Spec => ImplementsFinalizedChain
<1>1. RefinementInv /\ RefinementInv' /\ [Next]_vars
        => [Abstract!Next]_(Abstract!chainVars)
  BY GrabberSimulates, VoteSimulates, ProofsChange DEF RefinementInv
<1>2. Spec => []RefinementInv
  BY RefinementInvInit, RefinementInvStep, PTL DEF Spec
<1> QED
  BY <1>1, <1>2, InitSimulates, PTL
     DEF Spec, ImplementsFinalizedChain, Abstract!Spec

-----------------------------------------------------------------------------
(***************************************************************************)
(* The contract of the votes.  Only the health checker needs more than the *)
(* invariant: that what it has observed is final.                          *)
(***************************************************************************)
VotesStep == [Votes!VotesNext]_(Votes!contractVars)

\* The instance counts with the same operators.
LEMMA SameCount ==
    ASSUME NEW S
    PROVE  Votes!Cardinality(S) = Cardinality(S)
BY Zenon DEF Votes!Cardinality, Cardinality

LEMMA SameMajority == Votes!Majority = Majority
<1>1. \A n : Votes!MajorityOf(n) = MajorityOf(n)
  BY Zenon DEF Votes!MajorityOf, MajorityOf
<1> QED
  BY <1>1, SameCount
     DEF Votes!Majority, Majority, Votes!GetQuorumMajority, GetQuorumMajority

\* A majority for one hash is a majority of voters.
LEMMA SignedIsVotedFor ==
    ASSUME TypeOK, NEW i \in Indices, NEW hash, MajoritySigned(i, hash)
    PROVE  Votes!IsFinal(i)
<1>1. PICK prev \in Hash : Cardinality(Signers(prev, i, hash)) >= Majority
  BY DEF MajoritySigned
<1>2. /\ Signers(prev, i, hash) \in SUBSET Quorum
      /\ VotersOf(i) \in SUBSET Quorum
      /\ Signers(prev, i, hash) \subseteq VotersOf(i)
  BY DEF TypeOK, Proof, Signers, SignersIn, VotersOf
<1>3. Cardinality(Signers(prev, i, hash)) <= Cardinality(VotersOf(i))
  BY <1>2, BiggerCount
<1>4. Cardinality(VotersOf(i)) >= Majority
  BY <1>1, <1>2, <1>3, QuorumSubsets, MajorityFacts
<1> QED  BY <1>4, SameCount, SameMajority DEF Votes!IsFinal

LEMMA HandlerVote ==
    ASSUME IInv, NEW v \in Quorum, NEW h \in handlers[v]
    PROVE  /\ VoteOf(h).index = h.request.block.index
           /\ VoteOf(h).index \in Indices
<1>1. GoodRequest(h.request, Chain, finalizationProofs, Durable)
  BY DEF IInv, HandlersInv, RequestsInv
<1> QED  BY <1>1 DEF GoodRequest, Exists, VoteOf

LEMMA VotesInitially == Init => Votes!VotesInit
<1> SUFFICES ASSUME Init PROVE Votes!VotesInit
  OBVIOUS
<1>1. \A v \in Quorum : /\ votingStat[v].index = -1
                        /\ ~disabled[v]
                        /\ handlers[v] = {}
  BY DEF Init, StatTemplate
<1>2. \A i \in Indices : VotersOf(i) = {}
  BY DEF Init, VotersOf
<1>3. /\ {v \in Quorum : disabled[v]} = {}
      /\ [v \in Quorum |-> {VoteOf(h) : h \in handlers[v]}]
           = [v \in Quorum |-> {}]
  BY <1>1
<1>4. Votes!VotesTypeOK
  BY <1>1, <1>2, <1>3 DEF Votes!VotesTypeOK, Votes!Stat, Votes!Indices, Indices
<1> QED
  BY <1>1, <1>2, <1>3, <1>4 DEF Votes!VotesInit, Votes!Indices, Indices

LEMMA BeginSimulates ==
    ASSUME IInv, NEW v \in Quorum, NEW request \in requests,
           BeginVote(v, request)
    PROVE  Votes!VotesNext
<1> DEFINE i == request.block.index
           h == [request |-> request, local |-> votingStat[v]]
<1>1. /\ ~disabled[v]
      /\ ItsSameChainSegment(votingStat[v], request.block)
      /\ handlers' = [handlers EXCEPT ![v] = handlers[v] \cup {h}]
      /\ UNCHANGED <<votingStat, disabled, finalizationProofs>>
  BY DEF BeginVote, storeVars, networkVars
<1>2. GoodRequest(request, Chain, finalizationProofs, Durable)
  BY DEF IInv, RequestsInv
<1>3. i \in Indices
  BY <1>2 DEF GoodRequest, Exists
<1>4. votingStat[v].index \in Indices \cup {-1}
  BY DEF IInv, TypeOK, VotingStat
<1>5. votingStat[v].index <= i
  BY <1>1, <1>3, <1>4 DEF ItsSameChainSegment, Indices
<1>6. ASSUME i > 0
      PROVE  Votes!IsFinal(i - 1)
  <2>1. i - 1 \in Indices
    BY <1>3, <1>6, BoundAssumption DEF Indices
  <2>2. IsFinal(i - 1)
    BY <1>2, <2>1, FinalWhenCertified DEF GoodRequest
  <2> QED  BY <2>1, <2>2, SignedIsVotedFor DEF IsFinal, IInv
<1>7. VoteOf(h) = [index |-> i,
                   stat  |-> Votes!FutureStat(votingStat[v].index, i)]
  BY DEF VoteOf, FutureVotingStat, Votes!FutureStat
<1> HIDE DEF h, i
<1>8. [w \in Quorum |-> {VoteOf(g) : g \in handlers'[w]}]
        = [[w \in Quorum |-> {VoteOf(g) : g \in handlers[w]}] EXCEPT
             ![v] = @ \cup {VoteOf(h)}]
  BY <1>1 DEF IInv, TypeOK
<1>9. Votes!Begin(v, i)
  <2>1. \A j : VotersOf(j)' = VotersOf(j)
    BY <1>1 DEF VotersOf
  <2>2. \A g : VoteOf(g)' = VoteOf(g)
    BY DEF VoteOf, FutureVotingStat
  <2> QED  BY <1>1, <1>5, <1>6, <1>7, <1>8, <2>1, <2>2 DEF Votes!Begin
<1> QED  BY <1>3, <1>9 DEF Votes!VotesNext, Votes!Indices, Indices

LEMMA FinishSimulates ==
    ASSUME IInv, NEW v \in Quorum, NEW h \in handlers[v], FinishVote(v, h)
    PROVE  Votes!VotesNext
<1> DEFINE vote == VoteOf(h)
           p == FinalizationProof(v, h.request)
<1>1. /\ votingStat' = [votingStat EXCEPT ![v] = FutureVotingStat(h)]
      /\ finalizationProofs' = finalizationProofs \cup {p}
      /\ handlers' = [handlers EXCEPT ![v] = handlers[v] \ {h}]
      /\ disabled' = disabled
  BY DEF FinishVote
<1>2. /\ p.voter = v /\ p.index = vote.index
      /\ vote.index \in Indices
      /\ vote.stat = FutureVotingStat(h).index
  BY HandlerVote DEF FinalizationProof, VoteOf
<1> HIDE DEF p
<1>3. [w \in Quorum |-> votingStat'[w].index]
        = [[w \in Quorum |-> votingStat[w].index] EXCEPT ![v] = vote.stat]
  BY <1>1, <1>2 DEF IInv, TypeOK
<1>4. [j \in Indices |-> VotersOf(j)']
        = [[j \in Indices |-> VotersOf(j)] EXCEPT
             ![vote.index] = @ \cup {v}]
  <2>1. ASSUME NEW j \in Indices
        PROVE  VotersOf(j)' = IF j = vote.index THEN VotersOf(j) \cup {v}
                              ELSE VotersOf(j)
    BY <1>1, <1>2 DEF VotersOf
  <2> HIDE DEF vote
  <2> QED  BY <1>2, <2>1
<1> DEFINE votes == {VoteOf(g) : g \in handlers[v]}
           left  == {VoteOf(g) : g \in handlers'[v]}
<1>5. left \in {votes, votes \ {vote}}
  <2>1. handlers'[v] = handlers[v] \ {h}
    BY <1>1 DEF IInv, TypeOK
  <2>2. left \subseteq votes /\ votes \ {vote} \subseteq left
    BY <2>1
  <2> QED  BY <2>2
<1>6. [w \in Quorum |-> {VoteOf(g) : g \in handlers'[w]}]
        = [[w \in Quorum |-> {VoteOf(g) : g \in handlers[w]}] EXCEPT
             ![v] = left]
  BY <1>1 DEF IInv, TypeOK
<1>7. vote \in votes
  OBVIOUS
<1>8. \A g : VoteOf(g)' = VoteOf(g)
  BY DEF VoteOf, FutureVotingStat
<1> HIDE DEF vote
<1>9. Votes!Finish(v, vote)
  BY <1>1, <1>3, <1>4, <1>5, <1>6, <1>8 DEF Votes!Finish
<1> QED  BY <1>7, <1>9 DEF Votes!VotesNext

\* Handlers that end without a vote.
LEMMA AbandonSimulates ==
    ASSUME IInv, NEW v \in Quorum,
           UNCHANGED <<votingStat, disabled, finalizationProofs>>,
           NEW rest \in SUBSET handlers[v],
           handlers' = [handlers EXCEPT ![v] = rest]
    PROVE  Votes!VotesNext
<1> DEFINE left == {VoteOf(g) : g \in rest}
<1>1. left \in SUBSET {VoteOf(g) : g \in handlers[v]}
  OBVIOUS
<1>2. [w \in Quorum |-> {VoteOf(g) : g \in handlers'[w]}]
        = [[w \in Quorum |-> {VoteOf(g) : g \in handlers[w]}] EXCEPT
             ![v] = left]
  BY DEF IInv, TypeOK
<1>3. /\ \A j : VotersOf(j)' = VotersOf(j)
      /\ \A g : VoteOf(g)' = VoteOf(g)
  BY DEF VotersOf, VoteOf, FutureVotingStat
<1>4. Votes!Abandon(v, left)
  BY <1>2, <1>3 DEF Votes!Abandon
<1> QED  BY <1>1, <1>4 DEF Votes!VotesNext

LEMMA SameVotes ==
    ASSUME UNCHANGED <<votingStat, disabled, finalizationProofs, handlers>>
    PROVE  UNCHANGED Votes!contractVars
<1>1. /\ \A j : VotersOf(j)' = VotersOf(j)
      /\ \A g : VoteOf(g)' = VoteOf(g)
  BY DEF VotersOf, VoteOf, FutureVotingStat
<1> QED  BY <1>1 DEF Votes!contractVars, Votes!voteVars

LEMMA FlagSimulates ==
    ASSUME IInv, HealthJudgesFinalized, NEW v \in Quorum, HealthEvaluate(v)
    PROVE  VotesStep
<1>1. /\ disabled' \in
              {disabled, [disabled EXCEPT ![v] = disabled[v] \/ Stalled(v)]}
      /\ UNCHANGED <<votingStat, finalizationProofs, handlers>>
  BY DEF HealthEvaluate, networkVars
<1>2. disabled \in [Quorum -> BOOLEAN]
  BY DEF IInv, TypeOK
<1>3. CASE /\ disabled' # disabled
           /\ ~disabled[v] /\ Stalled(v)
  <2> DEFINE i == observed[v].index
  <2>1. i \in Indices /\ MajoritySigned(i, observed[v].hash)
    BY <1>3, BoundAssumption
       DEF IInv, TypeOK, Observation, NoObservation, Stalled,
           HealthJudgesFinalized, Indices
  <2>2. Votes!IsFinal(i)
    BY <2>1, SignedIsVotedFor DEF IInv
  <2>3. {w \in Quorum : disabled'[w]} = {w \in Quorum : disabled[w]} \cup {v}
    BY <1>1, <1>2, <1>3
  <2>4. /\ \A j : VotersOf(j)' = VotersOf(j)
        /\ \A g : VoteOf(g)' = VoteOf(g)
    BY <1>1 DEF VotersOf, VoteOf, FutureVotingStat
  <2>5. Votes!Flag(v)
    BY <1>1, <1>3, <2>1, <2>2, <2>3, <2>4
       DEF Votes!Flag, Votes!Indices, Indices
  <2> QED  BY <2>5 DEF VotesStep, Votes!VotesNext
<1>4. CASE disabled' = disabled \/ disabled[v] \/ ~Stalled(v)
  <2>1. disabled' = disabled
    BY <1>1, <1>2, <1>4
  <2> QED  BY <1>1, <2>1, SameVotes DEF VotesStep
<1> QED  BY <1>3, <1>4

LEMMA StepKeepsContract ==
    ASSUME IInv, HealthJudgesFinalized, [Next]_vars
    PROVE  VotesStep
<1>1. ASSUME NEW v \in Quorum, NEW request \in requests,
             BeginVote(v, request)
      PROVE  VotesStep
  BY <1>1, BeginSimulates DEF VotesStep
<1>2. ASSUME NEW v \in Quorum, NEW h \in handlers[v], FinishVote(v, h)
      PROVE  VotesStep
  BY <1>2, FinishSimulates DEF VotesStep
<1>3. ASSUME NEW v \in Quorum, NEW h \in handlers[v], PartialVote(v, h)
      PROVE  VotesStep
  <2>1. handlers[v] \ {h} \in SUBSET handlers[v]
    OBVIOUS
  <2> QED  BY <1>3, <2>1, AbandonSimulates
              DEF PartialVote, VotesStep, networkVars
<1>4. ASSUME NEW v \in Quorum, ForgetMemory(v),
             UNCHANGED <<votingStat, disabled, finalizationProofs>>
      PROVE  VotesStep
  <2>1. {} \in SUBSET handlers[v]
    OBVIOUS
  <2> QED  BY <1>4, <2>1, AbandonSimulates DEF ForgetMemory, VotesStep
<1>5. CASE UNCHANGED <<votingStat, disabled, finalizationProofs, handlers>>
  BY <1>5, SameVotes DEF VotesStep
<1>6. ASSUME NEW v \in HealthCheckers, HealthEvaluate(v)
      PROVE  VotesStep
  BY <1>6, FlagSimulates, QuorumAssumption
<1>7. \/ \E v \in Quorum :
           \/ \E request \in requests : BeginVote(v, request)
           \/ \E h \in handlers[v] : FinishVote(v, h) \/ PartialVote(v, h)
           \/ /\ ForgetMemory(v)
              /\ UNCHANGED <<votingStat, disabled, finalizationProofs>>
      \/ \E v \in HealthCheckers : HealthEvaluate(v)
      \/ UNCHANGED <<votingStat, disabled, finalizationProofs, handlers>>
  BY QuorumAssumption
     DEF Next, CreatorNext, GenerateBlock, ShareBlock, RoundTimesOut,
     RoundCollects, RoundSucceeds, PersistGrabber, PersistGrabberFails,
     RestartCreator, VoterNext, RestartVoter, HealthNext, HealthRead,
     vars, storeVars, memoryVars, networkVars
<1> QED  BY <1>1, <1>2, <1>3, <1>4, <1>5, <1>6, <1>7

\* Whatever the rotation of anchors builds on the contract of the votes, the
\* finalization of blocks delivers: it begins and ends votes as the contract
\* says, and sets a health flag only after some block is final.
THEOREM KeepsContract == Spec => ImplementsChainVotes
<1>1. IInv /\ HealthJudgesFinalized /\ [Next]_vars
        => [Votes!VotesNext]_(Votes!contractVars)
  BY StepKeepsContract DEF VotesStep
<1> QED
  BY <1>1, VotesInitially, Invariant, HealthIsSound, PTL
     DEF Spec, ImplementsChainVotes, Votes!VotesSpec

-----------------------------------------------------------------------------
(***************************************************************************)
(* The contract with EpochWindow: what the creator does to its own stores. *)
(***************************************************************************)
LEMMA OwnChainInit == Init => OwnChain!Init
<1> SUFFICES ASSUME Init PROVE OwnChain!Init
  OBVIOUS
<1>1. \A i \in Indices : ~(i < 0) /\ ~OwnChain!Written(i)
  BY QuorumAssumption, BoundAssumption
     DEF Init, Indices, OwnChain!Written
<1>2. 0 \in 0 .. MaxIndex + 1
  BY BoundAssumption
<1>3. grabber.acceptedIndex = -1 /\ storedGrabber.acceptedIndex = -1
  BY DEF Init, FreshGrabber
<1> QED  BY <1>1, <1>2, <1>3 DEF OwnChain!Init, OwnChain!Indices, Indices

\* A generated block is new, and above a final one.
LEMMA GenerateSimulates ==
    ASSUME IInv, GenerateBlock
    PROVE  OwnChain!Next
<1> DEFINE new == generation.nextIndex
<1>1. new \in Indices /\ new \in Int /\ new <= grabber.acceptedIndex + 1
  BY BoundAssumption
     DEF GenerateBlock, ShouldGenerateBlocks, IInv, TypeOK, Generation, Indices
<1>2. grabber' = grabber /\ storedGrabber' = storedGrabber
  BY DEF GenerateBlock
<1>3. Chain[new] = NoBlock
  BY <1>1 DEF IInv, ChainInv
<1>4. PICK hash : BLOCKS' = [BLOCKS EXCEPT ![Creator][new] = NewBlock(hash)]
  BY DEF GenerateBlock
<1>5. NewBlock(hash) # NoBlock
  <2>1. new # -1
    BY <1>1, BoundAssumption DEF Indices
  <2> QED  BY <2>1 DEF NewBlock, NoBlock
<1>6. Chain' = [Chain EXCEPT ![new] = NewBlock(hash)] /\ new \in DOMAIN Chain
  BY <1>1, <1>4, QuorumAssumption DEF IInv, TypeOK, Chain
<1> HIDE DEF new
<1>7. OwnChain!Write(new)
  BY <1>1, <1>2, <1>3, <1>5, <1>6 DEF OwnChain!Write, OwnChain!Written, Chain
<1> QED  BY <1>1, <1>7 DEF OwnChain!Next, OwnChain!Indices, Indices

LEMMA OwnChainStep ==
    ASSUME IInv, [Next]_vars
    PROVE  [OwnChain!Next]_(OwnChain!epochVars)
<1>1. CASE GenerateBlock
  BY <1>1, GenerateSimulates
<1>2. CASE ~GenerateBlock
  <2>1. BLOCKS'[Creator] = BLOCKS[Creator]
    BY <1>2, ChainChange DEF Chain
  <2>2. CASE PersistGrabber
    <3>1. /\ grabber'.acceptedIndex = grabber.acceptedIndex + 1
          /\ storedGrabber'.acceptedIndex = grabber.acceptedIndex
      BY <2>2 DEF PersistGrabber, HuntedIndex
    <3>2. /\ grabber.acceptedIndex + 1 \in Indices
          /\ OwnChain!Written(grabber.acceptedIndex + 1)
      <4>1. /\ blockToShare.index = HuntedIndex
            /\ Cardinality(proofsCache) >= Majority
        BY <2>2 DEF PersistGrabber, IInv, ShareInv
      <4>2. HuntedIndex \in Indices /\ Chain[HuntedIndex].index = HuntedIndex
        BY <4>1, HuntedExists DEF IInv
      <4>3. HuntedIndex # -1
        BY <4>2, BoundAssumption DEF Indices
      <4> QED
        BY <4>2, <4>3 DEF OwnChain!Written, Chain, NoBlock, HuntedIndex
    <3>3. OwnChain!Advance
      BY <2>1, <3>1, <3>2 DEF OwnChain!Advance, OwnChain!Indices, Indices
    <3> QED  BY <3>3 DEF OwnChain!Next
  <2>3. CASE RestartCreator
    <3>1. /\ grabber'.acceptedIndex = storedGrabber.acceptedIndex
          /\ storedGrabber' = storedGrabber
      BY <2>3 DEF RestartCreator
    <3>2. OwnChain!Recover
      BY <2>1, <3>1 DEF OwnChain!Recover
    <3> QED  BY <3>2 DEF OwnChain!Next
  <2>4. CASE grabber' = grabber /\ storedGrabber' = storedGrabber
    BY <2>1, <2>4 DEF OwnChain!epochVars
  <2> QED  BY <2>2, <2>3, <2>4, GrabbersChange
<1> QED  BY <1>1, <1>2

\* The creator's stores follow the contract: no block is written twice or
\* above one that is not final, the accepted index moves on by one with the
\* index before it stored, and a restart takes it back to what was stored.
THEOREM KeepsEpochChain == Spec => ImplementsEpochChain
<1>1. Init => OwnChain!Init
  BY OwnChainInit
<1>2. IInv /\ [Next]_vars => [OwnChain!Next]_(OwnChain!epochVars)
  BY OwnChainStep
<1> QED  BY <1>1, <1>2, Invariant, PTL
         DEF Spec, ImplementsEpochChain, OwnChain!Spec
=============================================================================
