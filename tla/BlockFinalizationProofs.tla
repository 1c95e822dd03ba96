----------------------- MODULE BlockFinalizationProofs ----------------------
(***************************************************************************)
(* The safety properties of BlockFinalization for every quorum, every      *)
(* number of blocks and every bound on handlers, restarts and faults.      *)
(***************************************************************************)
EXTENDS BlockFinalizationInvariant, QuorumMajorityProofs

-----------------------------------------------------------------------------
(***************************************************************************)
(* Facts about the operators.                                              *)
(***************************************************************************)
LEMMA MajorityFacts == Majority \in Nat /\ Majority > 0
<1>1. Cardinality(Quorum) \in Nat /\ Cardinality(Quorum) > 0
  BY QuorumAssumption, FS_CardinalityType, FS_EmptySet
<1> QED  BY <1>1, MajorityBounds DEF Majority, GetQuorumMajority

LEMMA QuorumSubsets ==
    ASSUME NEW S \in SUBSET Quorum
    PROVE  IsFiniteSet(S) /\ Cardinality(S) \in Nat
BY QuorumAssumption, FS_Subset, FS_CardinalityType

\* More members never make a majority of signers smaller.
LEMMA BiggerCount ==
    ASSUME NEW S \in SUBSET Quorum, NEW T \in SUBSET Quorum, S \subseteq T
    PROVE  Cardinality(S) <= Cardinality(T)
<1>1. IsFiniteSet(T)
  BY QuorumSubsets
<1> QED  BY <1>1, FS_Subset

LEMMA SignersType ==
    ASSUME NEW proofs \in SUBSET Proof, NEW prev, NEW i, NEW hash
    PROVE  SignersIn(proofs, prev, i, hash) \in SUBSET Quorum
BY DEF SignersIn, Proof

LEMMA SignersGrow ==
    ASSUME NEW proofs, NEW proofs2, proofs \subseteq proofs2,
           NEW prev, NEW i, NEW hash
    PROVE  SignersIn(proofs, prev, i, hash)
              \subseteq SignersIn(proofs2, prev, i, hash)
BY DEF SignersIn

\* A chain that keeps the blocks it had, and what they are linked to.
Extends(chain, chain2) ==
    \A i \in Indices : chain[i].index = i =>
        /\ chain2[i] = chain[i]
        /\ HashAt(chain2, i - 1) = HashAt(chain, i - 1)

LEMMA ExtendsRefl == ASSUME NEW chain PROVE Extends(chain, chain)
BY DEF Extends

\* What was good of a chain and a set of signatures stays good when both
\* grow.
LEMMA AfpStable ==
    ASSUME NEW chain, NEW chain2, Extends(chain, chain2),
           NEW proofs, NEW proofs2, proofs \subseteq proofs2,
           NEW afp, NEW i, GoodAfp(afp, i, chain, proofs)
    PROVE  GoodAfp(afp, i, chain2, proofs2)
<1>1. CASE i = -1 /\ afp = NoAfp
  BY <1>1 DEF GoodAfp
<1>2. CASE ~(i = -1 /\ afp = NoAfp)
  <2>1. i \in Indices /\ chain[i].index = i
    BY <1>2 DEF GoodAfp, Exists
  <2>2. chain2[i] = chain[i] /\ HashAt(chain2, i - 1) = HashAt(chain, i - 1)
    BY <2>1 DEF Extends
  <2>3. SignersIn(proofs, afp.prev, i, afp.hash)
          \subseteq SignersIn(proofs2, afp.prev, i, afp.hash)
    BY SignersGrow
  <2> QED  BY <1>2, <2>1, <2>2, <2>3 DEF GoodAfp, Exists
<1> QED  BY <1>1, <1>2

LEMMA StatStable ==
    ASSUME NEW chain, NEW chain2, Extends(chain, chain2),
           NEW proofs, NEW proofs2, proofs \subseteq proofs2,
           NEW durable \in Int, NEW durable2 \in Int, durable <= durable2,
           NEW stat, stat.index \in Int,
           GoodStat(stat, chain, proofs, durable)
    PROVE  GoodStat(stat, chain2, proofs2, durable2)
<1>1. GoodAfp(stat.afp, stat.index, chain2, proofs2)
  BY AfpStable DEF GoodStat
<1>2. ASSUME stat.index >= 0
      PROVE  stat.hash = chain2[stat.index].hash
  <2>1. Exists(chain, stat.index)
    BY <1>2 DEF GoodStat, GoodAfp
  <2> QED  BY <1>2, <2>1 DEF GoodStat, Exists, Extends
<1> QED  BY <1>1, <1>2 DEF GoodStat

LEMMA GrabberStable ==
    ASSUME NEW chain, NEW chain2, Extends(chain, chain2),
           NEW proofs, NEW proofs2, proofs \subseteq proofs2,
           NEW g, GoodGrabber(g, chain, proofs)
    PROVE  GoodGrabber(g, chain2, proofs2)
<1>1. GoodAfp(g.afpForPrevious, g.acceptedIndex, chain2, proofs2)
  BY AfpStable DEF GoodGrabber
<1>2. g.acceptedIndex = -1 \/ Exists(chain, g.acceptedIndex)
  BY DEF GoodGrabber, GoodAfp
<1>3. HashAt(chain2, g.acceptedIndex) = HashAt(chain, g.acceptedIndex)
  BY <1>2 DEF HashAt, Exists, Extends
<1> QED  BY <1>1, <1>3 DEF GoodGrabber

LEMMA RequestStable ==
    ASSUME NEW chain, NEW chain2, Extends(chain, chain2),
           NEW proofs, NEW proofs2, proofs \subseteq proofs2,
           NEW durable \in Int, NEW durable2 \in Int, durable <= durable2,
           NEW r, r.block.index \in Int,
           GoodRequest(r, chain, proofs, durable)
    PROVE  GoodRequest(r, chain2, proofs2, durable2)
<1>1. GoodAfp(r.afp, r.block.index - 1, chain2, proofs2)
  BY AfpStable DEF GoodRequest
<1> QED  BY <1>1 DEF GoodRequest, Exists, Extends

LEMMA ProofStable ==
    ASSUME NEW chain, NEW chain2, Extends(chain, chain2),
           NEW proofs, NEW proofs2, proofs \subseteq proofs2,
           NEW blocks, NEW blocks2, NEW afps, NEW afps2,
           NEW p, p.index \in Indices,
           GoodProof(p, chain, proofs, blocks, afps),
           \/ blocks2[p.voter][p.index] = blocks[p.voter][p.index]
           \/ blocks2[p.voter][p.index] = chain2[p.index],
           p.index > 0 =>
             \/ afps2[p.voter][p.index - 1] = afps[p.voter][p.index - 1]
             \/ GoodAfp(afps2[p.voter][p.index - 1], p.index - 1,
                        chain2, proofs2)
    PROVE  GoodProof(p, chain2, proofs2, blocks2, afps2)
<1>1. chain2[p.index] = chain[p.index]
      /\ HashAt(chain2, p.index - 1) = HashAt(chain, p.index - 1)
  BY DEF GoodProof, Exists, Extends
<1>2. Exists(chain2, p.index)
  BY <1>1 DEF GoodProof, Exists
<1>3. blocks2[p.voter][p.index] = chain2[p.index]
  BY <1>1 DEF GoodProof
<1>4. ASSUME p.index > 0
      PROVE  GoodAfp(afps2[p.voter][p.index - 1], p.index - 1,
                     chain2, proofs2)
  <2>1. GoodAfp(afps[p.voter][p.index - 1], p.index - 1, chain, proofs)
    BY <1>4 DEF GoodProof
  <2>2. GoodAfp(afps[p.voter][p.index - 1], p.index - 1, chain2, proofs2)
    BY <2>1, AfpStable
  <2> QED  BY <1>4, <2>2
<1> QED  BY <1>1, <1>2, <1>3, <1>4 DEF GoodProof

-----------------------------------------------------------------------------
(***************************************************************************)
(* Types.  That the hunted height stays within bounds needs the invariant. *)
(***************************************************************************)
LEMMA DataTypes ==
    /\ NoBlock \in Block
    /\ NoAfp \in Afp
    /\ StatTemplate \in VotingStat
    /\ FreshGeneration \in Generation
    /\ FreshGrabber \in Grabber
    /\ NoObservation \notin Observation
BY BoundAssumption
   DEF NoBlock, Block, NoAfp, Afp, StatTemplate, VotingStat,
       FreshGeneration, Generation, FreshGrabber, Grabber, Hash, Indices,
       NoObservation, Observation

LEMMA InitType == Init => TypeOK
BY DataTypes, BoundAssumption DEF Init, TypeOK

\* Whenever the share thread works on a block, it is the hunted one.
LEMMA HuntedExists ==
    ASSUME TypeOK, ShareInv, blockToShare.index = HuntedIndex
    PROVE  /\ HuntedIndex \in Indices
           /\ Chain[HuntedIndex].index = HuntedIndex
           /\ blockToShare = Chain[HuntedIndex]
<1>1. grabber.acceptedIndex \in Indices \cup {-1}
  BY DEF TypeOK, Grabber
<1>2. HuntedIndex \in Int /\ HuntedIndex >= 0
  BY <1>1, BoundAssumption DEF HuntedIndex, Indices
<1>3. blockToShare # NoBlock
  BY <1>2 DEF NoBlock
<1> QED  BY <1>3 DEF ShareInv, Exists

LEMMA UsefulAnswersType ==
    ASSUME TypeOK
    PROVE  UsefulAnswers \in SUBSET Quorum
BY SignersType DEF TypeOK, UsefulAnswers, Signers

LEMMA AggregateType ==
    ASSUME TypeOK, HuntedIndex \in Indices, NEW cache \in SUBSET Quorum
    PROVE  AggregatedFinalizationProof(cache) \in Afp
BY DEF TypeOK, AggregatedFinalizationProof, Afp, Grabber, Block

LEMMA TypeStep ==
    ASSUME TypeOK, ShareInv, RequestsInv, HandlersInv, [Next]_vars
    PROVE  TypeOK'
<1> USE BoundAssumption
<1>1. CASE GenerateBlock
  <2>1. PICK hash \in Hashes :
          /\ BLOCKS' = [BLOCKS EXCEPT
                          ![Creator][generation.nextIndex] = NewBlock(hash)]
          /\ StoreGeneration([nextIndex |-> generation.nextIndex + 1,
                              prevHash |-> hash])
    BY <1>1 DEF GenerateBlock
  <2>2. generation.nextIndex \in Indices
    BY <1>1 DEF GenerateBlock, TypeOK, Generation, Indices
  <2>3. NewBlock(hash) \in Block
    BY <2>2 DEF NewBlock, Block, TypeOK, Generation, Hash
  <2>4. BLOCKS' \in [Quorum -> [Indices -> Block]]
    BY <2>1, <2>2, <2>3 DEF TypeOK
  <2>5. generation' \in Generation /\ storedGeneration' \in Generation
    BY <2>1, <2>2 DEF StoreGeneration, Generation, Hash, Indices
  <2> QED
    BY <1>1, <2>4, <2>5
       DEF GenerateBlock, TypeOK, memoryVars, networkVars, boundVars
<1>2. CASE ShareBlock
  <2>1. BlockAtHand \in Block
    BY QuorumAssumption DEF BlockAtHand, TypeOK
  <2>2. grabber.afpForPrevious \in Afp
    BY DEF TypeOK, Grabber
  <2>3. requests' \in SUBSET Request
    BY <1>2, <2>1, <2>2 DEF ShareBlock, TypeOK, Request
  <2> QED
    BY <1>2, <2>1, <2>3
       DEF ShareBlock, TypeOK, storeVars, memoryVars, boundVars
<1>3. CASE RoundTimesOut
  BY <1>3 DEF RoundTimesOut, TypeOK, storeVars, memoryVars, networkVars,
              boundVars
<1>4. CASE RoundCollects
  <2>1. proofsCache' \in SUBSET Quorum
    BY <1>4, UsefulAnswersType DEF RoundCollects, TypeOK
  <2> QED
    BY <1>4, <2>1
       DEF RoundCollects, TypeOK, storeVars, memoryVars, networkVars, boundVars
<1>5. ASSUME NEW useful \in SUBSET UsefulAnswers, NEW stored \in BOOLEAN,
             RoundSucceeds(useful, stored)
      PROVE  TypeOK'
  <2>1. proofsCache' \in SUBSET Quorum
    BY <1>5, UsefulAnswersType DEF RoundSucceeds, TypeOK
  <2>2. HuntedIndex \in Indices
    BY <1>5, HuntedExists DEF RoundSucceeds, ShareInv
  <2>3. AggregatedFinalizationProof(proofsCache') \in Afp
    BY <2>1, <2>2, AggregateType
  <2>4. EPOCH_DATA' \in [Quorum -> [Indices -> Afp]]
    BY <1>5, <2>2, <2>3 DEF RoundSucceeds, TypeOK
  <2>5. storeFaults' \in 0 .. MaxStoreFaults
    BY <1>5 DEF RoundSucceeds, TypeOK
  <2> QED
    BY <1>5, <2>1, <2>4, <2>5
       DEF RoundSucceeds, TypeOK, memoryVars, networkVars
<1>6. CASE PersistGrabber
  <2>1. HuntedIndex \in Indices
    BY <1>6, HuntedExists DEF PersistGrabber, ShareInv
  <2>2. AggregatedFinalizationProof(proofsCache) \in Afp
    BY <2>1, AggregateType DEF TypeOK
  <2>3. grabber' \in Grabber /\ storedGrabber' \in Grabber
    BY <1>6, <2>1, <2>2 DEF PersistGrabber, TypeOK, Grabber, Block
  <2> QED
    BY <1>6, <2>3
       DEF PersistGrabber, TypeOK, storeVars, memoryVars, networkVars,
           boundVars
<1>7. CASE PersistGrabberFails
  BY <1>7 DEF PersistGrabberFails, TypeOK, storeVars, memoryVars, networkVars
<1>8. CASE RestartCreator
  BY <1>8, DataTypes, QuorumAssumption
     DEF RestartCreator, ForgetMemory, TypeOK, storeVars, networkVars
<1>9. ASSUME NEW v \in Quorum, NEW request \in requests,
             BeginVote(v, request)
      PROVE  TypeOK'
  <2>1. [request |-> request, local |-> votingStat[v]] \in Handler
    BY DEF TypeOK, Handler
  <2>2. handlers' \in [Quorum -> SUBSET Handler]
    BY <1>9, <2>1 DEF BeginVote, TypeOK
  <2> QED
    BY <1>9, <2>2
       DEF BeginVote, TypeOK, creatorVars, storeVars, networkVars, boundVars
<1>10. ASSUME NEW v \in Quorum, NEW h \in handlers[v]
       PROVE  /\ h \in Handler
              /\ h.request.block.index \in Indices
              /\ StoreBlock(v, h.request.block)
                   \in [Quorum -> [Indices -> Block]]
              /\ StorePreviousAfp(v, h.request.afp)
                   \in [Quorum -> [Indices -> Afp]]
              /\ FutureVotingStat(h) \in VotingStat
              /\ FinalizationProof(v, h.request) \in Proof
  <2>1. h \in Handler
    BY DEF TypeOK
  <2>2. h.request.block \in Block /\ h.request.afp \in Afp
        /\ h.local \in VotingStat
    BY <2>1 DEF Handler, Request
  <2>3. h.request.block.index \in Indices
    BY DEF HandlersInv, RequestsInv, GoodRequest, Exists
  <2>4. StoreBlock(v, h.request.block) \in [Quorum -> [Indices -> Block]]
    BY <2>2, <2>3 DEF StoreBlock, TypeOK
  <2>5. StorePreviousAfp(v, h.request.afp) \in [Quorum -> [Indices -> Afp]]
    BY <2>2 DEF StorePreviousAfp, TypeOK
  <2>6. FutureVotingStat(h) \in VotingStat
    BY <2>2, <2>3 DEF FutureVotingStat, VotingStat, Indices, Afp
  <2>7. FinalizationProof(v, h.request) \in Proof
    BY <2>2, <2>3 DEF FinalizationProof, Proof, Afp, Block, Hash
  <2> QED  BY <2>1, <2>3, <2>4, <2>5, <2>6, <2>7
<1>11. ASSUME NEW v \in Quorum, NEW h \in handlers[v], FinishVote(v, h)
       PROVE  TypeOK'
  BY <1>10, <1>11
     DEF FinishVote, TypeOK, creatorVars, boundVars
<1>12. ASSUME NEW v \in Quorum, NEW h \in handlers[v], PartialVote(v, h)
       PROVE  TypeOK'
  BY <1>10, <1>12
     DEF PartialVote, TypeOK, creatorVars, networkVars
<1>13. ASSUME NEW v \in Quorum, RestartVoter(v)
       PROVE  TypeOK'
  BY <1>13 DEF RestartVoter, ForgetMemory, TypeOK, creatorVars, storeVars,
               networkVars
<1>14. ASSUME NEW v \in HealthCheckers, HealthRead(v)
       PROVE  TypeOK'
  <2>1. [index |-> votingStat[v].index, hash |-> votingStat[v].hash]
          \in Observation
    BY QuorumAssumption DEF TypeOK, VotingStat, Observation
  <2> QED
    BY <1>14, <2>1
       DEF HealthRead, TypeOK, creatorVars, storeVars, networkVars, boundVars
<1>15. ASSUME NEW v \in HealthCheckers, HealthEvaluate(v)
       PROVE  TypeOK'
  BY <1>15, QuorumAssumption
     DEF HealthEvaluate, TypeOK, creatorVars, networkVars, boundVars
<1>16. CASE UNCHANGED vars
  BY <1>16 DEF vars, creatorVars, storeVars, memoryVars, networkVars,
               boundVars, TypeOK
<1> QED
  BY <1>1, <1>2, <1>3, <1>4, <1>5, <1>6, <1>7, <1>8, <1>9, <1>11, <1>12,
     <1>13, <1>14, <1>15, <1>16
     DEF Next, CreatorNext, VoterNext, HealthNext

-----------------------------------------------------------------------------
(***************************************************************************)
(* What a step carries over when it only extends the chain, adds           *)
(* signatures and never takes the stored grabber back.                     *)
(***************************************************************************)
Grows ==
    /\ Extends(Chain, Chain')
    /\ finalizationProofs \subseteq finalizationProofs'
    /\ Durable <= Durable'

LEMMA DurableType == ASSUME TypeOK PROVE Durable \in Int
BY BoundAssumption DEF TypeOK, Grabber, Durable, Indices

LEMMA Carried ==
    ASSUME IInv, TypeOK', Grows
    PROVE  /\ requests' = requests => RequestsInv'
           /\ votingStat' = votingStat => StatInv'
           /\ /\ \A v \in Quorum : handlers'[v] \subseteq handlers[v]
              /\ requests \subseteq requests'
              => HandlersInv'
           /\ grabber' = grabber /\ storedGrabber' = storedGrabber
              => GrabberInv'
           /\ /\ finalizationProofs' = finalizationProofs
              /\ BLOCKS' = BLOCKS /\ EPOCH_DATA' = EPOCH_DATA
              => ProofsInv'
           /\ Chain' = Chain /\ BLOCKS' = BLOCKS /\ EPOCH_DATA' = EPOCH_DATA
              => StoresInv'
<1> USE DEF Grows
<1>1. TypeOK /\ Durable \in Int /\ Durable' \in Int
  BY DurableType DEF IInv, TypeOK, Durable, Grabber, Indices
<1>2. ASSUME requests' = requests
      PROVE  RequestsInv'
  <2> SUFFICES ASSUME NEW r \in requests
               PROVE  GoodRequest(r, Chain', finalizationProofs', Durable')
    BY <1>2 DEF RequestsInv
  <2>1. GoodRequest(r, Chain, finalizationProofs, Durable)
    BY DEF IInv, RequestsInv
  <2>2. r.block.index \in Int
    BY <2>1, BoundAssumption DEF GoodRequest, Exists, Indices
  <2> QED  BY <1>1, <2>1, <2>2, RequestStable
<1>3. ASSUME NEW stat, stat.index \in Int,
             GoodStat(stat, Chain, finalizationProofs, Durable)
      PROVE  GoodStat(stat, Chain', finalizationProofs', Durable')
  BY <1>1, <1>3, StatStable
<1>4. ASSUME votingStat' = votingStat
      PROVE  StatInv'
  <2> SUFFICES ASSUME NEW v \in Quorum
               PROVE  GoodStat(votingStat[v], Chain', finalizationProofs',
                               Durable')
    BY <1>4 DEF StatInv
  <2>1. votingStat[v].index \in Int
    BY <1>1, BoundAssumption DEF TypeOK, VotingStat, Indices
  <2>2. GoodStat(votingStat[v], Chain, finalizationProofs, Durable)
    BY DEF IInv, StatInv
  <2> QED  BY <1>3, <2>1, <2>2
<1>5. ASSUME \A v \in Quorum : handlers'[v] \subseteq handlers[v],
             requests \subseteq requests'
      PROVE  HandlersInv'
  <2> SUFFICES ASSUME NEW v \in Quorum, NEW h \in handlers[v]
               PROVE  /\ h.request \in requests
                      /\ GoodStat(h.local, Chain', finalizationProofs',
                                  Durable')
    BY <1>5 DEF HandlersInv
  <2>1. h.local.index \in Int
    BY <1>1, BoundAssumption DEF TypeOK, Handler, VotingStat, Indices
  <2>2. /\ h.request \in requests
        /\ GoodStat(h.local, Chain, finalizationProofs, Durable)
    BY DEF IInv, HandlersInv
  <2> QED  BY <1>3, <2>1, <2>2
<1>6. ASSUME grabber' = grabber, storedGrabber' = storedGrabber
      PROVE  GrabberInv'
  <2>1. /\ GoodGrabber(grabber, Chain', finalizationProofs')
        /\ GoodGrabber(storedGrabber, Chain', finalizationProofs')
    BY GrabberStable DEF IInv, GrabberInv
  <2> QED  BY <1>6, <2>1 DEF IInv, GrabberInv, Durable
<1>7. ASSUME finalizationProofs' = finalizationProofs,
             BLOCKS' = BLOCKS, EPOCH_DATA' = EPOCH_DATA
      PROVE  ProofsInv'
  BY <1>7 DEF IInv, ProofsInv, Chain
<1>8. ASSUME Chain' = Chain, BLOCKS' = BLOCKS, EPOCH_DATA' = EPOCH_DATA
      PROVE  StoresInv'
  <2> SUFFICES ASSUME NEW n \in Quorum, NEW i \in Indices
               PROVE  /\ BLOCKS[n][i] \in {NoBlock, Chain[i]}
                      /\ \/ EPOCH_DATA[n][i] = NoAfp
                         \/ GoodAfp(EPOCH_DATA[n][i], i, Chain',
                                    finalizationProofs')
    BY <1>8 DEF StoresInv
  <2> QED  BY AfpStable DEF IInv, StoresInv
<1> QED  BY <1>2, <1>4, <1>5, <1>6, <1>7, <1>8

\* The usual case: chain, signatures and stored grabber stay as they are.
LEMMA GrowsWhenSame ==
    ASSUME TypeOK, BLOCKS' = BLOCKS,
           finalizationProofs' = finalizationProofs,
           storedGrabber' = storedGrabber
    PROVE  Grows
BY ExtendsRefl, DurableType DEF Grows, Chain, Durable

-----------------------------------------------------------------------------
(***************************************************************************)
(* The invariant holds initially and every action preserves it.            *)
(***************************************************************************)
THEOREM InvariantInit == Init => IInv
<1> SUFFICES ASSUME Init PROVE IInv
  OBVIOUS
<1> USE BoundAssumption, QuorumAssumption
<1>1. TypeOK
  BY InitType
<1>2. Chain = [i \in Indices |-> NoBlock] /\ Durable = -1
  BY DEF Init, Chain, Durable, FreshGrabber
<1>3. ChainInv
  BY <1>2 DEF Init, ChainInv, FreshGeneration, HashAt, Indices
<1>4. StoresInv
  BY <1>2 DEF Init, StoresInv
<1>5. GrabberInv
  BY <1>2 DEF Init, GrabberInv, GoodGrabber, GoodAfp, FreshGrabber, HashAt
<1>6. ShareInv
  BY DEF Init, ShareInv
<1>7. RequestsInv /\ ProofsInv /\ HandlersInv
  BY DEF Init, RequestsInv, ProofsInv, HandlersInv
<1>8. StatInv
  BY <1>2 DEF Init, StatInv, GoodStat, GoodAfp, StatTemplate
<1> QED
  BY <1>1, <1>3, <1>4, <1>5, <1>6, <1>7, <1>8 DEF IInv

\* A new block goes on top of the chain, over nothing.
LEMMA GenerateExtends ==
    ASSUME IInv, TypeOK', GenerateBlock
    PROVE  Grows /\ ChainInv' /\ StoresInv' /\ ProofsInv' /\ ShareInv'
<1> USE BoundAssumption, QuorumAssumption
<1> DEFINE new == generation.nextIndex
<1>1. PICK hash \in Hashes :
        /\ BLOCKS' = [BLOCKS EXCEPT ![Creator][new] = NewBlock(hash)]
        /\ StoreGeneration([nextIndex |-> new + 1, prevHash |-> hash])
  BY DEF GenerateBlock
<1>2. new \in Indices /\ new <= MaxIndex
  BY DEF GenerateBlock, IInv, TypeOK, Generation, Indices
<1>3. Chain' = [Chain EXCEPT ![new] = NewBlock(hash)]
  BY <1>1 DEF Chain, IInv, TypeOK
<1>4. Chain \in [Indices -> Block]
  BY DEF Chain, IInv, TypeOK
<1>5. Chain[new] = NoBlock
  BY <1>2 DEF IInv, ChainInv, Indices
<1>6. \A i \in Indices : i # new => Chain'[i] = Chain[i]
  BY <1>3, <1>4
<1>7. Chain'[new] = NewBlock(hash)
  BY <1>2, <1>3, <1>4
<1>8. \A i \in Indices : Chain[i].index = i => i < new
  BY <1>2 DEF IInv, ChainInv, Indices, NoBlock
<1>9. \A i \in Indices : i <= new => HashAt(Chain', i - 1) = HashAt(Chain, i - 1)
  BY <1>2, <1>6 DEF HashAt, Indices
<1>10. Extends(Chain, Chain')
  BY <1>2, <1>6, <1>8, <1>9 DEF Extends, Indices
<1>11. Grows
  BY <1>10, DurableType
     DEF Grows, GenerateBlock, networkVars, Durable, IInv
<1>12. ChainInv'
  <2>1. generation' = [nextIndex |-> new + 1, prevHash |-> hash]
        /\ storedGeneration' = generation'
    BY <1>1 DEF StoreGeneration
  <2>2. ASSUME NEW i \in Indices, i < new
        PROVE  /\ Chain'[i].index = i
               /\ Chain'[i].hash \in Hashes
               /\ Chain'[i].prev = HashAt(Chain', i - 1)
    BY <1>2, <1>6, <1>9, <2>2 DEF IInv, ChainInv, Indices
  <2>3. /\ Chain'[new].index = new
        /\ Chain'[new].hash \in Hashes
        /\ Chain'[new].prev = HashAt(Chain', new - 1)
    BY <1>2, <1>7, <1>9 DEF NewBlock, IInv, ChainInv, Indices
  <2>4. ASSUME NEW i \in Indices, i > new
        PROVE  Chain'[i] = NoBlock
    BY <1>2, <1>6, <2>4 DEF IInv, ChainInv, Indices
  <2>5. HashAt(Chain', new) = hash
    BY <1>2, <1>7 DEF HashAt, NewBlock, Indices
  <2>6. \A i \in Indices : IF i < new + 1
          THEN /\ Chain'[i].index = i
               /\ Chain'[i].hash \in Hashes
               /\ Chain'[i].prev = HashAt(Chain', i - 1)
          ELSE Chain'[i] = NoBlock
    BY <1>2, <2>2, <2>3, <2>4 DEF Indices
  <2>7. /\ generation'.nextIndex = new + 1
        /\ generation'.prevHash = HashAt(Chain', generation'.nextIndex - 1)
    BY <1>2, <2>1, <2>5 DEF Indices
  <2> QED  BY <2>1, <2>6, <2>7 DEF ChainInv
<1>13. \A n \in Quorum, i \in Indices :
         BLOCKS[n][i] # NoBlock => BLOCKS'[n][i] = BLOCKS[n][i]
                                     /\ i # new
  <2> SUFFICES ASSUME NEW n \in Quorum, NEW i \in Indices,
                      BLOCKS[n][i] # NoBlock
               PROVE  BLOCKS'[n][i] = BLOCKS[n][i] /\ i # new
    OBVIOUS
  <2>1. BLOCKS[n][i] = Chain[i]
    BY DEF IInv, StoresInv
  <2>2. i # new
    BY <1>5, <2>1
  <2> QED  BY <1>1, <1>2, <2>2 DEF IInv, TypeOK
<1>14. StoresInv'
  <2> SUFFICES ASSUME NEW n \in Quorum, NEW i \in Indices
               PROVE  /\ BLOCKS'[n][i] \in {NoBlock, Chain'[i]}
                      /\ \/ EPOCH_DATA[n][i] = NoAfp
                         \/ GoodAfp(EPOCH_DATA[n][i], i, Chain',
                                    finalizationProofs')
    BY DEF StoresInv, GenerateBlock
  <2>1. BLOCKS'[n][i] \in {NoBlock, Chain'[i]}
    <3>1. CASE BLOCKS[n][i] # NoBlock
      BY <1>6, <1>13, <3>1 DEF IInv, StoresInv
    <3>2. CASE BLOCKS[n][i] = NoBlock
      BY <1>1, <1>2, <1>7, <3>2 DEF IInv, TypeOK
    <3> QED  BY <3>1, <3>2
  <2>2. EPOCH_DATA[n][i] = NoAfp
          \/ GoodAfp(EPOCH_DATA[n][i], i, Chain', finalizationProofs')
    BY <1>10, <1>11, AfpStable DEF IInv, StoresInv, Grows
  <2> QED  BY <2>1, <2>2
<1>15. ProofsInv'
  <2> SUFFICES ASSUME NEW p \in finalizationProofs
               PROVE  GoodProof(p, Chain', finalizationProofs', BLOCKS',
                                EPOCH_DATA')
    BY DEF ProofsInv, GenerateBlock, networkVars
  <2>1. GoodProof(p, Chain, finalizationProofs, BLOCKS, EPOCH_DATA)
    BY DEF IInv, ProofsInv
  <2>2. p.index \in Indices /\ p.voter \in Quorum
    BY DEF IInv, TypeOK, Proof
  <2>3. BLOCKS[p.voter][p.index] # NoBlock
    BY <2>1, <2>2 DEF GoodProof, Exists, NoBlock, Indices
  <2>4. BLOCKS'[p.voter][p.index] = BLOCKS[p.voter][p.index]
    BY <1>13, <2>2, <2>3
  <2>5. EPOCH_DATA' = EPOCH_DATA
    BY DEF GenerateBlock
  <2>6. finalizationProofs \subseteq finalizationProofs'
    BY <1>11 DEF Grows
  <2> QED  BY <1>10, <2>1, <2>2, <2>4, <2>5, <2>6, ProofStable
<1>16. ShareInv'
  <2>1. blockToShare # NoBlock =>
          /\ Exists(Chain', blockToShare.index)
          /\ blockToShare = Chain'[blockToShare.index]
    BY <1>10 DEF IInv, ShareInv, Exists, Extends
  <2> QED
    BY <2>1 DEF GenerateBlock, networkVars, IInv, ShareInv, HuntedIndex,
                UsefulAnswers, Signers
<1> QED  BY <1>11, <1>12, <1>14, <1>15, <1>16

LEMMA GeneratePreserves ==
    ASSUME IInv, TypeOK', GenerateBlock
    PROVE  IInv'
BY GenerateExtends, Carried
   DEF IInv, GenerateBlock, memoryVars, networkVars

\* The block that is sent is the chain's, with the AFP of the one before.
LEMMA SharePreserves ==
    ASSUME IInv, TypeOK', ShareBlock
    PROVE  IInv'
<1> USE BoundAssumption, QuorumAssumption
<1>1. UNCHANGED <<generation, storedGeneration, grabber, storedGrabber,
                  proofsCache, BLOCKS, EPOCH_DATA, votingStat, handlers,
                  finalizationProofs, storeFaults>>
  BY DEF ShareBlock, storeVars, memoryVars, boundVars
<1>2. Grows
  BY <1>1, GrowsWhenSame DEF IInv
<1>3. HuntedIndex \in Indices
  <2>1. HuntedIndex \in Int /\ HuntedIndex >= 0
    BY DEF IInv, TypeOK, Grabber, HuntedIndex, Indices
  <2>2. BlockAtHand.index \in Indices \cup {-1}
    BY DEF BlockAtHand, IInv, TypeOK, Block
  <2> QED  BY <2>1, <2>2 DEF ShareBlock
<1>4. BlockAtHand = Chain[HuntedIndex] /\ Chain[HuntedIndex].index = HuntedIndex
  <2>1. CASE blockToShare.index = HuntedIndex
    BY <2>1, HuntedExists DEF IInv, BlockAtHand
  <2>2. CASE blockToShare.index # HuntedIndex
    BY <1>3, <2>2 DEF BlockAtHand, Chain, ShareBlock
  <2> QED  BY <2>1, <2>2
<1>5. ShareInv'
  <2>1. blockToShare' = Chain[HuntedIndex]
    BY <1>4 DEF ShareBlock
  <2>2. proofsCache \subseteq
          SignersIn(finalizationProofs, grabber.acceptedHash, HuntedIndex,
                    blockToShare'.hash)
    <3>1. CASE proofsCache = {}
      BY <3>1
    <3>2. CASE proofsCache # {}
      <4>1. blockToShare.index = HuntedIndex
        BY <3>2 DEF IInv, ShareInv
      <4>2. blockToShare' = blockToShare
        BY <4>1 DEF ShareBlock, BlockAtHand
      <4> QED  BY <4>2 DEF IInv, ShareInv, UsefulAnswers, Signers
    <3> QED  BY <3>1, <3>2
  <2>3. Cardinality(proofsCache') < Majority /\ round' = "waiting"
    BY <1>1 DEF ShareBlock
  <2> QED
    BY <1>1, <1>3, <1>4, <2>1, <2>2, <2>3
       DEF ShareInv, Exists, Chain, HuntedIndex, UsefulAnswers, Signers
<1>6. RequestsInv'
  <2> SUFFICES ASSUME NEW r \in requests'
               PROVE  GoodRequest(r, Chain, finalizationProofs, Durable)
    BY <1>1 DEF RequestsInv, Chain, Durable
  <2>1. CASE r \in requests
    BY <2>1 DEF IInv, RequestsInv
  <2>2. CASE r = [block |-> BlockAtHand, afp |-> grabber.afpForPrevious]
    <3>1. HuntedIndex - 1 = grabber.acceptedIndex /\ HuntedIndex <= Durable + 2
      BY DEF HuntedIndex, IInv, TypeOK, GrabberInv, Grabber, Durable, Indices
    <3>2. GoodAfp(grabber.afpForPrevious, HuntedIndex - 1, Chain,
                  finalizationProofs)
      BY <3>1 DEF IInv, GrabberInv, GoodGrabber
    <3> QED  BY <1>3, <1>4, <2>2, <3>1, <3>2 DEF GoodRequest, Exists
  <2> QED  BY <2>1, <2>2 DEF ShareBlock
<1>7. ChainInv'
  BY <1>1 DEF IInv, ChainInv, Chain
<1>8. requests \subseteq requests'
  BY DEF ShareBlock
<1> QED
  BY <1>1, <1>2, <1>5, <1>6, <1>7, <1>8, Carried DEF IInv, Chain

\* A round that ends without an AFP keeps only signatures that verified.
LEMMA RoundPreserves ==
    ASSUME IInv, TypeOK', RoundTimesOut \/ RoundCollects
    PROVE  IInv'
<1>1. UNCHANGED <<generation, storedGeneration, grabber, storedGrabber,
                  blockToShare, BLOCKS, EPOCH_DATA, votingStat, handlers,
                  requests, finalizationProofs, storeFaults>>
  BY DEF RoundTimesOut, RoundCollects, storeVars, memoryVars, networkVars,
         boundVars
<1>2. Grows
  BY <1>1, GrowsWhenSame DEF IInv
<1>3. /\ round = "waiting" /\ round' = "idle"
      /\ proofsCache' \subseteq UsefulAnswers
      /\ Cardinality(proofsCache') < Majority
  BY DEF RoundTimesOut, RoundCollects, IInv, ShareInv
<1>4. ShareInv'
  BY <1>1, <1>3
     DEF IInv, ShareInv, Exists, Chain, HuntedIndex, UsefulAnswers, Signers
<1>5. ChainInv'
  BY <1>1 DEF IInv, ChainInv, Chain
<1> QED
  BY <1>1, <1>2, <1>4, <1>5, Carried DEF IInv, Chain

\* What a full cache certifies: the AFP of the hunted block is good.
LEMMA AggregateIsGood ==
    ASSUME IInv, blockToShare.index = HuntedIndex,
           NEW cache \in SUBSET UsefulAnswers, Cardinality(cache) >= Majority
    PROVE  GoodAfp(AggregatedFinalizationProof(cache), HuntedIndex, Chain,
                   finalizationProofs)
<1>1. /\ HuntedIndex \in Indices
      /\ Chain[HuntedIndex].index = HuntedIndex
      /\ blockToShare = Chain[HuntedIndex]
  BY HuntedExists DEF IInv
<1>2. grabber.acceptedHash = HashAt(Chain, HuntedIndex - 1)
  BY BoundAssumption
     DEF IInv, TypeOK, Grabber, GrabberInv, GoodGrabber, HuntedIndex, Indices
<1> QED
  BY <1>1, <1>2
     DEF GoodAfp, Exists, AggregatedFinalizationProof, UsefulAnswers, Signers

LEMMA RoundSucceedsPreserves ==
    ASSUME IInv, TypeOK', NEW useful \in SUBSET UsefulAnswers,
           NEW stored \in BOOLEAN, RoundSucceeds(useful, stored)
    PROVE  IInv'
<1> USE QuorumAssumption
<1> DEFINE afp == AggregatedFinalizationProof(proofsCache')
<1>1. UNCHANGED <<generation, storedGeneration, grabber, storedGrabber,
                  blockToShare, BLOCKS, votingStat, handlers, requests,
                  finalizationProofs>>
  BY DEF RoundSucceeds, memoryVars, networkVars
<1>2. Grows
  BY <1>1, GrowsWhenSame DEF IInv
<1>3. /\ round = "waiting" /\ round' = "aggregating"
      /\ proofsCache' \subseteq UsefulAnswers
      /\ Cardinality(proofsCache') >= Majority
      /\ blockToShare.index = HuntedIndex
  BY DEF RoundSucceeds, IInv, ShareInv
<1>4. GoodAfp(afp, HuntedIndex, Chain, finalizationProofs)
  BY <1>3, AggregateIsGood
<1>5. HuntedIndex \in Indices
  BY <1>3, HuntedExists DEF IInv
<1>6. \A n \in Quorum, i \in Indices :
        \/ EPOCH_DATA'[n][i] = EPOCH_DATA[n][i]
        \/ GoodAfp(EPOCH_DATA'[n][i], i, Chain, finalizationProofs)
  <2>1. CASE stored
    <3>1. EPOCH_DATA' = [EPOCH_DATA EXCEPT ![Creator][HuntedIndex] = afp]
      BY <2>1 DEF RoundSucceeds
    <3> HIDE DEF afp
    <3>2. SUFFICES ASSUME NEW n \in Quorum, NEW i \in Indices
                   PROVE  \/ EPOCH_DATA'[n][i] = EPOCH_DATA[n][i]
                          \/ GoodAfp(EPOCH_DATA'[n][i], i, Chain,
                                     finalizationProofs)
      OBVIOUS
    <3>3. CASE n = Creator /\ i = HuntedIndex
      BY <1>4, <3>1, <3>3 DEF IInv, TypeOK
    <3>4. CASE ~(n = Creator /\ i = HuntedIndex)
      BY <1>5, <3>1, <3>4 DEF IInv, TypeOK
    <3> QED  BY <3>3, <3>4
  <2>2. CASE ~stored
    BY <2>2 DEF RoundSucceeds
  <2> QED  BY <2>1, <2>2
<1> HIDE DEF afp
<1>7. StoresInv'
  BY <1>1, <1>6 DEF IInv, StoresInv, Chain
<1>8. ProofsInv'
  <2> SUFFICES ASSUME NEW p \in finalizationProofs
               PROVE  GoodProof(p, Chain, finalizationProofs, BLOCKS,
                                EPOCH_DATA')
    BY <1>1 DEF ProofsInv, Chain
  <2>1. GoodProof(p, Chain, finalizationProofs, BLOCKS, EPOCH_DATA)
    BY DEF IInv, ProofsInv
  <2>2. p.index \in Indices /\ p.voter \in Quorum
    BY DEF IInv, TypeOK, Proof
  <2>3. p.index > 0 => p.index - 1 \in Indices
    BY <2>2, BoundAssumption DEF Indices
  <2> QED  BY <1>6, <2>1, <2>2, <2>3, ExtendsRefl, ProofStable
<1>9. ShareInv'
  BY <1>1, <1>3
     DEF IInv, ShareInv, Exists, Chain, HuntedIndex, UsefulAnswers, Signers
<1>10. ChainInv'
  BY <1>1 DEF IInv, ChainInv, Chain
<1> QED
  BY <1>1, <1>2, <1>7, <1>8, <1>9, <1>10, Carried DEF IInv

\* The grabber advances to the block just certified; its old value, one
\* height behind, becomes the stored one.
LEMMA PersistPreserves ==
    ASSUME IInv, TypeOK', PersistGrabber
    PROVE  IInv'
<1> USE BoundAssumption, QuorumAssumption
<1>1. /\ UNCHANGED <<generation, storedGeneration, blockToShare, BLOCKS,
                     EPOCH_DATA, votingStat, handlers, requests,
                     finalizationProofs, storeFaults>>
      /\ storedGrabber' = grabber
      /\ proofsCache' = {} /\ round' = "idle"
  BY DEF PersistGrabber, storeVars, memoryVars, networkVars, boundVars
<1>2. grabber' = [acceptedIndex |-> HuntedIndex,
                  acceptedHash |-> blockToShare.hash,
                  afpForPrevious |-> AggregatedFinalizationProof(proofsCache)]
  BY DEF PersistGrabber
<1>3. /\ Durable \in Int /\ grabber.acceptedIndex \in Int
      /\ Durable <= grabber.acceptedIndex
      /\ Durable' = grabber.acceptedIndex
  BY <1>1 DEF IInv, TypeOK, Grabber, GrabberInv, Durable, Indices
<1>4. Grows
  BY <1>1, <1>3, ExtendsRefl DEF Grows, Chain
<1>5. blockToShare.index = HuntedIndex /\ proofsCache \subseteq UsefulAnswers
      /\ Cardinality(proofsCache) >= Majority
  BY DEF PersistGrabber, IInv, ShareInv
<1>6. GoodAfp(AggregatedFinalizationProof(proofsCache), HuntedIndex, Chain,
              finalizationProofs)
  BY <1>5, AggregateIsGood
<1>7. HuntedIndex \in Indices /\ blockToShare = Chain[HuntedIndex]
  BY <1>5, HuntedExists DEF IInv
<1>8. GrabberInv'
  <2>1. GoodGrabber(grabber', Chain, finalizationProofs)
    BY <1>2, <1>6, <1>7 DEF GoodGrabber, HashAt, Indices
  <2>2. GoodGrabber(storedGrabber', Chain, finalizationProofs)
    BY <1>1 DEF IInv, GrabberInv
  <2>3. Durable' <= grabber'.acceptedIndex
        /\ grabber'.acceptedIndex <= Durable' + 1
    BY <1>2, <1>3 DEF HuntedIndex
  <2> QED  BY <1>1, <2>1, <2>2, <2>3 DEF GrabberInv, Chain
<1>9. ShareInv'
  BY <1>1 DEF IInv, ShareInv, Exists, Chain
<1>10. ChainInv'
  BY <1>1 DEF IInv, ChainInv, Chain
<1> QED
  BY <1>1, <1>4, <1>8, <1>9, <1>10, Carried DEF IInv, Chain

LEMMA PersistFailsPreserves ==
    ASSUME IInv, TypeOK', PersistGrabberFails
    PROVE  IInv'
<1>1. /\ UNCHANGED <<generation, storedGeneration, grabber, storedGrabber,
                     blockToShare, proofsCache, BLOCKS, EPOCH_DATA,
                     votingStat, handlers, requests, finalizationProofs>>
      /\ round' = "idle" /\ round = "aggregating"
  BY DEF PersistGrabberFails, storeVars, memoryVars, networkVars
<1>2. Grows
  BY <1>1, GrowsWhenSame DEF IInv
<1>3. ShareInv'
  BY <1>1 DEF IInv, ShareInv, Exists, Chain, HuntedIndex, UsefulAnswers,
              Signers
<1>4. ChainInv'
  BY <1>1 DEF IInv, ChainInv, Chain
<1> QED
  BY <1>1, <1>2, <1>3, <1>4, Carried DEF IInv, Chain

\* The creator comes back with what it had on disk.
LEMMA RestartCreatorPreserves ==
    ASSUME IInv, TypeOK', RestartCreator
    PROVE  IInv'
<1> USE BoundAssumption, QuorumAssumption
<1>1. /\ UNCHANGED <<storedGeneration, storedGrabber, BLOCKS, EPOCH_DATA,
                     votingStat, requests, finalizationProofs, storeFaults>>
      /\ generation' = generation
      /\ grabber' = storedGrabber
      /\ blockToShare' = NoBlock /\ proofsCache' = {} /\ round' = "idle"
  BY DEF RestartCreator, storeVars, networkVars, IInv, ChainInv
<1>2. Grows
  BY <1>1, GrowsWhenSame DEF IInv
<1>3. \A v \in Quorum : handlers'[v] \subseteq handlers[v]
  BY DEF RestartCreator, ForgetMemory, IInv, TypeOK
<1>4. GrabberInv'
  BY <1>1 DEF IInv, TypeOK, Grabber, GrabberInv, Chain, Durable, Indices
<1>5. ShareInv'
  BY <1>1 DEF ShareInv
<1>6. ChainInv'
  BY <1>1 DEF IInv, ChainInv, Chain
<1> QED
  BY <1>1, <1>2, <1>3, <1>4, <1>5, <1>6, Carried DEF IInv, Chain

LEMMA BeginVotePreserves ==
    ASSUME IInv, TypeOK', NEW v \in Quorum, NEW request \in requests,
           BeginVote(v, request)
    PROVE  IInv'
<1>1. UNCHANGED <<generation, storedGeneration, grabber, storedGrabber,
                  blockToShare, proofsCache, round, BLOCKS, EPOCH_DATA,
                  votingStat, requests, finalizationProofs, storeFaults>>
  BY DEF BeginVote, creatorVars, storeVars, networkVars, boundVars
<1>2. Grows
  BY <1>1, GrowsWhenSame DEF IInv
<1>3. HandlersInv'
  <2> SUFFICES ASSUME NEW w \in Quorum, NEW h \in handlers'[w]
               PROVE  /\ h.request \in requests
                      /\ GoodStat(h.local, Chain, finalizationProofs, Durable)
    BY <1>1 DEF HandlersInv, Chain, Durable
  <2>1. CASE h \in handlers[w]
    BY <2>1 DEF IInv, HandlersInv
  <2>2. CASE h = [request |-> request, local |-> votingStat[v]]
    BY <2>2 DEF IInv, StatInv
  <2> QED  BY <2>1, <2>2 DEF BeginVote, IInv, TypeOK
<1>4. ShareInv' /\ ChainInv'
  BY <1>1
     DEF IInv, ShareInv, Exists, Chain, HuntedIndex, UsefulAnswers, Signers,
         ChainInv
<1> QED
  BY <1>1, <1>2, <1>3, <1>4, Carried DEF IInv, Chain

\* Whatever a handler read before its mutex was taken, what it stores and
\* signs is about the chain: its request was, and so was every voting stat.
LEMMA HandlerStoresGood ==
    ASSUME IInv, NEW v \in Quorum, NEW h \in handlers[v],
           NEW blocks, blocks = StoreBlock(v, h.request.block),
           NEW afps, afps \in {EPOCH_DATA, StorePreviousAfp(v, h.request.afp)}
    PROVE  /\ blocks[Creator] = Chain
           /\ \A n \in Quorum, i \in Indices :
                /\ blocks[n][i] \in {BLOCKS[n][i], Chain[i]}
                /\ \/ afps[n][i] = EPOCH_DATA[n][i]
                   \/ GoodAfp(afps[n][i], i, Chain, finalizationProofs)
<1> USE QuorumAssumption
<1> DEFINE r == h.request
           b == h.request.block
<1>1. r \in requests /\ GoodRequest(r, Chain, finalizationProofs, Durable)
  BY DEF IInv, HandlersInv, RequestsInv
<1>2. b.index \in Indices /\ b = Chain[b.index]
  BY <1>1 DEF GoodRequest, Exists
<1>3. blocks = [BLOCKS EXCEPT ![v][b.index] = Chain[b.index]]
  BY <1>2 DEF StoreBlock
<1>4. ASSUME NEW n \in Quorum, NEW i \in Indices
      PROVE  blocks[n][i] \in {BLOCKS[n][i], Chain[i]}
  BY <1>2, <1>3 DEF IInv, TypeOK
<1>5. blocks[Creator] = Chain
  <2>1. blocks[Creator] \in [Indices -> Block] /\ Chain \in [Indices -> Block]
    BY <1>2, <1>3 DEF IInv, TypeOK, Chain
  <2>2. \A i \in Indices : blocks[Creator][i] = Chain[i]
    BY <1>4 DEF Chain
  <2> QED  BY <2>1, <2>2
<1>6. ASSUME NEW n \in Quorum, NEW i \in Indices
      PROVE  \/ afps[n][i] = EPOCH_DATA[n][i]
             \/ GoodAfp(afps[n][i], i, Chain, finalizationProofs)
  <2>1. CASE r.afp.index \in Indices
    <3>1. afps = EPOCH_DATA
            \/ afps = [EPOCH_DATA EXCEPT ![v][r.afp.index] = r.afp]
      BY <2>1 DEF StorePreviousAfp
    <3>2. GoodAfp(r.afp, r.afp.index, Chain, finalizationProofs)
      BY <1>1, <2>1, BoundAssumption DEF GoodRequest, GoodAfp, NoAfp, Indices
    <3>3. CASE n = v /\ i = r.afp.index
      <4>1. afps[n][i] = EPOCH_DATA[n][i] \/ afps[n][i] = r.afp
        BY <3>1, <3>3 DEF IInv, TypeOK
      <4> QED  BY <3>2, <3>3, <4>1
    <3>4. CASE ~(n = v /\ i = r.afp.index)
      <4>1. afps[n][i] = EPOCH_DATA[n][i]
        BY <3>1, <3>4 DEF IInv, TypeOK
      <4> QED  BY <4>1
    <3> QED  BY <3>3, <3>4
  <2>2. CASE r.afp.index \notin Indices
    BY <2>2 DEF StorePreviousAfp
  <2> QED  BY <2>1, <2>2
<1> QED  BY <1>4, <1>5, <1>6

LEMMA FinishVotePreserves ==
    ASSUME IInv, TypeOK', NEW v \in Quorum, NEW h \in handlers[v],
           FinishVote(v, h)
    PROVE  IInv'
<1> USE QuorumAssumption
<1> DEFINE r == h.request
           i0 == h.request.block.index
           new == FinalizationProof(v, h.request)
<1>1. /\ UNCHANGED <<generation, storedGeneration, grabber, storedGrabber,
                     blockToShare, proofsCache, round, requests, storeFaults>>
      /\ finalizationProofs' = finalizationProofs \cup {new}
      /\ BLOCKS' = StoreBlock(v, r.block)
      /\ EPOCH_DATA' = StorePreviousAfp(v, r.afp)
      /\ votingStat' = [votingStat EXCEPT ![v] = FutureVotingStat(h)]
      /\ handlers' = [handlers EXCEPT ![v] = @ \ {h}]
  BY DEF FinishVote, creatorVars, boundVars
<1>2. /\ Chain' = Chain
      /\ \A n \in Quorum, i \in Indices :
           /\ BLOCKS'[n][i] \in {BLOCKS[n][i], Chain[i]}
           /\ \/ EPOCH_DATA'[n][i] = EPOCH_DATA[n][i]
              \/ GoodAfp(EPOCH_DATA'[n][i], i, Chain, finalizationProofs)
  BY <1>1, HandlerStoresGood DEF Chain
<1>3. Grows
  BY <1>1, <1>2, ExtendsRefl, DurableType DEF Grows, Durable, IInv
<1>4. ASSUME NEW n \in Quorum, NEW i \in Indices
      PROVE  \/ EPOCH_DATA'[n][i] = EPOCH_DATA[n][i]
             \/ GoodAfp(EPOCH_DATA'[n][i], i, Chain', finalizationProofs')
  BY <1>2, <1>3, AfpStable DEF Grows
<1>5. StoresInv'
  <2> SUFFICES ASSUME NEW n \in Quorum, NEW i \in Indices
               PROVE  /\ BLOCKS'[n][i] \in {NoBlock, Chain[i]}
                      /\ \/ EPOCH_DATA'[n][i] = NoAfp
                         \/ GoodAfp(EPOCH_DATA'[n][i], i, Chain',
                                    finalizationProofs')
    BY <1>2 DEF StoresInv
  <2>1. EPOCH_DATA[n][i] = NoAfp
          \/ GoodAfp(EPOCH_DATA[n][i], i, Chain', finalizationProofs')
    BY <1>3, AfpStable DEF IInv, StoresInv, Grows
  <2> QED  BY <1>2, <1>4, <2>1 DEF IInv, StoresInv
<1>6. /\ r \in requests
      /\ GoodRequest(r, Chain, finalizationProofs, Durable)
      /\ i0 \in Indices
      /\ r.block = Chain[i0]
      /\ Chain[i0].index = i0
      /\ GoodAfp(r.afp, i0 - 1, Chain, finalizationProofs)
      /\ i0 <= Durable + 2
  BY DEF IInv, HandlersInv, RequestsInv, GoodRequest, Exists
<1>7. ProofsInv'
  <2>1. ASSUME NEW p \in finalizationProofs
        PROVE  GoodProof(p, Chain', finalizationProofs', BLOCKS', EPOCH_DATA')
    <3>1. GoodProof(p, Chain, finalizationProofs, BLOCKS, EPOCH_DATA)
      BY DEF IInv, ProofsInv
    <3>2. p.index \in Indices /\ p.voter \in Quorum
      BY DEF IInv, TypeOK, Proof
    <3>3. p.index > 0 => p.index - 1 \in Indices
      BY <3>2, BoundAssumption DEF Indices
    <3>4. BLOCKS'[p.voter][p.index] \in
            {BLOCKS[p.voter][p.index], Chain'[p.index]}
      BY <1>2, <3>2
    <3> QED
      BY <1>3, <1>4, <3>1, <3>2, <3>3, <3>4, ProofStable DEF Grows
  <2>2. GoodProof(new, Chain', finalizationProofs', BLOCKS', EPOCH_DATA')
    <3>1. new.voter = v /\ new.index = i0 /\ new.hash = Chain[i0].hash
      BY <1>6 DEF FinalizationProof
    <3>2. new.prev = HashAt(Chain, i0 - 1)
      BY <1>6, BoundAssumption
         DEF FinalizationProof, HashAt, GoodAfp, Indices
    <3>3. BLOCKS'[v][i0] = Chain[i0]
      BY <1>1, <1>6 DEF StoreBlock, IInv, TypeOK
    <3>4. ASSUME i0 > 0
          PROVE  GoodAfp(EPOCH_DATA'[v][i0 - 1], i0 - 1, Chain',
                         finalizationProofs')
      <4>1. i0 - 1 \in Indices /\ r.afp.index = i0 - 1
        BY <1>6, <3>4, BoundAssumption DEF GoodAfp, Indices
      <4>2. EPOCH_DATA'[v][i0 - 1] = r.afp
        BY <1>1, <4>1 DEF StorePreviousAfp, IInv, TypeOK
      <4> QED  BY <1>3, <1>6, <4>2, AfpStable DEF Grows
    <3> QED
      BY <1>2, <1>6, <3>1, <3>2, <3>3, <3>4 DEF GoodProof, Exists
  <2> QED  BY <1>1, <2>1, <2>2 DEF ProofsInv
<1>8. StatInv'
  <2> SUFFICES ASSUME NEW w \in Quorum
               PROVE  GoodStat(votingStat'[w], Chain, finalizationProofs',
                               Durable)
    BY <1>1, <1>2 DEF StatInv, Durable
  <2>1. GoodStat(votingStat'[w], Chain, finalizationProofs, Durable)
    <3>1. CASE votingStat'[w] = votingStat[w]
      BY <3>1 DEF IInv, StatInv
    <3>2. CASE votingStat'[w] = h.local
      BY <3>2 DEF IInv, HandlersInv
    <3>3. CASE votingStat'[w] =
                 [index |-> i0 - 1, hash |-> r.afp.hash, afp |-> r.afp]
      <4>1. i0 - 1 <= Durable + 1
        BY <1>6, DurableType, BoundAssumption DEF IInv, Indices
      <4>2. i0 - 1 >= 0 => r.afp.hash = Chain[i0 - 1].hash
        BY <1>6, BoundAssumption DEF GoodAfp, Indices
      <4> QED  BY <1>6, <3>3, <4>1, <4>2 DEF GoodStat
    <3> QED
      BY <1>1, <3>1, <3>2, <3>3 DEF FutureVotingStat, IInv, TypeOK
  <2>2. votingStat'[w].index \in Int
    BY BoundAssumption DEF TypeOK, VotingStat, Indices
  <2> QED
    BY <1>3, <1>2, <2>1, <2>2, DurableType, StatStable DEF Grows, IInv
<1>9. \A w \in Quorum : handlers'[w] \subseteq handlers[w]
  BY <1>1 DEF IInv, TypeOK
<1>10. ShareInv'
  <2>1. UsefulAnswers \subseteq UsefulAnswers'
    BY <1>1, SignersGrow DEF UsefulAnswers, Signers, HuntedIndex
  <2> QED
    BY <1>1, <1>2, <2>1 DEF IInv, ShareInv, Exists, HuntedIndex
<1>11. ChainInv'
  BY <1>1, <1>2 DEF IInv, ChainInv
<1> QED
  BY <1>1, <1>3, <1>5, <1>7, <1>8, <1>9, <1>10, <1>11, Carried DEF IInv

LEMMA PartialVotePreserves ==
    ASSUME IInv, TypeOK', NEW v \in Quorum, NEW h \in handlers[v],
           PartialVote(v, h)
    PROVE  IInv'
<1> USE QuorumAssumption
<1>1. /\ UNCHANGED <<generation, storedGeneration, grabber, storedGrabber,
                     blockToShare, proofsCache, round, votingStat, requests,
                     finalizationProofs>>
      /\ BLOCKS' = StoreBlock(v, h.request.block)
      /\ EPOCH_DATA' \in {EPOCH_DATA, StorePreviousAfp(v, h.request.afp)}
      /\ handlers' = [handlers EXCEPT ![v] = @ \ {h}]
      /\ storeFaults' = storeFaults + 1
  BY DEF PartialVote, creatorVars, networkVars
<1>2. /\ Chain' = Chain
      /\ \A n \in Quorum, i \in Indices :
           /\ BLOCKS'[n][i] \in {BLOCKS[n][i], Chain[i]}
           /\ \/ EPOCH_DATA'[n][i] = EPOCH_DATA[n][i]
              \/ GoodAfp(EPOCH_DATA'[n][i], i, Chain, finalizationProofs)
  BY <1>1, HandlerStoresGood DEF Chain
<1>3. Grows
  BY <1>1, <1>2, ExtendsRefl, DurableType DEF Grows, Durable, IInv
<1>4. StoresInv'
  BY <1>1, <1>2 DEF IInv, StoresInv
<1>5. ProofsInv'
  <2> SUFFICES ASSUME NEW p \in finalizationProofs
               PROVE  GoodProof(p, Chain, finalizationProofs, BLOCKS',
                                EPOCH_DATA')
    BY <1>1, <1>2 DEF ProofsInv
  <2>1. GoodProof(p, Chain, finalizationProofs, BLOCKS, EPOCH_DATA)
    BY DEF IInv, ProofsInv
  <2>2. p.index \in Indices /\ p.voter \in Quorum
    BY DEF IInv, TypeOK, Proof
  <2>3. p.index > 0 => p.index - 1 \in Indices
    BY <2>2, BoundAssumption DEF Indices
  <2> QED  BY <1>2, <2>1, <2>2, <2>3, ExtendsRefl, ProofStable
<1>6. \A w \in Quorum : handlers'[w] \subseteq handlers[w]
  BY <1>1 DEF IInv, TypeOK
<1>7. ShareInv' /\ ChainInv'
  BY <1>1, <1>2
     DEF IInv, ShareInv, Exists, HuntedIndex, UsefulAnswers, Signers, ChainInv
<1> QED
  BY <1>1, <1>3, <1>4, <1>5, <1>6, <1>7, Carried DEF IInv

\* Restarting voters and health checkers touch nothing the invariant is about.
LEMMA OtherPreserves ==
    ASSUME IInv, TypeOK',
           \/ \E v \in Quorum : RestartVoter(v)
           \/ \E v \in HealthCheckers : HealthNext(v)
           \/ UNCHANGED vars
    PROVE  IInv'
<1>1. /\ UNCHANGED <<generation, storedGeneration, grabber, storedGrabber,
                     blockToShare, proofsCache, round, BLOCKS, EPOCH_DATA,
                     votingStat, requests, finalizationProofs, storeFaults>>
      /\ \A v \in Quorum : handlers'[v] \subseteq handlers[v]
  BY DEF RestartVoter, ForgetMemory, HealthNext, HealthRead, HealthEvaluate,
         vars, creatorVars, storeVars, memoryVars, networkVars, boundVars,
         IInv, TypeOK
<1>2. Grows
  BY <1>1, GrowsWhenSame DEF IInv
<1>3. ShareInv' /\ ChainInv'
  BY <1>1
     DEF IInv, ShareInv, Exists, Chain, HuntedIndex, UsefulAnswers, Signers,
         ChainInv
<1> QED
  BY <1>1, <1>2, <1>3, Carried DEF IInv, Chain

THEOREM InvariantStep == IInv /\ [Next]_vars => IInv'
<1> SUFFICES ASSUME IInv, [Next]_vars PROVE IInv'
  OBVIOUS
<1>1. TypeOK'
  BY TypeStep DEF IInv
<1>2. CASE CreatorNext
  BY <1>1, <1>2, GeneratePreserves, SharePreserves, RoundPreserves,
     RoundSucceedsPreserves, PersistPreserves, PersistFailsPreserves,
     RestartCreatorPreserves
     DEF CreatorNext
<1>3. ASSUME NEW v \in Quorum, VoterNext(v)
      PROVE  IInv'
  BY <1>1, <1>3, BeginVotePreserves, FinishVotePreserves,
     PartialVotePreserves, OtherPreserves
     DEF VoterNext
<1>4. CASE \E v \in HealthCheckers : HealthNext(v)
  BY <1>1, <1>4, OtherPreserves
<1>5. CASE UNCHANGED vars
  BY <1>1, <1>5, OtherPreserves
<1> QED  BY <1>2, <1>3, <1>4, <1>5 DEF Next

\* IInv holds in every reachable state: all that the nodes of a quorum of
\* any size store, sign or send is about one hash-linked chain of blocks.
THEOREM Invariant == Spec => []IInv
BY InvariantInit, InvariantStep, PTL DEF Spec

\* The variables keep their types; in particular the share thread never
\* hunts a block beyond those that were generated.
THEOREM TypeCorrect == Spec => []TypeOK
<1>1. IInv => TypeOK
  BY DEF IInv
<1> QED  BY <1>1, Invariant, PTL

-----------------------------------------------------------------------------
(***************************************************************************)
(* The safety properties, each a consequence of the invariant.             *)
(***************************************************************************)
LEMMA KnownIsGood ==
    ASSUME IInv, NEW afp \in KnownAfps
    PROVE  /\ afp.index \in Indices
           /\ GoodAfp(afp, afp.index, Chain, finalizationProofs)
           /\ afp.hash = Chain[afp.index].hash
           /\ afp.prev = HashAt(Chain, afp.index - 1)
           /\ afp.prev = Chain[afp.index].prev
           /\ Chain[afp.index].index = afp.index
           /\ afp.proofs \in SUBSET Quorum
<1>1. PICK i : GoodAfp(afp, i, Chain, finalizationProofs) /\ afp # NoAfp
  <2>1. CASE \E n \in Quorum, i \in Indices : afp = EPOCH_DATA[n][i]
    BY <2>1 DEF KnownAfps, IInv, StoresInv
  <2>2. CASE \E n \in Quorum : afp = votingStat[n].afp
    BY <2>2 DEF KnownAfps, IInv, StatInv, GoodStat
  <2>3. CASE afp \in {grabber.afpForPrevious, storedGrabber.afpForPrevious}
    BY <2>3 DEF KnownAfps, IInv, GrabberInv, GoodGrabber
  <2> QED  BY <2>1, <2>2, <2>3 DEF KnownAfps
<1>2. /\ i \in Indices /\ Chain[i].index = i /\ afp.index = i
      /\ afp.hash = Chain[i].hash
      /\ afp.prev = HashAt(Chain, i - 1)
      /\ afp.proofs \subseteq
            SignersIn(finalizationProofs, afp.prev, i, afp.hash)
  BY <1>1 DEF GoodAfp, Exists
<1>3. Chain[i].prev = HashAt(Chain, i - 1)
  BY <1>2, BoundAssumption DEF IInv, ChainInv, NoBlock, Indices
<1>4. SignersIn(finalizationProofs, afp.prev, i, afp.hash) \in SUBSET Quorum
  BY SignersType DEF IInv, TypeOK
<1> QED  BY <1>1, <1>2, <1>3, <1>4

LEMMA GoodVerifies ==
    ASSUME IInv, NEW afp, NEW i \in Indices,
           GoodAfp(afp, i, Chain, finalizationProofs)
    PROVE  /\ VerifyAfp(afp)
           /\ Cardinality(Signers(afp.prev, i, afp.hash)) >= Majority
<1>1. /\ afp.index = i
      /\ afp.proofs \subseteq Signers(afp.prev, i, afp.hash)
      /\ Cardinality(afp.proofs) >= Majority
  BY BoundAssumption DEF GoodAfp, Signers, Indices
<1>2. Signers(afp.prev, i, afp.hash) \in SUBSET Quorum
  BY SignersType DEF IInv, TypeOK, Signers
<1>3. afp.proofs \cap Signers(afp.prev, i, afp.hash) = afp.proofs
  BY <1>1
<1>4. Cardinality(afp.proofs)
        <= Cardinality(Signers(afp.prev, i, afp.hash))
  BY <1>1, <1>2, BiggerCount
<1>5. /\ Cardinality(afp.proofs) \in Nat
      /\ Cardinality(Signers(afp.prev, i, afp.hash)) \in Nat
  BY <1>1, <1>2, QuorumSubsets
<1> QED  BY <1>1, <1>3, <1>4, <1>5, MajorityFacts DEF VerifyAfp

\* Any two AFPs that exist anywhere verify, and agree on their height: the
\* agreement of finalization, for every quorum and any number of retries,
\* restarts and failed writes.
THEOREM Agreement == Spec => []FinalizationAgrees
<1>1. IInv => FinalizationAgrees
  BY KnownIsGood, GoodVerifies DEF FinalizationAgrees
<1> QED  BY <1>1, Invariant, PTL

\* The finalized blocks are one hash-linked chain, and the blocks that the
\* nodes store next to the AFPs are the blocks of that chain.
THEOREM Linked == Spec => []ChainLinked
<1>1. ASSUME IInv
      PROVE  ChainLinked
  <2>1. ASSUME NEW a \in KnownAfps, NEW b \in KnownAfps,
               b.index = a.index + 1
        PROVE  b.prev = a.hash
    BY <1>1, <2>1, KnownIsGood, BoundAssumption DEF HashAt, Indices
  <2>2. ASSUME NEW a \in KnownAfps, NEW n \in Quorum,
               BLOCKS[n][a.index] # NoBlock
        PROVE  /\ BLOCKS[n][a.index].hash = a.hash
               /\ BLOCKS[n][a.index].prev = a.prev
    BY <1>1, <2>2, KnownIsGood DEF IInv, StoresInv
  <2> QED  BY <2>1, <2>2 DEF ChainLinked
<1> QED  BY <1>1, Invariant, PTL

\* No voter signs ahead of finalization.
THEOREM VotesFollow == Spec => []VotesFollowFinalization
<1>1. ASSUME IInv
      PROVE  VotesFollowFinalization
  <2> SUFFICES ASSUME NEW p \in finalizationProofs, p.index > 0
               PROVE  MajoritySigned(p.index - 1, p.prev)
    BY DEF VotesFollowFinalization
  <2> DEFINE afp == EPOCH_DATA[p.voter][p.index - 1]
  <2>1. p.index - 1 \in Indices /\ p.voter \in Quorum
    BY <1>1, BoundAssumption DEF IInv, TypeOK, Proof, Indices
  <2>2. GoodAfp(afp, p.index - 1, Chain, finalizationProofs)
    BY <1>1 DEF IInv, ProofsInv, GoodProof
  <2>3. p.prev = HashAt(Chain, p.index - 1)
    BY <1>1 DEF IInv, ProofsInv, GoodProof
  <2>4. afp.hash = p.prev /\ afp.prev \in Hash
    BY <1>1, <2>1, <2>2, <2>3, BoundAssumption
       DEF GoodAfp, HashAt, IInv, TypeOK, Afp, Indices
  <2>5. Cardinality(Signers(afp.prev, p.index - 1, p.prev)) >= Majority
    BY <1>1, <2>1, <2>2, <2>4, GoodVerifies
  <2> QED  BY <2>4, <2>5 DEF MajoritySigned
<1> QED  BY <1>1, Invariant, PTL

\* A majority of its signers hold a finalized block and a verifiable AFP of
\* the block before it on disk.
THEOREM Replicated == Spec => []FinalizedIsReplicated
<1>1. ASSUME IInv
      PROVE  FinalizedIsReplicated
  <2> SUFFICES
        ASSUME NEW a \in KnownAfps
        PROVE  Cardinality({v \in a.proofs :
                 /\ BLOCKS[v][a.index].hash = a.hash
                 /\ a.index > 0 =>
                      /\ EPOCH_DATA[v][a.index - 1].hash = a.prev
                      /\ VerifyAfp(EPOCH_DATA[v][a.index - 1])}) >= Majority
    BY DEF FinalizedIsReplicated
  <2>1. /\ a.index \in Indices
        /\ a.hash = Chain[a.index].hash
        /\ a.prev = HashAt(Chain, a.index - 1)
        /\ GoodAfp(a, a.index, Chain, finalizationProofs)
    BY <1>1, KnownIsGood
  <2>2. /\ Cardinality(a.proofs) >= Majority
        /\ a.proofs \subseteq
             SignersIn(finalizationProofs, a.prev, a.index, a.hash)
    BY <2>1, BoundAssumption DEF GoodAfp, Indices
  <2>3. ASSUME NEW v \in a.proofs
        PROVE  /\ BLOCKS[v][a.index].hash = a.hash
               /\ a.index > 0 =>
                    /\ EPOCH_DATA[v][a.index - 1].hash = a.prev
                    /\ VerifyAfp(EPOCH_DATA[v][a.index - 1])
    <3>1. PICK p \in finalizationProofs : p.voter = v /\ p.index = a.index
      BY <2>2 DEF SignersIn
    <3>2. GoodProof(p, Chain, finalizationProofs, BLOCKS, EPOCH_DATA)
      BY <1>1 DEF IInv, ProofsInv
    <3>3. BLOCKS[v][a.index].hash = a.hash
      BY <2>1, <3>1, <3>2 DEF GoodProof
    <3>4. ASSUME a.index > 0
          PROVE  /\ EPOCH_DATA[v][a.index - 1].hash = a.prev
                 /\ VerifyAfp(EPOCH_DATA[v][a.index - 1])
      <4>1. GoodAfp(EPOCH_DATA[v][a.index - 1], a.index - 1, Chain,
                    finalizationProofs)
        BY <3>1, <3>2, <3>4 DEF GoodProof
      <4>2. a.index - 1 \in Indices
        BY <2>1, <3>4, BoundAssumption DEF Indices
      <4>3. EPOCH_DATA[v][a.index - 1].hash = a.prev
        BY <2>1, <4>1, <4>2, BoundAssumption DEF GoodAfp, HashAt, Indices
      <4> QED  BY <1>1, <4>1, <4>2, <4>3, GoodVerifies
    <3> QED  BY <3>3, <3>4
  <2>4. {v \in a.proofs :
           /\ BLOCKS[v][a.index].hash = a.hash
           /\ a.index > 0 =>
                /\ EPOCH_DATA[v][a.index - 1].hash = a.prev
                /\ VerifyAfp(EPOCH_DATA[v][a.index - 1])} = a.proofs
    BY <2>3
  <2> QED  BY <2>2, <2>4
<1> QED  BY <1>1, Invariant, PTL

\* What a node has stored of its votes lets the hunted block pass, and the
\* one that a restart of the creator would make it hunt.
LEMMA ResendsPass ==
    ASSUME IInv
    PROVE  VotersAcceptResends
<1> SUFFICES ASSUME NEW i \in Indices,
                    i \in {HuntedIndex, storedGrabber.acceptedIndex + 1},
                    Chain[i] # NoBlock, NEW v \in Quorum
             PROVE  ItsSameChainSegment(votingStat[v], Chain[i])
  BY DEF VotersAcceptResends, Chain
<1>1. Chain[i].index = i
  BY DEF IInv, ChainInv
<1>2. /\ votingStat[v].index \in Int
      /\ grabber.acceptedIndex \in Int
      /\ storedGrabber.acceptedIndex \in Int
      /\ i \in Int /\ i >= 0
  BY BoundAssumption DEF IInv, TypeOK, VotingStat, Grabber, Indices
<1>3. votingStat[v].index <= i
  BY <1>2 DEF IInv, StatInv, GoodStat, GrabberInv, Durable, HuntedIndex
<1>4. votingStat[v].index = i => votingStat[v].hash = Chain[i].hash
  BY <1>2 DEF IInv, StatInv, GoodStat
<1> QED  BY <1>1, <1>2, <1>3, <1>4 DEF ItsSameChainSegment

\* Every node accepts the hunted block whenever it is sent again, and the one
\* before it after a restart of the creator.
THEOREM ResendsAccepted == Spec => []VotersAcceptResends
<1> QED  BY ResendsPass, Invariant, PTL

\* A request for a block of the chain leads to signatures over this very
\* block and the hash the chain has below it.
LEMMA SignsTheChain ==
    ASSUME IInv, NEW r, NEW v,
           GoodRequest(r, Chain, finalizationProofs, Durable)
    PROVE  LET p == FinalizationProof(v, r)
           IN  /\ p.index = r.block.index
               /\ p.hash = Chain[r.block.index].hash
               /\ p.prev = HashAt(Chain, r.block.index - 1)
               /\ r.block.index > 0 => r.afp.index = r.block.index - 1
<1> DEFINE i == r.block.index
<1>1. /\ i \in Indices /\ r.block = Chain[i]
      /\ GoodAfp(r.afp, i - 1, Chain, finalizationProofs)
  BY DEF GoodRequest, Exists
<1>2. i \in Nat
  BY <1>1, BoundAssumption DEF Indices
<1>3. CASE i = 0
  BY <1>1, <1>3 DEF FinalizationProof, HashAt
<1>4. CASE i > 0
  <2>1. i - 1 # -1 /\ i # 0
    BY <1>2, <1>4
  <2>2. r.afp.hash = HashAt(Chain, i - 1) /\ r.afp.index = i - 1
    BY <1>1, <2>1 DEF GoodAfp, HashAt
  <2> QED  BY <1>1, <2>1, <2>2 DEF FinalizationProof
<1> QED  BY <1>2, <1>3, <1>4

\* The request of a round under way has been sent.
HuntedRequest == [block |-> blockToShare, afp |-> grabber.afpForPrevious]
HuntedSent    == round = "waiting" => HuntedRequest \in requests

LEMMA HuntedSentStep == HuntedSent /\ [Next]_vars => HuntedSent'
<1> SUFFICES ASSUME HuntedSent, [Next]_vars, round' = "waiting"
             PROVE  HuntedRequest' \in requests'
  BY DEF HuntedSent
<1>1. CASE ShareBlock
  BY <1>1 DEF ShareBlock, HuntedRequest
<1>2. CASE ~ShareBlock
  <2>1. /\ round = "waiting" /\ requests' = requests
        /\ blockToShare' = blockToShare /\ grabber' = grabber
    BY <1>2
       DEF Next, CreatorNext, GenerateBlock, RoundTimesOut, RoundCollects,
       RoundSucceeds, PersistGrabber, PersistGrabberFails, RestartCreator,
       VoterNext, BeginVote, FinishVote, PartialVote, RestartVoter,
       HealthNext, HealthRead, HealthEvaluate, vars, creatorVars, networkVars
  <2> QED  BY <2>1 DEF HuntedSent, HuntedRequest
<1> QED  BY <1>1, <1>2

\* While a round is under way every voter that has not disabled the creator
\* can give the signature it waits for: no retry, restart, stale stat or
\* failed write leaves the creator asking for what nobody may sign, or the
\* voters signing what the creator throws away.
THEOREM NoRoundInVain == Spec => []RoundsCanSucceed
<1>1. ASSUME IInv, HuntedSent
      PROVE  RoundsCanSucceed
  <2> DEFINE i == HuntedIndex
  <2> SUFFICES ASSUME round = "waiting"
               PROVE  /\ HuntedRequest \in requests
                      /\ PreviousIsFinalized(HuntedRequest)
                      /\ \A v \in Quorum :
                           /\ ItsSameChainSegment(votingStat[v], blockToShare)
                           /\ IsUseful(FinalizationProof(v, HuntedRequest))
                           /\ \A h \in handlers[v] :
                                h.request.block.index = i =>
                                  IsUseful(FinalizationProof(v, h.request))
    BY DEF RoundsCanSucceed, HuntedRequest
  <2>1. HuntedRequest \in requests
    BY <1>1 DEF HuntedSent
  <2>2. GoodRequest(HuntedRequest, Chain, finalizationProofs, Durable)
    BY <1>1, <2>1 DEF IInv, RequestsInv
  <2>3. /\ i \in Indices /\ i \in Nat
        /\ grabber.acceptedIndex = i - 1
        /\ blockToShare.index = i /\ blockToShare = Chain[i]
        /\ HuntedRequest.block = blockToShare
        /\ HuntedRequest.afp = grabber.afpForPrevious
    <3>1. blockToShare.index = i /\ HuntedRequest.block = blockToShare
      BY <1>1 DEF IInv, ShareInv, HuntedRequest
    <3>2. i \in Indices /\ blockToShare = Chain[i]
      BY <2>2, <3>1 DEF GoodRequest, Exists
    <3>3. grabber.acceptedIndex \in Int
      BY <1>1, BoundAssumption DEF IInv, TypeOK, Grabber, Indices
    <3> QED  BY <3>1, <3>2, <3>3, BoundAssumption
             DEF HuntedIndex, Indices, HuntedRequest
  <2>4. grabber.acceptedHash = HashAt(Chain, i - 1)
    BY <1>1, <2>3 DEF IInv, GrabberInv, GoodGrabber
  <2>5. ASSUME NEW v, NEW r, r.block.index = i,
               GoodRequest(r, Chain, finalizationProofs, Durable)
        PROVE  IsUseful(FinalizationProof(v, r))
    BY <1>1, <2>3, <2>4, <2>5, SignsTheChain DEF IsUseful
  <2>6. PreviousIsFinalized(HuntedRequest)
    <3>1. CASE i = 0
      BY <2>3, <3>1 DEF PreviousIsFinalized
    <3>2. CASE i > 0
      <4>1. i - 1 \in Indices
        BY <2>3, <3>2, BoundAssumption DEF Indices
      <4>2. GoodAfp(grabber.afpForPrevious, i - 1, Chain, finalizationProofs)
        BY <1>1, <2>3 DEF IInv, GrabberInv, GoodGrabber
      <4>3. VerifyAfp(grabber.afpForPrevious)
        BY <1>1, <4>1, <4>2, GoodVerifies
      <4>4. HuntedRequest.afp.index = i - 1
        BY <1>1, <2>2, <2>3, <3>2, SignsTheChain
      <4> QED  BY <2>3, <4>3, <4>4 DEF PreviousIsFinalized
    <3> QED  BY <2>3, <3>1, <3>2
  <2>7. ASSUME NEW v \in Quorum
        PROVE  ItsSameChainSegment(votingStat[v], blockToShare)
    <3>1. Chain[i] # NoBlock
      BY <2>3 DEF NoBlock
    <3> QED  BY <1>1, <2>3, <3>1, ResendsPass DEF VotersAcceptResends, Chain
  <2>8. ASSUME NEW v \in Quorum, NEW h \in handlers[v]
        PROVE  GoodRequest(h.request, Chain, finalizationProofs, Durable)
    BY <1>1 DEF IInv, HandlersInv, RequestsInv
  <2> QED  BY <2>1, <2>2, <2>3, <2>5, <2>6, <2>7, <2>8
<1>2. Init => HuntedSent
  BY DEF Init, HuntedSent
<1> QED  BY <1>1, <1>2, HuntedSentStep, Invariant, PTL DEF Spec

\* The cache never mixes the signatures of two blocks.
THEOREM CacheIsPure == Spec => []CacheCertifiesHuntedBlock
<1>1. IInv => CacheCertifiesHuntedBlock
  BY DEF IInv, ShareInv, CacheCertifiesHuntedBlock
<1> QED  BY <1>1, Invariant, PTL

\* Only the lost write of the grabber stops the share thread, and only a
\* restart sets it going again.
THEOREM StuckUntilRestart == Spec => OnlyALostGrabberSticks
<1>1. ASSUME IInv, [Next]_vars
      PROVE  [/\ ~Stuck /\ Stuck' => PersistGrabberFails
              /\ Stuck /\ ~Stuck' => RestartCreator]_vars
  <2>1. CASE ShareBlock
    <3>1. ~Stuck /\ ~Stuck'
      BY <2>1, <1>1, QuorumSubsets, MajorityFacts
         DEF ShareBlock, Stuck, IInv, TypeOK
    <3> QED  BY <3>1
  <2>2. CASE RoundTimesOut \/ RoundCollects
    <3>1. /\ round = "waiting" /\ ~Stuck
          /\ Cardinality(proofsCache') < Majority
      BY <1>1, <2>2
         DEF RoundTimesOut, RoundCollects, IInv, ShareInv, Stuck
    <3>2. Cardinality(proofsCache') \in Nat
      BY <1>1, TypeStep, QuorumSubsets DEF IInv, TypeOK
    <3> QED  BY <3>1, <3>2, MajorityFacts DEF Stuck
  <2>3. CASE \E useful \in SUBSET UsefulAnswers, stored \in BOOLEAN :
               RoundSucceeds(useful, stored)
    BY <2>3 DEF RoundSucceeds, Stuck
  <2>4. CASE PersistGrabber
    BY <2>4, MajorityFacts, FS_EmptySet DEF PersistGrabber, Stuck
  <2>5. CASE PersistGrabberFails
    BY <2>5 DEF PersistGrabberFails, Stuck
  <2>6. CASE RestartCreator
    BY <2>6, MajorityFacts, FS_EmptySet DEF RestartCreator, Stuck
  <2>7. CASE UNCHANGED <<round, proofsCache>>
    BY <2>7 DEF Stuck
  <2> QED
    BY <1>1, <2>1, <2>2, <2>3, <2>4, <2>5, <2>6, <2>7
       DEF Next, CreatorNext, GenerateBlock, VoterNext, BeginVote, FinishVote,
           PartialVote, RestartVoter, HealthNext, HealthRead, HealthEvaluate,
           vars, creatorVars
<1> QED  BY <1>1, Invariant, PTL DEF Spec, OnlyALostGrabberSticks

\* The AFP of the next block is a proof that this one was approved.
THEOREM ServedIsApproved == Spec => []ServedBlockIsApproved
<1>1. ASSUME IInv
      PROVE  ServedBlockIsApproved
  <2> SUFFICES ASSUME NEW n \in Quorum, NEW i \in Indices,
                      BLOCKS[n][i] # NoBlock, ServedAfp(n, i) # NoAfp
               PROVE  /\ ServedAfp(n, i).prev = BLOCKS[n][i].hash
                      /\ Cardinality(Signers(BLOCKS[n][i].prev, i,
                                             BLOCKS[n][i].hash)) >= Majority
    BY DEF ServedBlockIsApproved
  <2> DEFINE afp == EPOCH_DATA[n][i + 1]
  <2>1. /\ i + 1 \in Indices /\ ServedAfp(n, i) = afp
        /\ i \in Int /\ i >= 0
        /\ i + 1 # -1 /\ (i + 1) - 1 = i
    BY BoundAssumption DEF ServedAfp, Indices
  <2>2. BLOCKS[n][i] = Chain[i] /\ Chain[i] # NoBlock
    BY <1>1 DEF IInv, StoresInv
  <2>3. Chain[i].prev = HashAt(Chain, i - 1)
    BY <1>1, <2>2 DEF IInv, ChainInv
  <2>4. GoodAfp(afp, i + 1, Chain, finalizationProofs)
    BY <1>1, <2>1 DEF IInv, StoresInv
  <2>5. /\ afp.prev = HashAt(Chain, (i + 1) - 1)
        /\ afp.proofs \subseteq
             SignersIn(finalizationProofs, afp.prev, i + 1, afp.hash)
        /\ Cardinality(afp.proofs) >= Majority
    BY <2>1, <2>4 DEF GoodAfp
  <2>6. afp.prev = Chain[i].hash
    BY <2>1, <2>5 DEF HashAt
  <2>7. PICK v \in Quorum : v \in afp.proofs
    <3>1. afp.proofs # {}
      <4>1. Cardinality({}) = 0
        BY FS_EmptySet
      <4>2. Cardinality(afp.proofs) >= Majority
        BY <2>5
      <4> QED  BY <4>1, <4>2, MajorityFacts
    <3>2. afp.proofs \subseteq Quorum
      BY <1>1, <2>1 DEF IInv, TypeOK, Afp
    <3> QED  BY <3>1, <3>2
  <2>8. PICK p \in finalizationProofs : p.voter = v /\ p.index = i + 1
    BY <2>5, <2>7 DEF SignersIn
  <2>9. GoodProof(p, Chain, finalizationProofs, BLOCKS, EPOCH_DATA)
    BY <1>1 DEF IInv, ProofsInv
  <2>10. GoodAfp(EPOCH_DATA[v][i], i, Chain, finalizationProofs)
    BY <2>1, <2>8, <2>9 DEF GoodProof
  <2>11. /\ EPOCH_DATA[v][i].hash = Chain[i].hash
         /\ EPOCH_DATA[v][i].prev = HashAt(Chain, i - 1)
    BY <2>1, <2>10 DEF GoodAfp
  <2>12. Cardinality(Signers(EPOCH_DATA[v][i].prev, i,
                             EPOCH_DATA[v][i].hash)) >= Majority
    BY <1>1, <2>10, GoodVerifies
  <2> QED  BY <2>1, <2>2, <2>3, <2>6, <2>11, <2>12
<1> QED  BY <1>1, Invariant, PTL

-----------------------------------------------------------------------------
(***************************************************************************)
(* The health checker.  Its property is inductive relative to IInv.        *)
(***************************************************************************)
SignedIn(proofs, i, hash) ==
    \E prev \in Hash :
        Cardinality(SignersIn(proofs, prev, i, hash)) >= Majority

\* A block a majority has signed stays signed, and is a block of the chain.
LEMMA SignedForEver ==
    ASSUME IInv, TypeOK', finalizationProofs \subseteq finalizationProofs',
           NEW i, NEW hash, MajoritySigned(i, hash)
    PROVE  /\ SignedIn(finalizationProofs', i, hash)
           /\ i \in Indices /\ hash \in Hashes
<1>1. PICK prev \in Hash : Cardinality(Signers(prev, i, hash)) >= Majority
  BY DEF MajoritySigned
<1>2. Signers(prev, i, hash) \in SUBSET Quorum
  BY SignersType DEF IInv, TypeOK, Signers
<1>3. SignersIn(finalizationProofs', prev, i, hash) \in SUBSET Quorum
  BY SignersType DEF TypeOK
<1>4. Cardinality(Signers(prev, i, hash))
        <= Cardinality(SignersIn(finalizationProofs', prev, i, hash))
  BY <1>2, <1>3, SignersGrow, BiggerCount DEF Signers
<1>5. SignedIn(finalizationProofs', i, hash)
  <2>1. /\ Cardinality(Signers(prev, i, hash)) \in Nat
        /\ Cardinality(SignersIn(finalizationProofs', prev, i, hash)) \in Nat
    BY <1>2, <1>3, QuorumSubsets
  <2> QED  BY <1>1, <1>4, <2>1, MajorityFacts DEF SignedIn, Signers
<1>6. PICK p \in finalizationProofs : p.index = i /\ p.hash = hash
  <2>1. Signers(prev, i, hash) # {}
    BY <1>1, MajorityFacts, FS_EmptySet
  <2> QED  BY <2>1 DEF Signers, SignersIn
<1>7. Exists(Chain, i) /\ hash = Chain[i].hash
  BY <1>6 DEF IInv, ProofsInv, GoodProof
<1>8. hash \in Hashes
  BY <1>7, BoundAssumption DEF IInv, ChainInv, Exists, NoBlock, Indices
<1> QED  BY <1>5, <1>7, <1>8 DEF Exists

\* The health checker compares, and condemns for, finalized blocks only.
THEOREM HealthIsSound == Spec => []HealthJudgesFinalized
<1>1. Init => HealthJudgesFinalized
  BY DEF Init, HealthJudgesFinalized, NoObservation
<1>2. ASSUME IInv, TypeOK', HealthJudgesFinalized, [Next]_vars
      PROVE  HealthJudgesFinalized'
  <2>1. finalizationProofs \subseteq finalizationProofs'
    BY <1>2 DEF Next, CreatorNext, GenerateBlock, ShareBlock, RoundTimesOut,
         RoundCollects, RoundSucceeds, PersistGrabber, PersistGrabberFails,
         RestartCreator, VoterNext, BeginVote, FinishVote, PartialVote,
         RestartVoter, HealthNext, HealthRead, HealthEvaluate,
         vars, networkVars
  <2>2. ASSUME NEW i, NEW hash, MajoritySigned(i, hash)
        PROVE  /\ SignedIn(finalizationProofs', i, hash)
               /\ i \in Indices /\ hash \in Hashes
    BY <1>2, <2>1, <2>2, SignedForEver
  <2>3. ASSUME NEW v \in Quorum,
               snapshot'[v] \in {snapshot[v], NoObservation, observed[v]},
               \/ observed'[v] \in {observed[v], NoObservation}
               \/ observed'[v] = [index |-> votingStat[v].index,
                                  hash |-> votingStat[v].hash],
               disabled'[v] => disabled[v] \/ Stalled(v)
        PROVE  /\ \A seen \in {snapshot'[v], observed'[v]} :
                    seen.index >= 0 =>
                      SignedIn(finalizationProofs', seen.index, seen.hash)
               /\ disabled'[v] =>
                    \E i \in Indices, hash \in Hashes :
                       SignedIn(finalizationProofs', i, hash)
    <3>1. ASSUME NEW seen \in {snapshot[v], observed[v]}, seen.index >= 0
          PROVE  SignedIn(finalizationProofs', seen.index, seen.hash)
      BY <1>2, <2>2, <3>1 DEF HealthJudgesFinalized
    <3>2. votingStat[v].index >= 0 =>
            SignedIn(finalizationProofs', votingStat[v].index,
                     votingStat[v].hash)
      <4> SUFFICES ASSUME votingStat[v].index >= 0
                   PROVE  MajoritySigned(votingStat[v].index,
                                         votingStat[v].hash)
        BY <2>2
      <4> DEFINE i == votingStat[v].index
                 afp == votingStat[v].afp
      <4>1. GoodAfp(afp, i, Chain, finalizationProofs)
            /\ votingStat[v].hash = Chain[i].hash
        BY <1>2 DEF IInv, StatInv, GoodStat
      <4>2. i \in Indices /\ afp.hash = Chain[i].hash
        BY <4>1, BoundAssumption DEF GoodAfp, Exists
      <4>3. afp.prev \in Hash
        BY <1>2 DEF IInv, TypeOK, VotingStat, Afp
      <4> QED  BY <1>2, <4>1, <4>2, <4>3, GoodVerifies DEF MajoritySigned
    <3>4. Stalled(v) => \E i \in Indices, hash \in Hashes :
                          SignedIn(finalizationProofs', i, hash)
      <4> SUFFICES ASSUME Stalled(v)
                   PROVE  \E i \in Indices, hash \in Hashes :
                            SignedIn(finalizationProofs', i, hash)
        OBVIOUS
      <4>1. MajoritySigned(observed[v].index, observed[v].hash)
        BY <1>2 DEF Stalled, HealthJudgesFinalized
      <4> QED  BY <2>2, <4>1
    <3>5. disabled[v] => \E i \in Indices, hash \in Hashes :
                           SignedIn(finalizationProofs', i, hash)
      BY <1>2, <2>2 DEF HealthJudgesFinalized
    <3>6. ASSUME NEW seen \in {snapshot'[v], observed'[v]}, seen.index >= 0
          PROVE  SignedIn(finalizationProofs', seen.index, seen.hash)
      <4>1. \/ seen \in {snapshot[v], observed[v]}
            \/ seen = [index |-> votingStat[v].index,
                       hash |-> votingStat[v].hash]
        <5>1. seen # NoObservation
          BY <3>6 DEF NoObservation
        <5> QED  BY <2>3, <5>1
      <4> QED  BY <3>1, <3>2, <3>6, <4>1
    <3>7. disabled'[v] => \E i \in Indices, hash \in Hashes :
                            SignedIn(finalizationProofs', i, hash)
      BY <2>3, <3>4, <3>5
    <3> QED  BY <3>6, <3>7
  <2>4. ASSUME NEW v \in Quorum
        PROVE  /\ snapshot'[v] \in {snapshot[v], NoObservation, observed[v]}
               /\ \/ observed'[v] \in {observed[v], NoObservation}
                  \/ observed'[v] = [index |-> votingStat[v].index,
                                     hash |-> votingStat[v].hash]
               /\ disabled'[v] => disabled[v] \/ Stalled(v)
    <3>1. /\ snapshot \in [Quorum -> Observation \cup {NoObservation}]
          /\ observed \in [Quorum -> Observation \cup {NoObservation}]
          /\ disabled \in [Quorum -> BOOLEAN]
      BY <1>2 DEF IInv, TypeOK
    <3>2. CASE UNCHANGED <<disabled, snapshot, observed>>
      BY <3>2
    <3>3. CASE \E n \in Quorum : ForgetMemory(n) /\ UNCHANGED disabled
      BY <3>1, <3>3 DEF ForgetMemory
    <3>4. CASE \E n \in HealthCheckers : HealthRead(n)
      BY <3>1, <3>4 DEF HealthRead, storeVars
    <3>5. CASE \E n \in HealthCheckers : HealthEvaluate(n)
      BY <3>1, <3>5 DEF HealthEvaluate
    <3>6. \/ UNCHANGED <<disabled, snapshot, observed>>
          \/ \E n \in Quorum : ForgetMemory(n) /\ UNCHANGED disabled
          \/ \E n \in HealthCheckers : HealthRead(n)
          \/ \E n \in HealthCheckers : HealthEvaluate(n)
      BY <1>2, QuorumAssumption
         DEF Next, CreatorNext, GenerateBlock, ShareBlock, RoundTimesOut,
         RoundCollects, RoundSucceeds, PersistGrabber, PersistGrabberFails,
         RestartCreator, VoterNext, BeginVote, FinishVote, PartialVote,
         RestartVoter, HealthNext, vars, storeVars, memoryVars
    <3> QED  BY <3>2, <3>3, <3>4, <3>5, <3>6
  <2>5. ASSUME NEW v \in Quorum
        PROVE  /\ \A seen \in {snapshot'[v], observed'[v]} :
                    seen.index >= 0 =>
                      SignedIn(finalizationProofs', seen.index, seen.hash)
               /\ disabled'[v] =>
                    \E i \in Indices, hash \in Hashes :
                       SignedIn(finalizationProofs', i, hash)
    BY <2>3, <2>4
  <2> QED  BY <2>5 DEF HealthJudgesFinalized, MajoritySigned, Signers, SignedIn
<1>3. IInv => TypeOK
  BY DEF IInv
<1> QED  BY <1>1, <1>2, <1>3, Invariant, PTL DEF Spec
-----------------------------------------------------------------------------
(***************************************************************************)
(* What the health flag stops.                                             *)
(***************************************************************************)
LEMMA FinalWhenCertified ==
    ASSUME IInv, NEW i \in Indices, NEW afp,
           GoodAfp(afp, i, Chain, finalizationProofs)
    PROVE  IsFinal(i)
<1>1. /\ Chain[i].index = i
      /\ afp.hash = Chain[i].hash
      /\ afp.prev = HashAt(Chain, i - 1)
  BY BoundAssumption DEF GoodAfp, Exists, Indices
<1>2. afp.hash \in Hashes
  BY <1>1, BoundAssumption DEF IInv, ChainInv, NoBlock, Indices
<1>3. afp.prev \in Hash
  <2>1. CASE i = 0
    BY <1>1, <2>1 DEF HashAt, Hash
  <2>2. CASE i # 0
    <3>1. i - 1 \in Indices /\ i - 1 # -1
      BY <2>2, BoundAssumption DEF Indices
    <3>2. Chain[i - 1] \in Block
      BY <3>1, QuorumAssumption DEF IInv, TypeOK, Chain
    <3> QED  BY <1>1, <3>1, <3>2 DEF HashAt, Block
  <2> QED  BY <2>1, <2>2
<1>4. Cardinality(Signers(afp.prev, i, afp.hash)) >= Majority
  BY GoodVerifies
<1> QED  BY <1>2, <1>3, <1>4 DEF IsFinal, MajoritySigned

\* Only a node that has not disabled the creator can still turn to a block
\* whose predecessor is not final.
LEMMA OnlyEnabledMaySign ==
    ASSUME IInv, NEW i \in 0 .. MaxIndex - 1, ~IsFinal(i),
           NEW v \in MaySign(i + 1)
    PROVE  v \in Quorum /\ ~disabled[v]
<1>1. i \in Indices /\ i + 1 \in Indices /\ i + 1 > 0 /\ (i + 1) - 1 = i
  BY BoundAssumption DEF Indices
<1>2. ASSUME NEW h \in handlers[v], h.request.block.index = i + 1,
             v \in Quorum
      PROVE  FALSE
  <2>1. GoodAfp(h.request.afp, i, Chain, finalizationProofs)
    BY <1>1, <1>2 DEF IInv, HandlersInv, RequestsInv, GoodRequest
  <2> QED  BY <1>1, <2>1, FinalWhenCertified
<1>3. ASSUME NEW p \in finalizationProofs, p.index = i + 1
      PROVE  FALSE
  <2>1. GoodAfp(EPOCH_DATA[p.voter][i], i, Chain, finalizationProofs)
    BY <1>1, <1>3 DEF IInv, ProofsInv, GoodProof
  <2> QED  BY <1>1, <2>1, FinalWhenCertified
<1> QED  BY <1>2, <1>3 DEF MaySign

\* Less than a majority is left when a majority is taken away.
LEMMA MinorityIsLeft ==
    ASSUME NEW S \in SUBSET Quorum, Cardinality(S) >= Majority,
           NEW T \in SUBSET Quorum, S \cap T = {}
    PROVE  Cardinality(T) < Majority
<1>1. IsFiniteSet(S) /\ IsFiniteSet(T)
      /\ Cardinality(S) \in Nat /\ Cardinality(T) \in Nat
  BY QuorumSubsets
<1>2. Cardinality(S \cup T) = Cardinality(S) + Cardinality(T)
  <2>1. Cardinality(S \cap T) = 0
    BY FS_EmptySet
  <2>2. Cardinality(S \cup T)
          = Cardinality(S) + Cardinality(T) - Cardinality(S \cap T)
    BY <1>1, FS_Union
  <2> QED  BY <1>1, <2>1, <2>2
<1>3. Cardinality(S \cup T) <= Cardinality(Quorum)
  BY QuorumAssumption, FS_Subset
<1>4. Cardinality(Quorum) \in Nat
  BY QuorumAssumption, FS_CardinalityType
<1>5. 2 * Majority > Cardinality(Quorum)
  <2> DEFINE n == Cardinality(Quorum)
  <2>1. n > 0
    BY <1>4, QuorumAssumption, FS_EmptySet
  <2> HIDE DEF n
  <2>2. 2 * MajorityOf(n) > n
    BY <1>4, <2>1 DEF MajorityOf, n
  <2> QED  BY <2>2 DEF n, Majority, GetQuorumMajority
<1> QED  BY <1>1, <1>2, <1>3, <1>4, <1>5, MajorityFacts

\* A node that has signed a block or has a handler for it may sign it, and
\* only a node that could begin to sign it becomes one of these.
LEMMA MaySignShrinks ==
    ASSUME IInv, TypeOK', [Next]_vars, NEW i \in Indices
    PROVE  MaySign(i)' \subseteq MaySign(i)
<1>1. /\ handlers \in [Quorum -> SUBSET Handler]
      /\ disabled \in [Quorum -> BOOLEAN]
      /\ disabled' \in [Quorum -> BOOLEAN]
  BY DEF IInv, TypeOK
<1>2. ASSUME NEW n \in Quorum, NEW request \in requests,
             BeginVote(n, request)
      PROVE  MaySign(i)' \subseteq MaySign(i)
  <2>1. /\ disabled' = disabled /\ ~disabled[n]
        /\ finalizationProofs' = finalizationProofs
        /\ \A v \in Quorum : v # n => handlers'[v] = handlers[v]
    BY <1>1, <1>2 DEF BeginVote, storeVars, networkVars
  <2>2. ASSUME NEW v \in MaySign(i)'
        PROVE  v \in MaySign(i)
    <3>1. v \in Quorum
      BY <2>2 DEF MaySign
    <3>2. CASE v = n
      BY <2>1, <3>1, <3>2 DEF MaySign
    <3>3. CASE v # n
      BY <2>1, <2>2, <3>1, <3>3 DEF MaySign
    <3> QED  BY <3>2, <3>3
  <2> QED  BY <2>2
<1>3. ASSUME NEW n \in Quorum, NEW h \in handlers[n], FinishVote(n, h)
      PROVE  MaySign(i)' \subseteq MaySign(i)
  <2>1. /\ disabled' = disabled
        /\ \A v \in Quorum : handlers'[v] \subseteq handlers[v]
        /\ finalizationProofs' = finalizationProofs
               \cup {FinalizationProof(n, h.request)}
    BY <1>1, <1>3 DEF FinishVote
  <2>2. /\ FinalizationProof(n, h.request).voter = n
        /\ FinalizationProof(n, h.request).index = h.request.block.index
    BY DEF FinalizationProof
  <2> QED  BY <2>1, <2>2 DEF MaySign
<1>4. ASSUME /\ finalizationProofs' = finalizationProofs
             /\ \A v \in Quorum : /\ handlers'[v] \subseteq handlers[v]
                                  /\ disabled[v] => disabled'[v]
      PROVE  MaySign(i)' \subseteq MaySign(i)
  BY <1>4 DEF MaySign
<1>5. CASE CreatorNext \/ UNCHANGED vars
  <2>1. /\ finalizationProofs' = finalizationProofs
        /\ disabled' = disabled
        /\ handlers' = handlers \/ ForgetMemory(Creator)
    BY <1>5 DEF CreatorNext, GenerateBlock, ShareBlock, RoundTimesOut,
         RoundCollects, RoundSucceeds, PersistGrabber, PersistGrabberFails,
         RestartCreator, vars, storeVars, memoryVars, networkVars
  <2>2. \A v \in Quorum : handlers'[v] \subseteq handlers[v]
    BY <1>1, <2>1 DEF ForgetMemory
  <2> QED  BY <1>4, <2>1, <2>2
<1>6. ASSUME NEW n \in Quorum, RestartVoter(n)
      PROVE  MaySign(i)' \subseteq MaySign(i)
  BY <1>1, <1>4, <1>6 DEF RestartVoter, ForgetMemory, storeVars, networkVars
<1>7. ASSUME NEW n \in Quorum, NEW h \in handlers[n], PartialVote(n, h)
      PROVE  MaySign(i)' \subseteq MaySign(i)
  BY <1>1, <1>4, <1>7 DEF PartialVote, networkVars
<1>8. ASSUME NEW n \in HealthCheckers, HealthNext(n)
      PROVE  MaySign(i)' \subseteq MaySign(i)
  BY <1>1, <1>4, <1>8, QuorumAssumption
     DEF HealthNext, HealthRead, HealthEvaluate, storeVars, networkVars
<1> QED  BY <1>2, <1>3, <1>5, <1>6, <1>7, <1>8 DEF Next, VoterNext

\* Once a majority of the nodes has disabled the creator, at most one more
\* of its blocks becomes final, whatever handlers were under way.
THEOREM Freeze == Spec => DisablingFreezes
<1>1. ASSUME IInv, NEW i \in 0 .. MaxIndex - 1, MajorityDisabled, ~IsFinal(i)
      PROVE  OutOfReach(i + 1)
  <2> DEFINE D == {v \in Quorum : disabled[v]}
  <2>1. Cardinality(D) >= Majority
    BY <1>1 DEF MajorityDisabled
  <2>2. MaySign(i + 1) \subseteq Quorum /\ MaySign(i + 1) \cap D = {}
    BY <1>1, OnlyEnabledMaySign
  <2> QED  BY <2>1, <2>2, MinorityIsLeft DEF OutOfReach
<1>2. ASSUME IInv, TypeOK', [Next]_vars, NEW i \in Indices, OutOfReach(i)
      PROVE  OutOfReach(i)'
  <2>1. /\ MaySign(i)' \subseteq MaySign(i)
        /\ MaySign(i) \in SUBSET Quorum /\ MaySign(i)' \in SUBSET Quorum
    BY <1>2, MaySignShrinks DEF MaySign
  <2>2. Cardinality(MaySign(i)') <= Cardinality(MaySign(i))
    BY <2>1, BiggerCount
  <2>3. /\ Cardinality(MaySign(i)') \in Nat
        /\ Cardinality(MaySign(i)) \in Nat
    BY <2>1, QuorumSubsets
  <2>4. Cardinality(MaySign(i)') < Majority
    BY <1>2, <2>2, <2>3, MajorityFacts DEF OutOfReach
  <2> QED  BY <2>4 DEF OutOfReach, Majority
<1>3. IInv => \A i \in 0 .. MaxIndex - 1 :
                MajorityDisabled /\ ~IsFinal(i) => OutOfReach(i + 1)
  BY <1>1
<1>4. IInv /\ TypeOK' /\ [Next]_vars =>
        [\A i \in Indices : OutOfReach(i) => OutOfReach(i)']_vars
  BY <1>2
<1>5. IInv => TypeOK
  BY DEF IInv
<1> QED  BY <1>3, <1>4, <1>5, Invariant, PTL DEF Spec, DisablingFreezes
=============================================================================
