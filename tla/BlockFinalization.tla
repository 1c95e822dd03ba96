------------------------- MODULE BlockFinalization -------------------------
(***************************************************************************)
(* How one anchor's blocks are generated, voted for and finalized within   *)
(* one supported epoch.                                                    *)
(*                                                                         *)
(* The anchor that creates the blocks (Creator) runs two threads:          *)
(* BlocksGenerationThread appends blocks to its own chain, at most one     *)
(* ahead of the last one it knows to be finalized, and                     *)
(* ShareBlockAndGetProofsThread sends the next block to the whole quorum   *)
(* together with the aggregated finalization proof (AFP) of the previous   *)
(* one, waits for a majority of answers and aggregates their signatures.   *)
(*                                                                         *)
(* Every member of the quorum, the creator included, answers these         *)
(* requests in GetFinalizationProof.  Handlers run in parallel: each reads *)
(* the voting stat it keeps for the creator BEFORE taking the creator's    *)
(* mutex, and writes what it computed from that copy after.  A health      *)
(* checker reads the same stat and may disable the creator on this node.   *)
(*                                                                         *)
(* Messages: the requests ever sent and the proofs ever issued are         *)
(* monotone sets from which a receiver may take any element at any time,   *)
(* any number of times or never: this covers delay, reordering, the        *)
(* resends of the quorum waiter and loss.  Nodes crash and restart from    *)
(* their LevelDB stores.  The epoch stays in the window of supported       *)
(* epochs all along.                                                       *)
(***************************************************************************)
EXTENDS Integers, FiniteSets, QuorumMajority

CONSTANTS
    Quorum,          \* the anchors of the epoch; every one is a quorum member
    Creator,         \* the anchor whose blocks are followed
    Hashes,          \* the Blake3 hashes its blocks may get
    ZeroHash,        \* "0123456789abcdef...": the previous hash of block 0
    EmptyHash,       \* "", the hash in a zero-valued AFP
    MaxIndex,        \* bound: the creator generates blocks 0..MaxIndex
    MaxHandlers,     \* bound: vote handlers running at once, over all nodes
    MaxRestarts,     \* bound: crashes and restarts, over all nodes
    MaxStoreFaults,  \* bound: LevelDB writes that fail, over all nodes
    HealthCheckers   \* the nodes whose health checker is fast enough to matter

ASSUME QuorumAssumption ==
    /\ IsFiniteSet(Quorum)
    /\ Creator \in Quorum
    /\ HealthCheckers \subseteq Quorum

ASSUME HashAssumption ==
    /\ ZeroHash \notin Hashes
    /\ EmptyHash \notin Hashes
    /\ ZeroHash # EmptyHash

ASSUME BoundAssumption ==
    /\ MaxIndex \in Nat
    /\ MaxHandlers \in Nat
    /\ MaxRestarts \in Nat
    /\ MaxStoreFaults \in Nat

VARIABLES
    \* The creator: memory, with the stored copy of each metadata record.
    generation,          \* GENERATION_THREAD_METADATA of the epoch
    storedGeneration,    \* the same under BLOCKS["GT:<epoch>"]
    grabber,             \* finalizationRuntime.Grabber
    storedGrabber,       \* the same under "<epoch>:PROOFS_GRABBER"
    blockToShare,        \* finalizationRuntime.BlockToShare
    proofsCache,         \* the keys of finalizationRuntime.ProofsCache
    round,               \* where ShareBlockAndGetProofsThread is in its loop
    \* Every node: LevelDB stores ...
    BLOCKS,              \* BLOCKS[n][i]: the creator's block i at node n
    EPOCH_DATA,          \* EPOCH_DATA[n][i]: the AFP of block i at node n
    votingStat,          \* FINALIZATION_VOTING_STATS["<epoch>:<creator>"]
    disabled,            \* whether "BLOCK_CREATOR_HEALTH:..." is set
    \* ... and memory.
    handlers,            \* GetFinalizationProof calls past their checks
    snapshot,            \* creatorSnapshots of the health checker
    observed,            \* the stat the health checker has read, if any
    \* The network.
    requests,            \* get_finalization_proof requests sent by the creator
    finalizationProofs,  \* signatures issued by the voters
    \* What the bounds count.
    restarts, storeFaults

creatorVars == <<generation, storedGeneration, grabber, storedGrabber,
                 blockToShare, proofsCache, round>>
storeVars   == <<BLOCKS, EPOCH_DATA, votingStat, disabled>>
memoryVars  == <<handlers, snapshot, observed>>
healthVars  == <<disabled, snapshot, observed>>
networkVars == <<requests, finalizationProofs>>
boundVars   == <<restarts, storeFaults>>
vars == <<creatorVars, storeVars, memoryVars, networkVars, boundVars>>

-----------------------------------------------------------------------------
(***************************************************************************)
(* Data.  A block is known by its index, the previous hash it carries and  *)
(* its own hash; its transactions, time and signature are left out.        *)
(***************************************************************************)
Majority == GetQuorumMajority(Quorum)
Indices  == 0 .. MaxIndex
Hash     == Hashes \cup {ZeroHash, EmptyHash}

Block   == [index : Indices \cup {-1}, prev : Hash, hash : Hash]
NoBlock == [index |-> -1, prev |-> EmptyHash, hash |-> EmptyHash]

\* An AFP: what was signed, and who signed it.  Go's zero value is NoAfp.
Afp   == [index : Indices \cup {-1}, prev : Hash, hash : Hash,
          proofs : SUBSET Quorum]
NoAfp == [index |-> -1, prev |-> EmptyHash, hash |-> EmptyHash,
          proofs |-> {}]

VotingStat   == [index : Indices \cup {-1}, hash : Hash, afp : Afp]
StatTemplate == [index |-> -1, hash |-> ZeroHash, afp |-> NoAfp]

Generation == [nextIndex : 0 .. MaxIndex + 1, prevHash : Hash]
Grabber    == [acceptedIndex : Indices \cup {-1}, acceptedHash : Hash,
               afpForPrevious : Afp]
Request    == [block : Block, afp : Afp]
Proof      == [voter : Quorum, prev : Hash, index : Indices, hash : Hash]
Handler    == [request : Request, local : VotingStat]

\* What the health checker remembers of a stat, or nothing.
Observation   == [index : Indices \cup {-1}, hash : Hash]
NoObservation == [index |-> -2, hash |-> EmptyHash]

\* The voters whose signature over (prev, block id, hash) is among proofs.
SignersIn(proofs, prev, index, hash) ==
    {p.voter : p \in {q \in proofs : /\ q.prev = prev
                                     /\ q.index = index
                                     /\ q.hash = hash}}

Signers(prev, index, hash) == SignersIn(finalizationProofs, prev, index, hash)

\* utils.VerifyAggregatedFinalizationProof: enough of the attached
\* signatures are signatures of quorum members over the proof's own data.
VerifyAfp(afp) ==
    Cardinality(afp.proofs \cap Signers(afp.prev, afp.index, afp.hash))
        >= Majority

\* A majority has signed block i with this hash.
MajoritySigned(i, hash) ==
    \E prev \in Hash : Cardinality(Signers(prev, i, hash)) >= Majority

-----------------------------------------------------------------------------
TypeOK ==
    /\ generation \in Generation
    /\ storedGeneration \in Generation
    /\ grabber \in Grabber
    /\ storedGrabber \in Grabber
    /\ blockToShare \in Block
    /\ proofsCache \in SUBSET Quorum
    /\ round \in {"idle", "waiting", "aggregating"}
    /\ BLOCKS \in [Quorum -> [Indices -> Block]]
    /\ EPOCH_DATA \in [Quorum -> [Indices -> Afp]]
    /\ votingStat \in [Quorum -> VotingStat]
    /\ disabled \in [Quorum -> BOOLEAN]
    /\ handlers \in [Quorum -> SUBSET Handler]
    /\ snapshot \in [Quorum -> Observation \cup {NoObservation}]
    /\ observed \in [Quorum -> Observation \cup {NoObservation}]
    /\ requests \in SUBSET Request
    /\ finalizationProofs \in SUBSET Proof
    /\ restarts \in 0 .. MaxRestarts
    /\ storeFaults \in 0 .. MaxStoreFaults

FreshGeneration == [nextIndex |-> 0, prevHash |-> ZeroHash]
FreshGrabber    == [acceptedIndex |-> -1, acceptedHash |-> ZeroHash,
                    afpForPrevious |-> NoAfp]

Init ==
    /\ generation = FreshGeneration
    /\ storedGeneration = FreshGeneration
    /\ grabber = FreshGrabber
    /\ storedGrabber = FreshGrabber
    /\ blockToShare = NoBlock
    /\ proofsCache = {}
    /\ round = "idle"
    /\ BLOCKS = [n \in Quorum |-> [i \in Indices |-> NoBlock]]
    /\ EPOCH_DATA = [n \in Quorum |-> [i \in Indices |-> NoAfp]]
    /\ votingStat = [n \in Quorum |-> StatTemplate]
    /\ disabled = [n \in Quorum |-> FALSE]
    /\ handlers = [n \in Quorum |-> {}]
    /\ snapshot = [n \in Quorum |-> NoObservation]
    /\ observed = [n \in Quorum |-> NoObservation]
    /\ requests = {}
    /\ finalizationProofs = {}
    /\ restarts = 0
    /\ storeFaults = 0

-----------------------------------------------------------------------------
(***************************************************************************)
(* BlocksGenerationThread.  The accepted index is read under the runtime   *)
(* mutex and only the other thread advances it, so a block that was        *)
(* allowed when it was read is allowed when it is written.  The block and  *)
(* the generation metadata are one LevelDB batch; whatever was stored at   *)
(* this index before is overwritten.  A hash covers the creation time, so  *)
(* a new block gets a hash no block had before.                            *)
(***************************************************************************)
FreshHash(hash) ==
    /\ \A n \in Quorum, i \in Indices : BLOCKS[n][i].hash # hash
    /\ \A r \in requests : r.block.hash # hash

ShouldGenerateBlocks == generation.nextIndex <= grabber.acceptedIndex + 1

NewBlock(hash) ==
    [index |-> generation.nextIndex, prev |-> generation.prevHash,
     hash |-> hash]

\* (variants of StoreGeneration, see README, "Mutants": the previous hash is
\* not moved on; the metadata is left out of the batch)
StoreGenerationOldHash(new) ==
    /\ generation' = [new EXCEPT !.prevHash = generation.prevHash]
    /\ storedGeneration' = generation'

StoreGenerationInMemory(new) ==
    /\ generation' = new
    /\ UNCHANGED storedGeneration

StoreGeneration(new) ==
    /\ generation' = new
    /\ storedGeneration' = new

GenerateBlock ==
    /\ generation.nextIndex <= MaxIndex
    /\ ShouldGenerateBlocks
    /\ \E hash \in Hashes :
        /\ FreshHash(hash)
        /\ BLOCKS' = [BLOCKS EXCEPT
                        ![Creator][generation.nextIndex] = NewBlock(hash)]
        /\ StoreGeneration([nextIndex |-> generation.nextIndex + 1,
                            prevHash |-> hash])
    /\ UNCHANGED <<grabber, storedGrabber, blockToShare, proofsCache, round,
                   EPOCH_DATA, votingStat, disabled,
                   memoryVars, networkVars, boundVars>>

-----------------------------------------------------------------------------
(***************************************************************************)
(* runFinalizationProofsGrabbing, under the runtime mutex from beginning   *)
(* to end: load the block after the accepted one, send it, wait, aggregate *)
(* and, once a majority has signed it, move on to the next block.          *)
(***************************************************************************)
HuntedIndex == grabber.acceptedIndex + 1

BlockAtHand ==
    IF blockToShare.index = HuntedIndex \/ HuntedIndex \notin Indices
    THEN blockToShare
    ELSE BLOCKS[Creator][HuntedIndex]

\* Nothing at all is done once the cache holds a majority: aggregation too
\* is inside the branch that asks for more proofs.
ShareBlock ==
    /\ round = "idle"
    /\ BlockAtHand.index = HuntedIndex
    /\ Cardinality(proofsCache) < Majority
    /\ blockToShare' = BlockAtHand
    /\ requests' = requests \cup
                     {[block |-> BlockAtHand, afp |-> grabber.afpForPrevious]}
    /\ round' = "waiting"
    /\ UNCHANGED <<generation, storedGeneration, grabber, storedGrabber,
                   proofsCache, storeVars, memoryVars, finalizationProofs,
                   boundVars>>

\* SendAndWait gives up after three seconds; what it collected is dropped.
RoundTimesOut ==
    /\ round = "waiting"
    /\ round' = "idle"
    /\ UNCHANGED <<generation, storedGeneration, grabber, storedGrabber,
                   blockToShare, proofsCache, storeVars, memoryVars,
                   networkVars, boundVars>>

\* (a variant of UsefulAnswers that does not verify what it caches)
UnverifiedAnswers == {p.voter : p \in finalizationProofs}

\* The voters whose answer carries the hunted hash and a signature that
\* verifies against the accepted hash, the hunted block id and hash.
UsefulAnswers ==
    Signers(grabber.acceptedHash, HuntedIndex, blockToShare.hash)

\* The voters a reader goroutine of an earlier round may still be waiting
\* for: their late answer about another block counts as an answer.
LateAnswers ==
    {p.voter : p \in {q \in finalizationProofs :
                        q.hash # blockToShare.hash}}

\* SendAndWait returns once exactly a majority of distinct voters answered,
\* the useful ones among them; the others were late.
Answered(useful) ==
    /\ Cardinality(useful) <= Majority
    /\ Cardinality(useful \cup LateAnswers) >= Majority

AggregatedFinalizationProof(cache) ==
    [index |-> HuntedIndex, prev |-> grabber.acceptedHash,
     hash |-> blockToShare.hash, proofs |-> cache]

\* A majority of answers, not enough useful ones: they stay in the cache.
RoundCollects ==
    /\ round = "waiting"
    /\ \E useful \in SUBSET UsefulAnswers :
        /\ Answered(useful)
        /\ Cardinality(proofsCache \cup useful) < Majority
        /\ proofsCache' = proofsCache \cup useful
    /\ round' = "idle"
    /\ UNCHANGED <<generation, storedGeneration, grabber, storedGrabber,
                   blockToShare, storeVars, memoryVars, networkVars,
                   boundVars>>

\* A majority of useful answers: the AFP is written.  The result of that
\* write is not looked at, so it may fail unnoticed (stored is FALSE).
RoundSucceeds(useful, stored) ==
    /\ round = "waiting"
    /\ Answered(useful)
    /\ Cardinality(proofsCache \cup useful) >= Majority
    /\ stored \/ storeFaults < MaxStoreFaults
    /\ proofsCache' = proofsCache \cup useful
    /\ EPOCH_DATA' =
         IF stored
         THEN [EPOCH_DATA EXCEPT ![Creator][HuntedIndex] =
                 AggregatedFinalizationProof(proofsCache')]
         ELSE EPOCH_DATA
    /\ storeFaults' = IF stored THEN storeFaults ELSE storeFaults + 1
    /\ round' = "aggregating"
    /\ UNCHANGED <<generation, storedGeneration, grabber, storedGrabber,
                   blockToShare, BLOCKS, votingStat, disabled, memoryVars,
                   networkVars, restarts>>

\* (variants of PersistGrabber: it stores the advanced grabber; it leaves the
\* signatures in the cache)
PersistAdvancedGrabber ==
    /\ round = "aggregating"
    /\ grabber' = [acceptedIndex |-> HuntedIndex,
                   acceptedHash |-> blockToShare.hash,
                   afpForPrevious |-> AggregatedFinalizationProof(proofsCache)]
    /\ storedGrabber' = grabber'
    /\ proofsCache' = {}
    /\ round' = "idle"
    /\ UNCHANGED <<generation, storedGeneration, blockToShare, storeVars,
                   memoryVars, networkVars, boundVars>>

PersistGrabberKeepingCache ==
    /\ round = "aggregating"
    /\ storedGrabber' = grabber
    /\ grabber' = [acceptedIndex |-> HuntedIndex,
                   acceptedHash |-> blockToShare.hash,
                   afpForPrevious |-> AggregatedFinalizationProof(proofsCache)]
    /\ round' = "idle"
    /\ UNCHANGED <<generation, storedGeneration, blockToShare, proofsCache,
                   storeVars, memoryVars, networkVars, boundVars>>

\* The grabber is stored BEFORE it advances: the stored copy always lags.
PersistGrabber ==
    /\ round = "aggregating"
    /\ storedGrabber' = grabber
    /\ grabber' = [acceptedIndex |-> HuntedIndex,
                   acceptedHash |-> blockToShare.hash,
                   afpForPrevious |-> AggregatedFinalizationProof(proofsCache)]
    /\ proofsCache' = {}
    /\ round' = "idle"
    /\ UNCHANGED <<generation, storedGeneration, blockToShare, storeVars,
                   memoryVars, networkVars, boundVars>>

\* The write of the grabber fails: return, with the cache left full.
PersistGrabberFails ==
    /\ round = "aggregating"
    /\ storeFaults < MaxStoreFaults
    /\ storeFaults' = storeFaults + 1
    /\ round' = "idle"
    /\ UNCHANGED <<generation, storedGeneration, grabber, storedGrabber,
                   blockToShare, proofsCache, storeVars, memoryVars,
                   networkVars, restarts>>

-----------------------------------------------------------------------------
(***************************************************************************)
(* GetFinalizationProof.  BeginVote is what runs before the creator's      *)
(* mutex is taken: the health flag and the voting stat are read here, and  *)
(* only here.  The AFP is verified under the mutex in the code; it is a    *)
(* function of the request alone, so it is a guard of BeginVote.           *)
(***************************************************************************)
\* (a variant of ItsSameChainSegment that never looks at a block again)
NewerThanVoted(local, block) == local.index < block.index

ItsSameChainSegment(local, block) ==
    \/ local.index < block.index
    \/ local.index = block.index /\ local.hash = block.hash

PreviousIsFinalized(request) ==
    \/ request.block.index = 0
    \/ /\ request.afp.index = request.block.index - 1
       /\ VerifyAfp(request.afp)

Running == UNION {{<<v, h>> : h \in handlers[v]} : v \in Quorum}

\* (a variant of BeginVote that does not look at the health flag)
BeginVoteForDisabled(v, request) ==
    /\ Cardinality(Running) < MaxHandlers
    /\ ItsSameChainSegment(votingStat[v], request.block)
    /\ PreviousIsFinalized(request)
    /\ handlers' = [handlers EXCEPT ![v] = @ \cup
                      {[request |-> request, local |-> votingStat[v]]}]
    /\ UNCHANGED <<creatorVars, storeVars, snapshot, observed, networkVars,
                   boundVars>>

BeginVote(v, request) ==
    /\ Cardinality(Running) < MaxHandlers
    /\ ~disabled[v]
    /\ ItsSameChainSegment(votingStat[v], request.block)
    /\ PreviousIsFinalized(request)
    /\ handlers' = [handlers EXCEPT ![v] = @ \cup
                      {[request |-> request, local |-> votingStat[v]]}]
    /\ UNCHANGED <<creatorVars, storeVars, snapshot, observed, networkVars,
                   boundVars>>

\* (a variant of FutureVotingStat that stores the block being voted for)
StatOfVotedBlock(h) ==
    [index |-> h.request.block.index, hash |-> h.request.block.hash,
     afp |-> h.request.afp]

\* The voting stat to store: the stat read at the beginning if it is the
\* one of this very block, else the previous block with its AFP.
FutureVotingStat(h) ==
    IF h.local.index = h.request.block.index
    THEN h.local
    ELSE [index |-> h.request.block.index - 1,
          hash |-> h.request.afp.hash, afp |-> h.request.afp]

StoreBlock(v, block) == [BLOCKS EXCEPT ![v][block.index] = block]

\* (a variant of StorePreviousAfp that skips the second write)
SkipPreviousAfp(v, afp) == EPOCH_DATA

\* The AFP of block 0's predecessor has an empty block id: its key, "AFP:",
\* is no block's.
StorePreviousAfp(v, afp) ==
    IF afp.index \in Indices
    THEN [EPOCH_DATA EXCEPT ![v][afp.index] = afp]
    ELSE EPOCH_DATA

\* (a variant of FinalizationProof that signs one block too far back)
ProofOverOldHash(v, request) ==
    [voter |-> v,
     prev  |-> IF request.block.index = 0 THEN ZeroHash ELSE request.afp.prev,
     index |-> request.block.index,
     hash  |-> request.block.hash]

FinalizationProof(v, request) ==
    [voter |-> v,
     prev  |-> IF request.block.index = 0 THEN ZeroHash ELSE request.afp.hash,
     index |-> request.block.index,
     hash  |-> request.block.hash]

\* Under the creator's mutex: three writes, then the signature.
FinishVote(v, h) ==
    /\ BLOCKS' = StoreBlock(v, h.request.block)
    /\ EPOCH_DATA' = StorePreviousAfp(v, h.request.afp)
    /\ votingStat' = [votingStat EXCEPT ![v] = FutureVotingStat(h)]
    /\ finalizationProofs' =
         finalizationProofs \cup {FinalizationProof(v, h.request)}
    /\ handlers' = [handlers EXCEPT ![v] = @ \ {h}]
    /\ UNCHANGED <<creatorVars, disabled, snapshot, observed, requests,
                   boundVars>>

\* The second or the third of these writes fails (or the node dies between
\* two of them): the earlier ones stay and nothing is signed.
PartialVote(v, h) ==
    /\ storeFaults < MaxStoreFaults
    /\ storeFaults' = storeFaults + 1
    /\ BLOCKS' = StoreBlock(v, h.request.block)
    /\ EPOCH_DATA' \in {EPOCH_DATA, StorePreviousAfp(v, h.request.afp)}
    /\ handlers' = [handlers EXCEPT ![v] = @ \ {h}]
    /\ UNCHANGED <<creatorVars, votingStat, disabled, snapshot, observed,
                   networkVars, restarts>>

-----------------------------------------------------------------------------
(***************************************************************************)
(* checkCreatorsHealth and evaluateCreatorProgress, without the creator's  *)
(* mutex: the stat is read, then compared with the previous observation.   *)
(***************************************************************************)
HealthRead(v) ==
    /\ observed[v] = NoObservation
    /\ ~disabled[v]
    /\ observed' = [observed EXCEPT ![v] =
                      [index |-> votingStat[v].index,
                       hash |-> votingStat[v].hash]]
    /\ UNCHANGED <<creatorVars, storeVars, handlers, snapshot, networkVars,
                   boundVars>>

\* (a variant of Stalled without the early return for index -1)
StalledAtAnyIndex(v) == observed[v] = snapshot[v]

\* No progress since the last observation: a creator with no voted block
\* (index -1) is never stalled.
Stalled(v) ==
    /\ observed[v].index >= 0
    /\ observed[v] = snapshot[v]

\* The snapshot is dropped even if the flag cannot be written.
HealthEvaluate(v) ==
    /\ observed[v] # NoObservation
    /\ disabled' \in {disabled, [disabled EXCEPT ![v] = @ \/ Stalled(v)]}
    /\ snapshot' = [snapshot EXCEPT ![v] =
                      IF Stalled(v) THEN NoObservation ELSE observed[v]]
    /\ observed' = [observed EXCEPT ![v] = NoObservation]
    /\ UNCHANGED <<creatorVars, BLOCKS, EPOCH_DATA, votingStat, handlers,
                   networkVars, boundVars>>

-----------------------------------------------------------------------------
(***************************************************************************)
(* A node dies and starts again from its stores: the handlers and the      *)
(* health checker's snapshots are gone; the creator reloads its metadata   *)
(* (loadGenerationThreadMetadata, ensureFinalizationRuntime).              *)
(***************************************************************************)
ForgetMemory(v) ==
    /\ handlers' = [handlers EXCEPT ![v] = {}]
    /\ snapshot' = [snapshot EXCEPT ![v] = NoObservation]
    /\ observed' = [observed EXCEPT ![v] = NoObservation]

RestartVoter(v) ==
    /\ v # Creator
    /\ restarts < MaxRestarts
    /\ restarts' = restarts + 1
    /\ ForgetMemory(v)
    /\ UNCHANGED <<creatorVars, storeVars, networkVars, storeFaults>>

RestartCreator ==
    /\ restarts < MaxRestarts
    /\ restarts' = restarts + 1
    /\ ForgetMemory(Creator)
    /\ generation' = storedGeneration
    /\ grabber' = storedGrabber
    /\ blockToShare' = NoBlock
    /\ proofsCache' = {}
    /\ round' = "idle"
    /\ UNCHANGED <<storedGeneration, storedGrabber, storeVars, networkVars,
                   storeFaults>>

-----------------------------------------------------------------------------
CreatorNext ==
    \/ GenerateBlock
    \/ ShareBlock
    \/ RoundTimesOut
    \/ RoundCollects
    \/ \E useful \in SUBSET UsefulAnswers, stored \in BOOLEAN :
         RoundSucceeds(useful, stored)
    \/ PersistGrabber
    \/ PersistGrabberFails
    \/ RestartCreator

VoterNext(v) ==
    \/ \E request \in requests : BeginVote(v, request)
    \/ \E h \in handlers[v] : FinishVote(v, h)
    \/ \E h \in handlers[v] : PartialVote(v, h)
    \/ RestartVoter(v)

HealthNext(v) == HealthRead(v) \/ HealthEvaluate(v)

Next ==
    \/ CreatorNext
    \/ \E v \in Quorum : VoterNext(v)
    \/ \E v \in HealthCheckers : HealthNext(v)

Spec == Init /\ [][Next]_vars

-----------------------------------------------------------------------------
(***************************************************************************)
(* Safety.  The AFPs that exist somewhere: stored by a node, attached to a *)
(* voting stat, or held by the creator in memory or on disk.               *)
(***************************************************************************)
KnownAfps ==
    ({EPOCH_DATA[n][i] : n \in Quorum, i \in Indices}
        \cup {votingStat[n].afp : n \in Quorum}
        \cup {grabber.afpForPrevious, storedGrabber.afpForPrevious})
    \ {NoAfp}

\* Finalization agrees: every AFP that exists anywhere carries a majority
\* of genuine signatures (so any node asked to verify it accepts it), and
\* no two AFPs for one height name different blocks or different
\* predecessors - whatever was retried, answered late, half stored or
\* replayed after a restart.
FinalizationAgrees ==
    /\ \A a \in KnownAfps : a.index \in Indices /\ VerifyAfp(a)
    /\ \A a, b \in KnownAfps :
         a.index = b.index => a.hash = b.hash /\ a.prev = b.prev

\* The finalized blocks are one chain.  The previous hash takes three roads:
\* generation metadata puts it in the block, the grabber's accepted hash in
\* the AFP, and the voter takes it from the AFP it is shown; none of the
\* code compares them.  They agree: consecutive AFPs are linked, and the
\* block a node stores at an AFP's height is the one the AFP names and
\* carries the previous hash the AFP carries.
ChainLinked ==
    /\ \A a, b \in KnownAfps : b.index = a.index + 1 => b.prev = a.hash
    /\ \A a \in KnownAfps, n \in Quorum :
         BLOCKS[n][a.index] # NoBlock =>
            /\ BLOCKS[n][a.index].hash = a.hash
            /\ BLOCKS[n][a.index].prev = a.prev

\* No voter signs ahead of finalization: a signature over block i + 1 exists
\* only when a majority has signed the block it names as its predecessor.
VotesFollowFinalization ==
    \A p \in finalizationProofs :
        p.index > 0 => MajoritySigned(p.index - 1, p.prev)

\* What the three writes before the signature are for: a majority of the
\* signers of an AFP hold its block and a verifiable AFP of the block
\* before it on disk, so the chain up to there can be served after any
\* crash, whichever minority is lost.
FinalizedIsReplicated ==
    \A a \in KnownAfps :
        Cardinality({v \in a.proofs :
            /\ BLOCKS[v][a.index].hash = a.hash
            /\ a.index > 0 =>
                 /\ EPOCH_DATA[v][a.index - 1].hash = a.prev
                 /\ VerifyAfp(EPOCH_DATA[v][a.index - 1])}) >= Majority

\* No voter ever refuses the creator: the block being hunted, which is sent
\* again in every round, and the one before it, which a creator restarted
\* from its lagging grabber asks for once more, pass every node's check of
\* its voting stat, whichever stale handler wrote that stat.
VotersAcceptResends ==
    \A i \in Indices \cap {HuntedIndex, storedGrabber.acceptedIndex + 1} :
        BLOCKS[Creator][i] # NoBlock =>
            \A v \in Quorum :
                ItsSameChainSegment(votingStat[v], BLOCKS[Creator][i])

\* What a voter signs, if it handles the request, is what a waiting creator
\* takes for a signature over the hunted block: the voter gets the previous
\* hash from the AFP it was sent, the creator from its grabber.
IsUseful(proof) ==
    /\ proof.prev = grabber.acceptedHash
    /\ proof.index = HuntedIndex
    /\ proof.hash = blockToShare.hash

\* No round is in vain: the request of the round under way passes every
\* check that a voter makes, except that of the health flag, and so did
\* whichever request for the same block a handler has begun with, before a
\* restart of the creator or in a round given up; and every signature these
\* lead to, now or late, is one the creator can aggregate.
RoundsCanSucceed ==
    round = "waiting" =>
        LET hunted == [block |-> blockToShare, afp |-> grabber.afpForPrevious]
        IN  /\ hunted \in requests
            /\ PreviousIsFinalized(hunted)
            /\ \A v \in Quorum :
                 /\ ItsSameChainSegment(votingStat[v], hunted.block)
                 /\ IsUseful(FinalizationProof(v, hunted))
                 /\ \A h \in handlers[v] :
                      h.request.block.index = HuntedIndex =>
                        IsUseful(FinalizationProof(v, h.request))

\* Every signature in the cache is over the block that is being hunted and
\* its accepted predecessor: late answers, rounds given up and a failed
\* write never leave signatures of one block to be aggregated for another.
CacheCertifiesHuntedBlock ==
    /\ proofsCache # {} => blockToShare.index = HuntedIndex
    /\ proofsCache \subseteq UsefulAnswers

\* (a variant of ServedAfp that looks the block's own AFP up)
OwnAfp(n, i) == EPOCH_DATA[n][i]

\* GetBlockWithAggregatedFinalizationProof serves block i with the AFP of
\* block i + 1 "to make sure block with index X is 100% approved".
ServedAfp(n, i) ==
    IF i + 1 \in Indices THEN EPOCH_DATA[n][i + 1] ELSE NoAfp

\* That reasoning is right: whenever a node serves block i with an AFP, the
\* AFP names this very block as the predecessor, and a majority signed it.
ServedBlockIsApproved ==
    \A n \in Quorum, i \in Indices :
        BLOCKS[n][i] # NoBlock /\ ServedAfp(n, i) # NoAfp =>
            /\ ServedAfp(n, i).prev = BLOCKS[n][i].hash
            /\ Cardinality(Signers(BLOCKS[n][i].prev, i, BLOCKS[n][i].hash))
                 >= Majority

\* An idle share thread with a full cache never asks for a proof again.
Stuck == round = "idle" /\ Cardinality(proofsCache) >= Majority

\* One failing write, that of the grabber, stops the chain, and nothing but a
\* restart of the creator sets it going: neither late or repeated answers nor
\* rounds given up, AFPs not written or crashes of voters do the one or the
\* other.
OnlyALostGrabberSticks ==
    [][/\ ~Stuck /\ Stuck' => PersistGrabberFails
       /\ Stuck /\ ~Stuck' => RestartCreator]_vars

\* What the health checker compares, without any lock and with stale votes
\* under way, are finalized blocks of the creator's chain; a node disables
\* the creator only when a majority has already signed a block of it, never
\* while it is still waiting for its first block.
HealthJudgesFinalized ==
    \A v \in Quorum :
        /\ \A seen \in {snapshot[v], observed[v]} :
             seen.index >= 0 => MajoritySigned(seen.index, seen.hash)
        /\ disabled[v] =>
             \E i \in Indices, hash \in Hashes : MajoritySigned(i, hash)

\* A majority of the nodes has disabled the creator.
MajorityDisabled ==
    Cardinality({v \in Quorum : disabled[v]}) >= Majority

IsFinal(i) == \E hash \in Hashes : MajoritySigned(i, hash)

\* The voters that have signed block i, are about to, or still may begin to.
MaySign(i) ==
    {v \in Quorum : \/ ~disabled[v]
                    \/ \E h \in handlers[v] : h.request.block.index = i
                    \/ \E p \in finalizationProofs : p.voter = v /\ p.index = i}

OutOfReach(i) == Cardinality(MaySign(i)) < Majority

\* What the flag does guarantee, though handlers that passed its check before
\* it was set still sign: once a majority of the nodes has disabled the
\* creator, at most one more block becomes final.  If block i is not final
\* at that moment, block i + 1 is out of reach, and what is out of reach
\* stays so for ever.
DisablingFreezes ==
    /\ [](\A i \in 0 .. MaxIndex - 1 :
             MajorityDisabled /\ ~IsFinal(i) => OutOfReach(i + 1))
    /\ [][\A i \in Indices : OutOfReach(i) => OutOfReach(i)']_vars

-----------------------------------------------------------------------------
(***************************************************************************)
(* What the comments say of the locks, and the code does not do.           *)
(***************************************************************************)
\* GetMutex (globals/block_creators_mutex_registry.go) promises to keep "per-epoch requests
\* serialized": handled one after the other, no request could take the
\* stored voting stat back to an earlier height.
VotesSerialized ==
    [][\A v \in Quorum : votingStat'[v].index >= votingStat[v].index]_vars

\* DisableFinalizationProofsForCreator is said to store "a persistent flag
\* to stop generating proofs for the creator": no signature after the flag.
NoProofAfterDisable ==
    [][\A p \in finalizationProofs' \ finalizationProofs :
          ~disabled[p.voter]]_vars

-----------------------------------------------------------------------------
(***************************************************************************)
(* Liveness.  The threads loop for ever and no mutex starves its waiters:  *)
(* weak fairness of the steps of the generation and share threads, and of  *)
(* handlers that have begun, on any block and on the hunted one.  The      *)
(* creator resends a request until its round is over and starts a new      *)
(* round at once: each live voter handles it in the end, and in the end a  *)
(* majority of useful answers arrives within the three seconds of a round. *)
(* That is strong fairness, the assumption made on the network.  An answer *)
(* a round gave up on may be taken by a later one: the voter gives it      *)
(* again when it is asked again (VotersAcceptResends).                     *)
(***************************************************************************)
VoteOnHunted(v) ==
    \E request \in requests :
        /\ request.block = blockToShare
        /\ BeginVote(v, request)

FinishHunted(v) ==
    \E h \in handlers[v] :
        /\ h.request.block = blockToShare
        /\ FinishVote(v, h)

TimelyMajority ==
    \E useful \in SUBSET UsefulAnswers :
        /\ Cardinality(useful) = Majority
        /\ RoundSucceeds(useful, TRUE)

Fairness(live) ==
    /\ WF_vars(GenerateBlock)
    /\ WF_vars(ShareBlock)
    /\ WF_vars(PersistGrabber)
    /\ SF_vars(TimelyMajority)
    /\ \A v \in Quorum : WF_vars(\E h \in handlers[v] : FinishVote(v, h))
    /\ \A v \in live : SF_vars(VoteOnHunted(v)) /\ WF_vars(FinishHunted(v))

\* Every block the creator generates is finalized in the end, in spite of
\* rounds that time out, late answers, stale handlers and restarts.
GeneratedIsFinalized ==
    \A i \in Indices :
        (generation.nextIndex > i) ~> (grabber.acceptedIndex >= i)

-----------------------------------------------------------------------------
(***************************************************************************)
(* The abstraction: a block is final once a majority has signed it,        *)
(* whether or not anybody has put the signatures together yet.             *)
(***************************************************************************)
FinalHashes(i) ==
    {p.hash : p \in {q \in finalizationProofs :
        /\ q.index = i
        /\ Cardinality(Signers(q.prev, i, q.hash)) >= Majority}}

FinalHash(i) ==
    IF FinalHashes(i) = {} THEN EmptyHash
    ELSE CHOOSE hash \in FinalHashes(i) : TRUE

Abstract == INSTANCE FinalizedChain WITH
    NotFinal  <- EmptyHash,
    finalized <- [i \in Indices |-> FinalHash(i)],
    tip       <- grabber.acceptedIndex,
    durable   <- storedGrabber.acceptedIndex

\* Votes, rounds, retries and restarts implement a chain that only grows and
\* that a restart of its creator sets back by one block at most.
ImplementsFinalizedChain == Abstract!Spec

-----------------------------------------------------------------------------
(***************************************************************************)
(* What others may know of the votes: the contract with AnchorRotation.    *)
(* All signatures for one height are over one block (FinalizationAgrees),  *)
(* so that blocks and stats are known by their index.                      *)
(***************************************************************************)
VotersOf(i) == {p.voter : p \in {q \in finalizationProofs : q.index = i}}

VoteOf(h) ==
    [index |-> h.request.block.index, stat |-> FutureVotingStat(h).index]

Votes == INSTANCE ChainVotes WITH
    votingStat <- [v \in Quorum |-> votingStat[v].index],
    disabled   <- {v \in Quorum : disabled[v]},
    voters     <- [i \in Indices |-> VotersOf(i)],
    handlers   <- [v \in Quorum |-> {VoteOf(h) : h \in handlers[v]}]

\* The votes come from here as the rotation of anchors takes them to come:
\* each passes the flag and the stat as they were when its handler began,
\* follows a majority for the block before, and writes a stat that this
\* handler has computed; a flag is set after some block is final.
ImplementsChainVotes == Votes!VotesSpec

-----------------------------------------------------------------------------
(***************************************************************************)
(* What others may know of the creator's own stores: the contract with     *)
(* EpochWindow, for an epoch that stays in the window.                     *)
(***************************************************************************)
OwnChain == INSTANCE EpochChain WITH
    NoBlock <- NoBlock,
    blocks  <- BLOCKS[Creator],
    tip     <- grabber.acceptedIndex,
    durable <- storedGrabber.acceptedIndex,
    open    <- TRUE

\* A round ends, for the creator's stores, as EpochWindow takes it to end:
\* the next block is final and the grabber is stored as it was, or nothing
\* has changed; no block is written in the place of another, or before the
\* one below it is final, whatever restarts and failed writes there are.
ImplementsEpochChain == OwnChain!Spec
=============================================================================
