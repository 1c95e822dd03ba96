--------------------- MODULE BlockFinalizationInvariant ---------------------
(***************************************************************************)
(* The inductive invariant of BlockFinalization, from which its safety     *)
(* properties follow.  Everything is measured against one thing: the chain *)
(* of blocks in the creator's own BLOCKS store.  The operators take the    *)
(* chain and the signatures they speak of as arguments, so that facts      *)
(* about two successive states are stated without primes.                  *)
(***************************************************************************)
EXTENDS BlockFinalization

Chain == BLOCKS[Creator]

\* The hash that block i + 1 names as its predecessor.
HashAt(chain, i) == IF i = -1 THEN ZeroHash ELSE chain[i].hash

Exists(chain, i) == i \in Indices /\ chain[i].index = i

\* An AFP of block i of the chain: every signature in it is genuine and
\* there is a majority of them.  For i = -1, the zero value.
GoodAfp(afp, i, chain, proofs) ==
    \/ i = -1 /\ afp = NoAfp
    \/ /\ Exists(chain, i)
       /\ afp.index = i
       /\ afp.hash = chain[i].hash
       /\ afp.prev = HashAt(chain, i - 1)
       /\ afp.proofs \subseteq SignersIn(proofs, afp.prev, i, afp.hash)
       /\ Cardinality(afp.proofs) >= Majority

\* A voting stat a node may hold when the stored grabber accepts durable.
GoodStat(stat, chain, proofs, durable) ==
    /\ GoodAfp(stat.afp, stat.index, chain, proofs)
    /\ stat.index >= 0 => stat.hash = chain[stat.index].hash
    /\ stat.index <= durable + 1

GoodGrabber(g, chain, proofs) ==
    /\ GoodAfp(g.afpForPrevious, g.acceptedIndex, chain, proofs)
    /\ g.acceptedHash = HashAt(chain, g.acceptedIndex)

GoodRequest(r, chain, proofs, durable) ==
    /\ Exists(chain, r.block.index)
    /\ r.block = chain[r.block.index]
    /\ GoodAfp(r.afp, r.block.index - 1, chain, proofs)
    /\ r.block.index <= durable + 2

\* What a signature stands for: the block of the chain, its predecessor
\* finalized, and both on the signer's disk.
GoodProof(p, chain, proofs, blocks, afps) ==
    /\ Exists(chain, p.index)
    /\ p.hash = chain[p.index].hash
    /\ p.prev = HashAt(chain, p.index - 1)
    /\ blocks[p.voter][p.index] = chain[p.index]
    /\ p.index > 0 =>
         GoodAfp(afps[p.voter][p.index - 1], p.index - 1, chain, proofs)

-----------------------------------------------------------------------------
Durable == storedGrabber.acceptedIndex

\* The chain is contiguous and hash-linked up to the generation pointer, and
\* the generation metadata on disk is what the generator has in memory.
ChainInv ==
    /\ storedGeneration = generation
    /\ \A i \in Indices :
         IF i < generation.nextIndex
         THEN /\ Chain[i].index = i
              /\ Chain[i].hash \in Hashes
              /\ Chain[i].prev = HashAt(Chain, i - 1)
         ELSE Chain[i] = NoBlock
    /\ generation.prevHash = HashAt(Chain, generation.nextIndex - 1)

StoresInv ==
    \A n \in Quorum, i \in Indices :
        /\ BLOCKS[n][i] \in {NoBlock, Chain[i]}
        /\ \/ EPOCH_DATA[n][i] = NoAfp
           \/ GoodAfp(EPOCH_DATA[n][i], i, Chain, finalizationProofs)

GrabberInv ==
    /\ GoodGrabber(grabber, Chain, finalizationProofs)
    /\ GoodGrabber(storedGrabber, Chain, finalizationProofs)
    /\ Durable <= grabber.acceptedIndex
    /\ grabber.acceptedIndex <= Durable + 1

\* A block is loaded whenever something depends on it, and it is the hunted
\* one; the cache holds signatures of that block only.
ShareInv ==
    /\ blockToShare # NoBlock =>
         /\ Exists(Chain, blockToShare.index)
         /\ blockToShare = Chain[blockToShare.index]
    /\ round # "idle" \/ proofsCache # {} => blockToShare.index = HuntedIndex
    /\ proofsCache \subseteq UsefulAnswers
    /\ round = "waiting" => Cardinality(proofsCache) < Majority
    /\ round = "aggregating" => Cardinality(proofsCache) >= Majority

RequestsInv ==
    \A r \in requests : GoodRequest(r, Chain, finalizationProofs, Durable)

ProofsInv ==
    \A p \in finalizationProofs :
        GoodProof(p, Chain, finalizationProofs, BLOCKS, EPOCH_DATA)

StatInv ==
    \A v \in Quorum :
        GoodStat(votingStat[v], Chain, finalizationProofs, Durable)

HandlersInv ==
    \A v \in Quorum : \A h \in handlers[v] :
        /\ h.request \in requests
        /\ GoodStat(h.local, Chain, finalizationProofs, Durable)

\* The strengthening of the safety properties that every step preserves:
\* all that nodes store, sign or send is about the creator's one chain.
IInv ==
    /\ TypeOK
    /\ ChainInv
    /\ StoresInv
    /\ GrabberInv
    /\ ShareInv
    /\ RequestsInv
    /\ ProofsInv
    /\ StatInv
    /\ HandlersInv
=============================================================================
