--------------------------- MODULE ProofsMempool ---------------------------
(***************************************************************************)
(* How the proofs a node accepts get into its blocks.  Aggregated anchor   *)
(* rotation proofs (AARP) come from the node's own collector and by HTTP,  *)
(* aggregated leader finalization proofs (ALFP) by HTTP only.  Each is     *)
(* stored, then put in the mempool; the block generation thread takes what *)
(* is in the mempool for the block it makes.  The mempool is lost in a     *)
(* crash, the stored proofs and blocks are not.                            *)
(*                                                                         *)
(* The writers of AARPs hold the creator's mutex from the load to the      *)
(* return; those of ALFPs take no lock, and may overtake each other        *)
(* between the load, the store and the mempool.                            *)
(***************************************************************************)
EXTENDS Integers, Sequences

CONSTANTS
    Creators,
    Proof,      \* what the proofs say: whose, the index and the hash
    Requests,   \* the lists of proofs that clients post
    Handlers,   \* bound: the requests served at a time
    Malformed   \* a proof without a hash, a signature or an index

Slots == [kind : {"AARP", "ALFP"}, creator : Creators]

ASSUME RequestsAssumption ==
    /\ \A p \in Proof : p.slot \in Slots /\ p.index \in Nat
    /\ Requests \subseteq Seq(Proof \cup {Malformed})
    /\ Malformed \notin Proof

VARIABLES
    stored,       \* FINALIZATION_VOTING_STATS, AARP: and ALFP: keys
    pool,         \* MEMPOOL: at most one proof of a key
    handlers,     \* the requests being served, or answered since the start
    collector,    \* the writing end of processCreatorRotation
    generator,    \* generateBlock
    mayGenerate,  \* NextIndex <= alreadyApprovedIndex + 1
    included      \* the keys of the proofs in the stored blocks

vars == <<stored, pool, handlers, collector, generator, mayGenerate, included>>

-----------------------------------------------------------------------------
NoSlot == [kind |-> "none", creator |-> "none"]
NoProof == [slot |-> NoSlot, index |-> -1, hash |-> "none"]

\* anchorMempoolKey, leaderMempoolKey: the hash is no part of the key.
Key(p) == <<p.slot, p.index>>
Keys == {Key(p) : p \in Proof}

Writer == [pc : {"store", "add"}, proof : Proof]
NoWriter == [pc |-> "none", proof |-> NoProof]

\* A handler is at list[next]; all before it are accepted.
Handler == [list : Requests \cup {<<>>}, next : Nat \ {0},
            write : Writer \cup {NoWriter}, answered : BOOLEAN]
NoHandler == [list |-> <<>>, next |-> 1, write |-> NoWriter, answered |-> TRUE]

NoGenerator == [pc |-> "none", drained |-> {}]

TypeOK ==
    /\ stored \in [Slots -> Proof \cup {NoProof}]
    /\ pool \in SUBSET Proof
    /\ handlers \in [Handlers -> Handler]
    /\ collector \in Writer \cup {NoWriter}
    /\ generator \in [pc : {"none", "drain", "write"}, drained : SUBSET Proof]
    /\ mayGenerate \in BOOLEAN
    /\ included \in SUBSET Keys

Init ==
    /\ stored = [s \in Slots |-> NoProof]
    /\ pool = {}
    /\ handlers = [h \in Handlers |-> NoHandler]
    /\ collector = NoWriter
    /\ generator = NoGenerator
    /\ mayGenerate = TRUE
    /\ included = {}

-----------------------------------------------------------------------------
\* AddAggregatedAnchorRotationProof, AddAggregatedLeaderFinalizationProof
Add(p) == pool' = {q \in pool : Key(q) # Key(p)} \cup {p}

\* The creator's mutex: only writers of AARPs take it.
Writes(w, slot) == w # NoWriter /\ w.proof.slot = slot
CanWrite(slot) ==
    slot.kind = "AARP" =>
        /\ ~Writes(collector, slot)
        /\ \A h \in Handlers : ~Writes(handlers[h].write, slot)

\* existing.VotingStat.Index >= proof.VotingStat.Index, and the same hash
IsAsGood(existing, p) == existing.index >= p.index /\ existing.hash = p.hash

-----------------------------------------------------------------------------
(***************************************************************************)
(* The two accept routes.                                                  *)
(***************************************************************************)
Receive(h) ==
    /\ handlers[h].answered
    /\ \E r \in Requests :
         handlers' = [handlers EXCEPT
             ![h] = [list |-> r, next |-> 1, write |-> NoWriter,
                     answered |-> r = <<>>]]
    /\ UNCHANGED <<stored, pool, collector, generator, mayGenerate, included>>

Current(h) == handlers[h].list[handlers[h].next]

IsAtProof(h) == ~handlers[h].answered /\ handlers[h].write = NoWriter

\* The first proof that is not valid ends the request, and leaves those
\* before it accepted.
Refuse(h) ==
    /\ IsAtProof(h)
    /\ Current(h) = Malformed
    /\ handlers' = [handlers EXCEPT ![h].answered = TRUE]
    /\ UNCHANGED <<stored, pool, collector, generator, mayGenerate, included>>

\* A rotation proof brings the creator's voting stat with it, which is stored
\* first, whatever is known of the proof.
StatNotStored(h) ==
    /\ IsAtProof(h)
    /\ Current(h) # Malformed
    /\ Current(h).slot.kind = "AARP"
    /\ CanWrite(Current(h).slot)
    /\ handlers' = [handlers EXCEPT ![h].answered = TRUE]
    /\ UNCHANGED <<stored, pool, collector, generator, mayGenerate, included>>

Advance(handler) ==
    [list |-> handler.list, next |-> handler.next + 1, write |-> NoWriter,
     answered |-> handler.next = Len(handler.list)]

\* (a variant of Repeat that takes a stored proof for done)
RepeatWithoutAdding(h) ==
    /\ IsAtProof(h)
    /\ Current(h) # Malformed
    /\ CanWrite(Current(h).slot)
    /\ IsAsGood(stored[Current(h).slot], Current(h))
    /\ handlers' = [handlers EXCEPT ![h] = Advance(@)]
    /\ UNCHANGED <<stored, pool, collector, generator, mayGenerate, included>>

\* A stored proof that is as good is put in the mempool again instead.
Repeat(h) ==
    /\ IsAtProof(h)
    /\ Current(h) # Malformed
    /\ CanWrite(Current(h).slot)
    /\ IsAsGood(stored[Current(h).slot], Current(h))
    /\ handlers' = [handlers EXCEPT
                      ![h].write = [pc |-> "add",
                                    proof |-> stored[Current(h).slot]]]
    /\ UNCHANGED <<stored, pool, collector, generator, mayGenerate, included>>

\* Any other proof is to be stored, whatever it replaces.
Accept(h) ==
    /\ IsAtProof(h)
    /\ Current(h) # Malformed
    /\ CanWrite(Current(h).slot)
    /\ ~IsAsGood(stored[Current(h).slot], Current(h))
    /\ handlers' = [handlers EXCEPT
                      ![h].write = [pc |-> "store", proof |-> Current(h)]]
    /\ UNCHANGED <<stored, pool, collector, generator, mayGenerate, included>>

Store(h) ==
    LET p == handlers[h].write.proof
    IN  /\ handlers[h].write.pc = "store"
        /\ stored' = [stored EXCEPT ![p.slot] = p]
        /\ handlers' = [handlers EXCEPT ![h].write.pc = "add"]
        /\ UNCHANGED <<pool, collector, generator, mayGenerate, included>>

StoreFails(h) ==
    /\ handlers[h].write.pc = "store"
    /\ handlers' = [handlers EXCEPT
                      ![h] = [@ EXCEPT !.write = NoWriter, !.answered = TRUE]]
    /\ UNCHANGED <<stored, pool, collector, generator, mayGenerate, included>>

AddToMempool(h) ==
    /\ handlers[h].write.pc = "add"
    /\ Add(handlers[h].write.proof)
    /\ handlers' = [handlers EXCEPT ![h] = Advance(@)]
    /\ UNCHANGED <<stored, collector, generator, mayGenerate, included>>

-----------------------------------------------------------------------------
(***************************************************************************)
(* The anchor rotation collector, which makes no proof where one is stored *)
(* (the module AnchorRotation has how it gets the signatures).             *)
(***************************************************************************)
Collect ==
    /\ collector = NoWriter
    /\ \E p \in Proof :
         /\ p.slot.kind = "AARP"
         /\ stored[p.slot] = NoProof
         /\ CanWrite(p.slot)
         /\ collector' = [pc |-> "store", proof |-> p]
    /\ UNCHANGED <<stored, pool, handlers, generator, mayGenerate, included>>

StoreCollected ==
    LET p == collector.proof
    IN  /\ collector.pc = "store"
        /\ \/ /\ stored' = [stored EXCEPT ![p.slot] = p]
              /\ collector' = [collector EXCEPT !.pc = "add"]
           \/ stored' = stored /\ collector' = NoWriter
        /\ UNCHANGED <<pool, handlers, generator, mayGenerate, included>>

AddCollected ==
    /\ collector.pc = "add"
    /\ Add(collector.proof)
    /\ collector' = NoWriter
    /\ UNCHANGED <<stored, handlers, generator, mayGenerate, included>>

-----------------------------------------------------------------------------
(***************************************************************************)
(* generateBlock, whose two drains are separate critical sections.         *)
(***************************************************************************)
OfKind(kind) == {p \in pool : p.slot.kind = kind}

\* (a variant of DrainRotationProofs that drains before it knows whether
\* there will be a block)
DrainTooEarly ==
    /\ generator = NoGenerator
    /\ generator' = IF mayGenerate
                    THEN [pc |-> "drain", drained |-> OfKind("AARP")]
                    ELSE NoGenerator
    /\ pool' = pool \ OfKind("AARP")
    /\ UNCHANGED <<stored, handlers, collector, mayGenerate, included>>

DrainRotationProofs ==
    /\ generator = NoGenerator
    /\ mayGenerate
    /\ generator' = [pc |-> "drain", drained |-> OfKind("AARP")]
    /\ pool' = pool \ OfKind("AARP")
    /\ UNCHANGED <<stored, handlers, collector, mayGenerate, included>>

DrainFinalizationProofs ==
    /\ generator.pc = "drain"
    /\ generator' = [pc |-> "write",
                     drained |-> generator.drained \cup OfKind("ALFP")]
    /\ pool' = pool \ OfKind("ALFP")
    /\ UNCHANGED <<stored, handlers, collector, mayGenerate, included>>

\* (a variant of WriteBlock that empties the mempool at the end)
WriteBlockAndClear ==
    /\ generator.pc = "write"
    /\ included' = included \cup {Key(p) : p \in generator.drained}
    /\ mayGenerate' = FALSE
    /\ generator' = NoGenerator
    /\ pool' = {}
    /\ UNCHANGED <<stored, handlers, collector>>

\* The block and the generation metadata are one batch; when it fails the
\* thread panics, which is a crash.
WriteBlock ==
    /\ generator.pc = "write"
    /\ included' = included \cup {Key(p) : p \in generator.drained}
    /\ mayGenerate' = FALSE
    /\ generator' = NoGenerator
    /\ UNCHANGED <<stored, pool, handlers, collector>>

\* The last block gets finalized (the module BlockFinalization).
Approve ==
    /\ mayGenerate' = TRUE
    /\ UNCHANGED <<stored, pool, handlers, collector, generator, included>>

\* Clients and the collector may try again; nothing else looks at what is
\* stored.
Crash ==
    /\ pool' = {}
    /\ handlers' = [h \in Handlers |-> NoHandler]
    /\ collector' = NoWriter
    /\ generator' = NoGenerator
    /\ UNCHANGED <<stored, mayGenerate, included>>

-----------------------------------------------------------------------------
HandlerNext(h) ==
    \/ Receive(h)
    \/ Refuse(h)
    \/ StatNotStored(h)
    \/ Repeat(h)
    \/ Accept(h)
    \/ Store(h)
    \/ StoreFails(h)
    \/ AddToMempool(h)

CollectorNext == Collect \/ StoreCollected \/ AddCollected

GeneratorNext == DrainRotationProofs \/ DrainFinalizationProofs \/ WriteBlock

Next ==
    \/ \E h \in Handlers : HandlerNext(h)
    \/ CollectorNext
    \/ GeneratorNext
    \/ Approve
    \/ Crash

Spec == Init /\ [][Next]_vars

-----------------------------------------------------------------------------
\* What is in the mempool, in the block being made or in a stored block.
InPlay == {Key(p) : p \in pool \cup generator.drained} \cup included

\* A proof for the creator at this index or a later one is among them.
IsKept(p, keys) == \E k \in keys : k[1] = p.slot /\ k[2] >= p.index

Accepted(h) == {handlers[h].list[i] : i \in 1 .. handlers[h].next - 1}

\* A proof that was accepted is not forgotten: it, or one for the same creator
\* that is not older, is in the mempool, in the block being made or in a
\* block.  This also holds of a request whose later proofs were refused, and
\* of one that repeats a proof which a crash has thrown out of the mempool.
AcceptedAreKept ==
    \A h \in Handlers : \A p \in Accepted(h) : IsKept(p, InPlay)

\* A stored proof is in play, or a writer is about to put it in the mempool.
Pending ==
    {Key(w.proof) : w \in {v \in {collector} \cup
        {handlers[h].write : h \in Handlers} : v.pc = "add"}}
IsOnItsWay(slot) == stored[slot] # NoProof => Key(stored[slot]) \in InPlay \cup Pending

\* Whatever the order in which proofs are stored, replaced, put in the mempool
\* and drained, only a crash takes a stored proof off its way to a block.
OnlyCrashesLoseProofs ==
    [][\A slot \in Slots :
         IsOnItsWay(slot) \/ stored'[slot] # stored[slot] =>
             IsOnItsWay(slot)' \/ Crash]_vars

-----------------------------------------------------------------------------
(***************************************************************************)
(* Liveness: the generation thread goes on, blocks get finalized, and from *)
(* some time on the node does not crash.                                   *)
(***************************************************************************)
FairSpec ==
    /\ Spec
    /\ WF_vars(GeneratorNext)
    /\ WF_vars(Approve)
    /\ <>[][~Crash]_vars

\* Every proof that is accepted gets into a block, or a crash loses it and the
\* answer to the request with it.
AcceptedGetIntoBlocks ==
    \A h \in Handlers : []<>(\A p \in Accepted(h) : IsKept(p, included))
=============================================================================
