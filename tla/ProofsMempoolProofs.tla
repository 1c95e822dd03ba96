------------------------ MODULE ProofsMempoolProofs ------------------------
(***************************************************************************)
(* The proofs that no accepted proof is forgotten and that only a crash    *)
(* takes a stored proof off its way, for any creators, proofs, requests    *)
(* and number of handlers.                                                 *)
(***************************************************************************)
EXTENDS ProofsMempool, TLAPS

\* What a handler is about to put in the mempool stands for the proof of the
\* request it is at.
HandlerInv(h) ==
    LET r == handlers[h]
    IN  /\ r.next <= Len(r.list) + 1
        /\ ~r.answered => r.next <= Len(r.list)
        /\ r.write # NoWriter =>
             /\ ~r.answered
             /\ r.list[r.next] # Malformed
             /\ r.write.proof.slot = r.list[r.next].slot
             /\ r.write.proof.index >= r.list[r.next].index

\* Each slot of the database holds proofs of its own.
StoredInv == \A s \in Slots : stored[s] # NoProof => stored[s].slot = s

IInv ==
    /\ TypeOK
    /\ StoredInv
    /\ \A h \in Handlers : HandlerInv(h)
    /\ AcceptedAreKept

USE RequestsAssumption

-----------------------------------------------------------------------------
LEMMA CurrentIsProof ==
    ASSUME TypeOK, NEW h \in Handlers, HandlerInv(h), IsAtProof(h),
           Current(h) # Malformed
    PROVE  /\ Current(h) \in Proof
           /\ Current(h).slot \in Slots
           /\ Current(h).index \in Nat
           /\ handlers[h].next \in 1 .. Len(handlers[h].list)
<1> DEFINE r == handlers[h]
<1>1. r.list \in Requests \cup {<<>>} /\ r.next \in Nat \ {0}
  BY DEF TypeOK, Handler
<1>2. r.next <= Len(r.list)
  BY DEF HandlerInv, IsAtProof
<1>3. r.list \in Seq(Proof \cup {Malformed})
  <2>1. CASE r.list = <<>>
    BY <2>1
  <2>2. CASE r.list \in Requests
    BY <2>2
  <2> QED BY <1>1, <2>1, <2>2
<1>4. r.next \in 1 .. Len(r.list)
  BY <1>1, <1>2, <1>3
<1>5. r.list[r.next] \in Proof \cup {Malformed}
  BY <1>3, <1>4
<1>6. Current(h) \in Proof
  BY <1>5 DEF Current
<1> QED BY <1>4, <1>6, RequestsAssumption

LEMMA LenOfList == \A r \in Handler : Len(r.list) \in Nat
BY DEF Handler

\* Adding a proof loses no key.
LEMMA AddKeepsKeys ==
    ASSUME NEW p, Add(p)
    PROVE  /\ {Key(q) : q \in pool} \subseteq {Key(q) : q \in pool'}
           /\ Key(p) \in {Key(q) : q \in pool'}
BY DEF Add

LEMMA KeptInMore ==
    ASSUME NEW p, NEW A, NEW B, A \subseteq B, IsKept(p, A)
    PROVE  IsKept(p, B)
BY DEF IsKept

\* Every step but a crash.
Works ==
    \/ \E h \in Handlers : HandlerNext(h)
    \/ CollectorNext
    \/ GeneratorNext
    \/ Approve
    \/ UNCHANGED vars

LEMMA NextWorksOrCrashes == [Next]_vars => Works \/ Crash
BY DEF Next, Works

\* Whatever is in play stays in play, short of a crash.
LEMMA InPlayGrows ==
    ASSUME TypeOK, Works
    PROVE  InPlay \subseteq InPlay'
<1>1. CASE \E h \in Handlers : HandlerNext(h)
  <2> PICK h \in Handlers : HandlerNext(h) BY <1>1
  <2>1. CASE AddToMempool(h)
    BY <2>1, AddKeepsKeys DEF AddToMempool, InPlay
  <2>2. CASE \/ Receive(h) \/ Refuse(h) \/ StatNotStored(h) \/ Repeat(h)
             \/ Accept(h) \/ Store(h) \/ StoreFails(h)
    BY <2>2 DEF Receive, Refuse, StatNotStored, Repeat, Accept, Store,
                StoreFails, InPlay
  <2> QED BY <2>1, <2>2 DEF HandlerNext
<1>2. CASE CollectorNext
  <2>1. CASE AddCollected
    BY <2>1, AddKeepsKeys DEF AddCollected, InPlay
  <2>2. CASE Collect \/ StoreCollected
    BY <2>2 DEF Collect, StoreCollected, InPlay
  <2> QED BY <1>2, <2>1, <2>2 DEF CollectorNext
<1>3. CASE DrainRotationProofs
  BY <1>3 DEF DrainRotationProofs, NoGenerator, OfKind, InPlay
<1>4. CASE DrainFinalizationProofs
  BY <1>4 DEF DrainFinalizationProofs, OfKind, InPlay
<1>5. CASE WriteBlock
  BY <1>5 DEF WriteBlock, NoGenerator, InPlay
<1>6. CASE Approve
  BY <1>6 DEF Approve, InPlay
<1>7. CASE UNCHANGED vars
  BY <1>7 DEF vars, InPlay
<1> QED
  BY <1>1, <1>2, <1>3, <1>4, <1>5, <1>6, <1>7 DEF Works, GeneratorNext

-----------------------------------------------------------------------------
\* Type correctness: every value the actions write is of its type.
LEMMA TypeInit == Init => TypeOK
BY DEF Init, TypeOK, NoHandler, NoWriter, NoGenerator, Handler

LEMMA AdvanceType == \A r \in Handler : Advance(r) \in Handler
<1> SUFFICES ASSUME NEW r \in Handler PROVE Advance(r) \in Handler
  OBVIOUS
<1>1. r.next + 1 \in Nat \ {0}
  BY DEF Handler
<1>2. \A n \in Nat \ {0}, b \in BOOLEAN :
        [list |-> r.list, next |-> n, write |-> NoWriter, answered |-> b]
          \in Handler
  BY DEF Handler
<1>3. CASE r.next = Len(r.list)
  <2>1. Advance(r) = [list |-> r.list, next |-> r.next + 1,
                      write |-> NoWriter, answered |-> TRUE]
    BY <1>3 DEF Advance
  <2> QED BY <1>1, <1>2, <2>1
<1>4. CASE r.next # Len(r.list)
  <2>1. Advance(r) = [list |-> r.list, next |-> r.next + 1,
                      write |-> NoWriter, answered |-> FALSE]
    BY <1>4 DEF Advance
  <2> QED BY <1>1, <1>2, <2>1
<1> QED BY <1>3, <1>4

\* A proof that is refused, or whose stat is not stored, ends the request.
LEMMA GivenUp ==
    ASSUME NEW h \in Handlers, Refuse(h) \/ StatNotStored(h)
    PROVE  /\ IsAtProof(h)
           /\ handlers' = [handlers EXCEPT ![h].answered = TRUE]
           /\ UNCHANGED <<stored, pool, collector, generator, mayGenerate,
                          included>>
<1>1. CASE Refuse(h)
  BY <1>1 DEF Refuse
<1>2. CASE StatNotStored(h)
  BY <1>2 DEF StatNotStored
<1> QED BY <1>1, <1>2

LEMMA TypeStep ==
    ASSUME TypeOK, \A h \in Handlers : HandlerInv(h), [Next]_vars
    PROVE  TypeOK'
<1> USE DEF TypeOK
<1>1. ASSUME NEW h \in Handlers, HandlerNext(h) PROVE TypeOK'
  <2>1. CASE Receive(h)
    BY <2>1 DEF Receive, Handler
  <2>2. CASE Refuse(h) \/ StatNotStored(h)
    <3>1. [handlers[h] EXCEPT !.answered = TRUE] \in Handler
      BY DEF Handler
    <3> QED BY <2>2, <3>1, GivenUp
  <2>3. CASE Repeat(h)
    <3>1. Current(h) \in Proof /\ Current(h).slot \in Slots
            /\ Current(h).index \in Nat
      BY <1>1, <2>3, CurrentIsProof DEF Repeat
    <3>2. stored[Current(h).slot] # NoProof
      BY <2>3, <3>1 DEF Repeat, IsAsGood, NoProof
    <3>3. stored[Current(h).slot] \in Proof
      BY <3>1, <3>2
    <3>4. [pc |-> "add", proof |-> stored[Current(h).slot]] \in Writer
      BY <3>3 DEF Writer
    <3> QED BY <2>3, <3>4 DEF Repeat, Handler
  <2>4. CASE Accept(h)
    <3>1. Current(h) \in Proof
      BY <1>1, <2>4, CurrentIsProof DEF Accept
    <3>2. [pc |-> "store", proof |-> Current(h)] \in Writer
      BY <3>1 DEF Writer
    <3> QED BY <2>4, <3>2 DEF Accept, Handler
  <2>5. CASE Store(h)
    <3>1. handlers[h].write \in Writer
      BY <2>5 DEF Store, Handler, NoWriter
    <3>2. [handlers[h].write EXCEPT !.pc = "add"] \in Writer
            /\ handlers[h].write.proof \in Proof
      BY <3>1 DEF Writer
    <3> QED BY <2>5, <3>2, RequestsAssumption DEF Store, Handler
  <2>6. CASE StoreFails(h)
    <3>1. [handlers[h] EXCEPT !.write = NoWriter, !.answered = TRUE] \in Handler
      BY DEF Handler
    <3> QED BY <2>6, <3>1 DEF StoreFails
  <2>7. CASE AddToMempool(h)
    <3>1. handlers[h].write \in Writer
      BY <2>7 DEF AddToMempool, Handler, NoWriter
    <3>2. handlers[h].write.proof \in Proof
      BY <3>1 DEF Writer
    <3>3. Advance(handlers[h]) \in Handler
      BY AdvanceType
    <3> QED BY <2>7, <3>2, <3>3 DEF AddToMempool, Add
  <2> QED
    BY <1>1, <2>1, <2>2, <2>3, <2>4, <2>5, <2>6, <2>7 DEF HandlerNext
<1>2. CASE CollectorNext
  <2>1. CASE Collect
    BY <2>1 DEF Collect, Writer
  <2>2. CASE StoreCollected
    <3>1. collector \in Writer
      BY <2>2 DEF StoreCollected, NoWriter
    <3>2. [collector EXCEPT !.pc = "add"] \in Writer
            /\ collector.proof \in Proof
      BY <3>1 DEF Writer
    <3> QED BY <2>2, <3>2, RequestsAssumption DEF StoreCollected
  <2>3. CASE AddCollected
    <3>1. collector \in Writer
      BY <2>3 DEF AddCollected, NoWriter
    <3>2. collector.proof \in Proof
      BY <3>1 DEF Writer
    <3> QED BY <2>3, <3>2 DEF AddCollected, Add
  <2> QED BY <1>2, <2>1, <2>2, <2>3 DEF CollectorNext
<1>3. CASE GeneratorNext
  <2>1. CASE DrainRotationProofs
    BY <2>1 DEF DrainRotationProofs, OfKind
  <2>2. CASE DrainFinalizationProofs
    BY <2>2 DEF DrainFinalizationProofs, OfKind
  <2>3. CASE WriteBlock
    <3>1. generator.drained \subseteq Proof
      OBVIOUS
    <3>2. {Key(p) : p \in generator.drained} \subseteq Keys
      BY <3>1 DEF Keys
    <3> QED BY <2>3, <3>2 DEF WriteBlock, NoGenerator
  <2> QED BY <1>3, <2>1, <2>2, <2>3 DEF GeneratorNext
<1>4. CASE Approve
  BY <1>4 DEF Approve
<1>5. CASE Crash
  BY <1>5 DEF Crash, NoHandler, NoGenerator, Handler
<1>6. CASE UNCHANGED vars
  BY <1>6 DEF vars
<1> QED BY <1>1, <1>2, <1>3, <1>4, <1>5, <1>6 DEF Next

-----------------------------------------------------------------------------
\* A step of one handler leaves the others alone; it accepts a proof only by
\* putting what stands for it in the mempool.
LEMMA HandlerStep ==
    ASSUME IInv, NEW h \in Handlers, HandlerNext(h)
    PROVE  /\ HandlerInv(h)'
           /\ \A p \in Accepted(h)' : IsKept(p, InPlay')
           /\ \A g \in Handlers \ {h} : handlers'[g] = handlers[g]
<1> USE DEF IInv
<1>1. handlers \in [Handlers -> Handler] /\ handlers[h] \in Handler
        /\ HandlerInv(h)
  BY DEF TypeOK
<1>2. \A p \in Accepted(h) : IsKept(p, InPlay')
  <2>1. InPlay \subseteq InPlay'
    BY InPlayGrows DEF Works
  <2> QED BY <2>1, KeptInMore DEF AcceptedAreKept
<1>3. CASE Receive(h)
  <2>1. PICK r \in Requests :
          handlers' = [handlers EXCEPT
             ![h] = [list |-> r, next |-> 1, write |-> NoWriter,
                     answered |-> r = <<>>]]
    BY <1>3 DEF Receive
  <2>2. r \in Seq(Proof \cup {Malformed}) /\ Len(r) \in Nat
          /\ (r # <<>> => Len(r) > 0)
    OBVIOUS
  <2>3. handlers'[h] = [list |-> r, next |-> 1, write |-> NoWriter,
                        answered |-> r = <<>>]
    BY <1>1, <2>1
  <2>4. Accepted(h)' = {}
    BY <2>3 DEF Accepted
  <2>5. HandlerInv(h)'
    <3>1. CASE r = <<>>
      <4>1. handlers'[h] = [list |-> <<>>, next |-> 1, write |-> NoWriter,
                            answered |-> TRUE]
        BY <2>3, <3>1
      <4> QED BY <4>1 DEF HandlerInv
    <3>2. CASE r # <<>>
      <4>1. handlers'[h] = [list |-> r, next |-> 1, write |-> NoWriter,
                            answered |-> FALSE]
        BY <2>3, <3>2
      <4> QED BY <2>2, <3>2, <4>1 DEF HandlerInv
    <3> QED BY <3>1, <3>2
  <2> QED BY <1>1, <2>1, <2>4, <2>5
<1>4. CASE Refuse(h) \/ StatNotStored(h)
  <2>1. /\ handlers' = [handlers EXCEPT ![h].answered = TRUE]
        /\ handlers[h].write = NoWriter
    BY <1>4, GivenUp DEF IsAtProof
  <2>2. /\ handlers'[h].list = handlers[h].list
        /\ handlers'[h].next = handlers[h].next
        /\ handlers'[h].write = NoWriter
        /\ handlers'[h].answered
        /\ \A g \in Handlers \ {h} : handlers'[g] = handlers[g]
    BY <1>1, <2>1 DEF Handler
  <2>3. Accepted(h)' = Accepted(h)
    BY <2>2 DEF Accepted
  <2>4. HandlerInv(h)'
    BY <1>1, <2>2 DEF HandlerInv, Handler
  <2> QED BY <1>2, <2>2, <2>3, <2>4
<1>5. CASE Repeat(h) \/ Accept(h)
  <2>1. Current(h) \in Proof /\ Current(h).slot \in Slots
          /\ Current(h).index \in Nat
    BY <1>1, <1>5, CurrentIsProof DEF Repeat, Accept
  <2>2. PICK w :
          /\ handlers' = [handlers EXCEPT ![h].write = w]
          /\ w.proof.slot = Current(h).slot
          /\ w.proof.index >= Current(h).index
    <3>1. CASE Accept(h)
      <4> DEFINE v == [pc |-> "store", proof |-> Current(h)]
      <4>1. handlers' = [handlers EXCEPT ![h].write = v]
        BY <3>1 DEF Accept
      <4>2. v.proof.slot = Current(h).slot /\ v.proof.index >= Current(h).index
        BY <2>1
      <4> HIDE DEF v
      <4> QED BY <4>1, <4>2
    <3>2. CASE Repeat(h)
      <4>1. stored[Current(h).slot] # NoProof
        BY <2>1, <3>2 DEF Repeat, IsAsGood, NoProof
      <4>2. stored[Current(h).slot].slot = Current(h).slot
        BY <2>1, <4>1 DEF StoredInv
      <4> DEFINE v == [pc |-> "add", proof |-> stored[Current(h).slot]]
      <4>3. handlers' = [handlers EXCEPT ![h].write = v]
        BY <3>2 DEF Repeat
      <4>4. v.proof.slot = Current(h).slot /\ v.proof.index >= Current(h).index
        BY <3>2, <4>2 DEF Repeat, IsAsGood
      <4> HIDE DEF v
      <4> QED BY <4>3, <4>4
    <3> QED BY <1>5, <3>1, <3>2
  <2>3. ~handlers[h].answered /\ Current(h) # Malformed
    BY <1>5 DEF Repeat, Accept, IsAtProof
  <2> QED
    BY <1>1, <1>2, <2>2, <2>3 DEF HandlerInv, Accepted, Current, Handler
<1>6. CASE Store(h)
  BY <1>1, <1>2, <1>6 DEF Store, HandlerInv, NoWriter, Accepted, Handler
<1>7. CASE StoreFails(h)
  BY <1>1, <1>2, <1>7 DEF StoreFails, HandlerInv, NoWriter, Accepted, Handler
<1>8. CASE AddToMempool(h)
  <2> DEFINE r == handlers[h]
             w == r.write
  <2>1. /\ handlers'[h] = Advance(r)
        /\ \A g \in Handlers \ {h} : handlers'[g] = handlers[g]
    BY <1>1, <1>8 DEF AddToMempool
  <2>2. /\ r.next \in Nat \ {0} /\ r.next <= Len(r.list)
        /\ w.proof.slot = r.list[r.next].slot
        /\ w.proof.index >= r.list[r.next].index
    BY <1>1, <1>8 DEF AddToMempool, HandlerInv, NoWriter, Handler
  <2>3. /\ handlers'[h].list = r.list /\ handlers'[h].next = r.next + 1
        /\ handlers'[h].write = NoWriter
    BY <2>1 DEF Advance
  <2>4. Len(r.list) \in Nat
    BY <1>1, LenOfList
  <2>5. HandlerInv(h)'
    <3>1. CASE r.next = Len(r.list)
      <4>1. Advance(r) = [list |-> r.list, next |-> r.next + 1,
                          write |-> NoWriter, answered |-> TRUE]
        BY <3>1 DEF Advance
      <4>2. handlers'[h].answered = TRUE
        BY <2>1, <4>1
      <4> QED BY <2>2, <2>3, <2>4, <4>2 DEF HandlerInv
    <3>2. CASE r.next # Len(r.list)
      BY <2>2, <2>3, <2>4, <3>2 DEF HandlerInv
    <3> QED BY <3>1, <3>2
  <2>6. Key(w.proof) \in InPlay'
    BY <1>8, AddKeepsKeys DEF AddToMempool, InPlay
  <2>7. IsKept(r.list[r.next], InPlay')
    BY <2>2, <2>6 DEF IsKept, Key
  <2>8. Accepted(h)' = Accepted(h) \cup {r.list[r.next]}
    <3>1. 1 .. (r.next + 1) - 1 = (1 .. r.next - 1) \cup {r.next}
      BY <2>2
    <3> QED BY <2>3, <3>1 DEF Accepted
  <2> QED BY <1>2, <2>1, <2>5, <2>7, <2>8
<1> QED BY <1>3, <1>4, <1>5, <1>6, <1>7, <1>8 DEF HandlerNext

LEMMA OthersStep ==
    ASSUME IInv, [Next]_vars, UNCHANGED handlers, Works
    PROVE  (\A h \in Handlers : HandlerInv(h))' /\ AcceptedAreKept'
<1>1. InPlay \subseteq InPlay'
  BY InPlayGrows DEF IInv
<1>2. \A h \in Handlers : HandlerInv(h)' /\ Accepted(h)' = Accepted(h)
  BY DEF IInv, HandlerInv, Accepted
<1> QED BY <1>1, <1>2, KeptInMore DEF IInv, AcceptedAreKept

LEMMA StoredStep ==
    ASSUME TypeOK, StoredInv, [Next]_vars
    PROVE  StoredInv'
<1>1. ASSUME NEW h \in Handlers, Store(h) PROVE StoredInv'
  BY <1>1 DEF Store, StoredInv, TypeOK
<1>2. CASE StoreCollected
  BY <1>2 DEF StoreCollected, StoredInv, TypeOK
<1>3. CASE UNCHANGED stored
  BY <1>3 DEF StoredInv
<1>4. (\E h \in Handlers : Store(h)) \/ StoreCollected \/ UNCHANGED stored
  BY DEF Next, HandlerNext, CollectorNext, GeneratorNext, vars, Receive, Refuse,
         StatNotStored, Repeat, Accept, StoreFails, AddToMempool, Collect,
         AddCollected,
         DrainRotationProofs, DrainFinalizationProofs, WriteBlock, Approve,
         Crash
<1> QED BY <1>1, <1>2, <1>3, <1>4

LEMMA IInvInit == Init => IInv
<1> SUFFICES ASSUME Init PROVE IInv
  OBVIOUS
<1>1. TypeOK
  BY TypeInit
<1>2. StoredInv
  BY DEF Init, StoredInv
<1>3. \A h \in Handlers : HandlerInv(h) /\ Accepted(h) = {}
  BY DEF Init, HandlerInv, Accepted, NoHandler
<1> QED BY <1>1, <1>2, <1>3 DEF IInv, AcceptedAreKept

LEMMA IInvStep == IInv /\ [Next]_vars => IInv'
<1> SUFFICES ASSUME IInv, [Next]_vars PROVE IInv'
  OBVIOUS
<1>1. TypeOK' /\ StoredInv'
  BY TypeStep, StoredStep DEF IInv
<1>2. ASSUME NEW h \in Handlers, HandlerNext(h)
      PROVE  (\A g \in Handlers : HandlerInv(g))' /\ AcceptedAreKept'
  <2>1. /\ HandlerInv(h)'
        /\ \A p \in Accepted(h)' : IsKept(p, InPlay')
        /\ \A g \in Handlers \ {h} : handlers'[g] = handlers[g]
    BY <1>2, HandlerStep
  <2>2. InPlay \subseteq InPlay'
    BY <1>2, InPlayGrows DEF IInv, Works
  <2>3. \A g \in Handlers \ {h} : HandlerInv(g)' /\ Accepted(g)' = Accepted(g)
    BY <2>1 DEF IInv, HandlerInv, Accepted
  <2> QED BY <2>1, <2>2, <2>3, KeptInMore DEF IInv, AcceptedAreKept
<1>3. CASE UNCHANGED handlers /\ Works
  BY <1>1, <1>3, OthersStep DEF IInv
<1>4. CASE Crash
  <2>1. \A h \in Handlers : HandlerInv(h)' /\ Accepted(h)' = {}
    BY <1>4 DEF Crash, HandlerInv, Accepted, NoHandler
  <2> QED BY <1>1, <2>1 DEF IInv, AcceptedAreKept
<1>5. \/ \E h \in Handlers : HandlerNext(h)
      \/ UNCHANGED handlers /\ Works
      \/ Crash
  BY DEF Next, Works, CollectorNext, GeneratorNext, vars, Collect,
         StoreCollected, AddCollected, DrainRotationProofs,
         DrainFinalizationProofs, WriteBlock, Approve
<1> QED BY <1>1, <1>2, <1>3, <1>4, <1>5 DEF IInv

LEMMA IInvHolds == Spec => []IInv
BY IInvInit, IInvStep, PTL DEF Spec

-----------------------------------------------------------------------------
\* Every variable keeps its type: handlers in particular stay within the list
\* of their request.
THEOREM TypeCorrect == Spec => []TypeOK
<1>1. IInv => TypeOK
  BY DEF IInv
<1> QED BY <1>1, IInvHolds, PTL

\* The accept routes and the generation thread: an accepted proof is in the
\* mempool, in the block being made or in a block, or one that is not older.
THEOREM NothingForgotten == Spec => []AcceptedAreKept
<1>1. IInv => AcceptedAreKept
  BY DEF IInv
<1> QED BY <1>1, IInvHolds, PTL

-----------------------------------------------------------------------------
\* A writer is pending until its proof is in the mempool.
LEMMA PendingStep ==
    ASSUME IInv, Works
    PROVE  Pending \subseteq Pending' \cup InPlay'
<1>1. handlers \in [Handlers -> Handler]
  BY DEF IInv, TypeOK
<1>2. ASSUME NEW h \in Handlers, HandlerNext(h)
      PROVE  Pending \subseteq Pending' \cup InPlay'
  <2>1. collector' = collector
    BY <1>2 DEF HandlerNext, Receive, Refuse, StatNotStored, Repeat, Accept, Store,
                StoreFails, AddToMempool
  <2>2. \A g \in Handlers \ {h} : handlers'[g] = handlers[g]
    BY <1>2, HandlerStep
  <2>3. handlers[h].write.pc = "add" => Key(handlers[h].write.proof) \in InPlay'
    <3>1. CASE AddToMempool(h)
      BY <3>1, AddKeepsKeys DEF AddToMempool, InPlay
    <3>2. CASE Receive(h)
      BY <3>2 DEF Receive, IInv, HandlerInv, NoWriter
    <3>3. CASE Refuse(h) \/ StatNotStored(h) \/ Repeat(h) \/ Accept(h)
      BY <3>3 DEF Refuse, StatNotStored, Repeat, Accept, IsAtProof, NoWriter
    <3>4. CASE Store(h) \/ StoreFails(h)
      BY <3>4 DEF Store, StoreFails
    <3> QED BY <1>2, <3>1, <3>2, <3>3, <3>4 DEF HandlerNext
  <2> QED BY <2>1, <2>2, <2>3 DEF Pending
<1>3. CASE AddCollected
  BY <1>3, AddKeepsKeys DEF AddCollected, InPlay, Pending
<1>4. CASE Collect \/ StoreCollected
  BY <1>4 DEF Collect, StoreCollected, NoWriter, Pending
<1>5. CASE GeneratorNext \/ Approve \/ UNCHANGED vars
  BY <1>5 DEF GeneratorNext, DrainRotationProofs, DrainFinalizationProofs,
              WriteBlock, Approve, vars, Pending
<1> QED BY <1>2, <1>3, <1>4, <1>5 DEF Works, CollectorNext

\* Whoever stores a proof is pending next.
LEMMA StoredIsPending ==
    ASSUME IInv, Works, NEW slot \in Slots, stored'[slot] # stored[slot]
    PROVE  Key(stored'[slot]) \in Pending'
<1>1. ASSUME NEW h \in Handlers, Store(h)
      PROVE  Key(stored'[slot]) \in Pending'
  <2>1. stored'[slot] = handlers[h].write.proof
    BY <1>1 DEF Store, IInv, TypeOK
  <2>2. handlers[h].write \in Writer
    BY <1>1 DEF Store, IInv, TypeOK, Handler, NoWriter
  <2>3. handlers'[h].write = [handlers[h].write EXCEPT !.pc = "add"]
    BY <1>1 DEF Store, IInv, TypeOK, Handler
  <2>4. /\ handlers'[h].write.pc = "add"
        /\ handlers'[h].write.proof = handlers[h].write.proof
    BY <2>2, <2>3 DEF Writer
  <2> QED BY <2>1, <2>4 DEF Pending
<1>2. CASE StoreCollected
  <2>1. collector \in Writer /\ stored'[slot] = collector.proof
    BY <1>2 DEF StoreCollected, IInv, TypeOK, NoWriter
  <2>2. collector' = [collector EXCEPT !.pc = "add"]
    BY <1>2 DEF StoreCollected
  <2>3. collector'.pc = "add" /\ collector'.proof = collector.proof
    BY <2>1, <2>2 DEF Writer
  <2> QED BY <2>1, <2>3 DEF Pending
<1>3. (\E h \in Handlers : Store(h)) \/ StoreCollected
  BY DEF Works, HandlerNext, CollectorNext, GeneratorNext, vars, Receive,
         Refuse, StatNotStored, Repeat, Accept, StoreFails, AddToMempool, Collect,
         AddCollected, DrainRotationProofs, DrainFinalizationProofs,
         WriteBlock, Approve
<1> QED BY <1>1, <1>2, <1>3

LEMMA OnItsWayStep ==
    ASSUME IInv, Works, NEW slot \in Slots,
           IsOnItsWay(slot) \/ stored'[slot] # stored[slot]
    PROVE  IsOnItsWay(slot)'
<1>1. CASE stored'[slot] # stored[slot]
  BY <1>1, StoredIsPending DEF IsOnItsWay
<1>2. CASE stored'[slot] = stored[slot]
  <2>1. InPlay \cup Pending \subseteq (InPlay \cup Pending)'
    BY InPlayGrows, PendingStep DEF IInv
  <2> QED BY <1>2, <2>1 DEF IsOnItsWay
<1> QED BY <1>1, <1>2

\* The writers of proofs, the mempool and the generation thread together: a
\* stored proof stays on its way to a block until it is in one, whatever
\* their interleaving; only a crash of the node takes it off.
THEOREM NothingLost == Spec => OnlyCrashesLoseProofs
<1> DEFINE Kept == \A slot \in Slots :
                     IsOnItsWay(slot) \/ stored'[slot] # stored[slot] =>
                         IsOnItsWay(slot)' \/ Crash
<1>1. IInv /\ [Next]_vars => [Kept]_vars
  BY NextWorksOrCrashes, OnItsWayStep
<1> QED BY <1>1, IInvHolds, PTL DEF Spec, OnlyCrashesLoseProofs
=============================================================================
