--------------------------- MODULE AnchorRotation ---------------------------
(***************************************************************************)
(* How the anchors of an epoch rotate out one of them (the creator) whose  *)
(* blocks make no progress.  Every anchor on which the health checker has  *)
(* disabled the creator runs a collector (AnchorRotationCollectorThread):  *)
(* it proposes the last finalized block it knows of, its voting stat, asks *)
(* the other anchors one after the other to sign it, and with a majority   *)
(* of signatures stores and broadcasts an aggregated anchor rotation proof *)
(* (AARP).                                                                 *)
(*                                                                         *)
(* Meanwhile votes go on (BlockFinalization): handlers that passed their   *)
(* checks before the creator was disabled still sign, and write a voting   *)
(* stat they computed from what they had read then.  Votes, requests for a *)
(* rotation proof and accepted proofs all write the same stat; they take   *)
(* the creator's mutex of their node, and a collector holds it during all  *)
(* of its HTTP calls.                                                      *)
(*                                                                         *)
(* The creator has one chain (BlockFinalization shows it): a block, its    *)
(* AFP and a voting stat are known by their index.  Signatures cannot be   *)
(* forged: one exists where its voter has given it, and says over which    *)
(* block.  A request may be handled long after its sender has given up.    *)
(***************************************************************************)
EXTENDS ChainVotes

CONSTANTS
    Collectors,     \* bound: the anchors whose collector is followed
    VotersAtStart,  \* who has voted for which block at the start,
    StatAtStart,    \* what each node's voting stat is then,
    Stalled,        \* and who has disabled the creator already
    MaxHandlers,    \* bound: vote handlers running at once, over all nodes
    MaxRestarts     \* bound: crashes, over all nodes

\* Some anchors may have missed votes, and be any number of blocks behind.
ASSUME StartAssumption ==
    LET WasFinal(i) == Cardinality(VotersAtStart[i]) >= Majority
    IN  /\ VotersAtStart \in [Indices -> SUBSET Quorum]
        /\ StatAtStart \in [Quorum -> Stat]
        /\ Stalled \in SUBSET Quorum
        /\ \A i, j \in Indices : j < i /\ VotersAtStart[i] # {} => WasFinal(j)
        /\ \A n \in Quorum, i \in Indices :
             n \in VotersAtStart[i] => StatAtStart[n] >= i - 1
        /\ \A n \in Quorum : StatAtStart[n] >= 0 => WasFinal(StatAtStart[n])
        /\ Stalled # {} => \E i \in Indices : WasFinal(i)

ASSUME BoundAssumption ==
    /\ Collectors \subseteq Quorum
    /\ MaxHandlers \in Nat
    /\ MaxRestarts \in Nat

VARIABLES
    collector,        \* each node's collector; while busy, it has the mutex
    rotationProof,    \* the stored "AARP:<epoch>:<creator>"
    broadcast,        \* /accept_aggregated_anchor_rotation_proof
    setBack,          \* history: whether a stale vote has taken a stat back
    restarts

proofVars == <<rotationProof, broadcast>>
vars == <<votingStat, voteVars, collector, proofVars, setBack, restarts>>

-----------------------------------------------------------------------------
\* A signature over the AFP of a block, for its rotation.
Signature == [voter : Quorum, index : Stat]

\* An AARP: the height it states and the signatures it carries.
Proof   == [index : Stat, signatures : SUBSET Signature]
NoProof == [index |-> -1, signatures |-> {}]

\* What a member answers: "OK", "UPGRADE", or nothing the collector can use.
Answer   == [status : {"OK", "UPGRADE", "none"}, stat : Stat]
NoAnswer == [status |-> "none", stat |-> -1]

\* A pass of a collector: the stat it proposes, the members it has not asked
\* yet, the one it is waiting for and its answer, the signatures so far.
Collector ==
    [pc : {"idle", "asking", "waiting", "broadcasting"}, proposal : Stat,
     left : SUBSET Quorum, member : Quorum, answer : Answer,
     signatures : SUBSET Signature]

Idle(n) ==
    [pc |-> "idle", proposal |-> -1, left |-> {}, member |-> n,
     answer |-> NoAnswer, signatures |-> {}]

Broadcast == [from : Quorum, proof : Proof]

TypeOK ==
    /\ VotesTypeOK
    /\ collector \in [Quorum -> Collector]
    /\ rotationProof \in [Quorum -> Proof]
    /\ broadcast \in SUBSET Broadcast
    /\ setBack \in BOOLEAN
    /\ restarts \in 0 .. MaxRestarts

Init ==
    /\ votingStat = StatAtStart
    /\ disabled = Stalled
    /\ voters = VotersAtStart
    /\ handlers = [n \in Quorum |-> {}]
    /\ collector = [n \in Quorum |-> Idle(n)]
    /\ rotationProof = [n \in Quorum |-> NoProof]
    /\ broadcast = {}
    /\ setBack = FALSE
    /\ restarts = 0

\* The creator's mutex at a node: only a collector keeps it from one step to
\* the next.
MutexIsFree(n) == collector[n].pc = "idle"

-----------------------------------------------------------------------------
(***************************************************************************)
(* Votes (GetFinalizationProof), as in ChainVotes, but with the creator's  *)
(* mutex, which a collector may have.                                      *)
(***************************************************************************)
Running == UNION {{<<v, h>> : h \in handlers[v]} : v \in Quorum}

BeginVote(v, i) ==
    /\ Cardinality(Running) < MaxHandlers
    /\ Begin(v, i)
    /\ UNCHANGED <<collector, proofVars, setBack, restarts>>

FinishVote(v, h) ==
    /\ MutexIsFree(v)
    /\ Finish(v, h)
    /\ h \notin handlers'[v]
    /\ setBack' = (setBack \/ h.stat < votingStat[v])
    /\ UNCHANGED <<collector, proofVars, restarts>>

Disable(v) ==
    /\ Flag(v)
    /\ UNCHANGED <<collector, proofVars, setBack, restarts>>

-----------------------------------------------------------------------------
(***************************************************************************)
(* The collector (processCreatorRotation).  The flag and the stored proof  *)
(* are looked at before the mutex is taken and once more under it: only    *)
(* the second look counts.  From StartPass on it has the mutex.            *)
(***************************************************************************)
StartPass(n) ==
    /\ MutexIsFree(n)
    /\ n \in disabled
    /\ rotationProof[n] = NoProof
    /\ votingStat[n] >= 0
    /\ collector' = [collector EXCEPT ![n] =
                       [pc |-> "asking", proposal |-> votingStat[n],
                        left |-> Quorum \ {n}, member |-> n,
                        answer |-> NoAnswer, signatures |-> {}]]
    /\ UNCHANGED <<votingStat, voteVars, proofVars, setBack, restarts>>

\* Whose signatures they are: the map collected is keyed by the member.
Voters(signatures) == {s.voter : s \in signatures}

HasMajority(n) == Cardinality(Voters(collector[n].signatures)) >= Majority

\* The next member, never itself; the registry gives the order, any here.
Ask(n, m) ==
    /\ collector[n].pc = "asking"
    /\ ~HasMajority(n)
    /\ m \in collector[n].left
    /\ collector' = [collector EXCEPT ![n] =
                       [collector[n] EXCEPT
                          !.pc = "waiting", !.left = @ \ {m},
                          !.member = m, !.answer = NoAnswer]]
    /\ UNCHANGED <<votingStat, voteVars, proofVars, setBack, restarts>>

NextMember(n) ==
    [collector[n] EXCEPT !.pc = "asking", !.member = n, !.answer = NoAnswer]

\* An answer counts only over the very stat proposed; one that comes with
\* another stat is taken for a fresher one.
IsUsable(c) == c.answer.status = "OK" /\ c.answer.stat = c.proposal

IsFresher(c) == c.answer.status # "none" /\ ~IsUsable(c)

ReceiveSignature(n) ==
    /\ collector[n].pc = "waiting"
    /\ IsUsable(collector[n])
    /\ collector' = [collector EXCEPT ![n] =
                       [NextMember(n) EXCEPT
                          !.signatures = @ \cup
                            {[voter |-> collector[n].member,
                              index |-> collector[n].answer.stat]}]]
    /\ UNCHANGED <<votingStat, voteVars, proofVars, setBack, restarts>>

\* (variants of ReceiveUpgrade: the pass starts over at once with the fresher
\* stat but keeps the signatures it has; the fresher stat is not stored)
ReceiveUpgradeAndStartOver(n) ==
    /\ collector[n].pc = "waiting"
    /\ IsFresher(collector[n])
    /\ votingStat' = [votingStat EXCEPT ![n] = collector[n].answer.stat]
    /\ collector' = [collector EXCEPT ![n] =
                       [NextMember(n) EXCEPT
                          !.proposal = collector[n].answer.stat,
                          !.left = Quorum \ {n}]]
    /\ UNCHANGED <<voteVars, proofVars, setBack, restarts>>

ReceiveUpgradeUnstored(n) ==
    /\ collector[n].pc = "waiting"
    /\ IsFresher(collector[n])
    /\ collector' = [collector EXCEPT ![n] = Idle(n)]
    /\ UNCHANGED <<votingStat, voteVars, proofVars, setBack, restarts>>

\* A member knows of a later block: its stat is stored, unverified, and the
\* pass is over, whatever signatures it had.
ReceiveUpgrade(n) ==
    /\ collector[n].pc = "waiting"
    /\ IsFresher(collector[n])
    /\ votingStat' = [votingStat EXCEPT ![n] = collector[n].answer.stat]
    /\ collector' = [collector EXCEPT ![n] = Idle(n)]
    /\ UNCHANGED <<voteVars, proofVars, setBack, restarts>>

\* (a variant of GiveUp without the HTTP client's timeout)
GiveUpRefused(n) ==
    /\ collector[n].pc = "waiting"
    /\ MutexIsFree(collector[n].member)
    /\ collector' = [collector EXCEPT ![n] = NextMember(n)]
    /\ UNCHANGED <<votingStat, voteVars, proofVars, setBack, restarts>>

\* A refusal, a failed call, or no answer within five seconds (and a handler
\* that may still be waiting for the member's mutex): on to the next.
GiveUp(n) ==
    /\ collector[n].pc = "waiting"
    /\ collector' = [collector EXCEPT ![n] = NextMember(n)]
    /\ UNCHANGED <<votingStat, voteVars, proofVars, setBack, restarts>>

\* Everyone was asked and too few have signed.
EndPass(n) ==
    /\ collector[n].pc = "asking"
    /\ ~HasMajority(n)
    /\ collector[n].left = {}
    /\ collector' = [collector EXCEPT ![n] = Idle(n)]
    /\ UNCHANGED <<votingStat, voteVars, proofVars, setBack, restarts>>

\* The proof is stored, put in the mempool (ProofsMempool) and sent to all
\* the others one by one, still under the mutex.  What they answer is not
\* looked at.
StoreProof(n) ==
    /\ collector[n].pc = "asking"
    /\ HasMajority(n)
    /\ LET proof == [index |-> collector[n].proposal,
                     signatures |-> collector[n].signatures]
       IN  /\ rotationProof' = [rotationProof EXCEPT ![n] = proof]
           /\ broadcast' = broadcast \cup {[from |-> n, proof |-> proof]}
    /\ collector' = [collector EXCEPT ![n] =
                       [Idle(n) EXCEPT !.pc = "broadcasting"]]
    /\ UNCHANGED <<votingStat, voteVars, setBack, restarts>>

EndBroadcast(n) ==
    /\ collector[n].pc = "broadcasting"
    /\ collector' = [collector EXCEPT ![n] = Idle(n)]
    /\ UNCHANGED <<votingStat, voteVars, proofVars, setBack, restarts>>

-----------------------------------------------------------------------------
(***************************************************************************)
(* RequestAnchorRotationProof, under the member's mutex: for a collector   *)
(* that is waiting, or for one that has given up or died, or that is not   *)
(* followed.  Nobody takes the answer of such a late request.  A refusal   *)
(* leaves everything as it was: it is a GiveUp of the collector.           *)
(***************************************************************************)
Awaits(n, m) ==
    /\ collector[n].pc = "waiting"
    /\ collector[n].member = m
    /\ collector[n].answer = NoAnswer

AnswerTo(n, status, stat) ==
    collector' = [collector EXCEPT ![n].answer =
                    [status |-> status, stat |-> stat]]

\* (a variant of MayAnswer that does not look at the health flag)
MayAnswerWhileHealthy(m) == MutexIsFree(m)

MayAnswer(m) == MutexIsFree(m) /\ m \in disabled

RespondWithUpgrade(n, m) ==
    /\ Awaits(n, m)
    /\ MayAnswer(m)
    /\ collector[n].proposal < votingStat[m]
    /\ AnswerTo(n, "UPGRADE", votingStat[m])
    /\ UNCHANGED <<votingStat, voteVars, proofVars, setBack, restarts>>

HandleMatchingProposal(n, m) ==
    /\ Awaits(n, m)
    /\ MayAnswer(m)
    /\ collector[n].proposal = votingStat[m]
    /\ AnswerTo(n, "OK", votingStat[m])
    /\ UNCHANGED <<votingStat, voteVars, proofVars, setBack, restarts>>

\* (a variant of Follows that does not verify the AFP)
FollowsUnverified(stat, proposal) == stat >= 0 /\ proposal = stat + 1

\* validateUpgradeProposal: the AFP of the proposal must verify and name the
\* block of the member's own stat as its predecessor.  At index -1 it never
\* does: a vote for block 0 has stored an empty hash.
Follows(stat, proposal) ==
    stat >= 0 /\ proposal = stat + 1 /\ IsFinal(proposal)

HandleUpgradeProposal(n, m) ==
    /\ Awaits(n, m)
    /\ MayAnswer(m)
    /\ Follows(votingStat[m], collector[n].proposal)
    /\ votingStat' = [votingStat EXCEPT ![m] = collector[n].proposal]
    /\ AnswerTo(n, "OK", collector[n].proposal)
    /\ UNCHANGED <<voteVars, proofVars, setBack, restarts>>

\* A late request changes something only if it upgrades the stat.
HandleLateRequest(m, proposal) ==
    /\ MayAnswer(m)
    /\ Follows(votingStat[m], proposal)
    /\ votingStat' = [votingStat EXCEPT ![m] = proposal]
    /\ UNCHANGED <<voteVars, collector, proofVars, setBack, restarts>>

-----------------------------------------------------------------------------
(***************************************************************************)
(* AcceptAggregatedAnchorRotationProof, under the member's mutex and       *)
(* whether or not the member itself has disabled the creator.  The voting  *)
(* stat is overwritten, whatever it was.  A stored proof for the same      *)
(* block is kept; proofs of different heights have different hashes, so    *)
(* the one that comes last replaces the other, be it lower or higher.      *)
(***************************************************************************)
Genuine(proof) == {s \in proof.signatures : s.index = proof.index}

Verifies(proof) ==
    /\ proof.index >= 0
    /\ Cardinality(Voters(Genuine(proof))) >= Majority

AcceptProof(m, b) ==
    /\ b.from # m
    /\ MutexIsFree(m)
    /\ Verifies(b.proof)
    /\ votingStat' = [votingStat EXCEPT ![m] = b.proof.index]
    /\ rotationProof' = IF rotationProof[m].index = b.proof.index
                        THEN rotationProof
                        ELSE [rotationProof EXCEPT ![m] = b.proof]
    /\ UNCHANGED <<voteVars, collector, broadcast, setBack, restarts>>

\* A node dies: its handlers and its pass are gone, its stores are not.
Restart(n) ==
    /\ restarts < MaxRestarts
    /\ restarts' = restarts + 1
    /\ Abandon(n, {})
    /\ collector' = [collector EXCEPT ![n] = Idle(n)]
    /\ UNCHANGED <<proofVars, setBack>>

-----------------------------------------------------------------------------
VoteNext(v) ==
    \/ \E i \in Indices : BeginVote(v, i)
    \/ \E h \in handlers[v] : FinishVote(v, h)
    \/ Disable(v)
    \/ Restart(v)

PassStep(n) ==
    \/ \E m \in Quorum : Ask(n, m)
    \/ ReceiveSignature(n)
    \/ ReceiveUpgrade(n)
    \/ GiveUp(n)
    \/ EndPass(n)
    \/ StoreProof(n)
    \/ EndBroadcast(n)

HandleRequest(n, m) ==
    \/ RespondWithUpgrade(n, m)
    \/ HandleMatchingProposal(n, m)
    \/ HandleUpgradeProposal(n, m)

Next ==
    \/ \E v \in Quorum : VoteNext(v)
    \/ \E n \in Collectors : StartPass(n) \/ PassStep(n)
    \/ \E n \in Collectors, m \in Quorum : HandleRequest(n, m)
    \/ \E m \in Quorum, i \in Indices : HandleLateRequest(m, i)
    \/ \E m \in Quorum, b \in broadcast : AcceptProof(m, b)

Spec == Init /\ [][Next]_vars

-----------------------------------------------------------------------------
\* Whatever was asked for again, upgraded, answered late or taken back, a
\* rotation proof that exists states a block that votes alone have made
\* final, and a majority has signed it in truth, so that every member that
\* gets it accepts it.
ProofsAreGenuine ==
    \A proof \in {rotationProof[n] : n \in Quorum} \ {NoProof} :
        /\ proof.index >= 0
        /\ IsFinal(proof.index)
        /\ Verifies(proof)

\* The stats that collectors and members store without looking at the AFP in
\* them, and may take back, are of final blocks.
StatsAreFinal == \A n \in Quorum : votingStat[n] >= 0 => IsFinal(votingStat[n])

\* A rotation proof leaves at most two final blocks of the creator out: the
\* one every stat is behind, and one that votes under way when the creator
\* was disabled may still finalize.  Unless a stale vote has taken a stat
\* back: then its node signs for a height it had left.
RotationIsRecent ==
    ~setBack =>
        \A n \in Quorum, k \in Indices :
            rotationProof[n] # NoProof /\ IsFinal(k) =>
                k <= rotationProof[n].index + 2

\* Whatever the collectors and the routes of the rotation do to the stats,
\* the votes remain what BlockFinalization shows them to be: its contract
\* with this module is kept on this side too.
ImplementsChainVotes == VotesSpec

-----------------------------------------------------------------------------
(***************************************************************************)
(* The inductive invariant.                                                *)
(***************************************************************************)
\* Votes follow finalization, and write the stat of a final block.
VotesInv ==
    /\ \A i, j \in Indices : j < i /\ voters[i] # {} => IsFinal(j)
    /\ \A v \in Quorum : \A h \in handlers[v] :
         /\ \A j \in Indices : j < h.index => IsFinal(j)
         /\ h.stat \in {h.index - 1, h.index}
         /\ h.stat >= 0 => IsFinal(h.stat)

\* A pass proposes the node's stat, which the mutex protects, and has only
\* signatures over it; a member that knows better knows a later final block.
GoodPass(n, c) ==
    /\ c.pc \in {"asking", "waiting"} =>
         c.proposal = votingStat[n] /\ c.proposal \in Indices
    /\ c.pc \notin {"asking", "waiting"} => c.signatures = {}
    /\ \A s \in c.signatures : s.index = c.proposal
    /\ c.pc = "waiting" /\ c.answer.status = "OK" =>
         c.answer.stat = c.proposal
    /\ c.pc = "waiting" /\ c.answer.status = "UPGRADE" =>
         c.answer.stat > c.proposal /\ IsFinal(c.answer.stat)

PassInv == \A n \in Quorum : GoodPass(n, collector[n])

\* What is stored was once broadcast, and verifies.
BroadcastInv ==
    /\ \A n \in Quorum :
         \/ rotationProof[n] = NoProof
         \/ \E b \in broadcast : b.proof = rotationProof[n]
    /\ \A b \in broadcast : Verifies(b.proof) /\ IsFinal(b.proof.index)

\* The rotation signatures that exist.
HasSigned(v, i) ==
    LET signature == [voter |-> v, index |-> i]
    IN  \/ \E n \in Quorum :
             \/ signature \in collector[n].signatures
             \/ /\ collector[n].pc = "waiting"
                /\ collector[n].answer.status = "OK"
                /\ collector[n].member = v
                /\ collector[n].answer.stat = i
        \/ \E b \in broadcast : signature \in b.proof.signatures

SignersInv ==
    \A v \in Quorum, i \in Indices : HasSigned(v, i) => v \in disabled

IsRotated(i) == \E b \in broadcast : b.proof.index = i

\* A voter's stat is at most one behind its last vote, unless an accepted
\* proof has taken it back.
StatInv ==
    \A v \in Quorum, i \in Indices :
        v \in voters[i] =>
            \/ votingStat[v] >= i - 1
            \/ \E j \in Indices :
                 j < i - 1 /\ j <= votingStat[v] /\ IsRotated(j)

\* The voters of block i + 2 that cannot both sign a rotation at i and vote
\* for block i + 3.
Unsigned(i) ==
    {v \in voters[i + 2] : HasSigned(v, i) => v \notin MayVote(i + 3)}

\* Once block i + 2 is final they are a majority, until there is a rotation
\* proof for i; from then on no majority is left to vote for block i + 3.
RecentInv ==
    \A i \in Indices :
        i + 3 \in Indices /\ IsFinal(i + 2) =>
            IF IsRotated(i)
            THEN Cardinality(MayVote(i + 3)) < Majority
            ELSE Cardinality(Unsigned(i)) >= Majority

IInv ==
    /\ TypeOK
    /\ StatsAreFinal
    /\ VotesInv
    /\ PassInv
    /\ BroadcastInv
    /\ SignersInv
    /\ ~setBack => StatInv /\ RecentInv

-----------------------------------------------------------------------------
(***************************************************************************)
(* Liveness.  Collectors are woken every five seconds and loop through     *)
(* their members; a request waits for the member's mutex, which sync.Mutex *)
(* gives to every waiter in the end: strong fairness.  From some time on   *)
(* the network answers within five seconds, so that a collector gives up   *)
(* only on a member that cannot answer.                                    *)
(***************************************************************************)
CannotAnswer(m, proposal) ==
    \/ ~MutexIsFree(m)
    \/ m \notin disabled
    \/ proposal > votingStat[m] /\ ~Follows(votingStat[m], proposal)

GivesUpInVain ==
    \E n \in Collectors :
        /\ GiveUp(n)
        /\ ~CannotAnswer(collector[n].member, collector[n].proposal)

Fairness ==
    \A n \in Collectors :
        /\ WF_vars(StartPass(n))
        /\ WF_vars(PassStep(n))
        /\ SF_vars(\E m \in Quorum : HandleRequest(n, m))

FairSpec == Spec /\ Fairness /\ <>[][~GivesUpInVain]_vars

\* Collectors keep their mutex while they ask, and two of them may ask each
\* other: the timeout of the HTTP client lets every pass end and every
\* handler that waits for the mutex go on.
PassesEnd == \A n \in Collectors : (collector[n].pc # "idle") ~> MutexIsFree(n)

\* Members that no stat is two blocks ahead of: the others refuse to sign
\* until an accepted proof or late votes bring them up.
UpToDate ==
    {m \in Quorum : \A k \in Quorum : votingStat[k] <= votingStat[m] + 1}

\* The collector has disabled the creator, and enough others have that are
\* not too far behind.
Ready(n) ==
    /\ n \in disabled
    /\ Cardinality((disabled \cap UpToDate) \ {n}) >= Majority

\* A collector waits for a member whose own collector has the mutex.
Contention ==
    \E n \in Collectors :
        collector[n].pc = "waiting" /\ ~MutexIsFree(collector[n].member)

\* The rotation completes, whichever of two heights the members hold at
\* first, unless collectors get into each other's way again and again (tickers in step).
RotationCompletes ==
    <>[]~Contention =>
        ((\A n \in Collectors : Ready(n))
            ~> \E n \in Quorum : rotationProof[n] # NoProof)
=============================================================================
