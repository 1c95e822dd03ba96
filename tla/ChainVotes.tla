----------------------------- MODULE ChainVotes ------------------------------
(***************************************************************************)
(* What the votes for one creator's chain in one epoch do to the state the *)
(* anchors share with others: who has voted for which block, each node's   *)
(* voting stat of the creator, and its health flag.  No blocks, AFPs,      *)
(* rounds or stores: the creator has one chain, and blocks are known by    *)
(* their index.                                                            *)
(*                                                                         *)
(* This is the contract between two modules.  BlockFinalization, where the *)
(* votes come from, implements it; AnchorRotation is built on it, and adds *)
(* the requests that also write the stats.                                 *)
(***************************************************************************)
EXTENDS Integers, FiniteSets, QuorumMajority

CONSTANTS
    Quorum,    \* the anchors of the epoch
    MaxIndex   \* bound: the creator's blocks are 0..MaxIndex

ASSUME VotesAssumption ==
    /\ IsFiniteSet(Quorum)
    /\ Quorum # {}
    /\ MaxIndex \in Nat

VARIABLES
    votingStat,  \* the index of each node's voting stat of the creator
    disabled,    \* the nodes that have disabled the creator
    voters,      \* voters[i]: who has voted for block i
    handlers     \* GetFinalizationProof calls past their checks

voteVars     == <<disabled, voters, handlers>>
contractVars == <<votingStat, voteVars>>

-----------------------------------------------------------------------------
Majority == GetQuorumMajority(Quorum)
Indices  == 0 .. MaxIndex
Stat     == Indices \cup {-1}

\* A vote under way: for which block, and the stat it will write.
Handler == [index : Indices, stat : Stat]

VotesTypeOK ==
    /\ votingStat \in [Quorum -> Stat]
    /\ disabled \in SUBSET Quorum
    /\ voters \in [Indices -> SUBSET Quorum]
    /\ handlers \in [Quorum -> SUBSET Handler]

\* A majority has voted for block i.
IsFinal(i) == Cardinality(voters[i]) >= Majority

\* Any state without votes under way in which votes have followed
\* finalization: of an epoch that begins, or later.
VotesInit ==
    /\ VotesTypeOK
    /\ \A i, j \in Indices : j < i /\ voters[i] # {} => IsFinal(j)
    /\ \A n \in Quorum : votingStat[n] >= 0 => IsFinal(votingStat[n])
    /\ disabled # {} => \E i \in Indices : IsFinal(i)
    /\ handlers = [n \in Quorum |-> {}]

-----------------------------------------------------------------------------
(***************************************************************************)
(* A vote (GetFinalizationProof): the health flag and the stat are read    *)
(* before the creator's mutex is taken, the stat computed from that copy   *)
(* is written under it.                                                    *)
(***************************************************************************)
\* (a variant of FutureStat that stores the block voted for)
StatOfVotedBlock(local, i) == i

\* The previous block's index, unless the stat was read as this very block's.
FutureStat(local, i) == IF local = i THEN local ELSE i - 1

\* (a variant of Begin that does not look at the health flag)
BeginForDisabled(v, i) ==
    /\ votingStat[v] <= i
    /\ i > 0 => IsFinal(i - 1)
    /\ handlers' = [handlers EXCEPT ![v] =
                      @ \cup {[index |-> i,
                               stat  |-> FutureStat(votingStat[v], i)]}]
    /\ UNCHANGED <<votingStat, disabled, voters>>

Begin(v, i) ==
    /\ v \notin disabled
    /\ votingStat[v] <= i
    /\ i > 0 => IsFinal(i - 1)
    /\ handlers' = [handlers EXCEPT ![v] =
                      @ \cup {[index |-> i,
                               stat  |-> FutureStat(votingStat[v], i)]}]
    /\ UNCHANGED <<votingStat, disabled, voters>>

\* Two requests for a block may have come with AFPs of different signers:
\* what looks like one handler here may be several, of which one ends.
Finish(v, h) ==
    /\ votingStat' = [votingStat EXCEPT ![v] = h.stat]
    /\ voters' = [voters EXCEPT ![h.index] = @ \cup {v}]
    /\ \E left \in {handlers[v], handlers[v] \ {h}} :
         handlers' = [handlers EXCEPT ![v] = left]
    /\ UNCHANGED disabled

\* A crash, or a write that fails.
Abandon(v, left) ==
    /\ handlers' = [handlers EXCEPT ![v] = left]
    /\ UNCHANGED <<votingStat, disabled, voters>>

\* The health checker has read the same stat twice, and it was of a final
\* block; what the stat is by now does not matter.
Flag(v) ==
    /\ v \notin disabled
    /\ \E i \in Indices : IsFinal(i)
    /\ disabled' = disabled \cup {v}
    /\ UNCHANGED <<votingStat, voters, handlers>>

\* The rotation routes store the stat of any final block.
SetStat(v, i) ==
    /\ IsFinal(i)
    /\ votingStat' = [votingStat EXCEPT ![v] = i]
    /\ UNCHANGED <<disabled, voters, handlers>>

VotesNext ==
    \E v \in Quorum :
        \/ \E i \in Indices : Begin(v, i) \/ SetStat(v, i)
        \/ \E h \in handlers[v] : Finish(v, h)
        \/ \E left \in SUBSET handlers[v] : Abandon(v, left)
        \/ Flag(v)

VotesSpec == VotesInit /\ [][VotesNext]_contractVars

-----------------------------------------------------------------------------
MajorityDisabled == Cardinality(disabled) >= Majority

\* Who has voted for block i, is about to, or still may begin to.
MayVote(i) ==
    (Quorum \ disabled) \cup voters[i]
        \cup {v \in Quorum : \E h \in handlers[v] : h.index = i}

OutOfReach(i) == Cardinality(MayVote(i)) < Majority

\* Whoever writes the stats meanwhile, and to whatever final block: once a
\* majority of the nodes has disabled the creator, at most one more block
\* becomes final.  If block i is not final at that moment, block i + 1 is out
\* of reach, and what is out of reach stays so for ever.
VotesFreeze ==
    /\ [](\A i \in 0 .. MaxIndex - 1 :
             MajorityDisabled /\ ~IsFinal(i) => OutOfReach(i + 1))
    /\ [][\A i \in Indices : OutOfReach(i) => OutOfReach(i)']_contractVars
=============================================================================
