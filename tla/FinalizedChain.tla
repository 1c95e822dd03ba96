-------------------------- MODULE FinalizedChain ---------------------------
(***************************************************************************)
(* What block finalization promises of one anchor's chain in one epoch,    *)
(* with no votes, threads or messages.  Blocks become final one after the  *)
(* other and for ever; the creator learns of it later (tip), and what it   *)
(* has on disk (durable) is one block behind, so that a restart loses the  *)
(* knowledge of at most one final block and never the block itself.        *)
(***************************************************************************)
EXTENDS Integers

CONSTANTS Hashes, MaxIndex, NotFinal

VARIABLES
    finalized,  \* finalized[i]: the hash of the final block i, or NotFinal
    tip,        \* the last block the creator knows to be final, or -1
    durable     \* the last one it would still know after a restart

chainVars == <<finalized, tip, durable>>

Heights == 0 .. MaxIndex

Init ==
    /\ finalized = [i \in Heights |-> NotFinal]
    /\ tip = -1
    /\ durable = -1

\* The chain grows: every earlier block is final, this one gets a hash no
\* final block has.  At most one block is final beyond the next one the
\* creator would ask for, even if it restarted now.
Finalize(i, hash) ==
    /\ finalized[i] = NotFinal
    /\ \A j \in Heights : /\ j < i => finalized[j] # NotFinal
                          /\ finalized[j] # hash
    /\ i <= durable + 2
    /\ finalized' = [finalized EXCEPT ![i] = hash]
    /\ UNCHANGED <<tip, durable>>

\* The creator moves on by one final block; what it knew before is durable.
Advance ==
    /\ tip + 1 \in Heights
    /\ finalized[tip + 1] # NotFinal
    /\ tip' = tip + 1
    /\ durable' = tip
    /\ UNCHANGED finalized

\* A restart of the creator.
Recover ==
    /\ tip' = durable
    /\ UNCHANGED <<finalized, durable>>

Next ==
    \/ \E i \in Heights, hash \in Hashes : Finalize(i, hash)
    \/ Advance
    \/ Recover

Spec == Init /\ [][Next]_chainVars
=============================================================================
