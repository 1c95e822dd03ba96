----------------------------- MODULE EpochChain -----------------------------
(***************************************************************************)
(* What the threads of one node make of its own chain in one epoch, seen   *)
(* from its stores: the blocks it has written, and up to which block it    *)
(* knows, or would know after a restart, that the quorum has finalized     *)
(* them.                                                                   *)
(*                                                                         *)
(* This is a contract that two modules implement.  In BlockFinalization    *)
(* the quorum votes, and a block is generated in one step; in EpochWindow  *)
(* the generation thread reads the accepted index in one step and writes   *)
(* the block in a later one, with threads, rotations and crashes between   *)
(* them, but a round just ends one way or another.  Each leaves out what   *)
(* the other shows, and to a user of the chain they look alike.            *)
(***************************************************************************)
EXTENDS Integers

CONSTANTS
    MaxIndex,  \* bound: blocks 0..MaxIndex
    NoBlock    \* where no block is stored

VARIABLES
    blocks,   \* what is stored at each index
    tip,      \* the last block known to be final, or -1
    durable,  \* the last one that would be known after a restart
    open      \* whether the epoch is not marked as finished

epochVars == <<blocks, tip, durable, open>>

Indices == 0 .. MaxIndex

Written(i) == blocks[i] # NoBlock

\* An older version of the program may have left the first blocks.
Init ==
    /\ \E n \in 0 .. MaxIndex + 1 :
         \A i \in Indices : Written(i) <=> i < n
    /\ tip = -1
    /\ durable = -1
    /\ open = TRUE

\* A new block, never in the place of another, and only on a block that is
\* final.
Write(i) ==
    /\ ~Written(i)
    /\ i <= tip + 1
    /\ blocks'[i] # NoBlock
    /\ blocks' = [blocks EXCEPT ![i] = blocks'[i]]
    /\ UNCHANGED <<tip, durable, open>>

\* The next block is final; what was known before becomes durable.
Advance ==
    /\ tip + 1 \in Indices
    /\ Written(tip + 1)
    /\ tip' = tip + 1
    /\ durable' = tip
    /\ UNCHANGED <<blocks, open>>

\* A restart: no block is lost, and what is known is what was durable.
Recover ==
    /\ tip' = durable
    /\ UNCHANGED <<blocks, durable, open>>

\* The rotation marks the epoch as finished.
Close ==
    /\ open' = FALSE
    /\ UNCHANGED <<blocks, tip, durable>>

\* In a finished epoch the chain may begin again; its finish is for ever.
AfterClose == ~open /\ ~open'

Next ==
    \/ /\ open
       /\ \/ \E i \in Indices : Write(i)
          \/ Advance
          \/ Recover
          \/ Close
    \/ AfterClose

Spec == Init /\ [][Next]_epochVars
=============================================================================
