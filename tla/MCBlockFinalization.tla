------------------------ MODULE MCBlockFinalization ------------------------
(***************************************************************************)
(* BlockFinalization for TLC: the hashes, and the voters other than the    *)
(* creator and those that run a health checker, are interchangeable.       *)
(***************************************************************************)
EXTENDS BlockFinalizationInvariant, TLC

CONSTANT Live  \* the voters that answer for ever, in the liveness runs

Symmetry ==
    Permutations(Quorum \ ({Creator} \cup HealthCheckers))
        \cup Permutations(Hashes)

\* With the creator and a majority alive.
FairSpec == Spec /\ Fairness(Live)
=============================================================================
