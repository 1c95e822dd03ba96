-------------------------- MODULE MCAnchorRotation --------------------------
(***************************************************************************)
(* AnchorRotation for TLC: collectors are interchangeable, and so are the  *)
(* other anchors, where there is symmetry.  At the start all anchors have  *)
(* voted for blocks 0..Voted-1, and some of them for block Voted too.      *)
(***************************************************************************)
EXTENDS AnchorRotation, TLC

CONSTANTS
    Voted,   \* how many blocks have been voted for
    Ahead    \* the anchors that have voted for one more

MCVotersAtStart ==
    [i \in Indices |-> CASE i < Voted -> Quorum
                         [] i = Voted -> Ahead
                         [] OTHER     -> {}]

\* Who has voted for block i has the stat of the block before it.
StatBehind(i) == IF i < 0 THEN -1 ELSE i - 1

MCStatAtStart ==
    [n \in Quorum |-> StatBehind(IF n \in Ahead THEN Voted ELSE Voted - 1)]

Symmetry ==
    Permutations(Collectors) \cup Permutations(Quorum \ Collectors)
=============================================================================
