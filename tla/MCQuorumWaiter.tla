-------------------------- MODULE MCQuorumWaiter --------------------------
(***************************************************************************)
(* Two members, two epochs.  Where one answer is enough, a round           *)
(* leaves the other member behind, which may be silent for ever; the first *)
(* member may fail and be asked again before its earlier goroutine ended.  *)
(* Where both answers are needed, a round goes on after the first, and no  *)
(* member may stay disconnected.                                           *)
(***************************************************************************)
EXTENDS QuorumWaiter

CONSTANTS a, b, one, both

MCMajorityOf == [e \in {one, both} |-> IF e = one THEN 1 ELSE 2]
MCLiveIn     == [e \in {one, both} |-> IF e = one THEN {a} ELSE {a, b}]
MCRepeatedIn == [e \in {one, both} |-> IF e = one THEN {a} ELSE {}]
=============================================================================
