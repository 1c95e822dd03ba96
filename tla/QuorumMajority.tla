--------------------------- MODULE QuorumMajority ---------------------------
(***************************************************************************)
(* The vote threshold of an epoch: utils.GetQuorumMajority, shared by the  *)
(* finalization of blocks (websocket_pack, threads) and by the rotation of *)
(* anchors (threads/anchor_rotation_collector.go, http_pack/routes).       *)
(* GetCurrentEpochQuorum copies the whole anchors registry, so the quorum  *)
(* of an epoch is simply a finite set of anchors.                          *)
(***************************************************************************)
EXTENDS Integers, FiniteSets

(***************************************************************************)
(* The threshold for a quorum of n members: two thirds of them rounded     *)
(* down, plus one, capped by n (the cap only matters for n = 0).           *)
(***************************************************************************)
MajorityOf(n) ==
    LET twoThirdsPlusOne == (2 * n) \div 3 + 1
    IN  IF twoThirdsPlusOne > n THEN n ELSE twoThirdsPlusOne

GetQuorumMajority(quorum) == MajorityOf(Cardinality(quorum))
=============================================================================
