-------------------------- MODULE MCProofsMempool --------------------------
(***************************************************************************)
(* One creator, with one rotation proof and finalization proofs for two    *)
(* indices, which disagree on the hash at the second (the route checks no  *)
(* signatures of theirs).  Of the lists of requests one has an older proof *)
(* behind a newer one, and one a proof behind a malformed one.             *)
(***************************************************************************)
EXTENDS ProofsMempool

CONSTANTS creator, h0, h1, h2

Rotation(i, h) ==
    [slot |-> [kind |-> "AARP", creator |-> creator], index |-> i, hash |-> h]
Finalization(i, h) ==
    [slot |-> [kind |-> "ALFP", creator |-> creator], index |-> i, hash |-> h]

MCProof ==
    {Rotation(1, h1), Finalization(0, h0), Finalization(1, h1),
     Finalization(1, h2)}

MCRequests ==
    {<<Rotation(1, h1)>>,
     <<Finalization(1, h1), Malformed>>,
     <<Finalization(1, h2), Finalization(0, h0)>>}
=============================================================================
