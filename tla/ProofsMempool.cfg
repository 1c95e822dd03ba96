SPECIFICATION FairSpec
CONSTANTS
    creator = creator
    h0 = h0
    h1 = h1
    h2 = h2
    Malformed = Malformed
    Creators = {creator}
    Proof <- MCProof
    Requests <- MCRequests
    Handlers = {r1, r2}
INVARIANTS
    AcceptedAreKept
PROPERTIES
    OnlyCrashesLoseProofs
    AcceptedGetIntoBlocks
