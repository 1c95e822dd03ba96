\* Four anchors, of which a majority leaves one out, and that one may stop
\* voting at any time.
SPECIFICATION FairSpec
CONSTANTS
    Quorum = {c, v1, v2, v3}
    Creator = c
    Hashes = {h0, h1}
    ZeroHash = ZeroHash
    EmptyHash = EmptyHash
    MaxIndex = 1
    MaxHandlers = 1
    MaxRestarts = 0
    MaxStoreFaults = 0
    HealthCheckers = {}
    Live = {c, v1, v2}
INVARIANTS
    FinalizationAgrees
    VotesFollowFinalization
    FinalizedIsReplicated
PROPERTIES
    GeneratedIsFinalized
CHECK_DEADLOCK FALSE
