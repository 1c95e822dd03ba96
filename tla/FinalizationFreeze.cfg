\* Two anchors with a health checker each, and four blocks: as many as it
\* takes to disable a creator that has stalled and see it go on.
SPECIFICATION Spec
CONSTANTS
    Quorum = {c, v1}
    Creator = c
    Hashes = {h0, h1, h2, h3}
    ZeroHash = ZeroHash
    EmptyHash = EmptyHash
    MaxIndex = 3
    MaxHandlers = 1
    MaxRestarts = 1
    MaxStoreFaults = 0
    HealthCheckers = {c, v1}
    Live = {}
SYMMETRY Symmetry
INVARIANTS
    HealthJudgesFinalized
PROPERTIES
    DisablingFreezes
    ImplementsChainVotes
CHECK_DEADLOCK FALSE
