\* Two anchors, either of which may crash; a
\* hash is left over for a block that is generated again.
SPECIFICATION FairSpec
CONSTANTS
    Quorum = {c, v1}
    Creator = c
    Hashes = {h0, h1, h2}
    ZeroHash = ZeroHash
    EmptyHash = EmptyHash
    MaxIndex = 1
    MaxHandlers = 1
    MaxRestarts = 1
    MaxStoreFaults = 0
    HealthCheckers = {}
    Live = {c, v1}
PROPERTIES
    GeneratedIsFinalized
CHECK_DEADLOCK FALSE
