\* Two handlers of one voter at once: the comment on GetMutex.
SPECIFICATION Spec
CONSTANTS
    Quorum = {c, v1}
    Creator = c
    Hashes = {h0, h1}
    ZeroHash = ZeroHash
    EmptyHash = EmptyHash
    MaxIndex = 1
    MaxHandlers = 2
    MaxRestarts = 0
    MaxStoreFaults = 0
    HealthCheckers = {}
    Live = {}
SYMMETRY Symmetry
PROPERTIES
    VotesSerialized
CHECK_DEADLOCK FALSE
