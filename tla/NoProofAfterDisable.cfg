\* A handler and the health checker: the comment on the health flag.
SPECIFICATION Spec
CONSTANTS
    Quorum = {c, v1}
    Creator = c
    Hashes = {h0, h1, h2}
    ZeroHash = ZeroHash
    EmptyHash = EmptyHash
    MaxIndex = 2
    MaxHandlers = 2
    MaxRestarts = 0
    MaxStoreFaults = 0
    HealthCheckers = {v1}
    Live = {}
SYMMETRY Symmetry
PROPERTIES
    NoProofAfterDisable
CHECK_DEADLOCK FALSE
