\* Three anchors, one crash, one failed write; a hash is left over for a block
\* that a restart would make the creator generate again.
SPECIFICATION Spec
CONSTANTS
    Quorum = {c, v1, v2}
    Creator = c
    Hashes = {h0, h1, h2}
    ZeroHash = ZeroHash
    EmptyHash = EmptyHash
    MaxIndex = 1
    MaxHandlers = 2
    MaxRestarts = 1
    MaxStoreFaults = 1
    HealthCheckers = {}
    Live = {}
SYMMETRY Symmetry
INVARIANTS
    IInv
    ChainLinked
    RoundsCanSucceed
    VotersAcceptResends
    CacheCertifiesHuntedBlock
    ServedBlockIsApproved
PROPERTIES
    OnlyALostGrabberSticks
    ImplementsEpochChain
    ImplementsFinalizedChain
CHECK_DEADLOCK FALSE
