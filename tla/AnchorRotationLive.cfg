SPECIFICATION FairSpec
CONSTANTS
    Quorum = {a, b, c, d}
    Collectors = {a, b}
    Voted = 2
    VotersAtStart <- MCVotersAtStart
    StatAtStart <- MCStatAtStart
    Ahead = {c}
    Stalled = {b, c, d}
    MaxIndex = 2
    MaxHandlers = 0
    MaxRestarts = 0
INVARIANTS
    ProofsAreGenuine
PROPERTIES
    PassesEnd
    RotationCompletes
CHECK_DEADLOCK FALSE
