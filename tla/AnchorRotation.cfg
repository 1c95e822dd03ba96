SPECIFICATION Spec
CONSTANTS
    Quorum = {a, b, c, d}
    Collectors = {a}
    Voted = 2
    VotersAtStart <- MCVotersAtStart
    StatAtStart <- MCStatAtStart
    Ahead = {}
    Stalled = {a}
    MaxIndex = 3
    MaxHandlers = 1
    MaxRestarts = 1
SYMMETRY Symmetry
INVARIANTS
    IInv
    StatsAreFinal
    RotationIsRecent
PROPERTIES
    ImplementsChainVotes
    VotesFreeze
CHECK_DEADLOCK FALSE
