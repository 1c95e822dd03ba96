SPECIFICATION FairSpec
CONSTANTS
    MaxEpochsToSupport = 1
    LegacyIndex = 0
    MaxEpoch = 1
    MaxIndex = 1
    MaxRestarts = 1
INVARIANTS
    OnlyFinishedRewritten
    NoProofAfterFinish
    GenerationIntact
PROPERTIES
    ImplementsEpochChain
    FinishedEpochsLeave
    LastEpochCompletes
CHECK_DEADLOCK FALSE
