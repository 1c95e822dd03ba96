SPECIFICATION Spec
CONSTANTS
    MaxEpochsToSupport = 2
    LegacyIndex = 1
    MaxEpoch = 2
    MaxIndex = 0
    MaxRestarts = 1
INVARIANTS
    WindowInv
    WindowIsDurable
CHECK_DEADLOCK FALSE
