SPECIFICATION FairSpec
CONSTANTS
    a = a
    b = b
    one = one
    both = both
    Quorum = {a, b}
    Epochs = {one, both}
    MajorityOf <- MCMajorityOf
    LiveIn <- MCLiveIn
    RepeatedIn <- MCRepeatedIn
INVARIANTS
    RoundsReturnMajorities

    
    
    
