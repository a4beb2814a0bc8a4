CONSTANTS
    Kinds = {"audio", "video"}
    Half = 3
    N = 2
    TsHalf = 6
    Duration = 1
    Ids = {0, 1, 2, 3, 4, 5}
    LeadTs <- MCLeadTs
    MinorTs <- MCMinorTs
    WaitTime = 1
SPECIFICATION FairSpec
INVARIANTS
    TypeOK
    FramesExact
PROPERTIES
    MixedInStep
    MissesOnlyAcrossWrap
    MixGoesAhead
CHECK_DEADLOCK FALSE
