CONSTANTS
    Kinds = {"audio", "video"}
    Half = 4
    N = 2
    Peers = {p1}
    Ids = {7, 0, 1, 2}
    Keys = {7, 1}
    IdleTime = 0
    WaitTime = 1
SPECIFICATION FairSpec
INVARIANTS
    TypeOK
    FramesExact
    PFramesFollow
PROPERTY FramesLeave
