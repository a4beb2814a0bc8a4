CONSTANTS
    Kinds = {"audio"}
    Half = 3
    N = 1
    Peers = {p1, p2}
    Ids = {1, 3}
    Keys = {1, 3}
    IdleTime = 0
    WaitTime = 1
SPECIFICATION FairSpec
PROPERTY FramesLeave
