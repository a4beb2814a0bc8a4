CONSTANTS
    Ids = {a, b}
    Places = {p1, p2, p3}
    MaxRoom = 1
    Timeout = 1
    Period = 1
    Lease = 2
    MaxStrays = 1
    MaxRefused = 1
    MaxLost = 1
    NoId = NoId
    Missing = Missing
    Stray = Stray
SPECIFICATION FairSpec
INVARIANTS
    TypeOK
    RoomsCounted
    HeardInTime
PROPERTIES
    SplitOnlyByStray
    TimedOutEnds
