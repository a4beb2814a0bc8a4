CONSTANTS
    Assemblers = {a1, a2}
    Frames = {f1}
    QueueRoom = 3
    MaxHeld = 1
SPECIFICATION FairSpec
INVARIANTS
    TypeOK
    OwnersExact
    DecodingTracked
    CommandsFitTable
PROPERTIES
    NoLateCallback
    CallsReturn
    DecodingEnds
\* both sessions may be over
CHECK_DEADLOCK FALSE
