CONSTANTS
    Slots = {s1, s2, s3, s4}
    Threads = {owner, mixer, session}
    Owner = owner
    N = 2
    Reserved = 2
    MaxRef = 2
    NoThread = NoThread
    NoSlot = NoSlot
SPECIFICATION FairSpec
INVARIANTS
    TypeOK
    SlotsPlaced
    AssertsHold
PROPERTIES
    BacklogLeaves
    ImplementsPool
