CONSTANTS
    Kinds = {"audio"}
    Made <- AllMade
SPECIFICATION EndFairSpec
INVARIANTS
    EndTypeOK
    SessionOutlivesCallbacks
PROPERTIES
    FailsOnlyWhenStopped
    EndReturns
CHECK_DEADLOCK FALSE
