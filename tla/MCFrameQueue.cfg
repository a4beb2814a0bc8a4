CONSTANTS
    Half = 4
    N = 3
SPECIFICATION Spec
INVARIANTS
    TypeOK
    RingShape
PROPERTIES
    OnlyHalfTurnFails
    ImplementsWindow
\* a failed assertion ends the process
CHECK_DEADLOCK FALSE
