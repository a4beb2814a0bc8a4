CONSTANTS
    Half = 4
    N = 3
SPECIFICATION Spec
INVARIANT InsertNeverFails
\* a failed assertion ends the process
CHECK_DEADLOCK FALSE
