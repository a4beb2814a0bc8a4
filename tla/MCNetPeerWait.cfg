CONSTANTS
    Kinds = {"audio"}
    Half = 4
    N = 2
    Peers = {p1}
    Ids = {1, 2, 3}
    Keys = {1}
    IdleTime = 0
    WaitTime = 1
SPECIFICATION Spec
PROPERTY WaitsForNext
