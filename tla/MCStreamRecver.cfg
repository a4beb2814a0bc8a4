CONSTANTS
    Half = 4
    N = 2
    Identities = {i1}
    Streams = {"audio", "live"}
    Ids <- MCIds
    SrcNum <- MCSrcNum
    Segments <- MCSegments
    Overhead = 1
    Timeout = 1
    MaxTick = 2
SPECIFICATION Spec
INVARIANTS
    TypeOK
    RedeliveredOnlyAfterTimeout
    WaitsWhileUndecodable
    DeliversDecodable
    AllocatorsExact
PROPERTIES
    CollectsAsPromised
\* nothing happens after the destructor
CHECK_DEADLOCK FALSE
