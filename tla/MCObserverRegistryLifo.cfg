SPECIFICATION Spec
CONSTANTS
    Buffers = {b1, b2, b3, b4}
    Garbage = Garbage
    LastFirst = TRUE
CHECK_DEADLOCK FALSE
INVARIANTS
    TypeOK
    ListsTheObservers
PROPERTIES
    ObservesLiveBuffersOnly
