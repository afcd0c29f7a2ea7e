SPECIFICATION Spec
CONSTANTS
    Buffers = {b1, b2}
    Garbage = Garbage
    LastFirst = FALSE
CHECK_DEADLOCK FALSE
INVARIANTS
    ListsTheObservers
