SPECIFICATION Spec

CONSTANTS
    Volumes <- SmallVolumes
    Iterators <- SomeIterators
    CELL_WIDTH = 2
    BRICK_WIDTH = 2
    NaN = NaN
    Inf = 20

INVARIANTS
    TypeOK
    ReportedRangeCoversInterval

PROPERTIES
    ImplementsIteration
    ImplementsHitIteration
