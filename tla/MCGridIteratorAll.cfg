SPECIFICATION Spec

CONSTANTS
    Volumes <- SmallVolumes
    Iterators <- EveryIterator
    CELL_WIDTH = 2
    BRICK_WIDTH = 2
    NaN = NaN
    Inf = 20

INVARIANTS
    HitsInOrder
