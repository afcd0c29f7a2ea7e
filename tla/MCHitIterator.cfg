SPECIFICATION Spec

CONSTANTS
    Rays <- SmallRays
    Horizon = 40
    NaN = NaN
    BISECT_MAX_BACKTRACK_ITERS = 2
    maxIter = 10
    Inf = 999

INVARIANTS
    TypeOK
    HitsAreOnSurfaces
    HitsInOrder

PROPERTIES
    ImplementsHitIteration
    ImplementsIteration
