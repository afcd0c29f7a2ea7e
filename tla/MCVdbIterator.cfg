SPECIFICATION IteratorSpec

CONSTANTS
    Axes = {1, 2}
    NumLevels = 3
    StorageRes <- TwoPerLevel
    Inputs <- SmallInputs
    Rays <- SmallRays
    VoxelWidth = 4
    Inf = 999

INVARIANTS
    TypeOK
    NodesFitTheCapacity
    AcceptsExactlyDisjointLeaves
    TraversalFindsTheLeaf
    LeafRangesCoverFilter
    InnerNodesCoverLeaves
    DdaIsConsistent
    ReportedRangeCoversInterval

PROPERTIES
    ImplementsIteration
