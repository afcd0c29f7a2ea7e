SPECIFICATION Spec

CONSTANTS
    Builds <- SmallBuilds
    Queries <- Values
    Hints <- SomeHints
    MaxLevel = 3
    Inf = 9

INVARIANTS
    TypeOK
    RestartsInsideTheTree
    NodesCoverDeeperCells

PROPERTIES
    ImplementsIteration
    IterationEnds
