SPECIFICATION Spec

CONSTANTS
    Builds <- ThreeLeaves
    Queries <- Values
    Hints <- SomeHints
    MaxLevel = 3
    Inf = 9

INVARIANTS
    ReportedRangeCoversInterval
