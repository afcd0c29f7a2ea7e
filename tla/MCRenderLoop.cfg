SPECIFICATION Spec
CONSTANTS
    Blocks = {b1, b2}
    Sizes = {1, 2}
    MaxInputs = 2
    Torn = Torn
    Uninitialized = Uninitialized
INVARIANTS
    TypeOK
    WorkersAreStopped
    RendersWithItsContext
    SamplesOfOnePicture
PROPERTIES
    EditsAreRendered
    StopReturns
