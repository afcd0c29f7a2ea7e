SPECIFICATION Spec
CONSTANTS
    Devices = {dev}
    Datas = {d1, d2, d3}
    Volumes = {v}
    Samplers = {}
    Contexts = {}
    Observers = {}
    ParamNames = {"data", "background"}
    MaxItems = 2
    MaxLeaks = 1
    HandleArrayFlags = {"DEFAULT"}
    NoObj = NoObj
SYMMETRY DataSymmetry
CHECK_DEADLOCK FALSE
INVARIANTS
    TypeOK
    CountsAreExact
    NoDanglingReference
    DeviceOutlivesObjects
    ArrayElementsAreAlive
    NoUseAfterFree
    NoOrphan
