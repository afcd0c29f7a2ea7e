SPECIFICATION Spec
CONSTANTS
    Devices = {dev}
    Datas = {d1, d2, d3}
    Volumes = {v}
    Samplers = {}
    Contexts = {}
    Observers = {}
    ParamNames = {"data", "background"}
    MaxItems = 2
    MaxLeaks = 0
    HandleArrayFlags = {"SHARED_BUFFER"}
    NoObj = NoObj
SYMMETRY DataSymmetry
CHECK_DEADLOCK FALSE
INVARIANTS
    ArrayElementsAreAlive
