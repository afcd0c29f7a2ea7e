SPECIFICATION Spec

CONSTANTS
    Devices = {dev}
    Datas = {d1}
    Volumes = {v}
    Samplers = {s, s2}
    Contexts = {c}
    Observers = {o}
    ParamNames = {"data", "background"}
    MaxItems = 1
    MaxLeaks = 0
    HandleArrayFlags = {"DEFAULT"}
    NoObj = NoObj

CHECK_DEADLOCK FALSE

PROPERTIES
    ReleasedObjectsAreDeleted
