\* Two tasks sharing one client over one socket, one server notification.
CONSTANTS
    Callers = {c1, c2}
    NoCaller = NoCaller
    MaxId = 3
    MaxEpoch = 1
    MaxNotify = 1
    CalledOps = {"initialize", "tools/batch"}
SPECIFICATION Spec
INVARIANTS
    RequestIdsNeverReused
PROPERTIES
    CallsReturn
