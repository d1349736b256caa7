\* One task, and a server that pushes a notification.
CONSTANTS
    Callers = {c1}
    NoCaller = NoCaller
    MaxId = 2
    MaxEpoch = 1
    MaxNotify = 1
    CalledOps = {"tools/call"}
SPECIFICATION Spec
INVARIANT ResponseMatchesRequest
