\* Two tasks each calling call_tool: does each get its own reply?
CONSTANTS
    Callers = {c1, c2}
    NoCaller = NoCaller
    MaxId = 2
    MaxEpoch = 1
    MaxNotify = 0
    CalledOps = {"tools/call"}
SPECIFICATION Spec
INVARIANT ResponseMatchesRequest
