\* One task using the client, as main() does: connect, calls, disconnect,
\* server drops, one reconnect.
CONSTANTS
    Callers = {c1}
    NoCaller = NoCaller
    MaxId = 5
    MaxEpoch = 2
    MaxNotify = 0
    CalledOps = {"initialize", "tools/list", "tools/call", "tools/batch", "context.get", "context.update"}
SPECIFICATION Spec
INVARIANTS
    TypeOK
    ResponseMatchesRequest
    RequestIdsNeverReused
PROPERTIES
    CallsReturn
