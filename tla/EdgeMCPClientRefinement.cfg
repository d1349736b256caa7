\* One task, every facade method, drops and a reconnect: the client refines
\* CorrelatedClient.
CONSTANTS
    Callers = {c1}
    NoCaller = NoCaller
    MaxId = 5
    MaxEpoch = 2
    MaxNotify = 0
    CalledOps = {"initialize", "tools/list", "tools/call", "tools/batch", "context.get", "context.update"}
SPECIFICATION Spec
PROPERTIES
    CorrelatedSpec
