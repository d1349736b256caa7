\* main() with one server notification: does get_context read the update?
CONSTANTS
    Callers = {m}
    Main = m
    NoCaller = NoCaller
    MaxId = 7
    MaxEpoch = 1
    MaxNotify = 1
    CalledOps = {"initialize", "tools/list", "tools/call", "tools/batch", "context.get", "context.update"}
SPECIFICATION MainSpec
INVARIANT
    ContextReadsOwnWrite
