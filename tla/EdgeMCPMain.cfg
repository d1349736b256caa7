\* main() against a server that answers in any order, with errors, a
\* dropped connection and one notification.
CONSTANTS
    Callers = {m}
    Main = m
    NoCaller = NoCaller
    MaxId = 7
    MaxEpoch = 1
    MaxNotify = 1
    CalledOps = {"initialize", "tools/list", "tools/call", "tools/batch", "context.get", "context.update"}
SPECIFICATION MainSpec
INVARIANTS
    MainTypeOK
PROPERTIES
    MainTerminates
    MainHandshakeBeforeUse
