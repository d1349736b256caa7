\* main() against a server that answers in any order, with errors and a
\* dropped connection, and sends no notification.
CONSTANTS
    Callers = {m}
    Main = m
    NoCaller = NoCaller
    MaxId = 7
    MaxEpoch = 1
    MaxNotify = 0
    CalledOps = {"initialize", "tools/list", "tools/call", "tools/batch", "context.get", "context.update"}
SPECIFICATION MainSpec
INVARIANTS
    ContextReadsOwnWrite
