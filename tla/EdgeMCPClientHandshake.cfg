\* One task that may call any facade method in any order: does a request
\* other than the handshake reach the socket before initialize() returned?
CONSTANTS
    Callers = {c1}
    NoCaller = NoCaller
    MaxId = 3
    MaxEpoch = 1
    MaxNotify = 0
    CalledOps = {"initialize", "tools/list"}
SPECIFICATION Spec
PROPERTIES
    HandshakeBeforeUse
