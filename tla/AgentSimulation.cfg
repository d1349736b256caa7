\* The harness against every server build (routes) and every answer.
CONSTANTS
    ServerIds = {s1, s2}
    DefaultId = DefaultId
    MockId = MockId
    NoContext = NoContext
SPECIFICATION Spec
INVARIANTS
    TypeOK
    NoEmbeddingsLeftOnSuccess
