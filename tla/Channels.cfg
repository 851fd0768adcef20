SPECIFICATION MCFairSpec
CONSTANTS
    Parts = {"rpc", "radio"}
    Callers = {a, b, c}
    GATE_WAITERS = 1
    MAX_CALLS = 2
    Narrow = 4
    Wide = 6
    TXN = 1
    RXN = 1
    Payloads <- SomePayloads
    Requests <- SomeRequests
    MAX_REQUESTS = 1
    MAX_FAULTS = 1
INVARIANTS SeamSafe RadioSafe
PROPERTIES EveryCallEnds RequestsServed
CHECK_DEADLOCK FALSE
