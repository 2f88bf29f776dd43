SPECIFICATION Spec
CONSTANTS
    Workers = {w1, w2}
    Clients = {c1}
    Endpoints = {"register", "heartbeat"}
    MaxRequests <- LimitsChecked
    Window = 2
    Second = 2
    InFlight = {q1, q2}
    NoCall = NoCall
    MaxTime = 5
    MaxVerdicts = 3
SYMMETRY Symmetry
INVARIANTS
    TypeOK WithinLimit RefusedWasCounted
CHECK_DEADLOCK FALSE
