SPECIFICATION Spec
CONSTANTS
    Agents = {a1, a2, a3, a4}
    Events = {e1}
    Requests = {q1, q2, q3}
    NoAgent = NoAgent
    NoEvent = NoEvent
    NoRequest = NoRequest
    MaxCasts = 2
SYMMETRY Symmetry
INVARIANTS
    TypeOK ConfirmedByDistinctAgents ConfirmedIsValued
PROPERTIES
    NeverReopened
CHECK_DEADLOCK FALSE
