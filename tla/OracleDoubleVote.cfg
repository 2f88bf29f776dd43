SPECIFICATION Spec
CONSTANTS
    Agents = {a1, a2, a3, a4}
    Events = {e1}
    Requests = {q1}
    NoAgent = NoAgent
    NoEvent = NoEvent
    NoRequest = NoRequest
    MaxCasts = 2
INVARIANT OneBallotPerAgent
CHECK_DEADLOCK FALSE
