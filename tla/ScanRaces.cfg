SPECIFICATION Spec
CONSTANTS
    Agents = {a1, a2}
    NoAgent = NoAgent
    Requests = {q1, q2}
    Worker = Worker
    NoHolder = NoHolder
    BatchSize = 2
    MaxJobs = 1
    MaxFailures = 1
INVARIANTS
    TypeOK ScoredOnce SuccessHasWork AwardedOnlyToClaimants
PROPERTIES
    NeverRequeued
CHECK_DEADLOCK FALSE
