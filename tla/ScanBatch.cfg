SPECIFICATION Spec
CONSTANTS
    Agents = {a1, a2}
    NoAgent = NoAgent
    Requests = {q1}
    Worker = Worker
    NoHolder = NoHolder
    BatchSize = 2
    MaxJobs = 2
    MaxFailures = 1
INVARIANT RepeatsOnlyLostBatches
PROPERTY EveryJobTaken
CHECK_DEADLOCK FALSE
