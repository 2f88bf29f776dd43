SPECIFICATION Spec
CONSTANTS
    Requests = {q1, q2}
    Operations <- OperationsChecked
    Names = {"scout"}
    Pages = {p1}
    PageLimit = 2
    MaxRows = 2
    MaxSent = 3
    MaxReady = 1
    MaxFaults = 1
SYMMETRY Symmetry
INVARIANTS
    TypeOK LiveSeesHistory PostsFollowTheBus OneJoinPerName
CHECK_DEADLOCK FALSE
