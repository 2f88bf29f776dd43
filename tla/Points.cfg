SPECIFICATION Spec
CONSTANTS
    Agents = {a1}
    Contributions = {c1, c2}
    Requests = {q1, q2}
    Claims <- ClaimsChecked
    Actions <- ActionsChecked
    NoAgent = NoAgent
    NoContribution = NoContribution
    NoRequest = NoRequest
    MaxSoul = 1
SYMMETRY Symmetry
INVARIANTS
    TypeOK LedgerBalances
PROPERTIES
    PenaltyStays
CHECK_DEADLOCK FALSE
