SPECIFICATION Spec
CONSTANTS
    Wallets = {adm, a1, a2, a3, a4, a5}
    Agents = {a1, a2, a3, a4, a5}
    Programs = {p1, p2}
    NoWallet = NoWallet
    ScoreInputs = {100, 101}
    NameLens = {64}
    UriLens = {0, 200}
    MaxReports = 1
    MaxScores = 2
SYMMETRY Symmetry
INVARIANTS
    TypeOK VotesMatchCounters OutcomeFollowsCounters AcceptedBySupermajority
    RejectedOnlyWhenHopeless EveryoneVotedDecides PointsMatchWork TotalsAgree
PROPERTIES
    DecisionIsFinal ImplementsConsensus
CHECK_DEADLOCK FALSE
