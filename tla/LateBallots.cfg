SPECIFICATION Spec
CONSTANTS
    Wallets = {adm, a1, a2, a3, a4}
    Agents = {a1, a2, a3, a4}
    Programs = {p1}
    NoWallet = NoWallet
    ScoreInputs = {}
    NameLens = {}
    UriLens = {}
    MaxReports = 1
    MaxScores = 0
SYMMETRY Symmetry
INVARIANT RejectedWhenImpossible
CHECK_DEADLOCK FALSE
