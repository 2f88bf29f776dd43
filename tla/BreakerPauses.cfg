SPECIFICATION Spec
CONSTANTS
    Tokens = {t1}
    Traders = {x1, x2, x3, x4, x5}
    Active = {x1, x2}
    Workers = {w1, w2}
    Requests = {q1, q2}
    Amounts = {1}
    Prices <- PricesChecked
    History <- HistoryChecked
    Times = {0, 10, 15}
    MaxTrades = 6
    NoWorker = NoWorker
SYMMETRY Symmetry
PROPERTIES
    TradingIsPaused
CHECK_DEADLOCK FALSE
