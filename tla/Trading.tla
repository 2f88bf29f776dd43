------------------------------- MODULE Trading -------------------------------
(***************************************************************************)
(* Buying and selling soul tokens, and the risk engine that pauses it.     *)
(* routers/v1/trading.py records a trade and commits it, then              *)
(* services/risk_engine.py looks at the recent trades of the token; a      *)
(* critical alert sets a circuit breaker for 15 minutes.                   *)
(*                                                                         *)
(* The API runs in several worker processes (deploy/Dockerfile.backend)    *)
(* and the breakers are a dictionary in each of them.  A worker is one     *)
(* event loop: a request is cut at its awaits, which are its queries.      *)
(*                                                                         *)
(* Time is in minutes.  A trade is stamped when it is flushed and seen by  *)
(* others when it is committed.  A token's prices are cached columns that  *)
(* some other program updates: a request may read any.  Amounts of tokens  *)
(* and SOL in a trade are in hundredths, so that the fee of 1% is exact.   *)
(* The rate limiter and the published alerts are in other modules.         *)
(***************************************************************************)
EXTENDS Integers, Sequences, FiniteSets, FiniteSetsExt, Sums

CONSTANTS
    Tokens,
    Traders,            \* wallets
    Active,             \* the wallets that trade
    Workers,            \* processes of the API
    Requests,           \* requests under way at a time
    Amounts,            \* amounts asked for: SOL to buy with, tokens to sell
    Prices,             \* the values [sol, usd] of the cached prices
    History,            \* sequences of trades there may be at the start
    Times,              \* bound: the instants, in minutes, at which something may happen
    MaxTrades,          \* bound: the rows of the trades table
    NoWorker

ASSUME TradingAssumption ==
    /\ IsFiniteSet(Traders) /\ Active \subseteq Traders
    /\ Amounts \subseteq Nat \ {0}
    /\ Prices \subseteq [sol: Nat, usd: Nat]
    /\ Times \subseteq Nat /\ 0 \in Times
    /\ NoWorker \notin Workers

VARIABLES
    now,
    trades,             \* rows of the trades table in the order of created_at
    request,
    breaker,            \* breaker[w][t]: when the pause of t ends in worker w, 0 if none
    checked,            \* history: when each of the checks last read the trades
    warned,             \* history: when a wallet was last reported for wash trading
    lost                \* history: a check failed, or a worker was restarted

vars == <<now, trades, request, breaker, checked, warned, lost>>
history == <<checked, warned, lost>>

CIRCUIT_BREAKER_DURATION == 15
WASH_TRADE_WINDOW == 5
PUMP_DUMP_WINDOW == 60
CLIFF_WINDOW == 10

Trade ==
    [token: Tokens, trader: Traders, side: {"buy", "sell"}, tokens: Nat, sol: Nat,
     price: Nat, at: Nat, state: {"open", "committed", "undone"}]

ASSUME HistoryAssumption ==
    /\ History \subseteq Seq(Trade)
    /\ \A h \in History : \A i \in DOMAIN h : h[i].at = 0

\* phase: idle; flushed; then the next check to run.
Request ==
    [phase: {"idle", "flushed", "wash", "pump", "cliff"}, worker: Workers \cup {NoWorker},
     trade: Nat, pump: BOOLEAN]

Idle == [phase |-> "idle", worker |-> NoWorker, trade |-> 0, pump |-> FALSE]
MyTrade(q) == trades[request[q].trade]

Checks == ({"wash"} \X Tokens \X Traders) \cup ({"pump", "cliff"} \X Tokens)

\* Plausible slips in the operators below, for the mutation runs.
SeenWithoutOwn(q) ==
    {i \in DOMAIN trades : trades[i].state = "committed" /\ trades[i].token = MyTrade(q).token
                              /\ i # request[q].trade}
PurgedAsIfStarts(w, ts) ==
    [breaker EXCEPT ![w] = [t \in Tokens |->
        IF t \in ts /\ now + CIRCUIT_BREAKER_DURATION >= @[t] THEN 0 ELSE @[t]]]
CommitTradeForgotten(q) ==
    /\ request[q].phase = "flushed"
    /\ request' = [request EXCEPT ![q].phase = "wash"]
    /\ UNCHANGED <<now, trades, breaker, history>>

-----------------------------------------------------------------------------
(***************************************************************************)
(* The risk checks: pure functions of the rows a query returns, and of the *)
(* time.  Rows are given by their numbers in the table, which are in the   *)
(* order of created_at.                                                    *)
(***************************************************************************)
Since(rows, from) == {i \in rows : trades[i].at >= from}
By(rows, x) == {i \in rows : trades[i].trader = x}
Bought(rows) == {i \in rows : trades[i].side = "buy"}
Sold(rows) == {i \in rows : trades[i].side = "sell"}
First(rows) == trades[Min(rows)]
Latest(rows) == trades[Max(rows)]

\* What the rows add up to, in tokens (counted by units) and in SOL.
TokensOf(rows) == Cardinality(Units([i \in rows |-> trades[i].tokens]))
SolOf(rows) == MapThenSumSet(LAMBDA i : trades[i].sol, rows)

\* A slip in the next operator.
WashTradingBySol(rows, trader) ==
    LET mine == By(Since(rows, now - WASH_TRADE_WINDOW), trader)
        bought == SolOf(Bought(mine))
        sold == SolOf(Sold(mine))
    IN  /\ bought > 0 /\ sold > 0
        /\ 10 * Min({bought, sold}) >= 8 * Max({bought, sold})

\* One wallet sold, within the window, at least 80% of what it bought, or the reverse.
CheckWashTrading(rows, trader) ==
    LET mine == By(Since(rows, now - WASH_TRADE_WINDOW), trader)
        bought == TokensOf(Bought(mine))
        sold == TokensOf(Sold(mine))
    IN  /\ Bought(mine) # {} /\ Sold(mine) # {}
        /\ Max({bought, sold}) > 0
        /\ 10 * Min({bought, sold}) >= 8 * Max({bought, sold})

\* Volume bought by the three wallets that bought most.
TopThree(rows) ==
    LET Volume(ws) == SolOf({i \in Bought(rows) : trades[i].trader \in ws})
    IN  Max({Volume(ws) : ws \in {x \in SUBSET Traders : Cardinality(x) <= 3}})

\* The price rose by 50% from the first to the last trade of the window, and three
\* wallets account for 70% of what was bought.
CheckPumpAndDump(rows) ==
    LET seen == Since(rows, now - PUMP_DUMP_WINDOW)
        volume == SolOf(Bought(seen))
    IN  /\ Cardinality(seen) >= 3
        /\ First(seen).price > 0
        /\ 2 * (Latest(seen).price - First(seen).price) >= First(seen).price
        /\ volume > 0
        /\ 10 * TopThree(seen) >= 7 * volume

\* The price fell by more than 30% from the first to the last trade of the window.
CheckCliffEvent(rows) ==
    LET seen == Since(rows, now - CLIFF_WINDOW)
    IN  /\ Cardinality(seen) >= 2
        /\ First(seen).price > 0
        /\ 10 * (Latest(seen).price - First(seen).price) < -3 * First(seen).price

\* The rows of its token a request's query returns.
Seen(q) ==
    {i \in DOMAIN trades : trades[i].state = "committed" /\ trades[i].token = MyTrade(q).token}

IsCircuitBreakerActive(w, t) == breaker[w][t] # 0 /\ now < breaker[w][t]

\* Reading a worker's breakers removes the expired ones.
Purged(w, ts) ==
    [breaker EXCEPT ![w] = [t \in Tokens |->
        IF t \in ts /\ now >= @[t] THEN 0 ELSE @[t]]]

\* What a buy of an amount of SOL, or a sale of an amount of tokens, is recorded as.
Row(t, x, side, amount, price) ==
    [token |-> t, trader |-> x, side |-> side, price |-> price.sol,
     tokens |-> IF side = "sell" THEN 100 * amount
                ELSE IF price.usd > 0 THEN (99 * amount) \div price.usd ELSE 0,
     sol |-> IF side = "buy" THEN 100 * amount ELSE 99 * amount * price.sol,
     at |-> now, state |-> "open"]

-----------------------------------------------------------------------------
Init ==
    /\ now = 0
    /\ trades \in History
    /\ request = [q \in Requests |-> Idle]
    /\ breaker = [w \in Workers |-> [t \in Tokens |-> 0]]
    /\ checked = [c \in Checks |-> -1]
    /\ warned = [x \in Tokens \X Traders |-> -1]
    /\ lost = FALSE

TimePasses(later) ==
    /\ later > now
    /\ now' = later
    /\ UNCHANGED <<trades, request, breaker, history>>

\* execute_buy, execute_sell: the token was read, at some price; the breaker is tested and,
\* with no await between, the trade is stamped and flushed.  A paused token is answered 423.
FlushTrade(q, w, t, row) ==
    /\ request[q].phase = "idle"
    /\ breaker' = Purged(w, {t})
    /\ IF IsCircuitBreakerActive(w, t)
       THEN UNCHANGED <<trades, request>>
       ELSE /\ Len(trades) < MaxTrades
            /\ trades' = Append(trades, row)
            /\ request' = [request EXCEPT ![q] =
                  [phase |-> "flushed", worker |-> w, trade |-> Len(trades) + 1, pump |-> FALSE]]
    /\ UNCHANGED <<now, history>>

CommitTrade(q) ==
    /\ request[q].phase = "flushed"
    /\ trades' = [trades EXCEPT ![request[q].trade].state = "committed"]
    /\ request' = [request EXCEPT ![q].phase = "wash"]
    /\ UNCHANGED <<now, breaker, history>>

\* The queries of run_risk_checks.  Wash trading is only reported.
CheckWash(q) ==
    LET t == MyTrade(q).token
        x == MyTrade(q).trader
    IN  /\ request[q].phase = "wash"
        /\ request' = [request EXCEPT ![q].phase = "pump"]
        /\ checked' = [checked EXCEPT ![<<"wash", t, x>>] = now]
        /\ warned' = IF CheckWashTrading(Seen(q), x) THEN [warned EXCEPT ![<<t, x>>] = now]
                     ELSE warned
        /\ UNCHANGED <<now, trades, breaker, lost>>

CheckPump(q) ==
    LET t == MyTrade(q).token
    IN  /\ request[q].phase = "pump"
        /\ request' = [request EXCEPT ![q].phase = "cliff", ![q].pump = CheckPumpAndDump(Seen(q))]
        /\ checked' = [checked EXCEPT ![<<"pump", t>>] = now]
        /\ UNCHANGED <<now, trades, breaker, warned, lost>>

\* The last query, and what follows it: a critical alert sets the worker's breaker.
CheckCliff(q) ==
    LET s == request[q]
        t == MyTrade(q).token
    IN  /\ s.phase = "cliff"
        /\ breaker' = IF s.pump \/ CheckCliffEvent(Seen(q))
                      THEN [breaker EXCEPT ![s.worker][t] = now + CIRCUIT_BREAKER_DURATION]
                      ELSE breaker
        /\ request' = [request EXCEPT ![q] = Idle]
        /\ checked' = [checked EXCEPT ![<<"cliff", t>>] = now]
        /\ UNCHANGED <<now, trades, warned, lost>>

Undone(qs) ==
    [i \in DOMAIN trades |->
        IF \E q \in qs : request[q].phase = "flushed" /\ request[q].trade = i
        THEN [trades[i] EXCEPT !.state = "undone"] ELSE trades[i]]

\* The request fails: before its commit it is rolled back; after, a check that raised is
\* logged and the trade stands.
RequestFails(q) ==
    /\ request[q].phase # "idle"
    /\ trades' = Undone({q})
    /\ request' = [request EXCEPT ![q] = Idle]
    /\ lost' = (lost \/ request[q].phase \in {"wash", "pump", "cliff"})
    /\ UNCHANGED <<now, breaker, checked, warned>>

\* get_active_breakers and get_token_risk_summary.
ReadBreakers(w, ts) ==
    /\ breaker' = Purged(w, ts)
    /\ UNCHANGED <<now, trades, request, history>>

\* A worker is restarted: its requests end where they are, and its breakers are gone.
Restart(w) ==
    LET mine == {q \in Requests : request[q].worker = w}
    IN  /\ breaker' = [breaker EXCEPT ![w] = [t \in Tokens |-> 0]]
        /\ trades' = Undone(mine)
        /\ request' = [q \in Requests |-> IF q \in mine THEN Idle ELSE request[q]]
        /\ lost' = TRUE
        /\ UNCHANGED <<now, checked, warned>>

Next ==
    \/ \E later \in Times : TimePasses(later)
    \/ \E q \in Requests, w \in Workers, t \in Tokens, x \in Active, side \in {"buy", "sell"},
          amount \in Amounts, p \in Prices : FlushTrade(q, w, t, Row(t, x, side, amount, p))
    \/ \E q \in Requests :
          CommitTrade(q) \/ CheckWash(q) \/ CheckPump(q) \/ CheckCliff(q) \/ RequestFails(q)
    \/ \E w \in Workers : Restart(w)
    \/ \E w \in Workers, ts \in {Tokens} \cup {{t} : t \in Tokens} : ReadBreakers(w, ts)

Spec == Init /\ [][Next]_vars

-----------------------------------------------------------------------------
\* Types; and a request's row is committed when its checks begin.
TypeOK ==
    /\ now \in Nat
    /\ trades \in Seq(Trade)
    /\ request \in [Requests -> Request]
    /\ breaker \in [Workers -> [Tokens -> Nat]]
    /\ checked \in [Checks -> Int]
    /\ warned \in [Tokens \X Traders -> Int]
    /\ lost \in BOOLEAN
    /\ \A q \in Requests : request[q].phase # "idle" =>
          /\ request[q].trade \in DOMAIN trades
          /\ MyTrade(q).state = IF request[q].phase = "flushed" THEN "open" ELSE "committed"

Committed(t) == {i \in DOMAIN trades : trades[i].state = "committed" /\ trades[i].token = t}
Within(rows, window, at) == {i \in rows : trades[i].at \in (at - window) .. at}
Quiet(t) == \A q \in Requests : request[q].phase # "idle" => MyTrade(q).token # t

\* The reference for a cliff: the price of the last trade is under 70% of the first's.
Fell(rows) ==
    \E first, latest \in rows :
        /\ \A i \in rows : first <= i /\ i <= latest
        /\ 10 * trades[latest].price < 7 * trades[first].price

\* Trades that are committed side by side, each before it is checked, cannot hide a
\* cliff from all of their checks: once no request is under way, what the last check
\* could have seen has paused some worker.
NoCliffMissed ==
    \A t \in Tokens :
        LET at == checked[<<"cliff", t>>]
        IN  Quiet(t) /\ ~lost /\ Fell(Within(Committed(t), CLIFF_WINDOW, at))
                /\ now < at + CIRCUIT_BREAKER_DURATION
            => \E w \in Workers : breaker[w][t] >= at + CIRCUIT_BREAKER_DURATION

\* The reference for wash trading: sold, and bought back within a fifth of it.
Washed(rows) ==
    LET b == TokensOf(Bought(rows))
        s == TokensOf(Sold(rows))
    IN  b > 0 /\ s > 0 /\ 5 * b >= 4 * s /\ 5 * s >= 4 * b

\* Likewise a wallet that has washed its trades has been reported by the last check of
\* its trades.
NoWashMissed ==
    \A t \in Tokens, x \in Traders :
        LET at == checked[<<"wash", t, x>>]
        IN  Quiet(t) /\ ~lost /\ Washed(Within(By(Committed(t), x), WASH_TRADE_WINDOW, at))
            => warned[<<t, x>>] = at

\* A pause is never cut short: neither by other requests of the worker nor by those who
\* read the breakers, only by a restart of the worker.
PauseRunsItsTime ==
    [][\A w \in Workers, t \in Tokens :
         IsCircuitBreakerActive(w, t) /\ breaker'[w][t] < breaker[w][t] => Restart(w)]_vars

\* "Critical risk anomaly -> pause trading": while any worker's breaker is active for a
\* token, nothing of it is traded.
TradingIsPaused ==
    [][\A t \in Tokens :
         (\E w \in Workers : IsCircuitBreakerActive(w, t))
             => \A i \in DOMAIN trades' : trades'[i].token = t => i \in DOMAIN trades]_vars
=============================================================================
