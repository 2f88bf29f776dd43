---------------------------- MODULE Trading_proofs ----------------------------
(***************************************************************************)
(* Proofs about trading and its circuit breakers.  Types and pauses hold   *)
(* whatever the risk checks answer; then what the checks for a cliff and   *)
(* for wash trading answer, and why trades side by side escape neither.    *)
(***************************************************************************)
EXTENDS Trading, FiniteSetTheorems, TLAPS

\* Each request has a row of the trades table to itself, and a worker that serves it.
OwnTrades ==
    \A q \in Requests : request[q].phase # "idle" =>
        /\ request[q].worker \in Workers
        /\ \A p \in Requests \ {q} : request[p].phase # "idle" => request[p].trade # request[q].trade

TInv == TypeOK /\ OwnTrades

\* A breaker is set from the time of its alert: it never lasts longer than its duration.
PausesBounded ==
    \A w \in Workers, t \in Tokens : breaker[w][t] <= now + CIRCUIT_BREAKER_DURATION

-----------------------------------------------------------------------------
(***************************************************************************)
(* Operators.                                                              *)
(***************************************************************************)
LEMMA IdleRequest == Idle \in Request /\ Idle.phase = "idle"
BY DEF Idle, Request

LEMMA Settled ==
    ASSUME NEW r \in Trade, NEW s \in {"committed", "undone"}
    PROVE  /\ [r EXCEPT !.state = s] \in Trade /\ [r EXCEPT !.state = s].state = s
BY DEF Trade

LEMMA Quotient ==
    ASSUME NEW a \in Nat, NEW b \in Nat, b > 0
    PROVE  a \div b \in Nat
OBVIOUS

LEMMA Product ==
    ASSUME NEW a \in Nat, NEW b \in Nat
    PROVE  a * b \in Nat
OBVIOUS

LEMMA NewTrade ==
    ASSUME now \in Nat, NEW t \in Tokens, NEW x \in Active, NEW side \in {"buy", "sell"},
           NEW amount \in Amounts, NEW price \in Prices, NEW r, r = Row(t, x, side, amount, price)
    PROVE  r \in Trade /\ r.state = "open"
<1>1. /\ amount \in Nat /\ price.sol \in Nat /\ price.usd \in Nat /\ x \in Traders
  BY TradingAssumption
<1>2. 99 * amount \in Nat /\ 100 * amount \in Nat
  BY <1>1
<1>3. 99 * amount * price.sol \in Nat
  BY <1>1, <1>2, Product
<1>4. price.usd > 0 => (99 * amount) \div price.usd \in Nat
  BY <1>1, <1>2, Quotient
<1> PICK tokens \in Nat : tokens = (IF side = "sell" THEN 100 * amount
                                    ELSE IF price.usd > 0 THEN (99 * amount) \div price.usd ELSE 0)
  BY <1>2, <1>4
<1> PICK sol \in Nat : sol = (IF side = "buy" THEN 100 * amount ELSE 99 * amount * price.sol)
  BY <1>2, <1>3
<1>5. r = [token |-> t, trader |-> x, side |-> side, price |-> price.sol, tokens |-> tokens,
           sol |-> sol, at |-> now, state |-> "open"]
  BY DEF Row
<1> QED
  BY <1>1, <1>5 DEF Trade

LEMMA PurgedTypes ==
    ASSUME TypeOK, NEW w \in Workers, NEW ts
    PROVE  /\ Purged(w, ts) \in [Workers -> [Tokens -> Nat]]
           /\ \A v \in Workers, t \in Tokens :
                 Purged(w, ts)[v][t] = breaker[v][t]
                   \/ (Purged(w, ts)[v][t] = 0 /\ now >= breaker[v][t])
<1> DEFINE kept == [t \in Tokens |-> IF t \in ts /\ now >= breaker[w][t] THEN 0 ELSE breaker[w][t]]
<1>1. kept \in [Tokens -> Nat]
  BY DEF TypeOK
<1>2. \A t \in Tokens : kept[t] = breaker[w][t] \/ (kept[t] = 0 /\ now >= breaker[w][t])
  OBVIOUS
<1>3. Purged(w, ts) = [breaker EXCEPT ![w] = kept]
  BY DEF Purged
<1> HIDE DEF kept
<1> QED
  BY <1>1, <1>2, <1>3 DEF TypeOK

LEMMA OnePause ==
    ASSUME TypeOK, NEW u \in Workers, NEW k, NEW end \in Nat,
           breaker' = [breaker EXCEPT ![u][k] = end]
    PROVE  /\ breaker' \in [Workers -> [Tokens -> Nat]]
           /\ \A w \in Workers, t \in Tokens : breaker'[w][t] \in {breaker[w][t], end}
<1> PICK row : row = [breaker[u] EXCEPT ![k] = end]
  OBVIOUS
<1>1. breaker' = [breaker EXCEPT ![u] = row] /\ breaker[u] \in [Tokens -> Nat]
  BY DEF TypeOK
<1>2. row \in [Tokens -> Nat] /\ \A t \in Tokens : row[t] \in {breaker[u][t], end}
  BY <1>1
<1> QED
  BY <1>1, <1>2 DEF TypeOK

LEMMA UndoneTrades ==
    ASSUME TypeOK, NEW qs, NEW new, new = Undone(qs)
    PROVE  /\ new \in Seq(Trade) /\ DOMAIN new = DOMAIN trades
           /\ \A i \in DOMAIN trades :
                 \/ new[i] = trades[i]
                 \/ \E q \in qs : request[q].phase = "flushed" /\ request[q].trade = i
<1> DEFINE row(i) == IF \E q \in qs : request[q].phase = "flushed" /\ request[q].trade = i
                     THEN [trades[i] EXCEPT !.state = "undone"] ELSE trades[i]
<1>1. ASSUME NEW i \in DOMAIN trades PROVE row(i) \in Trade
  <2>1. trades[i] \in Trade
    BY DEF TypeOK
  <2> QED
    BY <2>1, Settled
<1>2. new = [i \in DOMAIN trades |-> row(i)]
  BY DEF Undone
<1>3. \A i \in DOMAIN trades :
         \/ row(i) = trades[i]
         \/ \E q \in qs : request[q].phase = "flushed" /\ request[q].trade = i
  OBVIOUS
<1>4. DOMAIN trades = 1 .. Len(trades) /\ Len(trades) \in Nat
  BY DEF TypeOK
<1> HIDE DEF row
<1> QED
  BY <1>1, <1>2, <1>3, <1>4

LEMMA PumpIsBoolean == \A rows : CheckPumpAndDump(rows) \in BOOLEAN
BY DEF CheckPumpAndDump

-----------------------------------------------------------------------------
(***************************************************************************)
(* Types.                                                                  *)
(***************************************************************************)
\* What a step of one request must keep: its own row, as its phase says.
Kept(q) ==
    request[q].phase # "idle" =>
        /\ request[q].worker \in Workers /\ request[q].trade \in DOMAIN trades
        /\ MyTrade(q).state = IF request[q].phase = "flushed" THEN "open" ELSE "committed"

Apart ==
    \A q \in Requests : \A p \in Requests \ {q} :
        request[q].phase # "idle" /\ request[p].phase # "idle" => request[p].trade # request[q].trade

Typed ==
    /\ now \in Nat /\ trades \in Seq(Trade) /\ request \in [Requests -> Request]
    /\ breaker \in [Workers -> [Tokens -> Nat]] /\ checked \in [Checks -> Int]
    /\ warned \in [Tokens \X Traders -> Int] /\ lost \in BOOLEAN

LEMMA Parts == TInv <=> Typed /\ Apart /\ \A q \in Requests : Kept(q)
<1>1. TInv => Typed /\ Apart /\ \A q \in Requests : Kept(q)
  BY DEF TInv, TypeOK, OwnTrades, Typed, Apart, Kept
<1>2. Typed /\ Apart /\ (\A q \in Requests : Kept(q)) => TInv
  BY DEF TInv, TypeOK, OwnTrades, Typed, Apart, Kept
<1> QED
  BY <1>1, <1>2

LEMMA InitTypes == Init => TInv
<1> SUFFICES ASSUME Init PROVE Typed /\ Apart /\ \A q \in Requests : Kept(q)
  BY Parts
<1>1. trades \in Seq(Trade)
  BY HistoryAssumption DEF Init
<1>2. \A q \in Requests : request[q].phase = "idle"
  BY IdleRequest DEF Init
<1>3. request \in [Requests -> Request] /\ breaker \in [Workers -> [Tokens -> Nat]]
  BY IdleRequest DEF Init
<1>4. checked \in [Checks -> Int] /\ warned \in [Tokens \X Traders -> Int]
  <2>1. -1 \in Int
    OBVIOUS
  <2> QED
    BY <2>1 DEF Init
<1>5. Typed
  BY <1>1, <1>3, <1>4 DEF Init, Typed
<1> QED
  BY <1>2, <1>5 DEF Apart, Kept

\* One request turns to another phase of its own row.
LEMMA OneRequest ==
    ASSUME TInv, NEW q \in Requests, NEW r \in Request, request' = [request EXCEPT ![q] = r],
           trades' = trades, request[q].phase # "idle",
           \/ r.phase = "idle"
           \/ /\ r.worker = request[q].worker /\ r.trade = request[q].trade
              /\ request[q].phase # "flushed" /\ r.phase # "flushed"
    PROVE  /\ request' \in [Requests -> Request] /\ Apart'
           /\ \A p \in Requests : Kept(p)'
<1>1. Typed /\ Apart /\ \A p \in Requests : Kept(p)
  BY Parts
<1>2. /\ request' \in [Requests -> Request] /\ request'[q] = r
      /\ \A p \in Requests \ {q} : request'[p] = request[p]
  BY <1>1 DEF Typed
<1>3. Apart'
  BY <1>1, <1>2 DEF Apart
<1>4. Kept(q)'
  BY <1>1, <1>2 DEF Kept, MyTrade
<1>5. \A p \in Requests \ {q} : Kept(p)'
  BY <1>1, <1>2 DEF Kept, MyTrade
<1> QED
  BY <1>2, <1>3, <1>4, <1>5

LEMMA FlushStep ==
    ASSUME TInv, NEW q \in Requests, NEW w \in Workers, NEW t \in Tokens, NEW x \in Active,
           NEW side \in {"buy", "sell"}, NEW amount \in Amounts, NEW price \in Prices,
           FlushTrade(q, w, t, Row(t, x, side, amount, price))
    PROVE  TInv'
<1> PICK new : new = Row(t, x, side, amount, price)
  OBVIOUS
<1>1. Typed /\ Apart /\ \A p \in Requests : Kept(p)
  BY Parts
<1>2. /\ request[q].phase = "idle" /\ breaker' = Purged(w, {t})
      /\ \/ UNCHANGED <<trades, request>>
         \/ /\ trades' = Append(trades, new)
            /\ request' = [request EXCEPT ![q] =
                  [phase |-> "flushed", worker |-> w, trade |-> Len(trades) + 1, pump |-> FALSE]]
      /\ UNCHANGED <<now, history>>
  BY DEF FlushTrade
<1>3. breaker' \in [Workers -> [Tokens -> Nat]]
  BY <1>2, PurgedTypes DEF TInv
<1>4. CASE UNCHANGED <<trades, request>>
  BY <1>1, <1>2, <1>3, <1>4 DEF TInv, TypeOK, OwnTrades, history, MyTrade
<1>5. CASE trades' = Append(trades, new) /\ ~UNCHANGED <<trades, request>>
  <2> PICK n : n = Len(trades) + 1
    OBVIOUS
  <2> PICK r : r = [phase |-> "flushed", worker |-> w, trade |-> n, pump |-> FALSE]
    OBVIOUS
  <2>1. new \in Trade /\ new.state = "open"
    BY <1>1, NewTrade DEF Typed
  <2>2. /\ trades' \in Seq(Trade) /\ DOMAIN trades' = DOMAIN trades \cup {n} /\ n \in Nat
        /\ n \notin DOMAIN trades /\ trades'[n] = new /\ \A i \in DOMAIN trades : trades'[i] = trades[i]
    BY <1>1, <1>5, <2>1 DEF Typed
  <2>3. r \in Request /\ r.phase = "flushed" /\ r.worker = w /\ r.trade = n
    BY <2>2 DEF Request
  <2>4. request' = [request EXCEPT ![q] = r]
    BY <1>2, <1>5
  <2>5. /\ request' \in [Requests -> Request] /\ request'[q] = r
        /\ \A p \in Requests \ {q} : request'[p] = request[p]
    BY <1>1, <2>3, <2>4 DEF Typed
  <2>6. Kept(q)'
    BY <2>1, <2>2, <2>3, <2>5 DEF Kept, MyTrade
  <2>7. \A p \in Requests \ {q} : Kept(p)'
    BY <1>1, <2>2, <2>5 DEF Kept, MyTrade
  <2>8. Apart'
    BY <1>1, <2>2, <2>3, <2>5 DEF Apart, Kept
  <2>9. Typed'
    BY <1>1, <1>2, <1>3, <2>2, <2>5 DEF Typed, history
  <2>10. \A p \in Requests : Kept(p)'
    BY <2>6, <2>7
  <2> QED
    BY <2>8, <2>9, <2>10 DEF TInv, TypeOK, OwnTrades, Typed, Apart, Kept
<1> QED
  BY <1>2, <1>4, <1>5

LEMMA CommitStep ==
    ASSUME TInv, NEW q \in Requests, CommitTrade(q)
    PROVE  TInv'
<1> PICK k : k = request[q].trade
  OBVIOUS
<1> PICK row : row = [trades[k] EXCEPT !.state = "committed"]
  OBVIOUS
<1> PICK r : r = [request[q] EXCEPT !.phase = "wash"]
  OBVIOUS
<1>1. Typed /\ Apart /\ \A p \in Requests : Kept(p)
  BY Parts
<1>2. /\ request[q].phase = "flushed" /\ trades' = [trades EXCEPT ![k] = row]
      /\ request' = [request EXCEPT ![q] = r] /\ UNCHANGED <<now, breaker, history>>
  BY DEF CommitTrade
<1>3. k \in DOMAIN trades /\ request[q].worker \in Workers /\ request[q] \in Request
  BY <1>1, <1>2 DEF Kept, Typed
<1>4. /\ r \in Request /\ r.phase = "wash" /\ r.worker = request[q].worker /\ r.trade = k
  BY <1>3 DEF Request
<1>5. row \in Trade /\ row.state = "committed"
  <2>1. trades[k] \in Trade
    BY <1>1, <1>3 DEF Typed
  <2> QED
    BY <2>1, Settled
<1>6. /\ trades' \in Seq(Trade) /\ DOMAIN trades' = DOMAIN trades /\ trades'[k] = row
      /\ \A i \in DOMAIN trades : i # k => trades'[i] = trades[i]
  <2>1. /\ DOMAIN trades' = DOMAIN trades /\ trades'[k] = row
        /\ \A i \in DOMAIN trades : i # k => trades'[i] = trades[i]
    BY <1>2, <1>3
  <2>2. trades' \in Seq(Trade)
    BY <1>1, <1>2, <1>3, <1>5 DEF Typed
  <2> QED
    BY <2>1, <2>2
<1>7. /\ request' \in [Requests -> Request] /\ request'[q] = r
      /\ \A p \in Requests \ {q} : request'[p] = request[p]
  BY <1>1, <1>2, <1>4 DEF Typed
<1>8. Kept(q)'
  <2>1. /\ request'[q].phase = "wash" /\ request'[q].worker \in Workers /\ request'[q].trade = k
        /\ k \in DOMAIN trades' /\ trades'[k].state = "committed"
    BY <1>3, <1>4, <1>5, <1>6, <1>7
  <2> QED
    BY <2>1 DEF Kept, MyTrade
<1>9. ASSUME NEW p \in Requests \ {q} PROVE Kept(p)'
  <2>1. request[p].phase # "idle" => request[p].trade # k
    BY <1>1, <1>2 DEF Apart
  <2> QED
    BY <1>1, <1>6, <1>7, <2>1 DEF Kept, MyTrade
<1>10. Apart'
  BY <1>1, <1>2, <1>4, <1>7 DEF Apart
<1>11. Typed'
  BY <1>1, <1>2, <1>6, <1>7 DEF Typed, history
<1>12. \A p \in Requests : Kept(p)'
  BY <1>8, <1>9
<1> QED
  BY <1>10, <1>11, <1>12 DEF TInv, TypeOK, OwnTrades, Typed, Apart, Kept

\* The primed form of Parts.
LEMMA PartsNext ==
    ASSUME Typed', Apart', \A q \in Requests : Kept(q)'
    PROVE  TInv'
BY DEF TInv, TypeOK, OwnTrades, Typed, Apart, Kept

LEMMA WashStep ==
    ASSUME TInv, NEW q \in Requests, CheckWash(q)
    PROVE  TInv'
<1> PICK r : r = [request[q] EXCEPT !.phase = "pump"]
  OBVIOUS
<1>1. Typed /\ Apart /\ \A p \in Requests : Kept(p)
  BY Parts
<1>2. /\ request[q].phase = "wash" /\ request' = [request EXCEPT ![q] = r]
      /\ UNCHANGED <<now, trades, breaker, lost>>
  BY DEF CheckWash
<1>3. request[q] \in Request
  BY <1>1 DEF Typed
<1>4. /\ r \in Request /\ r.phase = "pump" /\ r.worker = request[q].worker
      /\ r.trade = request[q].trade
  BY <1>3 DEF Request
<1>5. /\ request' \in [Requests -> Request] /\ Apart'
      /\ \A p \in Requests : Kept(p)'
  BY <1>2, <1>4, OneRequest
<1>6. checked' \in [Checks -> Int] /\ warned' \in [Tokens \X Traders -> Int]
  <2>1. now \in Int
    BY <1>1 DEF Typed
  <2> QED
    BY <1>1, <2>1 DEF CheckWash, Typed
<1>7. Typed'
  BY <1>1, <1>2, <1>5, <1>6 DEF Typed
<1> QED
  BY <1>5, <1>7, PartsNext

LEMMA PumpStep ==
    ASSUME TInv, NEW q \in Requests, CheckPump(q)
    PROVE  TInv'
<1> PICK found \in BOOLEAN : found = CheckPumpAndDump(Seen(q))
  BY PumpIsBoolean
<1> PICK r : r = [request[q] EXCEPT !.phase = "cliff", !.pump = found]
  OBVIOUS
<1>1. Typed /\ Apart /\ \A p \in Requests : Kept(p)
  BY Parts
<1>2. /\ request[q].phase = "pump" /\ request' = [request EXCEPT ![q] = r]
      /\ UNCHANGED <<now, trades, breaker, warned, lost>>
  BY DEF CheckPump
<1>3. request[q] \in Request
  BY <1>1 DEF Typed
<1>4. /\ r \in Request /\ r.phase = "cliff" /\ r.worker = request[q].worker
      /\ r.trade = request[q].trade
  BY <1>3 DEF Request
<1>5. /\ request' \in [Requests -> Request] /\ Apart'
      /\ \A p \in Requests : Kept(p)'
  BY <1>2, <1>4, OneRequest
<1>6. checked' \in [Checks -> Int]
  <2>1. now \in Int
    BY <1>1 DEF Typed
  <2> QED
    BY <1>1, <2>1 DEF CheckPump, Typed
<1>7. Typed'
  BY <1>1, <1>2, <1>5, <1>6 DEF Typed
<1> QED
  BY <1>5, <1>7, PartsNext

LEMMA CliffStep ==
    ASSUME TInv, NEW q \in Requests, CheckCliff(q)
    PROVE  /\ TInv' /\ now' = now
           /\ \A w \in Workers, t \in Tokens :
                 breaker'[w][t] = breaker[w][t] \/ breaker'[w][t] = now + CIRCUIT_BREAKER_DURATION
<1> PICK u : u = request[q].worker
  OBVIOUS
<1> PICK k : k = MyTrade(q).token
  OBVIOUS
<1>1. Typed /\ Apart /\ \A p \in Requests : Kept(p)
  BY Parts
<1>2. /\ request[q].phase = "cliff" /\ request' = [request EXCEPT ![q] = Idle]
      /\ UNCHANGED <<now, trades, warned, lost>>
      /\ breaker' = breaker \/ breaker' = [breaker EXCEPT ![u][k] = now + CIRCUIT_BREAKER_DURATION]
  BY DEF CheckCliff
<1>3. /\ request' \in [Requests -> Request] /\ Apart'
      /\ \A p \in Requests : Kept(p)'
  BY <1>2, IdleRequest, OneRequest
<1>4. u \in Workers /\ now + CIRCUIT_BREAKER_DURATION \in Nat
  BY <1>1, <1>2 DEF Kept, Typed, CIRCUIT_BREAKER_DURATION
<1>5. /\ breaker' \in [Workers -> [Tokens -> Nat]]
      /\ \A w \in Workers, t \in Tokens :
            breaker'[w][t] = breaker[w][t] \/ breaker'[w][t] = now + CIRCUIT_BREAKER_DURATION
  <2> PICK end \in Nat : end = now + CIRCUIT_BREAKER_DURATION
    BY <1>4
  <2>1. CASE breaker' = breaker
    BY <1>1, <2>1 DEF Typed
  <2>2. CASE breaker' = [breaker EXCEPT ![u][k] = end]
    <3>1. /\ breaker' \in [Workers -> [Tokens -> Nat]]
          /\ \A w \in Workers, t \in Tokens : breaker'[w][t] \in {breaker[w][t], end}
      BY <1>4, <2>2, OnePause DEF TInv
    <3> QED
      BY <3>1
  <2> QED
    BY <1>2, <2>1, <2>2
<1>6. checked' \in [Checks -> Int]
  <2>1. now \in Int
    BY <1>1 DEF Typed
  <2> QED
    BY <1>1, <2>1 DEF CheckCliff, Typed
<1>7. Typed'
  BY <1>1, <1>2, <1>3, <1>5, <1>6 DEF Typed
<1>8. TInv'
  BY <1>3, <1>7, PartsNext
<1> QED
  BY <1>2, <1>5, <1>8


LEMMA FailsStep ==
    ASSUME TInv, NEW q \in Requests, RequestFails(q)
    PROVE  TInv'
<1>1. Typed /\ Apart /\ \A p \in Requests : Kept(p)
  BY Parts
<1>2. /\ trades' = Undone({q}) /\ request' = [request EXCEPT ![q] = Idle]
      /\ lost' \in BOOLEAN /\ UNCHANGED <<now, breaker, checked, warned>>
  BY <1>1 DEF RequestFails, Typed
<1>3. /\ request' \in [Requests -> Request] /\ request'[q] = Idle
      /\ \A p \in Requests \ {q} : request'[p] = request[p]
  BY <1>1, <1>2, IdleRequest DEF Typed
<1>4. /\ trades' \in Seq(Trade) /\ DOMAIN trades' = DOMAIN trades
      /\ \A i \in DOMAIN trades :
            trades'[i] = trades[i] \/ (request[q].phase = "flushed" /\ request[q].trade = i)
  <2> PICK new : new = Undone({q})
    OBVIOUS
  <2>1. /\ new \in Seq(Trade) /\ DOMAIN new = DOMAIN trades
        /\ \A i \in DOMAIN trades :
              \/ new[i] = trades[i]
              \/ \E p \in {q} : request[p].phase = "flushed" /\ request[p].trade = i
    BY UndoneTrades DEF TInv
  <2> QED
    BY <1>2, <2>1
<1>5. ASSUME NEW p \in Requests PROVE Kept(p)'
  <2>1. CASE p = q
    BY <1>3, <2>1, IdleRequest DEF Kept
  <2>2. CASE p # q /\ request[p].phase # "idle"
    <3>1. request[q].phase = "flushed" => request[q].trade # request[p].trade
      BY <1>1, <2>2 DEF Apart
    <3>2. request[p].trade \in DOMAIN trades /\ trades'[request[p].trade] = trades[request[p].trade]
      BY <1>1, <1>4, <2>2, <3>1 DEF Kept
    <3> QED
      BY <1>1, <1>3, <1>4, <2>2, <3>2 DEF Kept, MyTrade
  <2>3. CASE p # q /\ request[p].phase = "idle"
    BY <1>3, <2>3 DEF Kept
  <2> QED
    BY <2>1, <2>2, <2>3
<1>6. Apart'
  BY <1>1, <1>3, IdleRequest DEF Apart
<1>7. Typed'
  BY <1>1, <1>2, <1>3, <1>4 DEF Typed
<1> QED
  BY <1>5, <1>6, <1>7, PartsNext

LEMMA RestartStep ==
    ASSUME TInv, NEW w \in Workers, Restart(w)
    PROVE  /\ TInv' /\ now' = now
           /\ \A v \in Workers, t \in Tokens : breaker'[v][t] \in {breaker[v][t], 0}
<1> PICK mine : mine = {q \in Requests : request[q].worker = w}
  OBVIOUS
<1>1. Typed /\ Apart /\ \A p \in Requests : Kept(p)
  BY Parts
<1>2. /\ trades' = Undone(mine) /\ lost' = TRUE /\ UNCHANGED <<now, checked, warned>>
      /\ request' = [q \in Requests |-> IF q \in mine THEN Idle ELSE request[q]]
      /\ breaker' = [breaker EXCEPT ![w] = [t \in Tokens |-> 0]]
  BY DEF Restart
<1>3. /\ request' \in [Requests -> Request]
      /\ \A q \in Requests : request'[q] = Idle \/ (q \notin mine /\ request'[q] = request[q])
  BY <1>1, <1>2, IdleRequest DEF Typed
<1>4. /\ trades' \in Seq(Trade) /\ DOMAIN trades' = DOMAIN trades
      /\ \A i \in DOMAIN trades :
            \/ trades'[i] = trades[i]
            \/ \E q \in mine : request[q].phase = "flushed" /\ request[q].trade = i
  <2> PICK new : new = Undone(mine)
    OBVIOUS
  <2>1. /\ new \in Seq(Trade) /\ DOMAIN new = DOMAIN trades
        /\ \A i \in DOMAIN trades :
              \/ new[i] = trades[i]
              \/ \E q \in mine : request[q].phase = "flushed" /\ request[q].trade = i
    BY UndoneTrades DEF TInv
  <2> QED
    BY <1>2, <2>1
<1>5. ASSUME NEW p \in Requests PROVE Kept(p)'
  <2>1. CASE request'[p] = Idle
    BY <2>1, IdleRequest DEF Kept
  <2>2. CASE p \notin mine /\ request'[p] = request[p] /\ request[p].phase # "idle"
    <3>1. \A q \in mine : request[q].phase = "flushed" => request[q].trade # request[p].trade
      BY <1>1, <2>2 DEF Apart
    <3>2. request[p].trade \in DOMAIN trades /\ trades'[request[p].trade] = trades[request[p].trade]
      BY <1>1, <1>4, <2>2, <3>1 DEF Kept
    <3> QED
      BY <1>1, <1>4, <2>2, <3>2 DEF Kept, MyTrade
  <2>3. CASE request'[p] = request[p] /\ request[p].phase = "idle"
    BY <2>3 DEF Kept
  <2> QED
    BY <1>3, <2>1, <2>2, <2>3
<1>6. Apart'
  BY <1>1, <1>3, IdleRequest DEF Apart
<1>7. /\ breaker' \in [Workers -> [Tokens -> Nat]]
      /\ \A v \in Workers, t \in Tokens : breaker'[v][t] \in {breaker[v][t], 0}
  <2> PICK none \in [Tokens -> Nat] : none = [t \in Tokens |-> 0]
    OBVIOUS
  <2>1. \A t \in Tokens : none[t] = 0
    OBVIOUS
  <2>2. breaker' = [breaker EXCEPT ![w] = none]
    BY <1>2
  <2> QED
    BY <1>1, <2>1, <2>2 DEF Typed
<1>8. Typed'
  BY <1>1, <1>2, <1>3, <1>4, <1>7 DEF Typed
<1>9. TInv'
  BY <1>5, <1>6, <1>8, PartsNext
<1> QED
  BY <1>2, <1>7, <1>9

LEMMA QuietStep ==
    ASSUME TInv, UNCHANGED <<trades, request, history>>, now' \in Nat,
           breaker' \in [Workers -> [Tokens -> Nat]]
    PROVE  TInv'
BY DEF TInv, TypeOK, OwnTrades, MyTrade, history

LEMMA NextTypes == TInv /\ [Next]_vars => TInv'
<1> SUFFICES ASSUME TInv, [Next]_vars PROVE TInv'
  OBVIOUS
<1>1. CASE UNCHANGED vars
  BY <1>1, QuietStep DEF vars, history, TInv, TypeOK
<1>2. ASSUME NEW later \in Times, TimePasses(later) PROVE TInv'
  <2>1. later \in Nat
    BY TradingAssumption
  <2> QED
    BY <1>2, <2>1, QuietStep DEF TimePasses, TInv, TypeOK
<1>3. ASSUME NEW w \in Workers, NEW ts, ReadBreakers(w, ts) PROVE TInv'
  BY <1>3, PurgedTypes, QuietStep DEF ReadBreakers, TInv, TypeOK
<1>4. ASSUME NEW q \in Requests, NEW w \in Workers, NEW t \in Tokens, NEW x \in Active,
             NEW side \in {"buy", "sell"}, NEW amount \in Amounts, NEW p \in Prices,
             FlushTrade(q, w, t, Row(t, x, side, amount, p))
      PROVE  TInv'
  BY <1>4, FlushStep
<1>5. ASSUME NEW q \in Requests,
             CommitTrade(q) \/ CheckWash(q) \/ CheckPump(q) \/ CheckCliff(q) \/ RequestFails(q)
      PROVE  TInv'
  BY <1>5, CommitStep, WashStep, PumpStep, CliffStep, FailsStep
<1>6. ASSUME NEW w \in Workers, Restart(w) PROVE TInv'
  BY <1>6, RestartStep
<1> QED
  BY <1>1, <1>2, <1>3, <1>4, <1>5, <1>6 DEF Next

\* No trade belongs to two requests, and each has the state its request's phase says.
THEOREM TypeInvariance == Spec => []TInv
<1>1. TInv /\ [Next]_vars => TInv'
  BY NextTypes
<1> QED
  BY <1>1, InitTypes, PTL DEF Spec

\* The tables, the requests and the breakers have their types, whatever the checks of
\* the risk engine answer.
THEOREM TypeCorrect == Spec => []TypeOK
<1>1. TInv => TypeOK
  BY DEF TInv
<1> QED
  BY <1>1, TypeInvariance, PTL

-----------------------------------------------------------------------------
(***************************************************************************)
(* Pauses.                                                                 *)
(***************************************************************************)
PauseStep ==
    \A w \in Workers, t \in Tokens :
        IsCircuitBreakerActive(w, t) /\ breaker'[w][t] < breaker[w][t] => Restart(w)

\* What a step may do to a breaker.
LEMMA BreakerSteps ==
    ASSUME TInv, [Next]_vars, NEW w \in Workers, NEW t \in Tokens
    PROVE  /\ now' \in Nat /\ now <= now' /\ breaker'[w][t] \in Nat
           /\ \/ breaker'[w][t] = breaker[w][t]
              \/ breaker'[w][t] = 0 /\ (now >= breaker[w][t] \/ Restart(w))
              \/ breaker'[w][t] = now + CIRCUIT_BREAKER_DURATION
<1>1. TInv'
  BY NextTypes
<1>2. /\ now \in Nat /\ breaker \in [Workers -> [Tokens -> Nat]]
      /\ now' \in Nat /\ breaker' \in [Workers -> [Tokens -> Nat]]
  BY <1>1 DEF TInv, TypeOK
<1>3. now <= now'
  <2>1. now' = now \/ \E later \in Times : TimePasses(later)
    <3>1. ASSUME NEW q \in Requests,
                 CommitTrade(q) \/ CheckWash(q) \/ CheckPump(q) \/ CheckCliff(q) \/ RequestFails(q)
          PROVE  now' = now
      BY <3>1 DEF CommitTrade, CheckWash, CheckPump, CheckCliff, RequestFails
    <3> QED
      BY <3>1 DEF Next, vars, FlushTrade, Restart, ReadBreakers
  <2>2. ASSUME NEW later \in Times, TimePasses(later) PROVE now < now'
    BY <1>2, <2>2 DEF TimePasses
  <2> QED
    BY <1>2, <2>1, <2>2
<1>4. CASE UNCHANGED breaker
  BY <1>2, <1>3, <1>4
<1>5. ASSUME NEW v \in Workers, NEW ts, breaker' = Purged(v, ts)
      PROVE  breaker'[w][t] = breaker[w][t] \/ (breaker'[w][t] = 0 /\ now >= breaker[w][t])
  BY <1>5, PurgedTypes DEF TInv
<1>6. ASSUME NEW q \in Requests, CheckCliff(q)
      PROVE  breaker'[w][t] = breaker[w][t] \/ breaker'[w][t] = now + CIRCUIT_BREAKER_DURATION
  BY <1>6, CliffStep
<1>7. ASSUME NEW v \in Workers, Restart(v)
      PROVE  breaker'[w][t] = breaker[w][t] \/ (breaker'[w][t] = 0 /\ Restart(w))
  <2>1. CASE v = w
    BY <1>7, <2>1, RestartStep
  <2>2. CASE v # w
    BY <1>2, <1>7, <2>2 DEF Restart
  <2> QED
    BY <2>1, <2>2
<1>8. \/ UNCHANGED breaker
      \/ \E v \in Workers : \E ts : breaker' = Purged(v, ts)
      \/ \E q \in Requests : CheckCliff(q)
      \/ \E v \in Workers : Restart(v)
  BY DEF Next, vars, TimePasses, FlushTrade, CommitTrade, CheckWash, CheckPump, RequestFails,
         ReadBreakers
<1> QED
  BY <1>2, <1>3, <1>4, <1>5, <1>6, <1>7, <1>8

\* No pause is set for longer than its duration.
THEOREM PausesAreBounded == Spec => []PausesBounded
<1>1. Init => PausesBounded
  BY DEF Init, PausesBounded, CIRCUIT_BREAKER_DURATION
<1>2. TInv /\ PausesBounded /\ [Next]_vars => PausesBounded'
  <2> SUFFICES ASSUME TInv, PausesBounded, [Next]_vars, NEW w \in Workers, NEW t \in Tokens
               PROVE  breaker'[w][t] <= now' + CIRCUIT_BREAKER_DURATION
    BY DEF PausesBounded
  <2>1. now \in Nat /\ breaker[w][t] \in Nat
    BY DEF TInv, TypeOK
  <2> QED
    BY <2>1, BreakerSteps DEF PausesBounded, CIRCUIT_BREAKER_DURATION
<1> QED
  BY <1>1, <1>2, TypeInvariance, PTL DEF Spec

\* No request and no reader of the breakers ends a pause early: an alert can only set a
\* breaker to a later time than the one it has.
THEOREM PausesRunTheirTime == Spec => PauseRunsItsTime
<1>1. TInv /\ PausesBounded /\ [Next]_vars => [PauseStep]_vars
  <2> SUFFICES ASSUME TInv, PausesBounded, [Next]_vars, NEW w \in Workers, NEW t \in Tokens,
                      IsCircuitBreakerActive(w, t), breaker'[w][t] < breaker[w][t]
               PROVE  Restart(w)
    BY DEF PauseStep
  <2>1. now \in Nat /\ breaker[w][t] \in Nat /\ now < breaker[w][t]
    BY DEF TInv, TypeOK, IsCircuitBreakerActive
  <2> QED
    BY <2>1, BreakerSteps DEF PausesBounded, CIRCUIT_BREAKER_DURATION
<1> QED
  BY <1>1, TypeInvariance, PausesAreBounded, PTL DEF Spec, PauseRunsItsTime, PauseStep

-----------------------------------------------------------------------------
(***************************************************************************)
(* What the checks answer.                                                 *)
(***************************************************************************)
\* The times of the table: no row is stamped later than now.
Stamped == \A i \in DOMAIN trades : trades[i].at <= now

\* The committed rows of a token whose cliff check is over, and those of a wallet whose
\* check for wash trading is.
CliffSettled(t) ==
    {i \in Committed(t) : \A q \in Requests : request[q].phase # "idle" => request[q].trade # i}
WashSettled(t, x) ==
    {i \in By(Committed(t), x) :
        \A q \in Requests : request[q].phase = "wash" => request[q].trade # i}

\* What the last cliff check of a token answered for: rows that include every settled one.
CliffSeen(t, C) ==
    LET at == checked[<<"cliff", t>>]
    IN  /\ CliffSettled(t) \subseteq C /\ C \subseteq Committed(t)
        /\ Fell(Within(C, CLIFF_WINDOW, at)) /\ now < at + CIRCUIT_BREAKER_DURATION
            => \E w \in Workers : breaker[w][t] >= at + CIRCUIT_BREAKER_DURATION
CliffsKnown == ~lost => \A t \in Tokens : \E C \in SUBSET Committed(t) : CliffSeen(t, C)

\* Likewise for the last check for wash trading of a wallet.
WashSeen(t, x, C) ==
    LET at == checked[<<"wash", t, x>>]
    IN  /\ WashSettled(t, x) \subseteq C /\ C \subseteq By(Committed(t), x)
        /\ Washed(Within(C, WASH_TRADE_WINDOW, at)) => warned[<<t, x>>] = at
WashKnown ==
    ~lost => \A t \in Tokens, x \in Traders :
        \E C \in SUBSET By(Committed(t), x) : WashSeen(t, x, C)

LEMMA LeastIs ==
    ASSUME NEW S \in SUBSET Int, NEW a \in S, \A b \in S : a <= b
    PROVE  Min(S) = a
<1> PICK m : m = Min(S)
  OBVIOUS
<1>1. m \in S /\ \A b \in S : m <= b
  BY DEF Min
<1>2. m <= a /\ a <= m /\ m \in Int /\ a \in Int
  BY <1>1
<1> QED
  BY <1>2

LEMMA GreatestIs ==
    ASSUME NEW S \in SUBSET Int, NEW a \in S, \A b \in S : b <= a
    PROVE  Max(S) = a
<1> PICK m : m = Max(S)
  OBVIOUS
<1>1. m \in S /\ \A b \in S : b <= m
  BY DEF Max
<1>2. m <= a /\ a <= m /\ m \in Int /\ a \in Int
  BY <1>1
<1> QED
  BY <1>2

LEMMA LeastAndGreatest ==
    ASSUME NEW a \in Int, NEW b \in Int
    PROVE  /\ Min({a, b}) = (IF a <= b THEN a ELSE b)
           /\ Max({a, b}) = (IF a <= b THEN b ELSE a)
<1> PICK S : S = {a, b}
  OBVIOUS
<1>1. S \in SUBSET Int /\ a \in S /\ b \in S /\ \A c \in S : c = a \/ c = b
  OBVIOUS
<1>2. CASE a <= b
  <2>1. (\A c \in S : a <= c) /\ (\A c \in S : c <= b)
    BY <1>1, <1>2
  <2>2. Min(S) = a /\ Max(S) = b
    BY <1>1, <2>1, LeastIs, GreatestIs
  <2> QED
    BY <1>2, <2>2
<1>3. CASE ~(a <= b)
  <2>1. (\A c \in S : b <= c) /\ (\A c \in S : c <= a)
    BY <1>1, <1>3
  <2>2. Min(S) = b /\ Max(S) = a
    BY <1>1, <2>1, LeastIs, GreatestIs
  <2> QED
    BY <1>3, <2>2
<1> QED
  BY <1>2, <1>3

\* What rows of the table add up to is a number, and no rows add up to nothing.
LEMMA TokensAdded ==
    ASSUME trades \in Seq(Trade), NEW rows \in SUBSET DOMAIN trades
    PROVE  TokensOf(rows) \in Nat /\ (rows = {} => TokensOf(rows) = 0)
<1> DEFINE f == [i \in rows |-> trades[i].tokens]
           unitsOf == [i \in rows |-> {i} \X (1 .. f[i])]
           blocks == {{i} \X (1 .. f[i]) : i \in DOMAIN f}
<1>1. IsFiniteSet(rows)
  <2>1. DOMAIN trades = 1 .. Len(trades) /\ Len(trades) \in Nat
    OBVIOUS
  <2>2. IsFiniteSet(1 .. Len(trades))
    BY <2>1, FS_Interval
  <2> QED
    BY <2>1, <2>2, FS_Subset
<1>2. f \in [rows -> Nat]
  <2>1. \A i \in rows : trades[i] \in Trade
    OBVIOUS
  <2> QED
    BY <2>1 DEF Trade
<1>3. unitsOf \in Surjection(rows, blocks)
  BY DEF Surjection
<1>4. IsFiniteSet(blocks)
  BY <1>1, <1>3, FS_Surjection
<1>5. ASSUME NEW B \in blocks PROVE IsFiniteSet(B)
  <2>1. PICK i \in rows : B = {i} \X (1 .. f[i])
    OBVIOUS
  <2>2. f[i] \in Int
    BY <1>2
  <2>3. IsFiniteSet(1 .. f[i])
    BY <2>2, FS_Interval
  <2>4. IsFiniteSet({i})
    BY FS_Singleton
  <2> QED
    BY <2>1, <2>3, <2>4, FS_Product
<1>6. IsFiniteSet(UNION blocks)
  BY <1>4, <1>5, FS_UNION
<1>7. TokensOf(rows) = Cardinality(UNION blocks)
  BY DEF TokensOf, Units
<1>8. rows = {} => UNION blocks = {}
  OBVIOUS
<1> QED
  BY <1>6, <1>7, <1>8, FS_CardinalityType, FS_EmptySet

LEMMA RowPrice ==
    ASSUME trades \in Seq(Trade), NEW i \in DOMAIN trades
    PROVE  trades[i].price \in Nat /\ trades[i].at \in Nat
<1>1. trades[i] \in Trade
  OBVIOUS
<1> QED
  BY <1>1 DEF Trade

\* At the time of a check the reference and the query's filter take the same rows.
LEMMA SameWindow ==
    ASSUME now \in Nat, trades \in Seq(Trade), Stamped, NEW rows \in SUBSET DOMAIN trades,
           NEW window \in Nat
    PROVE  Within(rows, window, now) = Since(rows, now - window)
<1>1. \A i \in rows : trades[i].at \in Nat /\ trades[i].at <= now
  BY RowPrice DEF Stamped
<1> QED
  BY <1>1 DEF Within, Since

\* The check for wash trading finds all that the reference calls wash trading.
LEMMA WashFound ==
    ASSUME now \in Nat, trades \in Seq(Trade), Stamped, NEW rows \in SUBSET DOMAIN trades, NEW x,
           Washed(Within(By(rows, x), WASH_TRADE_WINDOW, now))
    PROVE  CheckWashTrading(rows, x)
<1> DEFINE mine == By(Since(rows, now - WASH_TRADE_WINDOW), x)
<1> PICK b : b = TokensOf(Bought(mine))
  OBVIOUS
<1> PICK s : s = TokensOf(Sold(mine))
  OBVIOUS
<1>1. Within(By(rows, x), WASH_TRADE_WINDOW, now) = mine
  <2>1. By(rows, x) \in SUBSET DOMAIN trades /\ WASH_TRADE_WINDOW \in Nat
    BY DEF By, WASH_TRADE_WINDOW
  <2>2. Within(By(rows, x), WASH_TRADE_WINDOW, now) = Since(By(rows, x), now - WASH_TRADE_WINDOW)
    BY <2>1, SameWindow
  <2> QED
    BY <2>2 DEF By, Since
<1>2. b > 0 /\ s > 0 /\ 5 * b >= 4 * s /\ 5 * s >= 4 * b
  BY <1>1 DEF Washed
<1>3. Bought(mine) \in SUBSET DOMAIN trades /\ Sold(mine) \in SUBSET DOMAIN trades
  BY DEF By, Since, Bought, Sold
<1>4. b \in Nat /\ s \in Nat /\ Bought(mine) # {} /\ Sold(mine) # {}
  BY <1>2, <1>3, TokensAdded
<1> PICK least : least = Min({b, s})
  OBVIOUS
<1> PICK most : most = Max({b, s})
  OBVIOUS
<1>5. least = (IF b <= s THEN b ELSE s) /\ most = (IF b <= s THEN s ELSE b)
  BY <1>4, LeastAndGreatest
<1>6. most > 0 /\ 10 * least >= 8 * most
  BY <1>2, <1>4, <1>5
<1> QED
  BY <1>4, <1>6 DEF CheckWashTrading

LEMMA TwoElements ==
    ASSUME NEW a, NEW b, a # b
    PROVE  Cardinality({a, b}) = 2
<1>1. IsFiniteSet({a}) /\ Cardinality({a}) = 1 /\ b \notin {a}
  BY FS_Singleton
<1>2. Cardinality({a} \cup {b}) = Cardinality({a}) + 1
  BY <1>1, FS_AddElement
<1>3. {a, b} = {a} \cup {b}
  OBVIOUS
<1> QED
  BY <1>1, <1>2, <1>3

LEMMA FallOf ==
    ASSUME NEW p \in Nat, NEW r \in Nat, 10 * r < 7 * p
    PROVE  p > 0 /\ r # p /\ 10 * (r - p) < -3 * p
<1>1. p > 0 /\ r # p
  OBVIOUS
<1>2. 10 * (r - p) < -3 * p
  OBVIOUS
<1> QED
  BY <1>1, <1>2

\* The check for a cliff finds every cliff of the reference.
LEMMA CliffFound ==
    ASSUME now \in Nat, trades \in Seq(Trade), Stamped, NEW rows \in SUBSET DOMAIN trades,
           Fell(Within(rows, CLIFF_WINDOW, now))
    PROVE  CheckCliffEvent(rows)
<1> PICK seen : seen = Since(rows, now - CLIFF_WINDOW)
  OBVIOUS
<1>1. Within(rows, CLIFF_WINDOW, now) = seen
  BY SameWindow DEF CLIFF_WINDOW
<1>2. PICK first \in seen, latest \in seen :
         /\ \A i \in seen : first <= i /\ i <= latest
         /\ 10 * trades[latest].price < 7 * trades[first].price
  BY <1>1 DEF Fell
<1>3. DOMAIN trades = 1 .. Len(trades) /\ Len(trades) \in Nat /\ seen \in SUBSET DOMAIN trades
  BY DEF Since
<1>4. seen \in SUBSET Int
  BY <1>3
<1>5. First(seen) = trades[first] /\ Latest(seen) = trades[latest]
  BY <1>2, <1>4, LeastIs, GreatestIs DEF First, Latest
<1>6. trades[first].price \in Nat /\ trades[latest].price \in Nat
  BY <1>2, <1>3, RowPrice
<1>7. first # latest /\ trades[first].price > 0
      /\ 10 * (trades[latest].price - trades[first].price) < -3 * trades[first].price
  <2> PICK p \in Nat : p = trades[first].price
    BY <1>6
  <2> PICK r \in Nat : r = trades[latest].price
    BY <1>6
  <2>1. 10 * r < 7 * p
    BY <1>2
  <2>2. p > 0 /\ r # p /\ 10 * (r - p) < -3 * p
    BY <2>1, FallOf
  <2> QED
    BY <2>2
<1>8. Cardinality(seen) >= 2
  <2>1. IsFiniteSet(seen)
    <3>1. IsFiniteSet(1 .. Len(trades))
      BY <1>3, FS_Interval
    <3> QED
      BY <1>3, <3>1, FS_Subset
  <2>2. {first, latest} \subseteq seen
    BY <1>2
  <2>4. Cardinality({first, latest}) = 2
    BY <1>7, TwoElements
  <2>5. Cardinality({first, latest}) <= Cardinality(seen) /\ Cardinality(seen) \in Nat
    BY <2>1, <2>2, FS_Subset, FS_CardinalityType
  <2> QED
    BY <2>4, <2>5
<1> QED
  BY <1>5, <1>7, <1>8 DEF CheckCliffEvent

-----------------------------------------------------------------------------
(***************************************************************************)
(* What a step does to the rows.                                           *)
(***************************************************************************)
\* A committed row stands.
RowsStand ==
    \A i \in DOMAIN trades :
        trades[i].state = "committed" => i \in DOMAIN trades' /\ trades'[i] = trades[i]

LEMMA SettledAt ==
    ASSUME NEW r \in Trade, NEW s
    PROVE  [r EXCEPT !.state = s].at = r.at
BY DEF Trade

\* Undoing the open rows of some requests leaves the committed ones and the times.
LEMMA UndoneRows ==
    ASSUME TInv, Stamped, NEW qs \in SUBSET Requests, trades' = Undone(qs), now' = now
    PROVE  Stamped' /\ RowsStand
<1>1. Typed /\ \A q \in Requests : Kept(q)
  BY Parts
<1>2. DOMAIN trades' = DOMAIN trades
  BY DEF Undone
<1>3. ASSUME NEW i \in DOMAIN trades
      PROVE  /\ trades'[i].at = trades[i].at
             /\ trades[i].state = "committed" => trades'[i] = trades[i]
  <2>1. trades[i] \in Trade
    BY <1>1 DEF Typed
  <2>2. CASE \E q \in qs : request[q].phase = "flushed" /\ request[q].trade = i
    <3>1. trades'[i] = [trades[i] EXCEPT !.state = "undone"]
      BY <2>2 DEF Undone
    <3>2. trades[i].state = "open"
      BY <1>1, <2>2 DEF Kept, MyTrade
    <3> QED
      BY <2>1, <3>1, <3>2, SettledAt
  <2>3. CASE ~\E q \in qs : request[q].phase = "flushed" /\ request[q].trade = i
    <3>1. trades'[i] = trades[i]
      BY <2>3 DEF Undone
    <3> QED
      BY <3>1
  <2> QED
    BY <2>2, <2>3
<1> QED
  BY <1>2, <1>3 DEF Stamped, RowsStand

LEMMA FlushRows ==
    ASSUME TInv, Stamped, NEW row \in Trade, row.at = now, trades' = Append(trades, row), now' = now
    PROVE  Stamped' /\ RowsStand
<1>1. trades \in Seq(Trade) /\ now \in Nat
  BY DEF TInv, TypeOK
<1> PICK n : n = Len(trades) + 1
  OBVIOUS
<1>2. /\ DOMAIN trades' = DOMAIN trades \cup {n} /\ trades'[n] = row
      /\ \A i \in DOMAIN trades : trades'[i] = trades[i]
  BY <1>1
<1> QED
  BY <1>1, <1>2 DEF Stamped, RowsStand

LEMMA CommitRows ==
    ASSUME TInv, Stamped, NEW q \in Requests, CommitTrade(q)
    PROVE  Stamped' /\ RowsStand
<1>1. Typed /\ Kept(q)
  BY Parts
<1> PICK k : k = request[q].trade
  OBVIOUS
<1> PICK row : row = [trades[k] EXCEPT !.state = "committed"]
  OBVIOUS
<1>2. trades' = [trades EXCEPT ![k] = row] /\ now' = now /\ request[q].phase = "flushed"
  BY DEF CommitTrade
<1>3. k \in DOMAIN trades /\ trades[k].state = "open"
  BY <1>1, <1>2 DEF Kept, MyTrade
<1>4. trades[k] \in Trade
  BY <1>1, <1>3 DEF Typed
<1>5. row.at = trades[k].at
  BY <1>4, SettledAt
<1>6. /\ DOMAIN trades' = DOMAIN trades /\ trades'[k] = row
      /\ \A i \in DOMAIN trades : i # k => trades'[i] = trades[i]
  BY <1>2, <1>3
<1> QED
  BY <1>2, <1>3, <1>5, <1>6 DEF Stamped, RowsStand

LEMMA RowSteps ==
    ASSUME TInv, Stamped, [Next]_vars
    PROVE  Stamped' /\ RowsStand
<1>1. now \in Nat /\ now' \in Nat /\ trades \in Seq(Trade)
  <2>1. TInv'
    BY NextTypes
  <2> QED
    BY <2>1 DEF TInv, TypeOK
<1>2. CASE trades' = trades /\ now <= now'
  <2>1. \A i \in DOMAIN trades : trades[i].at \in Nat /\ trades[i].at <= now
    BY <1>1, RowPrice DEF Stamped
  <2> QED
    BY <1>1, <1>2, <2>1 DEF Stamped, RowsStand
<1>3. ASSUME NEW q \in Requests, NEW w \in Workers, NEW t \in Tokens, NEW x \in Active,
             NEW side \in {"buy", "sell"}, NEW amount \in Amounts, NEW p \in Prices,
             FlushTrade(q, w, t, Row(t, x, side, amount, p))
      PROVE  Stamped' /\ RowsStand
  <2> PICK row : row = Row(t, x, side, amount, p)
    OBVIOUS
  <2>1. row \in Trade
    BY <1>1, NewTrade
  <2>2. row.at = now
    BY DEF Row
  <2>3. now' = now /\ (trades' = trades \/ trades' = Append(trades, row))
    BY <1>3 DEF FlushTrade
  <2> QED
    BY <1>1, <1>2, <2>1, <2>2, <2>3, FlushRows
<1>4. ASSUME NEW q \in Requests, RequestFails(q) PROVE Stamped' /\ RowsStand
  BY <1>4, UndoneRows DEF RequestFails
<1>5. ASSUME NEW w \in Workers, Restart(w) PROVE Stamped' /\ RowsStand
  <2> PICK mine \in SUBSET Requests : mine = {q \in Requests : request[q].worker = w}
    OBVIOUS
  <2> QED
    BY <1>5, UndoneRows DEF Restart
<1>6. ASSUME NEW later \in Times, TimePasses(later) PROVE trades' = trades /\ now <= now'
  BY <1>1, <1>6 DEF TimePasses
<1>7. ASSUME NEW q \in Requests, CheckWash(q) \/ CheckPump(q) \/ CheckCliff(q)
      PROVE  trades' = trades /\ now' = now
  BY <1>7 DEF CheckWash, CheckPump, CheckCliff
<1>8. ASSUME NEW w \in Workers, NEW ts, ReadBreakers(w, ts) PROVE trades' = trades /\ now' = now
  BY <1>8 DEF ReadBreakers
<1>9. CASE UNCHANGED vars
  BY <1>1, <1>2, <1>9 DEF vars
<1>10. CASE Next
  BY <1>1, <1>2, <1>3, <1>4, <1>5, <1>6, <1>7, <1>8, <1>10, CommitRows DEF Next
<1> QED
  BY <1>9, <1>10

\* No row is stamped later than now.
THEOREM TradesAreStamped == Spec => []Stamped
<1>1. Init => Stamped
  <2> SUFFICES ASSUME Init, NEW i \in DOMAIN trades PROVE trades[i].at <= now
    BY DEF Stamped
  <2>1. trades[i].at = 0 /\ now = 0
    BY HistoryAssumption DEF Init
  <2> QED
    BY <2>1
<1>2. TInv /\ Stamped /\ [Next]_vars => Stamped'
  BY RowSteps
<1> QED
  BY <1>1, <1>2, TypeInvariance, PTL DEF Spec

-----------------------------------------------------------------------------
(***************************************************************************)
(* Whose rows are settled.                                                 *)
(***************************************************************************)
\* After a step a committed row has just been committed, or was before, and the request it
\* belongs to keeps it until its cliff check, and waits for its check for wash trading.
RowServed(t, i) ==
    \/ \E q \in Requests : request'[q].phase = "wash" /\ request'[q].trade = i
    \/ /\ i \in Committed(t)
       /\ \A q \in Requests : request[q].phase # "idle" /\ request[q].trade = i =>
             \/ CheckCliff(q)
             \/ /\ request'[q].phase # "idle" /\ request'[q].trade = i
                /\ request[q].phase = "wash" => request'[q].phase = "wash" \/ CheckWash(q)

LEMMA ServedSame ==
    ASSUME UNCHANGED <<trades, request>>, NEW t, NEW i \in Committed(t)'
    PROVE  RowServed(t, i)
BY DEF Committed, RowServed

LEMMA ServedByFlush ==
    ASSUME TInv, NEW q \in Requests, NEW w, NEW k, NEW row \in Trade, row.state = "open",
           FlushTrade(q, w, k, row), NEW t, NEW i \in Committed(t)'
    PROVE  RowServed(t, i)
<1>1. Typed
  BY Parts
<1>2. CASE UNCHANGED <<trades, request>>
  BY <1>2, ServedSame
<1>3. CASE ~UNCHANGED <<trades, request>>
  <2> PICK r : r = [phase |-> "flushed", worker |-> w, trade |-> Len(trades) + 1, pump |-> FALSE]
    OBVIOUS
  <2>1. /\ request[q].phase = "idle" /\ trades' = Append(trades, row)
        /\ request' = [request EXCEPT ![q] = r]
    BY <1>3 DEF FlushTrade
  <2>2. \A p \in Requests : request[p].phase # "idle" => request'[p] = request[p]
    BY <1>1, <2>1 DEF Typed
  <2>3. i \in DOMAIN trades' /\ trades'[i].state = "committed" /\ trades'[i].token = t
    BY DEF Committed
  <2>4. i \in DOMAIN trades /\ trades'[i] = trades[i]
    BY <1>1, <2>1, <2>3 DEF Typed
  <2> QED
    BY <2>2, <2>3, <2>4 DEF RowServed, Committed
<1> QED
  BY <1>2, <1>3

LEMMA ServedByCommit ==
    ASSUME TInv, NEW q \in Requests, CommitTrade(q), NEW t, NEW i \in Committed(t)'
    PROVE  RowServed(t, i)
<1>1. Typed /\ Kept(q)
  BY Parts
<1> PICK k : k = request[q].trade
  OBVIOUS
<1> PICK row : row = [trades[k] EXCEPT !.state = "committed"]
  OBVIOUS
<1> PICK r : r = [request[q] EXCEPT !.phase = "wash"]
  OBVIOUS
<1>2. /\ request[q].phase = "flushed" /\ trades' = [trades EXCEPT ![k] = row]
      /\ request' = [request EXCEPT ![q] = r]
  BY DEF CommitTrade
<1>3. request[q] \in Request
  BY <1>1 DEF Typed
<1>4. r.phase = "wash" /\ r.trade = k
  BY <1>3 DEF Request
<1>5. request'[q] = r /\ \A p \in Requests \ {q} : request'[p] = request[p]
  BY <1>1, <1>2 DEF Typed
<1>6. CASE i = k
  BY <1>4, <1>5, <1>6 DEF RowServed
<1>7. CASE i # k
  <2>1. i \in DOMAIN trades /\ trades'[i] = trades[i]
    BY <1>2, <1>7 DEF Committed
  <2>2. i \in Committed(t)
    BY <2>1 DEF Committed
  <2>3. ASSUME NEW p \in Requests, request[p].trade = i PROVE request'[p] = request[p]
    BY <1>5, <1>7, <2>3
  <2> QED
    BY <2>2, <2>3 DEF RowServed
<1> QED
  BY <1>6, <1>7

LEMMA ServedByCheck ==
    ASSUME TInv, NEW q \in Requests, CheckWash(q) \/ CheckPump(q) \/ CheckCliff(q),
           NEW t, NEW i \in Committed(t)'
    PROVE  RowServed(t, i)
<1>1. Typed
  BY Parts
<1>2. request[q] \in Request
  BY <1>1 DEF Typed
<1>3. trades' = trades
  BY DEF CheckWash, CheckPump, CheckCliff
<1>4. i \in Committed(t)
  BY <1>3 DEF Committed
<1>5. \A p \in Requests \ {q} : request'[p] = request[p]
  <2>1. \E r : request' = [request EXCEPT ![q] = r]
    BY DEF CheckWash, CheckPump, CheckCliff
  <2> QED
    BY <1>1, <2>1 DEF Typed
<1>6. CheckWash(q) => request'[q].phase = "pump" /\ request'[q].trade = request[q].trade
  <2> SUFFICES ASSUME CheckWash(q)
               PROVE  request'[q].phase = "pump" /\ request'[q].trade = request[q].trade
    OBVIOUS
  <2> PICK r : r = [request[q] EXCEPT !.phase = "pump"]
    OBVIOUS
  <2>1. request' = [request EXCEPT ![q] = r]
    BY DEF CheckWash
  <2>2. r.phase = "pump" /\ r.trade = request[q].trade
    BY <1>2 DEF Request
  <2> QED
    BY <1>1, <2>1, <2>2 DEF Typed
<1>7. CheckPump(q) => /\ request[q].phase = "pump" /\ request'[q].phase = "cliff"
                      /\ request'[q].trade = request[q].trade
  <2> SUFFICES ASSUME CheckPump(q)
               PROVE  /\ request[q].phase = "pump" /\ request'[q].phase = "cliff"
                      /\ request'[q].trade = request[q].trade
    OBVIOUS
  <2> PICK found : found = CheckPumpAndDump(Seen(q))
    OBVIOUS
  <2> PICK r : r = [request[q] EXCEPT !.phase = "cliff", !.pump = found]
    OBVIOUS
  <2>1. request[q].phase = "pump" /\ request' = [request EXCEPT ![q] = r]
    BY DEF CheckPump
  <2>2. r.phase = "cliff" /\ r.trade = request[q].trade
    BY <1>2 DEF Request
  <2> QED
    BY <1>1, <2>1, <2>2 DEF Typed
<1> QED
  BY <1>4, <1>5, <1>6, <1>7 DEF RowServed

LEMMA ServedByFailure ==
    ASSUME TInv, NEW q \in Requests, RequestFails(q), ~lost', NEW t, NEW i \in Committed(t)'
    PROVE  RowServed(t, i)
<1>1. Typed
  BY Parts
<1>2. request[q].phase = "flushed"
  BY <1>1 DEF RequestFails, Typed, Request
<1>3. trades' = Undone({q}) /\ request' = [request EXCEPT ![q] = Idle]
  BY DEF RequestFails
<1>4. i \in DOMAIN trades' /\ trades'[i].state = "committed" /\ trades'[i].token = t
  BY DEF Committed
<1>5. i \in DOMAIN trades
  BY <1>3, <1>4 DEF Undone
<1>6. request[q].trade # i /\ trades'[i] = trades[i]
  <2>1. trades[i] \in Trade
    BY <1>1, <1>5 DEF Typed
  <2>2. request[q].trade = i => trades'[i] = [trades[i] EXCEPT !.state = "undone"]
    BY <1>2, <1>3, <1>5 DEF Undone
  <2>3. request[q].trade # i
    BY <1>4, <2>1, <2>2, Settled
  <2>4. trades'[i] = trades[i]
    BY <1>3, <1>5, <2>3 DEF Undone
  <2> QED
    BY <2>3, <2>4
<1>7. \A p \in Requests \ {q} : request'[p] = request[p]
  BY <1>1, <1>3 DEF Typed
<1> QED
  BY <1>4, <1>5, <1>6, <1>7 DEF RowServed, Committed

LEMMA Serves ==
    ASSUME TInv, [Next]_vars, ~lost', NEW t, NEW i \in Committed(t)'
    PROVE  ~lost /\ RowServed(t, i)
<1>1. ~lost
  BY DEF Next, vars, history, TimePasses, FlushTrade, CommitTrade, CheckWash, CheckPump, CheckCliff,
         RequestFails, Restart, ReadBreakers
<1>2. ASSUME NEW q \in Requests, NEW w \in Workers, NEW k \in Tokens, NEW x \in Active,
             NEW side \in {"buy", "sell"}, NEW amount \in Amounts, NEW p \in Prices,
             FlushTrade(q, w, k, Row(k, x, side, amount, p))
      PROVE  RowServed(t, i)
  <2> PICK row : row = Row(k, x, side, amount, p)
    OBVIOUS
  <2>1. row \in Trade /\ row.state = "open"
    BY NewTrade DEF TInv, TypeOK
  <2> QED
    BY <1>2, <2>1, ServedByFlush
<1>3. ASSUME NEW q \in Requests,
             CommitTrade(q) \/ CheckWash(q) \/ CheckPump(q) \/ CheckCliff(q) \/ RequestFails(q)
      PROVE  RowServed(t, i)
  BY <1>3, ServedByCommit, ServedByCheck, ServedByFailure
<1>4. ASSUME UNCHANGED <<trades, request>> PROVE RowServed(t, i)
  BY <1>4 DEF RowServed, Committed
<1>5. UNCHANGED vars => UNCHANGED <<trades, request>>
  BY DEF vars
<1>6. ASSUME NEW later, TimePasses(later) PROVE UNCHANGED <<trades, request>>
  BY <1>6 DEF TimePasses
<1>7. ASSUME NEW w, NEW ts, ReadBreakers(w, ts) PROVE UNCHANGED <<trades, request>>
  BY <1>7 DEF ReadBreakers
<1>8. ~\E w \in Workers : Restart(w)
  BY DEF Restart
<1>9. RowServed(t, i)
  BY <1>2, <1>3, <1>4, <1>5, <1>6, <1>7, <1>8 DEF Next
<1> QED
  BY <1>1, <1>9

-----------------------------------------------------------------------------
(***************************************************************************)
(* No cliff is missed.                                                     *)
(***************************************************************************)
LEMMA CommittedStand ==
    ASSUME RowsStand, NEW t
    PROVE  /\ Committed(t) \subseteq Committed(t)'
           /\ \A i \in Committed(t) : i \in DOMAIN trades /\ trades'[i] = trades[i]
BY DEF RowsStand, Committed

\* What a check answered for stays answered for, while no other row is settled and no
\* pause is cut short.
LEMMA CliffStands ==
    ASSUME TInv, TInv', RowsStand, now <= now', NEW t \in Tokens, NEW C, CliffSeen(t, C),
           CliffSettled(t)' \subseteq CliffSettled(t),
           checked'[<<"cliff", t>>] = checked[<<"cliff", t>>],
           \A w \in Workers : breaker'[w][t] >= breaker[w][t] \/ now >= breaker[w][t]
    PROVE  C \in SUBSET Committed(t)' /\ CliffSeen(t, C)'
<1> PICK at : at = checked[<<"cliff", t>>]
  OBVIOUS
<1>1. /\ CliffSettled(t) \subseteq C /\ C \subseteq Committed(t)
      /\ Fell(Within(C, CLIFF_WINDOW, at)) /\ now < at + CIRCUIT_BREAKER_DURATION
            => \E w \in Workers : breaker[w][t] >= at + CIRCUIT_BREAKER_DURATION
  BY DEF CliffSeen
<1>2. CliffSettled(t)' \subseteq C /\ C \subseteq Committed(t)'
  BY <1>1, CommittedStand
<1>3. \A i \in C : trades'[i] = trades[i]
  BY <1>1, CommittedStand
<1> PICK W : W = Within(C, CLIFF_WINDOW, at)
  OBVIOUS
<1>4. W = {i \in C : trades'[i].at \in (at - CLIFF_WINDOW) .. at} /\ W \subseteq C
  BY <1>3 DEF Within
<1>5. ASSUME \E first, latest \in W :
                 /\ \A i \in W : first <= i /\ i <= latest
                 /\ 10 * trades'[latest].price < 7 * trades'[first].price
      PROVE  Fell(W)
  BY <1>3, <1>4, <1>5 DEF Fell
<1>6. ASSUME Fell(W), now' < at + CIRCUIT_BREAKER_DURATION
      PROVE  \E w \in Workers : breaker'[w][t] >= at + CIRCUIT_BREAKER_DURATION
  <2> PICK end : end = at + CIRCUIT_BREAKER_DURATION
    OBVIOUS
  <2>1. /\ now \in Nat /\ now' \in Nat /\ breaker \in [Workers -> [Tokens -> Nat]]
        /\ breaker' \in [Workers -> [Tokens -> Nat]] /\ end \in Int
    <3>1. <<"cliff", t>> \in Checks
      BY DEF Checks
    <3>2. at \in Int
      BY <3>1 DEF TInv, TypeOK
    <3> QED
      BY <3>2 DEF TInv, TypeOK, CIRCUIT_BREAKER_DURATION
  <2>2. now < end
    BY <1>6, <2>1
  <2>3. PICK w \in Workers : breaker[w][t] >= end
    BY <1>1, <1>6, <2>2
  <2>4. breaker[w][t] \in Nat /\ breaker'[w][t] \in Nat
    BY <2>1
  <2>5. breaker'[w][t] >= end
    BY <2>1, <2>2, <2>3, <2>4
  <2> QED
    BY <2>5
<1>7. checked'[<<"cliff", t>>] = at
  OBVIOUS
<1>8. CliffSeen(t, C)'
  BY <1>2, <1>4, <1>5, <1>6, <1>7 DEF CliffSeen, Fell, Within
<1> QED
  BY <1>2, <1>8

\* A check answers for every row it was given.
LEMMA CliffChecked ==
    ASSUME TInv, Stamped, NEW q \in Requests, CheckCliff(q), NEW t \in Tokens, t = MyTrade(q).token
    PROVE  \E C \in SUBSET Committed(t)' : CliffSeen(t, C)'
<1> PICK u : u = request[q].worker
  OBVIOUS
<1> PICK C : C = Committed(t)
  OBVIOUS
<1> PICK end : end = now + CIRCUIT_BREAKER_DURATION
  OBVIOUS
<1>1. Typed /\ Kept(q)
  BY Parts
<1>2. /\ request[q].phase = "cliff" /\ trades' = trades /\ now' = now
      /\ CheckCliffEvent(Seen(q)) => breaker' = [breaker EXCEPT ![u][t] = end]
      /\ checked' = [checked EXCEPT ![<<"cliff", t>>] = now]
  BY DEF CheckCliff
<1>3. u \in Workers /\ now \in Nat /\ trades \in Seq(Trade) /\ end \in Int
  BY <1>1, <1>2 DEF Typed, Kept, CIRCUIT_BREAKER_DURATION
<1>4. checked'[<<"cliff", t>>] = now
  <2>1. <<"cliff", t>> \in Checks
    BY DEF Checks
  <2> QED
    BY <1>1, <1>2, <2>1 DEF Typed
<1>5. Committed(t)' = C /\ C = Seen(q) /\ C \in SUBSET DOMAIN trades
  BY <1>2 DEF Committed, Seen
<1>6. CliffSettled(t)' \subseteq C
  BY <1>5 DEF CliffSettled
<1>7. ASSUME Fell(Within(C, CLIFF_WINDOW, now)) PROVE \E w \in Workers : breaker'[w][t] >= end
  <2>1. CheckCliffEvent(C)
    BY <1>3, <1>5, <1>7, CliffFound
  <2>2. breaker' = [breaker EXCEPT ![u][t] = end]
    BY <1>2, <1>5, <2>1
  <2>3. breaker'[u][t] = end
    BY <1>1, <1>3, <2>2 DEF Typed
  <2> QED
    BY <1>3, <2>3
<1> PICK W : W = Within(C, CLIFF_WINDOW, now)
  OBVIOUS
<1>8. W = {i \in C : trades'[i].at \in (now - CLIFF_WINDOW) .. now}
  BY <1>2 DEF Within
<1>9. ASSUME \E first, latest \in W :
                 /\ \A i \in W : first <= i /\ i <= latest
                 /\ 10 * trades'[latest].price < 7 * trades'[first].price
      PROVE  Fell(W)
  BY <1>2, <1>9 DEF Fell
<1>10. CliffSeen(t, C)'
  BY <1>4, <1>5, <1>6, <1>7, <1>8, <1>9 DEF CliffSeen, Fell, Within
<1> QED
  BY <1>5, <1>10

LEMMA InitSettled ==
    ASSUME Init, NEW t \in Tokens
    PROVE  \E C \in SUBSET Committed(t) : CliffSeen(t, C)
<1>1. checked[<<"cliff", t>>] = -1
  BY DEF Init, Checks
<1>2. \A i \in Committed(t) : trades[i].at = 0
  BY HistoryAssumption DEF Init, Committed
<1>3. Within(Committed(t), CLIFF_WINDOW, -1) = {}
  BY <1>2 DEF Within
<1>4. CliffSettled(t) \subseteq Committed(t)
  BY DEF CliffSettled
<1>5. CliffSeen(t, Committed(t))
  BY <1>1, <1>3, <1>4 DEF CliffSeen, Fell
<1> QED
  BY <1>5

LEMMA CliffSteps ==
    ASSUME TInv, Stamped, PausesBounded, CliffsKnown, [Next]_vars
    PROVE  CliffsKnown'
<1> SUFFICES ASSUME ~lost', NEW t \in Tokens
             PROVE  \E C \in SUBSET Committed(t)' : CliffSeen(t, C)'
  BY DEF CliffsKnown
<1>1. TInv' /\ RowsStand
  BY NextTypes, RowSteps
<1>2. ~lost
  BY DEF Next, vars, history, TimePasses, FlushTrade, CommitTrade, CheckWash, CheckPump, CheckCliff,
         RequestFails, Restart, ReadBreakers
<1>3. PICK C \in SUBSET Committed(t) : CliffSeen(t, C)
  BY <1>2 DEF CliffsKnown
<1>4. CASE \E q \in Requests : CheckCliff(q) /\ t = MyTrade(q).token
  BY <1>4, CliffChecked
<1>5. CASE \A q \in Requests : CheckCliff(q) => t # MyTrade(q).token
  <2>1. CliffSettled(t)' \subseteq CliffSettled(t)
    <3> SUFFICES ASSUME NEW i \in CliffSettled(t)' PROVE i \in CliffSettled(t)
      OBVIOUS
    <3>1. /\ i \in Committed(t)'
          /\ \A q \in Requests : request'[q].phase # "idle" => request'[q].trade # i
      BY DEF CliffSettled
    <3>2. RowServed(t, i)
      BY <3>1, Serves
    <3>3. i \in Committed(t)
      BY <3>1, <3>2 DEF RowServed
    <3>4. ASSUME NEW q \in Requests, request[q].phase # "idle", request[q].trade = i PROVE FALSE
      <4>1. CheckCliff(q)
        BY <3>1, <3>2, <3>4 DEF RowServed
      <4>2. MyTrade(q).token = t
        BY <3>3, <3>4 DEF MyTrade, Committed
      <4> QED
        BY <1>5, <4>1, <4>2
    <3> QED
      BY <3>3, <3>4 DEF CliffSettled
  <2>2. checked'[<<"cliff", t>>] = checked[<<"cliff", t>>]
    <3>1. checked \in [Checks -> Int]
      BY DEF TInv, TypeOK
    <3>2. ASSUME NEW q \in Requests, NEW c, c # <<"cliff", t>>,
                 checked' = [checked EXCEPT ![c] = now]
          PROVE  checked'[<<"cliff", t>>] = checked[<<"cliff", t>>]
      BY <3>1, <3>2 DEF Checks
    <3>3. ASSUME NEW q \in Requests, CheckCliff(q)
          PROVE  checked'[<<"cliff", t>>] = checked[<<"cliff", t>>]
      <4> PICK k : k = MyTrade(q).token
        OBVIOUS
      <4>1. <<"cliff", k>> # <<"cliff", t>> /\ checked' = [checked EXCEPT ![<<"cliff", k>>] = now]
        BY <1>5, <3>3 DEF CheckCliff
      <4> QED
        BY <3>2, <4>1
    <3>4. ASSUME NEW q \in Requests, CheckPump(q)
          PROVE  checked'[<<"cliff", t>>] = checked[<<"cliff", t>>]
      <4> PICK k : k = MyTrade(q).token
        OBVIOUS
      <4>1. <<"pump", k>> # <<"cliff", t>> /\ checked' = [checked EXCEPT ![<<"pump", k>>] = now]
        BY <3>4 DEF CheckPump
      <4> QED
        BY <3>2, <4>1
    <3>5. ASSUME NEW q \in Requests, CheckWash(q)
          PROVE  checked'[<<"cliff", t>>] = checked[<<"cliff", t>>]
      <4> PICK k : k = MyTrade(q).token
        OBVIOUS
      <4> PICK x : x = MyTrade(q).trader
        OBVIOUS
      <4>1. <<"wash", k, x>> # <<"cliff", t>> /\ checked' = [checked EXCEPT ![<<"wash", k, x>>] = now]
        BY <3>5 DEF CheckWash
      <4> QED
        BY <3>2, <4>1
    <3>6. \/ checked' = checked
          \/ \E q \in Requests : CheckWash(q) \/ CheckPump(q) \/ CheckCliff(q)
      BY DEF Next, vars, history, TimePasses, FlushTrade, CommitTrade, RequestFails, Restart,
             ReadBreakers
    <3> QED
      BY <3>3, <3>4, <3>5, <3>6
  <2>3. ASSUME NEW w \in Workers PROVE breaker'[w][t] >= breaker[w][t] \/ now >= breaker[w][t]
    <3>1. /\ breaker[w][t] \in Nat /\ now \in Nat /\ breaker'[w][t] \in Nat
      BY <1>1 DEF TInv, TypeOK
    <3>2. ~Restart(w)
      BY DEF Restart
    <3>3. \/ breaker'[w][t] = breaker[w][t]
          \/ breaker'[w][t] = 0 /\ now >= breaker[w][t]
          \/ breaker'[w][t] = now + CIRCUIT_BREAKER_DURATION
      BY <3>2, BreakerSteps
    <3> QED
      BY <3>1, <3>3 DEF PausesBounded, CIRCUIT_BREAKER_DURATION
  <2>4. now <= now'
    <3>1. TInv /\ TInv'
      BY <1>1
    <3>2. \/ now' = now
          \/ \E later \in Times : TimePasses(later)
      BY DEF Next, vars, history, FlushTrade, CommitTrade, CheckWash, CheckPump, CheckCliff,
             RequestFails, Restart, ReadBreakers
    <3> QED
      BY <3>1, <3>2 DEF TInv, TypeOK, TimePasses
  <2>5. CliffSeen(t, C) /\ TInv'
    BY <1>1, <1>3
  <2> QED
    BY <1>1, <2>1, <2>2, <2>3, <2>4, <2>5, CliffStands
<1> QED
  BY <1>4, <1>5

\* Trades committed side by side, in any order of their checks, cannot hide a cliff: once
\* all are checked, the last check had every row in sight.
THEOREM CliffsAreFound == Spec => []NoCliffMissed
<1>1. Init => CliffsKnown
  BY InitSettled DEF CliffsKnown
<1>2. TInv /\ Stamped /\ PausesBounded /\ CliffsKnown /\ [Next]_vars => CliffsKnown'
  BY CliffSteps
<1>3. CliffsKnown => NoCliffMissed
  <2> SUFFICES ASSUME CliffsKnown, NEW t \in Tokens, NEW at, at = checked[<<"cliff", t>>],
                      Quiet(t), ~lost, Fell(Within(Committed(t), CLIFF_WINDOW, at)),
                      now < at + CIRCUIT_BREAKER_DURATION
               PROVE  \E w \in Workers : breaker[w][t] >= at + CIRCUIT_BREAKER_DURATION
    BY DEF NoCliffMissed
  <2>1. PICK C \in SUBSET Committed(t) : CliffSeen(t, C)
    BY DEF CliffsKnown
  <2>2. CliffSettled(t) = Committed(t)
    BY DEF CliffSettled, Committed, Quiet, MyTrade
  <2>3. C = Committed(t)
    BY <2>1, <2>2 DEF CliffSeen
  <2> QED
    BY <2>1, <2>3 DEF CliffSeen
<1> QED
  BY <1>1, <1>2, <1>3, TypeInvariance, TradesAreStamped, PausesAreBounded, PTL DEF Spec

-----------------------------------------------------------------------------
(***************************************************************************)
(* No wash trading is missed.                                              *)
(***************************************************************************)
\* What rows add up to depends on nothing but the rows.
LEMMA WashedStands ==
    ASSUME NEW W, \A i \in W : trades'[i] = trades[i], Washed(W)'
    PROVE  Washed(W)
<1> PICK B : B = Bought(W)
  OBVIOUS
<1> PICK S : S = Sold(W)
  OBVIOUS
<1>1. Bought(W)' = B /\ Sold(W)' = S /\ B \subseteq W /\ S \subseteq W
  BY DEF Bought, Sold
<1>2. /\ [i \in B |-> trades'[i].tokens] = [i \in B |-> trades[i].tokens]
      /\ [i \in S |-> trades'[i].tokens] = [i \in S |-> trades[i].tokens]
  BY <1>1
<1>3. TokensOf(B)' = TokensOf(B) /\ TokensOf(S)' = TokensOf(S)
  BY <1>2 DEF TokensOf
<1>4. TokensOf(Bought(W))' = TokensOf(B)' /\ TokensOf(Sold(W))' = TokensOf(S)'
  BY <1>1 DEF TokensOf
<1> QED
  BY <1>3, <1>4 DEF Washed

LEMMA WashStands ==
    ASSUME TInv, RowsStand, NEW t \in Tokens, NEW x \in Traders, NEW C, WashSeen(t, x, C),
           C \subseteq By(Committed(t), x), WashSettled(t, x)' \subseteq WashSettled(t, x),
           checked'[<<"wash", t, x>>] = checked[<<"wash", t, x>>],
           warned'[<<t, x>>] = warned[<<t, x>>]
    PROVE  C \in SUBSET By(Committed(t), x)' /\ WashSeen(t, x, C)'
<1> PICK at : at = checked[<<"wash", t, x>>]
  OBVIOUS
<1> PICK W : W = Within(C, WASH_TRADE_WINDOW, at)
  OBVIOUS
<1>1. \A i \in C : i \in Committed(t) /\ trades'[i] = trades[i] /\ trades[i].trader = x
  BY CommittedStand DEF By
<1>2. C \subseteq By(Committed(t), x)'
  BY <1>1, CommittedStand DEF By
<1>3. W = Within(C, WASH_TRADE_WINDOW, at)' /\ W \subseteq C
  BY <1>1 DEF Within
<1>4. checked'[<<"wash", t, x>>] = at
  OBVIOUS
<1>5. Washed(W)' => warned'[<<t, x>>] = at
  BY <1>1, <1>3, WashedStands DEF WashSeen
<1>6. WashSettled(t, x)' \subseteq C
  BY DEF WashSeen
<1>7. WashSeen(t, x, C)'
  BY <1>2, <1>3, <1>4, <1>5, <1>6 DEF WashSeen
<1> QED
  BY <1>2, <1>7

LEMMA WashChecked ==
    ASSUME TInv, Stamped, NEW q \in Requests, CheckWash(q), NEW t \in Tokens, NEW x \in Traders,
           t = MyTrade(q).token, x = MyTrade(q).trader
    PROVE  \E C \in SUBSET By(Committed(t), x)' : WashSeen(t, x, C)'
<1> PICK C : C = By(Committed(t), x)
  OBVIOUS
<1>1. Typed
  BY Parts
<1>2. /\ trades' = trades /\ now' = now
      /\ CheckWashTrading(Seen(q), x) => warned' = [warned EXCEPT ![<<t, x>>] = now]
      /\ checked' = [checked EXCEPT ![<<"wash", t, x>>] = now]
  BY DEF CheckWash
<1>3. now \in Nat /\ trades \in Seq(Trade)
  BY <1>1 DEF Typed
<1>4. checked'[<<"wash", t, x>>] = now
  <2>1. <<"wash", t, x>> \in Checks
    BY DEF Checks
  <2> QED
    BY <1>1, <1>2, <2>1 DEF Typed
<1>5. /\ By(Committed(t), x)' = C /\ Seen(q) = Committed(t) /\ C = By(Seen(q), x)
      /\ Seen(q) \in SUBSET DOMAIN trades
  BY <1>2 DEF By, Committed, Seen
<1>6. WashSettled(t, x)' \subseteq C
  BY <1>5 DEF WashSettled
<1> PICK W : W = Within(C, WASH_TRADE_WINDOW, now)
  OBVIOUS
<1>7. W = Within(C, WASH_TRADE_WINDOW, now)' /\ \A i \in W : trades'[i] = trades[i]
  BY <1>2 DEF Within
<1>8. ASSUME Washed(W) PROVE warned'[<<t, x>>] = now
  <2>1. CheckWashTrading(Seen(q), x)
    BY <1>3, <1>5, <1>8, WashFound
  <2> QED
    BY <1>1, <1>2, <2>1 DEF Typed
<1>9. Washed(W)' => warned'[<<t, x>>] = now
  BY <1>7, <1>8, WashedStands
<1>10. WashSeen(t, x, C)'
  BY <1>2, <1>4, <1>5, <1>6, <1>7, <1>9 DEF WashSeen
<1> QED
  BY <1>5, <1>10

LEMMA InitWash ==
    ASSUME Init, NEW t \in Tokens, NEW x \in Traders
    PROVE  \E C \in SUBSET By(Committed(t), x) : WashSeen(t, x, C)
<1>1. checked[<<"wash", t, x>>] = -1 /\ warned[<<t, x>>] = -1
  BY DEF Init, Checks
<1>2. WashSettled(t, x) \subseteq By(Committed(t), x)
  BY DEF WashSettled
<1>3. WashSeen(t, x, By(Committed(t), x))
  BY <1>1, <1>2 DEF WashSeen
<1> QED
  BY <1>3

LEMMA WashSteps ==
    ASSUME TInv, Stamped, WashKnown, [Next]_vars
    PROVE  WashKnown'
<1> SUFFICES ASSUME ~lost', NEW t \in Tokens, NEW x \in Traders
             PROVE  \E C \in SUBSET By(Committed(t), x)' : WashSeen(t, x, C)'
  BY DEF WashKnown
<1>1. RowsStand
  BY RowSteps
<1>2. ~lost
  BY DEF Next, vars, history, TimePasses, FlushTrade, CommitTrade, CheckWash, CheckPump, CheckCliff,
         RequestFails, Restart, ReadBreakers
<1>3. PICK C \in SUBSET By(Committed(t), x) : WashSeen(t, x, C)
  BY <1>2 DEF WashKnown
<1>4. CASE \E q \in Requests : CheckWash(q) /\ t = MyTrade(q).token /\ x = MyTrade(q).trader
  BY <1>4, WashChecked
<1>5. CASE \A q \in Requests : CheckWash(q) => t # MyTrade(q).token \/ x # MyTrade(q).trader
  <2>1. WashSettled(t, x)' \subseteq WashSettled(t, x)
    <3> SUFFICES ASSUME NEW i \in WashSettled(t, x)' PROVE i \in WashSettled(t, x)
      OBVIOUS
    <3>1. /\ i \in Committed(t)' /\ trades'[i].trader = x
          /\ \A q \in Requests : request'[q].phase = "wash" => request'[q].trade # i
      BY DEF WashSettled, By
    <3>2. RowServed(t, i)
      BY <3>1, Serves
    <3>3. i \in Committed(t) /\ trades[i].trader = x
      <4>1. i \in Committed(t)
        BY <3>1, <3>2 DEF RowServed
      <4> QED
        BY <1>1, <3>1, <4>1, CommittedStand
    <3>4. ASSUME NEW q \in Requests, request[q].phase = "wash", request[q].trade = i PROVE FALSE
      <4>1. ~CheckCliff(q)
        BY <3>4 DEF CheckCliff
      <4>2. CheckWash(q)
        BY <3>1, <3>2, <3>4, <4>1 DEF RowServed
      <4>3. MyTrade(q).token = t /\ MyTrade(q).trader = x
        BY <3>3, <3>4 DEF MyTrade, Committed
      <4> QED
        BY <1>5, <4>2, <4>3
    <3> QED
      BY <3>3, <3>4 DEF WashSettled, By
  <2>2. /\ checked'[<<"wash", t, x>>] = checked[<<"wash", t, x>>]
        /\ warned'[<<t, x>>] = warned[<<t, x>>]
    <3>1. checked \in [Checks -> Int] /\ warned \in [Tokens \X Traders -> Int]
      BY DEF TInv, TypeOK
    <3>2. ASSUME NEW c, c # <<"wash", t, x>>, checked' = [checked EXCEPT ![c] = now]
          PROVE  checked'[<<"wash", t, x>>] = checked[<<"wash", t, x>>]
      BY <3>1, <3>2 DEF Checks
    <3>3. ASSUME NEW q \in Requests, CheckCliff(q)
          PROVE  /\ checked'[<<"wash", t, x>>] = checked[<<"wash", t, x>>]
                 /\ warned' = warned
      <4> PICK k : k = MyTrade(q).token
        OBVIOUS
      <4>1. <<"cliff", k>> # <<"wash", t, x>> /\ checked' = [checked EXCEPT ![<<"cliff", k>>] = now]
        BY <3>3 DEF CheckCliff
      <4> QED
        BY <3>2, <3>3, <4>1 DEF CheckCliff
    <3>4. ASSUME NEW q \in Requests, CheckPump(q)
          PROVE  /\ checked'[<<"wash", t, x>>] = checked[<<"wash", t, x>>]
                 /\ warned' = warned
      <4> PICK k : k = MyTrade(q).token
        OBVIOUS
      <4>1. <<"pump", k>> # <<"wash", t, x>> /\ checked' = [checked EXCEPT ![<<"pump", k>>] = now]
        BY <3>4 DEF CheckPump
      <4> QED
        BY <3>2, <3>4, <4>1 DEF CheckPump
    <3>5. ASSUME NEW q \in Requests, CheckWash(q)
          PROVE  /\ checked'[<<"wash", t, x>>] = checked[<<"wash", t, x>>]
                 /\ warned'[<<t, x>>] = warned[<<t, x>>]
      <4> PICK k : k = MyTrade(q).token
        OBVIOUS
      <4> PICK y : y = MyTrade(q).trader
        OBVIOUS
      <4>1. k # t \/ y # x
        BY <1>5, <3>5
      <4>2. /\ <<"wash", k, y>> # <<"wash", t, x>>
            /\ checked' = [checked EXCEPT ![<<"wash", k, y>>] = now]
        BY <3>5, <4>1 DEF CheckWash
      <4>3. /\ <<k, y>> # <<t, x>>
            /\ warned' = warned \/ warned' = [warned EXCEPT ![<<k, y>>] = now]
        BY <3>5, <4>1 DEF CheckWash
      <4>4. warned'[<<t, x>>] = warned[<<t, x>>]
        BY <3>1, <4>3
      <4> QED
        BY <3>2, <4>2, <4>4
    <3>6. \/ checked' = checked /\ warned' = warned
          \/ \E q \in Requests : CheckWash(q) \/ CheckPump(q) \/ CheckCliff(q)
      BY DEF Next, vars, history, TimePasses, FlushTrade, CommitTrade, RequestFails, Restart,
             ReadBreakers
    <3> QED
      BY <3>3, <3>4, <3>5, <3>6
  <2>3. C \subseteq By(Committed(t), x) /\ WashSeen(t, x, C)
    BY <1>3
  <2> QED
    BY <1>1, <2>1, <2>2, <2>3, WashStands
<1> QED
  BY <1>4, <1>5

\* Nor can a wallet's trades hide wash trading from all of their checks: the last one had
\* every committed row of the wallet in sight.
THEOREM WashTradingIsFound == Spec => []NoWashMissed
<1>1. Init => WashKnown
  BY InitWash DEF WashKnown
<1>2. TInv /\ Stamped /\ WashKnown /\ [Next]_vars => WashKnown'
  BY WashSteps
<1>3. WashKnown => NoWashMissed
  <2> SUFFICES ASSUME WashKnown, NEW t \in Tokens, NEW x \in Traders, NEW at,
                      at = checked[<<"wash", t, x>>], Quiet(t), ~lost,
                      Washed(Within(By(Committed(t), x), WASH_TRADE_WINDOW, at))
               PROVE  warned[<<t, x>>] = at
    BY DEF NoWashMissed
  <2>1. PICK C \in SUBSET By(Committed(t), x) : WashSeen(t, x, C)
    BY DEF WashKnown
  <2>2. WashSettled(t, x) = By(Committed(t), x)
    BY DEF WashSettled, By, Committed, Quiet, MyTrade
  <2>3. C = By(Committed(t), x)
    BY <2>1, <2>2 DEF WashSeen
  <2> QED
    BY <2>1, <2>3 DEF WashSeen
<1> QED
  BY <1>1, <1>2, <1>3, TypeInvariance, TradesAreStamped, PTL DEF Spec
===============================================================================
