----------------------------- MODULE RateLimiter -----------------------------
(***************************************************************************)
(* core/rate_limit.py: how many requests of a client the API lets through. *)
(* Both kinds of limiter count those of the last window_seconds; which one *)
(* an endpoint has is decided by the environment:                          *)
(*                                                                         *)
(*   - in development each endpoint's limiter has a dictionary of its own  *)
(*     in every worker process, and records what that worker lets through; *)
(*   - elsewhere there is one sorted set in Redis for each client and      *)
(*     prefix, shared by the workers and by all endpoints whose limiter    *)
(*     has no prefix of its own (registration, heartbeat, reports, votes,  *)
(*     scans, contracts, persons), and it records every request.           *)
(*                                                                         *)
(* A list in memory grows by the present instant, so it is in time order:  *)
(* it is modelled as the set of its entries, each an instant with a number *)
(* that tells the entries of one instant apart; its length is the set's    *)
(* cardinality and its last entry one of the greatest.                     *)
(*                                                                         *)
(* In Redis the members are instants: requests of one instant are one      *)
(* member.  A request reads the clock first, and its commands reach Redis  *)
(* as one transaction some time later: there is a timeout for connecting,  *)
(* none for the answer.  The reply may be lost; the client library may     *)
(* then send the same commands again, or give up.  Every limiter of the    *)
(* code has the same window; what the response headers say is left out.    *)
(***************************************************************************)
EXTENDS Integers, Sequences, FiniteSets

CONSTANTS
    Workers,            \* processes of the API
    Clients,            \* addresses
    Endpoints,          \* endpoints whose limiters share a prefix
    MaxRequests,        \* MaxRequests[e]: how many the limiter of e lets through
    Window,             \* window_seconds, in units of the clock
    Second,             \* a second, in units of the clock
    InFlight,           \* requests under way at a time, on any worker
    NoCall,             \* no request is under way
    MaxTime,            \* bound: of the clock
    MaxVerdicts         \* bound: verdicts of the limiters

ASSUME RateLimiterAssumption ==
    /\ MaxRequests \in [Endpoints -> Nat \ {0}]
    /\ Window \in Nat \ {0} /\ Second \in Nat
    /\ MaxTime \in Nat /\ MaxVerdicts \in Nat
    /\ "redis" \notin Workers /\ "nobody" \notin Workers

VARIABLES
    env,                \* settings.env
    now,
    requests,           \* RateLimiter._requests: entries by worker, endpoint and client
    lastCleanup,        \* RateLimiter._last_cleanup by worker and endpoint
    zset,               \* Redis: the sorted set of each client
    expires,            \* Redis: when it expires
    flight,             \* the requests that have read the clock
    verdicts            \* history: what was decided about requests, in order

vars == <<env, now, requests, lastCleanup, zset, expires, flight, verdicts>>

\* by: the worker whose memory decided, "redis", or "nobody" when Redis was given up;
\* prompt: Redis did within a second of the clock's reading.
Verdict == [client: Clients, endpoint: Endpoints, at: Nat, ok: BOOLEAN,
            by: Workers \cup {"redis", "nobody"}, prompt: BOOLEAN]
Flight == [client: Clients, endpoint: Endpoints, at: Nat]
Entry == (0 .. MaxTime) \X (1 .. MaxVerdicts)

\* Plausible slips in the operators below, for the mutation runs.
RecentAt(s, t) == {x \in s : x[1] > t - Window - 1}
LiveSinceAfter(c, t) == {x \in zset[c] : x > t - Window + 1}
RoomInclusive(count, e) == count <= MaxRequests[e]

-----------------------------------------------------------------------------
\* The monotonic clock is far from 0 when the API starts: the first check cleans up.
Init ==
    /\ env \in {"development", "production"} /\ now = 0
    /\ requests = [w \in Workers |-> [e \in Endpoints |-> [c \in Clients |-> {}]]]
    /\ lastCleanup = [w \in Workers |-> [e \in Endpoints |-> -Window]]
    /\ zset = [c \in Clients |-> {}]
    /\ expires = [c \in Clients |-> 0]
    /\ flight \in [InFlight -> {NoCall}]
    /\ verdicts = <<>>

Decided(f, ok, by) ==
    /\ Len(verdicts) < MaxVerdicts
    /\ verdicts' = Append(verdicts,
          [client |-> f.client, endpoint |-> f.endpoint, at |-> f.at, ok |-> ok,
           by |-> by, prompt |-> by = "redis" /\ now - f.at < Second])

\* A limiter with `count` requests in the window lets one more through.
Room(count, e) == count < MaxRequests[e]

-----------------------------------------------------------------------------
\* The clients a cleanup forgets, those whose last entry is too old: an absent key and an
\* empty list are the same.
Stale(w, e) == {c \in Clients : \A x \in requests[w][e][c] : x[1] <= now - Window}

\* At most one cleanup in a window.
Cleaned(w, e) ==
    IF now - lastCleanup[w][e] < Window THEN requests[w][e]
    ELSE [c \in Clients |-> IF c \in Stale(w, e) THEN {} ELSE requests[w][e][c]]

Recent(s, t) == {x \in s : x[1] > t - Window}

\* RateLimiter.check runs without an await.  A refused request is not recorded.
CheckMemory(w, c, e) ==
    /\ env = "development"
    /\ LET recent == Recent(Cleaned(w, e)[c], now)
           ok == Room(Cardinality(recent), e)
       IN  /\ requests' = [requests EXCEPT ![w][e] =
                [Cleaned(w, e) EXCEPT ![c] = IF ok THEN recent \cup {<<now, Len(verdicts) + 1>>}
                                            ELSE recent]]
           /\ lastCleanup' = [lastCleanup EXCEPT ![w][e] =
                IF now - @ < Window THEN @ ELSE now]
           /\ Decided([client |-> c, endpoint |-> e, at |-> now], ok, w)
    /\ UNCHANGED <<env, now, zset, expires, flight>>

-----------------------------------------------------------------------------
\* RedisRateLimiter.check computes the scores it will ask Redis about ...
ReadClock(q, c, e) ==
    /\ env = "production" /\ flight[q] = NoCall
    /\ flight' = [flight EXCEPT ![q] = [client |-> c, endpoint |-> e, at |-> now]]
    /\ UNCHANGED <<env, now, requests, lastCleanup, zset, expires, verdicts>>

\* zremrangebyscore
LiveSince(c, t) == {x \in zset[c] : x > t - Window}

\* ... and sends its four commands, which Redis executes together.  If the reply is not
\* heard the request is still under way: it asks again, or gives up.
Execute(q, heard) ==
    LET f == flight[q]
        live == LiveSince(f.client, f.at)
    IN  /\ f # NoCall
        /\ zset' = [zset EXCEPT ![f.client] = live \cup {f.at}]
        /\ expires' = [expires EXCEPT ![f.client] = now + Window + Second]
        /\ Decided(f, Room(Cardinality(live), f.endpoint), "redis")
        /\ flight' = IF heard THEN [flight EXCEPT ![q] = NoCall] ELSE flight
        /\ UNCHANGED <<env, now, requests, lastCleanup>>

\* No reply from Redis, executed or not: the request is let through.
FailOpen(q) ==
    /\ flight[q] # NoCall
    /\ Decided(flight[q], TRUE, "nobody")
    /\ flight' = [flight EXCEPT ![q] = NoCall]
    /\ UNCHANGED <<env, now, requests, lastCleanup, zset, expires>>

Tick ==
    /\ now < MaxTime
    /\ now' = now + 1
    /\ zset' = [c \in Clients |-> IF expires[c] <= now + 1 THEN {} ELSE zset[c]]
    /\ UNCHANGED <<env, requests, lastCleanup, expires, flight, verdicts>>

-----------------------------------------------------------------------------
Next ==
    \/ \E w \in Workers, c \in Clients, e \in Endpoints : CheckMemory(w, c, e)
    \/ \E q \in InFlight, c \in Clients, e \in Endpoints : ReadClock(q, c, e)
    \/ \E q \in InFlight, heard \in BOOLEAN : Execute(q, heard)
    \/ \E q \in InFlight : FailOpen(q)
    \/ Tick

Spec == Init /\ [][Next]_vars

-----------------------------------------------------------------------------
\* A limiter's list in memory never holds more requests than it lets through, however
\* cleanups and checks alternate; the rest have their types.
TypeOK ==
    /\ env \in {"development", "production"} /\ now \in 0 .. MaxTime
    /\ requests \in [Workers -> [Endpoints -> [Clients -> SUBSET Entry]]]
    /\ \A w \in Workers, e \in Endpoints, c \in Clients :
          Cardinality(requests[w][e][c]) <= MaxRequests[e]
    /\ lastCleanup \in [Workers -> [Endpoints -> Int]]
    /\ zset \in [Clients -> SUBSET (0 .. MaxTime)] /\ expires \in [Clients -> Nat]
    /\ flight \in [InFlight -> Flight \cup {NoCall}]
    /\ verdicts \in Seq(Verdict) /\ Len(verdicts) <= MaxVerdicts

\* The requests of c to e let through of the window that ends at t.
LetThrough(c, e, t) ==
    {j \in DOMAIN verdicts :
        /\ verdicts[j].client = c /\ verdicts[j].endpoint = e /\ verdicts[j].ok
        /\ verdicts[j].at > t - Window /\ verdicts[j].at <= t}

\* Redis executed it within the second by which a set outlives its window, and had not
\* executed a request from after t before: that may have removed members of the window.
InTime(j, t) ==
    /\ verdicts[j].prompt
    /\ \A k \in 1 .. j - 1 : verdicts[k].by = "redis" => verdicts[k].at <= t

\* No worker's memory lets more requests than the limiter's maximum through in a window,
\* wherever it ends; Redis, for all workers together, none at more instants than that.
\* Requests that no limiter decided are not counted, nor those that came too late.
WithinLimit ==
    \A c \in Clients, e \in Endpoints, t \in 0 .. MaxTime :
        IF env = "development"
        THEN \A w \in Workers :
                Cardinality({j \in LetThrough(c, e, t) : verdicts[j].by = w}) <= MaxRequests[e]
        ELSE Cardinality({verdicts[j].at : j \in
                {j \in LetThrough(c, e, t) : verdicts[j].by = "redis" /\ InTime(j, t)}})
                <= MaxRequests[e]

\* Whoever is refused was counted as often as the limiter lets through: in development by
\* that worker, whose requests to that endpoint were let through, so that whoever slows
\* down is served again; by Redis at that many instants, of requests to whichever
\* endpoint, refused ones too.
RefusedWasCounted ==
    \A i \in DOMAIN verdicts : ~verdicts[i].ok =>
        LET v == verdicts[i]
            before == {j \in 1 .. i - 1 : /\ verdicts[j].client = v.client
                                          /\ verdicts[j].by = v.by
                                          /\ verdicts[j].at > v.at - Window}
        IN  MaxRequests[v.endpoint] <=
            IF env = "development"
            THEN Cardinality({j \in before : verdicts[j].ok /\ verdicts[j].endpoint = v.endpoint})
            ELSE Cardinality({verdicts[j].at : j \in before})

=============================================================================
