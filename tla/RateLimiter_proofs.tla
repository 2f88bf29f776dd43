------------------------- MODULE RateLimiter_proofs -------------------------
(***************************************************************************)
(* Proofs about the rate limiters: no window has more requests let through *)
(* than the maximum, and whoever is refused was counted that often.  Both  *)
(* are about the verdicts; the inductive invariant says what the limiters' *)
(* own state remembers of them: a list in memory holds just the requests   *)
(* that were let through and may still count, a sorted set in Redis every  *)
(* instant of its client that no later request has pushed out and whose    *)
(* time has not come.                                                      *)
(***************************************************************************)
EXTENDS RateLimiter, FiniteSetTheorems, TLAPS

Instants == 0 .. MaxTime
Verdicts == DOMAIN verdicts
Judges == Workers \cup {"redis", "nobody"}

\* Nothing happened later than now; requests are under way to Redis only.
Clocks ==
    /\ \A j \in Verdicts : verdicts[j].at \in 0 .. now
    /\ \A q \in InFlight : flight[q] # NoCall => env = "production" /\ flight[q].at \in 0 .. now

\* The list in memory: what was let through and may still count.
Entered(x, w, e, c) ==
    /\ x[2] \in Verdicts
    /\ verdicts[x[2]].client = c /\ verdicts[x[2]].endpoint = e /\ verdicts[x[2]].by = w
    /\ verdicts[x[2]].at = x[1] /\ verdicts[x[2]].ok
MemoryHolds ==
    /\ \A w \in Workers, e \in Endpoints, c \in Clients :
          \A x \in requests[w][e][c] : Entered(x, w, e, c)
    /\ \A j \in Verdicts :
          verdicts[j].by \in Workers /\ verdicts[j].ok /\ verdicts[j].at > now - Window =>
             <<verdicts[j].at, j>> \in
                requests[verdicts[j].by][verdicts[j].endpoint][verdicts[j].client]

\* The sorted set in Redis.
Executed == {j \in Verdicts : verdicts[j].by = "redis"}
PushedOut(j) == \E k \in Executed : verdicts[k].at >= verdicts[j].at + Window
RedisHolds ==
    /\ \A c \in Clients : \A x \in zset[c] :
          \E j \in Executed : verdicts[j].client = c /\ verdicts[j].at = x
    /\ \A j \in Executed :
          /\ \/ verdicts[j].at \in zset[verdicts[j].client]
             \/ PushedOut(j)
             \/ now >= verdicts[j].at + Window + Second
          /\ expires[verdicts[j].client] >= verdicts[j].at + Window + Second

\* The requests let through in the window that ends at t.
Served(w, c, e, t) == {j \in LetThrough(c, e, t) : verdicts[j].by = w}
Timely(c, e, t) == {j \in LetThrough(c, e, t) : verdicts[j].by = "redis" /\ InTime(j, t)}
OnTime(c, e, t) == {verdicts[j].at : j \in Timely(c, e, t)}

TInv == TypeOK /\ Clocks /\ MemoryHolds

\* The requests that the refusal of the i-th may count.
Before(i) == {j \in 1 .. i - 1 : /\ verdicts[j].client = verdicts[i].client
                                 /\ verdicts[j].by = verdicts[i].by
                                 /\ verdicts[j].at > verdicts[i].at - Window}
Allowed(i) == {j \in Before(i) : verdicts[j].ok /\ verdicts[j].endpoint = verdicts[i].endpoint}
Counted(i) == MaxRequests[verdicts[i].endpoint] <=
                 IF env = "development" THEN Cardinality(Allowed(i))
                 ELSE Cardinality({verdicts[j].at : j \in Before(i)})

-----------------------------------------------------------------------------
LEMMA InstantsFinite == IsFiniteSet(Instants)
<1>1. 0 \in Int /\ MaxTime \in Int
  BY RateLimiterAssumption
<1>2. IsFiniteSet(0 .. MaxTime)
  BY <1>1, FS_Interval
<1> QED
  BY <1>2 DEF Instants

LEMMA VerdictsFinite == ASSUME TypeOK PROVE IsFiniteSet(Verdicts)
<1>1. Len(verdicts) \in Nat /\ Verdicts = 1 .. Len(verdicts)
  BY DEF TypeOK, Verdicts
<1> QED
  BY <1>1, FS_Interval

\* A limiter's list is finite, and so is what is left of it.
LEMMA EntriesFinite ==
    ASSUME TInv, NEW w \in Workers, NEW e \in Endpoints, NEW c \in Clients
    PROVE  /\ IsFiniteSet(requests[w][e][c])
           /\ \A T \in SUBSET requests[w][e][c] :
                 IsFiniteSet(T) /\ Cardinality(T) <= Cardinality(requests[w][e][c])
<1>1. requests[w][e][c] \in SUBSET {<<verdicts[j].at, j>> : j \in Verdicts}
  <2> SUFFICES ASSUME NEW x \in requests[w][e][c]
               PROVE  x \in {<<verdicts[j].at, j>> : j \in Verdicts}
    OBVIOUS
  <2>1. x \in (0 .. MaxTime) \X (1 .. MaxVerdicts)
    BY DEF TInv, TypeOK, Entry
  <2>2. x[2] \in Verdicts /\ verdicts[x[2]].at = x[1]
    BY DEF TInv, MemoryHolds, Entered
  <2> QED
    BY <2>1, <2>2
<1> DEFINE entry == [j \in Verdicts |-> <<verdicts[j].at, j>>]
           entries == {<<verdicts[j].at, j>> : j \in Verdicts}
<1>2. entry \in Surjection(Verdicts, entries)
  BY DEF Surjection
<1> HIDE DEF entry
<1>3. IsFiniteSet(entries)
  BY <1>2, VerdictsFinite, FS_Surjection DEF TInv
<1>4. IsFiniteSet(requests[w][e][c])
  BY <1>1, <1>3, FS_Subset
<1> QED
  BY <1>4, FS_Subset

\* One more verdict: the n-th, on the request f.
Adds(n, f, ok, by) ==
    /\ verdicts' \in Seq(Verdict) /\ Len(verdicts') <= MaxVerdicts
    /\ n \in 1 .. MaxVerdicts /\ n \notin Verdicts /\ Verdicts = 1 .. n - 1
    /\ Verdicts' = Verdicts \cup {n}
    /\ verdicts'[n].client = f.client /\ verdicts'[n].endpoint = f.endpoint
    /\ verdicts'[n].at = f.at /\ verdicts'[n].ok = ok /\ verdicts'[n].by = by
    /\ verdicts'[n].prompt => now - f.at < Second
    /\ \A j \in Verdicts : verdicts'[j] = verdicts[j]

LEMMA NewVerdict ==
    ASSUME TypeOK, NEW f \in Flight, NEW ok \in BOOLEAN, NEW by \in Judges,
           Decided(f, ok, by), NEW n, n = Len(verdicts) + 1
    PROVE  Adds(n, f, ok, by)
<1> PICK r : r = [client |-> f.client, endpoint |-> f.endpoint, at |-> f.at, ok |-> ok,
                  by |-> by, prompt |-> by = "redis" /\ now - f.at < Second]
  OBVIOUS
<1>1. r \in Verdict
  BY DEF Verdict, Flight, Judges
<1>2. verdicts' = Append(verdicts, r) /\ Len(verdicts) < MaxVerdicts
  BY DEF Decided
<1>3. verdicts \in Seq(Verdict) /\ Len(verdicts) \in Nat /\ Verdicts = 1 .. Len(verdicts)
  BY DEF TypeOK, Verdicts
<1>4. /\ verdicts' \in Seq(Verdict) /\ Len(verdicts') = n
      /\ verdicts'[n] = r /\ \A j \in Verdicts : verdicts'[j] = verdicts[j]
  BY <1>1, <1>2, <1>3
<1>5. Verdicts' = 1 .. n
  BY <1>4 DEF Verdicts
<1>6. n \in 1 .. MaxVerdicts /\ n \notin Verdicts /\ Verdicts = 1 .. n - 1
  BY <1>2, <1>3, RateLimiterAssumption
<1>7. Verdicts' = Verdicts \cup {n}
  BY <1>3, <1>5
<1>8. Len(verdicts') <= MaxVerdicts
  BY <1>4, <1>6
<1>9. /\ r.client = f.client /\ r.endpoint = f.endpoint /\ r.at = f.at /\ r.ok = ok
      /\ r.by = by /\ (r.prompt => now - f.at < Second)
  OBVIOUS
<1>10. Adds(n, f, ok, by) <=>
          /\ r.client = f.client /\ r.endpoint = f.endpoint /\ r.at = f.at /\ r.ok = ok
          /\ r.by = by /\ (r.prompt => now - f.at < Second)
  BY <1>4, <1>6, <1>7, <1>8 DEF Adds
<1> QED
  BY <1>9, <1>10

\* A verdict's record.
LEMMA VerdictFields ==
    ASSUME TypeOK, NEW j \in Verdicts
    PROVE  /\ verdicts[j].client \in Clients /\ verdicts[j].endpoint \in Endpoints
           /\ verdicts[j].at \in Nat /\ verdicts[j].ok \in BOOLEAN /\ verdicts[j].by \in Judges
<1>1. verdicts[j] \in Verdict
  BY DEF TypeOK, Verdicts
<1> QED
  BY <1>1 DEF Verdict, Judges

-----------------------------------------------------------------------------
(***************************************************************************)
(* Types, clocks and the lists in memory.                                  *)
(***************************************************************************)
LEMMA InitTypes == Init => TInv
<1> SUFFICES ASSUME Init PROVE TInv
  OBVIOUS
<1>1. Verdicts = {}
  BY DEF Init, Verdicts
<1>2. TypeOK
  <2>1. \A e \in Endpoints : MaxRequests[e] \in Nat
    BY RateLimiterAssumption
  <2>2. \A w \in Workers, e \in Endpoints, c \in Clients : Cardinality(requests[w][e][c]) = 0
    BY FS_EmptySet DEF Init
  <2> QED
    BY <2>1, <2>2, RateLimiterAssumption DEF Init, TypeOK
<1>3. Clocks
  BY <1>1 DEF Init, Clocks
<1>4. MemoryHolds
  BY <1>1 DEF Init, MemoryHolds
<1> QED
  BY <1>2, <1>3, <1>4 DEF TInv

\* The lists of one limiter, replaced.
LEMMA ReplacedLists ==
    ASSUME NEW s \in [Workers -> [Endpoints -> [Clients -> SUBSET Entry]]],
           NEW w \in Workers, NEW e \in Endpoints, NEW l \in [Clients -> SUBSET Entry],
           NEW r, r = [s EXCEPT ![w][e] = l]
    PROVE  /\ r \in [Workers -> [Endpoints -> [Clients -> SUBSET Entry]]]
           /\ \A v \in Workers, d \in Endpoints :
                 r[v][d] = IF v = w /\ d = e THEN l ELSE s[v][d]
<1> QED
  OBVIOUS

\* What a check in memory does to the lists.
Checked(w, c, e, n, S, ok) ==
    /\ env = "development" /\ env' = env /\ now' = now /\ flight' = flight
    /\ zset' = zset /\ expires' = expires
    /\ lastCleanup' \in [Workers -> [Endpoints -> Int]]
    /\ S = Recent(requests[w][e][c], now) /\ ok = Room(Cardinality(S), e) /\ ok \in BOOLEAN
    /\ \A v \in Workers, d \in Endpoints, b \in Clients :
          ~(v = w /\ d = e /\ b = c) =>
             /\ requests'[v][d][b] \subseteq requests[v][d][b]
             /\ \A x \in requests[v][d][b] : x[1] > now - Window => x \in requests'[v][d][b]
    /\ requests'[w][e][c] = S \cup {x \in {<<now, n>>} : ok}
    /\ requests' \in [Workers -> [Endpoints -> [Clients -> SUBSET Entry]]]
Asked(c, e) == [client |-> c, endpoint |-> e, at |-> now]

LEMMA CheckMemoryStep ==
    ASSUME TInv, NEW w \in Workers, NEW c \in Clients, NEW e \in Endpoints,
           CheckMemory(w, c, e), NEW n, n = Len(verdicts) + 1,
           NEW S, S = Recent(requests[w][e][c], now), NEW ok, ok = Room(Cardinality(S), e)
    PROVE  Checked(w, c, e, n, S, ok) /\ Adds(n, Asked(c, e), ok, w)
<1> DEFINE cleaned == Cleaned(w, e)
<1>1. /\ cleaned \in [Clients -> SUBSET Entry]
      /\ \A b \in Clients :
            /\ cleaned[b] \subseteq requests[w][e][b]
            /\ \A x \in requests[w][e][b] : x[1] > now - Window => x \in cleaned[b]
  <2>1. requests[w][e] \in [Clients -> SUBSET Entry]
    BY DEF TInv, TypeOK
  <2>2. \/ cleaned = [b \in Clients |-> IF b \in Stale(w, e) THEN {} ELSE requests[w][e][b]]
        \/ cleaned = requests[w][e]
    BY DEF Cleaned
  <2>3. ASSUME NEW b \in Stale(w, e), NEW x \in requests[w][e][b], x[1] > now - Window
        PROVE  FALSE
    <3>1. x[1] <= now - Window
      BY <2>3 DEF Stale
    <3>2. x[1] \in Int /\ now - Window \in Int
      <4>1. b \in Clients
        BY DEF Stale
      <4>2. x \in Entry
        BY <2>1, <4>1
      <4> QED
        BY <4>2, RateLimiterAssumption DEF Entry, TInv, TypeOK
    <3> QED
      BY <2>3, <3>1, <3>2
  <2> QED
    BY <2>1, <2>2, <2>3
<1>2. Recent(cleaned[c], now) = S
  BY <1>1 DEF Recent
<1> PICK new : new = S \cup {x \in {<<now, n>>} : ok}
  OBVIOUS
<1> PICK lists : lists = [cleaned EXCEPT ![c] = new]
  OBVIOUS
<1>3. requests' = [requests EXCEPT ![w][e] = lists] /\ Decided(Asked(c, e), ok, w)
  BY <1>2 DEF CheckMemory, Asked
<1> HIDE DEF cleaned
<1>4. ok \in BOOLEAN /\ now \in 0 .. MaxTime /\ MaxTime \in Nat
  BY RateLimiterAssumption DEF Room, TInv, TypeOK
<1>5. Adds(n, Asked(c, e), ok, w)
  <2>1. Asked(c, e) \in Flight
    BY <1>4 DEF Asked, Flight
  <2>2. w \in Judges
    BY DEF Judges
  <2> QED
    BY <1>3, <1>4, <2>1, <2>2, NewVerdict DEF TInv
<1>6. new \subseteq Entry
  <2>1. n \in 1 .. MaxVerdicts
    BY <1>5 DEF Adds
  <2>2. S \subseteq Entry
    BY DEF Recent, TInv, TypeOK
  <2> QED
    BY <1>4, <2>1, <2>2 DEF Entry
<1>7. /\ lists \in [Clients -> SUBSET Entry]
      /\ \A b \in Clients : lists[b] = IF b = c THEN new ELSE cleaned[b]
  BY <1>1, <1>6
<1>8. /\ requests' \in [Workers -> [Endpoints -> [Clients -> SUBSET Entry]]]
      /\ \A v \in Workers, d \in Endpoints :
            requests'[v][d] = IF v = w /\ d = e THEN lists ELSE requests[v][d]
  BY <1>3, <1>7, ReplacedLists DEF TInv, TypeOK
<1>9. requests'[w][e][c] = new
  BY <1>7, <1>8
<1>10. ASSUME NEW v \in Workers, NEW d \in Endpoints, NEW b \in Clients,
              ~(v = w /\ d = e /\ b = c)
       PROVE  /\ requests'[v][d][b] \subseteq requests[v][d][b]
              /\ \A x \in requests[v][d][b] :
                    x[1] > now - Window => x \in requests'[v][d][b]
  <2>1. CASE v = w /\ d = e
    <3>1. requests'[v][d][b] = cleaned[b]
      BY <1>7, <1>8, <1>10, <2>1
    <3> QED
      BY <1>1, <2>1, <3>1
  <2>2. CASE ~(v = w /\ d = e)
    BY <1>8, <2>2
  <2> QED
    BY <2>1, <2>2
<1>11. lastCleanup' \in [Workers -> [Endpoints -> Int]]
  <2>1. \A m \in Int : IF now - m < Window THEN m \in Int ELSE now \in Int
    BY <1>4
  <2>2. PICK at : /\ lastCleanup' = [lastCleanup EXCEPT ![w][e] = at]
                  /\ at = IF now - lastCleanup[w][e] < Window THEN lastCleanup[w][e] ELSE now
    BY DEF CheckMemory
  <2>3. lastCleanup \in [Workers -> [Endpoints -> Int]] /\ lastCleanup[w][e] \in Int
    BY DEF TInv, TypeOK
  <2>4. at \in Int
    BY <1>4, <2>2, <2>3
  <2> QED
    BY <2>2, <2>3, <2>4
<1>12. /\ env = "development" /\ env' = env /\ now' = now /\ flight' = flight
       /\ zset' = zset /\ expires' = expires
  BY DEF CheckMemory
<1> QED
  BY <1>4, <1>5, <1>8, <1>9, <1>10, <1>11, <1>12 DEF Checked

LEMMA CheckMemoryTypes ==
    ASSUME TInv, NEW w \in Workers, NEW c \in Clients, NEW e \in Endpoints,
           CheckMemory(w, c, e)
    PROVE  TInv'
<1> PICK n : n = Len(verdicts) + 1
  OBVIOUS
<1> PICK S : S = Recent(requests[w][e][c], now)
  OBVIOUS
<1> PICK ok : ok = Room(Cardinality(S), e)
  OBVIOUS
<1>1. Checked(w, c, e, n, S, ok) /\ Adds(n, Asked(c, e), ok, w)
  BY CheckMemoryStep
<1>2. /\ verdicts' \in Seq(Verdict) /\ Len(verdicts') <= MaxVerdicts
      /\ n \notin Verdicts /\ Verdicts' = Verdicts \cup {n}
      /\ verdicts'[n].client = c /\ verdicts'[n].endpoint = e /\ verdicts'[n].at = now
      /\ verdicts'[n].ok = ok /\ verdicts'[n].by = w
      /\ \A j \in Verdicts : verdicts'[j] = verdicts[j]
  BY <1>1 DEF Adds, Asked
<1>3. ASSUME NEW v \in Workers, NEW d \in Endpoints, NEW b \in Clients
      PROVE  Cardinality(requests'[v][d][b]) <= MaxRequests[d]
  <2>1. /\ Cardinality(requests[v][d][b]) <= MaxRequests[d] /\ MaxRequests[d] \in Nat
        /\ \A T \in SUBSET requests[v][d][b] :
              IsFiniteSet(T) /\ Cardinality(T) <= Cardinality(requests[v][d][b])
        /\ IsFiniteSet(requests[v][d][b])
    BY RateLimiterAssumption, EntriesFinite DEF TInv, TypeOK
  <2>2. CASE ~(v = w /\ d = e /\ b = c)
    <3>1. requests'[v][d][b] \in SUBSET requests[v][d][b]
      BY <1>1, <2>2 DEF Checked
    <3>2. /\ Cardinality(requests'[v][d][b]) <= Cardinality(requests[v][d][b])
          /\ Cardinality(requests'[v][d][b]) \in Nat /\ Cardinality(requests[v][d][b]) \in Nat
      BY <2>1, <3>1, FS_CardinalityType
    <3> QED
      BY <2>1, <3>2
  <2>3. CASE v = w /\ d = e /\ b = c
    <3>1. S \in SUBSET requests[v][d][b]
      BY <2>3 DEF Recent
    <3>2. /\ IsFiniteSet(S) /\ Cardinality(S) <= Cardinality(requests[v][d][b])
          /\ Cardinality(S) \in Nat /\ Cardinality(requests[v][d][b]) \in Nat
      BY <2>1, <3>1, FS_CardinalityType
    <3>3. CASE ok
      <4>1. requests'[v][d][b] = S \cup {<<now, n>>}
        BY <1>1, <2>3, <3>3 DEF Checked
      <4>2. Cardinality(S) < MaxRequests[d]
        BY <2>3, <3>3 DEF Room
      <4>3. <<now, n>> \notin S
        BY <1>2, <2>3, <3>1 DEF TInv, MemoryHolds, Entered
      <4>4. Cardinality(S \cup {<<now, n>>}) = Cardinality(S) + 1
        BY <3>2, <4>3, FS_AddElement
      <4> QED
        BY <2>1, <3>2, <4>1, <4>2, <4>4
    <3>4. CASE ~ok
      <4>1. requests'[v][d][b] = S
        BY <1>1, <2>3, <3>4 DEF Checked
      <4> QED
        BY <2>1, <3>2, <4>1
    <3> QED
      BY <3>3, <3>4
  <2> QED
    BY <2>2, <2>3
<1>4. TypeOK'
  BY <1>1, <1>2, <1>3 DEF Checked, TInv, TypeOK
<1>5. Clocks'
  <2>1. now' = now /\ env' = env /\ flight' = flight /\ now \in 0 .. MaxTime
    BY <1>1 DEF Checked, TInv, TypeOK
  <2>2. \A j \in Verdicts' : verdicts'[j].at \in 0 .. now
    BY <1>2, <2>1 DEF TInv, Clocks
  <2> QED
    BY <2>1, <2>2 DEF TInv, Clocks
<1>6. MemoryHolds'
  <2>1. ASSUME NEW v \in Workers, NEW d \in Endpoints, NEW b \in Clients,
               NEW x \in requests'[v][d][b]
        PROVE  Entered(x, v, d, b)'
    <3>1. CASE x \in requests[v][d][b]
      <4>1. Entered(x, v, d, b)
        BY <3>1 DEF TInv, MemoryHolds
      <4> QED
        BY <1>2, <4>1 DEF Entered
    <3>2. CASE x \notin requests[v][d][b]
      <4>1. v = w /\ d = e /\ b = c
        BY <1>1, <2>1, <3>2 DEF Checked
      <4>2. S \subseteq requests[v][d][b]
        BY <4>1 DEF Recent
      <4>3. x = <<now, n>> /\ ok
        BY <1>1, <2>1, <3>2, <4>1, <4>2 DEF Checked
      <4> QED
        BY <1>2, <4>1, <4>3 DEF Entered
    <3> QED
      BY <3>1, <3>2
  <2>2. ASSUME NEW j \in Verdicts', verdicts'[j].by \in Workers, verdicts'[j].ok,
               verdicts'[j].at > now - Window
        PROVE  <<verdicts'[j].at, j>> \in
                  requests'[verdicts'[j].by][verdicts'[j].endpoint][verdicts'[j].client]
    <3>1. CASE j \in Verdicts
      <4> PICK x : x = <<verdicts[j].at, j>>
        OBVIOUS
      <4> PICK v, d, b : v = verdicts[j].by /\ d = verdicts[j].endpoint /\ b = verdicts[j].client
        OBVIOUS
      <4>1. verdicts'[j] = verdicts[j] /\ v \in Workers /\ d \in Endpoints /\ b \in Clients
        BY <1>2, <2>2, <3>1, VerdictFields DEF TInv
      <4>2. x \in requests[v][d][b] /\ x[1] > now - Window
        BY <2>2, <3>1, <4>1 DEF TInv, MemoryHolds
      <4>3. CASE v = w /\ d = e /\ b = c
        <5>1. x \in S
          BY <4>2, <4>3 DEF Recent
        <5> QED
          BY <1>1, <4>1, <4>3, <5>1 DEF Checked
      <4>4. CASE ~(v = w /\ d = e /\ b = c)
        BY <1>1, <4>1, <4>2, <4>4 DEF Checked
      <4> QED
        BY <4>3, <4>4
    <3>2. CASE j = n
      BY <1>1, <1>2, <2>2, <3>2 DEF Checked
    <3> QED
      BY <1>2, <3>1, <3>2
  <2>3. now' = now
    BY <1>1 DEF Checked
  <2> QED
    BY <2>1, <2>2, <2>3 DEF MemoryHolds
<1> QED
  BY <1>4, <1>5, <1>6 DEF TInv

LEMMA ReadClockTypes ==
    ASSUME TInv, NEW q \in InFlight, NEW c \in Clients, NEW e \in Endpoints, ReadClock(q, c, e)
    PROVE  TInv'
<1> PICK r : r = [client |-> c, endpoint |-> e, at |-> now]
  OBVIOUS
<1>1. r \in Flight /\ r.at = now /\ now \in 0 .. now /\ env = "production"
  BY RateLimiterAssumption DEF ReadClock, Flight, TInv, TypeOK
<1>2. /\ flight' = [flight EXCEPT ![q] = r]
      /\ UNCHANGED <<env, now, requests, lastCleanup, zset, expires, verdicts>>
  BY DEF ReadClock
<1>3. TypeOK'
  BY <1>1, <1>2 DEF TInv, TypeOK
<1>4. Clocks'
  <2>1. \A p \in InFlight : flight'[p] = IF p = q THEN r ELSE flight[p]
    BY <1>2 DEF TInv, TypeOK
  <2> QED
    BY <1>1, <1>2, <2>1 DEF TInv, Clocks, Verdicts
<1>5. MemoryHolds'
  BY <1>2 DEF TInv, MemoryHolds, Entered, Verdicts
<1> QED
  BY <1>3, <1>4, <1>5 DEF TInv

\* What both ends of a request to Redis do: a verdict on it, and nothing in memory.
Ruled(q, n, ok, by) ==
    /\ env = "production" /\ flight[q] \in Flight /\ flight[q].at \in 0 .. now
    /\ Adds(n, flight[q], ok, by) /\ ok \in BOOLEAN /\ by \in {"redis", "nobody"}
    /\ env' = env /\ now' = now /\ requests' = requests /\ lastCleanup' = lastCleanup
    /\ flight' \in {flight, [flight EXCEPT ![q] = NoCall]}

\* What Redis does with the commands of a request.
LEMMA ExecuteStep ==
    ASSUME TInv, NEW q \in InFlight, NEW heard \in BOOLEAN, Execute(q, heard),
           NEW n, n = Len(verdicts) + 1, NEW c, c = flight[q].client,
           NEW t, t = flight[q].at, NEW S, S = LiveSince(c, t),
           NEW ok, ok = Room(Cardinality(S), flight[q].endpoint)
    PROVE  /\ Ruled(q, n, ok, "redis")
           /\ zset' = [zset EXCEPT ![c] = S \cup {t}]
           /\ expires' = [expires EXCEPT ![c] = now + Window + Second]
<1>1. flight[q] \in Flight /\ flight[q] # NoCall
  BY DEF Execute, TInv, TypeOK
<1>2. env = "production" /\ t \in 0 .. now
  BY <1>1 DEF TInv, Clocks
<1>3. ok \in BOOLEAN /\ "redis" \in Judges
  BY DEF Room, Judges
<1>4. /\ zset' = [zset EXCEPT ![c] = S \cup {t}]
      /\ expires' = [expires EXCEPT ![c] = now + Window + Second]
      /\ Decided(flight[q], ok, "redis")
      /\ flight' = IF heard THEN [flight EXCEPT ![q] = NoCall] ELSE flight
      /\ env' = env /\ now' = now /\ requests' = requests /\ lastCleanup' = lastCleanup
  BY DEF Execute
<1>5. Adds(n, flight[q], ok, "redis")
  BY <1>1, <1>3, <1>4, NewVerdict DEF TInv
<1> QED
  BY <1>1, <1>2, <1>3, <1>4, <1>5 DEF Ruled

LEMMA FailOpenStep ==
    ASSUME TInv, NEW q \in InFlight, FailOpen(q), NEW n, n = Len(verdicts) + 1
    PROVE  Ruled(q, n, TRUE, "nobody") /\ zset' = zset /\ expires' = expires
<1>1. flight[q] \in Flight /\ flight[q] # NoCall
  BY DEF FailOpen, TInv, TypeOK
<1>2. env = "production" /\ flight[q].at \in 0 .. now
  BY <1>1 DEF TInv, Clocks
<1>3. /\ Decided(flight[q], TRUE, "nobody") /\ zset' = zset /\ expires' = expires
      /\ flight' = [flight EXCEPT ![q] = NoCall]
      /\ env' = env /\ now' = now /\ requests' = requests /\ lastCleanup' = lastCleanup
  BY DEF FailOpen
<1>4. Adds(n, flight[q], TRUE, "nobody")
  <2>1. "nobody" \in Judges
    BY DEF Judges
  <2> QED
    BY <1>1, <1>3, <2>1, NewVerdict DEF TInv
<1> QED
  BY <1>1, <1>2, <1>3, <1>4 DEF Ruled

LEMMA RuledTypes ==
    ASSUME TInv, NEW q \in InFlight, NEW n, NEW ok, NEW by, Ruled(q, n, ok, by),
           zset' \in [Clients -> SUBSET (0 .. MaxTime)], expires' \in [Clients -> Nat]
    PROVE  TInv'
<1>1. /\ env' = env /\ now' = now /\ requests' = requests /\ lastCleanup' = lastCleanup
      /\ flight[q].at \in 0 .. now /\ by \notin Workers
  BY RateLimiterAssumption DEF Ruled
<1>2. /\ verdicts' \in Seq(Verdict) /\ Len(verdicts') <= MaxVerdicts
      /\ Verdicts' = Verdicts \cup {n} /\ verdicts'[n].at = flight[q].at
      /\ verdicts'[n].by = by /\ \A j \in Verdicts : verdicts'[j] = verdicts[j]
  BY DEF Ruled, Adds
<1>3. /\ \A p \in InFlight : flight'[p] \in {flight[p], NoCall}
      /\ flight' \in [InFlight -> Flight \cup {NoCall}]
  BY DEF Ruled, TInv, TypeOK
<1>4. TypeOK'
  BY <1>1, <1>2, <1>3 DEF TInv, TypeOK
<1>5. Clocks'
  <2>1. \A j \in Verdicts' : verdicts'[j].at \in 0 .. now
    BY <1>1, <1>2 DEF TInv, Clocks
  <2>2. \A p \in InFlight : flight'[p] # NoCall =>
           env = "production" /\ flight'[p].at \in 0 .. now
    BY <1>3 DEF TInv, Clocks
  <2> QED
    BY <1>1, <2>1, <2>2 DEF Clocks
<1>6. MemoryHolds'
  <2>1. ASSUME NEW v \in Workers, NEW d \in Endpoints, NEW b \in Clients,
               NEW x \in requests'[v][d][b]
        PROVE  Entered(x, v, d, b)'
    <3>1. Entered(x, v, d, b)
      BY <1>1 DEF TInv, MemoryHolds
    <3> QED
      BY <1>2, <3>1 DEF Entered
  <2>2. ASSUME NEW j \in Verdicts', verdicts'[j].by \in Workers, verdicts'[j].ok,
               verdicts'[j].at > now - Window
        PROVE  <<verdicts'[j].at, j>> \in
                  requests'[verdicts'[j].by][verdicts'[j].endpoint][verdicts'[j].client]
    <3>1. j \in Verdicts /\ verdicts'[j] = verdicts[j]
      BY <1>1, <1>2, <2>2
    <3> QED
      BY <1>1, <2>2, <3>1 DEF TInv, MemoryHolds
  <2> QED
    BY <1>1, <2>1, <2>2 DEF MemoryHolds
<1> QED
  BY <1>4, <1>5, <1>6 DEF TInv

LEMMA FailOpenTypes ==
    ASSUME TInv, NEW q \in InFlight, FailOpen(q)
    PROVE  TInv'
<1> PICK n : n = Len(verdicts) + 1
  OBVIOUS
<1>1. Ruled(q, n, TRUE, "nobody") /\ zset' = zset /\ expires' = expires
  BY FailOpenStep
<1>2. zset' \in [Clients -> SUBSET (0 .. MaxTime)] /\ expires' \in [Clients -> Nat]
  BY <1>1 DEF TInv, TypeOK
<1> QED
  BY <1>1, <1>2, RuledTypes

LEMMA ExecuteTypes ==
    ASSUME TInv, NEW q \in InFlight, NEW heard \in BOOLEAN, Execute(q, heard)
    PROVE  TInv'
<1> PICK n, c, t : n = Len(verdicts) + 1 /\ c = flight[q].client /\ t = flight[q].at
  OBVIOUS
<1> PICK S : S = LiveSince(c, t)
  OBVIOUS
<1> PICK ok : ok = Room(Cardinality(S), flight[q].endpoint)
  OBVIOUS
<1> PICK members : members = S \cup {t}
  OBVIOUS
<1> PICK until : until = now + Window + Second
  OBVIOUS
<1>1. /\ Ruled(q, n, ok, "redis")
      /\ zset' = [zset EXCEPT ![c] = members]
      /\ expires' = [expires EXCEPT ![c] = until]
  BY ExecuteStep
<1>2. /\ now \in 0 .. MaxTime /\ MaxTime \in Nat /\ t \in 0 .. MaxTime /\ c \in Clients
      /\ until \in Nat
  <2>1. now \in 0 .. MaxTime /\ MaxTime \in Nat /\ Window \in Nat /\ Second \in Nat
    BY RateLimiterAssumption DEF TInv, TypeOK
  <2>2. t \in 0 .. now /\ c \in Clients
    BY <1>1 DEF Ruled, Flight
  <2> QED
    BY <2>1, <2>2
<1>3. zset' \in [Clients -> SUBSET (0 .. MaxTime)]
  <2>1. members \subseteq 0 .. MaxTime
    BY <1>2 DEF LiveSince, TInv, TypeOK
  <2> QED
    BY <1>1, <2>1 DEF TInv, TypeOK
<1>4. expires' \in [Clients -> Nat]
  BY <1>1, <1>2 DEF TInv, TypeOK
<1> QED
  BY <1>1, <1>3, <1>4, RuledTypes

LEMMA TickTypes ==
    ASSUME TInv, Tick
    PROVE  TInv'
<1>1. /\ now \in 0 .. MaxTime /\ now < MaxTime /\ now' = now + 1 /\ MaxTime \in Nat
      /\ UNCHANGED <<env, requests, lastCleanup, expires, flight, verdicts>>
      /\ Window \in Nat
  BY RateLimiterAssumption DEF Tick, TInv, TypeOK
<1>2. TypeOK'
  <2>1. now' \in 0 .. MaxTime
    BY <1>1
  <2>2. zset' \in [Clients -> SUBSET (0 .. MaxTime)]
    BY DEF Tick, TInv, TypeOK
  <2> QED
    BY <1>1, <2>1, <2>2 DEF TInv, TypeOK
<1>3. Clocks'
  <2>1. ASSUME NEW j \in Verdicts PROVE verdicts[j].at \in 0 .. now'
    BY <1>1 DEF TInv, Clocks
  <2>2. ASSUME NEW q \in InFlight, flight[q] # NoCall
        PROVE  env = "production" /\ flight[q].at \in 0 .. now'
    BY <1>1, <2>2 DEF TInv, Clocks
  <2> QED
    BY <1>1, <2>1, <2>2 DEF Clocks, Verdicts
<1>4. MemoryHolds'
  <2>1. \A j \in Verdicts : verdicts[j].at > now' - Window => verdicts[j].at > now - Window
    BY <1>1 DEF TInv, Clocks
  <2> QED
    BY <1>1, <2>1 DEF TInv, MemoryHolds, Entered, Verdicts
<1> QED
  BY <1>2, <1>3, <1>4 DEF TInv

LEMMA NextTypes == TInv /\ [Next]_vars => TInv'
<1> SUFFICES ASSUME TInv, [Next]_vars PROVE TInv'
  OBVIOUS
<1>1. CASE UNCHANGED vars
  BY <1>1 DEF vars, TInv, TypeOK, Clocks, MemoryHolds, Entered, Verdicts
<1> QED
  BY <1>1, CheckMemoryTypes, ReadClockTypes, ExecuteTypes, FailOpenTypes, TickTypes DEF Next

\* The lists in memory and the clocks are what the answers say.
THEOREM TypeInvariance == Spec => []TInv
<1> QED
  BY InitTypes, NextTypes, PTL DEF Spec

\* A list in memory never holds more requests than its limiter lets through.
THEOREM TypeCorrect == Spec => []TypeOK
<1>1. TInv => TypeOK
  BY DEF TInv
<1> QED
  BY <1>1, TypeInvariance, PTL

-----------------------------------------------------------------------------
(***************************************************************************)
(* What Redis remembers.                                                   *)
(***************************************************************************)
LEMMA InitRedis == Init => RedisHolds
<1> QED
  BY DEF Init, RedisHolds, Executed, Verdicts

\* Whatever is not Redis's verdict leaves what Redis remembers.
LEMMA RedisStays ==
    ASSUME TInv, RedisHolds, NEW n, NEW f, NEW ok, NEW by, Adds(n, f, ok, by), by # "redis",
           now' = now, zset' = zset, expires' = expires
    PROVE  RedisHolds'
<1>1. Executed' = Executed /\ \A j \in Executed : verdicts'[j] = verdicts[j]
  BY DEF Adds, Executed
<1> QED
  BY <1>1 DEF RedisHolds, PushedOut

LEMMA ExecuteRedis ==
    ASSUME TInv, RedisHolds, NEW q \in InFlight, NEW heard \in BOOLEAN, Execute(q, heard)
    PROVE  RedisHolds'
<1> PICK n, c, t : n = Len(verdicts) + 1 /\ c = flight[q].client /\ t = flight[q].at
  OBVIOUS
<1> PICK S : S = LiveSince(c, t)
  OBVIOUS
<1> PICK ok : ok = Room(Cardinality(S), flight[q].endpoint)
  OBVIOUS
<1> PICK members : members = S \cup {t}
  OBVIOUS
<1> PICK until : until = now + Window + Second
  OBVIOUS
<1>1. /\ Ruled(q, n, ok, "redis")
      /\ zset' = [zset EXCEPT ![c] = members]
      /\ expires' = [expires EXCEPT ![c] = until]
  BY ExecuteStep
<1>2. /\ now \in Nat /\ t \in Nat /\ t \in 0 .. now /\ Window \in Nat /\ Second \in Nat
      /\ c \in Clients /\ now' = now
  BY <1>1, RateLimiterAssumption DEF Ruled, Flight, TInv, TypeOK
<1>3. /\ Executed' = Executed \cup {n}
      /\ verdicts'[n].client = c /\ verdicts'[n].at = t
      /\ \A j \in Executed : verdicts'[j] = verdicts[j]
  BY <1>1 DEF Ruled, Adds, Executed
<1>4. \A b \in Clients : /\ zset'[b] = (IF b = c THEN members ELSE zset[b])
                          /\ expires'[b] = (IF b = c THEN until ELSE expires[b])
  BY <1>1 DEF TInv, TypeOK
<1>5. ASSUME NEW b \in Clients, NEW x \in zset'[b]
      PROVE  \E j \in Executed' : verdicts'[j].client = b /\ verdicts'[j].at = x
  <2>1. CASE x \in zset[b]
    <3>1. PICK j \in Executed : verdicts[j].client = b /\ verdicts[j].at = x
      BY <2>1 DEF RedisHolds
    <3> QED
      BY <1>3, <3>1
  <2>2. CASE x \notin zset[b]
    <3>1. b = c /\ x \in members
      BY <1>4, <1>5, <2>2
    <3>2. S \subseteq zset[c]
      BY DEF LiveSince
    <3>3. b = c /\ x = t
      BY <2>2, <3>1, <3>2
    <3> QED
      BY <1>3, <3>3
  <2> QED
    BY <2>1, <2>2
<1>6. ASSUME NEW j \in Executed'
      PROVE  /\ \/ verdicts'[j].at \in zset'[verdicts'[j].client]
                \/ PushedOut(j)'
                \/ now >= verdicts'[j].at + Window + Second
             /\ expires'[verdicts'[j].client] >= verdicts'[j].at + Window + Second
  <2>1. CASE j = n
    <3>1. verdicts'[j].client = c /\ verdicts'[j].at = t
      BY <1>3, <2>1
    <3>2. t \in zset'[c] /\ expires'[c] = until
      BY <1>2, <1>4
    <3>3. until >= t + Window + Second
      BY <1>2
    <3> QED
      BY <3>1, <3>2, <3>3
  <2>2. CASE j \in Executed
    <3> PICK b, x : b = verdicts[j].client /\ x = verdicts[j].at
      OBVIOUS
    <3>1. /\ b \in Clients /\ x \in 0 .. now /\ verdicts'[j] = verdicts[j]
          /\ expires[b] >= x + Window + Second
          /\ x \in zset[b] \/ PushedOut(j) \/ now >= x + Window + Second
      <4>1. j \in Verdicts
        BY <2>2 DEF Executed
      <4> QED
        BY <1>3, <2>2, <4>1, VerdictFields DEF RedisHolds, TInv, Clocks
    <3>2. expires'[b] >= x + Window + Second
      <4>1. until >= x + Window + Second
        BY <1>2, <3>1
      <4> QED
        BY <1>4, <3>1, <4>1
    <3>3. PushedOut(j) => PushedOut(j)'
      BY <1>3, <3>1 DEF PushedOut
    <3>4. ASSUME x \in zset[b], x \notin zset'[b] PROVE PushedOut(j)'
      <4>1. b = c /\ ~(x > t - Window)
        <5>1. b = c /\ x \notin S
          BY <1>4, <3>1, <3>4
        <5> QED
          BY <3>4, <5>1 DEF LiveSince
      <4>2. t >= x + Window
        BY <1>2, <3>1, <4>1
      <4> QED
        BY <1>3, <3>1, <4>2 DEF PushedOut
    <3> QED
      BY <3>1, <3>2, <3>3, <3>4
  <2> QED
    BY <1>3, <2>1, <2>2
<1> QED
  BY <1>2, <1>5, <1>6 DEF RedisHolds

LEMMA TickRedis ==
    ASSUME TInv, RedisHolds, Tick
    PROVE  RedisHolds'
<1>1. /\ now \in Nat /\ now' = now + 1 /\ Window \in Nat /\ Second \in Nat
      /\ UNCHANGED <<env, expires, verdicts>>
      /\ zset' = [c \in Clients |-> IF expires[c] <= now + 1 THEN {} ELSE zset[c]]
  BY RateLimiterAssumption DEF Tick, TInv, TypeOK
<1>2. ASSUME NEW j \in Executed
      PROVE  \/ verdicts[j].at \in zset'[verdicts[j].client]
             \/ PushedOut(j)
             \/ now' >= verdicts[j].at + Window + Second
  <2> PICK b, x : b = verdicts[j].client /\ x = verdicts[j].at
    OBVIOUS
  <2>1. b \in Clients /\ x \in 0 .. now
    <3>1. j \in Verdicts
      BY DEF Executed
    <3> QED
      BY <3>1, VerdictFields DEF TInv, Clocks
  <2>2. /\ expires[b] \in Nat /\ expires[b] >= x + Window + Second
        /\ x \in zset[b] \/ PushedOut(j) \/ now >= x + Window + Second
    BY <2>1 DEF RedisHolds, TInv, TypeOK
  <2> QED
    BY <1>1, <2>1, <2>2
<1>3. \A j : PushedOut(j)' <=> PushedOut(j)
  BY <1>1 DEF PushedOut, Executed, Verdicts
<1> QED
  BY <1>1, <1>2, <1>3 DEF RedisHolds, Executed, Verdicts

LEMMA NextRedis == TInv /\ RedisHolds /\ [Next]_vars => RedisHolds'
<1> SUFFICES ASSUME TInv, RedisHolds, [Next]_vars PROVE RedisHolds'
  OBVIOUS
<1>1. CASE UNCHANGED <<now, zset, expires, verdicts>>
  BY <1>1 DEF RedisHolds, PushedOut, Executed, Verdicts
<1>2. ASSUME NEW w \in Workers, NEW c \in Clients, NEW e \in Endpoints, CheckMemory(w, c, e)
      PROVE  RedisHolds'
  <2> PICK n, S : n = Len(verdicts) + 1 /\ S = Recent(requests[w][e][c], now)
    OBVIOUS
  <2> PICK ok : ok = Room(Cardinality(S), e)
    OBVIOUS
  <2>1. Checked(w, c, e, n, S, ok) /\ Adds(n, Asked(c, e), ok, w)
    BY <1>2, CheckMemoryStep
  <2>2. w # "redis" /\ now' = now /\ zset' = zset /\ expires' = expires
    BY <2>1, RateLimiterAssumption DEF Checked
  <2> QED
    BY <2>1, <2>2, RedisStays
<1>3. ASSUME NEW q \in InFlight, FailOpen(q) PROVE RedisHolds'
  <2> PICK n : n = Len(verdicts) + 1
    OBVIOUS
  <2>1. Ruled(q, n, TRUE, "nobody") /\ zset' = zset /\ expires' = expires
    BY <1>3, FailOpenStep
  <2>2. Adds(n, flight[q], TRUE, "nobody") /\ now' = now
    BY <2>1 DEF Ruled
  <2> QED
    BY <2>1, <2>2, RedisStays
<1> QED
  BY <1>1, <1>2, <1>3, ExecuteRedis, TickRedis DEF Next, vars, ReadClock

-----------------------------------------------------------------------------
(***************************************************************************)
(* The windows.                                                            *)
(***************************************************************************)
WindowsHold ==
    \A c \in Clients, e \in Endpoints, t \in Instants :
        /\ env = "development" =>
              \A w \in Workers : Cardinality(Served(w, c, e, t)) <= MaxRequests[e]
        /\ env = "production" => Cardinality(OnTime(c, e, t)) <= MaxRequests[e]

LEMMA Windows == TypeOK => (WithinLimit <=> WindowsHold)
<1> SUFFICES ASSUME env \in {"development", "production"} PROVE WithinLimit <=> WindowsHold
  BY DEF TypeOK
<1>1. CASE env = "development"
  BY <1>1 DEF WithinLimit, WindowsHold, Served, Instants
<1>2. CASE env = "production"
  BY <1>2 DEF WithinLimit, WindowsHold, OnTime, Timely, Instants
<1> QED
  BY <1>1, <1>2

\* A set of verdicts, and one of instants, is finite.
LEMMA SubsetsFinite ==
    ASSUME TypeOK
    PROVE  /\ \A T \in SUBSET Verdicts : IsFiniteSet(T) /\ Cardinality(T) \in Nat
           /\ \A T \in SUBSET Instants : IsFiniteSet(T) /\ Cardinality(T) \in Nat
<1> QED
  BY VerdictsFinite, InstantsFinite, FS_Subset, FS_CardinalityType

\* A set within another with one element more.
LEMMA OneMore ==
    ASSUME NEW A, IsFiniteSet(A), NEW x, NEW B \in SUBSET (A \cup {x})
    PROVE  /\ Cardinality(B) \in Nat /\ Cardinality(A) \in Nat
           /\ Cardinality(B) <= Cardinality(A) + 1
<1>1. IsFiniteSet(A \cup {x})
  BY FS_AddElement
<1>2. Cardinality(A \cup {x}) = IF x \in A THEN Cardinality(A) ELSE Cardinality(A) + 1
  BY FS_AddElement, Zenon
<1>3. Cardinality(A) \in Nat /\ Cardinality(A \cup {x}) \in Nat
  BY <1>1, FS_CardinalityType
<1>4. IsFiniteSet(B) /\ Cardinality(B) <= Cardinality(A \cup {x})
  BY <1>1, FS_Subset
<1>5. Cardinality(B) \in Nat
  BY <1>4, FS_CardinalityType
<1> QED
  BY <1>2, <1>3, <1>4, <1>5

\* The requests that the list of a worker may still count.
Live(w, c, e) ==
    {j \in Verdicts : /\ verdicts[j].client = c /\ verdicts[j].endpoint = e
                      /\ verdicts[j].by = w /\ verdicts[j].ok
                      /\ verdicts[j].at > now - Window}

\* What the list in memory still counts is no less than what was let through.
LEMMA RecentCounts ==
    ASSUME TInv, NEW w \in Workers, NEW e \in Endpoints, NEW c \in Clients,
           NEW S, S = Recent(requests[w][e][c], now), NEW T, T = Live(w, c, e)
    PROVE  IsFiniteSet(S) /\ IsFiniteSet(T) /\ Cardinality(T) <= Cardinality(S)
<1> DEFINE entry == [j \in T |-> <<verdicts[j].at, j>>]
<1>1. IsFiniteSet(S)
  <2>1. S \in SUBSET requests[w][e][c]
    BY DEF Recent
  <2> QED
    BY <2>1, EntriesFinite
<1>2. ASSUME NEW j \in T PROVE <<verdicts[j].at, j>> \in S
  <2>1. <<verdicts[j].at, j>> \in requests[w][e][c] /\ verdicts[j].at > now - Window
    BY DEF Live, TInv, MemoryHolds
  <2> QED
    BY <2>1 DEF Recent
<1>3. entry \in [T -> S]
  BY <1>2
<1>4. \A i, j \in T : entry[i] = entry[j] => i = j
  OBVIOUS
<1> HIDE DEF entry
<1>5. entry \in Injection(T, S)
  BY <1>3, <1>4 DEF Injection, IsInjective
<1> QED
  BY <1>1, <1>5, FS_Injection

LEMMA MemoryWindows ==
    ASSUME TInv, WindowsHold, NEW w \in Workers, NEW c \in Clients, NEW e \in Endpoints,
           CheckMemory(w, c, e)
    PROVE  WindowsHold'
<1> PICK n, S : n = Len(verdicts) + 1 /\ S = Recent(requests[w][e][c], now)
  OBVIOUS
<1> PICK ok : ok = Room(Cardinality(S), e)
  OBVIOUS
<1>1. /\ env = "development" /\ env' = env /\ ok = Room(Cardinality(S), e)
      /\ now \in Nat /\ Window \in Nat /\ MaxTime \in Nat
  BY RateLimiterAssumption DEF CheckMemory, TInv, TypeOK
<1>2. Adds(n, Asked(c, e), ok, w)
  BY CheckMemoryStep
<1>3. /\ Verdicts' = Verdicts \cup {n} /\ n \notin Verdicts
      /\ verdicts'[n].client = c /\ verdicts'[n].endpoint = e /\ verdicts'[n].at = now
      /\ verdicts'[n].ok = ok /\ verdicts'[n].by = w
      /\ \A j \in Verdicts : verdicts'[j] = verdicts[j]
  BY <1>2 DEF Adds, Asked
<1> PICK T : T = Live(w, c, e)
  OBVIOUS
<1>4. IsFiniteSet(S) /\ IsFiniteSet(T) /\ Cardinality(T) <= Cardinality(S)
  BY RecentCounts
<1>5. ASSUME NEW v \in Workers, NEW d \in Endpoints, NEW b \in Clients, NEW t \in Instants
      PROVE  Cardinality(Served(v, b, d, t)') <= MaxRequests[d]
  <2> PICK old, new : old = Served(v, b, d, t) /\ new = Served(v, b, d, t)'
    OBVIOUS
  <2>1. /\ IsFiniteSet(old) /\ Cardinality(old) <= MaxRequests[d]
        /\ Cardinality(old) \in Nat /\ MaxRequests[d] \in Nat
    <3>1. old \in SUBSET Verdicts
      BY DEF Served, LetThrough, Verdicts
    <3> QED
      BY <1>1, <3>1, SubsetsFinite, RateLimiterAssumption DEF WindowsHold, TInv
  <2>2. \A j \in new : j = n \/ j \in old
    BY <1>3 DEF Served, LetThrough, Verdicts
  <2>3. CASE n \notin new
    <3>1. new \in SUBSET old
      BY <2>2, <2>3
    <3>2. Cardinality(new) <= Cardinality(old) /\ Cardinality(new) \in Nat
      BY <2>1, <3>1, FS_Subset, FS_CardinalityType
    <3> QED
      BY <2>1, <3>2
  <2>4. CASE n \in new
    <3>1. v = w /\ d = e /\ b = c /\ ok /\ now <= t
      BY <1>3, <2>4 DEF Served, LetThrough
    <3>2. new \in SUBSET (T \cup {n})
      <4> SUFFICES ASSUME NEW j \in new, j # n PROVE j \in T
        OBVIOUS
      <4>1. /\ j \in Verdicts /\ verdicts[j].client = c /\ verdicts[j].endpoint = e
            /\ verdicts[j].by = w /\ verdicts[j].ok /\ verdicts[j].at > t - Window
        BY <2>2, <3>1 DEF Served, LetThrough, Verdicts
      <4>2. verdicts[j].at \in Nat /\ t \in Nat
        BY <1>1, <4>1, VerdictFields DEF TInv, Instants
      <4>3. verdicts[j].at > now - Window
        BY <1>1, <3>1, <4>1, <4>2
      <4> QED
        BY <4>1, <4>3 DEF Live
    <3>3. /\ Cardinality(new) <= Cardinality(T) + 1
          /\ Cardinality(new) \in Nat /\ Cardinality(T) \in Nat
      BY <1>4, <3>2, OneMore
    <3>4. Cardinality(S) < MaxRequests[d] /\ Cardinality(S) \in Nat
      BY <1>1, <1>4, <3>1, FS_CardinalityType DEF Room
    <3> QED
      BY <1>4, <2>1, <3>3, <3>4
  <2> QED
    BY <2>3, <2>4
<1> QED
  BY <1>1, <1>5 DEF WindowsHold

\* What a verdict that is not a prompt one of Redis leaves of the windows of Redis.
LEMMA OnTimeStays ==
    ASSUME TInv, NEW n, NEW f, NEW ok, NEW by, Adds(n, f, ok, by),
           NEW c, NEW e, NEW t, NEW x \in OnTime(c, e, t)'
    PROVE  \/ x \in OnTime(c, e, t)
           \/ n \in Timely(c, e, t)' /\ x = f.at
<1>1. PICK j \in Timely(c, e, t)' : verdicts'[j].at = x
  BY DEF OnTime
<1>2. j \in Verdicts' /\ (j \in Verdicts \/ j = n) /\ Verdicts = 1 .. n - 1 /\ n \in Nat
  BY <1>1 DEF Timely, LetThrough, Verdicts, Adds
<1>3. CASE j \in Verdicts
  <2>1. verdicts'[j] = verdicts[j] /\ \A k \in 1 .. j - 1 : verdicts'[k] = verdicts[k]
    BY <1>2, <1>3 DEF Adds
  <2>2. j \in Timely(c, e, t)
    BY <1>1, <1>3, <2>1 DEF Timely, LetThrough, InTime, Verdicts
  <2> QED
    BY <1>1, <2>1, <2>2 DEF OnTime
<1>4. CASE j = n
  BY <1>1, <1>4 DEF Adds
<1> QED
  BY <1>2, <1>3, <1>4

LEMMA RedisWindows ==
    ASSUME TInv, RedisHolds, WindowsHold, NEW q \in InFlight, NEW heard \in BOOLEAN,
           Execute(q, heard)
    PROVE  WindowsHold'
<1> PICK n, c, e, t : /\ n = Len(verdicts) + 1 /\ c = flight[q].client
                      /\ e = flight[q].endpoint /\ t = flight[q].at
  OBVIOUS
<1> PICK S : S = LiveSince(c, t)
  OBVIOUS
<1> PICK ok : ok = Room(Cardinality(S), e)
  OBVIOUS
<1>1. Ruled(q, n, ok, "redis")
  BY ExecuteStep
<1>2. /\ env = "production" /\ env' = env /\ c \in Clients /\ e \in Endpoints
      /\ t \in 0 .. now /\ now \in 0 .. MaxTime /\ MaxTime \in Nat /\ t \in Instants
      /\ Window \in Nat /\ Second \in Nat
  BY <1>1, RateLimiterAssumption DEF Ruled, Flight, TInv, TypeOK, Instants
<1>3. /\ Adds(n, flight[q], ok, "redis") /\ Verdicts = 1 .. n - 1
      /\ verdicts'[n].client = c /\ verdicts'[n].endpoint = e /\ verdicts'[n].at = t
      /\ verdicts'[n].ok = ok
      /\ verdicts'[n].prompt => now - t < Second
      /\ \A j \in Verdicts : verdicts'[j] = verdicts[j]
  BY <1>1 DEF Ruled, Adds
<1>4. S \in SUBSET Instants /\ IsFiniteSet(S) /\ Cardinality(S) \in Nat
  <2>1. S \in SUBSET Instants
    BY <1>2 DEF LiveSince, TInv, TypeOK, Instants
  <2> QED
    BY <2>1, SubsetsFinite DEF TInv
<1>5. ASSUME NEW b \in Clients, NEW d \in Endpoints, NEW u \in Instants
      PROVE  Cardinality(OnTime(b, d, u)') <= MaxRequests[d]
  <2> PICK old, new : old = OnTime(b, d, u) /\ new = OnTime(b, d, u)'
    OBVIOUS
  <2>1. /\ IsFiniteSet(old) /\ Cardinality(old) <= MaxRequests[d]
        /\ Cardinality(old) \in Nat /\ MaxRequests[d] \in Nat
    <3>1. old \in SUBSET Instants
      BY <1>2 DEF OnTime, Timely, LetThrough, Verdicts, TInv, Clocks, Instants
    <3> QED
      BY <1>2, <3>1, SubsetsFinite, RateLimiterAssumption DEF WindowsHold, TInv
  <2>2. \A x \in new : x \in old \/ (n \in Timely(b, d, u)' /\ x = t)
    BY <1>3, OnTimeStays
  <2>3. CASE n \notin Timely(b, d, u)'
    <3>1. new \in SUBSET old
      BY <2>2, <2>3
    <3>2. Cardinality(new) <= Cardinality(old) /\ Cardinality(new) \in Nat
      BY <2>1, <3>1, FS_Subset, FS_CardinalityType
    <3> QED
      BY <2>1, <3>2
  <2>4. CASE n \in Timely(b, d, u)'
    <3>1. /\ d = e /\ b = c /\ ok /\ t > u - Window /\ t <= u /\ now - t < Second
          /\ \A k \in Executed : verdicts[k].at <= u
      <4>1. d = e /\ b = c /\ ok /\ t > u - Window /\ t <= u /\ now - t < Second
        BY <1>3, <2>4 DEF Timely, LetThrough, InTime
      <4>2. \A k \in 1 .. n - 1 : verdicts'[k].by = "redis" => verdicts'[k].at <= u
        BY <2>4 DEF Timely, InTime
      <4> QED
        BY <1>3, <4>1, <4>2 DEF Executed
    <3>2. ASSUME NEW x \in old PROVE x \in S
      <4>1. PICK j \in Executed : /\ verdicts[j].client = c /\ verdicts[j].at = x
                                  /\ x > u - Window
        BY <3>1 DEF OnTime, Timely, LetThrough, Executed, Verdicts
      <4>2. x \in Nat /\ u \in Nat /\ \A k \in Executed : verdicts[k].at \in Nat
        BY <1>2, <4>1, VerdictFields DEF Executed, TInv, Instants
      <4>3. ~PushedOut(j)
        <5> SUFFICES ASSUME NEW k \in Executed, verdicts[k].at >= x + Window PROVE FALSE
          BY <4>1 DEF PushedOut
        <5> QED
          BY <1>2, <3>1, <4>1, <4>2
      <4>4. ~(now >= x + Window + Second)
        BY <1>2, <3>1, <4>1, <4>2
      <4>5. x \in zset[c]
        BY <4>1, <4>3, <4>4 DEF RedisHolds
      <4>6. x > t - Window
        BY <1>2, <3>1, <4>1, <4>2
      <4> QED
        BY <4>5, <4>6 DEF LiveSince
    <3>3. new \in SUBSET (S \cup {t})
      BY <2>2, <3>2
    <3>4. Cardinality(new) <= Cardinality(S) + 1 /\ Cardinality(new) \in Nat
      BY <1>4, <3>3, OneMore
    <3>5. Cardinality(S) < MaxRequests[d]
      BY <3>1 DEF Room
    <3> QED
      BY <1>4, <2>1, <3>4, <3>5
  <2> QED
    BY <2>3, <2>4
<1> QED
  BY <1>2, <1>5 DEF WindowsHold

\* Requests that Redis did not decide are not counted.
LEMMA OpenWindows ==
    ASSUME TInv, WindowsHold, NEW q \in InFlight, FailOpen(q)
    PROVE  WindowsHold'
<1> PICK n : n = Len(verdicts) + 1
  OBVIOUS
<1>1. Ruled(q, n, TRUE, "nobody")
  BY FailOpenStep
<1>2. /\ env = "production" /\ env' = env /\ Adds(n, flight[q], TRUE, "nobody")
      /\ verdicts'[n].by = "nobody"
  BY <1>1 DEF Ruled, Adds
<1>3. ASSUME NEW c \in Clients, NEW e \in Endpoints, NEW t \in Instants
      PROVE  Cardinality(OnTime(c, e, t)') <= MaxRequests[e]
  <2> PICK old, new : old = OnTime(c, e, t) /\ new = OnTime(c, e, t)'
    OBVIOUS
  <2>1. n \notin Timely(c, e, t)'
    BY <1>2 DEF Timely
  <2>2. new \in SUBSET old
    BY <1>2, <2>1, OnTimeStays
  <2>3. /\ IsFiniteSet(old) /\ Cardinality(old) \in Nat /\ MaxRequests[e] \in Nat
        /\ Cardinality(old) <= MaxRequests[e]
    <3>1. old \in SUBSET Instants
      <4>1. now \in 0 .. MaxTime /\ MaxTime \in Nat
        BY RateLimiterAssumption DEF TInv, TypeOK
      <4> QED
        BY <4>1 DEF OnTime, Timely, LetThrough, Verdicts, TInv, Clocks, Instants
    <3> QED
      BY <1>2, <3>1, SubsetsFinite, RateLimiterAssumption DEF WindowsHold, TInv
  <2>4. Cardinality(new) <= Cardinality(old) /\ Cardinality(new) \in Nat
    BY <2>2, <2>3, FS_Subset, FS_CardinalityType
  <2> QED
    BY <2>3, <2>4
<1> QED
  BY <1>2, <1>3 DEF WindowsHold

LEMMA InitWindows == Init => WindowsHold
<1> SUFFICES ASSUME Init, NEW c \in Clients, NEW e \in Endpoints, NEW t \in Instants
             PROVE  /\ \A w \in Workers : Cardinality(Served(w, c, e, t)) <= MaxRequests[e]
                    /\ Cardinality(OnTime(c, e, t)) <= MaxRequests[e]
  BY DEF WindowsHold
<1>1. LetThrough(c, e, t) = {}
  BY DEF Init, LetThrough
<1>2. OnTime(c, e, t) = {} /\ \A w \in Workers : Served(w, c, e, t) = {}
  BY <1>1 DEF OnTime, Timely, Served
<1>3. Cardinality({}) = 0 /\ MaxRequests[e] \in Nat
  BY FS_EmptySet, RateLimiterAssumption
<1> QED
  BY <1>2, <1>3

LEMMA NextWindows == TInv /\ RedisHolds /\ WindowsHold /\ [Next]_vars => WindowsHold'
<1> SUFFICES ASSUME TInv, RedisHolds, WindowsHold, [Next]_vars PROVE WindowsHold'
  OBVIOUS
<1>1. CASE UNCHANGED <<env, verdicts>>
  BY <1>1 DEF WindowsHold, OnTime, Timely, Served, LetThrough, InTime
<1> QED
  BY <1>1, MemoryWindows, RedisWindows, OpenWindows DEF Next, vars, ReadClock, Tick

\* No window, wherever it ends, has more requests let through than the limiter's maximum:
\* by a worker's memory, or by Redis within a second and at different instants.
THEOREM NoWindowOverflows == Spec => []WithinLimit
<1>1. Init => RedisHolds /\ WindowsHold
  BY InitRedis, InitWindows
<1>2. TInv /\ WindowsHold => WithinLimit
  BY Windows DEF TInv
<1> QED
  BY <1>1, <1>2, TypeInvariance, NextRedis, NextWindows, PTL DEF Spec

-----------------------------------------------------------------------------
(***************************************************************************)
(* The refusals.                                                           *)
(***************************************************************************)
LEMMA Refusals == RefusedWasCounted <=> \A i \in Verdicts : ~verdicts[i].ok => Counted(i)
<1> QED
  BY DEF RefusedWasCounted, Counted, Allowed, Before, Verdicts

\* What a verdict counted stays what it counted.
LEMMA CountedStays ==
    ASSUME TypeOK, env' = env, NEW i \in Verdicts, \A j \in Verdicts : verdicts'[j] = verdicts[j]
    PROVE  Counted(i)' <=> Counted(i)
<1>1. \A j \in 1 .. i - 1 : j \in Verdicts
  <2>1. Len(verdicts) \in Nat /\ Verdicts = 1 .. Len(verdicts)
    BY DEF TypeOK, Verdicts
  <2> QED
    BY <2>1
<1>2. Before(i)' = Before(i)
  BY <1>1 DEF Before
<1>3. Allowed(i)' = Allowed(i)
  BY <1>1, <1>2 DEF Allowed, Before
<1>4. {verdicts[j].at : j \in Before(i)}' = {verdicts[j].at : j \in Before(i)}
  BY <1>1, <1>2 DEF Before
<1> QED
  BY <1>3, <1>4 DEF Counted

\* Only the new verdict needs a look.
LEMMA OneRefusal ==
    ASSUME TInv, RefusedWasCounted, NEW n, NEW f, NEW ok, NEW by, Adds(n, f, ok, by),
           env' = env, ~verdicts'[n].ok => Counted(n)'
    PROVE  RefusedWasCounted'
<1>1. /\ \A i \in Verdicts : ~verdicts[i].ok => Counted(i)
      /\ Verdicts' = Verdicts \cup {n} /\ \A j \in Verdicts : verdicts'[j] = verdicts[j]
  BY Refusals DEF Adds
<1>2. ASSUME NEW i \in Verdicts, ~verdicts'[i].ok PROVE Counted(i)'
  BY <1>1, <1>2, CountedStays DEF TInv
<1>3. \A i \in Verdicts' : ~verdicts'[i].ok => Counted(i)'
  BY <1>1, <1>2
<1> QED
  BY <1>3 DEF RefusedWasCounted, Counted, Allowed, Before, Verdicts

LEMMA MemoryRefuses ==
    ASSUME TInv, RefusedWasCounted, NEW w \in Workers, NEW c \in Clients, NEW e \in Endpoints,
           CheckMemory(w, c, e)
    PROVE  RefusedWasCounted'
<1> PICK n, S : n = Len(verdicts) + 1 /\ S = Recent(requests[w][e][c], now)
  OBVIOUS
<1> PICK ok : ok = Room(Cardinality(S), e)
  OBVIOUS
<1>1. /\ env = "development" /\ env' = env /\ now \in Nat /\ Window \in Nat
      /\ Adds(n, Asked(c, e), ok, w)
  <2>1. Adds(n, Asked(c, e), ok, w)
    BY CheckMemoryStep
  <2> QED
    BY <2>1, RateLimiterAssumption DEF CheckMemory, TInv, TypeOK
<1>2. /\ Verdicts = 1 .. n - 1
      /\ verdicts'[n].client = c /\ verdicts'[n].endpoint = e /\ verdicts'[n].at = now
      /\ verdicts'[n].ok = ok /\ verdicts'[n].by = w
      /\ \A j \in Verdicts : verdicts'[j] = verdicts[j]
  BY <1>1 DEF Adds, Asked
<1>3. ASSUME ~ok PROVE Counted(n)'
  <2> PICK T : T = Allowed(n)'
    OBVIOUS
  <2>1. IsFiniteSet(T) /\ Cardinality(T) \in Nat
    <3>1. T \in SUBSET Verdicts
      BY <1>2 DEF Allowed, Before
    <3> QED
      BY <3>1, SubsetsFinite DEF TInv
  <2>2. IsFiniteSet(S) /\ Cardinality(S) \in Nat
    <3>1. S \in SUBSET requests[w][e][c]
      BY DEF Recent
    <3> QED
      BY <3>1, EntriesFinite, FS_CardinalityType
  <2>3. ASSUME NEW x \in S
        PROVE  /\ x[2] \in T /\ x = <<x[1], x[2]>> /\ x[1] = verdicts[x[2]].at
    <3>1. x \in requests[w][e][c] /\ x[1] > now - Window
      BY DEF Recent
    <3>2. x \in (0 .. MaxTime) \X (1 .. MaxVerdicts)
      BY <3>1 DEF TInv, TypeOK, Entry
    <3>3. Entered(x, w, e, c)
      BY <3>1 DEF TInv, MemoryHolds
    <3>4. x[2] \in Before(n)'
      BY <1>2, <3>1, <3>3 DEF Before, Entered
    <3>5. x[2] \in Allowed(n)'
      BY <1>2, <3>3, <3>4 DEF Allowed, Entered
    <3> QED
      BY <3>2, <3>3, <3>5 DEF Entered
  <2> DEFINE number == [x \in S |-> x[2]]
  <2>4. number \in [S -> T]
    BY <2>3
  <2>5. ASSUME NEW x \in S, NEW y \in S, number[x] = number[y] PROVE x = y
    BY <2>3, <2>5
  <2> HIDE DEF number
  <2>6. number \in Injection(S, T)
    BY <2>4, <2>5 DEF Injection, IsInjective
  <2>7. Cardinality(S) <= Cardinality(T)
    BY <2>1, <2>6, FS_Injection
  <2>8. ~(Cardinality(S) < MaxRequests[e]) /\ MaxRequests[e] \in Nat
    BY <1>3, RateLimiterAssumption DEF Room
  <2>9. MaxRequests[e] <= Cardinality(T)
    BY <2>1, <2>2, <2>7, <2>8
  <2> QED
    BY <1>1, <1>2, <2>9 DEF Counted
<1> QED
  BY <1>1, <1>2, <1>3, OneRefusal

LEMMA RedisRefuses ==
    ASSUME TInv, RedisHolds, RefusedWasCounted, NEW q \in InFlight, NEW heard \in BOOLEAN,
           Execute(q, heard)
    PROVE  RefusedWasCounted'
<1> PICK n, c, e, t : /\ n = Len(verdicts) + 1 /\ c = flight[q].client
                      /\ e = flight[q].endpoint /\ t = flight[q].at
  OBVIOUS
<1> PICK S : S = LiveSince(c, t)
  OBVIOUS
<1> PICK ok : ok = Room(Cardinality(S), e)
  OBVIOUS
<1>1. Ruled(q, n, ok, "redis")
  BY ExecuteStep
<1>2. /\ env = "production" /\ env' = env /\ c \in Clients /\ e \in Endpoints
      /\ t \in 0 .. now /\ now \in 0 .. MaxTime /\ MaxTime \in Nat /\ t \in Instants
  BY <1>1, RateLimiterAssumption DEF Ruled, Flight, TInv, TypeOK, Instants
<1>3. /\ Adds(n, flight[q], ok, "redis") /\ Verdicts = 1 .. n - 1
      /\ verdicts'[n].client = c /\ verdicts'[n].endpoint = e /\ verdicts'[n].at = t
      /\ verdicts'[n].ok = ok /\ verdicts'[n].by = "redis"
      /\ \A j \in Verdicts : verdicts'[j] = verdicts[j]
  BY <1>1 DEF Ruled, Adds
<1>4. ASSUME ~ok PROVE Counted(n)'
  <2> PICK T : T = {verdicts[j].at : j \in Before(n)}'
    OBVIOUS
  <2>1. IsFiniteSet(T) /\ Cardinality(T) \in Nat
    <3>1. T \in SUBSET Instants
      <4>1. \A j \in Before(n)' : j \in Verdicts
        BY <1>3 DEF Before
      <4>2. \A j \in Verdicts : verdicts'[j].at \in Instants
        BY <1>2, <1>3 DEF TInv, Clocks, Instants
      <4> QED
        BY <4>1, <4>2
    <3> QED
      BY <3>1, SubsetsFinite DEF TInv
  <2>2. S \in SUBSET T
    <3> SUFFICES ASSUME NEW x \in S PROVE x \in T
      OBVIOUS
    <3>1. x \in zset[c] /\ x > t - Window
      BY DEF LiveSince
    <3>2. PICK j \in Executed : verdicts[j].client = c /\ verdicts[j].at = x
      BY <1>2, <3>1 DEF RedisHolds
    <3>3. j \in Before(n)' /\ verdicts'[j].at = x
      BY <1>3, <3>1, <3>2 DEF Before, Executed
    <3> QED
      BY <3>3
  <2>3. Cardinality(S) <= Cardinality(T) /\ Cardinality(S) \in Nat
    BY <2>1, <2>2, FS_Subset, FS_CardinalityType
  <2>4. ~(Cardinality(S) < MaxRequests[e]) /\ MaxRequests[e] \in Nat
    BY <1>2, <1>4, RateLimiterAssumption DEF Room
  <2>5. MaxRequests[e] <= Cardinality(T)
    BY <2>1, <2>3, <2>4
  <2> QED
    BY <1>2, <1>3, <2>5 DEF Counted
<1> QED
  BY <1>2, <1>3, <1>4, OneRefusal

LEMMA OpenRefuses ==
    ASSUME TInv, RefusedWasCounted, NEW q \in InFlight, FailOpen(q)
    PROVE  RefusedWasCounted'
<1> PICK n : n = Len(verdicts) + 1
  OBVIOUS
<1>1. Ruled(q, n, TRUE, "nobody")
  BY FailOpenStep
<1>2. Adds(n, flight[q], TRUE, "nobody") /\ env' = env /\ verdicts'[n].ok
  BY <1>1 DEF Ruled, Adds
<1> QED
  BY <1>2, OneRefusal

LEMMA NextRefuses == TInv /\ RedisHolds /\ RefusedWasCounted /\ [Next]_vars => RefusedWasCounted'
<1> SUFFICES ASSUME TInv, RedisHolds, RefusedWasCounted, [Next]_vars PROVE RefusedWasCounted'
  OBVIOUS
<1>1. CASE UNCHANGED <<env, verdicts>>
  <2>1. \A i \in Verdicts : ~verdicts[i].ok => Counted(i)
    BY Refusals
  <2>2. \A i \in Verdicts' : ~verdicts'[i].ok => Counted(i)'
    BY <1>1, <2>1, CountedStays DEF TInv, Verdicts
  <2> QED
    BY <2>2 DEF RefusedWasCounted, Counted, Allowed, Before, Verdicts
<1> QED
  BY <1>1, MemoryRefuses, RedisRefuses, OpenRefuses DEF Next, vars, ReadClock, Tick

\* Whoever is refused was counted as often as the limiter lets through within the window
\* that ends at the refusal.
THEOREM OnlyTheCountedRefused == Spec => []RefusedWasCounted
<1>1. Init => RedisHolds /\ RefusedWasCounted
  BY InitRedis DEF Init, RefusedWasCounted
<1> QED
  BY <1>1, TypeInvariance, NextRedis, NextRefuses, PTL DEF Spec
=============================================================================
