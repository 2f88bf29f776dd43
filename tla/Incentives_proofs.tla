------------------------- MODULE Incentives_proofs -------------------------
(***************************************************************************)
(* Proofs about the points ledger: types, penalties that stay, and totals  *)
(* that are the sum of what the contributions and soul actions gave.  The  *)
(* inductive invariant adds to LedgerBalances what the sessions under way  *)
(* know: an award has a contribution id of its own whose row is not there  *)
(* yet, a verification or a rejection is about a row that is, and both are *)
(* about the agent of that row.                                            *)
(***************************************************************************)
EXTENDS Incentives, Functions, FiniteSetTheorems, TLAPS

\* A row names an agent unless it is not there.
RowsSound ==
    \A c \in Contributions : contribution[c].agent = NoAgent => contribution[c] = NoRow

\* What a session that is under way has read.
SessionSound(q) ==
    LET s == request[q]
        c == s.contribution
    IN  /\ s.agent \in Agents
        /\ s.kind = "soul" => s.contribution = NoContribution /\ s.phase # "contribution"
        /\ s.kind # "soul" => s.contribution \in Contributions
        /\ s.kind = "award" =>
              /\ s.phase # "contribution" /\ s.seenRow = NoRow /\ contribution[c] = NoRow
              /\ \A p \in Requests \ {q} : request[p].contribution # c
        /\ s.kind \in {"verify", "reject"} =>
              /\ contribution[c] # NoRow
              /\ contribution[c].agent = s.agent /\ s.seenRow.agent = s.agent
        /\ s.kind = "verify" => s.phase # "agent" /\ (s.phase = "flushed" => s.seenAgent = ZeroTotals)

SessionsSound == \A q \in Requests : request[q].phase # "idle" => SessionSound(q)

TInv == TypeOK /\ RowsSound /\ SessionsSound
LInv == TInv /\ LedgerBalances

-----------------------------------------------------------------------------
(***************************************************************************)
(* The operators.                                                          *)
(***************************************************************************)
LEMMA PointsAreInt ==
    /\ \A claim : CalculatePoints(claim) \in Int
    /\ \A action : SoulPoints(action) \in Int
<1>1. ASSUME NEW x \in DOMAIN PointsTable PROVE PointsTable[x] \in Int
  BY <1>1 DEF PointsTable
<1>2. \A claim : CalculatePoints(claim) \in Int
  BY <1>1 DEF CalculatePoints
<1>3. \A action : SoulPoints(action) \in Int
  BY DEF SoulPoints
<1> QED
  BY <1>2, <1>3

LEMMA IdleTypes ==
    /\ ZeroTotals \in Totals /\ NoRow \in Row /\ Idle \in Session
    /\ Idle.phase = "idle" /\ Idle.contribution = NoContribution
<1>1. ZeroTotals \in Totals /\ NoRow \in Row
  BY DEF ZeroTotals, Totals, NoRow, Row
<1> QED
  BY <1>1 DEF Idle, Session, Kinds

\* What each kind of session writes, when the rows are still those it read and when not.
LEMMA NewTotalsOf ==
    ASSUME NEW s \in Session
    PROVE  /\ NewTotals(s) \in Totals
           /\ s.kind \in {"award", "soul"} =>
                 NewTotals(s).points = s.seenAgent.points + s.points
           /\ s.kind = "award" => NewTotals(s) # s.seenAgent
           /\ s.kind = "verify" => NewTotals(s) = s.seenAgent
           /\ s.kind = "reject" =>
                 NewTotals(s).points = s.seenAgent.points - s.seenRow.points - 20
<1>1. /\ s.kind \in Kinds /\ s.points \in Int /\ s.seenRow.points \in Int
      /\ s.seenAgent \in Totals
      /\ s.seenAgent.points \in Int /\ s.seenAgent.contributions \in Int
  BY DEF Session, Totals, Row
<1>2. CASE s.kind = "award"
  BY <1>1, <1>2 DEF NewTotals, Totals
<1>3. CASE s.kind = "soul"
  BY <1>1, <1>3 DEF NewTotals, Totals
<1>4. CASE s.kind = "reject"
  BY <1>1, <1>4 DEF NewTotals, AfterReject, Totals, FALSE_POSITIVE_PENALTY
<1>5. CASE s.kind = "verify"
  BY <1>1, <1>5 DEF NewTotals
<1> QED
  BY <1>1, <1>2, <1>3, <1>4, <1>5 DEF Kinds

LEMMA NewRowOf ==
    ASSUME NEW s \in Session, s.agent \in Agents
    PROVE  /\ NewRow(s) \in Row
           /\ s.kind = "award" =>
                 NewRow(s) = [agent |-> s.agent, points |-> s.points, verified |-> FALSE]
           /\ s.kind = "verify" =>
                 NewRow(s).agent = s.seenRow.agent /\ NewRow(s).points = s.seenRow.points
           /\ s.kind = "reject" =>
                 NewRow(s).agent = s.seenRow.agent /\ NewRow(s).points = -20
<1>1. s.kind \in Kinds /\ s.points \in Int /\ s.seenRow \in Row
  BY DEF Session
<1>2. CASE s.kind = "award"
  BY <1>1, <1>2 DEF NewRow, Row
<1>3. CASE s.kind = "soul"
  <2>1. NewRow(s) = s.seenRow
    BY <1>3 DEF NewRow
  <2> QED
    BY <1>1, <1>3, <2>1
<1>4. CASE s.kind = "reject"
  <2>1. NewRow(s) = [s.seenRow EXCEPT !.verified = FALSE, !.points = -20]
    BY <1>4 DEF NewRow, FALSE_POSITIVE_PENALTY
  <2>2. NewRow(s) \in Row
    <3> PICK penalty \in Int : penalty = -20
      OBVIOUS
    <3>1. [s.seenRow EXCEPT !.verified = FALSE, !.points = penalty] \in Row
      BY <1>1 DEF Row
    <3> QED
      BY <2>1, <3>1
  <2>3. NewRow(s).agent = s.seenRow.agent /\ NewRow(s).points = -20
    BY <1>1, <2>1 DEF Row
  <2> QED
    BY <1>4, <2>2, <2>3
<1>5. CASE s.kind = "verify"
  BY <1>1, <1>5 DEF NewRow, Row
<1> QED
  BY <1>1, <1>2, <1>3, <1>4, <1>5 DEF Kinds

LEMMA ChangedTypes ==
    /\ \A cur, seen, new \in Totals : ChangedTotals(cur, seen, new) \in Totals
    /\ \A cur, seen, new \in Row : ChangedRow(cur, seen, new) \in Row
<1>1. ASSUME NEW cur \in Totals, NEW seen \in Totals, NEW new \in Totals
      PROVE  ChangedTotals(cur, seen, new) \in Totals
  BY DEF ChangedTotals, Totals
<1>2. ASSUME NEW cur \in Row, NEW seen \in Row, NEW new \in Row
      PROVE  ChangedRow(cur, seen, new) \in Row
  BY DEF ChangedRow, Row
<1> QED
  BY <1>1, <1>2

-----------------------------------------------------------------------------
(***************************************************************************)
(* Types and sessions.                                                     *)
(***************************************************************************)
LEMMA InitTypes == Init => TInv
<1> SUFFICES ASSUME Init PROVE TInv
  OBVIOUS
<1>1. TypeOK
  BY IdleTypes DEF Init, TypeOK
<1>2. RowsSound /\ SessionsSound
  BY IdleTypes DEF Init, RowsSound, SessionsSound
<1> QED
  BY <1>1, <1>2 DEF TInv

\* A session begins: nothing is locked for it, and the committed rows stay.
LEMMA BeginTypes ==
    ASSUME TInv, NEW q \in Requests, NEW s \in Session, request[q].phase = "idle",
           request' = [request EXCEPT ![q] = s], s.phase # "idle",
           UNCHANGED <<agent, contribution, lock, soul, overwritten>>,
           SessionSound(q)',
           s.contribution \in Contributions =>
              \/ contribution[s.contribution] # NoRow
              \/ \A p \in Requests : request[p].contribution # s.contribution
    PROVE  TInv'
<1>1. request' \in [Requests -> Session] /\ request'[q] = s
  BY DEF TInv, TypeOK
<1>2. \A p \in Requests : p # q => request'[p] = request[p]
  BY DEF TInv, TypeOK
<1>3. \A x \in Agents \cup Contributions : lock[x] # q \/ lock[x] = NoRequest
  BY IncentivesAssumption DEF TInv, TypeOK
<1>4. TypeOK'
  <2>1. ASSUME NEW x \in Agents \cup Contributions, lock[x] # NoRequest
        PROVE  /\ x \in {request'[lock[x]].agent, request'[lock[x]].contribution}
               /\ request'[lock[x]].phase \in {"agent", "flushed"}
    BY <1>2, <1>3, <2>1 DEF TInv, TypeOK
  <2> QED
    BY <1>1, <2>1 DEF TInv, TypeOK
<1>5. SessionsSound'
  <2> SUFFICES ASSUME NEW p \in Requests, request'[p].phase # "idle" PROVE SessionSound(p)'
    BY DEF SessionsSound
  <2>1. CASE p = q
    BY <2>1
  <2>2. CASE p # q
    <3>1. SessionSound(p) /\ request'[p] = request[p]
      BY <1>2, <2>2 DEF TInv, SessionsSound
    <3>2. request[p].kind = "award" => s.contribution # request[p].contribution
      BY <3>1, <2>2 DEF SessionSound
    <3> QED
      BY <1>1, <1>2, <3>1, <3>2 DEF SessionSound
  <2> QED
    BY <2>1, <2>2
<1> QED
  BY <1>4, <1>5 DEF TInv, RowsSound

LEMMA AwardTypes ==
    ASSUME TInv, NEW q \in Requests, NEW a \in Agents, NEW c \in Contributions, NEW claim,
           BeginAward(q, a, c, claim)
    PROVE  TInv'
<1> DEFINE pts == CalculatePoints(claim)
<1>1. pts \in Int
  BY PointsAreInt
<1> HIDE DEF pts
<1> PICK s : s = [Idle EXCEPT !.phase = "agent", !.kind = "award", !.agent = a,
                              !.contribution = c, !.points = pts, !.seenAgent = agent[a]]
  OBVIOUS
<1>2. /\ s \in Session /\ s.phase = "agent" /\ s.kind = "award" /\ s.agent = a
      /\ s.contribution = c /\ s.seenRow = NoRow
  BY <1>1, IdleTypes DEF Idle, Session, TInv, TypeOK, Kinds
<1>3. /\ request[q].phase = "idle" /\ contribution[c] = NoRow
      /\ \A p \in Requests : request[p].contribution # c
      /\ request' = [request EXCEPT ![q] = s]
      /\ UNCHANGED <<agent, contribution, lock, soul, overwritten>>
  BY DEF BeginAward, pts
<1>4. /\ request'[q] = s
      /\ \A p \in Requests : p # q => request'[p] = request[p]
  BY <1>3 DEF TInv, TypeOK
<1>5. SessionSound(q)'
  BY <1>2, <1>3, <1>4 DEF SessionSound
<1> QED
  BY <1>2, <1>3, <1>5, BeginTypes

LEMMA SoulTypes ==
    ASSUME TInv, NEW q \in Requests, NEW a \in Agents, NEW action, BeginSoul(q, a, action)
    PROVE  TInv'
<1> DEFINE pts == SoulPoints(action)
<1>1. pts \in Int
  BY PointsAreInt
<1> HIDE DEF pts
<1> PICK s : s = [Idle EXCEPT !.phase = "agent", !.kind = "soul", !.agent = a,
                              !.points = pts, !.seenAgent = agent[a]]
  OBVIOUS
<1>2. /\ s \in Session /\ s.phase = "agent" /\ s.kind = "soul" /\ s.agent = a
      /\ s.contribution = NoContribution
  BY <1>1, IdleTypes DEF Idle, Session, TInv, TypeOK, Kinds
<1>3. /\ request[q].phase = "idle"
      /\ request' = [request EXCEPT ![q] = s]
      /\ UNCHANGED <<agent, contribution, lock, soul, overwritten>>
  BY DEF BeginSoul, pts
<1>4. request'[q] = s
  BY <1>3 DEF TInv, TypeOK
<1>5. SessionSound(q)'
  BY <1>2, <1>3, <1>4 DEF SessionSound
<1> QED
  BY <1>2, <1>3, <1>5, IncentivesAssumption, BeginTypes

LEMMA VerifyTypes ==
    ASSUME TInv, NEW q \in Requests, NEW c \in Contributions, NEW valid \in BOOLEAN,
           BeginVerify(q, c, valid)
    PROVE  TInv'
<1> PICK kind : kind = IF valid THEN "verify" ELSE "reject"
  OBVIOUS
<1> PICK s : s = [Idle EXCEPT !.phase = "contribution", !.kind = kind,
                              !.agent = contribution[c].agent, !.contribution = c,
                              !.seenRow = contribution[c]]
  OBVIOUS
<1>1. /\ contribution[c] \in Row /\ contribution[c] # NoRow
      /\ contribution[c].agent \in Agents
  BY DEF BeginVerify, TInv, TypeOK, RowsSound, Row
<1>2. kind \in {"verify", "reject"}
  OBVIOUS
<1>3. /\ s \in Session /\ s.phase = "contribution" /\ s.kind = kind
      /\ s.agent = contribution[c].agent /\ s.contribution = c /\ s.seenRow = contribution[c]
  BY <1>1, <1>2, IdleTypes DEF Idle, Session, Kinds
<1>4. /\ request[q].phase = "idle"
      /\ request' = [request EXCEPT ![q] = s]
      /\ UNCHANGED <<agent, contribution, lock, soul, overwritten>>
  BY DEF BeginVerify
<1>5. request'[q] = s
  BY <1>4 DEF TInv, TypeOK
<1>6. SessionSound(q)'
  BY <1>1, <1>2, <1>3, <1>4, <1>5 DEF SessionSound
<1> QED
  BY <1>1, <1>3, <1>4, <1>6, BeginTypes

\* A flush moves a session on and may take the lock of one row of its.
LEMMA FlushTypes ==
    ASSUME TInv, NEW q \in Requests, NEW s \in Session, request[q].phase # "idle",
           request' = [request EXCEPT ![q] = s],
           s.phase \in {"agent", "flushed"},
           s.kind = request[q].kind, s.agent = request[q].agent,
           s.contribution = request[q].contribution, s.seenRow = request[q].seenRow,
           s.kind = "verify" => s.phase = "flushed" /\ s.seenAgent = ZeroTotals,
           NEW x \in Agents \cup Contributions, x \in {s.agent, s.contribution},
           lock' = lock \/ lock' = [lock EXCEPT ![x] = q],
           UNCHANGED <<agent, contribution, soul, overwritten>>
    PROVE  TInv'
<1>1. request' \in [Requests -> Session] /\ request'[q] = s
  BY DEF TInv, TypeOK
<1>2. \A p \in Requests : p # q => request'[p] = request[p]
  BY DEF TInv, TypeOK
<1>3. lock' \in [Agents \cup Contributions -> Requests \cup {NoRequest}]
  BY DEF TInv, TypeOK
<1>4. ASSUME NEW y \in Agents \cup Contributions, lock'[y] # NoRequest
      PROVE  /\ y \in {request'[lock'[y]].agent, request'[lock'[y]].contribution}
             /\ request'[lock'[y]].phase \in {"agent", "flushed"}
  <2>1. CASE lock'[y] = q /\ lock[y] # q
    <3>1. y = x
      BY <2>1 DEF TInv, TypeOK
    <3> QED
      BY <1>1, <2>1, <3>1
  <2>2. CASE lock[y] = q /\ lock'[y] = q
    BY <1>1, <1>4, <2>2 DEF TInv, TypeOK
  <2>3. CASE lock'[y] # q
    <3>1. lock'[y] = lock[y] /\ lock[y] \in Requests
      BY <1>4, <2>3 DEF TInv, TypeOK
    <3> QED
      BY <1>2, <1>4, <2>3, <3>1 DEF TInv, TypeOK
  <2> QED
    BY <2>1, <2>2, <2>3
<1>5. TypeOK'
  BY <1>1, <1>3, <1>4 DEF TInv, TypeOK
<1>6. SessionsSound'
  <2> SUFFICES ASSUME NEW p \in Requests, request'[p].phase # "idle" PROVE SessionSound(p)'
    BY DEF SessionsSound
  <2>1. CASE p = q
    <3>1. SessionSound(q)
      BY DEF TInv, SessionsSound
    <3> QED
      BY <1>1, <1>2, <2>1, <3>1 DEF SessionSound
  <2>2. CASE p # q
    <3>1. SessionSound(p) /\ request'[p] = request[p]
      BY <1>2, <2>2 DEF TInv, SessionsSound
    <3> QED
      BY <1>1, <1>2, <3>1 DEF SessionSound
  <2> QED
    BY <2>1, <2>2
<1> QED
  BY <1>5, <1>6 DEF TInv, RowsSound

LEMMA FlushContributionTypes ==
    ASSUME TInv, NEW q \in Requests, FlushContribution(q)
    PROVE  TInv'
<1>1. /\ request[q] \in Session /\ request[q].phase = "contribution" /\ SessionSound(q)
  BY DEF FlushContribution, TInv, TypeOK, SessionsSound
<1>2. /\ request[q].kind \in {"verify", "reject"} /\ request[q].agent \in Agents
      /\ request[q].contribution \in Contributions
  BY <1>1 DEF SessionSound, Session, Kinds
<1> PICK totals : totals = IF request[q].kind = "verify" THEN ZeroTotals ELSE agent[request[q].agent]
  OBVIOUS
<1> PICK phase : phase = IF request[q].kind = "verify" THEN "flushed" ELSE "agent"
  OBVIOUS
<1>3. totals \in Totals /\ phase \in {"agent", "flushed"}
  BY <1>2, IdleTypes DEF TInv, TypeOK
<1> PICK s : s = [request[q] EXCEPT !.phase = phase, !.seenAgent = totals]
  OBVIOUS
<1>4. /\ s \in Session /\ s.phase = phase /\ s.seenAgent = totals
      /\ s.kind = request[q].kind /\ s.agent = request[q].agent
      /\ s.contribution = request[q].contribution /\ s.seenRow = request[q].seenRow
  BY <1>1, <1>3 DEF Session
<1>5. request' = [request EXCEPT ![q] = s]
  BY DEF FlushContribution, TInv, TypeOK
<1>6. /\ lock' = lock \/ lock' = [lock EXCEPT ![request[q].contribution] = q]
      /\ UNCHANGED <<agent, contribution, soul, overwritten>>
  BY DEF FlushContribution
<1> QED
  BY <1>1, <1>2, <1>3, <1>4, <1>5, <1>6, FlushTypes

LEMMA FlushAgentTypes ==
    ASSUME TInv, NEW q \in Requests, FlushAgent(q)
    PROVE  TInv'
<1>1. /\ request[q] \in Session /\ request[q].phase = "agent" /\ SessionSound(q)
  BY DEF FlushAgent, TInv, TypeOK, SessionsSound
<1>2. request[q].agent \in Agents /\ request[q].kind # "verify"
  BY <1>1 DEF SessionSound
<1> PICK s : s = [request[q] EXCEPT !.phase = "flushed"]
  OBVIOUS
<1>3. /\ s \in Session /\ s.phase = "flushed"
      /\ s.kind = request[q].kind /\ s.agent = request[q].agent
      /\ s.contribution = request[q].contribution /\ s.seenRow = request[q].seenRow
  BY <1>1 DEF Session
<1>4. request' = [request EXCEPT ![q] = s]
  BY DEF FlushAgent, TInv, TypeOK
<1>5. /\ lock' = lock \/ lock' = [lock EXCEPT ![request[q].agent] = q]
      /\ UNCHANGED <<agent, contribution, soul, overwritten>>
  BY DEF FlushAgent
<1> QED
  BY <1>1, <1>2, <1>3, <1>4, <1>5, FlushTypes

\* A session ends: its locks are free, the other sessions keep theirs.
LEMMA EndTypes ==
    ASSUME TInv, NEW q \in Requests, lock' = Unlocked(q), request' = [request EXCEPT ![q] = Idle]
    PROVE  /\ lock' \in [Agents \cup Contributions -> Requests \cup {NoRequest}]
           /\ request' \in [Requests -> Session]
           /\ request'[q] = Idle /\ \A p \in Requests : p # q => request'[p] = request[p]
           /\ \A x \in Agents \cup Contributions : lock'[x] # NoRequest =>
                 /\ x \in {request'[lock'[x]].agent, request'[lock'[x]].contribution}
                 /\ request'[lock'[x]].phase \in {"agent", "flushed"}
<1>1. lock' \in [Agents \cup Contributions -> Requests \cup {NoRequest}]
  BY DEF Unlocked, TInv, TypeOK
<1>2. /\ request' \in [Requests -> Session] /\ request'[q] = Idle
      /\ \A p \in Requests : p # q => request'[p] = request[p]
  BY IdleTypes DEF TInv, TypeOK
<1>3. ASSUME NEW x \in Agents \cup Contributions, lock'[x] # NoRequest
      PROVE  /\ x \in {request'[lock'[x]].agent, request'[lock'[x]].contribution}
             /\ request'[lock'[x]].phase \in {"agent", "flushed"}
  <2>1. lock'[x] = lock[x] /\ lock[x] # q /\ lock[x] \in Requests
    BY <1>3 DEF Unlocked, TInv, TypeOK
  <2> QED
    BY <1>2, <1>3, <2>1 DEF TInv, TypeOK
<1> QED
  BY <1>1, <1>2, <1>3

LEMMA AbortTypes ==
    ASSUME TInv, NEW q \in Requests, Abort(q)
    PROVE  TInv'
<1>1. TypeOK'
  BY EndTypes DEF Abort, TInv, TypeOK
<1>2. SessionsSound'
  <2> SUFFICES ASSUME NEW p \in Requests, request'[p].phase # "idle" PROVE SessionSound(p)'
    BY DEF SessionsSound
  <2>1. /\ p # q /\ request'[p] = request[p]
        /\ \A r \in Requests : r # q => request'[r] = request[r]
        /\ request'[q].contribution = NoContribution
    BY EndTypes, IdleTypes DEF Abort
  <2>2. SessionSound(p)
    BY <2>1 DEF TInv, SessionsSound
  <2> QED
    BY <2>1, <2>2, IncentivesAssumption DEF SessionSound, Abort
<1> QED
  BY <1>1, <1>2 DEF TInv, RowsSound, Abort

-----------------------------------------------------------------------------
(***************************************************************************)
(* What a commit does to the rows and to the totals.                       *)
(***************************************************************************)
LEMMA CommitRows ==
    ASSUME TInv, NEW q \in Requests, Commit(q)
    PROVE  LET s == request[q]
               c == s.contribution
           IN  /\ contribution' \in [Contributions -> Row]
               /\ s.kind = "soul" => contribution' = contribution
               /\ s.kind # "soul" => /\ contribution'[c].agent = s.agent
                                     /\ \A x \in Contributions : x # c =>
                                           contribution'[x] = contribution[x]
               /\ s.kind = "award" =>
                     contribution'[c] = [agent |-> s.agent, points |-> s.points, verified |-> FALSE]
               /\ s.kind = "verify" => contribution'[c].points = contribution[c].points
               /\ s.kind = "reject" =>
                     /\ s.seenRow.points = contribution[c].points => contribution'[c].points = -20
                     /\ contribution[c].points = -20 => contribution'[c].points = -20
<1> PICK s : s = request[q]
  OBVIOUS
<1> PICK c : c = s.contribution
  OBVIOUS
<1>1. s \in Session /\ SessionSound(q) /\ s.agent \in Agents
  BY DEF Commit, TInv, TypeOK, SessionsSound, SessionSound
<1>2. CASE s.kind = "soul"
  <2>1. contribution' = contribution
    BY <1>2 DEF Commit
  <2> QED
    BY <1>2, <2>1 DEF TInv, TypeOK
<1>3. CASE s.kind # "soul"
  <2>1. /\ c \in Contributions /\ s.kind \in {"award", "verify", "reject"}
        /\ contribution[c] \in Row /\ s.seenRow \in Row
    BY <1>1, <1>3 DEF SessionSound, Session, Kinds, TInv, TypeOK
  <2> PICK row : row = ChangedRow(contribution[c], s.seenRow, NewRow(s))
    OBVIOUS
  <2>2. contribution' = [contribution EXCEPT ![c] = row]
    BY <1>3 DEF Commit
  <2>3. row \in Row
    BY <1>1, <2>1, NewRowOf, ChangedTypes
  <2>4. /\ contribution' \in [Contributions -> Row] /\ contribution'[c] = row
        /\ \A x \in Contributions : x # c => contribution'[x] = contribution[x]
    BY <2>1, <2>2, <2>3 DEF TInv, TypeOK
  <2>5. row = [agent |-> IF NewRow(s).agent # s.seenRow.agent THEN NewRow(s).agent
                         ELSE contribution[c].agent,
               points |-> IF NewRow(s).points # s.seenRow.points THEN NewRow(s).points
                          ELSE contribution[c].points,
               verified |-> IF NewRow(s).verified # s.seenRow.verified THEN NewRow(s).verified
                            ELSE contribution[c].verified]
    BY DEF ChangedRow
  <2>6. CASE s.kind = "award"
    <3>1. s.seenRow = NoRow /\ contribution[c] = NoRow
      BY <1>1, <2>6 DEF SessionSound
    <3>2. NewRow(s) = [agent |-> s.agent, points |-> s.points, verified |-> FALSE]
      BY <1>1, <2>6, NewRowOf
    <3>3. s.agent # NoAgent
      BY <1>1, IncentivesAssumption
    <3>4. row = [agent |-> s.agent, points |-> s.points, verified |-> FALSE]
      BY <2>5, <3>1, <3>2, <3>3 DEF NoRow
    <3> QED
      BY <2>4, <2>6, <3>4
  <2>7. CASE s.kind = "verify"
    <3>1. NewRow(s).agent = s.seenRow.agent /\ NewRow(s).points = s.seenRow.points
      BY <1>1, <2>7, NewRowOf
    <3>2. contribution[c].agent = s.agent
      BY <1>1, <2>7 DEF SessionSound
    <3>3. row.agent = s.agent /\ row.points = contribution[c].points
      BY <2>5, <3>1, <3>2
    <3> QED
      BY <2>4, <2>7, <3>3
  <2>8. CASE s.kind = "reject"
    <3>1. NewRow(s).agent = s.seenRow.agent /\ NewRow(s).points = -20
      BY <1>1, <2>8, NewRowOf
    <3>2. contribution[c].agent = s.agent
      BY <1>1, <2>8 DEF SessionSound
    <3>3. row.agent = s.agent
      BY <2>5, <3>1, <3>2
    <3>4. row.points = IF -20 # s.seenRow.points THEN -20 ELSE contribution[c].points
      BY <2>5, <3>1
    <3> QED
      BY <2>4, <2>8, <3>3, <3>4
  <2> QED
    BY <2>1, <2>6, <2>7, <2>8
<1> QED
  BY <1>2, <1>3

LEMMA CommitTotals ==
    ASSUME TInv, NEW q \in Requests, Commit(q)
    PROVE  LET s == request[q]
               a == s.agent
           IN  /\ agent' \in [Agents -> Totals]
               /\ \A x \in Agents : x # a => agent'[x] = agent[x]
               /\ ~Outdated(s) =>
                     /\ s.kind \in {"award", "soul"} =>
                           agent'[a].points = agent[a].points + s.points
                     /\ s.kind = "verify" => agent'[a].points = agent[a].points
                     /\ s.kind = "reject" =>
                           /\ s.seenRow.points = contribution[s.contribution].points
                           /\ agent'[a].points = agent[a].points - s.seenRow.points - 20
<1> PICK s : s = request[q]
  OBVIOUS
<1> PICK a : a = s.agent
  OBVIOUS
<1> PICK new : new = NewTotals(s)
  OBVIOUS
<1>1. s \in Session /\ a \in Agents /\ new \in Totals /\ s.seenAgent \in Totals
      /\ agent[a] \in Totals /\ s.kind \in Kinds
  <2>1. s \in Session /\ a \in Agents
    BY DEF Commit, TInv, TypeOK, SessionsSound, SessionSound
  <2> QED
    BY <2>1, NewTotalsOf DEF Session, TInv, TypeOK
<1> PICK totals : totals = ChangedTotals(agent[a], s.seenAgent, new)
  OBVIOUS
<1>2. /\ agent' = [agent EXCEPT ![a] = totals] /\ totals \in Totals
  <2>1. totals \in Totals
    BY <1>1, ChangedTypes
  <2> QED
    BY <2>1 DEF Commit
<1>3. /\ agent' \in [Agents -> Totals] /\ agent'[a] = totals
      /\ \A x \in Agents : x # a => agent'[x] = agent[x]
  BY <1>1, <1>2 DEF TInv, TypeOK
<1>4. totals.points = IF new.points # s.seenAgent.points THEN new.points ELSE agent[a].points
  BY DEF ChangedTotals
<1>5. agent[a].points \in Int /\ s.seenAgent.points \in Int /\ s.points \in Int
      /\ s.seenRow.points \in Int
  BY <1>1 DEF Totals, Session, Row
<1>6. ASSUME ~Outdated(s)
      PROVE  /\ new = s.seenAgent \/ agent[a] = s.seenAgent
             /\ s.kind = "reject" => s.seenRow.points = contribution[s.contribution].points
  BY <1>6 DEF Outdated
<1>7. ASSUME ~Outdated(s), s.kind \in {"award", "soul"}
      PROVE  totals.points = agent[a].points + s.points
  <2>1. new.points = s.seenAgent.points + s.points
    BY <1>1, <1>7, NewTotalsOf
  <2>2. CASE new = s.seenAgent
    <3>1. s.points = 0
      BY <1>5, <2>1, <2>2
    <3> QED
      BY <1>4, <1>5, <2>2, <3>1
  <2>3. CASE agent[a] = s.seenAgent
    BY <1>4, <1>5, <2>1, <2>3
  <2> QED
    BY <1>6, <1>7, <2>2, <2>3
<1>8. ASSUME s.kind = "verify" PROVE totals.points = agent[a].points
  <2>1. new = s.seenAgent
    BY <1>1, <1>8, NewTotalsOf
  <2> QED
    BY <1>4, <2>1
<1>9. ASSUME ~Outdated(s), s.kind = "reject"
      PROVE  totals.points = agent[a].points - s.seenRow.points - 20
  <2>1. new.points = s.seenAgent.points - s.seenRow.points - 20
    BY <1>1, <1>9, NewTotalsOf
  <2>2. CASE new = s.seenAgent
    <3>1. 0 = 0 - s.seenRow.points - 20
      BY <1>5, <2>1, <2>2
    <3> QED
      BY <1>4, <1>5, <2>2, <3>1
  <2>3. CASE agent[a] = s.seenAgent
    BY <1>4, <1>5, <2>1, <2>3
  <2> QED
    BY <1>6, <1>9, <2>2, <2>3
<1> QED
  BY <1>3, <1>6, <1>7, <1>8, <1>9

LEMMA CommitTypes ==
    ASSUME TInv, NEW q \in Requests, Commit(q)
    PROVE  TInv'
<1> PICK s : s = request[q]
  OBVIOUS
<1>1. /\ s \in Session /\ SessionSound(q) /\ s.agent \in Agents
      /\ s.points \in Int /\ s.kind \in Kinds
  BY DEF Commit, TInv, TypeOK, SessionsSound, SessionSound, Session
<1>2. agent' \in [Agents -> Totals] /\ contribution' \in [Contributions -> Row]
  BY CommitRows, CommitTotals
<1>3. soul' \in [Agents -> [points: Int, actions: Nat]]
  <2>1. CASE s.kind = "soul"
    <3> DEFINE new == [points |-> soul[s.agent].points + s.points,
                       actions |-> soul[s.agent].actions + 1]
    <3>1. new \in [points: Int, actions: Nat]
      BY <1>1 DEF TInv, TypeOK
    <3>2. soul' = [soul EXCEPT ![s.agent] = new]
      BY <2>1 DEF Commit, TInv, TypeOK
    <3> HIDE DEF new
    <3> QED
      BY <3>1, <3>2 DEF TInv, TypeOK
  <2>2. CASE s.kind # "soul"
    BY <2>2 DEF Commit, TInv, TypeOK
  <2> QED
    BY <2>1, <2>2
<1>4. overwritten' \subseteq Agents
  BY <1>1 DEF Commit, TInv, TypeOK
<1>5. /\ lock' = Unlocked(q) /\ request' = [request EXCEPT ![q] = Idle]
  BY DEF Commit
<1>6. TypeOK'
  BY <1>2, <1>3, <1>4, <1>5, EndTypes DEF TypeOK
<1>7. RowsSound'
  <2> SUFFICES ASSUME NEW c \in Contributions, contribution'[c].agent = NoAgent
               PROVE  contribution'[c] = NoRow
    BY DEF RowsSound
  <2>1. contribution'[c] = contribution[c]
    BY <1>1, CommitRows, IncentivesAssumption
  <2> QED
    BY <2>1 DEF TInv, RowsSound
<1>8. SessionsSound'
  <2> SUFFICES ASSUME NEW p \in Requests, request'[p].phase # "idle" PROVE SessionSound(p)'
    BY DEF SessionsSound
  <2>1. /\ p # q /\ request'[p] = request[p]
        /\ \A r \in Requests : r # q => request'[r] = request[r]
        /\ request'[q].contribution = NoContribution
    BY <1>5, EndTypes, IdleTypes
  <2>2. SessionSound(p)
    BY <2>1 DEF TInv, SessionsSound
  <2> DEFINE c == request[p].contribution
  <2>3. CASE request[p].kind = "soul"
    BY <2>1, <2>2, <2>3 DEF SessionSound
  <2>4. CASE request[p].kind = "award"
    <3>1. c \in Contributions /\ c # s.contribution
      BY <2>1, <2>2, <2>4 DEF SessionSound
    <3>2. contribution'[c] = contribution[c]
      BY <3>1, CommitRows
    <3> QED
      BY <2>1, <2>2, <2>4, <3>2, IncentivesAssumption DEF SessionSound
  <2>5. CASE request[p].kind \in {"verify", "reject"}
    <3>1. c \in Contributions /\ contribution[c] # NoRow
          /\ contribution[c].agent = request[p].agent /\ request[p].agent \in Agents
      BY <2>2, <2>5 DEF SessionSound
    <3>2. contribution'[c].agent = request[p].agent
      <4>1. CASE s.kind = "soul" \/ c # s.contribution
        BY <3>1, <4>1, CommitRows
      <4>2. CASE s.kind # "soul" /\ c = s.contribution
        <5>1. s.kind \in {"verify", "reject"}
          BY <1>1, <3>1, <4>2 DEF SessionSound, Kinds
        <5>2. contribution[c].agent = s.agent
          BY <1>1, <4>2, <5>1 DEF SessionSound
        <5> QED
          BY <3>1, <4>2, <5>2, CommitRows
      <4> QED
        BY <4>1, <4>2
    <3>3. contribution'[c] # NoRow
      BY <3>1, <3>2, IncentivesAssumption DEF NoRow
    <3> QED
      BY <2>1, <2>2, <2>5, <3>1, <3>2, <3>3 DEF SessionSound
  <2>6. request[p].kind \in Kinds
    BY DEF TInv, TypeOK, Session
  <2> QED
    BY <2>3, <2>4, <2>5, <2>6 DEF Kinds
<1> QED
  BY <1>6, <1>7, <1>8 DEF TInv

LEMMA NextTypes == TInv /\ [Next]_vars => TInv'
<1> SUFFICES ASSUME TInv, [Next]_vars PROVE TInv'
  OBVIOUS
<1>1. CASE UNCHANGED vars
  BY <1>1 DEF vars, TInv, TypeOK, RowsSound, SessionsSound, SessionSound
<1> QED
  BY <1>1, AwardTypes, SoulTypes, VerifyTypes, FlushContributionTypes, FlushAgentTypes,
     CommitTypes, AbortTypes DEF Next

\* Rows and sessions keep their types, and sessions know of the rows they are about.
THEOREM TypeInvariance == Spec => []TInv
<1> QED
  BY InitTypes, NextTypes, PTL DEF Spec

\* Rows and sessions have their types and a lock is held only by a session that has
\* written its row and not ended.
THEOREM TypeCorrect == Spec => []TypeOK
<1>1. TInv => TypeOK
  BY DEF TInv
<1> QED
  BY <1>1, TypeInvariance, PTL

-----------------------------------------------------------------------------
(***************************************************************************)
(* Penalties stay, and the ledger balances.                                *)
(***************************************************************************)

\* Whoever verifies or rejects a penalized contribution again leaves it penalized.
THEOREM PenaltiesStay == Spec => PenaltyStays
<1> DEFINE Kept == \A c \in Contributions :
                      contribution[c].points = FALSE_POSITIVE_PENALTY =>
                          contribution'[c].points = FALSE_POSITIVE_PENALTY
<1>1. TInv /\ [Next]_vars => [Kept]_vars
  <2> SUFFICES ASSUME TInv, Next, NEW c \in Contributions, contribution[c].points = -20
               PROVE  contribution'[c].points = -20
    BY DEF FALSE_POSITIVE_PENALTY
  <2>1. CASE contribution' = contribution
    BY <2>1
  <2>2. ASSUME NEW q \in Requests, Commit(q) PROVE contribution'[c].points = -20
    <3>1. SessionSound(q) /\ request[q].kind \in Kinds
      BY <2>2 DEF Commit, TInv, TypeOK, SessionsSound, Session
    <3>2. CASE request[q].kind = "soul" \/ c # request[q].contribution
      BY <2>2, <3>2, CommitRows
    <3>3. CASE request[q].kind # "soul" /\ c = request[q].contribution
      <4>1. request[q].kind # "award"
        BY <3>1, <3>3 DEF SessionSound, NoRow
      <4> QED
        BY <2>2, <3>1, <3>3, <4>1, CommitRows DEF Kinds
    <3> QED
      BY <3>2, <3>3
  <2> QED
    BY <2>1, <2>2 DEF Next, BeginAward, BeginSoul, BeginVerify, FlushContribution,
       FlushAgent, Abort
<1> QED
  BY <1>1, TypeInvariance, PTL DEF Spec, PenaltyStays

-----------------------------------------------------------------------------
(***************************************************************************)
(* How a sum changes when a summand is added to it or changed.             *)
(***************************************************************************)
\* A finite function has finitely many units.
LEMMA UnitsFinite ==
    ASSUME NEW S, IsFiniteSet(S), NEW f \in [S -> Int]
    PROVE  IsFiniteSet(Units(f)) /\ Cardinality(Units(f)) \in Nat
<1> DEFINE unitsOf == [x \in S |-> {x} \X (1 .. f[x])]
           blocks == {{x} \X (1 .. f[x]) : x \in DOMAIN f}
<1>1. unitsOf \in Surjection(S, blocks)
  BY DEF Surjection
<1>2. IsFiniteSet(blocks)
  BY <1>1, FS_Surjection
<1>3. ASSUME NEW B \in blocks PROVE IsFiniteSet(B)
  <2>1. PICK x \in S : B = {x} \X (1 .. f[x])
    OBVIOUS
  <2>2. f[x] \in Int
    OBVIOUS
  <2>3. IsFiniteSet(1 .. f[x])
    BY <2>2, FS_Interval
  <2>4. IsFiniteSet({x})
    BY FS_Singleton
  <2> QED
    BY <2>1, <2>3, <2>4, FS_Product
<1>4. IsFiniteSet(UNION blocks)
  BY <1>2, <1>3, FS_UNION
<1> QED
  BY <1>4, FS_CardinalityType DEF Units

\* One element more, with its units: where two functions agree elsewhere.
LEMMA UnitsSplit ==
    ASSUME NEW S, IsFiniteSet(S), NEW x, x \notin S, NEW f \in [S \cup {x} -> Int],
           NEW g \in [S -> Int], \A y \in S : f[y] = g[y]
    PROVE  Cardinality(Units(f)) = Cardinality(Units(g)) + (IF f[x] > 0 THEN f[x] ELSE 0)
<1> DEFINE own == {x} \X (1 .. f[x])
<1>1. IsFiniteSet(Units(g)) /\ Cardinality(Units(g)) \in Nat
  BY UnitsFinite
<1>2. IsFiniteSet(own) /\ Cardinality(own) = IF f[x] > 0 THEN f[x] ELSE 0
  <2>1. f[x] \in Int /\ x \in S \cup {x}
    OBVIOUS
  <2>2. IsFiniteSet({x}) /\ Cardinality({x}) = 1
    BY FS_Singleton
  <2>3. /\ IsFiniteSet(1 .. f[x])
        /\ Cardinality(1 .. f[x]) = IF f[x] > 0 THEN f[x] ELSE 0
    BY <2>1, FS_Interval
  <2>4. IsFiniteSet(own) /\ Cardinality(own) = Cardinality({x}) * Cardinality(1 .. f[x])
    BY <2>2, <2>3, FS_Product
  <2> QED
    BY <2>1, <2>2, <2>3, <2>4
<1>3. Units(f) = Units(g) \cup own
  <2>1. DOMAIN f = S \cup {x} /\ DOMAIN g = S
    OBVIOUS
  <2> QED
    BY <2>1 DEF Units
<1>4. Units(g) \cap own = {}
  <2>1. \A u \in Units(g) : u[1] \in S
    BY DEF Units
  <2>2. \A u \in own : u[1] = x
    OBVIOUS
  <2> QED
    BY <2>1, <2>2
<1> HIDE DEF own
<1>5. /\ Cardinality(Units(f)) =
            Cardinality(Units(g)) + Cardinality(own) - Cardinality(Units(g) \cap own)
      /\ Cardinality(Units(g) \cap own) = 0
  BY <1>1, <1>2, <1>3, <1>4, FS_Union, FS_EmptySet
<1>6. f[x] \in Int
  OBVIOUS
<1> QED
  BY <1>1, <1>2, <1>5, <1>6

\* The empty sum, and a sum of zeros.
LEMMA TotalZero ==
    ASSUME NEW f, \A x \in DOMAIN f : f[x] = 0
    PROVE  Total(f) = 0
<1>1. Units(f) = {} /\ Units(Negated(f)) = {}
  BY DEF Units, Negated
<1> QED
  BY <1>1, FS_EmptySet DEF Total

\* One summand more.
LEMMA TotalExtend ==
    ASSUME NEW S, IsFiniteSet(S), NEW x, x \notin S, NEW f \in [S \cup {x} -> Int],
           NEW g \in [S -> Int], \A y \in S : f[y] = g[y]
    PROVE  Total(f) = Total(g) + f[x] /\ Total(g) \in Int
<1>1. /\ Negated(f) \in [S \cup {x} -> Int] /\ Negated(g) \in [S -> Int]
      /\ \A y \in S : Negated(f)[y] = Negated(g)[y]
      /\ Negated(f)[x] = -f[x] /\ f[x] \in Int
  BY DEF Negated
<1> DEFINE p == Cardinality(Units(f))
           n == Cardinality(Units(Negated(f)))
           pg == Cardinality(Units(g))
           ng == Cardinality(Units(Negated(g)))
           v == f[x]
<1>2. p = pg + (IF v > 0 THEN v ELSE 0)
  BY UnitsSplit
<1>3. n = ng + (IF Negated(f)[x] > 0 THEN Negated(f)[x] ELSE 0)
  BY <1>1, UnitsSplit
<1>4. pg \in Nat /\ ng \in Nat
  BY <1>1, UnitsFinite
<1>5. Negated(f)[x] = -v /\ v \in Int
  BY <1>1
<1>6. Total(f) = p - n /\ Total(g) = pg - ng
  BY DEF Total
<1> HIDE DEF p, n, pg, ng, v
<1>7. p - n = (pg - ng) + v /\ pg - ng \in Int
  BY <1>2, <1>3, <1>4, <1>5
<1> QED
  BY <1>6, <1>7 DEF v

\* One summand changed.
LEMMA TotalUpdate ==
    ASSUME NEW S, IsFiniteSet(S), NEW x \in S, NEW f \in [S -> Int], NEW g \in [S -> Int],
           \A y \in S : y # x => f[y] = g[y]
    PROVE  Total(g) = Total(f) - f[x] + g[x] /\ Total(f) \in Int /\ Total(g) \in Int
<1> DEFINE R == S \ {x}
           rest == [y \in R |-> f[y]]
<1>1. IsFiniteSet(R) /\ x \notin R /\ S = R \cup {x}
  BY FS_RemoveElement
<1>2. rest \in [R -> Int] /\ \A y \in R : f[y] = rest[y] /\ g[y] = rest[y]
  OBVIOUS
<1>3. f[x] \in Int /\ g[x] \in Int
  OBVIOUS
<1>4. f \in [R \cup {x} -> Int] /\ g \in [R \cup {x} -> Int]
  BY <1>1
<1> HIDE DEF R, rest
<1>5. Total(f) = Total(rest) + f[x] /\ Total(rest) \in Int
  BY <1>1, <1>2, <1>4, TotalExtend
<1>6. Total(g) = Total(rest) + g[x]
  BY <1>1, <1>2, <1>4, TotalExtend
<1> QED
  BY <1>3, <1>5, <1>6

\* A sum is an integer.
LEMMA TotalInt ==
    ASSUME NEW S, IsFiniteSet(S), NEW f \in [S -> Int]
    PROVE  Total(f) \in Int
<1>1. CASE S = {}
  BY <1>1, TotalZero
<1>2. ASSUME NEW x \in S PROVE Total(f) \in Int
  BY TotalUpdate
<1> QED
  BY <1>1, <1>2

-----------------------------------------------------------------------------
(***************************************************************************)
(* The ledger.                                                             *)
(***************************************************************************)
\* The points of an agent's contributions, as the ledger sums them.
PointsOf(a) == [c \in Awarded(a) |-> contribution[c].points]

LEMMA PointsTyped ==
    ASSUME TInv, NEW a \in Agents
    PROVE  IsFiniteSet(Awarded(a)) /\ PointsOf(a) \in [Awarded(a) -> Int]
<1>1. Awarded(a) \in SUBSET Contributions
  BY DEF Awarded
<1>2. IsFiniteSet(Awarded(a))
  BY <1>1, IncentivesAssumption, FS_Subset
<1>3. \A c \in Awarded(a) : contribution[c].points \in Int
  BY DEF Awarded, TInv, TypeOK, Row
<1> QED
  BY <1>2, <1>3 DEF PointsOf

\* A commit changes the sum of its agent by what it gave or took, and no other.
LEMMA CommitSum ==
    ASSUME TInv, TInv', NEW q \in Requests, Commit(q),
           NEW s, s = request[q], NEW a, a = s.agent
    PROVE  /\ \A x \in Agents : x # a => PointsOf(x)' = PointsOf(x)
           /\ s.kind \in {"soul", "verify"} => PointsOf(a)' = PointsOf(a)
           /\ s.kind = "award" => Total(PointsOf(a)') = Total(PointsOf(a)) + s.points
           /\ s.kind = "reject" /\ s.seenRow.points = contribution[s.contribution].points =>
                 Total(PointsOf(a)') = Total(PointsOf(a)) - s.seenRow.points + (-20)
<1> PICK c : c = s.contribution
  OBVIOUS
<1>1. /\ s \in Session /\ SessionSound(q) /\ a \in Agents /\ s.kind \in Kinds
      /\ a # NoAgent
  BY IncentivesAssumption DEF Commit, TInv, TypeOK, SessionsSound, SessionSound, Session
<1>2. CASE s.kind = "soul"
  <2>1. contribution' = contribution
    BY <1>2, CommitRows
  <2>2. \A x : PointsOf(x)' = PointsOf(x)
    BY <2>1 DEF PointsOf, Awarded
  <2> QED
    BY <1>2, <2>2
<1>3. CASE s.kind # "soul"
  <2>1. /\ c \in Contributions /\ contribution'[c].agent = a
        /\ \A x \in Contributions : x # c => contribution'[x] = contribution[x]
    BY <1>1, <1>3, CommitRows DEF SessionSound
  <2>2. ASSUME NEW x \in Agents, x # a PROVE PointsOf(x)' = PointsOf(x)
    <3>1. contribution[c].agent # x
      <4>1. CASE s.kind = "award"
        BY <1>1, <4>1, IncentivesAssumption DEF SessionSound, NoRow
      <4>2. CASE s.kind \in {"verify", "reject"}
        BY <1>1, <2>2, <4>2 DEF SessionSound
      <4> QED
        BY <1>1, <1>3, <4>1, <4>2 DEF Kinds
    <3>2. Awarded(x)' = Awarded(x) /\ c \notin Awarded(x)
      BY <2>1, <2>2, <3>1 DEF Awarded
    <3> QED
      BY <2>1, <3>2 DEF PointsOf, Awarded
  <2>3. CASE s.kind = "award"
    <3>1. c \notin Awarded(a) /\ Awarded(a)' = Awarded(a) \cup {c}
      BY <1>1, <2>1, <2>3 DEF Awarded, SessionSound, NoRow
    <3> PICK f : f = PointsOf(a)'
      OBVIOUS
    <3> PICK g : g = PointsOf(a)
      OBVIOUS
    <3> PICK S : S = Awarded(a)
      OBVIOUS
    <3>2. /\ IsFiniteSet(S) /\ g \in [S -> Int]
      BY <1>1, PointsTyped
    <3>3. f = [x \in S \cup {c} |-> contribution'[x].points]
      BY <3>1 DEF PointsOf
    <3>4. \A x \in S \cup {c} : contribution'[x].points \in Int
      BY <2>1 DEF TInv, TypeOK, Row, Awarded
    <3>5. f \in [S \cup {c} -> Int] /\ f[c] = s.points
      <4>1. contribution'[c].points = s.points
        <5>1. contribution'[c] = [agent |-> a, points |-> s.points, verified |-> FALSE]
          BY <2>3, CommitRows, Zenon
        <5> QED
          BY <5>1
      <4> QED
        BY <3>3, <3>4, <4>1
    <3>6. \A x \in S : f[x] = g[x]
      BY <2>1, <3>1, <3>3 DEF PointsOf, Awarded
    <3>7. Total(f) = Total(g) + f[c]
      BY <3>1, <3>2, <3>5, <3>6, TotalExtend
    <3> QED
      BY <2>2, <2>3, <3>5, <3>7
  <2>4. CASE s.kind \in {"verify", "reject"}
    <3>1. contribution[c].agent = a
      BY <1>1, <2>4 DEF SessionSound
    <3>2. Awarded(a)' = Awarded(a) /\ c \in Awarded(a)
      BY <2>1, <3>1 DEF Awarded
    <3> PICK f : f = PointsOf(a)'
      OBVIOUS
    <3> PICK g : g = PointsOf(a)
      OBVIOUS
    <3> PICK S : S = Awarded(a)
      OBVIOUS
    <3>3. f = [x \in S |-> contribution'[x].points] /\ g = [x \in S |-> contribution[x].points]
      BY <3>2 DEF PointsOf
    <3>4. CASE s.kind = "verify"
      <4>1. contribution'[c].points = contribution[c].points
        BY <3>4, CommitRows
      <4>2. \A x \in S : contribution'[x].points = contribution[x].points
        BY <2>1, <4>1 DEF Awarded
      <4> QED
        BY <2>2, <3>3, <3>4, <4>2
    <3>5. CASE s.kind = "reject" /\ s.seenRow.points = contribution[c].points
      <4>1. contribution'[c].points = -20
        BY <3>5, CommitRows
      <4>2. IsFiniteSet(S) /\ g \in [S -> Int]
        BY <1>1, PointsTyped
      <4>3. \A x \in S : contribution'[x].points \in Int
        BY DEF TInv, TypeOK, Row, Awarded
      <4>4. /\ f \in [S -> Int] /\ \A x \in S : x # c => g[x] = f[x]
            /\ f[c] = -20 /\ g[c] = s.seenRow.points /\ c \in S
        BY <2>1, <3>2, <3>3, <3>5, <4>1, <4>3 DEF Awarded
      <4>5. Total(f) = Total(g) - g[c] + f[c]
        BY <4>2, <4>4, TotalUpdate
      <4> QED
        BY <2>2, <3>5, <4>4, <4>5
    <3> QED
      BY <2>2, <2>4, <3>4, <3>5
  <2> QED
    BY <1>1, <1>3, <2>3, <2>4 DEF Kinds
<1> QED
  BY <1>2, <1>3

LEMMA CommitLedger ==
    ASSUME LInv, TInv', NEW q \in Requests, Commit(q)
    PROVE  LedgerBalances'
<1> PICK s : s = request[q]
  OBVIOUS
<1> PICK a : a = s.agent
  OBVIOUS
<1>1. /\ s \in Session /\ a \in Agents /\ s.kind \in Kinds /\ s.points \in Int
      /\ s.seenRow.points \in Int
  BY DEF Commit, LInv, TInv, TypeOK, SessionsSound, SessionSound, Session, Row
<1>2. ASSUME NEW x \in Agents, x \notin overwritten
      PROVE  /\ agent[x].points = Total(PointsOf(x)) + soul[x].points
             /\ Total(PointsOf(x)) \in Int /\ soul[x].points \in Int
  <2>1. agent[x].points = Total(PointsOf(x)) + soul[x].points
    BY <1>2 DEF LInv, LedgerBalances, PointsOf
  <2>2. soul[x].points \in Int
    BY DEF LInv, TInv, TypeOK
  <2>3. Total(PointsOf(x)) \in Int
    <3>1. IsFiniteSet(Awarded(x)) /\ PointsOf(x) \in [Awarded(x) -> Int]
      BY PointsTyped DEF LInv
    <3> QED
      BY <3>1, TotalInt
  <2> QED
    BY <2>1, <2>2, <2>3
<1>3. ASSUME NEW x \in Agents, x \notin overwritten'
      PROVE  agent'[x].points = Total(PointsOf(x)') + soul'[x].points
  <2>1. x \notin overwritten
    BY <1>3 DEF Commit
  <2>2. CASE x # a
    <3>1. agent'[x] = agent[x] /\ PointsOf(x)' = PointsOf(x)
      BY <2>2, CommitTotals, CommitSum DEF LInv
    <3>2. soul'[x] = soul[x]
      BY <2>2 DEF Commit, LInv, TInv, TypeOK
    <3> QED
      BY <1>2, <2>1, <3>1, <3>2
  <2>3. CASE x = a
    <3>1. ~Outdated(s)
      BY <1>3, <2>3 DEF Commit
    <3>2. CASE s.kind = "award"
      <4>1. agent'[a].points = agent[a].points + s.points
        BY <3>1, <3>2, CommitTotals DEF LInv
      <4>2. Total(PointsOf(a)') = Total(PointsOf(a)) + s.points
        BY <3>2, CommitSum DEF LInv
      <4>3. soul' = soul
        BY <3>2 DEF Commit
      <4> QED
        BY <1>1, <1>2, <2>1, <2>3, <4>1, <4>2, <4>3
    <3>3. CASE s.kind = "soul"
      <4>1. agent'[a].points = agent[a].points + s.points
        BY <3>1, <3>3, CommitTotals DEF LInv
      <4>2. PointsOf(a)' = PointsOf(a)
        BY <3>3, CommitSum DEF LInv
      <4>3. soul'[a].points = soul[a].points + s.points
        BY <1>1, <3>3 DEF Commit, LInv, TInv, TypeOK
      <4> QED
        BY <1>1, <1>2, <2>1, <2>3, <4>1, <4>2, <4>3
    <3>4. CASE s.kind = "verify"
      <4>1. agent'[a].points = agent[a].points
        BY <3>1, <3>4, CommitTotals DEF LInv
      <4>2. PointsOf(a)' = PointsOf(a)
        BY <3>4, CommitSum DEF LInv
      <4>3. soul' = soul
        BY <3>4 DEF Commit
      <4> QED
        BY <1>1, <1>2, <2>1, <2>3, <4>1, <4>2, <4>3
    <3>5. CASE s.kind = "reject"
      <4>1. /\ agent'[a].points = agent[a].points - s.seenRow.points - 20
            /\ s.seenRow.points = contribution[s.contribution].points
        BY <3>1, <3>5, CommitTotals DEF LInv
      <4>2. Total(PointsOf(a)') = Total(PointsOf(a)) - s.seenRow.points + (-20)
        BY <3>5, <4>1, CommitSum DEF LInv
      <4>3. soul' = soul
        BY <3>5 DEF Commit
      <4> QED
        BY <1>1, <1>2, <2>1, <2>3, <4>1, <4>2, <4>3
    <3> QED
      BY <1>1, <3>2, <3>3, <3>4, <3>5 DEF Kinds
  <2> QED
    BY <2>2, <2>3
<1> SUFFICES ASSUME NEW x \in Agents, x \notin overwritten'
             PROVE  agent'[x].points = Total(PointsOf(x)') + soul'[x].points
  BY DEF LedgerBalances, PointsOf
<1> QED
  BY <1>3

LEMMA InitLedger == Init => LedgerBalances
<1> SUFFICES ASSUME Init, NEW a \in Agents
             PROVE  agent[a].points = Total(PointsOf(a)) + soul[a].points
  BY DEF LedgerBalances, PointsOf
<1>1. Awarded(a) = {}
  BY IncentivesAssumption DEF Init, Awarded, NoRow
<1>2. Total(PointsOf(a)) = 0
  BY <1>1, TotalZero DEF PointsOf
<1> QED
  BY <1>2 DEF Init, ZeroTotals

LEMMA NextLedger == LInv /\ TInv' /\ [Next]_vars => LedgerBalances'
<1> SUFFICES ASSUME LInv, TInv', [Next]_vars PROVE LedgerBalances'
  OBVIOUS
<1>1. CASE UNCHANGED <<agent, contribution, soul, overwritten>>
  BY <1>1 DEF LInv, LedgerBalances, Awarded
<1>2. ASSUME NEW q \in Requests, Commit(q) PROVE LedgerBalances'
  BY <1>2, CommitLedger
<1> QED
  BY <1>1, <1>2 DEF Next, vars, BeginAward, BeginSoul, BeginVerify, FlushContribution,
     FlushAgent, Abort

\* An agent's total is the sum of what its contributions and its soul actions gave, unless
\* a commit overwrote a change it had not seen.
THEOREM TheLedgerBalances == Spec => []LedgerBalances
<1>1. Init => LedgerBalances
  BY InitLedger
<1>2. TInv /\ TInv' /\ LedgerBalances /\ [Next]_vars => LedgerBalances'
  BY NextLedger DEF LInv
<1> QED
  BY <1>1, <1>2, TypeInvariance, PTL DEF Spec
=============================================================================
