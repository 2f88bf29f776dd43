----------------------------- MODULE Incentives -----------------------------
(***************************************************************************)
(* The points ledger: agent_contributions rows, and the totals kept beside *)
(* them in the agents table.  services/incentive_engine.py awards and      *)
(* penalizes, services/feedback_loop.py verifies and rejects,              *)
(* services/soul_agent_incentives.py moves totals without a contribution.  *)
(*                                                                         *)
(* Each call runs in a session of its own at READ COMMITTED and locks      *)
(* nothing it reads: the agent's row is read before the totals are added   *)
(* to (an award reads it when the request authenticates), and absolute     *)
(* values of the changed columns are written under the row's lock, held to *)
(* the commit.  A rejection writes the contribution first, the agent next. *)
(*                                                                         *)
(* The task API awards; verification and soul points are services that no  *)
(* router calls yet, modelled as a caller would use them, with one session *)
(* and one commit for each call.                                           *)
(*                                                                         *)
(* The events the calls publish, and what contributions are about, are     *)
(* left out; a publish that raises is an Abort.                            *)
(***************************************************************************)
EXTENDS Integers, FiniteSets, Sums

CONSTANTS
    Agents,             \* registered agents
    Contributions,      \* ids of contributions
    Requests,           \* the sessions under way at a time
    Claims,             \* <<contribution_type, severity>> that agents submit
    Actions,            \* soul actions that are awarded
    NoAgent,            \* not an agent
    NoContribution,     \* not a contribution
    NoRequest,          \* no session holds the lock
    MaxSoul             \* bound: soul actions awarded to an agent

ASSUME IncentivesAssumption ==
    /\ IsFiniteSet(Agents)
    /\ IsFiniteSet(Contributions)
    /\ NoAgent \notin Agents
    /\ NoContribution \notin Contributions
    /\ NoRequest \notin Requests
    /\ MaxSoul \in Nat

VARIABLES
    agent,              \* committed totals of the agents table
    contribution,       \* committed rows of agent_contributions
    lock,               \* who holds the lock of each agent's and contribution's row
    request,            \* the sessions
    soul,               \* history: [points, actions] awarded to each agent, committed
    overwritten         \* history: agents whose totals a commit derived from rows that
                        \* had changed since they were read

vars == <<agent, contribution, lock, request, soul, overwritten>>

FALSE_POSITIVE_PENALTY == -20

Totals == [points: Int, contributions: Int]
Row == [agent: Agents \cup {NoAgent}, points: Int, verified: BOOLEAN]
Kinds == {"award", "soul", "verify", "reject"}

\* phase: idle; contribution (the contribution was read); agent (the agent was read);
\* flushed (all is written, not committed).
Session ==
    [phase: {"idle", "contribution", "agent", "flushed"}, kind: Kinds,
     agent: Agents \cup {NoAgent}, contribution: Contributions \cup {NoContribution},
     points: Int, seenAgent: Totals, seenRow: Row]

NoRow == [agent |-> NoAgent, points |-> 0, verified |-> FALSE]
ZeroTotals == [points |-> 0, contributions |-> 0]
Idle == [phase |-> "idle", kind |-> "award", agent |-> NoAgent,
         contribution |-> NoContribution, points |-> 0, seenAgent |-> ZeroTotals,
         seenRow |-> NoRow]

\* Plausible slips in the operators below, for the mutation runs.
AfterRejectKeepsAward(totals, original) == [totals EXCEPT !.points = @ - 20]
ChangedRowAll(cur, seen, new) == new
UnlockedAgentOnly(q) ==
    [x \in Agents \cup Contributions |->
        IF lock[x] = q /\ x \in Agents THEN NoRequest ELSE lock[x]]

-----------------------------------------------------------------------------
PointsTable ==
    [x \in {<<"detection", "critical">>, <<"detection", "high">>, <<"detection", "medium">>,
            <<"detection", "low">>, <<"patch", "none">>, <<"exploit", "none">>,
            <<"verification", "none">>} |->
        CASE x = <<"detection", "critical">> -> 100
          [] x = <<"detection", "high">> -> 50
          [] x = <<"detection", "medium">> -> 25
          [] x = <<"detection", "low">> -> 10
          [] x = <<"patch", "none">> -> 75
          [] x = <<"exploit", "none">> -> 60
          [] x = <<"verification", "none">> -> 15]

\* An exact match, else the entry of the type alone, else nothing.
CalculatePoints(claim) ==
    IF claim \in DOMAIN PointsTable THEN PointsTable[claim]
    ELSE IF <<claim[1], "none">> \in DOMAIN PointsTable THEN PointsTable[<<claim[1], "none">>]
    ELSE 0

SoulPoints(action) ==
    CASE action = "risk_detection_critical" -> 100
      [] action \in {"oracle_report_confirmed", "circuit_breaker_triggered"} -> 50
      [] action = "liquidity_provision" -> 40
      [] action \in {"risk_detection_warning", "parameter_update_accepted"} -> 30
      [] action = "valuation_compute" -> 25
      [] action \in {"market_making_hourly", "parameter_update_proposed"} -> 20
      [] action = "valuation_snapshot_created" -> 15
      [] action \in {"oracle_vote_correct", "spread_maintenance", "governance_vote"} -> 10
      [] action = "oracle_vote_incorrect" -> -5
      [] action = "oracle_report_rejected" -> -10
      [] action = "risk_false_alarm" -> -15
      [] OTHER -> 0

\* What a rejection leaves of the totals: the award is reversed, the penalty applied.
AfterReject(totals, original) ==
    [totals EXCEPT !.points = @ - original + FALSE_POSITIVE_PENALTY]

\* The totals a session writes, from those it read.
NewTotals(s) ==
    CASE s.kind = "award" ->
           [points |-> s.seenAgent.points + s.points,
            contributions |-> s.seenAgent.contributions + 1]
      [] s.kind = "soul" ->
           [points |-> s.seenAgent.points + s.points,
            contributions |-> s.seenAgent.contributions + (IF s.points > 0 THEN 1 ELSE 0)]
      [] s.kind = "reject" -> AfterReject(s.seenAgent, s.seenRow.points)
      [] OTHER -> s.seenAgent

\* The contribution a session writes, from the one it read.
NewRow(s) ==
    CASE s.kind = "award" -> [agent |-> s.agent, points |-> s.points, verified |-> FALSE]
      [] s.kind = "verify" -> [s.seenRow EXCEPT !.verified = TRUE]
      [] s.kind = "reject" ->
           [s.seenRow EXCEPT !.verified = FALSE, !.points = FALSE_POSITIVE_PENALTY]
      [] OTHER -> s.seenRow

\* A flush writes the columns that differ from what the session read.
ChangedTotals(cur, seen, new) ==
    [points |-> IF new.points # seen.points THEN new.points ELSE cur.points,
     contributions |-> IF new.contributions # seen.contributions
                       THEN new.contributions ELSE cur.contributions]
ChangedRow(cur, seen, new) ==
    [agent |-> IF new.agent # seen.agent THEN new.agent ELSE cur.agent,
     points |-> IF new.points # seen.points THEN new.points ELSE cur.points,
     verified |-> IF new.verified # seen.verified THEN new.verified ELSE cur.verified]

Unlocked(q) ==
    [x \in Agents \cup Contributions |-> IF lock[x] = q THEN NoRequest ELSE lock[x]]

-----------------------------------------------------------------------------
Init ==
    /\ agent = [a \in Agents |-> ZeroTotals]
    /\ contribution = [c \in Contributions |-> NoRow]
    /\ lock = [x \in Agents \cup Contributions |-> NoRequest]
    /\ request = [q \in Requests |-> Idle]
    /\ soul = [a \in Agents |-> [points |-> 0, actions |-> 0]]
    /\ overwritten = {}

\* submit_task: get_current_agent reads the agent into the session, and
\* award_contribution gets that object back.  Each award inserts a row of its own.
BeginAward(q, a, c, claim) ==
    /\ request[q].phase = "idle"
    /\ contribution[c] = NoRow
    /\ lock[c] = NoRequest
    /\ \A p \in Requests : request[p].contribution # c
    /\ request' = [request EXCEPT ![q] =
          [Idle EXCEPT !.phase = "agent", !.kind = "award", !.agent = a, !.contribution = c,
                       !.points = CalculatePoints(claim), !.seenAgent = agent[a]]]
    /\ UNCHANGED <<agent, contribution, lock, soul, overwritten>>

\* award_soul_points: an action without points is refused.
BeginSoul(q, a, action) ==
    /\ request[q].phase = "idle"
    /\ SoulPoints(action) # 0
    /\ soul[a].actions
         + Cardinality({p \in Requests : request[p].kind = "soul" /\ request[p].agent = a}) < MaxSoul
    /\ request' = [request EXCEPT ![q] =
          [Idle EXCEPT !.phase = "agent", !.kind = "soul", !.agent = a,
                       !.points = SoulPoints(action), !.seenAgent = agent[a]]]
    /\ UNCHANGED <<agent, contribution, lock, soul, overwritten>>

\* verify_contribution reads the contribution.
BeginVerify(q, c, valid) ==
    /\ request[q].phase = "idle"
    /\ contribution[c] # NoRow
    /\ request' = [request EXCEPT ![q] =
          [Idle EXCEPT !.phase = "contribution", !.kind = IF valid THEN "verify" ELSE "reject",
                       !.agent = contribution[c].agent, !.contribution = c,
                       !.seenRow = contribution[c]]]
    /\ UNCHANGED <<agent, contribution, lock, soul, overwritten>>

\* The contribution is flushed if it changed, which takes its lock; a rejection goes on
\* to read the agent.
FlushContribution(q) ==
    LET s == request[q]
        c == s.contribution
    IN  /\ s.phase = "contribution"
        /\ IF NewRow(s) # s.seenRow
           THEN lock[c] = NoRequest /\ lock' = [lock EXCEPT ![c] = q]
           ELSE UNCHANGED lock
        /\ request' = [request EXCEPT
              ![q].phase = IF s.kind = "verify" THEN "flushed" ELSE "agent",
              ![q].seenAgent = IF s.kind = "verify" THEN ZeroTotals ELSE agent[s.agent]]
        /\ UNCHANGED <<agent, contribution, soul, overwritten>>

\* The totals, and the contribution of an award, are flushed.
FlushAgent(q) ==
    LET s == request[q]
        a == s.agent
    IN  /\ s.phase = "agent"
        /\ IF NewTotals(s) # s.seenAgent
           THEN lock[a] = NoRequest /\ lock' = [lock EXCEPT ![a] = q]
           ELSE UNCHANGED lock
        /\ request' = [request EXCEPT ![q].phase = "flushed"]
        /\ UNCHANGED <<agent, contribution, soul, overwritten>>

\* Rows a session read and wrote from are no longer what it read.
Outdated(s) ==
    \/ NewTotals(s) # s.seenAgent /\ agent[s.agent] # s.seenAgent
    \/ s.kind = "reject" /\ contribution[s.contribution].points # s.seenRow.points

Commit(q) ==
    LET s == request[q]
        c == s.contribution
        a == s.agent
    IN  /\ s.phase = "flushed"
        /\ agent' = [agent EXCEPT ![a] = ChangedTotals(@, s.seenAgent, NewTotals(s))]
        /\ contribution' = IF s.kind = "soul" THEN contribution
                           ELSE [contribution EXCEPT ![c] = ChangedRow(@, s.seenRow, NewRow(s))]
        /\ soul' = IF s.kind = "soul"
                   THEN [soul EXCEPT ![a] = [points |-> @.points + s.points,
                                             actions |-> @.actions + 1]]
                   ELSE soul
        /\ overwritten' = overwritten \cup {x \in {a} : Outdated(s)}
        /\ lock' = Unlocked(q)
        /\ request' = [request EXCEPT ![q] = Idle]

\* The session is lost before its commit.
Abort(q) ==
    /\ request[q].phase # "idle"
    /\ lock' = Unlocked(q)
    /\ request' = [request EXCEPT ![q] = Idle]
    /\ UNCHANGED <<agent, contribution, soul, overwritten>>

Next ==
    \/ \E q \in Requests, a \in Agents, c \in Contributions, claim \in Claims :
          BeginAward(q, a, c, claim)
    \/ \E q \in Requests, a \in Agents, action \in Actions : BeginSoul(q, a, action)
    \/ \E q \in Requests, c \in Contributions, valid \in BOOLEAN : BeginVerify(q, c, valid)
    \/ \E q \in Requests :
          FlushContribution(q) \/ FlushAgent(q) \/ Commit(q) \/ Abort(q)

Spec == Init /\ [][Next]_vars

-----------------------------------------------------------------------------
\* Rows and sessions have their types, and a lock is held only by a session that has
\* written its row and not ended.
TypeOK ==
    /\ agent \in [Agents -> Totals]
    /\ contribution \in [Contributions -> Row]
    /\ lock \in [Agents \cup Contributions -> Requests \cup {NoRequest}]
    /\ request \in [Requests -> Session]
    /\ soul \in [Agents -> [points: Int, actions: Nat]]
    /\ overwritten \subseteq Agents
    /\ \A x \in Agents \cup Contributions : lock[x] # NoRequest =>
          LET s == request[lock[x]]
          IN  x \in {s.agent, s.contribution} /\ s.phase \in {"agent", "flushed"}

Awarded(a) == {c \in Contributions : contribution[c].agent = a}

\* An agent's total is the sum of the points of its contributions, penalties in place of
\* the awards they reverse, and of its soul points, unless a commit overwrote a
\* change it had not seen: repeated rejections, verifications of what was rejected, and
\* sessions that are lost half way never unbalance it.
LedgerBalances ==
    \A a \in Agents \ overwritten :
        agent[a].points = Total([c \in Awarded(a) |-> contribution[c].points]) + soul[a].points

\* A contribution that was penalized stays penalized, although a session that read it
\* before may verify it afterwards.
PenaltyStays ==
    [][\A c \in Contributions :
         contribution[c].points = FALSE_POSITIVE_PENALTY =>
             contribution'[c].points = FALSE_POSITIVE_PENALTY]_vars
=============================================================================
