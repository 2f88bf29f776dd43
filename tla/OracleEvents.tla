---------------------------- MODULE OracleEvents ----------------------------
(***************************************************************************)
(* The oracle_events table of the backend and the two pieces of code that  *)
(* vote on its rows: the endpoints of routers/v1/oracle.py ("api", three   *)
(* confirmations) and the library services/oracle_consensus.py ("service", *)
(* two confirmations, and a revaluation of the person on confirmation).    *)
(* Nothing in the repository lets one vote on a report of the other.       *)
(*                                                                         *)
(* A request is one database session at READ COMMITTED without row locks   *)
(* on reads: it reads the row, decides on what it read, and its UPDATE     *)
(* writes absolute values of the columns it changed, when the row's lock   *)
(* is free.  A session that flushes before it reads again (the service on  *)
(* confirmation) holds the lock from the flush to its commit.  Any session *)
(* may be lost before it commits, and an agent may have several under way. *)
(*                                                                         *)
(* All reports are about one person.  Scores are abstracted to what they   *)
(* are computed from: how many confirmed events of each sign.              *)
(***************************************************************************)
EXTENDS Integers, FiniteSets

CONSTANTS
    Agents,         \* authenticated agents
    Events,         \* ids of the reports
    Requests,       \* the voting requests that may be under way at a time
    NoAgent,        \* no agent
    NoEvent,        \* no report
    NoRequest,      \* no request holds the lock
    MaxCasts        \* bound: requests to vote on a report are only sent by agents
                    \* with fewer committed ballots on it than this

ASSUME OracleAssumption ==
    /\ IsFiniteSet(Agents)
    /\ IsFiniteSet(Events)
    /\ NoAgent \notin Agents
    /\ NoEvent \notin Events
    /\ NoRequest \notin Requests
    /\ MaxCasts \in Nat

VARIABLES
    row,            \* [Events -> committed row of oracle_events]
    session,        \* [Requests -> the database session of the request]
    lock,           \* [Events -> the request that holds the row lock]
    person,         \* the tally the person's scores were last written from
    snapshots,      \* valuation_snapshots
    yes, no         \* history: committed ballots, [Events -> [Agents -> Nat]]

vars == <<row, session, lock, person, snapshots, yes, no>>

Signs == {"positive", "negative", "neutral"}
Paths == {"api", "service"}
Tallies == [Signs -> 0 .. Cardinality(Events)]

Row ==
    [status: {"none", "pending", "confirmed", "rejected"}, path: Paths, sign: Signs,
     submitter: Agents \cup {NoAgent}, confirmations: Nat, rejections: Nat,
     agent_votes: SUBSET Agents]

\* phase: idle, read (row read), flushed (row locked and written, not committed).
Session ==
    [phase: {"idle", "read", "flushed"}, agent: Agents \cup {NoAgent},
     event: Events \cup {NoEvent}, approve: BOOLEAN, seen: Row, tally: Tallies,
     personSeen: Tallies]

\* Plausible slips in the operators below, for the mutation runs.
NewStatusOfTotals(seen, new) ==
    IF new.confirmations + new.rejections >= (IF seen.path = "api" THEN 3 ELSE 2)
    THEN "confirmed" ELSE "pending"
ChangedColumnsAll(cur, seen, new) == new
CountedBefore(e) == {x \in Events : row[x].status = "confirmed"}
AfterBallotFreshDict(seen, a, approve) ==
    [seen EXCEPT !.confirmations = IF approve THEN @ + 1 ELSE @,
                 !.rejections = IF approve THEN @ ELSE @ + 1,
                 !.agent_votes = {a}]

Required(path) == IF path = "api" THEN 3 ELSE 2

\* The row after a ballot, before the consensus check.
AfterBallot(seen, a, approve) ==
    [seen EXCEPT !.confirmations = IF approve THEN @ + 1 ELSE @,
                 !.rejections = IF approve THEN @ ELSE @ + 1,
                 !.agent_votes = @ \cup {a}]

\* The endpoint rejects on rejections > 3 - required; check_consensus assumes
\* three agents and rejects when those left are too few.
Rejects(path, conf, rej) ==
    IF path = "api"
    THEN rej > 3 - Required(path)
    ELSE conf + (IF conf + rej < 3 THEN 3 - (conf + rej) ELSE 0) < Required(path)

\* The status the consensus check leaves.
NewStatus(seen, new) ==
    IF new.confirmations >= Required(seen.path) THEN "confirmed"
    ELSE IF Rejects(seen.path, new.confirmations, new.rejections) THEN "rejected"
    ELSE seen.status

\* The columns a flush writes over the current row: those whose value changed.  The
\* service mutates the dict it read and assigns it back, which is no change to
\* the ORM, so its ballots never reach agent_votes.
ChangedColumns(cur, seen, new) ==
    [cur EXCEPT !.status = IF new.status # seen.status THEN new.status ELSE @,
                !.confirmations = IF new.confirmations # seen.confirmations
                                  THEN new.confirmations ELSE @,
                !.rejections = IF new.rejections # seen.rejections
                               THEN new.rejections ELSE @,
                !.agent_votes = IF seen.path = "api" THEN new.agent_votes ELSE @]

\* Only the service revalues, and only on confirmation.
Revalues(path, status) == path = "service" /\ status = "confirmed"

TallyOf(E) == [s \in Signs |-> Cardinality({e \in E : row[e].sign = s})]

\* The confirmed events the revaluation of e selects: its own status has been
\* flushed by then, those of others are seen once committed.
Counted(e) == {x \in Events : row[x].status = "confirmed"} \cup {e}

\* The row either function inserts; they differ in the confirmations it requires.
NewRow(a, path, sign) ==
    [status |-> "pending", path |-> path, sign |-> sign, submitter |-> a,
     confirmations |-> 1, rejections |-> 0, agent_votes |-> {a}]

NoTally == [s \in Signs |-> 0]
NoRow == [status |-> "none", path |-> "api", sign |-> "neutral", submitter |-> NoAgent,
          confirmations |-> 0, rejections |-> 0, agent_votes |-> {}]
Idle == [phase |-> "idle", agent |-> NoAgent, event |-> NoEvent, approve |-> FALSE,
         seen |-> NoRow, tally |-> NoTally, personSeen |-> NoTally]

Init ==
    /\ row = [e \in Events |-> NoRow]
    /\ session = [q \in Requests |-> Idle]
    /\ lock = [e \in Events |-> NoRequest]
    /\ person = NoTally
    /\ snapshots = {}
    /\ yes = [e \in Events |-> [a \in Agents |-> 0]]
    /\ no = [e \in Events |-> [a \in Agents |-> 0]]

\* submit_report / submit_oracle_report: the submitter confirms its own report.
SubmitReport(a, e, path, sign) ==
    /\ row[e].status = "none"
    /\ row' = [row EXCEPT ![e] = NewRow(a, path, sign)]
    /\ UNCHANGED <<session, lock, person, snapshots, yes, no>>

\* The checks both voting functions make on the row they read.  The endpoint's
\* second check, for the submitter, can never refuse what the first let through.
MayVote(a, e) ==
    /\ row[e].status = "pending"
    /\ a \notin row[e].agent_votes

ReadReport(q, a, e, approve) ==
    /\ session[q].phase = "idle"
    /\ yes[e][a] + no[e][a] < MaxCasts
    /\ MayVote(a, e)
    /\ session' = [session EXCEPT ![q] = [Idle EXCEPT !.phase = "read", !.agent = a, !.event = e,
                                                      !.approve = approve, !.seen = row[e]]]
    /\ UNCHANGED <<row, lock, person, snapshots, yes, no>>

\* The row as the session leaves it, from what it read.
Decided(s) ==
    LET new == AfterBallot(s.seen, s.agent, s.approve)
    IN  [new EXCEPT !.status = NewStatus(s.seen, new)]

Revaluing(s) == Revalues(s.seen.path, Decided(s).status)

\* flush: the UPDATE takes the row lock.  A confirming service session now reads
\* the person and counts the confirmed events.
FlushVote(q) ==
    LET s == session[q]
    IN  /\ s.phase = "read"
        /\ lock[s.event] = NoRequest
        /\ lock' = [lock EXCEPT ![s.event] = q]
        /\ session' = [session EXCEPT
              ![q].phase = "flushed",
              ![q].tally = IF Revaluing(s) THEN TallyOf(Counted(s.event)) ELSE NoTally,
              ![q].personSeen = IF Revaluing(s) THEN person ELSE NoTally]
        /\ UNCHANGED <<row, person, snapshots, yes, no>>

\* commit: the row, the person's scores where they differ from those read, and the
\* snapshot become visible together.
CommitVote(q) ==
    LET s == session[q]
        e == s.event
    IN  /\ s.phase = "flushed"
        /\ row' = [row EXCEPT ![e] = ChangedColumns(@, s.seen, Decided(s))]
        /\ lock' = [lock EXCEPT ![e] = NoRequest]
        /\ IF Revaluing(s)
           THEN /\ person' = IF s.tally # s.personSeen THEN s.tally ELSE person
                /\ snapshots' = snapshots \cup {[event |-> e, tally |-> s.tally]}
           ELSE UNCHANGED <<person, snapshots>>
        /\ yes' = IF s.approve THEN [yes EXCEPT ![e][s.agent] = @ + 1] ELSE yes
        /\ no' = IF s.approve THEN no ELSE [no EXCEPT ![e][s.agent] = @ + 1]
        /\ session' = [session EXCEPT ![q] = Idle]

\* The request is lost (client gone, worker killed, error): the database rolls back.
Abort(q) ==
    /\ session[q].phase # "idle"
    /\ lock' = [e \in Events |-> IF lock[e] = q THEN NoRequest ELSE lock[e]]
    /\ session' = [session EXCEPT ![q] = Idle]
    /\ UNCHANGED <<row, person, snapshots, yes, no>>

Next ==
    \/ \E a \in Agents, e \in Events, path \in Paths, sign \in Signs :
          SubmitReport(a, e, path, sign)
    \/ \E q \in Requests, a \in Agents, e \in Events, approve \in BOOLEAN :
          ReadReport(q, a, e, approve)
    \/ \E q \in Requests : FlushVote(q) \/ CommitVote(q) \/ Abort(q)

Spec == Init /\ [][Next]_vars

-----------------------------------------------------------------------------
\* Rows, sessions, locks and valuations have their columns' types, a lock is held
\* exactly by the session that flushed the row, and the submitter stays among the
\* voters of a report whatever ballots its interleaved writers drop.
TypeOK ==
    /\ row \in [Events -> Row]
    /\ session \in [Requests -> Session]
    /\ lock \in [Events -> Requests \cup {NoRequest}]
    /\ person \in Tallies
    /\ snapshots \subseteq [event: Events, tally: Tallies]
    /\ yes \in [Events -> [Agents -> Nat]]
    /\ no \in [Events -> [Agents -> Nat]]
    /\ \A e \in Events, q \in Requests :
          lock[e] = q <=> session[q].phase = "flushed" /\ session[q].event = e
    /\ \A e \in Events : row[e].status # "none" => row[e].submitter \in row[e].agent_votes

Approvers(e) == {row[e].submitter} \cup {a \in Agents : yes[e][a] > 0}

\* However requests interleave and whatever votes they lose, a confirmed report
\* was confirmed by as many different agents as it requires, its submitter included.
ConfirmedByDistinctAgents ==
    \A e \in Events :
        row[e].status = "confirmed" => Cardinality(Approvers(e)) >= Required(row[e].path)

\* A report the service confirmed has led to a valuation, and that valuation takes it
\* into account: its status is flushed before the confirmed events are selected
\* (oracle_consensus.py:100-132).
ConfirmedIsValued ==
    \A e \in Events :
        (row[e].status = "confirmed" /\ row[e].path = "service") =>
            \E v \in snapshots : v.event = e /\ v.tally[row[e].sign] >= 1

\* A decided report never becomes pending again, although requests that read it as
\* pending commit after it was decided.
NeverReopened ==
    [][\A e \in Events :
         row[e].status \in {"confirmed", "rejected"} =>
             row'[e].status \in {"confirmed", "rejected"}]_vars

\* oracle_consensus.py:75-76 raises "Agent ... already voted": an agent
\* that has voted on a report cannot vote on it again.
OneBallotPerAgent ==
    \A e \in Events, a \in Agents :
        row[e].path = "service" =>
            yes[e][a] + no[e][a] + (IF row[e].submitter = a THEN 1 ELSE 0) <= 1
=============================================================================
