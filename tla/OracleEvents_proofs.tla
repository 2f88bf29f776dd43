------------------------- MODULE OracleEvents_proofs -------------------------
(***************************************************************************)
(* Proofs about OracleEvents, for every set of agents, reports and         *)
(* requests and every bound.                                               *)
(***************************************************************************)
EXTENDS OracleEvents, FiniteSetTheorems, TLAPS

-----------------------------------------------------------------------------
\* The initial rows, sessions and tallies have their types.
LEMMA InitialTypes ==
    /\ NoRow \in Row
    /\ NoTally \in Tallies
    /\ Idle \in Session
<1>1. Cardinality(Events) \in Nat
  BY OracleAssumption, FS_CardinalityType
<1>2. NoRow \in Row
  BY DEF NoRow, Row, Paths, Signs
<1>3. NoTally \in Tallies
  BY <1>1 DEF NoTally, Tallies
<1>4. Idle \in Session
  BY <1>2, <1>3 DEF Idle, Session
<1> QED
  BY <1>2, <1>3, <1>4

\* Counting reports by their sign gives a tally.
LEMMA TallyType ==
    ASSUME NEW E \in SUBSET Events
    PROVE  /\ TallyOf(E) \in Tallies
           /\ \A e \in E : row[e].sign \in Signs => TallyOf(E)[row[e].sign] >= 1
<1>1. ASSUME NEW s \in Signs
      PROVE  /\ IsFiniteSet({e \in E : row[e].sign = s})
             /\ Cardinality({e \in E : row[e].sign = s}) \in 0 .. Cardinality(Events)
  <2>1. {e \in E : row[e].sign = s} \in SUBSET Events
    OBVIOUS
  <2> QED
    BY <2>1, OracleAssumption, FS_Subset, FS_CardinalityType
<1>2. TallyOf(E) \in Tallies
  BY <1>1 DEF TallyOf, Tallies
<1>3. ASSUME NEW e \in E, row[e].sign \in Signs
      PROVE  TallyOf(E)[row[e].sign] >= 1
  <2> DEFINE same == {x \in E : row[x].sign = row[e].sign}
  <2>1. IsFiniteSet(same) /\ Cardinality(same) \in Nat
    BY <1>1, <1>3
  <2>2. Cardinality(same) # 0
    BY <2>1, FS_EmptySet
  <2>3. TallyOf(E)[row[e].sign] = Cardinality(same)
    BY <1>3 DEF TallyOf
  <2> HIDE DEF same
  <2> QED
    BY <2>1, <2>2, <2>3
<1> QED
  BY <1>2, <1>3

\* What a session decides on the row it read: pending stays pending or is decided.
LEMMA DecidedStatus ==
    ASSUME NEW s, s.seen.status = "pending"
    PROVE  Decided(s).status \in {"pending", "confirmed", "rejected"}
  BY DEF Decided, NewStatus, AfterBallot

\* The fields of the row a session decides on.
LEMMA DecidedRow ==
    ASSUME NEW s \in Session, s.agent \in Agents
    PROVE  /\ Decided(s) \in Row
           /\ Decided(s).status = NewStatus(s.seen, AfterBallot(s.seen, s.agent, s.approve))
           /\ Decided(s).agent_votes = s.seen.agent_votes \cup {s.agent}
           /\ Decided(s).confirmations = IF s.approve THEN s.seen.confirmations + 1
                                                      ELSE s.seen.confirmations
           /\ Decided(s).rejections = IF s.approve THEN s.seen.rejections
                                                   ELSE s.seen.rejections + 1
<1> DEFINE seen == s.seen
           new == AfterBallot(seen, s.agent, s.approve)
<1>1. seen \in Row /\ s.approve \in BOOLEAN
  BY DEF Session
<1>2. seen.confirmations + 1 \in Nat /\ seen.rejections + 1 \in Nat
  BY <1>1 DEF Row
<1>3. /\ new \in Row
      /\ new.status = seen.status
      /\ new.agent_votes = seen.agent_votes \cup {s.agent}
      /\ new.confirmations = IF s.approve THEN seen.confirmations + 1 ELSE seen.confirmations
      /\ new.rejections = IF s.approve THEN seen.rejections ELSE seen.rejections + 1
  <2> HIDE DEF seen
  <2>1. CASE s.approve
    BY <1>1, <1>2, <2>1 DEF AfterBallot, Row
  <2>2. CASE ~s.approve
    BY <1>1, <1>2, <2>2 DEF AfterBallot, Row
  <2> QED
    BY <2>1, <2>2
<1>4. NewStatus(seen, new) \in {"none", "pending", "confirmed", "rejected"}
  BY <1>1 DEF NewStatus, Row
<1>5. Decided(s) = [new EXCEPT !.status = NewStatus(seen, new)]
  BY DEF Decided
<1> HIDE DEF new, seen
<1>6. Decided(s) \in Row
  BY <1>3, <1>4, <1>5 DEF Row
<1>7. /\ Decided(s).status = NewStatus(seen, new)
      /\ Decided(s).agent_votes = new.agent_votes
      /\ Decided(s).confirmations = new.confirmations
      /\ Decided(s).rejections = new.rejections
  BY <1>3, <1>5 DEF Row
<1> QED
  BY <1>3, <1>6, <1>7 DEF new, seen

\* The row after a commit: its status only if the session changed it, its counter
\* only if the ballot is for it, its voters as the session last saw them.
LEMMA CommittedRow ==
    ASSUME NEW cur \in Row, NEW s \in Session, s.agent \in Agents
    PROVE  LET new == ChangedColumns(cur, s.seen, Decided(s))
           IN  /\ new \in Row
               /\ new.path = cur.path /\ new.sign = cur.sign
               /\ new.submitter = cur.submitter
               /\ new.status = IF Decided(s).status # s.seen.status
                               THEN Decided(s).status ELSE cur.status
               /\ new.confirmations = IF s.approve THEN s.seen.confirmations + 1
                                                   ELSE cur.confirmations
               /\ new.rejections = IF s.approve THEN cur.rejections
                                                ELSE s.seen.rejections + 1
               /\ new.agent_votes = IF s.seen.path = "api"
                                    THEN s.seen.agent_votes \cup {s.agent}
                                    ELSE cur.agent_votes
<1> DEFINE seen == s.seen
           dec == Decided(s)
           new == ChangedColumns(cur, seen, dec)
<1>1. /\ dec \in Row /\ seen \in Row
      /\ dec.agent_votes = seen.agent_votes \cup {s.agent}
      /\ dec.confirmations = IF s.approve THEN seen.confirmations + 1 ELSE seen.confirmations
      /\ dec.rejections = IF s.approve THEN seen.rejections ELSE seen.rejections + 1
  BY DecidedRow DEF Session
<1>2. /\ dec.confirmations # seen.confirmations <=> s.approve
      /\ dec.rejections # seen.rejections <=> ~s.approve
  BY <1>1 DEF Row
<1> HIDE DEF dec, seen
<1>3. /\ new \in Row
      /\ new.path = cur.path /\ new.sign = cur.sign
      /\ new.submitter = cur.submitter
      /\ new.status = IF dec.status # seen.status THEN dec.status ELSE cur.status
      /\ new.confirmations = IF dec.confirmations # seen.confirmations
                             THEN dec.confirmations ELSE cur.confirmations
      /\ new.rejections = IF dec.rejections # seen.rejections
                          THEN dec.rejections ELSE cur.rejections
      /\ new.agent_votes = IF seen.path = "api" THEN dec.agent_votes ELSE cur.agent_votes
  BY <1>1 DEF ChangedColumns, Row
<1> HIDE DEF new
<1>4. /\ new.confirmations = IF s.approve THEN seen.confirmations + 1 ELSE cur.confirmations
      /\ new.rejections = IF s.approve THEN cur.rejections ELSE seen.rejections + 1
      /\ new.agent_votes = IF seen.path = "api" THEN seen.agent_votes \cup {s.agent}
                                                ELSE cur.agent_votes
  BY <1>1, <1>2, <1>3
<1> QED
  BY <1>3, <1>4 DEF new, dec, seen

-----------------------------------------------------------------------------
(***************************************************************************)
(* Type correctness.  What a lock means is an invariant between the locks  *)
(* and the sessions; that the submitter stays among the voters needs to    *)
(* know of the rows that sessions under way have read.                     *)
(***************************************************************************)

\* A session under way is about a report that exists, read it when it was pending,
\* and read the columns that never change as they are.
SessionsReadPending ==
    \A q \in Requests : session[q].phase # "idle" =>
        LET s == session[q]
        IN  /\ s.agent \in Agents
            /\ s.event \in Events
            /\ row[s.event].status # "none"
            /\ s.seen.status = "pending"
            /\ s.seen.path = row[s.event].path
            /\ s.seen.sign = row[s.event].sign
            /\ s.seen.submitter = row[s.event].submitter
            /\ s.seen.submitter \in s.seen.agent_votes
            /\ s.agent \notin s.seen.agent_votes

TInv == TypeOK /\ SessionsReadPending

LEMMA InitTypes == Init => TInv
<1> SUFFICES ASSUME Init PROVE TInv
  OBVIOUS
<1>1. /\ row \in [Events -> Row]
      /\ session \in [Requests -> Session]
      /\ person \in Tallies
  BY InitialTypes DEF Init
<1>2. \A q \in Requests : session[q].phase = "idle"
  BY DEF Init, Idle
<1>3. \A e \in Events : row[e].status = "none" /\ lock[e] \notin Requests
  BY OracleAssumption DEF Init, NoRow
<1>4. SessionsReadPending
  BY <1>2 DEF SessionsReadPending
<1>5. /\ lock \in [Events -> Requests \cup {NoRequest}]
      /\ snapshots \subseteq [event: Events, tally: Tallies]
      /\ yes \in [Events -> [Agents -> Nat]]
      /\ no \in [Events -> [Agents -> Nat]]
  BY DEF Init
<1>6. \A e \in Events, q \in Requests :
          lock[e] = q <=> session[q].phase = "flushed" /\ session[q].event = e
  BY <1>2, <1>3
<1> QED
  BY <1>1, <1>3, <1>4, <1>5, <1>6 DEF TInv, TypeOK

LEMMA SubmitTypes ==
    ASSUME TInv, NEW a \in Agents, NEW e \in Events, NEW path \in Paths,
           NEW sign \in Signs, SubmitReport(a, e, path, sign)
    PROVE  TInv'
<1>1. /\ NewRow(a, path, sign) \in Row
      /\ NewRow(a, path, sign).submitter \in NewRow(a, path, sign).agent_votes
  BY DEF NewRow, Row
<1>2. /\ row' = [row EXCEPT ![e] = NewRow(a, path, sign)]
      /\ UNCHANGED <<session, lock, person, snapshots, yes, no>>
      /\ row[e].status = "none"
  BY DEF SubmitReport
<1>3. row' \in [Events -> Row]
  BY <1>1, <1>2 DEF TInv, TypeOK
<1>4. \A x \in Events : row'[x].status # "none" => row'[x].submitter \in row'[x].agent_votes
  BY <1>1, <1>2 DEF TInv, TypeOK
<1>5. SessionsReadPending'
  BY <1>2 DEF TInv, TypeOK, SessionsReadPending
<1> QED
  BY <1>2, <1>3, <1>4, <1>5 DEF TInv, TypeOK

LEMMA ReadTypes ==
    ASSUME TInv, NEW q \in Requests, NEW a \in Agents, NEW e \in Events,
           NEW approve \in BOOLEAN, ReadReport(q, a, e, approve)
    PROVE  TInv'
<1> DEFINE s == [Idle EXCEPT !.phase = "read", !.agent = a, !.event = e,
                             !.approve = approve, !.seen = row[e]]
<1>1. row[e] \in Row /\ row[e].status = "pending" /\ a \notin row[e].agent_votes
  BY DEF ReadReport, MayVote, TInv, TypeOK
<1>2. /\ s \in Session
      /\ s.phase = "read" /\ s.agent = a /\ s.event = e /\ s.seen = row[e]
  BY <1>1, InitialTypes DEF Session, Idle
<1>3. /\ session' = [session EXCEPT ![q] = s]
      /\ session[q].phase = "idle"
      /\ UNCHANGED <<row, lock, person, snapshots, yes, no>>
  BY DEF ReadReport
<1> HIDE DEF s
<1>4. session' \in [Requests -> Session]
  BY <1>2, <1>3 DEF TInv, TypeOK
<1>5. \A x \in Events, p \in Requests :
          lock'[x] = p <=> session'[p].phase = "flushed" /\ session'[p].event = x
  BY <1>2, <1>3 DEF TInv, TypeOK
<1>6. SessionsReadPending'
  BY <1>1, <1>2, <1>3 DEF TInv, TypeOK, SessionsReadPending
<1> QED
  BY <1>3, <1>4, <1>5, <1>6 DEF TInv, TypeOK

LEMMA FlushTypes ==
    ASSUME TInv, NEW q \in Requests, FlushVote(q)
    PROVE  TInv'
<1> DEFINE s == session[q]
           tally == IF Revaluing(s) THEN TallyOf(Counted(s.event)) ELSE NoTally
           personSeen == IF Revaluing(s) THEN person ELSE NoTally
           flushed == [s EXCEPT !.phase = "flushed", !.tally = tally,
                                !.personSeen = personSeen]
<1>1. s \in Session /\ s.phase = "read" /\ s.event \in Events
  BY DEF FlushVote, TInv, TypeOK, SessionsReadPending
<1>2. tally \in Tallies /\ personSeen \in Tallies
  <2>1. Counted(s.event) \in SUBSET Events
    BY <1>1 DEF Counted
  <2> QED
    BY <2>1, TallyType, InitialTypes DEF TInv, TypeOK
<1>3. /\ session' = [session EXCEPT ![q] = flushed]
      /\ lock' = [lock EXCEPT ![s.event] = q]
      /\ lock[s.event] = NoRequest
      /\ UNCHANGED <<row, person, snapshots, yes, no>>
  BY DEF FlushVote, TInv, TypeOK
<1>4. /\ flushed \in Session
      /\ flushed.phase = "flushed" /\ flushed.agent = s.agent
      /\ flushed.event = s.event /\ flushed.seen = s.seen
  <2> HIDE DEF tally, personSeen, s
  <2> QED
    BY <1>1, <1>2 DEF Session
<1> HIDE DEF flushed, s
<1>5. session' \in [Requests -> Session] /\ lock' \in [Events -> Requests \cup {NoRequest}]
  BY <1>1, <1>3, <1>4 DEF TInv, TypeOK
<1>6. \A x \in Events, p \in Requests :
          lock'[x] = p <=> session'[p].phase = "flushed" /\ session'[p].event = x
  BY <1>1, <1>3, <1>4, OracleAssumption DEF TInv, TypeOK, s
<1>7. SessionsReadPending'
  BY <1>1, <1>3, <1>4 DEF TInv, TypeOK, SessionsReadPending, s
<1> QED
  BY <1>3, <1>5, <1>6, <1>7 DEF TInv, TypeOK

LEMMA CommitTypes ==
    ASSUME TInv, NEW q \in Requests, CommitVote(q)
    PROVE  TInv'
<1> DEFINE s == session[q]
           e == s.event
           new == ChangedColumns(row[e], s.seen, Decided(s))
<1>1. /\ s \in Session /\ s.phase = "flushed"
      /\ s.agent \in Agents /\ e \in Events
      /\ row[e] \in Row /\ row[e].status # "none" /\ s.seen.status = "pending"
      /\ row[e].submitter \in row[e].agent_votes
      /\ row[e].submitter \in s.seen.agent_votes
      /\ s.approve \in BOOLEAN
  BY DEF CommitVote, TInv, TypeOK, SessionsReadPending, Session
<1>2. /\ new \in Row
      /\ new.path = row[e].path /\ new.sign = row[e].sign
      /\ new.submitter = row[e].submitter
      /\ new.status = IF Decided(s).status # s.seen.status
                      THEN Decided(s).status ELSE row[e].status
      /\ new.agent_votes = IF s.seen.path = "api" THEN s.seen.agent_votes \cup {s.agent}
                                                  ELSE row[e].agent_votes
  BY <1>1, CommittedRow
<1>3. new.status # "none" /\ new.submitter \in new.agent_votes
  BY <1>1, <1>2, DecidedStatus
<1>4. /\ row' = [row EXCEPT ![e] = new]
      /\ lock' = [lock EXCEPT ![e] = NoRequest]
      /\ session' = [session EXCEPT ![q] = Idle]
  BY DEF CommitVote
<1>5. /\ person' \in Tallies
      /\ snapshots' \subseteq [event: Events, tally: Tallies]
  <2>1. s.tally \in Tallies
    BY <1>1 DEF Session
  <2> QED
    BY <1>1, <2>1 DEF CommitVote, TInv, TypeOK
<1>6. yes' \in [Events -> [Agents -> Nat]] /\ no' \in [Events -> [Agents -> Nat]]
  <2>1. yes[e][s.agent] + 1 \in Nat /\ no[e][s.agent] + 1 \in Nat
    BY <1>1 DEF TInv, TypeOK
  <2>2. CASE s.approve
    BY <1>1, <2>1, <2>2 DEF CommitVote, TInv, TypeOK
  <2>3. CASE ~s.approve
    BY <1>1, <2>1, <2>3 DEF CommitVote, TInv, TypeOK
  <2> QED
    BY <2>2, <2>3
<1> HIDE DEF new, s, e
<1>7. row' \in [Events -> Row] /\ session' \in [Requests -> Session]
      /\ lock' \in [Events -> Requests \cup {NoRequest}]
  BY <1>1, <1>2, <1>4, InitialTypes DEF TInv, TypeOK
<1>8. \A x \in Events, p \in Requests :
          lock'[x] = p <=> session'[p].phase = "flushed" /\ session'[p].event = x
  <2>1. Idle.phase = "idle"
    BY DEF Idle
  <2> QED
    BY <1>1, <1>4, <2>1, OracleAssumption DEF TInv, TypeOK, s, e
<1>9. \A x \in Events : row'[x].status # "none" => row'[x].submitter \in row'[x].agent_votes
  BY <1>1, <1>3, <1>4 DEF TInv, TypeOK
<1>10. SessionsReadPending'
  <2>1. Idle.phase = "idle"
    BY DEF Idle
  <2>2. \A x \in Events : /\ row'[x].path = row[x].path /\ row'[x].sign = row[x].sign
                          /\ row'[x].submitter = row[x].submitter
                          /\ row[x].status # "none" => row'[x].status # "none"
    BY <1>1, <1>2, <1>3, <1>4 DEF TInv, TypeOK
  <2> QED
    BY <1>4, <2>1, <2>2 DEF TInv, TypeOK, SessionsReadPending
<1> QED
  BY <1>5, <1>6, <1>7, <1>8, <1>9, <1>10 DEF TInv, TypeOK

LEMMA AbortTypes ==
    ASSUME TInv, NEW q \in Requests, Abort(q)
    PROVE  TInv'
<1>1. /\ lock' = [e \in Events |-> IF lock[e] = q THEN NoRequest ELSE lock[e]]
      /\ session' = [session EXCEPT ![q] = Idle]
      /\ UNCHANGED <<row, person, snapshots, yes, no>>
      /\ Idle \in Session /\ Idle.phase = "idle"
  BY InitialTypes DEF Abort, Idle
<1>2. session' \in [Requests -> Session] /\ lock' \in [Events -> Requests \cup {NoRequest}]
  BY <1>1 DEF TInv, TypeOK
<1>3. \A x \in Events, p \in Requests :
          lock'[x] = p <=> session'[p].phase = "flushed" /\ session'[p].event = x
  BY <1>1, OracleAssumption DEF TInv, TypeOK
<1>4. SessionsReadPending'
  BY <1>1 DEF TInv, TypeOK, SessionsReadPending
<1> QED
  BY <1>1, <1>2, <1>3, <1>4 DEF TInv, TypeOK

LEMMA StepTypes == TInv /\ [Next]_vars => TInv'
<1> SUFFICES ASSUME TInv, [Next]_vars PROVE TInv'
  OBVIOUS
<1>1. CASE UNCHANGED vars
  BY <1>1 DEF vars, TInv, TypeOK, SessionsReadPending
<1> QED
  BY <1>1, SubmitTypes, ReadTypes, FlushTypes, CommitTypes, AbortTypes DEF Next

\* Types hold, and whoever is about to vote read its report as pending, submitter included.
THEOREM TypeInvariance == Spec => []TInv
  BY InitTypes, StepTypes, PTL DEF Spec

\* Rows and sessions are well typed, a row's lock is held exactly by the session
\* that flushed it, and no interleaving of writers drops the submitter from the
\* voters of its report.
THEOREM TypeCorrect == Spec => []TypeOK
<1>1. TInv => TypeOK
  BY DEF TInv
<1> QED
  BY <1>1, TypeInvariance, PTL

\* A commit writes a status only if it decided, whatever the row has become since
\* it was read.
LEMMA ReopenStep ==
    TInv /\ [Next]_vars =>
        [\A e \in Events :
            row[e].status \in {"confirmed", "rejected"} =>
                row'[e].status \in {"confirmed", "rejected"}]_vars
<1> SUFFICES ASSUME TInv, Next, NEW e \in Events,
                    row[e].status \in {"confirmed", "rejected"}
             PROVE  row'[e].status \in {"confirmed", "rejected"}
  BY DEF vars
<1>1. ASSUME NEW a \in Agents, NEW x \in Events, NEW path \in Paths, NEW sign \in Signs,
             SubmitReport(a, x, path, sign)
      PROVE  row'[e] = row[e]
  BY <1>1 DEF SubmitReport, TInv, TypeOK
<1>2. ASSUME NEW q \in Requests, CommitVote(q)
      PROVE  row'[e].status \in {"confirmed", "rejected"}
  <2> DEFINE s == session[q]
             new == ChangedColumns(row[s.event], s.seen, Decided(s))
  <2>1. /\ s \in Session /\ s.agent \in Agents /\ s.event \in Events
        /\ s.seen.status = "pending" /\ row[s.event] \in Row
    BY <1>2 DEF CommitVote, TInv, TypeOK, SessionsReadPending
  <2>2. new.status = IF Decided(s).status # s.seen.status THEN Decided(s).status
                                                          ELSE row[s.event].status
    BY <2>1, CommittedRow
  <2>3. Decided(s).status \in {"pending", "confirmed", "rejected"}
    BY <2>1, DecidedStatus
  <2>4. row' = [row EXCEPT ![s.event] = new]
    BY <1>2 DEF CommitVote
  <2> HIDE DEF new
  <2> QED
    BY <2>1, <2>2, <2>3, <2>4 DEF TInv, TypeOK
<1>3. ASSUME NEW q \in Requests, NEW a \in Agents, NEW x \in Events, NEW approve \in BOOLEAN,
             ReadReport(q, a, x, approve)
      PROVE  row'[e] = row[e]
  BY <1>3 DEF ReadReport
<1>4. ASSUME NEW q \in Requests, FlushVote(q) \/ Abort(q)
      PROVE  row'[e] = row[e]
  BY <1>4 DEF FlushVote, Abort
<1> QED
  BY <1>1, <1>2, <1>3, <1>4 DEF Next

\* A decided report never becomes pending again, although requests that read it
\* as pending commit after it was decided.
THEOREM DecidedStays == Spec => NeverReopened
  BY ReopenStep, TypeInvariance, PTL DEF Spec, NeverReopened

-----------------------------------------------------------------------------
(***************************************************************************)
(* Who confirmed a report.  Interleaved writers lose ballots, so counters  *)
(* and voters say little of the ballots cast.  What survives: a row whose  *)
(* status is pending has no rejection under the API and one voter who      *)
(* really approved for each confirmation, or, under the service, its       *)
(* submitter's confirmation alone; and the sessions hold copies of rows    *)
(* that were pending.                                                      *)
(***************************************************************************)
Sound(rw, e) ==
    /\ rw.path = "api" =>
          /\ rw.rejections = 0
          /\ rw.agent_votes \subseteq Approvers(e)
          /\ rw.confirmations <= Cardinality(rw.agent_votes)
    /\ rw.path = "service" => rw.confirmations = 1

PendingIsSound ==
    /\ \A e \in Events : row[e].status = "pending" => Sound(row[e], e)
    /\ \A q \in Requests :
          session[q].phase # "idle" => Sound(session[q].seen, session[q].event)

\* A session that is about to confirm for the service has counted its own report.
CountsItself ==
    \A q \in Requests :
        session[q].phase = "flushed" /\ Revaluing(session[q]) =>
            session[q].tally[session[q].seen.sign] >= 1

OInv ==
    /\ TInv
    /\ PendingIsSound
    /\ ConfirmedByDistinctAgents
    /\ CountsItself
    /\ ConfirmedIsValued

\* Approvers are agents, once the report exists, and can be counted: as many of them
\* as are known are not more than all of them.
LEMMA ApproversFinite ==
    ASSUME TInv, NEW e \in Events, row[e].status # "none"
    PROVE  /\ Approvers(e) \in SUBSET Agents
           /\ IsFiniteSet(Approvers(e))
           /\ Cardinality(Approvers(e)) \in Nat
<1>1. Approvers(e) \in SUBSET Agents
  <2>1. row[e].submitter \in Agents
    BY DEF TInv, TypeOK, Row
  <2> QED
    BY <2>1 DEF Approvers
<1> QED
  BY <1>1, OracleAssumption, FS_Subset, FS_CardinalityType

LEMMA CountedInSuperset ==
    ASSUME NEW B, IsFiniteSet(B), NEW A \in SUBSET B, NEW n \in Nat, n <= Cardinality(A)
    PROVE  n <= Cardinality(B)
<1> DEFINE x == Cardinality(A)
           y == Cardinality(B)
<1>1. x <= y /\ x \in Nat /\ y \in Nat /\ n <= x
  BY FS_Subset, FS_CardinalityType
<1> HIDE DEF x, y
<1>2. n <= y
  BY <1>1
<1> QED
  BY <1>2 DEF y

LEMMA InitSound == Init => OInv
<1> SUFFICES ASSUME Init PROVE OInv
  OBVIOUS
<1>1. TInv
  BY InitTypes
<1>2. /\ \A e \in Events : row[e].status = "none"
      /\ \A q \in Requests : session[q].phase = "idle"
  BY DEF Init, NoRow, Idle
<1> QED
  BY <1>1, <1>2
     DEF OInv, PendingIsSound, ConfirmedByDistinctAgents, CountsItself, ConfirmedIsValued

LEMMA SubmitSound ==
    ASSUME OInv, NEW a \in Agents, NEW e \in Events, NEW path \in Paths,
           NEW sign \in Signs, SubmitReport(a, e, path, sign)
    PROVE  OInv'
<1> DEFINE new == NewRow(a, path, sign)
<1>1. TInv'
  BY SubmitTypes DEF OInv
<1>2. /\ row' = [row EXCEPT ![e] = new]
      /\ UNCHANGED <<session, lock, person, snapshots, yes, no>>
      /\ row[e].status = "none"
      /\ row \in [Events -> Row]
  BY DEF SubmitReport, OInv, TInv, TypeOK
<1>3. /\ new.status = "pending" /\ new.path = path /\ new.submitter = a
      /\ new.confirmations = 1 /\ new.rejections = 0 /\ new.agent_votes = {a}
  BY DEF NewRow
<1> HIDE DEF new
<1>4. row'[e] = new /\ \A x \in Events : x # e => row'[x] = row[x]
  BY <1>2
<1>5. \A x \in Events : x # e => Approvers(x)' = Approvers(x)
  BY <1>2, <1>4 DEF Approvers
<1>6. a \in Approvers(e)'
  BY <1>3, <1>4 DEF Approvers
<1>7. Cardinality({a}) = 1
  BY FS_Singleton
<1>8. PendingIsSound'
  <2>1. Sound(row[e], e)'
    BY <1>3, <1>4, <1>6, <1>7 DEF Sound
  <2>2. ASSUME NEW x \in Events, x # e, row'[x].status = "pending"
        PROVE  Sound(row[x], x)'
    BY <1>4, <1>5, <2>2 DEF OInv, PendingIsSound, Sound
  <2>3. ASSUME NEW q \in Requests, session'[q].phase # "idle"
        PROVE  Sound(session[q].seen, session[q].event)'
    <3>1. session[q].event \in Events /\ session[q].event # e
      BY <1>2, <2>3 DEF OInv, TInv, SessionsReadPending
    <3> QED
      BY <1>2, <1>5, <2>3, <3>1 DEF OInv, PendingIsSound, Sound
  <2> QED
    BY <2>1, <2>2, <2>3 DEF PendingIsSound
<1>9. ConfirmedByDistinctAgents'
  BY <1>3, <1>4, <1>5 DEF OInv, ConfirmedByDistinctAgents
<1>10. CountsItself'
  BY <1>2 DEF OInv, CountsItself
<1>11. ConfirmedIsValued'
  BY <1>2, <1>3, <1>4 DEF OInv, ConfirmedIsValued
<1> QED
  BY <1>1, <1>8, <1>9, <1>10, <1>11 DEF OInv

LEMMA ReadSound ==
    ASSUME OInv, NEW q \in Requests, NEW a \in Agents, NEW e \in Events,
           NEW approve \in BOOLEAN, ReadReport(q, a, e, approve)
    PROVE  OInv'
<1>1. TInv'
  BY ReadTypes DEF OInv
<1>2. /\ UNCHANGED <<row, lock, person, snapshots, yes, no>>
      /\ session'[q].phase = "read" /\ session'[q].event = e /\ session'[q].seen = row[e]
      /\ \A p \in Requests : p # q => session'[p] = session[p]
      /\ row[e].status = "pending"
  BY DEF ReadReport, MayVote, Idle, OInv, TInv, TypeOK
<1>3. \A x : Approvers(x)' = Approvers(x)
  BY <1>2 DEF Approvers
<1>4. PendingIsSound'
  <2>1. \A x \in Events : row'[x].status = "pending" => Sound(row[x], x)'
    BY <1>2, <1>3 DEF OInv, PendingIsSound, Sound
  <2>2. Sound(session[q].seen, session[q].event)'
    BY <1>2, <1>3 DEF OInv, PendingIsSound, Sound
  <2>3. \A p \in Requests : p # q /\ session'[p].phase # "idle" =>
            Sound(session[p].seen, session[p].event)'
    BY <1>2, <1>3 DEF OInv, PendingIsSound, Sound
  <2> QED
    BY <2>1, <2>2, <2>3 DEF PendingIsSound
<1>5. ConfirmedByDistinctAgents'
  BY <1>2, <1>3 DEF OInv, ConfirmedByDistinctAgents
<1>6. CountsItself'
  <2> SUFFICES ASSUME NEW p \in Requests, session'[p].phase = "flushed",
                      Revaluing(session'[p])
               PROVE  session'[p].tally[session'[p].seen.sign] >= 1
    BY DEF CountsItself, Revaluing, Decided
  <2>1. p # q
    BY <1>2
  <2> QED
    BY <1>2, <2>1 DEF OInv, CountsItself
<1>7. ConfirmedIsValued'
  BY <1>2 DEF OInv, ConfirmedIsValued
<1> QED
  BY <1>1, <1>4, <1>5, <1>6, <1>7 DEF OInv

LEMMA FlushSound ==
    ASSUME OInv, NEW q \in Requests, FlushVote(q)
    PROVE  OInv'
<1> DEFINE s == session[q]
<1>1. TInv' /\ TInv
  BY FlushTypes DEF OInv
<1>2. /\ UNCHANGED <<row, person, snapshots, yes, no>>
      /\ s.phase = "read"
      /\ session'[q].phase = "flushed" /\ session'[q].event = s.event
      /\ session'[q].seen = s.seen /\ session'[q].agent = s.agent
      /\ session'[q].approve = s.approve
      /\ session'[q].tally = IF Revaluing(s) THEN TallyOf(Counted(s.event)) ELSE NoTally
      /\ \A p \in Requests : p # q => session'[p] = session[p]
  BY DEF FlushVote, OInv, TInv, TypeOK, Session
<1>3. \A x : Approvers(x)' = Approvers(x)
  BY <1>2 DEF Approvers
<1>4. PendingIsSound'
  <2>1. \A x \in Events : row'[x].status = "pending" => Sound(row[x], x)'
    BY <1>2, <1>3 DEF OInv, PendingIsSound, Sound
  <2>2. Sound(session[q].seen, session[q].event)'
    BY <1>2, <1>3 DEF OInv, PendingIsSound, Sound
  <2>3. \A p \in Requests : p # q /\ session'[p].phase # "idle" =>
            Sound(session[p].seen, session[p].event)'
    BY <1>2, <1>3 DEF OInv, PendingIsSound, Sound
  <2> QED
    BY <2>1, <2>2, <2>3 DEF PendingIsSound
<1>5. ConfirmedByDistinctAgents'
  BY <1>2, <1>3 DEF OInv, ConfirmedByDistinctAgents
<1>6. CountsItself'
  <2> SUFFICES ASSUME NEW p \in Requests, session'[p].phase = "flushed",
                      Revaluing(session'[p])
               PROVE  session'[p].tally[session'[p].seen.sign] >= 1
    BY DEF CountsItself, Revaluing, Decided
  <2>1. CASE p = q
    <3>1. Revaluing(s)
      BY <1>2, <2>1 DEF Revaluing, Decided
    <3>2. s.event \in Events /\ row[s.event].sign \in Signs /\ s.seen.sign = row[s.event].sign
      BY <1>1, <1>2 DEF TInv, TypeOK, SessionsReadPending, Row
    <3>3. Counted(s.event) \in SUBSET Events /\ s.event \in Counted(s.event)
      BY <3>2 DEF Counted
    <3>4. TallyOf(Counted(s.event))[row[s.event].sign] >= 1
      BY <3>2, <3>3, TallyType
    <3> QED
      BY <1>2, <2>1, <3>1, <3>2, <3>4
  <2>2. CASE p # q
    BY <1>2, <2>2 DEF OInv, CountsItself
  <2> QED
    BY <2>1, <2>2
<1>7. ConfirmedIsValued'
  BY <1>2 DEF OInv, ConfirmedIsValued
<1> QED
  BY <1>1, <1>4, <1>5, <1>6, <1>7 DEF OInv

LEMMA AbortSound ==
    ASSUME OInv, NEW q \in Requests, Abort(q)
    PROVE  OInv'
<1>1. TInv'
  BY AbortTypes DEF OInv
<1>2. /\ UNCHANGED <<row, person, snapshots, yes, no>>
      /\ session'[q].phase = "idle"
      /\ \A p \in Requests : p # q => session'[p] = session[p]
  BY DEF Abort, Idle, OInv, TInv, TypeOK
<1>3. \A x : Approvers(x)' = Approvers(x)
  BY <1>2 DEF Approvers
<1>4. PendingIsSound'
  <2>1. \A x \in Events : row'[x].status = "pending" => Sound(row[x], x)'
    BY <1>2, <1>3 DEF OInv, PendingIsSound, Sound
  <2>2. \A p \in Requests : session'[p].phase # "idle" =>
            Sound(session[p].seen, session[p].event)'
    BY <1>2, <1>3 DEF OInv, PendingIsSound, Sound
  <2> QED
    BY <2>1, <2>2 DEF PendingIsSound
<1>5. ConfirmedByDistinctAgents'
  BY <1>2, <1>3 DEF OInv, ConfirmedByDistinctAgents
<1>6. CountsItself'
  <2> SUFFICES ASSUME NEW p \in Requests, session'[p].phase = "flushed",
                      Revaluing(session'[p])
               PROVE  session'[p].tally[session'[p].seen.sign] >= 1
    BY DEF CountsItself, Revaluing, Decided
  <2> QED
    BY <1>2 DEF OInv, CountsItself
<1>7. ConfirmedIsValued'
  BY <1>2 DEF OInv, ConfirmedIsValued
<1> QED
  BY <1>1, <1>4, <1>5, <1>6, <1>7 DEF OInv

\* The approvers a session's decision rests on: those it read, and its own agent if
\* it approves.
Backers(s) == s.seen.agent_votes \cup {a \in {s.agent} : s.approve}

\* A decision counts no more confirmations than it has backers, under the API; under
\* the service only an approval takes the row past its submitter's confirmation.
LEMMA DecisionIsBacked ==
    ASSUME TInv, PendingIsSound, NEW q \in Requests, session[q].phase # "idle"
    PROVE  LET s == session[q]
               d == Decided(s)
           IN  /\ s.seen.path = "api" =>
                     /\ d.confirmations <= Cardinality(Backers(s))
                     /\ d.status = "pending" => s.approve /\ d.rejections = 0
                     /\ d.status = "confirmed" => d.confirmations >= 3
               /\ s.seen.path = "service" =>
                     /\ d.status = "pending" => ~s.approve
                     /\ d.status = "confirmed" => s.approve
<1> DEFINE s == session[q]
           seen == s.seen
           d == Decided(s)
<1>1. /\ s \in Session /\ s.agent \in Agents /\ s.event \in Events
      /\ seen \in Row /\ seen.status = "pending"
      /\ s.agent \notin seen.agent_votes /\ s.approve \in BOOLEAN
      /\ Sound(seen, s.event)
  BY DEF TInv, TypeOK, SessionsReadPending, PendingIsSound, Session
<1>2. /\ d.status = NewStatus(seen, AfterBallot(seen, s.agent, s.approve))
      /\ d.confirmations = IF s.approve THEN seen.confirmations + 1 ELSE seen.confirmations
      /\ d.rejections = IF s.approve THEN seen.rejections ELSE seen.rejections + 1
  BY <1>1, DecidedRow
<1>3. /\ seen.confirmations \in Nat /\ seen.rejections \in Nat
      /\ seen.path \in Paths /\ seen.agent_votes \in SUBSET Agents
  BY <1>1 DEF Row
<1>4. d.status = IF d.confirmations >= Required(seen.path) THEN "confirmed"
                 ELSE IF Rejects(seen.path, d.confirmations, d.rejections) THEN "rejected"
                 ELSE "pending"
  <2> DEFINE new == AfterBallot(seen, s.agent, s.approve)
  <2>1. new.confirmations = d.confirmations /\ new.rejections = d.rejections
    <3> HIDE DEF seen, d
    <3>1. CASE s.approve
      BY <1>1, <1>2, <3>1 DEF AfterBallot, Row
    <3>2. CASE ~s.approve
      BY <1>1, <1>2, <3>2 DEF AfterBallot, Row
    <3> QED
      BY <1>1, <3>1, <3>2
  <2> HIDE DEF new, seen, d
  <2> QED
    BY <1>1, <1>2, <2>1 DEF NewStatus, new
<1> HIDE DEF seen, d
<1>5. ASSUME seen.path = "service"
      PROVE  /\ d.status = "pending" => ~s.approve
             /\ d.status = "confirmed" => s.approve
  BY <1>1, <1>2, <1>3, <1>4, <1>5 DEF Sound, Required
<1>6. ASSUME seen.path = "api"
      PROVE  /\ d.confirmations <= Cardinality(Backers(s))
             /\ d.status = "pending" => s.approve /\ d.rejections = 0
             /\ d.status = "confirmed" => d.confirmations >= 3
  <2>1. /\ d.status = "pending" => s.approve /\ d.rejections = 0
        /\ d.status = "confirmed" => d.confirmations >= 3
    BY <1>1, <1>2, <1>3, <1>4, <1>6 DEF Sound, Required, Rejects
  <2>2. IsFiniteSet(seen.agent_votes)
    BY <1>3, OracleAssumption, FS_Subset
  <2>3. CASE s.approve
    <3>1. Backers(s) = seen.agent_votes \cup {s.agent}
      BY <2>3 DEF Backers, seen
    <3>2. Cardinality(Backers(s)) = Cardinality(seen.agent_votes) + 1
      BY <1>1, <2>2, <3>1, FS_AddElement
    <3> DEFINE x == Cardinality(Backers(s))
               y == Cardinality(seen.agent_votes)
    <3>3. y \in Nat /\ seen.confirmations <= y /\ x = y + 1
      BY <1>1, <1>6, <2>2, <3>2, FS_CardinalityType DEF Sound
    <3> HIDE DEF x, y
    <3>4. d.confirmations <= x
      BY <1>2, <1>3, <2>3, <3>3
    <3> QED
      BY <2>1, <3>4 DEF x
  <2>4. CASE ~s.approve
    <3>1. Backers(s) = seen.agent_votes
      BY <2>4 DEF Backers, seen
    <3> QED
      BY <1>1, <1>2, <1>6, <2>1, <2>4, <3>1 DEF Sound
  <2> QED
    BY <1>1, <2>3, <2>4
<1> QED
  BY <1>5, <1>6 DEF seen, d

LEMMA CommitSound ==
    ASSUME OInv, NEW q \in Requests, CommitVote(q)
    PROVE  OInv'
<1> PICK s, e : s = session[q] /\ e = s.event
  OBVIOUS
<1> DEFINE d == Decided(s)
           new == ChangedColumns(row[e], s.seen, d)
<1>1. TInv /\ TInv' /\ PendingIsSound
  BY CommitTypes DEF OInv
<1>2. /\ s \in Session /\ s.phase = "flushed" /\ s.agent \in Agents /\ e \in Events
      /\ s.approve \in BOOLEAN
      /\ row[e] \in Row /\ row[e].status # "none" /\ s.seen \in Row
      /\ s.seen.status = "pending" /\ s.seen.path = row[e].path
      /\ s.seen.sign = row[e].sign /\ s.seen.submitter = row[e].submitter
      /\ s.seen.submitter \in s.seen.agent_votes /\ s.agent \notin s.seen.agent_votes
      /\ Sound(s.seen, e)
  BY <1>1 DEF CommitVote, TInv, TypeOK, SessionsReadPending, PendingIsSound, Session
<1>3. /\ row' = [row EXCEPT ![e] = new]
      /\ session' = [session EXCEPT ![q] = Idle]
      /\ yes' = IF s.approve THEN [yes EXCEPT ![e][s.agent] = @ + 1] ELSE yes
      /\ IF Revaluing(s)
         THEN snapshots' = snapshots \cup {[event |-> e, tally |-> s.tally]}
         ELSE snapshots' = snapshots
  BY DEF CommitVote
<1>4. /\ new \in Row
      /\ new.path = row[e].path /\ new.sign = row[e].sign
      /\ new.submitter = row[e].submitter
      /\ new.status = IF d.status # s.seen.status THEN d.status ELSE row[e].status
      /\ new.confirmations = IF s.approve THEN s.seen.confirmations + 1
                                          ELSE row[e].confirmations
      /\ new.rejections = IF s.approve THEN row[e].rejections ELSE s.seen.rejections + 1
      /\ new.agent_votes = IF s.seen.path = "api" THEN s.seen.agent_votes \cup {s.agent}
                                                  ELSE row[e].agent_votes
  <2> PICK cur : cur = row[e]
    OBVIOUS
  <2>1. cur \in Row /\ s \in Session /\ s.agent \in Agents
    BY <1>2
  <2>2. LET after == ChangedColumns(cur, s.seen, Decided(s))
        IN  /\ after \in Row
            /\ after.path = cur.path /\ after.sign = cur.sign
            /\ after.submitter = cur.submitter
            /\ after.status = IF Decided(s).status # s.seen.status
                              THEN Decided(s).status ELSE cur.status
            /\ after.confirmations = IF s.approve THEN s.seen.confirmations + 1
                                                  ELSE cur.confirmations
            /\ after.rejections = IF s.approve THEN cur.rejections
                                               ELSE s.seen.rejections + 1
            /\ after.agent_votes = IF s.seen.path = "api"
                                   THEN s.seen.agent_votes \cup {s.agent}
                                   ELSE cur.agent_votes
    <3> HIDE <1>1, <1>2, <1>3
    <3> QED
      BY <2>1, CommittedRow, ZenonT(30)
  <2> QED
    BY <2>2
<1>5. /\ d.status \in {"pending", "confirmed", "rejected"}
      /\ d.confirmations = IF s.approve THEN s.seen.confirmations + 1 ELSE s.seen.confirmations
  BY <1>2, DecidedStatus, DecidedRow
<1>6. /\ s.seen.path = "api" =>
            /\ d.confirmations <= Cardinality(Backers(s))
            /\ d.status = "pending" => s.approve /\ d.rejections = 0
            /\ d.status = "confirmed" => d.confirmations >= 3
      /\ s.seen.path = "service" =>
            /\ d.status = "pending" => ~s.approve
            /\ d.status = "confirmed" => s.approve
  BY <1>1, <1>2, DecisionIsBacked
<1> HIDE DEF new, d
<1>7. /\ row'[e] = new
      /\ \A x \in Events : x # e => row'[x] = row[x]
      /\ session'[q].phase = "idle"
      /\ \A p \in Requests : p # q => session'[p] = session[p]
  BY <1>1, <1>2, <1>3 DEF Idle, TInv, TypeOK
<1>8. \A x \in Events : Approvers(x) \subseteq Approvers(x)'
  <2>1. \A x \in Events, a \in Agents : yes[x][a] > 0 => yes'[x][a] > 0
    <3>1. CASE s.approve
      BY <1>1, <1>2, <1>3, <3>1 DEF TInv, TypeOK
    <3>2. CASE ~s.approve
      BY <1>3, <3>2
    <3> QED
      BY <1>2, <3>1, <3>2
  <2>2. \A x \in Events : row'[x].submitter = row[x].submitter
    BY <1>4, <1>7
  <2> QED
    BY <2>1, <2>2 DEF Approvers
<1>9. s.approve => s.agent \in Approvers(e)'
  <2>1. s.approve => yes'[e][s.agent] > 0
    BY <1>1, <1>2, <1>3 DEF TInv, TypeOK
  <2> QED
    BY <1>2, <2>1 DEF Approvers
<1>10. s.seen.path = "api" => Backers(s) \subseteq Approvers(e)'
  BY <1>2, <1>8, <1>9 DEF Backers, Sound
<1>11. PendingIsSound'
  <2>1. ASSUME new.status = "pending"
        PROVE  Sound(row[e], e)'
    <3>1. d.status = "pending" /\ row[e].status = "pending" /\ Sound(row[e], e)
      BY <1>1, <1>2, <1>4, <1>5, <2>1 DEF PendingIsSound
    <3>2. CASE new.path = "api"
      <4>1. s.approve /\ s.seen.path = "api"
        BY <1>2, <1>4, <1>6, <3>1, <3>2
      <4>2. /\ new.confirmations = d.confirmations
            /\ new.rejections = 0
            /\ new.agent_votes = Backers(s)
        BY <1>2, <1>4, <1>5, <3>1, <4>1 DEF Sound, Backers
      <4> QED
        BY <1>6, <1>7, <1>10, <3>2, <4>1, <4>2 DEF Sound
    <3>3. CASE new.path = "service"
      BY <1>2, <1>4, <1>6, <1>7, <3>1, <3>3 DEF Sound
    <3>4. new.path \in {"api", "service"}
      BY <1>4 DEF Row, Paths
    <3> QED
      BY <3>2, <3>3, <3>4
  <2>2. ASSUME NEW x \in Events, x # e, row'[x].status = "pending"
        PROVE  Sound(row[x], x)'
    BY <1>1, <1>7, <1>8, <2>2 DEF PendingIsSound, Sound
  <2>3. ASSUME NEW p \in Requests, session'[p].phase # "idle"
        PROVE  Sound(session[p].seen, session[p].event)'
    <3>1. /\ session'[p] = session[p] /\ session[p].event \in Events
          /\ Sound(session[p].seen, session[p].event)
      BY <1>1, <1>7, <2>3 DEF TInv, SessionsReadPending, PendingIsSound
    <3> QED
      BY <1>8, <3>1 DEF Sound
  <2> QED
    BY <1>7, <2>1, <2>2, <2>3 DEF PendingIsSound
<1>12. ConfirmedByDistinctAgents'
  <2> SUFFICES ASSUME NEW x \in Events, row'[x].status = "confirmed"
               PROVE  Required(row'[x].path) <= Cardinality(Approvers(x)')
    BY <1>1, ApproversFinite DEF ConfirmedByDistinctAgents, Required
  <2>1. Required(row'[x].path) \in Nat /\ row'[x].status # "none"
    BY DEF Required
  <2>4. IsFiniteSet(Approvers(x)')
    <3>1. row'[x].submitter \in Agents
      <4>1. row[x].status # "none"
        BY <1>2, <1>7, <2>1
      <4>2. row[x].submitter \in Agents
        BY <1>1, <4>1 DEF TInv, TypeOK, Row
      <4>3. row'[x].submitter = row[x].submitter
        BY <1>4, <1>7
      <4> QED
        BY <4>2, <4>3
    <3>2. Approvers(x)' \in SUBSET Agents
      BY <3>1 DEF Approvers
    <3> QED
      BY <3>2, OracleAssumption, FS_Subset
  <2>2. CASE row[x].status = "confirmed"
    <3>1. row'[x].path = row[x].path
      BY <1>4, <1>7
    <3>2. /\ Required(row'[x].path) <= Cardinality(Approvers(x))
          /\ Approvers(x) \subseteq Approvers(x)'
      BY <1>8, <2>2, <3>1, <1>1, ApproversFinite
         DEF OInv, ConfirmedByDistinctAgents, Required
    <3>3. Approvers(x) \in SUBSET (Approvers(x)')
      BY <3>2
    <3> QED
      BY <2>1, <2>4, <3>2, <3>3, CountedInSuperset
  <2>3. CASE row[x].status # "confirmed"
    <3>1. x = e /\ d.status = "confirmed"
      BY <1>2, <1>4, <1>7, <2>3
    <3>2. CASE s.seen.path = "api"
      <4>1. /\ 3 <= Cardinality(Backers(s)) /\ Required(row'[x].path) = 3
        <5>1. /\ d.confirmations >= 3 /\ d.confirmations <= Cardinality(Backers(s))
              /\ d.confirmations \in Nat
          BY <1>2, <1>5, <1>6, <3>1, <3>2 DEF Row
        <5>2. Cardinality(Backers(s)) \in Nat
          <6>1. Backers(s) \in SUBSET Agents
            BY <1>2 DEF Backers, Row
          <6> QED
            BY <6>1, OracleAssumption, FS_Subset, FS_CardinalityType
        <5>3. Required(row'[x].path) = 3
          BY <1>2, <1>4, <1>7, <3>1, <3>2 DEF Required
        <5> DEFINE y == Cardinality(Backers(s))
        <5> HIDE DEF y
        <5>4. 3 <= y
          BY <5>1, <5>2 DEF y
        <5> QED
          BY <5>3, <5>4 DEF y
      <4>2. Backers(s) \in SUBSET (Approvers(x)')
        BY <1>10, <3>1, <3>2
      <4> QED
        BY <2>1, <2>4, <4>1, <4>2, CountedInSuperset
    <3>3. CASE s.seen.path = "service"
      <4>1. /\ s.agent # s.seen.submitter
            /\ {s.agent, s.seen.submitter} \subseteq Approvers(e)'
        <5>1. s.seen.submitter \in Approvers(e)
          BY <1>2 DEF Approvers
        <5>2. Approvers(e) \subseteq Approvers(e)'
          BY <1>2, <1>8
        <5>3. s.agent \in Approvers(e)'
          BY <1>6, <1>9, <3>1, <3>3
        <5>4. s.agent # s.seen.submitter
          BY <1>2
        <5> QED
          BY <5>1, <5>2, <5>3, <5>4
      <4>2. Cardinality({s.agent, s.seen.submitter}) = 2
        <5> PICK a, b : a = s.agent /\ b = s.seen.submitter
          OBVIOUS
        <5>1. IsFiniteSet({a}) /\ Cardinality({a}) = 1 /\ b \notin {a}
          BY <4>1, FS_Singleton
        <5>2. Cardinality({a} \cup {b}) = Cardinality({a}) + 1
          BY <5>1, FS_AddElement
        <5>3. {a} \cup {b} = {s.agent, s.seen.submitter}
          OBVIOUS
        <5> QED
          BY <5>1, <5>2, <5>3
      <4>3. Required(row'[x].path) = 2
        BY <1>2, <1>4, <1>7, <3>1, <3>3 DEF Required
      <4>4. {s.agent, s.seen.submitter} \in SUBSET (Approvers(x)')
        BY <3>1, <4>1
      <4>5. 2 <= Cardinality({s.agent, s.seen.submitter})
        BY <4>2
      <4> QED
        BY <2>1, <2>4, <4>3, <4>4, <4>5, CountedInSuperset
    <3> QED
      BY <1>2, <3>2, <3>3 DEF Row, Paths
  <2> QED
    BY <2>2, <2>3
<1>13. CountsItself'
  <2> SUFFICES ASSUME NEW p \in Requests, session'[p].phase = "flushed",
                      Revaluing(session'[p])
               PROVE  session'[p].tally[session'[p].seen.sign] >= 1
    BY DEF CountsItself, Revaluing, Decided
  <2>1. p # q
    BY <1>7
  <2> QED
    BY <1>7, <2>1 DEF OInv, CountsItself
<1>14. ConfirmedIsValued'
  <2> SUFFICES ASSUME NEW x \in Events, row'[x].status = "confirmed",
                      row'[x].path = "service"
               PROVE  \E v \in snapshots' : v.event = x /\ v.tally[row'[x].sign] >= 1
    BY DEF ConfirmedIsValued
  <2>1. snapshots \subseteq snapshots' /\ row'[x].sign = row[x].sign /\ row'[x].path = row[x].path
    BY <1>3, <1>4, <1>7
  <2>2. CASE row[x].status = "confirmed"
    BY <2>1, <2>2 DEF OInv, ConfirmedIsValued
  <2>3. CASE row[x].status # "confirmed"
    <3>1. x = e /\ d.status = "confirmed" /\ s.seen.path = "service"
      BY <1>2, <1>4, <1>7, <2>1, <2>3
    <3>2. Revaluing(s)
      BY <3>1 DEF Revaluing, Revalues, d
    <3>3. s.tally[row[e].sign] >= 1
      BY <1>2, <3>2 DEF OInv, CountsItself
    <3>4. [event |-> e, tally |-> s.tally] \in snapshots'
      BY <1>3, <3>2
    <3> QED
      BY <2>1, <3>1, <3>3, <3>4
  <2> QED
    BY <2>2, <2>3
<1> QED
  BY <1>1, <1>11, <1>12, <1>13, <1>14 DEF OInv

LEMMA StepSound == OInv /\ [Next]_vars => OInv'
<1> SUFFICES ASSUME OInv, [Next]_vars PROVE OInv'
  OBVIOUS
<1>1. CASE UNCHANGED vars
  <2>1. TInv'
    BY <1>1, StepTypes DEF OInv
  <2>2. PendingIsSound' /\ ConfirmedByDistinctAgents' /\ ConfirmedIsValued'
    BY <1>1 DEF vars, OInv, PendingIsSound, Sound, Approvers, ConfirmedByDistinctAgents,
                ConfirmedIsValued
  <2>3. CountsItself'
    BY <1>1 DEF vars, OInv, CountsItself, Revaluing, Decided
  <2> QED
    BY <2>1, <2>2, <2>3 DEF OInv
<1> QED
  BY <1>1, SubmitSound, ReadSound, FlushSound, CommitSound, AbortSound DEF Next

\* The stored ballots, those that sessions hold back and the valuations are consistent.
THEOREM SoundInvariance == Spec => []OInv
  BY InitSound, StepSound, PTL DEF Spec

\* However requests interleave, whatever ballots are lost, and however often an agent
\* gets to vote, a confirmed report has as many different approvers as it requires.
THEOREM DistinctConfirmers == Spec => []ConfirmedByDistinctAgents
<1>1. OInv => ConfirmedByDistinctAgents
  BY DEF OInv
<1> QED
  BY <1>1, SoundInvariance, PTL

\* A report the service confirmed has led to a valuation that counts it.
THEOREM ConfirmedValued == Spec => []ConfirmedIsValued
<1>1. OInv => ConfirmedIsValued
  BY DEF OInv
<1> QED
  BY <1>1, SoundInvariance, PTL
=============================================================================
