------------------------- MODULE NileSecurity_proofs -------------------------
(***************************************************************************)
(* Proofs about NileSecurity, for every set of agents and programs and     *)
(* every bound.                                                            *)
(***************************************************************************)
EXTENDS NileSecurity, Functions, FiniteSetTheorems, TLAPS

-----------------------------------------------------------------------------
\* What init leaves in the accounts: the old ones unchanged, and the new one.
LEMMA AllocFacts ==
    ASSUME NEW f, NEW k, NEW v
    PROVE  /\ DOMAIN Alloc(f, k, v) = DOMAIN f \cup {k}
           /\ Alloc(f, k, v)[k] = v
           /\ \A x \in DOMAIN f : x # k => Alloc(f, k, v)[x] = f[x]
  BY DEF Alloc

\* A required quorum fits the u8 it is stored in and is at least one.
LEMMA RequiredQuorumType ==
    ASSUME NEW n \in Nat
    PROVE  RequiredQuorum(n) \in 1 .. 255
  BY DEF RequiredQuorum, Quorum

\* submit_report finalizes at once exactly when the submitter's own
\* confirmation is all the stored quorum asks for.
LEMMA AutoFinalize ==
    ASSUME NEW n \in Nat
    PROVE  Quorum(n) <= 1 <=> RequiredQuorum(n) = 1
  BY DEF RequiredQuorum, Quorum

\* Recording a ballot and settling the report keep its type, and settling only
\* sets the two flags.
LEMMA SettleType ==
    ASSUME NEW rep \in OracleReport, NEW approve \in BOOLEAN
    PROVE  /\ RecordVote(rep, approve) \in OracleReport
           /\ Settle(RecordVote(rep, approve)) \in OracleReport
<1>1. ASSUME NEW x \in OracleReport PROVE Settle(x) \in OracleReport
  BY DEF Settle, OracleReport
<1>2. RecordVote(rep, approve) \in OracleReport
  <2>1. CASE approve
    BY <2>1 DEF RecordVote, OracleReport
  <2>2. CASE ~approve
    BY <2>2 DEF RecordVote, OracleReport
  <2> QED
    BY <2>1, <2>2
<1> QED
  BY <1>1, <1>2

\* The credits of the three instructions, and the authority's counters, keep
\* their types.
LEMMA CreditTypes ==
    ASSUME NEW q \in AgentProfile
    PROVE  /\ CreditScore(q) \in AgentProfile
           /\ CreditReport(q) \in AgentProfile
           /\ CreditVote(q) \in AgentProfile
<1>1. /\ q.total_scores + 1 \in Nat /\ q.total_reports + 1 \in Nat
      /\ q.total_votes + 1 \in Nat /\ q.points + 10 \in Nat
      /\ q.points + 5 \in Nat /\ q.points + 2 \in Nat
  BY DEF AgentProfile
<1>2. CreditScore(q) \in AgentProfile
  BY <1>1 DEF CreditScore, AgentProfile
<1>3. CreditReport(q) \in AgentProfile
  BY <1>1 DEF CreditReport, AgentProfile
<1>4. CreditVote(q) \in AgentProfile
  BY <1>1 DEF CreditVote, AgentProfile
<1> QED
  BY <1>2, <1>3, <1>4

\* Counting an agent, a score or a report keeps the authority well typed, and
\* touches only the counter it is for.
LEMMA AuthorityTypes ==
    ASSUME NEW au \in Authority
    PROVE  /\ CountScore(au) \in Authority
           /\ CountScore(au).admin = au.admin
           /\ CountScore(au).agent_count = au.agent_count
           /\ CountScore(au).total_reports = au.total_reports
           /\ [au EXCEPT !.agent_count = @ + 1] \in Authority
           /\ CountReport(au) \in Authority
<1>1. /\ CountScore(au) \in Authority
      /\ CountScore(au).admin = au.admin
      /\ CountScore(au).agent_count = au.agent_count
      /\ CountScore(au).total_reports = au.total_reports
  BY DEF CountScore, Authority
<1>2. [au EXCEPT !.agent_count = @ + 1] \in Authority
  BY DEF Authority
<1>3. CountReport(au) \in Authority
  BY DEF CountReport, Authority
<1> QED
  BY <1>1, <1>2, <1>3

\* A registered program that is scored stays well typed.
LEMMA ScoredType ==
    ASSUME NEW prof \in ProgramProfile, NEW uri \in Nat, NEW total \in 0 .. 100,
           NEW grade \in Grades
    PROVE  [prof EXCEPT !.uri_len = uri, !.total_score = total, !.grade = grade,
                        !.score_count = @ + 1] \in ProgramProfile
<1>1. prof.score_count + 1 \in Nat
  BY DEF ProgramProfile
<1> QED
  BY <1>1 DEF ProgramProfile

-----------------------------------------------------------------------------
LEMMA InitType == Init => TypeOK
  BY NileAssumption DEF Init, TypeOK, ReportIds, Authority

LEMMA StepType == TypeOK /\ [Next]_vars => TypeOK'
<1> SUFFICES ASSUME TypeOK, [Next]_vars PROVE TypeOK'
  OBVIOUS
<1> USE NileAssumption
<1>1. ASSUME NEW w \in Wallets, Initialize(w) PROVE TypeOK'
  BY <1>1 DEF Initialize, TypeOK, Authority
<1>2. ASSUME NEW w \in Wallets, NEW a \in Agents, AuthorizeAgent(w, a) PROVE TypeOK'
  <2>1. agents' \in [DOMAIN agents' -> AgentProfile] /\ DOMAIN agents' \subseteq Agents
    BY <1>2 DEF AuthorizeAgent, TypeOK, AgentProfile, Alloc
  <2>2. /\ authority' \in Authority
        /\ authority'.admin # NoWallet
        /\ authority'.total_reports = authority.total_reports
    <3>1. authority' = [authority EXCEPT !.agent_count = @ + 1] /\ authority.admin = w
      BY <1>2 DEF AuthorizeAgent
    <3>2. authority' \in Authority
      BY <3>1, AuthorityTypes DEF TypeOK
    <3> QED
      BY <3>1, <3>2 DEF TypeOK, Authority
  <2>3. UNCHANGED <<programs, reports, votes, electorate>>
    BY <1>2 DEF AuthorizeAgent
  <2> QED
    BY <2>1, <2>2, <2>3 DEF TypeOK
<1>3. ASSUME NEW p \in Programs, NEW len \in NameLens, RegisterProgram(p, len)
      PROVE  TypeOK'
  <2>1. programs' \in [DOMAIN programs' -> ProgramProfile]
    BY <1>3 DEF RegisterProgram, TypeOK, ProgramProfile, Grades, Alloc
  <2>2. DOMAIN programs' \subseteq Programs
    BY <1>3 DEF RegisterProgram, TypeOK, Alloc
  <2> QED
    BY <1>3, <2>1, <2>2 DEF RegisterProgram, TypeOK
<1>4. ASSUME NEW a \in Agents, NEW p \in Programs, NEW uri \in UriLens,
             NEW n \in ScoreInputs, NEW i \in ScoreInputs, NEW l \in ScoreInputs,
             NEW e \in ScoreInputs, SubmitScore(a, p, n, i, l, e, uri)
      PROVE  TypeOK'
  <2> DEFINE total == (n + i + l + e) \div 4
  <2>1. total \in 0 .. 100
    <3>1. n \in 0 .. 100 /\ i \in 0 .. 100 /\ l \in 0 .. 100 /\ e \in 0 .. 100
      BY <1>4 DEF SubmitScore
    <3> QED
      BY <3>1
  <2>2. GradeOf(total) \in Grades
    BY DEF GradeOf, Grades
  <2>3. programs' \in [DOMAIN programs' -> ProgramProfile]
    <3> HIDE DEF total
    <3>1. programs' = [programs EXCEPT ![p] =
                         [programs[p] EXCEPT !.uri_len = uri, !.total_score = total,
                                             !.grade = GradeOf(total), !.score_count = @ + 1]]
      BY <1>4 DEF SubmitScore, total
    <3> QED
      <4>1. p \in DOMAIN programs /\ programs[p] \in ProgramProfile /\ uri \in Nat
        BY <1>4 DEF SubmitScore, TypeOK
      <4>2. [programs[p] EXCEPT !.uri_len = uri, !.total_score = total,
                 !.grade = GradeOf(total), !.score_count = @ + 1] \in ProgramProfile
        BY <4>1, <2>1, <2>2, ScoredType
      <4> QED
        BY <4>1, <4>2, <3>1 DEF TypeOK
  <2>4. agents' \in [DOMAIN agents' -> AgentProfile]
    BY <1>4, CreditTypes DEF SubmitScore, TypeOK
  <2>5. DOMAIN programs' = DOMAIN programs /\ DOMAIN agents' = DOMAIN agents
    BY <1>4 DEF SubmitScore
  <2>6. /\ authority' \in Authority
        /\ authority'.admin = authority.admin
        /\ authority'.total_reports = authority.total_reports
    BY <1>4, AuthorityTypes DEF SubmitScore, TypeOK
  <2>7. reports' = reports /\ votes' = votes /\ electorate' = electorate
    BY <1>4 DEF SubmitScore
  <2> QED
    BY <2>3, <2>4, <2>5, <2>6, <2>7 DEF TypeOK
<1>5. ASSUME NEW a \in Agents, NEW p \in Programs, SubmitReport(a, p) PROVE TypeOK'
  <2> DEFINE i == authority.total_reports
  <2>1. /\ i \in ReportIds
        /\ authority' \in Authority
        /\ authority'.total_reports = i + 1
        /\ authority'.admin = authority.admin
    <3>1. i \in Nat /\ i < MaxReports /\ authority \in Authority
      BY <1>5 DEF SubmitReport, TypeOK, Authority
    <3>2. authority' = CountReport(authority)
      BY <1>5 DEF SubmitReport
    <3>3. authority' \in Authority
      BY <3>1, <3>2, AuthorityTypes
    <3> QED
      BY <3>1, <3>2, <3>3 DEF ReportIds, CountReport, Authority
  <2>2. /\ DOMAIN reports' = 0 .. authority'.total_reports - 1
        /\ reports' \in [DOMAIN reports' -> OracleReport]
    <3>1. RequiredQuorum(authority.agent_count) \in 1 .. 255
      BY RequiredQuorumType DEF TypeOK, Authority
    <3>2. DOMAIN reports' = DOMAIN reports \cup {i}
      BY <1>5 DEF SubmitReport, Alloc
    <3>3. reports'[i] \in OracleReport
      BY <1>5, <3>1 DEF SubmitReport, Alloc, OracleReport
    <3>4. \A r \in DOMAIN reports : r # i /\ reports'[r] \in OracleReport
      BY <1>5 DEF SubmitReport, Alloc, TypeOK
    <3>5. reports' \in [DOMAIN reports' -> OracleReport]
      BY <1>5, <3>2, <3>3, <3>4 DEF SubmitReport, Alloc
    <3> QED
      BY <2>1, <3>2, <3>5 DEF TypeOK, Authority
  <2>3. DOMAIN agents' = DOMAIN agents /\ agents' \in [DOMAIN agents' -> AgentProfile]
    BY <1>5, CreditTypes DEF SubmitReport, TypeOK
  <2>4. electorate' \in [ReportIds -> SUBSET Agents]
    BY <1>5 DEF SubmitReport, TypeOK
  <2>5. votes' \subseteq [report: DOMAIN reports', agent: Agents, approved: BOOLEAN]
    BY <1>5, AllocFacts DEF SubmitReport, TypeOK, Alloc
  <2>6. authority'.admin = NoWallet => FALSE
    BY <1>5, <2>1 DEF SubmitReport, TypeOK, Authority
  <2>7. authority'.total_reports <= MaxReports
    BY <2>1 DEF ReportIds, TypeOK, Authority
  <2>8. programs' = programs
    BY <1>5 DEF SubmitReport
  <2> QED
    BY <2>1, <2>2, <2>3, <2>4, <2>5, <2>6, <2>7, <2>8 DEF TypeOK
<1>6. ASSUME NEW a \in Agents, NEW r \in DOMAIN reports, NEW approve \in BOOLEAN,
             VoteReport(a, r, approve)
      PROVE  TypeOK'
  <2>1. /\ DOMAIN reports' = DOMAIN reports
        /\ reports' \in [DOMAIN reports' -> OracleReport]
    BY <1>6, SettleType DEF VoteReport, TypeOK
  <2>2. DOMAIN agents' = DOMAIN agents /\ agents' \in [DOMAIN agents' -> AgentProfile]
    BY <1>6, CreditTypes DEF VoteReport, TypeOK
  <2>3. votes' \subseteq [report: DOMAIN reports, agent: Agents, approved: BOOLEAN]
    BY <1>6 DEF VoteReport, TypeOK
  <2>4. authority' = authority /\ programs' = programs /\ electorate' = electorate
    BY <1>6 DEF VoteReport
  <2> QED
    BY <2>1, <2>2, <2>3, <2>4 DEF TypeOK
<1>7. CASE UNCHANGED vars
  BY <1>7 DEF vars, TypeOK
<1> QED
  BY <1>1, <1>2, <1>3, <1>4, <1>5, <1>6, <1>7 DEF Next

\* Every reachable state is well typed: the accounts hold what state.rs declares,
\* totals stay in 0..100, quorums stay in a u8, and reports fill the indices below
\* total_reports without a gap.
THEOREM TypeCorrect == Spec => []TypeOK
  BY InitType, StepType, PTL DEF Spec

-----------------------------------------------------------------------------
(***************************************************************************)
(* The counters, the ballots and the outcome of a report.  None of the     *)
(* three facts is inductive alone: the outcome is decided by the counters, *)
(* the counters have to be those of the ballots, and what quorum means has *)
(* to be tied to the electorate.                                           *)
(***************************************************************************)

\* The quorum stored in a report is the one of its electorate, which is not
\* empty: whoever submitted it was authorized.
QuorumOfElectorate ==
    /\ authority.agent_count = Cardinality(DOMAIN agents)
    /\ \A r \in DOMAIN reports :
          /\ electorate[r] # {}
          /\ reports[r].required_quorum = RequiredQuorum(Cardinality(electorate[r]))

IInv ==
    /\ TypeOK
    /\ OutcomeFollowsCounters
    /\ VotesMatchCounters
    /\ QuorumOfElectorate

\* What a ballot adds to the VoteRecords: the voter, once, on one side, of one report.
LEMMA VotersStep ==
    ASSUME TypeOK, NEW a \in Agents, NEW r \in DOMAIN reports, NEW approve \in BOOLEAN,
           VoteReport(a, r, approve)
    PROVE  /\ Voters(r, approve)' = Voters(r, approve) \cup {a}
           /\ \A b \in BOOLEAN : a \notin Voters(r, b)
           /\ \A x, b : (x # r \/ b # approve) => Voters(x, b)' = Voters(x, b)
<1>1. votes' = votes \cup {[report |-> r, agent |-> a, approved |-> approve]}
  BY DEF VoteReport
<1>2. Voters(r, approve)' = Voters(r, approve) \cup {a}
  BY <1>1 DEF Voters
<1>3. \A b \in BOOLEAN : a \notin Voters(r, b)
  BY DEF VoteReport, MayVote, Voters
<1>4. ASSUME NEW x, NEW b, x # r \/ b # approve
      PROVE  Voters(x, b)' = Voters(x, b)
  BY <1>1, <1>4 DEF Voters
<1> QED
  BY <1>2, <1>3, <1>4

\* A set of voters is finite, so that it can be counted.
LEMMA VotersFinite == \A r, b : IsFiniteSet(Voters(r, b)) /\ Cardinality(Voters(r, b)) \in Nat
<1> TAKE r, b
<1>1. Voters(r, b) \in SUBSET Agents
  BY DEF Voters
<1> QED
  BY <1>1, NileAssumption, FS_Subset, FS_CardinalityType

\* No ballot is recorded for a report before it exists.
LEMMA NoEarlyVotes ==
    ASSUME TypeOK, NEW i, i \notin DOMAIN reports, NEW b
    PROVE  Voters(i, b) = {}
  BY DEF TypeOK, Voters

\* What settling makes of a report that was open.
LEMMA SettleOutcome ==
    ASSUME NEW rep \in OracleReport, NEW approve \in BOOLEAN, ~rep.finalized,
           ~rep.accepted,
           rep.confirmations < rep.required_quorum,
           rep.rejections <= rep.required_quorum \div 2
    PROVE  LET new == Settle(RecordVote(rep, approve))
           IN  /\ new.submitter = rep.submitter
               /\ new.required_quorum = rep.required_quorum
               /\ new.confirmations = IF approve THEN rep.confirmations + 1
                                                 ELSE rep.confirmations
               /\ new.rejections = IF approve THEN rep.rejections ELSE rep.rejections + 1
               /\ new.accepted <=> new.confirmations >= new.required_quorum
               /\ new.finalized <=> \/ new.accepted
                                    \/ new.rejections > new.required_quorum \div 2
               /\ new.confirmations <= new.required_quorum
               /\ new.rejections <= new.required_quorum \div 2 + 1
<1> DEFINE mid == RecordVote(rep, approve)
<1>1. /\ mid \in OracleReport
      /\ mid.submitter = rep.submitter
      /\ mid.required_quorum = rep.required_quorum
      /\ mid.confirmations = IF approve THEN rep.confirmations + 1 ELSE rep.confirmations
      /\ mid.rejections = IF approve THEN rep.rejections ELSE rep.rejections + 1
      /\ mid.finalized = FALSE /\ mid.accepted = FALSE
  <2>1. mid \in OracleReport
    BY SettleType
  <2>2. CASE approve
    BY <2>1, <2>2 DEF RecordVote, OracleReport
  <2>3. CASE ~approve
    BY <2>1, <2>3 DEF RecordVote, OracleReport
  <2> QED
    BY <2>2, <2>3
<1> HIDE DEF mid
<1> DEFINE new == Settle(mid)
<1>2. /\ rep.confirmations \in Nat /\ rep.rejections \in Nat
      /\ rep.required_quorum \in 1 .. 255
      /\ mid.confirmations \in Nat /\ mid.rejections \in Nat
      /\ mid.required_quorum \in 1 .. 255
  BY <1>1 DEF OracleReport
<1>3. /\ new.submitter = mid.submitter
      /\ new.required_quorum = mid.required_quorum
      /\ new.confirmations = mid.confirmations
      /\ new.rejections = mid.rejections
      /\ new.accepted <=> mid.confirmations >= mid.required_quorum
      /\ new.finalized <=> \/ mid.confirmations >= mid.required_quorum
                           \/ mid.rejections > mid.required_quorum \div 2
  <2>1. CASE mid.confirmations >= mid.required_quorum
    <3>1. new = [mid EXCEPT !.finalized = TRUE, !.accepted = TRUE]
      BY <2>1 DEF Settle
    <3> QED
      BY <1>1, <2>1, <3>1 DEF OracleReport
  <2>2. CASE /\ ~ mid.confirmations >= mid.required_quorum
             /\ mid.rejections > mid.required_quorum \div 2
    <3>1. new = [mid EXCEPT !.finalized = TRUE, !.accepted = FALSE]
      BY <2>2 DEF Settle
    <3> QED
      BY <1>1, <2>2, <3>1 DEF OracleReport
  <2>3. CASE /\ ~ mid.confirmations >= mid.required_quorum
             /\ ~ mid.rejections > mid.required_quorum \div 2
    <3>1. new = mid
      BY <2>3 DEF Settle
    <3> QED
      BY <1>1, <2>3, <3>1
  <2> QED
    BY <2>1, <2>2, <2>3
<1> HIDE DEF new
<1>4. /\ new.accepted <=> new.confirmations >= new.required_quorum
      /\ new.finalized <=> \/ new.accepted
                           \/ new.rejections > new.required_quorum \div 2
  BY <1>3
<1>5. new.confirmations <= new.required_quorum
  <2>1. CASE approve
    BY <1>1, <1>2, <1>3, <2>1
  <2>2. CASE ~approve
    BY <1>1, <1>2, <1>3, <2>2
  <2> QED
    BY <2>1, <2>2
<1>6. new.rejections <= new.required_quorum \div 2 + 1
  <2>1. CASE approve
    BY <1>1, <1>2, <1>3, <2>1
  <2>2. CASE ~approve
    BY <1>1, <1>2, <1>3, <2>2
  <2> QED
    BY <2>1, <2>2
<1>7. new = Settle(RecordVote(rep, approve))
  BY DEF mid, new
<1> QED
  BY <1>1, <1>3, <1>4, <1>5, <1>6, <1>7

LEMMA InitInv == Init => IInv
<1> SUFFICES ASSUME Init PROVE IInv
  OBVIOUS
<1>1. DOMAIN reports = {} /\ DOMAIN agents = {} /\ authority.agent_count = 0
  BY DEF Init
<1> QED
  BY <1>1, InitType, FS_EmptySet
     DEF IInv, OutcomeFollowsCounters, VotesMatchCounters, QuorumOfElectorate

\* A step that leaves reports, ballots, electorates and the roll of agents alone
\* keeps the invariant.
LEMMA Untouched ==
    ASSUME IInv, TypeOK', UNCHANGED <<reports, votes, electorate>>,
           DOMAIN agents' = DOMAIN agents,
           authority'.agent_count = authority.agent_count
    PROVE  IInv'
<1>1. OutcomeFollowsCounters'
  BY DEF IInv, OutcomeFollowsCounters
<1>2. VotesMatchCounters'
  BY DEF IInv, VotesMatchCounters, Voters
<1>3. QuorumOfElectorate'
  BY DEF IInv, QuorumOfElectorate
<1> QED
  BY <1>1, <1>2, <1>3 DEF IInv

LEMMA AuthorizeStep ==
    ASSUME IInv, TypeOK', NEW w \in Wallets, NEW a \in Agents, AuthorizeAgent(w, a)
    PROVE  IInv'
<1>1. OutcomeFollowsCounters'
  BY DEF IInv, OutcomeFollowsCounters, AuthorizeAgent
<1>2. VotesMatchCounters'
  BY DEF IInv, VotesMatchCounters, Voters, AuthorizeAgent
<1>3. QuorumOfElectorate'
  <2>1. DOMAIN agents' = DOMAIN agents \cup {a} /\ a \notin DOMAIN agents
    BY DEF AuthorizeAgent, Alloc
  <2>2. DOMAIN agents \in SUBSET Agents
    BY DEF IInv, TypeOK
  <2>3. IsFiniteSet(DOMAIN agents)
    BY <2>2, NileAssumption, FS_Subset
  <2>4. Cardinality(DOMAIN agents') = Cardinality(DOMAIN agents) + 1
    BY <2>1, <2>3, FS_AddElement
  <2>5. authority'.agent_count = authority.agent_count + 1
    BY DEF AuthorizeAgent, IInv, TypeOK, Authority
  <2> QED
    BY <2>4, <2>5 DEF IInv, QuorumOfElectorate, AuthorizeAgent
<1> QED
  BY <1>1, <1>2, <1>3 DEF IInv

LEMMA ReportStep ==
    ASSUME IInv, TypeOK', NEW a \in Agents, NEW p \in Programs, SubmitReport(a, p)
    PROVE  IInv'
<1> DEFINE i == authority.total_reports
           n == authority.agent_count
<1>1. n = Cardinality(DOMAIN agents) /\ DOMAIN agents # {}
  BY DEF IInv, QuorumOfElectorate, SubmitReport
<1>2. n \in Nat /\ i \in ReportIds /\ i \notin DOMAIN reports
  BY DEF IInv, TypeOK, Authority, SubmitReport, ReportIds
<1>3. /\ DOMAIN reports' = DOMAIN reports \cup {i}
      /\ \A r \in DOMAIN reports : r # i /\ reports'[r] = reports[r]
      /\ reports'[i] = [program |-> p, submitter |-> a, confirmations |-> 1,
                        rejections |-> 0, required_quorum |-> RequiredQuorum(n),
                        finalized |-> Quorum(n) <= 1, accepted |-> Quorum(n) <= 1]
  BY <1>2 DEF SubmitReport, Alloc
<1>4. votes' = votes /\ DOMAIN agents' = DOMAIN agents
  BY DEF SubmitReport
<1>5. authority'.agent_count = authority.agent_count
  BY DEF SubmitReport, CountReport, IInv, TypeOK, Authority
<1>6. OutcomeFollowsCounters'
  <2>1. RequiredQuorum(n) \in 1 .. 255 /\ (Quorum(n) <= 1 <=> RequiredQuorum(n) = 1)
    BY <1>2, RequiredQuorumType, AutoFinalize
  <2>2. /\ reports'[i].confirmations = 1 /\ reports'[i].rejections = 0
        /\ reports'[i].required_quorum = RequiredQuorum(n)
        /\ reports'[i].accepted <=> Quorum(n) <= 1
        /\ reports'[i].finalized <=> Quorum(n) <= 1
    <3> DEFINE fin == Quorum(n) <= 1
    <3>1. /\ reports'[i].confirmations = 1 /\ reports'[i].rejections = 0
          /\ reports'[i].required_quorum = RequiredQuorum(n)
      BY <1>3
    <3>2. reports'[i].accepted = fin /\ reports'[i].finalized = fin
      <4> HIDE DEF fin
      <4>1. reports'[i] = [program |-> p, submitter |-> a, confirmations |-> 1,
                           rejections |-> 0, required_quorum |-> RequiredQuorum(n),
                           finalized |-> fin, accepted |-> fin]
        BY <1>3 DEF fin
      <4> QED
        BY <4>1
    <3> QED
      BY <3>1, <3>2
  <2> DEFINE Outcome(x) ==
        /\ x.accepted <=> x.confirmations >= x.required_quorum
        /\ x.finalized <=> \/ x.accepted
                           \/ x.rejections > x.required_quorum \div 2
        /\ x.confirmations <= x.required_quorum
        /\ x.rejections <= x.required_quorum \div 2 + 1
  <2>3. Outcome(reports'[i])
    BY <2>1, <2>2
  <2>4. \A r \in DOMAIN reports : Outcome(reports[r])
    BY DEF IInv, OutcomeFollowsCounters
  <2>5. \A r \in DOMAIN reports' : Outcome(reports'[r])
    <3> HIDE DEF Outcome
    <3> QED
      BY <1>3, <2>3, <2>4
  <2> QED
    BY <2>5 DEF OutcomeFollowsCounters
<1>7. VotesMatchCounters'
  <2>1. \A r, b : Voters(r, b)' = Voters(r, b)
    BY <1>4 DEF Voters
  <2>2. Voters(i, TRUE) = {} /\ Voters(i, FALSE) = {}
    BY <1>2, NoEarlyVotes DEF IInv
  <2> SUFFICES ASSUME NEW r \in DOMAIN reports'
               PROVE  /\ reports'[r].confirmations = 1 + Cardinality(Voters(r, TRUE))
                      /\ reports'[r].rejections = Cardinality(Voters(r, FALSE))
                      /\ Voters(r, TRUE) \cap Voters(r, FALSE) = {}
                      /\ reports'[r].submitter \notin Voters(r, TRUE) \cup Voters(r, FALSE)
    BY <2>1 DEF VotesMatchCounters
  <2>3. CASE r = i
    <3>1. reports'[i].confirmations = 1 /\ reports'[i].rejections = 0
      BY <1>3
    <3>2. Cardinality(Voters(r, TRUE)) = 0 /\ Cardinality(Voters(r, FALSE)) = 0
      BY <2>2, <2>3, FS_EmptySet
    <3>3. 1 + Cardinality(Voters(r, TRUE)) = 1
      <4> DEFINE yes == Cardinality(Voters(r, TRUE))
      <4> HIDE DEF yes
      <4>1. yes = 0
        BY <3>2 DEF yes
      <4>2. 1 + yes = 1
        BY <4>1
      <4> QED
        BY <4>2 DEF yes
    <3>4. /\ Voters(r, TRUE) \cap Voters(r, FALSE) = {}
          /\ reports'[r].submitter \notin Voters(r, TRUE) \cup Voters(r, FALSE)
      BY <2>2, <2>3
    <3> QED
      BY <2>3, <3>1, <3>2, <3>3, <3>4
  <2>4. CASE r \in DOMAIN reports
    <3>1. reports'[r] = reports[r]
      BY <1>3, <2>4
    <3> QED
      BY <2>4, <3>1 DEF IInv, VotesMatchCounters
  <2> QED
    BY <1>3, <2>3, <2>4
<1>8. QuorumOfElectorate'
  <2>1. /\ electorate' = [electorate EXCEPT ![i] = DOMAIN agents]
        /\ electorate \in [ReportIds -> SUBSET Agents]
    BY DEF SubmitReport, IInv, TypeOK
  <2>2. \A r \in DOMAIN reports : electorate'[r] = electorate[r]
    BY <1>2, <2>1 DEF IInv, TypeOK
  <2>3. electorate'[i] = DOMAIN agents
    BY <1>2, <2>1
  <2> QED
    BY <1>1, <1>3, <1>4, <1>5, <2>2, <2>3 DEF IInv, QuorumOfElectorate
<1> QED
  BY <1>6, <1>7, <1>8 DEF IInv

LEMMA VoteStep ==
    ASSUME IInv, TypeOK', NEW a \in Agents, NEW r \in DOMAIN reports,
           NEW approve \in BOOLEAN, VoteReport(a, r, approve)
    PROVE  IInv'
<1> DEFINE rep == reports[r]
           new == Settle(RecordVote(rep, approve))
<1>1. /\ reports' = [reports EXCEPT ![r] = new]
      /\ authority' = authority /\ electorate' = electorate
      /\ DOMAIN agents' = DOMAIN agents
      /\ ~rep.finalized /\ a # rep.submitter
  BY DEF VoteReport, MayVote
<1>2. /\ rep \in OracleReport /\ ~rep.accepted
      /\ rep.confirmations < rep.required_quorum
      /\ rep.rejections <= rep.required_quorum \div 2
  <2>1. rep \in OracleReport
    BY DEF IInv, TypeOK
  <2>2. /\ rep.confirmations \in Nat /\ rep.rejections \in Nat
        /\ rep.required_quorum \in 1 .. 255
    BY <2>1 DEF OracleReport
  <2>3. /\ rep.accepted <=> rep.confirmations >= rep.required_quorum
        /\ rep.finalized <=> rep.accepted \/ rep.rejections > rep.required_quorum \div 2
    BY DEF IInv, OutcomeFollowsCounters
  <2> QED
    BY <1>1, <2>1, <2>2, <2>3
<1>3. /\ new.submitter = rep.submitter
      /\ new.required_quorum = rep.required_quorum
      /\ new.confirmations = IF approve THEN rep.confirmations + 1 ELSE rep.confirmations
      /\ new.rejections = IF approve THEN rep.rejections ELSE rep.rejections + 1
      /\ new.accepted <=> new.confirmations >= new.required_quorum
      /\ new.finalized <=> \/ new.accepted
                           \/ new.rejections > new.required_quorum \div 2
      /\ new.confirmations <= new.required_quorum
      /\ new.rejections <= new.required_quorum \div 2 + 1
  BY <1>1, <1>2, SettleOutcome
<1> HIDE DEF new
<1>4. /\ DOMAIN reports' = DOMAIN reports
      /\ reports'[r] = new
      /\ \A x \in DOMAIN reports : x # r => reports'[x] = reports[x]
  BY <1>1
<1> HIDE DEF rep
<1>5. OutcomeFollowsCounters'
  BY <1>3, <1>4 DEF IInv, OutcomeFollowsCounters
<1>6. QuorumOfElectorate'
  BY <1>1, <1>3, <1>4 DEF IInv, QuorumOfElectorate, rep
<1>7. VotesMatchCounters'
  <2>1. /\ Voters(r, approve)' = Voters(r, approve) \cup {a}
        /\ a \notin Voters(r, TRUE) /\ a \notin Voters(r, FALSE)
        /\ \A x, b : (x # r \/ b # approve) => Voters(x, b)' = Voters(x, b)
    BY VotersStep DEF IInv
  <2>2. Cardinality(Voters(r, approve)') = Cardinality(Voters(r, approve)) + 1
    <3>1. a \notin Voters(r, approve)
      BY <2>1
    <3>2. IsFiniteSet(Voters(r, approve))
      BY VotersFinite
    <3>3. Cardinality(Voters(r, approve) \cup {a}) = Cardinality(Voters(r, approve)) + 1
      BY <3>1, <3>2, FS_AddElement
    <3> QED
      BY <2>1, <3>3
  <2>3. /\ rep.confirmations = 1 + Cardinality(Voters(r, TRUE))
        /\ rep.rejections = Cardinality(Voters(r, FALSE))
        /\ Voters(r, TRUE) \cap Voters(r, FALSE) = {}
        /\ rep.submitter \notin Voters(r, TRUE) \cup Voters(r, FALSE)
    BY DEF IInv, VotesMatchCounters, rep
  <2>4. /\ new.confirmations = 1 + Cardinality(Voters(r, TRUE)')
        /\ new.rejections = Cardinality(Voters(r, FALSE)')
        /\ Voters(r, TRUE)' \cap Voters(r, FALSE)' = {}
        /\ new.submitter \notin Voters(r, TRUE)' \cup Voters(r, FALSE)'
    <3>0. /\ Cardinality(Voters(r, TRUE)) \in Nat /\ Cardinality(Voters(r, FALSE)) \in Nat
          /\ a # rep.submitter
      BY <1>1, VotersFinite DEF rep
    <3>1. CASE approve = TRUE
      <4>1. Voters(r, FALSE)' = Voters(r, FALSE) /\ Voters(r, TRUE)' = Voters(r, TRUE) \cup {a}
        BY <2>1, <3>1
      <4>2. Cardinality(Voters(r, TRUE)') = Cardinality(Voters(r, TRUE)) + 1
        BY <2>2, <3>1
      <4>3. new.confirmations = rep.confirmations + 1 /\ new.rejections = rep.rejections
        BY <1>3, <3>1
      <4>4. new.confirmations = 1 + Cardinality(Voters(r, TRUE)')
        <5> DEFINE yes == Cardinality(Voters(r, TRUE))
                   yesNext == Cardinality(Voters(r, TRUE)')
        <5> HIDE DEF yes, yesNext
        <5>1. rep.confirmations = 1 + yes /\ yes \in Nat /\ yesNext = yes + 1
          BY <2>3, <3>0, <4>2 DEF yes, yesNext
        <5>2. new.confirmations = 1 + yesNext
          BY <4>3, <5>1
        <5> QED
          BY <5>2 DEF yesNext
      <4> QED
        BY <1>3, <2>1, <2>3, <3>0, <4>1, <4>3, <4>4
    <3>2. CASE approve = FALSE
      <4>1. Voters(r, TRUE)' = Voters(r, TRUE) /\ Voters(r, FALSE)' = Voters(r, FALSE) \cup {a}
        BY <2>1, <3>2
      <4>2. Cardinality(Voters(r, FALSE)') = Cardinality(Voters(r, FALSE)) + 1
        BY <2>2, <3>2
      <4>3. new.confirmations = rep.confirmations /\ new.rejections = rep.rejections + 1
        BY <1>3, <3>2
      <4>4. new.rejections = Cardinality(Voters(r, FALSE)')
        BY <2>3, <3>0, <4>2, <4>3
      <4> QED
        BY <1>3, <2>1, <2>3, <3>0, <4>1, <4>3, <4>4
    <3> QED
      BY <3>1, <3>2
  <2> QED
    <3> SUFFICES ASSUME NEW x \in DOMAIN reports'
                 PROVE  /\ reports'[x].confirmations = 1 + Cardinality(Voters(x, TRUE)')
                        /\ reports'[x].rejections = Cardinality(Voters(x, FALSE)')
                        /\ Voters(x, TRUE)' \cap Voters(x, FALSE)' = {}
                        /\ reports'[x].submitter \notin Voters(x, TRUE)' \cup Voters(x, FALSE)'
      BY DEF VotesMatchCounters
    <3>1. CASE x = r
      BY <1>4, <2>4, <3>1
    <3>2. CASE x # r
      <4>1. Voters(x, TRUE)' = Voters(x, TRUE) /\ Voters(x, FALSE)' = Voters(x, FALSE)
        BY <2>1, <3>2
      <4>2. x \in DOMAIN reports /\ reports'[x] = reports[x]
        BY <1>4, <3>2
      <4> QED
        BY <4>1, <4>2 DEF IInv, VotesMatchCounters
    <3> QED
      BY <3>1, <3>2
<1> QED
  BY <1>5, <1>6, <1>7 DEF IInv

LEMMA StepInv == IInv /\ [Next]_vars => IInv'
<1> SUFFICES ASSUME IInv, [Next]_vars PROVE IInv'
  OBVIOUS
<1>1. TypeOK'
  BY StepType DEF IInv
<1>2. ASSUME NEW w \in Wallets, Initialize(w) PROVE IInv'
  <2>1. DOMAIN agents = {} /\ DOMAIN agents' = {}
    BY <1>2 DEF Initialize, IInv, TypeOK
  <2>2. authority.agent_count = 0 /\ authority'.agent_count = 0
    BY <1>2, <2>1, FS_EmptySet DEF Initialize, IInv, QuorumOfElectorate
  <2> QED
    BY <1>1, <1>2, <2>1, <2>2, Untouched DEF Initialize
<1>3. ASSUME NEW p \in Programs, NEW len \in NameLens, RegisterProgram(p, len) PROVE IInv'
  BY <1>1, <1>3, Untouched DEF RegisterProgram
<1>4. ASSUME NEW a \in Agents, NEW p \in Programs, NEW uri \in UriLens,
             NEW n \in ScoreInputs, NEW i \in ScoreInputs, NEW l \in ScoreInputs,
             NEW e \in ScoreInputs, SubmitScore(a, p, n, i, l, e, uri)
      PROVE  IInv'
  <2>1. authority'.agent_count = authority.agent_count
    BY <1>4, AuthorityTypes DEF SubmitScore, IInv, TypeOK
  <2> QED
    BY <1>1, <1>4, <2>1, Untouched DEF SubmitScore
<1>5. CASE UNCHANGED vars
  BY <1>1, <1>5, Untouched DEF vars
<1> QED
  BY <1>1, <1>2, <1>3, <1>4, <1>5, AuthorizeStep, ReportStep, VoteStep DEF Next

\* Types, outcomes, ballots and quorums are consistent after every instruction.
THEOREM Invariance == Spec => []IInv
  BY InitInv, StepInv, PTL DEF Spec

\* A report's counters always agree with the VoteRecords of that report.
THEOREM VotesMatch == Spec => []VotesMatchCounters
<1>1. IInv => VotesMatchCounters
  BY DEF IInv
<1> QED
  BY <1>1, Invariance, PTL

\* submit_report and vote_report decide by the same rule, whatever agent_count
\* was truncated to.
THEOREM OutcomeFollows == Spec => []OutcomeFollowsCounters
<1>1. IInv => OutcomeFollowsCounters
  BY DEF IInv
<1> QED
  BY <1>1, Invariance, PTL

\* vote_report changes no report but the open one it is about, and no other
\* instruction changes a report that exists.
LEMMA FinalStep ==
    TypeOK /\ [Next]_vars =>
        [\A r \in DOMAIN reports : reports[r].finalized => reports'[r] = reports[r]]_vars
<1> SUFFICES ASSUME TypeOK, Next, NEW r \in DOMAIN reports, reports[r].finalized
             PROVE  reports'[r] = reports[r]
  BY DEF vars
<1>1. ASSUME NEW a \in Agents, NEW p \in Programs, SubmitReport(a, p)
      PROVE  reports'[r] = reports[r]
  BY <1>1 DEF SubmitReport, Alloc
<1>2. ASSUME NEW a \in Agents, NEW x \in DOMAIN reports, NEW approve \in BOOLEAN,
             VoteReport(a, x, approve)
      PROVE  reports'[r] = reports[r]
  <2>1. x # r
    BY <1>2 DEF VoteReport, MayVote
  <2> QED
    BY <1>2, <2>1 DEF VoteReport, TypeOK
<1>3. ASSUME NEW w \in Wallets, Initialize(w) PROVE reports'[r] = reports[r]
  BY <1>3 DEF Initialize
<1>4. ASSUME NEW w \in Wallets, NEW a \in Agents, AuthorizeAgent(w, a)
      PROVE  reports'[r] = reports[r]
  BY <1>4 DEF AuthorizeAgent
<1>5. ASSUME NEW p \in Programs, NEW len \in NameLens, RegisterProgram(p, len)
      PROVE  reports'[r] = reports[r]
  BY <1>5 DEF RegisterProgram
<1>6. ASSUME NEW a \in Agents, NEW p \in Programs, NEW uri \in UriLens,
             NEW n \in ScoreInputs, NEW i \in ScoreInputs, NEW l \in ScoreInputs,
             NEW e \in ScoreInputs, SubmitScore(a, p, n, i, l, e, uri)
      PROVE  reports'[r] = reports[r]
  BY <1>6 DEF SubmitScore
<1> QED
  BY <1>1, <1>2, <1>3, <1>4, <1>5, <1>6 DEF Next

\* Once decided, a report is never touched again.
THEOREM Finality == Spec => DecisionIsFinal
  BY FinalStep, TypeCorrect, PTL DEF Spec, DecisionIsFinal

-----------------------------------------------------------------------------
(***************************************************************************)
(* What the quorum means.  The cast to u8 keeps the promise of two thirds  *)
(* only while two thirds of the agents fit a u8: below 383 agents.         *)
(***************************************************************************)
QuorumFits == Cardinality(Agents) < 383

\* Below 383 agents the stored quorum is two thirds of them, rounded up.
LEMMA QuorumIsTwoThirds ==
    ASSUME NEW n \in 1 .. 382
    PROVE  /\ RequiredQuorum(n) \in 1 .. 255
           /\ 3 * RequiredQuorum(n) >= 2 * n
           /\ 3 * RequiredQuorum(n) <= 2 * n + 2
<1> DEFINE q == (n * 2 + 2) \div 3
<1>1. q \in Nat /\ 3 * q <= 2 * n + 2 /\ 2 * n + 2 < 3 * q + 3
  OBVIOUS
<1>2. q \in 1 .. 255
  BY <1>1
<1>3. RequiredQuorum(n) = q
  <2>1. q % 256 = q
    BY <1>2
  <2> QED
    BY <1>2, <2>1 DEF RequiredQuorum, Quorum
<1> QED
  BY <1>1, <1>2, <1>3

\* The electorate of a report is a finite set of agents.
LEMMA ElectorateFinite ==
    ASSUME IInv, NEW r \in DOMAIN reports
    PROVE  /\ electorate[r] \subseteq Agents
           /\ IsFiniteSet(electorate[r])
           /\ Cardinality(electorate[r]) \in Nat
<1>1. r \in ReportIds
  <2>1. authority.total_reports <= MaxReports /\ authority.total_reports \in Nat
    BY DEF IInv, TypeOK, Authority
  <2> QED
    BY <2>1, NileAssumption DEF ReportIds, IInv, TypeOK
<1>2. electorate[r] \in SUBSET Agents
  BY <1>1 DEF IInv, TypeOK
<1> QED
  BY <1>2, NileAssumption, FS_Subset, FS_CardinalityType

\* A finite set is counted by counting what of it lies inside and outside another.
LEMMA SplitCount ==
    ASSUME NEW S, NEW E, IsFiniteSet(S)
    PROVE  /\ Cardinality(S \cap E) \in Nat /\ Cardinality(S \ E) \in Nat
           /\ Cardinality(S) = Cardinality(S \cap E) + Cardinality(S \ E)
<1>1. IsFiniteSet(S \cap E) /\ IsFiniteSet(S \ E)
  BY FS_Subset
<1>2. /\ S = (S \cap E) \cup (S \ E)
      /\ (S \cap E) \cap (S \ E) = {}
  OBVIOUS
<1>3. Cardinality(S) = Cardinality(S \cap E) + Cardinality(S \ E)
                         - Cardinality((S \cap E) \cap (S \ E))
  BY <1>1, <1>2, FS_Union
<1>4. Cardinality((S \cap E) \cap (S \ E)) = 0
  BY <1>2, FS_EmptySet
<1>5. Cardinality(S \cap E) \in Nat /\ Cardinality(S \ E) \in Nat
  BY <1>1, FS_CardinalityType
<1> QED
  BY <1>3, <1>4, <1>5

\* The counts of a report below 383 agents, in plain arithmetic.
LEMMA CountsOfReport ==
    ASSUME IInv, QuorumFits, NEW r \in DOMAIN reports
    PROVE  LET q   == reports[r].required_quorum
               n   == Cardinality(electorate[r])
               yes == Cardinality(Voters(r, TRUE))
               no  == Cardinality(Voters(r, FALSE))
           IN  /\ q \in 1 .. 255 /\ n \in Nat /\ yes \in Nat /\ no \in Nat
               /\ 3 * q >= 2 * n /\ 3 * q <= 2 * n + 2
               /\ reports[r].accepted <=> 1 + yes >= q
               /\ reports[r].finalized <=> reports[r].accepted \/ no > q \div 2
<1> DEFINE q   == reports[r].required_quorum
           n   == Cardinality(electorate[r])
           yes == Cardinality(Voters(r, TRUE))
           no  == Cardinality(Voters(r, FALSE))
<1>1. n \in 1 .. 382 /\ q = RequiredQuorum(n)
  <2>1. electorate[r] # {} /\ q = RequiredQuorum(n)
    BY DEF IInv, QuorumOfElectorate
  <2>2. /\ IsFiniteSet(electorate[r])
        /\ n \in Nat /\ Cardinality(Agents) \in Nat
        /\ n <= Cardinality(Agents)
    BY ElectorateFinite, NileAssumption, FS_Subset, FS_CardinalityType
  <2>3. n # 0
    BY <2>1, <2>2, FS_EmptySet
  <2> QED
    BY <2>1, <2>2, <2>3 DEF QuorumFits
<1>2. q \in 1 .. 255 /\ 3 * q >= 2 * n /\ 3 * q <= 2 * n + 2
  <2> HIDE DEF n, q
  <2>1. /\ RequiredQuorum(n) \in 1 .. 255
        /\ 3 * RequiredQuorum(n) >= 2 * n
        /\ 3 * RequiredQuorum(n) <= 2 * n + 2
    BY <1>1, QuorumIsTwoThirds
  <2> QED
    BY <1>1, <2>1
<1>3. yes \in Nat /\ no \in Nat
  BY VotersFinite
<1>4. reports[r].confirmations = 1 + yes /\ reports[r].rejections = no
  BY DEF IInv, VotesMatchCounters
<1>5. /\ reports[r].accepted <=> reports[r].confirmations >= q
      /\ reports[r].finalized <=> reports[r].accepted \/ reports[r].rejections > q \div 2
  BY DEF IInv, OutcomeFollowsCounters
<1> HIDE DEF q, n, yes, no
<1>6. /\ reports[r].accepted <=> 1 + yes >= q
      /\ reports[r].finalized <=> reports[r].accepted \/ no > q \div 2
  BY <1>4, <1>5
<1>7. n \in Nat
  BY <1>1
<1> QED
  BY <1>2, <1>3, <1>6, <1>7 DEF q, n, yes, no

\* Below 383 agents, an accepted report has the support of two thirds of those
\* authorized when it was submitted, or falls short of them by no more than the
\* agents authorized since that said yes.
THEOREM Supermajority ==
    ASSUME QuorumFits
    PROVE  Spec => []AcceptedBySupermajority
<1>1. IInv => AcceptedBySupermajority
  <2> SUFFICES ASSUME IInv, NEW r \in DOMAIN reports, reports[r].accepted
               PROVE  3 * Cardinality(Supporters(r) \cap electorate[r]) >=
                         2 * Cardinality(electorate[r])
                         - 3 * Cardinality(Supporters(r) \ electorate[r])
    BY DEF AcceptedBySupermajority
  <2> DEFINE yes == Cardinality(Voters(r, TRUE))
             q == reports[r].required_quorum
             n == Cardinality(electorate[r])
             inside == Cardinality(Supporters(r) \cap electorate[r])
             since == Cardinality(Supporters(r) \ electorate[r])
  <2>1. /\ q \in 1 .. 255 /\ n \in Nat /\ yes \in Nat
        /\ 3 * q >= 2 * n /\ 1 + yes >= q
    BY QuorumFits, CountsOfReport
  <2>2. /\ IsFiniteSet(Supporters(r))
        /\ Cardinality(Supporters(r)) = yes + 1
    <3>1. Supporters(r) = Voters(r, TRUE) \cup {reports[r].submitter}
      BY DEF Supporters
    <3>2. reports[r].submitter \notin Voters(r, TRUE)
      BY DEF IInv, VotesMatchCounters
    <3>3. IsFiniteSet(Voters(r, TRUE))
      BY VotersFinite
    <3>4. /\ IsFiniteSet(Voters(r, TRUE) \cup {reports[r].submitter})
          /\ Cardinality(Voters(r, TRUE) \cup {reports[r].submitter}) = yes + 1
      BY <3>2, <3>3, FS_AddElement
    <3> QED
      BY <3>1, <3>4
  <2>3. inside \in Nat /\ since \in Nat /\ yes + 1 = inside + since
    BY <2>2, SplitCount
  <2> HIDE DEF yes, q, n, inside, since
  <2>4. 3 * inside >= 2 * n - 3 * since
    BY <2>1, <2>3
  <2> QED
    BY <2>4 DEF n, inside, since
<1> QED
  BY <1>1, Invariance, PTL

\* Below 383 agents, a report is rejected only when those authorized at its
\* submission could not have accepted it any more, each no of an agent authorized
\* since standing for one elector at most.
THEOREM Hopeless ==
    ASSUME QuorumFits
    PROVE  Spec => []RejectedOnlyWhenHopeless
<1>1. IInv => RejectedOnlyWhenHopeless
  <2> SUFFICES ASSUME IInv, NEW r \in DOMAIN reports, reports[r].finalized,
                      ~reports[r].accepted
               PROVE  3 * Cardinality(electorate[r] \ Voters(r, FALSE)) <
                         2 * Cardinality(electorate[r])
                         + 3 * Cardinality(Voters(r, FALSE) \ electorate[r])
    BY DEF RejectedOnlyWhenHopeless
  <2> DEFINE no == Cardinality(Voters(r, FALSE))
             q == reports[r].required_quorum
             n == Cardinality(electorate[r])
             left == Cardinality(electorate[r] \ Voters(r, FALSE))
             against == Cardinality(electorate[r] \cap Voters(r, FALSE))
             since == Cardinality(Voters(r, FALSE) \ electorate[r])
  <2>1. /\ q \in 1 .. 255 /\ n \in Nat /\ no \in Nat
        /\ 3 * q >= 2 * n /\ 3 * q <= 2 * n + 2 /\ no > q \div 2
    BY QuorumFits, CountsOfReport
  <2>2. left \in Nat /\ against \in Nat /\ n = against + left
    BY ElectorateFinite, SplitCount
  <2>3. since \in Nat /\ no = against + since
    <3>1. electorate[r] \cap Voters(r, FALSE) = Voters(r, FALSE) \cap electorate[r]
      OBVIOUS
    <3> QED
      BY <3>1, VotersFinite, SplitCount
  <2> HIDE DEF no, q, n, left, against, since
  <2>4. 2 * no >= q + 1
    BY <2>1
  <2>5. 3 * left < 2 * n + 3 * since
    BY <2>1, <2>2, <2>3, <2>4
  <2> QED
    BY <2>5 DEF n, left, since
<1> QED
  BY <1>1, Invariance, PTL

\* Below 383 agents, as many ballots as there were agents at submission decide the
\* report, unless they number 2, 5, 8, ...: there a split vote leaves it open.
THEOREM Decided ==
    ASSUME QuorumFits
    PROVE  Spec => []EveryoneVotedDecides
<1>1. IInv => EveryoneVotedDecides
  <2> SUFFICES ASSUME IInv, NEW r \in DOMAIN reports, ~reports[r].finalized,
                      Cardinality(electorate[r]) % 3 # 2
               PROVE  1 + Cardinality(Voters(r, TRUE) \cup Voters(r, FALSE))
                         < Cardinality(electorate[r])
    BY DEF EveryoneVotedDecides
  <2> DEFINE yes == Cardinality(Voters(r, TRUE))
             no == Cardinality(Voters(r, FALSE))
             q == reports[r].required_quorum
             n == Cardinality(electorate[r])
             both == Cardinality(Voters(r, TRUE) \cup Voters(r, FALSE))
  <2>1. /\ q \in 1 .. 255 /\ n \in Nat /\ yes \in Nat /\ no \in Nat
        /\ 3 * q >= 2 * n /\ 3 * q <= 2 * n + 2
        /\ ~(1 + yes >= q) /\ ~(no > q \div 2)
    BY QuorumFits, CountsOfReport
  <2>2. both = yes + no
    <3>1. /\ IsFiniteSet(Voters(r, TRUE)) /\ IsFiniteSet(Voters(r, FALSE))
          /\ Voters(r, TRUE) \cap Voters(r, FALSE) = {}
      BY VotersFinite DEF IInv, VotesMatchCounters
    <3>2. both = yes + no - Cardinality(Voters(r, TRUE) \cap Voters(r, FALSE))
      BY <3>1, FS_Union
    <3>3. Cardinality(Voters(r, TRUE) \cap Voters(r, FALSE)) = 0
      BY <3>1, FS_EmptySet
    <3> HIDE DEF both, yes, no
    <3> QED
      BY <2>1, <3>2, <3>3
  <2>3. n % 3 # 2
    OBVIOUS
  <2> HIDE DEF yes, no, q, n, both
  <2>4. 2 * no <= q /\ yes + 2 <= q
    BY <2>1
  <2>5. 1 + both < n
    BY <2>1, <2>2, <2>3, <2>4
  <2> QED
    BY <2>5 DEF both, n
<1> QED
  BY <1>1, Invariance, PTL

-----------------------------------------------------------------------------
(***************************************************************************)
(* Sums of counters: their units are counted one by one.                   *)
(***************************************************************************)
\* Counters that are not negative have no units to subtract, and finitely many to add.
LEMMA CountersAdded ==
    ASSUME NEW S, IsFiniteSet(S), NEW f \in [S -> Nat]
    PROVE  /\ IsFiniteSet(Units(f)) /\ Total(f) = Cardinality(Units(f)) /\ Total(f) \in Nat
<1> DEFINE unitsOf == [x \in S |-> {x} \X (1 .. f[x])]
           blocks == {{x} \X (1 .. f[x]) : x \in DOMAIN f}
<1>1. unitsOf \in Surjection(S, blocks)
  BY DEF Surjection
<1>2. IsFiniteSet(blocks)
  BY <1>1, FS_Surjection
<1>3. ASSUME NEW B \in blocks PROVE IsFiniteSet(B)
  <2>1. PICK x \in S : B = {x} \X (1 .. f[x])
    OBVIOUS
  <2>2. f[x] \in Int
    OBVIOUS
  <2>3. IsFiniteSet(1 .. f[x])
    BY <2>2, FS_Interval
  <2>4. IsFiniteSet({x})
    BY FS_Singleton
  <2> QED
    BY <2>1, <2>3, <2>4, FS_Product
<1>4. IsFiniteSet(Units(f))
  BY <1>2, <1>3, FS_UNION DEF Units
<1>5. Units(Negated(f)) = {}
  BY DEF Units, Negated
<1>6. Cardinality(Units(f)) \in Nat /\ Cardinality(Units(Negated(f))) = 0
  BY <1>4, <1>5, FS_CardinalityType, FS_EmptySet
<1> QED
  BY <1>4, <1>6 DEF Total

LEMMA NothingAdded ==
    ASSUME NEW f, DOMAIN f = {}
    PROVE  Total(f) = 0
<1>1. Units(f) = {} /\ Units(Negated(f)) = {}
  BY DEF Units, Negated
<1> QED
  BY <1>1, FS_EmptySet DEF Total

\* A counter that starts at zero adds nothing.
LEMMA CounterOpened ==
    ASSUME NEW S, IsFiniteSet(S), NEW x, NEW f \in [S -> Nat], NEW g \in [S \cup {x} -> Nat],
           g[x] = 0, \A y \in S : g[y] = f[y]
    PROVE  Total(g) = Total(f)
<1>1. IsFiniteSet(S \cup {x})
  BY FS_AddElement
<1>2. Units(g) = Units(f)
  BY DEF Units
<1> QED
  BY <1>1, <1>2, CountersAdded

\* One that is counted up adds one.
LEMMA CounterMoved ==
    ASSUME NEW S, IsFiniteSet(S), NEW x \in S, NEW f \in [S -> Nat], NEW g \in [S -> Nat],
           g[x] \in {f[x], f[x] + 1}, \A y \in S : y # x => f[y] = g[y]
    PROVE  Total(g) = Total(f) - f[x] + g[x] /\ Total(f) \in Int
<1>1. Total(f) \in Nat /\ f[x] \in Nat
  BY CountersAdded
<1>2. CASE g[x] = f[x]
  <2>1. f = g
    BY <1>2
  <2> QED
    BY <1>1, <2>1
<1>3. CASE g[x] = f[x] + 1
  <2> PICK n \in Nat : n = f[x]
    BY <1>1
  <2>1. 1 .. (n + 1) = (1 .. n) \cup {n + 1} /\ n + 1 \notin 1 .. n
    OBVIOUS
  <2>2. Units(g) = Units(f) \cup {<<x, n + 1>>}
    BY <1>3, <2>1 DEF Units
  <2>3. <<x, n + 1>> \notin Units(f)
    BY <2>1 DEF Units
  <2>4. IsFiniteSet(Units(f)) /\ Total(f) = Cardinality(Units(f))
        /\ Total(g) = Cardinality(Units(g))
    BY CountersAdded
  <2>5. Cardinality(Units(f) \cup {<<x, n + 1>>}) = Cardinality(Units(f)) + 1
    BY <2>3, <2>4, FS_AddElement
  <2>6. Total(g) = Total(f) + 1
    BY <2>2, <2>4, <2>5
  <2> QED
    BY <1>1, <1>3, <2>6
<1> QED
  BY <1>2, <1>3

-----------------------------------------------------------------------------
(***************************************************************************)
(* The accounts' books.  Points, reports and ballots of an agent are kept  *)
(* in its profile, the reports and VoteRecords in accounts of their own,   *)
(* and the totals in the authority; only agents with a profile have any.   *)
(***************************************************************************)
ReportsOf(a) == {r \in DOMAIN reports : reports[r].submitter = a}
VotesOf(a) == {v \in votes : v.agent = a}

KnownAgents ==
    /\ \A r \in DOMAIN reports : reports[r].submitter \in DOMAIN agents
    /\ \A v \in votes : v.agent \in DOMAIN agents
    /\ IsFiniteSet(votes)
    /\ IsFiniteSet(DOMAIN programs)

BInv == TypeOK /\ KnownAgents /\ PointsMatchWork /\ TotalsAgree

\* The columns that are summed.
ScoresBy == [a \in DOMAIN agents |-> agents[a].total_scores]
ReportsBy == [a \in DOMAIN agents |-> agents[a].total_reports]
ScoresOn == [p \in DOMAIN programs |-> programs[p].score_count]

LEMMA ColumnTypes ==
    ASSUME TypeOK
    PROVE  /\ IsFiniteSet(DOMAIN agents) /\ Cardinality(DOMAIN agents) \in Nat
           /\ ScoresBy \in [DOMAIN agents -> Nat]
           /\ ReportsBy \in [DOMAIN agents -> Nat]
           /\ ScoresOn \in [DOMAIN programs -> Nat]
<1>1. DOMAIN agents \in SUBSET Agents
  BY DEF TypeOK
<1>2. IsFiniteSet(DOMAIN agents) /\ Cardinality(DOMAIN agents) \in Nat
  BY <1>1, NileAssumption, FS_Subset, FS_CardinalityType
<1>3. \A a \in DOMAIN agents : agents[a].total_scores \in Nat /\ agents[a].total_reports \in Nat
  BY DEF TypeOK, AgentProfile
<1>4. \A p \in DOMAIN programs : programs[p].score_count \in Nat
  BY DEF TypeOK, ProgramProfile
<1> QED
  BY <1>2, <1>3, <1>4 DEF ScoresBy, ReportsBy, ScoresOn

\* What an agent has to its name is finite.
LEMMA WorkFinite ==
    ASSUME TypeOK, KnownAgents, NEW a
    PROVE  /\ IsFiniteSet(ReportsOf(a)) /\ Cardinality(ReportsOf(a)) \in Nat
           /\ IsFiniteSet(VotesOf(a)) /\ Cardinality(VotesOf(a)) \in Nat
<1>1. authority.total_reports \in Nat
  BY DEF TypeOK, Authority
<1>2. IsFiniteSet(0 .. authority.total_reports - 1)
  BY <1>1, FS_Interval
<1>3. ReportsOf(a) \in SUBSET (0 .. authority.total_reports - 1)
  BY DEF ReportsOf, TypeOK
<1>4. VotesOf(a) \in SUBSET votes /\ IsFiniteSet(votes)
  BY DEF VotesOf, KnownAgents
<1> QED
  BY <1>2, <1>3, <1>4, FS_Subset, FS_CardinalityType

\* The fields each credit changes.
LEMMA Credits ==
    ASSUME NEW p \in AgentProfile
    PROVE  /\ CreditScore(p).points = p.points + 10
           /\ CreditScore(p).total_scores = p.total_scores + 1
           /\ CreditScore(p).total_reports = p.total_reports
           /\ CreditScore(p).total_votes = p.total_votes
           /\ CreditReport(p).points = p.points + 5
           /\ CreditReport(p).total_scores = p.total_scores
           /\ CreditReport(p).total_reports = p.total_reports + 1
           /\ CreditReport(p).total_votes = p.total_votes
           /\ CreditVote(p).points = p.points + 2
           /\ CreditVote(p).total_scores = p.total_scores
           /\ CreditVote(p).total_reports = p.total_reports
           /\ CreditVote(p).total_votes = p.total_votes + 1
  BY DEF CreditScore, CreditReport, CreditVote, AgentProfile

\* The counters each count changes.
LEMMA Counts ==
    ASSUME NEW au \in Authority
    PROVE  /\ CountScore(au).agent_count = au.agent_count
           /\ CountScore(au).total_scores_submitted = au.total_scores_submitted + 1
           /\ CountScore(au).total_reports = au.total_reports
           /\ CountReport(au).agent_count = au.agent_count
           /\ CountReport(au).total_scores_submitted = au.total_scores_submitted
           /\ CountReport(au).total_reports = au.total_reports + 1
  BY DEF CountScore, CountReport, Authority

LEMMA InitBooks == Init => BInv
<1> SUFFICES ASSUME Init PROVE BInv
  OBVIOUS
<1>1. DOMAIN agents = {} /\ DOMAIN programs = {} /\ DOMAIN reports = {} /\ votes = {}
  BY DEF Init
<1>2. Total(ScoresBy) = 0 /\ Total(ReportsBy) = 0 /\ Total(ScoresOn) = 0
  BY <1>1, NothingAdded DEF ScoresBy, ReportsBy, ScoresOn
<1>3. TotalsAgree
  BY <1>1, <1>2, FS_EmptySet DEF TotalsAgree, Init, ScoresBy, ReportsBy, ScoresOn
<1> QED
  BY <1>1, <1>3, InitType, FS_EmptySet DEF BInv, KnownAgents, PointsMatchWork

\* Steps after which an agent's profile, and what it has to its name, are as before.
LEMMA SameWork ==
    ASSUME PointsMatchWork, NEW a \in DOMAIN agents, agents'[a] = agents[a],
           ReportsOf(a)' = ReportsOf(a), VotesOf(a)' = VotesOf(a)
    PROVE  /\ agents'[a].points = 10 * agents'[a].total_scores
                                  + 5 * agents'[a].total_reports + 2 * agents'[a].total_votes
           /\ agents'[a].total_reports = Cardinality(ReportsOf(a)')
           /\ agents'[a].total_votes = Cardinality(VotesOf(a)')
  BY DEF PointsMatchWork, ReportsOf, VotesOf

LEMMA InitializeBooks ==
    ASSUME BInv, TypeOK', NEW w \in Wallets, Initialize(w)
    PROVE  BInv'
<1>1. /\ UNCHANGED <<agents, programs, reports, votes>> /\ DOMAIN agents = {}
      /\ authority' = [admin |-> w, agent_count |-> 0, total_scores_submitted |-> 0,
                       total_reports |-> 0]
  BY DEF Initialize, BInv, TypeOK
<1>2. /\ Total(ScoresBy) = 0 /\ Total(ReportsBy) = 0
      /\ Total(ScoresOn) = Total(ScoresBy)
  BY <1>1, NothingAdded DEF BInv, TotalsAgree, ScoresBy, ReportsBy, ScoresOn
<1>3. TotalsAgree'
  BY <1>1, <1>2, FS_EmptySet DEF TotalsAgree, ScoresBy, ReportsBy, ScoresOn
<1>4. PointsMatchWork' /\ KnownAgents'
  BY <1>1 DEF BInv, PointsMatchWork, KnownAgents
<1> QED
  BY <1>3, <1>4 DEF BInv

LEMMA AuthorizeBooks ==
    ASSUME BInv, TypeOK', NEW w \in Wallets, NEW a \in Agents, AuthorizeAgent(w, a)
    PROVE  BInv'
<1> DEFINE D == DOMAIN agents
<1>1. /\ a \notin D /\ DOMAIN agents' = D \cup {a}
      /\ agents'[a] = [is_active |-> TRUE, total_scores |-> 0, total_reports |-> 0,
                       total_votes |-> 0, points |-> 0]
      /\ \A x \in D : agents'[x] = agents[x]
      /\ UNCHANGED <<programs, reports, votes>>
  BY DEF AuthorizeAgent, Alloc
<1>2. /\ authority'.agent_count = authority.agent_count + 1
      /\ authority'.total_scores_submitted = authority.total_scores_submitted
      /\ authority'.total_reports = authority.total_reports
  BY DEF AuthorizeAgent, BInv, TypeOK, Authority
<1>3. KnownAgents'
  BY <1>1 DEF BInv, KnownAgents
<1>4. PointsMatchWork'
  <2>1. \A x : ReportsOf(x)' = ReportsOf(x) /\ VotesOf(x)' = VotesOf(x)
    BY <1>1 DEF ReportsOf, VotesOf
  <2>2. ReportsOf(a) = {} /\ VotesOf(a) = {}
    BY <1>1 DEF BInv, KnownAgents, ReportsOf, VotesOf
  <2> SUFFICES ASSUME NEW x \in DOMAIN agents'
               PROVE  /\ agents'[x].points = 10 * agents'[x].total_scores
                            + 5 * agents'[x].total_reports + 2 * agents'[x].total_votes
                      /\ agents'[x].total_reports = Cardinality(ReportsOf(x)')
                      /\ agents'[x].total_votes = Cardinality(VotesOf(x)')
    BY DEF PointsMatchWork, ReportsOf, VotesOf
  <2>3. CASE x = a
    BY <1>1, <2>1, <2>2, <2>3, FS_EmptySet
  <2>4. CASE x # a
    BY <1>1, <2>1, <2>4, SameWork DEF BInv
  <2> QED
    BY <2>3, <2>4
<1>5. TotalsAgree'
  <2>1. /\ IsFiniteSet(D) /\ Cardinality(D) \in Nat
        /\ ScoresBy \in [D -> Nat] /\ ReportsBy \in [D -> Nat]
    BY ColumnTypes DEF BInv
  <2>2. /\ ScoresBy' \in [D \cup {a} -> Nat] /\ ReportsBy' \in [D \cup {a} -> Nat]
        /\ ScoresBy'[a] = 0 /\ ReportsBy'[a] = 0
        /\ \A x \in D : ScoresBy'[x] = ScoresBy[x] /\ ReportsBy'[x] = ReportsBy[x]
    <3>1. \A x \in D : agents'[x].total_scores \in Nat /\ agents'[x].total_reports \in Nat
      BY <1>1 DEF BInv, TypeOK, AgentProfile
    <3> QED
      BY <1>1, <3>1 DEF ScoresBy, ReportsBy
  <2> HIDE DEF D
  <2>3. Total(ScoresBy') = Total(ScoresBy) /\ Total(ReportsBy') = Total(ReportsBy)
    BY <2>1, <2>2, CounterOpened
  <2>5. Cardinality(DOMAIN agents') = Cardinality(D) + 1
    BY <1>1, <2>1, FS_AddElement
  <2>6. /\ Total(ScoresBy') = Total(ScoresBy) /\ Total(ReportsBy') = Total(ReportsBy)
        /\ ScoresOn' = ScoresOn
    BY <1>1, <2>3 DEF ScoresOn
  <2>7. /\ authority.agent_count = Cardinality(D)
        /\ authority.total_scores_submitted = Total(ScoresBy)
        /\ authority.total_scores_submitted = Total(ScoresOn)
        /\ authority.total_reports = Total(ReportsBy)
    BY DEF BInv, TotalsAgree, ScoresBy, ScoresOn, ReportsBy, D
  <2>8. /\ authority'.agent_count = Cardinality(DOMAIN agents')
        /\ authority'.total_scores_submitted = Total(ScoresBy')
        /\ authority'.total_scores_submitted = Total(ScoresOn')
        /\ authority'.total_reports = Total(ReportsBy')
    BY <1>2, <2>5, <2>6, <2>7
  <2> QED
    BY <2>8 DEF TotalsAgree, ScoresBy, ScoresOn, ReportsBy
<1> QED
  BY <1>3, <1>4, <1>5 DEF BInv

LEMMA RegisterBooks ==
    ASSUME BInv, TypeOK', NEW p \in Programs, NEW len \in NameLens, RegisterProgram(p, len)
    PROVE  BInv'
<1> DEFINE D == DOMAIN programs
<1>1. /\ p \notin D /\ DOMAIN programs' = D \cup {p}
      /\ programs'[p].score_count = 0
      /\ \A x \in D : programs'[x] = programs[x]
      /\ UNCHANGED <<authority, agents, reports, votes>>
  BY DEF RegisterProgram, Alloc
<1>2. KnownAgents'
  BY <1>1, FS_AddElement DEF BInv, KnownAgents
<1>3. PointsMatchWork'
  BY <1>1 DEF BInv, PointsMatchWork
<1>4. TotalsAgree'
  <2>1. IsFiniteSet(D) /\ ScoresOn \in [D -> Nat]
    BY ColumnTypes DEF BInv, KnownAgents
  <2>2. /\ ScoresOn' \in [D \cup {p} -> Nat] /\ ScoresOn'[p] = 0
        /\ \A x \in D : ScoresOn'[x] = ScoresOn[x]
    BY <1>1, <2>1 DEF ScoresOn
  <2> HIDE DEF D
  <2>4. Total(ScoresOn') = Total(ScoresOn)
    BY <2>1, <2>2, CounterOpened
  <2> QED
    BY <1>1, <2>4 DEF BInv, TotalsAgree, ScoresOn
<1> QED
  BY <1>2, <1>3, <1>4 DEF BInv

\* One agent's profile changes: the sums of its columns follow.
LEMMA CreditedColumns ==
    ASSUME TypeOK, TypeOK', NEW a \in DOMAIN agents, NEW new,
           agents' = [agents EXCEPT ![a] = new],
           new.total_scores \in {agents[a].total_scores, agents[a].total_scores + 1},
           new.total_reports \in {agents[a].total_reports, agents[a].total_reports + 1}
    PROVE  /\ Total(ScoresBy') = Total(ScoresBy) - agents[a].total_scores + new.total_scores
           /\ Total(ReportsBy') = Total(ReportsBy) - agents[a].total_reports + new.total_reports
           /\ Total(ScoresBy) \in Int /\ Total(ReportsBy) \in Int
<1> DEFINE D == DOMAIN agents
<1>1. DOMAIN agents' = D /\ agents'[a] = new /\ \A x \in D : x # a => agents'[x] = agents[x]
  BY DEF TypeOK
<1>2. /\ IsFiniteSet(D) /\ ScoresBy \in [D -> Nat] /\ ReportsBy \in [D -> Nat]
  BY ColumnTypes
<1>3. ScoresBy' \in [D -> Nat] /\ ReportsBy' \in [D -> Nat]
  <2>1. \A x \in D : agents'[x].total_scores \in Nat /\ agents'[x].total_reports \in Nat
    BY <1>1 DEF TypeOK, AgentProfile
  <2> QED
    BY <1>1, <2>1 DEF ScoresBy, ReportsBy
<1>4. /\ \A x \in D : x # a => ScoresBy[x] = ScoresBy'[x] /\ ReportsBy[x] = ReportsBy'[x]
      /\ ScoresBy[a] = agents[a].total_scores /\ ScoresBy'[a] = new.total_scores
      /\ ReportsBy[a] = agents[a].total_reports /\ ReportsBy'[a] = new.total_reports
  BY <1>1 DEF ScoresBy, ReportsBy
<1>5. a \in D
  OBVIOUS
<1> HIDE DEF D
<1>6. Total(ScoresBy') = Total(ScoresBy) - ScoresBy[a] + ScoresBy'[a] /\ Total(ScoresBy) \in Int
  BY <1>2, <1>3, <1>4, <1>5, CounterMoved
<1>7. /\ Total(ReportsBy') = Total(ReportsBy) - ReportsBy[a] + ReportsBy'[a]
      /\ Total(ReportsBy) \in Int
  BY <1>2, <1>3, <1>4, <1>5, CounterMoved
<1> QED
  BY <1>4, <1>6, <1>7

LEMMA ScoreBooks ==
    ASSUME BInv, TypeOK', NEW a \in Agents, NEW p \in Programs, NEW uri \in UriLens,
           NEW n \in ScoreInputs, NEW i \in ScoreInputs, NEW l \in ScoreInputs,
           NEW e \in ScoreInputs, SubmitScore(a, p, n, i, l, e, uri)
    PROVE  BInv'
<1> DEFINE D == DOMAIN programs
<1>1. /\ a \in DOMAIN agents /\ agents[a] \in AgentProfile
      /\ agents' = [agents EXCEPT ![a] = CreditScore(agents[a])]
      /\ authority' = CountScore(authority) /\ authority \in Authority
      /\ UNCHANGED <<reports, votes>>
  BY DEF SubmitScore, BInv, TypeOK
<1>2. /\ p \in D /\ DOMAIN programs' = D
      /\ programs'[p].score_count = programs[p].score_count + 1
      /\ \A x \in D : x # p => programs'[x] = programs[x]
  BY DEF SubmitScore, BInv, TypeOK, ProgramProfile
<1>3. /\ DOMAIN agents' = DOMAIN agents /\ agents'[a] = CreditScore(agents[a])
      /\ \A x \in DOMAIN agents : x # a => agents'[x] = agents[x]
  BY <1>1
<1>4. KnownAgents'
  BY <1>1, <1>2, <1>3 DEF BInv, KnownAgents
<1>5. PointsMatchWork'
  <2>1. \A x : ReportsOf(x)' = ReportsOf(x) /\ VotesOf(x)' = VotesOf(x)
    BY <1>1 DEF ReportsOf, VotesOf
  <2> SUFFICES ASSUME NEW x \in DOMAIN agents'
               PROVE  /\ agents'[x].points = 10 * agents'[x].total_scores
                            + 5 * agents'[x].total_reports + 2 * agents'[x].total_votes
                      /\ agents'[x].total_reports = Cardinality(ReportsOf(x)')
                      /\ agents'[x].total_votes = Cardinality(VotesOf(x)')
    BY DEF PointsMatchWork, ReportsOf, VotesOf
  <2>2. CASE x = a
    <3>1. /\ agents[a].points = 10 * agents[a].total_scores + 5 * agents[a].total_reports
                                + 2 * agents[a].total_votes
          /\ agents[a].total_reports = Cardinality(ReportsOf(a))
          /\ agents[a].total_votes = Cardinality(VotesOf(a))
      BY <1>1 DEF BInv, PointsMatchWork, ReportsOf, VotesOf
    <3>2. /\ agents'[a].points = agents[a].points + 10
          /\ agents'[a].total_scores = agents[a].total_scores + 1
          /\ agents'[a].total_reports = agents[a].total_reports
          /\ agents'[a].total_votes = agents[a].total_votes
      BY <1>1, <1>3, Credits
    <3>3. /\ agents[a].total_scores \in Nat /\ agents[a].total_reports \in Nat
          /\ agents[a].total_votes \in Nat
      BY <1>1 DEF AgentProfile
    <3> QED
      BY <2>1, <2>2, <3>1, <3>2, <3>3
  <2>3. CASE x # a
    BY <1>3, <2>1, <2>3, SameWork DEF BInv
  <2> QED
    BY <2>2, <2>3
<1>6. TotalsAgree'
  <2>1. /\ IsFiniteSet(D) /\ ScoresOn \in [D -> Nat]
    BY ColumnTypes DEF BInv, KnownAgents
  <2>2. /\ ScoresOn' \in [D -> Nat] /\ ScoresOn'[p] = ScoresOn[p] + 1
        /\ \A x \in D : x # p => ScoresOn[x] = ScoresOn'[x]
        /\ ScoresOn[p] \in Int
    <3>1. \A x \in D : programs[x].score_count \in Nat
      BY DEF BInv, TypeOK, ProgramProfile
    <3>2. \A x \in D : programs'[x].score_count \in Nat
      BY <1>2, <3>1
    <3> QED
      BY <1>2, <3>1, <3>2 DEF ScoresOn
  <2> HIDE DEF D
  <2>3. Total(ScoresOn') = Total(ScoresOn) - ScoresOn[p] + ScoresOn'[p] /\ Total(ScoresOn) \in Int
    BY <1>2, <2>1, <2>2, CounterMoved
  <2>4. Total(ScoresOn') = Total(ScoresOn) + 1
    BY <2>2, <2>3
  <2>5. /\ Total(ScoresBy') = Total(ScoresBy) + 1 /\ Total(ReportsBy') = Total(ReportsBy)
    <3>1. /\ Total(ScoresBy') =
                Total(ScoresBy) - agents[a].total_scores + CreditScore(agents[a]).total_scores
          /\ Total(ReportsBy') =
                Total(ReportsBy) - agents[a].total_reports + CreditScore(agents[a]).total_reports
          /\ Total(ScoresBy) \in Int /\ Total(ReportsBy) \in Int
      BY <1>1, Credits, CreditedColumns DEF BInv
    <3>2. agents[a].total_scores \in Nat /\ agents[a].total_reports \in Nat
      BY <1>1 DEF AgentProfile
    <3> QED
      BY <1>1, <3>1, <3>2, Credits
  <2>6. /\ authority'.agent_count = authority.agent_count
        /\ authority'.total_scores_submitted = authority.total_scores_submitted + 1
        /\ authority'.total_reports = authority.total_reports
    BY <1>1, Counts
  <2>7. /\ authority.agent_count = Cardinality(DOMAIN agents)
        /\ authority.total_scores_submitted = Total(ScoresBy)
        /\ authority.total_scores_submitted = Total(ScoresOn)
        /\ authority.total_reports = Total(ReportsBy)
    BY DEF BInv, TotalsAgree, ScoresBy, ScoresOn, ReportsBy
  <2>8. /\ authority'.agent_count = Cardinality(DOMAIN agents')
        /\ authority'.total_scores_submitted = Total(ScoresBy')
        /\ authority'.total_scores_submitted = Total(ScoresOn')
        /\ authority'.total_reports = Total(ReportsBy')
    BY <1>3, <2>4, <2>5, <2>6, <2>7
  <2> QED
    BY <2>8 DEF TotalsAgree, ScoresBy, ScoresOn, ReportsBy
<1> QED
  BY <1>4, <1>5, <1>6 DEF BInv

LEMMA ReportBooks ==
    ASSUME BInv, TypeOK', NEW a \in Agents, NEW p \in Programs, SubmitReport(a, p)
    PROVE  BInv'
<1> DEFINE i == authority.total_reports
<1>1. /\ a \in DOMAIN agents /\ agents[a] \in AgentProfile
      /\ agents' = [agents EXCEPT ![a] = CreditReport(agents[a])]
      /\ authority' = CountReport(authority) /\ authority \in Authority
      /\ UNCHANGED <<programs, votes>>
  BY DEF SubmitReport, BInv, TypeOK
<1>2. /\ i \notin DOMAIN reports /\ DOMAIN reports' = DOMAIN reports \cup {i}
      /\ reports'[i].submitter = a
      /\ \A r \in DOMAIN reports : reports'[r] = reports[r]
  BY DEF SubmitReport, Alloc
<1>3. /\ DOMAIN agents' = DOMAIN agents /\ agents'[a] = CreditReport(agents[a])
      /\ \A x \in DOMAIN agents : x # a => agents'[x] = agents[x]
  BY <1>1
<1> HIDE DEF i
<1>4. KnownAgents'
  BY <1>1, <1>2, <1>3 DEF BInv, KnownAgents
<1>5. PointsMatchWork'
  <2>1. /\ \A x : VotesOf(x)' = VotesOf(x)
        /\ \A x : x # a => ReportsOf(x)' = ReportsOf(x)
        /\ ReportsOf(a)' = ReportsOf(a) \cup {i} /\ i \notin ReportsOf(a)
    BY <1>1, <1>2 DEF ReportsOf, VotesOf
  <2>2. Cardinality(ReportsOf(a)') = Cardinality(ReportsOf(a)) + 1
    <3>1. IsFiniteSet(ReportsOf(a))
      BY WorkFinite DEF BInv
    <3>2. Cardinality(ReportsOf(a) \cup {i}) = Cardinality(ReportsOf(a)) + 1
      BY <2>1, <3>1, FS_AddElement
    <3> QED
      BY <2>1, <3>2
  <2> SUFFICES ASSUME NEW x \in DOMAIN agents'
               PROVE  /\ agents'[x].points = 10 * agents'[x].total_scores
                            + 5 * agents'[x].total_reports + 2 * agents'[x].total_votes
                      /\ agents'[x].total_reports = Cardinality(ReportsOf(x)')
                      /\ agents'[x].total_votes = Cardinality(VotesOf(x)')
    BY DEF PointsMatchWork, ReportsOf, VotesOf
  <2>3. CASE x = a
    <3>1. /\ agents[a].points = 10 * agents[a].total_scores + 5 * agents[a].total_reports
                                + 2 * agents[a].total_votes
          /\ agents[a].total_reports = Cardinality(ReportsOf(a))
          /\ agents[a].total_votes = Cardinality(VotesOf(a))
      BY <1>1 DEF BInv, PointsMatchWork, ReportsOf, VotesOf
    <3>2. /\ agents'[a].points = agents[a].points + 5
          /\ agents'[a].total_scores = agents[a].total_scores
          /\ agents'[a].total_reports = agents[a].total_reports + 1
          /\ agents'[a].total_votes = agents[a].total_votes
      BY <1>1, <1>3, Credits
    <3>3. /\ agents[a].total_scores \in Nat /\ agents[a].total_reports \in Nat
          /\ agents[a].total_votes \in Nat
      BY <1>1 DEF AgentProfile
    <3>4. agents'[a].points = 10 * agents'[a].total_scores
                              + 5 * agents'[a].total_reports + 2 * agents'[a].total_votes
      BY <3>1, <3>2, <3>3
    <3>5. /\ agents'[a].total_reports = Cardinality(ReportsOf(a)')
          /\ agents'[a].total_votes = Cardinality(VotesOf(a)')
      BY <2>1, <2>2, <3>1, <3>2
    <3> QED
      BY <2>3, <3>4, <3>5
  <2>4. CASE x # a
    BY <1>3, <2>1, <2>4, SameWork DEF BInv
  <2> QED
    BY <2>3, <2>4
<1>6. TotalsAgree'
  <2>1. Total(ScoresBy') = Total(ScoresBy) /\ Total(ReportsBy') = Total(ReportsBy) + 1
    <3>1. /\ Total(ScoresBy') =
                Total(ScoresBy) - agents[a].total_scores + CreditReport(agents[a]).total_scores
          /\ Total(ReportsBy') =
                Total(ReportsBy) - agents[a].total_reports + CreditReport(agents[a]).total_reports
          /\ Total(ScoresBy) \in Int /\ Total(ReportsBy) \in Int
      BY <1>1, Credits, CreditedColumns DEF BInv
    <3>2. agents[a].total_scores \in Nat /\ agents[a].total_reports \in Nat
      BY <1>1 DEF AgentProfile
    <3> QED
      BY <1>1, <3>1, <3>2, Credits
  <2>2. /\ authority'.agent_count = authority.agent_count
        /\ authority'.total_scores_submitted = authority.total_scores_submitted
        /\ authority'.total_reports = authority.total_reports + 1
    BY <1>1, Counts
  <2>3. /\ authority.agent_count = Cardinality(DOMAIN agents)
        /\ authority.total_scores_submitted = Total(ScoresBy)
        /\ authority.total_scores_submitted = Total(ScoresOn)
        /\ authority.total_reports = Total(ReportsBy)
    BY DEF BInv, TotalsAgree, ScoresBy, ScoresOn, ReportsBy
  <2>4. ScoresOn' = ScoresOn
    BY <1>1 DEF ScoresOn
  <2>5. /\ authority'.agent_count = Cardinality(DOMAIN agents')
        /\ authority'.total_scores_submitted = Total(ScoresBy')
        /\ authority'.total_scores_submitted = Total(ScoresOn')
        /\ authority'.total_reports = Total(ReportsBy')
    BY <1>3, <2>1, <2>2, <2>3, <2>4
  <2> QED
    BY <2>5 DEF TotalsAgree, ScoresBy, ScoresOn, ReportsBy
<1> QED
  BY <1>4, <1>5, <1>6 DEF BInv

LEMMA VoteBooks ==
    ASSUME BInv, TypeOK', NEW a \in Agents, NEW r \in DOMAIN reports,
           NEW approve \in BOOLEAN, VoteReport(a, r, approve)
    PROVE  BInv'
<1> DEFINE v == [report |-> r, agent |-> a, approved |-> approve]
<1>1. /\ a \in DOMAIN agents /\ agents[a] \in AgentProfile
      /\ agents' = [agents EXCEPT ![a] = CreditVote(agents[a])]
      /\ UNCHANGED <<authority, programs>>
  BY DEF VoteReport, BInv, TypeOK
<1>2. votes' = votes \cup {v} /\ v \notin votes /\ v.agent = a
  BY DEF VoteReport, MayVote
<1>3. /\ DOMAIN agents' = DOMAIN agents /\ agents'[a] = CreditVote(agents[a])
      /\ \A x \in DOMAIN agents : x # a => agents'[x] = agents[x]
  BY <1>1
<1>4. /\ DOMAIN reports' = DOMAIN reports
      /\ \A x \in DOMAIN reports : reports'[x].submitter = reports[x].submitter
  <2>1. reports[r] \in OracleReport
    BY DEF BInv, TypeOK
  <2>2. Settle(RecordVote(reports[r], approve)).submitter = reports[r].submitter
    <3>1. RecordVote(reports[r], approve).submitter = reports[r].submitter
      BY <2>1 DEF RecordVote, OracleReport
    <3>2. RecordVote(reports[r], approve) \in OracleReport
      BY <2>1, SettleType
    <3> QED
      BY <3>1, <3>2 DEF Settle, OracleReport
  <2> QED
    BY <2>2 DEF VoteReport, BInv, TypeOK
<1> HIDE DEF v
<1>5. KnownAgents'
  BY <1>1, <1>2, <1>3, <1>4, FS_AddElement DEF BInv, KnownAgents
<1>6. PointsMatchWork'
  <2>1. /\ \A x : ReportsOf(x)' = ReportsOf(x)
        /\ \A x : x # a => VotesOf(x)' = VotesOf(x)
        /\ VotesOf(a)' = VotesOf(a) \cup {v} /\ v \notin VotesOf(a)
    BY <1>2, <1>4 DEF ReportsOf, VotesOf
  <2>2. Cardinality(VotesOf(a)') = Cardinality(VotesOf(a)) + 1
    <3>1. IsFiniteSet(VotesOf(a))
      BY WorkFinite DEF BInv
    <3>2. Cardinality(VotesOf(a) \cup {v}) = Cardinality(VotesOf(a)) + 1
      BY <2>1, <3>1, FS_AddElement
    <3> QED
      BY <2>1, <3>2
  <2> SUFFICES ASSUME NEW x \in DOMAIN agents'
               PROVE  /\ agents'[x].points = 10 * agents'[x].total_scores
                            + 5 * agents'[x].total_reports + 2 * agents'[x].total_votes
                      /\ agents'[x].total_reports = Cardinality(ReportsOf(x)')
                      /\ agents'[x].total_votes = Cardinality(VotesOf(x)')
    BY DEF PointsMatchWork, ReportsOf, VotesOf
  <2>3. CASE x = a
    <3>1. /\ agents[a].points = 10 * agents[a].total_scores + 5 * agents[a].total_reports
                                + 2 * agents[a].total_votes
          /\ agents[a].total_reports = Cardinality(ReportsOf(a))
          /\ agents[a].total_votes = Cardinality(VotesOf(a))
      BY <1>1 DEF BInv, PointsMatchWork, ReportsOf, VotesOf
    <3>2. /\ agents'[a].points = agents[a].points + 2
          /\ agents'[a].total_scores = agents[a].total_scores
          /\ agents'[a].total_reports = agents[a].total_reports
          /\ agents'[a].total_votes = agents[a].total_votes + 1
      BY <1>1, <1>3, Credits
    <3>3. /\ agents[a].total_scores \in Nat /\ agents[a].total_reports \in Nat
          /\ agents[a].total_votes \in Nat
      BY <1>1 DEF AgentProfile
    <3>4. agents'[a].points = 10 * agents'[a].total_scores
                              + 5 * agents'[a].total_reports + 2 * agents'[a].total_votes
      BY <3>1, <3>2, <3>3
    <3>5. /\ agents'[a].total_reports = Cardinality(ReportsOf(a)')
          /\ agents'[a].total_votes = Cardinality(VotesOf(a)')
      BY <2>1, <2>2, <3>1, <3>2
    <3> QED
      BY <2>3, <3>4, <3>5
  <2>4. CASE x # a
    BY <1>3, <2>1, <2>4, SameWork DEF BInv
  <2> QED
    BY <2>3, <2>4
<1>7. TotalsAgree'
  <2>1. ScoresBy' = ScoresBy /\ ReportsBy' = ReportsBy
    <3>1. \A x \in DOMAIN agents : /\ agents'[x].total_scores = agents[x].total_scores
                                   /\ agents'[x].total_reports = agents[x].total_reports
      BY <1>1, <1>3, Credits
    <3> QED
      BY <1>3, <3>1 DEF ScoresBy, ReportsBy
  <2>2. ScoresOn' = ScoresOn
    BY <1>1 DEF ScoresOn
  <2> QED
    BY <1>1, <1>3, <2>1, <2>2 DEF BInv, TotalsAgree, ScoresBy, ScoresOn, ReportsBy
<1> QED
  BY <1>5, <1>6, <1>7 DEF BInv

LEMMA StepBooks == BInv /\ [Next]_vars => BInv'
<1> SUFFICES ASSUME BInv, [Next]_vars PROVE BInv'
  OBVIOUS
<1>1. TypeOK'
  BY StepType DEF BInv
<1>2. CASE UNCHANGED vars
  BY <1>1, <1>2 DEF vars, BInv, KnownAgents, PointsMatchWork, TotalsAgree
<1> QED
  BY <1>1, <1>2, InitializeBooks, AuthorizeBooks, RegisterBooks, ScoreBooks, ReportBooks,
     VoteBooks DEF Next

\* Points, totals and the accounts they count agree in every reachable state.
THEOREM BooksInvariance == Spec => []BInv
<1> QED
  BY InitBooks, StepBooks, PTL DEF Spec

\* An agent's points are what its own submissions and ballots earned.
THEOREM PointsAreEarned == Spec => []PointsMatchWork
<1>1. BInv => PointsMatchWork
  BY DEF BInv
<1> QED
  BY <1>1, BooksInvariance, PTL

\* The totals of the authority, of the agents and of the programs never drift apart.
THEOREM TotalsNeverDrift == Spec => []TotalsAgree
<1>1. BInv => TotalsAgree
  BY DEF BInv
<1> QED
  BY <1>1, BooksInvariance, PTL

-----------------------------------------------------------------------------
(***************************************************************************)
(* The program implements ReportConsensus, below 383 agents.               *)
(***************************************************************************)

\* The instance counts as this module does.
LEMMA SameCardinality == \A S : Consensus!Cardinality(S) = Cardinality(S)
<1> QED
  BY Zenon DEF Consensus!Cardinality, Cardinality

\* Who has said what, by the ballots ReportConsensus sees.
LEMMA BallotsCast ==
    ASSUME IInv, NEW r \in DOMAIN reports
    PROVE  /\ Consensus!Cast([a \in Agents |-> BallotOf(r, a)], "yes") =
                 1 + Cardinality(Voters(r, TRUE))
           /\ Consensus!Cast([a \in Agents |-> BallotOf(r, a)], "no") =
                 Cardinality(Voters(r, FALSE))
<1> DEFINE b == [a \in Agents |-> BallotOf(r, a)]
<1>1. /\ reports[r].submitter \in Agents
      /\ Voters(r, TRUE) \subseteq Agents /\ Voters(r, FALSE) \subseteq Agents
      /\ reports[r].submitter \notin Voters(r, TRUE) \cup Voters(r, FALSE)
      /\ Voters(r, TRUE) \cap Voters(r, FALSE) = {}
  BY DEF IInv, TypeOK, OracleReport, VotesMatchCounters, Voters
<1>2. {a \in Agents : b[a] = "yes"} = Voters(r, TRUE) \cup {reports[r].submitter}
  BY <1>1 DEF BallotOf
<1>3. {a \in Agents : b[a] = "no"} = Voters(r, FALSE)
  BY <1>1 DEF BallotOf
<1>4. Cardinality(Voters(r, TRUE) \cup {reports[r].submitter}) = Cardinality(Voters(r, TRUE)) + 1
  BY <1>1, VotersFinite, FS_AddElement
<1> HIDE DEF b
<1>5. /\ Consensus!Cast(b, "yes") = Cardinality(Voters(r, TRUE)) + 1
      /\ Consensus!Cast(b, "no") = Cardinality(Voters(r, FALSE))
  <2>1. Consensus!Cast(b, "yes") = Cardinality({a \in Agents : b[a] = "yes"})
    BY SameCardinality, Zenon DEF Consensus!Cast
  <2>2. Consensus!Cast(b, "no") = Cardinality({a \in Agents : b[a] = "no"})
    BY SameCardinality, Zenon DEF Consensus!Cast
  <2> QED
    BY <1>2, <1>3, <1>4, <2>1, <2>2, Zenon
<1>6. Consensus!Cast(b, "yes") = 1 + Cardinality(Voters(r, TRUE))
  <2> DEFINE yes == Cardinality(Voters(r, TRUE))
  <2>1. yes \in Nat
    BY VotersFinite
  <2> HIDE DEF yes
  <2>2. yes + 1 = 1 + yes
    BY <2>1
  <2> QED
    BY <1>5, <2>2 DEF yes
<1> QED
  BY <1>5, <1>6 DEF b

\* The decision a report is in is one its electorate and its ballots allow.
VerdictsAllowed ==
    \A r \in DOMAIN reports :
        DecisionOf(r) \in Consensus!Verdicts(Cardinality(electorate[r]), [a \in Agents |-> BallotOf(r, a)])

LEMMA VerdictOfBallots == QuorumFits => (IInv => VerdictsAllowed)
<1> SUFFICES ASSUME QuorumFits, IInv, NEW r \in DOMAIN reports
             PROVE  DecisionOf(r) \in Consensus!Verdicts(Cardinality(electorate[r]),
                                                        [a \in Agents |-> BallotOf(r, a)])
  BY DEF VerdictsAllowed
<1> DEFINE b == [a \in Agents |-> BallotOf(r, a)]
           q == reports[r].required_quorum
           n == Cardinality(electorate[r])
           yes == Cardinality(Voters(r, TRUE))
           no == Cardinality(Voters(r, FALSE))
<1>1. /\ q \in 1 .. 255 /\ n \in Nat /\ yes \in Nat /\ no \in Nat
      /\ 3 * q >= 2 * n /\ 3 * q <= 2 * n + 2
      /\ reports[r].accepted <=> 1 + yes >= q
      /\ reports[r].finalized <=> reports[r].accepted \/ no > q \div 2
  BY CountsOfReport
<1>2. Consensus!Cast(b, "yes") = 1 + yes /\ Consensus!Cast(b, "no") = no
  BY BallotsCast
<1>3. DecisionOf(r) = IF ~reports[r].finalized THEN "pending"
                      ELSE IF reports[r].accepted THEN "accepted" ELSE "rejected"
  BY DEF DecisionOf
<1> HIDE DEF b, q, n, yes, no
<1>4. 3 * (1 + yes) >= 2 * n <=> 1 + yes >= q
  BY <1>1
<1>5. CASE reports[r].accepted
  <2>1. DecisionOf(r) = "accepted" /\ 3 * (1 + yes) >= 2 * n
    BY <1>1, <1>3, <1>4, <1>5
  <2> QED
    BY <1>2, <2>1 DEF Consensus!Verdicts, b, n
<1>6. CASE ~reports[r].accepted
  <2>1. ~(3 * (1 + yes) >= 2 * n)
    BY <1>1, <1>4, <1>6
  <2>2. CASE ~reports[r].finalized
    BY <1>2, <1>3, <2>1, <2>2 DEF Consensus!Verdicts, b, n
  <2>3. CASE reports[r].finalized
    <3>1. no > q \div 2
      BY <1>1, <1>6, <2>3
    <3>2. 2 * no >= q + 1
      BY <1>1, <3>1
    <3>3. 3 * (n - no) < 2 * n
      BY <1>1, <3>2
    <3> QED
      BY <1>2, <1>3, <1>6, <2>1, <2>3, <3>3 DEF Consensus!Verdicts, b, n
  <2> QED
    BY <2>2, <2>3
<1> QED
  BY <1>5, <1>6

\* Initially there are no reports.
LEMMA InitConsensus == Init => Consensus!Init
<1> SUFFICES ASSUME Init PROVE Consensus!Init
  OBVIOUS
<1>1. \A r, a : BallotOf(r, a) = "none" /\ DecisionOf(r) = "none"
  BY DEF Init, BallotOf, DecisionOf
<1> QED
  BY <1>1 DEF Init, Consensus!Init

\* What does not touch reports, ballots and electorates is a stutter.
LEMMA StutterConsensus ==
    ASSUME UNCHANGED <<reports, votes, electorate>>
    PROVE  UNCHANGED Consensus!vars
<1>1. \A r, a : BallotOf(r, a)' = BallotOf(r, a) /\ DecisionOf(r)' = DecisionOf(r)
  BY DEF BallotOf, DecisionOf, Voters
<1> QED
  BY <1>1 DEF Consensus!vars

\* The two variables of ReportConsensus as NileSecurity instantiates them.
Ballots == [r \in ReportIds |-> [a \in Agents |-> BallotOf(r, a)]]
Decisions == [r \in ReportIds |-> DecisionOf(r)]

\* A step that changes one ballot and one decision.
LEMMA OneBallot ==
    ASSUME NEW r \in ReportIds, NEW a \in Agents, NEW v,
           \A x \in ReportIds : x # r => \A y \in Agents : BallotOf(x, y)' = BallotOf(x, y),
           \A y \in Agents : BallotOf(r, y)' = IF y = a THEN v ELSE BallotOf(r, y)
    PROVE  Ballots' = [Ballots EXCEPT ![r][a] = v]
<1>1. Ballots' = [x \in ReportIds |-> [y \in Agents |-> BallotOf(x, y)']]
  BY DEF Ballots
<1>2. [Ballots EXCEPT ![r][a] = v] =
         [x \in ReportIds |-> IF x = r THEN [Ballots[r] EXCEPT ![a] = v] ELSE Ballots[x]]
  BY DEF Ballots
<1>3. [Ballots[r] EXCEPT ![a] = v] = [y \in Agents |-> BallotOf(r, y)']
  BY DEF Ballots
<1>4. ASSUME NEW x \in ReportIds, x # r
      PROVE  Ballots[x] = [y \in Agents |-> BallotOf(x, y)']
  BY <1>4 DEF Ballots
<1> QED
  BY <1>1, <1>2, <1>3, <1>4

LEMMA OneDecision ==
    ASSUME NEW r \in ReportIds,
           \A x \in ReportIds : x # r => DecisionOf(x)' = DecisionOf(x)
    PROVE  Decisions' = [Decisions EXCEPT ![r] = DecisionOf(r)']
<1> QED
  BY DEF Decisions

\* submit_report opens a report.
LEMMA ReportConsensusStep ==
    ASSUME IInv, IInv', VerdictsAllowed', NEW a \in Agents, NEW p \in Programs, SubmitReport(a, p)
    PROVE  Consensus!Next
<1> PICK i, E : i = authority.total_reports /\ E = DOMAIN agents
  OBVIOUS
<1>1. /\ i \in ReportIds /\ i \notin DOMAIN reports
      /\ DOMAIN reports' = DOMAIN reports \cup {i}
      /\ reports'[i].submitter = a
      /\ \A r \in DOMAIN reports : reports'[r] = reports[r]
      /\ electorate' = [electorate EXCEPT ![i] = E]
      /\ electorate \in [ReportIds -> SUBSET Agents]
      /\ a \in E /\ E \in SUBSET Agents
      /\ votes' = votes
  BY DEF SubmitReport, Alloc, IInv, TypeOK, Authority, ReportIds
<1>2. electorate'[i] = E
  BY <1>1
<1>3. \A r, b : Voters(r, b)' = Voters(r, b)
  BY <1>1 DEF Voters
<1>4. ASSUME NEW r \in ReportIds, r # i
      PROVE  /\ DecisionOf(r)' = DecisionOf(r)
             /\ \A x \in Agents : BallotOf(r, x)' = BallotOf(r, x)
  BY <1>1, <1>3, <1>4 DEF DecisionOf, BallotOf
<1>5. Voters(i, TRUE) = {} /\ Voters(i, FALSE) = {}
  BY <1>1, NoEarlyVotes DEF IInv
<1>6. /\ DecisionOf(i) = "none"
      /\ \A x \in Agents : BallotOf(i, x) = "none"
      /\ \A x \in Agents : BallotOf(i, x)' = IF x = a THEN "yes" ELSE "none"
  BY <1>1, <1>3, <1>5 DEF DecisionOf, BallotOf
<1>7. DecisionOf(i)' \in Consensus!Verdicts(Cardinality(E), [x \in Agents |-> BallotOf(i, x)'])
  BY <1>1, <1>2 DEF VerdictsAllowed
<1>8. Ballots' = [Ballots EXCEPT ![i][a] = "yes"]
  BY <1>1, <1>4, <1>6, OneBallot
<1>9. Ballots'[i] = [x \in Agents |-> BallotOf(i, x)']
  BY <1>1 DEF Ballots
<1>10. Decisions' = [Decisions EXCEPT ![i] = DecisionOf(i)']
  BY <1>1, <1>4, OneDecision
<1>11. Decisions[i] = "none"
  BY <1>1, <1>6 DEF Decisions
<1>12. Consensus!Open(i, a)
  <2>1. \E d \in Consensus!Verdicts(Cardinality(E), Ballots'[i]) :
           Decisions' = [Decisions EXCEPT ![i] = d]
    BY <1>7, <1>9, <1>10, Zenon
  <2>2. \E S \in SUBSET Agents :
           /\ a \in S
           /\ electorate' = [electorate EXCEPT ![i] = S]
           /\ Ballots' = [Ballots EXCEPT ![i][a] = "yes"]
           /\ \E d \in Consensus!Verdicts(Cardinality(S), Ballots'[i]) :
                 Decisions' = [Decisions EXCEPT ![i] = d]
    BY <1>1, <1>8, <2>1, Zenon
  <2> QED
    BY <1>11, <2>2, SameCardinality, Zenon DEF Consensus!Open, Ballots, Decisions
<1> QED
  BY <1>1, <1>12 DEF Consensus!Next

\* vote_report casts a ballot.
LEMMA VoteConsensusStep ==
    ASSUME IInv, IInv', VerdictsAllowed', NEW a \in Agents, NEW r \in DOMAIN reports,
           NEW approve \in BOOLEAN, VoteReport(a, r, approve)
    PROVE  Consensus!Next
<1> PICK v : v = IF approve THEN "yes" ELSE "no"
  OBVIOUS
<1>1. /\ r \in ReportIds
      /\ DOMAIN reports' = DOMAIN reports
      /\ reports'[r].submitter = reports[r].submitter
      /\ \A x \in DOMAIN reports : x # r => reports'[x] = reports[x]
      /\ electorate' = electorate
      /\ ~reports[r].finalized /\ a # reports[r].submitter
  <2>1. authority.total_reports <= MaxReports /\ authority.total_reports \in Nat
    BY DEF IInv, TypeOK, Authority
  <2>2. r \in ReportIds
    BY <2>1, NileAssumption DEF ReportIds, IInv, TypeOK
  <2>3. reports[r] \in OracleReport
    BY DEF IInv, TypeOK
  <2>4. Settle(RecordVote(reports[r], approve)).submitter = reports[r].submitter
    <3>1. RecordVote(reports[r], approve).submitter = reports[r].submitter
      BY <2>3 DEF RecordVote, OracleReport
    <3>2. RecordVote(reports[r], approve) \in OracleReport
      BY <2>3, SettleType
    <3> QED
      BY <3>1, <3>2 DEF Settle, OracleReport
  <2> QED
    BY <2>2, <2>4 DEF VoteReport, MayVote, IInv, TypeOK
<1>2. /\ Voters(r, approve)' = Voters(r, approve) \cup {a}
      /\ a \notin Voters(r, TRUE) /\ a \notin Voters(r, FALSE)
      /\ \A x, b : (x # r \/ b # approve) => Voters(x, b)' = Voters(x, b)
  BY VotersStep DEF IInv
<1>3. ASSUME NEW x \in ReportIds, x # r
      PROVE  /\ DecisionOf(x)' = DecisionOf(x)
             /\ \A y \in Agents : BallotOf(x, y)' = BallotOf(x, y)
  <2>1. Voters(x, TRUE)' = Voters(x, TRUE) /\ Voters(x, FALSE)' = Voters(x, FALSE)
    BY <1>2, <1>3
  <2> QED
    BY <1>1, <1>3, <2>1 DEF DecisionOf, BallotOf
<1>4. DecisionOf(r) = "pending" /\ BallotOf(r, a) = "none"
  BY <1>1, <1>2 DEF DecisionOf, BallotOf
<1>5. \A y \in Agents : BallotOf(r, y)' = IF y = a THEN v ELSE BallotOf(r, y)
  <2> SUFFICES ASSUME NEW y \in Agents
               PROVE  BallotOf(r, y)' = IF y = a THEN v ELSE BallotOf(r, y)
    OBVIOUS
  <2>1. BallotOf(r, y) = IF y = reports[r].submitter \/ y \in Voters(r, TRUE) THEN "yes"
                         ELSE IF y \in Voters(r, FALSE) THEN "no" ELSE "none"
    <3>1. CASE y = reports[r].submitter \/ y \in Voters(r, TRUE)
      <4>1. CASE y = reports[r].submitter
        BY <4>1 DEF BallotOf
      <4>2. CASE y # reports[r].submitter /\ y \in Voters(r, TRUE)
        BY <4>2 DEF BallotOf, IInv, VotesMatchCounters
      <4> QED
        BY <3>1, <4>1, <4>2
    <3>2. CASE ~(y = reports[r].submitter \/ y \in Voters(r, TRUE)) /\ y \in Voters(r, FALSE)
      BY <3>2 DEF BallotOf
    <3>3. CASE ~(y = reports[r].submitter \/ y \in Voters(r, TRUE)) /\ y \notin Voters(r, FALSE)
      BY <3>3 DEF BallotOf
    <3> QED
      BY <3>1, <3>2, <3>3
  <2>2. BallotOf(r, y)' = IF y = reports[r].submitter \/ y \in Voters(r, TRUE)' THEN "yes"
                          ELSE IF y \in Voters(r, FALSE)' THEN "no" ELSE "none"
    <3>1. CASE y = reports[r].submitter \/ y \in Voters(r, TRUE)'
      <4>1. CASE y = reports[r].submitter
        BY <1>1, <4>1 DEF BallotOf
      <4>2. CASE y # reports[r].submitter /\ y \in Voters(r, TRUE)'
        BY <1>1, <4>2 DEF BallotOf, IInv, VotesMatchCounters
      <4> QED
        BY <3>1, <4>1, <4>2
    <3>2. CASE /\ ~(y = reports[r].submitter \/ y \in Voters(r, TRUE)')
               /\ y \in Voters(r, FALSE)'
      BY <1>1, <3>2 DEF BallotOf
    <3>3. CASE /\ ~(y = reports[r].submitter \/ y \in Voters(r, TRUE)')
               /\ y \notin Voters(r, FALSE)'
      BY <1>1, <3>3 DEF BallotOf
    <3> QED
      BY <3>1, <3>2, <3>3
  <2>3. CASE approve = TRUE
    <3>1. Voters(r, TRUE)' = Voters(r, TRUE) \cup {a} /\ Voters(r, FALSE)' = Voters(r, FALSE)
      BY <1>2, <2>3
    <3> QED
      BY <1>1, <1>2, <2>1, <2>2, <2>3, <3>1
  <2>4. CASE approve = FALSE
    <3>1. Voters(r, FALSE)' = Voters(r, FALSE) \cup {a} /\ Voters(r, TRUE)' = Voters(r, TRUE)
      BY <1>2, <2>4
    <3> QED
      BY <1>1, <1>2, <2>1, <2>2, <2>4, <3>1
  <2> QED
    BY <2>3, <2>4
<1>6. DecisionOf(r)' \in Consensus!Verdicts(Cardinality(electorate[r]), [y \in Agents |-> BallotOf(r, y)'])
  BY <1>1 DEF VerdictsAllowed
<1>7. Ballots' = [Ballots EXCEPT ![r][a] = v]
  BY <1>1, <1>3, <1>5, OneBallot
<1>8. Ballots'[r] = [y \in Agents |-> BallotOf(r, y)']
  BY <1>1 DEF Ballots
<1>9. Decisions' = [Decisions EXCEPT ![r] = DecisionOf(r)']
  BY <1>1, <1>3, OneDecision
<1>10. Decisions[r] = "pending" /\ Ballots[r][a] = "none"
  BY <1>1, <1>4 DEF Ballots, Decisions
<1>11. Consensus!Vote(r, a, v)
  <2>1. \E d \in Consensus!Verdicts(Cardinality(electorate[r]), Ballots'[r]) :
           Decisions' = [Decisions EXCEPT ![r] = d]
    BY <1>6, <1>8, <1>9, Zenon
  <2> QED
    BY <1>1, <1>7, <1>10, <2>1, SameCardinality, Zenon DEF Consensus!Vote, Ballots, Decisions
<1>12. v \in {"yes", "no"}
  OBVIOUS
<1> QED
  BY <1>1, <1>11, <1>12 DEF Consensus!Next

LEMMA ConsensusStep ==
    IInv /\ IInv' /\ VerdictsAllowed' /\ [Next]_vars => [Consensus!Next]_Consensus!vars
<1> SUFFICES ASSUME IInv, IInv', VerdictsAllowed', [Next]_vars
             PROVE  [Consensus!Next]_Consensus!vars
  OBVIOUS
<1>1. CASE UNCHANGED vars
  BY <1>1, StutterConsensus DEF vars
<1>2. ASSUME NEW w \in Wallets, Initialize(w) PROVE UNCHANGED Consensus!vars
  BY <1>2, StutterConsensus DEF Initialize
<1>3. ASSUME NEW w \in Wallets, NEW a \in Agents, AuthorizeAgent(w, a)
      PROVE  UNCHANGED Consensus!vars
  BY <1>3, StutterConsensus DEF AuthorizeAgent
<1>4. ASSUME NEW p \in Programs, NEW len \in NameLens, RegisterProgram(p, len)
      PROVE  UNCHANGED Consensus!vars
  BY <1>4, StutterConsensus DEF RegisterProgram
<1>5. ASSUME NEW a \in Agents, NEW p \in Programs, NEW uri \in UriLens,
             NEW n \in ScoreInputs, NEW i \in ScoreInputs, NEW l \in ScoreInputs,
             NEW e \in ScoreInputs, SubmitScore(a, p, n, i, l, e, uri)
      PROVE  UNCHANGED Consensus!vars
  BY <1>5, StutterConsensus DEF SubmitScore
<1> QED
  BY <1>1, <1>2, <1>3, <1>4, <1>5, ReportConsensusStep, VoteConsensusStep DEF Next

\* Below 383 agents, the program implements ReportConsensus: one ballot per agent, one
\* decision per report, acceptance exactly when as many agents as two thirds of the
\* electorate said yes, those authorized since the submission included.
THEOREM Refinement ==
    ASSUME QuorumFits
    PROVE  Spec => ImplementsConsensus
<1>1. Init => Consensus!Init
  BY InitConsensus
<1>2. IInv /\ IInv' /\ VerdictsAllowed' /\ [Next]_vars => [Consensus!Next]_Consensus!vars
  BY ConsensusStep
<1>3. IInv => VerdictsAllowed
  BY VerdictOfBallots
<1> QED
  BY <1>1, <1>2, <1>3, Invariance, PTL DEF Spec, ImplementsConsensus, Consensus!Spec
=============================================================================
