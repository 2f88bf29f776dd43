---------------------------- MODULE NileSecurity ----------------------------
(***************************************************************************)
(* The on-chain program programs/nile_security: one NileAuthority account, *)
(* an AgentProfile per authorized agent, a ProgramProfile per registered   *)
(* program, an OracleReport per report and a VoteRecord per ballot.        *)
(*                                                                         *)
(* An instruction is atomic: Solana locks every account it writes and      *)
(* rolls all of them back when it fails, so each instruction is one action *)
(* and a refused instruction is no step.  An account is created by Anchor's*)
(* `init`, which refuses an address that already holds one: Alloc.         *)
(*                                                                         *)
(* Left out: timestamps, bumps, version bytes, and the contents of         *)
(* headlines and event types (their length checks only refuse).            *)
(***************************************************************************)
EXTENDS Integers, FiniteSets, Sums

CONSTANTS
    Wallets,        \* keys that can sign
    Agents,         \* the wallets that may be authorized as agents
    Programs,       \* addresses that may be registered and reported on
    ScoreInputs,    \* score arguments clients send, any u8
    NameLens,       \* lengths of the names clients register
    UriLens,        \* lengths of the details_uri clients send
    NoWallet,       \* not a wallet: the authority is not initialized
    MaxReports,     \* bound: reports ever submitted
    MaxScores       \* bound: scores ever submitted

ASSUME NileAssumption ==
    /\ IsFiniteSet(Agents)
    /\ Agents \subseteq Wallets
    /\ NoWallet \notin Wallets
    /\ ScoreInputs \subseteq 0 .. 255
    /\ NameLens \subseteq Nat
    /\ UriLens \subseteq Nat
    /\ MaxReports \in Nat
    /\ MaxScores \in Nat

VARIABLES
    authority,      \* the NileAuthority account
    agents,         \* AgentProfile accounts, by agent
    programs,       \* ProgramProfile accounts, by program address
    reports,        \* OracleReport accounts, by index: seeds end in total_reports
    votes,          \* VoteRecord accounts
    electorate      \* history: the agents authorized when the report was submitted

vars == <<authority, agents, programs, reports, votes, electorate>>

ReportIds == 0 .. MaxReports - 1
Grades == {"A+", "A", "B", "C", "D", "F"}

Authority ==
    [admin: Wallets \cup {NoWallet}, agent_count: Nat,
     total_scores_submitted: Nat, total_reports: Nat]

AgentProfile ==
    [is_active: BOOLEAN, total_scores: Nat, total_reports: Nat,
     total_votes: Nat, points: Nat]

ProgramProfile ==
    [name_len: Nat, uri_len: Nat, total_score: 0 .. 100, grade: Grades,
     score_count: Nat]

OracleReport ==
    [program: Programs, submitter: Agents, confirmations: Nat, rejections: Nat,
     required_quorum: 1 .. 255, finalized: BOOLEAN, accepted: BOOLEAN]

VoteRecord == [report: ReportIds, agent: Agents, approved: BOOLEAN]

\* The accounts f after `init` creates one at address k holding v.
Alloc(f, k, v) == [x \in DOMAIN f \cup {k} |-> IF x = k THEN v ELSE f[x]]

-----------------------------------------------------------------------------
\* Plausible slips in the operators below, for the mutation runs.
QuorumFloor(n) == ((n * 2) \div 3) % 256
CountRejectAsConfirm(rep, approve) ==
    [rep EXCEPT !.confirmations = @ + 1]
SettleAcceptAtRejects(rep) ==
    IF rep.confirmations >= rep.required_quorum
    THEN [rep EXCEPT !.finalized = TRUE, !.accepted = TRUE]
    ELSE IF rep.rejections >= rep.required_quorum \div 2
    THEN [rep EXCEPT !.finalized = TRUE, !.accepted = FALSE]
    ELSE rep
MayVoteTwice(a, r) ==
    /\ ~reports[r].finalized
    /\ agents[a].is_active
    /\ a # reports[r].submitter
MayVoteAfterDecision(a, r) ==
    /\ agents[a].is_active
    /\ a # reports[r].submitter
    /\ ~ \E v \in votes : v.report = r /\ v.agent = a
CreditVoteAsReport(p) ==
    [p EXCEPT !.total_votes = @ + 1, !.points = @ + 5]
SettleKeepsOpen(rep) ==
    IF rep.confirmations > rep.required_quorum
    THEN [rep EXCEPT !.finalized = TRUE, !.accepted = TRUE]
    ELSE IF rep.rejections > rep.required_quorum
    THEN [rep EXCEPT !.finalized = TRUE, !.accepted = FALSE]
    ELSE rep
CountScoreOnce(au) ==
    [au EXCEPT !.total_scores_submitted = IF @ = 0 THEN 1 ELSE @]
CountReportNever(au) == au

-----------------------------------------------------------------------------
\* ((agent_count as u64 * 2 + 2) / 3) as u8: the cast keeps the low byte.
Quorum(n) == ((n * 2 + 2) \div 3) % 256

\* quorum.max(1)
RequiredQuorum(n) == IF Quorum(n) < 1 THEN 1 ELSE Quorum(n)

\* The grade submit_score matches on the total.
GradeOf(total) ==
    CASE total >= 90 -> "A+"
      [] total \in 80 .. 89 -> "A"
      [] total \in 70 .. 79 -> "B"
      [] total \in 60 .. 69 -> "C"
      [] total \in 50 .. 59 -> "D"
      [] OTHER -> "F"

\* The account is allotted 64 + 1 + 200 bytes for name, grade and details_uri
\* together; Anchor fails to write back a profile that needs more.
FitsProfileSpace(prof) ==
    prof.name_len + (IF prof.grade = "A+" THEN 2 ELSE 1) + prof.uri_len <= 64 + 1 + 200

\* What a ballot does to the counters of a report.
RecordVote(rep, approve) ==
    IF approve THEN [rep EXCEPT !.confirmations = @ + 1]
               ELSE [rep EXCEPT !.rejections = @ + 1]

\* What vote_report concludes from the counters.
Settle(rep) ==
    IF rep.confirmations >= rep.required_quorum
    THEN [rep EXCEPT !.finalized = TRUE, !.accepted = TRUE]
    ELSE IF rep.rejections > rep.required_quorum \div 2
    THEN [rep EXCEPT !.finalized = TRUE, !.accepted = FALSE]
    ELSE rep

\* What each instruction credits to the agent that signed it.
CreditScore(p) == [p EXCEPT !.total_scores = @ + 1, !.points = @ + 10]
CreditReport(p) == [p EXCEPT !.total_reports = @ + 1, !.points = @ + 5]
CreditVote(p) == [p EXCEPT !.total_votes = @ + 1, !.points = @ + 2]
CountScore(au) == [au EXCEPT !.total_scores_submitted = @ + 1]
CountReport(au) == [au EXCEPT !.total_reports = @ + 1]

-----------------------------------------------------------------------------
Init ==
    /\ authority = [admin |-> NoWallet, agent_count |-> 0,
                    total_scores_submitted |-> 0, total_reports |-> 0]
    /\ agents = [a \in {} |-> {}]
    /\ programs = [p \in {} |-> {}]
    /\ reports = [r \in {} |-> {}]
    /\ votes = {}
    /\ electorate = [r \in ReportIds |-> {}]

\* The first signer of initialize becomes the admin.
Initialize(w) ==
    /\ authority.admin = NoWallet
    /\ authority' = [admin |-> w, agent_count |-> 0,
                     total_scores_submitted |-> 0, total_reports |-> 0]
    /\ UNCHANGED <<agents, programs, reports, votes, electorate>>

\* has_one = admin.  agent_count is a u32 and checked_add refuses to wrap it:
\* out of reach of any finite set of agents worth modelling.
AuthorizeAgent(w, a) ==
    /\ authority.admin = w
    /\ a \notin DOMAIN agents
    /\ authority' = [authority EXCEPT !.agent_count = @ + 1]
    /\ agents' = Alloc(agents, a, [is_active |-> TRUE, total_scores |-> 0,
                                   total_reports |-> 0, total_votes |-> 0,
                                   points |-> 0])
    /\ UNCHANGED <<programs, reports, votes, electorate>>

\* Anyone may register a program, and needs no authority account to do so.
RegisterProgram(p, len) ==
    /\ len <= 64
    /\ p \notin DOMAIN programs
    /\ programs' = Alloc(programs, p, [name_len |-> len, uri_len |-> 0,
                                       total_score |-> 0, grade |-> "F",
                                       score_count |-> 0])
    /\ UNCHANGED <<authority, agents, reports, votes, electorate>>

SubmitScore(a, p, name, image, likeness, essence, uri) ==
    LET total == (name + image + likeness + essence) \div 4
        prof  == [programs[p] EXCEPT !.uri_len = uri, !.total_score = total,
                                     !.grade = GradeOf(total), !.score_count = @ + 1]
    IN  /\ authority.total_scores_submitted < MaxScores
        /\ a \in DOMAIN agents
        /\ p \in DOMAIN programs
        /\ \A s \in {name, image, likeness, essence} : s <= 100
        /\ uri <= 200
        /\ agents[a].is_active
        /\ FitsProfileSpace(prof)
        /\ programs' = [programs EXCEPT ![p] = prof]
        /\ agents' = [agents EXCEPT ![a] = CreditScore(@)]
        /\ authority' = CountScore(authority)
        /\ UNCHANGED <<reports, votes, electorate>>

\* The reported address need not be registered.  The account's seeds hold
\* total_reports: a client that read an older total names another address and
\* the instruction is refused.
SubmitReport(a, p) ==
    LET i == authority.total_reports
        q == Quorum(authority.agent_count)
    IN  /\ i < MaxReports
        /\ a \in DOMAIN agents
        /\ agents[a].is_active
        /\ i \notin DOMAIN reports
        /\ reports' = Alloc(reports, i,
                            [program |-> p, submitter |-> a,
                             confirmations |-> 1, rejections |-> 0,
                             required_quorum |-> RequiredQuorum(authority.agent_count),
                             finalized |-> q <= 1, accepted |-> q <= 1])
        /\ electorate' = [electorate EXCEPT ![i] = DOMAIN agents]
        /\ agents' = [agents EXCEPT ![a] = CreditReport(@)]
        /\ authority' = CountReport(authority)
        /\ UNCHANGED <<programs, votes>>

\* The VoteRecord's seeds are the report and the agent: its `init` is what
\* refuses a second ballot.
MayVote(a, r) ==
    /\ ~reports[r].finalized
    /\ agents[a].is_active
    /\ a # reports[r].submitter
    /\ ~ \E v \in votes : v.report = r /\ v.agent = a

VoteReport(a, r, approve) ==
    /\ a \in DOMAIN agents
    /\ MayVote(a, r)
    /\ reports' = [reports EXCEPT ![r] = Settle(RecordVote(@, approve))]
    /\ votes' = votes \cup {[report |-> r, agent |-> a, approved |-> approve]}
    /\ agents' = [agents EXCEPT ![a] = CreditVote(@)]
    /\ UNCHANGED <<authority, programs, electorate>>

Next ==
    \/ \E w \in Wallets : Initialize(w)
    \/ \E w \in Wallets, a \in Agents : AuthorizeAgent(w, a)
    \/ \E p \in Programs, len \in NameLens : RegisterProgram(p, len)
    \/ \E a \in Agents, p \in Programs, uri \in UriLens :
          \E n, i, l, e \in ScoreInputs : SubmitScore(a, p, n, i, l, e, uri)
    \/ \E a \in Agents, p \in Programs : SubmitReport(a, p)
    \/ \E a \in Agents, r \in DOMAIN reports, approve \in BOOLEAN :
          VoteReport(a, r, approve)

Spec == Init /\ [][Next]_vars

-----------------------------------------------------------------------------
\* Every account has the shape state.rs gives it, reports fill the indices below
\* total_reports, and before initialize there are no agents and no reports.
TypeOK ==
    /\ authority \in Authority
    /\ DOMAIN agents \subseteq Agents
    /\ agents \in [DOMAIN agents -> AgentProfile]
    /\ DOMAIN programs \subseteq Programs
    /\ programs \in [DOMAIN programs -> ProgramProfile]
    /\ authority.admin = NoWallet => DOMAIN agents = {} /\ authority.total_reports = 0
    /\ authority.total_reports <= MaxReports
    /\ DOMAIN reports = 0 .. authority.total_reports - 1
    /\ reports \in [DOMAIN reports -> OracleReport]
    /\ votes \subseteq [report: DOMAIN reports, agent: Agents, approved: BOOLEAN]
    /\ electorate \in [ReportIds -> SUBSET Agents]

Voters(r, b) == {a \in Agents : [report |-> r, agent |-> a, approved |-> b] \in votes}
Supporters(r) == {reports[r].submitter} \cup Voters(r, TRUE)

\* The counters a report is decided by agree with the ballots on record: the
\* submitter's own confirmation and one per VoteRecord (vote_report.rs keeps the
\* two in different accounts).
VotesMatchCounters ==
    \A r \in DOMAIN reports :
        /\ reports[r].confirmations = 1 + Cardinality(Voters(r, TRUE))
        /\ reports[r].rejections = Cardinality(Voters(r, FALSE))
        /\ Voters(r, TRUE) \cap Voters(r, FALSE) = {}
        /\ reports[r].submitter \notin Voters(r, TRUE) \cup Voters(r, FALSE)

\* A report is accepted exactly when its confirmations reach the quorum it was
\* submitted with, rejected exactly when its rejections pass half of it first, and
\* open otherwise, whichever of submit_report and vote_report decided it.
OutcomeFollowsCounters ==
    \A r \in DOMAIN reports :
        LET rep == reports[r]
        IN  /\ rep.accepted <=> rep.confirmations >= rep.required_quorum
            /\ rep.finalized <=> \/ rep.accepted
                                 \/ rep.rejections > rep.required_quorum \div 2
            /\ rep.confirmations <= rep.required_quorum
            /\ rep.rejections <= rep.required_quorum \div 2 + 1

\* An accepted report has the support of two thirds of the agents that were
\* authorized when it was submitted ("ceil(2/3)", submit_report.rs:57), or falls
\* short of them by no more than the agents authorized since that said yes:
\* vote_report takes their ballots too.  With none of those, two thirds of the
\* electorate itself said yes.
AcceptedBySupermajority ==
    \A r \in DOMAIN reports :
        LET E   == electorate[r]
            Yes == Supporters(r)
        IN  reports[r].accepted =>
                3 * Cardinality(Yes \cap E) >= 2 * Cardinality(E) - 3 * Cardinality(Yes \ E)

\* A rejected report could not have been accepted by the agents that were
\* authorized when it was submitted, whatever those left had voted, unless agents
\* authorized since said no: each of those stands for one elector at most.
RejectedOnlyWhenHopeless ==
    \A r \in DOMAIN reports :
        LET E  == electorate[r]
            No == Voters(r, FALSE)
        IN  (reports[r].finalized /\ ~reports[r].accepted) =>
                3 * Cardinality(E \ No) < 2 * Cardinality(E) + 3 * Cardinality(No \ E)

\* "Impossible to reach quorum" (vote_report.rs:57): the agents that were authorized
\* when a rejected report was submitted, and that have not said no, are fewer than
\* its quorum.  Agents authorized since may have said no in their place.
RejectedWhenImpossible ==
    \A r \in DOMAIN reports :
        (reports[r].finalized /\ ~reports[r].accepted) =>
            Cardinality(electorate[r] \ Voters(r, FALSE)) < reports[r].required_quorum

\* When the agents that were authorized at submission number other than 2, 5, 8,
\* ... as many ballots as agents, whoever cast them, always decide the report.
EveryoneVotedDecides ==
    \A r \in DOMAIN reports :
        LET n == Cardinality(electorate[r])
        IN  (n % 3 # 2 /\ ~reports[r].finalized) =>
                1 + Cardinality(Voters(r, TRUE) \cup Voters(r, FALSE)) < n

\* An agent's points are what its own submissions and ballots earned: 10 a score,
\* 5 a report, 2 a vote.
PointsMatchWork ==
    \A a \in DOMAIN agents :
        /\ agents[a].points = 10 * agents[a].total_scores + 5 * agents[a].total_reports
                                 + 2 * agents[a].total_votes
        /\ agents[a].total_reports =
              Cardinality({r \in DOMAIN reports : reports[r].submitter = a})
        /\ agents[a].total_votes = Cardinality({v \in votes : v.agent = a})

\* The totals of the authority, of the agents and of the programs, kept in three
\* kinds of account, never drift apart.
TotalsAgree ==
    /\ authority.agent_count = Cardinality(DOMAIN agents)
    /\ authority.total_scores_submitted = Total([a \in DOMAIN agents |-> agents[a].total_scores])
    /\ authority.total_scores_submitted =
          Total([p \in DOMAIN programs |-> programs[p].score_count])
    /\ authority.total_reports = Total([a \in DOMAIN agents |-> agents[a].total_reports])

\* A decided report is never touched again, by a late ballot or anything else.
DecisionIsFinal ==
    [][\A r \in DOMAIN reports : reports[r].finalized => reports'[r] = reports[r]]_vars

-----------------------------------------------------------------------------
\* The report as ReportConsensus sees it.
BallotOf(r, a) ==
    CASE r \notin DOMAIN reports -> "none"
      [] r \in DOMAIN reports /\ (a = reports[r].submitter \/ a \in Voters(r, TRUE)) -> "yes"
      [] r \in DOMAIN reports /\ a # reports[r].submitter /\ a \in Voters(r, FALSE) -> "no"
      [] OTHER -> "none"

DecisionOf(r) ==
    CASE r \notin DOMAIN reports -> "none"
      [] r \in DOMAIN reports /\ ~reports[r].finalized -> "pending"
      [] r \in DOMAIN reports /\ reports[r].finalized /\ reports[r].accepted -> "accepted"
      [] OTHER -> "rejected"

Consensus == INSTANCE ReportConsensus WITH
    Reports <- ReportIds,
    ballots <- [r \in ReportIds |-> [a \in Agents |-> BallotOf(r, a)]],
    decision <- [r \in ReportIds |-> DecisionOf(r)]

\* The program implements ReportConsensus: one ballot per agent, one decision per
\* report, acceptance exactly when as many agents as two thirds of the electorate
\* said yes, those authorized since the submission included.
ImplementsConsensus == Consensus!Spec
=============================================================================
