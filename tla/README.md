# NILE Security: verification models

TLA+ models of the NILE Security system, the runs TLC checks on them and the
theorems TLAPS proves about them. `PROJECT.json` lists the components, runs,
theorems, hazards and findings, and maps each definition to the lines of source
it models. Paths below are relative to `backend/nile/` unless they say otherwise.

## The system

NILE scores Solana programs and tokens, and trades "soul tokens" of persons.

| Part | State | Operations | Talks to |
|---|---|---|---|
| On-chain program `programs/nile_security` | authority, agent, program, report and vote accounts | initialize, authorize_agent, register_program, submit_score, submit_report, vote_report | called by agents and by the scan worker |
| Oracle API and service (`routers/v1/oracle.py`, `services/oracle_consensus.py`) | oracle_events rows; persons' scores, valuation_snapshots | submit, vote, revalue | PostgreSQL |
| Scan queue (`workers/scan_worker.py`, `routers/v1/tasks.py`, `scans.py`) | scan_jobs, nile_scores, agent_contributions | create, poll, process, claim, submit | PostgreSQL, the chain, Redis |
| Incentives (`services/incentive_engine.py`, `feedback_loop.py`, `soul_agent_incentives.py`) | agents' totals, contributions | award, verify, penalize | called by tasks |
| Trading and risk (`routers/v1/trading.py`, `services/risk_engine.py`) | trades; circuit breakers in the memory of each process | quote, buy, sell, risk checks | event bus |
| Rate limiting (`core/rate_limit.py`) | sliding windows in memory or Redis | check | every endpoint |
| Event bus (`core/event_bus.py`), event stream, Discord bot | ecosystem_events, Redis channels | publish, subscribe, post | all services |
| Scoring and analysis (`services/nile_scorer.py`, `soul_valuation.py`, `program_analyzer.py`, `pumpfun_analyzer.py`) | none | pure functions over chain data | worker, scan endpoint |
| Accounts (`core/auth.py`, `routers/v1/agents.py`) | agents | register, authenticate, heartbeat | all endpoints |
| Frontend (`frontend/src/store`) | Zustand stores | scan, dashboard, events | the API |

What runs at the same time: four API processes (`deploy/Dockerfile.backend`,
`--workers 4`), each with many requests interleaved at their awaits; one scan
worker container; the Discord bot; agents that send transactions to the chain
directly. Every request has a PostgreSQL session of its own at READ COMMITTED,
and no query of the backend locks what it reads (there is no FOR UPDATE).

What makes it hard: decisions on rows that others change before the write;
absolute values written over concurrent updates; ORM changes that are not seen
as changes; one transaction around five jobs whose outside effects cannot be
rolled back; state per process that ought to be shared; electorates that change
during a vote; and small integers. The `hazards` of PROJECT.json list them at
their lines, with the property that watches each or the reason why none does.

What makes each part correct:

- on-chain program: counters, ballots and outcome agree; as many agents as two
  thirds of those authorized at submission accept a report, and it falls short of
  two thirds of those themselves by later agents' ballots only; a decision is
  final; totals agree;
- oracle events: a confirmation needs as many different agents as required,
  whatever updates are lost; a confirmed report has been valued with itself
  counted; a decision is never taken back to pending;
- scan queue: a job is scored at most once; success has work behind it; only a
  claimant is awarded; outside effects repeat only for lost batches; every job
  is taken;
- incentives: an agent's total is the sum of its contributions, and a penalty
  stays;
- trading: concurrent trades do not hide an anomaly from all of their checks; a
  pause runs its time and stops trading (it does not);
- scoring and analysis: scores stay in range and move the right way; a lookup
  that fails does not lift them; the grade on chain follows the one stored;
- event bus: a page keeps the history it was given and is told of what is
  committed after that; what is posted keeps the order of the bus; one agent
  joins under a name;
- rate limiting: each limiter lets at most its maximum through in a window, and
  refuses only whom it has counted as often.

## Modules

| Module | Models | Uses |
|---|---|---|
| `ReportConsensus` | what the on-chain consensus promises, without counters | |
| `NileSecurity` | the on-chain program, one action per instruction | `ReportConsensus` (refinement), `Sums` |
| `Sums` | the sum of a function's values, in a form that can be proved about | |
| `OracleEvents` | oracle_events, both voting functions and the revaluation | |
| `ScanJobs` | scan_jobs, the worker, the task API | |
| `Incentives` | agents' totals, contributions, awards and penalties | `Sums` |
| `Trading` | trades, the three risk checks, breakers per worker | `Sums` |
| `Scoring` | the dimensions and grades of programs, tokens, persons and agents, as operators | `Sums` |
| `Analysis` | from an address to a score and a grade on chain, with failing lookups | `Scoring` |
| `Events` | the event bus, the operations that publish, the live page, the bot | |
| `RateLimiter` | both sliding window limiters | |
| `NileSecurity_proofs`, `OracleEvents_proofs`, `ScanJobs_proofs`, `Incentives_proofs`, `Trading_proofs`, `Events_proofs`, `RateLimiter_proofs`, `Analysis_proofs` | the theorems about the module of that name | it, and TLAPS |

`MCNileSecurity`, `MCOracleEvents`, `MCScanJobs`, `MCIncentives`, `MCTrading`,
`MCAnalysis`, `MCEvents` and `MCRateLimiter` hold the symmetry sets and the
values of the constants TLC needs. The operators with names like `QuorumFloor`,
marked "plausible slips", are wrong versions of the operators that follow them:
each property is shown to fail with one of them in place.

`Total` of `Sums` counts units instead of folding: a value v at x stands for v
pairs, so that its laws follow from those of cardinalities. `MCNileSecurity`
compares it with the fold of the community modules (`TotalIsSum`). Amounts of
tokens in `Trading` and the deductions of `Scoring` are counted by the same units.

### NileSecurity

State: `authority`, `agents`, `programs`, `reports` and `votes` are the
accounts of `state.rs`; `electorate` is a history variable, the set of the
agents that were authorized when a report was submitted. Instructions are atomic, as on
Solana, and a refused instruction is no step. `Alloc` is Anchor's `init`: the
address must be free. Kept: every `require!`, the seeds that make a VoteRecord
unique, the cast of the quorum to `u8`, and the space of a program profile,
which is too small for a grade of two bytes with a full name and URI
(`FitsProfileSpace`). Left out: timestamps, versions, bumps, the texts of
reports. `agent_count` is a u32 that refuses to wrap; the other counters count
actions and cannot reach their widths.

`ImplementsConsensus` maps the accounts of a report to a ballot per agent and a
decision, and says that the program implements `ReportConsensus!Spec`: the
electorate fixes how many ballots decide, and whoever is authorized may cast one.

`vote_report` lets agents vote that were authorized after the submission, and
counts their ballots as the electorate's. So "two thirds of the electorate" and
"impossible to reach quorum" are not what the program keeps. With two agents and
a quorum of 2, the submitter and an agent authorized later accept a report.
`AcceptedBySupermajority` and `RejectedOnlyWhenHopeless` are about the set
`electorate[r]` and say by how much a decision may depart from it: by the ballots
of the later agents, one for one, hence not at all when there are none.
`RejectedWhenImpossible` is the claim of the comment, which fails (see the
findings). `EveryoneVotedDecides` counts ballots, whoever cast them.

### OracleEvents

State: `row` is the committed row of each report, `session` the database
session of each request (idle, row read, row flushed and locked), `lock` the
row locks, `person` and `snapshots` what the person's scores and the valuation
snapshots were computed from: the numbers of confirmed events by sign. `yes`
and `no` are history: the ballots committed by each agent.

A vote is three steps: `ReadReport` (the checks on the row read), `FlushVote`
(the UPDATE takes the row lock; a confirming service session then reads the
person and counts), `CommitVote` (the changed columns, the scores and the
snapshot become visible). Between them other requests, also of the same agent,
take theirs. `Abort` is every way to lose a session before its commit.
`ChangedColumns` is what the ORM writes: the columns whose value changed; the
service's `agent_votes` never does, since the dict is changed in place.

The service is a library that only tests call. The model gives it one session
per call, as every endpoint does.

### ScanJobs

State: `job` is the committed row, `lock` the row locks, `worker` the loop's
phase and its open transaction (jobs still to do, outcome and score of those
done), `request` the claim and submit requests, `scores` and `awards` the
committed rows of the work done, `onchain` and `events` what left the
transaction at once. `failures` and `claimants` are history.

The worker: `Poll` (up to `BatchSize` queued jobs, oldest first), for each job
`StartJob` (the flush takes the row lock, whatever the row has become),
`Analyze`, `SubmitOnchain`, `PublishCompleted` (it may raise before or after
the message is out, which fails the job and keeps its score), then
`CommitBatch`; `LoseBatch` is a crash, or a database error, which the handler's
own flush raises again. An agent's request: `ReadTask`, `FlushTask`,
`CommitClaim` or `CommitSubmit`, or `AbortTask`. Left out: the contract's
metadata, timestamps, points.

Fairness: the worker's loop never returns (`run_worker` catches everything and
the container restarts), its awaits end, and a request that holds a row lock
commits or is rolled back: weak fairness of the worker's steps and of the end of
flushed requests. `StartJob` has strong fairness since PostgreSQL queues those
who wait for a row lock and serves them in order. Nothing is assumed of agents:
a claimed job may stay running for ever.

### Incentives

State: `agent` is the committed totals of each agent, `contribution` the
committed contributions, `lock` their row locks, `request` the sessions. `soul`
and `overwritten` are history: the soul points committed, which no row keeps,
and the agents whose totals a commit computed from rows that had changed since
they were read.

A session begins with what it reads (`BeginAward`, `BeginSoul`, `BeginVerify`),
writes the contribution (`FlushContribution`, and a rejection then reads the
agent), writes the totals (`FlushAgent`), and commits (`Commit`) or is lost
(`Abort`). As in `OracleEvents`, only changed columns are written, as absolute
values. Only `submit_task` uses these services today, to award; verification,
rejection and soul points are modelled as a caller would use them, one session
and one commit for each call. The events they publish are left out.

`LedgerBalances` is conditional on purpose: without `overwritten` it is false,
as any two concurrent awards to an agent show. What it says is that this is the
only way for totals and contributions to part.

### Trading

State: `trades` are the rows in the order of `created_at`, `request` the buys
and sales under way, `breaker` each worker's dictionary of pauses, `now` the
minutes of the clock. `checked`, `warned` and `lost` are history.

A request is cut at its awaits. `FlushTrade` is the check of the breaker and,
with no await between, the stamped row; `CommitTrade` makes it visible;
`CheckWash`, `CheckPump` and `CheckCliff` are the three queries of
`run_risk_checks` with what follows each: every one sees what is committed at
that moment, so requests on other workers come between. The last sets the
breaker of its own worker. `RequestFails` is an exception at any await (before
the commit the row is gone, after it the check is skipped and logged);
`Restart` ends a worker's requests and forgets its breakers. Reading a breaker
removes it when it has expired (`Purged`).

The checks are operators on sets of row numbers: a query's result is the set of
its rows, whose order is that of their numbers, and `Since`, `By`, `Bought` and
`Sold` select from it as the code's comprehensions do. `First` and `Latest` are
the two ends of the sorted list, and what is added up does not depend on order.

`NoCliffMissed` and `NoWashMissed` compare the checks with a reference over all
committed trades, stated another way. They hold once no request of the token
is under way, since whoever commits last checks after everyone's commit. They
say nothing of what the rules themselves overlook: a cliff is measured from the
first to the last trade of the window, so a fall and a recovery inside it is
none. `PauseRunsItsTime` holds because all pauses are equally long.

### Scoring and Analysis

`Scoring` translates the scorers as operators on hundredths of a point; it has
no variables. Inputs no caller ever sets (static findings, reentrancy guards,
social counts of a revaluation, ...) keep their defaults and are left out. The
deductions for matched patterns are all multiples of 5 points and are counted in
those (`Deductions`).

`Analysis`: `subject` is what is analysed and the facts about it (`ProgramFacts`,
`MintFacts`, `PersonFacts`, `AgentFacts`: whatever the lookups and the rows may
say, which is all `AnalysisAssumption` asks of the constants), `missed` the
lookups that fail. None of them raises: a failure is None, FALSE, 0 or an empty
list. `Classify` is `analyze`, `Analyze` the two analyses with the lookups'
answers. `EnterToken` enters `_analyze_token` as the tests do, since
`analyze` never does (see what was met while modelling).

A person has the events counted when it was valued last (`tally`) and those that
the API has confirmed since, which values nobody (`pending`, `ConfirmUnvalued`).
When the service confirms one, `Revalue` counts all of them (`Recount`). An
agent has contributions with and without marks: `AwardAgent` adds one and
`JudgeAgent` gives a verdict on one that bears any mark, since the code lets
verdicts follow one another. A rejected contribution that is verified later
counts as verified and as penalized (`both`).

`NewsCountsItsWay` compares one valuation of a person with the next, when all
that was confirmed between them is good, or all bad. When bad events are pending,
the valuation that a good event starts may well lower the person.

`RegistriesFailClosed` names the lookups whose failure does lift a score
(`FailOpen`) and bounds by how much for the upgrade authority, whose failure
reads as "not upgradeable".

### Events

State: `row` is ecosystem_events, `agents` the names registered, `request` the
sessions that write and publish, `sent` the announcements on `nile:events`,
`page` each browser's subscription, history request and list, `listener` the
bot's tasks.
An operation is a sequence of `Steps`: rows it writes itself (`WriteRow`) and
`publish_event`s, each cut at its awaits into `FlushEvent`, `Announce` and
`AnnounceType`; then `Commit`, or `Fail` when Redis or the unique index raises.
Redis delivers to those subscribed at that moment, once, and keeps nothing.
`OnReady` starts one more listener each time; `LoseSubscription` ends one,
`RestartBot` all.

A page asks for the history once, as it opens, and subscribes beside that
(`Connect`). `ReadHistory` is the query, `ShowHistory` the arrival of its answer,
which replaces the list; between them events are announced and shown. What was
on the list before is lost unless the answer has it, and an event that was shown
and is committed after the query is on neither. `LiveSeesHistory` is what does hold:
the rows that were committed when the history was read stay, and of what is announced after
its arrival nothing is missed. The order of the answer is that of the transactions'
start (`created_at` is the server's `now()`), which is not modelled: any
`PageLimit` of the committed rows may be answered. A history request that fails
changes nothing.

What is committed has been announced before. The other direction fails by design
of the code: rolled back work has been announced too.

### RateLimiter

State: `env` chooses the limiter. `requests` and `lastCleanup` are the
dictionaries in development, one for each worker and endpoint; a client's list is
the set of its instants, each with the number of the verdict that added it
(instants may repeat, and the code only counts and filters them). `zset` and
`expires` are the sorted set and its expiry in Redis, one for all workers and for
all endpoints that share the prefix. `CheckMemory` is a whole check, which has no
await. In production `ReadClock` and `Execute` are apart: the instant is read in
the worker and the four commands reach Redis any time later, as one transaction.
Its reply may be lost (`heard`): the set has the instant, and the request is sent
again by the client library or given up. `FailOpen` is giving up, whether or not
anything was executed. `verdicts` is history: who decided about each request.

`docker-compose.yml` runs four workers without `NILE_ENV`, hence in development,
so `Workers` matters to both limiters.

`WithinLimit` is about what each limiter promises: a worker's memory about its own
requests, Redis about instants, where two requests of one instant are one member.
Of Redis it counts what was executed in time (`InTime`): within the second by
which a set outlives its window, and before any request of a later window, which
removes members. Later ones may exceed the maximum, and nothing in the code bounds
the delay. `RefusedWasCounted` bounds the refusals. The comments at the endpoints
("5 registrations per minute per IP", `routers/v1/agents.py`) speak of addresses
and of the endpoint's own requests, and neither is what the limiters keep: in
development each worker has the limit, in production endpoints share the set and
refused requests enter it. Left out: a worker that restarts and loses its
dictionaries, a Redis that restarts and loses its sets.

## Runs

| Run | Instance | Shows |
|---|---|---|
| `Chain` | 5 agents, 2 programs, 1 report, 2 scores | counters, ballots, outcome, electorate, finality, points, totals, and the refinement |
| `LateBallots` | 4 agents, 1 report | a report is rejected that its electorate could accept (finding) |
| `OracleVotes` | 4 agents, 1 report, 3 requests at a time | votes over unlocked reads |
| `ScanRaces` | 1 job, 2 agents, 2 requests at a time, 1 lost batch | claims, submissions and the worker on one job |
| `ScanBatch` | 2 jobs in a batch, 2 agents, 1 request at a time, 1 lost batch | repeated effects, and liveness |
| `Points` | 1 agent, 2 contributions, 2 sessions at a time, 1 soul action | awards, penalties and the totals they leave |
| `Trading` | 1 token, 2 workers, 2 requests at a time, 4 trades to look back at and 2 new ones | checks beside each other, pauses |
| `Analysis` | facts on both sides of every threshold, any lookups failing, 6 news or contributions | scores, grades, failing lookups |
| `Events` | 2 requests, 1 page that keeps 2 events, 1 listener, 1 fault | the page's history and live events, order of the posts, registration |
| `RateLimits` | 2 workers, 1 client, 2 endpoints with maxima 1 and 2, 2 requests in flight, 3 verdicts | both limiters |
| `OracleDoubleVote` | 1 request at a time | a second ballot is accepted (finding) |
| `BreakerPauses` | 2 workers | a paused token is traded (finding) |

Bounds. Five agents give electorates of every residue modulo 3, which is what
the quorum and the threshold of rejection depend on, and agents authorized
before and after the submission; reports are independent of each other but for
the totals. A score of 101 is one the program refuses. Four agents are the
submitter and three voters: enough for the three confirmations the API requires
and a vote against them; three requests at a time let every one of the voters
decide on the same row. `MaxCasts` 2 lets an agent vote twice when its ballot
was lost. Two requests are enough for a stale claim next to the claim or the
submission it races; more would be more of the same. `MaxFailures` 1 shows what
one rolled back batch leaves behind, which further ones repeat. One agent is
enough for the points: a session writes the totals of one agent, and contention
is for its row. The instants of `Trading` lie on both sides of the windows and of
the end of a pause; its prices include a rise of exactly 50%, a fall of exactly 30% and two
cliffs; the four wallets that have bought before make one more purchase spread
over five wallets or over four, which is what concentration is about. The facts of
`Analysis` include each threshold and its neighbour. The page of
`Events` keeps two events, so that a third pushes one out and a list may be live
above and history below; the operations have two shapes: a row and an announcement
of it, and an announced row beside one that nobody announces. One listener is
enough, since a listener never reads what another has; that of a bot that
reconnects is one that starts later. In `RateLimits` the clock passes two windows and a delay may
be as long as the run, hence longer than the second by which the sets outlive
their window; three verdicts fill the larger maximum and ask once more.

Deadlock is not checked: every protocol here ends (all reports decided, all
jobs done, the bounds reached), and the services then wait for input.

Symmetry is used where no property names an agent, report, program or request
and none is a liveness property.

## What is proved

Every theorem is about its module's `Spec`, for any values of the constants that
satisfy the module's named assumption (sets are finite where the code stores
rows of them, sentinels are no members, bounds are naturals). No proof uses a
bound to be small: `MaxRows`, `MaxTime`, `MaxFailures` and the like are
arbitrary. Each module has a type theorem; below is what else it has, and the
inductive invariant that takes it there.

**On-chain program** (`NileSecurity_proofs`). `IInv` is `TypeOK`,
`OutcomeFollowsCounters`, `VotesMatchCounters` and `QuorumOfElectorate` (a
report's quorum is that of the electorate it was submitted with, which no
counter shows). `VotesMatchCounters` is not inductive without the types, since a
ballot must be new to add one to a cardinality, and the outcome needs the quorum
to be at least 1. From it `VotesMatch`, `OutcomeFollows`, `Finality`, and what a
decision says about the electorate: `Supermajority`, `Hopeless`, `Decided`.
`Refinement` shows that the program implements `ReportConsensus`: submission and
ballots map to its steps, all other instructions stutter, and an outcome is a
verdict the ballots allow. These last four assume `QuorumFits`, fewer than 383
agents. The assumption is needed: `ceil(2n/3)` is cast to `u8`, so 383 and 384
agents give a quorum of 256, which is 0, and a report is then accepted on its
submitter's word. `Supermajority` and `Hopeless` speak of sets: a split of the
supporters, or of the opponents, into electors and later agents (`SplitCount`)
takes them from the counters to the electorate, and says what later agents may
change. A second invariant, `BInv`, gives the books: `PointsAreEarned`
and `TotalsNeverDrift`. It adds `KnownAgents`, without which an agent authorized
later could start with reports it never made; the totals change with one account at
a time (`CounterOpened`, `CounterMoved`).

**Oracle events** (`OracleEvents_proofs`). `TInv` adds to the types what a
session under way has read: a report that exists, was pending, and whose
submitter is among its voters. It is enough for `DecidedStays`. `OInv` adds
`PendingIsSound`: writers overwrite each other, so counters and voters say little
of the ballots cast, but a row that is pending has, under the API, no rejection
and at least one voter who really approved for each confirmation, and under the
service its submitter's confirmation alone; and the same holds of the copies that
sessions read. With `CountsItself` (a session that revalues has counted its own
report) it gives `DistinctConfirmers` and `ConfirmedValued`.

**Scan queue** (`ScanJobs_proofs`). `TInv` adds `BatchConsistent` (the jobs left in
the batch are distinct and untouched, those done have outcomes) and
`RequestsHaveJobs`. `SInv` adds one part for each theorem: `ScoredLeft` (a job with
a score is neither queued nor in the batch: `ScoredOnlyOnce`), `ResultHasWork`
(`SuccessAlwaysHasWork`), `ClaimsAreKnown` (a claim that will leave the agent column
alone has read a name that is still there, or that of a claimant:
`AwardsGoToClaimants`) and `SendsCounted` (what is sent by the batch under way is
counted before the batch can be lost: `OnlyLostBatchesRepeat`). `NoJobRequeued`
needs `TInv` only. No request and no batch is assumed to end.

**Points** (`Incentives_proofs`). `RowsSound` and `SessionsSound` say what sessions
know: an award has a contribution of its own that is not there yet, a verification
is about a row that is, and about the agent of that row. `TheLedgerBalances` then
has one case for each row a commit writes, as a sum with one summand more or one
changed; `PenaltiesStay` needs no more than that of the sessions.

**Trading** (`Trading_proofs`). `OwnTrades` (each request has a trade of its own)
makes the types inductive. `PausesRunTheirTime` rests on `PausesBounded`: no
breaker is set beyond now and its duration, so one that is set again never ends
earlier. What the checks answer does not matter to either. It does to
`CliffsAreFound` and `WashTradingIsFound`, which say that trades committed side by
side cannot all be checked without one another. Neither invariant is inductive:
both speak of a token with no request under way. `CliffsKnown` speaks of every
moment: the last cliff check of a token answered for a set of committed rows that
includes every row whose own check is over, and if that set fell, some worker's
breaker was set. It survives a commit (its row is not checked yet), a check (it
sees every committed row, its own among them) and a clock that moves (`Stamped`: no
row is from the future, so a window that has passed loses rows only). `HistoryAssumption`
puts the rows that are there at the start at instant 0, where the clock starts. When the
token is quiet all its committed rows are settled. `WashKnown` says the same of a
wallet and its last warning. A run in which a check failed or a worker restarted is
left out by the properties themselves, as `lost`.

**Event bus** (`Events_proofs`). `Underway` says what a request has written so far.
`PostsInOrder` follows from `ListenersFollow`: what waits in an inbox is newer than
what was posted. `PagesSeeHistory` joins three facts: `RowsTold`, every event stored
and not undone has been announced, or its request is about to; `PagesTold`,
every announcement since a page connected and its history came waits, is shown, or
was pushed off by newer ones; and `HistoryKept`, the rows a page's history was read
with are still in the answer or on the list, unless it is full; `OwnRows` keeps requests apart. `EveryAgentJoinedOnce` needs `JInv`: a
request's join events name whom it registers (`NotesOwn`), the unique index holds
its claim until it ends (`ClaimsHeld`), and committed names and join events
correspond (`JoinsAgree`). All of it holds with any number of requests, pages,
reconnections and faults.

**Rate limiting** (`RateLimiter_proofs`). The properties are about verdicts, the
invariant about what the limiters remember of them: a list in a worker's memory
holds just the requests that worker let through and that may still count
(`MemoryHolds`); a sorted set in Redis holds the instant of every executed request
of its client that none of a later window has pushed out and whose time has not
come (`RedisHolds`). `WindowsHold` takes windows at every instant, not only at those
where a verdict ends one. For `OnlyTheCountedRefused` the set must also hold nothing
else than executed requests' instants, heard or not: that is why a lost reply is a
verdict too. Nothing is assumed of delays, replies or the number of tries; what
comes too late is left out by `WithinLimit` itself.

**Scoring and analysis** (`Analysis_proofs`). The facts are any records of their
sets: any number of instructions, accounts, holders, days, news and contributions.
`AnalysisInv` says that a scan's score is the score of its subject and of the
lookups that failed, and that an agent's counters are those of contributions each
of which is unmarked, verified, penalized or both (`Consistent`): neither the
verified nor the penalized are more than the contributions, without which the ratios
pass 1, though together they may be. The rest compares two answers of one scorer.
Each dimension is shown to follow its inputs (`NameFollows`, `ImageFollows`,
`LikenessFollows`, `EssenceFollows`, `AgentImageFollows`, `FairValueFollows`, ...):
an input that is better cannot lower it, through its caps, roundings and the final
clamp. For the likeness this is a fact about sets: patterns matched with less
confidence deduct a subset of the units (`LossesFollow`). Then
`FindingsCount` compares a program with one that has less to be found,
`SilenceNeverHelps` a scan with one whose registries answered (`FewerFailures`), and
with one whose authority lookup failed (`AuthorityMissed`: 5 points for the upgrade risk
and at most 6.25 for the rug pull patterns). `NewsCounts` compares tallies that differ by
any number of events of one sign (`ValuedAgain`) and agents before and after a verdict
of any kind on a contribution with any mark (`JudgedIs`, `AgentMove`). It
needs that a balance of counters moves with the counter although the number of news
is its denominator (`GoodNewsWeighsUp`, `BadNewsWeighsDown`). `GradesAgree` follows
from `GradeLost`: truncating four scores loses less than a point of their mean, and
the grades are ten points apart. `TypeCorrect` says that every dimension is within
its bounds.

### Only model-checked

Every invariant and every action property of the passing runs is a theorem. What
TLC alone shows:

- `EveryJobTaken`, a liveness property under fairness, which the provers do not
  reach;
- `TotalIsSum` of `MCNileSecurity`: that `Total` is the fold, for every function,
  needs an induction over its domain;
- what `MapThenSumSet` adds up in the check for pump and dump: no theorem depends
  on it, since a pump's alert can only prolong a pause;
- `TradingIsPaused`, `OneBallotPerAgent` and `RejectedWhenImpossible`, which the
  code does not keep (see the findings).

## What the findings say

1. `LateBallots`: with agents a1, a2, a3 at its submission and a quorum of 2, a
   report to which a2 and the later a4 say no is rejected as one that cannot reach
   its quorum, although a1 and a3 suffice.
2. `OracleDoubleVote`: ballots of the service are never stored, so an agent can
   vote again.
3. `BreakerPauses`: a breaker pauses a token in one of four API processes.

Met while modelling, and visible in the models, though no run states them:

- On chain: ballots of agents authorized later can also accept a report that two
  thirds of its electorate do not support; with 2, 5, 8, ... agents a report may have everyone's ballot and stay
  undecided, since rejection needs more than half of the quorum in noes
  (`vote_report.rs:56`); from 383 agents on the quorum wraps
  (`submit_report.rs:57`); a grade of two bytes does not fit a full profile.
- Oracle: a vote that read the report as pending overwrites its decision with the
  opposite one (`oracle.py:116`); two events of one person confirmed at the same
  time leave the scores of whichever committed last.
- Scan queue: a claim that read the job as queued sets it running again after the
  worker has finished it (`tasks.py:91`); a submission retried while the first
  is under way awards twice; a claimed job whose agent is gone stays running.
- Points: two concurrent awards to one agent lose one.
- Trading: wash trading is logged and pauses nothing; `quote` estimates a sale
  with `price_usd` while `execute_sell` uses `price_sol`; a fall and a recovery
  within the window are not seen.
- Analysis: no mint is ever analysed, since `analyze` tests a key that
  `get_token_info` does not set (`program_analyzer.py:72`), although
  `docs/SCORING.md` says how mints are scored; a program whose IDL is not found scores full marks for its image,
  although `docs/SCORING.md` calls such programs scored conservatively; the age
  is that of the newest transaction, the only one asked for; in the Docker image
  the path of the pattern file leads to `/data`, outside the application, so
  that no pattern is matched; `get_program_authority` never says
  `is_multisig`; the Jupiter list is asked three times in one analysis, and the
  answers may differ.
- Event bus: what is rolled back has been announced; `store_pattern` lists each
  pattern twice, once without its data, and `query_patterns` limits before it
  filters; a bot that reconnects posts each event once more; events of
  `soul_collaboration` have no id and no time, which the live page uses as keys;
  the type channels have no subscriber; screenshots share a file path.
- Live page: an event shown before the history arrives and committed after it was
  read vanishes from a connected page (`page.tsx:48`).
- Rate limiting: in development, which `docker-compose.yml` runs with four workers,
  an address has its limit in each of them; in production heartbeats use up the
  registrations of the same address, since the limiters share a key, and refused requests count, so a client that keeps
  calling is never let in again; a request that Redis executes late may go past the
  maximum; when Redis does not answer every request is let through.
- Agents: nothing sets an agent offline after its first heartbeat, and nothing
  suspends one.

## Plan

All parts with a protocol of their own are modelled, and every safety property the
passing runs check is proved. What is left, most important first:

- the inductive invariants whose parts are interesting in themselves (`SendsCounted`,
  `RedisHolds`, `JoinsAgree`, `CliffsKnown`) as invariants of the runs;
- that a pump is found as a cliff is: `CheckPumpAndDump` asks for a concentration as
  well, and a reference for it would be a restatement of the check;
- the live page's lost event, the limits per worker and the shared key, and the
  refused mints as properties that the code violates, once it is decided what the
  code should do.

## Not modelled

- `frontend/src/store`: each action stores what its call answers. Two scans at a
  time show whichever answer comes last; no document says what they should show,
  so there is nothing to check. The page's live events are in `Events`.
- Frontend pages and components, KPIs, benchmarks, contracts, persons, health,
  metrics, logging, alerting, schemas, migrations, seeds and deployment:
  rendering, queries over single rows, or declarations, with no protocol to
  check. Deployment was read for what runs concurrently.
- Of the bot: screenshots, slash commands, the creation of channels and the
  layout of posts. Of trading: quotes, lists, candles and portfolios, which
  change nothing. Of agents: authentication, which reads one row, and profile
  updates.
- RPC calls and their encodings (`chain_service`, `onchain_writer`): their effect
  is in `Analysis` as an answer or none, and in `ScanJobs` as a transaction that
  was sent or not. The tokens' bonding curve is not in this repository; the
  trading endpoints record trades off-chain.
