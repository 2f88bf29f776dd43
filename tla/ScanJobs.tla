------------------------------ MODULE ScanJobs ------------------------------
(***************************************************************************)
(* The scan_jobs table and the two ways its rows are worked on: the scan   *)
(* worker (workers/scan_worker.py), which takes a batch of queued jobs in  *)
(* one transaction, and agents that claim a queued job and submit its      *)
(* result through routers/v1/tasks.py.                                     *)
(*                                                                         *)
(* Both decide on rows read at READ COMMITTED without locking them.  An    *)
(* UPDATE waits for the row's lock, holds it to the end of its             *)
(* transaction, and writes the columns whose value the session changed.    *)
(* Transactions on chain and messages on Redis leave at once: a rollback   *)
(* does not take them back.                                                *)
(*                                                                         *)
(* There is one worker container.  Job ids are in order of created_at.     *)
(* Points and other effects of an award are left out.                      *)
(***************************************************************************)
EXTENDS Integers, Sequences, FiniteSets

CONSTANTS
    Agents,         \* authenticated agents, by name
    NoAgent,        \* a name no agent has
    Requests,       \* the claim and submit requests under way at a time
    Worker,         \* the worker, as holder of a row lock
    NoHolder,       \* nobody holds the row lock
    BatchSize,      \* limit of the poll query, 5 in the code
    MaxJobs,        \* bound: jobs ever created
    MaxFailures     \* bound: batches the worker loses to a crash or an error

ASSUME ScanAssumption ==
    /\ IsFiniteSet(Agents)
    /\ NoAgent \notin Agents
    /\ Worker \notin Requests
    /\ NoHolder \notin Requests \cup {Worker}
    /\ BatchSize \in Nat \ {0}
    /\ MaxJobs \in Nat
    /\ MaxFailures \in Nat

VARIABLES
    job,            \* committed rows of scan_jobs
    lock,           \* who holds each row's lock
    worker,         \* the worker's loop and its open transaction
    request,        \* the agents' requests and their open transactions
    scores,         \* committed nile_scores rows, per job
    awards,         \* committed agent_contributions rows, per job and agent
    onchain,        \* score transactions sent to the chain, per job
    events,         \* scan.completed messages delivered on Redis, per job
    failures,       \* history: batches lost
    claimants       \* history: agents told that they claimed the job

vars == <<job, lock, worker, request, scores, awards, onchain, events, failures, claimants>>

Jobs == 1 .. MaxJobs
Ended == {"succeeded", "failed"}
Row ==
    [status: {"none", "queued", "running"} \cup Ended, agent: Agents \cup {NoAgent},
     result: {"none", "analysis", "submission"}]

\* The rows of the open batch are kept as what its commit will write.
WorkerState ==
    [phase: {"idle", "next", "analyze", "onchain", "publish"}, todo: Seq(Jobs),
     outcome: [Jobs -> {"none"} \cup Ended], scored: SUBSET Jobs]
Request ==
    [phase: {"idle", "read", "flushed"}, kind: {"claim", "submit"},
     agent: Agents \cup {NoAgent}, job: 0 .. MaxJobs, seen: Row]

NoRow == [status |-> "none", agent |-> NoAgent, result |-> "none"]
NoBatch == [phase |-> "idle", todo |-> <<>>, outcome |-> [j \in Jobs |-> "none"],
            scored |-> {}]
NoRequest == [phase |-> "idle", kind |-> "claim", agent |-> NoAgent, job |-> 0,
              seen |-> NoRow]

\* Plausible slips in the operators below, for the mutation runs.
PollableUnfinished == {j \in Jobs : job[j].status \in {"queued", "running"}}
AfterBatchRequeued(row, outcome, scored) ==
    [row EXCEPT !.status = IF outcome = "failed" THEN "queued" ELSE outcome,
                !.result = IF scored THEN "analysis" ELSE @]
MaySubmitAnyones(a, j) == job[j].status = "running"
AfterSubmitDropsResult(row) == [row EXCEPT !.status = "succeeded"]
EndJobUnmarked(w, j, outcome) == [w EXCEPT !.phase = "next", !.todo = Tail(@)]
AfterFailureStopped == [NoBatch EXCEPT !.phase = "stopped"]
AfterPublishRetried(w, j, raised) ==
    IF raised THEN [w EXCEPT !.phase = "onchain"]
    ELSE [w EXCEPT !.phase = "next", !.todo = Tail(@)]

-----------------------------------------------------------------------------
Init ==
    /\ job = [j \in Jobs |-> NoRow]
    /\ lock = [j \in Jobs |-> NoHolder]
    /\ worker = NoBatch
    /\ request = [q \in Requests |-> NoRequest]
    /\ scores = [j \in Jobs |-> 0]
    /\ awards = [j \in Jobs |-> [a \in Agents |-> 0]]
    /\ onchain = [j \in Jobs |-> 0]
    /\ events = [j \in Jobs |-> 0]
    /\ failures = 0
    /\ claimants = [j \in Jobs |-> {}]

Unlocked(h) == [j \in Jobs |-> IF lock[j] = h THEN NoHolder ELSE lock[j]]

\* create_scan: the agent column is whatever name the client sends.
CreateScan(j, name) ==
    /\ job[j].status = "none"
    /\ \A i \in 1 .. j - 1 : job[i].status # "none"
    /\ job' = [job EXCEPT ![j] = [NoRow EXCEPT !.status = "queued", !.agent = name]]
    /\ UNCHANGED <<lock, worker, request, scores, awards, onchain, events, failures,
                   claimants>>

-----------------------------------------------------------------------------
\* The worker.
Pollable == {j \in Jobs : job[j].status = "queued"}

\* order_by(created_at).limit(5): of the queued jobs the oldest, in their order.
OldestFirst ==
    {batch \in UNION {[1 .. n -> Pollable] : n \in 1 .. BatchSize} :
        /\ \A i, k \in DOMAIN batch : i < k => batch[i] < batch[k]
        /\ \A j \in Pollable \ {batch[i] : i \in DOMAIN batch} :
              Len(batch) = BatchSize /\ \A i \in DOMAIN batch : batch[i] < j}

\* A poll that finds nothing changes nothing.
Poll ==
    /\ worker.phase = "idle"
    /\ \E batch \in OldestFirst : worker' = [NoBatch EXCEPT !.phase = "next", !.todo = batch]
    /\ UNCHANGED <<job, lock, request, scores, awards, onchain, events, failures, claimants>>

\* status = "running", flushed: it takes the row's lock, whatever the row has become.
StartJob ==
    /\ worker.phase = "next"
    /\ worker.todo # <<>>
    /\ lock[Head(worker.todo)] = NoHolder
    /\ lock' = [lock EXCEPT ![Head(worker.todo)] = Worker]
    /\ worker' = [worker EXCEPT !.phase = "analyze"]
    /\ UNCHANGED <<job, request, scores, awards, onchain, events, failures, claimants>>

EndJob(w, j, outcome) ==
    [w EXCEPT !.phase = "next", !.todo = Tail(@), !.outcome[j] = outcome]

\* The analysis scores the contract, or the contract, its address or the analysis is missing.
Analyze(found) ==
    LET j == Head(worker.todo)
    IN  /\ worker.phase = "analyze"
        /\ worker' = IF found
                     THEN [worker EXCEPT !.phase = "onchain", !.scored = @ \cup {j},
                                         !.outcome[j] = "succeeded"]
                     ELSE EndJob(worker, j, "failed")
        /\ UNCHANGED <<job, lock, request, scores, awards, onchain, events, failures,
                       claimants>>

\* submit_score_onchain returns whether or not the transaction was sent.  The signature
\* put into job.result after the flush is no change to the ORM and is lost.
SubmitOnchain(sent) ==
    /\ worker.phase = "onchain"
    /\ onchain' = IF sent THEN [onchain EXCEPT ![Head(worker.todo)] = @ + 1] ELSE onchain
    /\ worker' = [worker EXCEPT !.phase = "publish"]
    /\ UNCHANGED <<job, lock, request, scores, awards, events, failures, claimants>>

\* A publish that raises fails the job, whose score stays in the transaction.
AfterPublish(w, j, raised) == EndJob(w, j, IF raised THEN "failed" ELSE "succeeded")

\* publish_event writes to two Redis channels, nile:events first; either may raise.
PublishCompleted(delivered, raised) ==
    LET j == Head(worker.todo)
    IN  /\ worker.phase = "publish"
        /\ delivered \/ raised
        /\ events' = IF delivered THEN [events EXCEPT ![j] = @ + 1] ELSE events
        /\ worker' = AfterPublish(worker, j, raised)
        /\ UNCHANGED <<job, lock, request, scores, awards, onchain, failures, claimants>>

\* The row of a processed job once the batch commits.
AfterBatch(row, outcome, scored) ==
    [row EXCEPT !.status = outcome, !.result = IF scored THEN "analysis" ELSE @]

CommitBatch ==
    /\ worker.phase = "next"
    /\ worker.todo = <<>>
    /\ job' = [j \in Jobs |-> IF worker.outcome[j] = "none" THEN job[j]
                              ELSE AfterBatch(job[j], worker.outcome[j], j \in worker.scored)]
    /\ scores' = [j \in Jobs |-> IF j \in worker.scored THEN scores[j] + 1 ELSE scores[j]]
    /\ lock' = Unlocked(Worker)
    /\ worker' = NoBatch
    /\ UNCHANGED <<request, awards, onchain, events, failures, claimants>>

\* run_worker logs, sleeps and polls again; a restarted container starts there too.
AfterFailure == NoBatch

\* A crash, or a database error, which the handler's own flush raises again: the
\* whole batch is rolled back.
LoseBatch ==
    /\ worker.phase # "idle"
    /\ failures < MaxFailures
    /\ failures' = failures + 1
    /\ lock' = Unlocked(Worker)
    /\ worker' = AfterFailure
    /\ UNCHANGED <<job, request, scores, awards, onchain, events, claimants>>

-----------------------------------------------------------------------------
\* The agents.
MayClaim(j) == job[j].status = "queued"
MaySubmit(a, j) == job[j].status = "running" /\ job[j].agent = a

ReadTask(q, kind, a, j) ==
    /\ request[q].phase = "idle"
    /\ IF kind = "claim" THEN MayClaim(j) ELSE MaySubmit(a, j)
    /\ request' = [request EXCEPT ![q] = [phase |-> "read", kind |-> kind, agent |-> a,
                                          job |-> j, seen |-> job[j]]]
    /\ UNCHANGED <<job, lock, worker, scores, awards, onchain, events, failures, claimants>>

FlushTask(q) ==
    /\ request[q].phase = "read"
    /\ lock[request[q].job] = NoHolder
    /\ lock' = [lock EXCEPT ![request[q].job] = q]
    /\ request' = [request EXCEPT ![q].phase = "flushed"]
    /\ UNCHANGED <<job, worker, scores, awards, onchain, events, failures, claimants>>

\* The agent column is written only where it differs from the one read.
AfterClaim(row, seen, a) ==
    [row EXCEPT !.status = "running", !.agent = IF seen.agent = a THEN @ ELSE a]

AfterSubmit(row) == [row EXCEPT !.status = "succeeded", !.result = "submission"]

CommitClaim(q) ==
    LET r == request[q]
    IN  /\ r.phase = "flushed"
        /\ r.kind = "claim"
        /\ job' = [job EXCEPT ![r.job] = AfterClaim(@, r.seen, r.agent)]
        /\ claimants' = [claimants EXCEPT ![r.job] = @ \cup {r.agent}]
        /\ lock' = Unlocked(q)
        /\ request' = [request EXCEPT ![q] = NoRequest]
        /\ UNCHANGED <<worker, scores, awards, onchain, events, failures>>

CommitSubmit(q) ==
    LET r == request[q]
    IN  /\ r.phase = "flushed"
        /\ r.kind = "submit"
        /\ job' = [job EXCEPT ![r.job] = AfterSubmit(@)]
        /\ awards' = [awards EXCEPT ![r.job][r.agent] = @ + 1]
        /\ lock' = Unlocked(q)
        /\ request' = [request EXCEPT ![q] = NoRequest]
        /\ UNCHANGED <<worker, scores, onchain, events, failures, claimants>>

\* The client has gone, Redis refuses the event, the API worker is killed.
AbortTask(q) ==
    /\ request[q].phase # "idle"
    /\ lock' = Unlocked(q)
    /\ request' = [request EXCEPT ![q] = NoRequest]
    /\ UNCHANGED <<job, worker, scores, awards, onchain, events, failures, claimants>>

-----------------------------------------------------------------------------
Next ==
    \/ \E j \in Jobs, name \in Agents \cup {NoAgent} : CreateScan(j, name)
    \/ Poll
    \/ StartJob
    \/ \E found \in BOOLEAN : Analyze(found)
    \/ \E sent \in BOOLEAN : SubmitOnchain(sent)
    \/ \E delivered, raised \in BOOLEAN : PublishCompleted(delivered, raised)
    \/ CommitBatch
    \/ LoseBatch
    \/ \E q \in Requests, kind \in {"claim", "submit"}, a \in Agents, j \in Jobs :
          ReadTask(q, kind, a, j)
    \/ \E q \in Requests : FlushTask(q) \/ CommitClaim(q) \/ CommitSubmit(q) \/ AbortTask(q)

\* The worker's loop never returns and each of its awaits ends; PostgreSQL grants a
\* row lock in the order it was asked for; a request that holds one commits or is
\* rolled back.  Nothing makes an agent submit what it claimed.
Fairness ==
    /\ WF_vars(Poll)
    /\ SF_vars(StartJob)
    /\ WF_vars(\E found \in BOOLEAN : Analyze(found))
    /\ WF_vars(\E sent \in BOOLEAN : SubmitOnchain(sent))
    /\ WF_vars(\E delivered, raised \in BOOLEAN : PublishCompleted(delivered, raised))
    /\ WF_vars(CommitBatch)
    /\ \A q \in Requests :
          WF_vars(request[q].phase = "flushed" /\ (CommitClaim(q) \/ CommitSubmit(q) \/ AbortTask(q)))

Spec == Init /\ [][Next]_vars /\ Fairness

-----------------------------------------------------------------------------
\* Rows and transactions have their types, and a row's lock is held exactly by the
\* transaction that has written the row and not ended.
TypeOK ==
    /\ job \in [Jobs -> Row]
    /\ lock \in [Jobs -> Requests \cup {Worker, NoHolder}]
    /\ worker \in WorkerState
    /\ request \in [Requests -> Request]
    /\ scores \in [Jobs -> Nat]
    /\ awards \in [Jobs -> [Agents -> Nat]]
    /\ onchain \in [Jobs -> Nat]
    /\ events \in [Jobs -> Nat]
    /\ failures \in 0 .. MaxFailures
    /\ claimants \in [Jobs -> SUBSET Agents]
    /\ \A j \in Jobs, q \in Requests :
          lock[j] = q <=> request[q].phase = "flushed" /\ request[q].job = j
    /\ \A j \in Jobs :
          lock[j] = Worker <=>
             \/ worker.outcome[j] # "none"
             \/ /\ worker.phase \in {"analyze", "onchain", "publish"}
                /\ j = Head(worker.todo)

\* A job is scored at most once, although the worker never checks a row again after
\* it polled and stale claims set finished jobs running: none of them requeues one.
ScoredOnce == \A j \in Jobs : scores[j] <= 1

\* A job that has left the queue never comes back to it, whether its batch failed or
\* a claim of it was overwritten.
NeverRequeued ==
    [][\A j \in Jobs : job[j].status \notin {"none", "queued"} => job'[j].status # "queued"]_vars

\* A job is succeeded only with a committed score of the worker or an award to an
\* agent to show for it, and the result column holds what one of them produced.
SuccessHasWork ==
    \A j \in Jobs :
        job[j].status = "succeeded" =>
            /\ scores[j] > 0 \/ \E a \in Agents : awards[j][a] > 0
            /\ job[j].result = "analysis" => scores[j] > 0
            /\ job[j].result = "submission" => \E a \in Agents : awards[j][a] > 0
            /\ job[j].result # "none"

\* Only an agent that was told it had claimed a job is ever awarded for it, whatever
\* name the job was created with and whoever claimed it at the same time.
AwardedOnlyToClaimants ==
    \A j \in Jobs, a \in Agents : awards[j][a] > 0 => a \in claimants[j]

\* What leaves the transaction is repeated only by batches that were lost: at most
\* one transaction on chain and one message for a job beyond their number.
RepeatsOnlyLostBatches ==
    \A j \in Jobs : onchain[j] <= 1 + failures /\ events[j] <= 1 + failures

\* Every queued job is worked on in the end, by the worker or by an agent, if batches
\* stop being lost.
EveryJobTaken == \A j \in Jobs : job[j].status = "queued" ~> job[j].status # "queued"
=============================================================================
