-------------------------- MODULE ScanJobs_proofs --------------------------
(***************************************************************************)
(* Proofs about ScanJobs, for every set of agents and requests, every      *)
(* batch size, and every number of jobs and of lost batches.               *)
(***************************************************************************)
EXTENDS ScanJobs, SequenceTheorems, TLAPS

-----------------------------------------------------------------------------
\* The invariant behind the theorems.  What the worker and the requests carry
\* from one step to the next:

Elements(s) == {s[i] : i \in DOMAIN s}
Distinct(s) == \A i, k \in DOMAIN s : s[i] = s[k] => i = k

Busy == {"analyze", "onchain", "publish"}
Recorded == {"onchain", "publish"}

\* The jobs of the batch still to be worked on, each once.  The one under way has its
\* outcome recorded before it is sent to the chain.
BatchConsistent ==
    /\ worker.phase = "idle" => worker = NoBatch
    /\ worker.phase \in Busy => worker.todo # <<>>
    /\ Distinct(worker.todo)
    /\ \A j \in Elements(worker.todo) :
          ~(worker.phase \in Recorded /\ j = Head(worker.todo)) =>
              worker.outcome[j] = "none" /\ j \notin worker.scored
    /\ worker.phase \in Recorded =>
          /\ worker.outcome[Head(worker.todo)] = "succeeded"
          /\ Head(worker.todo) \in worker.scored
    /\ \A j \in Jobs : worker.outcome[j] = "succeeded" => j \in worker.scored
    /\ \A j \in worker.scored : worker.outcome[j] # "none"

\* A request under way is an agent's, about a job it has read.
RequestsHaveJobs ==
    \A q \in Requests :
        request[q].phase # "idle" =>
            /\ request[q].agent \in Agents
            /\ request[q].job \in Jobs
            /\ job[request[q].job].status # "none"

TInv == TypeOK /\ BatchConsistent /\ RequestsHaveJobs

\* Neither the batch nor the queue holds a job that has been scored.
ScoredLeft ==
    \A j \in Jobs :
        /\ scores[j] <= 1
        /\ scores[j] > 0 =>
              /\ job[j].status \notin {"none", "queued"}
              /\ j \notin Elements(worker.todo)
              /\ j \notin worker.scored

\* The result column tells who produced it.
ResultHasWork ==
    \A j \in Jobs :
        /\ job[j].result = "analysis" => scores[j] > 0
        /\ job[j].result = "submission" => \E a \in Agents : awards[j][a] > 0
        /\ job[j].status = "succeeded" => job[j].result # "none"

\* A running job is in the name of somebody who was told so, a submission is by such
\* an agent, and a claim that will leave the agent column alone can do so: the name it read is
\* there still, or that of a claimant.
ClaimsAreKnown ==
    /\ AwardedOnlyToClaimants
    /\ \A j \in Jobs : job[j].status = "running" => job[j].agent \in claimants[j]
    /\ \A q \in Requests :
          LET r == request[q]
          IN  /\ r.phase # "idle" /\ r.kind = "submit" => r.agent \in claimants[r.job]
              /\ r.phase # "idle" /\ r.kind = "claim" =>
                     \/ r.seen.agent = job[r.job].agent
                     \/ job[r.job].agent \in claimants[r.job]

\* A job whose transaction this batch has still to send, or that no batch has taken;
\* likewise for its message.
Unsent(j, sending) ==
    \/ job[j].status \in {"none", "queued"} /\ worker.outcome[j] = "none"
    \/ /\ j \in Elements(worker.todo)
       /\ worker.phase \in sending \/ j # Head(worker.todo)

SendsCounted ==
    \A j \in Jobs :
        /\ onchain[j] <= 1 + failures /\ events[j] <= 1 + failures
        /\ Unsent(j, {"next", "analyze", "onchain"}) => onchain[j] <= failures
        /\ Unsent(j, {"next", "analyze", "onchain", "publish"}) => events[j] <= failures

\* All of it.
SInv == TInv /\ ScoredLeft /\ ResultHasWork /\ ClaimsAreKnown /\ SendsCounted

-----------------------------------------------------------------------------
\* The sequences of jobs.

\* What is left of a sequence without repetitions once its head is taken.
LEMMA TailElements ==
    ASSUME NEW S, NEW s \in Seq(S), s # <<>>, Distinct(s)
    PROVE  /\ Head(s) \in S /\ Head(s) \in Elements(s)
           /\ Tail(s) \in Seq(S)
           /\ Elements(Tail(s)) = Elements(s) \ {Head(s)}
           /\ Distinct(Tail(s))
<1>1. /\ Head(s) \in S /\ Tail(s) \in Seq(S)
      /\ Len(Tail(s)) = Len(s) - 1
      /\ \A i \in 1 .. Len(Tail(s)) : Tail(s)[i] = s[i + 1]
  BY HeadTailProperties
<1>2. Len(s) \in Nat \ {0} /\ DOMAIN s = 1 .. Len(s) /\ Head(s) = s[1]
  BY EmptySeq, LenProperties
<1>3. DOMAIN Tail(s) = 1 .. Len(s) - 1
  BY <1>1, LenProperties
<1>4. \A i \in 1 .. Len(s) - 1 : Tail(s)[i] = s[i + 1] /\ i + 1 \in 1 .. Len(s)
  BY <1>1, <1>2
<1>5. Head(s) \in Elements(s)
  BY <1>2 DEF Elements
<1>6. Distinct(Tail(s))
  <2> SUFFICES ASSUME NEW i \in 1 .. Len(s) - 1, NEW k \in 1 .. Len(s) - 1,
                      Tail(s)[i] = Tail(s)[k]
               PROVE  i = k
    BY <1>3 DEF Distinct
  <2>1. s[i + 1] = s[k + 1]
    BY <1>4
  <2>2. i + 1 = k + 1
    BY <1>2, <1>4, <2>1 DEF Distinct
  <2> QED
    BY <2>2, <1>2
<1>7. ASSUME NEW x \in Elements(Tail(s)) PROVE x \in Elements(s) \ {Head(s)}
  <2>1. PICK i \in 1 .. Len(s) - 1 : x = Tail(s)[i]
    BY <1>3, <1>7 DEF Elements
  <2>2. x = s[i + 1] /\ i + 1 \in 1 .. Len(s) /\ i + 1 # 1
    BY <1>4, <2>1
  <2> QED
    BY <1>2, <2>2 DEF Elements, Distinct
<1>8. ASSUME NEW x \in Elements(s), x # Head(s) PROVE x \in Elements(Tail(s))
  <2>1. PICK i \in 1 .. Len(s) : x = s[i]
    BY <1>2, <1>8 DEF Elements
  <2>2. i - 1 \in 1 .. Len(s) - 1 /\ (i - 1) + 1 = i
    BY <1>2, <1>8, <2>1
  <2>3. Tail(s)[i - 1] = x
    BY <1>4, <2>1, <2>2
  <2> QED
    BY <1>3, <2>2, <2>3 DEF Elements
<1> QED
  BY <1>1, <1>5, <1>6, <1>7, <1>8

\* A polled batch holds queued jobs, each once.
LEMMA BatchOfQueued ==
    ASSUME NEW batch \in OldestFirst
    PROVE  /\ batch \in Seq(Jobs)
           /\ Elements(batch) \subseteq Pollable
           /\ Distinct(batch)
<1>1. PICK n \in 1 .. BatchSize : batch \in [1 .. n -> Pollable]
  BY DEF OldestFirst
<1>2. n \in Nat /\ Pollable \subseteq Jobs
  BY ScanAssumption DEF Pollable
<1>3. batch \in Seq(Jobs)
  <2>1. batch \in [1 .. n -> Jobs]
    BY <1>1, <1>2
  <2> QED
    BY <1>2, <2>1, SeqDef
<1>4. Distinct(batch)
  <2> SUFFICES ASSUME NEW i \in 1 .. n, NEW k \in 1 .. n, batch[i] = batch[k], i # k
               PROVE  FALSE
    BY <1>1 DEF Distinct
  <2>1. batch[i] \in Int /\ batch[k] \in Int /\ i \in Int /\ k \in Int
    <3>1. batch[i] \in Jobs /\ batch[k] \in Jobs
      BY <1>1, <1>2
    <3>2. \A j \in Jobs : j \in Int
      BY ScanAssumption DEF Jobs
    <3>3. i \in Int /\ k \in Int
      BY <1>2
    <3> QED
      BY <3>1, <3>2, <3>3
  <2>2. \A x, y \in 1 .. n : x < y => batch[x] < batch[y]
    BY <1>1 DEF OldestFirst
  <2>3. i < k \/ k < i
    BY <2>1
  <2> QED
    BY <2>1, <2>2, <2>3
<1> QED
  BY <1>1, <1>3, <1>4 DEF Elements

\* The job the worker is at.
LEMMA JobUnderWay ==
    ASSUME TInv, worker.todo # <<>>
    PROVE  /\ Head(worker.todo) \in Jobs
           /\ Head(worker.todo) \in Elements(worker.todo)
           /\ Tail(worker.todo) \in Seq(Jobs)
           /\ Elements(Tail(worker.todo)) = Elements(worker.todo) \ {Head(worker.todo)}
           /\ Distinct(Tail(worker.todo))
<1>1. worker.todo \in Seq(Jobs) /\ Distinct(worker.todo)
  BY DEF TInv, TypeOK, WorkerState, BatchConsistent
<1> QED
  BY <1>1, TailElements

\* Nothing is in an empty batch.
LEMMA EmptyBatch == Elements(<<>>) = {} /\ Distinct(<<>>) /\ <<>> \in Seq(Jobs)
  BY EmptySeq DEF Elements, Distinct

-----------------------------------------------------------------------------
\* Types and what the worker and the requests carry, action by action.

LEMMA NoBatchType == NoBatch \in WorkerState /\ NoRow \in Row /\ NoRequest \in Request
<1>1. <<>> \in Seq(Jobs) /\ 0 \in 0 .. MaxJobs
  BY EmptyBatch, ScanAssumption
<1> QED
  BY <1>1 DEF NoBatch, WorkerState, NoRow, Row, NoRequest, Request, Ended

LEMMA InitTypes == Init => TInv
<1> SUFFICES ASSUME Init PROVE TInv
  OBVIOUS
<1>1. TypeOK
  <2>1. failures \in 0 .. MaxFailures
    BY ScanAssumption DEF Init
  <2>2. /\ job \in [Jobs -> Row] /\ lock \in [Jobs -> Requests \cup {Worker, NoHolder}]
        /\ worker \in WorkerState /\ request \in [Requests -> Request]
    BY NoBatchType DEF Init
  <2>3. \A j \in Jobs : lock[j] = NoHolder /\ worker.outcome[j] = "none"
    BY DEF Init, NoBatch
  <2>4. worker.phase = "idle" /\ \A q \in Requests : request[q].phase = "idle"
    BY DEF Init, NoBatch, NoRequest
  <2> QED
    BY <2>1, <2>2, <2>3, <2>4, ScanAssumption DEF TypeOK, Init
<1>2. BatchConsistent
  BY EmptyBatch DEF Init, BatchConsistent, NoBatch, Busy, Recorded
<1>3. RequestsHaveJobs
  BY DEF Init, RequestsHaveJobs, NoRequest
<1> QED
  BY <1>1, <1>2, <1>3 DEF TInv

LEMMA CreateTypes ==
    ASSUME TInv, NEW j \in Jobs, NEW name \in Agents \cup {NoAgent}, CreateScan(j, name)
    PROVE  TInv'
<1>1. /\ [NoRow EXCEPT !.status = "queued", !.agent = name] \in Row
      /\ [NoRow EXCEPT !.status = "queued", !.agent = name].status = "queued"
  BY DEF NoRow, Row
<1>2. job' \in [Jobs -> Row] /\ \A i \in Jobs : job[i].status # "none" => job'[i].status # "none"
  BY <1>1 DEF CreateScan, TInv, TypeOK
<1>3. TypeOK'
  BY <1>2 DEF CreateScan, TInv, TypeOK
<1>4. BatchConsistent' /\ RequestsHaveJobs'
  BY <1>2 DEF CreateScan, TInv, BatchConsistent, RequestsHaveJobs
<1> QED
  BY <1>3, <1>4 DEF TInv

LEMMA PollTypes ==
    ASSUME TInv, Poll
    PROVE  TInv'
<1>1. worker = NoBatch
  BY DEF Poll, TInv, BatchConsistent
<1>2. PICK batch \in OldestFirst :
            worker' = [NoBatch EXCEPT !.phase = "next", !.todo = batch]
  BY DEF Poll
<1>3. batch \in Seq(Jobs) /\ Distinct(batch)
  BY BatchOfQueued
<1>4. /\ worker' \in WorkerState
      /\ worker'.phase = "next" /\ worker'.todo = batch
      /\ worker'.outcome = worker.outcome /\ worker'.scored = {}
      /\ \A j \in Jobs : worker.outcome[j] = "none"
      /\ worker.phase = "idle"
  BY <1>1, <1>2, <1>3, NoBatchType DEF NoBatch, WorkerState
<1>5. TypeOK'
  BY <1>4 DEF Poll, TInv, TypeOK
<1>6. BatchConsistent'
  <2>1. Elements(batch) \subseteq Jobs
    BY BatchOfQueued DEF Pollable
  <2> QED
    BY <1>3, <1>4, <2>1 DEF BatchConsistent, Busy, Recorded
<1>7. RequestsHaveJobs'
  BY DEF Poll, TInv, RequestsHaveJobs
<1> QED
  BY <1>5, <1>6, <1>7 DEF TInv

LEMMA StartTypes ==
    ASSUME TInv, StartJob
    PROVE  TInv'
<1> PICK h : h = Head(worker.todo)
  OBVIOUS
<1>1. h \in Jobs /\ h \in Elements(worker.todo)
  BY JobUnderWay DEF StartJob
<1>2. /\ worker' \in WorkerState
      /\ worker'.phase = "analyze" /\ worker'.todo = worker.todo
      /\ worker'.outcome = worker.outcome /\ worker'.scored = worker.scored
      /\ worker.phase = "next" /\ worker.todo # <<>>
  BY DEF StartJob, TInv, TypeOK, WorkerState
<1>3. lock' = [lock EXCEPT ![h] = Worker] /\ lock[h] = NoHolder
  BY DEF StartJob
<1>4. TypeOK'
  <2>1. lock' \in [Jobs -> Requests \cup {Worker, NoHolder}]
    BY <1>1, <1>3 DEF TInv, TypeOK
  <2>2. \A j \in Jobs, q \in Requests :
           lock'[j] = q <=> request'[q].phase = "flushed" /\ request'[q].job = j
    BY <1>1, <1>3, ScanAssumption DEF StartJob, TInv, TypeOK
  <2>3. \A j \in Jobs : lock'[j] = Worker <=> worker'.outcome[j] # "none" \/ j = h
    BY <1>1, <1>2, <1>3, ScanAssumption DEF TInv, TypeOK
  <2> QED
    BY <1>2, <2>1, <2>2, <2>3 DEF StartJob, TInv, TypeOK
<1>5. BatchConsistent'
  BY <1>2 DEF TInv, BatchConsistent, Busy, Recorded
<1>6. RequestsHaveJobs'
  BY DEF StartJob, TInv, RequestsHaveJobs
<1> QED
  BY <1>4, <1>5, <1>6 DEF TInv

\* The worker is done with the job it is at.
LEMMA EndJobState ==
    ASSUME TInv, worker.phase \in Busy, NEW h, h = Head(worker.todo), NEW o \in Ended
    PROVE  /\ EndJob(worker, h, o) \in WorkerState
           /\ EndJob(worker, h, o).phase = "next"
           /\ EndJob(worker, h, o).todo = Tail(worker.todo)
           /\ EndJob(worker, h, o).outcome = [worker.outcome EXCEPT ![h] = o]
           /\ EndJob(worker, h, o).scored = worker.scored
           /\ h \in Jobs
<1>1. worker.todo # <<>> /\ worker \in WorkerState
  BY DEF TInv, TypeOK, BatchConsistent
<1>2. h \in Jobs /\ Tail(worker.todo) \in Seq(Jobs)
  BY <1>1, JobUnderWay
<1> QED
  BY <1>1, <1>2 DEF EndJob, WorkerState

\* Ending a job, or recording that it was scored, keeps the batch consistent.
LEMMA EndJobTypes ==
    ASSUME TInv, worker.phase \in Busy, NEW h, h = Head(worker.todo), NEW o \in Ended,
           worker' = EndJob(worker, h, o),
           o = "failed" \/ worker.phase \in Recorded,
           UNCHANGED <<job, lock, request, scores, awards, failures, claimants>>,
           onchain' \in [Jobs -> Nat], events' \in [Jobs -> Nat]
    PROVE  TInv'
<1>1. /\ worker' \in WorkerState /\ worker \in WorkerState
      /\ worker'.phase = "next" /\ worker'.todo = Tail(worker.todo)
      /\ worker'.outcome = [worker.outcome EXCEPT ![h] = o]
      /\ worker'.scored = worker.scored
      /\ h \in Jobs /\ worker.todo # <<>>
  BY EndJobState DEF TInv, TypeOK, BatchConsistent
<1>2. /\ Elements(Tail(worker.todo)) = Elements(worker.todo) \ {h}
      /\ Distinct(Tail(worker.todo))
  BY <1>1, JobUnderWay
<1>3. /\ worker'.outcome[h] = o /\ o # "none"
      /\ \A j \in Jobs : j # h => worker'.outcome[j] = worker.outcome[j]
  BY <1>1 DEF WorkerState, Ended
<1>4. TypeOK'
  <2>1. \A j \in Jobs : lock'[j] = Worker <=> worker'.outcome[j] # "none"
    <3>1. \A j \in Jobs : lock[j] = Worker <=> worker.outcome[j] # "none" \/ j = h
      BY DEF TInv, TypeOK, Busy
    <3> QED
      BY <1>3, <3>1
  <2> QED
    BY <1>1, <2>1 DEF TInv, TypeOK
<1>5. BatchConsistent'
  <2>1. worker'.phase \notin Busy /\ worker'.phase \notin Recorded /\ worker'.phase # "idle"
    BY <1>1 DEF Busy, Recorded
  <2>2. ASSUME NEW j \in Elements(worker'.todo)
        PROVE  worker'.outcome[j] = "none" /\ j \notin worker'.scored
    <3>1. j \in Elements(worker.todo) /\ j # h /\ j \in Jobs
      <4>1. Elements(worker.todo) \subseteq Jobs
        BY <1>1, LenProperties DEF Elements, WorkerState
      <4> QED
        BY <1>1, <1>2, <2>2, <4>1
    <3> QED
      BY <1>1, <1>3, <3>1 DEF TInv, BatchConsistent
  <2>3. \A j \in Jobs : worker'.outcome[j] = "succeeded" => j \in worker'.scored
    BY <1>1, <1>3 DEF TInv, BatchConsistent
  <2>4. \A j \in worker'.scored : worker'.outcome[j] # "none"
    BY <1>1, <1>3 DEF TInv, BatchConsistent, WorkerState
  <2> QED
    BY <1>1, <1>2, <2>1, <2>2, <2>3, <2>4 DEF BatchConsistent
<1>6. RequestsHaveJobs'
  BY DEF TInv, RequestsHaveJobs
<1> QED
  BY <1>4, <1>5, <1>6 DEF TInv

LEMMA AnalyzeTypes ==
    ASSUME TInv, NEW found \in BOOLEAN, Analyze(found)
    PROVE  TInv'
<1> PICK h : h = Head(worker.todo)
  OBVIOUS
<1>1. /\ worker.phase = "analyze" /\ worker.phase \in Busy /\ worker \in WorkerState
      /\ UNCHANGED <<job, lock, request, scores, awards, onchain, events, failures, claimants>>
  BY DEF Analyze, Busy, TInv, TypeOK
<1>2. h \in Jobs /\ h \in Elements(worker.todo) /\ worker.todo # <<>>
  BY <1>1, JobUnderWay DEF TInv, BatchConsistent
<1>3. CASE ~found
  <2>1. worker' = EndJob(worker, h, "failed")
    BY <1>3 DEF Analyze
  <2> QED
    BY <1>1, <2>1, EndJobTypes DEF Ended, TInv, TypeOK
<1>4. CASE found
  <2>1. /\ worker' \in WorkerState
        /\ worker'.phase = "onchain" /\ worker'.todo = worker.todo
        /\ worker'.scored = worker.scored \cup {h}
        /\ worker'.outcome = [worker.outcome EXCEPT ![h] = "succeeded"]
    BY <1>1, <1>2, <1>4 DEF Analyze, WorkerState, Ended
  <2>2. /\ worker'.outcome[h] = "succeeded"
        /\ \A j \in Jobs : j # h => worker'.outcome[j] = worker.outcome[j]
    BY <1>1, <1>2, <2>1 DEF WorkerState
  <2>3. TypeOK'
    <3>1. \A j \in Jobs : lock'[j] = Worker <=> worker'.outcome[j] # "none" \/ j = h
      BY <1>1, <1>2, <2>2 DEF TInv, TypeOK
    <3> QED
      BY <1>1, <2>1, <3>1 DEF TInv, TypeOK
  <2>4. BatchConsistent'
    <3>1. Elements(worker.todo) \subseteq Jobs
      BY <1>1, LenProperties DEF Elements, WorkerState
    <3>2. \A j \in Elements(worker.todo) :
             j # h => worker'.outcome[j] = "none" /\ j \notin worker'.scored
      BY <1>1, <2>1, <2>2, <3>1 DEF TInv, BatchConsistent, Recorded
    <3>3. worker.scored \subseteq Jobs
      BY <1>1 DEF WorkerState
    <3> QED
      BY <1>1, <1>2, <2>1, <2>2, <3>2, <3>3 DEF TInv, BatchConsistent, Recorded, Busy
  <2>5. RequestsHaveJobs'
    BY <1>1 DEF TInv, RequestsHaveJobs
  <2> QED
    BY <2>3, <2>4, <2>5 DEF TInv
<1> QED
  BY <1>3, <1>4

LEMMA SubmitOnchainTypes ==
    ASSUME TInv, NEW sent \in BOOLEAN, SubmitOnchain(sent)
    PROVE  TInv'
<1>1. /\ worker' \in WorkerState
      /\ worker'.phase = "publish" /\ worker'.todo = worker.todo
      /\ worker'.outcome = worker.outcome /\ worker'.scored = worker.scored
      /\ worker.phase = "onchain"
  BY DEF SubmitOnchain, TInv, TypeOK, WorkerState
<1>2. Head(worker.todo) \in Jobs
  BY <1>1, JobUnderWay DEF TInv, BatchConsistent, Busy
<1>3. onchain' \in [Jobs -> Nat]
  BY <1>2 DEF SubmitOnchain, TInv, TypeOK
<1>4. TypeOK'
  BY <1>1, <1>3 DEF SubmitOnchain, TInv, TypeOK
<1>5. BatchConsistent'
  BY <1>1 DEF TInv, BatchConsistent, Busy, Recorded
<1>6. RequestsHaveJobs'
  BY DEF SubmitOnchain, TInv, RequestsHaveJobs
<1> QED
  BY <1>4, <1>5, <1>6 DEF TInv

LEMMA PublishTypes ==
    ASSUME TInv, NEW delivered \in BOOLEAN, NEW raised \in BOOLEAN,
           PublishCompleted(delivered, raised)
    PROVE  TInv'
<1> PICK h : h = Head(worker.todo)
  OBVIOUS
<1>1. /\ worker.phase = "publish" /\ worker.phase \in Busy /\ worker.phase \in Recorded
      /\ UNCHANGED <<job, lock, request, scores, awards, onchain, failures, claimants>>
  BY DEF PublishCompleted, Busy, Recorded
<1>2. h \in Jobs
  BY <1>1, JobUnderWay DEF TInv, BatchConsistent
<1>3. events' \in [Jobs -> Nat] /\ onchain' \in [Jobs -> Nat]
  BY <1>1, <1>2 DEF PublishCompleted, TInv, TypeOK
<1>4. PICK o \in Ended : worker' = EndJob(worker, h, o)
  BY DEF PublishCompleted, AfterPublish, Ended
<1> QED
  BY <1>1, <1>3, <1>4, EndJobTypes

\* The rows after the batch, and the locks once a transaction has ended.
LEMMA UnlockedHolders ==
    ASSUME TypeOK, NEW x \in Requests \cup {Worker}
    PROVE  /\ Unlocked(x) \in [Jobs -> Requests \cup {Worker, NoHolder}]
           /\ \A j \in Jobs, y \in Requests \cup {Worker} :
                 Unlocked(x)[j] = y <=> lock[j] = y /\ y # x
  BY ScanAssumption DEF Unlocked, TypeOK

LEMMA CommitBatchTypes ==
    ASSUME TInv, CommitBatch
    PROVE  TInv'
<1>1. worker \in WorkerState /\ worker.phase = "next" /\ worker' = NoBatch
  BY DEF CommitBatch, TInv, TypeOK
<1>2. ASSUME NEW j \in Jobs
      PROVE  job'[j] \in Row /\ (job[j].status # "none" => job'[j].status # "none")
  <2>1. job[j] \in Row /\ worker.outcome[j] \in {"none"} \cup Ended
    BY <1>1 DEF TInv, TypeOK, WorkerState
  <2> QED
    BY <2>1 DEF CommitBatch, AfterBatch, Row, Ended
<1>3. job' \in [Jobs -> Row]
  BY <1>2 DEF CommitBatch
<1>4. scores' \in [Jobs -> Nat]
  BY DEF CommitBatch, TInv, TypeOK
<1>5. /\ lock' \in [Jobs -> Requests \cup {Worker, NoHolder}]
      /\ \A j \in Jobs : lock'[j] # Worker
      /\ \A j \in Jobs, q \in Requests : lock'[j] = q <=> lock[j] = q
  BY UnlockedHolders, ScanAssumption DEF CommitBatch, TInv
<1>6. \A j \in Jobs : NoBatch.outcome[j] = "none" /\ NoBatch.phase = "idle"
  BY DEF NoBatch
<1>7. TypeOK'
  BY <1>1, <1>3, <1>4, <1>5, <1>6, NoBatchType DEF CommitBatch, TInv, TypeOK
<1>8. BatchConsistent'
  BY <1>1, EmptyBatch DEF BatchConsistent, NoBatch, Busy, Recorded
<1>9. RequestsHaveJobs'
  BY <1>2 DEF CommitBatch, TInv, RequestsHaveJobs
<1> QED
  BY <1>7, <1>8, <1>9 DEF TInv

LEMMA LoseBatchTypes ==
    ASSUME TInv, LoseBatch
    PROVE  TInv'
<1>1. worker' = NoBatch /\ failures' \in 0 .. MaxFailures
  BY ScanAssumption DEF LoseBatch, AfterFailure, TInv, TypeOK
<1>2. /\ lock' \in [Jobs -> Requests \cup {Worker, NoHolder}]
      /\ \A j \in Jobs : lock'[j] # Worker
      /\ \A j \in Jobs, q \in Requests : lock'[j] = q <=> lock[j] = q
  BY UnlockedHolders, ScanAssumption DEF LoseBatch, TInv
<1>3. \A j \in Jobs : NoBatch.outcome[j] = "none" /\ NoBatch.phase = "idle"
  BY DEF NoBatch
<1>4. TypeOK'
  BY <1>1, <1>2, <1>3, NoBatchType DEF LoseBatch, TInv, TypeOK
<1>5. BatchConsistent'
  BY <1>1, EmptyBatch DEF BatchConsistent, NoBatch, Busy, Recorded
<1>6. RequestsHaveJobs'
  BY DEF LoseBatch, TInv, RequestsHaveJobs
<1> QED
  BY <1>4, <1>5, <1>6 DEF TInv

LEMMA ReadTaskTypes ==
    ASSUME TInv, NEW q \in Requests, NEW kind \in {"claim", "submit"}, NEW a \in Agents,
           NEW j \in Jobs, ReadTask(q, kind, a, j)
    PROVE  TInv'
<1> DEFINE r == [phase |-> "read", kind |-> kind, agent |-> a, job |-> j, seen |-> job[j]]
<1>1. /\ job[j] \in Row /\ j \in 0 .. MaxJobs /\ job[j].status # "none"
      /\ request[q].phase = "idle"
  <2>1. job[j] \in Row /\ job[j].status # "none" /\ request[q].phase = "idle"
    BY DEF ReadTask, MayClaim, MaySubmit, TInv, TypeOK
  <2>2. j \in 0 .. MaxJobs
    BY ScanAssumption DEF Jobs
  <2> QED
    BY <2>1, <2>2
<1>2. r \in Request /\ request' = [request EXCEPT ![q] = r]
  BY <1>1 DEF ReadTask, Request
<1>3. TypeOK'
  BY <1>1, <1>2 DEF ReadTask, TInv, TypeOK
<1>4. BatchConsistent'
  BY DEF ReadTask, TInv, BatchConsistent
<1>5. RequestsHaveJobs'
  BY <1>1, <1>2 DEF ReadTask, TInv, TypeOK, RequestsHaveJobs
<1> QED
  BY <1>3, <1>4, <1>5 DEF TInv

LEMMA FlushTaskTypes ==
    ASSUME TInv, NEW q \in Requests, FlushTask(q)
    PROVE  TInv'
<1> PICK r : r = request[q]
  OBVIOUS
<1>1. r \in Request /\ r.phase = "read" /\ r.job \in Jobs /\ lock[r.job] = NoHolder
  BY DEF FlushTask, TInv, TypeOK, RequestsHaveJobs
<1>2. /\ request' = [request EXCEPT ![q] = [r EXCEPT !.phase = "flushed"]]
      /\ [r EXCEPT !.phase = "flushed"] \in Request
      /\ lock' = [lock EXCEPT ![r.job] = q]
  BY <1>1 DEF FlushTask, Request, TInv, TypeOK
<1>3. /\ request'[q] \in Request /\ request'[q].phase = "flushed" /\ request'[q].job = r.job
      /\ request'[q].agent = r.agent
      /\ \A p \in Requests : p # q => request'[p] = request[p]
  BY <1>1, <1>2 DEF Request, TInv, TypeOK
<1>4. TypeOK'
  <2>1. lock' \in [Jobs -> Requests \cup {Worker, NoHolder}]
    BY <1>1, <1>2 DEF TInv, TypeOK
  <2>2. request' \in [Requests -> Request]
    BY <1>2 DEF TInv, TypeOK
  <2>3. \A j \in Jobs, p \in Requests :
           lock'[j] = p <=> request'[p].phase = "flushed" /\ request'[p].job = j
    BY <1>1, <1>2, <1>3, ScanAssumption DEF TInv, TypeOK
  <2>4. \A j \in Jobs : lock'[j] = Worker <=> lock[j] = Worker
    BY <1>1, <1>2, ScanAssumption DEF TInv, TypeOK
  <2> QED
    BY <2>1, <2>2, <2>3, <2>4 DEF FlushTask, TInv, TypeOK
<1>5. BatchConsistent'
  BY DEF FlushTask, TInv, BatchConsistent
<1>6. RequestsHaveJobs'
  BY <1>1, <1>3 DEF FlushTask, TInv, RequestsHaveJobs
<1> QED
  BY <1>4, <1>5, <1>6 DEF TInv

\* What the end of a request leaves, whatever it wrote to its row.
LEMMA EndRequestTypes ==
    ASSUME TInv, NEW q \in Requests,
           request' = [request EXCEPT ![q] = NoRequest],
           lock' = Unlocked(q),
           UNCHANGED <<worker, scores, onchain, events, failures>>,
           job' \in [Jobs -> Row],
           \A j \in Jobs : job[j].status # "none" => job'[j].status # "none",
           awards' \in [Jobs -> [Agents -> Nat]],
           claimants' \in [Jobs -> SUBSET Agents]
    PROVE  TInv'
<1>1. /\ request' \in [Requests -> Request] /\ request'[q].phase = "idle"
      /\ \A p \in Requests : p # q => request'[p] = request[p]
  BY NoBatchType DEF NoRequest, TInv, TypeOK
<1>2. /\ lock' \in [Jobs -> Requests \cup {Worker, NoHolder}]
      /\ \A j \in Jobs : lock'[j] = Worker <=> lock[j] = Worker
      /\ \A j \in Jobs, p \in Requests : lock'[j] = p <=> lock[j] = p /\ p # q
  BY UnlockedHolders, ScanAssumption DEF TInv
<1>3. TypeOK'
  BY <1>1, <1>2 DEF TInv, TypeOK
<1>4. BatchConsistent'
  BY DEF TInv, BatchConsistent
<1>5. RequestsHaveJobs'
  BY <1>1 DEF TInv, RequestsHaveJobs
<1> QED
  BY <1>3, <1>4, <1>5 DEF TInv

\* The row a committing request leaves.
LEMMA CommittedTask ==
    ASSUME TInv, NEW q \in Requests, request[q].phase = "flushed"
    PROVE  /\ request[q].job \in Jobs /\ request[q].agent \in Agents
           /\ AfterClaim(job[request[q].job], request[q].seen, request[q].agent) \in Row
           /\ AfterSubmit(job[request[q].job]) \in Row
<1>1. request[q].job \in Jobs /\ request[q].agent \in Agents
  BY DEF TInv, RequestsHaveJobs
<1>2. job[request[q].job] \in Row
  BY <1>1 DEF TInv, TypeOK
<1> QED
  BY <1>1, <1>2 DEF AfterClaim, AfterSubmit, Row, Ended

LEMMA CommitClaimTypes ==
    ASSUME TInv, NEW q \in Requests, CommitClaim(q)
    PROVE  TInv'
<1> PICK r, new : /\ r = request[q]
                  /\ new = AfterClaim(job[r.job], r.seen, r.agent)
  OBVIOUS
<1>1. r.job \in Jobs /\ r.agent \in Agents /\ new \in Row /\ job[r.job] \in Row
  BY CommittedTask DEF CommitClaim, TInv, TypeOK
<1>2. /\ job' = [job EXCEPT ![r.job] = new] /\ new.status = "running"
      /\ claimants' = [claimants EXCEPT ![r.job] = @ \cup {r.agent}]
      /\ lock' = Unlocked(q) /\ request' = [request EXCEPT ![q] = NoRequest]
      /\ UNCHANGED <<worker, scores, awards, onchain, events, failures>>
  BY <1>1 DEF CommitClaim, AfterClaim, Row, TInv, TypeOK
<1>3. /\ job' \in [Jobs -> Row] /\ claimants' \in [Jobs -> SUBSET Agents]
      /\ awards' \in [Jobs -> [Agents -> Nat]]
      /\ \A j \in Jobs : job[j].status # "none" => job'[j].status # "none"
  BY <1>1, <1>2 DEF TInv, TypeOK
<1> QED
  BY <1>2, <1>3, EndRequestTypes

LEMMA CommitSubmitTypes ==
    ASSUME TInv, NEW q \in Requests, CommitSubmit(q)
    PROVE  TInv'
<1> PICK r, new : /\ r = request[q]
                  /\ new = AfterSubmit(job[r.job])
  OBVIOUS
<1>1. r.job \in Jobs /\ r.agent \in Agents /\ new \in Row /\ job[r.job] \in Row
  BY CommittedTask DEF CommitSubmit, TInv, TypeOK
<1>2. /\ job' = [job EXCEPT ![r.job] = new] /\ new.status = "succeeded"
      /\ awards' = [awards EXCEPT ![r.job][r.agent] = @ + 1]
      /\ lock' = Unlocked(q) /\ request' = [request EXCEPT ![q] = NoRequest]
      /\ UNCHANGED <<worker, scores, onchain, events, failures, claimants>>
  BY <1>1 DEF CommitSubmit, AfterSubmit, Row, TInv, TypeOK
<1>3. /\ job' \in [Jobs -> Row] /\ claimants' \in [Jobs -> SUBSET Agents]
      /\ awards' \in [Jobs -> [Agents -> Nat]]
      /\ \A j \in Jobs : job[j].status # "none" => job'[j].status # "none"
  BY <1>1, <1>2 DEF TInv, TypeOK
<1> QED
  BY <1>2, <1>3, EndRequestTypes

LEMMA AbortTaskTypes ==
    ASSUME TInv, NEW q \in Requests, AbortTask(q)
    PROVE  TInv'
<1>1. /\ lock' = Unlocked(q) /\ request' = [request EXCEPT ![q] = NoRequest]
      /\ UNCHANGED <<job, worker, scores, awards, onchain, events, failures, claimants>>
  BY DEF AbortTask
<1> QED
  BY <1>1, EndRequestTypes DEF TInv, TypeOK

LEMMA StepTypes == TInv /\ [Next]_vars => TInv'
<1> SUFFICES ASSUME TInv, [Next]_vars PROVE TInv'
  OBVIOUS
<1>1. CASE UNCHANGED vars
  BY <1>1 DEF vars, TInv, TypeOK, BatchConsistent, RequestsHaveJobs
<1> QED
  BY <1>1, CreateTypes, PollTypes, StartTypes, AnalyzeTypes, SubmitOnchainTypes, PublishTypes,
     CommitBatchTypes, LoseBatchTypes, ReadTaskTypes, FlushTaskTypes, CommitClaimTypes,
     CommitSubmitTypes, AbortTaskTypes DEF Next

\* The batch and the requests are consistent in every reachable state.
THEOREM TypeInvariance == Spec => []TInv
<1> QED
  BY InitTypes, StepTypes, PTL DEF Spec

\* Rows and transactions have their types, and a row's lock is held exactly by the
\* transaction that has written it and not ended.
THEOREM TypeCorrect == Spec => []TypeOK
<1>1. TInv => TypeOK
  BY DEF TInv
<1> QED
  BY <1>1, TypeInvariance, PTL

-----------------------------------------------------------------------------
\* What a step does to a row.

LEMMA RowStep ==
    ASSUME TInv, [Next]_vars, NEW j \in Jobs
    PROVE  \/ job'[j] = job[j]
           \/ /\ job[j].status = "none" /\ job'[j].status = "queued"
              /\ job'[j].result = "none" /\ \E name : CreateScan(j, name)
           \/ /\ CommitBatch /\ worker.outcome[j] \in Ended
              /\ job'[j] = AfterBatch(job[j], worker.outcome[j], j \in worker.scored)
           \/ \E q \in Requests :
                 /\ CommitClaim(q) /\ j = request[q].job
                 /\ job'[j] = AfterClaim(job[j], request[q].seen, request[q].agent)
           \/ \E q \in Requests :
                 /\ CommitSubmit(q) /\ j = request[q].job /\ job'[j] = AfterSubmit(job[j])
<1>1. job \in [Jobs -> Row] /\ job[j] \in Row /\ worker.outcome[j] \in {"none"} \cup Ended
  BY DEF TInv, TypeOK, WorkerState
<1>2. CASE UNCHANGED vars
  BY <1>2 DEF vars
<1>3. ASSUME NEW i \in Jobs, NEW name \in Agents \cup {NoAgent}, CreateScan(i, name)
      PROVE  \/ job'[j] = job[j]
             \/ /\ job[j].status = "none" /\ job'[j].status = "queued"
                /\ job'[j].result = "none" /\ CreateScan(j, name)
  BY <1>1, <1>3 DEF CreateScan, NoRow
<1>4. CASE CommitBatch
  BY <1>1, <1>4 DEF CommitBatch, Ended
<1>5. ASSUME NEW q \in Requests, CommitClaim(q)
      PROVE  \/ job'[j] = job[j]
             \/ /\ j = request[q].job
                /\ job'[j] = AfterClaim(job[j], request[q].seen, request[q].agent)
  BY <1>1, <1>5 DEF CommitClaim
<1>6. ASSUME NEW q \in Requests, CommitSubmit(q)
      PROVE  \/ job'[j] = job[j]
             \/ j = request[q].job /\ job'[j] = AfterSubmit(job[j])
  BY <1>1, <1>6 DEF CommitSubmit
<1>7. CASE \/ Poll \/ StartJob \/ LoseBatch
           \/ \E found \in BOOLEAN : Analyze(found)
           \/ \E sent \in BOOLEAN : SubmitOnchain(sent)
           \/ \E delivered, raised \in BOOLEAN : PublishCompleted(delivered, raised)
           \/ \E q \in Requests, kind \in {"claim", "submit"}, a \in Agents, i \in Jobs :
                 ReadTask(q, kind, a, i)
           \/ \E q \in Requests : FlushTask(q) \/ AbortTask(q)
  BY <1>7 DEF Poll, StartJob, LoseBatch, Analyze, SubmitOnchain, PublishCompleted, ReadTask,
              FlushTask, AbortTask
<1> QED
  BY <1>2, <1>3, <1>4, <1>5, <1>6, <1>7 DEF Next

\* The fields of a row that a claim, a submission or a batch has written.
LEMMA WrittenRow ==
    ASSUME NEW r \in Row
    PROVE  /\ \A seen, a : /\ AfterClaim(r, seen, a).status = "running"
                           /\ AfterClaim(r, seen, a).agent = IF seen.agent = a THEN r.agent ELSE a
                           /\ AfterClaim(r, seen, a).result = r.result
           /\ AfterSubmit(r).status = "succeeded"
           /\ AfterSubmit(r).agent = r.agent
           /\ AfterSubmit(r).result = "submission"
           /\ \A o : \A scored \in BOOLEAN :
                 /\ AfterBatch(r, o, scored).status = o
                 /\ AfterBatch(r, o, scored).agent = r.agent
                 /\ AfterBatch(r, o, scored).result = IF scored THEN "analysis" ELSE r.result
  BY DEF AfterClaim, AfterSubmit, AfterBatch, Row

\* Which statuses a row may leave and reach.
LEMMA StatusStep ==
    ASSUME TInv, [Next]_vars, NEW j \in Jobs
    PROVE  /\ job'[j].status \in {"none", "queued"} =>
                 /\ job[j].status \in {"none", "queued"}
                 /\ job'[j].status = "none" => job[j].status = "none"
           /\ job'[j].status = "queued" => job[j].status \in {"none", "queued"}
<1>1. job[j] \in Row
  BY DEF TInv, TypeOK
<1>2. CASE CommitBatch /\ worker.outcome[j] \in Ended
           /\ job'[j] = AfterBatch(job[j], worker.outcome[j], j \in worker.scored)
  <2>1. job'[j].status = worker.outcome[j]
    BY <1>1, <1>2 DEF AfterBatch, Row
  <2> QED
    BY <1>2, <2>1 DEF Ended
<1>3. ASSUME NEW seen, NEW a, job'[j] = AfterClaim(job[j], seen, a)
      PROVE  job'[j].status = "running"
  BY <1>1, <1>3, WrittenRow
<1>4. ASSUME job'[j] = AfterSubmit(job[j])
      PROVE  job'[j].status = "succeeded"
  BY <1>1, <1>4, WrittenRow
<1> QED
  BY <1>1, <1>2, <1>3, <1>4, RowStep

\* A job that has left the queue never comes back to it.
THEOREM NoJobRequeued == Spec => NeverRequeued
<1>1. TInv /\ [Next]_vars =>
        [\A j \in Jobs : job[j].status \notin {"none", "queued"} => job'[j].status # "queued"]_vars
  BY StatusStep
<1> QED
  BY <1>1, TypeInvariance, PTL DEF Spec, NeverRequeued

-----------------------------------------------------------------------------
\* What a step does to the batch.

\* A job enters the batch from the queue, and only then.
LEMMA BatchStep ==
    ASSUME TInv, [Next]_vars, NEW j \in Jobs
    PROVE  /\ j \in Elements(worker'.todo) =>
                 \/ j \in Elements(worker.todo)
                 \/ worker = NoBatch /\ job[j].status = "queued"
           /\ j \in worker'.scored => j \in worker.scored \/ j \in Elements(worker.todo)
<1>1. CASE UNCHANGED worker
  BY <1>1
<1>2. CASE Poll
  <2>1. PICK batch \in OldestFirst : worker'.todo = batch /\ worker'.scored = {}
    BY <1>2 DEF Poll, NoBatch
  <2>2. Elements(batch) \subseteq Pollable /\ worker = NoBatch
    BY <1>2, BatchOfQueued DEF Poll, TInv, BatchConsistent
  <2> QED
    BY <2>1, <2>2 DEF Pollable
<1>3. CASE StartJob
  BY <1>3 DEF StartJob, TInv, TypeOK, WorkerState
<1>4. ASSUME worker.phase \in Busy, NEW o \in Ended, worker' = EndJob(worker, Head(worker.todo), o)
      PROVE  /\ worker'.scored = worker.scored
             /\ Elements(worker'.todo) \subseteq Elements(worker.todo)
  BY <1>4, EndJobState, JobUnderWay DEF TInv, BatchConsistent
<1>5. ASSUME NEW found \in BOOLEAN, Analyze(found)
      PROVE  /\ Elements(worker'.todo) \subseteq Elements(worker.todo)
             /\ worker'.scored \subseteq worker.scored \cup Elements(worker.todo)
  <2>1. worker.phase \in Busy /\ worker \in WorkerState
    BY <1>5 DEF Analyze, Busy, TInv, TypeOK
  <2>2. Head(worker.todo) \in Elements(worker.todo)
    BY <2>1, JobUnderWay DEF TInv, BatchConsistent
  <2>3. CASE found
    BY <1>5, <2>1, <2>2, <2>3 DEF Analyze, WorkerState
  <2>4. CASE ~found
    BY <1>4, <1>5, <2>1, <2>4 DEF Analyze, Ended
  <2> QED
    BY <2>3, <2>4
<1>6. ASSUME NEW sent \in BOOLEAN, SubmitOnchain(sent)
      PROVE  worker'.todo = worker.todo /\ worker'.scored = worker.scored
  BY <1>6 DEF SubmitOnchain, TInv, TypeOK, WorkerState
<1>7. ASSUME NEW delivered \in BOOLEAN, NEW raised \in BOOLEAN,
             PublishCompleted(delivered, raised)
      PROVE  /\ worker'.scored = worker.scored
             /\ Elements(worker'.todo) \subseteq Elements(worker.todo)
  BY <1>4, <1>7 DEF PublishCompleted, AfterPublish, Busy, Ended
<1>8. CASE CommitBatch \/ LoseBatch
  BY <1>8, EmptyBatch DEF CommitBatch, LoseBatch, AfterFailure, NoBatch
<1> QED
  BY <1>1, <1>2, <1>3, <1>5, <1>6, <1>7, <1>8
     DEF Next, vars, CreateScan, ReadTask, FlushTask, CommitClaim, CommitSubmit, AbortTask

-----------------------------------------------------------------------------
\* A job is scored once.

LEMMA InitScored == Init => ScoredLeft
<1> SUFFICES ASSUME Init, NEW j \in Jobs PROVE scores[j] = 0
  BY DEF ScoredLeft
<1> QED
  BY DEF Init

LEMMA ScoredStep == TInv /\ ScoredLeft /\ [Next]_vars => ScoredLeft'
<1> SUFFICES ASSUME TInv, ScoredLeft, [Next]_vars, NEW j \in Jobs
             PROVE  /\ scores'[j] <= 1
                    /\ scores'[j] > 0 =>
                          /\ job'[j].status \notin {"none", "queued"}
                          /\ j \notin Elements(worker'.todo)
                          /\ j \notin worker'.scored
  BY DEF ScoredLeft
<1>1. scores[j] \in Nat /\ scores[j] <= 1 /\ job[j] \in Row
  BY DEF TInv, TypeOK, ScoredLeft
<1>2. CASE CommitBatch
  <2>1. j \notin Elements(worker'.todo) /\ j \notin worker'.scored
    BY <1>2, EmptyBatch DEF CommitBatch, NoBatch
  <2>2. CASE j \in worker.scored
    <3>1. scores[j] = 0 /\ scores'[j] = scores[j] + 1
      BY <1>1, <1>2, <2>2 DEF CommitBatch, ScoredLeft
    <3>2. worker.outcome[j] \in Ended
      BY <2>2 DEF TInv, TypeOK, WorkerState, BatchConsistent
    <3>3. job'[j].status = worker.outcome[j]
      BY <1>1, <1>2, <3>2 DEF CommitBatch, AfterBatch, Row, Ended
    <3> QED
      BY <2>1, <3>1, <3>2, <3>3 DEF Ended
  <2>3. CASE j \notin worker.scored
    <3>1. scores'[j] = scores[j]
      BY <1>2, <2>3 DEF CommitBatch
    <3> QED
      BY <1>1, <2>1, <3>1, StatusStep DEF ScoredLeft
  <2> QED
    BY <2>2, <2>3
<1>3. CASE ~CommitBatch
  <2>1. scores' = scores
    BY <1>3 DEF Next, vars, CreateScan, Poll, StartJob, Analyze, SubmitOnchain,
                PublishCompleted, LoseBatch, ReadTask, FlushTask, CommitClaim, CommitSubmit,
                AbortTask
  <2>2. scores[j] > 0 =>
           /\ job[j].status \notin {"none", "queued"}
           /\ j \notin Elements(worker.todo) /\ j \notin worker.scored
    BY DEF ScoredLeft
  <2> QED
    BY <1>1, <2>1, <2>2, BatchStep, StatusStep
<1> QED
  BY <1>2, <1>3

\* A job is scored at most once, although the worker never checks a row again
\* after it polled and claims that read it earlier set finished jobs running.
THEOREM ScoredOnlyOnce == Spec => []ScoredOnce
<1>1. TInv /\ ScoredLeft => ScoredOnce
  BY DEF ScoredLeft, ScoredOnce
<1> QED
  BY <1>1, InitScored, ScoredStep, TypeInvariance, PTL DEF Spec

-----------------------------------------------------------------------------
\* Whoever ended a job has left something to show for it.

\* Nothing takes a score, an award or a claimant back.
LEMMA WorkStays ==
    ASSUME TInv, [Next]_vars, NEW j \in Jobs
    PROVE  /\ scores[j] > 0 => scores'[j] > 0
           /\ \A a \in Agents : awards[j][a] > 0 => awards'[j][a] > 0
           /\ claimants[j] \subseteq claimants'[j]
<1>1. /\ scores \in [Jobs -> Nat] /\ awards \in [Jobs -> [Agents -> Nat]]
      /\ claimants \in [Jobs -> SUBSET Agents]
  BY DEF TInv, TypeOK
<1>2. CASE CommitBatch
  BY <1>1, <1>2 DEF CommitBatch
<1>3. ASSUME NEW q \in Requests, CommitClaim(q)
      PROVE  claimants[j] \subseteq claimants'[j] /\ UNCHANGED <<scores, awards>>
  BY <1>1, <1>3 DEF CommitClaim
<1>4. ASSUME NEW q \in Requests, CommitSubmit(q)
      PROVE  /\ \A a \in Agents : awards[j][a] > 0 => awards'[j][a] > 0
             /\ UNCHANGED <<scores, claimants>>
  <2>1. request[q].job \in Jobs /\ request[q].agent \in Agents
    BY <1>4, CommittedTask DEF CommitSubmit
  <2>2. awards' = [awards EXCEPT ![request[q].job][request[q].agent] = @ + 1]
    BY <1>4 DEF CommitSubmit
  <2>3. ASSUME NEW a \in Agents
        PROVE  awards'[j][a] = awards[j][a] \/ awards'[j][a] = awards[j][a] + 1
    BY <1>1, <2>1, <2>2
  <2> QED
    BY <1>1, <1>4, <2>3 DEF CommitSubmit
<1>5. CASE \/ UNCHANGED vars
           \/ ~CommitBatch /\ ~(\E q \in Requests : CommitClaim(q) \/ CommitSubmit(q))
  BY <1>5 DEF Next, vars, CreateScan, Poll, StartJob, Analyze, SubmitOnchain,
              PublishCompleted, LoseBatch, ReadTask, FlushTask, AbortTask
<1> QED
  BY <1>2, <1>3, <1>4, <1>5

LEMMA InitResult == Init => ResultHasWork
  BY DEF Init, ResultHasWork, NoRow

LEMMA ResultStep == TInv /\ ResultHasWork /\ [Next]_vars => ResultHasWork'
<1> SUFFICES ASSUME TInv, ResultHasWork, [Next]_vars, NEW j \in Jobs
             PROVE  /\ job'[j].result = "analysis" => scores'[j] > 0
                    /\ job'[j].result = "submission" => \E a \in Agents : awards'[j][a] > 0
                    /\ job'[j].status = "succeeded" => job'[j].result # "none"
  BY DEF ResultHasWork
<1>1. job[j] \in Row
  BY DEF TInv, TypeOK
<1>2. /\ job[j].result = "analysis" => scores'[j] > 0
      /\ job[j].result = "submission" => \E a \in Agents : awards'[j][a] > 0
      /\ job[j].status = "succeeded" => job[j].result # "none"
  BY WorkStays DEF ResultHasWork
<1>3. CASE CommitBatch /\ worker.outcome[j] \in Ended
           /\ job'[j] = AfterBatch(job[j], worker.outcome[j], j \in worker.scored)
  <2>1. /\ job'[j].status = worker.outcome[j]
        /\ job'[j].result = IF j \in worker.scored THEN "analysis" ELSE job[j].result
    BY <1>1, <1>3 DEF AfterBatch, Row
  <2>2. j \in worker.scored => scores'[j] > 0
    BY <1>3 DEF CommitBatch, TInv, TypeOK
  <2>3. worker.outcome[j] = "succeeded" => j \in worker.scored
    BY DEF TInv, BatchConsistent
  <2> QED
    BY <1>2, <2>1, <2>2, <2>3
<1>4. ASSUME NEW seen, NEW a, job'[j] = AfterClaim(job[j], seen, a)
      PROVE  job'[j].status = "running" /\ job'[j].result = job[j].result
  BY <1>1, <1>4, WrittenRow
<1>5. ASSUME NEW q \in Requests, CommitSubmit(q), j = request[q].job,
             job'[j] = AfterSubmit(job[j])
      PROVE  /\ job'[j].result = "submission"
             /\ \E a \in Agents : awards'[j][a] > 0
  <2>1. job'[j].result = "submission"
    BY <1>1, <1>5, WrittenRow
  <2>2. request[q].agent \in Agents
    BY <1>5, CommittedTask DEF CommitSubmit
  <2>3. awards' = [awards EXCEPT ![j][request[q].agent] = @ + 1]
    BY <1>5 DEF CommitSubmit
  <2>4. awards'[j][request[q].agent] = awards[j][request[q].agent] + 1
        /\ awards[j][request[q].agent] \in Nat
    BY <2>2, <2>3 DEF TInv, TypeOK
  <2> QED
    BY <2>1, <2>2, <2>4
<1>6. ASSUME job[j].status = "none", job'[j].status = "queued", job'[j].result = "none"
      PROVE  job'[j].result = "none" /\ job'[j].status # "succeeded"
  BY <1>6
<1> QED
  BY <1>2, <1>3, <1>4, <1>5, <1>6, RowStep

\* A job is succeeded only with a committed score or award to show for it, and its
\* result is what one of them produced.
THEOREM SuccessAlwaysHasWork == Spec => []SuccessHasWork
<1>1. TInv /\ ResultHasWork => SuccessHasWork
  <2> SUFFICES ASSUME TInv, ResultHasWork, NEW j \in Jobs, job[j].status = "succeeded"
               PROVE  /\ scores[j] > 0 \/ \E a \in Agents : awards[j][a] > 0
                      /\ job[j].result = "analysis" => scores[j] > 0
                      /\ job[j].result = "submission" => \E a \in Agents : awards[j][a] > 0
                      /\ job[j].result # "none"
    BY DEF SuccessHasWork
  <2>1. job[j].result \in {"none", "analysis", "submission"}
    BY DEF TInv, TypeOK, Row
  <2> QED
    BY <2>1 DEF ResultHasWork
<1> QED
  BY <1>1, InitResult, ResultStep, TypeInvariance, PTL DEF Spec

-----------------------------------------------------------------------------
\* Awards go to those who were told that they had claimed the job.

LEMMA InitClaims == Init => ClaimsAreKnown
  BY DEF Init, ClaimsAreKnown, AwardedOnlyToClaimants, NoRow, NoRequest

\* What a step does to a request: it is read, flushed or ended.
LEMMA RequestStep ==
    ASSUME TInv, [Next]_vars, NEW q \in Requests
    PROVE  \/ request'[q].phase = "idle"
           \/ /\ request[q].phase # "idle"
              /\ request'[q].kind = request[q].kind /\ request'[q].agent = request[q].agent
              /\ request'[q].job = request[q].job /\ request'[q].seen = request[q].seen
           \/ \E kind \in {"claim", "submit"}, a \in Agents, j \in Jobs :
                 /\ ReadTask(q, kind, a, j)
                 /\ request'[q] = [phase |-> "read", kind |-> kind, agent |-> a, job |-> j,
                                   seen |-> job[j]]
<1>1. request \in [Requests -> Request]
  BY DEF TInv, TypeOK
<1>2. CASE UNCHANGED request
  BY <1>2
<1>3. ASSUME NEW p \in Requests, NEW kind \in {"claim", "submit"}, NEW a \in Agents,
             NEW j \in Jobs, ReadTask(p, kind, a, j)
      PROVE  \/ request'[q] = request[q]
             \/ /\ ReadTask(q, kind, a, j)
                /\ request'[q] = [phase |-> "read", kind |-> kind, agent |-> a, job |-> j,
                                  seen |-> job[j]]
  BY <1>1, <1>3 DEF ReadTask
<1>4. ASSUME NEW p \in Requests, FlushTask(p)
      PROVE  \/ request'[q] = request[q]
             \/ /\ request[q].phase # "idle"
                /\ request'[q].kind = request[q].kind /\ request'[q].agent = request[q].agent
                /\ request'[q].job = request[q].job /\ request'[q].seen = request[q].seen
  BY <1>1, <1>4 DEF FlushTask, Request
<1>5. ASSUME NEW p \in Requests, CommitClaim(p) \/ CommitSubmit(p) \/ AbortTask(p)
      PROVE  request'[q] = request[q] \/ request'[q].phase = "idle"
  BY <1>1, <1>5 DEF CommitClaim, CommitSubmit, AbortTask, NoRequest
<1> QED
  BY <1>2, <1>3, <1>4, <1>5
     DEF Next, vars, CreateScan, Poll, StartJob, Analyze, SubmitOnchain, PublishCompleted,
         CommitBatch, LoseBatch

\* What a step does to the agent column: it keeps it, or puts a claimant there.
LEMMA AgentStep ==
    ASSUME TInv, ClaimsAreKnown, [Next]_vars, NEW j \in Jobs
    PROVE  /\ \/ job[j].status = "none" /\ job'[j].status = "queued"
              \/ job'[j].agent = job[j].agent
              \/ job'[j].agent \in claimants'[j]
           /\ job'[j].status = "running" => job'[j].agent \in claimants'[j]
<1>1. job[j] \in Row
  BY DEF TInv, TypeOK
<1>2. job[j].status = "running" => job[j].agent \in claimants'[j]
  BY WorkStays DEF ClaimsAreKnown
<1>3. CASE CommitBatch /\ worker.outcome[j] \in Ended
           /\ job'[j] = AfterBatch(job[j], worker.outcome[j], j \in worker.scored)
  <2>1. job'[j].status = worker.outcome[j] /\ job'[j].agent = job[j].agent
    BY <1>1, <1>3 DEF AfterBatch, Row
  <2> QED
    BY <1>3, <2>1 DEF Ended
<1>4. ASSUME NEW q \in Requests, CommitClaim(q), j = request[q].job,
             job'[j] = AfterClaim(job[j], request[q].seen, request[q].agent)
      PROVE  job'[j].agent \in claimants'[j]
  <2> PICK a, seen : a = request[q].agent /\ seen = request[q].seen
    OBVIOUS
  <2>1. job'[j].agent = IF seen.agent = a THEN job[j].agent ELSE a
    BY <1>1, <1>4, WrittenRow
  <2>2. a \in claimants'[j]
    BY <1>4 DEF CommitClaim, TInv, TypeOK
  <2>3. seen.agent = job[j].agent \/ job[j].agent \in claimants'[j]
    <3>1. seen.agent = job[j].agent \/ job[j].agent \in claimants[j]
      BY <1>4 DEF ClaimsAreKnown, CommitClaim
    <3> QED
      BY <3>1, WorkStays
  <2> QED
    BY <2>1, <2>2, <2>3
<1>5. ASSUME NEW q \in Requests, CommitSubmit(q), job'[j] = AfterSubmit(job[j])
      PROVE  job'[j].status = "succeeded" /\ job'[j].agent = job[j].agent
  BY <1>1, <1>5, WrittenRow
<1> QED
  BY <1>2, <1>3, <1>4, <1>5, RowStep

LEMMA ClaimsStep == TInv /\ ClaimsAreKnown /\ [Next]_vars => ClaimsAreKnown'
<1> SUFFICES ASSUME TInv, ClaimsAreKnown, [Next]_vars PROVE ClaimsAreKnown'
  OBVIOUS
<1>1. AwardedOnlyToClaimants'
  <2> SUFFICES ASSUME NEW j \in Jobs, NEW a \in Agents, awards'[j][a] > 0
               PROVE  a \in claimants'[j]
    BY DEF AwardedOnlyToClaimants
  <2>1. CASE awards'[j][a] = awards[j][a]
    BY <2>1, WorkStays DEF ClaimsAreKnown, AwardedOnlyToClaimants
  <2>2. CASE awards'[j][a] # awards[j][a]
    <3>1. PICK q \in Requests : CommitSubmit(q)
      BY <2>2 DEF Next, vars, CreateScan, Poll, StartJob, Analyze, SubmitOnchain,
                  PublishCompleted, CommitBatch, LoseBatch, ReadTask, FlushTask, CommitClaim,
                  AbortTask
    <3>2. request[q].job \in Jobs /\ request[q].agent \in Agents
      BY <3>1, CommittedTask DEF CommitSubmit
    <3>3. awards' = [awards EXCEPT ![request[q].job][request[q].agent] = @ + 1]
      BY <3>1 DEF CommitSubmit
    <3>4. j = request[q].job /\ a = request[q].agent
      BY <2>2, <3>2, <3>3 DEF TInv, TypeOK
    <3>5. a \in claimants[j]
      BY <3>1, <3>4 DEF CommitSubmit, ClaimsAreKnown
    <3> QED
      BY <3>5, WorkStays
  <2> QED
    BY <2>1, <2>2
<1>2. \A j \in Jobs : job'[j].status = "running" => job'[j].agent \in claimants'[j]
  BY AgentStep
<1>3. ASSUME NEW q \in Requests, request'[q].phase # "idle"
      PROVE  /\ request'[q].kind = "submit" => request'[q].agent \in claimants'[request'[q].job]
             /\ request'[q].kind = "claim" =>
                   \/ request'[q].seen.agent = job'[request'[q].job].agent
                   \/ job'[request'[q].job].agent \in claimants'[request'[q].job]
  <2>1. CASE /\ request[q].phase # "idle"
             /\ request'[q].kind = request[q].kind /\ request'[q].agent = request[q].agent
             /\ request'[q].job = request[q].job /\ request'[q].seen = request[q].seen
    <3> PICK j : j = request[q].job
      OBVIOUS
    <3>1. j \in Jobs /\ job[j].status # "none"
      BY <2>1 DEF TInv, RequestsHaveJobs
    <3>2. /\ request[q].kind = "submit" => request[q].agent \in claimants[j]
          /\ request[q].kind = "claim" =>
                request[q].seen.agent = job[j].agent \/ job[j].agent \in claimants[j]
      BY <2>1 DEF ClaimsAreKnown
    <3>3. claimants[j] \subseteq claimants'[j]
      BY <3>1, WorkStays
    <3>4. job'[j].agent = job[j].agent \/ job'[j].agent \in claimants'[j]
      BY <3>1, AgentStep
    <3> QED
      BY <2>1, <3>2, <3>3, <3>4
  <2>2. ASSUME NEW kind \in {"claim", "submit"}, NEW a \in Agents, NEW j \in Jobs,
               ReadTask(q, kind, a, j),
               request'[q] = [phase |-> "read", kind |-> kind, agent |-> a, job |-> j,
                              seen |-> job[j]]
        PROVE  /\ request'[q].kind = kind /\ request'[q].agent = a /\ request'[q].job = j
               /\ kind = "submit" => a \in claimants'[j]
               /\ request'[q].seen.agent = job'[j].agent
    <3>1. job' = job /\ claimants' = claimants
      BY <2>2 DEF ReadTask
    <3>2. kind = "submit" => job[j].status = "running" /\ job[j].agent = a
      BY <2>2 DEF ReadTask, MaySubmit
    <3> QED
      BY <2>2, <3>1, <3>2 DEF ClaimsAreKnown
  <2> QED
    BY <1>3, <2>1, <2>2, RequestStep
<1> QED
  BY <1>1, <1>2, <1>3 DEF ClaimsAreKnown

\* Only an agent that was told it had claimed a job is ever awarded for it.
THEOREM AwardsGoToClaimants == Spec => []AwardedOnlyToClaimants
<1>1. ClaimsAreKnown => AwardedOnlyToClaimants
  BY DEF ClaimsAreKnown
<1> QED
  BY <1>1, InitClaims, ClaimsStep, TypeInvariance, PTL DEF Spec

-----------------------------------------------------------------------------
\* What leaves the transaction at once is sent once by each batch.

LEMMA InitSends == Init => SendsCounted
<1> SUFFICES ASSUME Init, NEW j \in Jobs
             PROVE  onchain[j] = 0 /\ events[j] = 0 /\ failures = 0
  BY DEF SendsCounted
<1> QED
  BY DEF Init

\* A step that is not the worker's keeps a job sent that was sent.
LEMMA UnsentByOthers ==
    ASSUME TInv, [Next]_vars, UNCHANGED worker, NEW j \in Jobs, NEW sending,
           Unsent(j, sending)'
    PROVE  Unsent(j, sending)
  BY StatusStep DEF Unsent

LEMMA SendsStep == TInv /\ SendsCounted /\ [Next]_vars => SendsCounted'
<1> SUFFICES ASSUME TInv, SendsCounted, [Next]_vars PROVE SendsCounted'
  OBVIOUS
<1> DEFINE before == {"next", "analyze", "onchain"}
           upto == {"next", "analyze", "onchain", "publish"}
<1>1. /\ onchain \in [Jobs -> Nat] /\ events \in [Jobs -> Nat] /\ failures \in Nat
      /\ worker \in WorkerState
  BY ScanAssumption DEF TInv, TypeOK
<1>2. \A j \in Jobs :
         /\ onchain[j] <= 1 + failures /\ events[j] <= 1 + failures
         /\ Unsent(j, before) => onchain[j] <= failures
         /\ Unsent(j, upto) => events[j] <= failures
  BY DEF SendsCounted
<1>3. CASE UNCHANGED <<worker, onchain, events, failures>>
  BY <1>2, <1>3, UnsentByOthers DEF SendsCounted
<1>4. CASE Poll
  <2>1. /\ worker = NoBatch /\ UNCHANGED <<job, onchain, events, failures>>
        /\ \E batch \in OldestFirst : worker' = [NoBatch EXCEPT !.phase = "next", !.todo = batch]
    BY <1>4 DEF Poll, TInv, BatchConsistent
  <2>2. \A j \in Jobs : worker.outcome[j] = "none" /\ worker'.outcome[j] = "none"
    BY <2>1 DEF NoBatch
  <2>3. \A j \in Jobs : j \in Elements(worker'.todo) => job[j].status = "queued"
    <3>1. Elements(worker.todo) = {}
      BY <2>1, EmptyBatch DEF NoBatch
    <3> QED
      BY <3>1, BatchStep
  <2>4. \A j \in Jobs : \A sending : Unsent(j, sending)' => Unsent(j, sending)
    BY <2>1, <2>2, <2>3 DEF Unsent
  <2> QED
    BY <1>2, <2>1, <2>4 DEF SendsCounted
<1>5. CASE StartJob
  <2>1. /\ worker.phase = "next"
        /\ worker'.todo = worker.todo /\ worker'.outcome = worker.outcome
        /\ UNCHANGED <<job, onchain, events, failures>>
    BY <1>1, <1>5 DEF StartJob, WorkerState
  <2>2. \A j \in Jobs : /\ Unsent(j, before)' => Unsent(j, before)
                        /\ Unsent(j, upto)' => Unsent(j, upto)
    BY <2>1 DEF Unsent
  <2> QED
    BY <1>2, <2>1, <2>2 DEF SendsCounted
<1>6. ASSUME worker.phase \in Busy, NEW h, h = Head(worker.todo), NEW o \in Ended,
             worker' = EndJob(worker, h, o), UNCHANGED job, NEW j \in Jobs, NEW sending,
             Unsent(j, sending)'
      PROVE  j # h /\ Unsent(j, sending)
  <2>1. /\ worker'.todo = Tail(worker.todo) /\ h \in Jobs
        /\ worker'.outcome = [worker.outcome EXCEPT ![h] = o]
        /\ o # "none"
    BY <1>6, EndJobState DEF Ended
  <2>2. Elements(Tail(worker.todo)) = Elements(worker.todo) \ {h}
    BY <1>6, JobUnderWay DEF TInv, BatchConsistent
  <2>3. /\ worker'.outcome[h] # "none"
        /\ j # h => worker'.outcome[j] = worker.outcome[j]
    BY <1>1, <2>1 DEF WorkerState
  <2> QED
    BY <1>6, <2>1, <2>2, <2>3 DEF Unsent
<1>7. ASSUME NEW found \in BOOLEAN, Analyze(found)
      PROVE  SendsCounted'
  <2>1. /\ worker.phase = "analyze" /\ worker.phase \in Busy
        /\ UNCHANGED <<job, onchain, events, failures>>
    BY <1>7 DEF Analyze, Busy
  <2>2. ASSUME NEW j \in Jobs
        PROVE  /\ Unsent(j, before)' => Unsent(j, before)
               /\ Unsent(j, upto)' => Unsent(j, upto)
    <3>1. CASE found
      <4>1. /\ worker'.phase = "onchain" /\ worker'.todo = worker.todo
            /\ worker'.outcome = [worker.outcome EXCEPT ![Head(worker.todo)] = "succeeded"]
        BY <1>1, <1>7, <3>1 DEF Analyze, WorkerState
      <4>2. worker'.outcome[j] = "none" => worker.outcome[j] = "none"
        BY <1>1, <4>1 DEF WorkerState
      <4> QED
        BY <2>1, <4>1, <4>2 DEF Unsent
    <3>2. CASE ~found
      <4>1. worker' = EndJob(worker, Head(worker.todo), "failed")
        BY <1>7, <3>2 DEF Analyze
      <4> QED
        BY <1>6, <2>1, <4>1 DEF Ended
    <3> QED
      BY <3>1, <3>2
  <2> QED
    BY <1>2, <2>1, <2>2 DEF SendsCounted
<1>8. ASSUME NEW sent \in BOOLEAN, SubmitOnchain(sent)
      PROVE  SendsCounted'
  <2> PICK h : h = Head(worker.todo)
    OBVIOUS
  <2>1. /\ worker.phase = "onchain" /\ worker'.phase = "publish"
        /\ worker'.todo = worker.todo /\ worker'.outcome = worker.outcome
        /\ UNCHANGED <<job, events, failures>>
    BY <1>1, <1>8 DEF SubmitOnchain, WorkerState
  <2>2. h \in Jobs /\ h \in Elements(worker.todo)
    BY <2>1, JobUnderWay DEF TInv, BatchConsistent, Busy
  <2>3. worker.outcome[h] = "succeeded"
    BY <2>1 DEF TInv, BatchConsistent, Recorded
  <2>4. Unsent(h, before) /\ ~Unsent(h, before)'
    BY <2>1, <2>2, <2>3 DEF Unsent
  <2>5. \A j \in Jobs : /\ Unsent(j, before)' => Unsent(j, before)
                        /\ Unsent(j, upto)' => Unsent(j, upto)
    BY <2>1 DEF Unsent
  <2>6. \A j \in Jobs : onchain'[j] = onchain[j] \/ (j = h /\ onchain'[j] = onchain[j] + 1)
    <3>1. onchain' = onchain \/ onchain' = [onchain EXCEPT ![h] = onchain[h] + 1]
      BY <1>8 DEF SubmitOnchain
    <3>2. CASE onchain' = [onchain EXCEPT ![h] = onchain[h] + 1]
      BY <1>1, <2>2, <3>2
    <3> QED
      BY <3>1, <3>2
  <2>7. ASSUME NEW j \in Jobs
        PROVE  /\ onchain'[j] <= 1 + failures
               /\ Unsent(j, before)' => onchain'[j] <= failures
    BY <1>1, <1>2, <2>4, <2>5, <2>6
  <2> QED
    BY <1>2, <2>1, <2>5, <2>7 DEF SendsCounted
<1>9. ASSUME NEW delivered \in BOOLEAN, NEW raised \in BOOLEAN,
             PublishCompleted(delivered, raised)
      PROVE  SendsCounted'
  <2> PICK h : h = Head(worker.todo)
    OBVIOUS
  <2>1. /\ worker.phase = "publish" /\ worker.phase \in Busy
        /\ UNCHANGED <<job, onchain, failures>>
    BY <1>9 DEF PublishCompleted, Busy
  <2>2. h \in Jobs /\ h \in Elements(worker.todo)
    BY <2>1, JobUnderWay DEF TInv, BatchConsistent
  <2>3. PICK o \in Ended : worker' = EndJob(worker, h, o)
    BY <1>9 DEF PublishCompleted, AfterPublish, Ended
  <2>4. \A j \in Jobs : \A sending : Unsent(j, sending)' => j # h /\ Unsent(j, sending)
    BY <1>6, <2>1, <2>3
  <2>5. Unsent(h, upto)
    BY <2>1, <2>2 DEF Unsent
  <2>6. \A j \in Jobs : events'[j] = events[j] \/ (j = h /\ events'[j] = events[j] + 1)
    <3>1. events' = events \/ events' = [events EXCEPT ![h] = events[h] + 1]
      BY <1>9 DEF PublishCompleted
    <3>2. CASE events' = [events EXCEPT ![h] = events[h] + 1]
      BY <1>1, <2>2, <3>2
    <3> QED
      BY <3>1, <3>2
  <2>7. ASSUME NEW j \in Jobs
        PROVE  /\ events'[j] <= 1 + failures
               /\ Unsent(j, upto)' => events'[j] <= failures
    BY <1>1, <1>2, <2>4, <2>5, <2>6
  <2> QED
    BY <1>2, <2>1, <2>4, <2>7 DEF SendsCounted
<1>10. CASE CommitBatch
  <2>1. /\ worker' = NoBatch /\ UNCHANGED <<onchain, events, failures>>
    BY <1>10 DEF CommitBatch
  <2>2. ASSUME NEW j \in Jobs, NEW sending, Unsent(j, sending)'
        PROVE  Unsent(j, sending)
    <3>1. job'[j].status \in {"none", "queued"}
      BY <2>1, <2>2, EmptyBatch DEF Unsent, NoBatch
    <3>2. worker.outcome[j] = "none"
      <4>1. ASSUME worker.outcome[j] \in Ended
            PROVE  job'[j].status = worker.outcome[j]
        <5>1. job[j] \in Row
          BY DEF TInv, TypeOK
        <5>2. job'[j] = AfterBatch(job[j], worker.outcome[j], j \in worker.scored)
          BY <1>10, <4>1 DEF CommitBatch, Ended
        <5> QED
          BY <5>1, <5>2 DEF AfterBatch, Row
      <4> QED
        BY <1>1, <3>1, <4>1 DEF WorkerState, Ended
    <3> QED
      BY <3>1, <3>2, StatusStep DEF Unsent
  <2> QED
    BY <1>2, <2>1, <2>2 DEF SendsCounted
<1>11. CASE LoseBatch
  <2>1. failures' = failures + 1 /\ UNCHANGED <<onchain, events>>
    BY <1>11 DEF LoseBatch
  <2>2. ASSUME NEW j \in Jobs
        PROVE  /\ onchain'[j] <= failures' /\ onchain'[j] <= 1 + failures'
               /\ events'[j] <= failures' /\ events'[j] <= 1 + failures'
    BY <1>1, <1>2, <2>1
  <2> QED
    BY <2>2 DEF SendsCounted
<1> HIDE DEF before, upto
<1> QED
  BY <1>3, <1>4, <1>5, <1>7, <1>8, <1>9, <1>10, <1>11
     DEF Next, vars, CreateScan, ReadTask, FlushTask, CommitClaim, CommitSubmit, AbortTask

\* Transactions on chain and messages for a job are repeated only by batches that
\* were lost: at most one beyond their number.
THEOREM OnlyLostBatchesRepeat == Spec => []RepeatsOnlyLostBatches
<1>1. SendsCounted => RepeatsOnlyLostBatches
  BY DEF SendsCounted, RepeatsOnlyLostBatches
<1> QED
  BY <1>1, InitSends, SendsStep, TypeInvariance, PTL DEF Spec
=============================================================================
