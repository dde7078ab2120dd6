----------------------------- MODULE JobScheduler -----------------------------
(***************************************************************************)
(* The durable job queue: the background_jobs table and the invocations of *)
(* JobSchedulerService.processPendingJobs that work on it.                 *)
(*                                                                         *)
(* A tick is one invocation of processPendingJobs.  Two ticks run at once  *)
(* in two server processes, and in one process too: the timer of           *)
(* startWorkerLoop does not wait for the previous invocation.  Every await *)
(* of the code is a point where another tick may run, so a tick is a small *)
(* sequential program (its position is pc[t]) and each SQL statement, or   *)
(* each transaction, is one action.                                        *)
(*                                                                         *)
(* Clocks are abstract: a lease is live until Expire, a retry waits until  *)
(* BackoffOver, and both may happen at any moment.                         *)
(***************************************************************************)
EXTENDS Naturals, FiniteSets

CONSTANTS
    Jobs,         \* rows of background_jobs, by (organization, idempotency key)
    Ticks,        \* invocations of processPendingJobs that may run at once
    Names,        \* the workerId strings
    WorkerOf,     \* the workerId each tick runs under: 'runtime-worker' for
                  \* all of them unless a caller passes its own
    MaxRetries,   \* max_retries of the rows
    ClaimLimit,   \* the batch of one tick (5 in the code)
    MaxRequeues,  \* bound: operator retries of dead letters
    MaxCrashes,   \* bound: ticks that stop half-way
    NoWorker, NoJob

ASSUME JobAssumption ==
    /\ WorkerOf \in [Ticks -> Names]
    /\ NoWorker \notin Names
    /\ NoJob \notin Jobs
    /\ MaxRetries \in Nat \ {0}
    /\ ClaimLimit \in Nat \ {0}
    /\ MaxRequeues \in Nat
    /\ MaxCrashes \in Nat

VARIABLES
    jobs,      \* the table
    pc,        \* where each tick stands
    snap,      \* rows a tick read as expired and has still to reset
    batch,     \* rows a tick claimed and has still to run
    cur,       \* the job a tick is running
    seen,      \* attempt_count as failJob read it
    claims,    \* history: claims since the row was inserted or requeued
    lost,      \* history: attempts that stale writes took off the row since then
    requeues, crashes

queueVars == <<jobs, pc, snap, batch, cur, seen, claims, lost, requeues, crashes>>

tickVars == <<pc, snap, batch, cur, seen>>

JobStatus == {"ABSENT", "PENDING", "PROCESSING", "COMPLETED", "DEAD_LETTER"}

Row == [status: JobStatus, attempts: Nat, owner: Names \cup {NoWorker},
        lease: {"none", "live", "expired"}, due: BOOLEAN]

Snapshot == [job: Jobs, attempts: Nat]

PcValues == {"idle", "recovering", "picking", "running", "completing",
             "logging", "failing"}

QueueTypeOK ==
    /\ jobs \in [Jobs -> Row]
    /\ pc \in [Ticks -> PcValues]
    /\ snap \in [Ticks -> SUBSET Snapshot]
    /\ batch \in [Ticks -> SUBSET Jobs]
    /\ cur \in [Ticks -> Jobs \cup {NoJob}]
    /\ \A t \in Ticks : pc[t] \in {"running", "completing", "logging", "failing"}
                          => cur[t] \in Jobs
    /\ seen \in [Ticks -> Nat]
    /\ claims \in [Jobs -> Nat]
    /\ lost \in [Jobs -> Nat]
    /\ requeues \in Nat
    /\ crashes \in Nat

QueueInit ==
    /\ jobs = [j \in Jobs |-> [status |-> "ABSENT", attempts |-> 0,
                               owner |-> NoWorker, lease |-> "none", due |-> FALSE]]
    /\ pc = [t \in Ticks |-> "idle"]
    /\ snap = [t \in Ticks |-> {}]
    /\ batch = [t \in Ticks |-> {}]
    /\ cur = [t \in Ticks |-> NoJob]
    /\ seen = [t \in Ticks |-> 0]
    /\ claims = [j \in Jobs |-> 0]
    /\ lost = [j \in Jobs |-> 0]
    /\ requeues = 0
    /\ crashes = 0

-----------------------------------------------------------------------------
(* What the UPDATE statements write into a row.                              *)

\* Variant: the last attempt is followed by one more.
AfterFailureLate(row, n, due) ==
    [row EXCEPT !.status = IF n > MaxRetries THEN "DEAD_LETTER" ELSE "PENDING",
                !.attempts = n, !.owner = NoWorker, !.lease = "none",
                !.due = due /\ n <= MaxRetries]

\* The row after an attempt that did not succeed, whose number is n: another
\* try, due at once or after the backoff, or the dead-letter queue.
AfterFailure(row, n, due) ==
    [row EXCEPT !.status = IF n >= MaxRetries THEN "DEAD_LETTER" ELSE "PENDING",
                !.attempts = n,
                !.owner = NoWorker,
                !.lease = "none",
                !.due = due /\ n < MaxRetries]

\* History: the attempts a write of count n + 1 takes off the row, those it got
\* since n was read.
Erased(row, n) == IF n < row.attempts THEN row.attempts - n ELSE 0

Completed(row) ==
    [row EXCEPT !.status = "COMPLETED", !.owner = NoWorker, !.lease = "none",
                !.due = FALSE]

Claimed(row, name) ==
    [row EXCEPT !.status = "PROCESSING", !.owner = name, !.lease = "live",
                !.due = FALSE]

Inserted(row) == [row EXCEPT !.status = "PENDING", !.due = TRUE]

Requeued(row) ==
    [row EXCEPT !.status = "PENDING", !.attempts = 0, !.owner = NoWorker,
                !.lease = "none", !.due = TRUE]

\* Variant: only rows with another attempt left are looked for.
ExpiredRowsRetryable ==
    {j \in Jobs : /\ jobs[j].status = "PROCESSING" /\ jobs[j].lease # "live"
                  /\ jobs[j].attempts + 1 < MaxRetries}

ExpiredRows == {j \in Jobs : jobs[j].status = "PROCESSING" /\ jobs[j].lease # "live"}

DueRows == {j \in Jobs : jobs[j].status = "PENDING" /\ jobs[j].due}

\* completeJob's condition on the row: the lease is the caller's, or nobody's.
MayComplete(row, name) == row.owner \in {name, NoWorker}

-----------------------------------------------------------------------------
(* Callers outside the worker loop.                                          *)

\* scheduleJob: one row per idempotency key; a second call finds the first row.
Schedule(j) ==
    /\ jobs[j].status = "ABSENT"
    /\ jobs' = [jobs EXCEPT ![j] = Inserted(@)]
    /\ UNCHANGED <<tickVars, claims, lost, requeues, crashes>>

\* retryFailedJob: an operator gives a dead letter a fresh set of attempts.
RetryFailedJob(j) ==
    /\ requeues < MaxRequeues
    /\ jobs[j].status = "DEAD_LETTER"
    /\ jobs' = [jobs EXCEPT ![j] = Requeued(@)]
    /\ claims' = [claims EXCEPT ![j] = 0]
    /\ lost' = [lost EXCEPT ![j] = 0]
    /\ requeues' = requeues + 1
    /\ UNCHANGED <<tickVars, crashes>>

\* Time: lease_expires_at passes; next_attempt_at arrives.
Expire(j) ==
    /\ jobs[j].lease = "live"
    /\ jobs' = [jobs EXCEPT ![j].lease = "expired"]
    /\ UNCHANGED <<tickVars, claims, lost, requeues, crashes>>

BackoffOver(j) ==
    /\ jobs[j].status = "PENDING"
    /\ ~jobs[j].due
    /\ jobs' = [jobs EXCEPT ![j].due = TRUE]
    /\ UNCHANGED <<tickVars, claims, lost, requeues, crashes>>

-----------------------------------------------------------------------------
(* One tick.                                                                 *)

\* recoverExpiredLeases, its SELECT.
Wake(t) ==
    /\ pc[t] = "idle"
    /\ snap' = [snap EXCEPT ![t] = {[job |-> j, attempts |-> jobs[j].attempts]
                                      : j \in ExpiredRows}]
    /\ pc' = [pc EXCEPT ![t] = "recovering"]
    /\ UNCHANGED <<jobs, batch, cur, seen, claims, lost, requeues, crashes>>

\* recoverExpiredLeases, the UPDATE of one row of the SELECT: by id alone, with
\* the attempt count of the SELECT.
RecoverRow(t) ==
    /\ pc[t] = "recovering"
    /\ \E r \in snap[t] :
         /\ jobs' = [jobs EXCEPT ![r.job] = AfterFailure(@, r.attempts + 1, TRUE)]
         /\ lost' = [lost EXCEPT ![r.job] = @ + Erased(jobs[r.job], r.attempts)]
         /\ snap' = [snap EXCEPT ![t] = @ \ {r}]
    /\ UNCHANGED <<pc, batch, cur, seen, claims, requeues, crashes>>

\* claimJobs: one transaction.  SKIP LOCKED passes over rows that another
\* transaction is writing, so any of the due rows may be left out.
Claim(t) ==
    /\ pc[t] = "recovering"
    /\ snap[t] = {}
    /\ \E S \in SUBSET DueRows :
         /\ Cardinality(S) <= ClaimLimit
         /\ S = {} => DueRows = {}
         /\ jobs' = [j \in Jobs |-> IF j \in S THEN Claimed(jobs[j], WorkerOf[t])
                                               ELSE jobs[j]]
         /\ claims' = [j \in Jobs |-> IF j \in S THEN claims[j] + 1 ELSE claims[j]]
         /\ batch' = [batch EXCEPT ![t] = S]
         /\ pc' = [pc EXCEPT ![t] = IF S = {} THEN "idle" ELSE "picking"]
    /\ UNCHANGED <<snap, cur, seen, lost, requeues, crashes>>

\* The for loop takes the next row of the batch and runs its handler.
Start(t) ==
    /\ pc[t] = "picking"
    /\ \E j \in batch[t] : /\ cur' = [cur EXCEPT ![t] = j]
                           /\ batch' = [batch EXCEPT ![t] = @ \ {j}]
    /\ pc' = [pc EXCEPT ![t] = "running"]
    /\ UNCHANGED <<jobs, snap, seen, claims, lost, requeues, crashes>>

\* The tick is done with its current job.
NextJob(t) ==
    /\ pc' = [pc EXCEPT ![t] = IF batch[t] = {} THEN "idle" ELSE "picking"]
    /\ cur' = [cur EXCEPT ![t] = NoJob]

\* The handler returned; completeJob, its SELECT and its early return.
CompleteRead(t) ==
    /\ pc[t] = "running"
    /\ IF MayComplete(jobs[cur[t]], WorkerOf[t])
       THEN pc' = [pc EXCEPT ![t] = "completing"] /\ UNCHANGED cur
       ELSE NextJob(t)
    /\ UNCHANGED <<jobs, snap, batch, seen, claims, lost, requeues, crashes>>

\* completeJob, its UPDATE: it writes nothing when the lease changed hands, and
\* its row count is not looked at.
CompleteWrite(t) ==
    /\ pc[t] = "completing"
    /\ IF MayComplete(jobs[cur[t]], WorkerOf[t])
       THEN jobs' = [jobs EXCEPT ![cur[t]] = Completed(@)]
       ELSE UNCHANGED jobs
    /\ pc' = [pc EXCEPT ![t] = "logging"]
    /\ UNCHANGED <<snap, batch, cur, seen, claims, lost, requeues, crashes>>

\* completeJob, the INSERT of the run row.
LogRun(t) ==
    /\ pc[t] = "logging"
    /\ NextJob(t)
    /\ UNCHANGED <<jobs, snap, batch, seen, claims, lost, requeues, crashes>>

\* The handler threw, or a statement of completeJob did: the catch block calls
\* failJob, which reads the row.
FailRead(t) ==
    /\ pc[t] \in {"running", "completing", "logging"}
    /\ seen' = [seen EXCEPT ![t] = jobs[cur[t]].attempts]
    /\ pc' = [pc EXCEPT ![t] = "failing"]
    /\ UNCHANGED <<jobs, snap, batch, cur, claims, lost, requeues, crashes>>

\* failJob, its UPDATE: by id alone, with the attempt count of the SELECT.
FailWrite(t) ==
    /\ pc[t] = "failing"
    /\ jobs' = [jobs EXCEPT ![cur[t]] = AfterFailure(@, seen[t] + 1, FALSE)]
    /\ lost' = [lost EXCEPT ![cur[t]] = @ + Erased(jobs[cur[t]], seen[t])]
    /\ NextJob(t)
    /\ seen' = [seen EXCEPT ![t] = 0]
    /\ UNCHANGED <<snap, batch, claims, requeues, crashes>>

\* The process stops, or a statement outside the try of the loop throws and
\* the outer catch ends the tick.  The rows it holds wait for their leases.
Abandon(t) ==
    /\ crashes < MaxCrashes
    /\ pc[t] # "idle"
    /\ pc' = [pc EXCEPT ![t] = "idle"]
    /\ snap' = [snap EXCEPT ![t] = {}]
    /\ batch' = [batch EXCEPT ![t] = {}]
    /\ cur' = [cur EXCEPT ![t] = NoJob]
    /\ seen' = [seen EXCEPT ![t] = 0]
    /\ crashes' = crashes + 1
    /\ UNCHANGED <<jobs, claims, lost, requeues>>

TickStep(t) ==
    \/ Wake(t) \/ RecoverRow(t) \/ Claim(t) \/ Start(t)
    \/ CompleteRead(t) \/ CompleteWrite(t) \/ LogRun(t)
    \/ FailRead(t) \/ FailWrite(t)

QueueNext ==
    \/ \E j \in Jobs : Schedule(j) \/ RetryFailedJob(j) \/ Expire(j) \/ BackoffOver(j)
    \/ \E t \in Ticks : TickStep(t) \/ Abandon(t)

QueueSpec == QueueInit /\ [][QueueNext]_queueVars

\* The timer keeps firing and every awaited statement returns; clocks advance.
QueueFairness ==
    /\ \A t \in Ticks : WF_queueVars(TickStep(t))
    /\ \A j \in Jobs : WF_queueVars(Expire(j)) /\ WF_queueVars(BackoffOver(j))

FairQueueSpec == QueueSpec /\ QueueFairness

-----------------------------------------------------------------------------
(* Safety.                                                                   *)

\* A row has a lease owner and an expiry exactly while it is PROCESSING.  A
\* PROCESSING row without a lease could not be told from one whose worker is
\* alive, and a leased row in another status would never be recovered.
LeaseShape ==
    \A j \in Jobs :
      /\ (jobs[j].status = "PROCESSING") <=> (jobs[j].owner # NoWorker)
      /\ (jobs[j].status = "PROCESSING") <=> (jobs[j].lease # "none")

\* However stale the attempt_count a worker writes back, a row that can still be
\* claimed has an attempt left, and a row is a dead letter only when it has
\* used all of max_retries.
RetryBudget ==
    \A j \in Jobs :
      /\ jobs[j].status \in {"PENDING", "PROCESSING"} => jobs[j].attempts < MaxRetries
      /\ jobs[j].status = "DEAD_LETTER" => jobs[j].attempts >= MaxRetries

\* A job is handed to a worker at most max_retries times before it is completed
\* or a dead letter, and once more for each attempt that a stale write took off
\* the row: overlapping ticks, crashes, failures, failed completions and leases
\* that run out all use up an attempt, and a worker that overwrites the count of
\* another one is the only way to run the job more often.
ClaimsExplained == \A j \in Jobs : claims[j] <= MaxRetries + lost[j]

-----------------------------------------------------------------------------
(* Liveness.                                                                 *)

\* Whatever crashes, expiries and stale writes happen, every job comes to rest:
\* from some time on it is completed or in the dead-letter queue.
Settles ==
    <>[](\A j \in Jobs : jobs[j].status \in {"ABSENT", "COMPLETED", "DEAD_LETTER"})
=============================================================================
