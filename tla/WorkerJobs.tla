----------------------------- MODULE WorkerJobs -----------------------------
(***************************************************************************)
(* The durable job queue and the workers that drain it:                    *)
(* apps/api/src/db/postgres/repositories/jobs.ts (tables worker_jobs and   *)
(* worker_job_runs), apps/api/src/worker/runtime.ts, the start-up half of  *)
(* entrypoint.ts and the seeding half of provider-plan.ts.                 *)
(*                                                                         *)
(* A run stands for one claim: its lease token, its worker_job_runs row    *)
(* and, while `exec' says so, the execute() call that owns it.  Tokens are *)
(* random UUIDs, so a run that nothing refers to any more may be handed    *)
(* out again as a new one.                                                 *)
(*                                                                         *)
(* Time is abstracted to what the SQL compares: `due' is run_after <= now, *)
(* `live' is lease_expires_at > now.  Both may flip at any moment.  Expiry *)
(* times are computed by the worker, by its own clock and before the wait  *)
(* for a connection and the retries of the transaction that writes them:   *)
(* a lease may be `late', over when it is written.                         *)
(***************************************************************************)
EXTENDS Integers, FiniteSets

CONSTANTS
    Job,          \* job keys of worker_jobs
    Recurring,    \* those with a schedule_interval_seconds
    Worker,       \* worker processes
    Run,          \* lease tokens
    Concurrency,  \* jobs one worker claims per batch
    MaxAttempts,  \* max_attempts
    NULL          \* SQL NULL

ASSUME ConstantsOK ==
    /\ Recurring \subseteq Job
    /\ Concurrency \in Nat \ {0}
    /\ MaxAttempts \in Nat \ {0}
    /\ NULL \notin Job \cup Worker \cup Run

VARIABLES
    job,     \* worker_jobs
    run,     \* worker_job_runs
    exec,    \* the execute() call of each claim
    worker   \* the process: where runUntilStopped stands

vars == <<job, run, exec, worker>>

Status == {"absent", "queued", "running", "retry_wait", "succeeded", "dead_letter"}
RunStatus == {"none", "running", "succeeded", "failed", "abandoned"}
\* "handling": the handler runs; "returned": it returned and complete() is
\* next; "threw"/"threw_terminal": it threw and fail() is next; "none": over.
Phase == {"none", "handling", "returned", "threw", "threw_terminal"}
\* "boot": migrating and seeding; "claim": between two claimNext calls;
\* "tx": inside claimNext; "batch": in Promise.all; "down": process gone.
Mode == {"boot", "claim", "tx", "batch", "down"}

JobRow == [status: Status, due: BOOLEAN, token: Run \cup {NULL},
           live: BOOLEAN, late: BOOLEAN, attempts: 0..MaxAttempts, failures: 0..1]
RunRow == [status: RunStatus, job: Job \cup {NULL}]
ExecState == [phase: Phase, worker: Worker \cup {NULL}, lost: BOOLEAN]
\* `stopping': the signal is aborted; `aborted': so is what the executions listen to.
WorkerState == [mode: Mode, stopping: BOOLEAN, aborted: BOOLEAN,
                seeded: SUBSET Job, seen: SUBSET Run]

TypeOK ==
    /\ job \in [Job -> JobRow]
    /\ run \in [Run -> RunRow]
    /\ exec \in [Run -> ExecState]
    /\ worker \in [Worker -> WorkerState]

-----------------------------------------------------------------------------
(* attempt_count is only ever compared with max_attempts, and of           *)
(* consecutive_failures only zero tells a first failure: each saturates.   *)
CountUp(n) == IF n < MaxAttempts THEN n + 1 ELSE n

Idle == [phase |-> "none", worker |-> NULL, lost |-> FALSE]

\* A process that has just started, and one that is gone.
Booting == [mode |-> "boot", stopping |-> FALSE, aborted |-> FALSE, seeded |-> {}, seen |-> {}]
Gone == [Booting EXCEPT !.mode = "down"]

\* The runs worker w is executing.
Batch(w) == {r \in Run : exec[r].phase # "none" /\ exec[r].worker = w}

\* WHERE id = $1 AND lease_token = $2 AND status = 'running'.
Holds(r) == run[r].job # NULL /\ job[run[r].job].token = r

\* A token that no row, execution or open transaction refers to.
Fresh(r) ==
    /\ exec[r].phase = "none"
    /\ \A j \in Job : job[j].token # r
    /\ \A w \in Worker : r \notin worker[w].seen

Init ==
    /\ job = [j \in Job |-> [status |-> "absent", due |-> FALSE, token |-> NULL,
                             live |-> FALSE, late |-> FALSE, attempts |-> 0, failures |-> 0]]
    /\ run = [r \in Run |-> [status |-> "none", job |-> NULL]]
    /\ exec = [r \in Run |-> Idle]
    /\ worker = [w \in Worker |-> Booting]

-----------------------------------------------------------------------------
(* Process life cycle.                                                     *)

\* enqueue: insert, or refresh a row of the same job_key.  seedWorkerJobs
\* passes runAfter = now, and the earlier run_after wins.
EnqueueReviving(j) ==  \* mutant: every status goes back to 'queued'
    job' = [job EXCEPT ![j].due = TRUE,
                       ![j].status = IF @ = "running" THEN @ ELSE "queued"]

Enqueue(j) ==
    job' = [job EXCEPT ![j].due = TRUE,
                       ![j].status = IF @ \in {"absent", "succeeded"} THEN "queued" ELSE @]

Seed(w, j) ==
    /\ worker[w].mode = "boot" /\ j \notin worker[w].seeded
    /\ Enqueue(j)
    /\ worker' = [worker EXCEPT ![w].seeded = @ \cup {j}]
    /\ UNCHANGED <<run, exec>>

FinishBoot(w) ==
    /\ worker[w].mode = "boot" /\ worker[w].seeded = Job
    /\ worker' = [worker EXCEPT ![w].mode = "claim"]
    /\ UNCHANGED <<job, run, exec>>

\* SIGTERM: stop claiming, let the batch drain.  execute forwards the abort, which ends
\* the heartbeats, only if it is already listening: not to the jobs still being claimed.
Stop(w) ==
    /\ worker[w].mode # "down" /\ ~worker[w].stopping
    /\ worker' = [worker EXCEPT ![w].stopping = TRUE, ![w].aborted = worker[w].mode = "batch"]
    /\ UNCHANGED <<job, run, exec>>

\* The process disappears: a kill, or a rejection that reaches
\* runWorkerProcess().catch.  Leases stay behind in the database.
Die(w) ==
    /\ exec' = [r \in Run |-> IF exec[r].worker = w THEN Idle ELSE exec[r]]
    /\ worker' = [worker EXCEPT ![w] = Gone]

Crash(w) ==
    /\ worker[w].mode # "down"
    /\ Die(w)
    /\ UNCHANGED <<job, run>>

\* The container runtime starts the process again.
Restart(w) ==
    /\ worker[w].mode = "down"
    /\ worker' = [worker EXCEPT ![w] = Booting]
    /\ UNCHANGED <<job, run, exec>>

-----------------------------------------------------------------------------
(* claimNext, one transaction at READ COMMITTED.  Its first SELECT runs on *)
(* a snapshot of its own; from the first UPDATE on, its row locks order it *)
(* against every other writer, so the rest is one step.                    *)

ReadExpired(w) ==
    /\ worker[w].mode = "claim" /\ ~worker[w].stopping
    /\ worker' = [worker EXCEPT
                    ![w].mode = "tx",
                    ![w].seen = {job[j].token : j \in {i \in Job :
                                    job[i].status = "running" /\ ~job[i].live}}]
    /\ UNCHANGED <<job, run, exec>>

EligibleUnlessRunning(w, j) ==  \* mutant: expired leases are not taken over
    job[j].due /\ job[j].status \in {"queued", "retry_wait"}

\* lease_expires_at <= $1, with the same $1 as the SELECT: a lease it did not find expired
\* is so for the UPDATE only if it was written since, late.
Expired(w, j) == ~job[j].live /\ (job[j].token \in worker[w].seen \/ job[j].late)

Eligible(w, j) ==
    /\ job[j].due
    /\ \/ job[j].status \in {"queued", "retry_wait"}
       \/ job[j].status = "running" /\ Expired(w, j)

\* FOR UPDATE SKIP LOCKED: another transaction may hold the row's lock.
MayBeLocked(w, j) ==
    \/ \E v \in Worker \ {w} : worker[v].mode \in {"boot", "tx"}
    \/ job[j].token # NULL /\ exec[job[j].token].phase # "none"

NoneAbandoned(w) == run  \* mutant: the takeover leaves the old run open

AbandonedAnyStatus(w) ==  \* mutant: without AND status = 'running'
    [r \in Run |-> IF r \in worker[w].seen
                   THEN [run[r] EXCEPT !.status = "abandoned"] ELSE run[r]]

AbandonedForRetry(w) ==  \* mutant: a status the table's CHECK refuses
    [r \in Run |-> IF r \in worker[w].seen /\ run[r].status = "running"
                   THEN [run[r] EXCEPT !.status = "retry_wait"] ELSE run[r]]

\* UPDATE worker_job_runs SET status = 'abandoned' ... AND status = 'running'.
Abandoned(w) ==
    [r \in Run |-> IF r \in worker[w].seen /\ run[r].status = "running"
                   THEN [run[r] EXCEPT !.status = "abandoned"] ELSE run[r]]

\* What worker w makes of the lease of claim r when it writes it: late for a claimer that is
\* past its SELECT and did not find r expired there.  For those still to come a lease that
\* is over when written is one that expires right after.
MayBeLate(w, r) == \E v \in Worker \ {w} : worker[v].mode = "tx" /\ r \notin worker[v].seen
Lateness(w, r) == {late \in BOOLEAN : late => MayBeLate(w, r)}

\* The next turn of runOnce's claim loop, or Promise.all when the batch is full.
AfterClaim(w) ==
    IF Cardinality(Batch(w)) + 1 < Concurrency THEN "claim" ELSE "batch"

ClaimRow(w, j, r) ==
    /\ worker[w].mode = "tx" /\ Eligible(w, j) /\ Fresh(r)
    /\ \E late \in Lateness(w, r) :
          job' = [job EXCEPT ![j].status = "running", ![j].token = r,
                             ![j].live = ~late, ![j].late = late,
                             ![j].attempts = CountUp(@)]
    /\ run' = [Abandoned(w) EXCEPT ![r] = [status |-> "running", job |-> j]]

Claim(w, j, r) ==
    /\ ClaimRow(w, j, r)
    /\ exec' = [exec EXCEPT ![r] = [phase |-> "handling", worker |-> w, lost |-> FALSE]]
    /\ worker' = [worker EXCEPT ![w].mode = AfterClaim(w), ![w].seen = {}]

\* The COMMIT took effect but its acknowledgement was lost: the transaction
\* is retried from the start and nobody executes this claim.
ClaimReplyLost(w, j, r) ==
    /\ ClaimRow(w, j, r)
    /\ worker' = [worker EXCEPT ![w].mode = "claim", ![w].seen = {}]
    /\ UNCHANGED exec

ClaimNone(w) ==
    /\ worker[w].mode = "tx"
    /\ \A j \in Job : Eligible(w, j) => MayBeLocked(w, j)
    /\ run' = Abandoned(w)
    /\ worker' = [worker EXCEPT ![w].mode = "batch", ![w].seen = {}]
    /\ UNCHANGED <<job, exec>>

\* signal.aborted breaks the claim loop.
StopClaiming(w) ==
    /\ worker[w].mode = "claim" /\ worker[w].stopping
    /\ worker' = [worker EXCEPT ![w].mode = "batch"]
    /\ UNCHANGED <<job, run, exec>>

\* Promise.all settled; runUntilStopped tests the signal and loops.
FinishBatch(w) ==
    /\ worker[w].mode = "batch" /\ Batch(w) = {}
    /\ worker' = [worker EXCEPT ![w] =
                    IF worker[w].stopping THEN Gone ELSE [worker[w] EXCEPT !.mode = "claim"]]
    /\ UNCHANGED <<job, run, exec>>

-----------------------------------------------------------------------------
(* execute: the handler, its heartbeat, and how its outcome is recorded.   *)

Executing(r) == worker[exec[r].worker].mode = "batch"

EndExec(r) == exec' = [exec EXCEPT ![r] = Idle]

\* renewLease does not look at the expiry: an expired lease that nobody has
\* claimed yet comes back to life.
RenewLease(r) ==
    \E late \in Lateness(exec[r].worker, r) :
        job' = [job EXCEPT ![run[r].job].live = ~late, ![run[r].job].late = late]

HeartbeatOfJob(r) ==  \* mutant: the renewal does not compare the token
    /\ exec[r].phase # "none" /\ Executing(r)
    /\ ~exec[r].lost /\ ~worker[exec[r].worker].aborted
    /\ job[run[r].job].token # NULL
    /\ RenewLease(r)
    /\ UNCHANGED <<run, exec, worker>>

\* The interval skips its turn once the controller is aborted.
Heartbeat(r) ==
    /\ exec[r].phase # "none" /\ Executing(r)
    /\ ~exec[r].lost /\ ~worker[exec[r].worker].aborted
    /\ \/ Holds(r) /\ RenewLease(r) /\ UNCHANGED exec
       \/ ~Holds(r) /\ exec' = [exec EXCEPT ![r].lost = TRUE] /\ UNCHANGED job
    /\ UNCHANGED <<run, worker>>

\* A heartbeat that fails in the database, applied or not, counts as a loss.
HeartbeatError(r) ==
    /\ exec[r].phase # "none" /\ Executing(r)
    /\ ~exec[r].lost /\ ~worker[exec[r].worker].aborted
    /\ exec' = [exec EXCEPT ![r].lost = TRUE]
    /\ \/ Holds(r) /\ RenewLease(r)
       \/ UNCHANGED job
    /\ UNCHANGED <<run, worker>>

Checkpoint(r) ==
    /\ exec[r].phase = "handling" /\ Executing(r) /\ Holds(r)
    /\ RenewLease(r)
    /\ UNCHANGED <<run, exec, worker>>

\* What the catch block of execute makes of an error of the handler: with
\* leaseLost set it logs and returns.
Throw(r, phase) ==
    exec' = [exec EXCEPT ![r] = IF exec[r].lost THEN Idle ELSE [@ EXCEPT !.phase = phase]]

\* checkpoint raises LostJobLeaseError; the handler may let it through, which
\* ends the execution, or wrap it in an error of its own (ingestion does).
CheckpointRefused(r) ==
    /\ exec[r].phase = "handling" /\ Executing(r) /\ ~Holds(r)
    /\ EndExec(r) \/ Throw(r, "threw")
    /\ UNCHANGED <<job, run, worker>>

HandlerReturns(r) ==
    /\ exec[r].phase = "handling" /\ Executing(r)
    /\ Throw(r, "returned")
    /\ UNCHANGED <<job, run, worker>>

HandlerThrows(r) ==
    /\ exec[r].phase = "handling" /\ Executing(r)
    /\ \E phase \in {"threw", "threw_terminal"} : Throw(r, phase)
    /\ UNCHANGED <<job, run, worker>>

\* UPDATE worker_job_runs ... AND status = 'running'.
CloseRun(r, outcome) ==
    run' = [run EXCEPT ![r].status = IF @ = "running" THEN outcome ELSE @]

SettledKeepingToken(j, status, failures) ==  \* mutant: the lease is not released
    [job[j] EXCEPT !.status = status, !.failures = failures, !.due = FALSE]

\* The row of job j once its claim is settled and its lease released; run_after
\* is set to the next interval or to the retry time.
Settled(j, status, failures) ==
    [job[j] EXCEPT !.status = status, !.failures = failures,
                   !.due = FALSE, !.token = NULL, !.live = FALSE, !.late = FALSE]

CompleteRowUnfenced(r) ==  \* mutant: WHERE id = $1, whoever holds the lease
    LET j == run[r].job
    IN  /\ job[j].status = "running"
        /\ job' = [job EXCEPT ![j] =
                     Settled(j, IF j \in Recurring THEN "queued" ELSE "succeeded", 0)]
        /\ CloseRun(r, "succeeded")

CompleteRow(r) ==
    LET j == run[r].job
    IN  /\ Holds(r)
        /\ job' = [job EXCEPT ![j] =
                     Settled(j, IF j \in Recurring THEN "queued" ELSE "succeeded", 0)]
        /\ CloseRun(r, "succeeded")

Complete(r) ==
    /\ exec[r].phase = "returned" /\ Executing(r)
    /\ CompleteRow(r)
    /\ EndExec(r)
    /\ UNCHANGED worker

\* LostJobLeaseError: the outcome belongs to whoever took the job over.
CompleteRefused(r) ==
    /\ exec[r].phase = "returned" /\ Executing(r) /\ ~Holds(r)
    /\ EndExec(r)
    /\ UNCHANGED <<job, run, worker>>

\* complete() fails in the database, its transaction committed or not.
CompleteError(r) ==
    /\ exec[r].phase = "returned" /\ Executing(r)
    /\ Throw(r, "threw")
    /\ CompleteRow(r) \/ UNCHANGED <<job, run>>
    /\ UNCHANGED worker

DeadLetter(r) ==
    exec[r].phase = "threw_terminal" \/ job[run[r].job].attempts >= MaxAttempts

Fail(r) ==
    LET j == run[r].job
    IN  /\ exec[r].phase \in {"threw", "threw_terminal"} /\ Executing(r) /\ Holds(r)
        /\ job' = [job EXCEPT ![j] =
                     Settled(j, IF DeadLetter(r) THEN "dead_letter" ELSE "retry_wait", 1)]
        /\ CloseRun(r, "failed")
        /\ EndExec(r)
        /\ UNCHANGED worker

\* fail() raises LostJobLeaseError inside the catch block: execute rejects,
\* Promise.all with it, and the process ends with all it was running.
FailRefused(r) ==
    /\ exec[r].phase \in {"threw", "threw_terminal"} /\ Executing(r) /\ ~Holds(r)
    /\ Die(exec[r].worker)
    /\ UNCHANGED <<job, run>>

-----------------------------------------------------------------------------
(* The clock.                                                              *)

BecomeDue(j) ==
    /\ job[j].status # "absent" /\ ~job[j].due
    /\ job' = [job EXCEPT ![j].due = TRUE]
    /\ UNCHANGED <<run, exec, worker>>

ExpireLease(j) ==
    /\ job[j].live
    /\ job' = [job EXCEPT ![j].live = FALSE]
    /\ UNCHANGED <<run, exec, worker>>

Process(w) ==
    \/ \E j \in Job : Seed(w, j)
    \/ FinishBoot(w) \/ Stop(w) \/ Crash(w) \/ Restart(w)

Claiming(w) ==
    \/ ReadExpired(w) \/ ClaimNone(w) \/ StopClaiming(w) \/ FinishBatch(w)
    \/ \E j \in Job, r \in Run : Claim(w, j, r) \/ ClaimReplyLost(w, j, r)

Execution(r) ==
    \/ Heartbeat(r) \/ HeartbeatError(r) \/ Checkpoint(r) \/ CheckpointRefused(r)
    \/ HandlerReturns(r) \/ HandlerThrows(r)
    \/ Complete(r) \/ CompleteRefused(r) \/ CompleteError(r)
    \/ Fail(r) \/ FailRefused(r)

Clock == \E j \in Job : BecomeDue(j) \/ ExpireLease(j)

Next ==
    \/ \E w \in Worker : Process(w) \/ Claiming(w)
    \/ \E r \in Run : Execution(r)
    \/ Clock

Spec == Init /\ [][Next]_vars

-----------------------------------------------------------------------------
(* Properties.                                                             *)

Lease == INSTANCE JobLease WITH
            holder <- [j \in Job |-> job[j].token],
            active <- {r \in Run : exec[r].phase # "none"}

\* The queue implements the abstract lease: whatever workers, clocks and lost
\* replies do, a handler sees no more than JobLease allows.
ImplementsLease == Lease!Spec

\* Each lease token is the token of one job only, that job is 'running', and
\* its run is still open or was abandoned by a claimer: fail() and complete()
\* may rely on the token alone to know whose outcome they record.
TokenNamesOneClaim ==
    \A j \in Job :
        /\ (job[j].status = "running") = (job[j].token # NULL)
        /\ job[j].live => job[j].token # NULL
        /\ job[j].token # NULL =>
              /\ run[job[j].token].job = j
              /\ run[job[j].token].status \in {"running", "abandoned"}

\* Only the execution that holds the current token takes a job out of
\* 'running': an execution whose lease was taken over can neither complete
\* nor fail the claim of its successor (complete, fail).
OutcomeByHolder ==
    [][\A j \in Job :
         (job[j].status = "running" /\ job'[j].status # "running")
            => exec[job[j].token].phase \in {"returned", "threw", "threw_terminal"}]_vars

\* While the execution of a claim is gone (its worker crashed, or gave up),
\* the job changes only by its lease expiring, a seed moving run_after, or a
\* takeover of the expired lease: no late heartbeat or checkpoint of an older
\* claim keeps it alive.
OrphanOnlyTakenOver ==
    [][\A j \in Job :
         (job[j].status = "running" /\ exec[job[j].token].phase = "none")
            => \/ /\ job'[j].token = job[j].token
                  /\ job'[j].live => job[j].live
               \/ ~job[j].live /\ job'[j].token \notin {NULL, job[j].token}]_vars

\* The outcome a run was closed with is never rewritten: a claimer that saw
\* the lease expired does not turn a run that completed meanwhile into an
\* abandoned one, and a late completion does not reopen an abandoned one.
RunOutcomeFinal ==
    [][\A r \in Run :
         run[r].status \in {"succeeded", "failed", "abandoned"}
            => run'[r].status = run[r].status \/ run'[r].status = "running"]_vars

\* A run in progress that is not the current claim of its job: claimNext joins on the
\* token, so nobody will ever close it.
LeftBehind(r) == run[r].status = "running" /\ ~Holds(r)

\* However claims, renewals, outcomes and takeovers interleave, one order alone leaves a
\* run of worker_job_runs in progress behind its job: the claim or the renewal wrote a
\* lease that was already over, and the claimer that takes the job over had read the
\* expired leases before (claimNext, `now' sampled by runOnce before the transaction).
LeftBehindOnlyWhenLate ==
    [][\A r \in Run :
         LeftBehind(r)' /\ ~LeftBehind(r)
            => /\ job[run[r].job].late
               /\ \E w \in Worker : worker[w].mode = "tx" /\ r \notin worker[w].seen]_vars

\* Dead-lettered work stays so until an operator steps in: neither a restart's
\* re-seeding nor a late worker revives it (enqueue's CASE on status).
DeadLetterIsFinal ==
    [][\A j \in Job : job[j].status = "dead_letter" => job'[j].status = "dead_letter"]_vars

-----------------------------------------------------------------------------
(* What the repository says and the code does not do.                      *)

\* ARCHITECTURE.md:74, "retries retryable failure with bounded exponential
\* delay": a retryable failure that follows a success is retried.
FirstFailureIsRetried ==
    [][\A r \in Run :
         (exec[r].phase = "threw" /\ Holds(r) /\ job[run[r].job].failures = 0)
            => job'[run[r].job].status # "dead_letter"]_vars

-----------------------------------------------------------------------------
(* Fairness.  The event loop runs what is ready, docker-compose restarts a  *)
(* process that ended ("restart: unless-stopped"), clocks advance, and      *)
(* handlers settle (each bounds its own I/O).  A row that SKIP LOCKED       *)
(* passes over is held by a transaction about to write it, and the order    *)
(* by run_after brings the job that waits longest to the front, so a job    *)
(* that is claimable again and again is claimed.                            *)
Progress(w) ==
    \/ \E j \in Job : Seed(w, j)
    \/ FinishBoot(w) \/ Restart(w) \/ ReadExpired(w) \/ ClaimNone(w)
    \/ StopClaiming(w) \/ FinishBatch(w)
    \/ \E j \in Job, r \in Run : Claim(w, j, r)

Settle(r) ==
    \/ HandlerReturns(r) \/ HandlerThrows(r)
    \/ Complete(r) \/ CompleteRefused(r) \/ Fail(r) \/ FailRefused(r)

ClaimOf(j) == \E w \in Worker, r \in Run : Claim(w, j, r)

Fairness ==
    /\ \A w \in Worker : WF_vars(Progress(w))
    /\ \A r \in Run : WF_vars(Settle(r))
    /\ \A j \in Job : /\ WF_vars(BecomeDue(j)) /\ WF_vars(ExpireLease(j))
                      /\ SF_vars(ClaimOf(j))

FairSpec == Spec /\ Fairness

\* Nobody kills or stops workers any more.  They may still end by themselves.
Calm == <>[][\A w \in Worker : ~Crash(w) /\ ~Stop(w)]_vars

\* A recurring job keeps being executed until it is dead-lettered: crashes,
\* lost replies, lost leases and the processes they end never strand it
\* (ARCHITECTURE.md:77, "crash recovery comes from the durable job, lease,
\* run, and checkpoint tables").
WorkContinues ==
    Calm => \A j \in Recurring :
              []<>(\/ job[j].status = "dead_letter"
                   \/ job[j].status = "running" /\ exec[job[j].token].phase # "none")
=============================================================================
