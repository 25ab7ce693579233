-------------------------- MODULE WorkerJobsProofs --------------------------
(***************************************************************************)
(* Proofs about WorkerJobs, for any jobs, workers, tokens, concurrency and *)
(* attempt limit.  IInv adds to the type invariant and to the invariant    *)
(* about tokens that an execution in progress always belongs to a recorded *)
(* claim.  LeftBehindOnlyWhenLate needs TokenNamesOneClaim at a takeover   *)
(* (the run of the old token is the one being abandoned), which in turn    *)
(* needs that a token handed out is referred to by nothing.                *)
(***************************************************************************)
EXTENDS WorkerJobs, TLAPS

\* An execution in progress has a row in worker_job_runs with its job and worker.
ExecutionIsRecorded ==
    \A r \in Run : exec[r].phase # "none" => run[r].job \in Job /\ exec[r].worker \in Worker

IInv ==
    /\ TypeOK
    /\ TokenNamesOneClaim
    /\ ExecutionIsRecorded

\* The initial state: no job exists, no token is in use.
LEMMA InitIInv == Init => IInv
<1> SUFFICES ASSUME Init PROVE IInv
  OBVIOUS
<1>1. TypeOK
  BY ConstantsOK DEF Init, TypeOK, JobRow, RunRow, ExecState, WorkerState,
     Status, RunStatus, Phase, Mode, Idle, Booting
<1>. QED
  BY <1>1 DEF Init, IInv, TokenNamesOneClaim, ExecutionIsRecorded, Idle

-----------------------------------------------------------------------------
(* Steps that leave every token and every run alone.                       *)

\* enqueue refreshes a row in place; only absent and succeeded become queued.
LEMMA EnqueueRow ==
  ASSUME TypeOK, NEW j \in Job, Enqueue(j)
  PROVE  \E s \in Status :
            /\ s = job[j].status \/ (job[j].status # "running" /\ s = "queued")
            /\ job[j].status = "dead_letter" => s = "dead_letter"
            /\ job' = [job EXCEPT ![j] = [job[j] EXCEPT !.due = TRUE, !.status = s]]
<1> DEFINE s == IF job[j].status \in {"absent", "succeeded"} THEN "queued" ELSE job[j].status
<1>1. /\ s \in Status
      /\ s = job[j].status \/ (job[j].status # "running" /\ s = "queued")
      /\ job[j].status = "dead_letter" => s = "dead_letter"
  BY DEF TypeOK, JobRow, Status
<1>2. job' = [job EXCEPT ![j] = [job[j] EXCEPT !.due = TRUE, !.status = s]]
  BY DEF Enqueue, TypeOK, JobRow
<1>. QED
  BY <1>1, <1>2

\* Seeding keeps IInv: the status it may change is not 'running'.
LEMMA SeedIInv ==
  ASSUME IInv, NEW w \in Worker, NEW j \in Job, Seed(w, j)
  PROVE  IInv'
<1>1. PICK s \in Status :
         /\ s = job[j].status \/ (job[j].status # "running" /\ s = "queued")
         /\ job' = [job EXCEPT ![j] = [job[j] EXCEPT !.due = TRUE, !.status = s]]
  BY EnqueueRow DEF IInv, Seed
<1>2. job[j] \in JobRow
  BY DEF IInv, TypeOK
<1>3. [job[j] EXCEPT !.due = TRUE, !.status = s] \in JobRow
  BY <1>1, <1>2 DEF JobRow
<1>4. TypeOK'
  BY <1>1, <1>3 DEF IInv, TypeOK, Seed, WorkerState
<1>5. \A i \in Job : /\ job'[i].token = job[i].token
                     /\ job'[i].live = job[i].live
                     /\ (job'[i].status = "running") = (job[i].status = "running")
  BY <1>1, <1>2 DEF IInv, TypeOK, JobRow
<1>6. run' = run /\ exec' = exec
  BY DEF Seed
<1>8. TokenNamesOneClaim'
  BY <1>5, <1>6 DEF IInv, TokenNamesOneClaim
<1>. QED
  BY <1>4, <1>6, <1>8 DEF IInv, ExecutionIsRecorded

\* A process that moves on, whatever it has read, starts or is gone keeps its type.
LEMMA WorkerMoves ==
  ASSUME TypeOK, NEW w \in Worker, NEW m \in Mode, NEW s \in SUBSET Run
  PROVE  /\ [worker EXCEPT ![w].mode = m] \in [Worker -> WorkerState]
         /\ [worker EXCEPT ![w].mode = m, ![w].seen = s] \in [Worker -> WorkerState]
         /\ [worker EXCEPT ![w] = Booting] \in [Worker -> WorkerState]
         /\ [worker EXCEPT ![w] = Gone] \in [Worker -> WorkerState]
<1>1. worker[w] \in WorkerState /\ worker \in [Worker -> WorkerState]
  BY DEF TypeOK
<1>2. /\ [worker[w] EXCEPT !.mode = m] \in WorkerState
      /\ [worker[w] EXCEPT !.mode = m, !.seen = s] \in WorkerState
      /\ Booting \in WorkerState /\ Gone \in WorkerState
  BY <1>1 DEF WorkerState, Booting, Gone, Mode
<1>. QED
  BY <1>1, <1>2

\* Booting, stopping, dying and restarting touch neither jobs nor runs.
LEMMA LifeCycleIInv ==
  ASSUME IInv, NEW w \in Worker,
         FinishBoot(w) \/ Stop(w) \/ Crash(w) \/ Restart(w)
  PROVE  IInv'
<1>1. TypeOK'
  <2>1. CASE FinishBoot(w)
    BY <2>1 DEF FinishBoot, IInv, TypeOK, WorkerState, Mode
  <2>2. CASE Stop(w)
    <3>1. PICK b \in BOOLEAN : worker' = [worker EXCEPT ![w].stopping = TRUE, ![w].aborted = b]
      BY <2>2 DEF Stop
    <3>2. worker' \in [Worker -> WorkerState]
      BY <3>1 DEF IInv, TypeOK, WorkerState
    <3>. QED
      BY <2>2, <3>2 DEF Stop, IInv, TypeOK
  <2>3. CASE Crash(w)
    <3>1. exec' \in [Run -> ExecState]
      BY <2>3 DEF Crash, Die, IInv, TypeOK, ExecState, Phase, Idle
    <3>2. worker' \in [Worker -> WorkerState]
      BY <2>3, WorkerMoves DEF Crash, Die, IInv, Mode
    <3>. QED
      BY <2>3, <3>1, <3>2 DEF Crash, IInv, TypeOK
  <2>4. CASE Restart(w)
    BY <2>4, WorkerMoves DEF Restart, IInv, TypeOK, Mode
  <2>. QED
    BY <2>1, <2>2, <2>3, <2>4
<1>2. UNCHANGED <<job, run>>
  BY DEF FinishBoot, Stop, Crash, Restart
<1>3. \A r \in Run : exec'[r].phase # "none" =>
         exec[r].phase # "none" /\ exec'[r].worker = exec[r].worker
  BY DEF FinishBoot, Stop, Crash, Restart, Die, Idle, IInv, TypeOK
<1>. QED
  BY <1>1, <1>2, <1>3 DEF IInv, TokenNamesOneClaim, ExecutionIsRecorded

\* Time changes only due and live, and live only downwards.
LEMMA ClockIInv ==
  ASSUME IInv, NEW j \in Job, BecomeDue(j) \/ ExpireLease(j)
  PROVE  IInv'
<1>1. TypeOK'
  <2>1. job[j] \in JobRow
    BY DEF IInv, TypeOK
  <2>2. /\ [job[j] EXCEPT !.due = TRUE] \in JobRow
        /\ [job[j] EXCEPT !.live = FALSE] \in JobRow
    BY <2>1 DEF JobRow
  <2>3. CASE BecomeDue(j)
    BY <2>2, <2>3 DEF BecomeDue, IInv, TypeOK
  <2>4. CASE ExpireLease(j)
    BY <2>2, <2>4 DEF ExpireLease, IInv, TypeOK
  <2>. QED
    BY <2>3, <2>4
<1>2. \A i \in Job : /\ job'[i].token = job[i].token
                     /\ job'[i].live => job[i].live
                     /\ job'[i].status = job[i].status
  BY DEF BecomeDue, ExpireLease, IInv, TypeOK, JobRow
<1>3. run' = run /\ exec' = exec
  BY DEF BecomeDue, ExpireLease
<1>5. TokenNamesOneClaim'
  BY <1>2, <1>3 DEF IInv, TokenNamesOneClaim
<1>. QED
  BY <1>1, <1>3, <1>5 DEF IInv, ExecutionIsRecorded

-----------------------------------------------------------------------------
(* Claiming.                                                               *)

\* Abandoning changes the status of the running runs seen expired, no more.
LEMMA AbandonedRows ==
  ASSUME TypeOK, NEW w \in Worker
  PROVE  /\ Abandoned(w) \in [Run -> RunRow]
         /\ \A r \in Run :
               /\ Abandoned(w)[r].job = run[r].job
               /\ \/ Abandoned(w)[r].status = run[r].status
                  \/ run[r].status = "running" /\ Abandoned(w)[r].status = "abandoned"
               /\ Abandoned(w)[r].status = "running" =>
                     run[r].status = "running" /\ r \notin worker[w].seen
  BY DEF Abandoned, TypeOK, RunRow, RunStatus

\* Whether a lease is late is a Boolean, like its live.
LEMMA LatenessType ==
  ASSUME NEW w, NEW r, NEW late \in Lateness(w, r)
  PROVE  late \in BOOLEAN /\ (~late) \in BOOLEAN
  BY DEF Lateness

\* The row a claim writes, whatever it makes of the lease.
LEMMA ClaimedRow ==
  ASSUME TypeOK, NEW w \in Worker, NEW j \in Job, NEW r \in Run, ClaimRow(w, j, r)
  PROVE  /\ job' \in [Job -> JobRow]
         /\ job'[j].token = r /\ job'[j].status = "running"
         /\ \A i \in Job \ {j} : job'[i] = job[i]
<1>1. PICK late \in Lateness(w, r) :
         job' = [job EXCEPT ![j].status = "running", ![j].token = r, ![j].live = ~late,
                            ![j].late = late, ![j].attempts = CountUp(@)]
  BY DEF ClaimRow
<1>2. job \in [Job -> JobRow] /\ CountUp(job[j].attempts) \in 0..MaxAttempts
  BY ConstantsOK DEF TypeOK, CountUp, JobRow
<1>3. late \in BOOLEAN /\ (~late) \in BOOLEAN
  BY LatenessType
<1> DEFINE row == [job[j] EXCEPT !.status = "running", !.token = r, !.live = ~late,
                                 !.late = late, !.attempts = CountUp(job[j].attempts)]
<1>4. job' = [job EXCEPT ![j] = row]
  BY <1>1, <1>2
<1>5. row \in JobRow /\ row.token = r /\ row.status = "running"
  BY <1>2, <1>3 DEF JobRow, Status
<1> HIDE DEF row
<1>. QED
  BY <1>2, <1>4, <1>5

\* A claim, acknowledged or not: the new token names this claim, and no other row's token
\* or run changes beyond being abandoned.
LEMMA ClaimRowLedger ==
  ASSUME IInv, NEW w \in Worker, NEW j \in Job, NEW r \in Run, ClaimRow(w, j, r)
  PROVE  /\ job' \in [Job -> JobRow]
         /\ run' \in [Run -> RunRow]
         /\ TokenNamesOneClaim'
         /\ run'[r].job = j
         /\ \A q \in Run \ {r} : run'[q].job = run[q].job
<1>0. /\ job \in [Job -> JobRow] /\ run \in [Run -> RunRow]
      /\ NULL \notin Run /\ NULL \notin Job
  BY ConstantsOK DEF IInv, TypeOK
<1>1. /\ job' \in [Job -> JobRow]
      /\ job'[j].token = r /\ job'[j].status = "running"
      /\ \A i \in Job \ {j} : job'[i] = job[i]
  BY ClaimedRow DEF IInv
<1>2. run' = [Abandoned(w) EXCEPT ![r] = [status |-> "running", job |-> j]]
  BY DEF ClaimRow
<1>3. /\ Abandoned(w) \in [Run -> RunRow]
      /\ \A q \in Run :
            /\ Abandoned(w)[q].job = run[q].job
            /\ \/ Abandoned(w)[q].status = run[q].status
               \/ run[q].status = "running" /\ Abandoned(w)[q].status = "abandoned"
            /\ Abandoned(w)[q].status = "running" =>
                  run[q].status = "running" /\ q \notin worker[w].seen
  BY AbandonedRows DEF IInv
<1>4. run' \in [Run -> RunRow]
  BY <1>2, <1>3 DEF RunRow, RunStatus
<1>5. run'[r] = [status |-> "running", job |-> j]
  BY <1>2, <1>3
<1>6. \A q \in Run \ {r} : run'[q] = Abandoned(w)[q]
  BY <1>2, <1>3
<1>8. \A i \in Job : job[i].token # r
  BY DEF ClaimRow, Fresh
<1>7. TokenNamesOneClaim'
  <2> SUFFICES ASSUME NEW i \in Job
               PROVE  /\ (job'[i].status = "running") = (job'[i].token # NULL)
                      /\ job'[i].live => job'[i].token # NULL
                      /\ job'[i].token # NULL =>
                            /\ run'[job'[i].token].job = i
                            /\ run'[job'[i].token].status \in {"running", "abandoned"}
    BY DEF TokenNamesOneClaim
  <2>1. CASE i = j
    BY <2>1, <1>0, <1>1, <1>5
  <2>2. CASE i # j
    <3>1. job'[i] = job[i]
      BY <2>2, <1>1
    <3>2. CASE job[i].token # NULL
      <4>1. job[i].token \in Run \ {r}
        BY <3>2, <1>0, <1>8 DEF JobRow
      <4>2. /\ run'[job[i].token].job = run[job[i].token].job
            /\ \/ run'[job[i].token].status = run[job[i].token].status
               \/ run'[job[i].token].status = "abandoned"
        BY <4>1, <1>3, <1>6
      <4>. QED
        BY <3>1, <3>2, <4>2 DEF IInv, TokenNamesOneClaim
    <3>. QED
      BY <3>1, <3>2 DEF IInv, TokenNamesOneClaim
  <2>. QED
    BY <2>1, <2>2
<1>. QED
  BY <1>1, <1>3, <1>4, <1>5, <1>6, <1>7

LEMMA ClaimIInv ==
  ASSUME IInv, NEW w \in Worker, NEW j \in Job, NEW r \in Run,
         Claim(w, j, r) \/ ClaimReplyLost(w, j, r)
  PROVE  IInv'
<1>1. /\ job' \in [Job -> JobRow] /\ run' \in [Run -> RunRow]
      /\ TokenNamesOneClaim'
      /\ run'[r].job = j
      /\ \A q \in Run \ {r} : run'[q].job = run[q].job
  BY ClaimRowLedger DEF Claim, ClaimReplyLost
<1>2. exec' \in [Run -> ExecState] /\ worker' \in [Worker -> WorkerState]
  <2>1. exec' \in [Run -> ExecState]
    <3>1. [phase |-> "handling", worker |-> w, lost |-> FALSE] \in ExecState
      BY DEF ExecState, Phase
    <3>. QED
      BY <3>1 DEF Claim, ClaimReplyLost, IInv, TypeOK
  <2>2. AfterClaim(w) \in Mode
    BY DEF AfterClaim, Mode
  <2>3. PICK m \in Mode : worker' = [worker EXCEPT ![w].mode = m, ![w].seen = {}]
    <3>1. CASE Claim(w, j, r)
      BY <2>2, <3>1 DEF Claim
    <3>2. CASE ClaimReplyLost(w, j, r)
      BY <3>2 DEF ClaimReplyLost, Mode
    <3>. QED
      BY <3>1, <3>2
  <2>4. worker' \in [Worker -> WorkerState]
    BY <2>3 DEF IInv, TypeOK, WorkerState
  <2>. QED
    BY <2>1, <2>4
<1>3. /\ \A q \in Run \ {r} : exec'[q] = exec[q]
      /\ exec'[r].phase # "none" => exec'[r].worker = w
  <2>1. CASE Claim(w, j, r)
    BY <2>1 DEF Claim, IInv, TypeOK
  <2>2. CASE ClaimReplyLost(w, j, r)
    <3>1. exec' = exec /\ exec[r].phase = "none"
      BY <2>2 DEF ClaimReplyLost, ClaimRow, Fresh
    <3>. QED
      BY <3>1
  <2>. QED
    BY <2>1, <2>2
<1>4. ExecutionIsRecorded'
  BY <1>1, <1>3 DEF IInv, ExecutionIsRecorded
<1>. QED
  BY <1>1, <1>2, <1>4 DEF IInv, TypeOK

\* The other steps of the claim loop: at most they abandon the runs seen.
LEMMA ClaimLoopIInv ==
  ASSUME IInv, NEW w \in Worker,
         ReadExpired(w) \/ ClaimNone(w) \/ StopClaiming(w) \/ FinishBatch(w)
  PROVE  IInv'
<1>1. job' = job /\ exec' = exec /\ (run' = run \/ run' = Abandoned(w))
  BY DEF ReadExpired, ClaimNone, StopClaiming, FinishBatch
<1>2. worker' \in [Worker -> WorkerState]
  <2>1. CASE ReadExpired(w)
    <3> DEFINE seen == {job[j].token : j \in {i \in Job : job[i].status = "running" /\ ~job[i].live}}
    <3>1. seen \in SUBSET Run
      BY DEF IInv, TypeOK, JobRow, TokenNamesOneClaim
    <3>2. worker' = [worker EXCEPT ![w].mode = "tx", ![w].seen = seen]
      BY <2>1 DEF ReadExpired
    <3> HIDE DEF seen
    <3>. QED
      BY <3>1, <3>2, WorkerMoves DEF IInv, Mode
  <2>2. CASE ClaimNone(w)
    BY <2>2, WorkerMoves DEF ClaimNone, IInv, Mode
  <2>3. CASE StopClaiming(w)
    BY <2>3, WorkerMoves DEF StopClaiming, IInv, Mode
  <2>4. CASE FinishBatch(w)
    BY <2>4, WorkerMoves DEF FinishBatch, IInv, Mode
  <2>. QED
    BY <2>1, <2>2, <2>3, <2>4
<1>3. /\ run' \in [Run -> RunRow]
      /\ \A r \in Run :
            /\ run'[r].job = run[r].job
            /\ \/ run'[r].status = run[r].status
               \/ run[r].status = "running" /\ run'[r].status = "abandoned"
  BY <1>1, AbandonedRows DEF IInv, TypeOK
<1>4. TypeOK'
  BY <1>1, <1>2, <1>3 DEF IInv, TypeOK
<1>6. TokenNamesOneClaim'
  BY <1>1, <1>3, ConstantsOK DEF IInv, TokenNamesOneClaim, TypeOK, JobRow
<1>. QED
  BY <1>1, <1>3, <1>4, <1>6 DEF IInv, ExecutionIsRecorded

-----------------------------------------------------------------------------
(* Executing.                                                              *)

\* A step that leaves tokens, statuses and runs alone and starts nothing.
LEMMA ExecStateIInv ==
  ASSUME IInv,
         job' \in [Job -> JobRow], exec' \in [Run -> ExecState],
         worker' \in [Worker -> WorkerState], run' = run,
         \A j \in Job : /\ job'[j].token = job[j].token
                        /\ job'[j].status = job[j].status
                        /\ job'[j].live => job[j].token # NULL,
         \A r \in Run : exec'[r].phase # "none" =>
            exec[r].phase # "none" /\ exec'[r].worker = exec[r].worker
  PROVE  IInv'
<1>1. TypeOK'
  BY DEF IInv, TypeOK
<1>3. TokenNamesOneClaim'
  BY DEF IInv, TokenNamesOneClaim
<1>. QED
  BY <1>1, <1>3 DEF IInv, ExecutionIsRecorded

\* A job and the run that holds it are closed together.
LEMMA OutcomeIInv ==
  ASSUME IInv, NEW r \in Run, Holds(r),
         NEW row \in JobRow, row.token = NULL, row.status # "running", ~row.live,
         NEW outcome \in {"succeeded", "failed"},
         job' = [job EXCEPT ![run[r].job] = row],
         CloseRun(r, outcome),
         exec' \in [Run -> ExecState], worker' = worker,
         \A q \in Run : exec'[q].phase # "none" =>
            exec[q].phase # "none" /\ exec'[q].worker = exec[q].worker
  PROVE  IInv'
<1>0. /\ job \in [Job -> JobRow] /\ run \in [Run -> RunRow]
      /\ run[r].job \in Job /\ job[run[r].job].token = r
      /\ NULL \notin Run /\ NULL \notin Job
  BY ConstantsOK DEF IInv, TypeOK, Holds, RunRow
<1>1. /\ run' \in [Run -> RunRow]
      /\ run'[r].status # "running"
      /\ \A q \in Run : /\ run'[q].job = run[q].job
                        /\ q # r => run'[q] = run[q]
  <2> DEFINE s == IF run[r].status = "running" THEN outcome ELSE run[r].status
  <2>1. run' = [run EXCEPT ![r].status = s]
    BY <1>0 DEF CloseRun
  <2>2. s \in RunStatus /\ s # "running"
    BY <1>0 DEF RunRow, RunStatus
  <2> HIDE DEF s
  <2>. QED
    BY <1>0, <2>1, <2>2 DEF RunRow
<1>2. /\ job' \in [Job -> JobRow]
      /\ job'[run[r].job] = row
      /\ \A i \in Job : i # run[r].job => job'[i] = job[i]
  BY <1>0
<1>3. TypeOK'
  BY <1>1, <1>2 DEF IInv, TypeOK
<1>5. TokenNamesOneClaim'
  <2> SUFFICES ASSUME NEW i \in Job
               PROVE  /\ (job'[i].status = "running") = (job'[i].token # NULL)
                      /\ job'[i].live => job'[i].token # NULL
                      /\ job'[i].token # NULL =>
                            /\ run'[job'[i].token].job = i
                            /\ run'[job'[i].token].status \in {"running", "abandoned"}
    BY DEF TokenNamesOneClaim
  <2>1. CASE i = run[r].job
    BY <2>1, <1>2
  <2>2. CASE i # run[r].job
    <3>1. job'[i] = job[i]
      BY <2>2, <1>2
    <3>2. job[i].token # NULL => run[job[i].token].job = i
      BY DEF IInv, TokenNamesOneClaim
    <3>3. job[i].token # NULL => job[i].token \in Run /\ job[i].token # r
      BY <2>2, <3>2, <1>0 DEF JobRow
    <3>4. job[i].token # NULL => run'[job[i].token] = run[job[i].token]
      BY <3>3, <1>1
    <3>. QED
      BY <3>1, <3>4 DEF IInv, TokenNamesOneClaim
  <2>. QED
    BY <2>1, <2>2
<1>6. ExecutionIsRecorded'
  BY <1>1 DEF IInv, ExecutionIsRecorded
<1>. QED
  BY <1>3, <1>5, <1>6 DEF IInv

\* Ending an execution, moving it to a later phase or marking its lease lost
\* keeps exec well typed and starts no execution.
LEMMA ExecMoves ==
  ASSUME TypeOK, NEW r \in Run, exec[r].phase # "none",
         \/ EndExec(r)
         \/ \E phase \in Phase : Throw(r, phase)
         \/ exec' = [exec EXCEPT ![r].lost = TRUE]
         \/ exec' = exec
  PROVE  /\ exec' \in [Run -> ExecState]
         /\ \A q \in Run : exec'[q].phase # "none" =>
               exec[q].phase # "none" /\ exec'[q].worker = exec[q].worker
<1>1. Idle \in ExecState /\ Idle.phase = "none"
  BY DEF Idle, ExecState, Phase
<1>2. CASE EndExec(r)
  BY <1>1, <1>2 DEF EndExec, TypeOK
<1>3. CASE \E phase \in Phase : Throw(r, phase)
  <2>1. PICK phase \in Phase : Throw(r, phase)
    BY <1>3
  <2>2. [exec[r] EXCEPT !.phase = phase] \in ExecState
    BY <2>1 DEF TypeOK, ExecState
  <2>. QED
    BY <1>1, <2>1, <2>2 DEF Throw, TypeOK
<1>4. CASE exec' = [exec EXCEPT ![r].lost = TRUE]
  BY <1>4 DEF TypeOK, ExecState
<1>5. CASE exec' = exec
  BY <1>5 DEF TypeOK
<1>. QED
  BY <1>2, <1>3, <1>4, <1>5

\* A renewal through the current token touches only live and late.
LEMMA RenewRow ==
  ASSUME IInv, NEW r \in Run, Holds(r), RenewLease(r)
  PROVE  /\ job' \in [Job -> JobRow]
         /\ \A j \in Job : /\ job'[j].token = job[j].token
                           /\ job'[j].status = job[j].status
                           /\ job'[j].live => job[j].token # NULL
<1>1. /\ run[r].job \in Job /\ job[run[r].job].token # NULL
      /\ job \in [Job -> JobRow]
  BY ConstantsOK DEF IInv, TypeOK, RunRow, Holds
<1>2. PICK late \in Lateness(exec[r].worker, r) :
         job' = [job EXCEPT ![run[r].job].live = ~late, ![run[r].job].late = late]
  BY DEF RenewLease
<1>3. late \in BOOLEAN /\ (~late) \in BOOLEAN
  BY LatenessType
<1> DEFINE row == [job[run[r].job] EXCEPT !.live = ~late, !.late = late]
<1>4. job' = [job EXCEPT ![run[r].job] = row]
  BY <1>1, <1>2
<1>5. /\ row \in JobRow
      /\ row.token = job[run[r].job].token /\ row.status = job[run[r].job].status
  BY <1>1, <1>3 DEF JobRow
<1>6. \A j \in Job : job[j].live => job[j].token # NULL
  BY DEF IInv, TokenNamesOneClaim
<1> HIDE DEF row
<1>. QED
  BY <1>1, <1>4, <1>5, <1>6

\* A settled row is well typed, holds no lease and is not 'running'.
LEMMA SettledRow ==
  ASSUME TypeOK, NEW j \in Job, NEW s \in Status \ {"running"}, NEW n \in 0..1
  PROVE  LET row == Settled(j, s, n)
         IN  row \in JobRow /\ row.token = NULL /\ row.status = s /\ ~row.live
<1>1. job[j] \in JobRow
  BY DEF TypeOK
<1>. QED
  BY <1>1 DEF Settled, JobRow

\* complete() and fail() settle the row and close the run together.
LEMMA OutcomeRow ==
  ASSUME IInv, NEW r \in Run, CompleteRow(r) \/ Fail(r)
  PROVE  /\ Holds(r)
         /\ CloseRun(r, "succeeded") \/ CloseRun(r, "failed")
         /\ \E row \in JobRow :
               /\ row.token = NULL /\ row.status # "running" /\ ~row.live
               /\ job' = [job EXCEPT ![run[r].job] = row]
<1>1. Holds(r) /\ run[r].job \in Job /\ job[run[r].job] \in JobRow /\ TypeOK
  BY DEF IInv, TypeOK, RunRow, Holds, Fail, CompleteRow
<1>2. 0 \in 0..1 /\ 1 \in 0..1
  OBVIOUS
<1>3. PICK s \in Status \ {"running"}, n \in 0..1 :
         job' = [job EXCEPT ![run[r].job] = Settled(run[r].job, s, n)]
  <2>1. CASE CompleteRow(r)
    <3> DEFINE s == IF run[r].job \in Recurring THEN "queued" ELSE "succeeded"
    <3>1. s \in Status \ {"running"}
      BY DEF Status
    <3>2. job' = [job EXCEPT ![run[r].job] = Settled(run[r].job, s, 0)]
      BY <2>1 DEF CompleteRow
    <3>. QED
      BY <1>2, <3>1, <3>2
  <2>2. CASE Fail(r)
    BY <1>2, <2>2 DEF Fail, Status
  <2>. QED
    BY <2>1, <2>2
<1>4. CloseRun(r, "succeeded") \/ CloseRun(r, "failed")
  BY DEF CompleteRow, Fail
<1>5. LET row == Settled(run[r].job, s, n)
      IN  row \in JobRow /\ row.token = NULL /\ row.status = s /\ ~row.live
  BY <1>1, SettledRow
<1>. QED
  BY <1>1, <1>3, <1>4, <1>5

LEMMA ExecutionIInv ==
  ASSUME IInv, NEW r \in Run, Execution(r)
  PROVE  IInv'
<1>0. job \in [Job -> JobRow] /\ worker \in [Worker -> WorkerState] /\ TypeOK
  BY DEF IInv, TypeOK
<1>1. CASE \/ Heartbeat(r) \/ HeartbeatError(r) \/ Checkpoint(r) \/ CheckpointRefused(r)
           \/ HandlerReturns(r) \/ HandlerThrows(r) \/ CompleteRefused(r)
           \/ (CompleteError(r) /\ job' = job /\ run' = run)
  <2>1. /\ exec' \in [Run -> ExecState]
        /\ \A q \in Run : exec'[q].phase # "none" =>
              exec[q].phase # "none" /\ exec'[q].worker = exec[q].worker
    <3>1. /\ exec[r].phase # "none"
          /\ \/ EndExec(r)
             \/ \E phase \in Phase : Throw(r, phase)
             \/ exec' = [exec EXCEPT ![r].lost = TRUE]
             \/ exec' = exec
      BY <1>1 DEF Heartbeat, HeartbeatError, Checkpoint, CheckpointRefused, HandlerReturns,
         HandlerThrows, CompleteRefused, CompleteError, Phase
    <3>. QED
      BY <1>0, <3>1, ExecMoves
  <2>2. run' = run /\ worker' = worker
    BY <1>1 DEF Heartbeat, HeartbeatError, Checkpoint, CheckpointRefused, HandlerReturns,
       HandlerThrows, CompleteRefused, CompleteError
  <2>3. (Holds(r) /\ RenewLease(r)) \/ job' = job
    BY <1>1 DEF Heartbeat, HeartbeatError, Checkpoint, CheckpointRefused, HandlerReturns,
       HandlerThrows, CompleteRefused, CompleteError
  <2>4. /\ job' \in [Job -> JobRow]
        /\ \A j \in Job : /\ job'[j].token = job[j].token
                          /\ job'[j].status = job[j].status
                          /\ job'[j].live => job[j].token # NULL
    BY <1>0, <2>3, RenewRow DEF IInv, TokenNamesOneClaim
  <2>5. worker' \in [Worker -> WorkerState]
    BY <1>0, <2>2
  <2>. QED
    BY <2>1, <2>2, <2>4, <2>5, ExecStateIInv
<1>2. CASE Complete(r) \/ (CompleteError(r) /\ CompleteRow(r)) \/ Fail(r)
  <2>1. /\ exec' \in [Run -> ExecState]
        /\ \A q \in Run : exec'[q].phase # "none" =>
              exec[q].phase # "none" /\ exec'[q].worker = exec[q].worker
    BY <1>0, <1>2, ExecMoves DEF Complete, CompleteError, Fail, Phase
  <2>2. (CompleteRow(r) \/ Fail(r)) /\ worker' = worker
    BY <1>2 DEF Complete, CompleteError, Fail
  <2>. QED
    BY <2>1, <2>2, OutcomeRow, OutcomeIInv
<1>4. CASE FailRefused(r)
  <2>1. exec[r].worker \in Worker
    BY <1>4 DEF FailRefused, IInv, ExecutionIsRecorded
  <2>2. Die(exec[r].worker) /\ job' = job /\ run' = run
    BY <1>4 DEF FailRefused
  <2>3. /\ exec' \in [Run -> ExecState]
        /\ \A q \in Run : exec'[q].phase # "none" =>
              exec[q].phase # "none" /\ exec'[q].worker = exec[q].worker
    BY <2>2 DEF Die, IInv, TypeOK, Idle, ExecState, Phase
  <2>4. worker' \in [Worker -> WorkerState]
    BY <2>1, <2>2, WorkerMoves DEF Die, IInv, Mode
  <2>5. /\ job' \in [Job -> JobRow]
        /\ \A j \in Job : /\ job'[j].token = job[j].token
                          /\ job'[j].status = job[j].status
                          /\ job'[j].live => job[j].token # NULL
    BY <1>0, <2>2 DEF IInv, TokenNamesOneClaim
  <2>. QED
    BY <2>2, <2>3, <2>4, <2>5, ExecStateIInv
<1>. QED
  BY <1>1, <1>2, <1>4 DEF Execution, CompleteError

-----------------------------------------------------------------------------
(* The theorems.                                                           *)

LEMMA NextIInv == IInv /\ [Next]_vars => IInv'
<1> SUFFICES ASSUME IInv, [Next]_vars PROVE IInv'
  OBVIOUS
<1>1. CASE \E w \in Worker : Process(w)
  BY <1>1, SeedIInv, LifeCycleIInv DEF Process
<1>2. CASE \E w \in Worker : Claiming(w)
  BY <1>2, ClaimIInv, ClaimLoopIInv DEF Claiming
<1>3. CASE \E r \in Run : Execution(r)
  BY <1>3, ExecutionIInv
<1>4. CASE Clock
  BY <1>4, ClockIInv DEF Clock
<1>5. CASE UNCHANGED vars
  BY <1>5 DEF vars, IInv, TypeOK, TokenNamesOneClaim, ExecutionIsRecorded
<1>. QED
  BY <1>1, <1>2, <1>3, <1>4, <1>5 DEF Next

\* The inductive invariant holds in every reachable state.
THEOREM Inductive == Spec => []IInv
  BY InitIInv, NextIInv, PTL DEF Spec

\* Every table, execution and process keeps its type, whatever the interleaving.
THEOREM TypeCorrect == Spec => []TypeOK
<1>1. IInv => TypeOK
  BY DEF IInv
<1>. QED
  BY <1>1, Inductive, PTL

\* A token names one claim, of a running job: fail() and complete() may rely on it alone.
THEOREM TokensName == Spec => []TokenNamesOneClaim
<1>1. IInv => TokenNamesOneClaim
  BY DEF IInv
<1>. QED
  BY Inductive, <1>1, PTL

-----------------------------------------------------------------------------
(* What a single step may never do.                                        *)

\* How any step may change the status of a job: seeding and claiming of jobs
\* that are not running, and an outcome recorded by the holder of the token.
LEMMA StatusSteps ==
  ASSUME IInv, Next, NEW j \in Job
  PROVE  \/ job'[j].status = job[j].status
         \/ /\ job[j].status \notin {"running", "dead_letter"}
         \/ /\ job[j].status = "running"
            /\ exec[job[j].token].phase \in {"returned", "threw", "threw_terminal"}
<1>0. job \in [Job -> JobRow] /\ run \in [Run -> RunRow] /\ TypeOK
  BY DEF IInv, TypeOK
<1>1. CASE \E w \in Worker, i \in Job : Seed(w, i)
  <2>1. PICK i \in Job : Enqueue(i)
    BY <1>1 DEF Seed
  <2>2. PICK s \in Status :
           /\ s = job[i].status \/ (job[i].status # "running" /\ s = "queued")
           /\ job[i].status = "dead_letter" => s = "dead_letter"
           /\ job' = [job EXCEPT ![i] = [job[i] EXCEPT !.due = TRUE, !.status = s]]
    BY <1>0, <2>1, EnqueueRow
  <2>. QED
    BY <1>0, <2>2 DEF JobRow
<1>2. CASE \E w \in Worker, i \in Job, r \in Run : ClaimRow(w, i, r)
  BY <1>0, <1>2 DEF ClaimRow, Eligible, JobRow
<1>3. CASE \E r \in Run :
             /\ exec[r].phase \in {"returned", "threw", "threw_terminal"}
             /\ CompleteRow(r) \/ Fail(r)
  <2>1. PICK r \in Run :
           /\ exec[r].phase \in {"returned", "threw", "threw_terminal"}
           /\ CompleteRow(r) \/ Fail(r)
    BY <1>3
  <2>2. PICK row \in JobRow : job' = [job EXCEPT ![run[r].job] = row]
    BY <2>1, OutcomeRow
  <2>3. run[r].job \in Job /\ job[run[r].job].token = r /\ r # NULL
    BY <1>0, <2>1, OutcomeRow, ConstantsOK DEF Holds, RunRow
  <2>4. job[run[r].job].status = "running"
    BY <2>3 DEF IInv, TokenNamesOneClaim
  <2>5. CASE j = run[r].job
    BY <2>1, <2>3, <2>4, <2>5
  <2>6. CASE j # run[r].job
    BY <1>0, <2>2, <2>6
  <2>. QED
    BY <2>5, <2>6
<1>4. CASE \E r \in Run : Holds(r) /\ RenewLease(r)
  BY <1>4, RenewRow
<1>5. CASE \E i \in Job : BecomeDue(i) \/ ExpireLease(i)
  BY <1>0, <1>5 DEF BecomeDue, ExpireLease, JobRow
<1>6. CASE job' = job
  BY <1>6
<1>7. CASE \E w \in Worker : Process(w)
  BY <1>1, <1>6, <1>7 DEF Process, FinishBoot, Stop, Crash, Restart
<1>8. CASE \E w \in Worker : Claiming(w)
  BY <1>2, <1>6, <1>8 DEF Claiming, ReadExpired, ClaimNone, StopClaiming, FinishBatch,
     Claim, ClaimReplyLost
<1>9. CASE \E r \in Run : Execution(r)
  BY <1>3, <1>4, <1>6, <1>9 DEF Execution, Heartbeat, HeartbeatError, Checkpoint,
     CheckpointRefused, HandlerReturns, HandlerThrows, Complete, CompleteRefused,
     CompleteError, Fail, FailRefused
<1>. QED
  BY <1>5, <1>7, <1>8, <1>9 DEF Next, Clock

\* An execution whose lease was taken over never records an outcome on the
\* claim of its successor, for any number of workers and takeovers.
THEOREM Fencing == Spec => OutcomeByHolder
<1>1. IInv /\ [Next]_vars =>
        [\A j \in Job : (job[j].status = "running" /\ job'[j].status # "running")
           => exec[job[j].token].phase \in {"returned", "threw", "threw_terminal"}]_vars
  BY StatusSteps
<1>. QED
  BY <1>1, Inductive, PTL DEF Spec, OutcomeByHolder

\* No step of the program takes a job out of dead_letter.
THEOREM DeadLetterStays == Spec => DeadLetterIsFinal
<1>1. IInv /\ [Next]_vars =>
        [\A j \in Job : job[j].status = "dead_letter" => job'[j].status = "dead_letter"]_vars
  BY StatusSteps
<1>. QED
  BY <1>1, Inductive, PTL DEF Spec, DeadLetterIsFinal

\* A claim whose execution is gone: neither its own heartbeat nor anybody else's reaches
\* the job, and no outcome does.
LEMMA OrphanSteps ==
  ASSUME IInv, Next, NEW j \in Job,
         job[j].status = "running", exec[job[j].token].phase = "none"
  PROVE  \/ job'[j].token = job[j].token /\ (job'[j].live => job[j].live)
         \/ ~job[j].live /\ job'[j].token \notin {NULL, job[j].token}
<1>0. job \in [Job -> JobRow] /\ run \in [Run -> RunRow] /\ TypeOK
  BY DEF IInv, TypeOK
<1>1. CASE \E w \in Worker, i \in Job : Seed(w, i)
  <2>1. PICK i \in Job : Enqueue(i)
    BY <1>1 DEF Seed
  <2>2. PICK s \in Status : job' = [job EXCEPT ![i] = [job[i] EXCEPT !.due = TRUE, !.status = s]]
    BY <1>0, <2>1, EnqueueRow
  <2>. QED
    BY <1>0, <2>2 DEF JobRow
<1>2. CASE \E w \in Worker, i \in Job, r \in Run : ClaimRow(w, i, r)
  <2>1. PICK w \in Worker, i \in Job, r \in Run : ClaimRow(w, i, r)
    BY <1>2
  <2>2. r # NULL /\ job[j].token # r
    BY <2>1, ConstantsOK DEF ClaimRow, Fresh
  <2>3. CASE i = j
    BY <1>0, <2>1, <2>2, <2>3 DEF ClaimRow, Eligible, JobRow
  <2>4. CASE i # j
    BY <1>0, <2>1, <2>4 DEF ClaimRow, JobRow
  <2>. QED
    BY <2>3, <2>4
<1>3. CASE \E r \in Run : exec[r].phase # "none" /\ Holds(r) /\
                          (RenewLease(r) \/ \E row \in JobRow : job' = [job EXCEPT ![run[r].job] = row])
  <2>1. PICK r \in Run : exec[r].phase # "none" /\ Holds(r) /\
           (RenewLease(r) \/ \E row \in JobRow : job' = [job EXCEPT ![run[r].job] = row])
    BY <1>3
  <2>2. run[r].job # j
    BY <2>1 DEF Holds
  <2>. QED
    BY <1>0, <2>1, <2>2 DEF RenewLease
<1>4. CASE \E i \in Job : BecomeDue(i) \/ ExpireLease(i)
  BY <1>0, <1>4 DEF BecomeDue, ExpireLease, JobRow
<1>5. CASE job' = job
  BY <1>5
<1>6. CASE \E w \in Worker : Process(w)
  BY <1>1, <1>5, <1>6 DEF Process, FinishBoot, Stop, Crash, Restart
<1>7. CASE \E w \in Worker : Claiming(w)
  BY <1>2, <1>5, <1>7 DEF Claiming, ReadExpired, ClaimNone, StopClaiming, FinishBatch,
     Claim, ClaimReplyLost
<1>8. CASE \E r \in Run : Execution(r)
  <2>1. PICK r \in Run : Execution(r)
    BY <1>8
  <2>2. CASE Complete(r) \/ (CompleteError(r) /\ CompleteRow(r)) \/ Fail(r)
    <3>1. exec[r].phase # "none" /\ (CompleteRow(r) \/ Fail(r))
      BY <2>2 DEF Complete, CompleteError, Fail
    <3>2. Holds(r) /\ \E row \in JobRow : job' = [job EXCEPT ![run[r].job] = row]
      BY <3>1, OutcomeRow
    <3>. QED
      BY <1>3, <3>1, <3>2
  <2>3. CASE ~(Complete(r) \/ (CompleteError(r) /\ CompleteRow(r)) \/ Fail(r))
    BY <1>3, <1>5, <2>1, <2>3 DEF Execution, Heartbeat, HeartbeatError, Checkpoint,
       CheckpointRefused, HandlerReturns, HandlerThrows, CompleteRefused, CompleteError,
       FailRefused
  <2>. QED
    BY <2>2, <2>3
<1>. QED
  BY <1>4, <1>6, <1>7, <1>8 DEF Next, Clock

\* No late heartbeat or outcome of an older claim reaches a job whose execution is gone:
\* it changes hands by the expiry of its lease alone.
THEOREM OrphanWaits == Spec => OrphanOnlyTakenOver
<1>1. IInv /\ [Next]_vars =>
        [\A j \in Job :
           (job[j].status = "running" /\ exec[job[j].token].phase = "none")
              => \/ /\ job'[j].token = job[j].token
                    /\ job'[j].live => job[j].live
                 \/ ~job[j].live /\ job'[j].token \notin {NULL, job[j].token}]_vars
  BY OrphanSteps
<1>. QED
  BY <1>1, Inductive, PTL DEF Spec, OrphanOnlyTakenOver

\* How any step may change the status of a run.
LEMMA RunSteps ==
  ASSUME IInv, Next, NEW r \in Run
  PROVE  run'[r].status \in {run[r].status, "running"} \/ run[r].status = "running"
<1>0. run \in [Run -> RunRow] /\ TypeOK
  BY DEF IInv, TypeOK
<1>1. CASE run' = run
  BY <1>1
<1>2. CASE \E w \in Worker : run' = Abandoned(w)
  BY <1>0, <1>2, AbandonedRows
<1>3. CASE \E w \in Worker, j \in Job, q \in Run : ClaimRow(w, j, q)
  <2>1. PICK w \in Worker, j \in Job, q \in Run :
           run' = [Abandoned(w) EXCEPT ![q] = [status |-> "running", job |-> j]]
    BY <1>3 DEF ClaimRow
  <2>2. Abandoned(w) \in [Run -> RunRow]
    BY <1>0, AbandonedRows
  <2>3. CASE r = q
    BY <2>1, <2>2, <2>3
  <2>4. CASE r # q
    BY <1>0, <2>1, <2>2, <2>4, AbandonedRows
  <2>. QED
    BY <2>3, <2>4
<1>4. CASE \E q \in Run, outcome \in {"succeeded", "failed"} : CloseRun(q, outcome)
  BY <1>0, <1>4 DEF CloseRun, RunRow
<1>5. CASE \E w \in Worker : Process(w)
  BY <1>1, <1>5 DEF Process, Seed, FinishBoot, Stop, Crash, Restart
<1>6. CASE \E w \in Worker : Claiming(w)
  BY <1>1, <1>2, <1>3, <1>6 DEF Claiming, ReadExpired, ClaimNone, StopClaiming, FinishBatch,
     Claim, ClaimReplyLost
<1>7. CASE \E q \in Run : Execution(q)
  BY <1>1, <1>4, <1>7 DEF Execution, Heartbeat, HeartbeatError, Checkpoint,
     CheckpointRefused, HandlerReturns, HandlerThrows, Complete, CompleteRefused,
     CompleteError, CompleteRow, Fail, FailRefused
<1>8. CASE Clock
  BY <1>1, <1>8 DEF Clock, BecomeDue, ExpireLease
<1>. QED
  BY <1>5, <1>6, <1>7, <1>8 DEF Next

\* A step that keeps the runs of every job open or closed as it was leaves none behind.
LEMMA KeptTokens ==
  ASSUME TypeOK, NEW r \in Run, ~LeftBehind(r),
         run'[r].status = "running" => run[r].status = "running" /\ run'[r].job = run[r].job,
         \A j \in Job : job[j].token = r => job'[j].token = r
  PROVE  ~LeftBehind(r)'
<1> SUFFICES ASSUME run'[r].status = "running" PROVE Holds(r)'
  BY DEF LeftBehind
<1>1. run[r].job \in Job /\ job[run[r].job].token = r
  BY DEF LeftBehind, Holds, TypeOK, RunRow
<1>. QED
  BY <1>1, ConstantsOK DEF Holds

\* A run is left behind only by a takeover of its job, of a late lease that the claimer
\* had not read as expired.
LEMMA LeavingSteps ==
  ASSUME IInv, Next, NEW r \in Run, ~LeftBehind(r), LeftBehind(r)'
  PROVE  /\ job[run[r].job].late
         /\ \E w \in Worker : worker[w].mode = "tx" /\ r \notin worker[w].seen
<1>0. /\ TypeOK /\ job \in [Job -> JobRow] /\ run \in [Run -> RunRow]
      /\ NULL \notin Run /\ NULL \notin Job
  BY ConstantsOK DEF IInv, TypeOK
<1>1. CASE \E w \in Worker, j \in Job : Seed(w, j)
  <2>1. PICK j \in Job : Enqueue(j) /\ run' = run
    BY <1>1 DEF Seed
  <2>2. PICK s \in Status : job' = [job EXCEPT ![j] = [job[j] EXCEPT !.due = TRUE, !.status = s]]
    BY <1>0, <2>1, EnqueueRow
  <2>3. \A i \in Job : job'[i].token = job[i].token
    BY <1>0, <2>2 DEF JobRow
  <2>. QED
    BY <1>0, <2>1, <2>3, KeptTokens
<1>2. CASE \E w \in Worker, j \in Job, q \in Run : ClaimRow(w, j, q)
  <2>1. PICK w \in Worker, j \in Job, q \in Run : ClaimRow(w, j, q)
    BY <1>2
  <2>2. /\ job'[j].token = q /\ run'[q].job = j
        /\ \A i \in Job \ {j} : job'[i] = job[i]
    BY <1>0, <2>1, ClaimedRow, ClaimRowLedger
  <2>3. r # q
    BY <1>0, <2>2 DEF LeftBehind, Holds
  <2>4. run'[r] = Abandoned(w)[r]
    BY <1>0, <2>1, <2>3, AbandonedRows DEF ClaimRow
  <2>5. /\ run[r].status = "running" /\ r \notin worker[w].seen
        /\ run'[r].job = run[r].job
    BY <1>0, <2>4, AbandonedRows DEF LeftBehind
  <2>6. run[r].job \in Job /\ job[run[r].job].token = r
    BY <1>0, <2>5 DEF LeftBehind, Holds, RunRow
  <2>7. run[r].job = j
    <3>1. job'[run[r].job].token # r
      BY <1>0, <2>5, <2>6 DEF LeftBehind, Holds
    <3>. QED
      BY <2>2, <2>6, <3>1
  <2>8. job[j].status = "running" /\ job[j].token = r
    BY <1>0, <2>6, <2>7 DEF IInv, TokenNamesOneClaim
  <2>9. job[j].late
    BY <2>1, <2>5, <2>8 DEF ClaimRow, Eligible, Expired
  <2>. QED
    BY <2>1, <2>5, <2>7, <2>9 DEF ClaimRow
<1>3. CASE \E q \in Run : CompleteRow(q) \/ Fail(q)
  <2>1. PICK q \in Run : CompleteRow(q) \/ Fail(q)
    BY <1>3
  <2>2. PICK outcome \in {"succeeded", "failed"}, row \in JobRow :
           /\ Holds(q) /\ CloseRun(q, outcome)
           /\ job' = [job EXCEPT ![run[q].job] = row]
    BY <2>1, OutcomeRow
  <2>3. CASE r = q
    BY <1>0, <2>2, <2>3 DEF CloseRun, LeftBehind, RunRow
  <2>4. CASE r # q
    <3>1. run'[r] = run[r]
      BY <1>0, <2>2, <2>4 DEF CloseRun
    <3>2. \A i \in Job : job[i].token = r => job'[i] = job[i]
      BY <1>0, <2>2, <2>4 DEF Holds
    <3>. QED
      BY <1>0, <3>1, <3>2, KeptTokens
  <2>. QED
    BY <2>3, <2>4
<1>4. CASE \E q \in Run : Holds(q) /\ RenewLease(q) /\ run' = run
  BY <1>0, <1>4, RenewRow, KeptTokens
<1>5. CASE \E j \in Job : BecomeDue(j) \/ ExpireLease(j)
  <2>1. run' = run /\ \A j \in Job : job'[j].token = job[j].token
    BY <1>0, <1>5 DEF BecomeDue, ExpireLease, JobRow
  <2>. QED
    BY <1>0, <2>1, KeptTokens
<1>6. CASE job' = job /\ run' = run
  BY <1>0, <1>6, KeptTokens
<1>7. CASE \E w \in Worker : job' = job /\ run' = Abandoned(w)
  BY <1>0, <1>7, AbandonedRows, KeptTokens
<1>8. CASE \E w \in Worker : Process(w)
  BY <1>1, <1>6, <1>8 DEF Process, FinishBoot, Stop, Crash, Restart
<1>9. CASE \E w \in Worker : Claiming(w)
  BY <1>2, <1>6, <1>7, <1>9 DEF Claiming, ReadExpired, ClaimNone, StopClaiming, FinishBatch,
     Claim, ClaimReplyLost
<1>10. CASE \E q \in Run : Execution(q)
  BY <1>3, <1>4, <1>6, <1>10 DEF Execution, Heartbeat, HeartbeatError, Checkpoint,
     CheckpointRefused, HandlerReturns, HandlerThrows, Complete, CompleteRefused,
     CompleteError, FailRefused
<1>. QED
  BY <1>5, <1>8, <1>9, <1>10 DEF Next, Clock

\* Of all orders of claims, renewals, outcomes and takeovers, only that of a late lease and
\* an early reader leaves a run in progress behind its job.
THEOREM LedgerFollows == Spec => LeftBehindOnlyWhenLate
<1>1. IInv /\ [Next]_vars =>
        [\A r \in Run :
           LeftBehind(r)' /\ ~LeftBehind(r)
              => /\ job[run[r].job].late
                 /\ \E w \in Worker : worker[w].mode = "tx" /\ r \notin worker[w].seen]_vars
  BY LeavingSteps
<1>. QED
  BY <1>1, Inductive, PTL DEF Spec, LeftBehindOnlyWhenLate

\* The outcome of a run is never rewritten.
THEOREM OutcomesStay == Spec => RunOutcomeFinal
<1>1. IInv /\ [Next]_vars =>
        [\A r \in Run : run[r].status \in {"succeeded", "failed", "abandoned"}
           => run'[r].status = run[r].status \/ run'[r].status = "running"]_vars
  BY RunSteps
<1>. QED
  BY <1>1, Inductive, PTL DEF Spec, RunOutcomeFinal

-----------------------------------------------------------------------------
(* The queue implements JobLease.  Every step either leaves the tokens     *)
(* alone and starts no execution, which is a Quit of those that ended or a *)
(* stutter; or gives a job a fresh token; or settles the holder's job.     *)

Running == {r \in Run : exec[r].phase # "none"}

\* Steps that move no token and start no execution.
LEMMA QuitStep ==
  ASSUME \A j \in Job : job'[j].token = job[j].token,
         \A q \in Run : exec'[q].phase # "none" => exec[q].phase # "none"
  PROVE  Lease!Next
<1>1. PICK ended \in SUBSET Running : Running' = Running \ ended
  <2>1. /\ Running \ Running' \in SUBSET Running
        /\ Running' = Running \ (Running \ Running')
    BY DEF Running
  <2>. QED
    BY <2>1
<1>2. [j \in Job |-> job[j].token]' = [j \in Job |-> job[j].token]
  OBVIOUS
<1>3. Lease!Quit(ended)
  BY <1>1, <1>2 DEF Lease!Quit, Running
<1>. QED
  BY <1>1, <1>3 DEF Lease!Next, Running

\* A claim hands out a token that neither a row nor an execution refers to.
LEMMA GrantStep ==
  ASSUME IInv, NEW w \in Worker, NEW j \in Job, NEW r \in Run,
         Claim(w, j, r) \/ ClaimReplyLost(w, j, r)
  PROVE  Lease!Next
<1>0. job \in [Job -> JobRow] /\ exec \in [Run -> ExecState]
  BY DEF IInv, TypeOK
<1>1. ClaimRow(w, j, r)
  BY DEF Claim, ClaimReplyLost
<1>2. Lease!Unused(r)
  BY <1>1 DEF ClaimRow, Fresh, Lease!Unused
<1>3. [i \in Job |-> job[i].token]' = [[i \in Job |-> job[i].token] EXCEPT ![j] = r]
  BY <1>0, <1>1 DEF ClaimRow, JobRow
<1>4. CASE Claim(w, j, r)
  <2>1. Running' = Running \cup {r}
    BY <1>0, <1>4 DEF Claim, Running, ExecState
  <2>2. Lease!Grant(j, r)
    BY <1>2, <1>3, <2>1 DEF Lease!Grant, Running
  <2>. QED
    BY <2>2 DEF Lease!Next
<1>5. CASE ClaimReplyLost(w, j, r)
  <2>1. Lease!Strand(j, r)
    BY <1>2, <1>3, <1>5 DEF Lease!Strand, ClaimReplyLost
  <2>. QED
    BY <2>1 DEF Lease!Next
<1>. QED
  BY <1>4, <1>5

\* complete and fail settle the job of the execution that holds its token.
LEMMA SettleStep ==
  ASSUME IInv, NEW r \in Run,
         Complete(r) \/ (CompleteError(r) /\ CompleteRow(r)) \/ Fail(r)
  PROVE  Lease!Next
<1>0. /\ job \in [Job -> JobRow] /\ exec \in [Run -> ExecState] /\ run \in [Run -> RunRow]
      /\ exec[r].phase # "none"
  BY DEF IInv, TypeOK, Complete, CompleteError, Fail
<1>10. run[r].job \in Job /\ job[run[r].job].token = r
  BY <1>0, OutcomeRow DEF Complete, CompleteError, Holds, RunRow
<1>11. PICK j \in Job : j = run[r].job
  BY <1>10
<1>1. PICK row \in JobRow : row.token = NULL /\ job' = [job EXCEPT ![j] = row]
  BY <1>11, OutcomeRow DEF Complete, CompleteError
<1>2. job[j].token = r
  BY <1>10, <1>11
<1>3. [i \in Job |-> job[i].token]' = [[i \in Job |-> job[i].token] EXCEPT ![j] = NULL]
  BY <1>0, <1>1, <1>2
<1>4. EndExec(r) \/ Throw(r, "threw")
  BY DEF Complete, CompleteError, Fail
<1>5. Running' \in {Running, Running \ {r}}
  BY <1>0, <1>4 DEF EndExec, Throw, Idle, Running, ExecState
<1>6. r \in Running
  BY <1>0 DEF Running
<1>7. Lease!Settle(j)
  BY <1>2, <1>3, <1>5, <1>6 DEF Lease!Settle, Running
<1>. QED
  BY <1>7 DEF Lease!Next

\* Every execution of a handler, its heartbeats and its outcome.
LEMMA ExecutionStep ==
  ASSUME IInv, NEW r \in Run, Execution(r)
  PROVE  Lease!Next
<1>0. /\ job \in [Job -> JobRow] /\ TypeOK
      /\ (Holds(r) /\ RenewLease(r)) => \A j \in Job : job'[j].token = job[j].token
  BY RenewRow DEF IInv, TypeOK
<1>1. CASE \/ Heartbeat(r) \/ HeartbeatError(r) \/ Checkpoint(r) \/ CheckpointRefused(r)
           \/ HandlerReturns(r) \/ HandlerThrows(r) \/ CompleteRefused(r)
           \/ (CompleteError(r) /\ job' = job)
  <2>1. \A j \in Job : job'[j].token = job[j].token
    BY <1>0, <1>1 DEF Heartbeat, HeartbeatError, Checkpoint, CheckpointRefused,
       HandlerReturns, HandlerThrows, CompleteRefused
  <2>2. /\ exec[r].phase # "none"
        /\ \/ EndExec(r)
           \/ \E phase \in Phase : Throw(r, phase)
           \/ exec' = [exec EXCEPT ![r].lost = TRUE]
           \/ exec' = exec
    BY <1>1 DEF Heartbeat, HeartbeatError, Checkpoint, CheckpointRefused, HandlerReturns,
       HandlerThrows, CompleteRefused, CompleteError, Phase
  <2>. QED
    BY <1>0, <2>1, <2>2, ExecMoves, QuitStep
<1>2. CASE Complete(r) \/ (CompleteError(r) /\ CompleteRow(r)) \/ Fail(r)
  BY <1>2, SettleStep
<1>3. CASE FailRefused(r)
  BY <1>0, <1>3, QuitStep DEF FailRefused, Die, Idle, TypeOK
<1>. QED
  BY <1>1, <1>2, <1>3 DEF Execution, CompleteError

\* Whatever workers, clocks and lost replies do, the queue is a JobLease.
THEOREM Implements == Spec => ImplementsLease
<1>1. Init => Lease!Init
  BY DEF Init, Idle, Lease!Init
<1>2. IInv /\ [Next]_vars => [Lease!Next]_(Lease!leaseVars)
  <2> SUFFICES ASSUME IInv, Next PROVE Lease!Next \/ UNCHANGED Lease!leaseVars
    BY DEF vars, Lease!leaseVars
  <2>0. job \in [Job -> JobRow] /\ TypeOK
    BY DEF IInv, TypeOK
  <2>1. CASE \E w \in Worker, j \in Job : Seed(w, j)
    <3>1. PICK i \in Job : Enqueue(i) /\ exec' = exec
      BY <2>1 DEF Seed
    <3>2. PICK s \in Status : job' = [job EXCEPT ![i] = [job[i] EXCEPT !.due = TRUE, !.status = s]]
      BY <2>0, <3>1, EnqueueRow
    <3>3. \A j \in Job : job'[j].token = job[j].token
      BY <2>0, <3>2 DEF JobRow
    <3>. QED
      BY <3>1, <3>3, QuitStep
  <2>2. CASE \E w \in Worker : FinishBoot(w) \/ Stop(w) \/ Crash(w) \/ Restart(w)
    BY <2>0, <2>2, QuitStep DEF FinishBoot, Stop, Crash, Restart, Die, Idle, TypeOK
  <2>3. CASE \E w \in Worker : Claiming(w)
    BY <2>3, QuitStep, GrantStep DEF Claiming, ReadExpired, ClaimNone, StopClaiming, FinishBatch
  <2>4. CASE \E r \in Run : Execution(r)
    BY <2>4, ExecutionStep
  <2>5. CASE Clock
    BY <2>0, <2>5, QuitStep DEF Clock, BecomeDue, ExpireLease, JobRow
  <2>. QED
    BY <2>1, <2>2, <2>3, <2>4, <2>5 DEF Next, Process
<1>. QED
  BY <1>1, <1>2, Inductive, PTL DEF Spec, ImplementsLease, Lease!Spec
=============================================================================
