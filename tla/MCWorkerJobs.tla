---------------------------- MODULE MCWorkerJobs ----------------------------
(* Small instances of WorkerJobs for TLC.                                  *)
EXTENDS WorkerJobs, TLC

TokensAndWorkers == Permutations(Run) \cup Permutations(Worker)

\* A quiet system: no process ends, no reply is lost, no lease expires.
Quiet ==
    /\ \A w \in Worker :
          /\ ~Crash(w) /\ ~Stop(w)
          /\ \A j \in Job, r \in Run : ~ClaimReplyLost(w, j, r)
    /\ \A r \in Run : ~HeartbeatError(r) /\ ~CompleteError(r)
    /\ \A j \in Job : ~ExpireLease(j) /\ ~job'[j].late

QuietSpec == Init /\ [][Next /\ Quiet]_vars
=============================================================================
