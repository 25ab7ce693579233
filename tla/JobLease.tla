------------------------------ MODULE JobLease ------------------------------
(***************************************************************************)
(* What the job queue promises to a handler, whatever its workers go       *)
(* through: a job has one holder at a time, a claim starts under a token    *)
(* nobody else uses, only the execution that holds the job settles it, and  *)
(* an execution that lost its job never gets it back.  It may run on, next  *)
(* to its successor, until it finds out: a handler must cope with that.     *)
(*                                                                         *)
(* WorkerJobs implements this specification; Ingestion is built on it.      *)
(***************************************************************************)
CONSTANTS Job, Run, NULL

VARIABLES
    holder,  \* the token in each job's row, NULL when nobody claims it
    active   \* the tokens whose execute() call is still running

leaseVars == <<holder, active>>

Init == holder = [j \in Job |-> NULL] /\ active = {}

Unused(r) == r \notin active /\ \A j \in Job : holder[j] # r

\* claimNext, of an idle job or of one whose lease ran out.
Grant(j, r) ==
    /\ Unused(r)
    /\ holder' = [holder EXCEPT ![j] = r]
    /\ active' = active \cup {r}

\* claimNext whose reply never arrived: the claim is nobody's.
Strand(j, r) ==
    /\ Unused(r)
    /\ holder' = [holder EXCEPT ![j] = r]
    /\ UNCHANGED active

\* complete or fail; after an error the execution outlives its own outcome.
Settle(j) ==
    /\ holder[j] \in active
    /\ holder' = [holder EXCEPT ![j] = NULL]
    /\ active' \in {active, active \ {holder[j]}}

\* Executions end, by themselves or with their process.
Quit(runs) ==
    /\ active' = active \ runs
    /\ UNCHANGED holder

Next ==
    \/ \E j \in Job, r \in Run : Grant(j, r) \/ Strand(j, r)
    \/ \E j \in Job : Settle(j)
    \/ \E runs \in SUBSET active : Quit(runs)

Spec == Init /\ [][Next]_leaseVars
=============================================================================
