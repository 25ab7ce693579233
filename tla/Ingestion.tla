----------------------------- MODULE Ingestion -----------------------------
(***************************************************************************)
(* The provider-ingestion handler: apps/api/src/worker/ingestion.ts with    *)
(* the repository calls it makes (getIngestionCheckpoint,                   *)
(* saveIngestionCheckpoint and recordIngestionFailure of jobs.ts,           *)
(* upsertObservation of listings.ts, matchListing of alerts.ts) and the     *)
(* continuation of provider-source.ts.                                      *)
(*                                                                         *)
(* The handler runs under a JobLease: an execution that lost its job works  *)
(* on beside its successor, and either may stop at any step.  What keeps    *)
(* their sweeps apart is the version of the checkpoint row.  `fresh' is     *)
(* the executions whose expectedVersion is still the row's: every write of  *)
(* the row bumps the version, so nobody who left the set comes back to it.  *)
(*                                                                         *)
(* A sweep walks the provider's pages 0..Pages-1; cursor 0 is the NULL      *)
(* continuation.  The provider answers the same pages all along.            *)
(***************************************************************************)
EXTENDS Integers, FiniteSets

CONSTANTS
    Job,       \* ingestion jobs, one per provider, scope and query
    Run,       \* lease tokens, each naming an execution
    NULL,
    Listing,   \* listings of the provider
    Pages,     \* how many pages a query has
    Content(_, _)  \* Content(j, p): the listings on page p of job j's query

ASSUME ConstantsOK ==
    /\ Pages \in Nat \ {0}
    /\ NULL \notin Job \cup Run \cup Listing
    /\ \A j \in Job, p \in 0..(Pages - 1) : Content(j, p) \in SUBSET Listing

VARIABLES
    holder, active,  \* see JobLease
    cursor,   \* continuation_cursor of each provider_ingestion_checkpoints row
    fresh,    \* executions whose expectedVersion is the row's checkpoint_version
    exec,     \* where each handler stands
    pending   \* listings whose latest observation no matchListing has seen

vars == <<holder, active, cursor, fresh, exec, pending>>

Lease == INSTANCE JobLease

\* "saved": saveIngestionCheckpoint done, the worker checkpoint is next;
\* "reported": recordHealth is next; "failing": in the catch block; "over":
\* returned or threw.
Step == {"none", "read", "fetch", "page", "saved", "reported", "failing", "over"}

\* todo: listings of the page still to process; upserted: the one persisted and
\* not yet matched; behind: those someone else persisted since this one fetched
\* its page.
ExecState == [job: Job \cup {NULL}, step: Step, page: 0..(Pages - 1),
              todo: SUBSET Listing, upserted: Listing \cup {NULL},
              behind: SUBSET Listing]

TypeOK ==
    /\ holder \in [Job -> Run \cup {NULL}]
    /\ active \subseteq Run
    /\ cursor \in [Job -> 0..(Pages - 1)]
    /\ fresh \subseteq Run
    /\ exec \in [Run -> ExecState]
    /\ pending \subseteq Listing

Blank == [job |-> NULL, step |-> "none", page |-> 0, todo |-> {}, upserted |-> NULL,
          behind |-> {}]

Init ==
    /\ Lease!Init
    /\ cursor = [j \in Job |-> 0]
    /\ fresh = {}
    /\ exec = [r \in Run |-> Blank]
    /\ pending = {}

-----------------------------------------------------------------------------
(* The lease, as the worker drives it.                                     *)

Begin(j, r) ==
    /\ Lease!Grant(j, r)
    /\ exec' = [exec EXCEPT ![r] = [Blank EXCEPT !.job = j, !.step = "read"]]
    /\ UNCHANGED <<cursor, fresh, pending>>

Strand(j, r) ==
    /\ Lease!Strand(j, r)
    /\ UNCHANGED <<cursor, fresh, exec, pending>>

\* Executions end; their tokens name no version any more.
Drop(runs) ==
    /\ exec' = [r \in Run |-> IF r \in runs THEN Blank ELSE exec[r]]
    /\ fresh' = fresh \ runs
    /\ UNCHANGED <<cursor, pending>>

Settle(j) ==
    /\ Lease!Settle(j)
    /\ exec[holder[j]].step = "over"
    /\ Drop(active \ active')

Leave(r) ==
    /\ r \in active /\ exec[r].step = "over"
    /\ Lease!Quit({r})
    /\ Drop({r})

\* Processes die in the middle of anything.
Crash(runs) ==
    /\ runs # {}
    /\ Lease!Quit(runs)
    /\ Drop(runs)

-----------------------------------------------------------------------------
(* The handler.                                                            *)

At(r, step) == r \in active /\ exec[r].step = step

\* The next step has no use for what was read before it.
Goto(r, step) == exec' = [exec EXCEPT ![r] = [Blank EXCEPT !.job = exec[r].job, !.step = step]]

\* Whoever works on the same checkpoint row as r.
Siblings(r) == {q \in Run : exec[q].job = exec[r].job}

ReadCheckpoint(r) ==
    /\ At(r, "read")
    /\ exec' = [exec EXCEPT ![r].step = "fetch", ![r].page = cursor[exec[r].job]]
    /\ fresh' = fresh \cup {r}
    /\ UNCHANGED <<holder, active, cursor, pending>>

\* It fails outside the try block, so no failure is recorded.
ReadFails(r) ==
    /\ At(r, "read")
    /\ Goto(r, "over")
    /\ UNCHANGED <<holder, active, cursor, fresh, pending>>

FetchPage(r) ==
    /\ At(r, "fetch")
    /\ exec' = [exec EXCEPT ![r].step = "page",
                            ![r].todo = Content(exec[r].job, exec[r].page)]
    /\ UNCHANGED <<holder, active, cursor, fresh, pending>>

\* Execution q once someone else has persisted listing l.
Overtaken(q, l) ==
    IF exec[q].step = "page" THEN [exec[q] EXCEPT !.behind = exec[q].behind \cup {l}]
    ELSE exec[q]

\* upsertObservation.  A transaction retried after a lost COMMIT finds its own
\* event, which counts as persisted all the same.
Persist(r, l) ==
    /\ exec' = [q \in Run |-> IF q = r THEN [exec[q] EXCEPT !.upserted = l]
                              ELSE Overtaken(q, l)]
    /\ pending' = pending \cup {l}

\* The API persists what a search or a feed returned, and matches nothing.
ApiPersist(l) ==
    /\ exec' = [q \in Run |-> Overtaken(q, l)]
    /\ pending' = pending \cup {l}
    /\ UNCHANGED <<holder, active, cursor, fresh>>

\* existing.fetched_at > input.fetchedAt: only what was fetched while this one was
\* processing its page can be that far ahead.
Ignore(r, l) ==
    /\ l \in exec[r].behind
    /\ exec' = [exec EXCEPT ![r].todo = exec[r].todo \ {l}]
    /\ UNCHANGED pending

UpsertOnly(r, l) ==  \* mutant: an observation of a known listing is not matched
    /\ At(r, "page") /\ exec[r].upserted = NULL /\ l \in exec[r].todo
    /\ pending' = pending \cup {l}
    /\ exec' = [exec EXCEPT ![r].todo = exec[r].todo \ {l}]
    /\ UNCHANGED <<holder, active, cursor, fresh>>

Upsert(r, l) ==
    /\ At(r, "page") /\ exec[r].upserted = NULL /\ l \in exec[r].todo
    /\ Persist(r, l) \/ Ignore(r, l)
    /\ UNCHANGED <<holder, active, cursor, fresh>>

\* matchListing reads the stored listing, whoever stored it last.
MatchListing(r) ==
    /\ At(r, "page") /\ exec[r].upserted # NULL
    /\ pending' = pending \ {exec[r].upserted}
    /\ exec' = [exec EXCEPT ![r].todo = exec[r].todo \ {exec[r].upserted},
                            ![r].upserted = NULL]
    /\ UNCHANGED <<holder, active, cursor, fresh>>

NextCursorUnbounded(p) == p + 1  \* mutant: hasMore is not consulted

NextCursorStuck(p) ==  \* mutant: the last page's continuation is kept
    IF p + 1 < Pages THEN p + 1 ELSE p

NextCursor(p) == IF p + 1 < Pages THEN p + 1 ELSE 0

AnyVersion(r) == TRUE  \* mutant: the row is written whatever its version

\* WHERE checkpoint_version = $9.
VersionMatches(r) == r \in fresh

SaveRow(r) ==
    /\ VersionMatches(r)
    /\ cursor' = [cursor EXCEPT ![exec[r].job] = NextCursor(exec[r].page)]
    /\ fresh' = fresh \ Siblings(r)

PageDone(r) == At(r, "page") /\ exec[r].todo = {} /\ exec[r].upserted = NULL

Save(r) ==
    /\ PageDone(r)
    /\ \/ SaveRow(r) /\ Goto(r, "saved")
       \/ ~VersionMatches(r) /\ Goto(r, "failing") /\ UNCHANGED <<cursor, fresh>>
    /\ UNCHANGED <<holder, active, pending>>

\* The row was written but the reply, or the read after it, failed.
SaveReplyLost(r) ==
    /\ PageDone(r)
    /\ SaveRow(r)
    /\ Goto(r, "failing")
    /\ UNCHANGED <<holder, active, pending>>

\* LostJobLeaseError lands in the handler's own catch block.
WorkerCheckpoint(r) ==
    /\ At(r, "saved")
    /\ Goto(r, IF holder[exec[r].job] = r THEN "reported" ELSE "failing")
    /\ UNCHANGED <<holder, active, cursor, fresh, pending>>

RecordHealth(r) ==
    /\ At(r, "reported")
    /\ Goto(r, "over")
    /\ UNCHANGED <<holder, active, cursor, fresh, pending>>

\* The provider fails or a database call does.
Break(r) ==
    /\ r \in active /\ exec[r].step \in {"fetch", "page", "saved", "reported"}
    /\ Goto(r, "failing")
    /\ UNCHANGED <<holder, active, cursor, fresh, pending>>

\* Bumps the version unconditionally; the cursor stays.
RecordFailure(r) ==
    /\ At(r, "failing")
    /\ fresh' = fresh \ Siblings(r)
    /\ Goto(r, "over")
    /\ UNCHANGED <<holder, active, cursor, pending>>

RecordFailureFails(r) ==
    /\ At(r, "failing")
    /\ Goto(r, "over")
    /\ UNCHANGED <<holder, active, cursor, fresh, pending>>

Handler(r) ==
    \/ ReadCheckpoint(r) \/ FetchPage(r) \/ MatchListing(r) \/ Save(r)
    \/ \E l \in Listing : Upsert(r, l)
    \/ WorkerCheckpoint(r) \/ RecordHealth(r) \/ RecordFailure(r)

Trouble(r) == ReadFails(r) \/ SaveReplyLost(r) \/ Break(r) \/ RecordFailureFails(r)

Next ==
    \/ \E r \in Run : Handler(r) \/ Trouble(r) \/ Leave(r)
    \/ \E j \in Job : Settle(j) \/ \E r \in Run : Begin(j, r) \/ Strand(j, r)
    \/ \E runs \in SUBSET active : Crash(runs)
    \/ \E l \in Listing : ApiPersist(l)

Spec == Init /\ [][Next]_vars

-----------------------------------------------------------------------------
(* Properties.                                                             *)

\* The cursor walks the pages in order: an execution that lost its job, or one
\* that raced another from the same page, never puts it back or makes it jump
\* (the version check of saveIngestionCheckpoint).
CursorStepsForward ==
    [][\A j \in Job : cursor'[j] # cursor[j] => cursor'[j] = NextCursor(cursor[j])]_vars

\* When the cursor leaves a page, every listing on it has been matched in its
\* latest stored state, unless someone else stored that state while this page
\* was being processed: what one execution persists before it stops, and
\* what a retried transaction reports as a duplicate, is matched by the next one
\* that gets past the page.
LeftPageIsMatched ==
    [][\A j \in Job : cursor'[j] # cursor[j] =>
         \E r \in active :
            /\ exec[r].job = j /\ exec[r].step = "page"
            /\ pending \cap Content(j, cursor[j]) \subseteq exec[r].behind]_vars

\* ARCHITECTURE.md:263, "idempotent watchlist matching for every persisted
\* observation, including an exact replay after a crash between the catalog
\* write and worker checkpoint": an observation not yet matched is in the hands
\* of an execution, or its page is still to be replayed.
PersistedIsMatched ==
    \A l \in pending :
        \/ \E r \in active : exec[r].upserted = l
        \/ \E j \in Job : l \in Content(j, cursor[j])

-----------------------------------------------------------------------------
(* Fairness: the event loop runs what is ready, the worker claims due jobs  *)
(* and records what the handler returned.                                  *)

Claimable(j) == holder[j] \notin active

Fairness ==
    /\ \A r \in Run : WF_vars(Handler(r)) /\ WF_vars(Leave(r))
    /\ \A j \in Job : /\ WF_vars(Settle(j))
                      /\ WF_vars(Claimable(j) /\ \E r \in Run : Begin(j, r))

FairSpec == Spec /\ Fairness

\* From some point on nothing fails, heartbeats keep the leases alive and nobody
\* searches.
Calm ==
    <>[][/\ \A r \in Run : ~Trouble(r)
         /\ \A j \in Job, r \in Run : ~Strand(j, r) /\ (Begin(j, r) => Claimable(j))
         /\ \A runs \in SUBSET active : ~Crash(runs)
         /\ \A l \in Listing : ~ApiPersist(l)]_vars

\* Once things calm down every persisted observation is matched, even those that
\* the API or an interrupted execution left unmatched behind the cursor: sweeps go on, and each
\* listing is observed and matched again.
EventuallyMatched == Calm => \A l \in Listing : [](l \in pending => <>(l \notin pending))
=============================================================================
