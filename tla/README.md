# ClosetSearch in TLA+

Formal models of the parts of ClosetSearch that run concurrently, fail half-way
and try again: the durable job queue with its workers, provider ingestion, the
matching of listings with watchlists, the outbound alert deliveries, the consent
that SMS are sent under, the HTTP client that every provider adapter shares, and
the search that merges the providers' pages into one result list. TLC checks the
models on small instances; TLAPS proves their safety properties for every value
of the constants. Paths below are relative to the
repository; `A` stands for `apps/api/src`.

`PROJECT.json` lists the components, the runs, which source lines each
definition stands for, the hazards with the properties that cover them, the
findings and the theorems.

## 1. Inventory

ClosetSearch searches several second-hand marketplaces at once, stores what it
finds in PostgreSQL and alerts users whose watchlists match. Two processes share
the database: the HTTP API (searches, accounts, watchlists, webhooks) and the
worker (ingestion, alerts, maintenance). There is one API and any number of
workers; PostgreSQL is their only shared state.

| Component | State | Operations | Interacts with |
|---|---|---|---|
| Job queue, `A/db/postgres/repositories/jobs.ts` | `worker_jobs`, `worker_job_runs`, `provider_ingestion_checkpoints` | enqueue, claimNext, renewLease, checkpoint, complete, fail; get/save ingestion checkpoint, recordIngestionFailure | the runtime calls it; all workers share it |
| Worker runtime, `A/worker/runtime.ts`, `entrypoint.ts` | the batch in flight, heartbeat timers, the abort signal | claim loop, execute, drain, restart | queue, handlers |
| Seeding, `A/worker/provider-plan.ts` | none (environment variables) | seedWorkerJobs | queue |
| Ingestion handler and source, `A/worker/ingestion.ts`, `provider-source.ts` | the page in hand, its `expectedVersion` | read checkpoint, fetch, upsert, match, save cursor, checkpoint, health | queue, catalogue, matcher, adapters |
| Listing catalogue, `A/db/postgres/repositories/listings.ts` | `listings`, `price_observations`, `listing_current_state` | upsertObservation, markStale | ingestion, searches |
| Search-time persistence, `A/services/providerListingPersistenceService.ts` | none | persist what a search returned | catalogue |
| Alerts, `A/db/postgres/repositories/alerts.ts` | watchlists, `alert_matches` (the inbox), `alert_deliveries` | matchListing, mark seen, dismiss, claim, defer, mark, fail, suppress, recover, reconcile | ingestion, delivery processor |
| Delivery processor and transports, `A/services/alertDeliveryService.ts`, `notificationTransports.ts` | the claim in hand | processDue; Resend and Twilio requests | alerts, consent, providers |
| Consent and identity, `A/db/postgres/repositories/notifications.ts`, `A/services/notificationSecurityService.ts` | settings, consents, suppressions, phone challenges, webhook events | opt in/out, suppress, verify, claim an event | delivery processor, webhooks |
| HTTP client, `packages/providers/src/http/resilient-http.ts` | slots, waiting queue, pacing chain, breaker | request | adapters |
| Search orchestrator, `A/providers/orchestrator.ts`, `A/search-service.ts`, `A/feed-service.ts` | the provider cache; where a search stands travels in its cursor | search, feed | adapters, catalogue, web page |
| Result list, `apps/web/src/app.tsx` (SearchRoutePage, HomePage) | what is shown, its cursor, requests under way | first page, retry, load more | `GET /search`, `GET /feed` |
| Accounts, sessions, entitlements | tokens, sessions, plans | sign-up, reset, delete, billing webhooks | API |
| Adapters, ML, exchange rates, trends, SQLite fallback, the other web pages | none, or derived data | parsing, scoring, rendering | – |

What is hard in it, and what each part owes:

- **Queue and workers.** Claims are leases in a table. A lease may expire while
  its handler runs, a commit may be acknowledged to nobody, a worker may die at
  any statement, a lease may be over when it is written, and shutdown stops the
  heartbeats while the batch drains. Owed: one current claim per job, outcomes
  recorded by its holder only, a ledger of runs that is never rewritten and follows
  the jobs, and no job stranded by a crash.
- **Ingestion.** Two executions of one job may overlap; each step commits on its
  own; searches write the same listings. Owed: the cursor walks the pages in
  order, and what is persisted gets matched.
- **Delivery.** A claim has a timeout and no token; the provider's acceptance may
  never be heard of; callbacks arrive in any order; people opt out at any moment.
  Owed: bounded attempts, no row back from a final state, an opt-out honoured,
  no SMS sent twice by the program itself, every delivery ended.
- **HTTP client.** Requests interleave at every await. Owed: exact slots, paced
  fetches, a breaker that never locks itself, no request forgotten.
- **Consent, identity, webhooks.** One keyword is several statements without a
  transaction, next to the account's own requests; the time a consent counts by
  is taken before it is written; providers redeliver events. Owed: a STOP that
  was answered is obeyed, an event handled by one of its redeliveries at a time
  and never lost to a crash.
- **Matching.** Several transactions match one listing at once, each statement
  with a snapshot of its own, while searches store other prices of it and users
  dismiss and switch. Owed: an alert says what was observed, what was dismissed
  stays so until there is news, a stored drop is announced whatever fails between.
- **Search.** Pages of different ages are merged, cut and continued through a
  cursor, providers fail one by one, and the page on the screen may change while
  its requests are under way. Owed: its query's results, each once, none skipped,
  and an end.

## 2. Modules

```
JobLease <---implements--- WorkerJobs <--- MCWorkerJobs
   ^                            ^--------- WorkerJobsProofs
   |
   +-------built on-------- Ingestion <--- MCIngestion
                                ^--------- IngestionProofs
AlertDelivery <---- AlertDeliveryProofs
EventClaim <--implements-- SmsConsent <------ SmsConsentProofs
SlotQueue <---implements-- ResilientHttp <--- ResilientHttpProofs
Search <----------- MCSearch, SearchProofs
AlertMatching <---- MCAlertMatching, AlertMatchingProofs
```

AlertMatching is the inside of two steps of Ingestion, `Upsert` and
`MatchListing`, for one listing; what it puts into `sent` are the rows that
AlertDelivery works on.

### WorkerJobs and JobLease

`job` is `worker_jobs`, `run` is `worker_job_runs` keyed by lease token, `exec`
says where each `execute()` call stands and `worker` where each process does.
Time is kept as what the SQL compares: `due` (`run_after <= now`) and `live`
(`lease_expires_at > now`), which flip at any moment (`BecomeDue`,
`ExpireLease`). A worker computes `now` and the expiry of a lease by its own clock,
before it waits for a connection and through the retries of the transaction, so a
claim or a renewal may write a lease that is over already: it is `late` for a
claimer that read the expired leases before (`MayBeLate`), which then takes the job
over though it did not see that run expired (`Expired`).

| Action | Code |
|---|---|
| `Seed`, `FinishBoot`, `Restart`, `Stop`, `Crash` | `seedWorkerJobs`, `entrypoint.ts`, SIGTERM, a kill |
| `ReadExpired`, then `Claim`, `ClaimNone` or `ClaimReplyLost` | `claimNext`: its first SELECT has a snapshot of its own, the rest is ordered by row locks; the last is a commit whose acknowledgement is lost and that `withTransaction` repeats |
| `StopClaiming`, `FinishBatch` | `runOnce`, `runUntilStopped` |
| `Heartbeat`, `HeartbeatError` | the interval in `execute`, `renewLease` |
| `Checkpoint`, `CheckpointRefused` | `checkpoint`, and `LostJobLeaseError` let through or wrapped |
| `HandlerReturns`, `HandlerThrows`, `Complete`, `CompleteRefused`, `CompleteError`, `Fail`, `FailRefused` | the try/catch of `execute`; a refused `fail` ends the process with its batch |

`JobLease` is the promise made to a handler: one holder per job, a fresh token
for each claim, only the holder settles. Its refinement mapping takes `holder` to
the token column and `active` to the tokens whose `execute()` runs. It says
openly that a handler may run on after it lost its job.

### Ingestion

Built on `JobLease`, not on `WorkerJobs`: what it shows therefore holds of any
queue that keeps the lease's promise. `cursor` is the continuation of each
checkpoint row, `exec` the handler's place, page and remaining listings,
`pending` the listings whose latest observation nobody matched. The version
number is not counted: `fresh` is the executions whose `expectedVersion` is still
the row's, which is all a comparison of versions tells. `behind` (per execution)
is what others persisted while this one processed its page; only those can be
ignored as stale. `ApiPersist` is a search.

### AlertDelivery

The rows are those of one destination, all of one channel. `delivery` is
`alert_deliveries`, `worker` the place of each `processDue`, `accepted` what the
providers took, `optedOut` and `sweeping` the state of consent and of
`suppressDestination`, whose two statements are two steps. An idempotency key
(e-mail only) is modelled by what it does: the provider keeps the first message.
Every `UPDATE` keeps its own WHERE clause, because there is no token to fence it.

### ResilientHttp

One action per stretch between two awaits of `request()`: `Begin` (the breaker,
then a slot or the queue), `PaceNow`/`PaceSleep`/`PaceWake` (the chain of
`pacingTail`), `FetchEnds` (the slot released or handed on), then `Succeed`,
`BackOff` and `Retry`, or `GiveUp`. The clock is two facts: whether the pacing
interval has passed (`recent`) and whether the cooldown has (`CooldownElapses`).

`SlotQueue` is what a queue of the client promises to those who wait in it: who
leaves hands its place to the first that waits, a newcomer takes a free place or
the end of the line, and no place is free while somebody waits. ResilientHttp
implements it twice. For the slots, `inside` is the requests that hold one
(`Holders`) and `waiting` is `concurrencyQueue`. For the pacing lock there is one
place: `inside` is the head of the promise chain, `waiting` its tail.

### SmsConsent

One phone number of one account. `consent` is the action of the latest row of
`notification_channel_consents`, `suppression` the reason of the active row of
`notification_suppressions`, `phone` the identity, `enabled` the setting, `event`
the webhook events with their claims, `request` where each request stands. An
action is one statement: a keyword is `Look`, `RecordConsent`,
`InsertSuppression` (and `UpdateSuppression`) or `ReleaseSuppression`,
`SetChannelEnabled`, `Complete`; `Break` and `Release` are the webhook's catch
block. Consents count by `occurred_at`, which is taken in `Look` (or where the
request begins) and written later: `older` is who took theirs before a request
and is still to write, `late` that a later one has written first, so that no
clock is needed. AlertDelivery has the same opt-outs as its deliveries see them.

`EventClaim` is the promise behind the claims of webhook events: taken up only
while neither done nor claimed with time left, ended only by the claim's holder,
never taken up again once done. Its mapping takes `claim` to the row's token,
`lapsed` to the claims older than five minutes, `done` to `processed_at` and
`handling` to the event each request believes to be its own. A request that lost
its event may go on; it can only quit.

### Search

The result list of one page and everything behind it. `view` is the React state
of SearchRoutePage, `asking` the first pages asked for and not answered, `load`
the requests for more. The server keeps nothing between requests but its cache,
so a request is one step: `Answers(q, c)` is the set of answers that
`searchListings` may give to query `q` and cursor `c`.

| Definition | Code |
|---|---|
| `Collect` (with `Reached`, `Passes`, `FetchAt`) | `collectProviderCandidates`: the exhausted, the refused, the loop over pages without anything new, the failed fetch, the cap of advances |
| `Unique`, `Selections`, `SeenAfter`, `Position`, `NextCursor` | `runProviderSearch`: deduplication, the cut to the page size, the keys seen, who stays on its page, the next cursor |
| `Answer`, `Lost` | `searchListings`: the 502 when every provider failed and nothing was found; later failures |
| `Navigate`, `Retry`, `FirstPage` | the first-page effect with its `AbortController` |
| `LoadMore`, `More` | `handleLoadMore`, which has no controller |

The cache is modelled by what it does to a fetch: each fetch may answer with any
`Version` of its page, as a fresh entry, a stale one, a late background refresh
or another search's fetch may be what it gets. `gaveUp` (providers exhausted
with pages left) and `mixed` (an answer to another list's request was applied)
are history: no action reads them.

### AlertMatching

One listing. `price` is its `price_observations`, `available` its current state,
`row` the inbox rows by watchlist and event, `sent` the idempotency keys of
`alert_deliveries` (a trigger is an `observation_version`, 0 for `listing:<id>`),
`run` where each worker is with the listing.

| Action | Code |
|---|---|
| `Search`, `Visit`, `MarkStale` | `upsertObservation` by a search (nothing is matched) or by a worker, `markStale` |
| `ReadPrices`, `ReadCandidates`, `Choose` | the SELECTs of `matchListing` and `listingEvents`, each with its own snapshot |
| `Write`, `Queue`, `Deadlock` | the upserts of one candidate's rows, which take row locks; waiting for one; the transaction that PostgreSQL ends and `withTransaction` begins anew |
| `Commit` | `ON CONFLICT DO UPDATE` with its CASE on the trigger, the deliveries behind their idempotency keys |
| `Break` | a crash or a failed transaction, after which the job runs again |
| `MarkSeen`, `Dismiss`, `Switch` | the inbox and `updateWatchlist` |

The rows one transaction writes for a watchlist are locked in one step, since
every matching takes them in the same order; candidates come in any order, which
is where deadlocks come from. `ahead` is who queued for a lock before whom.
`crossed` is history: some matching committed after one that had read later.

## 3. Runs

| Run | Instance | Distinct states | Shows |
|---|---|---|---|
| WorkerJobs | 1 recurring job, 2 workers, batches of 2, 3 tokens, 2 attempts; symmetric in tokens and workers | 1,070,730 | tokens name one claim, outcomes are fenced, closed runs and dead letters stay, a run falls behind its job only by a late lease, orphans change hands only by expiry, and the lease is implemented |
| WorkerJobsLive | the same with batches of 1 and 1 attempt, no symmetry | 705,809 | a recurring job is executed again and again or dead-lettered |
| WorkerJobsFirstFailure | 1 worker, nothing crashes or expires | violated | finding 1 |
| Ingestion | 1 job, 2 overlapping executions, 3 pages, 2 listings of which one is on every page, searches | 39,772 | the cursor's order, matched pages, eventual matching |
| IngestionUnmatched | the same with 2 pages and no searches | violated | finding 2 |
| AlertDelivery | 1 delivery (e-mail or SMS), 2 workers, 3 messages, 3 attempts | 44,908 | bounded attempts, an SMS accepted at most once for each, delivered means accepted, final rows stay, opt-outs win, deliveries end |
| AlertDeliverySmsTwice | 1 worker, 2 messages | violated | finding 3 |
| ResilientHttp | 3 callers, 2 slots, 1 retry, threshold 2 | 91,880 | slots, order of service, pacing, the breaker's test, progress |
| SmsConsent | 1 webhook event, 2 requests at a time, which begin again without end | 1,766,366 | STOP is obeyed, one live claimant, the claims' promise implemented, no event lost |
| ResilientHttpTwoProbes | no retry, threshold 1 | violated | finding 4 |
| Search | 2 providers with 2 and 3 pages in 2 versions, a provider that refuses a query and one that refuses later pages, a page size of 1, 2 advances, 2 requests for more, 2 lists opened, 2 faults | 20,422 | own results, shown once, nothing skipped, the end is reached |
| AlertMatching | 2 watchlists with different limits, 2 workers, 2 prices, 3 observations, 2 visits, 1 fault, 1 act of a user | 129,807 | alerts are true, dismissed rows come back only with news, drops are announced |

**Why the bounds are enough.**

- *Tokens.* A token nobody refers to any more is used again, so three tokens are
  no bound on the number of claims: they are one for the current claim, one for
  an execution that was taken over, and one to claim with.
- *Jobs.* Jobs do not share rows; with one job and two workers both contend for
  it at every step. Batches of two let one process run a lost claim next to its
  successor.
- *Attempts.* `attempt_count` is compared with `max_attempts` only and saturates
  there (`CountUp`); of `consecutive_failures` only zero tells a first failure; two
  attempts distinguish the first, the last and those in between. The failure
  count of the breaker saturates at its threshold for the same reason.
- *Pages.* Three make the first, the last and the middle page differ; a listing
  on every page is observed again and again, one on the first page only is not.
- *Deliveries.* Rows of one destination meet only in the opt-out, which sweeps
  them all; two workers contend for the one row. Three messages let an SMS be
  accepted once for every attempt.
- *Requests.* Two at a time, but any number one after the other: every pair of
  statements of two kinds of request meets. One event is enough, since events do
  not share rows; STOP and failures also come from the worker, without an event.
- *Callers.* Three for two slots make a queue; one retry makes an admitted
  request outlive the opening of the circuit. One request at a time waits for a
  slot then, and one behind the holder of the pacing lock, so that being woken
  twice, forgotten or passed by a retry is seen, but not the order among several
  waiters: that one, for any number of them, is the theorem `FirstComeFirstServed`.
- *Pages and versions.* Listings move between the pages of two versions, change
  their price, and are sold by both providers; an empty page between two others
  makes a provider advance, pages shown already do so too, and two advances meet
  the cap. A page size of one cuts
  every page that has anything more. Two lists are enough for every answer to
  come to the wrong one.
- *Observations.* Three of two prices make a rise and a drop in either order, with
  a matching of the first still under way; two visits let both workers match at once and one
  of them return after a failure; one act of a user dismisses a row or switches
  a watchlist at any moment of that, and the theorems are free of the bound.

No model has a state constraint: all instances are finite by themselves. The
theorems of section 5 are free of these bounds.

**Findings.** Each is what a violated run shows; `PROJECT.json` quotes the lines.

1. `attempt_count` grows with every claim and `complete` never resets it, so a
   recurring job that has succeeded `max_attempts - 1` times is dead-lettered by
   its first retryable failure.
2. An observation persisted by an execution that stops before matching is passed
   over when the execution it overlapped with, which fetched earlier, finds its
   own observation stale, matches nothing and moves the cursor. The next sweep
   matches it, but no replay of the page does.
3. Losing the body of Twilio's accepting answer, or the statement that records
   the acceptance, counts as a retryable failure: the SMS is sent again.
4. A request admitted before the circuit opened clears the test flag when it
   fails, so that two requests may test recovery at once.

**Observations.** Behaviour that the models have in their states, that no run is
spent on and that a maintainer should know:

- *A late lease leaves a run open.* When a claim or a renewal commits a lease that is
  already over, after another worker's SELECT of the expired leases and before its
  UPDATE, that worker takes the job over and closes nothing: the run of the old token
  stays 'running' in `worker_job_runs` for good, as the SELECT joins on the current
  token (`jobs.ts:273`). `LeftBehindOnlyWhenLate` says that no other order does this.
- *Load more outlives its search.* `handleLoadMore` is not aborted when the query
  changes (`app.tsx:2376`; `HomePage`, 1222) and its answer is not compared with
  it: the old search's listings and cursor are merged into the new one's, although
  `docs/runbooks/PAGINATION_AND_CACHING.md:60` says that a changed query resets
  the continuation. The properties of Search except these lists (`mixed`).
- *The cap gives a provider up.* After eight pages with nothing new a provider is
  marked exhausted, whatever it has behind them (`orchestrator.ts:964`).
- *An empty first answer has no button.* When the providers that answer have
  nothing and one that failed may have more, "No results found" is shown while
  `hasMore` is true (`app.tsx:2131`); a provider that always fails keeps `hasMore`
  true for ever.
- *Matchings that cross.* When a matching that read the prices earlier writes
  after a newer one, the CASE on the trigger takes its older observation for news
  and a dismissed row is unseen again (`alerts.ts:822`; `crossed`).
- *updateWatchlist* reads the row, merges and writes all of it
  (`request-features.ts:807`): of two updates at once the later keeps its own
  reading of every field.

## 4. Fairness

- **WorkerJobs.** Weak fairness of each process's own progress (the event loop
  runs what is ready, docker-compose restarts what ended), of handlers and
  outcomes (each handler bounds its own calls), and of the two clocks. Claims of a
  job get strong fairness: SKIP LOCKED may pass a row over, but its lock is about
  to be released, and the order by `run_after` brings the longest waiting job to
  the front. `WorkContinues` is conditional on crashes and signals ending; workers
  that end by themselves (`FailRefused`), lost replies and expiring leases go on.
- **Ingestion.** Weak fairness of each handler, of settling and of claiming a
  job nobody executes. `EventuallyMatched` is conditional on calm: failures,
  takeovers of live executions and searches end at some point.
- **AlertDelivery.** Weak fairness of each stage of `processDue` and of the
  clocks, strong fairness of claiming a row, since a worker that stops in
  mid-loop makes it unclaimable for a while. Sending returns because the
  transports time out. `DeliverySettles` assumes only that deferrals end; workers
  may stop again and again.
- **SmsConsent.** Only that five minutes pass: `NeverStuck` needs neither the
  handlers to go on nor the providers to redeliver.
- **Search.** Every request ends, as fetches time out; the user goes on asking for
  more, as the page does by itself when its end scrolls into view. Failures are
  bounded by `MaxFaults`: nothing ends while the network is down for ever.
- **AlertMatching.** Weak fairness of each worker's statements, of the resolution
  of deadlocks, and of running a failed job again (that the queue does so is
  `WorkContinues`). Searches, staleness and users are under no obligation.
- **ResilientHttp.** Weak fairness of each request's next step and of the clocks.
  Nothing is assumed of callers, except that they keep asking where
  `CircuitCloses` says so.

## 5. Theorems

All proofs are checked by TLAPS for any finite or infinite sets of jobs, workers,
tokens, listings, deliveries and messages, any page contents and any positive
limits. The only assumptions are each module's ASSUME: NULL is none of the
values it stands beside, limits are positive, constants have their types, and the
callers (HTTP client), the providers (search) and the listings on one page are
finitely many, as they are counted by cardinality.

Liveness is out of the prover's reach, but what it rests on is not. Four theorems
are the safety half of a liveness property, for any size of the system:
`SomeoneMoves` (of `RequestsEnd`) and `SomeoneGoesOn` (of `DropAnnounced`) say that
those who are under way never all wait for each other, by the guards of their
actions; `DropsCarried` (of `DropAnnounced`) that what is to be done is not lost
on the way; `Progress` (of `SearchEnds`) that each answer comes closer to the end.
What is left to fairness and to TLC is that steps that can be taken are.

**WorkerJobsProofs.** `TokenNamesOneClaim` is inductive with the types and with what
the executions may refer to, since a token that is handed out is one that no row,
execution or open transaction has. From it follow `TypeCorrect`, `TokensName`,
`Fencing` (`OutcomeByHolder`), `LedgerFollows` (`LeftBehindOnlyWhenLate`: every other
step keeps the token of a run in progress, closes it, or abandons it), `DeadLetterStays`, `OrphanWaits` (`OrphanOnlyTakenOver`: the
token of an orphan names an execution that is gone, so nothing that needs a live
one reaches it), `OutcomesStay` and `Implements`: the
queue implements `JobLease`, each action mapped to a grant, a strand, a
settlement, a quit or a stutter.

**IngestionProofs.** `CursorInOrder` rests on: an execution in `fresh` that is on
its page has the row's cursor for its page. `PagesLeftMatched` adds: of the
page an execution works on, every pending listing is still on its list or was
stored by someone else meanwhile. Neither is inductive without the version check,
which removes all siblings from `fresh` at every write. `WithinLease` shows that
the handlers stay within `JobLease!Spec`, which `Implements` shows the queue to
keep: the two modules meet there.

**AlertDeliveryProofs.** `AttemptsBounded` is inductive with the types: the
claim that raises `attempt_count` starts from a row that had attempts left.
`SmsClaimedByOne` is what makes a claim without a token work for SMS, though the
code never says so: a stale SMS claim is not put back into the queue
(`recoverStaleDeliveryClaims`), so that one claim ends before the next begins.
`SendsBounded` rests on it: each accepted SMS has an attempt of its own, and a claim
that has sent nothing yet has one that it may give back (`deferDelivery`). E-mail
has overlapping claims; its idempotency key bounds what is accepted.
`DeliveredAccepted` needs that a worker about to mark a row holds a message the
provider accepted; `OptOutObeyed`, that a worker about to send was not opted out
at its claim. `OutOfQueue` goes action by action over all late writers.

**ResilientHttpProofs.** The invariant has four parts (types, slots, pacing,
breaker): those holding a slot are counted, those queued are in the queue once,
the pacing chain is exactly the requests that wait for their turn, only its head
sleeps; an active test is some admitted request in flight. `ConcurrencyBounded`,
`Paced`, `NeverStuckTesting` and `CountKept` (a circuit that is not closed has its
count at the threshold, so that one failed test opens it again) follow.
`QueuesExact` adds that both queues list each request that waits once, and
nobody else. From it come `FirstComeFirstServed`, the two refinements of
`SlotQueue`, in which a step of the client is a step of one queue, of both (who
gets a slot enters the pacing chain) or of none; and `SomeoneMoves`, by way of: whoever
waits for a slot waits for holders, whoever waits for the lock for its head,
and a sleeper only for the clock.

**SmsConsentProofs.** `Obedience` rests on what a STOP promises, that the latest
consent is an opt-out and every opt-in still to be written is late. It is
inductive with two more facts: while a STOP is still to write, every pending
opt-in took its time before it, or somebody opted in after it; and the times are
a strict order in which lateness goes down. `OneClaimant` and `Finished` need
that a claim which has not expired is the row's. `Implements`, the refinement of
`EventClaim`, needs besides that an idle request has no event: then a claim is
a `Begin`, a completion or release whose token is the row's a `Settle`, and every
other end of a request a `Quit`, which leaves the claims alone.

**SearchProofs.** `ShowsItsQuery`, `ShownOnce` and `NothingSkipped` hold of the
list on the screen because its cursor is exact (`Exact`): the keys it calls seen
are those of what is shown, and of each settled page behind it everything is
among them. An answer keeps that only if it continues this very list, so the
invariant adds that one request for more is alive at a time, with this list's
query and cursor (`OneLoad`), and that only its own first page may still come
(`OneAsked`). `NoGaps` follows page by page: a provider's position passes a page
only when all of it is seen, which a key, once seen, stays. `Progress` is about
one answer: where no fetch failed, a provider still to be asked has found something
or come to its end, of something found something is selected (pages are finite),
and what is selected shares no key with what is shown.

**AlertMatchingProofs.** `Announced` rests on: observations are only appended to,
so what a matching read stays true, and what it is about to write is true of the
version it read. `News` needs more: a matching that
nobody overtook has read every observation that was announced (`UpToDate`), and so,
unless matchings crossed, each row is about the last of its announcements
(`LastAnnounced`). Of the locks: `RowsLocked`, a row that was written is its
writer's until the end of the transaction; `QueuesOrdered`, those who wait stand in one order;
so that, `DeadlocksCaused`, two who wait for each other do so over a row that one
holds. `SomeoneGoesOn` follows: where all wait, they are a cycle that PostgreSQL
breaks. `DropsCarried` follows a drop through the statements of its worker: yet to
be read, among the candidates, about to be written, written, and committed.

**Model-checked only.** The liveness properties (`WorkContinues`,
`EventuallyMatched`, `DeliverySettles`, `RequestsEnd`, `CircuitCloses`,
`NeverStuck`, `SearchEnds`, `DropAnnounced`), as liveness under fairness is beyond
the prover; and the violated runs. No recursive operator is used, so no induction over
data is needed.

## 6. Abstractions, and what is not modelled

- Time is a set of Booleans that say whether a deadline has passed; backoff and
  jitter, cadence and quiet hours are "not yet due" for an arbitrary while.
- Payloads, log lines, metrics, headers and error texts are left out. So are job
  priorities: any claimable job may be claimed first.
- A page keeps its contents during a run of `Ingestion`; a listing's state is
  whether its latest observation was matched. The conversion and the fingerprints
  of listings are data.
- `matchListing` is one step of Ingestion and a transaction of many in
  AlertMatching. Of its criteria only the price is modelled, of its events all but
  `auction_ending` (a comparison of dates); channel preferences, quiet hours and
  digests decide when a delivery is due, which AlertDelivery leaves open. Market
  status, analytics eligibility and observations that arrive out of order
  (Ingestion has those) are left out too.
- A waiter of ResilientHttp that is given a slot enters the pacing queue in the same
  step; in the code that is a later microtask of the same turn.
- Search leaves out total counts, the answer that has more but no cursor
  (`orchestrator.ts:666`; no adapter gives it), the page number of a request without a cursor,
  the order of listings, the idle page and the feed's personalisation; the feed
  and HomePage are otherwise the same code path and shape.
- `SmsConsent` does not compare the time of a START with that of the suppression
  it releases: releasing a newer one fails on a CHECK, which is one of the
  failures `Break` allows. Phone challenges are one step, `VerifyPhone`; another
  account's claim on the number, and e-mail, are left out.
- A handler is assumed to settle: nothing in the runtime enforces it.
- `provider_health` and the read-only statistics feed displays only.
- Adapters, ML, exchange rates, price trends, the rest of the web application and
  the SQLite fallback are parsing, arithmetic over floats, presentation, or
  sequential code: most of the repository's lines, with little to interleave.
- Accounts, sessions, entitlements, engagement: rows per user or per event, each
  changed by one conditional statement or one transaction; phone challenges are
  not modelled beyond `VerifyPhone`.

## 7. Order of work, and what could follow

The modules were written in order of importance: `WorkerJobs` and `JobLease`,
`Ingestion`, `AlertDelivery`, `ResilientHttp`, `SmsConsent`, `Search`,
`AlertMatching`; then the two promises `SlotQueue` and `EventClaim` with their
refinements. Each safety property that a passing run checks is also a theorem.

What a maintainer could add, most useful first: quiet hours as a pure function
over minutes against a reference definition; the lifecycle ledger of the
catalogue under out-of-order observations; the e-mail webhook's recipients, which
are handled in parallel; the notification settings' lost update
(`notifications.ts:293`) as a finding, once the documents say what a STOP means
for the switch. A module gets one run for its properties, and one more only for
a disagreement between code and document.
