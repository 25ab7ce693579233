---------------------------- MODULE AlertMatching ----------------------------
(***************************************************************************)
(* One listing and the watchlists that may want it: what workers and        *)
(* searches observe of it (repositories/listings.ts), and the transactions  *)
(* of matchListing (repositories/alerts.ts, both in apps/api/src/db/        *)
(* postgres) that turn it into inbox rows and deliveries, next to the users *)
(* who see, dismiss and switch.                                            *)
(*                                                                         *)
(* A matching is one READ COMMITTED transaction: each of its SELECTs has a  *)
(* snapshot of its own, the rows it upserts are locked until it commits,    *)
(* and PostgreSQL ends one of the transactions that wait for each other.    *)
(***************************************************************************)
EXTENDS Naturals, Sequences, FiniteSets

CONSTANTS
    Watchlist,
    Worker,       \* executions of ingestion jobs that list the listing
    MaxPrice,
    Limit,        \* max_price_minor of each watchlist, MaxPrice if it has none
    MaxVersions,  \* bound: price observations
    MaxVisits,    \* bound: pages with the listing that workers fetch
    MaxFaults,    \* bound: crashes and failed transactions
    MaxMoves,     \* bound: things that users do
    NULL

ASSUME MatchingConstants ==
    /\ MaxPrice \in Nat \ {0} /\ Limit \in [Watchlist -> 1..MaxPrice]
    /\ MaxVersions \in Nat /\ MaxVisits \in Nat /\ MaxFaults \in Nat /\ MaxMoves \in Nat

VARIABLES
    price,      \* price_observations of the listing, by observation_version
    available,  \* listing_current_state: available and active
    enabled,    \* the watchlists that are on
    row,        \* alert_matches, the inbox
    sent,       \* idempotency keys of alert_deliveries
    run,        \* where each worker is with the listing
    ahead,      \* the queues of the rows' locks: who came before whom
    visits, faults, moves,
    crossed     \* history: a matching wrote what another had overtaken

vars == <<price, available, enabled, row, sent, run, ahead, visits, faults, moves, crossed>>

Price == 1..MaxPrice
Event == {"new_listing", "price_drop", "back_in_range"}
RowKey == Watchlist \X Event

\* A trigger is an observation_version, 0 for the listing itself.
Row == [state: {"unseen", "seen", "dismissed"}, trigger: 0..MaxVersions]

ASSUME NoRow == NULL \notin Row

\* "again": it failed, and its job runs once more.  version: the latest price it read;
\* todo: candidates left; list, events: what it is about to write; wrote: the rows it wrote
\* and holds; overtaken is history: another matching committed since it read the prices.
Run == [step: {"idle", "again", "begin", "prices", "choose", "write", "wait"},
        version: 0..MaxVersions, todo: SUBSET Watchlist, events: SUBSET RowKey,
        wrote: SUBSET RowKey, overtaken: BOOLEAN]

At(step) == [step |-> step, version |-> 0, todo |-> {}, events |-> {}, wrote |-> {},
             overtaken |-> FALSE]

TypeOK ==
    /\ price \in Seq(Price) /\ Len(price) <= MaxVersions
    /\ available \in BOOLEAN
    /\ enabled \subseteq Watchlist
    /\ row \in [RowKey -> Row \cup {NULL}]
    /\ sent \subseteq RowKey \X (0..MaxVersions)
    /\ run \in [Worker -> Run] /\ ahead \subseteq Worker \X Worker
    /\ visits \in 0..MaxVisits /\ faults \in 0..MaxFaults /\ moves \in 0..MaxMoves
    /\ crossed \in BOOLEAN

Init ==
    /\ price = <<>> /\ available = FALSE
    /\ enabled = Watchlist
    /\ row = [k \in RowKey |-> NULL] /\ sent = {}
    /\ run = [m \in Worker |-> At("idle")] /\ ahead = {}
    /\ visits = 0 /\ faults = 0 /\ moves = 0 /\ crossed = FALSE

-----------------------------------------------------------------------------
(* The catalogue.                                                          *)

Latest == Len(price)

\* latestObservationMatches
Unchanged(p) == price # <<>> /\ p = price[Latest]

EveryTime(p) == Append(price, p)  \* mutant: an unchanged price is recorded again

\* recordPriceObservation
Recorded(p) == IF Unchanged(p) THEN price ELSE Append(price, p)

\* upsertObservation, of a listing that is offered for p or that is gone.
Upsert(p, offered) ==
    /\ Unchanged(p) \/ Latest < MaxVersions
    /\ price' = Recorded(p)
    /\ available' = offered

\* A search stores what it found and matches nothing.
Search(p, offered) ==
    /\ Upsert(p, offered)
    /\ UNCHANGED <<enabled, row, sent, run, ahead, visits, faults, moves, crossed>>

MarkStale ==
    /\ available /\ available' = FALSE
    /\ UNCHANGED <<price, enabled, row, sent, run, ahead, visits, faults, moves, crossed>>

-----------------------------------------------------------------------------
(* A worker: the upsert, then matchListing.                                *)

Becomes(m, r) == run' = [run EXCEPT ![m] = r]

Visit(m, p, offered) ==
    /\ \/ run[m].step = "idle" /\ visits < MaxVisits /\ visits' = visits + 1
       \/ run[m].step = "again" /\ UNCHANGED visits
    /\ Upsert(p, offered)
    /\ Becomes(m, At("begin"))
    /\ UNCHANGED <<enabled, row, sent, ahead, faults, moves, crossed>>

HasRead(m) == run[m].step \in {"prices", "choose", "write", "wait"}
InMatch(m) == run[m].step = "begin" \/ HasRead(m)

\* A statement that only reads, or whose rows nobody sees before the commit.
Unseen == UNCHANGED <<price, available, enabled, row, sent, visits, faults, moves, crossed>>
Alone == Unseen /\ UNCHANGED ahead

ReadPrices(m) ==
    /\ run[m].step = "begin"
    /\ Becomes(m, [At("prices") EXCEPT !.version = Latest])
    /\ Alone

\* evaluateCandidate, with the price the listing has by now.
Wants(w) == w \in enabled /\ available /\ price[Latest] <= Limit[w]

ReadCandidates(m) ==
    /\ run[m].step = "prices"
    /\ run' = [run EXCEPT ![m].step = "choose", ![m].todo = {w \in Watchlist : Wants(w)}]
    /\ Alone

FellByNow(v) == Latest > 1 /\ price[Latest] < price[Latest - 1]  \* mutant: the prices are read again
Fell(v) == v > 1 /\ price[v] < price[v - 1]

CameBack(w, v) == v > 1 /\ price[v] <= Limit[w] /\ price[v - 1] > Limit[w]

\* listingEvents, as keys of rows.
EventsOf(w, v) == {k \in {w} \X Event :
    CASE k[2] = "new_listing" -> row[k] = NULL
      [] k[2] = "price_drop" -> Fell(v)
      [] k[2] = "back_in_range" -> CameBack(w, v)}

\* It looks whether the listing is new to one of its candidates.
Choose(m, w) ==
    /\ run[m].step = "choose" /\ w \in run[m].todo
    /\ LET events == EventsOf(w, run[m].version)
       IN run' = [run EXCEPT ![m].step = IF events = {} THEN "choose" ELSE "write",
                             ![m].todo = @ \ {w}, ![m].events = events]
    /\ Alone

Holds(m) == run[m].wrote
Queued(m) == run[m].step = "wait"

\* A row's lock waits for who holds it, and for who came before.
Waits(m) == {x \in Worker \ {m} :
    \/ run[m].events \cap Holds(x) # {}
    \/ run[m].events \cap run[x].events # {} /\ Queued(x) /\ (Queued(m) => <<x, m>> \in ahead)}

Leaves(m) == ahead' = {p \in ahead : m \notin {p[1], p[2]}}

Write(m) ==
    /\ run[m].step \in {"write", "wait"} /\ Waits(m) = {}
    /\ run' = [run EXCEPT ![m].step = "choose", ![m].events = {}, ![m].wrote = @ \cup run[m].events]
    /\ Leaves(m) /\ Unseen

Queue(m) ==
    /\ run[m].step = "write" /\ Waits(m) # {}
    /\ run' = [run EXCEPT ![m].step = "wait"]
    /\ ahead' = ahead \cup {<<x, m>> : x \in {y \in Worker : Queued(y)}}
    /\ Unseen

\* deliveryTriggerIdentity
Trigger(k, v) == IF k[2] = "new_listing" THEN 0 ELSE v

AlwaysUnseen(k, t) == [state |-> "unseen", trigger |-> t]  \* mutant: a repeated match is unseen again

\* ON CONFLICT DO UPDATE: another trigger makes the row unseen.
Matched(k, t) ==
    IF row[k] # NULL /\ row[k].trigger = t THEN row[k] ELSE [state |-> "unseen", trigger |-> t]

Deliveries(m) == {<<k, Trigger(k, run[m].version)>> : k \in Holds(m)}

Commit(m) ==
    /\ run[m].step = "choose" /\ run[m].todo = {}
    /\ row' = [k \in RowKey |->
                 IF k \in Holds(m) THEN Matched(k, Trigger(k, run[m].version)) ELSE row[k]]
    /\ sent' = sent \cup Deliveries(m)
    /\ run' = [x \in Worker |->
                 IF x = m THEN At("idle")
                 ELSE IF HasRead(x) THEN [run[x] EXCEPT !.overtaken = TRUE] ELSE run[x]]
    /\ crossed' = (crossed \/ run[m].overtaken)
    /\ UNCHANGED <<price, available, enabled, ahead, visits, faults, moves>>

\* Transactions that wait for each other: PostgreSQL ends one, and withTransaction
\* begins it anew.
Deadlock(m) ==
    /\ \E s \in SUBSET {x \in Worker : Queued(x)} : m \in s /\ \A x \in s : Waits(x) \cap s # {}
    /\ Becomes(m, At("begin"))
    /\ Leaves(m) /\ Unseen

StayIdle == At("idle")  \* mutant: what failed between the upsert and the match is not run again
Failed == At("again")

\* The process dies or the transaction fails for good; it is rolled back.
Break(m) ==
    /\ InMatch(m) /\ faults < MaxFaults
    /\ faults' = faults + 1
    /\ Becomes(m, Failed)
    /\ Leaves(m)
    /\ UNCHANGED <<price, available, enabled, row, sent, visits, moves, crossed>>

-----------------------------------------------------------------------------
(* The users.                                                              *)

Unlocked(k) == \A m \in Worker : k \notin Holds(m)

Moved == moves < MaxMoves /\ moves' = moves + 1

SetState(k, s) ==
    /\ row[k] # NULL /\ Unlocked(k)
    /\ row' = [row EXCEPT ![k].state = s]
    /\ Moved
    /\ UNCHANGED <<price, available, enabled, sent, run, ahead, visits, faults, crossed>>

MarkSeen(k) == row[k] # NULL /\ row[k].state = "unseen" /\ SetState(k, "seen")
Dismiss(k) == row[k] # NULL /\ row[k].state # "dismissed" /\ SetState(k, "dismissed")

Switch(w) ==
    /\ enabled' = IF w \in enabled THEN enabled \ {w} ELSE enabled \cup {w}
    /\ Moved
    /\ UNCHANGED <<price, available, row, sent, run, ahead, visits, faults, crossed>>

-----------------------------------------------------------------------------
Next ==
    \/ \E p \in Price, offered \in BOOLEAN :
          \/ Search(p, offered)
          \/ \E m \in Worker : Visit(m, p, offered)
    \/ MarkStale
    \/ \E m \in Worker :
          \/ ReadPrices(m) \/ ReadCandidates(m) \/ Write(m) \/ Queue(m) \/ Commit(m)
          \/ Deadlock(m) \/ Break(m)
          \/ \E w \in Watchlist : Choose(m, w)
    \/ \E k \in RowKey : MarkSeen(k) \/ Dismiss(k)
    \/ \E w \in Watchlist : Switch(w)

Spec == Init /\ [][Next]_vars

\* Workers go on, deadlocks are resolved, and a job that failed is run again.
FairSpec ==
    /\ Spec
    /\ \A m \in Worker :
          /\ WF_vars(ReadPrices(m) \/ ReadCandidates(m) \/ Write(m) \/ Queue(m) \/ Commit(m)
                     \/ Deadlock(m) \/ \E w \in Watchlist : Choose(m, w))
          /\ WF_vars(run[m].step = "again" /\ \E p \in Price, o \in BOOLEAN : Visit(m, p, o))

-----------------------------------------------------------------------------
(* Properties.                                                             *)

\* An alert says what was observed: a drop is two consecutive observations, a return
\* into range crosses the limit of that watchlist, whatever was observed between the
\* statements of the matching; and each inbox row is about its own latest delivery.
AnnouncedWasSeen ==
    /\ \A d \in sent : d[1][2] = "price_drop" => d[2] > 1 /\ price[d[2]] < price[d[2] - 1]
    /\ \A d \in sent : d[1][2] = "back_in_range" =>
          d[2] > 1 /\ price[d[2]] <= Limit[d[1][1]] /\ price[d[2] - 1] > Limit[d[1][1]]
    /\ \A k \in RowKey : row[k] # NULL => <<k, row[k].trigger>> \in sent

\* What a user dismissed comes back only with news: with an observation later than any
\* the watchlist was told of, and as a new listing never.  Matching the same listing twice,
\* by one worker or by two at once, is no news.  (Where one matching overtakes another,
\* the older one does bring rows back.)
ComesBackWithNews ==
    [][\A k \in RowKey :
         row[k] # NULL /\ row[k].state = "dismissed" /\ row'[k].state = "unseen" /\ ~crossed'
             => \A d \in sent : d[1] = k => d[2] < row'[k].trigger]_vars

\* A drop that a worker has stored is announced to every watchlist that wants the listing,
\* though the worker dies before the match or waits in a deadlock: unless the next
\* observation replaces it, or the watchlist does not want it any more.
DropAnnounced ==
    \A w \in Watchlist, v \in 1..MaxVersions :
        (Latest = v /\ Fell(v) /\ Wants(w) /\ \E m \in Worker : run[m].step \in {"begin", "again"})
            ~> (<<<<w, "price_drop">>, v>> \in sent \/ Latest # v \/ ~Wants(w))
=============================================================================
