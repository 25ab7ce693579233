------------------------------- MODULE Search -------------------------------
(***************************************************************************)
(* One search as its user sees it: the result list of the web page (apps/   *)
(* web/src/app.tsx, SearchRoutePage), the answers of GET /search (apps/api/ *)
(* src/search-service.ts) and the orchestrator behind it (providers/        *)
(* orchestrator.ts), which asks every provider for a page and merges what   *)
(* comes back.                                                             *)
(*                                                                         *)
(* The server keeps nothing between two requests: where each provider       *)
(* stands and what was shown travel in the cursor.  A request is therefore  *)
(* one step, and the pages it is given may be of any age: each fetch may    *)
(* answer with any Version of its page.  That stands for the provider's own *)
(* changes, for the 15 and 60 seconds of the cache, for its refreshes that  *)
(* end late and for other searches that fill it.                           *)
(***************************************************************************)
EXTENDS Naturals, Sequences, FiniteSets

CONSTANTS
    Provider,
    Query,
    Listing,      \* snapshots of listings: with another price, another one
    Key,          \* dedupe keys
    Version,      \* ages of a provider's answer
    Pages,        \* the pages each provider has for a query, by version
    Identity,     \* the key made of a listing's provider and its id there
    Fingerprint,  \* the key made of what it looks like: one, or none
    Unsupported,  \* what supportsQuery refuses: provider, query, page
    PageSize,
    MaxAdvances,  \* maxProviderBatchAdvances
    MaxPages,     \* the most pages a provider has
    Slot,         \* requests for more that are answered at one time
    MaxOpens,     \* bound: result lists opened
    MaxFaults,    \* bound: lost requests and failed fetches
    NULL

ASSUME SearchConstants ==
    /\ IsFiniteSet(Provider)
    /\ Pages \in [Provider -> [Query -> [Version -> Seq(SUBSET Listing)]]]
    /\ \A p \in Provider, q \in Query, v \in Version :
          /\ Len(Pages[p][q][v]) <= MaxPages
          /\ \A i \in 1..Len(Pages[p][q][v]) : IsFiniteSet(Pages[p][q][v][i])
    /\ Identity \in [Listing -> Key]
    /\ Fingerprint \in [Listing -> SUBSET Key]
    /\ MaxPages \in Nat \ {0} /\ PageSize \in Nat \ {0} /\ MaxAdvances \in Nat \ {0}
    /\ MaxOpens \in Nat \ {0} /\ MaxFaults \in Nat

VARIABLES
    view,     \* the result list on the screen
    asking,   \* queries whose first page was asked for and may still arrive
    load,     \* the requests for more
    opens, faults

vars == <<view, asking, load, opens, faults>>

Exhausted == 0  \* the position of a provider that is not asked any more

\* gaveUp is history: who was exhausted by a refusal or by the cap.
Cursor == [query: Query, at: [Provider -> 0..MaxPages], seen: SUBSET Key,
           gaveUp: SUBSET Provider]

\* mixed is history: an answer to another list's request was applied to this one.
View == [query: Query, status: {"loading", "success", "error"},
         shown: SUBSET Listing, cursor: Cursor, loadingMore: BOOLEAN, mixed: BOOLEAN]

\* stray: asked for from a list that is not on the screen any more.
Load == [query: Query, cursor: Cursor, stray: BOOLEAN]

TypeOK ==
    /\ view \in View
    /\ asking \subseteq Query
    /\ load \in [Slot -> Load \cup {NULL}]
    /\ opens \in 0..MaxOpens /\ faults \in 0..MaxFaults

-----------------------------------------------------------------------------
(* Listings and pages.                                                     *)

Keys(l) == {Identity[l]} \cup Fingerprint[l]
KeysOf(ls) == UNION {Keys(l) : l \in ls}
Unseen(ls, seen) == {l \in ls : Keys(l) \cap seen = {}}

PageOf(p, q, v, i) == IF i \in 1..Len(Pages[p][q][v]) THEN Pages[p][q][v][i] ELSE {}

NextAlways(p, q, v, i) == i + 1  \* mutant: the provider's hasMore is not looked at

\* advanceProviderState, after page i was all seen.
After(p, q, v, i) == IF i < Len(Pages[p][q][v]) THEN i + 1 ELSE Exhausted

-----------------------------------------------------------------------------
(* collectProviderCandidates: what one provider contributes to a request.   *)

\* at: where it stands; found: what it has that was not seen, next: where it stands
\* once that is seen.
Outcome == [at: 0..MaxPages, next: 0..MaxPages, found: SUBSET Listing,
            verdict: {"ok", "failed", "refused", "capped"}]

Has(at, found, next) == [at |-> at, next |-> next, found |-> found, verdict |-> "ok"]
Without(at, verdict) == [at |-> at, next |-> at, found |-> {}, verdict |-> verdict]

\* For its filters or its sort on every page, for pagination on the later ones.
Refuses(p, q, at) == <<p, q, at>> \in Unsupported

\* Page i has nothing new, and the provider says that there are more.
Passes(p, c, i) == \E v \in Version :
    /\ Unseen(PageOf(p, c.query, v, i), c.seen) = {}
    /\ After(p, c.query, v, i) # Exhausted

\* The pages it may come to, one fetch each.
Reached(p, c) == {j \in c.at[p]..MaxPages :
    j <= c.at[p] + MaxAdvances /\ \A i \in c.at[p]..(j - 1) : Passes(p, c, i)}

FetchAt(p, c, j) ==
    {Has(j, Unseen(PageOf(p, c.query, v, j), c.seen), After(p, c.query, v, j)) : v \in Version}

\* The loop ends at a failed fetch, with something unseen, or after the last page.
Collect(p, c) ==
    IF c.at[p] = Exhausted THEN {Without(Exhausted, "ok")}
    ELSE IF Refuses(p, c.query, c.at[p]) THEN {Without(Exhausted, "refused")}
    ELSE LET asked == {j \in Reached(p, c) : j < c.at[p] + MaxAdvances}
         IN {Without(j, "failed") : j \in asked}
            \cup {o \in UNION {FetchAt(p, c, j) : j \in asked} : o.found # {} \/ o.next = Exhausted}
            \cup {Without(Exhausted, "capped") : j \in Reached(p, c) \ asked}

-----------------------------------------------------------------------------
(* runProviderSearch: one request, by its outcomes.                         *)

Start(q) == [query |-> q, at |-> [p \in Provider |-> 1], seen |-> {}, gaveUp |-> {}]

\* A cursor of another query is ignored.
Resume(q, c) == IF c.query = q THEN c ELSE Start(q)

\* uniqueCandidates: as many as share no key.
Unique(ls) == {u \in SUBSET ls :
    /\ \A l, m \in u : l # m => Keys(l) \cap Keys(m) = {}
    /\ \A l \in ls : Keys(l) \cap KeysOf(u) # {}}

\* The first PageSize of them in the order asked for: any order.
Selections(ls) == UNION {{s \in SUBSET u :
    Cardinality(s) = IF Cardinality(u) < PageSize THEN Cardinality(u) ELSE PageSize} : u \in Unique(ls)}

Found(o) == UNION {o[p].found : p \in Provider}

OnlyFirstKey(c, s) == c.seen \cup {Identity[l] : l \in s}  \* mutant: of each listing one key
SeenAfter(c, s) == c.seen \cup KeysOf(s)

MoveOn(o, seen) == o.next  \* mutant: the page is left although some of it was cut off

\* It stays on the page while some of that is unseen.
Position(o, seen) == IF Unseen(o.found, seen) # {} THEN o.at ELSE o.next

NextCursor(c, o, s) ==
    [query |-> c.query,
     at |-> [p \in Provider |-> Position(o[p], SeenAfter(c, s))],
     seen |-> SeenAfter(c, s),
     gaveUp |-> c.gaveUp \cup {p \in Provider : o[p].verdict \in {"refused", "capped"}}]

\* ok = FALSE is the 502: no listing, and every provider failed.
Answer(c, o, s) == [ok |-> s # {} \/ \E p \in Provider : o[p].verdict \in {"ok", "capped"},
                    listings |-> s, cursor |-> NextCursor(c, o, s),
                    faults |-> Cardinality({p \in Provider : o[p].verdict = "failed"})]

Outcomes(c) ==
    LET from == [p \in Provider |-> Collect(p, c)]
    IN {o \in [Provider -> UNION {from[p] : p \in Provider}] : \A p \in Provider : o[p] \in from[p]}

\* The request or its answer is lost, or a step after the search fails.
Lost(c) == [ok |-> FALSE, listings |-> {}, cursor |-> c, faults |-> 1]

Answers(q, c) ==
    LET from == Resume(q, c)
    IN {Lost(c)} \cup UNION {{Answer(from, o, s) : s \in Selections(Found(o))} : o \in Outcomes(from)}

HasMore(c) == \E p \in Provider : c.at[p] # Exhausted

-----------------------------------------------------------------------------
(* SearchRoutePage.                                                        *)

Opened(q) == [query |-> q, status |-> "loading", shown |-> {},
              cursor |-> Start(q), loadingMore |-> FALSE, mixed |-> FALSE]

Init ==
    /\ \E q \in Query : view = Opened(q) /\ asking = {q}
    /\ load = [s \in Slot |-> NULL]
    /\ opens = 1 /\ faults = 0

\* The list they were asked from is gone.
Astray(f) == [s \in Slot |-> IF f[s] = NULL THEN NULL ELSE [f[s] EXCEPT !.stray = TRUE]]

AskedToo(q) == asking \cup {q}  \* mutant: the request before is not aborted

\* The first-page effect: its cleanup aborts the request before.
Asked(q) == {q}

Open(q) ==
    /\ opens < MaxOpens
    /\ view' = Opened(q)
    /\ asking' = Asked(q)
    /\ load' = Astray(load)
    /\ opens' = opens + 1
    /\ UNCHANGED faults

Navigate(q) == q # view.query /\ Open(q)

Retry == view.status = "error" /\ Open(view.query)

Fault(a) == faults' = faults + a.faults /\ faults' <= MaxFaults

FirstPageArrives(a) ==
    /\ a.ok
    /\ view' = [view EXCEPT !.status = "success", !.shown = a.listings,
                            !.cursor = a.cursor, !.loadingMore = FALSE, !.mixed = FALSE]
    /\ Fault(a)

FirstPageFails(a) ==
    /\ ~a.ok
    /\ view' = [Opened(view.query) EXCEPT !.status = "error"]
    /\ Fault(a)

\* The button is there when something is shown (SearchResults).
CanLoadMore ==
    view.status = "success" /\ view.shown # {} /\ HasMore(view.cursor) /\ ~view.loadingMore

\* handleLoadMore: with the page's query and the cursor of what is shown.
LoadMore(s) ==
    /\ CanLoadMore /\ load[s] = NULL
    /\ view' = [view EXCEPT !.loadingMore = TRUE]
    /\ load' = [load EXCEPT ![s] = [query |-> view.query, cursor |-> view.cursor, stray |-> FALSE]]
    /\ UNCHANGED <<asking, opens, faults>>

\* mergeUniqueListings
Merged(shown, ls) == shown \cup {l \in ls : \A m \in shown : Identity[m] # Identity[l]}

\* What was asked for is not compared with what is shown, and without a response
\* the answer becomes it.
MoreArrives(s, a) ==
    /\ a.ok
    /\ view' = [view EXCEPT !.status = "success",
                            !.shown = Merged(@, a.listings), !.cursor = a.cursor,
                            !.loadingMore = FALSE, !.mixed = @ \/ load[s].stray]
    /\ Fault(a)

StillLoading(s) == view  \* mutant: an error leaves isLoadingMore set
LoadedNoMore(s) == [view EXCEPT !.loadingMore = FALSE, !.mixed = @ \/ load[s].stray]

MoreFails(s, a) ==
    /\ ~a.ok
    /\ view' = LoadedNoMore(s)
    /\ Fault(a)

Answered(q) == q \in asking /\ asking' = asking \ {q}

FirstPage(q) ==
    /\ Answered(q)
    /\ load' = Astray(load)
    /\ UNCHANGED opens
    /\ \E a \in Answers(q, Start(q)) : FirstPageArrives(a) \/ FirstPageFails(a)

Ended(s) == load[s] # NULL /\ load' = [load EXCEPT ![s] = NULL]

More(s) ==
    /\ Ended(s)
    /\ UNCHANGED <<asking, opens>>
    /\ \E a \in Answers(load[s].query, load[s].cursor) : MoreArrives(s, a) \/ MoreFails(s, a)

Next ==
    \/ \E q \in Query : Navigate(q) \/ FirstPage(q)
    \/ Retry
    \/ \E s \in Slot : LoadMore(s) \/ More(s)

Spec == Init /\ [][Next]_vars

\* Every request is answered or fails in the end (fetches time out), and the user goes
\* on asking for more (the page does, as its end scrolls into view).  The fairness of
\* FirstPage and More, by the part of them that says when they can be taken.
FairSpec ==
    /\ Spec
    /\ \A q \in Query : WF_asking(Answered(q))
    /\ \A s \in Slot : WF_load(Ended(s))
    /\ WF_vars(\E s \in Slot : LoadMore(s))

-----------------------------------------------------------------------------
(* Properties.                                                             *)

Stocked(p, q) == UNION {UNION {PageOf(p, q, v, i) : i \in 1..MaxPages} : v \in Version}

Undisturbed == view.status = "success" /\ ~view.mixed

\* A result list holds results of its own query, whatever was asked for before it and
\* whenever that is answered (the AbortController of the first-page effect, the queryKey
\* of the cursor), unless an answer to another list's "load more" came: nothing holds
\* those back.
ShowsItsQuery ==
    Undisturbed => \A l \in view.shown : \E p \in Provider : l \in Stocked(p, view.query)

\* Nothing is shown twice, neither a listing that moved between pages of different ages
\* nor one that another provider has too (createListingDedupeKeys, seenKeys).
ShownOnce ==
    Undisturbed => \A l, m \in view.shown : l # m => Keys(l) \cap Keys(m) = {}

\* Page i of p has it, at any age.
Settled(l, p, q, i) == \A v \in Version : l \in PageOf(p, q, v, i)

Behind(at, i) == at = Exhausted \/ i < at

\* "Load more" skips nothing: a listing that was on one page of its provider all along is
\* shown, it or one with the same key, once that page lies behind the cursor, though
\* pages are cut to PageSize, providers fail and answers are lost in between.  Only a
\* provider that refused the query or that was given up has pages never looked at.
NothingSkipped ==
    Undisturbed => \A p \in Provider \ view.cursor.gaveUp, i \in 1..MaxPages, l \in Listing :
        Settled(l, p, view.query, i) /\ Behind(view.cursor.at[p], i)
            => Keys(l) \cap KeysOf(view.shown) # {}

\* Somebody who goes on loading more comes to the end of the list, as long as providers
\* and network do not fail for ever: the cursor moves on or something new is shown.  Not so
\* where the first answer has no listing although a provider that failed has more: "No
\* results" is shown then, without a button.
SearchEnds ==
    \A q \in Query :
        (view.status = "success" /\ view.query = q /\ ~view.mixed)
            ~> \/ view.query # q \/ view.status = "error" \/ view.mixed
               \/ view.shown = {} \/ ~HasMore(view.cursor)
=============================================================================
