---------------------------- MODULE SearchProofs ----------------------------
(***************************************************************************)
(* What TLAPS proves of Search, for every set of providers, queries and     *)
(* listings, whatever their pages are.                                      *)
(*                                                                         *)
(* The argument is about cursors.  A cursor covers what lies behind it when *)
(* everything settled there has a key in cursor.seen (Covers), and one      *)
(* request keeps that: of the pages it passes or leaves nothing is unseen   *)
(* (CoversNext).  The list on the screen then has exactly the keys of its    *)
(* cursor (Exact), and a request for more that is not stray started from    *)
(* that cursor (OneLoad).                                                  *)
(*                                                                          *)
(* Progress says besides that no answer asks for the same again: unless a   *)
(* fetch failed, the screen grows or another provider is exhausted.         *)
(***************************************************************************)
EXTENDS Search, TLAPS, FiniteSetTheorems

Covers(c) == \A p \in Provider \ c.gaveUp, i \in 1..MaxPages, l \in Listing :
    Settled(l, p, c.query, i) /\ Behind(c.at[p], i) => Keys(l) \cap c.seen # {}

Apart(ls) == \A l, m \in ls : l # m => Keys(l) \cap Keys(m) = {}

Own(ls, q) == \A l \in ls : \E p \in Provider : l \in Stocked(p, q)

LEMMA KeysType == \A l \in Listing : Keys(l) \subseteq Key /\ Identity[l] \in Keys(l)
  BY SearchConstants DEF Keys

LEMMA PageType ==
  ASSUME NEW p \in Provider, NEW q \in Query, NEW v \in Version, NEW i \in Nat
  PROVE  /\ PageOf(p, q, v, i) \subseteq Listing
         /\ After(p, q, v, i) \in 0..MaxPages
         /\ PageOf(p, q, v, i) # {} => i \in 1..MaxPages
  <1> DEFINE pages == Pages[p][q][v]
  <1>1. pages \in Seq(SUBSET Listing) /\ Len(pages) <= MaxPages /\ Len(pages) \in Nat
    BY SearchConstants
  <1>2. i \in 1..Len(pages) => pages[i] \subseteq Listing
    BY <1>1
  <1> HIDE DEF pages
  <1>3. MaxPages \in Nat
    BY SearchConstants
  <1> QED
    BY <1>1, <1>2, <1>3 DEF PageOf, After, Exhausted, pages
    
LEMMA UnseenSubset == \A ls, seen : Unseen(ls, seen) \subseteq ls
  BY DEF Unseen

\* What one provider contributes: the ways it can be.
LEMMA CollectCases ==
  ASSUME NEW p \in Provider, NEW c \in Cursor, NEW o \in Collect(p, c)
  PROVE  \/ c.at[p] = Exhausted /\ o = Without(Exhausted, "ok")
         \/ \E w \in {"refused", "capped"} : o = Without(Exhausted, w)
         \/ \E j \in Reached(p, c) : c.at[p] # Exhausted /\ o = Without(j, "failed")
         \/ \E j \in Reached(p, c), v \in Version :
               /\ c.at[p] # Exhausted
               /\ o = Has(j, Unseen(PageOf(p, c.query, v, j), c.seen), After(p, c.query, v, j))
  <1>1. CASE c.at[p] = Exhausted
    BY <1>1 DEF Collect
  <1>2. CASE c.at[p] # Exhausted /\ Refuses(p, c.query, c.at[p])
    BY <1>2 DEF Collect
  <1>3. CASE c.at[p] # Exhausted /\ ~Refuses(p, c.query, c.at[p])
    BY <1>3 DEF Collect, FetchAt
  <1> QED
    BY <1>1, <1>2, <1>3

LEMMA ReachedBehind ==
  ASSUME NEW p \in Provider, NEW c \in Cursor, NEW j \in Reached(p, c), c.at[p] # Exhausted
  PROVE  /\ j \in 1..MaxPages
         /\ \A i \in 1..MaxPages : i < j /\ ~Behind(c.at[p], i) => Passes(p, c, i)
  <1>1. c.at[p] \in 1..MaxPages /\ MaxPages \in Nat
    BY SearchConstants DEF Cursor, Exhausted
  <1>2. j \in c.at[p]..MaxPages /\ \A i \in c.at[p]..(j - 1) : Passes(p, c, i)
    BY DEF Reached
  <1>3. j \in 1..MaxPages
    BY <1>1, <1>2
  <1>4. ASSUME NEW i \in 1..MaxPages, i < j, ~Behind(c.at[p], i)
        PROVE  i \in c.at[p]..(j - 1)
    BY <1>1, <1>3, <1>4 DEF Behind
  <1> QED
    BY <1>2, <1>3, <1>4

LEMMA CollectType ==
  ASSUME NEW p \in Provider, NEW c \in Cursor, NEW o \in Collect(p, c)
  PROVE  o \in Outcome /\ \A l \in o.found : l \in Stocked(p, c.query)
  <1>1. ASSUME NEW w \in {"ok", "refused", "capped"}, o = Without(Exhausted, w)
        PROVE  o \in Outcome /\ o.found = {}
    BY <1>1, SearchConstants DEF Outcome, Without, Exhausted
  <1>2. ASSUME NEW j \in Reached(p, c), c.at[p] # Exhausted, o = Without(j, "failed")
        PROVE  o \in Outcome /\ o.found = {}
    <2>1. j \in 0..MaxPages
      BY <1>2, ReachedBehind, SearchConstants
    <2> QED
      BY <1>2, <2>1 DEF Outcome, Without
  <1>3. ASSUME NEW j \in Reached(p, c), NEW v \in Version, c.at[p] # Exhausted,
               o = Has(j, Unseen(PageOf(p, c.query, v, j), c.seen), After(p, c.query, v, j))
        PROVE  o \in Outcome /\ \A l \in o.found : l \in Stocked(p, c.query)
    <2>a. j \in 1..MaxPages
      BY <1>3, ReachedBehind
    <2>b. c.query \in Query
      BY DEF Cursor
    <2>1. j \in 1..MaxPages /\ j \in 0..MaxPages /\ j \in Nat /\ c.query \in Query
      BY <2>a, <2>b, SearchConstants
    <2>2. o.found \subseteq PageOf(p, c.query, v, j)
      BY <1>3, UnseenSubset DEF Has
    <2>3. PageOf(p, c.query, v, j) \subseteq Listing /\ After(p, c.query, v, j) \in 0..MaxPages
      BY <2>1, PageType
    <2>4. o \in Outcome
      BY <1>3, <2>1, <2>2, <2>3 DEF Outcome, Has
    <2>5. PageOf(p, c.query, v, j) \subseteq Stocked(p, c.query)
      BY <2>1 DEF Stocked
    <2> QED
      BY <2>2, <2>4, <2>5
  <1>4. \/ \E w \in {"ok", "refused", "capped"} : o = Without(Exhausted, w)
        \/ \E j \in Reached(p, c) : c.at[p] # Exhausted /\ o = Without(j, "failed")
        \/ \E j \in Reached(p, c), v \in Version :
              /\ c.at[p] # Exhausted
              /\ o = Has(j, Unseen(PageOf(p, c.query, v, j), c.seen), After(p, c.query, v, j))
    BY CollectCases
  <1>5. CASE \E w \in {"ok", "refused", "capped"} : o = Without(Exhausted, w)
    BY <1>1, <1>5
  <1>6. CASE \E j \in Reached(p, c) : c.at[p] # Exhausted /\ o = Without(j, "failed")
    BY <1>2, <1>6
  <1> QED
    BY <1>3, <1>4, <1>5, <1>6

\* What was settled on a page that a provider passes or leaves has been seen.
LEMMA PassedSeen ==
  ASSUME NEW p \in Provider, NEW c \in Cursor, NEW i \in 1..MaxPages, NEW l \in Listing,
         Passes(p, c, i), Settled(l, p, c.query, i)
  PROVE  Keys(l) \cap c.seen # {}
  BY DEF Passes, Settled, Unseen

LEMMA LeftSeen ==
  ASSUME NEW p \in Provider, NEW c \in Cursor, NEW o \in Collect(p, c), NEW seen,
         c.seen \subseteq seen, Covers(c), p \notin c.gaveUp,
         o.verdict \notin {"refused", "capped"},
         NEW i \in 1..MaxPages, NEW l \in Listing, Settled(l, p, c.query, i),
         Behind(Position(o, seen), i)
  PROVE  Keys(l) \cap seen # {}
  <1> SUFFICES ASSUME ~Behind(c.at[p], i)
               PROVE  Keys(l) \cap seen # {}
    BY DEF Covers
  <1>1. c.at[p] # Exhausted
    BY DEF Behind
  <1>2. ASSUME NEW j \in Reached(p, c), i < j
        PROVE  Keys(l) \cap seen # {}
    <2>1. Passes(p, c, i)
      BY <1>1, <1>2, ReachedBehind
    <2> QED
      BY <2>1, PassedSeen
  <1>3. ASSUME NEW j \in Reached(p, c), o = Without(j, "failed")
        PROVE  Keys(l) \cap seen # {}
    <2>1. Position(o, seen) = j
      BY <1>3 DEF Position, Without
    <2>2. j # Exhausted /\ j \in Nat
      BY <1>1, ReachedBehind, SearchConstants DEF Exhausted
    <2> QED
      BY <1>2, <2>1, <2>2 DEF Behind
  <1>4. ASSUME NEW j \in Reached(p, c), NEW v \in Version,
               o = Has(j, Unseen(PageOf(p, c.query, v, j), c.seen), After(p, c.query, v, j))
        PROVE  Keys(l) \cap seen # {}
    <2>1. j \in 1..MaxPages /\ MaxPages \in Nat
      BY <1>1, ReachedBehind, SearchConstants
    <2>2. l \in PageOf(p, c.query, v, i)
      BY DEF Settled
    <2>3. CASE Unseen(o.found, seen) # {}
      <3>1. i < j
        BY <1>4, <2>1, <2>3 DEF Position, Has, Behind, Exhausted
      <3> QED
        BY <1>2, <3>1
    <2>4. CASE Unseen(o.found, seen) = {} /\ ~(i < j)
      <3>1. Behind(After(p, c.query, v, j), i)
        BY <1>4, <2>4 DEF Position, Has
      <3>2. i \in 1..Len(Pages[p][c.query][v]) /\ Len(Pages[p][c.query][v]) \in Nat
        <4>1. Pages[p][c.query][v] \in Seq(SUBSET Listing)
          BY SearchConstants DEF Cursor
        <4> QED
          BY <2>2, <4>1 DEF PageOf
      <3>3. i = j
        BY <2>1, <2>4, <3>1, <3>2 DEF Behind, After, Exhausted
      <3>4. CASE Keys(l) \cap c.seen # {}
        BY <3>4
      <3>5. CASE Keys(l) \cap c.seen = {}
        <4>1. l \in o.found
          BY <1>4, <2>2, <3>3, <3>5 DEF Has, Unseen
        <4> QED
          BY <4>1, <2>4 DEF Unseen
      <3> QED
        BY <3>4, <3>5
    <2> QED
      BY <2>3, <2>4, <1>2
  <1>5. o.verdict # "ok" \/ o # Without(Exhausted, "ok") \/ c.at[p] # Exhausted
    BY <1>1
  <1> QED
    BY <1>1, <1>3, <1>4, CollectCases DEF Without

LEMMA FoundUnseen ==
  ASSUME NEW p \in Provider, NEW c \in Cursor, NEW o \in Collect(p, c), NEW l \in o.found
  PROVE  Keys(l) \cap c.seen = {}
  BY CollectCases DEF Without, Has, Unseen

LEMMA OutcomesAre ==
  ASSUME NEW c \in Cursor, NEW o \in Outcomes(c), NEW p \in Provider
  PROVE  o[p] \in Collect(p, c)
  BY DEF Outcomes

LEMMA SelectionsAre ==
  ASSUME NEW ls, NEW s \in Selections(ls)
  PROVE  s \subseteq ls /\ Apart(s)
  BY DEF Selections, Unique, Apart

\* One request of a cursor: what it shows is new, of the query and twin-free, and its
\* cursor covers what lies behind it again.
LEMMA CoversNext ==
  ASSUME NEW c \in Cursor, NEW o \in Outcomes(c), NEW s \in Selections(Found(o))
  PROVE  /\ s \subseteq Listing /\ Apart(s) /\ Own(s, c.query)
         /\ \A l \in s : Keys(l) \cap c.seen = {}
         /\ NextCursor(c, o, s) \in Cursor
         /\ Covers(c) => Covers(NextCursor(c, o, s))
  <1> DEFINE n == NextCursor(c, o, s)
  <1>1. \A p \in Provider : o[p] \in Collect(p, c) /\ o[p] \in Outcome
    BY OutcomesAre, CollectType
  <1>2. s \subseteq Found(o) /\ Apart(s)
    BY SelectionsAre
  <1>3. ASSUME NEW l \in s
        PROVE  /\ l \in Listing /\ Keys(l) \cap c.seen = {}
               /\ \E p \in Provider : l \in Stocked(p, c.query)
    <2>1. PICK p \in Provider : l \in o[p].found
      BY <1>2 DEF Found
    <2>2. o[p] \in Collect(p, c) /\ o[p].found \subseteq Listing
      BY <1>1 DEF Outcome
    <2> QED
      BY <2>1, <2>2, FoundUnseen, CollectType
  <1>4. s \subseteq Listing /\ Own(s, c.query)
    BY <1>3 DEF Own
  <1>5. n \in Cursor
    <2>1. \A p \in Provider : Position(o[p], SeenAfter(c, s)) \in 0..MaxPages
      BY <1>1 DEF Position, Outcome
    <2>2. SeenAfter(c, s) \subseteq Key
      BY <1>4, KeysType DEF SeenAfter, KeysOf, Cursor
    <2> QED
      BY <2>1, <2>2 DEF NextCursor, Cursor
  <1>6. ASSUME Covers(c)
        PROVE  Covers(n)
    <2> SUFFICES ASSUME NEW p \in Provider \ n.gaveUp, NEW i \in 1..MaxPages, NEW l \in Listing,
                        Settled(l, p, n.query, i), Behind(n.at[p], i)
                 PROVE  Keys(l) \cap n.seen # {}
      BY DEF Covers
    <2>1. p \notin c.gaveUp /\ o[p].verdict \notin {"refused", "capped"} /\ n.query = c.query
      BY DEF NextCursor
    <2>2. n.at[p] = Position(o[p], n.seen) /\ c.seen \subseteq n.seen
      BY DEF NextCursor, SeenAfter
    <2> HIDE DEF n
    <2> QED
      BY <1>1, <1>6, <2>1, <2>2, LeftSeen
  <1> QED
    BY <1>2, <1>3, <1>4, <1>5, <1>6

LEMMA StartCovers ==
  ASSUME NEW q \in Query
  PROVE  Start(q) \in Cursor /\ Start(q).query = q /\ Start(q).seen = {} /\ Covers(Start(q))
  <1>1. MaxPages \in Nat \ {0}
    BY SearchConstants
  <1>2. Start(q) \in Cursor
    BY <1>1 DEF Start, Cursor
  <1>3. \A i \in 1..MaxPages : ~Behind(1, i)
    BY <1>1 DEF Behind, Exhausted
  <1>4. Covers(Start(q))
    BY <1>3 DEF Covers, Start
  <1> QED
    BY <1>2, <1>4 DEF Start

LEMMA ResumeType ==
  ASSUME NEW q \in Query, NEW c \in Cursor
  PROVE  Resume(q, c) \in Cursor /\ Resume(q, c).query = q
  BY StartCovers DEF Resume

LEMMA AnswerType ==
  ASSUME NEW q \in Query, NEW c \in Cursor, NEW a \in Answers(q, c)
  PROVE  /\ a.cursor \in Cursor /\ a.listings \subseteq Listing /\ a.faults \in Nat
         /\ a.ok \in BOOLEAN
         /\ a.ok => \E o \in Outcomes(Resume(q, c)) : \E s \in Selections(Found(o)) :
                       a.listings = s /\ a.cursor = NextCursor(Resume(q, c), o, s)
  <1> DEFINE from == Resume(q, c)
  <1>1. CASE a = Lost(c)
    BY <1>1 DEF Lost
  <1>2. CASE a # Lost(c)
    <2>a. PICK o \in Outcomes(from) : \E s \in Selections(Found(o)) : a = Answer(from, o, s)
      BY <1>2 DEF Answers
    <2>1. PICK s \in Selections(Found(o)) : a = Answer(from, o, s)
      BY <2>a
    <2>2. ASSUME NEW ps, ps \subseteq Provider
          PROVE  Cardinality(ps) \in Nat
      BY <2>2, SearchConstants, FS_Subset, FS_CardinalityType
    <2>3. a.faults \in Nat
      BY <2>1, <2>2 DEF Answer
    <2>4. NextCursor(from, o, s) \in Cursor /\ s \subseteq Listing
      BY ResumeType, CoversNext
    <2> HIDE DEF from
    <2>5. a.listings = s /\ a.cursor = NextCursor(from, o, s) /\ a.ok \in BOOLEAN
      BY <2>1 DEF Answer
    <2> QED
      BY <2>3, <2>4, <2>5 DEF from
  <1> QED
    BY <1>1, <1>2

-----------------------------------------------------------------------------
(* The list on the screen.                                                 *)

Exact == Undisturbed =>
    /\ view.cursor.query = view.query
    /\ view.cursor.seen = KeysOf(view.shown)
    /\ Covers(view.cursor)
    /\ Own(view.shown, view.query)
    /\ Apart(view.shown)

Live(s) == load[s] # NULL /\ ~load[s].stray

OneLoad == ~view.mixed => \A s \in Slot : Live(s) =>
    /\ view.status = "success" /\ view.loadingMore
    /\ load[s].query = view.query /\ load[s].cursor = view.cursor
    /\ \A t \in Slot : Live(t) => t = s

OneAsked == asking \subseteq {view.query}

IInv == TypeOK /\ Exact /\ OneLoad /\ OneAsked

LEMMA AstrayType ==
  ASSUME TypeOK
  PROVE  Astray(load) \in [Slot -> Load \cup {NULL}]
         /\ \A s \in Slot : Astray(load)[s] # NULL => Astray(load)[s].stray
  BY DEF TypeOK, Astray, Load

LEMMA OpenedType ==
  ASSUME NEW q \in Query
  PROVE  Opened(q) \in View /\ [Opened(q) EXCEPT !.status = "error"] \in View
  BY StartCovers DEF Opened, View

\* An answer to a cursor that is exact for a list is exact for that list with it merged.
LEMMA AnswerExact ==
  ASSUME NEW c \in Cursor, NEW shown \in SUBSET Listing, c.seen = KeysOf(shown), Covers(c),
         Own(shown, c.query), Apart(shown),
         NEW o \in Outcomes(c), NEW s \in Selections(Found(o))
  PROVE  LET n == NextCursor(c, o, s)
         IN /\ n.query = c.query /\ n.seen = KeysOf(Merged(shown, s)) /\ Covers(n)
            /\ Own(Merged(shown, s), c.query) /\ Apart(Merged(shown, s))
  <1> DEFINE n == NextCursor(c, o, s)
  <1>1. /\ s \subseteq Listing /\ Apart(s) /\ Own(s, c.query)
        /\ \A l \in s : Keys(l) \cap c.seen = {}
        /\ Covers(n)
    BY CoversNext
  <1>2. \A l \in s, m \in shown : Keys(l) \cap Keys(m) = {}
    BY <1>1 DEF KeysOf
  <1>3. \A l \in s, m \in shown : Identity[m] # Identity[l]
    BY <1>1, <1>2, KeysType
  <1>4. Merged(shown, s) = shown \cup s
    BY <1>3 DEF Merged
  <1>5. n.query = c.query /\ n.seen = c.seen \cup KeysOf(s)
    BY DEF NextCursor, SeenAfter
  <1>6. KeysOf(shown \cup s) = KeysOf(shown) \cup KeysOf(s)
    BY DEF KeysOf
  <1>7. Apart(shown \cup s)
    BY <1>1, <1>2 DEF Apart
  <1>8. Own(shown \cup s, c.query)
    BY <1>1 DEF Own
  <1> HIDE DEF n
  <1> QED
    BY <1>1, <1>4, <1>5, <1>6, <1>7, <1>8 DEF n

LEMMA OpenStep ==
  ASSUME IInv, NEW q \in Query, Open(q)
  PROVE  IInv'
  <1>1. view' = Opened(q) /\ asking' = {q} /\ load' = Astray(load)
    BY DEF Open, Asked
  <1>2. view'.status = "loading" /\ view'.query = q
    BY <1>1 DEF Opened
  <1>3. opens' \in 0..MaxOpens /\ faults' \in 0..MaxFaults
    BY SearchConstants DEF Open, IInv, TypeOK
  <1>4. TypeOK'
    BY <1>1, <1>3, AstrayType, OpenedType DEF IInv, TypeOK
  <1>5. Exact' /\ OneAsked'
    BY <1>1, <1>2 DEF Exact, Undisturbed, OneAsked
  <1>6. OneLoad'
    BY <1>1, AstrayType DEF IInv, OneLoad, Live
  <1> QED
    BY <1>4, <1>5, <1>6 DEF IInv

LEMMA FaultType ==
  ASSUME IInv, NEW a, a.faults \in Nat, Fault(a)
  PROVE  faults' \in 0..MaxFaults
  BY SearchConstants DEF Fault, IInv, TypeOK

LEMMA FirstPageStep ==
  ASSUME IInv, NEW q \in Query, FirstPage(q)
  PROVE  IInv'
  <1>1. q = view.query /\ asking' \subseteq {q} /\ load' = Astray(load) /\ opens' = opens
    BY DEF FirstPage, Answered, IInv, OneAsked
  <1>2. PICK a \in Answers(q, Start(q)) : FirstPageArrives(a) \/ FirstPageFails(a)
    BY DEF FirstPage
  <1>3. a.cursor \in Cursor /\ a.listings \subseteq Listing /\ a.faults \in Nat
    BY StartCovers, AnswerType
  <1>4. faults' \in 0..MaxFaults
    BY <1>2, <1>3, FaultType DEF FirstPageArrives, FirstPageFails
  <1>5. view' \in View /\ view'.query = q
    <2>1. CASE FirstPageArrives(a)
      BY <1>1, <1>3, <2>1 DEF FirstPageArrives, IInv, TypeOK, View
    <2>2. CASE FirstPageFails(a)
      <3>1. view' = [Opened(q) EXCEPT !.status = "error"]
        BY <1>1, <2>2 DEF FirstPageFails
      <3> QED
        BY <3>1, OpenedType DEF Opened
    <2> QED
      BY <1>2, <2>1, <2>2
  <1>6. TypeOK' /\ OneAsked' /\ OneLoad'
    <2>1. TypeOK'
      BY <1>1, <1>4, <1>5, AstrayType DEF IInv, TypeOK, OneAsked
    <2>2. OneAsked'
      BY <1>1, <1>5 DEF OneAsked
    <2>3. OneLoad'
      BY <1>1, AstrayType DEF IInv, OneLoad, Live
    <2> QED
      BY <2>1, <2>2, <2>3
  <1>7. Exact'
    <2>1. CASE FirstPageFails(a)
      <3>1. view'.status = "error"
        BY <2>1 DEF FirstPageFails, Opened
      <3> QED
        BY <3>1 DEF Exact, Undisturbed
    <2>2. CASE FirstPageArrives(a)
      <3>1. view'.shown = a.listings /\ view'.cursor = a.cursor /\ a.ok
        BY <2>2 DEF FirstPageArrives, IInv, TypeOK, View
      <3>2. Resume(q, Start(q)) = Start(q)
        BY StartCovers DEF Resume
      <3>3. PICK o \in Outcomes(Start(q)) : \E s \in Selections(Found(o)) :
               a.listings = s /\ a.cursor = NextCursor(Start(q), o, s)
        BY <3>1, <3>2, StartCovers, AnswerType
      <3>4. PICK s \in Selections(Found(o)) :
               a.listings = s /\ a.cursor = NextCursor(Start(q), o, s)
        BY <3>3
      <3>5. Start(q).seen = KeysOf({}) /\ Own({}, q) /\ Apart({})
        BY StartCovers DEF KeysOf, Own, Apart
      <3>6. Merged({}, s) = s
        BY DEF Merged
      <3>7. /\ a.cursor.query = q /\ a.cursor.seen = KeysOf(s) /\ Covers(a.cursor)
            /\ Own(s, q) /\ Apart(s)
        BY <3>4, <3>5, <3>6, StartCovers, AnswerExact
      <3> QED
        BY <1>5, <3>1, <3>4, <3>7 DEF Exact
    <2> QED
      BY <1>2, <2>1, <2>2
  <1> QED
    BY <1>6, <1>7 DEF IInv

LEMMA LoadMoreStep ==
  ASSUME IInv, NEW s \in Slot, LoadMore(s)
  PROVE  IInv'
  <1> DEFINE l == [query |-> view.query, cursor |-> view.cursor, stray |-> FALSE]
  <1>1. /\ view.status = "success" /\ ~view.loadingMore /\ load[s] = NULL
        /\ view' = [view EXCEPT !.loadingMore = TRUE] /\ load' = [load EXCEPT ![s] = l]
        /\ asking' = asking /\ opens' = opens /\ faults' = faults
    BY DEF LoadMore, CanLoadMore
  <1>2. /\ view' \in View /\ view'.loadingMore /\ view'.status = view.status
        /\ view'.query = view.query /\ view'.mixed = view.mixed
        /\ view'.cursor = view.cursor /\ view'.shown = view.shown
    BY <1>1 DEF IInv, TypeOK, View
  <1>3. l \in Load
    BY DEF IInv, TypeOK, View, Load
  <1>4. TypeOK'
    BY <1>1, <1>2, <1>3 DEF IInv, TypeOK
  <1>5. Exact' /\ OneAsked'
    BY <1>1, <1>2 DEF IInv, Exact, Undisturbed, OneAsked
  <1>6. OneLoad'
    <2> SUFFICES ASSUME ~view.mixed
                 PROVE  \A t \in Slot : Live(t)' => t = s
      BY <1>1, <1>2 DEF IInv, TypeOK, OneLoad
    <2>1. \A t \in Slot : ~Live(t)
      BY <1>1 DEF IInv, OneLoad
    <2> QED
      BY <1>1, <2>1 DEF IInv, TypeOK, Live
  <1> QED
    BY <1>4, <1>5, <1>6 DEF IInv

\* The answer to a stray request mixes the list; any other's belongs to it.
LEMMA MoreStep ==
  ASSUME IInv, NEW s \in Slot, More(s)
  PROVE  IInv'
  <1>1. /\ load[s] \in Load /\ load[s] # NULL /\ load' = [load EXCEPT ![s] = NULL]
        /\ asking' = asking /\ opens' = opens
    BY DEF More, Ended, IInv, TypeOK
  <1>2. PICK a \in Answers(load[s].query, load[s].cursor) : MoreArrives(s, a) \/ MoreFails(s, a)
    BY DEF More
  <1>3. /\ load[s].query \in Query /\ load[s].cursor \in Cursor
        /\ a.cursor \in Cursor /\ a.listings \subseteq Listing /\ a.faults \in Nat
    BY <1>1, AnswerType DEF Load
  <1>4. faults' \in 0..MaxFaults
    BY <1>2, <1>3, FaultType DEF MoreArrives, MoreFails
  <1>5. /\ view' \in View /\ view'.query = view.query
        /\ view'.mixed = (view.mixed \/ load[s].stray)
    <2>1. CASE MoreArrives(s, a)
      BY <1>1, <1>3, <2>1 DEF MoreArrives, Merged, IInv, TypeOK, View, Load
    <2>2. CASE MoreFails(s, a)
      BY <1>1, <2>2 DEF MoreFails, LoadedNoMore, IInv, TypeOK, View, Load
    <2> QED
      BY <1>2, <2>1, <2>2
  <1>6. TypeOK' /\ OneAsked'
    BY <1>1, <1>4, <1>5 DEF IInv, TypeOK, OneAsked
  <1>7. CASE view.mixed \/ load[s].stray
    BY <1>5, <1>6, <1>7 DEF IInv, Exact, Undisturbed, OneLoad
  <1>8. CASE ~view.mixed /\ ~load[s].stray
    <2>1. /\ view.status = "success" /\ load[s].query = view.query /\ load[s].cursor = view.cursor
          /\ \A t \in Slot : Live(t) => t = s
      BY <1>1, <1>8 DEF IInv, OneLoad, Live
    <2>2. OneLoad'
      BY <1>1, <2>1 DEF IInv, TypeOK, OneLoad, Live
    <2>3. Exact'
      <3>1. CASE MoreFails(s, a)
        <4>1. view'.shown = view.shown /\ view'.cursor = view.cursor /\ view'.status = view.status
          BY <3>1 DEF MoreFails, LoadedNoMore, IInv, TypeOK, View
        <4> QED
          BY <1>5, <1>8, <4>1 DEF IInv, Exact, Undisturbed
      <3>2. CASE MoreArrives(s, a)
        <4>1. view'.shown = Merged(view.shown, a.listings) /\ view'.cursor = a.cursor /\ a.ok
          BY <3>2 DEF MoreArrives, IInv, TypeOK, View
        <4>2. /\ view.cursor.query = view.query /\ view.cursor.seen = KeysOf(view.shown)
              /\ Covers(view.cursor) /\ Own(view.shown, view.query) /\ Apart(view.shown)
              /\ view.cursor \in Cursor /\ view.shown \in SUBSET Listing
          BY <1>8, <2>1 DEF IInv, Exact, Undisturbed, TypeOK, View
        <4>3. Resume(load[s].query, load[s].cursor) = view.cursor
          BY <2>1, <4>2 DEF Resume
        <4>4. PICK o \in Outcomes(view.cursor) : \E ls \in Selections(Found(o)) :
                 a.listings = ls /\ a.cursor = NextCursor(view.cursor, o, ls)
          BY <1>3, <4>1, <4>3, AnswerType
        <4>5. PICK ls \in Selections(Found(o)) :
                 a.listings = ls /\ a.cursor = NextCursor(view.cursor, o, ls)
          BY <4>4
        <4>6. /\ a.cursor.query = view.query /\ a.cursor.seen = KeysOf(view'.shown)
              /\ Covers(a.cursor) /\ Own(view'.shown, view.query) /\ Apart(view'.shown)
          BY <4>1, <4>2, <4>5, AnswerExact
        <4> QED
          BY <1>5, <4>1, <4>6 DEF Exact
      <3> QED
        BY <1>2, <3>1, <3>2
    <2> QED
      BY <1>6, <2>2, <2>3 DEF IInv
  <1> QED
    BY <1>7, <1>8

LEMMA InitInv == Init => IInv
  <1> SUFFICES ASSUME Init PROVE IInv
    OBVIOUS
  <1>1. PICK q \in Query : view = Opened(q) /\ asking = {q}
    BY DEF Init
  <1>2. view.status = "loading" /\ view.query = q
    BY <1>1 DEF Opened
  <1>3. TypeOK
    <2>1. opens \in 0..MaxOpens /\ faults \in 0..MaxFaults
      BY SearchConstants DEF Init
    <2>2. load \in [Slot -> Load \cup {NULL}]
      BY DEF Init
    <2> QED
      BY <1>1, <2>1, <2>2, OpenedType DEF TypeOK
  <1> QED
    BY <1>1, <1>2, <1>3 DEF Init, IInv, Exact, Undisturbed, OneLoad, OneAsked, Live

LEMMA NextInv == IInv /\ [Next]_vars => IInv'
  <1> SUFFICES ASSUME IInv, [Next]_vars PROVE IInv'
    OBVIOUS
  <1>1. CASE \E q \in Query : Navigate(q)
    BY <1>1, OpenStep DEF Navigate
  <1>2. CASE \E q \in Query : FirstPage(q)
    BY <1>2, FirstPageStep
  <1>3. CASE Retry
    BY <1>3, OpenStep DEF Retry, IInv, TypeOK, View
  <1>4. CASE \E s \in Slot : LoadMore(s)
    BY <1>4, LoadMoreStep
  <1>5. CASE \E s \in Slot : More(s)
    BY <1>5, MoreStep
  <1>6. CASE UNCHANGED vars
    BY <1>6 DEF vars, IInv, TypeOK, Exact, Undisturbed, OneLoad, OneAsked, Live
  <1> QED
    BY <1>1, <1>2, <1>3, <1>4, <1>5, <1>6 DEF Next

THEOREM Invariance == Spec => []IInv
  BY InitInv, NextInv, PTL DEF Spec

\* Every list, cursor and request keeps its shape: no cursor points beyond the last page.
THEOREM TypeCorrect == Spec => []TypeOK
  BY Invariance, PTL DEF IInv

\* A list nobody else's answer came into holds results of its own query only.
THEOREM OwnResults == Spec => []ShowsItsQuery
  <1>1. IInv => ShowsItsQuery
    BY DEF IInv, Exact, Own, ShowsItsQuery
  <1> QED
    BY Invariance, <1>1, PTL

\* ... and shows nothing twice.
THEOREM NoTwins == Spec => []ShownOnce
  <1>1. IInv => ShownOnce
    BY DEF IInv, Exact, Apart, ShownOnce
  <1> QED
    BY Invariance, <1>1, PTL

\* ... and "load more" passes over nothing that was there all along.
THEOREM NoGaps == Spec => []NothingSkipped
  <1>1. ASSUME IInv, Undisturbed PROVE NothingSkipped
    <2>1. /\ view.cursor.query = view.query /\ view.cursor.seen = KeysOf(view.shown)
          /\ Covers(view.cursor)
      BY <1>1 DEF IInv, Exact
    <2> QED
      BY <2>1 DEF Covers, NothingSkipped
  <1>2. IInv => NothingSkipped
    BY <1>1 DEF NothingSkipped
  <1> QED
    BY Invariance, <1>2, PTL

-----------------------------------------------------------------------------
(* Loading more comes closer to the end.                                   *)

\* Somebody asked for more because there was more.
MoreToLoad == ~view.mixed => \A s \in Slot : Live(s) => HasMore(view.cursor)

\* The answer to request s arrives, with a listing or at least one provider that did not
\* fail: what the web page takes for a success.
Arrived(s) ==
    /\ Live(s) /\ ~view.mixed /\ Ended(s)
    /\ \E a \in Answers(load[s].query, load[s].cursor) : MoreArrives(s, a)

\* The end of a list is nearer when more is shown or one provider less is to be asked,
\* and nothing of either kind is taken back.
ComesCloser ==
    /\ view.shown \subseteq view'.shown
    /\ \A p \in Provider : view.cursor.at[p] = Exhausted => view'.cursor.at[p] = Exhausted
    /\ \/ view'.shown # view.shown
       \/ \E p \in Provider : view.cursor.at[p] # Exhausted /\ view'.cursor.at[p] = Exhausted

\* Unless a fetch failed, "load more" is never answered with nothing: no cut of a page, no
\* twin of a listing and no provider's empty page has the page ask again for the same.
AnswersComeCloser ==
    [][\A s \in Slot : Arrived(s) /\ faults' = faults => ComesCloser]_vars

LEMMA InitMoreToLoad == Init => MoreToLoad
  BY DEF Init, MoreToLoad, Live

LEMMA NextMoreToLoad == IInv /\ MoreToLoad /\ [Next]_vars => MoreToLoad'
  <1> SUFFICES ASSUME IInv, MoreToLoad, [Next]_vars PROVE MoreToLoad'
    OBVIOUS
  <1>1. ASSUME load' = Astray(load) PROVE MoreToLoad'
    BY <1>1, AstrayType DEF IInv, MoreToLoad, Live
  <1>2. CASE \E q \in Query : Navigate(q) \/ FirstPage(q)
    BY <1>1, <1>2 DEF Navigate, Open, FirstPage
  <1>3. CASE Retry
    BY <1>1, <1>3 DEF Retry, Open
  <1>4. CASE \E s \in Slot : LoadMore(s)
    <2>1. HasMore(view.cursor) /\ view' = [view EXCEPT !.loadingMore = TRUE]
      BY <1>4 DEF LoadMore, CanLoadMore
    <2>2. view'.cursor = view.cursor
      BY <2>1 DEF IInv, TypeOK, View
    <2> QED
      BY <2>1, <2>2 DEF MoreToLoad, HasMore
  <1>5. ASSUME NEW s \in Slot, More(s) PROVE MoreToLoad'
    <2>1. load[s] \in Load /\ load' = [load EXCEPT ![s] = NULL]
      BY <1>5 DEF More, Ended, IInv, TypeOK
    <2>2. view'.mixed = (view.mixed \/ load[s].stray)
      <3>1. PICK a \in Answers(load[s].query, load[s].cursor) : MoreArrives(s, a) \/ MoreFails(s, a)
        BY <1>5 DEF More
      <3> QED
        BY <3>1, <2>1 DEF MoreArrives, MoreFails, LoadedNoMore, IInv, TypeOK, View, Load
    <2>3. ASSUME ~view'.mixed PROVE \A t \in Slot : ~Live(t)'
      <3>1. ~view.mixed /\ Live(s)
        BY <1>5, <2>2, <2>3 DEF More, Ended, Live
      <3> QED
        BY <2>1, <3>1 DEF IInv, TypeOK, OneLoad, Live
    <2> QED
      BY <2>3 DEF MoreToLoad
  <1>6. CASE UNCHANGED vars
    BY <1>6 DEF vars, MoreToLoad, Live, HasMore
  <1> QED
    BY <1>2, <1>3, <1>4, <1>5, <1>6 DEF Next

\* A page is finite, and so is what all providers found.
LEMMA FoundFinite ==
  ASSUME NEW c \in Cursor, NEW o \in Outcomes(c)
  PROVE  IsFiniteSet(Found(o))
  <1>1. ASSUME NEW p \in Provider, NEW v \in Version, NEW i \in Nat
        PROVE  IsFiniteSet(PageOf(p, c.query, v, i))
    BY SearchConstants, FS_EmptySet DEF PageOf, Cursor
  <1>2. ASSUME NEW p \in Provider
        PROVE  IsFiniteSet(o[p].found)
    <2>1. o[p] \in Collect(p, c)
      BY OutcomesAre
    <2>2. CASE o[p].found = {}
      BY <2>2, FS_EmptySet
    <2>3. CASE o[p].found # {}
      <3>1. PICK j \in Reached(p, c), v \in Version :
              /\ c.at[p] # Exhausted
              /\ o[p] = Has(j, Unseen(PageOf(p, c.query, v, j), c.seen), After(p, c.query, v, j))
        BY <2>1, <2>3, CollectCases DEF Without
      <3>2. j \in Nat
        BY <3>1, ReachedBehind, SearchConstants
      <3>3. o[p].found \subseteq PageOf(p, c.query, v, j)
        BY <3>1 DEF Has, Unseen
      <3> QED
        BY <1>1, <3>2, <3>3, FS_Subset
    <2> QED
      BY <2>2, <2>3
  <1> DEFINE all == {o[p].found : p \in Provider}
  <1>3. IsFiniteSet(all)
    <2> DEFINE found == [p \in Provider |-> o[p].found]
    <2>1. found \in Surjection(Provider, all)
      BY DEF Surjection
    <2> QED
      BY <2>1, SearchConstants, FS_Surjection
  <1>4. \A x \in all : IsFiniteSet(x)
    BY <1>2
  <1> QED
    BY <1>3, <1>4, FS_UNION DEF Found

\* Of something found something is shown.
LEMMA SomethingSelected ==
  ASSUME NEW ls \in SUBSET Listing, IsFiniteSet(ls), ls # {}, NEW s \in Selections(ls)
  PROVE  s # {}
  <1>1. PICK u \in Unique(ls) : /\ s \in SUBSET u
                                /\ Cardinality(s) = IF Cardinality(u) < PageSize
                                                    THEN Cardinality(u) ELSE PageSize
    BY DEF Selections
  <1>2. u \subseteq ls /\ u # {}
    BY <1>1, KeysType DEF Unique, KeysOf
  <1>3. IsFiniteSet(u) /\ Cardinality(u) \in Nat /\ Cardinality(u) # 0
    BY <1>2, FS_Subset, FS_CardinalityType, FS_EmptySet
  <1>4. Cardinality(s) # 0
    BY <1>1, <1>3, SearchConstants
  <1> QED
    BY <1>4, FS_EmptySet

\* Without a failed fetch a provider still to be asked has something or comes to its end.
LEMMA CollectCloser ==
  ASSUME NEW p \in Provider, NEW c \in Cursor, NEW o \in Collect(p, c), o.verdict # "failed"
  PROVE  o.found # {} \/ o.next = Exhausted
  <1>1. CASE c.at[p] = Exhausted \/ Refuses(p, c.query, c.at[p])
    BY <1>1 DEF Collect, Without
  <1>2. CASE c.at[p] # Exhausted /\ ~Refuses(p, c.query, c.at[p])
    BY <1>2 DEF Collect, Without
  <1> QED
    BY <1>1, <1>2

\* One request without a failed fetch, from a cursor that has more.
LEMMA AnswerCloser ==
  ASSUME NEW c \in Cursor, HasMore(c), NEW o \in Outcomes(c), NEW s \in Selections(Found(o)),
         \A p \in Provider : o[p].verdict # "failed"
  PROVE  s # {} \/ \E p \in Provider : /\ c.at[p] # Exhausted
                                       /\ NextCursor(c, o, s).at[p] = Exhausted
  <1>1. PICK p \in Provider : c.at[p] # Exhausted
    BY DEF HasMore
  <1>2. o[p].found # {} \/ o[p].next = Exhausted
    BY OutcomesAre, CollectCloser
  <1>3. CASE o[p].found # {}
    <2>1. Found(o) # {} /\ Found(o) \subseteq Listing
      <3>1. \A x \in Provider : o[x].found \subseteq Listing
        BY OutcomesAre, CollectType DEF Outcome
      <3> QED
        BY <1>3, <3>1 DEF Found
    <2> QED
      BY <2>1, FoundFinite, SomethingSelected
  <1>4. CASE o[p].found = {} /\ o[p].next = Exhausted
    <2>1. NextCursor(c, o, s).at[p] = Position(o[p], SeenAfter(c, s))
      BY DEF NextCursor
    <2> QED
      BY <1>1, <1>4, <2>1 DEF Position, Unseen
  <1> QED
    BY <1>2, <1>3, <1>4

LEMMA ArrivedCloser ==
  ASSUME IInv, MoreToLoad, NEW s \in Slot, Arrived(s), faults' = faults
  PROVE  ComesCloser
  <1>1. PICK a \in Answers(load[s].query, load[s].cursor) : MoreArrives(s, a)
    BY DEF Arrived
  <1>2. /\ view.status = "success" /\ ~view.mixed /\ HasMore(view.cursor)
        /\ load[s].query = view.query /\ load[s].cursor = view.cursor
    BY DEF Arrived, IInv, OneLoad, MoreToLoad
  <1>3. /\ view.cursor.query = view.query /\ view.cursor.seen = KeysOf(view.shown)
        /\ view.cursor \in Cursor /\ view.query \in Query /\ view.shown \subseteq Listing
    BY <1>2 DEF IInv, Exact, Undisturbed, TypeOK, View
  <1> DEFINE c == view.cursor
  <1>4. Resume(load[s].query, load[s].cursor) = c
    BY <1>2, <1>3 DEF Resume
  <1>5. view'.shown = Merged(view.shown, a.listings) /\ view'.cursor = a.cursor /\ a.ok
        /\ faults' = faults + a.faults
    BY <1>1 DEF MoreArrives, Fault, IInv, TypeOK, View
  <1>6. a # Lost(load[s].cursor)
    BY <1>5 DEF Lost
  <1>a. PICK o \in Outcomes(c) : \E ls \in Selections(Found(o)) : a = Answer(c, o, ls)
    BY <1>4, <1>6 DEF Answers
  <1>b. PICK ls \in Selections(Found(o)) : a = Answer(c, o, ls)
    BY <1>a
  <1>7. a.listings = ls /\ a.cursor = NextCursor(c, o, ls)
        /\ a.faults = Cardinality({p \in Provider : o[p].verdict = "failed"})
    BY <1>b DEF Answer
  <1>8. \A p \in Provider : o[p].verdict # "failed"
    <2> DEFINE failed == {p \in Provider : o[p].verdict = "failed"}
    <2>1. IsFiniteSet(failed)
      BY SearchConstants, FS_Subset
    <2>2. Cardinality(failed) \in Nat
      BY <2>1, FS_CardinalityType
    <2>3. faults \in Nat /\ faults = faults + Cardinality(failed)
      BY <1>5, <1>7, SearchConstants DEF IInv, TypeOK
    <2>4. Cardinality(failed) = 0
      BY <2>2, <2>3
    <2> QED
      BY <2>1, <2>4, FS_EmptySet
  <1>9. ls # {} \/ \E p \in Provider : c.at[p] # Exhausted /\ a.cursor.at[p] = Exhausted
    BY <1>2, <1>3, <1>7, <1>8, AnswerCloser
  <1>10. view.shown \subseteq view'.shown
    BY <1>5 DEF Merged
  <1>11. ASSUME ls # {} PROVE view'.shown # view.shown
    <2>1. PICK l \in ls : TRUE
      BY <1>11
    <2>2. l \in Listing /\ Keys(l) \cap c.seen = {}
      BY <1>3, CoversNext
    <2>3. \A m \in view.shown : Keys(l) \cap Keys(m) = {}
      BY <1>3, <2>2 DEF KeysOf
    <2>4. \A m \in view.shown : m # l /\ Identity[m] # Identity[l]
      BY <1>3, <2>2, <2>3, KeysType
    <2> QED
      BY <1>5, <1>7, <2>1, <2>4 DEF Merged
  <1>12. ASSUME NEW p \in Provider, c.at[p] = Exhausted
         PROVE  a.cursor.at[p] = Exhausted
    <2>1. o[p] = Without(Exhausted, "ok")
      BY <1>3, <1>12, OutcomesAre DEF Collect
    <2>2. a.cursor.at[p] = Position(o[p], SeenAfter(c, ls))
      BY <1>7 DEF NextCursor
    <2> QED
      BY <2>1, <2>2 DEF Position, Without, Unseen
  <1> QED
    BY <1>5, <1>9, <1>10, <1>11, <1>12 DEF ComesCloser

\* Whatever moved on the pages meanwhile, an answer brings a listing that was not shown or
\* takes a provider off the list of those to ask, and never brings one back.  As both are
\* bounded, loading more ends once fetches and answers no longer fail (SearchEnds).
THEOREM Progress == Spec => AnswersComeCloser
  <1>1. IInv /\ MoreToLoad /\ [Next]_vars
          => [\A s \in Slot : Arrived(s) /\ faults' = faults => ComesCloser]_vars
    BY ArrivedCloser
  <1> QED
    BY <1>1, Invariance, InitMoreToLoad, NextMoreToLoad, PTL DEF Spec, AnswersComeCloser
=============================================================================
