------------------------- MODULE AlertMatchingProofs -------------------------
(***************************************************************************)
(* What TLAPS proves of AlertMatching, for every set of watchlists and       *)
(* workers, every limit and every bound.                                    *)
(*                                                                         *)
(* Prices are only appended, so what was true of two consecutive            *)
(* observations stays true (Sound).  A matching that nobody overtook has    *)
(* read every observation that was announced (UpToDate), and as long as all *)
(* matchings were such, a row is about the last of its announcements        *)
(* (LastAnnounced).                                                        *)
(*                                                                          *)
(* The second half is about row locks: who holds a row (LocksExclusive), in *)
(* what order the others wait (QueueOrder), that somebody always goes on    *)
(* (NoStandstill) and that a drop that is due is not lost on the way.       *)
(***************************************************************************)
EXTENDS AlertMatching, TLAPS

Sound(k, v) ==
    /\ v <= Len(price)
    /\ k[2] = "price_drop" => v > 1 /\ price[v] < price[v - 1]
    /\ k[2] = "back_in_range" => v > 1 /\ price[v] <= Limit[k[1]] /\ price[v - 1] > Limit[k[1]]

SoundRun(m) ==
    /\ run[m].version <= Len(price)
    /\ \A k \in run[m].events \cup run[m].wrote : Sound(k, run[m].version)

SoundRuns == \A m \in Worker : SoundRun(m)

SoundSent ==
    \A d \in sent :
        /\ Sound(d[1], d[2])
        /\ row[d[1]] # NULL
        /\ d[1][2] = "new_listing" => d[2] = 0

RowsSent == \A k \in RowKey : row[k] # NULL => <<k, row[k].trigger>> \in sent

Current(m) == HasRead(m) /\ ~run[m].overtaken => \A d \in sent : d[2] <= run[m].version

UpToDate == \A m \in Worker : Current(m)

LastAnnounced == ~crossed => \A d \in sent : d[2] <= row[d[1]].trigger

IInv == TypeOK /\ SoundRuns /\ SoundSent /\ RowsSent /\ UpToDate /\ LastAnnounced

-----------------------------------------------------------------------------
(* What one step does to one part of the state.                            *)

Steps == {"idle", "again", "begin", "prices", "choose", "write", "wait"}

LEMMA AtType == \A step \in Steps : At(step) \in Run
  BY MatchingConstants DEF At, Run, Steps

LEMMA RunUpdates ==
  ASSUME NEW r \in Run, NEW s \in Steps, NEW t \in SUBSET Watchlist,
         NEW e \in SUBSET RowKey, NEW h \in SUBSET RowKey, NEW b \in BOOLEAN
  PROVE  /\ [r EXCEPT !.step = s] \in Run
         /\ [r EXCEPT !.step = s, !.todo = t] \in Run
         /\ [r EXCEPT !.step = s, !.todo = t, !.events = e] \in Run
         /\ [r EXCEPT !.step = s, !.events = e, !.wrote = h] \in Run
         /\ [r EXCEPT !.overtaken = b] \in Run
  <1>1. /\ [r EXCEPT !.step = s] \in Run
        /\ \A q \in Run : [q EXCEPT !.todo = t] \in Run
        /\ \A q \in Run : [q EXCEPT !.events = e] \in Run
        /\ \A q \in Run : [q EXCEPT !.wrote = h] \in Run
    BY DEF Run, Steps
  <1>2. [r EXCEPT !.overtaken = b] \in Run
    BY DEF Run
  <1>3. [r EXCEPT !.step = s, !.todo = t] = [[r EXCEPT !.step = s] EXCEPT !.todo = t]
    OBVIOUS
  <1>4. [r EXCEPT !.step = s, !.todo = t, !.events = e]
          = [[[r EXCEPT !.step = s] EXCEPT !.todo = t] EXCEPT !.events = e]
    OBVIOUS
  <1>5. [r EXCEPT !.step = s, !.events = e, !.wrote = h]
          = [[[r EXCEPT !.step = s] EXCEPT !.events = e] EXCEPT !.wrote = h]
    OBVIOUS
  <1> QED
    BY <1>1, <1>2, <1>3, <1>4, <1>5

\* Observations are only added.
LEMMA UpsertAppends ==
  ASSUME TypeOK, NEW p \in Price, NEW o \in BOOLEAN, Upsert(p, o)
  PROVE  /\ price' \in Seq(Price) /\ Len(price') <= MaxVersions /\ available' \in BOOLEAN
         /\ Len(price) \in Nat /\ Len(price') \in Nat /\ Len(price) <= Len(price')
         /\ \A i \in 1..Len(price) : price'[i] = price[i]
  <1>1. price \in Seq(Price) /\ Len(price) \in Nat /\ Len(price) <= MaxVersions /\ MaxVersions \in Nat
    BY MatchingConstants DEF TypeOK
  <1>2. CASE Unchanged(p)
    BY <1>1, <1>2 DEF Upsert, Recorded
  <1>3. CASE ~Unchanged(p)
    <2>1. price' = Append(price, p) /\ Len(price) < MaxVersions
      BY <1>3 DEF Upsert, Recorded, Latest
    <2>2. available' \in BOOLEAN
      BY DEF Upsert
    <2> QED
      BY <1>1, <2>1, <2>2
  <1> QED
    BY <1>2, <1>3

LEMMA SoundKept ==
  ASSUME NEW k \in RowKey, NEW v \in Nat, Sound(k, v),
         Len(price) \in Nat, Len(price') \in Nat, Len(price) <= Len(price'),
         \A i \in 1..Len(price) : price'[i] = price[i]
  PROVE  Sound(k, v)'
  <1>1. v <= Len(price')
    BY DEF Sound
  <1>2. ASSUME v > 1
        PROVE  price'[v] = price[v] /\ price'[v - 1] = price[v - 1]
    <2>1. v \in 1..Len(price) /\ v - 1 \in 1..Len(price)
      BY <1>2 DEF Sound
    <2> QED
      BY <2>1
  <1> QED
    BY <1>1, <1>2 DEF Sound

LEMMA EventsSound ==
  ASSUME NEW w \in Watchlist, NEW v \in Nat, v <= Len(price)
  PROVE  EventsOf(w, v) \subseteq RowKey /\ \A k \in EventsOf(w, v) : Sound(k, v)
  <1>1. EventsOf(w, v) \subseteq {w} \X Event
    BY DEF EventsOf
  <1>2. ASSUME NEW k \in EventsOf(w, v)
        PROVE  Sound(k, v)
    <2>1. k \in {w} \X Event /\ k[1] = w
      BY <1>1
    <2>2. k[2] = "price_drop" => Fell(v)
      BY DEF EventsOf
    <2>3. k[2] = "back_in_range" => CameBack(w, v)
      BY DEF EventsOf
    <2> QED
      BY <2>1, <2>2, <2>3 DEF Sound, Fell, CameBack
  <1> QED
    BY <1>1, <1>2 DEF RowKey

LEMMA TriggerType ==
  ASSUME TypeOK, NEW m \in Worker, NEW k \in RowKey
  PROVE  /\ Trigger(k, run[m].version) \in 0..MaxVersions
         /\ Matched(k, Trigger(k, run[m].version)) \in Row
         /\ Matched(k, Trigger(k, run[m].version)).trigger = Trigger(k, run[m].version)
  <1>1. run[m].version \in 0..MaxVersions /\ MaxVersions \in Nat
    BY MatchingConstants DEF TypeOK, Run
  <1>2. Trigger(k, run[m].version) \in 0..MaxVersions
    BY <1>1 DEF Trigger
  <1>3. row[k] \in Row \cup {NULL}
    BY DEF TypeOK
  <1>4. CASE row[k] # NULL /\ row[k].trigger = Trigger(k, run[m].version)
    BY <1>2, <1>3, <1>4 DEF Matched
  <1>5. CASE ~(row[k] # NULL /\ row[k].trigger = Trigger(k, run[m].version))
    <2>1. Matched(k, Trigger(k, run[m].version))
            = [state |-> "unseen", trigger |-> Trigger(k, run[m].version)]
      BY <1>5 DEF Matched
    <2> QED
      BY <1>2, <2>1 DEF Row
  <1> QED
    BY <1>2, <1>4, <1>5

LEMMA CommitEffect ==
  ASSUME TypeOK, NEW m \in Worker, Commit(m)
  PROVE  /\ Holds(m) \subseteq RowKey
         /\ \A k \in Holds(m) : row'[k] = Matched(k, Trigger(k, run[m].version))
         /\ \A k \in RowKey \ Holds(m) : row'[k] = row[k]
         /\ \A d \in sent' : d \in sent
                \/ \E k \in Holds(m) : d = <<k, Trigger(k, run[m].version)>>
  <1>1. Holds(m) \subseteq RowKey
    BY DEF TypeOK, Run, Holds
  <1> QED
    BY <1>1 DEF Commit, Deliveries

-----------------------------------------------------------------------------
(* Type correctness.                                                       *)

LEMMA InitType == Init => TypeOK
  <1> SUFFICES ASSUME Init
               PROVE  TypeOK
    OBVIOUS
  <1>1. At("idle") \in Run
    BY AtType DEF Steps
  <1>2. price \in Seq(Price) /\ Len(price) = 0
    BY DEF Init
  <1>3. visits \in 0..MaxVisits /\ faults \in 0..MaxFaults /\ moves \in 0..MaxMoves
    BY MatchingConstants DEF Init
  <1>4. available \in BOOLEAN /\ crossed \in BOOLEAN /\ enabled \subseteq Watchlist
    BY Zenon DEF Init
  <1>5. /\ row \in [RowKey -> Row \cup {NULL}] /\ sent \subseteq RowKey \X (0..MaxVersions)
        /\ run \in [Worker -> Run] /\ ahead \subseteq Worker \X Worker
    BY <1>1 DEF Init
  <1> QED
    BY <1>2, <1>3, <1>4, <1>5, MatchingConstants DEF TypeOK

LEMMA BecomesType ==
  ASSUME TypeOK, NEW m \in Worker, NEW r \in Run, Becomes(m, r)
  PROVE  run' \in [Worker -> Run]
  BY DEF TypeOK, Becomes

LEMMA LeavesType ==
  ASSUME TypeOK, NEW m \in Worker, Leaves(m)
  PROVE  ahead' \subseteq Worker \X Worker
  BY DEF TypeOK, Leaves

LEMMA NextType ==
  ASSUME TypeOK, [Next]_vars
  PROVE  TypeOK'
  <1> USE MatchingConstants
  <1>1. ASSUME NEW p \in Price, NEW o \in BOOLEAN, Search(p, o)
        PROVE  TypeOK'
    <2>1. price' \in Seq(Price) /\ Len(price') <= MaxVersions /\ available' \in BOOLEAN
      BY <1>1, UpsertAppends DEF Search
    <2> QED
      BY <1>1, <2>1 DEF Search, TypeOK
  <1>2. ASSUME NEW m \in Worker, NEW p \in Price, NEW o \in BOOLEAN, Visit(m, p, o)
        PROVE  TypeOK'
    <2>1. price' \in Seq(Price) /\ Len(price') <= MaxVersions /\ available' \in BOOLEAN
      BY <1>2, UpsertAppends DEF Visit
    <2>2. run' \in [Worker -> Run]
      BY <1>2, AtType, BecomesType DEF Visit, Steps
    <2>3. visits' \in 0..MaxVisits
      BY <1>2 DEF Visit, TypeOK
    <2> QED
      BY <1>2, <2>1, <2>2, <2>3 DEF Visit, TypeOK
  <1>3. CASE MarkStale
    BY <1>3 DEF MarkStale, TypeOK
  <1>4. ASSUME NEW m \in Worker, ReadPrices(m)
        PROVE  TypeOK'
    <2>1. Len(price) \in 0..MaxVersions
      BY DEF TypeOK
    <2>2. [At("prices") EXCEPT !.version = Latest] \in Run
      BY <2>1, AtType DEF Steps, Run, Latest
    <2>3. run' \in [Worker -> Run]
      BY <1>4, <2>2, BecomesType DEF ReadPrices
    <2> QED
      BY <1>4, <2>3 DEF ReadPrices, Alone, Unseen, TypeOK
  <1>5. ASSUME NEW m \in Worker, ReadCandidates(m)
        PROVE  TypeOK'
    <2> DEFINE t == {w \in Watchlist : Wants(w)}
    <2>a. run[m] \in Run /\ "choose" \in Steps /\ t \in SUBSET Watchlist
      BY DEF TypeOK, Steps
    <2>b. run' = [run EXCEPT ![m] = [run[m] EXCEPT !.step = "choose", !.todo = t]]
      BY <1>5, <2>a DEF ReadCandidates, TypeOK
    <2> HIDE DEF t
    <2>c. [run[m] EXCEPT !.step = "choose", !.todo = t] \in Run
      BY <2>a, RunUpdates
    <2>1. run' \in [Worker -> Run]
      BY <2>b, <2>c DEF TypeOK
    <2> QED
      BY <1>5, <2>1 DEF ReadCandidates, Alone, Unseen, TypeOK
  <1>6. ASSUME NEW m \in Worker, NEW w \in Watchlist, Choose(m, w)
        PROVE  TypeOK'
    <2>1. EventsOf(w, run[m].version) \subseteq RowKey
      BY DEF EventsOf, RowKey
    <2> DEFINE e == EventsOf(w, run[m].version)
               s == IF e = {} THEN "choose" ELSE "write"
               t == run[m].todo \ {w}
    <2>a. run[m] \in Run /\ s \in Steps /\ t \in SUBSET Watchlist /\ e \in SUBSET RowKey
      BY <2>1 DEF TypeOK, Steps, Run
    <2>b. run' = [run EXCEPT ![m] = [run[m] EXCEPT !.step = s, !.todo = t, !.events = e]]
      BY <1>6, <2>a DEF Choose, TypeOK
    <2> HIDE DEF e, s, t
    <2>c. [run[m] EXCEPT !.step = s, !.todo = t, !.events = e] \in Run
      BY <2>a, RunUpdates
    <2>2. run' \in [Worker -> Run]
      BY <2>b, <2>c DEF TypeOK
    <2> QED
      BY <1>6, <2>2 DEF Choose, Alone, Unseen, TypeOK
  <1>7. ASSUME NEW m \in Worker, Write(m)
        PROVE  TypeOK'
    <2> DEFINE h == run[m].wrote \cup run[m].events
    <2>a. run[m] \in Run /\ "choose" \in Steps /\ {} \in SUBSET RowKey /\ h \in SUBSET RowKey
      BY DEF TypeOK, Steps, Run
    <2>b. run' = [run EXCEPT ![m] = [run[m] EXCEPT !.step = "choose", !.events = {}, !.wrote = h]]
      BY <1>7, <2>a DEF Write, TypeOK
    <2> HIDE DEF h
    <2>c. [run[m] EXCEPT !.step = "choose", !.events = {}, !.wrote = h] \in Run
      BY <2>a, RunUpdates
    <2>1. run' \in [Worker -> Run]
      BY <2>b, <2>c DEF TypeOK
    <2>2. ahead' \subseteq Worker \X Worker
      BY <1>7, LeavesType DEF Write
    <2> QED
      BY <1>7, <2>1, <2>2 DEF Write, Unseen, TypeOK
  <1>8. ASSUME NEW m \in Worker, Queue(m)
        PROVE  TypeOK'
    <2>1. run' \in [Worker -> Run]
      BY <1>8 DEF Queue, TypeOK, Run
    <2>2. ahead' \subseteq Worker \X Worker
      BY <1>8 DEF Queue, TypeOK
    <2> QED
      BY <1>8, <2>1, <2>2 DEF Queue, Unseen, TypeOK
  <1>9. ASSUME NEW m \in Worker, Commit(m)
        PROVE  TypeOK'
    <2>1. row' \in [RowKey -> Row \cup {NULL}]
      BY <1>9, CommitEffect, TriggerType DEF Commit, TypeOK
    <2>2. sent' \subseteq RowKey \X (0..MaxVersions)
      BY <1>9, CommitEffect, TriggerType DEF TypeOK
    <2>3. At("idle") \in Run
      BY AtType DEF Steps
    <2> DEFINE r(x) == IF x = m THEN At("idle")
                       ELSE IF HasRead(x) THEN [run[x] EXCEPT !.overtaken = TRUE] ELSE run[x]
    <2>a. run' = [x \in Worker |-> r(x)]
      BY <1>9 DEF Commit
    <2>b. ASSUME NEW x \in Worker
          PROVE  r(x) \in Run
      <3>1. run[x] \in Run
        BY DEF TypeOK
      <3>2. [run[x] EXCEPT !.overtaken = TRUE] \in Run
        BY <3>1 DEF Run
      <3> QED
        BY <2>3, <3>1, <3>2
    <2> HIDE DEF r
    <2>5. run' \in [Worker -> Run]
      BY <2>a, <2>b
    <2>6. crossed' \in BOOLEAN
      BY <1>9 DEF Commit, TypeOK, Run
    <2> QED
      BY <1>9, <2>1, <2>2, <2>5, <2>6 DEF Commit, TypeOK
  <1>10. ASSUME NEW m \in Worker, Deadlock(m)
         PROVE  TypeOK'
    <2>1. run' \in [Worker -> Run] /\ ahead' \subseteq Worker \X Worker
      BY <1>10, AtType, BecomesType, LeavesType DEF Deadlock, Steps
    <2> QED
      BY <1>10, <2>1 DEF Deadlock, Unseen, TypeOK
  <1>11. ASSUME NEW m \in Worker, Break(m)
         PROVE  TypeOK'
    <2>1. run' \in [Worker -> Run] /\ ahead' \subseteq Worker \X Worker
      BY <1>11, AtType, BecomesType, LeavesType DEF Break, Failed, Steps
    <2>2. faults' \in 0..MaxFaults
      BY <1>11 DEF Break, TypeOK
    <2> QED
      BY <1>11, <2>1, <2>2 DEF Break, TypeOK
  <1>12. ASSUME NEW k \in RowKey, NEW s \in {"seen", "dismissed"}, SetState(k, s)
         PROVE  TypeOK'
    <2>1. row[k] \in Row
      BY <1>12 DEF SetState, TypeOK
    <2>2. [row[k] EXCEPT !.state = s] \in Row
      BY <2>1 DEF Row
    <2>3. row' \in [RowKey -> Row \cup {NULL}]
      BY <1>12, <2>2 DEF SetState, TypeOK
    <2>4. moves' \in 0..MaxMoves
      BY <1>12 DEF SetState, Moved, TypeOK
    <2> QED
      BY <1>12, <2>3, <2>4 DEF SetState, TypeOK
  <1>13. ASSUME NEW w \in Watchlist, Switch(w)
         PROVE  TypeOK'
    <2>1. moves' \in 0..MaxMoves
      BY <1>13 DEF Switch, Moved, TypeOK
    <2>2. enabled' \subseteq Watchlist
      BY <1>13 DEF Switch, TypeOK
    <2> QED
      BY <1>13, <2>1, <2>2 DEF Switch, TypeOK
  <1>14. CASE UNCHANGED vars
    BY <1>14 DEF vars, TypeOK
  <1> QED
    BY <1>1, <1>2, <1>3, <1>4, <1>5, <1>6, <1>7, <1>8, <1>9, <1>10, <1>11, <1>12, <1>13, <1>14
       DEF Next, MarkSeen, Dismiss

\* Every variable keeps its type, and every counter its bound.
THEOREM TypeCorrect == Spec => []TypeOK
  <1>1. TypeOK /\ [Next]_vars => TypeOK'
    BY NextType
  <1> QED
    BY InitType, <1>1, PTL DEF Spec

-----------------------------------------------------------------------------
(* The invariant behind the safety properties.                             *)

\* The prices after a step: those before it, and perhaps more.
Grows ==
    /\ Len(price) \in Nat /\ Len(price') \in Nat /\ Len(price) <= Len(price')
    /\ \A i \in 1..Len(price) : price'[i] = price[i]

LEMMA GrowsStep ==
  ASSUME TypeOK, Next
  PROVE  Grows
  <1>1. ASSUME NEW p \in Price, NEW o \in BOOLEAN, Upsert(p, o)
        PROVE  Grows
    BY <1>1, UpsertAppends DEF Grows
  <1>2. Len(price) \in Nat
    BY DEF TypeOK
  <1>3. CASE UNCHANGED price
    BY <1>2, <1>3 DEF Grows
  <1> QED
    BY <1>1, <1>3 DEF Next, Search, Visit, MarkStale, ReadPrices, ReadCandidates, Choose, Write,
       Queue, Commit, Deadlock, Break, MarkSeen, Dismiss, SetState, Switch, Alone, Unseen

LEMMA SentType ==
  ASSUME TypeOK, NEW d \in sent
  PROVE  d[1] \in RowKey /\ d[2] \in Nat /\ d = <<d[1], d[2]>>
  BY MatchingConstants DEF TypeOK

\* A step that announces nothing keeps what is known of rows and deliveries.
LEMMA NothingAnnounced ==
  ASSUME IInv, Grows, UNCHANGED <<sent, crossed>>,
         \A k \in RowKey : /\ row'[k] = NULL <=> row[k] = NULL
                           /\ row[k] # NULL => row'[k].trigger = row[k].trigger
  PROVE  SoundSent' /\ RowsSent' /\ LastAnnounced'
  <1>1. ASSUME NEW d \in sent
        PROVE  /\ Sound(d[1], d[2])' /\ row'[d[1]] # NULL
               /\ d[1][2] = "new_listing" => d[2] = 0
               /\ row'[d[1]].trigger = row[d[1]].trigger
    <2>1. d[1] \in RowKey /\ d[2] \in Nat
      BY SentType DEF IInv
    <2>2. Sound(d[1], d[2]) /\ row[d[1]] # NULL /\ (d[1][2] = "new_listing" => d[2] = 0)
      BY DEF IInv, SoundSent
    <2>3. Sound(d[1], d[2])'
      BY <2>1, <2>2, SoundKept DEF Grows
    <2> QED
      BY <2>1, <2>2, <2>3
  <1>2. SoundSent'
    BY <1>1 DEF SoundSent
  <1>3. RowsSent'
    BY DEF IInv, RowsSent
  <1>4. LastAnnounced'
    BY <1>1 DEF IInv, LastAnnounced
  <1> QED
    BY <1>2, <1>3, <1>4

\* A worker that a step leaves alone, or that the step puts at a beginning or an end.
LEMMA RunKept ==
  ASSUME IInv, Grows, sent' = sent, NEW x \in Worker,
         run'[x] = run[x] \/ \E s \in {"idle", "again", "begin"} : run'[x] = At(s)
  PROVE  SoundRun(x)' /\ Current(x)'
  <1>1. CASE run'[x] = run[x]
    <2>1. run[x].version \in Nat /\ run[x].events \cup run[x].wrote \subseteq RowKey
      BY MatchingConstants DEF IInv, TypeOK, Run
    <2>2. SoundRun(x) /\ Current(x)
      BY DEF IInv, SoundRuns, UpToDate
    <2>3. run[x].version <= Len(price')
      BY <2>1, <2>2 DEF SoundRun, Grows
    <2>4. ASSUME NEW k \in run[x].events \cup run[x].wrote
          PROVE  Sound(k, run[x].version)'
      <3>1. k \in RowKey /\ Sound(k, run[x].version)
        BY <2>1, <2>2 DEF SoundRun
      <3>2. PICK v \in Nat : v = run[x].version
        BY <2>1
      <3>3. Sound(k, v)'
        BY <3>1, <3>2, SoundKept DEF Grows
      <3>4. run'[x].version = v
        BY <1>1, <3>2
      <3> QED
        BY <3>3, <3>4 DEF Sound
    <2>5. SoundRun(x)'
      BY <1>1, <2>3, <2>4 DEF SoundRun
    <2>6. Current(x)'
      BY <1>1, <2>2 DEF Current, HasRead
    <2> QED
      BY <2>5, <2>6
  <1>2. ASSUME NEW s \in {"idle", "again", "begin"}, run'[x] = At(s)
        PROVE  SoundRun(x)' /\ Current(x)'
    <2>1. run'[x].step = s /\ run'[x].version = 0 /\ run'[x].events = {} /\ run'[x].wrote = {}
      BY <1>2 DEF At
    <2>2. SoundRun(x)'
      BY <2>1 DEF SoundRun, Grows
    <2>3. Current(x)'
      BY <2>1 DEF Current, HasRead
    <2> QED
      BY <2>2, <2>3
  <1> QED
    BY <1>1, <1>2

LEMMA ReadPricesRun ==
  ASSUME IInv, NEW m \in Worker, ReadPrices(m)
  PROVE  SoundRun(m)' /\ Current(m)'
  <1>1. run'[m] = [At("prices") EXCEPT !.version = Latest] /\ UNCHANGED <<price, sent>>
    BY DEF ReadPrices, Becomes, Alone, Unseen, IInv, TypeOK
  <1>2. /\ run'[m].version = Len(price) /\ run'[m].events = {} /\ run'[m].wrote = {}
    BY <1>1 DEF At, Latest
  <1>3. \A d \in sent : d[2] <= Len(price)
    BY DEF IInv, SoundSent, Sound
  <1>4. Len(price) \in Nat
    BY DEF IInv, TypeOK
  <1> QED
    BY <1>1, <1>2, <1>3, <1>4 DEF SoundRun, Current

\* The statements of a matching after the first: what it read stays what it read.
LEMMA StatementRun ==
  ASSUME IInv, NEW m \in Worker, HasRead(m), UNCHANGED <<price, sent>>,
         run'[m].version = run[m].version, run'[m].overtaken = run[m].overtaken,
         \A k \in run'[m].events \cup run'[m].wrote :
            k \in run[m].events \cup run[m].wrote \/ Sound(k, run[m].version)
  PROVE  SoundRun(m)' /\ Current(m)'
  <1>1. SoundRun(m) /\ Current(m)
    BY DEF IInv, SoundRuns, UpToDate
  <1>2. ASSUME NEW k \in run'[m].events \cup run'[m].wrote
        PROVE  Sound(k, run[m].version)
    BY <1>1 DEF SoundRun
  <1>3. SoundRun(m)'
    BY <1>1, <1>2 DEF SoundRun, Sound
  <1>4. Current(m)'
    BY <1>1 DEF Current
  <1> QED
    BY <1>3, <1>4

LEMMA MatchStepRun ==
  ASSUME IInv, NEW m \in Worker,
         ReadCandidates(m) \/ Write(m) \/ Queue(m) \/ \E w \in Watchlist : Choose(m, w)
  PROVE  SoundRun(m)' /\ Current(m)'
  <1>1. run[m] \in Run /\ run \in [Worker -> Run]
    BY DEF IInv, TypeOK
  <1>2. CASE ReadCandidates(m)
    <2>1. /\ HasRead(m) /\ UNCHANGED <<price, sent>>
          /\ run'[m].version = run[m].version /\ run'[m].overtaken = run[m].overtaken
          /\ run'[m].events = run[m].events /\ run'[m].wrote = run[m].wrote
      BY <1>1, <1>2 DEF ReadCandidates, HasRead, Alone, Unseen, Run
    <2> QED
      BY <2>1, StatementRun
  <1>3. CASE Write(m)
    <2>1. /\ HasRead(m) /\ UNCHANGED <<price, sent>>
          /\ run'[m].version = run[m].version /\ run'[m].overtaken = run[m].overtaken
          /\ run'[m].events = {} /\ run'[m].wrote = run[m].wrote \cup run[m].events
      BY <1>1, <1>3 DEF Write, HasRead, Unseen, Run
    <2> QED
      BY <2>1, StatementRun
  <1>4. CASE Queue(m)
    <2>1. /\ HasRead(m) /\ UNCHANGED <<price, sent>>
          /\ run'[m].version = run[m].version /\ run'[m].overtaken = run[m].overtaken
          /\ run'[m].events = run[m].events /\ run'[m].wrote = run[m].wrote
      BY <1>1, <1>4 DEF Queue, HasRead, Unseen, Run
    <2> QED
      BY <2>1, StatementRun
  <1>5. ASSUME NEW w \in Watchlist, Choose(m, w)
        PROVE  SoundRun(m)' /\ Current(m)'
    <2>1. /\ HasRead(m) /\ UNCHANGED <<price, sent>>
          /\ run'[m].version = run[m].version /\ run'[m].overtaken = run[m].overtaken
          /\ run'[m].events = EventsOf(w, run[m].version) /\ run'[m].wrote = run[m].wrote
      BY <1>1, <1>5 DEF Choose, HasRead, Alone, Unseen, Run
    <2>2. run[m].version \in Nat /\ run[m].version <= Len(price)
      BY <1>1, MatchingConstants DEF Run, IInv, SoundRuns, SoundRun
    <2>3. \A k \in EventsOf(w, run[m].version) : Sound(k, run[m].version)
      BY <2>2, EventsSound
    <2> QED
      BY <2>1, <2>3, StatementRun
  <1> QED
    BY <1>2, <1>3, <1>4, <1>5

\* A commit announces what its worker has read.
LEMMA CommitAnnounces ==
  ASSUME IInv, NEW m \in Worker, Commit(m)
  PROVE  /\ SoundSent' /\ RowsSent' /\ LastAnnounced'
         /\ \A x \in Worker : SoundRun(x)' /\ Current(x)'
  <1> DEFINE v == run[m].version
  <1>1. TypeOK /\ v \in Nat /\ v <= Len(price) /\ UNCHANGED price
    BY MatchingConstants DEF IInv, TypeOK, Run, SoundRuns, SoundRun, Commit
  <1>2. ASSUME NEW k \in Holds(m)
        PROVE  /\ k \in RowKey /\ Sound(k, v)
               /\ row'[k] # NULL /\ row'[k].trigger = Trigger(k, v)
               /\ <<k, Trigger(k, v)>> \in sent'
    <2>1. k \in RowKey /\ row'[k] = Matched(k, Trigger(k, v))
      BY <1>1, CommitEffect
    <2>2. Sound(k, v)
      BY DEF Holds, IInv, SoundRuns, SoundRun
    <2>3. row'[k].trigger = Trigger(k, v)
      BY <1>1, <2>1, TriggerType
    <2>4. row'[k] # NULL
      BY <1>1, <2>1, TriggerType, NoRow
    <2>5. <<k, Trigger(k, v)>> \in sent'
      BY DEF Commit, Deliveries
    <2> QED
      BY <2>1, <2>2, <2>3, <2>4, <2>5
  <1>3. ASSUME NEW d \in sent'
        PROVE  /\ Sound(d[1], d[2])' /\ row'[d[1]] # NULL
               /\ d[1][2] = "new_listing" => d[2] = 0
    <2>1. CASE d \in sent
      <3>1. d[1] \in RowKey /\ Sound(d[1], d[2]) /\ row[d[1]] # NULL
            /\ (d[1][2] = "new_listing" => d[2] = 0)
        BY <1>1, <2>1, SentType DEF IInv, SoundSent
      <3>2. row'[d[1]] # NULL
        BY <1>1, <1>2, <3>1, CommitEffect
      <3>3. Sound(d[1], d[2])'
        BY <1>1, <3>1 DEF Sound
      <3> QED
        BY <3>1, <3>2, <3>3
    <2>2. ASSUME NEW k \in Holds(m), d = <<k, Trigger(k, v)>>
          PROVE  /\ Sound(d[1], d[2])' /\ row'[d[1]] # NULL
                 /\ d[1][2] = "new_listing" => d[2] = 0
      <3>1. d[1] = k /\ d[2] = Trigger(k, v)
        BY <2>2
      <3>2. Len(price) \in Nat
        BY <1>1 DEF TypeOK
      <3>3. CASE k[2] = "new_listing"
        <4>1. d[2] = 0
          BY <3>1, <3>3 DEF Trigger
        <4>2. d[1][2] = "new_listing" /\ 0 <= Len(price')
          BY <1>1, <3>1, <3>2, <3>3
        <4>3. Sound(d[1], d[2])'
          BY <4>1, <4>2 DEF Sound
        <4> QED
          BY <1>2, <3>1, <4>1, <4>3
      <3>4. CASE k[2] # "new_listing"
        <4>1. d[2] = v
          BY <3>1, <3>4 DEF Trigger
        <4> QED
          BY <1>1, <1>2, <3>1, <3>4, <4>1 DEF Sound
      <3> QED
        BY <3>3, <3>4
    <2> QED
      BY <1>1, <2>1, <2>2, CommitEffect
  <1>4. SoundSent'
    BY <1>3 DEF SoundSent
  <1>5. RowsSent'
    <2> SUFFICES ASSUME NEW k \in RowKey, row'[k] # NULL
                 PROVE  <<k, row'[k].trigger>> \in sent'
      BY DEF RowsSent
    <2>1. CASE k \in Holds(m)
      BY <1>2, <2>1
    <2>2. CASE k \notin Holds(m)
      BY <1>1, <2>2, CommitEffect DEF IInv, RowsSent, Commit
    <2> QED
      BY <2>1, <2>2
  <1>6. LastAnnounced'
    <2> SUFFICES ASSUME ~crossed', NEW d \in sent'
                 PROVE  d[2] <= row'[d[1]].trigger
      BY DEF LastAnnounced
    <2>1. ~crossed /\ ~run[m].overtaken /\ HasRead(m)
      BY DEF Commit, HasRead
    <2>2. CASE d \in sent /\ d[1] \in Holds(m)
      <3>1. d[1] \in RowKey /\ d[2] \in Nat /\ d[2] <= v
        BY <1>1, <2>1, <2>2, SentType DEF IInv, UpToDate, Current
      <3>2. d[1][2] = "new_listing" => d[2] = 0
        BY <2>2 DEF IInv, SoundSent
      <3>3. row'[d[1]].trigger = Trigger(d[1], v)
        BY <1>2, <2>2
      <3> QED
        BY <3>1, <3>2, <3>3 DEF Trigger
    <2>3. CASE d \in sent /\ d[1] \notin Holds(m)
      <3>1. d[1] \in RowKey /\ d[2] <= row[d[1]].trigger
        BY <1>1, <2>1, <2>3, SentType DEF IInv, LastAnnounced
      <3>2. row'[d[1]] = row[d[1]]
        BY <1>1, <2>3, <3>1, CommitEffect
      <3> QED
        BY <3>1, <3>2
    <2>4. ASSUME NEW k \in Holds(m), d = <<k, Trigger(k, v)>>
          PROVE  d[2] <= row'[d[1]].trigger
      <3>1. Trigger(k, v) \in Nat
        BY <1>1 DEF Trigger
      <3> QED
        BY <1>2, <2>4, <3>1
    <2> QED
      BY <1>1, <2>2, <2>3, <2>4, CommitEffect
  <1>7. ASSUME NEW x \in Worker
        PROVE  SoundRun(x)' /\ Current(x)'
    <2>0. run[x] \in Run /\ run \in [Worker -> Run] /\ SoundRun(x)
      BY DEF IInv, TypeOK, SoundRuns
    <2>1. CASE x = m
      <3>1. run'[x] = At("idle")
        BY <2>1 DEF Commit
      <3>2. /\ run'[x].step = "idle" /\ run'[x].version = 0
            /\ run'[x].events = {} /\ run'[x].wrote = {}
        BY <3>1 DEF At
      <3>3. Len(price') \in Nat
        BY <1>1 DEF TypeOK
      <3> QED
        BY <3>2, <3>3 DEF SoundRun, Current, HasRead
    <2>2. CASE x # m
      <3>1. /\ run'[x].step = run[x].step /\ run'[x].version = run[x].version
            /\ run'[x].events = run[x].events /\ run'[x].wrote = run[x].wrote
            /\ HasRead(x) => run'[x].overtaken = TRUE
        BY <2>0, <2>2 DEF Commit, Run
      <3>2. SoundRun(x)'
        BY <1>1, <2>0, <3>1 DEF SoundRun, Sound
      <3> QED
        BY <3>1, <3>2 DEF Current, HasRead
    <2> QED
      BY <2>1, <2>2
  <1> QED
    BY <1>4, <1>5, <1>6, <1>7

\* The steps that announce nothing, all but Commit, keep the rows and deliveries.
LEMMA OtherSteps ==
  ASSUME TypeOK, Next, \A m \in Worker : ~Commit(m)
  PROVE  /\ UNCHANGED <<sent, crossed>>
         /\ \A k \in RowKey : /\ row'[k] = NULL <=> row[k] = NULL
                              /\ row[k] # NULL => row'[k].trigger = row[k].trigger
  <1>1. CASE UNCHANGED <<row, sent, crossed>>
    BY <1>1
  <1>2. ASSUME NEW k \in RowKey, NEW s \in {"seen", "dismissed"}, SetState(k, s)
        PROVE  /\ UNCHANGED <<sent, crossed>>
               /\ \A j \in RowKey : /\ row'[j] = NULL <=> row[j] = NULL
                                    /\ row[j] # NULL => row'[j].trigger = row[j].trigger
    <2>1. row[k] \in Row /\ row \in [RowKey -> Row \cup {NULL}]
      BY <1>2 DEF SetState, TypeOK
    <2>2. [row[k] EXCEPT !.state = s] \in Row /\ [row[k] EXCEPT !.state = s].trigger = row[k].trigger
      BY <2>1 DEF Row
    <2>3. row' = [row EXCEPT ![k] = [row[k] EXCEPT !.state = s]]
      BY <1>2 DEF SetState
    <2>4. UNCHANGED <<sent, crossed>>
      BY <1>2 DEF SetState
    <2> QED
      BY <2>1, <2>2, <2>3, <2>4, NoRow
  <1> QED
    BY <1>1, <1>2 DEF Next, Search, Visit, MarkStale, ReadPrices, ReadCandidates, Choose, Write,
       Queue, Deadlock, Break, MarkSeen, Dismiss, Switch, Alone, Unseen

\* A step of one worker is none of another.
LEMMA StepOfOne ==
  ASSUME TypeOK, Next, \A m \in Worker : ~Commit(m), NEW x \in Worker
  PROVE  \/ run'[x] = run[x]
         \/ \E s \in {"idle", "again", "begin"} : run'[x] = At(s)
         \/ ReadPrices(x) \/ ReadCandidates(x) \/ Write(x) \/ Queue(x)
         \/ \E w \in Watchlist : Choose(x, w)
  <1>1. run \in [Worker -> Run]
    BY DEF TypeOK
  <1>2. CASE UNCHANGED run
    BY <1>2
  <1>3. ASSUME NEW m \in Worker, NEW s \in {"idle", "again", "begin"}, Becomes(m, At(s))
        PROVE  run'[x] = run[x] \/ run'[x] = At(s)
    BY <1>1, <1>3 DEF Becomes
  <1>4. ASSUME NEW m \in Worker, m # x,
               \/ ReadPrices(m) \/ ReadCandidates(m) \/ Write(m) \/ Queue(m)
               \/ \E w \in Watchlist : Choose(m, w)
        PROVE  run'[x] = run[x]
    BY <1>1, <1>4 DEF ReadPrices, ReadCandidates, Write, Queue, Choose, Becomes
  <1>5. ASSUME NEW m \in Worker,
               \/ Deadlock(m) \/ Break(m)
               \/ \E p \in Price, o \in BOOLEAN : Visit(m, p, o)
        PROVE  \E s \in {"idle", "again", "begin"} : Becomes(m, At(s))
    BY <1>5 DEF Deadlock, Break, Visit, Failed
  <1> QED
    BY <1>2, <1>3, <1>4, <1>5 DEF Next, Search, MarkStale, MarkSeen, Dismiss, SetState, Switch

LEMMA Invariance ==
  ASSUME IInv, [Next]_vars
  PROVE  IInv'
  <1>1. TypeOK'
    BY NextType DEF IInv
  <1>2. CASE UNCHANGED vars
    BY <1>2 DEF vars, IInv, TypeOK, SoundRuns, SoundRun, SoundSent, Sound, RowsSent, UpToDate,
       Current, HasRead, LastAnnounced
  <1>3. ASSUME NEW m \in Worker, Commit(m)
        PROVE  IInv'
    BY <1>1, <1>3, CommitAnnounces DEF IInv, SoundRuns, UpToDate
  <1>4. CASE Next /\ \A m \in Worker : ~Commit(m)
    <2>1. Grows
      BY <1>4, GrowsStep DEF IInv
    <2>2. UNCHANGED <<sent, crossed>> /\ SoundSent' /\ RowsSent' /\ LastAnnounced'
      BY <1>4, <2>1, OtherSteps, NothingAnnounced DEF IInv
    <2>3. ASSUME NEW x \in Worker
          PROVE  SoundRun(x)' /\ Current(x)'
      <3>1. CASE run'[x] = run[x] \/ \E s \in {"idle", "again", "begin"} : run'[x] = At(s)
        BY <2>1, <2>2, <3>1, RunKept
      <3>2. CASE ReadPrices(x)
        BY <3>2, ReadPricesRun
      <3>3. CASE ReadCandidates(x) \/ Write(x) \/ Queue(x) \/ \E w \in Watchlist : Choose(x, w)
        BY <3>3, MatchStepRun
      <3> QED
        BY <1>4, <3>1, <3>2, <3>3, StepOfOne DEF IInv
    <2> QED
      BY <1>1, <2>2, <2>3 DEF IInv, SoundRuns, UpToDate
  <1> QED
    BY <1>2, <1>3, <1>4

LEMMA InitIInv == Init => IInv
  <1> SUFFICES ASSUME Init
               PROVE  IInv
    OBVIOUS
  <1>1. TypeOK
    BY InitType
  <1>2. SoundSent /\ RowsSent /\ LastAnnounced
    BY DEF Init, SoundSent, RowsSent, LastAnnounced
  <1>3. ASSUME NEW m \in Worker
        PROVE  SoundRun(m) /\ Current(m)
    <2>1. run[m] = At("idle") /\ Len(price) = 0
      BY DEF Init
    <2>2. /\ run[m].step = "idle" /\ run[m].version = 0
          /\ run[m].events = {} /\ run[m].wrote = {}
      BY <2>1 DEF At
    <2> QED
      BY <2>1, <2>2 DEF SoundRun, Current, HasRead
  <1> QED
    BY <1>1, <1>2, <1>3 DEF IInv, SoundRuns, UpToDate

LEMMA Inductive == Spec => []IInv
  <1>1. IInv /\ [Next]_vars => IInv'
    BY Invariance
  <1> QED
    BY InitIInv, <1>1, PTL DEF Spec

-----------------------------------------------------------------------------
(* The theorems.                                                           *)

\* Every price drop and every return into range that is announced is two consecutive
\* observations, and every inbox row is about a delivery (matchListing reads the prices
\* once, and they are only appended to).
THEOREM Announced == Spec => []AnnouncedWasSeen
  <1>1. IInv => AnnouncedWasSeen
    BY DEF IInv, SoundSent, Sound, RowsSent, AnnouncedWasSeen
  <1> QED
    BY Inductive, <1>1, PTL

\* Where no matching has overtaken another, a dismissed row becomes unseen only for an
\* observation later than any that was announced to its watchlist.
THEOREM News == Spec => ComesBackWithNews
  <1> DEFINE Back == \A k \in RowKey :
        row[k] # NULL /\ row[k].state = "dismissed" /\ row'[k].state = "unseen" /\ ~crossed'
            => \A d \in sent : d[1] = k => d[2] < row'[k].trigger
  <1>1. ASSUME IInv, Next
        PROVE  Back
    <2> SUFFICES ASSUME NEW k \in RowKey, row[k] # NULL, row[k].state = "dismissed",
                        row'[k].state = "unseen", ~crossed',
                        NEW d \in sent, d[1] = k
                 PROVE  d[2] < row'[k].trigger
      OBVIOUS
    <2>1. PICK m \in Worker : Commit(m)
      <3>1. CASE UNCHANGED row
        BY <3>1
      <3>2. ASSUME NEW j \in RowKey, NEW s \in {"seen", "dismissed"}, SetState(j, s)
            PROVE  FALSE
        <4>1. row[k] \in Row /\ row \in [RowKey -> Row \cup {NULL}]
          BY <1>1 DEF IInv, TypeOK
        <4> QED
          BY <3>2, <4>1 DEF SetState, Row
      <3> QED
        BY <1>1, <3>1, <3>2 DEF Next, Search, Visit, MarkStale, ReadPrices, ReadCandidates, Choose,
           Write, Queue, Deadlock, Break, MarkSeen, Dismiss, Switch, Alone, Unseen
    <2> DEFINE v == run[m].version
    <2>2. TypeOK /\ v \in Nat /\ d[2] \in Nat /\ d = <<k, d[2]>>
      BY <1>1, SentType, MatchingConstants DEF IInv, TypeOK, Run
    <2>3. k \in Holds(m)
      BY <2>1, <2>2, CommitEffect
    <2>4. row'[k] = Matched(k, Trigger(k, v)) /\ row'[k].trigger = Trigger(k, v)
      BY <2>1, <2>2, <2>3, CommitEffect, TriggerType
    <2>5. row[k].trigger # Trigger(k, v)
      BY <2>4 DEF Matched
    <2>6. <<k, row[k].trigger>> \in sent /\ row[k].trigger \in Nat
      BY <1>1, MatchingConstants DEF IInv, TypeOK, RowsSent, Row
    <2>7. k[2] # "new_listing"
      <3>1. k[2] = "new_listing" => row[k].trigger = 0
        BY <1>1, <2>6 DEF IInv, SoundSent
      <3> QED
        BY <2>5, <3>1 DEF Trigger
    <2>8. ~crossed /\ ~run[m].overtaken /\ HasRead(m)
      BY <2>1 DEF Commit, HasRead
    <2>9. d[2] <= v /\ row[k].trigger <= v
      BY <1>1, <2>6, <2>8 DEF IInv, UpToDate, Current
    <2>10. d[2] <= row[k].trigger
      BY <1>1, <2>8 DEF IInv, LastAnnounced
    <2>11. Trigger(k, v) = v
      BY <2>7 DEF Trigger
    <2> HIDE DEF v
    <2> QED
      BY <2>2, <2>4, <2>5, <2>6, <2>9, <2>10, <2>11
  <1>2. IInv /\ [Next]_vars => [Back]_vars
    BY <1>1
  <1> QED
    BY Inductive, <1>2, PTL DEF Spec, ComesBackWithNews

-----------------------------------------------------------------------------
(* Row locks, and who waits for them.                                      *)

\* Only a matching that is writing holds rows, and no two hold the same one.
LocksExclusive ==
    /\ \A m \in Worker : Holds(m) # {} => run[m].step \in {"choose", "write", "wait"}
    /\ \A m, x \in Worker : m # x => Holds(m) \cap Holds(x) = {}

LEMMA NextLocksExclusive == TypeOK /\ LocksExclusive /\ [Next]_vars => LocksExclusive'
  <1> SUFFICES ASSUME TypeOK, LocksExclusive, [Next]_vars
               PROVE  LocksExclusive'
    OBVIOUS
  <1>0. run \in [Worker -> Run]
    BY DEF TypeOK
  <1>1. CASE UNCHANGED vars
    BY <1>1 DEF vars, LocksExclusive, Holds
  <1>2. ASSUME \A x \in Worker : \/ run'[x].wrote = {}
                                 \/ /\ run'[x].wrote = run[x].wrote
                                    /\ \/ run'[x].step = run[x].step
                                       \/ run'[x].step \in {"choose", "write", "wait"}
        PROVE  LocksExclusive'
    BY <1>2 DEF LocksExclusive, Holds
  <1>3. ASSUME NEW m \in Worker, Commit(m)
        PROVE  LocksExclusive'
    <2>1. ASSUME NEW x \in Worker
          PROVE  \/ run'[x].wrote = {}
                 \/ run'[x].wrote = run[x].wrote /\ run'[x].step = run[x].step
      BY <1>0, <1>3, <2>1 DEF Commit, At, Run
    <2> QED
      BY <1>2, <2>1
  <1>4. ASSUME NEW m \in Worker, Write(m)
        PROVE  LocksExclusive'
    <2>1. /\ run'[m].wrote = run[m].wrote \cup run[m].events /\ run'[m].step = "choose"
          /\ \A x \in Worker \ {m} : run'[x] = run[x]
      BY <1>0, <1>4 DEF Write, Run
    <2>2. \A x \in Worker \ {m} : run[m].events \cap run[x].wrote = {}
      BY <1>4 DEF Write, Waits, Holds
    <2> QED
      BY <2>1, <2>2 DEF LocksExclusive, Holds
  <1>5. CASE Next /\ \A m \in Worker : ~Commit(m) /\ ~Write(m)
    <2>1. ASSUME NEW x \in Worker
          PROVE  \/ run'[x].wrote = {}
                 \/ /\ run'[x].wrote = run[x].wrote
                    /\ \/ run'[x].step = run[x].step
                       \/ run'[x].step \in {"choose", "write", "wait"}
      <3>1. CASE run'[x] = run[x] \/ \E s \in {"idle", "again", "begin"} : run'[x] = At(s)
        BY <3>1 DEF At
      <3>2. CASE ReadPrices(x)
        BY <1>0, <3>2 DEF ReadPrices, Becomes, At
      <3>3. CASE ReadCandidates(x) \/ Queue(x)
        BY <1>0, <3>3 DEF ReadCandidates, Queue, Run
      <3>4. ASSUME NEW w \in Watchlist, Choose(x, w)
            PROVE  run'[x].wrote = run[x].wrote /\ run'[x].step \in {"choose", "write"}
        BY <1>0, <3>4 DEF Choose, Run
      <3> QED
        BY <1>5, <3>1, <3>2, <3>3, <3>4, StepOfOne
    <2> QED
      BY <1>2, <2>1
  <1> QED
    BY <1>1, <1>3, <1>4, <1>5

\* A row that one matching has written is written by no other before it ends.
THEOREM RowsLocked == Spec => []LocksExclusive
  <1>1. Init => LocksExclusive
    <2> SUFFICES ASSUME Init
                 PROVE  LocksExclusive
      OBVIOUS
    <2>1. \A m \in Worker : Holds(m) = {}
      BY DEF Init, At, Holds
    <2> QED
      BY <2>1 DEF LocksExclusive
  <1> QED
    BY <1>1, NextLocksExclusive, TypeCorrect, PTL DEF Spec

\* Of two matchings that wait, one came before the other.
QueueOrder ==
    /\ \A x, y \in Worker : <<x, y>> \in ahead => Queued(x) /\ Queued(y) /\ <<y, x>> \notin ahead
    /\ \A x, y \in Worker : Queued(x) /\ Queued(y) /\ x # y => <<x, y>> \in ahead \/ <<y, x>> \in ahead
    /\ \A x, y, z \in Worker : <<x, y>> \in ahead /\ <<y, z>> \in ahead => <<x, z>> \in ahead

\* What a step does to the queues.
LEMMA QueueChange ==
  ASSUME TypeOK, [Next]_vars
  PROVE  \/ ahead' = ahead /\ \A x \in Worker : Queued(x)' <=> Queued(x)
         \/ \E m \in Worker : /\ Leaves(m) /\ ~Queued(m)'
                             /\ \A x \in Worker \ {m} : Queued(x)' <=> Queued(x)
         \/ \E m \in Worker : /\ ahead' = ahead \cup {<<x, m>> : x \in {y \in Worker : Queued(y)}}
                             /\ ~Queued(m) /\ Queued(m)'
                             /\ \A x \in Worker \ {m} : Queued(x)' <=> Queued(x)
  <1>0. run \in [Worker -> Run]
    BY DEF TypeOK
  <1>1. CASE UNCHANGED <<run, ahead>>
    BY <1>1 DEF Queued
  <1>2. ASSUME NEW m \in Worker, Write(m)
        PROVE  Leaves(m) /\ ~Queued(m)' /\ \A x \in Worker \ {m} : Queued(x)' <=> Queued(x)
    BY <1>0, <1>2 DEF Write, Queued, Run
  <1>3. ASSUME NEW m \in Worker, Deadlock(m) \/ Break(m)
        PROVE  Leaves(m) /\ ~Queued(m)' /\ \A x \in Worker \ {m} : Queued(x)' <=> Queued(x)
    BY <1>0, <1>3 DEF Deadlock, Break, Failed, Becomes, Queued, At
  <1>4. ASSUME NEW m \in Worker, Queue(m)
        PROVE  /\ ahead' = ahead \cup {<<x, m>> : x \in {y \in Worker : Queued(y)}}
               /\ ~Queued(m) /\ Queued(m)'
               /\ \A x \in Worker \ {m} : Queued(x)' <=> Queued(x)
    BY <1>0, <1>4 DEF Queue, Queued, Run
  <1>5. ASSUME NEW m \in Worker,
               \/ ReadPrices(m) \/ ReadCandidates(m) \/ Commit(m)
               \/ \E w \in Watchlist : Choose(m, w)
               \/ \E p \in Price, o \in BOOLEAN : Visit(m, p, o)
        PROVE  ahead' = ahead /\ \A x \in Worker : Queued(x)' <=> Queued(x)
    <2>1. CASE ReadPrices(m) \/ \E p \in Price, o \in BOOLEAN : Visit(m, p, o)
      BY <1>0, <2>1 DEF ReadPrices, Visit, Alone, Becomes, Queued, At
    <2>2. CASE ReadCandidates(m)
      BY <1>0, <2>2 DEF ReadCandidates, Alone, Queued, Run
    <2>3. ASSUME NEW w \in Watchlist, Choose(m, w)
          PROVE  ahead' = ahead /\ \A x \in Worker : Queued(x)' <=> Queued(x)
      <3>1. /\ run[m].step = "choose" /\ run'[m].step \in {"choose", "write"}
            /\ \A x \in Worker \ {m} : run'[x] = run[x]
        BY <1>0, <2>3 DEF Choose, Run
      <3> QED
        BY <2>3, <3>1 DEF Choose, Alone, Queued
    <2>4. CASE Commit(m)
      <3>1. /\ run[m].step = "choose" /\ run'[m].step = "idle"
            /\ \A x \in Worker \ {m} : run'[x].step = run[x].step
        BY <1>0, <2>4 DEF Commit, At, Run
      <3> QED
        BY <2>4, <3>1 DEF Commit, Queued
    <2> QED
      BY <1>5, <2>1, <2>2, <2>3, <2>4
  <1>6. CASE \/ \E p \in Price, o \in BOOLEAN : Search(p, o)
             \/ MarkStale \/ \E k \in RowKey : MarkSeen(k) \/ Dismiss(k)
             \/ \E w \in Watchlist : Switch(w)
    BY <1>1, <1>6 DEF Search, MarkStale, MarkSeen, Dismiss, SetState, Switch
  <1>7. CASE UNCHANGED vars
    BY <1>1, <1>7 DEF vars
  <1> QED
    BY <1>2, <1>3, <1>4, <1>5, <1>6, <1>7 DEF Next

LEMMA NextQueueOrder == TypeOK /\ QueueOrder /\ [Next]_vars => QueueOrder'
  <1> SUFFICES ASSUME TypeOK, QueueOrder, [Next]_vars
               PROVE  QueueOrder'
    OBVIOUS
  <1>1. CASE ahead' = ahead /\ \A x \in Worker : Queued(x)' <=> Queued(x)
    BY <1>1 DEF QueueOrder
  <1>2. ASSUME NEW m \in Worker, Leaves(m), ~Queued(m)',
               \A x \in Worker \ {m} : Queued(x)' <=> Queued(x)
        PROVE  QueueOrder'
    <2>1. \A x, y \in Worker : <<x, y>> \in ahead' <=> <<x, y>> \in ahead /\ x # m /\ y # m
      BY <1>2 DEF Leaves
    <2> QED
      BY <1>2, <2>1 DEF QueueOrder
  <1>3. ASSUME NEW m \in Worker, ~Queued(m), Queued(m)',
               ahead' = ahead \cup {<<x, m>> : x \in {y \in Worker : Queued(y)}},
               \A x \in Worker \ {m} : Queued(x)' <=> Queued(x)
        PROVE  QueueOrder'
    <2>1. \A x, y \in Worker : <<x, y>> \in ahead' <=> <<x, y>> \in ahead \/ (y = m /\ Queued(x))
      BY <1>3
    <2> QED
      BY <1>3, <2>1 DEF QueueOrder
  <1> QED
    BY <1>1, <1>2, <1>3, QueueChange

\* The matchings that wait for rows are served in the order they came, which is one.
THEOREM QueuesOrdered == Spec => []QueueOrder
  <1>1. Init => QueueOrder
    BY DEF Init, QueueOrder, Queued, At
  <1> QED
    BY <1>1, NextQueueOrder, TypeCorrect, PTL DEF Spec

\* Two transactions that wait for each other: one has rows that the other wants.
\* Standing in line alone makes no deadlock.
DeadlockHasCause ==
    \A m, x \in Worker :
        Queued(m) /\ Queued(x) /\ m \in Waits(x) /\ x \in Waits(m)
            => run[m].events \cap Holds(x) # {} \/ run[x].events \cap Holds(m) # {}

\* A deadlock of two is one of locks, never of the order in the queue.
THEOREM DeadlocksCaused == Spec => []DeadlockHasCause
  <1>1. QueueOrder => DeadlockHasCause
    BY DEF QueueOrder, DeadlockHasCause, Waits
  <1> QED
    BY <1>1, QueuesOrdered, PTL

\* m can go on: the guards of its steps.  A transaction that waits can go on when the
\* rows are free and its turn has come, or when PostgreSQL finds it in a deadlock.
GoesOn(m) ==
    \/ run[m].step \in {"begin", "prices", "choose", "write"}
    \/ Queued(m) /\ Waits(m) = {}
    \/ \E s \in SUBSET {x \in Worker : Queued(x)} : m \in s /\ \A x \in s : Waits(x) \cap s # {}

NoStandstill == (\E m \in Worker : InMatch(m)) => \E m \in Worker : GoesOn(m)

\* While matchings are under way one of them can go on: where all wait, they wait for
\* each other's rows and turns, and PostgreSQL finds the deadlock.
THEOREM SomeoneGoesOn == Spec => []NoStandstill
  <1>1. TypeOK /\ LocksExclusive => NoStandstill
    <2> SUFFICES ASSUME TypeOK, LocksExclusive, NEW m \in Worker, InMatch(m),
                        \A x \in Worker : run[x].step \notin {"begin", "prices", "choose", "write"},
                        \A x \in Worker : Queued(x) => Waits(x) # {}
                 PROVE  \E x \in Worker : GoesOn(x)
      BY DEF NoStandstill, GoesOn
    <2> DEFINE s == {x \in Worker : Queued(x)}
    <2>1. m \in s
      BY DEF InMatch, HasRead, Queued
    <2>2. ASSUME NEW x \in s
          PROVE  Waits(x) \subseteq s
      BY DEF Waits, LocksExclusive, Queued
    <2>3. \A x \in s : Waits(x) \cap s # {}
      BY <2>2
    <2> QED
      BY <2>1, <2>3 DEF GoesOn
  <1> QED
    BY <1>1, RowsLocked, TypeCorrect, PTL

-----------------------------------------------------------------------------
(* A stored drop on its way to the watchlist.                              *)

\* The latest observation is a drop that w wants to hear of.
DueDrop(w, v) == Latest = v /\ Fell(v) /\ Wants(w)

\* m will announce it, if it comes to its commit: it has yet to read, has w among its
\* candidates, or is about to write or has written the row.
Carries(m, w, v) ==
    \/ run[m].step \in {"begin", "again"}
    \/ /\ HasRead(m) /\ run[m].version = v
       /\ \/ run[m].step = "prices"
          \/ w \in run[m].todo
          \/ <<w, "price_drop">> \in run[m].events \cup Holds(m)

\* The safety half of DropAnnounced: while a drop is due, no crash, rollback, deadlock, wait
\* for a row or act of a user takes it from the worker that carries it, until it is sent.
NoDropLost ==
    [][\A w \in Watchlist, v \in 1..MaxVersions, m \in Worker :
         DueDrop(w, v) /\ Carries(m, w, v)
            => <<<<w, "price_drop">>, v>> \in sent' \/ ~DueDrop(w, v)' \/ Carries(m, w, v)']_vars

\* Between two candidates nothing is about to be written.
NothingChosen == \A m \in Worker : run[m].step \in {"prices", "choose"} => run[m].events = {}

LEMMA NextNothingChosen == TypeOK /\ NothingChosen /\ [Next]_vars => NothingChosen'
  <1> SUFFICES ASSUME TypeOK, NothingChosen, [Next]_vars
               PROVE  NothingChosen'
    OBVIOUS
  <1>0. run \in [Worker -> Run]
    BY DEF TypeOK
  <1>1. CASE run' = run
    BY <1>1 DEF NothingChosen
  <1>2. ASSUME NEW m \in Worker, NEW r, Becomes(m, r), r.step \in {"prices", "choose"} => r.events = {}
        PROVE  NothingChosen'
    BY <1>0, <1>2 DEF NothingChosen, Becomes
  <1>3. ASSUME NEW m \in Worker, ReadPrices(m) \/ Deadlock(m) \/ Break(m)
                                 \/ \E p \in Price, o \in BOOLEAN : Visit(m, p, o)
        PROVE  NothingChosen'
    <2>1. \A step : At(step).step = step /\ At(step).events = {}
      BY DEF At
    <2>2. [At("prices") EXCEPT !.version = Latest].events = {}
      BY DEF At
    <2> QED
      BY <1>2, <1>3, <2>1, <2>2 DEF ReadPrices, Deadlock, Break, Failed, Visit
  <1>4. ASSUME NEW m \in Worker, ReadCandidates(m)
        PROVE  NothingChosen'
    BY <1>0, <1>4 DEF ReadCandidates, NothingChosen, Run
  <1>5. ASSUME NEW m \in Worker, NEW w \in Watchlist, Choose(m, w)
        PROVE  NothingChosen'
    <2>1. /\ run'[m].events = EventsOf(w, run[m].version)
          /\ run'[m].step = IF run'[m].events = {} THEN "choose" ELSE "write"
          /\ \A x \in Worker \ {m} : run'[x] = run[x]
      BY <1>0, <1>5 DEF Choose, Run
    <2> QED
      BY <2>1 DEF NothingChosen
  <1>6. ASSUME NEW m \in Worker, Write(m) \/ Queue(m)
        PROVE  NothingChosen'
    <2>1. CASE Write(m)
      BY <1>0, <2>1 DEF Write, NothingChosen, Run
    <2>2. CASE Queue(m)
      BY <1>0, <2>2 DEF Queue, NothingChosen, Run
    <2> QED
      BY <1>6, <2>1, <2>2
  <1>7. ASSUME NEW m \in Worker, Commit(m)
        PROVE  NothingChosen'
    <2>1. /\ run'[m] = At("idle")
          /\ \A x \in Worker \ {m} : run'[x].step = run[x].step /\ run'[x].events = run[x].events
      BY <1>0, <1>7 DEF Commit, Run
    <2>2. At("idle").step = "idle"
      BY DEF At
    <2> QED
      BY <2>1, <2>2 DEF NothingChosen
  <1>8. CASE \/ \E p \in Price, o \in BOOLEAN : Search(p, o)
             \/ MarkStale \/ \E k \in RowKey : MarkSeen(k) \/ Dismiss(k)
             \/ \E w \in Watchlist : Switch(w)
    BY <1>1, <1>8 DEF Search, MarkStale, MarkSeen, Dismiss, SetState, Switch
  <1>9. CASE UNCHANGED vars
    BY <1>1, <1>9 DEF vars
  <1> QED
    BY <1>3, <1>4, <1>5, <1>6, <1>7, <1>8, <1>9 DEF Next

\* What m holds of the drop stays with it while the fields of its run stay.
LEMMA CarriedOn ==
  ASSUME NEW m \in Worker, NEW w \in Watchlist, NEW v \in Nat, Carries(m, w, v),
         run'[m].step = run[m].step, run'[m].version = run[m].version,
         run'[m].todo = run[m].todo, run'[m].events = run[m].events, run'[m].wrote = run[m].wrote
  PROVE  Carries(m, w, v)'
  BY DEF Carries, HasRead, Holds

LEMMA CarriesStep ==
  ASSUME TypeOK, NothingChosen, [Next]_vars,
         NEW m \in Worker, NEW w \in Watchlist, NEW v \in 1..MaxVersions,
         DueDrop(w, v), DueDrop(w, v)', Carries(m, w, v)
  PROVE  <<<<w, "price_drop">>, v>> \in sent' \/ Carries(m, w, v)'
  <1> DEFINE k == <<w, "price_drop">>
  <1>0. run \in [Worker -> Run] /\ run[m] \in Run /\ v \in Nat /\ k \in {w} \X Event /\ k[2] = "price_drop"
    BY MatchingConstants DEF TypeOK, Event
  <1>1. CASE run'[m] = run[m]
    BY <1>0, <1>1, CarriedOn
  <1>2. ASSUME NEW x \in Worker, x # m,
               \/ ReadPrices(x) \/ ReadCandidates(x) \/ Write(x) \/ Queue(x)
               \/ Deadlock(x) \/ Break(x)
               \/ \E u \in Watchlist : Choose(x, u)
               \/ \E p \in Price, o \in BOOLEAN : Visit(x, p, o)
        PROVE  run'[m] = run[m]
    BY <1>0, <1>2 DEF ReadPrices, ReadCandidates, Write, Queue, Deadlock, Break, Choose, Visit, Becomes
  <1>3. CASE Deadlock(m) \/ Break(m) \/ \E p \in Price, o \in BOOLEAN : Visit(m, p, o)
    BY <1>0, <1>3 DEF Deadlock, Break, Visit, Becomes, Failed, At, Carries
  <1>4. CASE ReadPrices(m)
    <2>1. run'[m] = [At("prices") EXCEPT !.version = v]
      BY <1>0, <1>4 DEF ReadPrices, Becomes, DueDrop
    <2>2. run'[m].step = "prices" /\ run'[m].version = v
      BY <2>1 DEF At
    <2> QED
      BY <2>2 DEF Carries, HasRead
  <1>5. CASE ReadCandidates(m)
    <2>1. /\ run[m].step = "prices" /\ run'[m].step = "choose" /\ run'[m].version = run[m].version
          /\ run'[m].todo = {u \in Watchlist : Wants(u)}
      BY <1>0, <1>5 DEF ReadCandidates, Run
    <2>2. w \in run'[m].todo /\ run[m].version = v
      BY <2>1 DEF DueDrop, Carries
    <2> QED
      BY <2>1, <2>2 DEF Carries, HasRead
  <1>6. ASSUME NEW u \in Watchlist, Choose(m, u)
        PROVE  Carries(m, w, v)'
    <2>1. /\ run[m].step = "choose" /\ run[m].events = {} /\ run[m].version = v
          /\ w \in run[m].todo \/ k \in Holds(m)
      BY <1>6 DEF Choose, NothingChosen, Carries
    <2>2. /\ run'[m].step \in {"choose", "write"} /\ run'[m].version = v
          /\ run'[m].todo = run[m].todo \ {u} /\ run'[m].events = EventsOf(u, v)
          /\ run'[m].wrote = run[m].wrote
      BY <1>0, <1>6, <2>1 DEF Choose, Run
    <2>3. k \in EventsOf(w, v)
      BY <1>0 DEF EventsOf, DueDrop
    <2>4. \/ w \in run'[m].todo \/ k \in run'[m].events \/ k \in run'[m].wrote
      BY <2>1, <2>2, <2>3 DEF Holds
    <2> QED
      BY <2>2, <2>4 DEF Carries, HasRead, Holds
  <1>7. CASE Write(m)
    <2>1. /\ run[m].step \in {"write", "wait"} /\ run'[m].step = "choose"
          /\ run'[m].version = run[m].version /\ run'[m].todo = run[m].todo
          /\ run'[m].wrote = run[m].wrote \cup run[m].events
      BY <1>0, <1>7 DEF Write, Run
    <2> QED
      BY <2>1 DEF Carries, HasRead, Holds
  <1>8. CASE Queue(m)
    <2>1. /\ run[m].step = "write" /\ run'[m].step = "wait"
          /\ run'[m].version = run[m].version /\ run'[m].todo = run[m].todo
          /\ run'[m].wrote = run[m].wrote /\ run'[m].events = run[m].events
      BY <1>0, <1>8 DEF Queue, Run
    <2> QED
      BY <2>1 DEF Carries, HasRead, Holds
  <1>9. CASE Commit(m)
    <2>1. run[m].step = "choose" /\ run[m].todo = {} /\ run[m].events = {}
      BY <1>9 DEF Commit, NothingChosen
    <2>2. run[m].version = v /\ k \in Holds(m)
      BY <2>1 DEF Carries
    <2>3. Trigger(k, v) = v
      BY <1>0 DEF Trigger
    <2>4. <<k, Trigger(k, v)>> \in Deliveries(m)
      BY <2>2 DEF Deliveries
    <2> QED
      BY <1>9, <2>3, <2>4 DEF Commit
  <1>10. ASSUME NEW x \in Worker, x # m, Commit(x)
         PROVE  Carries(m, w, v)'
    <2>1. run'[m] = run[m] \/ run'[m] = [run[m] EXCEPT !.overtaken = TRUE]
      BY <1>10 DEF Commit
    <2>2. /\ run'[m].step = run[m].step /\ run'[m].version = run[m].version
          /\ run'[m].todo = run[m].todo /\ run'[m].events = run[m].events
          /\ run'[m].wrote = run[m].wrote
      BY <1>0, <2>1 DEF Run
    <2> QED
      BY <1>0, <2>2, CarriedOn
  <1>11. CASE \/ \E p \in Price, o \in BOOLEAN : Search(p, o)
              \/ MarkStale \/ \E r \in RowKey : MarkSeen(r) \/ Dismiss(r)
              \/ \E u \in Watchlist : Switch(u)
    BY <1>1, <1>11 DEF Search, MarkStale, MarkSeen, Dismiss, SetState, Switch
  <1>12. CASE UNCHANGED vars
    BY <1>1, <1>12 DEF vars
  <1> QED
    BY <1>1, <1>2, <1>3, <1>4, <1>5, <1>6, <1>7, <1>8, <1>9, <1>10, <1>11, <1>12 DEF Next

\* The worker that is to announce a drop keeps it through every failure and wait, until
\* its commit or until there is nothing to announce.  With SomeoneGoesOn, what is left to
\* fairness is that workers go on.
THEOREM DropsCarried == Spec => NoDropLost
  <1>1. Init => NothingChosen
    BY DEF Init, NothingChosen, At
  <1>2. TypeOK /\ NothingChosen /\ [Next]_vars
          => [\A w \in Watchlist, v \in 1..MaxVersions, m \in Worker :
                DueDrop(w, v) /\ Carries(m, w, v)
                   => <<<<w, "price_drop">>, v>> \in sent' \/ ~DueDrop(w, v)' \/ Carries(m, w, v)']_vars
    BY CarriesStep
  <1> QED
    BY <1>1, <1>2, NextNothingChosen, TypeCorrect, PTL DEF Spec, NoDropLost
=============================================================================
