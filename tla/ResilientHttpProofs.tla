------------------------ MODULE ResilientHttpProofs ------------------------
(***************************************************************************)
(* Proofs about ResilientHttp, for any number of callers, slots, retries    *)
(* and failures tolerated.  The three parts of the client - slots, pacing   *)
(* lock, circuit breaker - each have an inductive invariant.                *)
(*                                                                          *)
(* With both queues exact (NobodyForgotten), slots are handed out in the    *)
(* order they were asked for, as SlotQueue demands, and somebody who is     *)
(* under way can always go on (NoStandstill).                               *)
(***************************************************************************)
EXTENDS ResilientHttp, FiniteSetTheorems, TLAPS

\* Those who wait for a slot are queued, each once.
QueuedOnce ==
    /\ \A i \in 1..Len(concurrencyQueue) : step[concurrencyQueue[i]] = "queued"
    /\ \A i, j \in 1..Len(concurrencyQueue) :
          concurrencyQueue[i] = concurrencyQueue[j] => i = j

SlotInv == SlotsExact /\ QueuedOnce

\* Only the holder of the pacing lock sleeps, and it wakes to an elapsed interval.
PacingInv ==
    \A c \in Call :
        /\ step[c] \in {"asleep", "woken"} => pacingQueue # <<>> /\ Head(pacingQueue) = c
        /\ step[c] = "woken" => ~recent

\* While the circuit is not closed the count stands at the threshold, so that a
\* single failed test opens it again.
OpenKeepsCount == circuit # "closed" => consecutiveFailures = FailureThreshold

BreakerInv == TestingHasTester /\ OpenKeepsCount

Parts == TypeOK /\ SlotInv /\ PacingInv /\ BreakerInv

\* A request that backs off has an attempt left.
RetriesLeft == \A c \in Call : step[c] = "backoff" => attempt[c] < MaxRetries

IInv == Parts /\ RetriesLeft

LEMMA HoldersFinite == IsFiniteSet(Holders) /\ Cardinality(Holders) \in Nat
<1>1. Holders \subseteq Call
  BY DEF Holders
<1>. QED
  BY <1>1, ConstantsOK, FS_Subset, FS_CardinalityType

LEMMA InitParts == Init => Parts
<1> SUFFICES ASSUME Init PROVE Parts
  OBVIOUS
<1>1. TypeOK
  <2>1. 0 \in 0..MaxRetries /\ 0 \in 0..MaxConcurrency /\ 0 \in 0..FailureThreshold
    BY ConstantsOK
  <2>2. <<>> \in Seq(Call)
    OBVIOUS
  <2>3. step \in [Call -> Step] /\ attempt \in [Call -> 0..MaxRetries] /\ probe \in [Call -> BOOLEAN]
    BY <2>1 DEF Init, Step
  <2>. QED
    BY <2>1, <2>2, <2>3 DEF Init, TypeOK
<1>2. Holders = {}
  BY DEF Init, Holders, HoldsSlot
<1>3. SlotInv
  BY <1>2, FS_EmptySet, ConstantsOK DEF Init, SlotInv, SlotsExact, QueuedOnce
<1>4. PacingInv /\ BreakerInv
  BY DEF Init, PacingInv, BreakerInv, TestingHasTester, OpenKeepsCount
<1>. QED
  BY <1>1, <1>3, <1>4 DEF Parts

-----------------------------------------------------------------------------
(* The slots.                                                              *)

\* The type of what the slots are made of.
SlotTypes ==
    /\ step \in [Call -> Step]
    /\ activeRequests \in 0..MaxConcurrency
    /\ concurrencyQueue \in Seq(Call) /\ pacingQueue \in Seq(Call)

\* A request that neither takes nor gives up a slot leaves them as they are.
LEMMA SlotsKept ==
  ASSUME SlotTypes, SlotInv, step' \in [Call -> Step],
         \A c \in Call : (step'[c] \in HoldsSlot <=> step[c] \in HoldsSlot)
                         /\ (step[c] = "queued" => step'[c] = "queued"),
         UNCHANGED <<activeRequests, concurrencyQueue>>
  PROVE  SlotInv'
<1>1. Holders' = Holders
  BY DEF Holders
<1>2. SlotsExact'
  BY <1>1 DEF SlotInv, SlotsExact
<1>3. \A i \in 1..Len(concurrencyQueue) : concurrencyQueue[i] \in Call
  BY DEF SlotTypes
<1>4. QueuedOnce'
  BY <1>3 DEF SlotInv, QueuedOnce
<1>. QED
  BY <1>2, <1>4 DEF SlotInv

\* acquireConcurrencySlot counts the slot it gives, or queues the request.
LEMMA AcquireKeeps ==
  ASSUME SlotTypes, SlotInv, NEW c \in Call, step[c] \notin HoldsSlot \cup {"queued"}, AcquireSlot(c)
  PROVE  SlotTypes' /\ SlotInv'
<1>1. \A i \in 1..Len(concurrencyQueue) : concurrencyQueue[i] \in Call /\ concurrencyQueue[i] # c
  BY DEF SlotTypes, SlotInv, QueuedOnce
<1>2. CASE activeRequests < MaxConcurrency
  <2>1. /\ activeRequests' = activeRequests + 1 /\ concurrencyQueue' = concurrencyQueue
        /\ pacingQueue' = Append(pacingQueue, c)
        /\ step' = [step EXCEPT ![c] = "pacing"]
    BY <1>2 DEF AcquireSlot, Goto
  <2>2. SlotTypes'
    BY <1>2, <2>1, ConstantsOK DEF SlotTypes, Step
  <2>3. Holders' = Holders \cup {c} /\ c \notin Holders
    BY <2>1 DEF Holders, HoldsSlot, SlotTypes
  <2>4. Cardinality(Holders') = activeRequests'
    BY <2>1, <2>3, HoldersFinite, FS_AddElement DEF SlotInv, SlotsExact
  <2>5. concurrencyQueue = <<>>
    BY <1>2 DEF SlotInv, SlotsExact, SlotTypes
  <2>6. SlotsExact'
    BY <1>2, <2>1, <2>2, <2>4, <2>5 DEF SlotsExact, SlotTypes
  <2>7. QueuedOnce'
    BY <2>1, <2>5 DEF QueuedOnce
  <2>. QED
    BY <2>2, <2>6, <2>7 DEF SlotInv
<1>3. CASE ~(activeRequests < MaxConcurrency)
  <2>1. /\ activeRequests' = activeRequests /\ pacingQueue' = pacingQueue
        /\ concurrencyQueue' = Append(concurrencyQueue, c)
        /\ step' = [step EXCEPT ![c] = "queued"]
    BY <1>3 DEF AcquireSlot, Goto
  <2>2. SlotTypes'
    BY <2>1 DEF SlotTypes, Step
  <2>3. Holders' = Holders
    BY <2>1 DEF Holders, HoldsSlot, SlotTypes
  <2>4. activeRequests = MaxConcurrency
    BY <1>3, ConstantsOK DEF SlotTypes
  <2>5. SlotsExact'
    BY <2>1, <2>3, <2>4 DEF SlotInv, SlotsExact
  <2>6. Len(concurrencyQueue') = Len(concurrencyQueue) + 1
        /\ \A i \in 1..Len(concurrencyQueue') : concurrencyQueue'[i] =
              IF i = Len(concurrencyQueue) + 1 THEN c ELSE concurrencyQueue[i]
    BY <2>1 DEF SlotTypes
  <2>7. QueuedOnce'
    BY <1>1, <2>1, <2>6 DEF QueuedOnce, SlotInv, SlotTypes
  <2>. QED
    BY <2>2, <2>5, <2>7 DEF SlotInv
<1>. QED
  BY <1>2, <1>3

\* releaseConcurrencySlot gives up one slot, or hands it to exactly one request.
LEMMA ReleaseKeeps ==
  ASSUME SlotTypes, SlotInv, NEW c \in Call, step[c] = "fetching",
         NEW s \in {"answered", "failed"}, ReleaseSlot(c, s)
  PROVE  SlotTypes' /\ SlotInv'
<1>1. c \in Holders /\ Cardinality(Holders) = activeRequests
  BY DEF Holders, HoldsSlot, SlotInv, SlotsExact
<1>2. Cardinality(Holders \ {c}) = activeRequests - 1
  BY <1>1, HoldersFinite, FS_RemoveElement
<1>3. IsFiniteSet(Holders \ {c})
  BY HoldersFinite, FS_Subset
<1>4. CASE concurrencyQueue # <<>>
  <2> DEFINE next == Head(concurrencyQueue)
  <2>1. /\ activeRequests' = activeRequests /\ concurrencyQueue' = Tail(concurrencyQueue)
        /\ pacingQueue' = Append(pacingQueue, next)
        /\ step' = [step EXCEPT ![c] = s, ![next] = "pacing"]
    BY <1>4 DEF ReleaseSlot
  <2>2. /\ next = concurrencyQueue[1] /\ next \in Call /\ Len(concurrencyQueue) \in Nat \ {0}
        /\ step[next] = "queued" /\ next # c
    BY <1>4 DEF SlotTypes, SlotInv, QueuedOnce
  <2>3. SlotTypes'
    <3>1. step' \in [Call -> Step] /\ activeRequests' \in 0..MaxConcurrency
      BY <2>1 DEF SlotTypes, Step
    <3>2. concurrencyQueue' \in Seq(Call)
      BY <1>4, <2>1 DEF SlotTypes
    <3>3. pacingQueue' \in Seq(Call)
      BY <2>1, <2>2 DEF SlotTypes
    <3>. QED
      BY <3>1, <3>2, <3>3 DEF SlotTypes
  <2>4. \A d \in Call : step'[d] = IF d = next THEN "pacing" ELSE IF d = c THEN s ELSE step[d]
    BY <2>1, <2>2 DEF SlotTypes
  <2>5. Holders' = (Holders \ {c}) \cup {next} /\ next \notin Holders \ {c}
    BY <2>2, <2>4 DEF Holders, HoldsSlot
  <2>6. Cardinality(Holders') = activeRequests
    <3>1. activeRequests - 1 + 1 = activeRequests
      BY DEF SlotTypes
    <3>. QED
      BY <1>2, <1>3, <2>5, <3>1, FS_AddElement
  <2>7. activeRequests = MaxConcurrency
    BY <1>4 DEF SlotInv, SlotsExact
  <2>8. SlotsExact'
    BY <2>1, <2>6, <2>7 DEF SlotInv, SlotsExact
  <2>9. QueuedOnce'
    <3>1. Len(concurrencyQueue') = Len(concurrencyQueue) - 1
          /\ \A i \in 1..Len(concurrencyQueue') : concurrencyQueue'[i] = concurrencyQueue[i + 1]
      BY <1>4, <2>1 DEF SlotTypes
    <3>2. \A i \in 1..Len(concurrencyQueue') :
             /\ i + 1 \in 1..Len(concurrencyQueue) /\ i + 1 # 1
             /\ concurrencyQueue[i + 1] \in Call
      BY <2>2, <3>1 DEF SlotTypes
    <3>3. \A i \in 1..Len(concurrencyQueue') :
             concurrencyQueue'[i] # next /\ step[concurrencyQueue'[i]] = "queued"
      BY <2>2, <3>1, <3>2 DEF SlotInv, QueuedOnce
    <3>4. \A i \in 1..Len(concurrencyQueue') : step'[concurrencyQueue'[i]] = "queued"
      BY <2>4, <3>1, <3>2, <3>3
    <3>5. \A i, j \in 1..Len(concurrencyQueue') :
             concurrencyQueue'[i] = concurrencyQueue'[j] => i = j
      BY <3>1, <3>2 DEF SlotInv, QueuedOnce
    <3>. QED
      BY <3>4, <3>5 DEF QueuedOnce
  <2>. QED
    BY <2>3, <2>8, <2>9 DEF SlotInv
<1>5. CASE concurrencyQueue = <<>>
  <2>1. /\ activeRequests' = activeRequests - 1
        /\ step' = [step EXCEPT ![c] = s] /\ UNCHANGED <<concurrencyQueue, pacingQueue>>
    BY <1>5 DEF ReleaseSlot, Goto
  <2>2. activeRequests' \in Nat /\ activeRequests' < MaxConcurrency
    <3>1. activeRequests # 0
      BY <1>1, HoldersFinite, FS_EmptySet
    <3>. QED
      BY <2>1, <3>1, ConstantsOK DEF SlotTypes
  <2>3. SlotTypes'
    BY <2>1, <2>2, ConstantsOK DEF SlotTypes, Step
  <2>4. Holders' = Holders \ {c}
    BY <2>1 DEF Holders, HoldsSlot, SlotTypes
  <2>5. SlotsExact' /\ QueuedOnce'
    BY <1>2, <1>5, <2>1, <2>2, <2>4, ConstantsOK DEF SlotsExact, QueuedOnce
  <2>. QED
    BY <2>3, <2>5 DEF SlotInv
<1>. QED
  BY <1>4, <1>5

-----------------------------------------------------------------------------
(* The pacing lock.                                                        *)

\* Requests that join the queue behind the lock holder, or do not pace, leave it.
LEMMA PacingKept ==
  ASSUME TypeOK, PacingInv, UNCHANGED recent,
         \A c \in Call : step'[c] \in {"asleep", "woken"} => step'[c] = step[c],
         pacingQueue' = pacingQueue \/ \E c \in Call : pacingQueue' = Append(pacingQueue, c)
  PROVE  PacingInv'
<1>1. pacingQueue # <<>> => pacingQueue' # <<>> /\ Head(pacingQueue') = Head(pacingQueue)
  BY DEF TypeOK
<1>. QED
  BY <1>1 DEF PacingInv

LEMMA StartFetchKeeps ==
  ASSUME TypeOK, PacingInv, NEW c \in Call, StartFetch(c), HasTurn(c)
  PROVE  PacingInv'
<1>1. \A d \in Call \ {c} : step'[d] = step[d] /\ step[d] \notin {"asleep", "woken"}
  BY DEF StartFetch, Goto, TypeOK, PacingInv, HasTurn
<1>2. step'[c] = "fetching"
  BY DEF StartFetch, Goto, TypeOK
<1>. QED
  BY <1>1, <1>2 DEF PacingInv

-----------------------------------------------------------------------------
(* Every step keeps the invariant.                                         *)

\* What is left of TypeOK beside the slots.
RestTypes ==
    /\ attempt \in [Call -> 0..MaxRetries]
    /\ probe \in [Call -> BOOLEAN]
    /\ recent \in BOOLEAN /\ halfOpenRequestActive \in BOOLEAN
    /\ consecutiveFailures \in 0..FailureThreshold
    /\ circuit \in {"closed", "open", "half_open"}

LEMMA TypeParts == TypeOK <=> SlotTypes /\ RestTypes
  BY DEF TypeOK, SlotTypes, RestTypes

LEMMA Assemble ==
  ASSUME SlotTypes', RestTypes', SlotInv', PacingInv', BreakerInv'
  PROVE  Parts'
  BY DEF Parts, TypeOK, SlotTypes, RestTypes

\* A request in the middle of an attempt leaves the breaker alone.
LEMMA BreakerKept ==
  ASSUME TypeOK, BreakerInv, UNCHANGED <<breaker, probe>>,
         \A c \in Call : step[c] # "idle" => step'[c] # "idle"
  PROVE  BreakerInv'
<1>1. Probing \subseteq Probing'
  BY DEF Probing, InFlight
<1>. QED
  BY <1>1 DEF BreakerInv, TestingHasTester, OpenKeepsCount, breaker

\* The steps of AcquireSlot and ReleaseSlot, seen from the other two parts.
LEMMA AcquireElsewhere ==
  ASSUME SlotTypes, NEW c \in Call, AcquireSlot(c)
  PROVE  /\ \A d \in Call : \/ step'[d] = step[d]
                            \/ d = c /\ step'[d] \in {"pacing", "queued"}
         /\ pacingQueue' = pacingQueue \/ pacingQueue' = Append(pacingQueue, c)
  BY DEF AcquireSlot, Goto, SlotTypes

LEMMA ReleaseElsewhere ==
  ASSUME SlotTypes, NEW c \in Call, NEW s \in {"answered", "failed"}, ReleaseSlot(c, s)
  PROVE  /\ \A d \in Call : step'[d] \in {step[d], "pacing", s}
         /\ pacingQueue' = pacingQueue \/ \E d \in Call : pacingQueue' = Append(pacingQueue, d)
<1>1. CASE concurrencyQueue # <<>>
  <2> DEFINE next == Head(concurrencyQueue)
  <2>1. next \in Call
    BY <1>1 DEF SlotTypes
  <2>2. pacingQueue' = Append(pacingQueue, next)
        /\ step' = [step EXCEPT ![c] = s, ![next] = "pacing"]
    BY <1>1 DEF ReleaseSlot
  <2>. QED
    BY <2>1, <2>2 DEF SlotTypes
<1>2. CASE concurrencyQueue = <<>>
  BY <1>2 DEF ReleaseSlot, Goto, SlotTypes
<1>. QED
  BY <1>1, <1>2

LEMMA BeginKeeps ==
  ASSUME Parts, NEW c \in Call, Begin(c)
  PROVE  Parts'
<1>1. TypeOK /\ SlotTypes /\ RestTypes /\ SlotInv /\ PacingInv /\ BreakerInv
  BY TypeParts DEF Parts
<1>2. SlotTypes' /\ SlotInv'
  BY <1>1, AcquireKeeps DEF Begin, HoldsSlot
<1>3. RestTypes'
  BY <1>1, ConstantsOK DEF Begin, RestTypes
<1>4. PacingInv'
  BY <1>1, AcquireElsewhere, PacingKept DEF Begin
<1>5. BreakerInv'
  <2>1. step'[c] # "idle"
    BY <1>1 DEF Begin, AcquireSlot, Goto, SlotTypes
  <2>2. CASE circuit = "half_open"
    <3>1. probe'[c] = TRUE
      BY <1>1, <2>2 DEF Begin, RestTypes
    <3>2. c \in Probing'
      BY <2>1, <3>1 DEF Probing, InFlight
    <3>. QED
      BY <1>1, <2>2, <3>2 DEF Begin, BreakerInv, TestingHasTester, OpenKeepsCount
  <2>3. CASE circuit = "closed"
    <3>1. ~halfOpenRequestActive
      BY <1>1, <2>3 DEF BreakerInv, TestingHasTester
    <3>2. ~halfOpenRequestActive' /\ circuit' = circuit
      BY <2>3, <3>1 DEF Begin
    <3>. QED
      BY <2>3, <3>2 DEF BreakerInv, TestingHasTester, OpenKeepsCount
  <2>. QED
    BY <2>2, <2>3 DEF Begin, MayBegin
<1>. QED
  BY <1>2, <1>3, <1>4, <1>5, Assemble

LEMMA PaceKeeps ==
  ASSUME Parts, NEW c \in Call, Pace(c)
  PROVE  Parts'
<1>1. TypeOK /\ SlotTypes /\ RestTypes /\ SlotInv /\ PacingInv /\ BreakerInv
  BY TypeParts DEF Parts
<1>2. /\ step[c] \in {"pacing", "woken"}
      /\ Goto(c, "fetching") \/ Goto(c, "asleep")
      /\ UNCHANGED <<attempt, probe, activeRequests, concurrencyQueue, breaker>>
      /\ pacingQueue # <<>>
      /\ pacingQueue' \in {pacingQueue, Tail(pacingQueue)} /\ recent' \in {recent, TRUE}
  BY <1>1 DEF Pace, PaceNow, PaceSleep, PaceWake, StartFetch, HasTurn, PacingInv, slots
<1>3. /\ \A d \in Call \ {c} : step'[d] = step[d]
      /\ step'[c] \in {"fetching", "asleep"} /\ step' \in [Call -> Step]
  BY <1>1, <1>2 DEF Goto, SlotTypes, Step
<1>4. SlotTypes' /\ RestTypes'
  <2>1. Tail(pacingQueue) \in Seq(Call)
    BY <1>1, <1>2 DEF SlotTypes
  <2>2. SlotTypes'
    BY <1>1, <1>2, <1>3, <2>1 DEF SlotTypes
  <2>3. RestTypes'
    BY <1>1, <1>2 DEF RestTypes, breaker
  <2>. QED
    BY <2>2, <2>3
<1>5. SlotInv'
  BY <1>1, <1>2, <1>3, SlotsKept DEF HoldsSlot
<1>6. BreakerInv'
  BY <1>1, <1>2, <1>3, BreakerKept
<1>7. PacingInv'
  <2>1. CASE StartFetch(c)
    <3>1. HasTurn(c)
      BY <1>1, <2>1 DEF Pace, PaceNow, PaceSleep, PaceWake, HasTurn, PacingInv
    <3>. QED
      BY <1>1, <2>1, <3>1, StartFetchKeeps
  <2>2. CASE PaceSleep(c)
    <3>1. step'[c] = "asleep" /\ UNCHANGED <<pacingQueue, recent>> /\ HasTurn(c)
      BY <1>1, <2>2 DEF PaceSleep, Goto, SlotTypes, slots
    <3>. QED
      BY <1>1, <1>3, <3>1 DEF PacingInv, HasTurn
  <2>. QED
    BY <2>1, <2>2 DEF Pace, PaceNow, PaceWake
<1>. QED
  BY <1>4, <1>5, <1>6, <1>7, Assemble

LEMMA FetchEndsKeeps ==
  ASSUME Parts, NEW c \in Call, FetchEnds(c)
  PROVE  Parts'
<1>1. TypeOK /\ SlotTypes /\ RestTypes /\ SlotInv /\ PacingInv /\ BreakerInv
  BY TypeParts DEF Parts
<1>2. PICK s \in {"answered", "failed"} : ReleaseSlot(c, s)
  BY DEF FetchEnds
<1>3. SlotTypes' /\ SlotInv'
  BY <1>1, <1>2, ReleaseKeeps DEF FetchEnds
<1>4. RestTypes'
  BY <1>1 DEF FetchEnds, RestTypes, breaker
<1>5. /\ \A d \in Call : step'[d] \in {step[d], "pacing", s}
      /\ pacingQueue' = pacingQueue \/ \E d \in Call : pacingQueue' = Append(pacingQueue, d)
  BY <1>1, <1>2, ReleaseElsewhere
<1>6. PacingInv'
  BY <1>1, <1>5, PacingKept DEF FetchEnds
<1>7. BreakerInv'
  BY <1>1, <1>5, BreakerKept DEF FetchEnds
<1>. QED
  BY <1>3, <1>4, <1>6, <1>7, Assemble

LEMMA RetryKeeps ==
  ASSUME Parts, NEW c \in Call, BackOff(c) \/ Retry(c), attempt[c] < MaxRetries
  PROVE  Parts'
<1>1. TypeOK /\ SlotTypes /\ RestTypes /\ SlotInv /\ PacingInv /\ BreakerInv
  BY TypeParts DEF Parts
<1>2. CASE BackOff(c)
  <2>1. /\ step[c] = "failed" /\ step' \in [Call -> Step] /\ step'[c] = "backoff"
        /\ \A d \in Call \ {c} : step'[d] = step[d]
    BY <1>1, <1>2 DEF BackOff, Goto, SlotTypes, Step
  <2>2. UNCHANGED <<attempt, probe, activeRequests, concurrencyQueue, pacingQueue, recent, breaker>>
    BY <1>2 DEF BackOff, slots
  <2>3. SlotTypes' /\ RestTypes'
    BY <1>1, <2>1, <2>2 DEF SlotTypes, RestTypes, breaker
  <2>4. SlotInv'
    BY <1>1, <2>1, <2>2, SlotsKept DEF HoldsSlot
  <2>5. PacingInv' /\ BreakerInv'
    BY <1>1, <2>1, <2>2, PacingKept, BreakerKept
  <2>. QED
    BY <2>3, <2>4, <2>5, Assemble
<1>3. CASE Retry(c)
  <2>1. SlotTypes' /\ SlotInv'
    BY <1>1, <1>3, AcquireKeeps DEF Retry, HoldsSlot
  <2>2. attempt[c] + 1 \in 0..MaxRetries
    BY <1>1, ConstantsOK DEF RestTypes
  <2>3. RestTypes'
    BY <1>1, <1>3, <2>2 DEF Retry, RestTypes, breaker
  <2>4. PacingInv'
    BY <1>1, <1>3, AcquireElsewhere, PacingKept DEF Retry
  <2>5. BreakerInv'
    BY <1>1, <1>3, AcquireElsewhere, BreakerKept DEF Retry
  <2>. QED
    BY <2>1, <2>3, <2>4, <2>5, Assemble
<1>. QED
  BY <1>2, <1>3

\* recordSuccess and recordRetryableFailure end a test, whoever began it.
LEMMA ConcludeKeeps ==
  ASSUME Parts, NEW c \in Call, Succeed(c) \/ GiveUp(c)
  PROVE  Parts'
<1>1. TypeOK /\ SlotTypes /\ RestTypes /\ SlotInv /\ PacingInv /\ BreakerInv
  BY TypeParts DEF Parts
<1>2. /\ step[c] \in {"answered", "failed"} /\ step' \in [Call -> Step] /\ step'[c] = "idle"
      /\ \A d \in Call \ {c} : step'[d] = step[d]
  BY <1>1 DEF Succeed, GiveUp, Goto, SlotTypes, Step
<1>3. UNCHANGED <<attempt, probe, activeRequests, concurrencyQueue, pacingQueue, recent>>
  BY DEF Succeed, GiveUp, slots
<1>4. RecordSuccess \/ RecordRetryableFailure
  BY DEF Succeed, GiveUp
<1>5. /\ consecutiveFailures' \in 0..FailureThreshold /\ circuit' \in {"closed", "open", "half_open"}
      /\ halfOpenRequestActive' = FALSE
      /\ circuit' # "closed" => consecutiveFailures' = FailureThreshold
  <2>1. CASE RecordSuccess
    BY <2>1, ConstantsOK DEF RecordSuccess
  <2>2. CASE RecordRetryableFailure
    <3>1. /\ consecutiveFailures \in 0..FailureThreshold /\ circuit \in {"closed", "open", "half_open"}
          /\ circuit # "closed" => consecutiveFailures = FailureThreshold
      BY <1>1 DEF RestTypes, BreakerInv, OpenKeepsCount
    <3>. QED
      BY <2>2, <3>1, ConstantsOK DEF RecordRetryableFailure
  <2>. QED
    BY <1>4, <2>1, <2>2
<1>6. SlotTypes' /\ RestTypes'
  BY <1>1, <1>2, <1>3, <1>5 DEF SlotTypes, RestTypes
<1>7. SlotInv'
  BY <1>1, <1>2, <1>3, SlotsKept DEF HoldsSlot
<1>8. PacingInv'
  BY <1>1, <1>2, <1>3, PacingKept
<1>9. BreakerInv'
  BY <1>5 DEF BreakerInv, TestingHasTester, OpenKeepsCount
<1>. QED
  BY <1>6, <1>7, <1>8, <1>9, Assemble

LEMMA TimeKeeps ==
  ASSUME Parts, CooldownElapses \/ IntervalElapses
  PROVE  Parts'
<1>1. TypeOK /\ SlotTypes /\ RestTypes /\ SlotInv /\ PacingInv /\ BreakerInv
  BY TypeParts DEF Parts
<1>2. CASE CooldownElapses
  <2>1. UNCHANGED <<step, attempt, probe, activeRequests, concurrencyQueue, pacingQueue, recent,
                    consecutiveFailures, halfOpenRequestActive>>
        /\ circuit = "open" /\ circuit' = "half_open"
    BY <1>2 DEF CooldownElapses, slots
  <2>2. SlotTypes' /\ RestTypes'
    BY <1>1, <2>1 DEF SlotTypes, RestTypes
  <2>3. SlotInv' /\ PacingInv'
    BY <1>1, <2>1, SlotsKept, PacingKept DEF SlotTypes
  <2>4. BreakerInv'
    BY <1>1, <2>1 DEF BreakerInv, TestingHasTester, OpenKeepsCount
  <2>. QED
    BY <2>2, <2>3, <2>4, Assemble
<1>3. CASE IntervalElapses
  <2>1. /\ UNCHANGED <<attempt, probe, activeRequests, concurrencyQueue, pacingQueue, breaker>>
        /\ recent' = FALSE /\ step' \in [Call -> Step]
        /\ \A c \in Call : step'[c] = IF step[c] = "asleep" THEN "woken" ELSE step[c]
    BY <1>1, <1>3 DEF IntervalElapses, slots, SlotTypes, Step
  <2>2. SlotTypes' /\ RestTypes'
    BY <1>1, <2>1 DEF SlotTypes, RestTypes, breaker
  <2>3. SlotInv'
    BY <1>1, <2>1, SlotsKept DEF HoldsSlot
  <2>4. PacingInv'
    BY <1>1, <2>1 DEF PacingInv
  <2>5. BreakerInv'
    BY <1>1, <2>1, BreakerKept
  <2>. QED
    BY <2>2, <2>3, <2>4, <2>5, Assemble
<1>. QED
  BY <1>2, <1>3

\* Only Begin and Retry change an attempt, and only BackOff starts a backoff.
LEMMA RetriesLeftKept ==
  ASSUME IInv, Next
  PROVE  RetriesLeft'
<1>1. TypeOK /\ SlotTypes /\ SlotInv /\ RetriesLeft
  BY TypeParts DEF IInv, Parts
<1>2. ASSUME NEW c \in Call, Begin(c) \/ Retry(c) PROVE RetriesLeft'
  <2>1. \A d \in Call : d # c => attempt'[d] = attempt[d]
    BY <1>1, <1>2 DEF Begin, Retry, TypeOK
  <2>2. \A d \in Call : step'[d] = "backoff" => step[d] = "backoff" /\ d # c
    BY <1>1, <1>2 DEF Begin, Retry, AcquireSlot, Goto, SlotTypes
  <2>. QED
    BY <1>1, <2>1, <2>2 DEF RetriesLeft
<1>3. ASSUME NEW c \in Call, BackOff(c) PROVE RetriesLeft'
  BY <1>1, <1>3 DEF BackOff, Goto, SlotTypes, RetriesLeft
<1>4. ASSUME attempt' = attempt, \A d \in Call : step'[d] = "backoff" => step[d] = "backoff"
      PROVE  RetriesLeft'
  BY <1>1, <1>4 DEF RetriesLeft
<1>5. ASSUME NEW c \in Call, FetchEnds(c) PROVE RetriesLeft'
  BY <1>1, <1>4, <1>5, ReleaseElsewhere DEF FetchEnds
<1>6. ASSUME NEW c \in Call, Pace(c) \/ Succeed(c) \/ GiveUp(c) PROVE RetriesLeft'
  BY <1>1, <1>4, <1>6 DEF Pace, PaceNow, PaceSleep, PaceWake, StartFetch, Succeed, GiveUp, Goto, SlotTypes
<1>7. ASSUME CooldownElapses \/ IntervalElapses PROVE RetriesLeft'
  BY <1>1, <1>4, <1>7 DEF CooldownElapses, IntervalElapses, SlotTypes
<1>. QED
  BY <1>2, <1>3, <1>5, <1>6, <1>7 DEF Next, Proceed

LEMMA NextIInv == IInv /\ [Next]_vars => IInv'
<1>1. ASSUME IInv, Next PROVE IInv'
  <2>1. Parts /\ \A c \in Call : Retry(c) \/ BackOff(c) => attempt[c] < MaxRetries
    BY <1>1 DEF IInv, RetriesLeft, Retry, BackOff
  <2>2. Parts'
    BY <1>1, <2>1, BeginKeeps, PaceKeeps, FetchEndsKeeps, RetryKeeps, ConcludeKeeps, TimeKeeps
       DEF Next, Proceed
  <2>. QED
    BY <1>1, <2>2, RetriesLeftKept DEF IInv
<1>2. ASSUME IInv, UNCHANGED vars PROVE IInv'
  <2>1. UNCHANGED <<step, attempt, probe, activeRequests, concurrencyQueue, pacingQueue, recent,
                    consecutiveFailures, circuit, halfOpenRequestActive>>
    BY <1>2 DEF vars, slots, breaker
  <2>2. TypeOK' /\ PacingInv' /\ RetriesLeft'
    BY <1>2, <2>1 DEF IInv, Parts, TypeOK, PacingInv, RetriesLeft
  <2>3. Holders' = Holders /\ Probing' = Probing
    BY <2>1 DEF Holders, Probing, InFlight
  <2>4. SlotInv' /\ BreakerInv'
    BY <1>2, <2>1, <2>3 DEF IInv, Parts, SlotInv, SlotsExact, QueuedOnce, BreakerInv,
       TestingHasTester, OpenKeepsCount
  <2>. QED
    BY <2>2, <2>4 DEF IInv, Parts
<1>. QED
  BY <1>1, <1>2

-----------------------------------------------------------------------------
(* The theorems.                                                           *)

\* The inductive invariant holds in every reachable state.
THEOREM Inductive == Spec => []IInv
<1>1. Init => IInv
  BY InitParts DEF IInv, RetriesLeft, Init
<1>. QED
  BY <1>1, NextIInv, PTL DEF Spec

\* Every variable stays within its type, the attempts of a request and the slots
\* in use within their limits.
THEOREM TypeCorrect == Spec => []TypeOK
<1>1. IInv => TypeOK
  BY DEF IInv, Parts
<1>. QED
  BY <1>1, Inductive, PTL

\* Never more than maxConcurrency attempts at once, and no wait for a free slot.
THEOREM ConcurrencyBounded == Spec => []SlotsExact
<1>1. IInv => SlotsExact
  BY DEF IInv, Parts, SlotInv
<1>. QED
  BY <1>1, Inductive, PTL

\* The breaker is not left testing recovery with nobody testing it.
THEOREM NeverStuckTesting == Spec => []TestingHasTester
<1>1. IInv => TestingHasTester
  BY DEF IInv, Parts, BreakerInv
<1>. QED
  BY <1>1, Inductive, PTL

\* A single failed test opens the circuit again.
THEOREM CountKept == Spec => []OpenKeepsCount
<1>1. IInv => OpenKeepsCount
  BY DEF IInv, Parts, BreakerInv
<1>. QED
  BY <1>1, Inductive, PTL

\* Fetches start an interval apart.
THEOREM Paced == Spec => FetchesApart
<1> DEFINE Apart == \A c \in Call : step[c] # "fetching" /\ step'[c] = "fetching" => ~recent
<1>1. IInv /\ Next => Apart
  <2> SUFFICES ASSUME IInv, Next, NEW c \in Call, step[c] # "fetching", step'[c] = "fetching"
               PROVE  ~recent
    OBVIOUS
  <2>1. SlotTypes /\ PacingInv
    BY TypeParts DEF IInv, Parts
  <2>2. ASSUME NEW d \in Call, Begin(d) \/ Retry(d) PROVE FALSE
    BY <2>1, <2>2, AcquireElsewhere DEF Begin, Retry
  <2>3. ASSUME NEW d \in Call, FetchEnds(d) PROVE FALSE
    BY <2>1, <2>3, ReleaseElsewhere DEF FetchEnds
  <2>4. ASSUME NEW d \in Call, Succeed(d) \/ GiveUp(d) \/ BackOff(d) PROVE FALSE
    BY <2>1, <2>4 DEF Succeed, GiveUp, BackOff, Goto, SlotTypes
  <2>5. ~(CooldownElapses \/ IntervalElapses)
    BY <2>1 DEF CooldownElapses, IntervalElapses, SlotTypes
  <2>6. PICK d \in Call : Pace(d)
    BY <2>2, <2>3, <2>4, <2>5 DEF Next, Proceed
  <2>. QED
    BY <2>1, <2>6 DEF Pace, PaceNow, PaceSleep, PaceWake, StartFetch, Goto, SlotTypes, PacingInv
<1>2. IInv /\ [Next]_vars => [Apart]_vars
  BY <1>1
<1>3. IInv /\ [][Next]_vars => [][Apart]_vars
  BY <1>2, Inductive, NextIInv, PTL
<1>. QED
  BY <1>3, Inductive, PTL DEF Spec, FetchesApart

-----------------------------------------------------------------------------
(* First come, first served.                                               *)

\* The queue q lists the members of S, each once.
Lists(q, S) ==
    /\ \A i \in 1..Len(q) : q[i] \in S
    /\ \A i, j \in 1..Len(q) : q[i] = q[j] => i = j
    /\ \A c \in S : \E i \in 1..Len(q) : q[i] = c

LEMMA ListsAppend ==
  ASSUME NEW q \in Seq(Call), NEW S, Lists(q, S), NEW c \in Call, c \notin S
  PROVE  Lists(Append(q, c), S \cup {c})
<1> DEFINE p == Append(q, c)
<1>1. /\ Len(q) \in Nat /\ Len(p) = Len(q) + 1 /\ p[Len(q) + 1] = c
      /\ \A i \in 1..Len(q) : p[i] = q[i] /\ i \in 1..Len(p)
      /\ \A i \in 1..Len(p) : i = Len(q) + 1 \/ i \in 1..Len(q)
      /\ Len(q) + 1 \in 1..Len(p)
  OBVIOUS
<1> HIDE DEF p
<1>2. \A i \in 1..Len(p) : p[i] \in S \cup {c}
  BY <1>1 DEF Lists
<1>3. \A i, j \in 1..Len(p) : p[i] = p[j] => i = j
  BY <1>1 DEF Lists
<1>4. \A d \in S \cup {c} : \E i \in 1..Len(p) : p[i] = d
  BY <1>1 DEF Lists
<1>5. Lists(p, S \cup {c})
  BY <1>2, <1>3, <1>4 DEF Lists
<1>. QED
  BY <1>5 DEF p

LEMMA ListsTail ==
  ASSUME NEW q \in Seq(Call), NEW S, Lists(q, S), q # <<>>
  PROVE  Lists(Tail(q), S \ {Head(q)}) /\ Head(q) \in S
<1> DEFINE p == Tail(q)
<1>1. /\ Len(q) \in Nat \ {0} /\ Len(p) = Len(q) - 1 /\ Head(q) = q[1]
      /\ \A i \in 1..Len(p) : p[i] = q[i + 1] /\ i + 1 \in 1..Len(q) /\ i + 1 # 1
      /\ \A i \in 1..Len(q) : i = 1 \/ (i - 1 \in 1..Len(p) /\ p[i - 1] = q[i])
      /\ 1 \in 1..Len(q)
  OBVIOUS
<1> HIDE DEF p
<1>2. \A i \in 1..Len(p) : p[i] \in S \ {Head(q)}
  BY <1>1 DEF Lists
<1>3. \A i, j \in 1..Len(p) : p[i] = p[j] => i = j
  <2> SUFFICES ASSUME NEW i \in 1..Len(p), NEW j \in 1..Len(p), p[i] = p[j]  PROVE i = j
    OBVIOUS
  <2>1. i + 1 = j + 1
    BY <1>1 DEF Lists
  <2>. QED
    BY <2>1
<1>4. \A d \in S \ {Head(q)} : \E i \in 1..Len(p) : p[i] = d
  <2> SUFFICES ASSUME NEW d \in S, d # Head(q)  PROVE \E i \in 1..Len(p) : p[i] = d
    OBVIOUS
  <2>1. PICK i \in 1..Len(q) : q[i] = d
    BY DEF Lists
  <2>. QED
    BY <1>1, <2>1
<1>5. Lists(p, S \ {Head(q)}) /\ Head(q) \in S
  BY <1>1, <1>2, <1>3, <1>4 DEF Lists
<1>. QED
  BY <1>5 DEF p

Queued == {c \in Call : step[c] = "queued"}
TakingTurns == {c \in Call : step[c] \in {"pacing", "asleep", "woken"}}

\* The two queues list the requests that stand at them: nobody is forgotten, and
\* nobody is called who does not wait.
NobodyForgotten ==
    /\ Lists(concurrencyQueue, Queued)
    /\ Lists(pacingQueue, TakingTurns)

\* What a step does to slots and queues: one of these, or nothing.
Acquires(c) == step[c] \in {"idle", "backoff"} /\ AcquireSlot(c)
Releases(c, s) == step[c] = "fetching" /\ s \in {"answered", "failed"} /\ ReleaseSlot(c, s)
Starts(c) == step[c] \in {"pacing", "woken"} /\ HasTurn(c) /\ StartFetch(c)
Stays ==
    /\ UNCHANGED <<concurrencyQueue, pacingQueue>>
    /\ Holders' = Holders /\ Queued' = Queued /\ TakingTurns' = TakingTurns

LEMMA SamePlaces ==
  ASSUME UNCHANGED <<concurrencyQueue, pacingQueue>>,
         \A c \in Call : \/ step'[c] = step[c]
                         \/ {step[c], step'[c]} \subseteq {"idle", "answered", "failed", "backoff"}
                         \/ {step[c], step'[c]} \subseteq {"pacing", "asleep", "woken"}
  PROVE  Stays
BY DEF Stays, Holders, HoldsSlot, Queued, TakingTurns

LEMMA WhatStepsDo ==
  ASSUME IInv, Next
  PROVE  \/ \E c \in Call : Acquires(c) \/ Starts(c) \/ \E s \in {"answered", "failed"} : Releases(c, s)
         \/ Stays
<1>1. SlotTypes /\ PacingInv
  BY TypeParts DEF IInv, Parts
<1>2. ASSUME NEW c \in Call, Begin(c) \/ Retry(c)  PROVE Acquires(c)
  BY <1>2 DEF Begin, Retry, Acquires
<1>3. ASSUME NEW c \in Call, PaceNow(c) \/ PaceWake(c)  PROVE Starts(c)
  BY <1>1, <1>3 DEF PaceNow, PaceWake, Starts, HasTurn, PacingInv
<1>4. ASSUME NEW c \in Call, FetchEnds(c)  PROVE \E s \in {"answered", "failed"} : Releases(c, s)
  BY <1>4 DEF FetchEnds, Releases
<1>5. ASSUME NEW c \in Call, PaceSleep(c) \/ Succeed(c) \/ BackOff(c) \/ GiveUp(c)  PROVE Stays
  <2>1. UNCHANGED <<concurrencyQueue, pacingQueue>>
    BY <1>5 DEF PaceSleep, Succeed, BackOff, GiveUp, slots
  <2>2. \A d \in Call \ {c} : step'[d] = step[d]
    BY <1>1, <1>5 DEF PaceSleep, Succeed, BackOff, GiveUp, Goto, SlotTypes
  <2>3. \/ step[c] = "pacing" /\ step'[c] = "asleep"
        \/ step[c] \in {"answered", "failed"} /\ step'[c] \in {"idle", "backoff"}
    BY <1>1, <1>5 DEF PaceSleep, Succeed, BackOff, GiveUp, Goto, SlotTypes
  <2>. QED
    BY <2>1, <2>2, <2>3, SamePlaces
<1>6. ASSUME CooldownElapses \/ IntervalElapses  PROVE Stays
  <2>1. UNCHANGED <<concurrencyQueue, pacingQueue>>
    BY <1>6 DEF CooldownElapses, IntervalElapses, slots
  <2>2. \A c \in Call : step'[c] = step[c] \/ (step[c] = "asleep" /\ step'[c] = "woken")
    BY <1>6 DEF CooldownElapses, IntervalElapses
  <2>. QED
    BY <2>1, <2>2, SamePlaces
<1>. QED
  BY <1>2, <1>3, <1>4, <1>5, <1>6 DEF Next, Proceed, Pace

\* Where requests stand after each of them.
LEMMA AcquirePlaces ==
  ASSUME IInv, NEW c \in Call, Acquires(c)
  PROVE  /\ c \notin Holders /\ c \notin Queued /\ c \notin TakingTurns
         /\ \/ /\ activeRequests < MaxConcurrency
               /\ Holders' = Holders \cup {c} /\ UNCHANGED concurrencyQueue /\ Queued' = Queued
               /\ pacingQueue' = Append(pacingQueue, c) /\ TakingTurns' = TakingTurns \cup {c}
            \/ /\ ~(activeRequests < MaxConcurrency)
               /\ Holders' = Holders /\ Queued' = Queued \cup {c}
               /\ concurrencyQueue' = Append(concurrencyQueue, c)
               /\ UNCHANGED pacingQueue /\ TakingTurns' = TakingTurns
<1>1. SlotTypes
  BY TypeParts DEF IInv, Parts
<1>2. c \notin Holders /\ c \notin Queued /\ c \notin TakingTurns
  BY DEF Acquires, Holders, HoldsSlot, Queued, TakingTurns
<1>3. CASE activeRequests < MaxConcurrency
  <2>1. /\ pacingQueue' = Append(pacingQueue, c) /\ UNCHANGED concurrencyQueue
        /\ \A d \in Call : step'[d] = IF d = c THEN "pacing" ELSE step[d]
    BY <1>1, <1>3 DEF Acquires, AcquireSlot, Goto, SlotTypes
  <2>. QED
    BY <1>2, <1>3, <2>1 DEF Holders, HoldsSlot, Queued, TakingTurns
<1>4. CASE ~(activeRequests < MaxConcurrency)
  <2>1. /\ concurrencyQueue' = Append(concurrencyQueue, c) /\ UNCHANGED pacingQueue
        /\ \A d \in Call : step'[d] = IF d = c THEN "queued" ELSE step[d]
    BY <1>1, <1>4 DEF Acquires, AcquireSlot, Goto, SlotTypes
  <2>. QED
    BY <1>2, <1>4, <2>1 DEF Holders, HoldsSlot, Queued, TakingTurns
<1>. QED
  BY <1>2, <1>3, <1>4

LEMMA ReleasePlaces ==
  ASSUME IInv, NEW c \in Call, NEW s \in {"answered", "failed"}, Releases(c, s)
  PROVE  /\ c \in Holders /\ c \notin TakingTurns
         /\ \/ /\ concurrencyQueue = <<>>
               /\ Holders' = Holders \ {c}
               /\ UNCHANGED <<concurrencyQueue, pacingQueue>>
               /\ Queued' = Queued /\ TakingTurns' = TakingTurns
            \/ /\ concurrencyQueue # <<>> /\ concurrencyQueue' = Tail(concurrencyQueue)
               /\ pacingQueue' = Append(pacingQueue, Head(concurrencyQueue))
               /\ Head(concurrencyQueue) \in Call /\ Head(concurrencyQueue) \notin TakingTurns
               /\ Holders' = (Holders \ {c}) \cup {Head(concurrencyQueue)}
               /\ Queued' = Queued \ {Head(concurrencyQueue)}
               /\ TakingTurns' = TakingTurns \cup {Head(concurrencyQueue)}
<1>1. SlotTypes /\ SlotInv
  BY TypeParts DEF IInv, Parts
<1>2. c \in Holders /\ c \notin TakingTurns
  BY DEF Releases, Holders, HoldsSlot, TakingTurns
<1>3. CASE concurrencyQueue = <<>>
  <2>1. /\ UNCHANGED <<concurrencyQueue, pacingQueue>>
        /\ \A d \in Call : step'[d] = IF d = c THEN s ELSE step[d]
    BY <1>1, <1>3 DEF Releases, ReleaseSlot, Goto, SlotTypes
  <2>. QED
    BY <1>2, <1>3, <2>1 DEF Holders, HoldsSlot, Queued, TakingTurns, Releases
<1>4. CASE concurrencyQueue # <<>>
  <2> DEFINE next == Head(concurrencyQueue)
  <2>1. next \in Call /\ step[next] = "queued" /\ next # c
    BY <1>1, <1>4 DEF SlotTypes, SlotInv, QueuedOnce, Releases
  <2>2. /\ concurrencyQueue' = Tail(concurrencyQueue) /\ pacingQueue' = Append(pacingQueue, next)
        /\ step' = [step EXCEPT ![c] = s, ![next] = "pacing"]
    BY <1>4 DEF Releases, ReleaseSlot
  <2>3. \A d \in Call : step'[d] = IF d = next THEN "pacing" ELSE IF d = c THEN s ELSE step[d]
    BY <1>1, <2>1, <2>2 DEF SlotTypes
  <2> HIDE DEF next
  <2>4. /\ Holders' = (Holders \ {c}) \cup {next} /\ Queued' = Queued \ {next}
        /\ TakingTurns' = TakingTurns \cup {next} /\ next \notin TakingTurns
    BY <1>2, <2>1, <2>3 DEF Holders, HoldsSlot, Queued, TakingTurns, Releases
  <2>. QED
    BY <1>2, <1>4, <2>1, <2>2, <2>4 DEF next
<1>. QED
  BY <1>3, <1>4

LEMMA StartPlaces ==
  ASSUME IInv, NEW c \in Call, Starts(c)
  PROVE  /\ pacingQueue # <<>> /\ c = Head(pacingQueue) /\ pacingQueue' = Tail(pacingQueue)
         /\ UNCHANGED concurrencyQueue
         /\ Holders' = Holders /\ Queued' = Queued /\ TakingTurns' = TakingTurns \ {c}
<1>1. SlotTypes
  BY TypeParts DEF IInv, Parts
<1>2. /\ pacingQueue # <<>> /\ c = Head(pacingQueue) /\ pacingQueue' = Tail(pacingQueue)
      /\ UNCHANGED concurrencyQueue
      /\ step[c] \in {"pacing", "woken"}
      /\ \A d \in Call : step'[d] = IF d = c THEN "fetching" ELSE step[d]
  BY <1>1 DEF Starts, StartFetch, HasTurn, Goto, SlotTypes
<1>. QED
  BY <1>2 DEF Holders, HoldsSlot, Queued, TakingTurns

\* Each of them keeps the two queues exact.
LEMMA NextNobodyForgotten == IInv /\ NobodyForgotten /\ [Next]_vars => NobodyForgotten'
<1> SUFFICES ASSUME IInv, NobodyForgotten, [Next]_vars  PROVE NobodyForgotten'
  OBVIOUS
<1>1. concurrencyQueue \in Seq(Call) /\ pacingQueue \in Seq(Call)
  BY DEF IInv, Parts, TypeOK
<1>2. ASSUME NEW c \in Call, Acquires(c)  PROVE NobodyForgotten'
  <2>1. CASE activeRequests < MaxConcurrency
    <3>1. /\ UNCHANGED concurrencyQueue /\ Queued' = Queued /\ c \notin TakingTurns
          /\ pacingQueue' = Append(pacingQueue, c) /\ TakingTurns' = TakingTurns \cup {c}
      BY <1>2, <2>1, AcquirePlaces
    <3>2. Lists(Append(pacingQueue, c), TakingTurns \cup {c})
      BY <1>1, <3>1, ListsAppend DEF NobodyForgotten
    <3>. QED
      BY <3>1, <3>2 DEF NobodyForgotten
  <2>2. CASE ~(activeRequests < MaxConcurrency)
    <3>1. /\ UNCHANGED pacingQueue /\ TakingTurns' = TakingTurns /\ c \notin Queued
          /\ concurrencyQueue' = Append(concurrencyQueue, c) /\ Queued' = Queued \cup {c}
      BY <1>2, <2>2, AcquirePlaces
    <3>2. Lists(Append(concurrencyQueue, c), Queued \cup {c})
      BY <1>1, <3>1, ListsAppend DEF NobodyForgotten
    <3>. QED
      BY <3>1, <3>2 DEF NobodyForgotten
  <2>. QED
    BY <2>1, <2>2
<1>3. ASSUME NEW c \in Call, NEW s \in {"answered", "failed"}, Releases(c, s)  PROVE NobodyForgotten'
  <2>1. CASE concurrencyQueue = <<>>
    BY <1>3, <2>1, ReleasePlaces DEF NobodyForgotten
  <2>2. CASE concurrencyQueue # <<>>
    <3>1. Lists(concurrencyQueue', Queued')
      BY <1>1, <1>3, <2>2, ReleasePlaces, ListsTail DEF NobodyForgotten
    <3>2. Lists(pacingQueue', TakingTurns')
      <4> DEFINE next == Head(concurrencyQueue)
      <4>1. /\ next \in Call /\ next \notin TakingTurns
            /\ pacingQueue' = Append(pacingQueue, next) /\ TakingTurns' = TakingTurns \cup {next}
        BY <1>3, <2>2, ReleasePlaces
      <4> HIDE DEF next
      <4>2. Lists(Append(pacingQueue, next), TakingTurns \cup {next})
        BY <1>1, <4>1, ListsAppend DEF NobodyForgotten
      <4>. QED
        BY <4>1, <4>2
    <3>. QED
      BY <3>1, <3>2 DEF NobodyForgotten
  <2>. QED
    BY <2>1, <2>2
<1>4. ASSUME NEW c \in Call, Starts(c)  PROVE NobodyForgotten'
  BY <1>1, <1>4, StartPlaces, ListsTail DEF NobodyForgotten
<1>5. CASE Stays
  BY <1>5 DEF Stays, NobodyForgotten
<1>6. CASE UNCHANGED vars
  BY <1>6 DEF vars, slots, NobodyForgotten, Queued, TakingTurns
<1>. QED
  BY <1>2, <1>3, <1>4, <1>5, <1>6, WhatStepsDo

LEMMA InitNobodyForgotten == Init => NobodyForgotten
<1> SUFFICES ASSUME Init  PROVE NobodyForgotten
  OBVIOUS
<1>1. Queued = {} /\ TakingTurns = {} /\ concurrencyQueue = <<>> /\ pacingQueue = <<>>
  BY DEF Init, Queued, TakingTurns
<1>. QED
  BY <1>1 DEF NobodyForgotten, Lists

\* Whoever waits for a slot, or for its turn, stands once in the queue from which
\* it will be called, and nobody else stands there.
THEOREM QueuesExact == Spec => []NobodyForgotten
  BY Inductive, InitNobodyForgotten, NextNobodyForgotten, PTL DEF Spec

\* An instance of a module has its own name for what that module extends.
LEMMA SameCardinality ==
  ASSUME NEW S
  PROVE  Slots!Cardinality(S) = Cardinality(S) /\ Pacer!Cardinality(S) = Cardinality(S)
BY DEF Slots!Cardinality, Pacer!Cardinality, Cardinality

\* The slots are a queue with maxConcurrency places.
LEMMA SlotStep ==
  ASSUME IInv, NobodyForgotten, Next
  PROVE  Slots!Next \/ UNCHANGED Slots!queueVars
<1>1. Cardinality(Holders) = activeRequests
  BY DEF IInv, Parts, SlotInv, SlotsExact
<1>2. ASSUME NEW c \in Call, Acquires(c)  PROVE Slots!Enter(c)
  <2>1. \A i \in 1..Len(concurrencyQueue) : concurrencyQueue[i] # c
    BY <1>2, AcquirePlaces DEF NobodyForgotten, Lists
  <2>2. Slots!Absent(c)
    BY <1>2, <2>1, AcquirePlaces DEF Slots!Absent
  <2>. QED
    <3>1. CASE activeRequests < MaxConcurrency
      <4>1. Holders' = Holders \cup {c} /\ UNCHANGED concurrencyQueue
        BY <1>2, <3>1, AcquirePlaces
      <4>. QED
        BY <1>1, <2>2, <3>1, <4>1, SameCardinality DEF Slots!Enter
    <3>2. CASE ~(activeRequests < MaxConcurrency)
      <4>1. Holders' = Holders /\ concurrencyQueue' = Append(concurrencyQueue, c)
        BY <1>2, <3>2, AcquirePlaces
      <4>. QED
        BY <1>1, <2>2, <3>2, <4>1, SameCardinality DEF Slots!Enter
    <3>. QED
      BY <3>1, <3>2
<1>3. ASSUME NEW c \in Call, NEW s \in {"answered", "failed"}, Releases(c, s)  PROVE Slots!Leave(c)
  BY <1>3, ReleasePlaces DEF Slots!Leave
<1>4. ASSUME NEW c \in Call, Starts(c)  PROVE UNCHANGED Slots!queueVars
  BY <1>4, StartPlaces DEF Slots!queueVars
<1>5. CASE Stays
  BY <1>5 DEF Stays, Slots!queueVars
<1>. QED
  BY <1>2, <1>3, <1>4, <1>5, WhatStepsDo DEF Slots!Next

\* A chain with a holder and waiters, seen as a sequence.
LEMMA ChainAppend ==
  ASSUME IInv, NobodyForgotten, NEW c \in Call, c \notin TakingTurns,
         pacingQueue' = Append(pacingQueue, c)
  PROVE  Pacer!Enter(c)
<1>1. pacingQueue \in Seq(Call)
  BY DEF IInv, Parts, TypeOK
<1>2. \A i \in 1..Len(pacingQueue) : pacingQueue[i] # c
  BY DEF NobodyForgotten, Lists
<1>3. CASE pacingQueue = <<>>
  <2>1. PacingHolder = {} /\ PacingWaiters = <<>> /\ PacingHolder' = {c} /\ PacingWaiters' = <<>>
    BY <1>1, <1>3 DEF PacingHolder, PacingWaiters
  <2>2. Cardinality(PacingHolder) < 1
    BY <2>1, FS_EmptySet
  <2>3. Pacer!Absent(c)
    BY <2>1 DEF Pacer!Absent
  <2>4. PacingHolder' = PacingHolder \cup {c} /\ UNCHANGED PacingWaiters
    BY <2>1
  <2>. QED
    BY <2>2, <2>3, <2>4, SameCardinality DEF Pacer!Enter
<1>4. CASE pacingQueue # <<>>
  <2>1. /\ PacingHolder = {Head(pacingQueue)} /\ PacingHolder' = PacingHolder
        /\ PacingWaiters = Tail(pacingQueue)
        /\ PacingWaiters' = Append(PacingWaiters, c)
    BY <1>1, <1>4 DEF PacingHolder, PacingWaiters
  <2>2. ~(Cardinality(PacingHolder) < 1)
    <3>1. \A x : Cardinality({x}) = 1
      BY FS_Singleton
    <3>2. PacingHolder = {Head(pacingQueue)}
      BY <2>1
    <3>3. Cardinality(PacingHolder) = 1
      BY <3>1, <3>2, Zenon
    <3>. QED
      BY <3>3
  <2>3. Pacer!Absent(c)
    <3>1. Head(pacingQueue) # c
      BY <1>1, <1>2, <1>4
    <3>2. \A i \in 1..Len(PacingWaiters) : PacingWaiters[i] # c
      BY <1>1, <1>2, <1>4, <2>1
    <3>. QED
      BY <2>1, <3>1, <3>2 DEF Pacer!Absent
  <2>. QED
    <3>1. UNCHANGED PacingHolder /\ PacingWaiters' = Append(PacingWaiters, c)
      BY <2>1
    <3>. QED
      BY <2>2, <2>3, <3>1, SameCardinality DEF Pacer!Enter
<1>. QED
  BY <1>3, <1>4

LEMMA ChainTail ==
  ASSUME IInv, NEW c \in Call, pacingQueue # <<>>, c = Head(pacingQueue),
         pacingQueue' = Tail(pacingQueue)
  PROVE  Pacer!Leave(c)
<1>1. pacingQueue \in Seq(Call)
  BY DEF IInv, Parts, TypeOK
<1>2. PacingHolder = {c} /\ PacingWaiters = Tail(pacingQueue)
  BY DEF PacingHolder, PacingWaiters
<1>3. CASE Tail(pacingQueue) = <<>>
  BY <1>2, <1>3 DEF PacingHolder, PacingWaiters, Pacer!Leave
<1>4. CASE Tail(pacingQueue) # <<>>
  BY <1>2, <1>4 DEF PacingHolder, PacingWaiters, Pacer!Leave
<1>. QED
  BY <1>3, <1>4

\* The pacing lock is a queue with one place.
LEMMA PacerStep ==
  ASSUME IInv, NobodyForgotten, Next
  PROVE  Pacer!Next \/ UNCHANGED Pacer!queueVars
<1>1. ASSUME UNCHANGED pacingQueue  PROVE UNCHANGED Pacer!queueVars
  BY <1>1 DEF Pacer!queueVars, PacingHolder, PacingWaiters
<1>2. ASSUME NEW c \in Call, Acquires(c)  PROVE Pacer!Enter(c) \/ UNCHANGED Pacer!queueVars
  BY <1>1, <1>2, AcquirePlaces, ChainAppend
<1>3. ASSUME NEW c \in Call, NEW s \in {"answered", "failed"}, Releases(c, s)
      PROVE  (\E d \in Call : Pacer!Enter(d)) \/ UNCHANGED Pacer!queueVars
  BY <1>1, <1>3, ReleasePlaces, ChainAppend
<1>4. ASSUME NEW c \in Call, Starts(c)  PROVE Pacer!Leave(c)
  BY <1>4, StartPlaces, ChainTail
<1>5. CASE Stays
  BY <1>1, <1>5 DEF Stays
<1>. QED
  BY <1>2, <1>3, <1>4, <1>5, WhatStepsDo DEF Pacer!Next

\* Slots and turns to pace are each given out in the order they were asked for.
THEOREM FirstComeFirstServed == Spec => ServedInOrder
<1>1. Init => Slots!Init /\ Pacer!Init
  BY DEF Init, Slots!Init, Pacer!Init, Holders, HoldsSlot, PacingHolder, PacingWaiters
<1>2. IInv /\ NobodyForgotten /\ [Next]_vars => [Slots!Next]_(Slots!queueVars)
  <2>1. UNCHANGED vars => UNCHANGED Slots!queueVars
    BY DEF vars, slots, Slots!queueVars, Holders
  <2>. QED
    BY <2>1, SlotStep
<1>3. IInv /\ NobodyForgotten /\ [Next]_vars => [Pacer!Next]_(Pacer!queueVars)
  <2>1. UNCHANGED vars => UNCHANGED Pacer!queueVars
    BY DEF vars, slots, Pacer!queueVars, PacingHolder, PacingWaiters
  <2>. QED
    BY <2>1, PacerStep
<1>. QED
  BY <1>1, <1>2, <1>3, Inductive, QueuesExact, PTL DEF Spec, ServedInOrder, Slots!Spec, Pacer!Spec

-----------------------------------------------------------------------------
(* No standstill.                                                          *)

\* Who sleeps is woken: the interval it sleeps for has not elapsed.
SleepersWoken == \A c \in Call : step[c] = "asleep" => recent

\* The event loop, the end of its fetch or the passing of time moves c on: the
\* guards of its steps, of IntervalElapses for a request that sleeps.
MovesOn(c) ==
    \/ step[c] \in {"fetching", "answered", "failed", "backoff", "woken"}
    \/ step[c] = "asleep" /\ recent
    \/ step[c] = "pacing" /\ HasTurn(c)

\* While a request is under way there is one that moves on.
NoStandstill == (\E c \in Call : InFlight(c)) => \E c \in Call : MovesOn(c)

LEMMA NextSleepersWoken == IInv /\ SleepersWoken /\ [Next]_vars => SleepersWoken'
<1> SUFFICES ASSUME IInv, SleepersWoken, [Next]_vars  PROVE SleepersWoken'
  OBVIOUS
<1>1. SlotTypes
  BY TypeParts DEF IInv, Parts
<1>2. ASSUME recent' = recent, \A c \in Call : step'[c] = "asleep" => step[c] = "asleep"
      PROVE  SleepersWoken'
  BY <1>2 DEF SleepersWoken
<1>3. ASSUME NEW c \in Call, Begin(c) \/ Retry(c)  PROVE SleepersWoken'
  BY <1>1, <1>2, <1>3, AcquireElsewhere DEF Begin, Retry
<1>4. ASSUME NEW c \in Call, FetchEnds(c)  PROVE SleepersWoken'
  BY <1>1, <1>2, <1>4, ReleaseElsewhere DEF FetchEnds
<1>5. ASSUME NEW c \in Call, PaceNow(c) \/ PaceWake(c)  PROVE SleepersWoken'
  BY <1>5 DEF PaceNow, PaceWake, StartFetch, SleepersWoken
<1>6. ASSUME NEW c \in Call, PaceSleep(c)  PROVE SleepersWoken'
  BY <1>6 DEF PaceSleep, SleepersWoken
<1>7. ASSUME NEW c \in Call, Succeed(c) \/ GiveUp(c) \/ BackOff(c)  PROVE SleepersWoken'
  BY <1>1, <1>2, <1>7 DEF Succeed, GiveUp, BackOff, Goto, SlotTypes
<1>8. CASE CooldownElapses \/ IntervalElapses
  BY <1>8 DEF CooldownElapses, IntervalElapses, SleepersWoken
<1>9. CASE UNCHANGED vars
  BY <1>9 DEF vars, SleepersWoken
<1>. QED
  BY <1>3, <1>4, <1>5, <1>6, <1>7, <1>8, <1>9 DEF Next, Proceed, Pace

\* A request waits for a slot only while others hold them all, and for its turn
\* only behind the one whose turn it is, which sleeps only until it is woken:
\* there is no order of hand-overs, retries and failures in which all wait.
THEOREM SomeoneMoves == Spec => []NoStandstill
<1>1. IInv /\ NobodyForgotten /\ SleepersWoken => NoStandstill
  <2> SUFFICES ASSUME IInv, NobodyForgotten, SleepersWoken, NEW c \in Call, InFlight(c)
               PROVE  \E d \in Call : MovesOn(d)
    BY DEF NoStandstill
  <2>1. SlotTypes /\ SlotInv
    BY TypeParts DEF IInv, Parts
  <2>2. ASSUME NEW d \in TakingTurns  PROVE \E e \in Call : MovesOn(e)
    <3>1. pacingQueue # <<>> /\ Head(pacingQueue) \in TakingTurns
      BY <2>1, <2>2, ListsTail DEF NobodyForgotten, Lists, SlotTypes
    <3>2. HasTurn(Head(pacingQueue))
      BY <3>1 DEF HasTurn
    <3>. QED
      BY <3>1, <3>2 DEF TakingTurns, MovesOn, SleepersWoken
  <2>3. ASSUME NEW d \in Holders  PROVE \E e \in Call : MovesOn(e)
    BY <2>2, <2>3 DEF Holders, HoldsSlot, TakingTurns, MovesOn
  <2>4. CASE step[c] = "queued"
    <3>1. concurrencyQueue # <<>>
      BY <2>4 DEF NobodyForgotten, Lists, Queued
    <3>2. Cardinality(Holders) = MaxConcurrency
      BY <2>1, <3>1 DEF SlotInv, SlotsExact
    <3>3. Holders # {}
      BY <3>2, FS_EmptySet, ConstantsOK
    <3>. QED
      BY <2>3, <3>3
  <2>5. CASE step[c] # "queued"
    BY <2>1, <2>3, <2>5 DEF InFlight, Holders, HoldsSlot, SlotTypes, Step, MovesOn
  <2>. QED
    BY <2>4, <2>5
<1>2. Init => SleepersWoken
  BY DEF Init, SleepersWoken
<1>. QED
  BY <1>1, <1>2, NextSleepersWoken, Inductive, QueuesExact, PTL DEF Spec

=============================================================================
