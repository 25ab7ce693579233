--------------------------- MODULE ResilientHttp ---------------------------
(***************************************************************************)
(* The HTTP client every provider adapter shares,                           *)
(* packages/providers/src/http/resilient-http.ts: a circuit breaker in      *)
(* front of each request, and for each attempt a concurrency slot, a turn   *)
(* to pace, the fetch, and a backoff before the next attempt.               *)
(*                                                                         *)
(* JavaScript runs one request at a time, from one await to the next: each  *)
(* such stretch is an action.  The time since the circuit opened and since  *)
(* the last fetch started are kept only as whether they have elapsed.       *)
(***************************************************************************)
EXTENDS Integers, FiniteSets, Sequences

CONSTANTS
    Call,              \* callers of request(), each with one request at a time
    MaxConcurrency,    \* options.maxConcurrency
    MaxRetries,        \* options.maxRetries
    FailureThreshold   \* options.circuitBreakerFailureThreshold

ASSUME ConstantsOK ==
    /\ IsFiniteSet(Call)
    /\ MaxConcurrency \in Nat \ {0}
    /\ MaxRetries \in Nat
    /\ FailureThreshold \in Nat \ {0}

VARIABLES
    step,                   \* where each request stands
    attempt,                \* its attempt, from 0
    probe,                  \* it was admitted to test a half-open circuit
    activeRequests,
    concurrencyQueue,       \* requests waiting for a slot
    pacingQueue,            \* the chain of pacingTail: the first one holds the lock
    recent,                 \* now < nextAllowedRequestAt
    consecutiveFailures,    \* counted up to FailureThreshold
    circuit,                \* getCircuitState()
    halfOpenRequestActive

slots == <<activeRequests, concurrencyQueue, pacingQueue>>
breaker == <<consecutiveFailures, circuit, halfOpenRequestActive>>
vars == <<step, attempt, probe, slots, recent, breaker>>

\* "queued": for a slot; "pacing": for the lock, or about to read the clock;
\* "asleep", "woken": until nextAllowedRequestAt; "fetching"; "answered" and
\* "failed": the slot is released, the outcome not yet recorded.
Step == {"idle", "queued", "pacing", "asleep", "woken", "fetching", "answered", "failed", "backoff"}

HoldsSlot == {"pacing", "asleep", "woken", "fetching"}
Holders == {c \in Call : step[c] \in HoldsSlot}

TypeOK ==
    /\ step \in [Call -> Step]
    /\ attempt \in [Call -> 0..MaxRetries]
    /\ probe \in [Call -> BOOLEAN]
    /\ activeRequests \in 0..MaxConcurrency
    /\ concurrencyQueue \in Seq(Call) /\ pacingQueue \in Seq(Call)
    /\ recent \in BOOLEAN /\ halfOpenRequestActive \in BOOLEAN
    /\ consecutiveFailures \in 0..FailureThreshold
    /\ circuit \in {"closed", "open", "half_open"}

Init ==
    /\ step = [c \in Call |-> "idle"]
    /\ attempt = [c \in Call |-> 0]
    /\ probe = [c \in Call |-> FALSE]
    /\ activeRequests = 0
    /\ concurrencyQueue = <<>> /\ pacingQueue = <<>>
    /\ recent = FALSE /\ halfOpenRequestActive = FALSE
    /\ consecutiveFailures = 0
    /\ circuit = "closed"

Goto(c, s) == step' = [step EXCEPT ![c] = s]

-----------------------------------------------------------------------------
(* Concurrency slots.                                                      *)

\* acquireConcurrencySlot, and the start of paceRequest if there is a slot.
AcquireSlot(c) ==
    IF activeRequests < MaxConcurrency
    THEN /\ activeRequests' = activeRequests + 1
         /\ pacingQueue' = Append(pacingQueue, c)
         /\ Goto(c, "pacing")
         /\ UNCHANGED concurrencyQueue
    ELSE /\ concurrencyQueue' = Append(concurrencyQueue, c)
         /\ Goto(c, "queued")
         /\ UNCHANGED <<activeRequests, pacingQueue>>

ReleaseAndWake(c, s) ==  \* mutant: the slot is handed on and counted as free
    /\ activeRequests' = activeRequests - 1
    /\ IF concurrencyQueue # <<>>
       THEN /\ step' = [step EXCEPT ![c] = s, ![Head(concurrencyQueue)] = "pacing"]
            /\ concurrencyQueue' = Tail(concurrencyQueue)
            /\ pacingQueue' = Append(pacingQueue, Head(concurrencyQueue))
       ELSE Goto(c, s) /\ UNCHANGED <<concurrencyQueue, pacingQueue>>

ReleaseOnly(c, s) ==  \* mutant: nobody is woken
    /\ activeRequests' = activeRequests - 1
    /\ Goto(c, s)
    /\ UNCHANGED <<concurrencyQueue, pacingQueue>>

ReleaseInPlace(c, s) ==  \* mutant: the first that waits is woken, and stays first
    IF concurrencyQueue # <<>>
    THEN /\ step' = [step EXCEPT ![c] = s, ![Head(concurrencyQueue)] = "pacing"]
         /\ pacingQueue' = Append(pacingQueue, Head(concurrencyQueue))
         /\ UNCHANGED <<activeRequests, concurrencyQueue>>
    ELSE /\ activeRequests' = activeRequests - 1
         /\ Goto(c, s)
         /\ UNCHANGED <<concurrencyQueue, pacingQueue>>

\* releaseConcurrencySlot: the slot goes to the first that waits for one.
ReleaseSlot(c, s) ==
    IF concurrencyQueue # <<>>
    THEN /\ step' = [step EXCEPT ![c] = s, ![Head(concurrencyQueue)] = "pacing"]
         /\ concurrencyQueue' = Tail(concurrencyQueue)
         /\ pacingQueue' = Append(pacingQueue, Head(concurrencyQueue))
         /\ UNCHANGED activeRequests
    ELSE /\ activeRequests' = activeRequests - 1
         /\ Goto(c, s)
         /\ UNCHANGED <<concurrencyQueue, pacingQueue>>

-----------------------------------------------------------------------------
(* The circuit breaker.                                                    *)

MayBegin == circuit = "closed" \/ (circuit = "half_open" /\ ~halfOpenRequestActive)

\* beforeRequest, then the first attempt.  A refused request changes nothing.
Begin(c) ==
    /\ step[c] = "idle"
    /\ MayBegin
    /\ attempt' = [attempt EXCEPT ![c] = 0]
    /\ probe' = [probe EXCEPT ![c] = (circuit = "half_open")]
    /\ halfOpenRequestActive' = (halfOpenRequestActive \/ circuit = "half_open")
    /\ AcquireSlot(c)
    /\ UNCHANGED <<recent, consecutiveFailures, circuit>>

SuccessKeepingOpen ==  \* mutant: circuitOpenedAt is not reset
    /\ consecutiveFailures' = 0
    /\ halfOpenRequestActive' = FALSE
    /\ UNCHANGED circuit

RecordSuccess ==
    /\ consecutiveFailures' = 0
    /\ circuit' = "closed"
    /\ halfOpenRequestActive' = FALSE

FailureKeepingProbe ==  \* mutant: only a success ends the test
    /\ consecutiveFailures' = IF consecutiveFailures < FailureThreshold
                              THEN consecutiveFailures + 1 ELSE FailureThreshold
    /\ circuit' = IF consecutiveFailures' = FailureThreshold THEN "open" ELSE circuit
    /\ UNCHANGED halfOpenRequestActive

\* From the threshold on every failure opens the circuit again, so the count
\* need not go further.
RecordRetryableFailure ==
    /\ consecutiveFailures' = IF consecutiveFailures < FailureThreshold
                              THEN consecutiveFailures + 1 ELSE FailureThreshold
    /\ circuit' = IF consecutiveFailures' = FailureThreshold THEN "open" ELSE circuit
    /\ halfOpenRequestActive' = FALSE

CooldownElapses ==
    /\ circuit = "open"
    /\ circuit' = "half_open"
    /\ UNCHANGED <<step, attempt, probe, slots, recent, consecutiveFailures, halfOpenRequestActive>>

-----------------------------------------------------------------------------
(* Pacing: under the lock, wait until nextAllowedRequestAt and move it on.  *)

AnyTurn(c) == TRUE  \* mutant: no lock

HasTurn(c) == pacingQueue # <<>> /\ Head(pacingQueue) = c

\* The caller holds the lock, and passes it on.
StartFetch(c) ==
    /\ recent' = TRUE
    /\ pacingQueue' = Tail(pacingQueue)
    /\ Goto(c, "fetching")
    /\ UNCHANGED <<attempt, probe, activeRequests, concurrencyQueue, breaker>>

PaceNow(c) ==
    /\ step[c] = "pacing" /\ HasTurn(c) /\ ~recent
    /\ StartFetch(c)

PaceSleep(c) ==
    /\ step[c] = "pacing" /\ HasTurn(c) /\ recent
    /\ Goto(c, "asleep")
    /\ UNCHANGED <<attempt, probe, slots, recent, breaker>>

\* The sleep is over: nextAllowedRequestAt is not read again.
PaceWake(c) == step[c] = "woken" /\ StartFetch(c)

IntervalElapses ==
    /\ recent
    /\ recent' = FALSE
    /\ step' = [c \in Call |-> IF step[c] = "asleep" THEN "woken" ELSE step[c]]
    /\ UNCHANGED <<attempt, probe, slots, breaker>>

-----------------------------------------------------------------------------
(* Attempts and their outcomes.                                            *)

\* "failed": a retryable status, a network error, or the abort of the timeout.
FetchEnds(c) ==
    /\ step[c] = "fetching"
    /\ \E s \in {"answered", "failed"} : ReleaseSlot(c, s)
    /\ UNCHANGED <<attempt, probe, recent, breaker>>

Succeed(c) ==
    /\ step[c] = "answered"
    /\ RecordSuccess
    /\ Goto(c, "idle")
    /\ UNCHANGED <<attempt, probe, slots, recent>>

BackOffOnceMore(c) ==  \* mutant: attempts counted from 1
    /\ step[c] = "failed" /\ attempt[c] <= MaxRetries
    /\ Goto(c, "backoff")
    /\ UNCHANGED <<attempt, probe, slots, recent, breaker>>

BackOff(c) ==
    /\ step[c] = "failed" /\ attempt[c] < MaxRetries
    /\ Goto(c, "backoff")
    /\ UNCHANGED <<attempt, probe, slots, recent, breaker>>

\* The circuit is not asked again.
Retry(c) ==
    /\ step[c] = "backoff"
    /\ attempt' = [attempt EXCEPT ![c] = attempt[c] + 1]
    /\ AcquireSlot(c)
    /\ UNCHANGED <<probe, recent, breaker>>

GiveUp(c) ==
    /\ step[c] = "failed" /\ attempt[c] = MaxRetries
    /\ RecordRetryableFailure
    /\ Goto(c, "idle")
    /\ UNCHANGED <<attempt, probe, slots, recent>>

Pace(c) == PaceNow(c) \/ PaceSleep(c) \/ PaceWake(c)
Proceed(c) == Pace(c) \/ FetchEnds(c) \/ Succeed(c) \/ BackOff(c) \/ Retry(c) \/ GiveUp(c)

Next == (\E c \in Call : Begin(c) \/ Proceed(c)) \/ CooldownElapses \/ IntervalElapses

Spec == Init /\ [][Next]_vars

-----------------------------------------------------------------------------
(* Properties.                                                             *)

InFlight(c) == step[c] # "idle"
Probing == {c \in Call : InFlight(c) /\ probe[c]}

\* The slots in use are the ones counted, never more than maxConcurrency, and no
\* request waits while one is free, through every hand-over and retry.
SlotsExact ==
    /\ Cardinality(Holders) = activeRequests
    /\ activeRequests <= MaxConcurrency
    /\ concurrencyQueue # <<>> => activeRequests = MaxConcurrency

\* When the breaker refuses requests because one is testing recovery, there is
\* one that does: a test whose end goes unrecorded would refuse them forever.
TestingHasTester ==
    halfOpenRequestActive => circuit = "half_open" /\ Probing # {}

\* Fetches start minRequestIntervalMs apart, whatever waits for a slot, for the
\* lock or for the clock.
FetchesApart ==
    [][\A c \in Call : step[c] # "fetching" /\ step'[c] = "fetching" => ~recent]_vars

\* The pacing lock, a queue with one place: its holder is the first of the chain.
PacingHolder == IF pacingQueue = <<>> THEN {} ELSE {Head(pacingQueue)}
PacingWaiters == IF pacingQueue = <<>> THEN <<>> ELSE Tail(pacingQueue)

Slots == INSTANCE SlotQueue WITH
    Client <- Call, Capacity <- MaxConcurrency,
    inside <- Holders, waiting <- concurrencyQueue

Pacer == INSTANCE SlotQueue WITH
    Client <- Call, Capacity <- 1,
    inside <- PacingHolder, waiting <- PacingWaiters

\* Requests get their slots, and with a slot their turn to pace, in the order they
\* asked: no retry and no newcomer passes a request that waits, nobody is woken
\* twice or forgotten, and only the one whose turn it is gives the turn on.
ServedInOrder == Slots!Spec /\ Pacer!Spec

\* resilient-http.ts:235, "Provider circuit breaker is testing recovery with
\* another request.": one request at a time tests recovery.
OneProbe == Cardinality(Probing) <= 1

-----------------------------------------------------------------------------
(* Fairness: the event loop runs what is ready, fetches end (requestTimeoutMs *)
(* aborts them), time passes.  Nothing is assumed of the callers.            *)
Fairness ==
    /\ \A c \in Call : WF_vars(Proceed(c))
    /\ WF_vars(CooldownElapses) /\ WF_vars(IntervalElapses)

FairSpec == Spec /\ Fairness

\* No request is lost in a queue.
RequestsEnd == \A c \in Call : InFlight(c) ~> ~InFlight(c)

\* If the provider answers again and callers keep asking, the circuit closes for
\* good: no order of late failures and refused requests leaves it open.
ProviderRecovers == <>[][\A c \in Call : ~GiveUp(c)]_vars
CallersKeepAsking == WF_vars(\E c \in Call : Begin(c))

CircuitCloses == ProviderRecovers /\ CallersKeepAsking => <>[](circuit = "closed")
=============================================================================
