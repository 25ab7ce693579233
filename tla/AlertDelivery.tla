--------------------------- MODULE AlertDelivery ---------------------------
(***************************************************************************)
(* Outbound alert deliveries: the table alert_deliveries as                 *)
(* apps/api/src/db/postgres/repositories/alerts.ts changes it, the loop     *)
(* processDue of services/alertDeliveryService.ts that sends what is due,   *)
(* the outcomes of the Resend and Twilio transports, Twilio's status         *)
(* callbacks, and the opt-outs of repositories/notifications.ts.            *)
(*                                                                         *)
(* The rows are those of one destination: an e-mail address or a phone.     *)
(*                                                                         *)
(* A claim has no token: every later write names the row and asks only      *)
(* whether it is 'processing'.  A worker that stalls past the claim timeout *)
(* is not stopped, so its writes may land on the claim of another worker.   *)
(***************************************************************************)
EXTENDS Integers, FiniteSets

CONSTANTS
    Delivery,     \* the destination's rows of alert_deliveries
    Worker,       \* executions of the alerts.deliver_due handler
    Message,      \* messages a provider may accept
    MaxAttempts,  \* the default maxAttempts of failDelivery
    NULL

ASSUME ConstantsOK ==
    /\ MaxAttempts \in Nat \ {0}
    /\ NULL \notin Delivery \cup Message

VARIABLES
    delivery,  \* alert_deliveries
    worker,    \* where each processDue stands
    accepted,  \* at the providers: the messages accepted for each delivery
    optedOut,  \* the destination is suppressed or has no active consent
    sweeping   \* suppressDestination of a request: its UPDATE of waiting rows is next

recipient == <<optedOut, sweeping>>
vars == <<delivery, worker, accepted, recipient>>

Status == {"queued", "processing", "delivered", "retry_wait", "failed",
           "suppressed", "dead_letter"}

\* provider_status_rank: 1 stands for accepted, queued, sending and sent (10 to
\* 40), 2 for failed and undelivered (50), 3 for delivered (60).
Rank == 0..3

\* due: next_attempt_at <= now; stale: claimed_at is older than the claim
\* timeout; message: provider_message_id.
Row == [channel: {"email", "sms"}, status: Status, due: BOOLEAN, stale: BOOLEAN, attempts: 0..MaxAttempts,
        message: Message \cup {NULL}, rank: Rank]

\* "idle": before recovery; "loop": between claims; "claimed": about to check
\* the policy; "suppress", "defer", "send", "mark", "fail": that call is next;
\* "refused" and "sweep": the two statements of suppressDestination are.
WorkerStep == {"idle", "loop", "claimed", "suppress", "defer", "send", "mark",
               "refused", "sweep", "fail"}

\* terminal: DeliveryTransportError.terminal; wasOut: the recipient had opted
\* out when the row was claimed, and has not opted in since.
WorkerState == [step: WorkerStep, delivery: Delivery \cup {NULL},
                message: Message \cup {NULL}, terminal: BOOLEAN, wasOut: BOOLEAN]

TypeOK ==
    /\ delivery \in [Delivery -> Row]
    /\ worker \in [Worker -> WorkerState]
    /\ accepted \in [Delivery -> SUBSET Message]
    /\ optedOut \in BOOLEAN /\ sweeping \in BOOLEAN

Ready(step) == [step |-> step, delivery |-> NULL, message |-> NULL,
                terminal |-> FALSE, wasOut |-> FALSE]

Init ==
    /\ \E channel \in {"email", "sms"} :
          delivery = [d \in Delivery |->
                        [channel |-> channel, status |-> "queued", due |-> FALSE,
                         stale |-> FALSE, attempts |-> 0, message |-> NULL, rank |-> 0]]
    /\ worker = [w \in Worker |-> Ready("idle")]
    /\ accepted = [d \in Delivery |-> {}]
    /\ optedOut = FALSE /\ sweeping = FALSE

Goto(w, step) == worker' = [worker EXCEPT ![w] = [worker[w] EXCEPT !.step = step]]
Continue(w) == worker' = [worker EXCEPT ![w] = Ready("loop")]

IsSms(d) == delivery[d].channel = "sms"
Waiting(d) == delivery[d].status \in {"queued", "retry_wait"}
Processing(d) == delivery[d].status = "processing"

Update(d, row) == delivery' = [delivery EXCEPT ![d] = row]

-----------------------------------------------------------------------------
(* processDue.                                                             *)

\* An SMS that may have been accepted is never retried by itself.
RecoveredStatus(d) ==
    IF IsSms(d) THEN "failed"
    ELSE IF delivery[d].attempts >= MaxAttempts THEN "dead_letter" ELSE "retry_wait"

RecoverNothing(w) ==  \* mutant: stale claims stay
    /\ worker[w].step = "idle"
    /\ Continue(w)
    /\ UNCHANGED <<delivery, accepted, recipient>>

RecoverStale(w) ==
    /\ worker[w].step = "idle"
    /\ delivery' = [d \in Delivery |->
                      IF Processing(d) /\ delivery[d].stale
                      THEN [delivery[d] EXCEPT !.status = RecoveredStatus(d),
                                               !.due = TRUE, !.stale = FALSE]
                      ELSE delivery[d]]
    /\ Continue(w)
    /\ UNCHANGED <<accepted, recipient>>

\* One UPDATE ... FOR UPDATE SKIP LOCKED.
ClaimDue(w, d) ==
    /\ worker[w].step = "loop"
    /\ Waiting(d) /\ delivery[d].due
    /\ Update(d, [delivery[d] EXCEPT !.status = "processing", !.stale = FALSE,
                                     !.attempts = delivery[d].attempts + 1])
    /\ worker' = [worker EXCEPT ![w] = [Ready("claimed") EXCEPT !.delivery = d,
                                                               !.wasOut = optedOut]]
    /\ UNCHANGED <<accepted, recipient>>

\* Nothing is due, or the batch limit is reached: the next job starts over.
EndLoop(w) ==
    /\ worker[w].step = "loop"
    /\ worker' = [worker EXCEPT ![w] = Ready("idle")]
    /\ UNCHANGED <<delivery, accepted, recipient>>

\* The channel, event, listing or destination is no longer eligible.
Ineligible(w) ==
    /\ worker[w].step = "claimed"
    /\ Goto(w, "suppress")
    /\ UNCHANGED <<delivery, accepted, recipient>>

\* Cadence or quiet hours.
NotYet(w) ==
    /\ worker[w].step = "claimed"
    /\ Goto(w, "defer")
    /\ UNCHANGED <<delivery, accepted, recipient>>

SendAtOnce(w) ==  \* mutant: consent as of the match, not read again
    /\ worker[w].step = "claimed"
    /\ Goto(w, "send")
    /\ UNCHANGED <<delivery, accepted, recipient>>

\* isSuppressed and hasActiveConsent, read after the claim.
CheckConsent(w) ==
    /\ worker[w].step = "claimed"
    /\ Goto(w, IF optedOut THEN "suppress" ELSE "send")
    /\ UNCHANGED <<delivery, accepted, recipient>>

SuppressDelivery(w) ==
    LET d == worker[w].delivery
    IN  /\ worker[w].step = "suppress"
        /\ IF Waiting(d) \/ Processing(d)
           THEN Update(d, [delivery[d] EXCEPT !.status = "suppressed", !.stale = FALSE])
           ELSE UNCHANGED delivery
        /\ Continue(w)
        /\ UNCHANGED <<accepted, recipient>>

DeferForgetting(w) ==  \* mutant: the attempts start over
    LET d == worker[w].delivery
    IN  /\ worker[w].step = "defer"
        /\ IF Processing(d)
           THEN Update(d, [delivery[d] EXCEPT !.status = "retry_wait", !.due = FALSE,
                                              !.stale = FALSE, !.attempts = 0])
           ELSE UNCHANGED delivery
        /\ Continue(w)
        /\ UNCHANGED <<accepted, recipient>>

\* The claim did not count as an attempt.
DeferDelivery(w) ==
    LET d == worker[w].delivery
    IN  /\ worker[w].step = "defer"
        /\ IF Processing(d)
           THEN Update(d, [delivery[d] EXCEPT
                             !.status = "retry_wait", !.due = FALSE, !.stale = FALSE,
                             !.attempts = IF delivery[d].attempts > 0
                                          THEN delivery[d].attempts - 1 ELSE 0])
           ELSE UNCHANGED delivery
        /\ Continue(w)
        /\ UNCHANGED <<accepted, recipient>>

-----------------------------------------------------------------------------
(* The transports.                                                         *)

\* Resend drops a second request with the same idempotency key; Twilio gets none.
Accept(d, m) ==
    /\ IF ~IsSms(d) /\ accepted[d] # {} THEN m \in accepted[d]
       ELSE \A e \in Delivery : m \notin accepted[e]
    /\ accepted' = [accepted EXCEPT ![d] = accepted[d] \cup {m}]

Raise(w, terminal) ==
    worker' = [worker EXCEPT ![w] = [worker[w] EXCEPT !.step = "fail", !.terminal = terminal]]

SendAccepted(w, m) ==
    /\ worker[w].step = "send"
    /\ Accept(worker[w].delivery, m)
    /\ \E id \in {m, NULL} :  \* NULL: the answer carries no id
          worker' = [worker EXCEPT ![w] = [worker[w] EXCEPT !.step = "mark", !.message = id]]
    /\ UNCHANGED <<delivery, recipient>>

MarkUnknown(w) ==  \* mutant: no error means success
    /\ worker[w].step = "send"
    /\ Goto(w, "mark")
    /\ UNCHANGED <<delivery, accepted, recipient>>

\* No answer, or a 5xx: the provider may have accepted the message.  Only the
\* SMS transport calls that terminal.
SendUnknown(w) ==
    /\ worker[w].step = "send"
    /\ \/ \E m \in Message : Accept(worker[w].delivery, m)
       \/ UNCHANGED accepted
    /\ Raise(w, IsSms(worker[w].delivery))
    /\ UNCHANGED <<delivery, recipient>>

\* 429 is retryable, the other 4xx are terminal.
SendRejected(w) ==
    /\ worker[w].step = "send"
    /\ \E terminal \in BOOLEAN : Raise(w, terminal)
    /\ UNCHANGED <<delivery, accepted, recipient>>

\* Provider codes for STOP and for invalid numbers.
SendRefusedByRecipient(w) ==
    /\ worker[w].step = "send" /\ IsSms(worker[w].delivery)
    /\ Goto(w, "refused")
    /\ UNCHANGED <<delivery, accepted, recipient>>

\* Headers said accepted, but reading the body failed: the error of
\* response.text() is not a DeliveryTransportError, hence not terminal.
BodyLost(w) ==
    /\ worker[w].step = "send"
    /\ \E m \in Message : Accept(worker[w].delivery, m)
    /\ Raise(w, FALSE)
    /\ UNCHANGED <<delivery, recipient>>

-----------------------------------------------------------------------------
(* Opting out.                                                             *)

\* The UPDATE of suppressDestination spares the rows being processed.
SweepWaiting ==
    delivery' = [d \in Delivery |-> IF Waiting(d)
                                    THEN [delivery[d] EXCEPT !.status = "suppressed"]
                                    ELSE delivery[d]]

\* The catch block suppresses the destination before it fails the delivery.
RecordRefusal(w) ==
    /\ worker[w].step = "refused"
    /\ optedOut' = TRUE
    /\ Goto(w, "sweep")
    /\ UNCHANGED <<delivery, accepted, sweeping>>

SweepAfterRefusal(w) ==
    /\ worker[w].step = "sweep"
    /\ SweepWaiting
    /\ Raise(w, TRUE)
    /\ UNCHANGED <<accepted, recipient>>

\* Requests that opt out, one at a time: by settings the consent is withdrawn and
\* nothing else; a STOP, an unsubscribe link, a bounce suppress the destination.
OptOut ==
    /\ ~sweeping
    /\ optedOut' = TRUE
    /\ sweeping' \in BOOLEAN
    /\ UNCHANGED <<delivery, worker, accepted>>

\* The second statement, not in one transaction with the first, may fail.
SweepAfterOptOut ==
    /\ sweeping
    /\ SweepWaiting \/ UNCHANGED delivery
    /\ sweeping' = FALSE
    /\ UNCHANGED <<worker, accepted, optedOut>>

OptIn ==
    /\ optedOut
    /\ optedOut' = FALSE
    /\ worker' = [w \in Worker |-> [worker[w] EXCEPT !.wasOut = FALSE]]
    /\ UNCHANGED <<delivery, accepted, sweeping>>

-----------------------------------------------------------------------------
(* Recording the outcome.                                                  *)

MarkRow(w) ==
    LET d == worker[w].delivery
    IN  IF Processing(d)
        THEN Update(d, [delivery[d] EXCEPT !.status = "delivered", !.message = worker[w].message,
                                           !.rank = 1, !.stale = FALSE])
        ELSE UNCHANGED delivery

MarkDelivered(w) ==
    /\ worker[w].step = "mark"
    /\ MarkRow(w)
    /\ Continue(w)
    /\ UNCHANGED <<accepted, recipient>>

\* The statement fails, applied or not: it is in the same try block as the send.
MarkError(w) ==
    /\ worker[w].step = "mark"
    /\ MarkRow(w) \/ UNCHANGED delivery
    /\ Raise(w, FALSE)
    /\ UNCHANGED <<accepted, recipient>>

FailedStatusUnlimited(w) ==  \* mutant: only terminal errors end the delivery
    IF worker[w].terminal THEN "dead_letter" ELSE "retry_wait"

FailedStatus(w) ==
    IF worker[w].terminal \/ delivery[worker[w].delivery].attempts >= MaxAttempts
    THEN "dead_letter" ELSE "retry_wait"

AlwaysFails(d) == TRUE  \* mutant: the row is failed whatever became of it

MayFail(d) == Processing(d)

FailDelivery(w) ==
    LET d == worker[w].delivery
    IN  /\ worker[w].step = "fail"
        /\ IF MayFail(d)
           THEN Update(d, [delivery[d] EXCEPT !.status = FailedStatus(w),
                                              !.due = FALSE, !.stale = FALSE])
           ELSE UNCHANGED delivery
        /\ Continue(w)
        /\ UNCHANGED <<accepted, recipient>>

\* The process dies, or a query outside the try block rejects the handler.
Abort(w) ==
    /\ worker[w].step # "idle"
    /\ worker' = [worker EXCEPT ![w] = Ready("idle")]
    /\ UNCHANGED <<delivery, accepted, recipient>>

-----------------------------------------------------------------------------
(* Twilio's status callbacks: late, repeated and in any order.             *)

MayReconcile(d, m, rank) ==
    /\ delivery[d].message \in {NULL, m}
    /\ delivery[d].rank < rank
    /\ delivery[d].status # "suppressed"

Callback(d, m, rank) ==
    /\ IsSms(d) /\ m \in accepted[d] /\ MayReconcile(d, m, rank)
    /\ Update(d, [delivery[d] EXCEPT
                    !.status = IF rank = 2 THEN "failed" ELSE "delivered",
                    !.message = m, !.rank = rank, !.stale = FALSE])
    /\ UNCHANGED <<worker, accepted, recipient>>

-----------------------------------------------------------------------------
(* The clock.                                                              *)

BecomeDue(d) ==
    /\ Waiting(d) /\ ~delivery[d].due
    /\ Update(d, [delivery[d] EXCEPT !.due = TRUE])
    /\ UNCHANGED <<worker, accepted, recipient>>

GoStale(d) ==
    /\ Processing(d) /\ ~delivery[d].stale
    /\ Update(d, [delivery[d] EXCEPT !.stale = TRUE])
    /\ UNCHANGED <<worker, accepted, recipient>>

Policy(w) == Ineligible(w) \/ NotYet(w) \/ CheckConsent(w)

Sending(w) ==
    \/ SendUnknown(w) \/ SendRejected(w) \/ SendRefusedByRecipient(w) \/ BodyLost(w)
    \/ \E m \in Message : SendAccepted(w, m)

Recording(w) ==
    \/ RecordRefusal(w) \/ SweepAfterRefusal(w)
    \/ SuppressDelivery(w) \/ DeferDelivery(w) \/ MarkDelivered(w) \/ MarkError(w) \/ FailDelivery(w)

Environment ==
    \/ OptOut \/ SweepAfterOptOut \/ OptIn
    \/ \E d \in Delivery :
          \/ BecomeDue(d) \/ GoStale(d)
          \/ \E m \in Message, rank \in 1..3 : Callback(d, m, rank)

Next ==
    \/ \E w \in Worker :
          \/ RecoverStale(w) \/ EndLoop(w) \/ Policy(w) \/ Sending(w) \/ Recording(w) \/ Abort(w)
          \/ \E d \in Delivery : ClaimDue(w, d)
    \/ Environment

Spec == Init /\ [][Next]_vars

-----------------------------------------------------------------------------
(* Properties.                                                             *)

\* A row is shown as delivered only if a provider accepted its message, whichever
\* worker or callback wrote the status last.
DeliveredWasAccepted ==
    \A d \in Delivery :
        delivery[d].status = "delivered" =>
            /\ accepted[d] # {}
            /\ delivery[d].message \in accepted[d] \cup {NULL}

\* An SMS is accepted at most once for each attempt that is counted, so never more than
\* MaxAttempts times, though workers stall, defer late or cannot record what they sent.
\* An e-mail is accepted once: all its attempts carry one idempotency key.
SendsAreAttempts ==
    \A d \in Delivery :
        Cardinality(accepted[d]) <= IF IsSms(d) THEN delivery[d].attempts ELSE 1

\* A row that was taken out of the queue is not sent again: a stalled worker that
\* fails, defers or suppresses it late does not bring it back, and from then on
\* only the provider's own callbacks move it.
OutOfQueueStays ==
    [][\A d \in Delivery :
         delivery[d].status \in {"delivered", "failed", "suppressed", "dead_letter"} =>
            \/ delivery'[d].status = delivery[d].status
            \/ /\ IsSms(d) /\ delivery[d].status # "suppressed"
               /\ delivery'[d].status \in {"delivered", "failed"}
               /\ delivery'[d].rank > delivery[d].rank]_vars

\* alerts-watchlists.md:101, "a recent opt-out wins over an older queued
\* attempt": nothing is sent under a claim made while the recipient was opted
\* out, unless they opted in again.
OptOutWins ==
    [][\A d \in Delivery : accepted'[d] # accepted[d] =>
         \E w \in Worker : /\ worker[w].step = "send" /\ worker[w].delivery = d
                           /\ ~worker[w].wasOut]_vars

\* alerts.ts:1249, "SMS provider acceptance is unknown; manual reconciliation is
\* required before retry.": the program does not by itself send an SMS again that
\* the provider may have accepted.
SmsSentOnce == \A d \in Delivery : IsSms(d) => Cardinality(accepted[d]) <= 1

-----------------------------------------------------------------------------
(* Fairness: the recurring job keeps running processDue, calls return (the  *)
(* transports time out), clocks advance.  Claims need strong fairness: a    *)
(* row stops being claimable whenever the worker stops in mid-loop.         *)
Fairness ==
    /\ \A w \in Worker :
          /\ WF_vars(RecoverStale(w)) /\ WF_vars(EndLoop(w))
          /\ WF_vars(Policy(w)) /\ WF_vars(Sending(w)) /\ WF_vars(Recording(w))
    /\ \A d \in Delivery :
          /\ WF_vars(BecomeDue(d)) /\ WF_vars(GoStale(d))
          /\ SF_vars(\E w \in Worker : ClaimDue(w, d))

FairSpec == Spec /\ Fairness

\* Quiet hours end and cadences elapse.
NoMoreDeferral == <>[][\A w \in Worker : ~DeferDelivery(w)]_vars

\* Every delivery comes to an end, even if workers stop in the middle of it again
\* and again: the attempts run out (recoverStaleDeliveryClaims).
DeliverySettles ==
    NoMoreDeferral =>
        \A d \in Delivery : <>(delivery[d].status \in {"delivered", "failed", "suppressed", "dead_letter"})
=============================================================================
