------------------------ MODULE AlertDeliveryProofs ------------------------
(***************************************************************************)
(* Proofs about AlertDelivery, for any deliveries, workers, messages and    *)
(* attempt limit.  A row's status is only guarded by 'processing', so the   *)
(* invariant does not say whose claim it is: it says that each way into the *)
(* queue leaves an attempt, and that what a worker is about to mark as      *)
(* delivered was accepted, whoever has claimed the row since.               *)
(***************************************************************************)
EXTENDS AlertDelivery, FiniteSetTheorems, TLAPS

USE DEF recipient

\* Between a claim and its outcome a worker knows which row it works on.
HasDelivery ==
    \A w \in Worker : worker[w].step \notin {"idle", "loop"} => worker[w].delivery \in Delivery

\* A worker marks only what its own request got accepted.
MarksAccepted ==
    \A w \in Worker : worker[w].step = "mark" =>
        /\ accepted[worker[w].delivery] # {}
        /\ worker[w].message \in accepted[worker[w].delivery] \cup {NULL}

\* A row that will be claimed again has attempts left, so that attempt_count
\* never passes the limit, though any worker's late failure, deferral or recovery
\* may move the row (alerts-watchlists.md:113, "default dead letter after five
\* failed attempts").
WaitingHasAttemptsLeft ==
    \A d \in Delivery : Waiting(d) => delivery[d].attempts < MaxAttempts

IInv ==
    /\ TypeOK /\ WaitingHasAttemptsLeft /\ DeliveredWasAccepted
    /\ HasDelivery /\ MarksAccepted

LEMMA ReadyTyped ==
  ASSUME NEW step \in WorkerStep
  PROVE  Ready(step) \in WorkerState /\ Ready(step).step = step
  BY DEF Ready, WorkerState

LEMMA InitIInv == Init => IInv
<1> SUFFICES ASSUME Init PROVE IInv
  OBVIOUS
<1>1. PICK channel \in {"email", "sms"} :
        delivery = [d \in Delivery |->
                      [channel |-> channel, status |-> "queued", due |-> FALSE,
                       stale |-> FALSE, attempts |-> 0, message |-> NULL, rank |-> 0]]
  BY DEF Init
<1>2. delivery \in [Delivery -> Row] /\ \A d \in Delivery : delivery[d].attempts < MaxAttempts
  BY <1>1, ConstantsOK DEF Row, Status, Rank
<1>3. worker \in [Worker -> WorkerState] /\ \A w \in Worker : worker[w].step = "idle"
  BY ReadyTyped DEF Init, WorkerStep
<1>4. \A d \in Delivery : delivery[d].status = "queued"
  BY <1>1
<1>. QED
  BY <1>2, <1>3, <1>4 DEF Init, IInv, TypeOK, WaitingHasAttemptsLeft, DeliveredWasAccepted,
     HasDelivery, MarksAccepted

-----------------------------------------------------------------------------
(* The effect of a step on the rows, and on the workers.                   *)

\* What one row may become: typed, of the same channel, with attempts left if it
\* waits, and delivered only with something accepted.
RowMove(d, row) ==
    /\ row \in Row /\ row.channel = delivery[d].channel
    /\ row.status \in {"queued", "retry_wait"} => row.attempts < MaxAttempts
    /\ row.status = "delivered" => accepted[d] # {} /\ row.message \in accepted[d] \cup {NULL}

\* A row out of the queue keeps its status, unless a later callback changes it.
RowStays(d, row) ==
    delivery[d].status \in {"delivered", "failed", "suppressed", "dead_letter"} =>
        \/ row.status = delivery[d].status
        \/ /\ IsSms(d) /\ delivery[d].status # "suppressed"
           /\ row.status \in {"delivered", "failed"}
           /\ row.rank > delivery[d].rank

RowsMove ==
    /\ delivery' \in [Delivery -> Row]
    /\ \A d \in Delivery : RowMove(d, delivery'[d]) /\ RowStays(d, delivery'[d])

\* What one worker may become.
WorkersMove ==
    /\ worker' \in [Worker -> WorkerState]
    /\ \A w \in Worker :
          /\ worker'[w].step \notin {"idle", "loop"} => worker'[w].delivery \in Delivery
          /\ worker'[w].step = "mark" =>
                /\ accepted'[worker'[w].delivery] # {}
                /\ worker'[w].message \in accepted'[worker'[w].delivery] \cup {NULL}

RecipientTyped == optedOut \in BOOLEAN /\ sweeping \in BOOLEAN
USE DEF RecipientTyped

AcceptedGrows ==
    /\ accepted' \in [Delivery -> SUBSET Message]
    /\ \A d \in Delivery : accepted[d] \subseteq accepted'[d]

\* Rows and workers that move this way keep the invariant.
LEMMA MovesIInv ==
  ASSUME IInv, RowsMove, WorkersMove, AcceptedGrows, RecipientTyped'
  PROVE  IInv'
<1>1. TypeOK'
  BY DEF RowsMove, WorkersMove, AcceptedGrows, TypeOK
<1>2. WaitingHasAttemptsLeft'
  BY DEF RowsMove, RowMove, WaitingHasAttemptsLeft, Waiting
<1>3. DeliveredWasAccepted'
  BY DEF RowsMove, RowMove, AcceptedGrows, DeliveredWasAccepted
<1>4. HasDelivery' /\ MarksAccepted'
  BY DEF WorkersMove, HasDelivery, MarksAccepted
<1>. QED
  BY <1>1, <1>2, <1>3, <1>4 DEF IInv

\* Nothing happens to the rows.
LEMMA SameRows ==
  ASSUME IInv, delivery' = delivery
  PROVE  RowsMove
  BY DEF IInv, TypeOK, WaitingHasAttemptsLeft, DeliveredWasAccepted, Waiting,
     RowsMove, RowMove, RowStays

\* One row is updated.
LEMMA OneRow ==
  ASSUME IInv, NEW d \in Delivery, NEW row, Update(d, row), RowMove(d, row), RowStays(d, row)
  PROVE  RowsMove
<1>1. delivery' = [delivery EXCEPT ![d] = row] /\ row \in Row /\ delivery \in [Delivery -> Row]
  BY DEF Update, RowMove, IInv, TypeOK
<1>2. delivery' \in [Delivery -> Row]
  BY <1>1
<1>3. \A e \in Delivery : delivery'[e] = IF e = d THEN row ELSE delivery[e]
  BY <1>1
<1>4. \A e \in Delivery : RowMove(e, delivery[e]) /\ RowStays(e, delivery[e])
  BY DEF IInv, TypeOK, WaitingHasAttemptsLeft, DeliveredWasAccepted, Waiting, RowMove, RowStays
<1>. QED
  BY <1>2, <1>3, <1>4 DEF RowsMove

\* Nothing happens to the workers, while messages may be accepted.
LEMMA SameWorkers ==
  ASSUME IInv, AcceptedGrows, worker' = worker
  PROVE  WorkersMove
  BY DEF IInv, TypeOK, HasDelivery, MarksAccepted, AcceptedGrows, WorkersMove

\* One worker moves on.
LEMMA OneWorker ==
  ASSUME IInv, AcceptedGrows, NEW w \in Worker, NEW s \in WorkerState,
         worker' = [worker EXCEPT ![w] = s],
         s.step \notin {"idle", "loop"} => s.delivery \in Delivery,
         s.step = "mark" => /\ accepted'[s.delivery] # {}
                            /\ s.message \in accepted'[s.delivery] \cup {NULL}
  PROVE  WorkersMove
<1>1. worker' \in [Worker -> WorkerState]
  BY DEF IInv, TypeOK
<1>2. \A v \in Worker : worker'[v] = IF v = w THEN s ELSE worker[v]
  BY DEF IInv, TypeOK
<1>3. \A v \in Worker : worker[v].step = "mark" => worker[v].delivery \in Delivery
  BY DEF IInv, HasDelivery
<1>. QED
  BY <1>1, <1>2, <1>3 DEF IInv, HasDelivery, MarksAccepted, AcceptedGrows, WorkersMove

LEMMA SameAccepted ==
  ASSUME IInv, accepted' = accepted
  PROVE  AcceptedGrows
  BY DEF IInv, TypeOK, AcceptedGrows

LEMMA MoreAccepted ==
  ASSUME IInv, NEW d \in Delivery, NEW m \in Message, Accept(d, m)
  PROVE  AcceptedGrows /\ m \in accepted'[d]
  BY DEF IInv, TypeOK, Accept, AcceptedGrows

\* A worker in the middle of a delivery is typed, and knows its row.
LEMMA BusyWorker ==
  ASSUME IInv, NEW w \in Worker, worker[w].step \notin {"idle", "loop"}
  PROVE  /\ worker[w].delivery \in Delivery /\ worker[w] \in WorkerState
         /\ delivery[worker[w].delivery] \in Row
         /\ delivery \in [Delivery -> Row] /\ optedOut \in BOOLEAN
  BY DEF IInv, TypeOK, HasDelivery

LEMMA ContinueMoves ==
  ASSUME IInv, AcceptedGrows, NEW w \in Worker, NEW step \in {"idle", "loop"},
         worker' = [worker EXCEPT ![w] = Ready(step)]
  PROVE  WorkersMove
<1>1. Ready(step) \in WorkerState /\ Ready(step).step = step
  BY ReadyTyped DEF WorkerStep
<1>. QED
  BY <1>1, OneWorker

LEMMA GotoMoves ==
  ASSUME IInv, AcceptedGrows, NEW w \in Worker, worker[w].step \notin {"idle", "loop"},
         NEW step \in WorkerStep \ {"mark"}, Goto(w, step)
  PROVE  WorkersMove
<1> DEFINE s == [worker[w] EXCEPT !.step = step]
<1>1. s \in WorkerState /\ s.step = step /\ s.delivery \in Delivery
  BY BusyWorker DEF WorkerState
<1>2. worker' = [worker EXCEPT ![w] = s]
  BY DEF Goto
<1>3. step # "mark"
  OBVIOUS
<1> HIDE DEF s
<1>. QED
  BY <1>1, <1>2, <1>3, OneWorker

LEMMA RaiseMoves ==
  ASSUME IInv, AcceptedGrows, NEW w \in Worker, worker[w].step \notin {"idle", "loop"},
         NEW terminal \in BOOLEAN, Raise(w, terminal)
  PROVE  WorkersMove
<1> DEFINE s == [worker[w] EXCEPT !.step = "fail", !.terminal = terminal]
<1>1. s \in WorkerState /\ s.step = "fail" /\ s.delivery \in Delivery
  BY BusyWorker DEF WorkerState, WorkerStep
<1>2. worker' = [worker EXCEPT ![w] = s]
  BY DEF Raise
<1> HIDE DEF s
<1>. QED
  BY <1>1, <1>2, OneWorker

-----------------------------------------------------------------------------
(* One lemma per group of actions.                                         *)

\* What every step does, in the terms of MovesIInv.
Moves == RowsMove /\ WorkersMove /\ AcceptedGrows /\ RecipientTyped'

LEMMA RecoverStaleMoves ==
  ASSUME IInv, NEW w \in Worker, RecoverStale(w)
  PROVE  Moves
<1>1. AcceptedGrows /\ RecipientTyped'
  BY SameAccepted DEF RecoverStale, IInv, TypeOK
<1>2. WorkersMove
  BY <1>1, ContinueMoves DEF RecoverStale, Continue
<1>3. RowsMove
  <2> DEFINE row(d) == [delivery[d] EXCEPT !.status = RecoveredStatus(d),
                                           !.due = TRUE, !.stale = FALSE]
  <2>1. delivery \in [Delivery -> Row]
    BY DEF IInv, TypeOK
  <2>2. \A d \in Delivery : Processing(d) => RowMove(d, row(d)) /\ RowStays(d, row(d))
    <3> SUFFICES ASSUME NEW d \in Delivery, Processing(d)
                 PROVE  RowMove(d, row(d)) /\ RowStays(d, row(d))
      OBVIOUS
    <3>1. RecoveredStatus(d) \in {"failed", "dead_letter", "retry_wait"}
      BY DEF RecoveredStatus
    <3>2. RecoveredStatus(d) = "retry_wait" => delivery[d].attempts < MaxAttempts
      BY <2>1, ConstantsOK DEF RecoveredStatus, Row
    <3>3. delivery[d].status = "processing"
      BY DEF Processing
    <3>4. row(d) \in Row /\ row(d).channel = delivery[d].channel
          /\ row(d).status = RecoveredStatus(d) /\ row(d).attempts = delivery[d].attempts
      BY <2>1, <3>1 DEF Row, Status
    <3>. QED
      BY <3>1, <3>2, <3>3, <3>4 DEF RowMove, RowStays
  <2>3. \A d \in Delivery : RowMove(d, delivery[d]) /\ RowStays(d, delivery[d])
    BY DEF IInv, TypeOK, WaitingHasAttemptsLeft, DeliveredWasAccepted, Waiting, RowMove, RowStays
  <2>4. delivery' = [d \in Delivery |-> IF Processing(d) /\ delivery[d].stale
                                        THEN row(d) ELSE delivery[d]]
    BY DEF RecoverStale
  <2> HIDE DEF row
  <2>5. \A d \in Delivery : RowMove(d, delivery'[d]) /\ RowStays(d, delivery'[d])
    BY <2>2, <2>3, <2>4
  <2>6. delivery' \in [Delivery -> Row]
    BY <2>4, <2>5 DEF RowMove
  <2>. QED
    BY <2>5, <2>6 DEF RowsMove
<1>. QED
  BY <1>1, <1>2, <1>3 DEF Moves

LEMMA ClaimDueMoves ==
  ASSUME IInv, NEW w \in Worker, NEW d \in Delivery, ClaimDue(w, d)
  PROVE  Moves
<1>1. AcceptedGrows /\ RecipientTyped' /\ optedOut \in BOOLEAN
  BY SameAccepted DEF ClaimDue, IInv, TypeOK
<1>2. WorkersMove
  <2> DEFINE s == [Ready("claimed") EXCEPT !.delivery = d, !.wasOut = optedOut]
  <2>1. s \in WorkerState /\ s.step = "claimed" /\ s.delivery = d
    BY <1>1 DEF Ready, WorkerState, WorkerStep
  <2>2. worker' = [worker EXCEPT ![w] = s]
    BY DEF ClaimDue
  <2> HIDE DEF s
  <2>. QED
    BY <1>1, <2>1, <2>2, OneWorker
<1>3. RowsMove
  <2> DEFINE row == [delivery[d] EXCEPT !.status = "processing", !.stale = FALSE,
                                        !.attempts = delivery[d].attempts + 1]
  <2>1. delivery[d] \in Row /\ delivery[d].attempts < MaxAttempts
    BY DEF IInv, TypeOK, WaitingHasAttemptsLeft, ClaimDue
  <2>2. delivery[d].attempts + 1 \in 0..MaxAttempts
    BY <2>1, ConstantsOK DEF Row
  <2>3. RowMove(d, row) /\ RowStays(d, row)
    BY <2>1, <2>2 DEF RowMove, RowStays, Row, Status, ClaimDue, Waiting
  <2>4. Update(d, row)
    BY DEF ClaimDue
  <2> HIDE DEF row
  <2>. QED
    BY <2>3, <2>4, OneRow
<1>. QED
  BY <1>1, <1>2, <1>3 DEF Moves

LEMMA LoopMoves ==
  ASSUME IInv, NEW w \in Worker, EndLoop(w) \/ Abort(w)
  PROVE  Moves
<1>1. AcceptedGrows /\ RowsMove /\ RecipientTyped'
  BY SameAccepted, SameRows DEF EndLoop, Abort, IInv, TypeOK
<1>2. WorkersMove
  BY <1>1, ContinueMoves DEF EndLoop, Abort
<1>. QED
  BY <1>1, <1>2 DEF Moves

LEMMA PolicyMoves ==
  ASSUME IInv, NEW w \in Worker, Policy(w)
  PROVE  Moves
<1>1. AcceptedGrows /\ RowsMove /\ RecipientTyped'
  BY SameAccepted, SameRows DEF Policy, Ineligible, NotYet, CheckConsent, IInv, TypeOK
<1>2. worker[w].step = "claimed" /\ \E step \in {"suppress", "defer", "send"} : Goto(w, step)
  BY DEF Policy, Ineligible, NotYet, CheckConsent
<1>3. WorkersMove
  BY <1>1, <1>2, GotoMoves DEF WorkerStep
<1>. QED
  BY <1>1, <1>3 DEF Moves

LEMMA SendAcceptedMoves ==
  ASSUME IInv, NEW w \in Worker, NEW m \in Message, SendAccepted(w, m)
  PROVE  Moves
<1> DEFINE d == worker[w].delivery
<1>1. d \in Delivery /\ worker[w] \in WorkerState
  BY BusyWorker DEF SendAccepted
<1>2. AcceptedGrows /\ m \in accepted'[d]
  BY <1>1, MoreAccepted DEF SendAccepted
<1>3. WorkersMove
  <2>1. PICK id \in {m, NULL} :
          worker' = [worker EXCEPT ![w] = [worker[w] EXCEPT !.step = "mark", !.message = id]]
    BY DEF SendAccepted
  <2> DEFINE s == [worker[w] EXCEPT !.step = "mark", !.message = id]
  <2>2. s \in WorkerState /\ s.delivery = d /\ s.message = id
    BY <1>1 DEF WorkerState, WorkerStep
  <2>3. accepted'[s.delivery] # {} /\ s.message \in accepted'[s.delivery] \cup {NULL}
    BY <1>2, <2>2
  <2>4. worker' = [worker EXCEPT ![w] = s]
    BY <2>1
  <2>5. s.delivery \in Delivery
    BY <1>1, <2>2
  <2> HIDE DEF s
  <2>. QED
    BY <1>2, <2>2, <2>3, <2>4, <2>5, OneWorker
<1>4. RowsMove /\ RecipientTyped'
  BY SameRows DEF SendAccepted, IInv, TypeOK
<1>. QED
  BY <1>2, <1>3, <1>4 DEF Moves

LEMMA SendRaisesMoves ==
  ASSUME IInv, NEW w \in Worker,
         SendUnknown(w) \/ SendRejected(w) \/ BodyLost(w)
  PROVE  Moves
<1>1. worker[w].step = "send" /\ worker[w].delivery \in Delivery
  BY BusyWorker DEF SendUnknown, SendRejected, BodyLost
<1>2. AcceptedGrows
  BY <1>1, MoreAccepted, SameAccepted DEF SendUnknown, SendRejected, BodyLost
<1>3. \E terminal \in BOOLEAN : Raise(w, terminal)
  BY DEF SendUnknown, SendRejected, BodyLost, IsSms
<1>4. WorkersMove
  BY <1>1, <1>2, <1>3, RaiseMoves
<1>5. RowsMove /\ RecipientTyped'
  BY SameRows DEF SendUnknown, SendRejected, BodyLost, IInv, TypeOK
<1>. QED
  BY <1>2, <1>4, <1>5 DEF Moves

\* The waiting rows leave the queue.
LEMMA SweepMoves ==
  ASSUME IInv, SweepWaiting
  PROVE  RowsMove
<1> DEFINE row(d) == [delivery[d] EXCEPT !.status = "suppressed"]
<1>1. delivery \in [Delivery -> Row]
  BY DEF IInv, TypeOK
<1>2. \A d \in Delivery : Waiting(d) => RowMove(d, row(d)) /\ RowStays(d, row(d))
  BY <1>1 DEF RowMove, RowStays, Row, Status, Waiting
<1>3. \A d \in Delivery : RowMove(d, delivery[d]) /\ RowStays(d, delivery[d])
  BY DEF IInv, TypeOK, WaitingHasAttemptsLeft, DeliveredWasAccepted, Waiting, RowMove, RowStays
<1>4. delivery' = [d \in Delivery |-> IF Waiting(d) THEN row(d) ELSE delivery[d]]
  BY DEF SweepWaiting
<1> HIDE DEF row
<1>5. \A d \in Delivery : RowMove(d, delivery'[d]) /\ RowStays(d, delivery'[d])
  BY <1>2, <1>3, <1>4
<1>6. delivery' \in [Delivery -> Row]
  BY <1>4, <1>5 DEF RowMove
<1>. QED
  BY <1>5, <1>6 DEF RowsMove

LEMMA RefusalMoves ==
  ASSUME IInv, NEW w \in Worker,
         SendRefusedByRecipient(w) \/ RecordRefusal(w) \/ SweepAfterRefusal(w)
  PROVE  Moves
<1>1. worker[w].step \in {"send", "refused", "sweep"}
  BY DEF SendRefusedByRecipient, RecordRefusal, SweepAfterRefusal
<1>2. AcceptedGrows /\ RecipientTyped'
  BY SameAccepted DEF SendRefusedByRecipient, RecordRefusal, SweepAfterRefusal, IInv, TypeOK
<1>3. Goto(w, "refused") \/ Goto(w, "sweep") \/ Raise(w, TRUE)
  BY DEF SendRefusedByRecipient, RecordRefusal, SweepAfterRefusal
<1>4. WorkersMove
  BY <1>1, <1>2, <1>3, GotoMoves, RaiseMoves DEF WorkerStep
<1>5. RowsMove
  BY SameRows, SweepMoves DEF SendRefusedByRecipient, RecordRefusal, SweepAfterRefusal
<1>. QED
  BY <1>2, <1>4, <1>5 DEF Moves

LEMMA SuppressMoves ==
  ASSUME IInv, NEW w \in Worker, SuppressDelivery(w)
  PROVE  Moves
<1> DEFINE d == worker[w].delivery
           row == [delivery[d] EXCEPT !.status = "suppressed", !.stale = FALSE]
<1>1. AcceptedGrows /\ RecipientTyped'
  BY SameAccepted DEF SuppressDelivery, IInv, TypeOK
<1>2. WorkersMove
  BY <1>1, ContinueMoves DEF SuppressDelivery, Continue
<1>3. d \in Delivery /\ delivery[d] \in Row
  BY BusyWorker DEF SuppressDelivery
<1>4. RowMove(d, row)
  BY <1>3 DEF RowMove, Row, Status
<1>5. Waiting(d) \/ Processing(d) => Update(d, row) /\ RowStays(d, row)
  BY DEF SuppressDelivery, Waiting, Processing, RowStays
<1>6. ~(Waiting(d) \/ Processing(d)) => delivery' = delivery
  BY DEF SuppressDelivery
<1> HIDE DEF d, row
<1>7. RowsMove
  BY <1>3, <1>4, <1>5, <1>6, OneRow, SameRows
<1>. QED
  BY <1>1, <1>2, <1>7 DEF Moves

LEMMA DeferMoves ==
  ASSUME IInv, NEW w \in Worker, DeferDelivery(w)
  PROVE  Moves
<1> DEFINE d == worker[w].delivery
           n == IF delivery[d].attempts > 0 THEN delivery[d].attempts - 1 ELSE 0
           row == [delivery[d] EXCEPT !.status = "retry_wait", !.due = FALSE,
                                      !.stale = FALSE, !.attempts = n]
<1>1. AcceptedGrows /\ RecipientTyped'
  BY SameAccepted DEF DeferDelivery, IInv, TypeOK
<1>2. WorkersMove
  BY <1>1, ContinueMoves DEF DeferDelivery, Continue
<1>3. d \in Delivery /\ delivery[d] \in Row
  BY BusyWorker DEF DeferDelivery
<1>4. n \in 0..MaxAttempts /\ n < MaxAttempts
  BY <1>3, ConstantsOK DEF Row
<1>5. Processing(d) => Update(d, row)
  BY DEF DeferDelivery
<1>6. ~Processing(d) => delivery' = delivery
  BY DEF DeferDelivery
<1>7. RowMove(d, row) /\ (Processing(d) => RowStays(d, row))
  <2> HIDE DEF d, n
  <2>. QED
    BY <1>3, <1>4 DEF RowMove, Row, Status, Processing, RowStays
<1> HIDE DEF d, row
<1>8. RowsMove
  BY <1>3, <1>5, <1>6, <1>7, OneRow, SameRows
<1>. QED
  BY <1>1, <1>2, <1>8 DEF Moves

\* MarksAccepted: the message is accepted although the row may be another's claim.
LEMMA MarkRowMoves ==
  ASSUME IInv, NEW w \in Worker, worker[w].step = "mark", MarkRow(w) \/ UNCHANGED delivery
  PROVE  RowsMove
<1> DEFINE d == worker[w].delivery
           row == [delivery[d] EXCEPT !.status = "delivered", !.message = worker[w].message,
                                      !.rank = 1, !.stale = FALSE]
<1>1. d \in Delivery /\ delivery[d] \in Row /\ worker[w].message \in Message \cup {NULL}
  BY BusyWorker DEF WorkerState
<1>2. accepted[d] # {} /\ worker[w].message \in accepted[d] \cup {NULL}
  BY DEF IInv, MarksAccepted
<1>3. delivery' = delivery \/ (Processing(d) /\ Update(d, row))
  BY DEF MarkRow
<1>4. RowMove(d, row) /\ (Processing(d) => RowStays(d, row))
  <2> HIDE DEF d
  <2>1. /\ row \in Row /\ row.channel = delivery[d].channel /\ row.status = "delivered"
        /\ row.message = worker[w].message
    <3> DEFINE old == delivery[d]
               id == worker[w].message
    <3>1. old \in Row /\ id \in Message \cup {NULL} /\ "delivered" \in Status /\ 1 \in Rank
      BY <1>1 DEF Status, Rank
    <3>2. row = [old EXCEPT !.status = "delivered", !.message = id, !.rank = 1, !.stale = FALSE]
      OBVIOUS
    <3> HIDE DEF old, id, row
    <3>3. row \in Row /\ row.channel = old.channel /\ row.status = "delivered" /\ row.message = id
      BY <3>1, <3>2 DEF Row
    <3>. QED
      BY <3>3 DEF old, id
  <2> HIDE DEF row
  <2>. QED
    BY <1>2, <2>1 DEF RowMove, Processing, RowStays
<1> HIDE DEF d, row
<1>. QED
  BY <1>1, <1>3, <1>4, OneRow, SameRows

LEMMA MarkMoves ==
  ASSUME IInv, NEW w \in Worker, MarkDelivered(w) \/ MarkError(w)
  PROVE  Moves
<1>1. AcceptedGrows /\ RecipientTyped'
  BY SameAccepted DEF MarkDelivered, MarkError, IInv, TypeOK
<1>2. WorkersMove
  BY <1>1, ContinueMoves, RaiseMoves DEF MarkDelivered, MarkError, Continue
<1>3. RowsMove
  BY MarkRowMoves DEF MarkDelivered, MarkError
<1>. QED
  BY <1>1, <1>2, <1>3 DEF Moves

LEMMA FailMoves ==
  ASSUME IInv, NEW w \in Worker, FailDelivery(w)
  PROVE  Moves
<1> DEFINE d == worker[w].delivery
           row == [delivery[d] EXCEPT !.status = FailedStatus(w), !.due = FALSE, !.stale = FALSE]
<1>1. AcceptedGrows /\ RecipientTyped'
  BY SameAccepted DEF FailDelivery, IInv, TypeOK
<1>2. WorkersMove
  BY <1>1, ContinueMoves DEF FailDelivery, Continue
<1>3. d \in Delivery /\ delivery[d] \in Row
  BY BusyWorker DEF FailDelivery
<1>4. FailedStatus(w) \in {"dead_letter", "retry_wait"}
      /\ (FailedStatus(w) = "retry_wait" => delivery[d].attempts < MaxAttempts)
  BY <1>3, ConstantsOK DEF FailedStatus, Row
<1>5. delivery' = delivery \/ (Processing(d) /\ Update(d, row))
  BY DEF FailDelivery, MayFail
<1>6. RowMove(d, row) /\ (Processing(d) => RowStays(d, row))
  <2> HIDE DEF d
  <2>. QED
    BY <1>3, <1>4 DEF RowMove, Row, Status, Processing, RowStays
<1> HIDE DEF d, row
<1>7. RowsMove
  BY <1>3, <1>5, <1>6, OneRow, SameRows
<1>. QED
  BY <1>1, <1>2, <1>7 DEF Moves

LEMMA CallbackMoves ==
  ASSUME IInv, NEW d \in Delivery, NEW m \in Message, NEW rank \in 1..3, Callback(d, m, rank)
  PROVE  Moves
<1> DEFINE row == [delivery[d] EXCEPT !.status = IF rank = 2 THEN "failed" ELSE "delivered",
                                      !.message = m, !.rank = rank, !.stale = FALSE]
<1>1. AcceptedGrows /\ RecipientTyped'
  BY SameAccepted DEF Callback, IInv, TypeOK
<1>2. WorkersMove
  BY <1>1, SameWorkers DEF Callback
<1>3. delivery[d] \in Row /\ m \in accepted[d] /\ IsSms(d) /\ Update(d, row)
      /\ delivery[d].rank < rank /\ delivery[d].status # "suppressed"
  BY DEF IInv, TypeOK, Callback, MayReconcile
<1>4. /\ row \in Row /\ row.channel = delivery[d].channel
      /\ row.status \in {"failed", "delivered"} /\ row.rank = rank /\ row.message = m
  <2> DEFINE status == IF rank = 2 THEN "failed" ELSE "delivered"
  <2>1. status \in Status /\ status \in {"failed", "delivered"} /\ rank \in Rank
    BY DEF Status, Rank
  <2> HIDE DEF status
  <2>. QED
    <3> DEFINE old == delivery[d]
    <3>1. old \in Row /\ m \in Message \cup {NULL}
      BY <1>3
    <3>2. row = [old EXCEPT !.status = status, !.message = m, !.rank = rank, !.stale = FALSE]
      BY DEF status
    <3> HIDE DEF old, row
    <3>3. /\ row \in Row /\ row.channel = old.channel /\ row.status = status
          /\ row.message = m /\ row.rank = rank
      BY <2>1, <3>1, <3>2 DEF Row
    <3>. QED
      BY <2>1, <3>3 DEF old
<1> HIDE DEF row
<1>5. RowMove(d, row)
  BY <1>3, <1>4 DEF RowMove
<1>6. RowStays(d, row)
  BY <1>3, <1>4 DEF RowStays
<1>7. RowsMove
  BY <1>3, <1>5, <1>6, OneRow
<1>. QED
  BY <1>1, <1>2, <1>7 DEF Moves

LEMMA ClockMoves ==
  ASSUME IInv, NEW d \in Delivery, BecomeDue(d) \/ GoStale(d)
  PROVE  Moves
<1>1. AcceptedGrows /\ RecipientTyped'
  BY SameAccepted DEF BecomeDue, GoStale, IInv, TypeOK
<1>2. WorkersMove
  BY <1>1, SameWorkers DEF BecomeDue, GoStale
<1>3. RowMove(d, delivery[d]) /\ RowStays(d, delivery[d]) /\ delivery[d] \in Row
  BY DEF IInv, TypeOK, WaitingHasAttemptsLeft, DeliveredWasAccepted, Waiting, RowMove, RowStays
<1>4. PICK row : Update(d, row) /\ row \in {[delivery[d] EXCEPT !.due = TRUE],
                                            [delivery[d] EXCEPT !.stale = TRUE]}
  BY DEF BecomeDue, GoStale
<1>5. /\ row \in Row /\ row.channel = delivery[d].channel /\ row.status = delivery[d].status
      /\ row.attempts = delivery[d].attempts /\ row.message = delivery[d].message
  BY <1>3, <1>4 DEF Row
<1>6. RowMove(d, row) /\ RowStays(d, row)
  BY <1>3, <1>5 DEF RowMove, RowStays
<1>7. RowsMove
  BY <1>4, <1>6, OneRow
<1>. QED
  BY <1>1, <1>2, <1>7 DEF Moves

LEMMA RecipientMoves ==
  ASSUME IInv, OptOut \/ SweepAfterOptOut \/ OptIn
  PROVE  Moves
<1>1. AcceptedGrows /\ RowsMove /\ RecipientTyped'
  BY SameAccepted, SameRows, SweepMoves DEF OptOut, SweepAfterOptOut, OptIn, IInv, TypeOK
<1>2. CASE OptOut \/ SweepAfterOptOut
  BY <1>1, <1>2, SameWorkers DEF OptOut, SweepAfterOptOut, Moves
<1>3. CASE OptIn
  <2>1. worker' = [w \in Worker |-> [worker[w] EXCEPT !.wasOut = FALSE]]
    BY <1>3 DEF OptIn
  <2>2. \A w \in Worker :
          /\ worker'[w] \in WorkerState /\ worker'[w].step = worker[w].step
          /\ worker'[w].delivery = worker[w].delivery /\ worker'[w].message = worker[w].message
    BY <2>1 DEF IInv, TypeOK, WorkerState
  <2>3. worker' \in [Worker -> WorkerState]
    BY <2>1, <2>2
  <2>4. accepted' = accepted
    BY <1>3 DEF OptIn
  <2>. QED
    BY <1>1, <2>2, <2>3, <2>4 DEF IInv, HasDelivery, MarksAccepted, WorkersMove, Moves
<1>. QED
  BY <1>2, <1>3

LEMMA NextMoves ==
  ASSUME IInv, Next
  PROVE  Moves
<1>1. ASSUME NEW w \in Worker, Sending(w) PROVE Moves
  BY <1>1, SendAcceptedMoves, SendRaisesMoves, RefusalMoves DEF Sending
<1>2. ASSUME NEW w \in Worker, Recording(w) PROVE Moves
  BY <1>2, RefusalMoves, SuppressMoves, DeferMoves, MarkMoves, FailMoves DEF Recording
<1>3. ASSUME Environment PROVE Moves
  BY <1>3, RecipientMoves, ClockMoves, CallbackMoves DEF Environment
<1>. QED
  BY <1>1, <1>2, <1>3, RecoverStaleMoves, LoopMoves, PolicyMoves, ClaimDueMoves DEF Next

LEMMA NextIInv == IInv /\ [Next]_vars => IInv'
<1>1. IInv /\ Next => IInv'
  BY NextMoves, MovesIInv DEF Moves
<1>2. IInv /\ UNCHANGED vars => IInv'
  BY DEF vars, IInv, TypeOK, WaitingHasAttemptsLeft, Waiting, DeliveredWasAccepted,
     HasDelivery, MarksAccepted
<1>. QED
  BY <1>1, <1>2

-----------------------------------------------------------------------------
(* The theorems.                                                           *)

\* The inductive invariant holds in every reachable state.
THEOREM Inductive == Spec => []IInv
  BY InitIInv, NextIInv, PTL DEF Spec

\* Every row, worker and message set stays within its type: in particular
\* attempt_count stays within 0..MaxAttempts, whoever claims, defers or recovers.
THEOREM TypeCorrect == Spec => []TypeOK
<1>1. IInv => TypeOK
  BY DEF IInv
<1>. QED
  BY <1>1, Inductive, PTL

\* A row that waits for a claim has attempts left.
THEOREM AttemptsBounded == Spec => []WaitingHasAttemptsLeft
<1>1. IInv => WaitingHasAttemptsLeft
  BY DEF IInv
<1>. QED
  BY <1>1, Inductive, PTL

\* What is shown as delivered was accepted by a provider.
THEOREM DeliveredAccepted == Spec => []DeliveredWasAccepted
<1>1. IInv => DeliveredWasAccepted
  BY DEF IInv
<1>. QED
  BY <1>1, Inductive, PTL

\* A row taken out of the queue does not come back, whichever worker writes late.
THEOREM OutOfQueue == Spec => OutOfQueueStays
<1> DEFINE Stays == \A d \in Delivery :
             delivery[d].status \in {"delivered", "failed", "suppressed", "dead_letter"} =>
                \/ delivery'[d].status = delivery[d].status
                \/ /\ IsSms(d) /\ delivery[d].status # "suppressed"
                   /\ delivery'[d].status \in {"delivered", "failed"}
                   /\ delivery'[d].rank > delivery[d].rank
<1>1. IInv /\ Next => Stays
  BY NextMoves DEF Moves, RowsMove, RowStays
<1>2. IInv /\ [Next]_vars => [Stays]_vars
  BY <1>1
<1>3. IInv /\ [][Next]_vars => [][Stays]_vars
  BY <1>2, Inductive, NextIInv, PTL
<1>. QED
  BY <1>3, Inductive, PTL DEF Spec, OutOfQueueStays

-----------------------------------------------------------------------------
(* Opting out.                                                             *)

\* While a worker remembers that the recipient was out they still are, and the
\* check after the claim lets no such worker through to the send.
NoSendWhenOut ==
    \A w \in Worker : /\ worker[w].wasOut => optedOut
                      /\ worker[w].step = "send" => ~worker[w].wasOut

LEMMA InitNoSendWhenOut == Init => NoSendWhenOut
  BY DEF Init, Ready, NoSendWhenOut

LEMMA NextNoSendWhenOut ==
  ASSUME IInv, NoSendWhenOut, [Next]_vars
  PROVE  NoSendWhenOut'
<1>1. worker \in [Worker -> WorkerState] /\ optedOut \in BOOLEAN
  BY DEF IInv, TypeOK
<1>2. ASSUME NEW w \in Worker, RecoverStale(w) \/ EndLoop(w) \/ Abort(w)
      PROVE  NoSendWhenOut'
  <2>1. optedOut' = optedOut
    BY <1>2 DEF RecoverStale, EndLoop, Abort
  <2>2. \E step \in {"idle", "loop"} : worker' = [worker EXCEPT ![w] = Ready(step)]
    BY <1>2 DEF RecoverStale, EndLoop, Abort, Continue
  <2>3. worker'[w].wasOut = FALSE /\ \A v \in Worker \ {w} : worker'[v] = worker[v]
    BY <1>1, <2>2 DEF Ready
  <2>. QED
    BY <2>1, <2>3 DEF NoSendWhenOut
<1>3. ASSUME NEW w \in Worker, NEW d \in Delivery, ClaimDue(w, d)
      PROVE  NoSendWhenOut'
  <2>1. optedOut' = optedOut /\ worker' = [worker EXCEPT ![w] =
          [Ready("claimed") EXCEPT !.delivery = d, !.wasOut = optedOut]]
    BY <1>3 DEF ClaimDue
  <2>2. worker'[w].wasOut = optedOut /\ worker'[w].step = "claimed"
    BY <1>1, <2>1 DEF Ready
  <2>3. \A v \in Worker \ {w} : worker'[v] = worker[v]
    BY <1>1, <2>1
  <2>. QED
    BY <2>1, <2>2, <2>3 DEF NoSendWhenOut
<1>4. ASSUME NEW w \in Worker, NEW step \in WorkerStep, Goto(w, step), optedOut' = optedOut,
             step = "send" => ~optedOut
      PROVE  NoSendWhenOut'
  BY <1>1, <1>4 DEF NoSendWhenOut, Goto, WorkerState
<1>5. ASSUME NEW w \in Worker, Policy(w) PROVE NoSendWhenOut'
  BY <1>4, <1>5 DEF Policy, Ineligible, NotYet, CheckConsent, WorkerStep
<1>6. ASSUME NEW w \in Worker, NEW terminal \in BOOLEAN, Raise(w, terminal),
             optedOut' \in {optedOut, TRUE}
      PROVE  NoSendWhenOut'
  BY <1>1, <1>6 DEF NoSendWhenOut, Raise, WorkerState
<1>7. ASSUME NEW w \in Worker, Sending(w) PROVE NoSendWhenOut'
  <2>1. ASSUME NEW m \in Message, SendAccepted(w, m) PROVE NoSendWhenOut'
    BY <1>1, <2>1 DEF NoSendWhenOut, SendAccepted, WorkerState
  <2>. QED
    BY <1>4, <1>6, <1>7, <2>1 DEF Sending, SendUnknown, SendRejected, SendRefusedByRecipient,
       BodyLost, IsSms, WorkerStep
<1>8. ASSUME NEW w \in Worker, Recording(w) PROVE NoSendWhenOut'
  <2>2. ASSUME RecordRefusal(w) PROVE NoSendWhenOut'
    BY <1>1, <2>2 DEF NoSendWhenOut, RecordRefusal, Goto, WorkerState
  <2>1. CASE optedOut' = optedOut /\ Continue(w)
    BY <1>1, <2>1 DEF NoSendWhenOut, Continue, Ready
  <2>. QED
    BY <1>6, <1>8, <2>1, <2>2 DEF Recording, SweepAfterRefusal, SuppressDelivery, DeferDelivery, MarkDelivered,
       MarkError, FailDelivery
<1>9. ASSUME Environment PROVE NoSendWhenOut'
  <2>1. CASE OptIn
    <3>1. \A w \in Worker : worker'[w].wasOut = FALSE
      BY <1>1, <2>1 DEF OptIn, WorkerState
    <3>. QED
      BY <3>1 DEF NoSendWhenOut
  <2>2. CASE UNCHANGED <<worker, optedOut>>
    BY <2>2 DEF NoSendWhenOut
  <2>3. CASE worker' = worker /\ optedOut' = TRUE
    BY <2>3 DEF NoSendWhenOut
  <2>. QED
    BY <1>9, <2>1, <2>2, <2>3 DEF Environment, OptOut, SweepAfterOptOut, BecomeDue, GoStale, Callback
<1>10. ASSUME UNCHANGED vars PROVE NoSendWhenOut'
  BY <1>10 DEF NoSendWhenOut, vars
<1>. QED
  BY <1>2, <1>3, <1>5, <1>7, <1>8, <1>9, <1>10 DEF Next

\* Nothing is sent under a claim made while the recipient was opted out.
THEOREM OptOutObeyed == Spec => OptOutWins
<1> DEFINE Sent == \A d \in Delivery : accepted'[d] # accepted[d] =>
             \E w \in Worker : /\ worker[w].step = "send" /\ worker[w].delivery = d
                               /\ ~worker[w].wasOut
<1>1. IInv /\ NoSendWhenOut /\ Next => Sent
  <2> SUFFICES ASSUME IInv, NoSendWhenOut, Next, NEW d \in Delivery, accepted'[d] # accepted[d]
               PROVE  \E w \in Worker : /\ worker[w].step = "send" /\ worker[w].delivery = d
                                        /\ ~worker[w].wasOut
    OBVIOUS
  <2>1. ~Environment
    BY DEF Environment, OptOut, SweepAfterOptOut, OptIn, BecomeDue, GoStale, Callback
  <2>2. PICK w \in Worker : Sending(w)
    BY <2>1 DEF Next, RecoverStale, EndLoop, Abort, ClaimDue, Policy, Ineligible, NotYet,
       CheckConsent, Recording, RecordRefusal, SweepAfterRefusal, SuppressDelivery, DeferDelivery, MarkDelivered, MarkError, FailDelivery
  <2>3. /\ worker[w].step = "send"
        /\ accepted' = accepted \/ \E m \in Message : Accept(worker[w].delivery, m)
    BY <2>2 DEF Sending, SendAccepted, SendUnknown, SendRejected, SendRefusedByRecipient, BodyLost
  <2>4. worker[w].delivery = d
    BY <2>3 DEF Accept, IInv, TypeOK
  <2>. QED
    BY <2>3, <2>4 DEF NoSendWhenOut
<1>2. IInv /\ NoSendWhenOut /\ [Next]_vars => [Sent]_vars
  BY <1>1
<1>3. Spec => []NoSendWhenOut
  BY InitNoSendWhenOut, NextNoSendWhenOut, Inductive, PTL DEF Spec
<1>4. [](IInv /\ NoSendWhenOut) /\ [][Next]_vars => [][Sent]_vars
  BY <1>2, PTL
<1>. QED
  BY <1>3, <1>4, Inductive, PTL DEF Spec, OptOutWins
-----------------------------------------------------------------------------
(* Counting what is sent.                                                  *)

On(w, d) == worker[w].delivery = d

\* A worker that has claimed a row and not yet asked the provider anything.
Unsent == {"claimed", "defer", "send"}

\* Of an SMS a claim ends before the next one begins, because a stale one is never
\* claimed again; so that each accepted message has an attempt of its own, and a claim
\* that has sent nothing yet has one that it may give back.
OneClaim ==
    \A d \in Delivery : IsSms(d) =>
        /\ \A v, w \in Worker : On(v, d) /\ On(w, d) => v = w
        /\ Waiting(d) => \A w \in Worker : ~On(w, d)

SendsCounted ==
    \A d \in Delivery :
        /\ IsFiniteSet(accepted[d])
        /\ IsSms(d) => /\ Cardinality(accepted[d]) <= delivery[d].attempts
                       /\ \A w \in Worker : On(w, d) /\ worker[w].step \in Unsent =>
                             Cardinality(accepted[d]) < delivery[d].attempts
        /\ ~IsSms(d) => Cardinality(accepted[d]) <= 1

SendInv == OneClaim /\ SendsCounted

LEMMA InitSendInv == Init => SendInv
<1> SUFFICES ASSUME Init PROVE SendInv
  OBVIOUS
<1>1. \A w \in Worker : worker[w].delivery = NULL
  BY DEF Init, Ready
<1>2. \A d \in Delivery : accepted[d] = {} /\ delivery[d].attempts = 0
  BY DEF Init
<1>3. \A w \in Worker, d \in Delivery : ~On(w, d)
  BY <1>1, ConstantsOK DEF On
<1>4. \A d \in Delivery : IsFiniteSet(accepted[d]) /\ Cardinality(accepted[d]) = 0
  BY <1>2, FS_EmptySet
<1>5. OneClaim
  BY <1>3 DEF OneClaim
<1>6. SendsCounted
  BY <1>2, <1>3, <1>4 DEF SendsCounted
<1>. QED
  BY <1>5, <1>6 DEF SendInv

\* Channels and types, as every step keeps them.
LEMMA ChannelsStay ==
  ASSUME IInv, Moves
  PROVE  /\ \A d \in Delivery : IsSms(d)' <=> IsSms(d)
         /\ \A d \in Delivery : delivery[d].attempts \in Nat /\ delivery'[d].attempts \in Nat
         /\ \A w \in Worker : worker'[w].delivery \in Delivery \cup {NULL}
  BY DEF Moves, RowsMove, RowMove, WorkersMove, IsSms, IInv, TypeOK, Row, WorkerState

\* A step that sends nothing, claims nothing and gives back no attempt.
LEMMA SendsKept ==
  ASSUME IInv, SendInv, Moves, accepted' = accepted,
         \A w \in Worker : /\ worker'[w].delivery \in {worker[w].delivery, NULL}
                           /\ worker'[w].step \in Unsent /\ worker'[w].delivery # NULL
                                 => worker[w].step \in Unsent,
         \A d \in Delivery : /\ delivery'[d].attempts = delivery[d].attempts
                             /\ IsSms(d) /\ Waiting(d)' => \A w \in Worker : ~On(w, d)'
  PROVE  SendInv'
<1>1. \A d \in Delivery : d # NULL /\ (IsSms(d)' <=> IsSms(d))
  BY ChannelsStay, ConstantsOK
<1>2. \A w \in Worker, d \in Delivery : On(w, d)' => On(w, d)
  BY <1>1 DEF On
<1>3. OneClaim'
  BY <1>1, <1>2 DEF SendInv, OneClaim
<1>4. SendsCounted'
  BY <1>1, <1>2 DEF SendInv, SendsCounted, On
<1>. QED
  BY <1>3, <1>4 DEF SendInv

\* An outcome lets go of the row it leaves in the queue.
LEMMA LoopSends ==
  ASSUME IInv, SendInv, NEW w \in Worker, EndLoop(w) \/ Abort(w) \/ RecoverStale(w)
  PROVE  SendInv'
<1>1. Moves /\ accepted' = accepted /\ delivery \in [Delivery -> Row]
  BY LoopMoves, RecoverStaleMoves DEF EndLoop, Abort, RecoverStale, IInv, TypeOK
<1>2. \E step \in {"idle", "loop"} : worker' = [worker EXCEPT ![w] = Ready(step)]
  BY DEF EndLoop, Abort, RecoverStale, Continue
<1>3. \A v \in Worker : /\ worker'[v].delivery \in {worker[v].delivery, NULL}
                        /\ worker'[v].delivery # NULL => worker'[v] = worker[v]
  BY <1>2 DEF IInv, TypeOK, Ready
<1>4. \A d \in Delivery : /\ delivery'[d].attempts = delivery[d].attempts
                          /\ IsSms(d) /\ Waiting(d)' => Waiting(d)
  <2>1. CASE delivery' = delivery
    BY <2>1 DEF Waiting
  <2>2. CASE RecoverStale(w)
    <3> SUFFICES ASSUME NEW d \in Delivery
                 PROVE  /\ delivery'[d].attempts = delivery[d].attempts
                        /\ IsSms(d) /\ Waiting(d)' => Waiting(d)
      OBVIOUS
    <3>1. delivery'[d] = IF Processing(d) /\ delivery[d].stale
                         THEN [delivery[d] EXCEPT !.status = RecoveredStatus(d), !.due = TRUE, !.stale = FALSE]
                         ELSE delivery[d]
      BY <2>2 DEF RecoverStale
    <3>2. IsSms(d) => RecoveredStatus(d) = "failed"
      BY DEF RecoveredStatus
    <3>. QED
      BY <1>1, <3>1, <3>2 DEF Row, Waiting
  <2>. QED
    BY <2>1, <2>2 DEF EndLoop, Abort
<1>5. \A d \in Delivery, v \in Worker : IsSms(d) /\ Waiting(d)' => ~On(v, d)'
  <2> SUFFICES ASSUME NEW d \in Delivery, NEW v \in Worker, IsSms(d), Waiting(d)', On(v, d)'
               PROVE  FALSE
    OBVIOUS
  <2>1. Waiting(d) /\ On(v, d)
    BY <1>3, <1>4, ConstantsOK DEF On
  <2>. QED
    BY <2>1 DEF SendInv, OneClaim
<1>. QED
  BY <1>1, <1>3, <1>4, <1>5, SendsKept

\* Who sends nothing and records nothing stays on the row, which is not in the queue.
LEMMA StaysSends ==
  ASSUME IInv, SendInv, Moves, accepted' = accepted, NEW w \in Worker,
         worker[w].step \notin {"idle", "loop"}, NEW s \in WorkerState,
         worker' = [worker EXCEPT ![w] = s], s.delivery = worker[w].delivery,
         s.step \in Unsent => worker[w].step \in Unsent,
         \A d \in Delivery : /\ delivery'[d].attempts = delivery[d].attempts
                             /\ Waiting(d)' => Waiting(d)
  PROVE  SendInv'
<1>1. \A v \in Worker : worker'[v] = IF v = w THEN s ELSE worker[v]
  BY DEF IInv, TypeOK
<1>2. \A v \in Worker : worker'[v].delivery = worker[v].delivery
  BY <1>1
<1>3. \A d \in Delivery, v \in Worker : IsSms(d) /\ Waiting(d)' => ~On(v, d)'
  BY <1>2 DEF On, SendInv, OneClaim
<1>. QED
  BY <1>1, <1>2, <1>3, SendsKept

\* Who records an outcome lets go of the row.
LEMMA LeavesSends ==
  ASSUME IInv, SendInv, Moves, accepted' = accepted, NEW w \in Worker, Continue(w),
         \A d \in Delivery : /\ delivery'[d].attempts = delivery[d].attempts
                             /\ Waiting(d)' => Waiting(d) \/ On(w, d)
  PROVE  SendInv'
<1>1. \A v \in Worker : worker'[v] = IF v = w THEN Ready("loop") ELSE worker[v]
  BY DEF Continue, IInv, TypeOK
<1>2. Ready("loop").delivery = NULL
  BY DEF Ready
<1>3. \A d \in Delivery, v \in Worker : IsSms(d) /\ Waiting(d)' => ~On(v, d)'
  <2> SUFFICES ASSUME NEW d \in Delivery, NEW v \in Worker, IsSms(d), Waiting(d)', On(v, d)'
               PROVE  FALSE
    OBVIOUS
  <2>1. v # w /\ On(v, d)
    BY <1>1, <1>2, ConstantsOK DEF On
  <2>. QED
    BY <2>1 DEF SendInv, OneClaim
<1>. QED
  BY <1>1, <1>2, <1>3, SendsKept

LEMMA PolicySends ==
  ASSUME IInv, SendInv, NEW w \in Worker, Policy(w)
  PROVE  SendInv'
<1>1. Moves /\ worker[w].step = "claimed" /\ UNCHANGED <<accepted, delivery>>
  BY PolicyMoves DEF Policy, Ineligible, NotYet, CheckConsent
<1>2. PICK step \in {"suppress", "defer", "send"} : Goto(w, step)
  BY DEF Policy, Ineligible, NotYet, CheckConsent
<1> DEFINE s == [worker[w] EXCEPT !.step = step]
<1>3. s \in WorkerState /\ s.delivery = worker[w].delivery
  BY <1>1, BusyWorker DEF WorkerState, WorkerStep
<1>4. worker' = [worker EXCEPT ![w] = s]
  BY <1>2 DEF Goto
<1> HIDE DEF s
<1>. QED
  BY <1>1, <1>3, <1>4, StaysSends DEF Unsent, Waiting

\* The worker is told no, or writes that it was.
LEMMA RefusalSends ==
  ASSUME IInv, SendInv, NEW w \in Worker,
         SendRejected(w) \/ SendRefusedByRecipient(w) \/ RecordRefusal(w) \/ SweepAfterRefusal(w)
  PROVE  SendInv'
<1>1. Moves /\ worker[w].step \in {"send", "refused", "sweep"} /\ accepted' = accepted
  BY SendRaisesMoves, RefusalMoves
     DEF SendRejected, SendRefusedByRecipient, RecordRefusal, SweepAfterRefusal
<1>2. PICK step \in {"refused", "sweep", "fail"}, terminal \in BOOLEAN :
         worker' = [worker EXCEPT ![w] = [worker[w] EXCEPT !.step = step, !.terminal = terminal]]
  <2>1. worker[w] \in WorkerState
    BY <1>1, BusyWorker
  <2>2. CASE \E terminal \in BOOLEAN : Raise(w, terminal)
    BY <2>2 DEF Raise
  <2>3. CASE \E step \in {"refused", "sweep"} : Goto(w, step)
    <3>1. PICK step \in {"refused", "sweep"} : Goto(w, step)
      BY <2>3
    <3>2. [worker[w] EXCEPT !.step = step]
            = [worker[w] EXCEPT !.step = step, !.terminal = worker[w].terminal]
      BY <2>1 DEF WorkerState
    <3>3. worker[w].terminal \in BOOLEAN
      BY <2>1 DEF WorkerState
    <3>. QED
      BY <3>1, <3>2, <3>3 DEF Goto
  <2>. QED
    BY <2>2, <2>3 DEF SendRejected, SendRefusedByRecipient, RecordRefusal, SweepAfterRefusal
<1> DEFINE s == [worker[w] EXCEPT !.step = step, !.terminal = terminal]
<1>3. s \in WorkerState /\ s.delivery = worker[w].delivery /\ s.step = step
  BY <1>1, BusyWorker DEF WorkerState, WorkerStep
<1>4. worker' = [worker EXCEPT ![w] = s]
  BY <1>2
<1>5. \A d \in Delivery : /\ delivery'[d].attempts = delivery[d].attempts
                          /\ Waiting(d)' => Waiting(d)
  <2>1. CASE delivery' = delivery
    BY <2>1 DEF Waiting
  <2>2. CASE SweepWaiting
    BY <2>2 DEF SweepWaiting, Waiting, IInv, TypeOK, Row
  <2>. QED
    BY <2>1, <2>2 DEF SendRejected, SendRefusedByRecipient, RecordRefusal, SweepAfterRefusal
<1> HIDE DEF s
<1>. QED
  BY <1>1, <1>3, <1>4, <1>5, StaysSends DEF Unsent

\* markDelivered and failDelivery leave the attempts as they are, and so does
\* suppressDelivery.
LEMMA OutcomeSends ==
  ASSUME IInv, SendInv, NEW w \in Worker,
         SuppressDelivery(w) \/ MarkDelivered(w) \/ FailDelivery(w)
  PROVE  SendInv'
<1> DEFINE d == worker[w].delivery
<1>1. Moves /\ accepted' = accepted /\ Continue(w) /\ d \in Delivery
  BY SuppressMoves, MarkMoves, FailMoves, BusyWorker DEF SuppressDelivery, MarkDelivered, FailDelivery
<1>2. \/ delivery' = delivery
      \/ \E row : Update(d, row) /\ row.attempts = delivery[d].attempts
  <2> DEFINE sup == [delivery[d] EXCEPT !.status = "suppressed", !.stale = FALSE]
             mark == [delivery[d] EXCEPT !.status = "delivered", !.message = worker[w].message,
                                         !.rank = 1, !.stale = FALSE]
             fail == [delivery[d] EXCEPT !.status = FailedStatus(w), !.due = FALSE, !.stale = FALSE]
  <2>1. \A row \in {sup, mark, fail} : row.attempts = delivery[d].attempts
    BY <1>1 DEF IInv, TypeOK, Row
  <2>2. delivery' = delivery \/ \E row \in {sup, mark, fail} : Update(d, row)
    BY DEF SuppressDelivery, MarkDelivered, MarkRow, FailDelivery
  <2> HIDE DEF sup, mark, fail
  <2>. QED
    BY <2>1, <2>2
<1>3. \A e \in Delivery : /\ delivery'[e].attempts = delivery[e].attempts
                          /\ Waiting(e)' => Waiting(e) \/ On(w, e)
  BY <1>1, <1>2 DEF Update, Waiting, On, IInv, TypeOK
<1>. QED
  BY <1>1, <1>3, LeavesSends

LEMMA MarkErrorSends ==
  ASSUME IInv, SendInv, NEW w \in Worker, MarkError(w)
  PROVE  SendInv'
<1> DEFINE d == worker[w].delivery
           s == [worker[w] EXCEPT !.step = "fail", !.terminal = FALSE]
<1>1. Moves /\ accepted' = accepted /\ worker[w].step = "mark" /\ d \in Delivery
  BY MarkMoves, BusyWorker DEF MarkError
<1>2. s \in WorkerState /\ s.delivery = d /\ s.step = "fail"
  BY <1>1, BusyWorker DEF WorkerState, WorkerStep
<1>3. worker' = [worker EXCEPT ![w] = s]
  BY DEF MarkError, Raise
<1>4. \/ delivery' = delivery
      \/ \E row : Update(d, row) /\ row.attempts = delivery[d].attempts /\ row.status = "delivered"
  <2> DEFINE mark == [delivery[d] EXCEPT !.status = "delivered", !.message = worker[w].message,
                                         !.rank = 1, !.stale = FALSE]
  <2>1. mark.attempts = delivery[d].attempts /\ mark.status = "delivered"
    BY <1>1 DEF IInv, TypeOK, Row
  <2>2. delivery' = delivery \/ Update(d, mark)
    BY DEF MarkError, MarkRow
  <2>. QED
    BY <2>1, <2>2
<1>5. \A e \in Delivery : /\ delivery'[e].attempts = delivery[e].attempts
                          /\ Waiting(e)' => Waiting(e)
  BY <1>1, <1>4 DEF Update, Waiting, IInv, TypeOK
<1> HIDE DEF s
<1>. QED
  BY <1>1, <1>2, <1>3, <1>5, StaysSends DEF Unsent

\* The attempt that is given back is the one of this claim, which sent nothing.
LEMMA DeferSends ==
  ASSUME IInv, SendInv, NEW w \in Worker, DeferDelivery(w)
  PROVE  SendInv'
<1>0. PICK d \in Delivery : d = worker[w].delivery
  BY BusyWorker DEF DeferDelivery
<1> DEFINE n == IF delivery[d].attempts > 0 THEN delivery[d].attempts - 1 ELSE 0
           row == [delivery[d] EXCEPT !.status = "retry_wait", !.due = FALSE,
                                      !.stale = FALSE, !.attempts = n]
<1>1. /\ Moves /\ accepted' = accepted /\ Continue(w)
      /\ d \in Delivery /\ worker[w].step = "defer" /\ delivery[d] \in Row
  BY <1>0, DeferMoves, BusyWorker DEF DeferDelivery
<1>2. CASE ~Processing(d)
  <2>1. delivery' = delivery
    BY <1>0, <1>2 DEF DeferDelivery
  <2>. QED
    BY <1>1, <2>1, LeavesSends DEF Waiting
<1>3. CASE Processing(d)
  <2>1. \A v \in Worker : worker'[v] = IF v = w THEN Ready("loop") ELSE worker[v]
    BY <1>1 DEF Continue, IInv, TypeOK
  <2>2. \A e \in Delivery : ~On(w, e)' /\ \A v \in Worker : On(v, e)' => On(v, e) /\ v # w
    BY <2>1, ConstantsOK DEF On, Ready
  <2>3. delivery' = [delivery EXCEPT ![d] = row]
    BY <1>0, <1>3 DEF DeferDelivery, Update
  <2>4. row.attempts = n /\ n \in Nat /\ \A e \in Delivery \ {d} : delivery'[e] = delivery[e]
    BY <1>1, <2>3 DEF IInv, TypeOK, Row
  <2>5. delivery'[d].attempts = n
    BY <1>1, <2>3, <2>4 DEF IInv, TypeOK
  <2> HIDE DEF row
  <2>6. \A e \in Delivery : IsSms(e)' <=> IsSms(e)
    BY <1>1, ChannelsStay
  <2>7. IsSms(d) => \A v \in Worker : ~On(v, d)'
    BY <1>0, <2>2 DEF SendInv, OneClaim, On
  <2>8. OneClaim'
    <3>1. \A e \in Delivery \ {d} : Waiting(e)' <=> Waiting(e)
      BY <2>4 DEF Waiting
    <3>2. ASSUME NEW e \in Delivery, IsSms(e)
          PROVE  /\ \A u, v \in Worker : On(u, e)' /\ On(v, e)' => u = v
                 /\ Waiting(e)' => \A v \in Worker : ~On(v, e)'
      BY <2>2, <2>7, <3>1, <3>2 DEF SendInv, OneClaim
    <3>. QED
      BY <2>6, <3>2 DEF OneClaim
  <2>9. IsSms(d) => Cardinality(accepted[d]) <= n
    <3> SUFFICES ASSUME IsSms(d) PROVE Cardinality(accepted[d]) <= n
      OBVIOUS
    <3>1. Cardinality(accepted[d]) < delivery[d].attempts
      BY <1>0, <1>1 DEF SendInv, SendsCounted, On, Unsent
    <3>2. Cardinality(accepted[d]) \in Nat /\ delivery[d].attempts \in Nat
      BY <1>1, FS_CardinalityType, ChannelsStay DEF SendInv, SendsCounted
    <3>. QED
      BY <3>1, <3>2
  <2>10. SendsCounted'
    <3> SUFFICES ASSUME NEW e \in Delivery
                 PROVE  /\ IsFiniteSet(accepted[e])
                        /\ IsSms(e) => /\ Cardinality(accepted[e]) <= delivery'[e].attempts
                                       /\ \A v \in Worker : On(v, e)' /\ worker'[v].step \in Unsent =>
                                             Cardinality(accepted[e]) < delivery'[e].attempts
                        /\ ~IsSms(e) => Cardinality(accepted[e]) <= 1
      BY <1>1, <2>6 DEF SendsCounted
    <3>1. CASE e = d
      BY <2>5, <2>7, <2>9, <3>1 DEF SendInv, SendsCounted
    <3>2. CASE e # d
      BY <2>1, <2>2, <2>4, <3>2 DEF SendInv, SendsCounted
    <3>. QED
      BY <3>1, <3>2
  <2>. QED
    BY <2>8, <2>10 DEF SendInv
<1>. QED
  BY <1>2, <1>3

LEMMA ClaimSends ==
  ASSUME IInv, SendInv, NEW w \in Worker, NEW d \in Delivery, ClaimDue(w, d)
  PROVE  SendInv'
<1>1. Moves /\ accepted' = accepted /\ Waiting(d) /\ delivery[d] \in Row
  BY ClaimDueMoves DEF ClaimDue, IInv, TypeOK
<1>2. \A v \in Worker \ {w} : worker'[v] = worker[v]
  BY DEF ClaimDue, IInv, TypeOK
<1>3. worker'[w].delivery = d
  BY DEF ClaimDue, Ready, IInv, TypeOK
<1>4. \A e \in Delivery \ {d} : delivery'[e] = delivery[e]
  BY DEF ClaimDue, Update, IInv, TypeOK
<1>5. delivery'[d].attempts = delivery[d].attempts + 1 /\ delivery'[d].status = "processing"
  <2> DEFINE row == [delivery[d] EXCEPT !.status = "processing", !.stale = FALSE,
                                        !.attempts = delivery[d].attempts + 1]
  <2>1. row.attempts = delivery[d].attempts + 1 /\ row.status = "processing"
    BY <1>1 DEF Row
  <2>2. delivery'[d] = row
    BY DEF ClaimDue, Update, IInv, TypeOK
  <2>. QED
    BY <2>1, <2>2
<1>6. \A e \in Delivery : IsSms(e)' <=> IsSms(e)
  BY <1>1, ChannelsStay
<1>7. \A v \in Worker, e \in Delivery \ {d} : On(v, e)' => On(v, e) /\ v # w
  BY <1>2, <1>3 DEF On
<1>8. IsSms(d) => \A v \in Worker : On(v, d)' => v = w
  BY <1>1, <1>2 DEF On, SendInv, OneClaim
<1>9. OneClaim'
  <2> SUFFICES ASSUME NEW e \in Delivery, IsSms(e)
               PROVE  /\ \A u, v \in Worker : On(u, e)' /\ On(v, e)' => u = v
                      /\ Waiting(e)' => \A v \in Worker : ~On(v, e)'
    BY <1>6 DEF OneClaim
  <2>1. CASE e = d
    BY <1>5, <1>8, <2>1 DEF Waiting
  <2>2. CASE e # d
    BY <1>4, <1>7, <2>2 DEF Waiting, SendInv, OneClaim
  <2>. QED
    BY <2>1, <2>2
<1>10. SendsCounted'
  <2> SUFFICES ASSUME NEW e \in Delivery
               PROVE  /\ IsFiniteSet(accepted[e])
                      /\ IsSms(e) => /\ Cardinality(accepted[e]) <= delivery'[e].attempts
                                     /\ \A v \in Worker : On(v, e)' /\ worker'[v].step \in Unsent =>
                                           Cardinality(accepted[e]) < delivery'[e].attempts
                      /\ ~IsSms(e) => Cardinality(accepted[e]) <= 1
    BY <1>1, <1>6 DEF SendsCounted
  <2>0. IsFiniteSet(accepted[e]) /\ Cardinality(accepted[e]) \in Nat /\ delivery[e].attempts \in Nat
    BY <1>1, ChannelsStay, FS_CardinalityType DEF SendInv, SendsCounted
  <2>1. CASE e = d
    BY <1>5, <2>0, <2>1 DEF SendInv, SendsCounted
  <2>2. CASE e # d
    BY <1>2, <1>4, <1>7, <2>2 DEF SendInv, SendsCounted
  <2>. QED
    BY <2>1, <2>2
<1>. QED
  BY <1>9, <1>10 DEF SendInv

\* The provider accepts a message of the row the worker is on.
LEMMA AcceptSends ==
  ASSUME IInv, SendInv, NEW w \in Worker, NEW m \in Message,
         SendAccepted(w, m) \/ ((SendUnknown(w) \/ BodyLost(w)) /\ Accept(worker[w].delivery, m))
  PROVE  SendInv'
<1> DEFINE d == worker[w].delivery
<1>1. /\ Moves /\ delivery' = delivery /\ worker[w].step = "send"
      /\ d \in Delivery /\ Accept(d, m)
  BY SendAcceptedMoves, SendRaisesMoves, BusyWorker DEF SendAccepted, SendUnknown, BodyLost
<1>2. \A v \in Worker \ {w} : worker'[v] = worker[v]
  BY DEF SendAccepted, SendUnknown, BodyLost, Raise, IInv, TypeOK
<1>3. worker'[w].delivery = d /\ worker'[w].step \notin Unsent
  <2>1. worker[w] \in WorkerState
    BY DEF IInv, TypeOK
  <2>2. CASE \E id : worker' = [worker EXCEPT ![w] = [worker[w] EXCEPT !.step = "mark", !.message = id]]
    BY <2>1, <2>2 DEF WorkerState, Unsent, IInv, TypeOK
  <2>3. CASE \E terminal : Raise(w, terminal)
    BY <2>1, <2>3 DEF Raise, WorkerState, Unsent, IInv, TypeOK
  <2>. QED
    BY <2>2, <2>3 DEF SendAccepted, SendUnknown, BodyLost
<1>4. /\ \A e \in Delivery \ {d} : accepted'[e] = accepted[e]
      /\ accepted'[d] = accepted[d] \cup {m}
  BY <1>1 DEF Accept, IInv, TypeOK
<1>5. \A v \in Worker, e \in Delivery : On(v, e)' <=> On(v, e)
  BY <1>2, <1>3 DEF On
<1>6. OneClaim'
  BY <1>1, <1>5 DEF SendInv, OneClaim, Waiting, IsSms
<1>7. IsFiniteSet(accepted[d]) /\ Cardinality(accepted[d]) \in Nat /\ delivery[d].attempts \in Nat
  BY <1>1, ChannelsStay, FS_CardinalityType DEF SendInv, SendsCounted
<1>8. /\ IsFiniteSet(accepted'[d])
      /\ m \in accepted[d] => Cardinality(accepted'[d]) = Cardinality(accepted[d])
      /\ m \notin accepted[d] => Cardinality(accepted'[d]) = Cardinality(accepted[d]) + 1
  <2>1. IsFiniteSet(accepted[d] \cup {m})
    BY <1>7, FS_AddElement
  <2>2. m \notin accepted[d] => Cardinality(accepted[d] \cup {m}) = Cardinality(accepted[d]) + 1
    BY <1>7, FS_AddElement
  <2>3. m \in accepted[d] => accepted[d] \cup {m} = accepted[d]
    OBVIOUS
  <2> HIDE DEF d
  <2>. QED
    BY <1>4, <2>1, <2>2, <2>3
<1>9. SendsCounted'
  <2> SUFFICES ASSUME NEW e \in Delivery
               PROVE  /\ IsFiniteSet(accepted'[e])
                      /\ IsSms(e) => /\ Cardinality(accepted'[e]) <= delivery[e].attempts
                                     /\ \A v \in Worker : On(v, e)' /\ worker'[v].step \in Unsent =>
                                           Cardinality(accepted'[e]) < delivery[e].attempts
                      /\ ~IsSms(e) => Cardinality(accepted'[e]) <= 1
    BY <1>1 DEF SendsCounted, IsSms
  <2>1. CASE e # d
    BY <1>2, <1>3, <1>4, <1>5, <2>1 DEF SendInv, SendsCounted, On
  <2>2. CASE e = d /\ IsSms(d)
    <3>1. Cardinality(accepted[d]) < delivery[d].attempts
      BY <1>1, <2>2 DEF SendInv, SendsCounted, On, Unsent
    <3>2. \A v \in Worker : On(v, d) => v = w
      BY <1>1, <2>2 DEF SendInv, OneClaim, On
    <3>. QED
      BY <1>3, <1>5, <1>7, <1>8, <2>2, <3>1, <3>2
  <2>3. CASE e = d /\ ~IsSms(d)
    <3>1. CASE accepted[d] # {}
      BY <1>1, <1>8, <2>3, <3>1 DEF Accept, SendInv, SendsCounted
    <3>2. CASE accepted[d] = {}
      BY <1>7, <1>8, <2>3, <3>2, FS_EmptySet
    <3>. QED
      BY <3>1, <3>2
  <2>. QED
    BY <2>1, <2>2, <2>3
<1>. QED
  BY <1>6, <1>9 DEF SendInv

LEMMA EnvironmentSends ==
  ASSUME IInv, SendInv, Environment
  PROVE  SendInv'
<1>1. Moves /\ accepted' = accepted
  BY RecipientMoves, ClockMoves, CallbackMoves
     DEF Environment, OptOut, SweepAfterOptOut, OptIn, BecomeDue, GoStale, Callback
<1>2. \A w \in Worker : worker'[w].delivery = worker[w].delivery /\ worker'[w].step = worker[w].step
  BY DEF Environment, OptOut, SweepAfterOptOut, OptIn, BecomeDue, GoStale, Callback, IInv, TypeOK,
     WorkerState
<1>3. \A d \in Delivery : /\ delivery'[d].attempts = delivery[d].attempts
                          /\ Waiting(d)' => Waiting(d)
  <2>1. delivery \in [Delivery -> Row]
    BY DEF IInv, TypeOK
  <2>2. CASE delivery' = delivery
    BY <2>2 DEF Waiting
  <2>3. CASE SweepWaiting
    BY <2>1, <2>3 DEF SweepWaiting, Waiting, Row
  <2>4. CASE \E d \in Delivery : BecomeDue(d) \/ GoStale(d)
    BY <2>1, <2>4 DEF BecomeDue, GoStale, Update, Waiting, Row
  <2>5. ASSUME NEW d \in Delivery, NEW m \in Message, NEW rank \in 1..3, Callback(d, m, rank)
        PROVE  \A e \in Delivery : /\ delivery'[e].attempts = delivery[e].attempts
                                   /\ Waiting(e)' => Waiting(e)
    <3> DEFINE status == IF rank = 2 THEN "failed" ELSE "delivered"
               row == [delivery[d] EXCEPT !.status = status, !.message = m, !.rank = rank,
                                          !.stale = FALSE]
    <3>1. row.attempts = delivery[d].attempts /\ row.status = status
      BY <2>1 DEF Row
    <3>2. status \in {"failed", "delivered"}
      OBVIOUS
    <3>3. delivery' = [delivery EXCEPT ![d] = row]
      BY <2>5 DEF Callback, Update
    <3> HIDE DEF row, status
    <3>. QED
      BY <2>1, <3>1, <3>2, <3>3 DEF Waiting
  <2>. QED
    BY <2>2, <2>3, <2>4, <2>5 DEF Environment, OptOut, SweepAfterOptOut, OptIn
<1>4. \A d \in Delivery, w \in Worker : IsSms(d) /\ Waiting(d)' => ~On(w, d)'
  BY <1>2, <1>3 DEF On, SendInv, OneClaim
<1>. QED
  BY <1>1, <1>2, <1>3, <1>4, SendsKept

LEMMA NextSendInv ==
  ASSUME IInv, SendInv, [Next]_vars
  PROVE  SendInv'
<1>1. ASSUME NEW w \in Worker, Sending(w) PROVE SendInv'
  <2>1. CASE SendRejected(w) \/ SendRefusedByRecipient(w)
    BY <2>1, RefusalSends
  <2>2. CASE \E m \in Message : SendAccepted(w, m)
    BY <2>2, AcceptSends
  <2>3. CASE SendUnknown(w) /\ accepted' = accepted
    <3> DEFINE s == [worker[w] EXCEPT !.step = "fail", !.terminal = IsSms(worker[w].delivery)]
    <3>1. Moves /\ worker[w].step = "send" /\ delivery' = delivery
      BY <2>3, SendRaisesMoves DEF SendUnknown
    <3>2. s \in WorkerState /\ s.delivery = worker[w].delivery /\ s.step = "fail"
      BY <3>1, BusyWorker DEF WorkerState, WorkerStep, IsSms
    <3>3. worker' = [worker EXCEPT ![w] = s]
      BY <2>3 DEF SendUnknown, Raise
    <3> HIDE DEF s
    <3>. QED
      BY <2>3, <3>1, <3>2, <3>3, StaysSends DEF Unsent, Waiting
  <2>4. CASE \E m \in Message :
               (SendUnknown(w) \/ BodyLost(w)) /\ Accept(worker[w].delivery, m)
    BY <2>4, AcceptSends
  <2>. QED
    BY <1>1, <2>1, <2>2, <2>3, <2>4 DEF Sending, SendUnknown, BodyLost
<1>2. ASSUME NEW w \in Worker, Recording(w) PROVE SendInv'
  BY <1>2, RefusalSends, OutcomeSends, DeferSends, MarkErrorSends DEF Recording
<1>3. ASSUME UNCHANGED vars PROVE SendInv'
  BY <1>3 DEF vars, SendInv, OneClaim, SendsCounted, On, IsSms, Waiting
<1>. QED
  BY <1>1, <1>2, <1>3, LoopSends, PolicySends, ClaimSends, EnvironmentSends DEF Next

LEMMA SendsInvariant == Spec => []SendInv
  BY InitSendInv, NextSendInv, Inductive, PTL DEF Spec

\* No two workers are on one SMS: a claim that is lost, stalled or deferred late has no
\* successor while its worker is at it, although the row has no token to tell them apart.
THEOREM SmsClaimedByOne == Spec => []OneClaim
  BY SendsInvariant, PTL DEF SendInv

\* Each message that a provider accepted of an SMS has its own counted attempt, and an
\* e-mail has one message: the loop does not send without end, whatever stalls or fails.
THEOREM SendsBounded == Spec => []SendsAreAttempts
<1>1. SendInv => SendsAreAttempts
  BY DEF SendInv, SendsCounted, SendsAreAttempts
<1>. QED
  BY SendsInvariant, <1>1, PTL

=============================================================================
