-------------------------- MODULE IngestionProofs --------------------------
(***************************************************************************)
(* Proofs about Ingestion, for any number of jobs, overlapping executions,  *)
(* listings and pages, and whatever the content of the pages.               *)
(*                                                                         *)
(* Two facts carry both theorems.  FreshIsCurrent: as long as the version   *)
(* an execution read is still the row's, the page it works on is the one    *)
(* the cursor is at.  PageIsTracked: a listing of the page that still waits *)
(* for a match is one this execution has yet to process, or one someone     *)
(* else persisted meanwhile.                                                *)
(***************************************************************************)
EXTENDS Ingestion, TLAPS

Recorded == \A r \in Run : exec[r].step # "none" => exec[r].job \in Job

FreshIsCurrent ==
    \A r \in fresh : exec[r].step \in {"fetch", "page"} => exec[r].page = cursor[exec[r].job]

PageIsTracked ==
    \A r \in Run : exec[r].step = "page" =>
        pending \cap Content(exec[r].job, exec[r].page) \subseteq exec[r].todo \cup exec[r].behind

IInv == TypeOK /\ Recorded /\ FreshIsCurrent /\ PageIsTracked

LEMMA PageRange ==
  /\ 0 \in 0..(Pages - 1)
  /\ \A p \in 0..(Pages - 1) : NextCursor(p) \in 0..(Pages - 1)
  BY ConstantsOK DEF NextCursor

LEMMA BlankTyped == Blank \in ExecState /\ Blank.step = "none"
  BY PageRange DEF Blank, ExecState, Step

LEMMA InitIInv == Init => IInv
<1> SUFFICES ASSUME Init PROVE IInv
  OBVIOUS
<1>1. TypeOK
  BY PageRange, BlankTyped DEF Init, Lease!Init, TypeOK
<1>. QED
  BY <1>1, BlankTyped DEF Init, IInv, Recorded, FreshIsCurrent, PageIsTracked

\* Executions that end take their claims on a version with them; the rest stay.
LEMMA DropIInv ==
  ASSUME IInv, NEW runs, Drop(runs), holder' \in [Job -> Run \cup {NULL}], active' \subseteq Run
  PROVE  IInv'
<1>1. /\ exec' = [r \in Run |-> IF r \in runs THEN Blank ELSE exec[r]]
      /\ fresh' = fresh \ runs /\ cursor' = cursor /\ pending' = pending
  BY DEF Drop
<1>2. TypeOK'
  BY <1>1, BlankTyped DEF IInv, TypeOK
<1>3. Recorded' /\ PageIsTracked'
  BY <1>1, BlankTyped DEF IInv, Recorded, PageIsTracked
<1>4. FreshIsCurrent'
  BY <1>1, BlankTyped DEF IInv, TypeOK, FreshIsCurrent
<1>. QED
  BY <1>2, <1>3, <1>4 DEF IInv

\* Claiming: the new execution has read nothing yet.
LEMMA ClaimIInv ==
  ASSUME IInv, NEW j \in Job, NEW r \in Run, Begin(j, r) \/ Strand(j, r)
  PROVE  IInv'
<1>1. holder' \in [Job -> Run \cup {NULL}] /\ active' \subseteq Run
  BY DEF Begin, Strand, Lease!Grant, Lease!Strand, IInv, TypeOK
<1>2. CASE Strand(j, r)
  BY <1>1, <1>2 DEF Strand, IInv, TypeOK, Recorded, FreshIsCurrent, PageIsTracked
<1>3. CASE Begin(j, r)
  <2> DEFINE e == [Blank EXCEPT !.job = j, !.step = "read"]
  <2>1. e \in ExecState /\ e.step = "read" /\ e.job = j
    BY BlankTyped DEF ExecState, Step
  <2>2. exec' = [exec EXCEPT ![r] = e] /\ UNCHANGED <<cursor, fresh, pending>>
    BY <1>3 DEF Begin
  <2> HIDE DEF e
  <2>3. exec' \in [Run -> ExecState]
    BY <2>1, <2>2 DEF IInv, TypeOK
  <2>4. \A q \in Run : exec'[q] = IF q = r THEN e ELSE exec[q]
    BY <2>2 DEF IInv, TypeOK
  <2>. QED
    BY <1>1, <2>1, <2>2, <2>3, <2>4 DEF IInv, TypeOK, Recorded, FreshIsCurrent, PageIsTracked
<1>. QED
  BY <1>2, <1>3

\* Steps that leave the page: nothing read is kept.
LEMMA GotoIInv ==
  ASSUME IInv, NEW r \in Run, exec[r].step # "none",
         NEW step \in {"saved", "reported", "failing", "over"}, Goto(r, step),
         fresh' \subseteq fresh, cursor' \in [Job -> 0..(Pages - 1)],
         \A q \in fresh' : exec'[q].step \in {"fetch", "page"} => cursor'[exec[q].job] = cursor[exec[q].job],
         UNCHANGED <<holder, active, pending>>
  PROVE  IInv'
<1> DEFINE e == [Blank EXCEPT !.job = exec[r].job, !.step = step]
<1>1. e \in ExecState /\ e.step = step /\ e.job = exec[r].job
  BY BlankTyped DEF IInv, TypeOK, ExecState, Step
<1>2. exec' = [exec EXCEPT ![r] = e]
  BY DEF Goto
<1> HIDE DEF e
<1>3. /\ exec' \in [Run -> ExecState]
      /\ \A q \in Run : exec'[q] = IF q = r THEN e ELSE exec[q]
  BY <1>1, <1>2 DEF IInv, TypeOK
<1>4. TypeOK'
  BY <1>3 DEF IInv, TypeOK
<1>5. Recorded' /\ PageIsTracked'
  BY <1>1, <1>3 DEF IInv, Recorded, PageIsTracked
<1>6. FreshIsCurrent'
  BY <1>1, <1>3 DEF IInv, TypeOK, FreshIsCurrent
<1>. QED
  BY <1>4, <1>5, <1>6 DEF IInv

\* Reading the row and fetching the page it points at.
LEMMA ReadIInv ==
  ASSUME IInv, NEW r \in Run, ReadCheckpoint(r) \/ FetchPage(r)
  PROVE  IInv'
<1>0. exec \in [Run -> ExecState] /\ cursor \in [Job -> 0..(Pages - 1)] /\ exec[r].job \in Job
  BY DEF IInv, TypeOK, Recorded, ReadCheckpoint, FetchPage, At
<1>1. CASE ReadCheckpoint(r)
  <2> DEFINE e == [exec[r] EXCEPT !.step = "fetch", !.page = cursor[exec[r].job]]
  <2>0. exec[r] \in ExecState /\ cursor[exec[r].job] \in 0..(Pages - 1)
    BY <1>0
  <2>1. e \in ExecState /\ e.step = "fetch" /\ e.job = exec[r].job /\ e.page = cursor[exec[r].job]
    BY <2>0 DEF ExecState, Step
  <2>2. exec' = [exec EXCEPT ![r] = e] /\ fresh' = fresh \cup {r}
    BY <1>0, <1>1 DEF ReadCheckpoint
  <2> HIDE DEF e
  <2>3. exec' \in [Run -> ExecState] /\ \A q \in Run : exec'[q] = IF q = r THEN e ELSE exec[q]
    BY <1>0, <2>1, <2>2
  <2>4. TypeOK'
    BY <1>1, <2>2, <2>3 DEF IInv, TypeOK, ReadCheckpoint
  <2>5. Recorded' /\ PageIsTracked'
    BY <1>0, <1>1, <2>1, <2>3 DEF IInv, Recorded, PageIsTracked, ReadCheckpoint
  <2>6. FreshIsCurrent'
    BY <1>1, <2>1, <2>2, <2>3 DEF IInv, TypeOK, FreshIsCurrent, ReadCheckpoint
  <2>. QED
    BY <2>4, <2>5, <2>6 DEF IInv
<1>2. CASE FetchPage(r)
  <2> DEFINE e == [exec[r] EXCEPT !.step = "page", !.todo = Content(exec[r].job, exec[r].page)]
  <2>1. /\ e \in ExecState /\ e.step = "page" /\ e.job = exec[r].job /\ e.page = exec[r].page
        /\ e.todo = Content(exec[r].job, exec[r].page)
    <3>1. exec[r] \in ExecState
      BY <1>0
    <3>2. Content(exec[r].job, exec[r].page) \in SUBSET Listing
      BY <1>0, <3>1, ConstantsOK DEF ExecState
    <3>. QED
      BY <3>1, <3>2 DEF ExecState, Step
  <2>2. exec' = [exec EXCEPT ![r] = e] /\ exec[r].step = "fetch"
    BY <1>0, <1>2 DEF FetchPage, At
  <2> HIDE DEF e
  <2>3. exec' \in [Run -> ExecState] /\ \A q \in Run : exec'[q] = IF q = r THEN e ELSE exec[q]
    BY <1>0, <2>1, <2>2
  <2>. QED
    BY <1>0, <1>2, <2>1, <2>2, <2>3
       DEF IInv, TypeOK, Recorded, FreshIsCurrent, PageIsTracked, FetchPage
<1>. QED
  BY <1>1, <1>2

\* upsertObservation: whoever is on a page learns of what another one persisted.
LEMMA UpsertIInv ==
  ASSUME IInv, NEW r \in Run, NEW l \in Listing, Upsert(r, l)
  PROVE  IInv'
<1>0. /\ exec \in [Run -> ExecState] /\ exec[r].step = "page" /\ l \in exec[r].todo
      /\ UNCHANGED <<holder, active, cursor, fresh>>
  BY DEF IInv, TypeOK, Upsert, At
<1>1. CASE Persist(r, l)
  <2>1. exec' \in [Run -> ExecState]
    BY <1>0, <1>1 DEF Persist, Overtaken, ExecState
  <2>2. \A q \in Run : /\ exec'[q].job = exec[q].job /\ exec'[q].step = exec[q].step
                       /\ exec'[q].page = exec[q].page /\ exec'[q].todo = exec[q].todo
    BY <1>0, <1>1 DEF Persist, Overtaken, ExecState
  <2>3. \A q \in Run : exec[q].step = "page" =>
           /\ exec[q].behind \subseteq exec'[q].behind
           /\ l \in exec'[q].todo \cup exec'[q].behind
    BY <1>0, <1>1 DEF Persist, Overtaken, ExecState
  <2>4. pending' = pending \cup {l}
    BY <1>1 DEF Persist
  <2>. QED
    BY <1>0, <2>1, <2>2, <2>3, <2>4
       DEF IInv, TypeOK, Recorded, FreshIsCurrent, PageIsTracked
<1>2. CASE Ignore(r, l)
  <2>1. /\ exec' = [exec EXCEPT ![r].todo = exec[r].todo \ {l}] /\ pending' = pending
        /\ l \in exec[r].behind
    BY <1>2 DEF Ignore
  <2>2. exec' \in [Run -> ExecState]
    BY <1>0, <2>1 DEF ExecState
  <2>3. \A q \in Run : /\ exec'[q].job = exec[q].job /\ exec'[q].step = exec[q].step
                       /\ exec'[q].page = exec[q].page /\ exec'[q].behind = exec[q].behind
                       /\ exec[q].todo \subseteq exec'[q].todo \cup exec'[q].behind
    BY <1>0, <2>1 DEF ExecState
  <2>. QED
    BY <1>0, <2>1, <2>2, <2>3 DEF IInv, TypeOK, Recorded, FreshIsCurrent, PageIsTracked
<1>. QED
  BY <1>1, <1>2 DEF Upsert

LEMMA ApiIInv ==
  ASSUME IInv, NEW l \in Listing, ApiPersist(l)
  PROVE  IInv'
<1>0. /\ exec \in [Run -> ExecState] /\ exec' = [q \in Run |-> Overtaken(q, l)]
      /\ pending' = pending \cup {l} /\ UNCHANGED <<holder, active, cursor, fresh>>
  BY DEF IInv, TypeOK, ApiPersist
<1>1. exec' \in [Run -> ExecState]
  BY <1>0 DEF Overtaken, ExecState
<1>2. \A q \in Run : /\ exec'[q].job = exec[q].job /\ exec'[q].step = exec[q].step
                     /\ exec'[q].page = exec[q].page /\ exec'[q].todo = exec[q].todo
  BY <1>0 DEF Overtaken, ExecState
<1>3. \A q \in Run : exec[q].step = "page" =>
         exec[q].behind \subseteq exec'[q].behind /\ l \in exec'[q].behind
  BY <1>0 DEF Overtaken, ExecState
<1>. QED
  BY <1>0, <1>1, <1>2, <1>3 DEF IInv, TypeOK, Recorded, FreshIsCurrent, PageIsTracked

\* matchListing takes the listing off the page and off the pending ones.
LEMMA MatchIInv ==
  ASSUME IInv, NEW r \in Run, MatchListing(r)
  PROVE  IInv'
<1> DEFINE l == exec[r].upserted
<1>0. /\ exec \in [Run -> ExecState] /\ UNCHANGED <<holder, active, cursor, fresh>>
      /\ pending' = pending \ {l}
  BY DEF IInv, TypeOK, MatchListing
<1>1. exec' = [exec EXCEPT ![r] = [exec[r] EXCEPT !.todo = exec[r].todo \ {l}, !.upserted = NULL]]
  BY <1>0 DEF MatchListing, ExecState
<1>2. exec' \in [Run -> ExecState]
  BY <1>0, <1>1 DEF ExecState
<1>3. \A q \in Run : /\ exec'[q].job = exec[q].job /\ exec'[q].step = exec[q].step
                     /\ exec'[q].page = exec[q].page /\ exec'[q].behind = exec[q].behind
                     /\ exec[q].todo \subseteq exec'[q].todo \cup {l}
  BY <1>0, <1>1 DEF ExecState
<1>. QED
  BY <1>0, <1>2, <1>3 DEF IInv, TypeOK, Recorded, FreshIsCurrent, PageIsTracked

\* Writing the row: whoever else had read its old version is no longer fresh.
LEMMA SaveIInv ==
  ASSUME IInv, NEW r \in Run, Save(r) \/ SaveReplyLost(r)
  PROVE  IInv'
<1>0. /\ cursor \in [Job -> 0..(Pages - 1)] /\ exec[r] \in ExecState /\ fresh \subseteq Run
      /\ exec[r].step = "page"
  BY DEF IInv, TypeOK, Save, SaveReplyLost, PageDone, At
<1>1. PICK step \in {"saved", "failing"} : Goto(r, step)
  BY DEF Save, SaveReplyLost
<1>2. UNCHANGED <<holder, active, pending>>
  BY DEF Save, SaveReplyLost
<1>3. CASE SaveRow(r)
  <2>1. /\ cursor' = [cursor EXCEPT ![exec[r].job] = NextCursor(exec[r].page)]
        /\ fresh' = fresh \ Siblings(r)
    BY <1>3 DEF SaveRow
  <2>2. NextCursor(exec[r].page) \in 0..(Pages - 1)
    BY <1>0, PageRange DEF ExecState
  <2>3. cursor' \in [Job -> 0..(Pages - 1)]
    BY <1>0, <2>1, <2>2
  <2>4. \A q \in fresh' : exec[q].job # exec[r].job
    BY <1>0, <2>1 DEF Siblings
  <2>5. \A q \in fresh' : exec[q].job \in Job => cursor'[exec[q].job] = cursor[exec[q].job]
    BY <1>0, <2>1, <2>4
  <2>6. \A q \in fresh' : exec'[q].step \in {"fetch", "page"} => exec[q].job \in Job
    BY <1>0, <1>1, <2>1 DEF Goto, Blank, IInv, TypeOK, Recorded
  <2>. QED
    BY <1>0, <1>1, <1>2, <2>1, <2>3, <2>5, <2>6, GotoIInv
<1>4. CASE UNCHANGED <<cursor, fresh>>
  BY <1>0, <1>1, <1>2, <1>4, GotoIInv
<1>. QED
  BY <1>3, <1>4 DEF Save, SaveReplyLost

LEMMA NextIInv == IInv /\ [Next]_vars => IInv'
<1> SUFFICES ASSUME IInv, [Next]_vars PROVE IInv'
  OBVIOUS
<1>0. cursor \in [Job -> 0..(Pages - 1)] /\ active \subseteq Run
  BY DEF IInv, TypeOK
<1>1. ASSUME NEW r \in Run, Handler(r) PROVE IInv'
  <2>1. CASE WorkerCheckpoint(r)
    <3>1. PICK step \in {"reported", "failing"} : Goto(r, step)
      BY <2>1 DEF WorkerCheckpoint
    <3>. QED
      BY <1>0, <2>1, <3>1, GotoIInv DEF WorkerCheckpoint, At
  <2>2. CASE RecordHealth(r) \/ RecordFailure(r)
    BY <1>0, <2>2, GotoIInv DEF RecordHealth, RecordFailure, At
  <2>. QED
    BY <1>1, <2>1, <2>2, ReadIInv, UpsertIInv, MatchIInv, SaveIInv DEF Handler
<1>2. ASSUME NEW r \in Run, Trouble(r) PROVE IInv'
  <2>1. CASE ReadFails(r) \/ Break(r) \/ RecordFailureFails(r)
    BY <1>0, <2>1, GotoIInv DEF ReadFails, Break, RecordFailureFails, At
  <2>. QED
    BY <1>2, <2>1, SaveIInv DEF Trouble
<1>3. ASSUME NEW r \in Run, Leave(r) PROVE IInv'
  BY <1>0, <1>3, DropIInv DEF Leave, Lease!Quit, IInv, TypeOK
<1>4. ASSUME NEW j \in Job, Settle(j) PROVE IInv'
  <2>1. holder' \in [Job -> Run \cup {NULL}] /\ active' \subseteq Run
    BY <1>4 DEF Settle, Lease!Settle, IInv, TypeOK
  <2>. QED
    BY <1>4, <2>1, DropIInv DEF Settle
<1>5. ASSUME NEW runs \in SUBSET active, Crash(runs) PROVE IInv'
  BY <1>0, <1>5, DropIInv DEF Crash, Lease!Quit, IInv, TypeOK
<1>6. CASE UNCHANGED vars
  BY <1>6 DEF vars, IInv, TypeOK, Recorded, FreshIsCurrent, PageIsTracked
<1>. QED
  BY <1>1, <1>2, <1>3, <1>4, <1>5, <1>6, ClaimIInv, ApiIInv DEF Next

\* Checkpoints, executions and leases keep their type.
THEOREM TypeCorrect == Spec => []TypeOK
<1>1. IInv => TypeOK
  BY DEF IInv
<1>. QED
  BY <1>1, InitIInv, NextIInv, PTL DEF Spec

\* Only Save and SaveReplyLost move a cursor.
LEMMA CursorSteps ==
  ASSUME IInv, Next, NEW j \in Job, cursor'[j] # cursor[j]
  PROVE  \E r \in active : PageDone(r) /\ SaveRow(r) /\ exec[r].job = j
<1>1. PICK r \in Run : Save(r) \/ SaveReplyLost(r)
  BY DEF Next, Handler, Trouble, ReadCheckpoint, FetchPage, MatchListing, Upsert,
     WorkerCheckpoint, RecordHealth, RecordFailure, ReadFails, Break, RecordFailureFails,
     Leave, Settle, Crash, Drop, Begin, Strand, ApiPersist
<1>2. PageDone(r) /\ SaveRow(r)
  BY <1>1 DEF Save, SaveReplyLost
<1>3. exec[r].job = j
  BY <1>2 DEF SaveRow, IInv, TypeOK
<1>4. r \in active
  BY <1>2 DEF PageDone, At
<1>. QED
  BY <1>2, <1>3, <1>4

\* For any number of overlapping executions of a job, its cursor walks the pages
\* in order: a superseded execution neither rewinds it nor skips a page.
THEOREM CursorInOrder == Spec => CursorStepsForward
<1>1. IInv /\ [Next]_vars =>
        [\A j \in Job : cursor'[j] # cursor[j] => cursor'[j] = NextCursor(cursor[j])]_vars
  <2> SUFFICES ASSUME IInv, Next, NEW j \in Job, cursor'[j] # cursor[j]
               PROVE  cursor'[j] = NextCursor(cursor[j])
    BY DEF vars
  <2>1. PICK r \in active : PageDone(r) /\ SaveRow(r) /\ exec[r].job = j
    BY CursorSteps
  <2>2. exec[r].page = cursor[j]
    BY <2>1 DEF IInv, FreshIsCurrent, SaveRow, VersionMatches, PageDone, At
  <2>. QED
    BY <2>1, <2>2 DEF SaveRow, IInv, TypeOK
<1>. QED
  BY <1>1, InitIInv, NextIInv, PTL DEF Spec, CursorStepsForward

\* A page is left only with its listings matched, or with those overtaken that
\* someone else persisted meanwhile.
THEOREM PagesLeftMatched == Spec => LeftPageIsMatched
<1>1. IInv /\ [Next]_vars =>
        [\A j \in Job : cursor'[j] # cursor[j] =>
           \E r \in active :
              /\ exec[r].job = j /\ exec[r].step = "page"
              /\ pending \cap Content(j, cursor[j]) \subseteq exec[r].behind]_vars
  <2> SUFFICES ASSUME IInv, Next, NEW j \in Job, cursor'[j] # cursor[j]
               PROVE  \E r \in active :
                         /\ exec[r].job = j /\ exec[r].step = "page"
                         /\ pending \cap Content(j, cursor[j]) \subseteq exec[r].behind
    BY DEF vars
  <2>1. PICK r \in active : PageDone(r) /\ SaveRow(r) /\ exec[r].job = j
    BY CursorSteps
  <2>2. r \in Run /\ exec[r].step = "page" /\ exec[r].todo = {}
    BY <2>1 DEF PageDone, At, IInv, TypeOK
  <2>3. exec[r].page = cursor[j]
    BY <2>1, <2>2 DEF IInv, FreshIsCurrent, SaveRow, VersionMatches
  <2>4. pending \cap Content(j, cursor[j]) \subseteq exec[r].behind
    BY <2>1, <2>2, <2>3 DEF IInv, PageIsTracked
  <2>. QED
    BY <2>1, <2>2, <2>4
<1>. QED
  BY <1>1, InitIInv, NextIInv, PTL DEF Spec, LeftPageIsMatched

\* The handlers see no more of the queue than JobLease promises, which the queue keeps
\* (WorkerJobsProofs, Implements): what is proved here holds of the handlers on that queue.
THEOREM WithinLease == Spec => Lease!Spec
<1>1. Init => Lease!Init
  BY DEF Init
<1>2. [Next]_vars => [Lease!Next]_(Lease!leaseVars)
  <2> SUFFICES ASSUME Next PROVE Lease!Next \/ UNCHANGED Lease!leaseVars
    BY DEF vars, Lease!leaseVars
  <2>1. CASE \E j \in Job, r \in Run : Begin(j, r) \/ Strand(j, r)
    BY <2>1 DEF Begin, Strand, Lease!Next
  <2>2. CASE \E j \in Job : Settle(j)
    BY <2>2 DEF Settle, Lease!Next
  <2>3. CASE \E r \in Run : Leave(r)
    <3>1. PICK r \in active : Lease!Quit({r})
      BY <2>3 DEF Leave
    <3>. QED
      BY <3>1 DEF Lease!Next
  <2>4. CASE \E runs \in SUBSET active : Crash(runs)
    BY <2>4 DEF Crash, Lease!Next
  <2>5. CASE (\E r \in Run : Handler(r) \/ Trouble(r)) \/ \E l \in Listing : ApiPersist(l)
    BY <2>5 DEF Handler, Trouble, ReadCheckpoint, FetchPage, MatchListing, Save, Upsert,
       WorkerCheckpoint, RecordHealth, RecordFailure, ReadFails, SaveReplyLost, Break,
       RecordFailureFails, ApiPersist, Lease!leaseVars
  <2>. QED
    BY <2>1, <2>2, <2>3, <2>4, <2>5 DEF Next
<1>. QED
  BY <1>1, <1>2, PTL DEF Spec, Lease!Spec
=============================================================================
