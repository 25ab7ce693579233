-------------------------- MODULE SmsConsentProofs --------------------------
(***************************************************************************)
(* Proofs about SmsConsent, for any number of events and requests.          *)
(*                                                                         *)
(* What a STOP promises is Quiet: the latest consent is its opt-out, and    *)
(* every opt-in still to be written took its time before a consent that is. *)
(* It is inductive with what a STOP knows while it is being handled         *)
(* (Obeyed) and with the order of the times (Ordered).                      *)
(*                                                                          *)
(* The claims on webhook events are those of EventClaim: one live claimant, *)
(* and only the holder finishes.                                            *)
(***************************************************************************)
EXTENDS SmsConsent, TLAPS

Older(q, r) == q \in request[r].older
OptingIn == {q \in Pending : request[q].kind \in OptIns}
Quiet == consent = "out" /\ \A q \in OptingIn : request[q].late

Ordered ==
    /\ \A r \in Request : request[r].older \subseteq Pending
    /\ \A r \in Request : r \notin Pending => request[r].older = {} /\ ~request[r].late
    /\ \A q, r \in Request : ~(Older(q, r) /\ Older(r, q))
    /\ \A p, q, r \in Request : Older(p, q) /\ Older(q, r) => Older(p, r)
    /\ \A q, r \in Request : Older(q, r) /\ request[r].late => request[q].late

\* Of a STOP before its own opt-out, and after it.
Heard(r) ==
    IF r \in Pending THEN OptingIn \subseteq request[r].older /\ (request[r].late => Quiet)
    ELSE Quiet

Obeyed ==
    /\ silenced => Quiet
    /\ \A r \in Stopping : ~request[r].after => Heard(r)

\* Idle requests are nobody's STOP, and the account's own requests never are.
Kinds == \A r \in Request : request[r].kind = "stop" => request[r].step \notin {"idle", "send", "identify"}

IInv == TypeOK /\ Kinds /\ Ordered /\ Obeyed

-----------------------------------------------------------------------------
(* Types.                                                                  *)

LEMMA AtTyped ==
  ASSUME NEW step \in Step, NEW kind \in Kind
  PROVE  /\ At(step, kind) \in RequestState
         /\ At(step, kind).step = step /\ At(step, kind).kind = kind
         /\ At(step, kind).older = {} /\ ~At(step, kind).late /\ ~At(step, kind).after
         /\ At(step, kind).event = NULL /\ ~At(step, kind).expired
  BY DEF At, RequestState

LEMMA IdleTyped ==
  /\ Idle \in RequestState /\ Idle.step = "idle" /\ Idle.kind = "patch"
  /\ Idle.older = {} /\ ~Idle.late /\ Idle.event = NULL
<1>1. "idle" \in Step /\ "patch" \in Kind
  BY DEF Step, Kind
<1>. QED
  BY <1>1, AtTyped DEF Idle

\* The four ways in which requests change.
LEMMA GotoTyped ==
  ASSUME request \in [Request -> RequestState], NEW r \in Request, NEW s \in RequestState,
         request' = [request EXCEPT ![r] = s]
  PROVE  request' \in [Request -> RequestState]
  OBVIOUS

LEMMA TakeTimeTyped ==
  ASSUME request \in [Request -> RequestState], NEW r \in Request, NEW s \in RequestState,
         TakeTime(r, s)
  PROVE  request' \in [Request -> RequestState]
<1>1. Pending \in SUBSET Request
  BY DEF Pending
<1>2. [s EXCEPT !.older = Pending] \in RequestState
  BY <1>1 DEF RequestState
<1>3. ASSUME NEW q \in Request
      PROVE  [request[q] EXCEPT !.after = @ \/ (q \in Stopping /\ s.kind \in OptIns)] \in RequestState
  <2>1. request[q] \in RequestState /\ (request[q].after \/ (q \in Stopping /\ s.kind \in OptIns)) \in BOOLEAN
    BY <1>3
  <2>. QED
    BY <2>1 DEF RequestState
<1>. QED
  BY <1>2, <1>3 DEF TakeTime

LEMMA DropTyped ==
  ASSUME request \in [Request -> RequestState], NEW r \in Request, NEW s \in RequestState,
         Drop(r, s)
  PROVE  request' \in [Request -> RequestState]
<1>1. [s EXCEPT !.older = {}, !.late = FALSE] \in RequestState
  BY DEF RequestState
<1>2. ASSUME NEW q \in Request
      PROVE  [request[q] EXCEPT !.older = @ \ {r}] \in RequestState
  BY <1>2 DEF RequestState
<1>. QED
  BY <1>1, <1>2 DEF Drop

LEMMA RecordTyped ==
  ASSUME request \in [Request -> RequestState], NEW r \in Request, NEW s \in RequestState,
         Record(r, s), consent \in {"none", "in", "out"}
  PROVE  request' \in [Request -> RequestState] /\ consent' \in {"none", "in", "out"}
<1>1. [s EXCEPT !.older = {}, !.late = FALSE] \in RequestState
  BY DEF RequestState
<1>2. ASSUME NEW q \in Request
      PROVE  [request[q] EXCEPT !.older = @ \ {r}, !.late = @ \/ q \in request[r].older] \in RequestState
  <2>1. request[q] \in RequestState /\ (request[q].late \/ q \in request[r].older) \in BOOLEAN
    BY <1>2 DEF RequestState
  <2>. QED
    BY <2>1 DEF RequestState
<1>. QED
  BY <1>1, <1>2 DEF Record, Says

LEMMA StepsAndKinds ==
  /\ \A step \in {"idle", "look", "send", "identify", "upsert", "remove", "consent", "insert", "update",
                  "release", "verify", "enable", "settings", "write", "complete", "broken"} :
         step \in Step
  /\ \A kind \in {"stop", "start", "failed", "on", "off", "patch", "phone", "remove", "verify"} : kind \in Kind
  /\ Inbound \subseteq Kind
  BY DEF Step, Kind, Inbound

-----------------------------------------------------------------------------
(* Requests that stay where they are in the order of the times.            *)

\* q has as much to write as before, and knows no more of a STOP.
Keeps(q) ==
    /\ request'[q].older = request[q].older
    /\ request'[q].late = request[q].late
    /\ (q \in Pending)' <=> q \in Pending
    /\ q \in Pending => request'[q].kind = request[q].kind
    /\ (q \in Stopping)' /\ ~request'[q].after => q \in Stopping /\ ~request[q].after

LEMMA KeptOrder ==
  ASSUME Ordered, Obeyed, \A q \in Request : Keeps(q), consent' = consent, silenced' = silenced
  PROVE  Ordered' /\ Obeyed'
<1>1. Pending' = Pending /\ OptingIn' = OptingIn
  BY DEF Keeps, Pending, OptingIn
<1>2. Ordered'
  BY <1>1 DEF Ordered, Older, Keeps
<1>3. Quiet' <=> Quiet
  BY <1>1 DEF Quiet, Keeps, OptingIn, Pending
<1>4. ASSUME NEW q \in Request  PROVE Heard(q)' <=> Heard(q)
  BY <1>1, <1>3 DEF Heard, Keeps
<1>5. Obeyed'
  BY <1>3, <1>4 DEF Obeyed, Keeps, Stopping
<1>. QED
  BY <1>2, <1>5

\* r becomes s, and the others are not concerned.
LEMMA SettingKeeps ==
  ASSUME IInv, NEW r \in Request, NEW s \in RequestState,
         request' = [request EXCEPT ![r] = s],
         s.older = request[r].older, s.late = request[r].late,
         s.step \in {"upsert", "remove", "consent"} <=> r \in Pending,
         r \in Pending => s.kind = request[r].kind,
         s.kind = "stop" /\ s.step \notin {"look", "broken"} /\ ~s.after
             => r \in Stopping /\ ~request[r].after,
         s.kind = "stop" => s.step \notin {"idle", "send", "identify"},
         consent' = consent, silenced' = silenced
  PROVE  request' \in [Request -> RequestState] /\ Kinds' /\ Ordered' /\ Obeyed'
<1>1. request \in [Request -> RequestState]
  BY DEF IInv, TypeOK
<1>2. \A q \in Request : request'[q] = IF q = r THEN s ELSE request[q]
  BY <1>1
<1>3. ASSUME NEW q \in Request  PROVE Keeps(q)
  BY <1>2 DEF Keeps, Pending, Stopping
<1>4. Kinds'
  BY <1>2 DEF IInv, Kinds
<1>. QED
  BY <1>1, <1>3, <1>4, GotoTyped, KeptOrder DEF IInv

-----------------------------------------------------------------------------
(* Requests that take their time, write their consent or end.              *)

\* The end of a STOP that was obeyed may be remembered.
LEMMA DropObeys ==
  ASSUME IInv, NEW r \in Request, NEW s \in RequestState, Drop(r, s), consent' = consent,
         s.step \notin {"upsert", "remove", "consent"},
         s.kind = "stop" => s.step \in {"look", "broken"},
         silenced' => silenced \/ (r \in Stopping \ Pending /\ ~request[r].after)
  PROVE  request' \in [Request -> RequestState] /\ Kinds' /\ Ordered' /\ Obeyed'
<1>1. request' \in [Request -> RequestState]
  BY DropTyped DEF IInv, TypeOK
<1>2. /\ request'[r].older = {} /\ ~request'[r].late
      /\ request'[r].step = s.step /\ request'[r].kind = s.kind
  BY DEF Drop, RequestState
<1>3. ASSUME NEW q \in Request \ {r}
      PROVE  /\ request'[q].older = request[q].older \ {r}
             /\ request'[q].step = request[q].step /\ request'[q].kind = request[q].kind
             /\ request'[q].late = request[q].late /\ request'[q].after = request[q].after
  <2>1. request'[q] = [request[q] EXCEPT !.older = @ \ {r}] /\ request[q] \in RequestState
    BY DEF Drop, IInv, TypeOK
  <2>. QED
    BY <2>1 DEF RequestState
<1>4. Pending' = Pending \ {r} /\ Stopping' = Stopping \ {r} /\ OptingIn' = OptingIn \ {r}
  BY <1>2, <1>3 DEF Pending, Stopping, OptingIn
<1>5. Ordered'
  BY <1>2, <1>3, <1>4 DEF IInv, Ordered, Older
<1>6. Quiet => Quiet'
  BY <1>3, <1>4 DEF Quiet, OptingIn, Pending
<1>7. ASSUME NEW q \in Request \ {r}, Heard(q)  PROVE Heard(q)'
  BY <1>3, <1>4, <1>6, <1>7 DEF Heard
<1>8. Obeyed'
  BY <1>3, <1>4, <1>6, <1>7 DEF IInv, Obeyed, Heard, Stopping
<1>9. Kinds'
  BY <1>2, <1>3 DEF IInv, Kinds
<1>. QED
  BY <1>1, <1>5, <1>8, <1>9

LEMMA TakeTimeObeys ==
  ASSUME IInv, NEW r \in Request, NEW s \in RequestState, TakeTime(r, s), consent' = consent,
         r \notin Pending \cup Stopping, ~s.late, s.step \in {"upsert", "remove", "consent"}
  PROVE  request' \in [Request -> RequestState] /\ Kinds' /\ Ordered' /\ Obeyed'
<1>1. request' \in [Request -> RequestState]
  BY TakeTimeTyped DEF IInv, TypeOK
<1>2. /\ request'[r].older = Pending /\ request'[r].late = s.late
      /\ request'[r].step = s.step /\ request'[r].kind = s.kind
  BY DEF TakeTime, RequestState
<1>3. ASSUME NEW q \in Request \ {r}
      PROVE  /\ request'[q].after = (request[q].after \/ (q \in Stopping /\ s.kind \in OptIns))
             /\ request'[q].step = request[q].step /\ request'[q].kind = request[q].kind
             /\ request'[q].late = request[q].late /\ request'[q].older = request[q].older
  <2>1. /\ request'[q] = [request[q] EXCEPT !.after = @ \/ (q \in Stopping /\ s.kind \in OptIns)]
        /\ request[q] \in RequestState
    BY DEF TakeTime, IInv, TypeOK
  <2>. QED
    BY <2>1 DEF RequestState
<1>4. Pending' = Pending \cup {r} /\ Stopping' \ {r} = Stopping
  BY <1>2, <1>3 DEF Pending, Stopping
<1>5. OptingIn' = IF s.kind \in OptIns THEN OptingIn \cup {r} ELSE OptingIn
  BY <1>2, <1>3, <1>4 DEF OptingIn, Pending
<1>6. Ordered'
  BY <1>2, <1>3, <1>4 DEF IInv, Ordered, Older
<1>7. Kinds'
  BY <1>2, <1>3 DEF IInv, Kinds
<1>8. CASE s.kind \in OptIns
  <2>1. ~silenced' /\ s.kind # "stop"
    BY <1>8 DEF TakeTime, OptIns
  <2>. QED
    BY <1>1, <1>2, <1>3, <1>4, <1>6, <1>7, <1>8, <2>1 DEF Obeyed, Stopping
<1>9. CASE s.kind \notin OptIns
  <2>1. Quiet' <=> Quiet
    BY <1>3, <1>5, <1>9 DEF Quiet, OptingIn, Pending
  <2>2. silenced' = silenced
    BY <1>9 DEF TakeTime, IInv, TypeOK
  <2>3. Heard(r)'
    BY <1>2, <1>4, <1>5, <1>9 DEF Heard, OptingIn
  <2>4. ASSUME NEW q \in Request \ {r}, Heard(q)  PROVE Heard(q)'
    BY <1>3, <1>4, <1>5, <1>9, <2>1, <2>4 DEF Heard
  <2>5. Obeyed'
    BY <1>3, <1>4, <1>9, <2>1, <2>2, <2>3, <2>4 DEF IInv, Obeyed, Stopping
  <2>. QED
    BY <1>1, <1>6, <1>7, <2>5
<1>. QED
  BY <1>8, <1>9

\* Of two opt-outs around an opt-in, the later one makes it late.
LEMMA RecordObeys ==
  ASSUME IInv, NEW r \in Pending, NEW s \in RequestState, Record(r, s), silenced' = silenced,
         s.step \notin {"send", "identify", "upsert", "remove", "consent"},
         s.step # "idle" => s.kind = request[r].kind /\ s.after = request[r].after,
         s.step = "idle" => s.kind # "stop"
  PROVE  request' \in [Request -> RequestState] /\ consent' \in {"none", "in", "out"}
         /\ Kinds' /\ Ordered' /\ Obeyed'
<1>0. r \in Request
  BY DEF Pending
<1>1. request' \in [Request -> RequestState] /\ consent' \in {"none", "in", "out"}
  BY <1>0, RecordTyped DEF IInv, TypeOK
<1>2. /\ request'[r].older = {} /\ ~request'[r].late /\ request'[r].after = s.after
      /\ request'[r].step = s.step /\ request'[r].kind = s.kind
  BY <1>0 DEF Record, RequestState
<1>3. ASSUME NEW q \in Request \ {r}
      PROVE  /\ request'[q].older = request[q].older \ {r}
             /\ request'[q].late <=> request[q].late \/ q \in request[r].older
             /\ request'[q].step = request[q].step /\ request'[q].kind = request[q].kind
             /\ request'[q].after = request[q].after
  <2>1. /\ request'[q] = [request[q] EXCEPT !.older = @ \ {r}, !.late = @ \/ q \in request[r].older]
        /\ request[q] \in RequestState
    BY DEF Record, IInv, TypeOK
  <2>. QED
    BY <2>1 DEF RequestState
<1>4. Pending' = Pending \ {r} /\ Stopping' \ {r} = Stopping \ {r} /\ OptingIn' = OptingIn \ {r}
  BY <1>2, <1>3 DEF Pending, Stopping, OptingIn
<1>5. Ordered'
  <2>1. \A q \in Request : request'[q].older \subseteq Pending'
    BY <1>0, <1>2, <1>3, <1>4 DEF IInv, Ordered
  <2>2. \A q \in Request : q \notin Pending' => request'[q].older = {} /\ ~request'[q].late
    BY <1>0, <1>2, <1>3, <1>4 DEF IInv, Ordered
  <2>3. \A p, q \in Request : Older(p, q)' => Older(p, q) /\ p # r /\ q # r
    BY <1>2, <1>3, <1>4, <2>1 DEF Older
  <2>4. \A p, q \in Request : Older(p, q) /\ p # r /\ q # r => Older(p, q)'
    BY <1>3 DEF Older
  <2>5. \A p, q \in Request : Older(p, q)' /\ request'[q].late => request'[p].late
    BY <1>0, <1>3, <2>3 DEF IInv, Ordered, Older
  <2>. QED
    BY <2>1, <2>2, <2>3, <2>4, <2>5 DEF IInv, Ordered
<1>6. /\ request[r].late => consent' = consent
      /\ request[r].kind \notin OptIns => consent' \in {consent, "out"}
      /\ request[r].kind \notin OptIns /\ ~request[r].late => consent' = "out"
  BY <1>0 DEF Record, Says
<1>7. ASSUME Quiet  PROVE Quiet'
  <2>1. consent' = "out"
    BY <1>0, <1>6, <1>7 DEF Quiet, OptingIn
  <2>2. \A q \in OptingIn' : request'[q].late
    BY <1>3, <1>4, <1>7 DEF Quiet, OptingIn, Pending
  <2>. QED
    BY <2>1, <2>2 DEF Quiet
<1>8. ASSUME OptingIn \subseteq request[r].older \cup {r}, request[r].kind \notin OptIns, ~request[r].late
      PROVE  Quiet'
  <2>1. \A q \in OptingIn' : request'[q].late
    BY <1>3, <1>4, <1>8 DEF OptingIn, Pending
  <2>. QED
    BY <1>6, <1>8, <2>1 DEF Quiet
<1>9. ASSUME NEW q \in Stopping \ {r}, Heard(q)  PROVE Heard(q)'
  <2>1. q \in Request
    BY DEF Stopping
  <2>2. CASE q \notin Pending
    BY <1>4, <1>7, <1>9, <2>2 DEF Heard
  <2>3. CASE q \in Pending /\ (request[q].late \/ ~Older(q, r))
    BY <1>3, <1>4, <1>7, <1>9, <2>1, <2>3 DEF Heard, Older, OptingIn
  <2>4. CASE q \in Pending /\ ~request[q].late /\ Older(q, r)
    <3>1. OptingIn \subseteq request[q].older /\ ~request[r].late
      BY <1>0, <1>9, <2>1, <2>4 DEF Heard, IInv, Ordered
    <3>2. request[r].kind \notin OptIns
      BY <1>0, <2>1, <2>4, <3>1 DEF OptingIn, IInv, Ordered, Older
    <3>3. OptingIn \subseteq request[r].older
      BY <1>0, <2>1, <2>4, <3>1 DEF OptingIn, Pending, IInv, Ordered, Older
    <3>4. Quiet'
      BY <1>8, <3>1, <3>2, <3>3
    <3>. QED
      BY <1>3, <1>4, <2>1, <2>4, <3>1, <3>4 DEF Heard
  <2>. QED
    BY <2>2, <2>3, <2>4
<1>10. ASSUME r \in Stopping', ~request'[r].after  PROVE Heard(r)'
  <2>1. r \in Stopping /\ ~request[r].after /\ request[r].kind = "stop"
    BY <1>0, <1>2, <1>10 DEF Stopping, Pending
  <2>2. OptingIn \subseteq request[r].older /\ (request[r].late => Quiet)
    BY <2>1 DEF IInv, Obeyed, Heard
  <2>. QED
    BY <1>4, <1>7, <1>8, <2>1, <2>2 DEF Heard, OptIns
<1>11. Obeyed'
  <2>1. \A q \in Stopping' : ~request'[q].after => Heard(q)'
    BY <1>3, <1>4, <1>9, <1>10 DEF IInv, Obeyed, Stopping
  <2>. QED
    BY <1>7, <2>1 DEF IInv, Obeyed
<1>12. Kinds'
  BY <1>2, <1>3 DEF IInv, Kinds
<1>. QED
  BY <1>1, <1>5, <1>11, <1>12

-----------------------------------------------------------------------------
(* The actions.                                                            *)

LEMMA InitIInv == Init => IInv
<1> SUFFICES ASSUME Init PROVE IInv
  OBVIOUS
<1>1. TypeOK
  BY IdleTyped DEF Init, TypeOK, EventRow
<1>2. Pending = {} /\ Stopping = {}
  BY IdleTyped DEF Init, Pending, Stopping
<1>. QED
  BY <1>1, <1>2, IdleTyped DEF Init, IInv, Kinds, Ordered, Older, Obeyed

LEMMA EventTyped ==
  ASSUME TypeOK, NEW e \in Event
  PROVE  /\ \A p \in BOOLEAN : Unclaimed(e, p) => event' \in [Event -> EventRow]
         /\ \A r \in Request :
              [event EXCEPT ![e].holder = r, ![e].stale = FALSE] \in [Event -> EventRow]
         /\ [event EXCEPT ![e].stale = TRUE] \in [Event -> EventRow]
<1>1. event \in [Event -> EventRow] /\ event[e] \in EventRow
  BY DEF TypeOK
<1>2. /\ \A p \in BOOLEAN : [event[e] EXCEPT !.processed = p, !.holder = NULL, !.stale = FALSE] \in EventRow
      /\ \A r \in Request : [event[e] EXCEPT !.holder = r, !.stale = FALSE] \in EventRow
      /\ [event[e] EXCEPT !.stale = TRUE] \in EventRow
  BY <1>1 DEF EventRow
<1>. QED
  BY <1>1, <1>2 DEF Unclaimed

LEMMA ClaimIInv ==
  ASSUME IInv, NEW r \in Request, NEW e \in Event, Claim(r, e)
  PROVE  IInv'
<1> DEFINE s == [At("look", event[e].kind) EXCEPT !.event = e]
<1>1. event[e].kind \in Kind
  BY StepsAndKinds DEF IInv, TypeOK, EventRow
<1>2. /\ s \in RequestState /\ s.step = "look"
      /\ s.older = {} /\ ~s.late /\ s.late \in BOOLEAN
  BY <1>1, AtTyped, StepsAndKinds DEF RequestState
<1>3. request' = [request EXCEPT ![r] = s]
  BY DEF Claim
<1> HIDE DEF s
<1>4. r \notin Pending
  BY DEF Claim, IsAt, Pending
<1>5. s.older = request[r].older /\ s.late = request[r].late
  BY <1>2, <1>4 DEF IInv, TypeOK, Ordered, RequestState
<1>6. request' \in [Request -> RequestState] /\ Kinds' /\ Ordered' /\ Obeyed'
  BY <1>2, <1>3, <1>4, <1>5, SettingKeeps DEF Claim
<1>7. event' \in [Event -> EventRow]
  BY EventTyped DEF IInv, Claim
<1>. QED
  BY <1>6, <1>7 DEF IInv, TypeOK, Claim

LEMMA GoStaleIInv ==
  ASSUME IInv, NEW e \in Event, GoStale(e)
  PROVE  IInv'
<1>1. ASSUME NEW q \in Request
      PROVE  /\ request'[q] \in RequestState
             /\ request'[q].older = request[q].older /\ request'[q].late = request[q].late
             /\ request'[q].step = request[q].step /\ request'[q].kind = request[q].kind
             /\ request'[q].after = request[q].after
  <2>1. request[q] \in RequestState /\ request'[q] \in {request[q], [request[q] EXCEPT !.expired = TRUE]}
    BY DEF GoStale, IInv, TypeOK
  <2>. QED
    BY <2>1 DEF RequestState
<1>2. request' \in [Request -> RequestState]
  BY <1>1 DEF GoStale
<1>3. \A q \in Request : Keeps(q)
  BY <1>1 DEF Keeps, Pending, Stopping
<1>4. Ordered' /\ Obeyed'
  BY <1>3, KeptOrder DEF IInv, GoStale
<1>5. Kinds'
  BY <1>1 DEF IInv, Kinds
<1>6. event' \in [Event -> EventRow]
  BY EventTyped DEF IInv, GoStale
<1>. QED
  BY <1>2, <1>4, <1>5, <1>6 DEF IInv, TypeOK, GoStale

\* A request in the middle of its work goes on to its next statement.
LEMMA GotoObeys ==
  ASSUME IInv, NEW r \in Request, NEW step \in Step \ {"idle", "send", "identify"}, Goto(r, step),
         step \in {"upsert", "remove", "consent"} <=> r \in Pending,
         request[r].step \notin {"look", "broken"}, consent' = consent, silenced' = silenced
  PROVE  request' \in [Request -> RequestState] /\ Kinds' /\ Ordered' /\ Obeyed'
<1> DEFINE s == [request[r] EXCEPT !.step = step]
<1>1. request[r] \in RequestState
  BY DEF IInv, TypeOK
<1>2. /\ s \in RequestState /\ s.step = step /\ s.kind = request[r].kind
      /\ s.older = request[r].older /\ s.late = request[r].late /\ s.after = request[r].after
  BY <1>1 DEF RequestState
<1>3. request' = [request EXCEPT ![r] = s]
  BY DEF Goto
<1> HIDE DEF s
<1>. QED
  BY <1>2, <1>3, SettingKeeps DEF Stopping

\* A request begins, or what it learnt is added to what it knows.
LEMMA LearnObeys ==
  ASSUME IInv, NEW r \in Request, r \notin Pending, NEW s \in RequestState,
         request' = [request EXCEPT ![r] = s],
         s.older = {}, ~s.late,
         s.kind = "stop" => s.step \notin {"idle", "send", "identify"},
         s.step \notin {"upsert", "remove", "consent"},
         s.kind = "stop" /\ s.step # "look" /\ ~s.after => r \in Stopping /\ ~request[r].after,
         consent' = consent, silenced' = silenced
  PROVE  request' \in [Request -> RequestState] /\ Kinds' /\ Ordered' /\ Obeyed'
<1>1. request[r].older = {} /\ ~request[r].late
  BY DEF IInv, Ordered
<1>2. s.late \in BOOLEAN /\ request[r].late \in BOOLEAN
  BY DEF IInv, TypeOK, RequestState
<1>3. s.older = request[r].older /\ s.late = request[r].late
  BY <1>1, <1>2
<1>. QED
  BY <1>3, SettingKeeps

LEMMA RefusedIInv ==
  ASSUME IInv, NEW r \in Request, NEW kind \in Kind, Refused(r, kind)
  PROVE  IInv'
<1> DEFINE s == At("look", kind)
<1>1. s \in RequestState /\ s.step = "look" /\ s.older = {} /\ ~s.late
  BY AtTyped, StepsAndKinds
<1>2. request' = [request EXCEPT ![r] = s] /\ r \notin Pending
  BY DEF Refused, IsAt, Pending
<1> HIDE DEF s
<1>3. request' \in [Request -> RequestState] /\ Kinds' /\ Ordered' /\ Obeyed'
  BY <1>1, <1>2, LearnObeys DEF Refused
<1>. QED
  BY <1>3 DEF IInv, TypeOK, Refused

LEMMA VerificationIInv ==
  ASSUME IInv, NEW r \in Request, RequestVerification(r) \/ VerificationRefused(r)
  PROVE  IInv'
<1>1. r \notin Pending /\ r \notin Stopping /\ consent' = consent
  BY DEF RequestVerification, VerificationRefused, IsAt, Pending, Stopping, IInv, Kinds
<1>2. UNCHANGED <<event, consent, suppression, phone, enabled>>
  BY DEF RequestVerification, VerificationRefused
<1>3. CASE RequestVerification(r)
  <2> DEFINE s == At("send", "verify")
  <2>1. s \in RequestState /\ s.step = "send" /\ ~s.late /\ s.kind = "verify" /\ s.older = {}
    BY AtTyped, StepsAndKinds
  <2>2. request' = [request EXCEPT ![r] = s] /\ silenced' = silenced
    BY <1>3 DEF RequestVerification
  <2> HIDE DEF s
  <2>3. request' \in [Request -> RequestState] /\ Kinds' /\ Ordered' /\ Obeyed'
    BY <1>1, <2>1, <2>2, LearnObeys
  <2>. QED
    BY <1>2, <2>2, <2>3 DEF IInv, TypeOK
<1>4. CASE TakeTime(r, [At("consent", "stop") EXCEPT !.user = TRUE])
  <2> DEFINE s == [At("consent", "stop") EXCEPT !.user = TRUE]
  <2>1. /\ At("consent", "stop") \in RequestState /\ At("consent", "stop").step = "consent"
        /\ ~At("consent", "stop").late
    BY AtTyped, StepsAndKinds
  <2>2. s \in RequestState /\ s.step = "consent" /\ ~s.late
    BY <2>1 DEF RequestState
  <2>3. TakeTime(r, s)
    BY <1>4
  <2> HIDE DEF s
  <2>4. request' \in [Request -> RequestState] /\ Kinds' /\ Ordered' /\ Obeyed'
    BY <1>1, <2>2, <2>3, TakeTimeObeys
  <2>5. silenced' \in BOOLEAN
    BY <2>3 DEF TakeTime
  <2>. QED
    BY <1>2, <2>4, <2>5 DEF IInv, TypeOK
<1>5. CASE request' = [request EXCEPT ![r] = [At("insert", "failed") EXCEPT !.user = TRUE]]
           /\ silenced' = silenced
  <2> DEFINE s == [At("insert", "failed") EXCEPT !.user = TRUE]
  <2>1. /\ At("insert", "failed") \in RequestState /\ At("insert", "failed").step = "insert"
        /\ At("insert", "failed").kind = "failed" /\ At("insert", "failed").older = {}
        /\ ~At("insert", "failed").late
    BY AtTyped, StepsAndKinds
  <2>2. /\ s \in RequestState /\ s.step = "insert" /\ ~s.late /\ s.kind = "failed"
        /\ s.older = {}
    BY <2>1 DEF RequestState
  <2>3. request' = [request EXCEPT ![r] = s]
    BY <1>5
  <2> HIDE DEF s
  <2>4. request' \in [Request -> RequestState] /\ Kinds' /\ Ordered' /\ Obeyed'
    BY <1>1, <1>5, <2>2, <2>3, LearnObeys
  <2>. QED
    BY <1>2, <1>5, <2>4 DEF IInv, TypeOK
<1>. QED
  BY <1>3, <1>4, <1>5 DEF VerificationRefused

LEMMA LookIInv ==
  ASSUME IInv, NEW r \in Request, Look(r)
  PROVE  IInv'
<1> DEFINE known == [request[r] EXCEPT !.user = (phone = "verified")]
<1>1. r \notin Pending /\ r \notin Stopping
  BY DEF Look, IsAt, Pending, Stopping
<1>2. request[r] \in RequestState /\ request[r].older = {} /\ ~request[r].late
  BY <1>1 DEF IInv, TypeOK, Ordered
<1>3. known \in RequestState
  <2>1. (phone = "verified") \in BOOLEAN
    OBVIOUS
  <2>. QED
    BY <1>2, <2>1 DEF RequestState
<1>4. known.kind = request[r].kind /\ known.older = {} /\ ~known.late
  BY <1>2 DEF RequestState
<1> HIDE DEF known
<1>5. CASE request[r].kind = "failed"
  <2> DEFINE s == [known EXCEPT !.step = "insert"]
  <2>1. s \in RequestState /\ s.step = "insert" /\ s.kind = "failed" /\ s.older = {} /\ ~s.late
    BY <1>3, <1>4, <1>5, StepsAndKinds DEF RequestState
  <2>2. request' = [request EXCEPT ![r] = s] /\ silenced' = silenced /\ consent' = consent
    BY <1>4, <1>5 DEF Look, known
  <2> HIDE DEF s
  <2>3. request' \in [Request -> RequestState] /\ Kinds' /\ Ordered' /\ Obeyed'
    BY <1>1, <2>1, <2>2, LearnObeys
  <2>. QED
    BY <2>2, <2>3 DEF IInv, TypeOK, Look
<1>6. CASE request[r].kind # "failed"
  <2> DEFINE s == [known EXCEPT !.step = "consent"]
  <2>1. s \in RequestState /\ s.step = "consent" /\ ~s.late
    BY <1>3, <1>4, StepsAndKinds DEF RequestState
  <2>2. TakeTime(r, s) /\ consent' = consent
    BY <1>4, <1>6 DEF Look, known
  <2> HIDE DEF s
  <2>3. request' \in [Request -> RequestState] /\ Kinds' /\ Ordered' /\ Obeyed'
    BY <1>1, <2>1, <2>2, TakeTimeObeys
  <2>4. silenced' \in BOOLEAN
    BY <2>2 DEF TakeTime
  <2>. QED
    BY <2>2, <2>3, <2>4 DEF IInv, TypeOK, Look
<1>. QED
  BY <1>5, <1>6

LEMMA RecordConsentIInv ==
  ASSUME IInv, NEW r \in Request, RecordConsent(r)
  PROVE  IInv'
<1>1. r \in Pending /\ request[r] \in RequestState
  BY DEF RecordConsent, IsAt, Pending, IInv, TypeOK
<1>2. PICK s \in RequestState :
        /\ Record(r, s)
        /\ s.step \in {"insert", "release", "settings", "idle"}
        /\ s.step # "idle" => s.kind = request[r].kind /\ s.after = request[r].after
        /\ s.step = "idle" => s.kind # "stop"
  <2> DEFINE step == AfterConsent(request[r].kind)
  <2>1. step \in {"insert", "release", "settings", "idle"}
    BY DEF AfterConsent
  <2>2. CASE step = "idle"
    BY <2>2, IdleTyped DEF RecordConsent
  <2>3. CASE step # "idle"
    <3> DEFINE s == [request[r] EXCEPT !.step = step]
    <3>1. step \in Step
      BY <2>1, StepsAndKinds
    <3>2. /\ s \in RequestState /\ s.step = step /\ s.kind = request[r].kind
          /\ s.after = request[r].after
      BY <1>1, <3>1 DEF RequestState
    <3>3. Record(r, s)
      BY <2>3 DEF RecordConsent
    <3>. QED
      BY <2>1, <2>3, <3>2, <3>3
  <2>. QED
    BY <2>2, <2>3
<1>3. /\ request' \in [Request -> RequestState] /\ consent' \in {"none", "in", "out"}
      /\ Kinds' /\ Ordered' /\ Obeyed'
  BY <1>1, <1>2, RecordObeys DEF RecordConsent
<1>. QED
  BY <1>3 DEF IInv, TypeOK, RecordConsent

LEMMA SuppressionIInv ==
  ASSUME IInv, NEW r \in Request,
         InsertSuppression(r) \/ UpdateSuppression(r) \/ ReleaseSuppression(r)
  PROVE  IInv'
<1>1. /\ r \notin Pending /\ request[r].step \notin {"look", "broken"}
      /\ consent' = consent /\ silenced' = silenced
  BY DEF InsertSuppression, UpdateSuppression, ReleaseSuppression, IsAt, Pending
<1>2. PICK step \in {"update", "enable", "complete", "verify"} : Goto(r, step)
  BY DEF InsertSuppression, UpdateSuppression, ReleaseSuppression, AfterSuppressing
<1>3. request' \in [Request -> RequestState] /\ Kinds' /\ Ordered' /\ Obeyed'
  BY <1>1, <1>2, StepsAndKinds, GotoObeys
<1>4. suppression' \in Reason \cup {"none"}
  BY DEF InsertSuppression, UpdateSuppression, ReleaseSuppression, ReasonOf, Reason, IInv, TypeOK
<1>5. UNCHANGED <<event, consent, phone, enabled, silenced>>
  BY DEF InsertSuppression, UpdateSuppression, ReleaseSuppression
<1>. QED
  BY <1>3, <1>4, <1>5 DEF IInv, TypeOK

\* START reads the identity, and a request writes the channel's setting.
LEMMA EnableIInv ==
  ASSUME IInv, NEW r \in Request, ReadVerified(r) \/ SetChannelEnabled(r)
  PROVE  IInv'
<1>1. /\ r \notin Pending /\ request[r].step \notin {"look", "broken"}
      /\ consent' = consent /\ silenced' = silenced
  BY DEF ReadVerified, SetChannelEnabled, IsAt, Pending
<1>2. request[r] \in RequestState /\ request[r].older = {} /\ ~request[r].late
  BY <1>1 DEF IInv, TypeOK, Ordered
<1>3. PICK s \in RequestState :
        /\ request' = [request EXCEPT ![r] = s]
        /\ s.step \in {"enable", "complete"} /\ s.kind = request[r].kind
        /\ s.after = request[r].after /\ s.older = {} /\ ~s.late
  <2>1. CASE ReadVerified(r)
    <3> DEFINE s == [request[r] EXCEPT !.step = "enable", !.on = (phone = "verified")]
    <3>1. (phone = "verified") \in BOOLEAN /\ "enable" \in Step
      BY StepsAndKinds
    <3>2. /\ s \in RequestState /\ s.step = "enable" /\ s.kind = request[r].kind
          /\ s.after = request[r].after /\ s.older = {} /\ ~s.late
      BY <1>2, <3>1 DEF RequestState
    <3>. QED
      BY <2>1, <3>2 DEF ReadVerified
  <2>2. CASE SetChannelEnabled(r)
    <3> DEFINE s == [request[r] EXCEPT !.step = "complete", !.user = FALSE, !.on = FALSE]
    <3>1. "complete" \in Step
      BY StepsAndKinds
    <3>2. /\ s \in RequestState /\ s.step = "complete" /\ s.kind = request[r].kind
          /\ s.after = request[r].after /\ s.older = {} /\ ~s.late
      BY <1>2, <3>1 DEF RequestState
    <3>3. request' = [request EXCEPT ![r] = s]
      BY <1>2, <2>2 DEF SetChannelEnabled, RequestState, IInv, TypeOK
    <3>. QED
      BY <3>2, <3>3
  <2>. QED
    BY <2>1, <2>2
<1>4. request' \in [Request -> RequestState] /\ Kinds' /\ Ordered' /\ Obeyed'
  BY <1>1, <1>3, LearnObeys DEF Stopping
<1>5. enabled' \in BOOLEAN
  BY <1>2 DEF ReadVerified, SetChannelEnabled, IInv, TypeOK, RequestState
<1>. QED
  BY <1>4, <1>5 DEF IInv, TypeOK, ReadVerified, SetChannelEnabled

LEMMA EndIInv ==
  ASSUME IInv, NEW r \in Request, Complete(r) \/ Release(r) \/ Crash(r) \/ WriteSettings(r) \/ Sent(r)
  PROVE  IInv'
<1>1. End(r) /\ consent' = consent
  BY DEF Complete, Release, Crash, WriteSettings, Sent
<1>2. silenced' => silenced \/ (r \in Stopping \ Pending /\ ~request[r].after)
  BY DEF Complete, Release, Crash, WriteSettings, Sent, IsAt, Stopping, Pending
<1>3. request' \in [Request -> RequestState] /\ Kinds' /\ Ordered' /\ Obeyed'
  BY <1>1, <1>2, IdleTyped, DropObeys DEF End
<1>4. silenced' \in BOOLEAN
  <2>1. silenced \in BOOLEAN
    BY DEF IInv, TypeOK
  <2>2. silenced' = silenced \/ silenced' = (silenced \/ (request[r].kind = "stop" /\ ~request[r].after))
    BY DEF Complete, Release, Crash, WriteSettings, Sent
  <2>. QED
    BY <2>1, <2>2
<1>5. event' \in [Event -> EventRow]
  <2>1. event \in [Event -> EventRow] /\ request[r].event \in Event \cup {NULL}
    BY DEF IInv, TypeOK, RequestState
  <2>2. CASE Holds(r)
    <3>1. request[r].event \in Event
      BY <2>1, <2>2 DEF Holds
    <3>. QED
      BY <2>1, <3>1, EventTyped DEF IInv, Complete, Release, Crash, WriteSettings, Sent
  <2>3. CASE ~Holds(r)
    BY <2>1, <2>3 DEF Complete, Release, Crash, WriteSettings, Sent
  <2>. QED
    BY <2>2, <2>3
<1>6. enabled' \in BOOLEAN
  BY DEF Complete, Release, Crash, WriteSettings, Sent, IInv, TypeOK, RequestState
<1>7. UNCHANGED <<consent, suppression, phone>>
  BY DEF Complete, Release, Crash, WriteSettings, Sent
<1>. QED
  BY <1>3, <1>4, <1>5, <1>6, <1>7 DEF IInv, TypeOK

LEMMA BreakIInv ==
  ASSUME IInv, NEW r \in Request, Break(r)
  PROVE  IInv'
<1> DEFINE b == At("broken", request[r].kind)
           s == [b EXCEPT !.event = request[r].event, !.expired = request[r].expired]
<1>1. request[r] \in RequestState
  BY DEF IInv, TypeOK
<1>2. b \in RequestState /\ b.step = "broken" /\ b.kind = request[r].kind
  BY <1>1, AtTyped, StepsAndKinds DEF RequestState
<1>3. s \in RequestState /\ s.step = "broken"
  BY <1>1, <1>2 DEF RequestState
<1>4. Drop(r, s) /\ consent' = consent /\ silenced' = silenced
  BY DEF Break
<1> HIDE DEF b, s
<1>5. silenced' => silenced
  BY <1>4
<1>6. request' \in [Request -> RequestState] /\ Kinds' /\ Ordered' /\ Obeyed'
  BY <1>3, <1>4, <1>5, DropObeys
<1>. QED
  BY <1>6 DEF IInv, TypeOK, Break

LEMMA PatchIInv ==
  ASSUME IInv, NEW r \in Request, NEW kind \in Kind, Patch(r, kind)
  PROVE  IInv'
<1> DEFINE step == IF kind = "patch" THEN "settings" ELSE "identify"
           s == At(step, kind)
<1>1. step \in {"settings", "identify"} /\ step \in Step /\ kind # "stop"
  BY StepsAndKinds DEF Patch
<1>2. s \in RequestState /\ s.step = step /\ s.kind = kind /\ s.older = {} /\ ~s.late
  BY <1>1, AtTyped
<1>3. /\ request' = [request EXCEPT ![r] = s] /\ r \notin Pending
      /\ consent' = consent /\ silenced' = silenced
  BY DEF Patch, IsAt, Pending
<1> HIDE DEF step, s
<1>4. request' \in [Request -> RequestState] /\ Kinds' /\ Ordered' /\ Obeyed'
  BY <1>1, <1>2, <1>3, LearnObeys
<1>. QED
  BY <1>4 DEF IInv, TypeOK, Patch

LEMMA IdentifyIInv ==
  ASSUME IInv, NEW r \in Request, Identify(r)
  PROVE  IInv'
<1>1. r \notin Pending /\ r \notin Stopping /\ request[r] \in RequestState /\ ~request[r].late
  BY DEF Identify, IsAt, Pending, Stopping, IInv, TypeOK, Kinds, Ordered
<1>2. CASE phone = "none"
  <2>1. /\ Goto(r, "settings") /\ request[r].step \notin {"look", "broken"}
        /\ consent' = consent /\ silenced' = silenced
    BY <1>2 DEF Identify, IsAt
  <2>2. request' \in [Request -> RequestState] /\ Kinds' /\ Ordered' /\ Obeyed'
    BY <1>1, <2>1, StepsAndKinds, GotoObeys
  <2>. QED
    BY <2>1, <2>2 DEF IInv, TypeOK, Identify
<1>3. CASE phone # "none"
  <2> DEFINE s == [request[r] EXCEPT !.step = "consent"]
  <2>1. s \in RequestState /\ s.step = "consent" /\ ~s.late
    BY <1>1, StepsAndKinds DEF RequestState
  <2>2. TakeTime(r, s) /\ consent' = consent
    BY <1>3 DEF Identify
  <2> HIDE DEF s
  <2>3. request' \in [Request -> RequestState] /\ Kinds' /\ Ordered' /\ Obeyed'
    BY <1>1, <2>1, <2>2, TakeTimeObeys
  <2>4. silenced' \in BOOLEAN
    BY <2>2 DEF TakeTime
  <2>. QED
    BY <2>2, <2>3, <2>4 DEF IInv, TypeOK, Identify
<1>. QED
  BY <1>2, <1>3

LEMMA ReadSettingsIInv ==
  ASSUME IInv, NEW r \in Request, ReadSettings(r)
  PROVE  IInv'
<1>1. r \notin Pending /\ request[r] \in RequestState /\ request[r].older = {} /\ ~request[r].late
  BY DEF ReadSettings, IsAt, Pending, IInv, TypeOK, Ordered
<1>2. PICK on \in BOOLEAN : request' = [request EXCEPT ![r] = [request[r] EXCEPT !.step = "write", !.on = on]]
  BY DEF ReadSettings, IInv, TypeOK
<1> DEFINE s == [request[r] EXCEPT !.step = "write", !.on = on]
<1>3. /\ s \in RequestState /\ s.step = "write" /\ s.kind = request[r].kind
      /\ s.after = request[r].after /\ s.older = {} /\ ~s.late
  BY <1>1, StepsAndKinds DEF RequestState
<1>4. request' = [request EXCEPT ![r] = s]
  BY <1>2
<1> HIDE DEF s
<1>5. /\ request[r].step \notin {"look", "broken"} /\ consent' = consent /\ silenced' = silenced
  BY DEF ReadSettings, IsAt
<1>6. request' \in [Request -> RequestState] /\ Kinds' /\ Ordered' /\ Obeyed'
  BY <1>1, <1>3, <1>4, <1>5, LearnObeys DEF Stopping
<1>. QED
  BY <1>6 DEF IInv, TypeOK, ReadSettings

LEMMA PutOrDeleteIInv ==
  ASSUME IInv, NEW r \in Request, NEW kind \in Kind, PutOrDelete(r, kind)
  PROVE  IInv'
<1> DEFINE step == IF kind = "phone" THEN "upsert" ELSE "remove"
           s == At(step, kind)
<1>1. r \notin Pending /\ r \notin Stopping
  BY DEF PutOrDelete, IsAt, Pending, Stopping, IInv, Kinds
<1>2. step \in {"upsert", "remove"} /\ step \in Step
  BY StepsAndKinds
<1>3. s \in RequestState /\ s.step = step /\ ~s.late
  BY <1>2, AtTyped
<1>4. TakeTime(r, s) /\ consent' = consent
  BY DEF PutOrDelete
<1> HIDE DEF step, s
<1>5. request' \in [Request -> RequestState] /\ Kinds' /\ Ordered' /\ Obeyed'
  BY <1>1, <1>2, <1>3, <1>4, TakeTimeObeys
<1>6. silenced' \in BOOLEAN
  BY <1>4 DEF TakeTime
<1>. QED
  BY <1>4, <1>5, <1>6 DEF IInv, TypeOK, PutOrDelete

LEMMA NumberIInv ==
  ASSUME IInv, NEW r \in Request, UpsertPhone(r) \/ RemovePhone(r)
  PROVE  IInv'
<1>1. r \in Pending /\ request[r].step \notin {"look", "broken"} /\ silenced' = silenced
  BY DEF UpsertPhone, RemovePhone, IsAt, Pending
<1>2. CASE UpsertPhone(r)
  <2>1. request' \in [Request -> RequestState] /\ Kinds' /\ Ordered' /\ Obeyed'
    BY <1>1, <1>2, StepsAndKinds, GotoObeys DEF UpsertPhone
  <2>. QED
    BY <1>2, <2>1 DEF IInv, TypeOK, UpsertPhone
<1>3. CASE RemovePhone(r) /\ phone = "none"
  <2>1. End(r) /\ consent' = consent
    BY <1>3 DEF RemovePhone
  <2>2. request' \in [Request -> RequestState] /\ Kinds' /\ Ordered' /\ Obeyed'
    BY <1>1, <2>1, IdleTyped, DropObeys DEF End
  <2>. QED
    BY <1>3, <2>2 DEF IInv, TypeOK, RemovePhone
<1>4. CASE RemovePhone(r) /\ phone # "none"
  <2>1. Record(r, Idle)
    BY <1>4 DEF RemovePhone
  <2>2. /\ request' \in [Request -> RequestState] /\ consent' \in {"none", "in", "out"}
        /\ Kinds' /\ Ordered' /\ Obeyed'
    BY <1>1, <2>1, IdleTyped, RecordObeys
  <2>. QED
    BY <1>4, <2>2 DEF IInv, TypeOK, RemovePhone
<1>. QED
  BY <1>2, <1>3, <1>4

LEMMA NextIInv ==
  ASSUME IInv, [Next]_vars
  PROVE  IInv'
<1>1. ASSUME NEW r \in Request, Arrive(r)  PROVE IInv'
  BY <1>1, ClaimIInv, RefusedIInv, VerificationIInv, PatchIInv, PutOrDeleteIInv DEF Arrive
<1>2. ASSUME NEW r \in Request, Proceed(r)  PROVE IInv'
  BY <1>2, LookIInv, VerificationIInv, RecordConsentIInv, SuppressionIInv, EnableIInv, EndIInv, IdentifyIInv,
     ReadSettingsIInv, NumberIInv DEF Proceed
<1>3. ASSUME NEW r \in Request, Break(r) \/ Crash(r)  PROVE IInv'
  BY <1>3, BreakIInv, EndIInv
<1>4. CASE VerifyPhone \/ ChangeNumber \/ UNCHANGED vars
  <2>1. request' = request /\ consent' = consent /\ silenced' = silenced
    BY <1>4 DEF VerifyPhone, ChangeNumber, vars
  <2>2. \A q \in Request : Keeps(q)
    BY <2>1 DEF Keeps, Pending, Stopping
  <2>3. Ordered' /\ Obeyed' /\ Kinds'
    BY <2>1, <2>2, KeptOrder DEF IInv, Kinds
  <2>. QED
    BY <1>4, <2>1, <2>3 DEF IInv, TypeOK, VerifyPhone, ChangeNumber, vars
<1>. QED
  BY <1>1, <1>2, <1>3, <1>4, GoStaleIInv DEF Next

\* Every reachable state of SmsConsent has the declared types.
THEOREM TypeCorrect == Spec => []TypeOK
<1>1. IInv => TypeOK
  BY DEF IInv
<1>. QED
  BY <1>1, InitIInv, NextIInv, PTL DEF Spec

\* Once a STOP has been handled, no request that took its time before it can make
\* the number one that consented, in whatever order their statements commit.
THEOREM Obedience == Spec => []StopIsObeyed
<1>1. IInv => StopIsObeyed
  BY DEF IInv, Obeyed, Quiet, StopIsObeyed
<1>. QED
  BY <1>1, InitIInv, NextIInv, PTL DEF Spec

-----------------------------------------------------------------------------
(* Claims of webhook events.                                               *)

\* A claim that is not expired is the row's; an idle request has none.
Fenced ==
    /\ \A r \in Request : IsAt(r, "idle") => request[r].event = NULL
    /\ \A r \in Request : request[r].event # NULL /\ ~request[r].expired =>
         event[request[r].event].holder = r /\ ~event[request[r].event].stale
    /\ \A e \in Event : event[e].holder # NULL => ~event[e].processed

\* q has lost its event, or goes on with it and knows what it knew about it.
SameClaim(q) ==
    \/ request'[q].event = NULL
    \/ /\ request'[q].event = request[q].event /\ request'[q].expired = request[q].expired
       /\ request'[q].step = "idle" => request[q].step = "idle"

LEMMA SameClaims ==
  /\ \A r \in Request : \A s \in RequestState :
       /\ IInv
       /\ TakeTime(r, s) \/ Drop(r, s) \/ Record(r, s) \/ request' = [request EXCEPT ![r] = s]
       /\ s.event = NULL \/ (s.event = request[r].event /\ s.expired = request[r].expired /\ s.step # "idle")
       => \A q \in Request : SameClaim(q)
  /\ Idle.event = NULL
  /\ \A step \in Step, kind \in Kind : At(step, kind).event = NULL
<1>1. ASSUME NEW r \in Request, NEW s \in RequestState, IInv,
             TakeTime(r, s) \/ Drop(r, s) \/ Record(r, s) \/ request' = [request EXCEPT ![r] = s],
             s.event = NULL \/ (s.event = request[r].event /\ s.expired = request[r].expired /\ s.step # "idle"),
             NEW q \in Request
      PROVE  SameClaim(q)
  <2>0. request \in [Request -> RequestState] /\ request[q] \in RequestState
    BY <1>1 DEF IInv, TypeOK
  <2>1. CASE TakeTime(r, s)
    <3>1. \/ q = r /\ request'[q] = [s EXCEPT !.older = Pending]
          \/ /\ q # r
             /\ request'[q] = [request[q] EXCEPT !.after = @ \/ (q \in Stopping /\ s.kind \in OptIns)]
      BY <2>1 DEF TakeTime
    <3>. QED
      BY <1>1, <2>0, <3>1 DEF SameClaim, RequestState
  <2>2. CASE Drop(r, s)
    <3>1. \/ q = r /\ request'[q] = [s EXCEPT !.older = {}, !.late = FALSE]
          \/ q # r /\ request'[q] = [request[q] EXCEPT !.older = @ \ {r}]
      BY <2>2 DEF Drop
    <3>. QED
      BY <1>1, <2>0, <3>1 DEF SameClaim, RequestState
  <2>3. CASE Record(r, s)
    <3>1. \/ q = r /\ request'[q] = [s EXCEPT !.older = {}, !.late = FALSE]
          \/ /\ q # r
             /\ request'[q] = [request[q] EXCEPT !.older = @ \ {r}, !.late = @ \/ q \in request[r].older]
      BY <2>3 DEF Record
    <3>. QED
      BY <1>1, <2>0, <3>1 DEF SameClaim, RequestState
  <2>4. CASE request' = [request EXCEPT ![r] = s]
    BY <1>1, <2>0, <2>4 DEF SameClaim
  <2>. QED
    BY <1>1, <2>1, <2>2, <2>3, <2>4
<1>2. \A step \in Step, kind \in Kind : At(step, kind).event = NULL
  BY AtTyped
<1>. QED
  BY <1>1, <1>2, IdleTyped

\* Of the steps that are no claim, none but Complete and Release frees an event.
LEMMA OtherSteps ==
  ASSUME IInv, [Next]_vars
  PROVE  \/ \E r \in Request, e \in Event : Claim(r, e)
         \/ \E e \in Event : GoStale(e)
         \/ /\ \A q \in Request : SameClaim(q)
            /\ \/ event' = event
               \/ \E r \in Request : Holds(r) /\ (Complete(r) \/ Release(r))
<1> DEFINE Goal == /\ \A q \in Request : SameClaim(q)
                   /\ \/ event' = event
                      \/ \E r \in Request : Holds(r) /\ (Complete(r) \/ Release(r))
<1>0. \A r \in Request : request[r] \in RequestState
  BY DEF IInv, TypeOK
<1>1. ASSUME NEW r \in Request,
             Complete(r) \/ Release(r) \/ Crash(r) \/ WriteSettings(r) \/ Sent(r)
                 \/ (RemovePhone(r) /\ phone = "none")
      PROVE  Goal
  <2>1. Drop(r, Idle)
    BY <1>1 DEF Complete, Release, Crash, WriteSettings, Sent, RemovePhone, End
  <2>2. event' = event \/ (Holds(r) /\ (Complete(r) \/ Release(r)))
    BY <1>1 DEF Complete, Release, Crash, WriteSettings, Sent, RemovePhone
  <2>. QED
    BY <2>1, <2>2, SameClaims, IdleTyped
<1>2. ASSUME NEW r \in Request, RemovePhone(r), phone # "none"  PROVE Goal
  BY <1>2, SameClaims, IdleTyped DEF RemovePhone
<1>3. ASSUME NEW r \in Request, NEW kind \in Kind,
             Refused(r, kind) \/ Patch(r, kind) \/ PutOrDelete(r, kind)
      PROVE  Goal
  <2>1. PICK step \in {"look", "settings", "identify", "upsert", "remove"} :
          request' = [request EXCEPT ![r] = At(step, kind)] \/ TakeTime(r, At(step, kind))
    BY <1>3 DEF Refused, Patch, PutOrDelete
  <2>2. At(step, kind) \in RequestState /\ At(step, kind).event = NULL
    BY AtTyped, StepsAndKinds
  <2>3. event' = event
    BY <1>3 DEF Refused, Patch, PutOrDelete
  <2>. QED
    BY <2>1, <2>2, <2>3, SameClaims
<1>4. ASSUME NEW r \in Request, RequestVerification(r) \/ VerificationRefused(r)  PROVE Goal
  <2>1. /\ At("send", "verify") \in RequestState /\ At("send", "verify").event = NULL
        /\ At("consent", "stop") \in RequestState /\ At("consent", "stop").event = NULL
        /\ At("insert", "failed") \in RequestState /\ At("insert", "failed").event = NULL
    BY AtTyped, StepsAndKinds
  <2>2. /\ [At("consent", "stop") EXCEPT !.user = TRUE] \in RequestState
        /\ [At("consent", "stop") EXCEPT !.user = TRUE].event = NULL
        /\ [At("insert", "failed") EXCEPT !.user = TRUE] \in RequestState
        /\ [At("insert", "failed") EXCEPT !.user = TRUE].event = NULL
    BY <2>1 DEF RequestState
  <2>3. PICK s \in RequestState :
          s.event = NULL /\ (TakeTime(r, s) \/ request' = [request EXCEPT ![r] = s])
    <3>1. CASE RequestVerification(r)
      BY <2>1, <3>1 DEF RequestVerification
    <3>2. CASE VerificationRefused(r)
      <4>1. \/ TakeTime(r, [At("consent", "stop") EXCEPT !.user = TRUE])
            \/ request' = [request EXCEPT ![r] = [At("insert", "failed") EXCEPT !.user = TRUE]]
        BY <3>2 DEF VerificationRefused
      <4>. QED
        BY <2>2, <4>1
    <3>. QED
      BY <1>4, <3>1, <3>2
  <2>4. event' = event
    BY <1>4 DEF RequestVerification, VerificationRefused
  <2>. QED
    BY <2>3, <2>4, SameClaims
<1>5. ASSUME NEW r \in Request,
             Look(r) \/ RecordConsent(r) \/ InsertSuppression(r) \/ UpdateSuppression(r)
               \/ ReleaseSuppression(r) \/ ReadVerified(r) \/ SetChannelEnabled(r)
               \/ Identify(r) \/ ReadSettings(r) \/ UpsertPhone(r) \/ Break(r)
      PROVE  Goal
  <2>0. request[r] \in RequestState
    BY <1>0
  <2>1. CASE InsertSuppression(r) \/ UpdateSuppression(r) \/ ReleaseSuppression(r) \/ UpsertPhone(r)
             \/ (Identify(r) /\ phone = "none")
    <3>1. PICK step \in {"update", "enable", "complete", "verify", "consent", "settings"} : Goto(r, step)
      BY <2>1 DEF InsertSuppression, UpdateSuppression, ReleaseSuppression, AfterSuppressing,
         UpsertPhone, Identify
    <3> DEFINE s == [request[r] EXCEPT !.step = step]
    <3>2. /\ s \in RequestState /\ s.event = request[r].event /\ s.expired = request[r].expired /\ s.step # "idle"
      BY <2>0, StepsAndKinds DEF RequestState
    <3>3. request' = [request EXCEPT ![r] = s]
      BY <3>1 DEF Goto
    <3>4. event' = event
      BY <2>1 DEF InsertSuppression, UpdateSuppression, ReleaseSuppression, UpsertPhone, Identify
    <3> HIDE DEF s
    <3>. QED
      BY <3>2, <3>3, <3>4, SameClaims
  <2>2. CASE ReadVerified(r) \/ ReadSettings(r)
    <3>1. PICK step \in {"enable", "write"}, on \in BOOLEAN :
            request' = [request EXCEPT ![r] = [request[r] EXCEPT !.step = step, !.on = on]]
      BY <2>2 DEF ReadVerified, ReadSettings, IInv, TypeOK
    <3> DEFINE s == [request[r] EXCEPT !.step = step, !.on = on]
    <3>4. step \in Step
      BY StepsAndKinds
    <3>2. /\ s \in RequestState /\ s.event = request[r].event /\ s.expired = request[r].expired /\ s.step # "idle"
      BY <2>0, <3>4 DEF RequestState
    <3>3. request' = [request EXCEPT ![r] = s] /\ event' = event
      BY <2>2, <3>1 DEF ReadVerified, ReadSettings
    <3> HIDE DEF s
    <3>. QED
      BY <3>2, <3>3, SameClaims
  <2>3. CASE SetChannelEnabled(r)
    <3> DEFINE s == [request[r] EXCEPT !.step = "complete", !.user = FALSE, !.on = FALSE]
    <3>4. "complete" \in Step
      BY StepsAndKinds
    <3>2. /\ s \in RequestState /\ s.event = request[r].event /\ s.expired = request[r].expired /\ s.step # "idle"
      BY <2>0, <3>4 DEF RequestState
    <3>3. request' = [request EXCEPT ![r] = s] /\ event' = event
      BY <2>0, <2>3 DEF SetChannelEnabled, RequestState, IInv, TypeOK
    <3> HIDE DEF s
    <3>. QED
      BY <3>2, <3>3, SameClaims
  <2>4. CASE Look(r)
    <3> DEFINE known == [request[r] EXCEPT !.user = (phone = "verified")]
    <3>0. (phone = "verified") \in BOOLEAN
      OBVIOUS
    <3>1. known \in RequestState /\ known.event = request[r].event /\ known.expired = request[r].expired
      BY <2>0, <3>0 DEF RequestState
    <3>2. PICK step \in {"insert", "consent"} :
            \/ request' = [request EXCEPT ![r] = [known EXCEPT !.step = step]]
            \/ TakeTime(r, [known EXCEPT !.step = step])
      BY <2>4 DEF Look
    <3> HIDE DEF known
    <3> DEFINE s == [known EXCEPT !.step = step]
    <3>3. s \in RequestState /\ s.event = request[r].event /\ s.expired = request[r].expired /\ s.step # "idle"
      BY <3>1, StepsAndKinds DEF RequestState
    <3>4. (TakeTime(r, s) \/ request' = [request EXCEPT ![r] = s]) /\ event' = event
      BY <2>4, <3>2 DEF Look
    <3> HIDE DEF s
    <3>. QED
      BY <3>3, <3>4, SameClaims
  <2>5. CASE Identify(r) /\ phone # "none"
    <3> DEFINE s == [request[r] EXCEPT !.step = "consent"]
    <3>1. s \in RequestState /\ s.event = request[r].event /\ s.expired = request[r].expired /\ s.step # "idle"
      BY <2>0, StepsAndKinds DEF RequestState
    <3>2. TakeTime(r, s) /\ event' = event
      BY <2>5 DEF Identify
    <3> HIDE DEF s
    <3>. QED
      BY <3>1, <3>2, SameClaims
  <2>6. CASE RecordConsent(r)
    <3> DEFINE step == AfterConsent(request[r].kind)
               s == [request[r] EXCEPT !.step = step]
    <3>1. step \in Step
      BY StepsAndKinds DEF AfterConsent
    <3>2. s \in RequestState /\ s.event = request[r].event /\ s.expired = request[r].expired
      BY <2>0, <3>1 DEF RequestState
    <3>3. (Record(r, Idle) \/ (step # "idle" /\ Record(r, s))) /\ event' = event
      BY <2>6 DEF RecordConsent
    <3>4. s.step = step
      BY <2>0 DEF RequestState
    <3> HIDE DEF s
    <3>. QED
      BY <3>2, <3>3, <3>4, SameClaims, IdleTyped
  <2>7. CASE Break(r)
    <3> DEFINE b == At("broken", request[r].kind)
               s == [b EXCEPT !.event = request[r].event, !.expired = request[r].expired]
    <3>1. b \in RequestState /\ b.step = "broken"
      BY <2>0, AtTyped, StepsAndKinds DEF RequestState, At
    <3>2. s \in RequestState /\ s.event = request[r].event /\ s.expired = request[r].expired /\ s.step # "idle"
      BY <2>0, <3>1 DEF RequestState
    <3>3. Drop(r, s) /\ event' = event
      BY <2>7 DEF Break
    <3> HIDE DEF b, s
    <3>. QED
      BY <3>2, <3>3, SameClaims
  <2>. QED
    BY <1>5, <2>1, <2>2, <2>3, <2>4, <2>5, <2>6, <2>7
<1>6. CASE VerifyPhone \/ ChangeNumber \/ UNCHANGED vars
  BY <1>6 DEF VerifyPhone, ChangeNumber, vars, SameClaim
<1>. QED
  BY <1>1, <1>2, <1>3, <1>4, <1>5, <1>6 DEF Next, Arrive, Proceed

LEMMA FencedInductive ==
  /\ Init => Fenced
  /\ IInv /\ Fenced /\ [Next]_vars => Fenced'
<1>1. Init => Fenced
  BY IdleTyped DEF Init, Fenced, IsAt
<1>2. ASSUME IInv, Fenced, [Next]_vars  PROVE Fenced'
  <2>0. /\ event \in [Event -> EventRow] /\ \A r \in Request : request[r].event \in Event \cup {NULL}
        /\ request \in [Request -> RequestState]
    BY <1>2 DEF IInv, TypeOK, RequestState
  <2>1. ASSUME NEW r \in Request, NEW e \in Event, Claim(r, e)  PROVE Fenced'
    <3>1. /\ event'[e].holder = r /\ ~event'[e].stale /\ ~event'[e].processed
          /\ \A d \in Event \ {e} : event'[d] = event[d]
      BY <2>0, <2>1 DEF Claim, Claimable, EventRow
    <3>2. request'[r].event = e /\ request'[r].step = "look" /\ \A q \in Request \ {r} : request'[q] = request[q]
      BY <2>0, <2>1 DEF Claim, At
    <3>3. \A q \in Request \ {r} : request[q].event = e => request[q].expired
      BY <1>2, <2>1, ConstantsOK DEF Fenced, Claim, Claimable
    <3>. QED
      BY <1>2, <2>0, <3>1, <3>2, <3>3 DEF Fenced, IsAt
  <2>2. ASSUME NEW e \in Event, GoStale(e)  PROVE Fenced'
    <3>1. /\ event'[e].holder = event[e].holder /\ event'[e].processed = event[e].processed
          /\ \A d \in Event \ {e} : event'[d] = event[d]
      BY <2>0, <2>2 DEF GoStale, EventRow
    <3>2. \A q \in Request :
             /\ request'[q].event = request[q].event /\ request'[q].step = request[q].step
             /\ request'[q].expired <=> request[q].expired \/ (q = event[e].holder /\ request[q].event = e)
      BY <2>0, <2>2 DEF GoStale, RequestState
    <3>. QED
      BY <1>2, <2>0, <3>1, <3>2 DEF Fenced, IsAt
  <2>3. ASSUME \A q \in Request : SameClaim(q), event' = event  PROVE Fenced'
    BY <1>2, <2>3 DEF Fenced, SameClaim, IsAt
  <2>4. ASSUME \A q \in Request : SameClaim(q), NEW r \in Request, Holds(r), Complete(r) \/ Release(r)
        PROVE  Fenced'
    <3> DEFINE e == request[r].event
    <3>1. e \in Event /\ event[e].holder = r
      BY <2>0, <2>4 DEF Holds
    <3>2. event'[e].holder = NULL /\ \A d \in Event \ {e} : event'[d] = event[d]
      BY <2>0, <2>4, <3>1 DEF Complete, Release, Unclaimed, EventRow
    <3>3. request'[r].event = NULL
      <4>1. Drop(r, Idle)
        BY <2>4 DEF Complete, Release, End
      <4>2. request'[r] = [Idle EXCEPT !.older = {}, !.late = FALSE]
        BY <4>1 DEF Drop
      <4>. QED
        BY <4>2, IdleTyped DEF RequestState
    <3>4. \A q \in Request : request'[q].event = e => request'[q].expired
      BY <1>2, <2>4, <3>1, <3>3, ConstantsOK DEF Fenced, SameClaim
    <3> HIDE DEF e
    <3>. QED
      BY <1>2, <2>0, <2>4, <3>1, <3>2, <3>4 DEF Fenced, SameClaim, IsAt
  <2>. QED
    BY <1>2, <2>1, <2>2, <2>3, <2>4, OtherSteps
<1>. QED
  BY <1>1, <1>2

\* Two requests handle one event only if the claim of one of them has expired.
THEOREM OneClaimant == Spec => []OneLiveClaimant
<1>1. IInv /\ Fenced => OneLiveClaimant
  BY DEF Fenced, OneLiveClaimant
<1>. QED
  BY <1>1, InitIInv, NextIInv, FencedInductive, PTL DEF Spec

\* An event counts as processed when the request that holds it has handled it, and
\* not before.
FinishedByHolder ==
    [][\A e \in Event : event'[e].processed # event[e].processed =>
         \E r \in Request : event[e].holder = r /\ request[r].event = e /\ IsAt(r, "complete")]_vars

\* An event counts as processed when the request whose claim is the row's has
\* handled it to its end, whatever the requests whose claims expired still do.
THEOREM Finished == Spec => FinishedByHolder
<1> DEFINE Done == \A e \in Event : event'[e].processed # event[e].processed =>
                     \E r \in Request : event[e].holder = r /\ request[r].event = e /\ IsAt(r, "complete")
<1>1. IInv /\ Fenced /\ [Next]_vars => [Done]_vars
  <2> SUFFICES ASSUME IInv, Fenced, [Next]_vars  PROVE Done
    OBVIOUS
  <2>0. /\ event \in [Event -> EventRow] /\ \A r \in Request : request[r].event \in Event \cup {NULL}
    BY DEF IInv, TypeOK, RequestState
  <2>1. ASSUME NEW r \in Request, NEW e \in Event, Claim(r, e)  PROVE Done
    BY <2>0, <2>1 DEF Claim, EventRow
  <2>2. ASSUME NEW e \in Event, GoStale(e)  PROVE Done
    BY <2>0, <2>2 DEF GoStale, EventRow
  <2>3. ASSUME NEW r \in Request, Holds(r), Complete(r) \/ Release(r)  PROVE Done
    <3> DEFINE e == request[r].event
    <3>1. e \in Event /\ event[e].holder = r /\ ~event[e].processed
      BY <2>0, <2>3, ConstantsOK DEF Holds, Fenced
    <3>2. event[e].processed = FALSE
      BY <2>0, <3>1 DEF EventRow
    <3>3. /\ \A d \in Event \ {e} : event'[d] = event[d]
          /\ Release(r) => event'[e].processed = event[e].processed
      <4>1. (Complete(r) /\ Unclaimed(e, TRUE)) \/ (Release(r) /\ Unclaimed(e, FALSE))
        BY <2>3 DEF Complete, Release
      <4>2. Unclaimed(e, FALSE) => event'[e].processed = FALSE
        BY <2>0, <3>1 DEF Unclaimed, EventRow
      <4>3. \A d \in Event \ {e} : event'[d] = event[d]
        BY <2>0, <3>1, <4>1 DEF Unclaimed
      <4>4. ~(Release(r) /\ Complete(r))
        BY DEF Release, Complete, IsAt
      <4>. QED
        BY <3>2, <4>1, <4>2, <4>3, <4>4
    <3>4. Complete(r) => IsAt(r, "complete")
      BY DEF Complete
    <3>5. \A d \in Event : event'[d].processed # event[d].processed => d = e /\ IsAt(r, "complete")
      BY <2>3, <3>1, <3>3, <3>4
    <3>. QED
      BY <3>1, <3>5
  <2>. QED
    BY <2>1, <2>2, <2>3, OtherSteps
<1>. QED
  BY <1>1, InitIInv, NextIInv, FencedInductive, PTL DEF Spec, FinishedByHolder

\* What the steps do to the claims.
LEMMA ClaimStep ==
  ASSUME IInv, Fenced, NEW r \in Request, NEW e \in Event, Claim(r, e)
  PROVE  Claims!Begin(r, e)
<1>0. /\ event \in [Event -> EventRow] /\ request \in [Request -> RequestState]
  BY DEF IInv, TypeOK
<1>1. request[r].event = NULL
  BY DEF Claim, Fenced
<1> DEFINE claim == [d \in Event |-> event[d].holder]
           lapsed == {d \in Event : event[d].stale}
           done == {d \in Event : event[d].processed}
           handling == [q \in Request |-> request[q].event]
<1>2. /\ ~event[e].processed /\ (event[e].holder = NULL \/ event[e].stale)
      /\ event' = [event EXCEPT ![e].holder = r, ![e].stale = FALSE]
      /\ request' = [request EXCEPT ![r] = [At("look", event[e].kind) EXCEPT !.event = e]]
  BY DEF Claim, Claimable
<1>3. /\ event'[e].holder = r /\ event'[e].stale = FALSE /\ event'[e].processed = event[e].processed
      /\ \A d \in Event \ {e} : event'[d] = event[d]
  BY <1>0, <1>2 DEF EventRow
<1>4. request'[r].event = e /\ \A q \in Request \ {r} : request'[q] = request[q]
  BY <1>0, <1>2 DEF At
<1>5. claim' = [claim EXCEPT ![e] = r]
  BY <1>3
<1>6. lapsed' = lapsed \ {e} /\ done' = done
  BY <1>3
<1>7. handling' = [handling EXCEPT ![r] = e]
  BY <1>4
<1>. QED
  BY <1>1, <1>2, <1>5, <1>6, <1>7 DEF Claims!Begin

LEMMA StaleStep ==
  ASSUME IInv, NEW e \in Event, GoStale(e)
  PROVE  Claims!Lapse(e)
<1>0. /\ event \in [Event -> EventRow] /\ request \in [Request -> RequestState]
  BY DEF IInv, TypeOK
<1>. QED
  BY <1>0 DEF GoStale, Claims!Lapse

\* An event's holder settles it; nobody else's claim changes.
LEMMA SettleStep ==
  ASSUME IInv, Fenced, NEW r \in Request, Holds(r), Complete(r) \/ Release(r)
  PROVE  \E e \in Event : Claims!Settle(r, e)
<1>0. /\ event \in [Event -> EventRow] /\ request \in [Request -> RequestState]
  BY DEF IInv, TypeOK
<1>1. PICK e \in Event : e = request[r].event /\ event[e].holder = r
  BY <1>0, ConstantsOK DEF Holds, RequestState
<1> DEFINE claim == [d \in Event |-> event[d].holder]
           lapsed == {d \in Event : event[d].stale}
           done == {d \in Event : event[d].processed}
           handling == [q \in Request |-> request[q].event]
<1>2. PICK processed \in BOOLEAN : Unclaimed(e, processed) /\ (processed \/ Release(r))
  BY <1>1 DEF Complete, Release
<1>3. /\ event'[e].holder = NULL /\ event'[e].stale = FALSE /\ event'[e].processed = processed
      /\ \A d \in Event \ {e} : event'[d] = event[d]
  BY <1>0, <1>2 DEF Unclaimed, EventRow
<1>4. Drop(r, Idle)
  BY DEF Complete, Release, End
<1>5. /\ request'[r].event = NULL
      /\ \A q \in Request \ {r} : request'[q].event = request[q].event
  <2>1. /\ request'[r] = [Idle EXCEPT !.older = {}, !.late = FALSE]
        /\ \A q \in Request \ {r} : request'[q] = [request[q] EXCEPT !.older = @ \ {r}]
    BY <1>4 DEF Drop
  <2>. QED
    BY <1>0, <2>1, IdleTyped DEF RequestState
<1>6. claim' = [claim EXCEPT ![e] = NULL]
  BY <1>3
<1>7. lapsed' = lapsed \ {e}
  BY <1>3
<1>8. done' \in {done, done \cup {e}}
  <2>1. ~event[e].processed
    BY <1>0, <1>1, ConstantsOK DEF Fenced
  <2>. QED
    BY <1>3, <2>1
<1>9. handling' = [handling EXCEPT ![r] = NULL]
  BY <1>5
<1>. QED
  BY <1>1, <1>6, <1>7, <1>8, <1>9 DEF Claims!Settle

LEMMA QuitStep ==
  ASSUME IInv, \A q \in Request : SameClaim(q), event' = event
  PROVE  Claims!Quit
<1> DEFINE handling == [q \in Request |-> request[q].event]
<1>1. \A q \in Request : request'[q].event \in {request[q].event, NULL}
  BY DEF SameClaim
<1>2. \A q \in Request : request[q].event \in Event \cup {NULL}
  BY DEF IInv, TypeOK, RequestState
<1>3. handling' \in [Request -> Event \cup {NULL}]
  BY <1>1, <1>2
<1>4. \A q \in Request : handling'[q] \in {handling[q], NULL}
  BY <1>1
<1>. QED
  BY <1>3, <1>4 DEF Claims!Quit

\* The rows of the webhook events keep the promises of EventClaim: an event is
\* taken over only from a claim that ran out, ended only by its holder, and never
\* taken up again when it is done.
THEOREM Implements == Spec => ImplementsClaim
<1>1. Init => Claims!Init
  <2> SUFFICES ASSUME Init  PROVE Claims!Init
    OBVIOUS
  <2>1. \A e \in Event : event[e].holder = NULL /\ event[e].stale = FALSE /\ event[e].processed = FALSE
    BY DEF Init
  <2>2. \A r \in Request : request[r].event = NULL
    BY IdleTyped DEF Init
  <2>. QED
    BY <2>1, <2>2 DEF Claims!Init
<1>2. IInv /\ Fenced /\ [Next]_vars => [Claims!Next]_(Claims!claimVars)
  BY OtherSteps, ClaimStep, StaleStep, SettleStep, QuitStep DEF Claims!Next
<1>. QED
  BY <1>1, <1>2, InitIInv, NextIInv, FencedInductive, PTL DEF Spec, ImplementsClaim, Claims!Spec
=============================================================================
