----------------------------- MODULE SmsConsent -----------------------------
(***************************************************************************)
(* Who may be sent an SMS: the consents, the suppression and the channel    *)
(* setting of one phone number, as the webhook of routes/                   *)
(* notification-routes.ts, the keywords and refusals of services/           *)
(* notificationSecurityService.ts and the account settings change them      *)
(* through repositories/notifications.ts (all in apps/api/src).             *)
(*                                                                         *)
(* Every statement commits by itself, so that requests interleave between   *)
(* any two of them and may stop at any of them.  A webhook event is claimed *)
(* first, under a random token; a request makes one claim, so the request   *)
(* itself stands for its token.                                             *)
(*                                                                         *)
(* Of the consents only the latest by occurred_at counts, and a request     *)
(* takes that time before it writes.  `older' (of a request) is who took    *)
(* theirs before it and is still to write, `late' says that someone who     *)
(* took theirs after it has written first.  No two requests share one       *)
(* millisecond.                                                            *)
(***************************************************************************)
EXTENDS FiniteSets

CONSTANTS
    Event,    \* provider event ids of inbound messages and failure reports
    Request,  \* requests being handled at one time
    NULL

ASSUME ConstantsOK == NULL \notin Event \cup Request

VARIABLES
    event,        \* notification_webhook_events
    request,      \* where each request stands
    consent,      \* the latest of notification_channel_consents
    suppression,  \* reason of the active row of notification_suppressions
    phone,        \* the account's identity with this number
    enabled,      \* sms_enabled of its notification_preferences
    silenced      \* history: a STOP was handled, and nobody opted in after it

vars == <<event, request, consent, suppression, phone, enabled, silenced>>

\* "other": invalid_destination, and the reasons only e-mail has.
Reason == {"sms_stop", "other"}

Inbound == {"stop", "start", "failed"}  \* "failed": a permanent failure report
OptIns == {"start", "on", "phone"}
OptOuts == {"stop", "off", "remove"}
\* "on", "off", "patch": PATCH of the preferences with smsEnabled true, false or
\* absent; "phone", "remove": PUT and DELETE of the number; "verify": a code is
\* requested for it.
Kind == Inbound \cup {"on", "off", "patch", "phone", "remove", "verify"}

\* Each names the statement that is next.  "look": findUserIdByPhone; "insert",
\* "update": persistActiveSuppression; "verify": getPhoneIdentity of START;
\* "enable": setChannelEnabled; "send": the code is on its way; "settings", "write": updateSettings; "broken":
\* releaseWebhookEventClaim.
Step == {"idle", "look", "send", "identify", "upsert", "remove", "consent", "insert", "update",
         "release", "verify", "enable", "settings", "write", "complete", "broken"}

EventRow == [kind: Inbound, processed: BOOLEAN, holder: Request \cup {NULL}, stale: BOOLEAN]

\* user: the number's owner is known; on: the setting it is about to write;
\* after: an opt-in took its time after this one; expired: its claim went stale.
RequestState == [step: Step, kind: Kind, event: Event \cup {NULL}, user: BOOLEAN,
                 on: BOOLEAN, older: SUBSET Request, late: BOOLEAN, after: BOOLEAN,
                 expired: BOOLEAN]

TypeOK ==
    /\ event \in [Event -> EventRow]
    /\ request \in [Request -> RequestState]
    /\ consent \in {"none", "in", "out"}
    /\ suppression \in Reason \cup {"none"}
    /\ phone \in {"none", "unverified", "verified"}
    /\ enabled \in BOOLEAN /\ silenced \in BOOLEAN

At(step, kind) == [step |-> step, kind |-> kind, event |-> NULL, user |-> FALSE, on |-> FALSE,
                   older |-> {}, late |-> FALSE, after |-> FALSE, expired |-> FALSE]
Idle == At("idle", "patch")

Init ==
    /\ event \in [Event -> [kind: Inbound, processed: {FALSE}, holder: {NULL}, stale: {FALSE}]]
    /\ request = [r \in Request |-> Idle]
    /\ consent = "none" /\ suppression = "none" /\ phone = "none"
    /\ enabled = FALSE /\ silenced = FALSE

-----------------------------------------------------------------------------
(* Requests and the times they take.                                       *)

IsAt(r, step) == request[r].step = step
Goto(r, step) == request' = [request EXCEPT ![r].step = step]

\* It took its time and has not written its consent.
Pending == {r \in Request : request[r].step \in {"upsert", "remove", "consent"}}
\* A STOP that took its time and is still being handled.
Stopping ==
    {r \in Request : request[r].kind = "stop" /\ request[r].step \notin {"look", "broken"}}

\* r becomes s, and takes its time in doing so.
TakeTime(r, s) ==
    /\ request' = [q \in Request |->
         IF q = r THEN [s EXCEPT !.older = Pending]
         ELSE [request[q] EXCEPT !.after = @ \/ (q \in Stopping /\ s.kind \in OptIns)]]
    /\ silenced' = (silenced /\ s.kind \notin OptIns)

\* r becomes s, and will write no consent any more.
Drop(r, s) ==
    request' = [q \in Request |->
         IF q = r THEN [s EXCEPT !.older = {}, !.late = FALSE]
         ELSE [request[q] EXCEPT !.older = @ \ {r}]]
End(r) == Drop(r, Idle)

Says(kind) == IF kind \in OptIns THEN "in" ELSE "out"

RecordLast(r, s) ==  \* mutant: the consent written last counts
    /\ consent' = Says(request[r].kind)
    /\ Drop(r, s)

\* recordConsent, after which r becomes s.
Record(r, s) ==
    /\ consent' = IF request[r].late THEN consent ELSE Says(request[r].kind)
    /\ request' = [q \in Request |->
         IF q = r THEN [s EXCEPT !.older = {}, !.late = FALSE]
         ELSE [request[q] EXCEPT !.older = @ \ {r}, !.late = @ \/ q \in request[r].older]]

-----------------------------------------------------------------------------
(* Claiming webhook events.                                                *)

ClaimableUnclaimed(e) ==  \* mutant: a claim whose handler died stays
    ~event[e].processed /\ event[e].holder = NULL

Claimable(e) == ~event[e].processed /\ (event[e].holder = NULL \/ event[e].stale)

\* claimWebhookEvent.  To the other deliveries of the event it answers that it
\* is in progress or completed, and they change nothing.
Claim(r, e) ==
    /\ IsAt(r, "idle") /\ Claimable(e)
    /\ event' = [event EXCEPT ![e].holder = r, ![e].stale = FALSE]
    /\ request' = [request EXCEPT ![r] = [At("look", event[e].kind) EXCEPT !.event = e]]
    /\ UNCHANGED <<consent, suppression, phone, enabled, silenced>>

Holds(r) == request[r].event # NULL /\ event[request[r].event].holder = r

\* Its five minutes are over.
GoStale(e) ==
    /\ event[e].holder # NULL /\ ~event[e].stale
    /\ event' = [event EXCEPT ![e].stale = TRUE]
    /\ request' = [r \in Request |-> IF r = event[e].holder /\ request[r].event = e
                                     THEN [request[r] EXCEPT !.expired = TRUE]
                                     ELSE request[r]]
    /\ UNCHANGED <<consent, suppression, phone, enabled, silenced>>

\* The event is claimed no more, and processed or not.
Unclaimed(e, processed) ==
    event' = [event EXCEPT ![e].processed = processed, ![e].holder = NULL, ![e].stale = FALSE]

CompleteUnfenced(r) ==  \* mutant: without AND processing_claim_token
    /\ IsAt(r, "complete")
    /\ IF request[r].event # NULL /\ ~event[request[r].event].processed
       THEN Unclaimed(request[r].event, TRUE) ELSE UNCHANGED event
    /\ silenced' = (silenced \/ (request[r].kind = "stop" /\ ~request[r].after))
    /\ End(r)
    /\ UNCHANGED <<consent, suppression, phone, enabled>>

\* completeWebhookEvent, for requests that have an event.
Complete(r) ==
    /\ IsAt(r, "complete")
    /\ IF Holds(r) THEN Unclaimed(request[r].event, TRUE) ELSE UNCHANGED event
    /\ silenced' = (silenced \/ (request[r].kind = "stop" /\ ~request[r].after))
    /\ End(r)
    /\ UNCHANGED <<consent, suppression, phone, enabled>>

ReleaseUnfenced(r) ==  \* mutant: without AND processing_claim_token
    /\ IsAt(r, "broken")
    /\ IF ~event[request[r].event].processed
       THEN Unclaimed(request[r].event, FALSE) ELSE UNCHANGED event
    /\ End(r)
    /\ UNCHANGED <<consent, suppression, phone, enabled, silenced>>

\* releaseWebhookEventClaim.
Release(r) ==
    /\ IsAt(r, "broken")
    /\ IF Holds(r) THEN Unclaimed(request[r].event, FALSE) ELSE UNCHANGED event
    /\ End(r)
    /\ UNCHANGED <<consent, suppression, phone, enabled, silenced>>

\* A statement of a webhook's handler fails.
Break(r) ==
    /\ request[r].event # NULL /\ request[r].step # "broken"
    /\ Drop(r, [At("broken", request[r].kind) EXCEPT !.event = request[r].event,
                                                   !.expired = request[r].expired])
    /\ UNCHANGED <<event, consent, suppression, phone, enabled, silenced>>

\* The process dies, or a statement fails where nothing catches it.
Crash(r) ==
    /\ ~IsAt(r, "idle")
    /\ End(r)
    /\ UNCHANGED <<event, consent, suppression, phone, enabled, silenced>>

-----------------------------------------------------------------------------
(* Keywords and refusals.                                                  *)

\* The alert worker learns from Twilio what a webhook may report, too.
Refused(r, kind) ==
    /\ IsAt(r, "idle") /\ kind \in {"stop", "failed"}
    /\ request' = [request EXCEPT ![r] = At("look", kind)]
    /\ UNCHANGED <<event, consent, suppression, phone, enabled, silenced>>

\* requestPhoneVerification sends to a number that is not suppressed ...
RequestVerification(r) ==
    /\ IsAt(r, "idle") /\ phone = "unverified" /\ suppression = "none"
    /\ request' = [request EXCEPT ![r] = At("send", "verify")]
    /\ UNCHANGED <<event, consent, suppression, phone, enabled, silenced>>

\* ... and has sent the code, or learns the same, and whose number it is.
Sent(r) ==
    /\ IsAt(r, "send")
    /\ End(r)
    /\ UNCHANGED <<event, consent, suppression, phone, enabled, silenced>>

VerificationRefused(r) ==
    /\ IsAt(r, "send")
    /\ \/ TakeTime(r, [At("consent", "stop") EXCEPT !.user = TRUE])
       \/ /\ request' = [request EXCEPT ![r] = [At("insert", "failed") EXCEPT !.user = TRUE]]
          /\ UNCHANGED silenced
    /\ UNCHANGED <<event, consent, suppression, phone, enabled>>

\* findUserIdByPhone knows verified numbers only.
Look(r) ==
    LET s == [request[r] EXCEPT !.user = (phone = "verified")]
    IN  /\ IsAt(r, "look")
        /\ IF s.kind = "failed"
           THEN /\ request' = [request EXCEPT ![r] = [s EXCEPT !.step = "insert"]]
                /\ UNCHANGED silenced
           ELSE TakeTime(r, [s EXCEPT !.step = "consent"])
        /\ UNCHANGED <<event, consent, suppression, phone, enabled>>

\* What comes after recordConsent.
AfterConsent(kind) ==
    CASE kind = "stop" -> "insert"
      [] kind = "start" -> "release"
      [] kind \in {"on", "off"} -> "settings"
      [] OTHER -> "idle"

RecordConsent(r) ==
    LET s == AfterConsent(request[r].kind)
    IN  /\ IsAt(r, "consent")
        /\ Record(r, IF s = "idle" THEN Idle ELSE [request[r] EXCEPT !.step = s])
        /\ UNCHANGED <<event, suppression, phone, enabled, silenced>>

ReasonOfType(r) == request[r].kind  \* mutant: the event's type as the reason

ReasonOf(r) == IF request[r].kind = "stop" THEN "sms_stop" ELSE "other"
\* setChannelEnabled, if the owner is known.
AfterSuppressing(r) == IF request[r].user THEN "enable" ELSE "complete"

\* ON CONFLICT DO NOTHING, one active row for a number.
InsertSuppression(r) ==
    /\ IsAt(r, "insert")
    /\ IF suppression = "none"
       THEN suppression' = ReasonOf(r) /\ Goto(r, AfterSuppressing(r))
       ELSE Goto(r, "update") /\ UNCHANGED suppression
    /\ UNCHANGED <<event, consent, phone, enabled, silenced>>

\* It may have been released since.
UpdateSuppression(r) ==
    /\ IsAt(r, "update")
    /\ suppression' = IF suppression = "none" THEN "none" ELSE ReasonOf(r)
    /\ Goto(r, AfterSuppressing(r))
    /\ UNCHANGED <<event, consent, phone, enabled, silenced>>

\* releaseSmsStopSuppression.  Of a suppression with a later time than the START's
\* it fails (CHECK released_at >= created_at): that is a Break, and the two times
\* are not compared here.
ReleaseSuppression(r) ==
    /\ IsAt(r, "release")
    /\ suppression' = IF suppression = "sms_stop" THEN "none" ELSE suppression
    /\ Goto(r, IF request[r].user THEN "verify" ELSE "complete")
    /\ UNCHANGED <<event, consent, phone, enabled, silenced>>

ReadVerified(r) ==
    /\ IsAt(r, "verify")
    /\ request' = [request EXCEPT ![r] = [request[r] EXCEPT !.step = "enable",
                                                           !.on = (phone = "verified")]]
    /\ UNCHANGED <<event, consent, suppression, phone, enabled, silenced>>

SetChannelEnabled(r) ==
    /\ IsAt(r, "enable")
    /\ enabled' = request[r].on
    /\ request' = [request EXCEPT ![r].step = "complete", ![r].user = FALSE, ![r].on = FALSE]
    /\ UNCHANGED <<event, consent, suppression, phone, silenced>>

-----------------------------------------------------------------------------
(* The account's own requests.                                             *)

\* PATCH: smsEnabled = true needs a number that is ready for delivery.
Patch(r, kind) ==
    /\ IsAt(r, "idle") /\ kind \in {"on", "off", "patch"}
    /\ kind = "on" => phone = "verified" /\ consent = "in" /\ suppression = "none"
    /\ request' = [request EXCEPT ![r] = At(IF kind = "patch" THEN "settings" ELSE "identify", kind)]
    /\ UNCHANGED <<event, consent, suppression, phone, enabled, silenced>>

Identify(r) ==
    /\ IsAt(r, "identify")
    /\ IF phone = "none" THEN Goto(r, "settings") /\ UNCHANGED silenced
       ELSE TakeTime(r, [request[r] EXCEPT !.step = "consent"])
    /\ UNCHANGED <<event, consent, suppression, phone, enabled>>

\* updateSettings reads the row ...
ReadSettings(r) ==
    LET on == CASE request[r].kind = "on" -> TRUE
                [] request[r].kind = "off" -> FALSE
                [] OTHER -> enabled
    IN  /\ IsAt(r, "settings")
        /\ request' = [request EXCEPT ![r] = [request[r] EXCEPT !.step = "write", !.on = on]]
        /\ UNCHANGED <<event, consent, suppression, phone, enabled, silenced>>

\* ... and writes all of it.
WriteSettings(r) ==
    /\ IsAt(r, "write")
    /\ enabled' = request[r].on
    /\ End(r)
    /\ UNCHANGED <<event, consent, suppression, phone, silenced>>

\* setPhone and removePhone take their time first.
PutOrDelete(r, kind) ==
    /\ IsAt(r, "idle") /\ kind \in {"phone", "remove"}
    /\ TakeTime(r, At(IF kind = "phone" THEN "upsert" ELSE "remove", kind))
    /\ UNCHANGED <<event, consent, suppression, phone, enabled>>

\* upsertPhoneIdentity: the same number stays verified.
UpsertPhone(r) ==
    /\ IsAt(r, "upsert")
    /\ phone' = IF phone = "none" THEN "unverified" ELSE phone
    /\ Goto(r, "consent")
    /\ UNCHANGED <<event, consent, suppression, enabled, silenced>>

\* removePhoneIdentity, one transaction; nothing, if the number is gone.
RemovePhone(r) ==
    /\ IsAt(r, "remove")
    /\ IF phone = "none" THEN End(r) /\ UNCHANGED <<consent, phone, enabled>>
       ELSE Record(r, Idle) /\ phone' = "none" /\ enabled' = FALSE
    /\ UNCHANGED <<event, suppression, silenced>>

\* verifyPhoneChallenge succeeds.
VerifyPhone ==
    /\ phone = "unverified"
    /\ phone' = "verified"
    /\ UNCHANGED <<event, request, consent, suppression, enabled, silenced>>

\* upsertPhoneIdentity with another number.
ChangeNumber ==
    /\ phone # "none"
    /\ phone' = "none"
    /\ UNCHANGED <<event, request, consent, suppression, enabled, silenced>>

Arrive(r) ==
    \/ \E e \in Event : Claim(r, e)
    \/ \E kind \in Kind : Refused(r, kind) \/ Patch(r, kind) \/ PutOrDelete(r, kind)
    \/ RequestVerification(r)

Proceed(r) ==
    \/ Look(r) \/ Sent(r) \/ VerificationRefused(r) \/ RecordConsent(r)
    \/ InsertSuppression(r) \/ UpdateSuppression(r) \/ ReleaseSuppression(r)
    \/ ReadVerified(r) \/ SetChannelEnabled(r) \/ Complete(r) \/ Release(r)
    \/ Identify(r) \/ ReadSettings(r) \/ WriteSettings(r) \/ UpsertPhone(r) \/ RemovePhone(r)

Next ==
    \/ \E r \in Request : Arrive(r) \/ Proceed(r) \/ Break(r) \/ Crash(r)
    \/ \E e \in Event : GoStale(e)
    \/ VerifyPhone \/ ChangeNumber

Spec == Init /\ [][Next]_vars

-----------------------------------------------------------------------------
(* Properties.                                                             *)

\* docs/legal/privacy-beta.md:110, STOP "opt[s] out": once a STOP has been handled
\* to its end the number may not be sent to, whatever requests that took their
\* time before it still write, until somebody opts in anew.
StopIsObeyed == silenced => consent = "out"

\* One event is handled by one request, but for those whose claim went stale: a
\* request that fails late does not free the claim of the one after it.
OneLiveClaimant ==
    \A r, q \in Request :
        (r # q /\ request[r].event # NULL /\ request[r].event = request[q].event)
            => request[r].expired \/ request[q].expired

Claims == INSTANCE EventClaim WITH
    claim <- [e \in Event |-> event[e].holder],
    lapsed <- {e \in Event : event[e].stale},
    done <- {e \in Event : event[e].processed},
    handling <- [r \in Request |-> request[r].event]

\* notificationSecurityService.integration.test.ts:181, "an expired webhook
\* handler cannot finish a reclaimed event": through every failure, crash and
\* late answer the rows of the events keep what their claims promise.
ImplementsClaim == Claims!Spec

-----------------------------------------------------------------------------
(* Fairness: time passes.  Nothing is assumed of requests and providers.   *)
FairSpec == Spec /\ \A e \in Event : WF_vars(GoStale(e))

\* No crash leaves an event that every redelivery is told is in progress.
NeverStuck == \A e \in Event : []<>(event[e].processed \/ Claimable(e))
=============================================================================
