----------------------------- MODULE EventClaim -----------------------------
(***************************************************************************)
(* What the claims of webhook events promise to their handlers: an event    *)
(* is taken up by a request only while it is neither done nor claimed by    *)
(* another one whose claim has time left, only the request that holds the   *)
(* claim ends it, and what is done is never taken up again.  A request may  *)
(* go on with an event it has lost to another one, but without effect on    *)
(* the claim.                                                              *)
(*                                                                         *)
(* SmsConsent implements this specification.                               *)
(***************************************************************************)
CONSTANTS Event, Request, NULL

VARIABLES
    claim,    \* the request whose token each event's row holds, or NULL
    lapsed,   \* the events whose claim has run out
    done,     \* the events that were processed
    handling  \* the event each request believes to be its own, or NULL

claimVars == <<claim, lapsed, done, handling>>

Init ==
    /\ claim = [e \in Event |-> NULL]
    /\ lapsed = {} /\ done = {}
    /\ handling = [r \in Request |-> NULL]

\* claimWebhookEvent that answers "claimed".
Begin(r, e) ==
    /\ handling[r] = NULL
    /\ e \notin done
    /\ claim[e] = NULL \/ e \in lapsed
    /\ claim' = [claim EXCEPT ![e] = r]
    /\ lapsed' = lapsed \ {e}
    /\ handling' = [handling EXCEPT ![r] = e]
    /\ UNCHANGED done

\* The claim's time is over; its request does not notice.
Lapse(e) ==
    /\ claim[e] # NULL
    /\ lapsed' = lapsed \cup {e}
    /\ UNCHANGED <<claim, done, handling>>

\* completeWebhookEvent and releaseWebhookEventClaim, by the claim's holder.
Settle(r, e) ==
    /\ handling[r] = e /\ claim[e] = r
    /\ done' \in {done, done \cup {e}}
    /\ claim' = [claim EXCEPT ![e] = NULL]
    /\ lapsed' = lapsed \ {e}
    /\ handling' = [handling EXCEPT ![r] = NULL]

\* Requests end without a word, or with one that no longer counts.
Quit ==
    /\ UNCHANGED <<claim, lapsed, done>>
    /\ handling' \in [Request -> Event \cup {NULL}]
    /\ \A r \in Request : handling'[r] \in {handling[r], NULL}

Next ==
    \/ Quit
    \/ \E e \in Event : Lapse(e) \/ \E r \in Request : Begin(r, e) \/ Settle(r, e)

Spec == Init /\ [][Next]_claimVars
=============================================================================
