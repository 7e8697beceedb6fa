----------------------------- MODULE Boundaries -----------------------------
(***************************************************************************)
(* The edges at which a booking meets other systems.  Outbound: the        *)
(* observed provider (packages/providers/src/observed-provider.ts) behind  *)
(* the calendar and the payment adapter, called with an idempotency key    *)
(* and repeated when an answer was lost or unknown.  Inbound: the booking  *)
(* and access webhooks of the web application behind the durable rate      *)
(* limiter, called by providers that repeat and reorder their events.      *)
(***************************************************************************)
EXTENDS Naturals, FiniteSets

CONSTANTS
    CallKeys,      \* idempotency keys of provider calls
    Fingerprints,  \* request fingerprints
    Events,        \* webhook event ids
    Intents,       \* checkout intents, of which CurrentIntent is the last
    CurrentIntent,
    RateLimit      \* bound standing for the policy's limit

(* A fingerprint is a hash, never the word "none", and an event id of the  *)
(* payment provider is no access token: the two have routes of their own.  *)
ASSUME BoundariesAssumption ==
    /\ CurrentIntent \in Intents /\ RateLimit \in Nat \ {0}
    /\ "none" \notin Fingerprints
    /\ Events \cap {"active", "superseded", "other"} = {}

VARIABLES
    mode,           \* what the provider will do with a new request
    busy,           \* whether the calendar shows a conflict in the window
    observations,   \* key -> what the provider stored for it
    callAnswers,    \* history: answers given to callers
    hookObserved,   \* event id -> what the booking webhook stored for it
    acceptedTransitions,
    hookAnswers     \* history: answers given to the provider's events

providerVars == <<mode, busy, observations, callAnswers>>
hookVars == <<hookObserved, acceptedTransitions, hookAnswers>>

Modes == {"accepted", "retryable_failure", "terminal_failure", "unknown"}
Nothing == [fingerprint |-> "none", state |-> "none"]
NoEvent == [payload |-> [intent |-> 0, kind |-> "none"], outcome |-> "none"]

ProviderInit ==
    /\ mode \in Modes
    /\ busy \in BOOLEAN
    /\ observations = [k \in CallKeys |-> Nothing]
    /\ callAnswers = {}

setMode(m) == mode' = m /\ UNCHANGED <<busy, observations, callAnswers>>

Answer(k, f, state) ==
    callAnswers' = callAnswers \cup {[key |-> k, fingerprint |-> f,
                                      state |-> state]}

(* execute: a known key answers what is stored for it, or is refused if    *)
(* the request is another; a new one is observed as the provider's mode    *)
(* says and stored, an unknown outcome too.                                *)
execute(k, f) ==
    /\ \/ /\ observations[k] = Nothing
          /\ observations' = [observations EXCEPT
                                 ![k] = [fingerprint |-> f, state |-> mode]]
          /\ Answer(k, f, mode)
       \/ /\ observations[k].fingerprint = f
          /\ Answer(k, f, observations[k].state)
          /\ UNCHANGED observations
    /\ UNCHANGED <<mode, busy>>

(* reserve asks for conflicts before it executes, also for a request that  *)
(* was executed before; the busy windows are fixed when the adapter is     *)
(* made.                                                                   *)
reserve(k, f) ==
    \/ ~busy /\ execute(k, f)
    \/ busy /\ Answer(k, f, "calendar_conflict")
            /\ UNCHANGED <<mode, busy, observations>>

(* Mutant: a settled observation is reconciled as well.                    *)
reconcileAny(k, state) ==
    /\ observations[k] # Nothing
    /\ observations' = [observations EXCEPT ![k].state = state]
    /\ UNCHANGED <<mode, busy, callAnswers>>
reconcile(k, state) ==
    /\ observations[k].state = "unknown"
    /\ observations' = [observations EXCEPT ![k].state = state]
    /\ UNCHANGED <<mode, busy, callAnswers>>
ProviderNext ==
    \/ \E m \in Modes : setMode(m)
    \/ \E k \in CallKeys, f \in Fingerprints : reserve(k, f)
    \/ \E k \in CallKeys, m \in Modes : reconcile(k, m)

-----------------------------------------------------------------------------
(* What the rate-limit store can answer; isValidResult refuses what no     *)
(* atomic counter of this policy can have said, and the boundary is then   *)
(* unavailable rather than open.                                           *)
StoreResults == [allowed : BOOLEAN, remaining : 0 .. RateLimit,
                 retryAfter : {0, 1, 60, 61}]
isValidResult(r) ==
    /\ r.remaining < RateLimit /\ r.retryAfter <= 60
    /\ IF r.allowed THEN r.retryAfter = 0
                    ELSE r.remaining = 0 /\ r.retryAfter >= 1
consume(r) == IF ~isValidResult(r) THEN "unavailable"
              ELSE IF r.allowed THEN "allowed" ELSE "rate_limited"

Kinds == {"checkout.succeeded", "checkout.declined", "refund.succeeded"}
Payloads == [intent : Intents, kind : Kinds]

HookInit ==
    /\ hookObserved = [e \in Events |-> NoEvent]
    /\ acceptedTransitions = {}
    /\ hookAnswers = {}

(* A success of a superseded intent is recorded and advances nothing.      *)
Outcome(p) == IF p.kind = "checkout.succeeded" /\ p.intent # CurrentIntent
              THEN "reconciliation_required" ELSE "accepted"

(* The booking webhook: the fixture gate, the rate limit and the shape of  *)
(* the payload come first, then a known event id is replayed or, with      *)
(* another payload, refused.                                               *)
bookingWebhook(fixture, r, e, p) ==
    /\ fixture /\ consume(r) = "allowed"
    /\ \/ /\ hookObserved[e] = NoEvent
          /\ hookObserved' = [hookObserved EXCEPT
                                 ![e] = [payload |-> p, outcome |-> Outcome(p)]]
          /\ acceptedTransitions' =
                 IF Outcome(p) = "accepted" THEN acceptedTransitions \cup {p}
                                            ELSE acceptedTransitions
          /\ hookAnswers' = hookAnswers \cup
                 {[event |-> e, payload |-> p, outcome |-> Outcome(p)]}
       \/ /\ hookObserved[e].payload = p
          /\ hookAnswers' = hookAnswers \cup
                 {[event |-> e, payload |-> p,
                   outcome |-> hookObserved[e].outcome]}
          /\ UNCHANGED <<hookObserved, acceptedTransitions>>

(* The access webhook, behind the same gates, answers from the token alone *)
(* and keeps nothing.                                                      *)
AccessOutcome(token) ==
    CASE token = "superseded" -> "access_link_superseded"
      [] token = "active" -> "access_confirmation_only"
      [] OTHER -> "access_link_invalid"
accessWebhook(fixture, r, token) ==
    /\ fixture /\ consume(r) = "allowed"
    /\ hookAnswers' = hookAnswers \cup
           {[event |-> token, payload |-> NoEvent.payload,
             outcome |-> AccessOutcome(token)]}
    /\ UNCHANGED <<hookObserved, acceptedTransitions>>

HookNext ==
    \E fixture \in BOOLEAN, r \in StoreResults :
       \/ \E e \in Events, p \in Payloads : bookingWebhook(fixture, r, e, p)
       \/ \E t \in {"active", "superseded", "other"} :
             accessWebhook(fixture, r, t)

BoundariesInit == ProviderInit /\ HookInit
BoundariesNext ==
    \/ ProviderNext /\ UNCHANGED hookVars
    \/ HookNext /\ UNCHANGED providerVars

BoundariesSpec == BoundariesInit /\ [][BoundariesNext]_<<providerVars, hookVars>>

-----------------------------------------------------------------------------
(* A repeated call or event gets the answer of the first, or a refusal,    *)
(* and never a second effect (observed-provider.ts:72-109, booking         *)
(* webhook route.ts:69-100): two answers to one provider key are of one    *)
(* request and agree unless one of them was still unknown, and all answers *)
(* to one event id are the same; a success of a superseded intent is in no *)
(* order of events an accepted transition.                                 *)
AnswersAgree ==
    /\ \A a, b \in callAnswers :
          a.key = b.key /\ {a.state, b.state} \cap {"calendar_conflict"} = {} =>
              /\ a.fingerprint = b.fingerprint
              /\ a.state = b.state \/ "unknown" \in {a.state, b.state}
    /\ \A a, b \in hookAnswers : a.event = b.event => a = b
    /\ \A t \in acceptedTransitions :
          t.kind = "checkout.succeeded" => t.intent = CurrentIntent
=============================================================================
