---------------------------- MODULE BookingPages ----------------------------
(***************************************************************************)
(* The booking pages of the web application: the five-step booking form    *)
(* (booking-flow.tsx with booking-model.ts) and the reschedule and the     *)
(* cancellation page (change-booking-flow.tsx).  The state is the pages'   *)
(* React state; an action is what a control does, and its guard is the     *)
(* condition under which the page shows the control.  Text fields, notices *)
(* and focus are left out.                                                 *)
(***************************************************************************)
EXTENDS Naturals, FiniteSets

VARIABLES
    scenario,   \* the seeded scenario of the page
    step,       \* 1 service, 2 details, 3 appointment, 4 agreement, 5 readiness
    modules,    \* selected modules
    accepted,   \* the agreement box
    readiness,  \* [access, agreement, calendar, payment, slot]
    moving,     \* reschedule page: [booking, calendar]
    cancelling  \* cancellation page: [confirmed, booking, refund, calendar]

pageVars == <<scenario, step, modules, accepted, readiness, moving,
              cancelling>>
formOnly == <<scenario, moving, cancelling>>

Scenarios == {"standard", "payment-declined", "slot-conflict", "slot-expired"}
ModuleCodes == {"building", "timber-pest"}
Price == [m \in ModuleCodes |-> IF m = "building" THEN 49500 ELSE 22000]
quoteTotal == (IF "building" \in modules THEN Price["building"] ELSE 0)
              + (IF "timber-pest" \in modules THEN Price["timber-pest"] ELSE 0)

(* resolveScenario takes everything it does not know for "standard".       *)
resolveScenario(v) == IF v \in Scenarios THEN v ELSE "standard"
Replacing == scenario \in {"slot-conflict", "slot-expired"}

initialStep(s) == CASE s = "payment-declined" -> 5
                    [] s \in {"slot-conflict", "slot-expired"} -> 3
                    [] OTHER -> 1
initialReadiness(s) ==
    IF s = "payment-declined"
    THEN [access |-> "required", agreement |-> "signed",
          calendar |-> "confirmed", payment |-> "declined",
          slot |-> "confirmed"]
    ELSE [access |-> "required", agreement |-> "unsigned",
          calendar |-> "pending", payment |-> "pending",
          slot |-> IF s = "slot-expired" THEN "expired" ELSE "held"]

PagesInit ==
    /\ \E v \in Scenarios \cup {"other"} : scenario = resolveScenario(v)
    /\ step = initialStep(scenario)
    /\ modules = ModuleCodes
    /\ accepted = (scenario = "payment-declined")
    /\ readiness = initialReadiness(scenario)
    /\ moving = [booking |-> "confirmed", calendar |-> "confirmed"]
    /\ cancelling = [confirmed |-> FALSE, booking |-> "confirmed",
                     refund |-> "not-requested", calendar |-> "confirmed"]

updateModule(m) ==
    /\ step = 1
    /\ modules' = IF m \in modules THEN modules \ {m} ELSE modules \cup {m}
    /\ UNCHANGED <<step, accepted, readiness, formOnly>>
(* Mutant: the empty selection is submitted.                               *)
submitNothing ==
    /\ step = 1
    /\ step' = 2
    /\ UNCHANGED <<modules, accepted, readiness, formOnly>>
submitService ==
    /\ step = 1 /\ modules # {}
    /\ step' = 2
    /\ UNCHANGED <<modules, accepted, readiness, formOnly>>
submitDetails ==
    /\ step = 2
    /\ step' = 3
    /\ UNCHANGED <<modules, accepted, readiness, formOnly>>
goBack ==
    /\ step \in {2, 3, 4}
    /\ step' = step - 1
    /\ UNCHANGED <<modules, accepted, readiness, formOnly>>
confirmSlot ==
    /\ step = 3
    /\ readiness' = [readiness EXCEPT !.slot = "confirmed",
                                      !.calendar = "confirmed"]
    /\ step' = IF Replacing THEN 3 ELSE 4
    /\ UNCHANGED <<modules, accepted, formOnly>>
continueToAgreement ==
    /\ step = 3 /\ scenario # "standard" /\ readiness.slot = "confirmed"
    /\ step' = 4
    /\ UNCHANGED <<modules, accepted, readiness, formOnly>>
acceptAgreement ==
    /\ step = 4 /\ accepted' = ~accepted
    /\ UNCHANGED <<step, modules, readiness, formOnly>>
signAgreement ==
    /\ step = 4 /\ accepted
    /\ readiness' = [readiness EXCEPT !.agreement = "signed"]
    /\ step' = 5
    /\ UNCHANGED <<modules, accepted, formOnly>>
completePayment ==
    /\ step = 5 /\ readiness.payment # "succeeded"
    /\ readiness' = [readiness EXCEPT !.payment = "succeeded"]
    /\ UNCHANGED <<step, modules, accepted, formOnly>>
requestAccess ==
    /\ step = 5 /\ readiness.access = "required"
    /\ readiness' = [readiness EXCEPT !.access = "requested"]
    /\ UNCHANGED <<step, modules, accepted, formOnly>>
confirmAccessPage ==
    /\ step = 5 /\ readiness.access = "requested"
    /\ readiness' = [readiness EXCEPT !.access = "confirmed"]
    /\ UNCHANGED <<step, modules, accepted, formOnly>>

(* The label of the last step.                                             *)
readinessProjection ==
    IF /\ readiness.slot = "confirmed" /\ readiness.calendar = "confirmed"
       /\ readiness.agreement = "signed" /\ readiness.payment = "succeeded"
       /\ readiness.access = "confirmed"
    THEN "ready" ELSE "waiting"

FormNext ==
    \/ \E m \in ModuleCodes : updateModule(m)
    \/ submitService \/ submitDetails \/ goBack \/ confirmSlot
    \/ continueToAgreement \/ acceptAgreement \/ signAgreement
    \/ completePayment \/ requestAccess \/ confirmAccessPage

requestReschedulePage ==
    /\ moving.booking = "confirmed"
    /\ moving' = [booking |-> "reschedule-pending", calendar |-> "pending"]
observeReschedule ==
    /\ moving.booking = "reschedule-pending"
    /\ moving' = [booking |-> "rescheduled", calendar |-> "replaced"]

confirmBox ==
    /\ cancelling.booking = "confirmed"
    /\ cancelling' = [cancelling EXCEPT !.confirmed = ~@]
requestCancellationPage ==
    /\ cancelling.booking = "confirmed" /\ cancelling.confirmed
    /\ cancelling' = [cancelling EXCEPT !.booking = "cancel-pending",
                          !.refund = "pending",
                          !.calendar = "cancellation-pending"]
observeCancellation ==
    /\ cancelling.booking = "cancel-pending"
    /\ cancelling' = [cancelling EXCEPT !.booking = "cancelled",
                          !.refund = "succeeded", !.calendar = "cancelled"]

ChangeNext ==
    \/ /\ requestReschedulePage \/ observeReschedule
       /\ UNCHANGED <<scenario, step, modules, accepted, readiness, cancelling>>
    \/ /\ confirmBox \/ requestCancellationPage \/ observeCancellation
       /\ UNCHANGED <<scenario, step, modules, accepted, readiness, moving>>

PagesNext == FormNext \/ ChangeNext
PagesSpec == PagesInit /\ [][PagesNext]_pageVars

-----------------------------------------------------------------------------
(* No way through the form, backwards and through the replacement of a     *)
(* lost slot included, skips what a later step rests on (booking-flow.tsx  *)
(* 165-609): the agreement is shown only for a priced, non-empty scope and *)
(* a confirmed slot, and the booking is called ready only when in addition *)
(* the agreement was accepted and signed, paid for and access confirmed.   *)
StepIsEarned ==
    /\ step >= 2 => quoteTotal > 0
    /\ step >= 4 => readiness.slot = "confirmed"
    /\ step = 5 => readiness.agreement = "signed" /\ accepted
    /\ readinessProjection = "ready" => step = 5
=============================================================================
