------------------------------ MODULE Booking ------------------------------
(***************************************************************************)
(* The booking workflow of packages/booking/src/workflow.ts: one booking   *)
(* from its accepted quote to its cancellation.  Every command carries the *)
(* revision its sender read and an idempotency key; inspectCommand applies *)
(* it only at that revision and once (SlotBook models that protocol with   *)
(* late and repeated commands), so here a command that is not applied is a *)
(* stutter and a command that is applied sees the current booking.         *)
(* Payment callbacks carry no revision: they arrive late, repeated and in  *)
(* any order, and are told apart by their provider event id alone.         *)
(* Timestamps are abstracted to what the code compares: whether a hold or  *)
(* a quote has run out.  Provider references and failure codes are left    *)
(* out: no guard of the workflow reads them.                               *)
(***************************************************************************)
EXTENDS Naturals

CONSTANTS
    Slots,          \* slot ids a booking can hold
    Links,          \* access confirmation link ids
    Reminders,      \* reminder ids
    MaxAttempts,    \* bound: payment attempts
    MaxReschedules, \* bound: completed reschedules
    MaxCallbacks    \* bound: provider events received

NoSlot == "no_slot"
NoLink == "no_link"

ASSUME BookingAssumption ==
    /\ MaxAttempts \in Nat /\ MaxReschedules \in Nat /\ MaxCallbacks \in Nat
    /\ NoSlot \notin Slots /\ NoLink \notin Links
    /\ Links \cap Reminders = {}

VARIABLES
    lifecycle,   \* "none" before createBooking
    slot,        \* [id, state, live]: the booking's own projection of its slot
    agreement,   \* "unsigned" or "signed"
    payment,     \* [state, attempt, terminal]; the intent of an attempt is its number
    calendar,    \* state of the calendar projection
    access,      \* [state, generation, link, superseded]
    reminders,   \* [generation, of]: of[r] is the reminder's generation and state
    reschedule,  \* candidate slot, or NoSlot
    callbacks,   \* number of provider events received (providerCallbackReceipts)
    issuedFor    \* history: the slot for which a link or a reminder was last issued

bookingVars == <<lifecycle, slot, agreement, payment, calendar, access,
                 reminders, reschedule, callbacks, issuedFor>>

Lifecycles == {"draft", "confirmed", "reschedule_pending", "cancel_pending",
               "cancelled"}
PaymentStates == {"not_started", "pending", "paid", "declined", "failed",
                  "unknown", "refund_pending", "refunded", "refund_failed"}
CalendarStates == {"not_requested", "pending", "confirmed",
                   "reservation_failed", "unknown", "cancellation_pending",
                   "cancelled", "cancellation_failed"}
AccessStates == {"not_requested", "confirmation_pending", "confirmed",
                 "overridden", "invalidated"}

(* What a provider call is observed to have done (SideEffectObservation). *)
Observations == {"accepted", "failed_retryable", "failed_terminal", "unknown"}
IsFailed(o) == o \in {"failed_retryable", "failed_terminal"}

(* A provider event; a refund event names no intent. *)
Callbacks == [type : {"checkout_succeeded", "checkout_declined"},
              intent : 1 .. MaxAttempts]
             \cup [type : {"refund_succeeded", "refund_failed_retryable",
                           "refund_failed_terminal"}, intent : {0}]

RefundStates == {"refund_pending", "refunded", "refund_failed"}
Cancelling == lifecycle \in {"cancel_pending", "cancelled"}
Unused == [generation |-> 0, state |-> "unused"]

BookingInit ==
    /\ lifecycle = "none"
    /\ slot = [id |-> NoSlot, state |-> "none", live |-> FALSE]
    /\ agreement = "unsigned"
    /\ payment = [state |-> "not_started", attempt |-> 0, terminal |-> FALSE]
    /\ calendar = "not_requested"
    /\ access = [state |-> "not_requested", generation |-> 1, link |-> NoLink,
                 superseded |-> {}]
    /\ reminders = [generation |-> 1, of |-> [r \in Reminders |-> Unused]]
    /\ reschedule = NoSlot
    /\ callbacks = 0
    /\ issuedFor = [x \in Links \cup Reminders |-> NoSlot]

(* createQuote accepts only a published rule version and an expiry after  *)
(* the creation; createBooking then needs a quote and a hold that have    *)
(* not run out, a slot that ends after it starts, and a property in the   *)
(* quoted suburb and postcode.                                            *)
Requests == [published : BOOLEAN, quoteLive : BOOLEAN, holdLive : BOOLEAN,
             ordered : BOOLEAN, sameProperty : BOOLEAN]
Quotable(r) == r.published /\ r.quoteLive
createBooking(s, r) ==
    /\ lifecycle = "none"
    /\ Quotable(r) /\ r.holdLive /\ r.ordered /\ r.sameProperty
    /\ lifecycle' = "draft"
    /\ slot' = [id |-> s, state |-> "held", live |-> TRUE]
    /\ UNCHANGED <<agreement, payment, calendar, access, reminders,
                   reschedule, callbacks, issuedFor>>

(* The hold's expiresAt passes while the booking keeps its projection.    *)
HoldExpires ==
    /\ slot.state = "held" /\ slot.live
    /\ slot' = [slot EXCEPT !.live = FALSE]
    /\ UNCHANGED <<lifecycle, agreement, payment, calendar, access,
                   reminders, reschedule, callbacks, issuedFor>>

confirmBookingSlot ==
    /\ slot.state = "held" /\ slot.live
    /\ slot' = [slot EXCEPT !.state = "confirmed"]
    /\ UNCHANGED <<lifecycle, agreement, payment, calendar, access,
                   reminders, reschedule, callbacks, issuedFor>>

(* signAgreement refuses an unpublished template, a typed name that is    *)
(* not the signer's and a commissioned module without a scope section;    *)
(* applySignedAgreement refuses a snapshot whose hash does not verify, of *)
(* another booking, of another signer or of other modules.                *)
Snapshots == [published : BOOLEAN, named : BOOLEAN, scoped : BOOLEAN,
              verifies : BOOLEAN, ownBooking : BOOLEAN, byClient : BOOLEAN,
              sameModules : BOOLEAN]
Signed(a) == a.published /\ a.named /\ a.scoped
applySignedAgreement(a) ==
    /\ lifecycle # "none"
    /\ Signed(a) /\ a.verifies /\ a.ownBooking /\ a.byClient /\ a.sameModules
    /\ agreement' = "signed"
    /\ UNCHANGED <<lifecycle, slot, payment, calendar, access, reminders,
                   reschedule, callbacks, issuedFor>>

beginPayment ==
    /\ lifecycle # "none"
    /\ payment.state \in {"not_started", "declined", "failed"}
    /\ payment.attempt < MaxAttempts
    /\ payment' = [state |-> "pending", attempt |-> payment.attempt + 1,
                   terminal |-> FALSE]
    /\ UNCHANGED <<lifecycle, slot, agreement, calendar, access, reminders,
                   reschedule, callbacks, issuedFor>>

(* A success of a checkout counts until a refund or a cancellation begins. *)
(* Mutant: the cancellation is not looked at.                             *)
PayableAnyway == payment.state \notin RefundStates
Payable == ~Cancelling /\ payment.state \notin RefundStates

(* The payment after a provider event: a success is ignored once a refund *)
(* or a cancellation has begun and, of another intent than the current    *)
(* one, only asks for reconciliation; a decline counts for the current    *)
(* intent unless it was paid or refunded; a refund event always counts.   *)
AfterCallback(e) ==
    CASE e.type = "checkout_succeeded" /\ Payable ->
             [payment EXCEPT !.state = IF e.intent = payment.attempt
                                       THEN "paid" ELSE "unknown",
                             !.terminal = FALSE]
      [] e.type = "checkout_declined" /\ e.intent = payment.attempt
                /\ payment.state \notin RefundStates \cup {"paid"} ->
             [payment EXCEPT !.state = "declined", !.terminal = FALSE]
      [] e.type = "refund_succeeded" ->
             [payment EXCEPT !.state = "refunded", !.terminal = TRUE]
      [] e.type \in {"refund_failed_retryable", "refund_failed_terminal"} ->
             [payment EXCEPT !.state = "refund_failed",
                             !.terminal = e.type = "refund_failed_terminal"]
      [] OTHER -> payment

(* An event already received is replayed without effect, and its id with  *)
(* another payload is refused: stutters both.  So an event that counts    *)
(* has an id of its own, and a provider may send several about one fact.  *)
applyPaymentCallback(e) ==
    /\ lifecycle # "none"
    /\ callbacks < MaxCallbacks
    /\ payment' = AfterCallback(e)
    /\ callbacks' = callbacks + 1
    /\ UNCHANGED <<lifecycle, slot, agreement, calendar, access, reminders,
                   reschedule, issuedFor>>

observeCalendarReservation(o) ==
    /\ lifecycle # "none"
    /\ calendar' = CASE o = "accepted" -> "confirmed"
                     [] IsFailed(o) -> "reservation_failed"
                     [] OTHER -> "unknown"
    /\ UNCHANGED <<lifecycle, slot, agreement, payment, access, reminders,
                   reschedule, callbacks, issuedFor>>

issueAccessRequest(l) ==
    /\ lifecycle # "none"
    /\ access' = [access EXCEPT !.state = "confirmation_pending", !.link = l]
    /\ issuedFor' = [issuedFor EXCEPT ![l] = slot.id]
    /\ UNCHANGED <<lifecycle, slot, agreement, payment, calendar, reminders,
                   reschedule, callbacks>>

confirmAccess(l) ==
    /\ l \notin access.superseded
    /\ access.state = "confirmation_pending" /\ access.link = l
    /\ access' = [access EXCEPT !.state = "confirmed"]
    /\ UNCHANGED <<lifecycle, slot, agreement, payment, calendar, reminders,
                   reschedule, callbacks, issuedFor>>

overrideAccess ==
    /\ lifecycle # "none"
    /\ access' = [access EXCEPT !.state = "overridden"]
    /\ UNCHANGED <<lifecycle, slot, agreement, payment, calendar, reminders,
                   reschedule, callbacks, issuedFor>>

(* Nothing that the booking still needs is left.                           *)
deriveReadiness ==
    /\ slot.state = "confirmed" /\ agreement = "signed"
    /\ payment.state = "paid" /\ calendar = "confirmed"
    /\ access.state \in {"confirmed", "overridden"}

activateBooking ==
    /\ lifecycle # "none" /\ deriveReadiness
    /\ lifecycle' = "confirmed"
    /\ UNCHANGED <<slot, agreement, payment, calendar, access, reminders,
                   reschedule, callbacks, issuedFor>>

scheduleReminder(r) ==
    /\ lifecycle # "none" /\ reminders.of[r] = Unused
    /\ reminders' = [reminders EXCEPT !.of[r] =
                        [generation |-> reminders.generation,
                         state |-> "scheduled"]]
    /\ issuedFor' = [issuedFor EXCEPT ![r] = slot.id]
    /\ UNCHANGED <<lifecycle, slot, agreement, payment, calendar, access,
                   reschedule, callbacks>>

(* Mutant: a reschedule starts a new generation and keeps the reminders.  *)
invalidateNothing == [reminders EXCEPT !.generation = @ + 1]

invalidateReminders ==
    [generation |-> reminders.generation + 1,
     of |-> [r \in Reminders |->
                IF reminders.of[r].state = "scheduled"
                THEN [reminders.of[r] EXCEPT !.state = "invalidated"]
                ELSE reminders.of[r]]]
SupersededLinks ==
    access.superseded \cup (IF access.link = NoLink THEN {} ELSE {access.link})

requestReschedule(s) ==
    /\ lifecycle = "confirmed"
    /\ s # slot.id
    /\ lifecycle' = "reschedule_pending"
    /\ calendar' = "pending"
    /\ reschedule' = s
    /\ UNCHANGED <<slot, agreement, payment, access, reminders, callbacks,
                   issuedFor>>

completeReschedule(o) ==
    /\ lifecycle = "reschedule_pending" /\ reschedule # NoSlot
    /\ \/ /\ o # "accepted"
          /\ calendar' = IF IsFailed(o) THEN "reservation_failed"
                                        ELSE "unknown"
          /\ UNCHANGED <<lifecycle, slot, access, reminders, reschedule>>
       \/ /\ o = "accepted" /\ access.generation <= MaxReschedules
          /\ lifecycle' = "confirmed"
          /\ slot' = [id |-> reschedule, state |-> "confirmed", live |-> TRUE]
          /\ calendar' = "confirmed"
          /\ access' = [state |-> "not_requested",
                        generation |-> access.generation + 1,
                        link |-> NoLink, superseded |-> SupersededLinks]
          /\ reminders' = invalidateReminders
          /\ reschedule' = NoSlot
    /\ UNCHANGED <<agreement, payment, callbacks, issuedFor>>

requestCancellation ==
    /\ lifecycle \in {"confirmed", "reschedule_pending"}
    /\ lifecycle' = "cancel_pending"
    /\ payment' = IF payment.state = "paid"
                  THEN [payment EXCEPT !.state = "refund_pending"]
                  ELSE payment
    /\ calendar' = IF calendar = "confirmed" THEN "cancellation_pending"
                                             ELSE calendar
    /\ UNCHANGED <<slot, agreement, access, reminders, reschedule,
                   callbacks, issuedFor>>

cancellationCalendarProjection(o) ==
    CASE o = "accepted" -> "cancelled"
      [] IsFailed(o) -> "cancellation_failed"
      [] OTHER -> "unknown"

cancellationPaymentProjection(o) ==
    [payment EXCEPT !.state = CASE o = "accepted" -> "refunded"
                                [] IsFailed(o) -> "refund_failed"
                                [] OTHER -> "unknown",
                    !.terminal = o \in {"accepted", "failed_terminal"}]

completeCancellation(ofCalendar, ofRefund) ==
    /\ lifecycle = "cancel_pending"
    /\ lifecycle' = "cancelled"
    /\ slot' = [slot EXCEPT !.state = "released"]
    /\ calendar' = cancellationCalendarProjection(ofCalendar)
    /\ payment' = cancellationPaymentProjection(ofRefund)
    /\ access' = [access EXCEPT !.state = "invalidated", !.link = NoLink,
                                !.superseded = SupersededLinks]
    /\ reminders' = invalidateReminders
    /\ reschedule' = NoSlot
    /\ UNCHANGED <<agreement, callbacks, issuedFor>>

BookingNext ==
    \/ \E s \in Slots, r \in Requests : createBooking(s, r)
    \/ HoldExpires \/ confirmBookingSlot
    \/ \E a \in Snapshots : applySignedAgreement(a)
    \/ beginPayment
    \/ \E e \in Callbacks : applyPaymentCallback(e)
    \/ \E o \in Observations : observeCalendarReservation(o)
    \/ \E l \in Links : issueAccessRequest(l)
    \/ \E l \in Links : confirmAccess(l)
    \/ overrideAccess \/ activateBooking
    \/ \E r \in Reminders : scheduleReminder(r)
    \/ \E s \in Slots : requestReschedule(s)
    \/ \E o \in Observations : completeReschedule(o)
    \/ requestCancellation
    \/ \E c, r \in Observations : completeCancellation(c, r)

BookingSpec == BookingInit /\ [][BookingNext]_bookingVars

-----------------------------------------------------------------------------
(* A cancellation that was requested is final (workflow.ts:702-795): no    *)
(* order of late payment events, calendar observations, overrides and      *)
(* activations makes the booking active again.  activateBooking looks at   *)
(* the readiness alone, not at the lifecycle, so this rests on payment     *)
(* never becoming paid again once a cancellation was requested.            *)
CancellationIsFinal ==
    [][Cancelling => /\ lifecycle' \in {"cancel_pending", "cancelled"}
                     /\ lifecycle = "cancelled" => lifecycle' = "cancelled"
      ]_bookingVars

(* After a reschedule or a cancellation nothing of the former slot counts  *)
(* any more (workflow.ts:617-795): a confirmed access was given through a  *)
(* link that was issued for the slot the booking has now, and a scheduled  *)
(* reminder announces that slot.                                           *)
NothingOfAnOldSlot ==
    /\ access.state \in {"confirmation_pending", "confirmed"} =>
           issuedFor[access.link] = slot.id
    /\ \A r \in Reminders : reminders.of[r].state = "scheduled" =>
           /\ reminders.of[r].generation = reminders.generation
           /\ issuedFor[r] = slot.id
=============================================================================
