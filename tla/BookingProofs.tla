--------------------------- MODULE BookingProofs ---------------------------
(***************************************************************************)
(* Proofs about the booking side: the slot book, the booking workflow, its *)
(* boundaries and its pages.  The four share no variable, so each has an   *)
(* inductive invariant and a specification of its own.                     *)
(***************************************************************************)
EXTENDS Booking, SlotBook, Boundaries, BookingPages, TLAPS

-----------------------------------------------------------------------------
(* The slot book.  PromisesKept is not inductive: a hold that is asked for *)
(* late could take a slot whose promise still runs.  It does not, because  *)
(* a command carries an instant that has passed, and because the book      *)
(* keeps a promised hold at least as long as it was promised.              *)
SlotRecord == [state : {"available", "held", "confirmed"},
               hold : Keys \cup {NoHold},
               booking : Bookings \cup {NoHold}, expires : Nat]
HoldCommands == [op : {"hold"}, key : Keys, revision : Nat, booking : Bookings,
                 slot : BookSlots, hold : Keys, at : Nat]
ConfirmCommands == [op : {"confirm"}, key : Keys, revision : Nat,
                    booking : Bookings, slot : {NoHold}, hold : Keys, at : Nat]
Promises == [booking : Bookings, slot : BookSlots,
             kind : {"held", "confirmed"}, until : Nat]

SlotTypes ==
    /\ slots \in [BookSlots -> SlotRecord]
    /\ revision \in Nat /\ now \in Nat
    /\ sent \subseteq HoldCommands \cup ConfirmCommands
    /\ promised \subseteq Promises

(* A slot keeps a promise: it was sold to the booking, or it is held for   *)
(* the booking at least as long as promised.                               *)
SoldTo(s, b) == slots[s].state = "confirmed" /\ slots[s].booking = b
Keeps(p) ==
    \/ SoldTo(p.slot, p.booking)
    \/ /\ p.kind = "held" /\ slots[p.slot].state = "held"
       /\ slots[p.slot].booking = p.booking
       /\ p.until <= slots[p.slot].expires

SlotInv ==
    /\ SlotTypes
    /\ \A c \in sent : c.at <= now
    /\ \A p \in promised : p.kind = "confirmed" \/ now < p.until => Keeps(p)

LEMMA SlotInvGivesPromises ==
    ASSUME SlotInv
    PROVE  PromisesKept
  BY DEF SlotInv, SlotTypes, Promises, Keeps, SoldTo, PromisesKept

(* A command that is prepared carries the present, which the clock never   *)
(* falls behind.                                                           *)
LEMMA PreparePreserves ==
    ASSUME SlotInv,
           \/ \E b \in Bookings, s \in BookSlots, k \in Keys : PrepareHold(b, s, k)
           \/ \E b \in Bookings, k \in Keys, c \in sent : PrepareConfirm(b, c, k)
    PROVE  SlotInv'
  <1>1. UNCHANGED <<slots, revision, receipts, now, promised>>
    BY DEF PrepareHold, PrepareConfirm
  <1>2. PICK d \in HoldCommands \cup ConfirmCommands : sent' = sent \cup {d} /\ d.at = now
    <2>1. CASE \E b \in Bookings, s \in BookSlots, k \in Keys : PrepareHold(b, s, k)
      <3>1. PICK b \in Bookings, s \in BookSlots, k \in Keys : PrepareHold(b, s, k)
        BY <2>1
      <3>2. [op |-> "hold", key |-> k, revision |-> revision, booking |-> b,
             slot |-> s, hold |-> k, at |-> now] \in HoldCommands
        BY DEF SlotInv, SlotTypes, HoldCommands
      <3>. QED
        BY <3>1, <3>2 DEF PrepareHold
    <2>2. CASE \E b \in Bookings, k \in Keys, c \in sent : PrepareConfirm(b, c, k)
      <3>1. PICK b \in Bookings, k \in Keys, c \in sent : PrepareConfirm(b, c, k)
        BY <2>2
      <3>2. c.hold \in Keys
        BY DEF SlotInv, SlotTypes, HoldCommands, ConfirmCommands
      <3>3. [op |-> "confirm", key |-> k, revision |-> revision, booking |-> b,
             slot |-> NoHold, hold |-> c.hold, at |-> now] \in ConfirmCommands
        BY <3>2 DEF SlotInv, SlotTypes, ConfirmCommands
      <3>. QED
        BY <3>1, <3>3 DEF PrepareConfirm
    <2>. QED
      BY <2>1, <2>2
  <1>3. SlotTypes'
    BY <1>1, <1>2 DEF SlotInv, SlotTypes
  <1>4. (\A c \in sent : c.at <= now)'
    BY <1>1, <1>2 DEF SlotInv, SlotTypes
  <1>5. (\A p \in promised : p.kind = "confirmed" \/ now < p.until => Keeps(p))'
    BY <1>1 DEF SlotInv, Keeps, SoldTo
  <1>. QED
    BY <1>3, <1>4, <1>5 DEF SlotInv

(* A hold takes a slot no running promise is about: a free slot is not     *)
(* sold, and a hold that had run out when the command was prepared has run *)
(* out now.                                                                *)
LEMMA HoldPreserves ==
    ASSUME SlotInv, NEW c \in sent, holdSlot(c)
    PROVE  SlotInv'
  <1>. DEFINE rec == [state |-> "held", hold |-> c.hold, booking |-> c.booking,
                      expires |-> c.at + HoldTime]
              pro == [booking |-> c.booking, slot |-> c.slot, kind |-> "held",
                      until |-> c.at + HoldTime]
  <1>1. c \in HoldCommands
    BY DEF SlotInv, SlotTypes, holdSlot, ConfirmCommands
  <1>2. /\ c.slot \in BookSlots /\ c.at \in Nat /\ c.at <= now /\ now \in Nat
        /\ rec \in SlotRecord /\ pro \in Promises
    BY <1>1, SlotBookAssumption
       DEF SlotInv, SlotTypes, HoldCommands, SlotRecord, Promises
  <1>3. /\ slots' = [slots EXCEPT ![c.slot] = rec] /\ promised' = promised \cup {pro}
        /\ revision' = revision + 1 /\ UNCHANGED <<sent, now>>
    BY DEF holdSlot, Accept
  <1>4. SlotTypes'
    BY <1>2, <1>3 DEF SlotInv, SlotTypes
  <1>5. ASSUME NEW p \in promised, p.kind = "confirmed" \/ now < p.until
        PROVE  p.slot # c.slot /\ p.slot \in BookSlots /\ Keeps(p)
    BY <1>2, <1>5 DEF SlotInv, SlotTypes, Promises, SlotRecord, Keeps, SoldTo, holdSlot, Free
  <1>6. ASSUME NEW p \in promised', p.kind = "confirmed" \/ now' < p.until
        PROVE  Keeps(p)'
    <2>1. CASE p = pro
      BY <1>2, <1>3, <2>1, SlotBookAssumption DEF Keeps, SlotInv, SlotTypes
    <2>2. CASE p \in promised
      <3>1. slots'[p.slot] = slots[p.slot]
        BY <1>3, <1>5, <1>6, <2>2 DEF SlotInv, SlotTypes
      <3>. QED
        BY <1>3, <1>5, <1>6, <2>2, <3>1 DEF Keeps, SoldTo
    <2>. QED
      BY <1>3, <2>1, <2>2
  <1>. QED
    BY <1>3, <1>4, <1>6 DEF SlotInv

(* A confirmation sells the slot to the booking that holds it, to which    *)
(* every promise about that slot was made.                                 *)
LEMMA ConfirmSlotPreserves ==
    ASSUME SlotInv, NEW c \in sent, confirmSlotHold(c)
    PROVE  SlotInv'
  <1>. DEFINE rec == [state |-> "confirmed", hold |-> NoHold,
                      booking |-> c.booking, expires |-> 0]
              pro(s) == [booking |-> c.booking, slot |-> s, kind |-> "confirmed",
                         until |-> 0]
  <1>1. PICK s \in BookSlots :
            /\ slots[s].state = "held" /\ slots[s].booking = c.booking
            /\ slots' = [slots EXCEPT ![s] = rec]
            /\ promised' = promised \cup {pro(s)}
    BY DEF confirmSlotHold
  <1>2. revision' = revision + 1 /\ UNCHANGED <<sent, now>>
    BY DEF confirmSlotHold, Accept
  <1>3. c.booking \in Bookings
    BY DEF SlotInv, SlotTypes, HoldCommands, ConfirmCommands
  <1>4. rec \in SlotRecord /\ pro(s) \in Promises
    BY <1>3 DEF SlotRecord, Promises
  <1>5. SlotTypes'
    BY <1>1, <1>2, <1>4 DEF SlotInv, SlotTypes
  <1>6. ASSUME NEW p \in promised', p.kind = "confirmed" \/ now' < p.until
        PROVE  Keeps(p)'
    <2>1. CASE p = pro(s)
      BY <1>1, <2>1 DEF Keeps, SoldTo, SlotInv, SlotTypes
    <2>2. CASE p \in promised
      <3>1. Keeps(p) /\ p.slot \in BookSlots
        BY <1>2, <1>6, <2>2 DEF SlotInv, SlotTypes, Promises
      <3>2. CASE p.slot = s
        BY <1>1, <3>1, <3>2 DEF Keeps, SoldTo, SlotInv, SlotTypes
      <3>3. CASE p.slot # s
        BY <1>1, <3>1, <3>3 DEF Keeps, SoldTo, SlotInv, SlotTypes
      <3>. QED
        BY <3>2, <3>3
    <2>. QED
      BY <1>1, <2>1, <2>2
  <1>. QED
    BY <1>2, <1>5, <1>6 DEF SlotInv

(* What a client was told about a slot stays true (slots.ts:82-212).       *)
THEOREM PromisesAreKept == SlotSpec => []PromisesKept
  <1>1. createSlotBook => SlotInv
    BY DEF createSlotBook, SlotInv, SlotTypes, SlotRecord, Available
  <1>2. ASSUME SlotInv, [SlotNext]_slotVars PROVE SlotInv'
    <2>1. CASE SlotTick
      BY <1>2, <2>1 DEF SlotInv, SlotTypes, SlotTick, Keeps, SoldTo, Promises,
          HoldCommands, ConfirmCommands
    <2>2. CASE UNCHANGED slotVars
      BY <1>2, <2>2 DEF slotVars, SlotInv, SlotTypes, Keeps, SoldTo
    <2>. QED
      BY <1>2, <2>1, <2>2, PreparePreserves, HoldPreserves, ConfirmSlotPreserves DEF SlotNext
  <1>. QED
    BY <1>1, <1>2, SlotInvGivesPromises, PTL DEF SlotSpec

-----------------------------------------------------------------------------
(* The booking workflow.  activateBooking does not look at the lifecycle,  *)
(* so that a cancellation is final rests on the payment never being paid   *)
(* again.  That nothing of an old slot counts needs to know, besides the   *)
(* property itself, which link the access has, and that nothing was issued *)
(* before the booking had its first slot.                                  *)
BookingTypes ==
    /\ lifecycle \in Lifecycles \cup {"none"}
    /\ slot.id \in Slots \cup {NoSlot}
    /\ DOMAIN slot = {"id", "state", "live"}
    /\ payment \in [state : PaymentStates, attempt : Nat, terminal : BOOLEAN]
    /\ access \in [state : AccessStates, generation : Nat,
                   link : Links \cup {NoLink}, superseded : SUBSET Links]
    /\ reminders \in [generation : Nat,
                      of : [Reminders -> [generation : Nat,
                               state : {"unused", "scheduled", "invalidated"}]]]
    /\ reschedule \in Slots \cup {NoSlot}
    /\ issuedFor \in [Links \cup Reminders -> Slots \cup {NoSlot}]

NotPaidAgain == Cancelling => payment.state # "paid"

LinkOfSlot ==
    access.state \in {"confirmation_pending", "confirmed"} =>
        access.link \in Links /\ issuedFor[access.link] = slot.id

RemindersOfSlot ==
    \A r \in Reminders : reminders.of[r].state = "scheduled" =>
        /\ reminders.of[r].generation = reminders.generation
        /\ issuedFor[r] = slot.id

NothingIssuedYet ==
    lifecycle = "none" =>
        /\ access.state = "not_requested"
        /\ \A r \in Reminders : reminders.of[r].state # "scheduled"

BookingInv == /\ BookingTypes /\ NotPaidAgain
              /\ LinkOfSlot /\ RemindersOfSlot /\ NothingIssuedYet

(* The commands about the slot and the lifecycle up to the confirmation    *)
(* issue nothing; the first slot comes when nothing was issued.            *)
LEMMA SlotStepsPreserve ==
    ASSUME BookingInv,
           \/ \E s \in Slots, r \in Requests : createBooking(s, r)
           \/ HoldExpires \/ confirmBookingSlot \/ activateBooking
           \/ \E s \in Slots : requestReschedule(s)
    PROVE  BookingInv'
  <1>. USE DEF BookingInv, BookingTypes, Lifecycles
  <1>0. UNCHANGED <<payment, access, reminders, issuedFor>>
    BY DEF createBooking, HoldExpires, confirmBookingSlot, activateBooking, requestReschedule
  <1>1. BookingTypes'
    BY <1>0 DEF createBooking, HoldExpires, confirmBookingSlot, activateBooking,
        requestReschedule
  <1>2. NotPaidAgain'
    BY <1>0 DEF NotPaidAgain, Cancelling, deriveReadiness, createBooking, HoldExpires,
        confirmBookingSlot, activateBooking, requestReschedule
  <1>3. slot'.id = slot.id \/ lifecycle = "none"
    BY DEF createBooking, HoldExpires, confirmBookingSlot, activateBooking, requestReschedule
  <1>4. lifecycle' = "none" => lifecycle = "none"
    BY DEF createBooking, HoldExpires, confirmBookingSlot, activateBooking, requestReschedule
  <1>5. LinkOfSlot' /\ RemindersOfSlot' /\ NothingIssuedYet'
    BY <1>0, <1>3, <1>4 DEF LinkOfSlot, RemindersOfSlot, NothingIssuedYet
  <1>. QED
    BY <1>1, <1>2, <1>5

(* The agreement, the payment, its late events and the calendar leave the  *)
(* slot, the access and the reminders alone, and no event pays a booking   *)
(* that is being cancelled.                                                *)
LEMMA PaymentStepsPreserve ==
    ASSUME BookingInv,
           \/ \E a \in Snapshots : applySignedAgreement(a)
           \/ beginPayment
           \/ \E e \in Callbacks : applyPaymentCallback(e)
           \/ \E o \in Observations : observeCalendarReservation(o)
    PROVE  BookingInv'
  <1>0. UNCHANGED <<lifecycle, slot, access, reminders, reschedule, issuedFor>>
    BY DEF applySignedAgreement, beginPayment, applyPaymentCallback,
        observeCalendarReservation
  <1>1. ASSUME NEW e \in Callbacks
        PROVE  /\ AfterCallback(e) \in [state : PaymentStates, attempt : Nat,
                                        terminal : BOOLEAN]
               /\ Cancelling => AfterCallback(e).state # "paid"
    <2>1. CASE e.type = "checkout_succeeded" /\ Payable
      BY <2>1 DEF AfterCallback, Payable, BookingInv, BookingTypes, PaymentStates
    <2>2. CASE e.type = "checkout_declined" /\ e.intent = payment.attempt
               /\ payment.state \notin RefundStates \cup {"paid"}
      BY <2>2 DEF AfterCallback, BookingInv, BookingTypes, PaymentStates
    <2>3. CASE e.type = "refund_succeeded"
      BY <2>3 DEF AfterCallback, BookingInv, BookingTypes, PaymentStates
    <2>4. CASE e.type = "refund_failed_retryable"
      BY <2>4 DEF AfterCallback, BookingInv, BookingTypes, PaymentStates
    <2>5. CASE e.type = "refund_failed_terminal"
      BY <2>5 DEF AfterCallback, BookingInv, BookingTypes, PaymentStates
    <2>6. CASE \/ e.type = "checkout_succeeded" /\ ~Payable
               \/ e.type = "checkout_declined"
                    /\ ~(/\ e.intent = payment.attempt
                         /\ payment.state \notin RefundStates \cup {"paid"})
      BY <2>6 DEF AfterCallback, BookingInv, BookingTypes, NotPaidAgain
    <2>. QED
      BY <2>1, <2>2, <2>3, <2>4, <2>5, <2>6 DEF Callbacks
  <1>2. /\ payment' \in [state : PaymentStates, attempt : Nat, terminal : BOOLEAN]
        /\ Cancelling => payment'.state # "paid"
    <2>1. CASE beginPayment
      BY <2>1 DEF beginPayment, BookingInv, BookingTypes, PaymentStates
    <2>2. CASE \E e \in Callbacks : applyPaymentCallback(e)
      BY <2>2, <1>1 DEF applyPaymentCallback
    <2>3. CASE UNCHANGED payment
      BY <2>3 DEF BookingInv, BookingTypes, NotPaidAgain
    <2>. QED
      BY <2>1, <2>2, <2>3 DEF applySignedAgreement, observeCalendarReservation
  <1>3. BookingTypes'
    BY <1>0, <1>2 DEF BookingInv, BookingTypes
  <1>. QED
    BY <1>0, <1>2, <1>3 DEF BookingInv, NotPaidAgain, Cancelling, LinkOfSlot,
        RemindersOfSlot, NothingIssuedYet

(* A link and a reminder are issued for the slot the booking has now.      *)
LEMMA AccessStepsPreserve ==
    ASSUME BookingInv,
           \/ \E l \in Links : issueAccessRequest(l)
           \/ \E l \in Links : confirmAccess(l)
           \/ overrideAccess
    PROVE  BookingInv'
  <1>. USE DEF BookingInv
  <1>0. UNCHANGED <<lifecycle, slot, payment, reminders, reschedule>>
    BY DEF issueAccessRequest, confirmAccess, overrideAccess
  <1>1. lifecycle # "none"
    BY DEF NothingIssuedYet, issueAccessRequest, confirmAccess, overrideAccess
  <1>2. ASSUME NEW l \in Links, issueAccessRequest(l)
        PROVE  BookingTypes' /\ LinkOfSlot' /\ RemindersOfSlot'
    <2>1. /\ access' = [access EXCEPT !.state = "confirmation_pending", !.link = l]
          /\ issuedFor' = [issuedFor EXCEPT ![l] = slot.id]
      BY <1>2 DEF issueAccessRequest
    <2>2. BookingTypes'
      BY <1>0, <2>1 DEF BookingTypes, AccessStates
    <2>3. LinkOfSlot'
      BY <1>0, <2>1 DEF BookingTypes, LinkOfSlot
    <2>4. RemindersOfSlot'
      BY <1>0, <2>1, BookingAssumption DEF BookingTypes, RemindersOfSlot
    <2>. QED
      BY <2>2, <2>3, <2>4
  <1>3. ASSUME NEW l \in Links, confirmAccess(l)
        PROVE  BookingTypes' /\ LinkOfSlot' /\ RemindersOfSlot'
    <2>1. /\ access.state = "confirmation_pending"
          /\ access' = [access EXCEPT !.state = "confirmed"] /\ UNCHANGED issuedFor
      BY <1>3 DEF confirmAccess
    <2>. QED
      BY <1>0, <2>1 DEF BookingTypes, AccessStates, LinkOfSlot, RemindersOfSlot
  <1>4. ASSUME overrideAccess
        PROVE  BookingTypes' /\ LinkOfSlot' /\ RemindersOfSlot'
    <2>1. access' = [access EXCEPT !.state = "overridden"] /\ UNCHANGED issuedFor
      BY <1>4 DEF overrideAccess
    <2>. QED
      BY <1>0, <2>1 DEF BookingTypes, AccessStates, LinkOfSlot, RemindersOfSlot
  <1>. QED
    BY <1>0, <1>1, <1>2, <1>3, <1>4 DEF NotPaidAgain, Cancelling, NothingIssuedYet

LEMMA ReminderPreserves ==
    ASSUME BookingInv, NEW r \in Reminders, scheduleReminder(r)
    PROVE  BookingInv'
  <1>. USE DEF BookingInv
  <1>. DEFINE rec == [generation |-> reminders.generation, state |-> "scheduled"]
  <1>0. /\ UNCHANGED <<lifecycle, slot, payment, access, reschedule>>
        /\ lifecycle # "none"
        /\ reminders' = [reminders EXCEPT !.of[r] = rec]
        /\ issuedFor' = [issuedFor EXCEPT ![r] = slot.id]
    BY DEF scheduleReminder
  <1>1. BookingTypes'
    BY <1>0 DEF BookingTypes
  <1>2. LinkOfSlot'
    BY <1>0, BookingAssumption DEF BookingTypes, LinkOfSlot
  <1>3. RemindersOfSlot'
    BY <1>0 DEF BookingTypes, RemindersOfSlot
  <1>. QED
    BY <1>0, <1>1, <1>2, <1>3 DEF NotPaidAgain, Cancelling, NothingIssuedYet

(* invalidateReminders leaves no reminder scheduled.                       *)
LEMMA InvalidatedReminders ==
    ASSUME BookingTypes
    PROVE  /\ invalidateReminders \in
                  [generation : Nat,
                   of : [Reminders -> [generation : Nat,
                            state : {"unused", "scheduled", "invalidated"}]]]
           /\ \A r \in Reminders : invalidateReminders.of[r].state # "scheduled"
  BY DEF BookingTypes, invalidateReminders

LEMMA EndStepsPreserve ==
    ASSUME BookingInv,
           \/ \E o \in Observations : completeReschedule(o)
           \/ requestCancellation
           \/ \E c, r \in Observations : completeCancellation(c, r)
    PROVE  BookingInv'
  <1>. USE DEF BookingInv
  <1>a. SupersededLinks \in SUBSET Links
    BY DEF BookingTypes, SupersededLinks
  <1>1. CASE requestCancellation
    <2>1. BookingTypes' /\ NotPaidAgain'
      BY <1>1 DEF requestCancellation, BookingTypes, NotPaidAgain, PaymentStates, Lifecycles
    <2>. QED
      BY <1>1, <2>1 DEF requestCancellation, LinkOfSlot, RemindersOfSlot, NothingIssuedYet
  <1>2. ASSUME NEW o \in Observations, completeReschedule(o), o # "accepted"
        PROVE  BookingInv'
    BY <1>2 DEF completeReschedule, BookingTypes, NotPaidAgain, Cancelling, LinkOfSlot,
        RemindersOfSlot, NothingIssuedYet
  <1>3. ASSUME NEW o \in Observations, completeReschedule(o), o = "accepted"
        PROVE  BookingInv'
    <2>1. BookingTypes'
      BY <1>a, <1>3, InvalidatedReminders DEF completeReschedule, BookingTypes, AccessStates,
          Lifecycles
    <2>. QED
      BY <1>3, <2>1, InvalidatedReminders DEF completeReschedule, NotPaidAgain, Cancelling,
          LinkOfSlot, RemindersOfSlot, NothingIssuedYet
  <1>4. ASSUME NEW c \in Observations, NEW r \in Observations, completeCancellation(c, r)
        PROVE  BookingInv'
    <2>1. /\ cancellationPaymentProjection(r) \in
                 [state : PaymentStates, attempt : Nat, terminal : BOOLEAN]
          /\ cancellationPaymentProjection(r).state # "paid"
      <3>1. (r \in {"accepted", "failed_terminal"}) \in BOOLEAN
        OBVIOUS
      <3>2. CASE r = "accepted"
        BY <3>1, <3>2 DEF BookingTypes, cancellationPaymentProjection, PaymentStates
      <3>3. CASE r # "accepted" /\ IsFailed(r)
        BY <3>1, <3>3 DEF BookingTypes, cancellationPaymentProjection, PaymentStates
      <3>4. CASE r # "accepted" /\ ~IsFailed(r)
        BY <3>1, <3>4 DEF BookingTypes, cancellationPaymentProjection, PaymentStates
      <3>. QED
        BY <3>2, <3>3, <3>4
    <2>2. BookingTypes'
      BY <1>a, <1>4, <2>1, InvalidatedReminders DEF completeCancellation, BookingTypes,
          AccessStates, Lifecycles
    <2>. QED
      BY <1>4, <2>1, <2>2, InvalidatedReminders DEF completeCancellation, NotPaidAgain,
          LinkOfSlot, RemindersOfSlot, NothingIssuedYet, BookingTypes
  <1>. QED
    BY <1>1, <1>2, <1>3, <1>4

LEMMA BookingInvariant == BookingSpec => []BookingInv
  <1>1. BookingInit => BookingInv
    BY BookingAssumption DEF BookingInit, BookingInv, BookingTypes, NotPaidAgain, Cancelling,
        LinkOfSlot, RemindersOfSlot, NothingIssuedYet, Unused, PaymentStates, AccessStates
  <1>2. ASSUME BookingInv, [BookingNext]_bookingVars PROVE BookingInv'
    <2>1. CASE UNCHANGED bookingVars
      BY <1>2, <2>1 DEF bookingVars, BookingInv, BookingTypes, NotPaidAgain, Cancelling,
          LinkOfSlot, RemindersOfSlot, NothingIssuedYet
    <2>. QED
      BY <1>2, <2>1, SlotStepsPreserve, PaymentStepsPreserve, AccessStepsPreserve,
         ReminderPreserves, EndStepsPreserve DEF BookingNext
  <1>. QED
    BY <1>1, <1>2, PTL DEF BookingSpec

(* After a reschedule or a cancellation nothing of the former slot counts  *)
(* any more (workflow.ts:617-795).                                         *)
THEOREM NothingOfAnOldSlotCounts == BookingSpec => []NothingOfAnOldSlot
  <1>1. BookingInv => NothingOfAnOldSlot
    BY DEF BookingInv, LinkOfSlot, RemindersOfSlot, NothingOfAnOldSlot
  <1>. QED
    BY <1>1, BookingInvariant, PTL

(* A requested cancellation is final whatever arrives afterwards           *)
(* (workflow.ts:702-795).                                                  *)
THEOREM CancellationsAreFinal == BookingSpec => CancellationIsFinal
  <1>1. ASSUME BookingInv, BookingNext, Cancelling
        PROVE  /\ lifecycle' \in {"cancel_pending", "cancelled"}
               /\ lifecycle = "cancelled" => lifecycle' = "cancelled"
    BY <1>1 DEF BookingInv, NotPaidAgain, Cancelling, BookingNext, createBooking, HoldExpires,
        confirmBookingSlot, applySignedAgreement, beginPayment, applyPaymentCallback,
        observeCalendarReservation, issueAccessRequest, confirmAccess, overrideAccess,
        activateBooking, deriveReadiness, scheduleReminder, requestReschedule, completeReschedule,
        requestCancellation, completeCancellation
  <1>2. ASSUME BookingInv, [BookingNext]_bookingVars
        PROVE  [Cancelling => /\ lifecycle' \in {"cancel_pending", "cancelled"}
                              /\ lifecycle = "cancelled" => lifecycle' = "cancelled"
               ]_bookingVars
    BY <1>1, <1>2
  <1>. QED
    BY <1>2, BookingInvariant, PTL DEF BookingSpec, CancellationIsFinal

-----------------------------------------------------------------------------
(* The boundaries.  Two answers agree because both come from one record    *)
(* that is never replaced: an observation changes only while it is         *)
(* unknown, and what was answered from it was then unknown as well.        *)
Observed == [fingerprint : Fingerprints, state : Modes]
ProviderTypes == /\ mode \in Modes
                 /\ observations \in [CallKeys -> Observed \cup {Nothing}]

FromObservation(a) ==
    /\ a.key \in CallKeys /\ observations[a.key] \in Observed
    /\ a.fingerprint = observations[a.key].fingerprint
    /\ a.state = observations[a.key].state \/ a.state = "unknown"

ProviderInv ==
    /\ ProviderTypes
    /\ \A a \in callAnswers : a.state = "calendar_conflict" \/ FromObservation(a)

HookRecords == [payload : Payloads, outcome : {"accepted", "reconciliation_required"}]
Tokens == {"active", "superseded", "other"}

HookAnswer(x) ==
    IF x \in Tokens
    THEN [event |-> x, payload |-> NoEvent.payload, outcome |-> AccessOutcome(x)]
    ELSE [event |-> x, payload |-> hookObserved[x].payload,
          outcome |-> hookObserved[x].outcome]

HookInv ==
    /\ hookObserved \in [Events -> HookRecords \cup {NoEvent}]
    /\ \A a \in hookAnswers :
          /\ a.event \in Tokens \/ (a.event \in Events /\ hookObserved[a.event] # NoEvent)
          /\ a = HookAnswer(a.event)
    /\ \A t \in acceptedTransitions :
          t.kind = "checkout.succeeded" => t.intent = CurrentIntent

LEMMA NothingIsNotObserved ==
    /\ Nothing \notin Observed
    /\ \A f \in Fingerprints : f # Nothing.fingerprint
    /\ NoEvent \notin HookRecords
    /\ NoEvent.payload \notin Payloads
  BY BoundariesAssumption DEF Nothing, Observed, NoEvent, HookRecords, Payloads, Kinds

LEMMA AnswersComeFromRecords ==
    ASSUME ProviderInv, HookInv
    PROVE  AnswersAgree
  <1>1. ASSUME NEW a \in callAnswers, NEW b \in callAnswers, a.key = b.key,
               {a.state, b.state} \cap {"calendar_conflict"} = {}
        PROVE  /\ a.fingerprint = b.fingerprint
               /\ a.state = b.state \/ "unknown" \in {a.state, b.state}
    BY <1>1 DEF ProviderInv, FromObservation
  <1>2. ASSUME NEW a \in hookAnswers, NEW b \in hookAnswers, a.event = b.event
        PROVE  a = b
    BY <1>2 DEF HookInv
  <1>. QED
    BY <1>1, <1>2 DEF AnswersAgree, HookInv

(* execute answers what it has stored, or stores what it answers.          *)
LEMMA ExecutePreserves ==
    ASSUME ProviderInv, NEW k \in CallKeys, NEW f \in Fingerprints, execute(k, f)
    PROVE  ProviderInv'
  <1>. DEFINE rec == [fingerprint |-> f, state |-> mode]
  <1>1. CASE observations[k] = Nothing /\ observations' = [observations EXCEPT ![k] = rec]
             /\ Answer(k, f, mode) /\ UNCHANGED mode
    <2>1. rec \in Observed /\ ProviderTypes'
      BY <1>1 DEF ProviderInv, ProviderTypes, Observed
    <2>2. ASSUME NEW a \in callAnswers, a.state # "calendar_conflict"
          PROVE  FromObservation(a)'
      <3>1. FromObservation(a) /\ a.key # k
        BY <1>1, <2>2, NothingIsNotObserved DEF ProviderInv, FromObservation
      <3>. QED
        BY <1>1, <3>1 DEF FromObservation, ProviderInv, ProviderTypes
    <2>3. FromObservation([key |-> k, fingerprint |-> f, state |-> mode])'
      BY <1>1, <2>1 DEF FromObservation, ProviderInv, ProviderTypes
    <2>. QED
      BY <1>1, <2>1, <2>2, <2>3 DEF ProviderInv, Answer
  <1>2. CASE observations[k].fingerprint = f /\ Answer(k, f, observations[k].state)
             /\ UNCHANGED <<observations, mode>>
    <2>1. observations[k] \in Observed
      BY <1>2, NothingIsNotObserved DEF ProviderInv, ProviderTypes
    <2>2. FromObservation([key |-> k, fingerprint |-> f, state |-> observations[k].state])
      BY <1>2, <2>1 DEF FromObservation
    <2>. QED
      BY <1>2, <2>2 DEF ProviderInv, ProviderTypes, Answer, FromObservation
  <1>. QED
    BY <1>1, <1>2 DEF execute

LEMMA ProviderPreserves ==
    ASSUME ProviderInv, ProviderNext
    PROVE  ProviderInv'
  <1>1. ASSUME NEW m \in Modes, setMode(m) PROVE ProviderInv'
    BY <1>1 DEF setMode, ProviderInv, ProviderTypes, FromObservation
  <1>2. ASSUME NEW k \in CallKeys, NEW f \in Fingerprints, reserve(k, f) PROVE ProviderInv'
    <2>1. CASE Answer(k, f, "calendar_conflict") /\ UNCHANGED <<mode, busy, observations>>
      BY <2>1 DEF Answer, ProviderInv, ProviderTypes, FromObservation
    <2>. QED
      BY <1>2, <2>1, ExecutePreserves DEF reserve
  <1>3. ASSUME NEW k \in CallKeys, NEW m \in Modes, reconcile(k, m) PROVE ProviderInv'
    <2>0. /\ observations[k].state = "unknown"
          /\ observations' = [observations EXCEPT ![k].state = m]
          /\ UNCHANGED <<mode, callAnswers>>
      BY <1>3 DEF reconcile
    <2>1. observations[k] \in Observed
      BY <2>0 DEF ProviderInv, ProviderTypes, Nothing
    <2>2. ProviderTypes'
      BY <2>0, <2>1 DEF ProviderInv, ProviderTypes, Observed
    <2>3. ASSUME NEW a \in callAnswers, FromObservation(a) PROVE FromObservation(a)'
      BY <2>0, <2>1, <2>3 DEF FromObservation, Observed, ProviderInv, ProviderTypes
    <2>. QED
      BY <2>0, <2>2, <2>3 DEF ProviderInv
  <1>. QED
    BY <1>1, <1>2, <1>3 DEF ProviderNext

LEMMA HookPreserves ==
    ASSUME HookInv, HookNext
    PROVE  HookInv'
  <1>1. ASSUME NEW fixture \in BOOLEAN, NEW r \in StoreResults, NEW e \in Events,
               NEW p \in Payloads, bookingWebhook(fixture, r, e, p)
        PROVE  HookInv'
    <2>0. e \notin Tokens
      BY BoundariesAssumption DEF Tokens
    <2>1. CASE hookObserved[e] = NoEvent
      <3>. DEFINE rec == [payload |-> p, outcome |-> Outcome(p)]
                  ans == [event |-> e, payload |-> p, outcome |-> Outcome(p)]
      <3>0. rec \in HookRecords
        BY DEF HookRecords, Outcome
      <3>1. /\ hookObserved' = [hookObserved EXCEPT ![e] = rec]
            /\ hookAnswers' = hookAnswers \cup {ans}
            /\ acceptedTransitions' = IF Outcome(p) = "accepted"
                                      THEN acceptedTransitions \cup {p}
                                      ELSE acceptedTransitions
        BY <1>1, <2>1, NothingIsNotObserved DEF bookingWebhook
      <3>2. hookObserved' \in [Events -> HookRecords \cup {NoEvent}]
        BY <3>0, <3>1 DEF HookInv
      <3>3. hookObserved'[e] = rec /\ rec # NoEvent
        BY <3>0, <3>1, NothingIsNotObserved DEF HookInv
      <3>4. ASSUME NEW a \in hookAnswers
            PROVE  /\ \/ a.event \in Tokens
                      \/ a.event \in Events /\ hookObserved'[a.event] # NoEvent
                   /\ a = HookAnswer(a.event)'
        <4>1. a.event # e
          BY <2>0, <2>1 DEF HookInv
        <4>. QED
          BY <3>1, <4>1 DEF HookInv, HookAnswer
      <3>5. ans.event = e /\ ans = HookAnswer(e)'
        BY <2>0, <3>3 DEF HookAnswer
      <3>6. \A t \in acceptedTransitions' :
               t.kind = "checkout.succeeded" => t.intent = CurrentIntent
        BY <3>1 DEF HookInv, Outcome
      <3>. QED
        BY <3>1, <3>2, <3>3, <3>4, <3>5, <3>6 DEF HookInv
    <2>2. CASE hookObserved[e] # NoEvent
      <3>1. /\ hookObserved[e].payload = p
            /\ hookAnswers' = hookAnswers \cup
                   {[event |-> e, payload |-> p, outcome |-> hookObserved[e].outcome]}
            /\ UNCHANGED <<hookObserved, acceptedTransitions>>
        BY <1>1, <2>2 DEF bookingWebhook
      <3>. QED
        BY <2>0, <2>2, <3>1 DEF HookInv, HookAnswer
    <2>. QED
      BY <2>1, <2>2
  <1>2. ASSUME NEW fixture \in BOOLEAN, NEW r \in StoreResults, NEW t \in Tokens,
               accessWebhook(fixture, r, t)
        PROVE  HookInv'
    BY <1>2 DEF accessWebhook, HookInv, HookAnswer
  <1>. QED
    BY <1>1, <1>2 DEF HookNext, Tokens

(* A repeated call or event gets the answer of the first, or a refusal     *)
(* (observed-provider.ts:72-109, booking webhook route.ts:69-100).         *)
THEOREM AnswersAlwaysAgree == BoundariesSpec => []AnswersAgree
  <1>1. BoundariesInit => ProviderInv /\ HookInv
    BY DEF BoundariesInit, ProviderInit, HookInit, ProviderInv, HookInv, ProviderTypes
  <1>2. ASSUME ProviderInv, HookInv, [BoundariesNext]_<<providerVars, hookVars>>
        PROVE  ProviderInv' /\ HookInv'
    <2>1. ASSUME UNCHANGED providerVars PROVE ProviderInv'
      BY <1>2, <2>1 DEF providerVars, ProviderInv, ProviderTypes, FromObservation
    <2>2. ASSUME UNCHANGED hookVars PROVE HookInv'
      BY <1>2, <2>2 DEF hookVars, HookInv, HookAnswer
    <2>. QED
      BY <1>2, <2>1, <2>2, ProviderPreserves, HookPreserves DEF BoundariesNext
  <1>. QED
    BY <1>1, <1>2, AnswersComeFromRecords, PTL DEF BoundariesSpec

-----------------------------------------------------------------------------
(* The booking pages.  The last conjunct of StepIsEarned needs to know     *)
(* that the access is asked for at the last step only, from which the form *)
(* does not lead back.                                                     *)
PagesInv ==
    /\ step \in 1 .. 5 /\ modules \subseteq ModuleCodes
    /\ DOMAIN readiness = {"access", "agreement", "calendar", "payment", "slot"}
    /\ step >= 2 => modules # {}
    /\ step >= 4 => readiness.slot = "confirmed"
    /\ step = 5 => readiness.agreement = "signed" /\ accepted
    /\ readiness.access # "required" => step = 5

LEMMA PricedScope ==
    ASSUME modules \subseteq ModuleCodes, modules # {}
    PROVE  quoteTotal > 0
  <1>1. Price["building"] = 49500 /\ Price["timber-pest"] = 22000
    BY DEF Price, ModuleCodes
  <1>2. "building" \in modules \/ "timber-pest" \in modules
    BY DEF ModuleCodes
  <1>. QED
    BY <1>1, <1>2 DEF quoteTotal

(* No way through the form skips what a later step rests on                *)
(* (booking-flow.tsx:165-609).                                             *)
THEOREM StepsAreEarned == PagesSpec => []StepIsEarned
  <1>1. PagesInit => PagesInv
    <2>1. SUFFICES ASSUME PagesInit PROVE PagesInv
      OBVIOUS
    <2>2. scenario \in Scenarios
      BY <2>1 DEF PagesInit, resolveScenario, Scenarios
    <2>3. /\ step = initialStep(scenario) /\ readiness = initialReadiness(scenario)
          /\ modules = ModuleCodes /\ accepted = (scenario = "payment-declined")
      BY <2>1 DEF PagesInit
    <2>4. CASE scenario = "payment-declined"
      <3>1. /\ step = 5 /\ accepted
            /\ readiness = [access |-> "required", agreement |-> "signed",
                            calendar |-> "confirmed", payment |-> "declined",
                            slot |-> "confirmed"]
        BY <2>3, <2>4 DEF initialStep, initialReadiness
      <3>. QED
        BY <2>3, <3>1 DEF PagesInv, ModuleCodes
    <2>5. CASE scenario # "payment-declined"
      <3>1. step \in {1, 3}
        BY <2>2, <2>3, <2>5 DEF initialStep, Scenarios
      <3>2. readiness = [access |-> "required", agreement |-> "unsigned",
                         calendar |-> "pending", payment |-> "pending",
                         slot |-> IF scenario = "slot-expired" THEN "expired" ELSE "held"]
        BY <2>3, <2>5 DEF initialReadiness
      <3>. QED
        BY <2>3, <3>1, <3>2 DEF PagesInv, ModuleCodes
    <2>. QED
      BY <2>4, <2>5
  <1>2. ASSUME PagesInv, [PagesNext]_pageVars PROVE PagesInv'
    <2>. USE <1>2 DEF PagesInv
    <2>1. CASE submitService \/ submitDetails \/ goBack \/ continueToAgreement
      BY <2>1 DEF submitService, submitDetails, goBack, continueToAgreement
    <2>2. ASSUME NEW m \in ModuleCodes, updateModule(m) PROVE PagesInv'
      BY <2>2 DEF updateModule
    <2>3. CASE confirmSlot
      BY <2>3 DEF confirmSlot
    <2>4. CASE acceptAgreement \/ signAgreement
      BY <2>4 DEF acceptAgreement, signAgreement
    <2>5. CASE completePayment \/ requestAccess \/ confirmAccessPage
      BY <2>5 DEF completePayment, requestAccess, confirmAccessPage
    <2>6. CASE ChangeNext
      BY <2>6 DEF ChangeNext
    <2>7. CASE UNCHANGED pageVars
      BY <2>7 DEF pageVars
    <2>. QED
      BY <2>1, <2>2, <2>3, <2>4, <2>5, <2>6, <2>7 DEF PagesNext, FormNext
  <1>3. PagesInv => StepIsEarned
    <2>1. ASSUME PagesInv, readinessProjection = "ready" PROVE step = 5
      BY <2>1 DEF PagesInv, readinessProjection
    <2>. QED
      BY <2>1, PricedScope DEF PagesInv, StepIsEarned
  <1>. QED
    BY <1>1, <1>2, <1>3, PTL DEF PagesSpec
=============================================================================
