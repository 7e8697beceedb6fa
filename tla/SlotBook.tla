------------------------------ MODULE SlotBook ------------------------------
(***************************************************************************)
(* The slot inventory of packages/booking/src/slots.ts and the command     *)
(* protocol of idempotency.ts.  Bookings compete for slots: each reads the *)
(* book, prepares a command with the revision it read and an idempotency   *)
(* key, and the command then arrives never, once or several times, late    *)
(* and in any order.  A command carries the time at which it was prepared, *)
(* and the book compares a hold's expiry with that time, not with a clock  *)
(* of its own.  The hold id is the key of the command that asked for it.   *)
(***************************************************************************)
EXTENDS Naturals, FiniteSets

CONSTANTS
    BookSlots,   \* slot ids of the inventory
    Bookings,    \* booking ids
    Keys,        \* idempotency keys
    HoldTime,    \* how long a hold lasts
    MaxClock,    \* bound: the last instant
    MaxSent      \* bound: commands prepared

NoHold == "no_hold"

ASSUME SlotBookAssumption ==
    /\ HoldTime \in Nat \ {0} /\ MaxClock \in Nat /\ MaxSent \in Nat
    /\ NoHold \notin Keys

VARIABLES
    slots,     \* slot id -> [state, hold, booking, expires]
    revision,  \* revision of the book
    receipts,  \* commands applied (commandReceipts), by key and payload
    sent,      \* commands in flight; they stay deliverable for ever
    now,       \* the clients' clock
    promised   \* history: what clients were told they hold or have confirmed

slotVars == <<slots, revision, receipts, sent, now, promised>>

(* createSlotBook's refusals: a repeated slot id, a slot that does not end *)
(* after it starts, and two overlapping slots of one inspector.            *)
Overlaps(l, r) == /\ l.inspector = r.inspector
                  /\ l.startsAt < r.endsAt /\ r.startsAt < l.endsAt
ValidBook(defs) ==
    /\ \A d \in defs : d.startsAt < d.endsAt
    /\ \A l, r \in defs : l # r => l.id # r.id /\ ~Overlaps(l, r)

Available == [state |-> "available", hold |-> NoHold, booking |-> NoHold,
              expires |-> 0]

createSlotBook ==
    /\ slots = [s \in BookSlots |-> Available]
    /\ revision = 0
    /\ receipts = {}
    /\ sent = {}
    /\ now = 0
    /\ promised = {}

(* The part of a command that requestFingerprint covers.                   *)
Payload(c) == [op |-> c.op, booking |-> c.booking, slot |-> c.slot,
               hold |-> c.hold, at |-> c.at]

(* inspectCommand: a known key is a replay, which answers with the book as *)
(* it is, or a refusal if its payload differs: neither changes anything.   *)
(* An unknown key is applied at its revision only.                         *)
Applicable(c) == /\ \A r \in receipts : r.key # c.key
                 /\ c.revision = revision
Accept(c) == /\ revision' = revision + 1
             /\ receipts' = receipts \cup
                               {[key |-> c.key, payload |-> Payload(c)]}

PrepareHold(b, s, k) ==
    /\ Cardinality(sent) < MaxSent
    /\ \A c \in sent : c.key # k \/ c.booking = b
    /\ sent' = sent \cup {[op |-> "hold", key |-> k, revision |-> revision,
                           booking |-> b, slot |-> s, hold |-> k, at |-> now]}
    /\ UNCHANGED <<slots, revision, receipts, now, promised>>

(* A booking confirms a hold it asked for before.                          *)
PrepareConfirm(b, c, k) ==
    /\ c.op = "hold" /\ c.booking = b
    /\ Cardinality(sent) < MaxSent
    /\ \A d \in sent : d.key # k \/ d.booking = b
    /\ sent' = sent \cup {[op |-> "confirm", key |-> k, revision |-> revision,
                           booking |-> b, slot |-> NoHold, hold |-> c.hold,
                           at |-> now]}
    /\ UNCHANGED <<slots, revision, receipts, now, promised>>

(* Mutant: a sold slot can be held again.                                  *)
FreeOrSold(s, at) == slots[s].state # "held" \/ slots[s].expires <= at
(* Free for a hold asked for at an instant: available, or held until then. *)
Free(s, at) == \/ slots[s].state = "available"
               \/ slots[s].state = "held" /\ slots[s].expires <= at

holdSlot(c) ==
    /\ c.op = "hold" /\ Applicable(c)
    /\ Free(c.slot, c.at)
    /\ slots' = [slots EXCEPT ![c.slot] =
                    [state |-> "held", hold |-> c.hold, booking |-> c.booking,
                     expires |-> c.at + HoldTime]]
    /\ Accept(c)
    /\ promised' = promised \cup {[booking |-> c.booking, slot |-> c.slot,
                                   kind |-> "held", until |-> c.at + HoldTime]}
    /\ UNCHANGED <<sent, now>>

confirmSlotHold(c) ==
    /\ c.op = "confirm" /\ Applicable(c)
    /\ \E s \in BookSlots :
          /\ slots[s].state = "held" /\ slots[s].hold = c.hold
          /\ slots[s].booking = c.booking /\ slots[s].expires > c.at
          /\ slots' = [slots EXCEPT ![s] =
                          [state |-> "confirmed", hold |-> NoHold,
                           booking |-> c.booking, expires |-> 0]]
          /\ promised' = promised \cup {[booking |-> c.booking, slot |-> s,
                                         kind |-> "confirmed", until |-> 0]}
    /\ Accept(c)
    /\ UNCHANGED <<sent, now>>

SlotTick == /\ now < MaxClock /\ now' = now + 1
            /\ UNCHANGED <<slots, revision, receipts, sent, promised>>

SlotNext ==
    \/ \E b \in Bookings, s \in BookSlots, k \in Keys : PrepareHold(b, s, k)
    \/ \E b \in Bookings, k \in Keys, c \in sent : PrepareConfirm(b, c, k)
    \/ \E c \in sent : holdSlot(c)
    \/ \E c \in sent : confirmSlotHold(c)
    \/ SlotTick

SlotSpec == createSlotBook /\ [][SlotNext]_slotVars

-----------------------------------------------------------------------------
(* What a client was told stays true (slots.ts:82-212) although commands   *)
(* carry the revision and the time of their preparation and arrive late or *)
(* twice: a confirmed slot belongs to the one booking that was told so for *)
(* ever, and until its expiry a hold is not given to another booking.      *)
PromisesKept ==
    \A p \in promised :
        /\ p.kind = "confirmed" => /\ slots[p.slot].state = "confirmed"
                                   /\ slots[p.slot].booking = p.booking
        /\ p.kind = "held" /\ now < p.until =>
               slots[p.slot].booking = p.booking
=============================================================================
