------------------------------- MODULE MCJob -------------------------------
(***************************************************************************)
(* TLC model of a job up to its upload: the booking side (workflow, slot   *)
(* book, boundaries, pages) and the phone (a photo and a voice note that   *)
(* may be saved at the same time, and the field workflow with two handlers *)
(* in flight, which takes a capture as saved or failed).  The code         *)
(* connects them nowhere but in its tests, so they share no variable, and  *)
(* a property of one of them holds in their product iff it holds while     *)
(* only that one moves: part says which one does, and the others keep one  *)
(* initial state.                                                          *)
(***************************************************************************)
EXTENDS Booking, SlotBook, Boundaries, BookingPages, Capture, MCFieldWork

VARIABLE part

booking == <<bookingVars, slotVars, providerVars, hookVars, pageVars>>
phone == <<cvars, fieldVars>>
vars == <<part, booking, phone>>
Symmetry == HandlerSymmetry \cup Permutations(Captures)

Init ==
    /\ part \in {"workflow", "slots", "provider", "webhooks", "pages",
                 "capture", "field"}
    /\ BookingInit /\ createSlotBook /\ ProviderInit /\ HookInit /\ PagesInit
    /\ part # "provider" => mode = "accepted" /\ busy = FALSE
    /\ part # "pages" => scenario = "standard"
    /\ CaptureInit /\ FieldInit

Workflow == /\ part = "workflow" /\ BookingNext
            /\ UNCHANGED <<part, slotVars, providerVars, hookVars, pageVars, phone>>
SlotCommands ==
    /\ part = "slots" /\ SlotNext
    /\ UNCHANGED <<part, bookingVars, providerVars, hookVars, pageVars, phone>>
ProviderCalls ==
    /\ part = "provider" /\ ProviderNext
    /\ UNCHANGED <<part, bookingVars, slotVars, hookVars, pageVars, phone>>
Webhooks == /\ part = "webhooks" /\ HookNext
            /\ UNCHANGED <<part, bookingVars, slotVars, providerVars, pageVars, phone>>
Pages == /\ part = "pages" /\ PagesNext
         /\ UNCHANGED <<part, bookingVars, slotVars, providerVars, hookVars, phone>>
Capturing == part = "capture" /\ CaptureNext /\ UNCHANGED <<part, booking, fieldVars>>
Inspecting == part = "field" /\ FieldNext /\ UNCHANGED <<part, booking, cvars>>

Next == \/ Workflow \/ SlotCommands \/ ProviderCalls \/ Webhooks \/ Pages
        \/ Capturing \/ Inspecting
Spec == Init /\ [][Next]_vars
============================================================================
