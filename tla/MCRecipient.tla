---------------------------- MODULE MCRecipient ----------------------------
(***************************************************************************)
(* TLC model of recipient access: the access service of the package and    *)
(* the portal of the web application, which implements its own authority   *)
(* and shares no state with the package.  part says which of the two moves *)
(* in a behaviour; the other keeps its initial state.                      *)
(***************************************************************************)
EXTENDS RecipientAccess, RecipientPortal, TLC

VARIABLE part

TwoModules == <<"building", "timber_pest">>
Symmetry == Permutations(Servers)

vars == <<part, recipientVars, portalVars>>

Init == /\ part \in {"package", "portal"}
        /\ RecipientInit /\ PortalInit
        /\ part = "package" => adapter = "fixture"

AccessService == part = "package" /\ RecipientNext /\ UNCHANGED <<part, portalVars>>
Portal == part = "portal" /\ PortalNext /\ UNCHANGED <<part, recipientVars>>

Next == AccessService \/ Portal
Spec == Init /\ [][Next]_vars
=============================================================================
