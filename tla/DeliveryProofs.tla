--------------------------- MODULE DeliveryProofs ---------------------------
(***************************************************************************)
(* Proofs about Approvals and Delivery.  The approvals have an invariant   *)
(* of their own (ApprovalInv).  SendInv is about the package, its outbox   *)
(* record and the send() calls, and mentions no variable of Approvals: a   *)
(* step of the approval service cannot disturb it.                         *)
(*                                                                         *)
(* That at most one copy is sent is not inductive.  It needs to know that  *)
(* a call that has not reached the provider and a package that may still   *)
(* be sent, or sent again, have had no effect yet, and that the only       *)
(* outbox record of a package exists before anything is sent.              *)
(***************************************************************************)
EXTENDS Delivery, FiniteSetTheorems, TLAPS

ApprovalInv ==
    /\ ATypeOK
    /\ \A m \in Modules : approval[m].approved <= snapshot[m]
    /\ ApprovalIsExact

DeliveryTypes ==
    /\ pkg \in [state : PackageStates, refs : [Modules -> Snapshots], intervention : BOOLEAN]
    /\ outbox \in [state : OutboxStates, refs : [Modules -> Snapshots]]
    /\ sender \in [Senders -> SenderRecord]
    /\ jobCancelled \in BOOLEAN /\ sentEvent \in BOOLEAN
    /\ acts \in Nat
    /\ lastCall \in [refs : [Modules -> Snapshots], approved : [Modules -> Snapshots],
                     cleared : BOOLEAN]

Active(s) == sender[s].pc # "idle"

OneActive == \A r, s \in Senders : Active(r) /\ Active(s) => r = s

(* What a call under way knows: the outbox record exists, the package is   *)
(* not where another send could start, and the provider acted exactly if   *)
(* this call made it act.                                                  *)
SenderOK(s) ==
    Active(s) =>
        /\ outbox.state # "none"
        /\ pkg.state \notin {"absent", "queued", "failed"}
        /\ acts = IF sender[s].pc = "provider" /\ sender[s].acted THEN 1 ELSE 0

(* What the records know about the provider's effects. *)
EffectOK ==
    /\ pkg.state = "sending" => \E s \in Senders : Active(s)
    /\ pkg.state \in {"queued", "failed"} => acts = 0 /\ outbox.state # "none"
    /\ outbox.state = "none" =>
          acts = 0 /\ pkg.state \in WaitingStates \cup {"absent", "cancelled"}

SendInv ==
    /\ DeliveryTypes
    /\ OneActive
    /\ \A s \in Senders : SenderOK(s)
    /\ EffectOK
    /\ AtMostOneEffect
    /\ LiteralOutcome
    /\ OutboxFollows
    /\ FrozenSetIsWhole
    /\ CallsAreCleared

-----------------------------------------------------------------------------
(* Every command of the snapshot store and the approval service keeps      *)
(* ApprovalInv.                                                            *)
LEMMA ApprovalsPreserve ==
    ASSUME ApprovalInv, ANext
    PROVE  ApprovalInv'
  <1>. USE ApprovalAssumption DEF Snapshots
  <1>1. ASSUME NEW m \in Modules, create(m) PROVE ApprovalInv'
    BY <1>1 DEF ApprovalInv, ATypeOK, ApprovalIsExact, ApprovalState, create
  <1>2. ASSUME NEW m \in Modules, NEW s \in Snapshots, approve(m, s) PROVE ApprovalInv'
    BY <1>2 DEF ApprovalInv, ATypeOK, ApprovalIsExact, ApprovalState, approve
  <1>3. ASSUME NEW m \in Modules, NEW s \in Snapshots, invalidateForSnapshotEdit(m, s)
        PROVE  ApprovalInv'
    BY <1>3 DEF ApprovalInv, ATypeOK, ApprovalIsExact, ApprovalState, invalidateForSnapshotEdit
  <1>4. ASSUME NEW m \in Modules, withdraw(m) PROVE ApprovalInv'
    BY <1>4 DEF ApprovalInv, ATypeOK, ApprovalIsExact, ApprovalState, withdraw
  <1>5. ASSUME NEW m \in Modules, reopenWithNewSnapshot(m) PROVE ApprovalInv'
    BY <1>5 DEF ApprovalInv, ATypeOK, ApprovalIsExact, ApprovalState, reopenWithNewSnapshot
  <1>. QED
    BY <1>1, <1>2, <1>3, <1>4, <1>5 DEF ANext

(* No step of delivery changes the approvals. *)
LEMMA DeliveryKeepsApprovals ==
    ASSUME ApprovalInv, [DNext]_allvars, ~ANext
    PROVE  ApprovalInv'
  <1>1. UNCHANGED avars
    BY DEF DNext, allvars, avars, confirm, SendStarts, SenderStep, AfterHook, Stops,
        EgressRefused, EgressGranted, CallProvider, ProviderAnswers, cancelPackage, retry,
        markProviderSent, CancelJob
  <1>. QED
    BY <1>1 DEF ApprovalInv, ATypeOK, ApprovalIsExact, avars
-----------------------------------------------------------------------------
(* confirm() keeps SendInv: it freezes a complete set with the first       *)
(* outbox record, or leaves the record alone and puts the package back to  *)
(* waiting.                                                                *)
LEMMA ConfirmPreserves ==
    ASSUME SendInv, ApprovalInv, NEW sendable \in BOOLEAN, confirm(sendable)
    PROVE  SendInv'
  <1>a. Approved \in [Modules -> Snapshots] /\ NoRefs \in [Modules -> Snapshots]
    BY ApprovalAssumption DEF Snapshots, Approved, NoRefs, ApprovalInv, ATypeOK, ApprovalState
  <1>1. CASE Blockers = {} /\ sendable
    <2>0. /\ pkg' = [state |-> "queued", refs |-> Approved, intervention |-> FALSE]
          /\ outbox.state = "none"
          /\ outbox' = [state |-> "queued", refs |-> Approved]
          /\ UNCHANGED <<sender, jobCancelled, sentEvent, acts, lastCall>>
      BY <1>1 DEF confirm
    <2>1. \A m \in Modules : Approved[m] # 0
      BY <1>1 DEF Blockers, Approved
    <2>2. acts = 0 /\ \A s \in Senders : ~Active(s)
      BY <2>0 DEF SendInv, EffectOK, SenderOK
    <2>3. DeliveryTypes'
      BY <2>0, <1>a DEF SendInv, DeliveryTypes, PackageStates, OutboxStates
    <2>4. OneActive' /\ \A s \in Senders : SenderOK(s)'
      BY <2>0, <2>2 DEF OneActive, SenderOK, Active
    <2>5. EffectOK' /\ AtMostOneEffect' /\ LiteralOutcome' /\ CallsAreCleared'
      BY <2>0, <2>2 DEF EffectOK, AtMostOneEffect, LiteralOutcome, CallsAreCleared, SendInv
    <2>6. OutboxFollows'
      BY <2>0 DEF OutboxFollows
    <2>7. FrozenSetIsWhole'
      BY <2>0, <2>1, <2>2 DEF FrozenSetIsWhole
    <2>. QED
      BY <2>3, <2>4, <2>5, <2>6, <2>7 DEF SendInv
  <1>2. CASE ~(Blockers = {} /\ sendable)
    <2>0. /\ pkg' \in [state : WaitingStates, refs : {NoRefs}, intervention : {FALSE}]
          /\ UNCHANGED <<outbox, sender, jobCancelled, sentEvent, acts, lastCall>>
      BY <1>2 DEF confirm, WaitingStates
    <2>3. DeliveryTypes'
      BY <2>0, <1>a DEF SendInv, DeliveryTypes, PackageStates, WaitingStates
    <2>4. OneActive' /\ \A s \in Senders : SenderOK(s)'
      BY <2>0 DEF SendInv, OneActive, SenderOK, Active, WaitingStates
    <2>5. EffectOK' /\ AtMostOneEffect' /\ LiteralOutcome' /\ CallsAreCleared'
      BY <2>0 DEF EffectOK, AtMostOneEffect, LiteralOutcome, CallsAreCleared, SendInv,
          WaitingStates
    <2>6. OutboxFollows'
      BY <2>0 DEF OutboxFollows
    <2>7. FrozenSetIsWhole'
      BY <2>0 DEF FrozenSetIsWhole, SendInv
    <2>. QED
      BY <2>3, <2>4, <2>5, <2>6, <2>7 DEF SendInv
  <1>. QED
    BY <1>1, <1>2

(* Calls either stay as they are or end. *)
CallsOnlyEnd ==
    /\ sender' \in [Senders -> SenderRecord]
    /\ \A s \in Senders : sender'[s] = sender[s] \/ sender'[s].pc = "idle"

(* Step to idle ends the call of s and leaves the others alone. *)
LEMMA StepEnds ==
    ASSUME DeliveryTypes, NEW s \in Senders, Step(s, "idle")
    PROVE  CallsOnlyEnd /\ ~Active(s)'
  BY DEF DeliveryTypes, Step, Idle, SenderRecord, CallsOnlyEnd, Active

(* Cancelling keeps SendInv, with or without the end of a call: nothing    *)
(* the package could have promised is undone.                              *)
LEMMA CancelledPreserves ==
    ASSUME SendInv, Cancelled, pkg.state # "absent", CallsOnlyEnd,
           UNCHANGED <<jobCancelled, sentEvent, acts, lastCall>>
    PROVE  SendInv'
  <1>0. /\ pkg' = [pkg EXCEPT !.state = "cancelled"]
        /\ outbox' = [outbox EXCEPT !.state = IF outbox.state = "none" THEN "none" ELSE "cancelled"]
    BY DEF Cancelled
  <1>1. /\ pkg'.state = "cancelled" /\ pkg'.refs = pkg.refs
        /\ outbox'.state = IF outbox.state = "none" THEN "none" ELSE "cancelled"
        /\ outbox'.refs = outbox.refs
    BY <1>0 DEF SendInv, DeliveryTypes
  <1>2. DeliveryTypes'
    BY <1>0 DEF SendInv, DeliveryTypes, PackageStates, OutboxStates, CallsOnlyEnd
  <1>3. OneActive' /\ \A s \in Senders : SenderOK(s)'
    BY <1>1 DEF SendInv, OneActive, SenderOK, Active, CallsOnlyEnd
  <1>4. EffectOK' /\ AtMostOneEffect' /\ LiteralOutcome' /\ CallsAreCleared'
    BY <1>1 DEF SendInv, EffectOK, AtMostOneEffect, LiteralOutcome, CallsAreCleared
  <1>5. OutboxFollows'
    BY <1>1 DEF OutboxFollows
  <1>6. FrozenSetIsWhole'
    BY <1>1 DEF SendInv, FrozenSetIsWhole
  <1>. QED
    BY <1>2, <1>3, <1>4, <1>5, <1>6 DEF SendInv

(* A call that ends without a word keeps SendInv when the package is no    *)
(* longer being sent.                                                      *)
LEMMA SilentEndPreserves ==
    ASSUME SendInv, pkg.state # "sending", CallsOnlyEnd,
           UNCHANGED <<pkg, outbox, jobCancelled, sentEvent, acts, lastCall>>
    PROVE  SendInv'
  <1>1. DeliveryTypes'
    BY DEF SendInv, DeliveryTypes, CallsOnlyEnd
  <1>2. OneActive' /\ \A s \in Senders : SenderOK(s)'
    BY DEF SendInv, OneActive, SenderOK, Active, CallsOnlyEnd
  <1>3. EffectOK' /\ AtMostOneEffect' /\ LiteralOutcome' /\ CallsAreCleared'
    BY DEF SendInv, EffectOK, AtMostOneEffect, LiteralOutcome, CallsAreCleared
  <1>4. OutboxFollows' /\ FrozenSetIsWhole'
    BY DEF SendInv, OutboxFollows, FrozenSetIsWhole
  <1>. QED
    BY <1>1, <1>2, <1>3, <1>4 DEF SendInv

(* #revalidateSendability stopping a call keeps SendInv. *)
LEMMA StopsPreserves ==
    ASSUME SendInv, NEW s \in Senders, Stops(s)
    PROVE  SendInv'
  <1>1. CallsOnlyEnd
    BY StepEnds DEF Stops, SendInv
  <1>2. CASE pkg.state = "sending"
    BY <1>1, <1>2, CancelledPreserves DEF Stops
  <1>3. CASE pkg.state # "sending"
    BY <1>1, <1>3, SilentEndPreserves DEF Stops
  <1>. QED
    BY <1>2, <1>3

(* The start of send() keeps SendInv: a queued package has no other call   *)
(* and no effect yet.                                                      *)
LEMMA SendStartsPreserves ==
    ASSUME SendInv, NEW s \in Senders, SendStarts(s)
    PROVE  SendInv'
  <1>1. CASE isBlocked
    <2>1. CallsOnlyEnd
      BY <1>1 DEF SendStarts, SendInv, DeliveryTypes, CallsOnlyEnd
    <2>. QED
      BY <1>1, <2>1, CancelledPreserves DEF SendStarts
  <1>2. CASE ~isBlocked
    <2>0. /\ pkg.state = "queued"
          /\ pkg' = [pkg EXCEPT !.state = "sending"]
          /\ outbox' = [outbox EXCEPT !.state = "processing"]
          /\ sender' = [sender EXCEPT ![s] = [Idle EXCEPT !.pc = "hook"]]
          /\ UNCHANGED <<jobCancelled, sentEvent, acts, lastCall>>
      BY <1>2 DEF SendStarts, Step
    <2>1. /\ pkg'.state = "sending" /\ pkg'.refs = pkg.refs
          /\ outbox'.state = "processing" /\ outbox'.refs = outbox.refs
          /\ outbox.state # "none"
      BY <2>0 DEF SendInv, DeliveryTypes, EffectOK
    <2>2. /\ acts = 0
          /\ \A r \in Senders : ~Active(r)
      BY <2>0 DEF SendInv, EffectOK, SenderOK
    <2>3. /\ Active(s)' /\ sender'[s].pc = "hook"
          /\ \A r \in Senders : r # s => ~Active(r)'
      BY <2>0, <2>2 DEF SendInv, DeliveryTypes, Active, Idle
    <2>4. DeliveryTypes'
      BY <2>0 DEF SendInv, DeliveryTypes, PackageStates, OutboxStates, SenderRecord, Idle
    <2>5. OneActive' /\ \A r \in Senders : SenderOK(r)'
      BY <2>0, <2>1, <2>2, <2>3 DEF OneActive, SenderOK
    <2>6. EffectOK' /\ AtMostOneEffect' /\ LiteralOutcome' /\ CallsAreCleared'
      BY <2>0, <2>1, <2>2, <2>3 DEF SendInv, EffectOK, AtMostOneEffect, LiteralOutcome,
          CallsAreCleared
    <2>7. OutboxFollows'
      BY <2>1 DEF OutboxFollows, WaitingStates
    <2>8. FrozenSetIsWhole'
      BY <2>0, <2>1 DEF SendInv, FrozenSetIsWhole
    <2>. QED
      BY <2>4, <2>5, <2>6, <2>7, <2>8 DEF SendInv
  <1>. QED
    BY <1>1, <1>2

(* A call that goes on to its next await, without the provider having      *)
(* acted before, keeps SendInv.                                            *)
LEMMA AfterHookPreserves ==
    ASSUME SendInv, NEW s \in Senders, AfterHook(s)
    PROVE  SendInv'
  <1>1. CASE Stops(s)
    BY <1>1, StopsPreserves
  <1>2. CASE ~Stops(s)
    <2>0. /\ sender[s].pc = "hook"
          /\ sender' = [sender EXCEPT ![s] = [Idle EXCEPT !.pc = "egress"]]
          /\ UNCHANGED <<pkg, outbox, jobCancelled, sentEvent, acts, lastCall>>
      BY <1>2 DEF AfterHook, Step
    <2>1. /\ sender'[s].pc = "egress"
          /\ \A r \in Senders : r # s => sender'[r] = sender[r]
      BY <2>0 DEF SendInv, DeliveryTypes, Idle
    <2>2. DeliveryTypes'
      BY <2>0 DEF SendInv, DeliveryTypes, SenderRecord, Idle
    <2>3. OneActive' /\ \A r \in Senders : SenderOK(r)'
      BY <2>0, <2>1 DEF SendInv, OneActive, SenderOK, Active
    <2>4. EffectOK' /\ AtMostOneEffect' /\ LiteralOutcome' /\ CallsAreCleared'
      BY <2>0, <2>1 DEF SendInv, EffectOK, AtMostOneEffect, LiteralOutcome, CallsAreCleared,
          Active
    <2>5. OutboxFollows' /\ FrozenSetIsWhole'
      BY <2>0 DEF SendInv, OutboxFollows, FrozenSetIsWhole
    <2>. QED
      BY <2>2, <2>3, <2>4, <2>5 DEF SendInv
  <1>. QED
    BY <1>1, <1>2

(* #recordEgressBlocked keeps SendInv: the provider has not been called.   *)
LEMMA EgressRefusedPreserves ==
    ASSUME SendInv, NEW s \in Senders, EgressRefused(s)
    PROVE  SendInv'
  <1>1. CallsOnlyEnd /\ ~Active(s)'
    BY StepEnds DEF EgressRefused, SendInv
  <1>2. CASE pkg.state # "sending"
    BY <1>1, <1>2, SilentEndPreserves DEF EgressRefused
  <1>3. CASE pkg.state = "sending"
    <2>0. /\ sender[s].pc = "egress"
          /\ pkg' = [pkg EXCEPT !.state = "failed", !.intervention = FALSE]
          /\ outbox' = [outbox EXCEPT !.state = "queued"]
          /\ UNCHANGED <<jobCancelled, sentEvent, acts, lastCall>>
      BY <1>3 DEF EgressRefused
    <2>1. /\ pkg'.state = "failed" /\ pkg'.refs = pkg.refs /\ pkg'.intervention = FALSE
          /\ outbox'.state = "queued" /\ outbox'.refs = outbox.refs
          /\ outbox.state # "none" /\ acts = 0
      BY <2>0 DEF SendInv, DeliveryTypes, SenderOK, Active
    <2>2. \A r \in Senders : ~Active(r)'
      BY <1>1, <2>0 DEF SendInv, OneActive, CallsOnlyEnd, Active
    <2>3. DeliveryTypes'
      BY <1>1, <2>0 DEF SendInv, DeliveryTypes, PackageStates, OutboxStates, CallsOnlyEnd
    <2>4. OneActive' /\ \A r \in Senders : SenderOK(r)'
      BY <2>2 DEF OneActive, SenderOK
    <2>5. EffectOK' /\ AtMostOneEffect' /\ LiteralOutcome' /\ CallsAreCleared'
      BY <2>0, <2>1 DEF SendInv, EffectOK, AtMostOneEffect, LiteralOutcome, CallsAreCleared
    <2>6. OutboxFollows' /\ FrozenSetIsWhole'
      BY <2>0, <2>1 DEF SendInv, OutboxFollows, FrozenSetIsWhole
    <2>. QED
      BY <2>3, <2>4, <2>5, <2>6 DEF SendInv
  <1>. QED
    BY <1>2, <1>3

(* The provider call keeps SendInv: it is the first one with an effect,    *)
(* and it is given the frozen set.                                         *)
LEMMA EgressGrantedPreserves ==
    ASSUME SendInv, ApprovalInv, NEW s \in Senders, EgressGranted(s)
    PROVE  SendInv'
  <1>1. CASE Stops(s)
    BY <1>1, StopsPreserves
  <1>2. CASE ~Stops(s)
    <2>1. PICK acted \in BOOLEAN : CallProvider(s, acted)
      BY <1>2 DEF EgressGranted
    <2>2. /\ sender[s].pc = "egress" /\ pkg.state = "sending" /\ ~isBlocked
          /\ sender' = [sender EXCEPT ![s] = [pc |-> "provider", acted |-> acted]]
          /\ acts' = IF acted THEN acts + 1 ELSE acts
          /\ lastCall' = [refs |-> outbox.refs, approved |-> Approved, cleared |-> TRUE]
          /\ UNCHANGED <<pkg, outbox, jobCancelled, sentEvent>>
      BY <1>2, <2>1 DEF EgressGranted, CallProvider
    <2>3. acts = 0 /\ outbox.state # "none" /\ \A r \in Senders : r # s => ~Active(r)
      BY <2>2 DEF SendInv, SenderOK, OneActive, Active
    <2>4. /\ sender'[s] = [pc |-> "provider", acted |-> acted]
          /\ \A r \in Senders : r # s => ~Active(r)'
      BY <2>2, <2>3 DEF SendInv, DeliveryTypes, Active
    <2>5. Approved \in [Modules -> Snapshots]
      BY DEF Approved, ApprovalInv, ATypeOK, ApprovalState
    <2>6. DeliveryTypes'
      BY <2>2, <2>3, <2>5 DEF SendInv, DeliveryTypes, SenderRecord
    <2>7. OneActive' /\ \A r \in Senders : SenderOK(r)'
      BY <2>2, <2>3, <2>4 DEF OneActive, SenderOK
    <2>8. EffectOK' /\ AtMostOneEffect' /\ LiteralOutcome' /\ CallsAreCleared'
      BY <2>2, <2>3, <2>4 DEF SendInv, EffectOK, AtMostOneEffect, LiteralOutcome,
          CallsAreCleared, Active
    <2>9. OutboxFollows' /\ FrozenSetIsWhole'
      BY <2>2 DEF SendInv, OutboxFollows, FrozenSetIsWhole
    <2>. QED
      BY <2>6, <2>7, <2>8, <2>9 DEF SendInv
  <1>. QED
    BY <1>1, <1>2

(* #recordResult and #recordUnknown keep SendInv: a late answer is dropped *)
(* unless the package still waits for it, or was cancelled and was sent    *)
(* after all.                                                              *)
LEMMA AnswerPreserves ==
    ASSUME SendInv, NEW s \in Senders, ProviderAnswers(s)
    PROVE  SendInv'
  <1>1. CallsOnlyEnd /\ ~Active(s)'
    BY StepEnds DEF ProviderAnswers, SendInv
  <1>2. sender[s].pc = "provider" /\ acts = (IF sender[s].acted THEN 1 ELSE 0)
    BY DEF ProviderAnswers, SendInv, SenderOK, Active
  <1>3. outbox.state # "none" /\ UNCHANGED <<jobCancelled, acts, lastCall>>
    BY <1>2 DEF ProviderAnswers, SendInv, SenderOK, Active
  <1>4. \A r \in Senders : ~Active(r)'
    BY <1>1, <1>2 DEF SendInv, OneActive, CallsOnlyEnd, Active
  <1>5. PICK answer \in Answers(sender[s].acted) :
          IF \/ pkg.state = "sending"
             \/ pkg.state = "cancelled" /\ answer = "sent"
          THEN /\ pkg' = [pkg EXCEPT
                            !.state = RecordedPackage(answer),
                            !.intervention = IF answer \in {"failed", "rejected"}
                                             THEN answer = "rejected" ELSE pkg.intervention]
               /\ outbox' = [outbox EXCEPT !.state = RecordedOutbox(answer)]
               /\ sentEvent' = (sentEvent \/ answer = "sent")
          ELSE UNCHANGED <<pkg, outbox, sentEvent>>
    BY DEF ProviderAnswers
  <1>6. CASE ~(pkg.state = "sending" \/ (pkg.state = "cancelled" /\ answer = "sent"))
    <2>1. UNCHANGED <<pkg, outbox, jobCancelled, sentEvent, acts, lastCall>>
      BY <1>3, <1>5, <1>6
    <2>2. pkg.state # "sending"
      BY <1>6
    <2>. QED
      BY <1>1, <2>1, <2>2, SilentEndPreserves
  <1>7. CASE pkg.state = "sending" \/ (pkg.state = "cancelled" /\ answer = "sent")
    <2>0. /\ pkg' = [pkg EXCEPT
                       !.state = RecordedPackage(answer),
                       !.intervention = IF answer \in {"failed", "rejected"}
                                        THEN answer = "rejected" ELSE pkg.intervention]
          /\ outbox' = [outbox EXCEPT !.state = RecordedOutbox(answer)]
          /\ sentEvent' = (sentEvent \/ answer = "sent")
      BY <1>5, <1>7
    <2>1. /\ pkg'.state = RecordedPackage(answer) /\ pkg'.refs = pkg.refs
          /\ answer \in {"failed", "rejected"} => pkg'.intervention = (answer = "rejected")
          /\ outbox'.state = RecordedOutbox(answer) /\ outbox'.refs = outbox.refs
      BY <2>0 DEF SendInv, DeliveryTypes
    <2>2. /\ answer \in {"sent", "accepted", "unknown", "failed", "rejected"}
          /\ answer \in {"sent", "accepted"} => acts = 1
          /\ answer \in {"failed", "rejected"} => acts = 0
      BY <1>2 DEF Answers
    <2>3. /\ RecordedPackage(answer) \in {"sent", "provider_accepted", "unknown", "failed"}
          /\ RecordedPackage(answer) \in {"sent", "provider_accepted"} =>
                answer \in {"sent", "accepted"}
          /\ RecordedPackage(answer) = "failed" => answer \in {"failed", "rejected"}
          /\ RecordedOutbox(answer) \in {"completed", "queued", "processing"}
      BY <2>2 DEF RecordedPackage, RecordedOutbox
    <2>4. DeliveryTypes'
      BY <1>1, <1>3, <2>0, <2>3 DEF SendInv, DeliveryTypes, PackageStates, OutboxStates,
          CallsOnlyEnd
    <2>5. OneActive' /\ \A r \in Senders : SenderOK(r)'
      BY <1>4 DEF OneActive, SenderOK
    <2>6. EffectOK' /\ AtMostOneEffect' /\ LiteralOutcome' /\ CallsAreCleared'
      BY <1>3, <2>1, <2>2, <2>3 DEF SendInv, EffectOK, AtMostOneEffect, LiteralOutcome,
          CallsAreCleared
    <2>7. OutboxFollows'
      <3>1. CASE answer = "sent"
        BY <2>1, <3>1 DEF OutboxFollows, RecordedPackage, RecordedOutbox
      <3>2. CASE answer \in {"failed", "rejected"}
        BY <2>1, <3>2 DEF OutboxFollows, RecordedPackage, RecordedOutbox
      <3>3. CASE answer \in {"accepted", "unknown"}
        BY <2>1, <3>3 DEF OutboxFollows, RecordedPackage, RecordedOutbox
      <3>. QED
        BY <2>2, <3>1, <3>2, <3>3
    <2>8. FrozenSetIsWhole'
      BY <1>3, <2>1 DEF SendInv, FrozenSetIsWhole
    <2>. QED
      BY <2>4, <2>5, <2>6, <2>7, <2>8 DEF SendInv
  <1>. QED
    BY <1>6, <1>7

(* retry() keeps SendInv: a failed package has had no effect and no call   *)
(* is under way.                                                           *)
LEMMA RetryPreserves ==
    ASSUME SendInv, retry
    PROVE  SendInv'
  <1>1. /\ pkg'.state = "queued" /\ pkg'.refs = pkg.refs
        /\ outbox'.state = "queued" /\ outbox'.refs = outbox.refs
        /\ UNCHANGED <<sender, jobCancelled, sentEvent, acts, lastCall>>
    BY DEF retry, SendInv, DeliveryTypes
  <1>2. acts = 0 /\ outbox.state # "none" /\ \A s \in Senders : ~Active(s)
    BY DEF retry, SendInv, EffectOK, SenderOK
  <1>3. DeliveryTypes'
    BY DEF retry, SendInv, DeliveryTypes, PackageStates, OutboxStates
  <1>4. OneActive' /\ \A s \in Senders : SenderOK(s)'
    BY <1>1, <1>2 DEF OneActive, SenderOK, Active
  <1>5. EffectOK' /\ AtMostOneEffect' /\ LiteralOutcome' /\ CallsAreCleared'
    BY <1>1, <1>2 DEF SendInv, EffectOK, AtMostOneEffect, LiteralOutcome, CallsAreCleared
  <1>6. OutboxFollows' /\ FrozenSetIsWhole'
    BY <1>1, <1>2 DEF SendInv, OutboxFollows, FrozenSetIsWhole
  <1>. QED
    BY <1>3, <1>4, <1>5, <1>6 DEF SendInv

(* markProviderSent keeps SendInv, also while a call is still under way.   *)
LEMMA MarkSentPreserves ==
    ASSUME SendInv, markProviderSent
    PROVE  SendInv'
  <1>1. /\ pkg'.state = "sent" /\ pkg'.refs = pkg.refs
        /\ outbox'.state = "completed" /\ outbox'.refs = outbox.refs
        /\ acts > 0 /\ outbox.state # "none"
        /\ UNCHANGED <<sender, jobCancelled, acts, lastCall>>
    BY DEF markProviderSent, SendInv, DeliveryTypes
  <1>2. DeliveryTypes'
    BY DEF markProviderSent, SendInv, DeliveryTypes, PackageStates, OutboxStates
  <1>3. OneActive' /\ \A s \in Senders : SenderOK(s)'
    BY <1>1 DEF SendInv, OneActive, SenderOK, Active
  <1>4. EffectOK' /\ AtMostOneEffect' /\ LiteralOutcome' /\ CallsAreCleared'
    BY <1>1 DEF SendInv, EffectOK, AtMostOneEffect, LiteralOutcome, CallsAreCleared
  <1>5. OutboxFollows' /\ FrozenSetIsWhole'
    BY <1>1 DEF SendInv, OutboxFollows, FrozenSetIsWhole
  <1>. QED
    BY <1>2, <1>3, <1>4, <1>5 DEF SendInv

(* A step that leaves the package, its outbox and its calls alone keeps    *)
(* SendInv: the approval service, a cancelled job, a stutter.              *)
LEMMA ElsewherePreserves ==
    ASSUME SendInv, UNCHANGED <<pkg, outbox, sender, sentEvent, acts, lastCall>>,
           jobCancelled' \in BOOLEAN
    PROVE  SendInv'
  BY DEF SendInv, DeliveryTypes, OneActive, SenderOK, Active, EffectOK, AtMostOneEffect,
      LiteralOutcome, OutboxFollows, FrozenSetIsWhole, CallsAreCleared

(* Every step of DNext keeps both invariants. *)
LEMMA DeliveryStepPreserves ==
    ASSUME SendInv, ApprovalInv, [DNext]_allvars
    PROVE  SendInv' /\ ApprovalInv'
  <1>1. ApprovalInv'
    BY ApprovalsPreserve, DeliveryKeepsApprovals
  <1>. SUFFICES SendInv'
    BY <1>1
  <1>2. CASE UNCHANGED dvars
    BY <1>2, ElsewherePreserves DEF dvars, SendInv, DeliveryTypes
  <1>3. ASSUME NEW sendable \in BOOLEAN, confirm(sendable) PROVE SendInv'
    BY <1>3, ConfirmPreserves
  <1>4. ASSUME NEW s \in Senders, SendStarts(s) PROVE SendInv'
    BY <1>4, SendStartsPreserves
  <1>5. ASSUME NEW s \in Senders, SenderStep(s) PROVE SendInv'
    BY <1>5, AfterHookPreserves, EgressRefusedPreserves, EgressGrantedPreserves,
        AnswerPreserves DEF SenderStep
  <1>6. CASE cancelPackage
    <2>1. CallsOnlyEnd
      BY <1>6 DEF cancelPackage, CallsOnlyEnd, SendInv, DeliveryTypes
    <2>. QED
      BY <1>6, <2>1, CancelledPreserves DEF cancelPackage
  <1>7. CASE retry
    BY <1>7, RetryPreserves
  <1>8. CASE markProviderSent
    BY <1>8, MarkSentPreserves
  <1>9. CASE CancelJob
    BY <1>9, ElsewherePreserves DEF CancelJob
  <1>. QED
    BY <1>2, <1>3, <1>4, <1>5, <1>6, <1>7, <1>8, <1>9 DEF DNext, allvars
-----------------------------------------------------------------------------
(* Both invariants hold in every reachable state, for any modules, bound   *)
(* on snapshots and number of concurrent send() calls.                     *)
THEOREM DeliveryInvariant == DSpec => [](SendInv /\ ApprovalInv)
  <1>1. DInit => SendInv
    <2>1. NoRefs \in [Modules -> Snapshots]
      BY ApprovalAssumption DEF Snapshots, NoRefs
    <2>. SUFFICES ASSUME DInit PROVE SendInv
      OBVIOUS
    <2>2. /\ pkg.state = "absent" /\ outbox.state = "none" /\ acts = 0
          /\ \A s \in Senders : ~Active(s)
      BY DEF DInit, Active, Idle
    <2>3. DeliveryTypes
      BY <2>1 DEF DInit, DeliveryTypes, PackageStates, OutboxStates, SenderRecord, Idle
    <2>4. OneActive /\ (\A s \in Senders : SenderOK(s)) /\ EffectOK
      BY <2>2 DEF OneActive, SenderOK, EffectOK
    <2>5. AtMostOneEffect /\ LiteralOutcome /\ FrozenSetIsWhole
      BY <2>2 DEF AtMostOneEffect, LiteralOutcome, FrozenSetIsWhole
    <2>6. OutboxFollows /\ CallsAreCleared
      BY <2>2 DEF OutboxFollows, CallsAreCleared, DInit
    <2>. QED
      BY <2>3, <2>4, <2>5, <2>6 DEF SendInv
  <1>2. DInit => ApprovalInv
    BY ApprovalAssumption DEF Snapshots, DInit, AInit, ApprovalInv, ATypeOK, ApprovalState,
        ApprovalIsExact
  <1>3. SendInv /\ ApprovalInv /\ [DNext]_allvars => (SendInv /\ ApprovalInv)'
    BY DeliveryStepPreserves
  <1>. QED
    BY <1>1, <1>2, <1>3, PTL DEF DSpec

(* Every record of approvals and delivery keeps its type. *)
THEOREM DeliveryTyped == DSpec => []DTypeOK
  <1>1. SendInv /\ ApprovalInv => DTypeOK
    BY DEF SendInv, ApprovalInv, DeliveryTypes, DTypeOK
  <1>. QED
    BY <1>1, DeliveryInvariant, PTL

(* approve() is exact: an approval is for the current snapshot unless an   *)
(* edit has just replaced it and its invalidation is still to come.        *)
THEOREM ApprovalExactness == DSpec => []ApprovalIsExact
  <1>1. ApprovalInv => ApprovalIsExact
    BY DEF ApprovalInv
  <1>. QED
    BY <1>1, DeliveryInvariant, PTL

(* However send() calls, retries, cancellations, repeated confirmations    *)
(* and lost answers interleave, the provider acts at most once.            *)
THEOREM AtMostOnce == DSpec => []AtMostOneEffect
  <1>1. SendInv => AtMostOneEffect
    BY DEF SendInv
  <1>. QED
    BY <1>1, DeliveryInvariant, PTL

(* A package being sent has exactly one send() call to record its outcome, *)
(* and one that may be started or retried has none.                        *)
THEOREM SendOwnership == DSpec => []SendingHasOwner
  <1>1. SendInv => SendingHasOwner
    <2>. SUFFICES ASSUME SendInv PROVE SendingHasOwner
      OBVIOUS
    <2>. DEFINE active == {s \in Senders : sender[s].pc # "idle"}
    <2>1. Cardinality(active) <= 1
      <3>1. CASE active = {}
        BY <3>1, FS_EmptySet
      <3>2. CASE active # {}
        <4>1. PICK s \in active : TRUE
          BY <3>2
        <4>2. active = {s}
          BY <4>1 DEF SendInv, OneActive, Active
        <4>. QED
          BY <4>2, FS_Singleton
      <3>. QED
        BY <3>1, <3>2
    <2>2. pkg.state = "sending" => active # {}
      BY DEF SendInv, EffectOK, Active
    <2>3. pkg.state \in {"absent", "queued", "failed"} => active = {}
      BY DEF SendInv, SenderOK, Active
    <2>. QED
      BY <2>1, <2>2, <2>3 DEF SendingHasOwner
  <1>. QED
    BY <1>1, DeliveryInvariant, PTL

(* The recorded states are literal: sent and provider_accepted stand for a *)
(* real effect, the outbox follows the package, what is sent is the set    *)
(* frozen by confirm, and no call is made for what was cancelled or        *)
(* withdrawn before it.                                                    *)
THEOREM LiteralRecords ==
    DSpec => []RecordsAreLiteral
  <1>1. SendInv => RecordsAreLiteral
    BY DEF SendInv, RecordsAreLiteral
  <1>. QED
    BY <1>1, DeliveryInvariant, PTL
=============================================================================
