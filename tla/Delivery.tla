------------------------------ MODULE Delivery ------------------------------
(***************************************************************************)
(* One delivery package: DeliveryPackageService.confirm, DeliveryWorker    *)
(* and the repository of packages/delivery, composed with the approvals    *)
(* they read.  Several send() calls may be under way; each is cut at its   *)
(* awaits.  A transaction is atomic, and one that throws is rolled back:   *)
(* it is a disabled action.                                                *)
(*                                                                         *)
(* As in Approvals, a confirm with a revision other than the package's is  *)
(* refused, and so is one with a used idempotency key.  Whether the        *)
(* durability manifest of the command is sendable is an input.             *)
(***************************************************************************)
EXTENDS Approvals

CONSTANT Senders   \* concurrent send() calls

VARIABLES pkg,           \* the package record
          outbox,        \* its outbox record
          sender,        \* where each send() call is
          jobCancelled,  \* ProfessionalDeliveryStatus.jobCancelled
          sentEvent,     \* the audit log holds delivery.sent
          acts,          \* how many provider calls took effect
          lastCall       \* what the last provider call saw

dvars == <<pkg, outbox, sender, jobCancelled, sentEvent, acts, lastCall>>
allvars == <<avars, dvars>>

WaitingStates == {"waiting_for_approval", "waiting_for_evidence"}
PackageStates ==
    WaitingStates \cup {"absent", "queued", "sending", "provider_accepted",
                        "sent", "failed", "unknown", "cancelled"}
OutboxStates == {"none", "queued", "processing", "completed", "cancelled"}

NoRefs == [m \in Modules |-> 0]
Approved == [m \in Modules |-> approval[m].approved]

(* hook: before the first revalidation; egress: awaiting the egress guard; *)
(* provider: awaiting the provider, which took effect or not.              *)
SenderRecord == [pc : {"idle", "hook", "egress", "provider"}, acted : BOOLEAN]
Idle == [pc |-> "idle", acted |-> FALSE]

DInit ==
    /\ AInit
    /\ pkg = [state |-> "absent", refs |-> NoRefs, intervention |-> FALSE]
    /\ outbox = [state |-> "none", refs |-> NoRefs]
    /\ sender = [s \in Senders |-> Idle]
    /\ jobCancelled = FALSE
    /\ sentEvent = FALSE
    /\ acts = 0
    /\ lastCall = [refs |-> NoRefs, approved |-> NoRefs, cleared |-> TRUE]
-----------------------------------------------------------------------------
(* confirm, with #resolveExactApprovals *)
Blockers ==
    {m \in Modules : \/ approval[m].withdrawn
                     \/ snapshot[m] = 0
                     \/ approval[m].approved = 0}

confirm(sendable) ==
    /\ \A m \in Modules \ Blockers : approval[m].approved = snapshot[m]
    /\ LET state == IF Blockers # {} THEN "waiting_for_approval"
                    ELSE IF sendable THEN "queued" ELSE "waiting_for_evidence"
           refs == IF state = "queued" THEN Approved ELSE NoRefs
       IN  /\ pkg' = [state |-> state, refs |-> refs, intervention |-> FALSE]
           /\ IF state = "queued"
              THEN /\ outbox.state = "none"     \* enqueueOutbox
                   /\ outbox' = [state |-> "queued", refs |-> refs]
              ELSE UNCHANGED outbox
    /\ UNCHANGED <<avars, sender, jobCancelled, sentEvent, acts, lastCall>>

(* #isBlocked on what ProfessionalDeliveryStatusPort reports *)
isBlocked == jobCancelled \/ \E m \in Modules : approval[m].withdrawn

(* cancelPackage's transaction *)
Cancelled ==
    /\ pkg' = [pkg EXCEPT !.state = "cancelled"]
    /\ outbox' = [outbox EXCEPT !.state = IF @ = "none" THEN "none" ELSE "cancelled"]

Step(s, pc) == sender' = [sender EXCEPT ![s] = [Idle EXCEPT !.pc = pc]]

(* Mutant of SendStarts: a send under way may be started once more. *)
SendStartsAgain(s) ==
    /\ sender[s].pc = "idle"
    /\ pkg.state \in {"queued", "sending"}
    /\ pkg' = [pkg EXCEPT !.state = "sending"]
    /\ outbox' = [outbox EXCEPT !.state = "processing"]
    /\ Step(s, "hook")
    /\ UNCHANGED <<avars, jobCancelled, sentEvent, acts, lastCall>>

(* send() up to its first await *)
SendStarts(s) ==
    /\ sender[s].pc = "idle"
    /\ pkg.state = "queued"
    /\ IF isBlocked
       THEN Cancelled /\ UNCHANGED sender
       ELSE /\ pkg' = [pkg EXCEPT !.state = "sending"]
            /\ outbox' = [outbox EXCEPT !.state = "processing"]
            /\ Step(s, "hook")
    /\ UNCHANGED <<avars, jobCancelled, sentEvent, acts, lastCall>>

(* #revalidateSendability stops the call: the package was cancelled, is no *)
(* longer sending (it throws), or is blocked.                              *)
Stops(s) ==
    /\ pkg.state # "sending" \/ isBlocked
    /\ IF pkg.state = "sending" THEN Cancelled ELSE UNCHANGED <<pkg, outbox>>
    /\ Step(s, "idle")
    /\ UNCHANGED <<avars, jobCancelled, sentEvent, acts, lastCall>>

AfterHook(s) ==
    /\ sender[s].pc = "hook"
    /\ \/ Stops(s)
       \/ /\ pkg.state = "sending" /\ ~isBlocked
          /\ Step(s, "egress")
          /\ UNCHANGED <<avars, pkg, outbox, jobCancelled, sentEvent, acts, lastCall>>

(* Mutant of EgressRefused: the refusal is not recorded. *)
EgressRefusedSilently(s) ==
    /\ sender[s].pc = "egress"
    /\ Step(s, "idle")
    /\ UNCHANGED <<avars, pkg, outbox, jobCancelled, sentEvent, acts, lastCall>>

(* #recordEgressBlocked *)
EgressRefused(s) ==
    /\ sender[s].pc = "egress"
    /\ IF pkg.state = "sending"
       THEN /\ pkg' = [pkg EXCEPT !.state = "failed", !.intervention = FALSE]
            /\ outbox' = [outbox EXCEPT !.state = "queued"]
       ELSE UNCHANGED <<pkg, outbox>>
    /\ Step(s, "idle")
    /\ UNCHANGED <<avars, jobCancelled, sentEvent, acts, lastCall>>

CallProvider(s, acted) ==
    /\ sender' = [sender EXCEPT ![s] = [pc |-> "provider", acted |-> acted]]
    /\ acts' = IF acted THEN acts + 1 ELSE acts
    /\ lastCall' = [refs     |-> outbox.refs,
                    approved |-> Approved,
                    cleared  |-> pkg.state = "sending" /\ ~isBlocked]
    /\ UNCHANGED <<avars, pkg, outbox, jobCancelled, sentEvent>>

(* Mutant of EgressGranted: the status read before the egress guard is     *)
(* trusted after it.                                                       *)
EgressGrantedUnchecked(s) ==
    /\ sender[s].pc = "egress"
    /\ \E acted \in BOOLEAN : CallProvider(s, acted)

(* The guard lets the call pass: no await between the second revalidation  *)
(* and provider.send.                                                      *)
EgressGranted(s) ==
    /\ sender[s].pc = "egress"
    /\ \/ Stops(s)
       \/ /\ pkg.state = "sending" /\ ~isBlocked
          /\ \E acted \in BOOLEAN : CallProvider(s, acted)

(* What the provider may answer; unknown includes an answer that was lost. *)
Answers(acted) ==
    IF acted THEN {"sent", "accepted", "unknown"} ELSE {"failed", "rejected", "unknown"}

(* The states of package and outbox after #recordResult or #recordUnknown. *)
RecordedPackage(answer) ==
    CASE answer = "sent"     -> "sent"
      [] answer = "accepted" -> "provider_accepted"
      [] answer = "unknown"  -> "unknown"
      [] OTHER               -> "failed"

RecordedOutbox(answer) ==
    CASE answer \in {"sent", "rejected"} -> "completed"
      [] answer = "failed"               -> "queued"
      [] OTHER                           -> "processing"

(* failed is retryable, rejected is not.  A cancelled package only learns  *)
(* that it was sent after all; in any other state the answer is stale.     *)
ProviderAnswers(s) ==
    /\ sender[s].pc = "provider"
    /\ \E answer \in Answers(sender[s].acted) :
          IF \/ pkg.state = "sending"
             \/ pkg.state = "cancelled" /\ answer = "sent"
          THEN /\ pkg' = [pkg EXCEPT
                            !.state = RecordedPackage(answer),
                            !.intervention = IF answer \in {"failed", "rejected"}
                                             THEN answer = "rejected" ELSE @]
               /\ outbox' = [outbox EXCEPT !.state = RecordedOutbox(answer)]
               /\ sentEvent' = (sentEvent \/ answer = "sent")
          ELSE UNCHANGED <<pkg, outbox, sentEvent>>
    /\ Step(s, "idle")
    /\ UNCHANGED <<avars, jobCancelled, acts, lastCall>>

cancelPackage ==
    /\ pkg.state \notin {"absent", "sent", "cancelled"}
    /\ Cancelled
    /\ UNCHANGED <<avars, sender, jobCancelled, sentEvent, acts, lastCall>>

(* Mutant of retry: an unknown outcome is retried like a failure. *)
retryUnknown ==
    /\ pkg.state \in {"failed", "unknown"} /\ ~pkg.intervention
    /\ pkg' = [pkg EXCEPT !.state = "queued"]
    /\ outbox' = [outbox EXCEPT !.state = "queued"]
    /\ UNCHANGED <<avars, sender, jobCancelled, sentEvent, acts, lastCall>>

retry ==
    /\ pkg.state = "failed" /\ ~pkg.intervention
    /\ pkg' = [pkg EXCEPT !.state = "queued"]
    /\ outbox' = [outbox EXCEPT !.state = "queued"]
    /\ UNCHANGED <<avars, sender, jobCancelled, sentEvent, acts, lastCall>>

(* The provider's callback reports what really happened. *)
markProviderSent ==
    /\ acts > 0
    /\ pkg.state \in {"provider_accepted", "unknown", "cancelled"}
    /\ outbox.state # "none"                    \* updateOutbox
    /\ pkg' = [pkg EXCEPT !.state = "sent", !.intervention = FALSE]
    /\ outbox' = [outbox EXCEPT !.state = "completed"]
    /\ sentEvent' = TRUE
    /\ UNCHANGED <<avars, sender, jobCancelled, acts, lastCall>>

CancelJob ==
    /\ ~jobCancelled
    /\ jobCancelled' = TRUE
    /\ UNCHANGED <<avars, pkg, outbox, sender, sentEvent, acts, lastCall>>
-----------------------------------------------------------------------------
SenderStep(s) ==
    AfterHook(s) \/ EgressRefused(s) \/ EgressGranted(s) \/ ProviderAnswers(s)

DNext ==
    \/ ANext /\ UNCHANGED dvars
    \/ \E sendable \in BOOLEAN : confirm(sendable)
    \/ \E s \in Senders : SendStarts(s) \/ SenderStep(s)
    \/ cancelPackage
    \/ retry
    \/ markProviderSent
    \/ CancelJob

(* A promise under way is eventually settled: the guard answers and the    *)
(* provider answers or the call fails.                                     *)
DSpec == DInit /\ [][DNext]_allvars /\ \A s \in Senders : WF_allvars(SenderStep(s))
-----------------------------------------------------------------------------
DTypeOK ==
    /\ ATypeOK
    /\ pkg \in [state : PackageStates, refs : [Modules -> Snapshots], intervention : BOOLEAN]
    /\ outbox \in [state : OutboxStates, refs : [Modules -> Snapshots]]
    /\ sender \in [Senders -> SenderRecord]
    /\ jobCancelled \in BOOLEAN /\ sentEvent \in BOOLEAN
    /\ acts \in Nat
    /\ lastCall \in [refs : [Modules -> Snapshots], approved : [Modules -> Snapshots],
                     cleared : BOOLEAN]

(* No duplicate provider effect: whatever is retried, cancelled, confirmed *)
(* again or lost, the recipient is sent at most one copy.                  *)
AtMostOneEffect == acts <= 1

(* A package that is being sent has exactly one send() call that will      *)
(* record its outcome, and one that may be started or retried has none.    *)
SendingHasOwner ==
    LET active == {s \in Senders : sender[s].pc # "idle"}
    IN  /\ Cardinality(active) <= 1
        /\ pkg.state = "sending" => active # {}
        /\ pkg.state \in {"absent", "queued", "failed"} => active = {}

(* The provider is never called for a package that was cancelled, or for   *)
(* a cancelled job or a withdrawn module, however late that was decided.   *)
CallsAreCleared == lastCall.cleared

(* sent and provider_accepted are only reported when the provider did take *)
(* the package.                                                            *)
LiteralOutcome == pkg.state \in {"sent", "provider_accepted"} => acts > 0

(* The outbox follows the package through every path but a confirm that    *)
(* puts an already frozen package back to waiting.                         *)
OutboxFollows ==
    pkg.state \notin WaitingStates =>
        outbox.state \in
            CASE pkg.state = "absent"                           -> {"none"}
              [] pkg.state = "queued"                           -> {"queued"}
              [] pkg.state = "failed"                           ->
                    IF pkg.intervention THEN {"completed"} ELSE {"queued"}
              [] pkg.state = "sent"                             -> {"completed"}
              [] pkg.state = "cancelled"                        -> {"none", "cancelled"}
              [] OTHER                                          -> {"processing"}

(* The recipient is sent one complete set of snapshots: the set frozen     *)
(* with the only outbox record a package ever gets.                        *)
FrozenSetIsWhole ==
    outbox.state # "none" =>
        /\ \A m \in Modules : outbox.refs[m] # 0
        /\ pkg.refs \in {NoRefs, outbox.refs}
        /\ acts > 0 => lastCall.refs = outbox.refs

(* Record, outbox and provider tell one story whatever is cancelled,       *)
(* withdrawn, retried, lost or confirmed again in between: a reported      *)
(* outcome happened, the outbox follows the package, what is sent is the   *)
(* frozen set, and no call is made for what was cancelled before it        *)
(* (worker.ts:68, 210, 321).                                               *)
RecordsAreLiteral ==
    LiteralOutcome /\ OutboxFollows /\ FrozenSetIsWhole /\ CallsAreCleared

(* A send that was started ends in a literal outcome. *)
SendEnds == (pkg.state = "sending") ~> (pkg.state # "sending")

(* worker.ts: "A sent copy cannot be recalled; withdrawal must be          *)
(* represented by notice and audit history": a package whose delivery was  *)
(* logged stays sent.                                                      *)
SentIsFinal == sentEvent => pkg.state = "sent"

(* docs/runbooks/queue-reconciliation.md: "a withdrawn or stale report     *)
(* version cannot be revived by replaying its old package": what the       *)
(* provider is given is what is approved when it is called.                *)
NoStaleSend == lastCall.refs = lastCall.approved
============================================================================
