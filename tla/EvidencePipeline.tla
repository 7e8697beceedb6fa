-------------------------- MODULE EvidencePipeline --------------------------
(***************************************************************************)
(* From an uploaded original to a trusted safe proxy: EvidenceSync commits *)
(* a row and enqueues its content task in one step, and the workers of     *)
(* WorkerLoop run the content.validate_and_proxy handler                   *)
(* (evidence-handlers.ts, ContentQuarantinePipeline.process), cut at its   *)
(* awaits.  The task of an artifact has the artifact's identity.           *)
(*                                                                         *)
(* What the byte checks and the decoder conclude is a choice.  The handler *)
(* throws no RetryableTaskError and no UnknownTaskOutcome.                 *)
(***************************************************************************)
EXTENDS EvidenceSync, WorkerLoop

ASSUME PipelineAssumption ==
    /\ TaskIds = Artifacts
    /\ \A a \in Artifacts : \E r \in Requests :
          r.taskId = a /\ r.idempotencyKey = a /\ r.dependencyTaskIds = {}

VARIABLES handler,      \* where each worker is in process()
          assessment,   \* #assessments, with the proxy of #proxies
          proxies       \* the safe namespace of the object store

pvars == <<handler, assessment, proxies>>
evars == <<svars, wvars, pvars>>

HandlerStates == {"none", "read", "decode", "put", "verify", "checkpoint", "finish"}

(* randomUUID names the proxy object of one attempt: the artifact and the  *)
(* lease generation stand for it, generation 0 for no proxy.               *)
Assessments == [state : {"none", "rejected", "accepted"}, proxy : Nat]
Unassessed == [state |-> "none", proxy |-> 0]

PInit ==
    /\ SInit
    /\ WInit
    /\ handler = [w \in Workers |-> "none"]
    /\ assessment = [a \in Artifacts |-> Unassessed]
    /\ proxies = {}

Handle(w, pc) == handler' = [handler EXCEPT ![w] = pc]
-----------------------------------------------------------------------------
(* finalize's commit; the queue callback is part of its critical section.  *)
Commit(i) ==
    /\ commitVerifiedDurability(i)
    /\ IF Records(i)
       THEN \E r \in Requests : r.taskId = D(i).artifact /\ Enqueue(r)
       ELSE UNCHANGED tasks
    /\ UNCHANGED <<worker, shutdown, pvars>>

(* The lease and process() up to its first await. *)
StartHandler(w, a) ==
    /\ PollLease(w, a)
    /\ Handle(w, IF assessment[a] = Unassessed THEN "read" ELSE "checkpoint")
    /\ UNCHANGED <<svars, assessment, proxies>>

(* The bytes were read and passed their checks: the decoder is awaited.    *)
ReadPasses(w) ==
    /\ handler[w] = "read"
    /\ Handle(w, "decode")
    /\ UNCHANGED <<svars, wvars, assessment, proxies>>

(* Mutant of assertLease: the lease is not looked at again. *)
assertNothing(w) == Running(w)

(* context.assertLease: HeartbeatLossIsFinal makes its flag redundant. *)
assertLease(w) == Running(w) /\ ValidLease(T(w), G(w))

(* recordAssessment, which throws if there is one. *)
recordAssessment(w, a) ==
    /\ assertLease(w)
    /\ assessment[T(w)] = Unassessed
    /\ assessment' = [assessment EXCEPT ![T(w)] = a]

Reject(w) ==
    /\ handler[w] \in {"read", "decode"}
    /\ recordAssessment(w, [state |-> "rejected", proxy |-> 0])
    /\ Handle(w, "checkpoint")
    /\ UNCHANGED <<svars, wvars, proxies>>

DecodePasses(w) ==
    /\ handler[w] = "decode"
    /\ assertLease(w)
    /\ Handle(w, "put")
    /\ UNCHANGED <<svars, wvars, assessment, proxies>>

(* putImmutable does not look at the lease. *)
PutProxy(w) ==
    /\ handler[w] = "put"
    /\ proxies' = proxies \cup {<<T(w), G(w)>>}
    /\ Handle(w, "verify")
    /\ UNCHANGED <<svars, wvars, assessment>>

(* head and read confirm the proxy, then comes the trust-conferring commit *)
Accept(w) ==
    /\ handler[w] = "verify"
    /\ recordAssessment(w, [state |-> "accepted", proxy |-> G(w)])
    /\ Handle(w, "checkpoint")
    /\ UNCHANGED <<svars, wvars, proxies>>

Checkpointed(w) ==
    /\ handler[w] = "checkpoint"
    /\ HandlerCheckpoint(w)
    /\ Handle(w, "finish")
    /\ UNCHANGED <<svars, assessment, proxies>>

Completed(w) ==
    /\ handler[w] = "finish"
    /\ Succeed(w)
    /\ Handle(w, "none")
    /\ UNCHANGED <<svars, assessment, proxies>>

(* The store fails, the proxy does not verify or an assessment exists: an  *)
(* unhandled error, which is not retried.  A decoder that fails is a       *)
(* rejection.                                                              *)
HandlerErrs(w) ==
    /\ handler[w] \in {"read", "decode", "put", "verify"}
    /\ handler[w] = "decode" => assessment[T(w)] # Unassessed
    /\ fail(T(w), G(w), FALSE, boundedBackoff(tasks[T(w)].attemptCount))
    /\ Goto(w, "ready")
    /\ Handle(w, "none")
    /\ UNCHANGED <<svars, shutdown, assessment, proxies>>

HandlerFenced(w) ==
    /\ handler[w] # "none"
    /\ ThrowFenced(w)
    /\ Handle(w, "none")
    /\ UNCHANGED <<svars, assessment, proxies>>

HandlerCrash(w) ==
    /\ Crash(w)
    /\ Handle(w, "none")
    /\ UNCHANGED <<svars, assessment, proxies>>

Idles(w) ==
    /\ PollIdle(w) \/ Wake(w) \/ Restart(w)
    /\ UNCHANGED <<svars, pvars>>

(* The loop ends, by its abort signal or because the event loop drains. *)
Leaves(w) ==
    /\ EventLoopDrains(w) \/ LoopEnds(w)
    /\ UNCHANGED <<svars, pvars>>

HandlerStep(w) ==
    \/ ReadPasses(w) \/ Reject(w) \/ DecodePasses(w) \/ PutProxy(w) \/ Accept(w)
    \/ Checkpointed(w) \/ Completed(w) \/ HandlerErrs(w) \/ HandlerFenced(w)

PNext ==
    \/ \E i \in Intents : SyncStep(i) /\ UNCHANGED <<wvars, pvars>>
    \/ \E i \in Intents : Commit(i)
    \/ \E w \in Workers :
          \/ \E a \in Artifacts : StartHandler(w, a)
          \/ HandlerStep(w) \/ HandlerCrash(w) \/ Idles(w) \/ Leaves(w)
          \/ (HeartbeatTimer(w) \/ Shutdown(w)) /\ UNCHANGED <<svars, pvars>>
    \/ \E a \in Artifacts : cancel(a) /\ UNCHANGED <<svars, worker, shutdown, pvars>>
    \/ Clock /\ UNCHANGED <<svars, pvars>>

PFairness ==
    /\ WF_evars(Clock /\ UNCHANGED <<svars, pvars>>)
    /\ \A w \in Workers :
          /\ WF_evars((\E a \in Artifacts : StartHandler(w, a)) \/ Idles(w) \/ Leaves(w))
          /\ WF_evars(HandlerStep(w))

PSpec == PInit /\ [][PNext]_evars /\ PFairness
-----------------------------------------------------------------------------
PTypeOK ==
    /\ STypeOK
    /\ WTypeOK
    /\ handler \in [Workers -> HandlerStates]
    /\ assessment \in [Artifacts -> Assessments]
    /\ proxies \subseteq Artifacts \X Nat

(* The row and its content task come into being together and the task     *)
(* never vanishes: no original is durable without someone to validate it,  *)
(* and no task runs on an artifact without a row.                          *)
TaskPerArtifact ==
    \A a \in Artifacts : (artifacts[a] # None) <=> (tasks[a].state # "absent")

(* The append-only check of recordAssessment never trips under a valid     *)
(* lease: a worker whose lease still holds and that saw no assessment when *)
(* it started finds none when it commits, whatever expired, crashed or     *)
(* stale workers did in between.                                           *)
FirstLookStillTrue ==
    \A w \in Workers :
        (handler[w] \in {"read", "decode", "put", "verify"} /\ ValidLease(T(w), G(w)))
            => assessment[T(w)] = Unassessed

(* A content task that succeeded has its assessment, and what it was       *)
(* accepted on is one of its own proxies, written by a lease not later     *)
(* than the one that completed.                                            *)
SuccessIsAssessed ==
    \A a \in Artifacts :
        tasks[a].state = "succeeded" =>
            /\ assessment[a] # Unassessed
            /\ assessment[a].proxy <= tasks[a].result

(* reconcileEvidence, for one quarantined object or durable row *)
reconcileEvidence(k) ==
    LET a == k[2]
        row == artifacts[a] # None /\ KeyOf(artifacts[a]) = k
    IN  IF objects[k] = None THEN IF row THEN "missing_object" ELSE "nothing"
        ELSE IF ~row THEN "object_only"
        ELSE IF objects[k] # artifacts[a].content THEN "divergent_checksum"
        ELSE IF assessment[a].state # "accepted" THEN "content_quarantine"
        ELSE IF <<a, assessment[a].proxy>> \notin proxies THEN "missing_object"
        ELSE "consistent"

(* Crashes, races, lost calls and stale workers leave orphan objects and   *)
(* quarantined originals, never a row without its object, a row that       *)
(* disagrees with it, or a trusted proxy that is not stored.               *)
ReconcilesClean ==
    \A k \in Keys : reconcileEvidence(k) \notin {"missing_object", "divergent_checksum"}

(* Sync, queue, workers and handler agree on every original however they   *)
(* are interleaved, crashed and retried: it has a task, only a fenced      *)
(* handler holds a stale look at it, its success is an assessment and a    *)
(* scan finds nothing missing (content-pipeline.ts:130, evidence-handlers. *)
(* ts:13).                                                                 *)
PipelineIsSound ==
    PTypeOK /\ TaskPerArtifact /\ FirstLookStillTrue /\ SuccessIsAssessed /\ ReconcilesClean

(* Every durable original is eventually assessed, or its task is given up  *)
(* visibly, PROVIDED one worker is never shut down and has a process that  *)
(* something other than its idle timer keeps alive.  apps/worker/src/tasks *)
(* /runtime.ts:43 unrefs that timer, so the code alone does not provide    *)
(* such a worker: without one the originals' tasks stay queued.            *)
OriginalsSettle ==
    (\E w \in KeptAlive : []~shutdown[w]) =>
        \A a \in Artifacts :
            (artifacts[a] # None) ~>
                (assessment[a] # Unassessed \/ tasks[a].state \in Failed)
============================================================================
