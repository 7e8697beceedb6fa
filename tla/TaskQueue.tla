----------------------------- MODULE TaskQueue -----------------------------
(***************************************************************************)
(* The durable fenced task queue of packages/task-queue                    *)
(* (in-memory-queue.ts, class InMemoryDurableTaskQueue).                   *)
(*                                                                         *)
(* The module is an open system: whoever was ever granted a lease may      *)
(* present it at any later moment, so every late, duplicated or reordered  *)
(* call of a worker is a behaviour of Next.  A call that the code answers  *)
(* with false or an exception changes nothing and is a disabled action.    *)
(*                                                                         *)
(* Time is kept relative to now, in ticks of one second: leaseLeft is      *)
(* leasedUntil - now and availableIn is availableAt - now.  Time is        *)
(* therefore unbounded although the state space is finite.                 *)
(*                                                                         *)
(* Left out: the event log (#event), names, error codes and artifact       *)
(* references.  lease() sorts the leasable tasks by availableAt, createdAt *)
(* and taskId; here any leasable task may be picked, so what holds below   *)
(* holds whatever the order.                                               *)
(***************************************************************************)
EXTENDS Integers, FiniteSets

CONSTANTS TaskIds,      \* task identities
          Requests,     \* the EnqueueTask inputs clients may submit
          Hashes,       \* reconciliation key hashes
          Revisions,    \* packet revisions clients may announce
          RetryDelays,  \* the explicit retryDelayMs values, in ticks
          LeaseTicks,   \* leaseDurationMs, in ticks
          NoRequest, NoPacket, NoHash

(***************************************************************************)
(* validateEnqueue: only requests that pass it reach the queue.            *)
(* organizationId is part of the key and of the packet.                    *)
(***************************************************************************)
ValidRequest(r) ==
    /\ r.taskId \in TaskIds
    /\ r.maxAttempts \in Nat /\ 1 <= r.maxAttempts /\ r.maxAttempts <= 100
    /\ r.packetRevision \in Nat
    /\ (r.packetId = NoPacket) <=> (r.packetRevision = 0)
    /\ r.availableIn \in Nat
    /\ r.dependencyTaskIds \in SUBSET (TaskIds \ {r.taskId})

ASSUME QueueAssumption ==
    /\ \A r \in Requests : ValidRequest(r)
    /\ NoRequest \notin Requests
    /\ NoHash \notin Hashes
    /\ Revisions \subseteq Nat \ {0}
    /\ \A d \in RetryDelays : d \in Nat /\ d <= 86400
    /\ LeaseTicks \in Nat /\ 1 <= LeaseTicks /\ LeaseTicks <= 900

VARIABLE tasks   \* the #tasks map, a record for every identity

vars == <<tasks>>
-----------------------------------------------------------------------------
Waiting == {"queued", "retry_wait"}
Failed  == {"dead_letter", "cancelled", "superseded"}
States  == Waiting \cup Failed \cup {"absent", "running", "succeeded", "unknown"}

(* A lease token is a fresh UUID per lease: the generation it was minted   *)
(* for stands for it, and 0 for no token.  earlier is the set of tasks     *)
(* inserted into the Map before this one.  checkpoints keeps the           *)
(* generations that recorded one, result the generation whose completion   *)
(* was accepted.                                                           *)
TaskRecord ==
    [state           : States,
     request         : Requests \cup {NoRequest},
     earlier         : SUBSET TaskIds,
     attemptCount    : Nat,
     leaseGeneration : Nat,
     leaseToken      : Nat,
     leaseLeft       : Int,
     availableIn     : Nat,
     unknownHash     : Hashes \cup {NoHash},
     checkpoints     : SUBSET Nat,
     result          : Nat]

AbsentTask ==
    [state |-> "absent", request |-> NoRequest, earlier |-> {},
     attemptCount |-> 0, leaseGeneration |-> 0, leaseToken |-> 0,
     leaseLeft |-> -1, availableIn |-> 0, unknownHash |-> NoHash,
     checkpoints |-> {}, result |-> 0]

Init == tasks = [t \in TaskIds |-> AbsentTask]

Present(ts) == {t \in TaskIds : ts[t].state # "absent"}

MaxOf(task) == task.request.maxAttempts
DepsOf(task) == task.request.dependencyTaskIds

(* clearLease *)
Cleared(task) == [task EXCEPT !.leaseToken = 0, !.leaseLeft = -1]

(* boundedBackoff: min(60, 2^min(attempt-1, 6)) seconds *)
boundedBackoff(attempt) ==
    IF attempt >= 7 THEN 60 ELSE <<1, 2, 4, 8, 16, 32>>[attempt]

(* Mutant of ValidLease: the fencing number and token are not compared. *)
ValidLeaseUnfenced(t, g) ==
    /\ tasks[t].state = "running"
    /\ tasks[t].leaseLeft >= 0

(* #validLease, for the command [taskId t, generation g, leaseToken g]     *)
ValidLease(t, g) ==
    /\ tasks[t].state = "running"
    /\ tasks[t].leaseGeneration = g
    /\ tasks[t].leaseToken = g
    /\ tasks[t].leaseLeft >= 0
-----------------------------------------------------------------------------
(* enqueue: a key seen before is replayed or refused, which changes        *)
(* nothing; so does an identity that already exists.                       *)
Enqueue(r) ==
    /\ \A t \in Present(tasks) :
          tasks[t].request.idempotencyKey # r.idempotencyKey
    /\ tasks[r.taskId].state = "absent"
    /\ tasks' = [tasks EXCEPT ![r.taskId] =
                    [AbsentTask EXCEPT !.state = "queued", !.request = r,
                                       !.earlier = Present(tasks),
                                       !.availableIn = r.availableIn]]

(* recoverExpiredLeases *)
Expired(task) ==
    task.state = "running" /\ task.leaseToken # 0 /\ task.leaseLeft < 0

(* Mutants of Recovered: an expired lease is not recovered; the task       *)
(* becomes available at the instant its lease ran out.                     *)
RecoveredNever(task) == task

RecoveredInThePast(task) ==
    IF Expired(task)
    THEN [Cleared(task) EXCEPT
            !.state = IF task.attemptCount < MaxOf(task)
                      THEN "retry_wait" ELSE "dead_letter",
            !.availableIn = task.leaseLeft]
    ELSE task

Recovered(task) ==
    IF Expired(task)
    THEN [Cleared(task) EXCEPT
            !.state = IF task.attemptCount < MaxOf(task)
                      THEN "retry_wait" ELSE "dead_letter",
            !.availableIn = 0]
    ELSE task

recoverExpiredLeases == [t \in TaskIds |-> Recovered(tasks[t])]

(* reconcileBlockedDependencies walks the Map once, in insertion order,    *)
(* and sees the cancellations it has made so far: C is the set it cancels. *)
CancelledBy(ts, C) ==
    C = {t \in TaskIds :
            /\ ts[t].state \in Waiting
            /\ \E d \in DepsOf(ts[t]) :
                  \/ ts[d].state \in Failed
                  \/ d \in C /\ d \in ts[t].earlier}

reconcileBlockedDependencies(ts, C) ==
    [t \in TaskIds |->
        IF t \in C THEN [ts[t] EXCEPT !.state = "cancelled"] ELSE ts[t]]

(* Mutants of Leasable: a dependency not enqueued yet does not block; an   *)
(* unknown outcome is retried without being reconciled.                    *)
LeasableEarly(ts, t) ==
    /\ ts[t].state \in Waiting
    /\ ts[t].availableIn = 0
    /\ ts[t].attemptCount < MaxOf(ts[t])
    /\ \A d \in DepsOf(ts[t]) : ts[d].state \in {"succeeded", "absent"}

LeasableUnknown(ts, t) ==
    /\ ts[t].state \in Waiting \cup {"unknown"}
    /\ ts[t].availableIn = 0
    /\ ts[t].attemptCount < MaxOf(ts[t])
    /\ \A d \in DepsOf(ts[t]) : ts[d].state = "succeeded"

Leasable(ts, t) ==
    /\ ts[t].state \in Waiting
    /\ ts[t].availableIn = 0
    /\ ts[t].attemptCount < MaxOf(ts[t])
    /\ \A d \in DepsOf(ts[t]) : ts[d].state = "succeeded"

Granted(task) ==
    [task EXCEPT !.state = "running",
                 !.attemptCount = @ + 1,
                 !.leaseGeneration = @ + 1,
                 !.leaseToken = task.leaseGeneration + 1,
                 !.leaseLeft = LeaseTicks]

(* lease: both sweeps, then the grant of one leasable task, if there is    *)
(* one.                                                                    *)
LeaseTask(t) ==
    \E C \in SUBSET TaskIds :
        /\ CancelledBy(recoverExpiredLeases, C)
        /\ LET swept == reconcileBlockedDependencies(recoverExpiredLeases, C)
           IN  /\ Leasable(swept, t)
               /\ tasks' = [swept EXCEPT ![t] = Granted(@)]

LeaseNothing ==
    \E C \in SUBSET TaskIds :
        /\ CancelledBy(recoverExpiredLeases, C)
        /\ LET swept == reconcileBlockedDependencies(recoverExpiredLeases, C)
           IN  /\ \A t \in TaskIds : ~Leasable(swept, t)
               /\ tasks' = swept

(* Both sweeps are public methods as well. *)
RecoverSweep == tasks' = recoverExpiredLeases

BlockedSweep ==
    \E C \in SUBSET TaskIds :
        /\ CancelledBy(tasks, C)
        /\ tasks' = reconcileBlockedDependencies(tasks, C)

(* Mutant of heartbeat: an expired lease is extended too. *)
heartbeatReviving(t, g) ==
    /\ tasks[t].state = "running"
    /\ tasks[t].leaseToken = g
    /\ tasks' = [tasks EXCEPT ![t].leaseLeft = LeaseTicks]

heartbeat(t, g) ==
    /\ ValidLease(t, g)
    /\ tasks' = [tasks EXCEPT ![t].leaseLeft = LeaseTicks]

checkpoint(t, g) ==
    /\ ValidLease(t, g)
    /\ tasks' = [tasks EXCEPT ![t].checkpoints = @ \cup {g}]

complete(t, g) ==
    /\ ValidLease(t, g)
    /\ tasks' = [tasks EXCEPT ![t] =
                    [Cleared(@) EXCEPT !.state = "succeeded", !.result = g]]

(* fail: delay is options.retryDelayMs ?? boundedBackoff(attemptCount) *)
fail(t, g, retryable, delay) ==
    /\ ValidLease(t, g)
    /\ tasks' = [tasks EXCEPT ![t] =
                    [Cleared(@) EXCEPT
                        !.state = IF /\ retryable
                                     /\ tasks[t].attemptCount < MaxOf(tasks[t])
                                  THEN "retry_wait" ELSE "dead_letter",
                        !.availableIn = delay]]

ToUnknown(task, h) ==
    [Cleared(task) EXCEPT !.state = "unknown", !.unknownHash = h]

markUnknown(t, g, h) ==
    /\ ValidLease(t, g)
    /\ tasks' = [tasks EXCEPT ![t] = ToUnknown(@, h)]

(* recordUnknownObservation needs no lease: only the request fingerprint,  *)
(* which every worker that ever held the task knows.  On a task already    *)
(* unknown, or settled, it changes nothing.                                *)
recordUnknownObservation(t, h) ==
    /\ tasks[t].state \in Waiting \cup {"running"}
    /\ tasks' = [tasks EXCEPT ![t] = ToUnknown(@, h)]

reconcileUnknown(t, h, observed) ==
    /\ tasks[t].state = "unknown"
    /\ tasks[t].unknownHash = h
    /\ tasks' = [tasks EXCEPT ![t].state =
                    IF observed = "succeeded" THEN "succeeded"
                    ELSE IF /\ observed = "retry"
                            /\ tasks[t].attemptCount < MaxOf(tasks[t])
                         THEN "retry_wait" ELSE "dead_letter",
                 ![t].availableIn = 0]

supersedePacket(p, newer) ==
    tasks' = [t \in TaskIds |->
                IF /\ tasks[t].state \notin Failed \cup {"absent"}
                   /\ tasks[t].request.packetId = p
                   /\ tasks[t].request.packetRevision < newer
                THEN [Cleared(tasks[t]) EXCEPT !.state = "superseded"]
                ELSE tasks[t]]

cancel(t) ==
    /\ tasks[t].state \notin Failed \cup {"absent", "succeeded"}
    /\ tasks' = [tasks EXCEPT ![t] = [Cleared(@) EXCEPT !.state = "cancelled"]]

(* One second passes. *)
Tick ==
    tasks' = [t \in TaskIds |->
                [tasks[t] EXCEPT
                    !.leaseLeft = IF @ >= 0 THEN @ - 1 ELSE @,
                    !.availableIn = IF @ > 0 THEN @ - 1 ELSE @]]
-----------------------------------------------------------------------------
Packets == {r.packetId : r \in Requests} \ {NoPacket}

(* The calls of a lease holder, current or stale. *)
LeaseCommand(t, g) ==
    \/ heartbeat(t, g)
    \/ checkpoint(t, g)
    \/ complete(t, g)
    \/ \E retryable \in BOOLEAN,
          delay \in RetryDelays \cup {boundedBackoff(tasks[t].attemptCount)} :
             fail(t, g, retryable, delay)
    \/ \E h \in Hashes : markUnknown(t, g, h)

Next ==
    \/ \E r \in Requests : Enqueue(r)
    \/ \E t \in TaskIds : LeaseTask(t)
    \/ LeaseNothing
    \/ RecoverSweep
    \/ BlockedSweep
    \/ \E t \in TaskIds : \E g \in 1..tasks[t].leaseGeneration : LeaseCommand(t, g)
    \/ \E t \in TaskIds, h \in Hashes : recordUnknownObservation(t, h)
    \/ \E t \in TaskIds, h \in Hashes, o \in {"succeeded", "retry", "failed"} :
          reconcileUnknown(t, h, o)
    \/ \E p \in Packets, newer \in Revisions : supersedePacket(p, newer)
    \/ \E t \in TaskIds : cancel(t)
    \/ Tick

Spec == Init /\ [][Next]_vars
-----------------------------------------------------------------------------
TypeOK == tasks \in [TaskIds -> TaskRecord]

(* Exactly the running tasks hold a lease, and the token is the one of the *)
(* newest generation.  recoverExpiredLeases finds a task only through its  *)
(* lease: a running task without one would run forever, and a lease left   *)
(* behind on another task would let a stale worker act on it again.        *)
LeaseIffRunning ==
    \A t \in TaskIds :
        IF tasks[t].state = "running"
        THEN /\ tasks[t].leaseToken = tasks[t].leaseGeneration
             /\ tasks[t].leaseToken # 0
        ELSE /\ tasks[t].leaseToken = 0
             /\ tasks[t].leaseLeft = -1

(* The attempts of a task never exceed maxAttempts whatever mix of         *)
(* failures, expired leases and reconciled unknown outcomes it went        *)
(* through, and a waiting task always has an attempt left: lease() skips a *)
(* task without one, which would then wait forever.                        *)
AttemptBudget ==
    \A t \in Present(tasks) :
        /\ tasks[t].attemptCount = tasks[t].leaseGeneration
        /\ tasks[t].attemptCount <= MaxOf(tasks[t])
        /\ tasks[t].state \in Waiting => tasks[t].attemptCount < MaxOf(tasks[t])

(* A task was only ever started after everything it depends on had         *)
(* succeeded; a newer packet revision may have superseded that success     *)
(* since.                                                                  *)
StartedAfterDependencies ==
    \A t \in Present(tasks) :
        tasks[t].attemptCount > 0 =>
            \A d \in DepsOf(tasks[t]) : tasks[d].state \in {"succeeded", "superseded"}

(* A result is recorded at most once and by the last lease granted: after  *)
(* it no other worker is ever given the task.                              *)
ResultOfLastLease ==
    \A t \in TaskIds :
        tasks[t].result # 0 =>
            /\ tasks[t].state \in {"succeeded", "superseded"}
            /\ tasks[t].result = tasks[t].leaseGeneration

(* However leases expire and late, failed and reconciled outcomes arrive,  *)
(* leases, attempts, dependencies and results of a task fit together       *)
(* (in-memory-queue.ts:83-94, 378-441).                                    *)
TasksAreSound ==
    LeaseIffRunning /\ AttemptBudget /\ StartedAfterDependencies /\ ResultOfLastLease

(* Stale workers cannot checkpoint: once a later generation has recorded   *)
(* progress, no earlier generation ever adds any.                          *)
FencedCheckpoints ==
    [][\A t \in TaskIds :
          \A g \in tasks'[t].checkpoints \ tasks[t].checkpoints :
             \A h \in tasks[t].checkpoints : h < g]_vars

(* A task settles once: a dead-lettered, cancelled or superseded task      *)
(* never changes state again, whatever late call arrives, and a success is *)
(* only ever withdrawn by a newer packet revision.                         *)
SettledForever ==
    [][\A t \in TaskIds :
          /\ tasks[t].state \in Failed => tasks'[t].state = tasks[t].state
          /\ tasks[t].state = "succeeded" =>
                tasks'[t].state \in {"succeeded", "superseded"}]_vars

(* The promise of TaskContract, with the queue's states grouped into       *)
(* phases.                                                                 *)
PhaseOf(state) ==
    CASE state \in Waiting     -> "pending"
      [] state \in Failed      -> "void"
      [] state = "running"     -> "held"
      [] state = "succeeded"   -> "done"
      [] OTHER                 -> state

Contract == INSTANCE TaskContract WITH
    Tasks    <- TaskIds,
    MaxLimit <- 100,
    phase    <- [t \in TaskIds |-> PhaseOf(tasks[t].state)],
    grants   <- [t \in TaskIds |-> tasks[t].leaseGeneration],
    limit    <- [t \in TaskIds |->
                    IF tasks[t].state = "absent" THEN 0 ELSE MaxOf(tasks[t])]

(* Every call of the queue, stale or not, is one legal step of the         *)
(* contract: exclusive numbered grants, at most one per call and never     *)
(* beyond the limit, none of a task whose outcome is unknown.              *)
ImplementsContract == Contract!CSpec
============================================================================
