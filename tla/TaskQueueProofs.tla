--------------------------- MODULE TaskQueueProofs ---------------------------
(***************************************************************************)
(* Proofs about TaskQueue for every set of tasks, requests, revisions and  *)
(* delays.  Every action changes each task record by one of a few record   *)
(* operations, so the argument is made per record (TaskOK, TaskStep) and   *)
(* then lifted to the queue.  The last part proves that TaskQueue          *)
(* implements TaskContract.                                                *)
(***************************************************************************)
EXTENDS TaskQueue, TLAPS

(* The inductive invariant of one record. *)
TaskOK(x) ==
    /\ x \in TaskRecord
    /\ x.state = "absent" => x = AbsentTask
    /\ x.state # "absent" => x.request \in Requests
    /\ IF x.state = "running"
       THEN x.leaseToken = x.leaseGeneration /\ x.leaseToken # 0
       ELSE x.leaseToken = 0 /\ x.leaseLeft = -1
    /\ x.attemptCount = x.leaseGeneration
    /\ x.state # "absent" => x.attemptCount <= MaxOf(x)
    /\ x.state \in Waiting => x.attemptCount < MaxOf(x)
    /\ x.result # 0 => x.state \in {"succeeded", "superseded"}
                       /\ x.result = x.leaseGeneration
    /\ x.checkpoints \subseteq 1..x.leaseGeneration

(* What any action may do to one record. *)
TaskStep(x, y) ==
    /\ TaskOK(y)
    /\ x.state # "absent" => y.state # "absent" /\ y.request = x.request
    /\ x.state \in Failed => y.state = x.state
    /\ x.state = "succeeded" => y.state \in {"succeeded", "superseded"}
    /\ y.attemptCount \in {x.attemptCount, x.attemptCount + 1}
    /\ \A g \in y.checkpoints \ x.checkpoints : \A h \in x.checkpoints : h < g

(* What validateEnqueue guarantees of a request the queue holds.           *)
LEMMA RequestFacts ==
    ASSUME NEW r \in Requests
    PROVE  /\ r.taskId \in TaskIds
           /\ r.maxAttempts \in Nat /\ 1 <= r.maxAttempts /\ r.maxAttempts <= 100
           /\ r.availableIn \in Nat
           /\ r.dependencyTaskIds \subseteq TaskIds \ {r.taskId}
  <1>1. ValidRequest(r) BY QueueAssumption DEF QueueAssumption
  <1> QED BY <1>1 DEF ValidRequest

(* A task that was never enqueued satisfies the record invariant.          *)
LEMMA AbsentOK == TaskOK(AbsentTask)
  BY DEF TaskOK, TaskRecord, AbsentTask, States, Waiting, Failed

(* An untouched record makes a legal step.                                 *)
LEMMA SameStep == ASSUME NEW x, TaskOK(x) PROVE TaskStep(x, x)
  BY DEF TaskStep, TaskOK, TaskRecord

(* clearLease changes only the lease fields and keeps the type.            *)
LEMMA ClearedFacts ==
    ASSUME NEW x \in TaskRecord
    PROVE  /\ Cleared(x) \in TaskRecord
           /\ Cleared(x).leaseToken = 0 /\ Cleared(x).leaseLeft = -1
           /\ Cleared(x).state = x.state /\ Cleared(x).request = x.request
           /\ Cleared(x).attemptCount = x.attemptCount
           /\ Cleared(x).leaseGeneration = x.leaseGeneration
           /\ Cleared(x).checkpoints = x.checkpoints
           /\ Cleared(x).result = x.result
  <1> DEFINE z == [x EXCEPT !.leaseToken = 0]
  <1>1. z \in TaskRecord BY DEF TaskRecord
  <1>2. -1 \in Int OBVIOUS
  <1>3. [z EXCEPT !.leaseLeft = -1] \in TaskRecord BY <1>1, <1>2 DEF TaskRecord
  <1>4. Cleared(x) \in TaskRecord BY <1>3 DEF Cleared
  <1> QED BY <1>4 DEF Cleared, TaskRecord

(* A step that ends, or does not start, the running of a task. *)
LEMMA RestingStep ==
    ASSUME NEW x, TaskOK(x), x.state \notin Failed \cup {"absent"},
           NEW y \in TaskRecord,
           y.state \notin {"absent", "running"},
           y.leaseToken = 0, y.leaseLeft = -1,
           y.request = x.request,
           y.attemptCount = x.attemptCount,
           y.leaseGeneration = x.leaseGeneration,
           y.checkpoints = x.checkpoints,
           x.state = "succeeded" => y.state \in {"succeeded", "superseded"},
           y.state \in Waiting => x.attemptCount < MaxOf(x),
           \/ y.result = x.result
           \/ y.state = "succeeded" /\ y.result = x.leaseGeneration
    PROVE  TaskStep(x, y)
  <1>1. x \in TaskRecord BY DEF TaskOK
  <1>2. x.result # 0 => x.state \in {"succeeded", "superseded"}
    BY DEF TaskOK
  <1>3. TaskOK(y)
    BY <1>1, <1>2 DEF TaskOK, MaxOf, Waiting, Failed, TaskRecord
  <1> QED BY <1>1, <1>3 DEF TaskStep, TaskRecord

(* The two sweeps move records without starting or completing anything. *)
SweepStep(x, y) ==
    /\ TaskStep(x, y)
    /\ y.attemptCount = x.attemptCount
    /\ y.leaseGeneration = x.leaseGeneration
    /\ y.checkpoints = x.checkpoints
    /\ y.state = "absent" <=> x.state = "absent"
    /\ y.state = "succeeded" <=> x.state = "succeeded"

(* Two sweeps in a row do to a record what one sweep may do.               *)
LEMMA SweepTransitive ==
    ASSUME NEW x, NEW y, NEW z, TaskOK(x), SweepStep(x, y)
    PROVE  /\ SweepStep(y, z) => SweepStep(x, z)
           /\ TaskStep(y, z) => TaskStep(x, z)
  <1>1. x \in TaskRecord BY DEF TaskOK
  <1> QED BY <1>1 DEF SweepStep, TaskStep

(* recoverExpiredLeases makes a sweep step of every record.                *)
LEMMA RecoveredSweep ==
    ASSUME NEW x, TaskOK(x)
    PROVE  SweepStep(x, Recovered(x))
  <1>1. x \in TaskRecord BY DEF TaskOK
  <1>2. CASE ~Expired(x)
    BY <1>2, SameStep DEF SweepStep, Recovered
  <1>3. CASE Expired(x)
    <2> DEFINE s == IF x.attemptCount < MaxOf(x) THEN "retry_wait" ELSE "dead_letter"
               c == Cleared(x)
               y == [c EXCEPT !.state = s, !.availableIn = 0]
    <2>1. Recovered(x) = y BY <1>3 DEF Recovered
    <2>2. c \in TaskRecord BY <1>1, ClearedFacts
    <2>3. s \in States BY DEF States, Waiting, Failed
    <2>4. y \in TaskRecord BY <2>2, <2>3 DEF TaskRecord
    <2>5. /\ y.state = s /\ y.leaseToken = 0 /\ y.leaseLeft = -1
          /\ y.request = x.request /\ y.attemptCount = x.attemptCount
          /\ y.leaseGeneration = x.leaseGeneration
          /\ y.checkpoints = x.checkpoints /\ y.result = x.result
      BY <1>1, <2>2, ClearedFacts DEF TaskRecord
    <2>6. x.state = "running" BY <1>3 DEF Expired
    <2> HIDE DEF y, c
    <2>7. y.state \in Waiting => x.attemptCount < MaxOf(x)
      BY <2>5 DEF Waiting
    <2>8. TaskStep(x, y)
      BY <2>4, <2>5, <2>6, <2>7, RestingStep DEF Failed
    <2> QED BY <2>1, <2>5, <2>6, <2>8 DEF SweepStep
  <1> QED BY <1>2, <1>3

(* Cancelling a waiting task is a sweep step.                              *)
LEMMA CancelledSweep ==
    ASSUME NEW x, TaskOK(x), x.state \in Waiting
    PROVE  SweepStep(x, [x EXCEPT !.state = "cancelled"])
  <1> DEFINE y == [x EXCEPT !.state = "cancelled"]
  <1>1. x \in TaskRecord BY DEF TaskOK
  <1>2. y \in TaskRecord BY <1>1 DEF TaskRecord, States, Failed
  <1>3. /\ y.state = "cancelled" /\ y.leaseToken = x.leaseToken
        /\ y.leaseLeft = x.leaseLeft /\ y.request = x.request
        /\ y.attemptCount = x.attemptCount
        /\ y.leaseGeneration = x.leaseGeneration
        /\ y.checkpoints = x.checkpoints /\ y.result = x.result
    BY <1>1 DEF TaskRecord
  <1>4. x.leaseToken = 0 /\ x.leaseLeft = -1 BY DEF TaskOK, Waiting
  <1> HIDE DEF y
  <1>5. TaskStep(x, y)
    BY <1>2, <1>3, <1>4, RestingStep DEF Waiting, Failed
  <1>6. SweepStep(x, y) BY <1>3, <1>5 DEF SweepStep, Waiting
  <1> QED BY <1>6 DEF y

(* The grant of a waiting task is a legal record step.                     *)
LEMMA GrantedStep ==
    ASSUME NEW x, TaskOK(x), x.state \in Waiting
    PROVE  /\ TaskStep(x, Granted(x))
           /\ Granted(x).attemptCount = x.attemptCount + 1
           /\ Granted(x).state = "running"
           /\ Granted(x).leaseGeneration = x.leaseGeneration + 1
  <1> DEFINE y == Granted(x)
  <1>1. x \in TaskRecord BY DEF TaskOK
  <1>2. LeaseTicks \in Int BY QueueAssumption DEF QueueAssumption
  <1>3. y \in TaskRecord
    <2> DEFINE n == x.leaseGeneration + 1
               m == x.attemptCount + 1
               u == [x EXCEPT !.state = "running"]
               z == [u EXCEPT !.attemptCount = m]
               v == [z EXCEPT !.leaseGeneration = n, !.leaseToken = n]
    <2>1. u \in TaskRecord BY <1>1 DEF TaskRecord, States
    <2>2. n \in Nat /\ m \in Nat BY <1>1 DEF TaskRecord
    <2> HIDE DEF n, m
    <2>a. z \in TaskRecord BY <2>1, <2>2 DEF TaskRecord
    <2>3. v \in TaskRecord BY <2>a, <2>2 DEF TaskRecord
    <2>4. [v EXCEPT !.leaseLeft = LeaseTicks] \in TaskRecord
      BY <1>2, <2>3 DEF TaskRecord
    <2>5. y = [v EXCEPT !.leaseLeft = LeaseTicks]
      BY <1>1 DEF Granted, n, m, TaskRecord
    <2> QED BY <2>4, <2>5
  <1>4. /\ y.state = "running" /\ y.leaseToken = x.leaseGeneration + 1
        /\ y.request = x.request /\ y.attemptCount = x.attemptCount + 1
        /\ y.leaseGeneration = x.leaseGeneration + 1
        /\ y.checkpoints = x.checkpoints /\ y.result = x.result
    BY <1>1 DEF Granted, TaskRecord
  <1>5. x.result = 0 BY DEF TaskOK, Waiting
  <1>6. x.attemptCount < MaxOf(x) /\ x.request \in Requests
    BY DEF TaskOK, Waiting
  <1> HIDE DEF y
  <1>7. MaxOf(x) \in Nat BY <1>6, RequestFacts DEF MaxOf
  <1>8. TaskOK(y)
    BY <1>1, <1>3, <1>4, <1>5, <1>6, <1>7 DEF TaskOK, MaxOf, Waiting, TaskRecord
  <1>9. TaskStep(x, y)
    BY <1>1, <1>4, <1>8 DEF TaskStep, Waiting, Failed
  <1> QED BY <1>4, <1>9 DEF y
-----------------------------------------------------------------------------
(* The inductive invariant: the record invariant of every task, the link   *)
(* between a task and its request, and the dependency invariant.           *)
QInv ==
    /\ tasks \in [TaskIds -> TaskRecord]
    /\ \A t \in TaskIds : TaskOK(tasks[t])
    /\ \A t \in Present(tasks) : tasks[t].request.taskId = t
    /\ StartedAfterDependencies

(* What any action does to the queue. *)
QStep ==
    /\ tasks' \in [TaskIds -> TaskRecord]
    /\ \A t \in TaskIds : TaskStep(tasks[t], tasks'[t])
    /\ \A t \in TaskIds :
          tasks[t].state = "absent" =>
             tasks'[t].state = "absent" \/ tasks'[t].request.taskId = t
    /\ \A t \in TaskIds :
          tasks'[t].attemptCount # tasks[t].attemptCount =>
             \A d \in DepsOf(tasks'[t]) : tasks'[d].state = "succeeded"

(* Legal record steps, with starts only after the dependencies succeeded,  *)
(* keep the queue invariant.                                               *)
LEMMA QStepPreserves == ASSUME QInv, QStep PROVE QInv'
  <1>1. \A t \in TaskIds : TaskOK(tasks'[t]) BY DEF QStep, TaskStep
  <1>2. \A t \in TaskIds : tasks'[t].state # "absent" => tasks'[t].request.taskId = t
    BY DEF QInv, QStep, TaskStep, Present
  <1>3. ASSUME NEW t \in TaskIds, tasks'[t].state # "absent",
               tasks'[t].attemptCount > 0, NEW d \in DepsOf(tasks'[t])
        PROVE  tasks'[d].state \in {"succeeded", "superseded"}
    <2>1. CASE tasks'[t].attemptCount # tasks[t].attemptCount
      BY <1>3, <2>1 DEF QStep
    <2>2. CASE tasks'[t].attemptCount = tasks[t].attemptCount
      <3>1. tasks[t].attemptCount > 0 BY <1>3, <2>2
      <3>2. tasks[t].state # "absent"
        BY <3>1 DEF QInv, TaskOK, AbsentTask
      <3>3. tasks'[t].request = tasks[t].request
        BY <3>2 DEF QStep, TaskStep
      <3>4. d \in DepsOf(tasks[t]) BY <1>3, <3>3 DEF DepsOf
      <3>5. tasks[d].state \in {"succeeded", "superseded"}
        BY <3>1, <3>2, <3>4 DEF QInv, StartedAfterDependencies, Present
      <3>6. d \in TaskIds
        BY <3>2, <3>4, RequestFacts DEF QInv, TaskOK, DepsOf
      <3>7. TaskStep(tasks[d], tasks'[d]) BY <3>6 DEF QStep
      <3> QED BY <3>5, <3>7 DEF TaskStep, Failed
    <2> QED BY <2>1, <2>2
  <1>4. StartedAfterDependencies'
    BY <1>3 DEF StartedAfterDependencies, Present
  <1> QED BY <1>1, <1>2, <1>4 DEF QInv, QStep, Present

(* An action that changes one record and starts nothing. *)
LEMMA OneTask ==
    ASSUME QInv, NEW t \in TaskIds, NEW y, TaskStep(tasks[t], y),
           y.attemptCount = tasks[t].attemptCount,
           tasks[t].state = "absent" => y.request.taskId = t,
           tasks' = [tasks EXCEPT ![t] = y]
    PROVE  QStep
  <1>1. y \in TaskRecord BY DEF TaskStep, TaskOK
  <1>2. tasks' \in [TaskIds -> TaskRecord] BY <1>1 DEF QInv
  <1>3. \A u \in TaskIds : u # t => tasks'[u] = tasks[u] BY DEF QInv
  <1>4. tasks'[t] = y BY DEF QInv
  <1>5. \A u \in TaskIds : TaskStep(tasks[u], tasks'[u])
    BY <1>3, <1>4, SameStep DEF QInv
  <1> QED BY <1>2, <1>3, <1>4, <1>5 DEF QStep

(* enqueue makes a legal step of the queue.                                *)
LEMMA EnqueueStep ==
    ASSUME QInv, NEW r \in Requests, Enqueue(r) PROVE QStep
  <1> DEFINE e == Present(tasks)
             q == [AbsentTask EXCEPT !.state = "queued", !.request = r]
             y == [q EXCEPT !.earlier = e, !.availableIn = r.availableIn]
  <1>1. r.taskId \in TaskIds /\ r.availableIn \in Nat
        /\ r.maxAttempts \in Nat /\ 1 <= r.maxAttempts
    BY RequestFacts
  <1>2. AbsentTask \in TaskRecord BY AbsentOK DEF TaskOK
  <1>3. q \in TaskRecord BY <1>2 DEF TaskRecord, States, Waiting
  <1>4. e \in SUBSET TaskIds BY DEF Present
  <1>5. y \in TaskRecord BY <1>1, <1>3, <1>4 DEF TaskRecord
  <1>6. /\ y.state = "queued" /\ y.request = r /\ y.attemptCount = 0
        /\ y.leaseGeneration = 0 /\ y.leaseToken = 0 /\ y.leaseLeft = -1
        /\ y.checkpoints = {} /\ y.result = 0
    BY DEF AbsentTask
  <1>7. tasks' = [tasks EXCEPT ![r.taskId] = y]
    BY DEF Enqueue, AbsentTask
  <1>8. tasks[r.taskId] = AbsentTask BY <1>1 DEF Enqueue, QInv, TaskOK
  <1> HIDE DEF y
  <1>9. TaskOK(y) BY <1>1, <1>5, <1>6 DEF TaskOK, MaxOf
  <1>10. TaskStep(AbsentTask, y) BY <1>6, <1>9 DEF TaskStep, AbsentTask, Failed
  <1>11. /\ TaskStep(tasks[r.taskId], y)
         /\ y.attemptCount = tasks[r.taskId].attemptCount
         /\ y.request.taskId = r.taskId
    BY <1>6, <1>8, <1>10 DEF AbsentTask
  <1> QED BY <1>1, <1>7, <1>11, OneTask

(* Sweeps: every record takes a SweepStep. *)
SweptFrom(ts) ==
    /\ ts \in [TaskIds -> TaskRecord]
    /\ \A t \in TaskIds : SweepStep(tasks[t], ts[t])

(* The recovered queue is a swept one.                                     *)
LEMMA RecoverSwept == ASSUME QInv PROVE SweptFrom(recoverExpiredLeases)
  <1>1. \A t \in TaskIds : SweepStep(tasks[t], Recovered(tasks[t]))
    BY RecoveredSweep DEF QInv
  <1>2. \A t \in TaskIds : Recovered(tasks[t]) \in TaskRecord
    BY <1>1 DEF SweepStep, TaskStep, TaskOK
  <1> QED BY <1>1, <1>2 DEF SweptFrom, recoverExpiredLeases

(* So is the queue after reconcileBlockedDependencies.                     *)
LEMMA BlockedSwept ==
    ASSUME QInv, NEW ts, SweptFrom(ts), NEW C, CancelledBy(ts, C)
    PROVE  SweptFrom(reconcileBlockedDependencies(ts, C))
  <1> DEFINE us == reconcileBlockedDependencies(ts, C)
  <1>1. ASSUME NEW t \in TaskIds PROVE SweepStep(tasks[t], us[t])
    <2>1. TaskOK(tasks[t]) /\ SweepStep(tasks[t], ts[t]) BY DEF QInv, SweptFrom
    <2>2. CASE t \notin C
      BY <2>1, <2>2 DEF reconcileBlockedDependencies
    <2>3. CASE t \in C
      <3>1. ts[t].state \in Waiting BY <2>3 DEF CancelledBy
      <3>2. TaskOK(ts[t]) BY <2>1 DEF SweepStep, TaskStep
      <3>3. SweepStep(ts[t], [ts[t] EXCEPT !.state = "cancelled"])
        BY <3>1, <3>2, CancelledSweep
      <3>4. us[t] = [ts[t] EXCEPT !.state = "cancelled"]
        BY <2>3 DEF reconcileBlockedDependencies
      <3> QED BY <2>1, <3>3, <3>4, SweepTransitive
    <2> QED BY <2>2, <2>3
  <1>2. \A t \in TaskIds : us[t] \in TaskRecord
    BY <1>1 DEF SweepStep, TaskStep, TaskOK
  <1>3. us \in [TaskIds -> TaskRecord]
    BY <1>2 DEF reconcileBlockedDependencies
  <1> QED BY <1>1, <1>3 DEF SweptFrom

(* A swept queue is a legal step: a sweep starts nothing.                  *)
LEMMA SweepIsStep == ASSUME QInv, SweptFrom(tasks') PROVE QStep
  BY DEF QStep, SweptFrom, SweepStep

(* The queue itself is a swept one.                                        *)
LEMMA SameSwept == ASSUME QInv PROVE SweptFrom(tasks)
  BY SameStep DEF SweptFrom, SweepStep, QInv

(* lease, sweeps and grant together, makes a legal step.                   *)
LEMMA LeaseTaskStep ==
    ASSUME QInv, NEW t \in TaskIds, LeaseTask(t) PROVE QStep
  <1>1. PICK C \in SUBSET TaskIds :
            /\ CancelledBy(recoverExpiredLeases, C)
            /\ LET swept == reconcileBlockedDependencies(recoverExpiredLeases, C)
               IN  /\ Leasable(swept, t)
                   /\ tasks' = [swept EXCEPT ![t] = Granted(swept[t])]
    BY DEF LeaseTask
  <1> DEFINE swept == reconcileBlockedDependencies(recoverExpiredLeases, C)
  <1>2. SweptFrom(swept) BY <1>1, RecoverSwept, BlockedSwept
  <1>3. Leasable(swept, t) /\ tasks' = [swept EXCEPT ![t] = Granted(swept[t])]
    BY <1>1
  <1> HIDE DEF swept
  <1>4. TaskOK(tasks[t]) /\ SweepStep(tasks[t], swept[t]) /\ TaskOK(swept[t])
    BY <1>2 DEF SweptFrom, SweepStep, TaskStep, QInv
  <1>5. /\ TaskStep(swept[t], Granted(swept[t]))
        /\ Granted(swept[t]).state = "running"
    BY <1>3, <1>4, GrantedStep DEF Leasable
  <1>6. /\ tasks'[t] = Granted(swept[t])
        /\ \A u \in TaskIds : u # t => tasks'[u] = swept[u]
        /\ tasks' \in [TaskIds -> TaskRecord]
    BY <1>2, <1>3, <1>5 DEF SweptFrom, TaskStep, TaskOK
  <1>7. TaskStep(tasks[t], tasks'[t]) BY <1>4, <1>5, <1>6, SweepTransitive
  <1>8. \A u \in TaskIds : TaskStep(tasks[u], tasks'[u])
    BY <1>2, <1>6, <1>7 DEF SweptFrom, SweepStep
  <1>9. swept[t].state \in Waiting /\ swept[t].request \in Requests
        /\ tasks[t].state # "absent" /\ tasks[t].request = swept[t].request
        /\ tasks'[t].request = swept[t].request
    BY <1>3, <1>4, <1>5, <1>6 DEF Leasable, Waiting, SweepStep, TaskStep, TaskOK
  <1>10. tasks[t].request.taskId = t BY <1>9 DEF QInv, Present
  <1>11. ASSUME NEW d \in DepsOf(tasks'[t]) PROVE tasks'[d].state = "succeeded"
    <2>1. d \in DepsOf(swept[t]) BY <1>9 DEF DepsOf
    <2>2. d \in TaskIds \ {t} BY <1>9, <1>10, <2>1, RequestFacts DEF DepsOf
    <2>3. swept[d].state = "succeeded" BY <1>3, <2>1 DEF Leasable
    <2> QED BY <1>6, <2>2, <2>3
  <1>12. \A u \in TaskIds : u # t => tasks'[u].attemptCount = tasks[u].attemptCount
                                     /\ (tasks[u].state = "absent" => tasks'[u].state = "absent")
    BY <1>2, <1>6 DEF SweptFrom, SweepStep
  <1> QED BY <1>6, <1>8, <1>9, <1>11, <1>12 DEF QStep

(* The calls that only sweep make legal steps.                             *)
LEMMA SweepActions ==
    ASSUME QInv, LeaseNothing \/ RecoverSweep \/ BlockedSweep PROVE QStep
  <1>1. CASE LeaseNothing
    BY <1>1, RecoverSwept, BlockedSwept, SweepIsStep DEF LeaseNothing
  <1>2. CASE RecoverSweep BY <1>2, RecoverSwept, SweepIsStep DEF RecoverSweep
  <1>3. CASE BlockedSweep
    BY <1>3, SameSwept, BlockedSwept, SweepIsStep DEF BlockedSweep
  <1> QED BY <1>1, <1>2, <1>3

(* The actions of a lease holder: the lease is valid, so the task runs. *)
LEMMA ValidLeaseFacts ==
    ASSUME QInv, NEW t \in TaskIds, NEW g \in Nat, ValidLease(t, g)
    PROVE  /\ tasks[t] \in TaskRecord /\ TaskOK(tasks[t])
           /\ tasks[t].state = "running" /\ tasks[t].leaseGeneration = g
           /\ tasks[t].request \in Requests /\ g # 0
           /\ tasks[t].attemptCount = g
  BY DEF ValidLease, QInv, TaskOK

(* boundedBackoff of a held attempt is a delay.                            *)
LEMMA BackoffNat ==
    ASSUME NEW n \in Nat, n # 0 PROVE boundedBackoff(n) \in Nat
  <1>1. CASE n >= 7 BY <1>1 DEF boundedBackoff
  <1>2. CASE n \in 1..6
    <2>1. n = 1 \/ n = 2 \/ n = 3 \/ n = 4 \/ n = 5 \/ n = 6 BY <1>2
    <2> QED BY <2>1 DEF boundedBackoff
  <1> QED BY <1>1, <1>2

(* heartbeat makes a legal step.                                           *)
LEMMA heartbeatStep ==
    ASSUME QInv, NEW t \in TaskIds, NEW g \in Nat, heartbeat(t, g) PROVE QStep
  <1> DEFINE x == tasks[t]
             y == [x EXCEPT !.leaseLeft = LeaseTicks]
  <1>1. /\ x \in TaskRecord /\ TaskOK(x) /\ x.state = "running"
    BY ValidLeaseFacts DEF heartbeat
  <1>2. LeaseTicks \in Int BY QueueAssumption DEF QueueAssumption
  <1>3. y \in TaskRecord BY <1>1, <1>2 DEF TaskRecord
  <1>4. /\ y.state = x.state /\ y.leaseToken = x.leaseToken
        /\ y.request = x.request /\ y.attemptCount = x.attemptCount
        /\ y.leaseGeneration = x.leaseGeneration
        /\ y.checkpoints = x.checkpoints /\ y.result = x.result
    BY <1>1 DEF TaskRecord
  <1>5. tasks' = [tasks EXCEPT ![t] = y] BY DEF heartbeat
  <1> HIDE DEF y
  <1>6. TaskOK(y) BY <1>1, <1>3, <1>4 DEF TaskOK, MaxOf, Waiting
  <1>7. TaskStep(x, y) BY <1>1, <1>4, <1>6 DEF TaskStep, Failed, TaskRecord
  <1> QED BY <1>1, <1>4, <1>5, <1>7, OneTask

(* checkpoint makes a legal step: a valid lease is of the newest           *)
(* generation.                                                             *)
LEMMA checkpointStep ==
    ASSUME QInv, NEW t \in TaskIds, NEW g \in Nat, checkpoint(t, g) PROVE QStep
  <1> DEFINE x == tasks[t]
             c == x.checkpoints \cup {g}
             y == [x EXCEPT !.checkpoints = c]
  <1>1. /\ x \in TaskRecord /\ TaskOK(x) /\ x.state = "running"
        /\ x.leaseGeneration = g /\ g # 0
    BY ValidLeaseFacts DEF checkpoint
  <1>2. c \in SUBSET Nat BY <1>1 DEF TaskRecord
  <1>3. y \in TaskRecord BY <1>1, <1>2 DEF TaskRecord
  <1>4. /\ y.state = x.state /\ y.leaseToken = x.leaseToken
        /\ y.request = x.request /\ y.attemptCount = x.attemptCount
        /\ y.leaseGeneration = g
        /\ y.checkpoints = x.checkpoints \cup {g} /\ y.result = x.result
    BY <1>1 DEF TaskRecord
  <1>5. tasks' = [tasks EXCEPT ![t] = y] BY DEF checkpoint
  <1>6. x.checkpoints \subseteq 1..g BY <1>1 DEF TaskOK
  <1> HIDE DEF y
  <1>7. TaskOK(y) BY <1>1, <1>3, <1>4, <1>6 DEF TaskOK, MaxOf, Waiting
  <1>8. \A n \in y.checkpoints \ x.checkpoints : \A h \in x.checkpoints : h < n
    BY <1>4, <1>6
  <1>9. TaskStep(x, y) BY <1>1, <1>4, <1>7, <1>8 DEF TaskStep, Failed, TaskRecord
  <1> QED BY <1>1, <1>4, <1>5, <1>9, OneTask

(* Every other call ends the running of a task: from the record c (the     *)
(* record with its lease cleared) it sets the state and some other fields. *)
LEMMA EndingStep ==
    ASSUME QInv, NEW t \in TaskIds, NEW y \in TaskRecord,
           tasks[t].state \notin Failed \cup {"absent"},
           y.state \notin {"absent", "running"},
           y.leaseToken = 0, y.leaseLeft = -1,
           y.request = tasks[t].request,
           y.attemptCount = tasks[t].attemptCount,
           y.leaseGeneration = tasks[t].leaseGeneration,
           y.checkpoints = tasks[t].checkpoints,
           tasks[t].state = "succeeded" => y.state \in {"succeeded", "superseded"},
           y.state \in Waiting => tasks[t].attemptCount < MaxOf(tasks[t]),
           \/ y.result = tasks[t].result
           \/ y.state = "succeeded" /\ y.result = tasks[t].leaseGeneration,
           tasks' = [tasks EXCEPT ![t] = y]
    PROVE  QStep
  <1>1. TaskOK(tasks[t]) BY DEF QInv
  <1>2. TaskStep(tasks[t], y) BY <1>1, RestingStep
  <1> QED BY <1>2, OneTask

(* complete makes a legal step: the result is that of the last lease.      *)
LEMMA completeStep ==
    ASSUME QInv, NEW t \in TaskIds, NEW g \in Nat, complete(t, g) PROVE QStep
  <1> DEFINE x == tasks[t]
             c == Cleared(x)
             y == [c EXCEPT !.state = "succeeded", !.result = g]
  <1>1. x \in TaskRecord /\ x.state = "running" /\ x.leaseGeneration = g
    BY ValidLeaseFacts DEF complete
  <1>2. y \in TaskRecord
    <2>1. c \in TaskRecord BY <1>1, ClearedFacts
    <2> HIDE DEF c
    <2>2. [c EXCEPT !.state = "succeeded"] \in TaskRecord BY <2>1 DEF TaskRecord, States
    <2> QED BY <2>2 DEF TaskRecord
  <1>3. /\ y.state = "succeeded" /\ y.leaseToken = 0 /\ y.leaseLeft = -1
        /\ y.request = x.request /\ y.attemptCount = x.attemptCount
        /\ y.leaseGeneration = x.leaseGeneration
        /\ y.checkpoints = x.checkpoints /\ y.result = g
    BY <1>1, ClearedFacts DEF TaskRecord
  <1>4. tasks' = [tasks EXCEPT ![t] = y] BY DEF complete
  <1> HIDE DEF y
  <1> QED BY <1>1, <1>2, <1>3, <1>4, EndingStep DEF Failed, Waiting

(* fail makes a legal step: it retries only with an attempt left.          *)
LEMMA failStep ==
    ASSUME QInv, NEW t \in TaskIds, NEW g \in Nat, NEW b \in BOOLEAN,
           NEW delay \in Nat, fail(t, g, b, delay)
    PROVE  QStep
  <1> DEFINE x == tasks[t]
             c == Cleared(x)
             s == IF b /\ x.attemptCount < MaxOf(x) THEN "retry_wait" ELSE "dead_letter"
             y == [c EXCEPT !.state = s, !.availableIn = delay]
  <1>1. x \in TaskRecord /\ x.state = "running" BY ValidLeaseFacts DEF fail
  <1>2. s \in States /\ s \in {"retry_wait", "dead_letter"}
        /\ (s = "retry_wait" => x.attemptCount < MaxOf(x))
    BY DEF States, Waiting, Failed
  <1>5. tasks' = [tasks EXCEPT ![t] = y] BY DEF fail
  <1> HIDE DEF s
  <1>3. y \in TaskRecord
    <2>1. c \in TaskRecord BY <1>1, ClearedFacts
    <2> HIDE DEF c
    <2>2. [c EXCEPT !.state = s] \in TaskRecord BY <1>2, <2>1 DEF TaskRecord
    <2> QED BY <2>2 DEF TaskRecord
  <1>4. /\ y.state = s /\ y.leaseToken = 0 /\ y.leaseLeft = -1
        /\ y.request = x.request /\ y.attemptCount = x.attemptCount
        /\ y.leaseGeneration = x.leaseGeneration
        /\ y.checkpoints = x.checkpoints /\ y.result = x.result
    BY <1>1, ClearedFacts DEF TaskRecord
  <1> HIDE DEF y
  <1>6. y.state \in Waiting => x.attemptCount < MaxOf(x) BY <1>2, <1>4 DEF Waiting
  <1> QED BY <1>1, <1>2, <1>3, <1>4, <1>5, <1>6, EndingStep DEF Failed

(* markUnknown and recordUnknownObservation make legal steps.              *)
LEMMA ToUnknownStep ==
    ASSUME QInv, NEW t \in TaskIds, NEW h \in Hashes,
           tasks[t].state \in Waiting \cup {"running"},
           tasks' = [tasks EXCEPT ![t] = ToUnknown(tasks[t], h)]
    PROVE  QStep
  <1> DEFINE x == tasks[t]
             c == Cleared(x)
             y == [c EXCEPT !.state = "unknown", !.unknownHash = h]
  <1>1. x \in TaskRecord BY DEF QInv
  <1>2. y \in TaskRecord
    <2>1. c \in TaskRecord BY <1>1, ClearedFacts
    <2> HIDE DEF c
    <2>2. [c EXCEPT !.state = "unknown"] \in TaskRecord BY <2>1 DEF TaskRecord, States
    <2> QED BY <2>2 DEF TaskRecord
  <1>3. /\ y.state = "unknown" /\ y.leaseToken = 0 /\ y.leaseLeft = -1
        /\ y.request = x.request /\ y.attemptCount = x.attemptCount
        /\ y.leaseGeneration = x.leaseGeneration
        /\ y.checkpoints = x.checkpoints /\ y.result = x.result
    BY <1>1, ClearedFacts DEF TaskRecord
  <1>4. tasks' = [tasks EXCEPT ![t] = y] BY DEF ToUnknown
  <1> HIDE DEF y
  <1> QED BY <1>2, <1>3, <1>4, EndingStep DEF Failed, Waiting

(* reconcileUnknown makes a legal step: it retries only with an attempt    *)
(* left.                                                                   *)
LEMMA reconcileUnknownStep ==
    ASSUME QInv, NEW t \in TaskIds, NEW h \in Hashes, NEW o,
           reconcileUnknown(t, h, o)
    PROVE  QStep
  <1> DEFINE x == tasks[t]
             s == IF o = "succeeded" THEN "succeeded"
                  ELSE IF o = "retry" /\ x.attemptCount < MaxOf(x)
                       THEN "retry_wait" ELSE "dead_letter"
             u == [x EXCEPT !.state = s]
             y == [u EXCEPT !.availableIn = 0]
  <1>1. x \in TaskRecord /\ x.state = "unknown" /\ x.leaseToken = 0
        /\ x.leaseLeft = -1
    BY DEF QInv, TaskOK, reconcileUnknown
  <1>2. s \in States /\ s \in {"succeeded", "retry_wait", "dead_letter"}
        /\ (s = "retry_wait" => x.attemptCount < MaxOf(x))
    BY DEF States, Waiting, Failed
  <1>3. tasks' = [tasks EXCEPT ![t] = y]
    BY <1>1 DEF reconcileUnknown, QInv, TaskRecord
  <1> HIDE DEF s
  <1>4. u \in TaskRecord BY <1>1, <1>2 DEF TaskRecord
  <1>5. y \in TaskRecord BY <1>4 DEF TaskRecord
  <1>6. /\ y.state = s /\ y.leaseToken = 0 /\ y.leaseLeft = -1
        /\ y.request = x.request /\ y.attemptCount = x.attemptCount
        /\ y.leaseGeneration = x.leaseGeneration
        /\ y.checkpoints = x.checkpoints /\ y.result = x.result
    BY <1>1 DEF TaskRecord
  <1> HIDE DEF y, u
  <1> QED BY <1>1, <1>2, <1>3, <1>5, <1>6, EndingStep DEF Failed, Waiting

(* Settling a task as cancelled or superseded keeps its record invariant.  *)
LEMMA SettlingRecord ==
    ASSUME NEW x, TaskOK(x), NEW s \in {"cancelled", "superseded"},
           x.state \notin Failed \cup {"absent"},
           x.state = "succeeded" => s = "superseded"
    PROVE  /\ TaskStep(x, [Cleared(x) EXCEPT !.state = s])
           /\ [Cleared(x) EXCEPT !.state = s].attemptCount = x.attemptCount
  <1> DEFINE c == Cleared(x)
             y == [c EXCEPT !.state = s]
  <1>1. x \in TaskRecord BY DEF TaskOK
  <1>2. y \in TaskRecord BY <1>1, ClearedFacts DEF TaskRecord, States, Failed
  <1>3. /\ y.state = s /\ y.leaseToken = 0 /\ y.leaseLeft = -1
        /\ y.request = x.request /\ y.attemptCount = x.attemptCount
        /\ y.leaseGeneration = x.leaseGeneration
        /\ y.checkpoints = x.checkpoints /\ y.result = x.result
    BY <1>1, ClearedFacts DEF TaskRecord
  <1> HIDE DEF y
  <1>4. TaskStep(x, y) BY <1>2, <1>3, RestingStep DEF Failed, Waiting
  <1> QED BY <1>3, <1>4 DEF y

(* cancel makes a legal step.                                              *)
LEMMA cancelStep ==
    ASSUME QInv, NEW t \in TaskIds, cancel(t) PROVE QStep
  <1> DEFINE y == [Cleared(tasks[t]) EXCEPT !.state = "cancelled"]
  <1>1. /\ TaskOK(tasks[t]) /\ tasks' = [tasks EXCEPT ![t] = y]
        /\ tasks[t].state \notin Failed \cup {"absent", "succeeded"}
    BY DEF cancel, QInv
  <1>2. TaskStep(tasks[t], y) /\ y.attemptCount = tasks[t].attemptCount
    BY <1>1, SettlingRecord
  <1> HIDE DEF y
  <1> QED BY <1>1, <1>2, OneTask

(* supersedePacket makes a legal step of every record at once.             *)
LEMMA supersedeStep ==
    ASSUME QInv, NEW p, NEW n, supersedePacket(p, n) PROVE QStep
  <1> DEFINE Old(t) == /\ tasks[t].state \notin Failed \cup {"absent"}
                       /\ tasks[t].request.packetId = p
                       /\ tasks[t].request.packetRevision < n
             F(t) == IF Old(t) THEN [Cleared(tasks[t]) EXCEPT !.state = "superseded"]
                     ELSE tasks[t]
  <1>1. tasks' = [t \in TaskIds |-> F(t)] BY DEF supersedePacket
  <1>2. ASSUME NEW t \in TaskIds
        PROVE  /\ TaskStep(tasks[t], F(t))
               /\ F(t).attemptCount = tasks[t].attemptCount
               /\ tasks[t].state = "absent" => F(t).state = "absent"
    <2>1. TaskOK(tasks[t]) BY DEF QInv
    <2>2. CASE Old(t)
      <3>1. F(t) = [Cleared(tasks[t]) EXCEPT !.state = "superseded"] BY <2>2
      <3>2. tasks[t].state \notin Failed \cup {"absent"} BY <2>2
      <3> QED BY <2>1, <3>1, <3>2, SettlingRecord
    <2>3. CASE ~Old(t) BY <2>1, <2>3, SameStep
    <2> QED BY <2>2, <2>3
  <1> HIDE DEF F
  <1>3. \A t \in TaskIds : F(t) \in TaskRecord BY <1>2 DEF TaskStep, TaskOK
  <1> QED BY <1>1, <1>2, <1>3 DEF QStep

(* The passing of time makes a legal step.                                 *)
LEMMA TickStep == ASSUME QInv, Tick PROVE QStep
  <1> DEFINE L(t) == IF tasks[t].leaseLeft >= 0 THEN tasks[t].leaseLeft - 1
                     ELSE tasks[t].leaseLeft
             A(t) == IF tasks[t].availableIn > 0 THEN tasks[t].availableIn - 1
                     ELSE tasks[t].availableIn
             u(t) == [tasks[t] EXCEPT !.leaseLeft = L(t)]
             F(t) == [u(t) EXCEPT !.availableIn = A(t)]
  <1>1. ASSUME NEW t \in TaskIds
        PROVE  /\ TaskStep(tasks[t], F(t))
               /\ F(t).attemptCount = tasks[t].attemptCount
               /\ tasks[t].state = "absent" => F(t).state = "absent"
    <2>1. TaskOK(tasks[t]) /\ tasks[t] \in TaskRecord BY DEF QInv
    <2>2. L(t) \in Int /\ A(t) \in Nat BY <2>1 DEF TaskRecord
    <2>3. /\ tasks[t].leaseLeft = -1 => L(t) = -1
          /\ tasks[t].availableIn = 0 => A(t) = 0
      OBVIOUS
    <2> HIDE DEF L, A
    <2>4. u(t) \in TaskRecord BY <2>1, <2>2 DEF TaskRecord
    <2>5. F(t) \in TaskRecord BY <2>2, <2>4 DEF TaskRecord
    <2>6. /\ F(t).state = tasks[t].state /\ F(t).leaseToken = tasks[t].leaseToken
          /\ F(t).leaseLeft = L(t) /\ F(t).request = tasks[t].request
          /\ F(t).attemptCount = tasks[t].attemptCount
          /\ F(t).leaseGeneration = tasks[t].leaseGeneration
          /\ F(t).checkpoints = tasks[t].checkpoints
          /\ F(t).result = tasks[t].result
      BY <2>1 DEF TaskRecord
    <2>7. tasks[t] = AbsentTask => F(t) = AbsentTask
      <3> SUFFICES ASSUME tasks[t] = AbsentTask PROVE F(t) = AbsentTask OBVIOUS
      <3>1. L(t) = -1 /\ A(t) = 0 BY <2>3 DEF AbsentTask
      <3>2. u(t) = AbsentTask BY <3>1 DEF AbsentTask
      <3>3. F(t) = [AbsentTask EXCEPT !.availableIn = 0] BY <3>1, <3>2
      <3> QED BY <3>3 DEF AbsentTask
    <2> HIDE DEF F, u
    <2>8. TaskOK(F(t))
      BY <2>1, <2>3, <2>5, <2>6, <2>7 DEF TaskOK, MaxOf
    <2> QED BY <2>1, <2>6, <2>8 DEF TaskStep, TaskRecord
  <1>2. tasks' = [t \in TaskIds |-> F(t)] BY DEF Tick, QInv, TaskRecord
  <1> HIDE DEF F
  <1>3. \A t \in TaskIds : F(t) \in TaskRecord BY <1>1 DEF TaskStep, TaskOK
  <1> QED BY <1>1, <1>2, <1>3 DEF QStep
-----------------------------------------------------------------------------
(* Every call under a lease, current or stale, makes a legal step.         *)
LEMMA LeaseCommandStep ==
    ASSUME QInv, NEW t \in TaskIds, NEW g \in 1..tasks[t].leaseGeneration,
           LeaseCommand(t, g)
    PROVE  QStep
  <1>1. g \in Nat BY DEF QInv, TaskRecord
  <1>2. CASE heartbeat(t, g) BY <1>1, <1>2, heartbeatStep
  <1>3. CASE checkpoint(t, g) BY <1>1, <1>3, checkpointStep
  <1>4. CASE complete(t, g) BY <1>1, <1>4, completeStep
  <1>5. ASSUME NEW b \in BOOLEAN,
               NEW delay \in RetryDelays \cup {boundedBackoff(tasks[t].attemptCount)},
               fail(t, g, b, delay)
        PROVE  QStep
    <2>1. tasks[t].attemptCount \in Nat /\ tasks[t].attemptCount # 0
      BY <1>1, <1>5, ValidLeaseFacts DEF fail
    <2>2. delay \in Nat
      BY <2>1, BackoffNat, QueueAssumption DEF QueueAssumption
    <2> QED BY <1>1, <1>5, <2>2, failStep
  <1>6. ASSUME NEW h \in Hashes, markUnknown(t, g, h) PROVE QStep
    BY <1>6, ToUnknownStep DEF markUnknown, ValidLease
  <1> QED BY <1>2, <1>3, <1>4, <1>5, <1>6 DEF LeaseCommand

(* So does every step of the queue.                                        *)
LEMMA NextStep == ASSUME QInv, Next PROVE QStep
  <1>1. ASSUME NEW r \in Requests, Enqueue(r) PROVE QStep BY <1>1, EnqueueStep
  <1>2. ASSUME NEW t \in TaskIds, LeaseTask(t) PROVE QStep BY <1>2, LeaseTaskStep
  <1>3. CASE LeaseNothing \/ RecoverSweep \/ BlockedSweep BY <1>3, SweepActions
  <1>4. ASSUME NEW t \in TaskIds, NEW g \in 1..tasks[t].leaseGeneration,
               LeaseCommand(t, g)
        PROVE  QStep
    BY <1>4, LeaseCommandStep
  <1>5. ASSUME NEW t \in TaskIds, NEW h \in Hashes, recordUnknownObservation(t, h)
        PROVE  QStep
    BY <1>5, ToUnknownStep DEF recordUnknownObservation
  <1>6. ASSUME NEW t \in TaskIds, NEW h \in Hashes, NEW o, reconcileUnknown(t, h, o)
        PROVE  QStep
    BY <1>6, reconcileUnknownStep
  <1>7. ASSUME NEW p, NEW n, supersedePacket(p, n) PROVE QStep
    BY <1>7, supersedeStep
  <1>8. ASSUME NEW t \in TaskIds, cancel(t) PROVE QStep BY <1>8, cancelStep
  <1>9. CASE Tick BY <1>9, TickStep
  <1> QED BY <1>1, <1>2, <1>3, <1>4, <1>5, <1>6, <1>7, <1>8, <1>9 DEF Next

(* The empty queue satisfies the invariant.                                *)
LEMMA InitQInv == Init => QInv
  <1> SUFFICES ASSUME Init PROVE QInv OBVIOUS
  <1>1. \A t \in TaskIds : tasks[t] = AbsentTask BY DEF Init
  <1>2. AbsentTask \in TaskRecord BY AbsentOK DEF TaskOK
  <1>3. AbsentTask.state = "absent" BY DEF AbsentTask
  <1> QED BY <1>1, <1>2, <1>3, AbsentOK
          DEF Init, QInv, Present, StartedAfterDependencies

(* Every reachable queue satisfies the inductive invariant. *)
THEOREM QueueInvariant == Spec => []QInv
  <1>1. QInv /\ [Next]_vars => QInv'
    <2> SUFFICES ASSUME QInv, [Next]_vars PROVE QInv' OBVIOUS
    <2>1. CASE Next BY <2>1, NextStep, QStepPreserves
    <2>2. CASE UNCHANGED vars
      BY <2>2 DEF vars, QInv, StartedAfterDependencies, Present
    <2> QED BY <2>1, <2>2
  <1> QED BY <1>1, InitQInv, PTL DEF Spec

(* The task map always holds well-formed task records, with attempts,      *)
(* generations and delays that never leave their types.                    *)
THEOREM TypeCorrect == Spec => []TypeOK
  <1>1. QInv => TypeOK BY DEF QInv, TypeOK
  <1> QED BY <1>1, QueueInvariant, PTL

(* Exactly the running tasks hold a lease, and it is the newest one:       *)
(* nothing that ends a run leaves a lease behind.                          *)
THEOREM LeaseSafety == Spec => []LeaseIffRunning
  <1>1. QInv => LeaseIffRunning BY DEF QInv, TaskOK, LeaseIffRunning
  <1> QED BY <1>1, QueueInvariant, PTL

(* The attempts of a task stay within maxAttempts and a waiting task has   *)
(* one left.                                                               *)
THEOREM BudgetSafety == Spec => []AttemptBudget
  <1>1. QInv => AttemptBudget BY DEF QInv, TaskOK, AttemptBudget, Present
  <1> QED BY <1>1, QueueInvariant, PTL

(* No task was ever started before everything it depends on succeeded.     *)
THEOREM DependencySafety == Spec => []StartedAfterDependencies
  <1>1. QInv => StartedAfterDependencies BY DEF QInv
  <1> QED BY <1>1, QueueInvariant, PTL

(* The result of a task is recorded once, by the last lease granted.       *)
THEOREM ResultSafety == Spec => []ResultOfLastLease
  <1>1. QInv => ResultOfLastLease BY DEF QInv, TaskOK, ResultOfLastLease
  <1> QED BY <1>1, QueueInvariant, PTL

(* Leases, attempts, dependencies and results of a task fit together.      *)
THEOREM TaskSoundness == Spec => []TasksAreSound
  <1> QED
    BY LeaseSafety, BudgetSafety, DependencySafety, ResultSafety, PTL DEF TasksAreSound

(* A stale worker never checkpoints after a newer one did.                 *)
THEOREM CheckpointFencing == Spec => FencedCheckpoints
  <1>1. QInv /\ [Next]_vars =>
          [\A t \in TaskIds :
              \A g \in tasks'[t].checkpoints \ tasks[t].checkpoints :
                 \A h \in tasks[t].checkpoints : h < g]_vars
    BY NextStep DEF QStep, TaskStep
  <1> QED BY <1>1, QueueInvariant, PTL DEF Spec, FencedCheckpoints

(* A settled task stays settled.                                           *)
THEOREM Settlement == Spec => SettledForever
  <1>1. QInv /\ [Next]_vars =>
          [\A t \in TaskIds :
              /\ tasks[t].state \in Failed => tasks'[t].state = tasks[t].state
              /\ tasks[t].state = "succeeded" =>
                    tasks'[t].state \in {"succeeded", "superseded"}]_vars
    BY NextStep DEF QStep, TaskStep
  <1> QED BY <1>1, QueueInvariant, PTL DEF Spec, SettledForever

-----------------------------------------------------------------------------
(* TaskQueue implements TaskContract.  Of a record the contract sees its   *)
(* phase, its generation and its limit; the argument is made on those      *)
(* three and then lifted to the queue.                                     *)

LimitOf(x) == IF x.state = "absent" THEN 0 ELSE MaxOf(x)

(* What the contract sees when record x becomes y in phase p. *)
Turns(x, y, p) ==
    /\ PhaseOf(y.state) = p
    /\ y.leaseGeneration = x.leaseGeneration
    /\ LimitOf(y) = LimitOf(x)

Stays(x, y) == Turns(x, y, PhaseOf(x.state))

Releases(x, y) ==
    /\ PhaseOf(x.state) \in {"held", "unknown"}
    /\ x.leaseGeneration < LimitOf(x)
    /\ Turns(x, y, "pending")

Voids(x, y) == PhaseOf(x.state) \notin {"absent", "void"} /\ Turns(x, y, "void")

Swept(x, y) == Stays(x, y) \/ Releases(x, y) \/ Voids(x, y)

(* The contract's steps of task t are these, of its record.                *)
LEMMA View ==
    ASSUME NEW t \in TaskIds
    PROVE  /\ Stays(tasks[t], tasks'[t]) => Contract!Same(t)
           /\ Releases(tasks[t], tasks'[t]) => Contract!ReleaseStep(t)
           /\ Voids(tasks[t], tasks'[t]) => Contract!VoidStep(t)
           /\ \A p : Turns(tasks[t], tasks'[t], p) => Contract!Becomes(t, p)
  BY DEF Stays, Releases, Voids, Turns, LimitOf, Contract!Same,
         Contract!ReleaseStep, Contract!VoidStep, Contract!Becomes

(* A sweep of every record is a sweep of the contract.                     *)
LEMMA SweepView ==
    ASSUME NEW U \in SUBSET TaskIds, \A u \in U : Swept(tasks[u], tasks'[u])
    PROVE  Contract!Sweep(U)
  BY View DEF Swept, Contract!Sweep

(* An unchanged record stays. *)
LEMMA Unchanged == ASSUME NEW x PROVE Stays(x, x)
  BY DEF Stays, Turns

(* The phase of every state. *)
LEMMA Phases ==
    ASSUME NEW s
    PROVE  /\ s \in Waiting => PhaseOf(s) = "pending"
           /\ s \in Failed => PhaseOf(s) = "void"
           /\ s = "running" => PhaseOf(s) = "held"
           /\ s = "succeeded" => PhaseOf(s) = "done"
           /\ s = "unknown" => PhaseOf(s) = "unknown"
           /\ s = "absent" => PhaseOf(s) = "absent"
  BY DEF PhaseOf, Waiting, Failed

(* A record that keeps its request and generation turns to the phase of    *)
(* its new state.                                                          *)
LEMMA Turning ==
    ASSUME NEW x, NEW y, x.state # "absent", y.state # "absent",
           y.request = x.request, y.leaseGeneration = x.leaseGeneration
    PROVE  Turns(x, y, PhaseOf(y.state))
  BY DEF Turns, LimitOf, MaxOf

(* recoverExpiredLeases keeps, releases or voids each record.              *)
LEMMA RecoveredView ==
    ASSUME NEW x, TaskOK(x)
    PROVE  /\ Swept(x, Recovered(x))
           /\ Recovered(x).state \in Waiting => x.state \in Waiting \cup {"running"}
  <1>1. CASE ~Expired(x)
    BY <1>1, Unchanged DEF Recovered, Swept
  <1>2. CASE Expired(x)
    <2> DEFINE y == Recovered(x)
               s == IF x.attemptCount < MaxOf(x) THEN "retry_wait" ELSE "dead_letter"
               c == Cleared(x)
    <2>1. x \in TaskRecord /\ x.state = "running" /\ x.attemptCount = x.leaseGeneration
      BY <1>2 DEF TaskOK, Expired
    <2>2. c \in TaskRecord /\ c.request = x.request /\ c.leaseGeneration = x.leaseGeneration
      BY <2>1, ClearedFacts
    <2>3. y = [c EXCEPT !.state = s, !.availableIn = 0] BY <1>2 DEF Recovered
    <2> HIDE DEF c, y, s
    <2>4. y.state = s /\ y.request = x.request /\ y.leaseGeneration = x.leaseGeneration
      BY <2>2, <2>3 DEF TaskRecord
    <2>5. s \in {"retry_wait", "dead_letter"} /\ (s = "retry_wait" => x.attemptCount < MaxOf(x))
      BY DEF s
    <2>6. Turns(x, y, PhaseOf(s)) BY <2>1, <2>4, <2>5, Turning
    <2>7. PhaseOf(x.state) = "held" BY <2>1, Phases
    <2>8. CASE s = "retry_wait"
      <3>1. PhaseOf(s) = "pending" BY <2>8, Phases DEF Waiting
      <3>2. x.leaseGeneration < LimitOf(x) BY <2>1, <2>5, <2>8 DEF LimitOf
      <3>3. Releases(x, y) BY <2>6, <2>7, <3>1, <3>2 DEF Releases
      <3> QED BY <2>1, <3>3 DEF Swept, y
    <2>9. CASE s = "dead_letter"
      <3>1. PhaseOf(s) = "void" BY <2>9, Phases DEF Failed
      <3>2. Voids(x, y) BY <2>6, <2>7, <3>1 DEF Voids
      <3> QED BY <2>1, <3>2 DEF Swept, y
    <2> QED BY <2>5, <2>8, <2>9
  <1> QED BY <1>1, <1>2

(* A sweep of ts, seen by the contract.                                    *)
SeenSwept(ts) ==
    \A t \in TaskIds :
        /\ Swept(tasks[t], ts[t])
        /\ ts[t].state \in Waiting => tasks[t].state \in Waiting \cup {"running"}

(* recoverExpiredLeases is a sweep of the contract. *)
LEMMA RecoverSeen == ASSUME QInv PROVE SeenSwept(recoverExpiredLeases)
  BY RecoveredView DEF SeenSwept, recoverExpiredLeases, QInv

(* So is the queue as it stands. *)
LEMMA SameSeen == ASSUME QInv PROVE SeenSwept(tasks)
  BY Unchanged DEF SeenSwept, Swept

(* Cancelling blocked tasks after a sweep is still one sweep.              *)
LEMMA BlockedSeen ==
    ASSUME QInv, NEW ts, SweptFrom(ts), SeenSwept(ts), NEW C, CancelledBy(ts, C)
    PROVE  SeenSwept(reconcileBlockedDependencies(ts, C))
  <1> DEFINE us == reconcileBlockedDependencies(ts, C)
  <1> SUFFICES ASSUME NEW t \in TaskIds
               PROVE  /\ Swept(tasks[t], us[t])
                      /\ us[t].state \in Waiting => tasks[t].state \in Waiting \cup {"running"}
    BY DEF SeenSwept
  <1>1. CASE t \notin C
    BY <1>1 DEF SeenSwept, reconcileBlockedDependencies
  <1>2. CASE t \in C
    <2> DEFINE x == tasks[t]
               y == ts[t]
               z == us[t]
    <2>1. z = [y EXCEPT !.state = "cancelled"] BY <1>2 DEF reconcileBlockedDependencies
    <2>2. y \in TaskRecord /\ SweepStep(x, y) BY DEF SweptFrom
    <2>3. y.state \in Waiting BY <1>2 DEF CancelledBy
    <2>4. x.state \in Waiting \cup {"running"} BY <2>3 DEF SeenSwept
    <2>5. x.state # "absent" BY <2>4 DEF Waiting
    <2>6. y.request = x.request /\ y.leaseGeneration = x.leaseGeneration
      BY <2>2, <2>5 DEF SweepStep, TaskStep
    <2> HIDE DEF x, y, z
    <2>7. z.state = "cancelled" /\ z.request = x.request
          /\ z.leaseGeneration = x.leaseGeneration
      BY <2>1, <2>2, <2>6 DEF TaskRecord
    <2>8. Turns(x, z, PhaseOf("cancelled")) BY <2>5, <2>7, Turning
    <2>9. PhaseOf("cancelled") = "void" /\ PhaseOf(x.state) \in {"pending", "held"}
      BY <2>4, Phases DEF Failed
    <2>10. Voids(x, z) BY <2>8, <2>9 DEF Voids
    <2>11. z.state \notin Waiting BY <2>7 DEF Waiting
    <2> QED BY <2>10, <2>11 DEF Swept, z, x
  <1> QED BY <1>1, <1>2

(* The calls that only sweep are sweeps of the contract.                   *)
LEMMA SweepsSeen ==
    ASSUME QInv, LeaseNothing \/ RecoverSweep \/ BlockedSweep
    PROVE  Contract!CNext
  <1>1. SeenSwept(tasks')
    <2>1. CASE LeaseNothing
      BY <2>1, RecoverSwept, RecoverSeen, BlockedSeen DEF LeaseNothing
    <2>2. CASE RecoverSweep BY <2>2, RecoverSeen DEF RecoverSweep
    <2>3. CASE BlockedSweep
      BY <2>3, SameSwept, SameSeen, BlockedSeen DEF BlockedSweep
    <2> QED BY <2>1, <2>2, <2>3
  <1>2. Contract!Sweep(TaskIds) BY <1>1, SweepView DEF SeenSwept
  <1> QED BY <1>2 DEF Contract!CNext

(* lease with a grant: one grant, and a sweep of the other tasks.          *)
LEMMA LeaseSeen ==
    ASSUME QInv, NEW t \in TaskIds, LeaseTask(t)
    PROVE  Contract!CNext
  <1>1. PICK C \in SUBSET TaskIds :
            /\ CancelledBy(recoverExpiredLeases, C)
            /\ LET swept == reconcileBlockedDependencies(recoverExpiredLeases, C)
               IN  /\ Leasable(swept, t)
                   /\ tasks' = [swept EXCEPT ![t] = Granted(swept[t])]
    BY DEF LeaseTask
  <1> DEFINE swept == reconcileBlockedDependencies(recoverExpiredLeases, C)
             x == tasks[t]
             y == swept[t]
  <1>2. SweptFrom(swept) /\ SeenSwept(swept)
    BY <1>1, RecoverSwept, RecoverSeen, BlockedSwept, BlockedSeen
  <1>3. Leasable(swept, t) /\ tasks' = [swept EXCEPT ![t] = Granted(swept[t])]
    BY <1>1
  <1> HIDE DEF swept
  <1>4. y.state \in Waiting /\ y.attemptCount < MaxOf(y)
        /\ SweepStep(x, y) /\ TaskOK(y) /\ y \in TaskRecord
    BY <1>2, <1>3 DEF Leasable, SweptFrom, SweepStep, TaskStep
  <1>5. x.state \in Waiting \cup {"running"} /\ x.state # "absent"
    BY <1>2, <1>4 DEF SeenSwept, Waiting
  <1>6. y.request = x.request /\ y.leaseGeneration = x.leaseGeneration
        /\ y.attemptCount = y.leaseGeneration
    BY <1>4, <1>5 DEF SweepStep, TaskStep, TaskOK
  <1>7. /\ tasks'[t] = Granted(y)
        /\ \A u \in TaskIds : u # t => tasks'[u] = swept[u]
    BY <1>2, <1>3 DEF SweptFrom
  <1>8. /\ Granted(y).state = "running" /\ Granted(y).request = y.request
        /\ Granted(y).leaseGeneration = y.leaseGeneration + 1
    BY <1>4 DEF Granted, TaskRecord
  <1>9. PhaseOf(x.state) \in {"pending", "held"} /\ PhaseOf("running") = "held"
    BY <1>5, Phases
  <1>10. LimitOf(x) = MaxOf(x) /\ LimitOf(tasks'[t]) = MaxOf(x)
    BY <1>5, <1>6, <1>7, <1>8 DEF LimitOf, MaxOf
  <1>11. /\ x.leaseGeneration < LimitOf(x)
         /\ tasks'[t].leaseGeneration = x.leaseGeneration + 1
         /\ PhaseOf(tasks'[t].state) = "held"
         /\ LimitOf(tasks'[t]) = LimitOf(x)
    BY <1>4, <1>6, <1>7, <1>8, <1>9, <1>10 DEF MaxOf
  <1>12. Contract!GrantStep(t)
    BY <1>9, <1>11 DEF Contract!GrantStep, LimitOf
  <1>13. \A u \in TaskIds \ {t} : Swept(tasks[u], tasks'[u])
    BY <1>2, <1>7 DEF SeenSwept
  <1>14. Contract!Sweep(TaskIds \ {t}) BY <1>13, SweepView
  <1> QED BY <1>12, <1>14 DEF Contract!CNext
-----------------------------------------------------------------------------
(* A call that changes one record, as the contract sees it. *)
LEMMA OneSeen ==
    ASSUME QInv, NEW t \in TaskIds, NEW y, tasks' = [tasks EXCEPT ![t] = y],
           \/ Swept(tasks[t], y)
           \/ PhaseOf(tasks[t].state) \in {"held", "unknown"} /\ Turns(tasks[t], y, "done")
           \/ PhaseOf(tasks[t].state) \in {"pending", "held"} /\ Turns(tasks[t], y, "unknown")
    PROVE  Contract!CNext
  <1>1. tasks'[t] = y /\ \A u \in TaskIds : u # t => tasks'[u] = tasks[u]
    BY DEF QInv
  <1>2. \A u \in TaskIds \ {t} : Stays(tasks[u], tasks'[u]) BY <1>1, Unchanged
  <1>3. \A u \in TaskIds \ {t} : Contract!Same(u) BY <1>2, View
  <1>4. CASE Swept(tasks[t], y)
    <2>1. \A u \in TaskIds : Swept(tasks[u], tasks'[u]) BY <1>1, <1>2, <1>4 DEF Swept
    <2>2. Contract!Sweep(TaskIds) BY <2>1, SweepView
    <2> QED BY <2>2 DEF Contract!CNext
  <1>5. CASE PhaseOf(tasks[t].state) \in {"held", "unknown"} /\ Turns(tasks[t], y, "done")
    <2>1. Contract!Becomes(t, "done") BY <1>1, <1>5, View
    <2>2. Contract!DoneStep(t) BY <1>5, <2>1 DEF Contract!DoneStep
    <2> QED BY <1>3, <2>2 DEF Contract!CNext
  <1>6. CASE PhaseOf(tasks[t].state) \in {"pending", "held"} /\ Turns(tasks[t], y, "unknown")
    <2>1. Contract!Becomes(t, "unknown") BY <1>1, <1>6, View
    <2>2. Contract!UnknownStep(t) BY <1>6, <2>1 DEF Contract!UnknownStep
    <2> QED BY <1>3, <2>2 DEF Contract!CNext
  <1> QED BY <1>4, <1>5, <1>6

(* enqueue accepts a task. *)
LEMMA EnqueueSeen ==
    ASSUME QInv, NEW r \in Requests, Enqueue(r) PROVE Contract!CNext
  <1> DEFINE t == r.taskId
  <1>1. t \in TaskIds /\ r.maxAttempts \in 1..100 BY RequestFacts
  <1>2. tasks[t] = AbsentTask /\ tasks[t].state = "absent"
    BY <1>1 DEF Enqueue, QInv, TaskOK
  <1>3. /\ tasks'[t].state = "queued" /\ tasks'[t].request = r
        /\ tasks'[t].leaseGeneration = 0
        /\ \A u \in TaskIds : u # t => tasks'[u] = tasks[u]
    BY <1>1 DEF Enqueue, QInv, AbsentTask
  <1>4. PhaseOf("absent") = "absent" /\ PhaseOf("queued") = "pending"
    BY Phases DEF Waiting
  <1>5. LimitOf(tasks'[t]) \in 1..100 BY <1>1, <1>3 DEF LimitOf, MaxOf
  <1> HIDE DEF t
  <1>6. Contract!AcceptStep(t)
    BY <1>1, <1>2, <1>3, <1>4, <1>5 DEF Contract!AcceptStep, LimitOf
  <1>7. \A u \in TaskIds \ {t} : Contract!Same(u) BY <1>3, Unchanged, View
  <1> QED BY <1>1, <1>6, <1>7 DEF Contract!CNext

(* A record that ends with its lease cleared.                              *)
LEMMA ClearedTo ==
    ASSUME NEW x \in TaskRecord, x.state # "absent", NEW s, s # "absent",
           NEW y, y.state = s, y.request = Cleared(x).request,
           y.leaseGeneration = Cleared(x).leaseGeneration
    PROVE  Turns(x, y, PhaseOf(s))
  BY ClearedFacts, Turning

(* A lease holder's call: progress, success, failure or an unknown outcome.*)
LEMMA LeaseCommandSeen ==
    ASSUME QInv, NEW t \in TaskIds, NEW g \in 1..tasks[t].leaseGeneration,
           LeaseCommand(t, g)
    PROVE  Contract!CNext
  <1> DEFINE x == tasks[t]
             c == Cleared(x)
  <1>0. g \in Nat BY DEF QInv, TaskRecord
  <1>1. ValidLease(t, g) BY DEF LeaseCommand, heartbeat, checkpoint, complete, fail, markUnknown
  <1>2. /\ x \in TaskRecord /\ x.state = "running"
        /\ x.attemptCount = x.leaseGeneration
    BY <1>0, <1>1, ValidLeaseFacts
  <1>3. PhaseOf(x.state) = "held" BY <1>2, Phases
  <1>4. c \in TaskRecord BY <1>2, ClearedFacts
  <1> HIDE DEF c
  <1>5. CASE heartbeat(t, g) \/ checkpoint(t, g)
    <2> DEFINE y == IF heartbeat(t, g) THEN [x EXCEPT !.leaseLeft = LeaseTicks]
                    ELSE [x EXCEPT !.checkpoints = x.checkpoints \cup {g}]
    <2>1. tasks' = [tasks EXCEPT ![t] = y] BY <1>5 DEF heartbeat, checkpoint
    <2>2. /\ y.state = x.state /\ y.request = x.request
          /\ y.leaseGeneration = x.leaseGeneration
      BY <1>2 DEF TaskRecord
    <2> HIDE DEF y
    <2>3. Stays(x, y) BY <1>2, <2>2, Turning DEF Stays
    <2> QED BY <2>1, <2>3, OneSeen DEF Swept
  <1>6. CASE complete(t, g)
    <2> DEFINE y == [c EXCEPT !.state = "succeeded", !.result = g]
    <2>1. tasks' = [tasks EXCEPT ![t] = y] BY <1>6 DEF complete, c
    <2>2. y.state = "succeeded" /\ y.request = c.request
          /\ y.leaseGeneration = c.leaseGeneration
      BY <1>4 DEF TaskRecord
    <2> HIDE DEF y
    <2>3. Turns(x, y, PhaseOf("succeeded")) BY <1>2, <2>2, ClearedTo DEF c
    <2>4. Turns(x, y, "done") BY <2>3, Phases
    <2> QED BY <1>3, <2>1, <2>4, OneSeen
  <1>7. ASSUME NEW b \in BOOLEAN, NEW delay, fail(t, g, b, delay) PROVE Contract!CNext
    <2> DEFINE s == IF b /\ x.attemptCount < MaxOf(x) THEN "retry_wait" ELSE "dead_letter"
               y == [c EXCEPT !.state = s, !.availableIn = delay]
    <2>1. tasks' = [tasks EXCEPT ![t] = y] BY <1>7 DEF fail, c
    <2>2. s \in {"retry_wait", "dead_letter"} /\ (s = "retry_wait" => x.attemptCount < MaxOf(x))
      OBVIOUS
    <2> HIDE DEF s
    <2>3. y.state = s /\ y.request = c.request /\ y.leaseGeneration = c.leaseGeneration
      BY <1>4 DEF TaskRecord
    <2> HIDE DEF y
    <2>4. Turns(x, y, PhaseOf(s)) BY <1>2, <2>2, <2>3, ClearedTo DEF c
    <2>5. CASE s = "retry_wait"
      <3>1. PhaseOf(s) = "pending" BY <2>5, Phases DEF Waiting
      <3>2. x.leaseGeneration < LimitOf(x) BY <1>2, <2>2, <2>5 DEF LimitOf
      <3>3. Releases(x, y) BY <1>3, <2>4, <3>1, <3>2 DEF Releases
      <3> QED BY <2>1, <3>3, OneSeen DEF Swept
    <2>6. CASE s = "dead_letter"
      <3>1. PhaseOf(s) = "void" BY <2>6, Phases DEF Failed
      <3>2. Voids(x, y) BY <1>3, <2>4, <3>1 DEF Voids
      <3> QED BY <2>1, <3>2, OneSeen DEF Swept
    <2> QED BY <2>2, <2>5, <2>6
  <1>8. ASSUME NEW h \in Hashes, markUnknown(t, g, h) PROVE Contract!CNext
    <2> DEFINE y == [c EXCEPT !.state = "unknown", !.unknownHash = h]
    <2>1. tasks' = [tasks EXCEPT ![t] = y] BY <1>8 DEF markUnknown, ToUnknown, c
    <2>2. y.state = "unknown" /\ y.request = c.request
          /\ y.leaseGeneration = c.leaseGeneration
      BY <1>4 DEF TaskRecord
    <2> HIDE DEF y
    <2>3. Turns(x, y, PhaseOf("unknown")) BY <1>2, <2>2, ClearedTo DEF c
    <2>4. Turns(x, y, "unknown") BY <2>3, Phases
    <2> QED BY <1>3, <2>1, <2>4, OneSeen
  <1> QED BY <1>5, <1>6, <1>7, <1>8 DEF LeaseCommand

(* An observation makes the outcome unknown. *)
LEMMA ObservationSeen ==
    ASSUME QInv, NEW t \in TaskIds, NEW h \in Hashes, recordUnknownObservation(t, h)
    PROVE  Contract!CNext
  <1> DEFINE x == tasks[t]
             c == Cleared(x)
             y == [c EXCEPT !.state = "unknown", !.unknownHash = h]
  <1>1. x \in TaskRecord /\ x.state \in Waiting \cup {"running"} /\ x.state # "absent"
    BY DEF QInv, recordUnknownObservation, Waiting
  <1>2. c \in TaskRecord BY <1>1, ClearedFacts
  <1>3. tasks' = [tasks EXCEPT ![t] = y] BY DEF recordUnknownObservation, ToUnknown
  <1> HIDE DEF c
  <1>4. y.state = "unknown" /\ y.request = c.request
        /\ y.leaseGeneration = c.leaseGeneration
    BY <1>2 DEF TaskRecord
  <1> HIDE DEF y
  <1>5. Turns(x, y, PhaseOf("unknown")) BY <1>1, <1>4, ClearedTo DEF c
  <1>6. Turns(x, y, "unknown") BY <1>5, Phases
  <1>7. PhaseOf(x.state) \in {"pending", "held"} BY <1>1, Phases
  <1> QED BY <1>3, <1>6, <1>7, OneSeen

(* reconcileUnknown completes, releases or voids an unknown task. *)
LEMMA ReconcileSeen ==
    ASSUME QInv, NEW t \in TaskIds, NEW h \in Hashes, NEW o, reconcileUnknown(t, h, o)
    PROVE  Contract!CNext
  <1> DEFINE x == tasks[t]
             s == IF o = "succeeded" THEN "succeeded"
                  ELSE IF o = "retry" /\ x.attemptCount < MaxOf(x)
                       THEN "retry_wait" ELSE "dead_letter"
             y == [x EXCEPT !.state = s, !.availableIn = 0]
  <1>1. x \in TaskRecord /\ x.state = "unknown" /\ x.attemptCount = x.leaseGeneration
    BY DEF QInv, TaskOK, reconcileUnknown
  <1>2. /\ s \in {"succeeded", "retry_wait", "dead_letter"}
        /\ s = "retry_wait" => x.attemptCount < MaxOf(x)
    OBVIOUS
  <1>3. tasks' = [tasks EXCEPT ![t] = y]
    BY <1>1 DEF reconcileUnknown, QInv, TaskRecord
  <1> HIDE DEF s
  <1>4. y.state = s /\ y.request = x.request /\ y.leaseGeneration = x.leaseGeneration
    BY <1>1 DEF TaskRecord
  <1> HIDE DEF y
  <1>5. Turns(x, y, PhaseOf(s)) BY <1>1, <1>2, <1>4, Turning
  <1>6. PhaseOf(x.state) = "unknown" BY <1>1, Phases
  <1>7. CASE s = "succeeded"
    <2>1. Turns(x, y, "done") BY <1>5, <1>7, Phases
    <2> QED BY <1>3, <1>6, <2>1, OneSeen
  <1>8. CASE s = "retry_wait"
    <2>1. PhaseOf(s) = "pending" BY <1>8, Phases DEF Waiting
    <2>2. x.leaseGeneration < LimitOf(x) BY <1>1, <1>2, <1>8 DEF LimitOf
    <2>3. Releases(x, y) BY <1>5, <1>6, <2>1, <2>2 DEF Releases
    <2> QED BY <1>3, <2>3, OneSeen DEF Swept
  <1>9. CASE s = "dead_letter"
    <2>1. PhaseOf(s) = "void" BY <1>9, Phases DEF Failed
    <2>2. Voids(x, y) BY <1>5, <1>6, <2>1 DEF Voids
    <2> QED BY <1>3, <2>2, OneSeen DEF Swept
  <1> QED BY <1>2, <1>7, <1>8, <1>9

(* Settling a record as cancelled or superseded voids it. *)
LEMMA SettlingSeen ==
    ASSUME NEW x, TaskOK(x), NEW s \in {"cancelled", "superseded"},
           x.state \notin Failed \cup {"absent"}
    PROVE  Voids(x, [Cleared(x) EXCEPT !.state = s])
  <1> DEFINE c == Cleared(x)
             y == [c EXCEPT !.state = s]
  <1>1. x \in TaskRecord /\ x.state \in States BY DEF TaskOK, TaskRecord
  <1>2. c \in TaskRecord BY <1>1, ClearedFacts
  <1> HIDE DEF c
  <1>3. y.state = s /\ y.request = c.request /\ y.leaseGeneration = c.leaseGeneration
    BY <1>2 DEF TaskRecord
  <1> HIDE DEF y
  <1>4. Turns(x, y, PhaseOf(s)) BY <1>1, <1>3, ClearedTo DEF c
  <1>5. PhaseOf(s) = "void" BY Phases DEF Failed
  <1>6. x.state \in Waiting \cup {"running", "succeeded", "unknown"} BY <1>1 DEF States
  <1>7. PhaseOf(x.state) \in {"pending", "held", "done", "unknown"} BY <1>6, Phases
  <1>8. Voids(x, y) BY <1>4, <1>5, <1>7 DEF Voids
  <1> QED BY <1>8 DEF y, c

(* cancel voids one task. *)
LEMMA CancelSeen ==
    ASSUME QInv, NEW t \in TaskIds, cancel(t) PROVE Contract!CNext
  <1> DEFINE y == [Cleared(tasks[t]) EXCEPT !.state = "cancelled"]
  <1>1. TaskOK(tasks[t]) /\ tasks[t].state \notin Failed \cup {"absent"}
        /\ tasks' = [tasks EXCEPT ![t] = y]
    BY DEF cancel, QInv
  <1>2. Voids(tasks[t], y) BY <1>1, SettlingSeen
  <1> HIDE DEF y
  <1> QED BY <1>1, <1>2, OneSeen DEF Swept

(* supersedePacket voids the older revisions of a packet in one sweep.     *)
LEMMA SupersedeSeen ==
    ASSUME QInv, NEW p, NEW n, supersedePacket(p, n) PROVE Contract!CNext
  <1>1. ASSUME NEW t \in TaskIds PROVE Swept(tasks[t], tasks'[t])
    <2> DEFINE Old == /\ tasks[t].state \notin Failed \cup {"absent"}
                      /\ tasks[t].request.packetId = p
                      /\ tasks[t].request.packetRevision < n
    <2>1. TaskOK(tasks[t]) BY DEF QInv
    <2>2. CASE Old
      <3>1. tasks'[t] = [Cleared(tasks[t]) EXCEPT !.state = "superseded"]
        BY <2>2 DEF supersedePacket
      <3>2. tasks[t].state \notin Failed \cup {"absent"} BY <2>2
      <3>3. Voids(tasks[t], tasks'[t]) BY <2>1, <3>1, <3>2, SettlingSeen
      <3> QED BY <3>3 DEF Swept
    <2>3. CASE ~Old
      <3>1. tasks'[t] = tasks[t] BY <2>3 DEF supersedePacket
      <3> QED BY <3>1, Unchanged DEF Swept
    <2> QED BY <2>2, <2>3
  <1>2. Contract!Sweep(TaskIds) BY <1>1, SweepView
  <1> QED BY <1>2 DEF Contract!CNext

(* The contract does not see the clock. *)
LEMMA TickSeen == ASSUME QInv, Tick PROVE Contract!CNext
  <1>1. ASSUME NEW t \in TaskIds PROVE Swept(tasks[t], tasks'[t])
    <2>1. tasks[t] \in TaskRecord BY DEF QInv
    <2>2. /\ tasks'[t].state = tasks[t].state /\ tasks'[t].request = tasks[t].request
          /\ tasks'[t].leaseGeneration = tasks[t].leaseGeneration
      BY <2>1 DEF Tick, TaskRecord
    <2>3. Stays(tasks[t], tasks'[t]) BY <2>2 DEF Stays, Turns, LimitOf, MaxOf
    <2> QED BY <2>3 DEF Swept
  <1>2. Contract!Sweep(TaskIds) BY <1>1, SweepView
  <1> QED BY <1>2 DEF Contract!CNext
-----------------------------------------------------------------------------
(* Every step of the queue is a step of the contract. *)
LEMMA NextSeen == ASSUME QInv, Next PROVE Contract!CNext
  <1>1. ASSUME NEW r \in Requests, Enqueue(r) PROVE Contract!CNext
    BY <1>1, EnqueueSeen
  <1>2. ASSUME NEW t \in TaskIds, LeaseTask(t) PROVE Contract!CNext
    BY <1>2, LeaseSeen
  <1>3. CASE LeaseNothing \/ RecoverSweep \/ BlockedSweep BY <1>3, SweepsSeen
  <1>4. ASSUME NEW t \in TaskIds, NEW g \in 1..tasks[t].leaseGeneration,
               LeaseCommand(t, g)
        PROVE  Contract!CNext
    BY <1>4, LeaseCommandSeen
  <1>5. ASSUME NEW t \in TaskIds, NEW h \in Hashes, recordUnknownObservation(t, h)
        PROVE  Contract!CNext
    BY <1>5, ObservationSeen
  <1>6. ASSUME NEW t \in TaskIds, NEW h \in Hashes, NEW o, reconcileUnknown(t, h, o)
        PROVE  Contract!CNext
    BY <1>6, ReconcileSeen
  <1>7. ASSUME NEW p, NEW n, supersedePacket(p, n) PROVE Contract!CNext
    BY <1>7, SupersedeSeen
  <1>8. ASSUME NEW t \in TaskIds, cancel(t) PROVE Contract!CNext BY <1>8, CancelSeen
  <1>9. CASE Tick BY <1>9, TickSeen
  <1> QED BY <1>1, <1>2, <1>3, <1>4, <1>5, <1>6, <1>7, <1>8, <1>9 DEF Next

(* The queue implements its contract: every call, late, duplicated or      *)
(* stale, is one legal step of TaskContract or changes nothing it sees.    *)
THEOREM ContractHolds == Spec => ImplementsContract
  <1>1. Init => Contract!CInit
    BY Phases DEF Init, Contract!CInit, AbsentTask
  <1>2. QInv /\ [Next]_vars => [Contract!CNext]_(Contract!cvars)
    <2> SUFFICES ASSUME QInv, [Next]_vars
                 PROVE  [Contract!CNext]_(Contract!cvars)
      OBVIOUS
    <2>1. CASE UNCHANGED vars BY <2>1 DEF vars, Contract!cvars
    <2>2. CASE Next BY <2>2, NextSeen
    <2> QED BY <2>1, <2>2
  <1> QED
    BY <1>1, <1>2, QueueInvariant, PTL DEF Spec, ImplementsContract, Contract!CSpec
=============================================================================
