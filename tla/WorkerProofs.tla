---------------------------- MODULE WorkerProofs ----------------------------
(***************************************************************************)
(* Proofs about the workers that share the queue, for every number of      *)
(* them: none gets past the lease check, and no lease has two holders.     *)
(* They rest on what TaskQueueProofs says of every step of the queue.      *)
(***************************************************************************)
EXTENDS WorkerLoop, TaskQueueProofs

-----------------------------------------------------------------------------
(* A lease that ran out, or was cleared, is not revived: a task that holds *)
(* a valid lease after a step held it before, or was granted a new one.    *)
LeaseStep(x, y) ==
    y.state = "running" /\ y.leaseLeft >= 0 =>
       \/ x.state = "running" /\ x.leaseLeft >= 0
       \/ y.leaseGeneration = x.leaseGeneration + 1

LEMMA OneLease ==
    ASSUME QInv, NEW t \in TaskIds, NEW y, tasks' = [tasks EXCEPT ![t] = y],
           LeaseStep(tasks[t], y)
    PROVE  \A u \in TaskIds : LeaseStep(tasks[u], tasks'[u])
  BY DEF QInv, LeaseStep

(* A record that no longer runs has no lease.                              *)
LEMMA RestingLease ==
    ASSUME NEW x, NEW y, y.state # "running" PROVE LeaseStep(x, y)
  BY DEF LeaseStep

(* Neither sweep gives a task a lease.                                     *)
LEMMA RecoveredLease ==
    ASSUME QInv, NEW t \in TaskIds
    PROVE  LeaseStep(tasks[t], recoverExpiredLeases[t])
  <1>. DEFINE x == tasks[t]
              s == IF x.attemptCount < MaxOf(x) THEN "retry_wait" ELSE "dead_letter"
  <1>1. x \in TaskRecord /\ recoverExpiredLeases[t] = Recovered(x)
    BY DEF QInv, recoverExpiredLeases
  <1>2. CASE ~Expired(x)
    BY <1>1, <1>2 DEF Recovered, LeaseStep
  <1>3. CASE Expired(x)
    <2>1. Recovered(x) = [Cleared(x) EXCEPT !.state = s, !.availableIn = 0]
      BY <1>3 DEF Recovered
    <2>2. s # "running"
      OBVIOUS
    <2>. HIDE DEF s
    <2>3. Recovered(x).state = s
      BY <1>1, <2>1, ClearedFacts DEF TaskRecord
    <2>. QED
      BY <1>1, <2>2, <2>3, RestingLease
  <1>. QED
    BY <1>2, <1>3

LEMMA CancelledLease ==
    ASSUME NEW t \in TaskIds, NEW ts, NEW C, LeaseStep(tasks[t], ts[t]), ts[t] \in TaskRecord
    PROVE  LeaseStep(tasks[t], reconcileBlockedDependencies(ts, C)[t])
  <1>1. CASE t \notin C
    BY <1>1 DEF reconcileBlockedDependencies
  <1>2. CASE t \in C
    <2>1. reconcileBlockedDependencies(ts, C)[t] = [ts[t] EXCEPT !.state = "cancelled"]
      BY <1>2 DEF reconcileBlockedDependencies
    <2>2. [ts[t] EXCEPT !.state = "cancelled"].state = "cancelled"
      BY DEF TaskRecord
    <2>. QED
      BY <2>1, <2>2, RestingLease
  <1>. QED
    BY <1>1, <1>2

(* Only the grant of lease() makes a lease, and it has a new number.       *)
LEMMA LeaseTaskLease ==
    ASSUME QInv, NEW t \in TaskIds, LeaseTask(t)
    PROVE  /\ \A u \in TaskIds : LeaseStep(tasks[u], tasks'[u])
           /\ tasks'[t].leaseGeneration = tasks[t].leaseGeneration + 1
           /\ tasks'[t].leaseGeneration \in Nat
  <1>1. PICK C \in SUBSET TaskIds :
            /\ CancelledBy(recoverExpiredLeases, C)
            /\ LET swept == reconcileBlockedDependencies(recoverExpiredLeases, C)
               IN  /\ Leasable(swept, t)
                   /\ tasks' = [swept EXCEPT ![t] = Granted(swept[t])]
    BY DEF LeaseTask
  <1>. DEFINE swept == reconcileBlockedDependencies(recoverExpiredLeases, C)
  <1>2. SweptFrom(recoverExpiredLeases) /\ SweptFrom(swept)
    BY <1>1, RecoverSwept, BlockedSwept
  <1>3. \A u \in TaskIds : LeaseStep(tasks[u], swept[u])
    BY <1>1, <1>2, RecoveredLease, CancelledLease DEF SweptFrom
  <1>4. Leasable(swept, t) /\ tasks' = [swept EXCEPT ![t] = Granted(swept[t])]
    BY <1>1
  <1>. HIDE DEF swept
  <1>5. /\ TaskOK(swept[t]) /\ swept[t].state \in Waiting
        /\ swept[t].leaseGeneration = tasks[t].leaseGeneration
    BY <1>2, <1>4 DEF SweptFrom, SweepStep, TaskStep, Leasable
  <1>6. Granted(swept[t]).leaseGeneration = tasks[t].leaseGeneration + 1
    BY <1>5, GrantedStep
  <1>7. /\ tasks'[t] = Granted(swept[t])
        /\ \A u \in TaskIds : u # t => tasks'[u] = swept[u]
    BY <1>2, <1>4 DEF SweptFrom
  <1>8. tasks[t].leaseGeneration \in Nat
    BY DEF QInv, TaskRecord
  <1>. QED
    BY <1>3, <1>6, <1>7, <1>8 DEF LeaseStep

LEMMA SweepActionsLease ==
    ASSUME QInv, LeaseNothing \/ RecoverSweep \/ BlockedSweep, NEW t \in TaskIds
    PROVE  LeaseStep(tasks[t], tasks'[t])
  <1>1. recoverExpiredLeases[t] \in TaskRecord /\ tasks[t] \in TaskRecord
    BY RecoverSwept DEF SweptFrom, QInv
  <1>2. CASE LeaseNothing
    BY <1>1, <1>2, RecoveredLease, CancelledLease DEF LeaseNothing
  <1>3. CASE RecoverSweep
    BY <1>3, RecoveredLease, CancelledLease DEF RecoverSweep
  <1>4. CASE BlockedSweep
    <2>1. LeaseStep(tasks[t], tasks[t])
      BY DEF LeaseStep
    <2>. QED
      BY <1>1, <1>4, <2>1, RecoveredLease, CancelledLease DEF BlockedSweep
  <1>. QED
    BY <1>2, <1>3, <1>4

(* The state a record is left in by a call that clears its lease.          *)
LEMMA EndedState ==
    ASSUME NEW x \in TaskRecord, NEW s
    PROVE  /\ [Cleared(x) EXCEPT !.state = s].state = s
           /\ \A v : [Cleared(x) EXCEPT !.state = s, !.result = v].state = s
           /\ \A v : [Cleared(x) EXCEPT !.state = s, !.availableIn = v].state = s
           /\ \A v : [Cleared(x) EXCEPT !.state = s, !.unknownHash = v].state = s
  BY ClearedFacts DEF TaskRecord

LEMMA ToUnknownLease ==
    ASSUME QInv, NEW t \in TaskIds, NEW h,
           tasks' = [tasks EXCEPT ![t] = ToUnknown(tasks[t], h)]
    PROVE  \A u \in TaskIds : LeaseStep(tasks[u], tasks'[u])
  <1>. DEFINE y == ToUnknown(tasks[t], h)
  <1>1. y.state = "unknown"
    BY EndedState DEF ToUnknown, QInv
  <1>. HIDE DEF y
  <1>2. LeaseStep(tasks[t], y)
    BY <1>1, RestingLease
  <1>. QED
    BY <1>2, OneLease DEF y

LEMMA LeaseCommandLease ==
    ASSUME QInv, NEW t \in TaskIds, NEW g \in 1 .. tasks[t].leaseGeneration,
           LeaseCommand(t, g)
    PROVE  \A u \in TaskIds : LeaseStep(tasks[u], tasks'[u])
  <1>. DEFINE x == tasks[t]
  <1>1. x \in TaskRecord /\ TaskOK(x)
    BY DEF QInv
  <1>2. CASE heartbeat(t, g)
    <2>. DEFINE y == [x EXCEPT !.leaseLeft = LeaseTicks]
    <2>1. tasks' = [tasks EXCEPT ![t] = y] /\ x.state = "running" /\ x.leaseLeft >= 0
      BY <1>2 DEF heartbeat, ValidLease
    <2>2. LeaseStep(x, y)
      BY <2>1 DEF LeaseStep
    <2>. HIDE DEF y
    <2>. QED
      BY <2>1, <2>2, OneLease
  <1>3. CASE checkpoint(t, g)
    <2>. DEFINE y == [x EXCEPT !.checkpoints = x.checkpoints \cup {g}]
    <2>1. tasks' = [tasks EXCEPT ![t] = y] /\ x.state = "running" /\ x.leaseLeft >= 0
      BY <1>3 DEF checkpoint, ValidLease
    <2>2. LeaseStep(x, y)
      BY <2>1 DEF LeaseStep
    <2>. HIDE DEF y
    <2>. QED
      BY <2>1, <2>2, OneLease
  <1>4. CASE complete(t, g)
    <2>. DEFINE y == [Cleared(x) EXCEPT !.state = "succeeded", !.result = g]
    <2>1. tasks' = [tasks EXCEPT ![t] = y]
      BY <1>4 DEF complete
    <2>2. y.state = "succeeded"
      BY <1>1, EndedState
    <2>. HIDE DEF y
    <2>3. LeaseStep(x, y)
      BY <2>2, RestingLease
    <2>. QED
      BY <2>1, <2>3, OneLease
  <1>5. ASSUME NEW b \in BOOLEAN, NEW delay, fail(t, g, b, delay)
        PROVE  \A u \in TaskIds : LeaseStep(tasks[u], tasks'[u])
    <2>. DEFINE s == IF b /\ x.attemptCount < MaxOf(x) THEN "retry_wait" ELSE "dead_letter"
                y == [Cleared(x) EXCEPT !.state = s, !.availableIn = delay]
    <2>1. tasks' = [tasks EXCEPT ![t] = y]
      BY <1>5 DEF fail
    <2>2. s # "running"
      OBVIOUS
    <2>. HIDE DEF s
    <2>3. y.state = s
      BY <1>1, EndedState
    <2>. HIDE DEF y
    <2>4. LeaseStep(x, y)
      BY <2>2, <2>3, RestingLease
    <2>. QED
      BY <2>1, <2>4, OneLease
  <1>6. ASSUME NEW h \in Hashes, markUnknown(t, g, h)
        PROVE  \A u \in TaskIds : LeaseStep(tasks[u], tasks'[u])
    BY <1>1, <1>6, ToUnknownLease DEF markUnknown
  <1>. QED
    BY <1>2, <1>3, <1>4, <1>5, <1>6 DEF LeaseCommand

(* No step of the queue revives a lease, and generations only grow.        *)
LEMMA LeasesAreNotRevived ==
    ASSUME QInv, Next, NEW t \in TaskIds
    PROVE  /\ LeaseStep(tasks[t], tasks'[t])
           /\ tasks[t].leaseGeneration \in Nat /\ tasks'[t].leaseGeneration \in Nat
           /\ tasks[t].leaseGeneration <= tasks'[t].leaseGeneration
  <1>. DEFINE Kept == \A u \in TaskIds : LeaseStep(tasks[u], tasks'[u])
  <1>1. ASSUME NEW r \in Requests, Enqueue(r) PROVE Kept
    <2>. DEFINE y == [AbsentTask EXCEPT !.state = "queued", !.request = r,
                                        !.earlier = Present(tasks),
                                        !.availableIn = r.availableIn]
    <2>1. tasks' = [tasks EXCEPT ![r.taskId] = y] /\ r.taskId \in TaskIds
      BY <1>1, RequestFacts DEF Enqueue
    <2>2. y.state = "queued"
      BY DEF AbsentTask
    <2>. HIDE DEF y
    <2>. QED
      BY <2>1, <2>2, RestingLease, OneLease
  <1>2. ASSUME NEW u \in TaskIds, LeaseTask(u) PROVE Kept
    BY <1>2, LeaseTaskLease
  <1>3. ASSUME LeaseNothing \/ RecoverSweep \/ BlockedSweep PROVE Kept
    BY <1>3, SweepActionsLease
  <1>4. ASSUME NEW u \in TaskIds, NEW g \in 1 .. tasks[u].leaseGeneration, LeaseCommand(u, g)
        PROVE  Kept
    BY <1>4, LeaseCommandLease
  <1>5. ASSUME NEW u \in TaskIds, NEW h \in Hashes, recordUnknownObservation(u, h) PROVE Kept
    BY <1>5, ToUnknownLease DEF recordUnknownObservation
  <1>6. ASSUME NEW u \in TaskIds, NEW h \in Hashes, NEW o, reconcileUnknown(u, h, o)
        PROVE  Kept
    <2>. DEFINE x == tasks[u]
                s == IF o = "succeeded" THEN "succeeded"
                     ELSE IF o = "retry" /\ x.attemptCount < MaxOf(x)
                          THEN "retry_wait" ELSE "dead_letter"
                y == [[x EXCEPT !.state = s] EXCEPT !.availableIn = 0]
    <2>1. x \in TaskRecord
      BY DEF QInv
    <2>2. s # "running"
      OBVIOUS
    <2>3. tasks' = [tasks EXCEPT ![u] = y]
      BY <1>6, <2>1 DEF reconcileUnknown, QInv, TaskRecord
    <2>. HIDE DEF s
    <2>4. y.state = s
      BY <2>1 DEF TaskRecord
    <2>. HIDE DEF y
    <2>. QED
      BY <2>2, <2>3, <2>4, RestingLease, OneLease
  <1>7. ASSUME NEW p, NEW n, supersedePacket(p, n) PROVE Kept
    <2>. SUFFICES ASSUME NEW u \in TaskIds PROVE LeaseStep(tasks[u], tasks'[u])
      OBVIOUS
    <2>1. \/ tasks'[u] = tasks[u]
          \/ tasks'[u] = [Cleared(tasks[u]) EXCEPT !.state = "superseded"]
      BY <1>7 DEF supersedePacket
    <2>2. [Cleared(tasks[u]) EXCEPT !.state = "superseded"].state = "superseded"
      BY EndedState DEF QInv
    <2>. QED
      BY <2>1, <2>2 DEF LeaseStep
  <1>8. ASSUME NEW u \in TaskIds, cancel(u) PROVE Kept
    <2>. DEFINE y == [Cleared(tasks[u]) EXCEPT !.state = "cancelled"]
    <2>1. tasks' = [tasks EXCEPT ![u] = y] /\ y.state = "cancelled"
      BY <1>8, EndedState DEF cancel, QInv
    <2>. HIDE DEF y
    <2>. QED
      BY <2>1, RestingLease, OneLease
  <1>9. ASSUME Tick PROVE Kept
    <2>. SUFFICES ASSUME NEW u \in TaskIds PROVE LeaseStep(tasks[u], tasks'[u])
      OBVIOUS
    <2>. DEFINE left == IF tasks[u].leaseLeft >= 0 THEN tasks[u].leaseLeft - 1
                        ELSE tasks[u].leaseLeft
                wait == IF tasks[u].availableIn > 0 THEN tasks[u].availableIn - 1
                        ELSE tasks[u].availableIn
    <2>1. tasks[u] \in TaskRecord /\ tasks[u].leaseLeft \in Int
      BY DEF QInv, TaskRecord
    <2>2. left >= 0 => tasks[u].leaseLeft >= 0
      BY <2>1
    <2>3. tasks'[u] = [[tasks[u] EXCEPT !.leaseLeft = left] EXCEPT !.availableIn = wait]
      BY <1>9, <2>1 DEF Tick, TaskRecord
    <2>. HIDE DEF left, wait
    <2>4. tasks'[u].state = tasks[u].state /\ tasks'[u].leaseLeft = left
      BY <2>1, <2>3 DEF TaskRecord
    <2>. QED
      BY <2>2, <2>4 DEF LeaseStep
  <1>10. Kept
    BY <1>1, <1>2, <1>3, <1>4, <1>5, <1>6, <1>7, <1>8, <1>9 DEF Next
  <1>11. /\ TaskOK(tasks[t]) /\ TaskOK(tasks'[t])
         /\ tasks'[t].attemptCount \in {tasks[t].attemptCount, tasks[t].attemptCount + 1}
    BY NextStep DEF QStep, TaskStep, QInv
  <1>. QED
    BY <1>10, <1>11 DEF TaskOK, TaskRecord

-----------------------------------------------------------------------------
(* A worker in its handler has been granted the lease it presents, and no  *)
(* other worker that runs the same task was granted the same one.          *)
GrantOk(w) ==
    Running(w) =>
       /\ T(w) \in TaskIds
       /\ G(w) # 0 /\ G(w) <= tasks[T(w)].leaseGeneration

WorkInv ==
    /\ QInv /\ LeasesAreExclusive
    /\ \A w \in Workers : GrantOk(w)

(* A lease that is not valid never becomes valid again.                    *)
LEMMA LostIsLost ==
    ASSUME QInv, [Next]_vars, NEW t \in TaskIds, NEW g \in Nat,
           g <= tasks[t].leaseGeneration, ~ValidLease(t, g)
    PROVE  ~ValidLease(t, g)'
  <1>1. CASE UNCHANGED vars
    BY <1>1 DEF vars, ValidLease
  <1>2. CASE Next
    <2>1. /\ LeaseStep(tasks[t], tasks'[t])
          /\ tasks[t].leaseGeneration \in Nat /\ tasks'[t].leaseGeneration \in Nat
          /\ tasks[t].leaseGeneration <= tasks'[t].leaseGeneration
      BY <1>2, LeasesAreNotRevived
    <2>2. TaskOK(tasks[t])
      BY DEF QInv
    <2>3. SUFFICES ASSUME ValidLease(t, g)' PROVE FALSE
      OBVIOUS
    <2>4. tasks[t].leaseGeneration = g /\ tasks'[t].leaseGeneration = g
      BY <2>1, <2>3 DEF ValidLease
    <2>5. tasks[t].state = "running" /\ tasks[t].leaseLeft >= 0
      BY <2>1, <2>3, <2>4 DEF LeaseStep, ValidLease
    <2>. QED
      BY <2>2, <2>4, <2>5 DEF TaskOK, ValidLease
  <1>. QED
    BY <1>1, <1>2

(* What a step of the queue leaves true of the workers that stay put.      *)
LEMMA QueueSteps ==
    ASSUME WorkInv, [Next]_vars
    PROVE  /\ QInv' /\ TypeOK'
           /\ \A t \in TaskIds : /\ tasks[t].leaseGeneration \in Nat
                                 /\ tasks'[t].leaseGeneration \in Nat
                                 /\ tasks[t].leaseGeneration <= tasks'[t].leaseGeneration
  <1>1. CASE Next
    BY <1>1, NextStep, QStepPreserves, LeasesAreNotRevived DEF WorkInv, QInv, TypeOK
  <1>2. CASE UNCHANGED vars
    <2>1. \A t \in TaskIds : tasks[t].leaseGeneration \in Nat
      BY DEF WorkInv, QInv, TaskRecord
    <2>. QED
      BY <1>2, <2>1 DEF vars, WorkInv, QInv, TypeOK, StartedAfterDependencies, Present
  <1>. QED
    BY <1>1, <1>2

(* Workers whose records stay as they are keep the invariant.              *)
LEMMA StayingWorkers ==
    ASSUME WorkInv, [Next]_vars, worker' \in [Workers -> WorkerRecord],
           shutdown' \in [Workers -> BOOLEAN],
           \A v \in Workers : Running(v)' =>
              /\ worker'[v].task = worker[v].task /\ Running(v)
              /\ worker'[v].generation = worker[v].generation
              /\ worker'[v].heartbeatLost =>
                    worker[v].heartbeatLost \/ ~ValidLease(T(v), G(v))
    PROVE  WorkInv'
  <1>1. QInv' /\ WTypeOK'
    BY QueueSteps DEF WTypeOK
  <1>2. ASSUME NEW v \in Workers, Running(v)'
        PROVE  /\ Running(v) /\ T(v)' = T(v) /\ G(v)' = G(v)
               /\ T(v) \in TaskIds /\ G(v) \in Nat /\ G(v) # 0
               /\ G(v) <= tasks[T(v)].leaseGeneration
    BY <1>2 DEF WorkInv, GrantOk, LeasesAreExclusive, WTypeOK, WorkerRecord, T, G
  <1>3. \A v \in Workers : GrantOk(v)'
    BY <1>2, QueueSteps DEF GrantOk
  <1>4. NoSharedLease'
    BY <1>2 DEF WorkInv, LeasesAreExclusive, NoSharedLease
  <1>5. ASSUME NEW v \in Workers, Running(v)', worker'[v].heartbeatLost
        PROVE  ~ValidLease(T(v), G(v))'
    <2>1. ~ValidLease(T(v), G(v))
      BY <1>2, <1>5 DEF WorkInv, LeasesAreExclusive, HeartbeatLossIsFinal
    <2>2. PICK t \in TaskIds, g \in Nat : t = T(v) /\ g = G(v)
      BY <1>2, <1>5
    <2>3. ~ValidLease(t, g)'
      BY <1>2, <1>5, <2>1, <2>2, LostIsLost DEF WorkInv
    <2>. QED
      BY <1>2, <1>5, <2>2, <2>3 DEF ValidLease
  <1>. QED
    BY <1>1, <1>3, <1>4, <1>5 DEF WorkInv, LeasesAreExclusive, HeartbeatLossIsFinal

(* No call of the cycle gets past the lease check: a worker presents the   *)
(* generation it was granted, and what the queue accepts is a call of it.  *)
LEMMA WorkerStepsAreCalls ==
    ASSUME WorkInv, [WNext]_wvars PROVE [Next]_vars
  <1>1. ASSUME NEW w \in Workers, Running(w), LeaseCommand(T(w), G(w)) PROVE Next
    <2>1. /\ T(w) \in TaskIds /\ G(w) # 0 /\ G(w) <= tasks[T(w)].leaseGeneration
          /\ G(w) \in Nat /\ tasks[T(w)].leaseGeneration \in Nat
      BY <1>1 DEF WorkInv, GrantOk, LeasesAreExclusive, WTypeOK, WorkerRecord, QInv,
                 TaskRecord, G
    <2>2. G(w) \in 1 .. tasks[T(w)].leaseGeneration
      BY <2>1
    <2>. QED
      BY <1>1, <2>1, <2>2 DEF Next
  <1>2. CASE Client \/ Clock
    BY <1>2 DEF Client, Clock, Next
  <1>3. ASSUME NEW w \in Workers, Poll(w) PROVE Next
    BY <1>3 DEF Poll, PollLease, PollIdle, Next
  <1>4. ASSUME NEW w \in Workers,
               HeartbeatTimer(w) \/ HandlerCheckpoint(w) \/ Succeed(w)
        PROVE  [Next]_vars
    BY <1>1, <1>4 DEF HeartbeatTimer, HandlerCheckpoint, Succeed, LeaseCommand, vars
  <1>5. ASSUME NEW w \in Workers, Throw(w) PROVE [Next]_vars
    BY <1>1, <1>5 DEF Throw, LeaseCommand
  <1>6. ASSUME NEW w \in Workers, NEW h \in Hashes, ThrowUnknown(w, h) PROVE [Next]_vars
    <2>1. T(w) \in TaskIds
      BY <1>6 DEF ThrowUnknown, WorkInv, GrantOk
    <2>. QED
      BY <1>6, <2>1 DEF ThrowUnknown, Next, vars
  <1>7. ASSUME NEW w \in Workers,
               \/ Wake(w) \/ EventLoopDrains(w) \/ LoopEnds(w) \/ ThrowFenced(w)
               \/ UnhandledFenced(w) \/ Crash(w) \/ Restart(w) \/ Shutdown(w)
        PROVE  [Next]_vars
    BY <1>7 DEF Wake, EventLoopDrains, LoopEnds, ThrowFenced, UnhandledFenced, Crash,
                Restart, Shutdown, vars
  <1>8. CASE UNCHANGED wvars
    BY <1>8 DEF wvars, vars
  <1>. QED
    BY <1>2, <1>3, <1>4, <1>5, <1>6, <1>7, <1>8 DEF WNext, Finish

(* A worker that moves on without a lease keeps the invariant.             *)
LEMMA RestingWorker ==
    ASSUME WorkInv, [Next]_vars, NEW w \in Workers,
           NEW pc \in {"ready", "idle", "exited", "failed", "killed"},
           Goto(w, pc), shutdown' \in [Workers -> BOOLEAN]
    PROVE  WorkInv'
  <1>. DEFINE rec == [Fresh EXCEPT !.pc = pc]
  <1>1. worker \in [Workers -> WorkerRecord] /\ worker' = [worker EXCEPT ![w] = rec]
    BY DEF WorkInv, LeasesAreExclusive, WTypeOK, Goto
  <1>2. rec \in WorkerRecord /\ rec.pc # "running"
    BY DEF Fresh, WorkerRecord
  <1>. HIDE DEF rec
  <1>3. /\ worker' \in [Workers -> WorkerRecord] /\ ~Running(w)'
        /\ \A v \in Workers : v # w => worker'[v] = worker[v]
    BY <1>1, <1>2 DEF Running
  <1>. QED
    BY <1>3, StayingWorkers DEF Running

(* A worker that is granted a task has a generation nobody had before.     *)
LEMMA GrantedWorker ==
    ASSUME WorkInv, [Next]_vars, NEW w \in Workers, NEW t \in TaskIds, PollLease(w, t)
    PROVE  WorkInv'
  <1>. DEFINE n == tasks'[t].leaseGeneration
              rec == [pc |-> "running", task |-> t, heartbeatLost |-> FALSE, generation |-> n]
  <1>1. /\ QInv /\ QInv' /\ TypeOK'
        /\ n = tasks[t].leaseGeneration + 1 /\ n \in Nat
        /\ tasks[t].leaseGeneration \in Nat
    BY QueueSteps, LeaseTaskLease DEF PollLease, WorkInv
  <1>2. worker \in [Workers -> WorkerRecord] /\ worker' = [worker EXCEPT ![w] = rec]
        /\ UNCHANGED shutdown /\ shutdown \in [Workers -> BOOLEAN]
    BY DEF WorkInv, LeasesAreExclusive, WTypeOK, PollLease
  <1>. HIDE DEF n
  <1>3. rec \in WorkerRecord
    BY <1>1 DEF WorkerRecord
  <1>4. /\ T(w)' = t /\ G(w)' = n /\ ~worker'[w].heartbeatLost
        /\ worker' \in [Workers -> WorkerRecord]
        /\ \A v \in Workers : v # w => worker'[v] = worker[v]
    BY <1>2, <1>3 DEF T, G
  <1>5. WTypeOK'
    BY <1>1, <1>2, <1>4 DEF WTypeOK
  <1>6. ASSUME NEW v \in Workers, v # w, Running(v)'
        PROVE  /\ Running(v) /\ T(v)' = T(v) /\ G(v)' = G(v)
               /\ T(v) \in TaskIds /\ G(v) \in Nat /\ G(v) # 0
               /\ G(v) <= tasks[T(v)].leaseGeneration
    BY <1>4, <1>6 DEF WorkInv, GrantOk, LeasesAreExclusive, WTypeOK, WorkerRecord, T, G, Running
  <1>7. ASSUME NEW v \in Workers PROVE GrantOk(v)'
    <2>1. CASE v = w
      BY <1>1, <1>4, <2>1 DEF GrantOk, n
    <2>2. CASE v # w
      BY <1>6, <2>2, QueueSteps DEF GrantOk
    <2>. QED
      BY <2>1, <2>2
  <1>8. ASSUME NEW v \in Workers, v # w, Running(v)', T(v)' = t PROVE G(v)' # n
    BY <1>1, <1>6, <1>8
  <1>9. NoSharedLease'
    <2>. SUFFICES ASSUME NEW u \in Workers, NEW v \in Workers, u # v,
                         Running(u)', Running(v)', T(u)' = T(v)'
                  PROVE  G(u)' # G(v)'
      BY DEF NoSharedLease
    <2>1. CASE u = w
      BY <1>4, <1>8, <2>1
    <2>2. CASE v = w
      BY <1>4, <1>8, <2>2
    <2>3. CASE u # w /\ v # w
      BY <1>6, <2>3 DEF WorkInv, LeasesAreExclusive, NoSharedLease
    <2>. QED
      BY <2>1, <2>2, <2>3
  <1>10. ASSUME NEW v \in Workers, Running(v)', worker'[v].heartbeatLost
         PROVE  ~ValidLease(T(v), G(v))'
    <2>1. v # w
      BY <1>4, <1>10
    <2>2. ~ValidLease(T(v), G(v)) /\ T(v)' = T(v) /\ G(v)' = G(v)
      BY <1>4, <1>6, <1>10, <2>1 DEF WorkInv, LeasesAreExclusive, HeartbeatLossIsFinal
    <2>3. PICK r \in TaskIds, g \in Nat : r = T(v) /\ g = G(v)
      BY <1>6, <1>10, <2>1
    <2>4. ~ValidLease(r, g)'
      BY <1>1, <1>6, <1>10, <2>1, <2>2, <2>3, LostIsLost
    <2>. QED
      BY <2>2, <2>3, <2>4 DEF ValidLease
  <1>. QED
    BY <1>1, <1>5, <1>7, <1>9, <1>10 DEF WorkInv, LeasesAreExclusive, HeartbeatLossIsFinal

(* Every step of workers, clients and clock keeps WorkInv.                 *)
LEMMA WorkerStepPreserves ==
    ASSUME WorkInv, [WNext]_wvars PROVE WorkInv'
  <1>0. [Next]_vars /\ worker \in [Workers -> WorkerRecord]
        /\ shutdown \in [Workers -> BOOLEAN]
    BY WorkerStepsAreCalls DEF WorkInv, LeasesAreExclusive, WTypeOK
  <1>1. CASE UNCHANGED <<worker, shutdown>>
    BY <1>0, <1>1, StayingWorkers DEF Running
  <1>2. ASSUME NEW w \in Workers, HeartbeatTimer(w) PROVE WorkInv'
    <2>1. CASE UNCHANGED worker
      BY <1>0, <1>1, <1>2, <2>1 DEF HeartbeatTimer
    <2>2. CASE ~ValidLease(T(w), G(w)) /\ worker' = [worker EXCEPT ![w].heartbeatLost = TRUE]
      <3>. DEFINE rec == [worker[w] EXCEPT !.heartbeatLost = TRUE]
      <3>1. /\ rec \in WorkerRecord /\ rec.task = worker[w].task /\ rec.pc = worker[w].pc
            /\ rec.generation = worker[w].generation
        BY <1>0 DEF WorkerRecord
      <3>2. worker' = [worker EXCEPT ![w] = rec] /\ Running(w) /\ UNCHANGED shutdown
        BY <1>2, <2>2 DEF HeartbeatTimer
      <3>. HIDE DEF rec
      <3>3. /\ worker' \in [Workers -> WorkerRecord] /\ worker'[w] = rec
            /\ \A v \in Workers : v # w => worker'[v] = worker[v]
        BY <1>0, <3>1, <3>2
      <3>. QED
        BY <1>0, <2>2, <3>1, <3>2, <3>3, StayingWorkers DEF Running
    <2>. QED
      BY <1>2, <2>1, <2>2 DEF HeartbeatTimer
  <1>3. ASSUME NEW w \in Workers, NEW t \in TaskIds, PollLease(w, t) PROVE WorkInv'
    BY <1>0, <1>3, GrantedWorker
  <1>4. ASSUME NEW w \in Workers, NEW pc \in {"ready", "idle", "exited", "failed", "killed"},
               Goto(w, pc), UNCHANGED shutdown
        PROVE  WorkInv'
    BY <1>0, <1>4, RestingWorker
  <1>5. ASSUME NEW w \in Workers, Shutdown(w) PROVE WorkInv'
    <2>1. shutdown' \in [Workers -> BOOLEAN] /\ UNCHANGED worker
      BY <1>0, <1>5 DEF Shutdown
    <2>. QED
      BY <1>0, <2>1, StayingWorkers DEF Running
  <1>6. ASSUME NEW w \in Workers, Poll(w) PROVE WorkInv'
    BY <1>3, <1>4, <1>6 DEF Poll, PollIdle
  <1>7. ASSUME NEW w \in Workers,
               \/ Wake(w) \/ EventLoopDrains(w) \/ LoopEnds(w) \/ Crash(w) \/ Restart(w)
        PROVE  WorkInv'
    BY <1>4, <1>7 DEF Wake, EventLoopDrains, LoopEnds, Crash, Restart
  <1>8. ASSUME NEW w \in Workers, Finish(w) PROVE WorkInv'
    BY <1>4, <1>8 DEF Finish, Succeed, Throw, ThrowUnknown, ThrowFenced, UnhandledFenced
  <1>9. CASE Client \/ Clock \/ UNCHANGED wvars \/ \E w \in Workers : HandlerCheckpoint(w)
    BY <1>1, <1>9 DEF Client, Clock, wvars, HandlerCheckpoint
  <1>. QED
    BY <1>2, <1>5, <1>6, <1>7, <1>8, <1>9 DEF WNext

LEMMA WorkersStart == ASSUME WInit PROVE WorkInv
  <1>1. QInv /\ TypeOK
    BY InitQInv DEF WInit, QInv, TypeOK
  <1>2. Fresh \in WorkerRecord /\ Fresh.pc # "running"
    BY DEF Fresh, WorkerRecord
  <1>. QED
    BY <1>1, <1>2 DEF WInit, WorkInv, GrantOk, LeasesAreExclusive, WTypeOK, NoSharedLease,
                     HeartbeatLossIsFinal, Running

LEMMA WorkerInvariant == WSpec => []WorkInv
  <1>1. WInit => WorkInv
    BY WorkersStart
  <1>2. WorkInv /\ [WNext]_wvars => WorkInv'
    BY WorkerStepPreserves
  <1>. QED
    BY <1>1, <1>2, PTL DEF WSpec

(* A lease has one living holder: no two workers act under one generation, *)
(* and a lost heartbeat stays lost (worker-loop.ts:59-136).                *)
THEOREM EachLeaseHasOneHolder == WSpec => []LeasesAreExclusive
  <1>1. WorkInv => LeasesAreExclusive
    BY DEF WorkInv
  <1>. QED
    BY <1>1, WorkerInvariant, PTL

(* The invariant makes every step of the workers a call that the queue     *)
(* answers.                                                                *)
LEMMA QueueUnderWorkers == WSpec => Spec
  <1>1. WInit => Init
    BY DEF WInit
  <1>2. WorkInv /\ [WNext]_wvars => [Next]_vars
    BY WorkerStepsAreCalls
  <1>. QED
    BY <1>1, <1>2, WorkerInvariant, PTL DEF WSpec, Spec

(* What the queue promises by itself it promises under its workers.        *)
THEOREM TasksAreSoundUnderWorkers == WSpec => []TasksAreSound /\ SettledForever
  BY QueueUnderWorkers, TaskSoundness, Settlement, PTL
=============================================================================
