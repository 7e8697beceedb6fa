----------------------------- MODULE WorkerLoop -----------------------------
(***************************************************************************)
(* Workers that poll the task queue: runWorkerCycle of                     *)
(* packages/task-queue/src/worker-loop.ts inside runPersistentWorkerLoop   *)
(* of apps/worker/src/tasks/runtime.ts, one process each, sharing one      *)
(* durable queue.  Queue, workers, clients and the clock interleave at     *)
(* every await; between two awaits a worker makes at most one queue call   *)
(* that matters (recordToolEvent checks the same lease as the call after   *)
(* it and only writes the event log).                                      *)
(*                                                                         *)
(* The handler is not modelled: it may checkpoint at any time and end in   *)
(* any of the ways the cycle tells apart.                                  *)
(***************************************************************************)
EXTENDS TaskQueue

CONSTANTS Workers,
          Handled,     \* the tasks whose taskType has a registered handler
          KeptAlive,   \* workers whose process holds a referenced handle
          NoTask

ASSUME WorkerAssumption ==
    /\ Handled \subseteq TaskIds
    /\ NoTask \notin TaskIds
    /\ KeptAlive \subseteq Workers

VARIABLES worker,     \* the loop of each worker and the cycle it is in
          shutdown    \* its abort signal

wvars == <<tasks, worker, shutdown>>

(* ready: at the while condition; idle: in abortableDelay; running: in     *)
(* the handler; exited: the process ended with code 0; failed: an error    *)
(* left the loop and it ended with code 1; killed: it was killed.          *)
WorkerRecord ==
    [pc            : {"ready", "idle", "running", "exited", "failed", "killed"},
     task          : TaskIds \cup {NoTask},
     generation    : Nat,
     heartbeatLost : BOOLEAN]

Fresh == [pc |-> "ready", task |-> NoTask, generation |-> 0, heartbeatLost |-> FALSE]

WInit ==
    /\ Init
    /\ worker = [w \in Workers |-> Fresh]
    /\ shutdown = [w \in Workers |-> FALSE]

Running(w) == worker[w].pc = "running"
T(w) == worker[w].task
G(w) == worker[w].generation

Goto(w, pc) == worker' = [worker EXCEPT ![w] = [Fresh EXCEPT !.pc = pc]]
-----------------------------------------------------------------------------
(* while (!signal.aborted) runOnce(): the cycle starts with lease(). *)
PollLease(w, t) ==
    /\ worker[w].pc = "ready" /\ ~shutdown[w]
    /\ LeaseTask(t)
    /\ worker' = [worker EXCEPT ![w] =
                    [pc |-> "running", task |-> t, heartbeatLost |-> FALSE,
                     generation |-> tasks'[t].leaseGeneration]]
    /\ UNCHANGED shutdown

PollIdle(w) ==
    /\ worker[w].pc = "ready" /\ ~shutdown[w]
    /\ LeaseNothing
    /\ Goto(w, "idle")
    /\ UNCHANGED shutdown

(* Mutant of Wake: the abort event clears the timer and resolves nothing. *)
WakeByTimer(w) ==
    /\ worker[w].pc = "idle" /\ w \in KeptAlive /\ ~shutdown[w]
    /\ Goto(w, "ready")
    /\ UNCHANGED <<tasks, shutdown>>

(* The delay ends with its timer or with the abort event.  The timer is    *)
(* unref'd: without another handle Node finds nothing to wait for and the  *)
(* process ends.                                                           *)
Wake(w) ==
    /\ worker[w].pc = "idle" /\ w \in KeptAlive
    /\ Goto(w, "ready")
    /\ UNCHANGED <<tasks, shutdown>>

EventLoopDrains(w) ==
    /\ worker[w].pc = "idle" /\ w \notin KeptAlive
    /\ Goto(w, "exited")
    /\ UNCHANGED <<tasks, shutdown>>

LoopEnds(w) ==
    /\ worker[w].pc = "ready" /\ shutdown[w]
    /\ Goto(w, "exited")
    /\ UNCHANGED <<tasks, shutdown>>

(* The setInterval callback. *)
HeartbeatTimer(w) ==
    /\ Running(w) /\ T(w) \in Handled
    /\ \/ heartbeat(T(w), G(w)) /\ UNCHANGED worker
       \/ /\ ~ValidLease(T(w), G(w))
          /\ worker' = [worker EXCEPT ![w].heartbeatLost = TRUE]
          /\ UNCHANGED tasks
    /\ UNCHANGED shutdown

HandlerCheckpoint(w) ==
    /\ Running(w) /\ T(w) \in Handled
    /\ checkpoint(T(w), G(w))
    /\ UNCHANGED <<worker, shutdown>>

(* The handler resolved. *)
Succeed(w) ==
    /\ Running(w) /\ T(w) \in Handled
    /\ complete(T(w), G(w))
    /\ Goto(w, "ready")
    /\ UNCHANGED shutdown

(* It threw: a RetryableTaskError or anything else.  A task without a      *)
(* handler fails for good.                                                 *)
Throw(w) ==
    /\ Running(w)
    /\ \E retryable \in IF T(w) \in Handled THEN BOOLEAN ELSE {FALSE} :
          fail(T(w), G(w), retryable, boundedBackoff(tasks[T(w)].attemptCount))
    /\ Goto(w, "ready")
    /\ UNCHANGED shutdown

(* It threw UnknownTaskOutcome, and the observation is recorded whoever    *)
(* holds the lease now, or was recorded before.                            *)
ThrowUnknown(w, h) ==
    /\ Running(w) /\ T(w) \in Handled
    /\ \/ recordUnknownObservation(T(w), h)
       \/ /\ tasks[T(w)].state = "unknown" /\ tasks[T(w)].unknownHash = h
          /\ UNCHANGED tasks
    /\ Goto(w, "ready")
    /\ UNCHANGED shutdown

(* The queue refuses the outcome, a checkpoint or assertLease because the  *)
(* lease is gone, or refuses an unknown observation of a settled or        *)
(* differently observed task, whose lease is gone too.  The error leaves   *)
(* runWorkerCycle, nothing catches it in the loop, and the process ends    *)
(* with exit code 1.                                                       *)
ThrowFenced(w) ==
    /\ Running(w) /\ T(w) \in Handled
    /\ ~ValidLease(T(w), G(w))
    /\ Goto(w, "failed")
    /\ UNCHANGED <<tasks, shutdown>>

(* Without a handler the answer of fail() is not looked at.  The in-memory *)
(* queue answers lease() and fail() in one turn; a durable one need not,   *)
(* and the model lets other steps come between.                            *)
UnhandledFenced(w) ==
    /\ Running(w) /\ T(w) \notin Handled
    /\ ~ValidLease(T(w), G(w))
    /\ Goto(w, "ready")
    /\ UNCHANGED <<tasks, shutdown>>

(* The process is killed with its timers in the middle of a cycle (killed  *)
(* elsewhere it loses nothing); fly.toml restarts it on failure.           *)
Crash(w) ==
    /\ Running(w)
    /\ Goto(w, "killed")
    /\ UNCHANGED <<tasks, shutdown>>

Restart(w) ==
    /\ worker[w].pc \in {"failed", "killed"} /\ ~shutdown[w]
    /\ Goto(w, "ready")
    /\ UNCHANGED <<tasks, shutdown>>

(* SIGTERM. *)
Shutdown(w) ==
    /\ ~shutdown[w]
    /\ shutdown' = [shutdown EXCEPT ![w] = TRUE]
    /\ UNCHANGED <<tasks, worker>>
-----------------------------------------------------------------------------
Client ==
    /\ \/ \E r \in Requests : Enqueue(r)
       \/ \E t \in TaskIds, h \in Hashes, o \in {"succeeded", "retry", "failed"} :
             reconcileUnknown(t, h, o)
       \/ \E p \in Packets, newer \in Revisions : supersedePacket(p, newer)
       \/ \E t \in TaskIds : cancel(t)
    /\ UNCHANGED <<worker, shutdown>>

Clock == Tick /\ UNCHANGED <<worker, shutdown>>

Poll(w) == (\E t \in TaskIds : PollLease(w, t)) \/ PollIdle(w)

Finish(w) ==
    \/ Succeed(w) \/ Throw(w) \/ (\E h \in Hashes : ThrowUnknown(w, h))
    \/ ThrowFenced(w) \/ UnhandledFenced(w)

WNext ==
    \/ Client
    \/ Clock
    \/ \E w \in Workers :
          \/ Poll(w) \/ Wake(w) \/ EventLoopDrains(w) \/ LoopEnds(w)
          \/ HeartbeatTimer(w) \/ HandlerCheckpoint(w) \/ Finish(w)
          \/ Crash(w) \/ Restart(w) \/ Shutdown(w)

(* The event loop runs what is due, handlers end, the supervisor restarts  *)
(* a failed process and time passes.                                       *)
WFairness ==
    /\ WF_wvars(Clock)
    /\ \A w \in Workers :
          /\ WF_wvars(Poll(w))
          /\ WF_wvars(Wake(w) \/ EventLoopDrains(w) \/ LoopEnds(w))
          /\ WF_wvars(Finish(w))
          /\ WF_wvars(Restart(w))

WSpec == WInit /\ [][WNext]_wvars /\ WFairness
-----------------------------------------------------------------------------
WTypeOK ==
    /\ TypeOK
    /\ worker \in [Workers -> WorkerRecord]
    /\ shutdown \in [Workers -> BOOLEAN]

(* Two workers never act under the same lease: whenever both run the same  *)
(* task, one of them holds an older generation and is fenced.              *)
NoSharedLease ==
    \A v, w \in Workers :
        (v # w /\ Running(v) /\ Running(w) /\ T(v) = T(w)) => G(v) # G(w)

(* A lost heartbeat is final: the lease it was lost for never becomes      *)
(* valid again, so the flag that makes assertLease throw cannot be stale.  *)
HeartbeatLossIsFinal ==
    \A w \in Workers :
        (Running(w) /\ worker[w].heartbeatLost) => ~ValidLease(T(w), G(w))

(* A lease has one living holder: no two workers act under one generation, *)
(* and a worker that was told its heartbeat is lost never has a valid      *)
(* lease again (worker-loop.ts:59-136).                                    *)
LeasesAreExclusive == WTypeOK /\ NoSharedLease /\ HeartbeatLossIsFinal

(* No task starves: again and again every task has settled, waits for an   *)
(* operator to reconcile its unknown outcome, or is blocked by a           *)
(* dependency that was never enqueued, is unknown or itself waits.  This   *)
(* needs one worker that is never shut down and whose process does not     *)
(* drain, and survives crashes, expired leases and fenced workers.         *)
Unfinished(t) == tasks[t].state \in Waiting \cup {"running"}

Quiescent ==
    \A t \in TaskIds : Unfinished(t) =>
        /\ tasks[t].state \in Waiting
        /\ \E d \in DepsOf(tasks[t]) : tasks[d].state \in Waiting \cup {"absent", "unknown"}

NoTaskStarves ==
    (\E w \in KeptAlive : []~shutdown[w]) => []<>Quiescent

(* A graceful shutdown ends: the worker leaves its loop once the handler   *)
(* it is in has ended.                                                     *)
ShutdownCompletes ==
    \A w \in Workers : shutdown[w] ~> worker[w].pc \in {"exited", "failed", "killed"}

(* docs/validation/u6-sync-queue.md, line 33: the persistent worker loop    *)
(* "polls until graceful shutdown": no worker ends its process normally,   *)
(* which its supervisor takes for the end of its work, unless it was told  *)
(* to shut down.  False of a process that nothing but its idle timer keeps *)
(* (abortableDelay in apps/worker/src/tasks/runtime.ts:32-46).             *)
PollsUntilShutdown ==
    \A w \in Workers : worker[w].pc = "exited" => shutdown[w]
============================================================================
