---------------------------- MODULE MCWorkerLoop ----------------------------
(* Instance: a task with two attempts on revision 1 of a packet, and a     *)
(* single-attempt task that depends on it.                                 *)
EXTENDS WorkerLoop

CONSTANTS analyse, render, packet

Request(t, max, p, rev, deps) ==
    [taskId |-> t, idempotencyKey |-> t, maxAttempts |-> max, packetId |-> p,
     packetRevision |-> rev, availableIn |-> 0, dependencyTaskIds |-> deps]

MCTaskIds == {analyse, render}
MCRequests ==
    {Request(analyse, 2, packet, 1, {}), Request(render, 1, NoPacket, 0, {analyse})}
MCHandled == {analyse}
MCRevisions == {2}
============================================================================
