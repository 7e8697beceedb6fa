---------------------------- MODULE MCSyncQueue ----------------------------
(***************************************************************************)
(* TLC model of evidence synchronisation and of the task queue, the two    *)
(* ends that EvidencePipeline joins, each driven harder here: part says    *)
(* which one moves while the other keeps its initial state.                *)
(*                                                                         *)
(* The queue has an analysis task of revision 1 of a packet, a render task *)
(* that depends on it, a single-attempt delivery that depends on the       *)
(* render, and a request that reuses the analysis key under another        *)
(* identity.  The three dependent tasks may be enqueued in any order.      *)
(* The uploads are of a capture that is retried under the same identity,   *)
(* retaken with other bytes under the same and under another identity, and *)
(* of another capture that claims the first artifact or has the same bytes.*)
(***************************************************************************)
EXTENDS TaskQueue, EvidenceSync

CONSTANTS analyse, render, deliver, packet, a1, a2, c1, c2, h1, h2

VARIABLE part

Request(t, key, max, p, rev, after, deps) ==
    [taskId |-> t, idempotencyKey |-> key, maxAttempts |-> max, packetId |-> p,
     packetRevision |-> rev, availableIn |-> after, dependencyTaskIds |-> deps]
MCTaskIds == {analyse, render, deliver}
MCRequests ==
    {Request(analyse, "analyse", 2, packet, 1, 0, {}),
     Request(render, "render", 2, NoPacket, 0, 1, {analyse}),
     Request(deliver, "deliver", 1, NoPacket, 0, 0, {render}),
     Request(render, "analyse", 2, NoPacket, 0, 0, {})}
MCRevisions == {1, 2}
MCRetryDelays == {0}

Describe(a, c, h) == [artifact |-> a, capture |-> c, content |-> h]
MCDescriptors ==
    {Describe(a1, c1, h1), Describe(a1, c1, h2), Describe(a2, c1, h2),
     Describe(a1, c2, h1), Describe(a2, c2, h1)}

Queueing == part = "queue" /\ Next /\ UNCHANGED <<part, svars>>
Uploading == part = "upload" /\ SNext /\ UNCHANGED <<part, vars>>
PartInit == part \in {"queue", "upload"} /\ Init /\ SInit
PartNext == Queueing \/ Uploading
PartSpec == PartInit /\ [][PartNext]_<<part, vars, svars>>
============================================================================
