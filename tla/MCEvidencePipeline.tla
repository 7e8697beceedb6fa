------------------------- MODULE MCEvidencePipeline -------------------------
(* Instance: one capture, whose upload and finalisation may be repeated,   *)
(* and two workers with three attempts at its content task.                *)
EXTENDS EvidencePipeline

CONSTANTS a1, c1, h1

MCArtifacts == {a1}

MCDescriptors == {[artifact |-> a1, capture |-> c1, content |-> h1]}

MCRequests ==
    {[taskId |-> a1, idempotencyKey |-> a1, maxAttempts |-> 3, packetId |-> NoPacket,
      packetRevision |-> 0, availableIn |-> 0, dependencyTaskIds |-> {}]}
============================================================================
