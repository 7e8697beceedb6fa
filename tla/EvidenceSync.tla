---------------------------- MODULE EvidenceSync ----------------------------
(***************************************************************************)
(* Evidence upload: EvidenceSyncService, InMemoryPrivateObjectStore and    *)
(* commitVerifiedDurability of packages/storage.  Several upload intents   *)
(* may name the same object, and every call is cut at its awaits.          *)
(*                                                                         *)
(* A call with a wrong token, scope, media type, length or checksum is     *)
(* refused without effect.  The bytes an uploader sends are therefore      *)
(* those its descriptor announces, and content stands for both the bytes   *)
(* and their hash.  An expired intent accepts no upload, which here is an  *)
(* upload nobody makes.  Left out: intent.uploaded and                     *)
(* quarantineReasonCode, which nothing reads, the event log and the        *)
(* outbox, which records what the commit did.                              *)
(***************************************************************************)
EXTENDS FiniteSets

CONSTANTS Intents,       \* upload intents that may be issued
          Artifacts, Captures, Contents,
          Descriptors,   \* what clients announce
          None

ASSUME SyncAssumption ==
    /\ Descriptors \subseteq [artifact : Artifacts, capture : Captures, content : Contents]
    /\ None \notin Artifacts \cup Contents \cup Descriptors

VARIABLES intent,        \* each upload intent and the call it is in
          objects,       \* the quarantine namespace of the object store
          artifacts,     \* #artifacts: the durable rows
          captureIndex   \* #captureIndex: the artifact of the row it holds

svars == <<intent, objects, artifacts, captureIndex>>

(* storageKey: quarantine/<org>/<job>/<capture>/<artifact> *)
Keys == Captures \X Artifacts
KeyOf(d) == <<d.capture, d.artifact>>

(* open: no call under way; put: upload saw no object; observe: upload     *)
(* found one; commit: finalize has verified the object.                    *)
IntentRecord ==
    [pc : {"none", "open", "put", "observe", "commit"},
     descriptor : Descriptors \cup {None}]

SInit ==
    /\ intent = [i \in Intents |-> [pc |-> "none", descriptor |-> None]]
    /\ objects = [k \in Keys |-> None]
    /\ artifacts = [a \in Artifacts |-> None]
    /\ captureIndex = [c \in Captures |-> None]

D(i) == intent[i].descriptor
Call(i, pc) == intent' = [intent EXCEPT ![i].pc = pc]

issueUploadIntent(i, d) ==
    /\ intent[i].pc = "none"
    /\ intent' = [intent EXCEPT ![i] = [pc |-> "open", descriptor |-> d]]
    /\ UNCHANGED <<objects, artifacts, captureIndex>>

(* upload: the first head *)
UploadHead(i) ==
    /\ intent[i].pc = "open"
    /\ Call(i, IF objects[KeyOf(D(i))] = None THEN "put" ELSE "observe")
    /\ UNCHANGED <<objects, artifacts, captureIndex>>

(* Mutant of UploadPut: the object is written whether or not one is there. *)
UploadPutMutable(i) ==
    /\ intent[i].pc = "put"
    /\ objects' = [objects EXCEPT ![KeyOf(D(i))] = D(i).content]
    /\ Call(i, "open")
    /\ UNCHANGED <<artifacts, captureIndex>>

(* putImmutable throws when a concurrent uploader has won: then upload     *)
(* looks at what is there.                                                 *)
UploadPut(i) ==
    /\ intent[i].pc = "put"
    /\ IF objects[KeyOf(D(i))] = None
       THEN /\ objects' = [objects EXCEPT ![KeyOf(D(i))] = D(i).content]
            /\ Call(i, "open")
       ELSE Call(i, "observe") /\ UNCHANGED objects
    /\ UNCHANGED <<artifacts, captureIndex>>

(* #observeExactObject at the end of upload adopts the object or throws;   *)
(* neither leaves a trace that is read again.                              *)
UploadObserve(i) ==
    /\ intent[i].pc = "observe"
    /\ Call(i, "open")
    /\ UNCHANGED <<objects, artifacts, captureIndex>>

(* finalize up to its commit: allowed after expiry, and whoever uploaded.  *)
FinalizeObserve(i) ==
    /\ intent[i].pc = "open"
    /\ objects[KeyOf(D(i))] = D(i).content
    /\ Call(i, "commit")
    /\ UNCHANGED <<objects, artifacts, captureIndex>>

(* The commit records a new row, rather than a duplicate attempt or a hash *)
(* divergence of a known capture, or an artifact identity already taken.   *)
Records(i) ==
    /\ captureIndex[D(i).capture] = None
    /\ artifacts[D(i).artifact] = None

(* Mutant of commitVerifiedDurability: a divergent retake replaces the row *)
(* of its capture.                                                         *)
commitReplacing(i) ==
    /\ intent[i].pc = "commit"
    /\ IF artifacts[D(i).artifact] = None
       THEN /\ artifacts' = [artifacts EXCEPT ![D(i).artifact] = D(i)]
            /\ captureIndex' = [captureIndex EXCEPT ![D(i).capture] = D(i).artifact]
       ELSE UNCHANGED <<artifacts, captureIndex>>
    /\ Call(i, "open")
    /\ UNCHANGED objects

commitVerifiedDurability(i) ==
    /\ intent[i].pc = "commit"
    /\ IF Records(i)
       THEN /\ artifacts' = [artifacts EXCEPT ![D(i).artifact] = D(i)]
            /\ captureIndex' = [captureIndex EXCEPT ![D(i).capture] = D(i).artifact]
       ELSE UNCHANGED <<artifacts, captureIndex>>
    /\ Call(i, "open")
    /\ UNCHANGED objects

(* The call dies between two awaits: a crash, a lost connection.           *)
CallLost(i) ==
    /\ intent[i].pc \in {"put", "observe", "commit"}
    /\ Call(i, "open")
    /\ UNCHANGED <<objects, artifacts, captureIndex>>

(* Every step but the commit. *)
SyncStep(i) ==
    \/ \E d \in Descriptors : issueUploadIntent(i, d)
    \/ UploadHead(i) \/ UploadPut(i) \/ UploadObserve(i)
    \/ FinalizeObserve(i) \/ CallLost(i)

SNext == \E i \in Intents : SyncStep(i) \/ commitVerifiedDurability(i)

SSpec == SInit /\ [][SNext]_svars
-----------------------------------------------------------------------------
STypeOK ==
    /\ intent \in [Intents -> IntentRecord]
    /\ objects \in [Keys -> Contents \cup {None}]
    /\ artifacts \in [Artifacts -> Descriptors \cup {None}]
    /\ captureIndex \in [Captures -> Artifacts \cup {None}]

(* A durable row always has its object, with exactly the bytes the row     *)
(* names, however many uploads raced for the key, and its capture points   *)
(* back to it.                                                             *)
DurableIsExact ==
    \A a \in Artifacts :
        artifacts[a] # None =>
            /\ artifacts[a].artifact = a
            /\ objects[KeyOf(artifacts[a])] = artifacts[a].content
            /\ captureIndex[artifacts[a].capture] = a

(* A capture keeps the artifact it was first made durable with, and the    *)
(* artifact its row, whatever is retaken, retried or raced afterwards.     *)
CaptureKeepsArtifact ==
    [][/\ \A c \in Captures : captureIndex[c] # None => captureIndex'[c] = captureIndex[c]
       /\ \A a \in Artifacts : artifacts[a] # None => artifacts'[a] = artifacts[a]]_svars
============================================================================
