------------------------------ MODULE Capture ------------------------------
(***************************************************************************)
(* Local capture on the inspector's device: the capture coordinator, the   *)
(* SQLite ledger, the native durable-file module (Kotlin and Swift agree)  *)
(* and the startup recovery of apps/mobile.  A capture crosses two         *)
(* resources, the file system and the ledger, and the app may be killed or *)
(* lose power between any two steps of either.                             *)
(*                                                                         *)
(* An SQLite transaction is atomic and durable; one that throws changes    *)
(* nothing.  Every capture has its own identity (randomUUID).  A capture   *)
(* that is blocked before an identity is reserved changes nothing.  Left   *)
(* out: the event log, the queue row, which is inserted with the artifact  *)
(* row, and everything that is only shown.                                 *)
(***************************************************************************)
EXTENDS Naturals

CONSTANT Captures

VARIABLES phase,        \* where the app is
          mem,          \* #intents: the state the running app shows
          rows,         \* the ledger's tables
          file,         \* the capture directory
          unsynced,     \* captures with directory entries not yet synced
          quarantined,  \* captures with a residue in quarantine
          call,         \* the coordinator call and the native call it made
          told,         \* what the inspector was told last
          observed,     \* what the scan of this start found
          recovery,     \* what recovery has left to do
          damaged       \* captures whose file was damaged from outside

disk == <<file, unsynced, quarantined, damaged>>
cvars == <<phase, mem, rows, disk, call, told, observed, recovery>>

(* What a file holds: all the bytes of a photo or voice note, none of      *)
(* them, or some of them or others.  A hash tells these apart.             *)
Contents == {"whole", "empty", "torn"}
Files == [partial : Contents \cup {"none"}, final : Contents \cup {"none"}]
NoFile == [partial |-> "none", final |-> "none"]

(* no_residue is the state failed with the code no_file_residue.           *)
IntentStates ==
    {"pending", "durable", "quarantined", "failed", "no_residue", "evidence_at_risk"}
Rows == [intent   : IntentStates \cup {"none"},
         artifact : Contents \cup {"none"},     \* its hash
         ack      : BOOLEAN]                    \* capture_acknowledgements

Calls == [pc     : {"idle", "persist", "acknowledge", "ended"},
          native : {"none", "start", "copying", "synced", "renamed",
                    "done", "unsupported", "error"},
          source : Contents]
NoCall == [pc |-> "idle", native |-> "none", source |-> "whole"]

NothingToDo == [todo |-> {}, moves |-> {}]

CaptureInit ==
    /\ phase = "down"
    /\ mem = [c \in Captures |-> "none"]
    /\ rows = [c \in Captures |-> [intent |-> "none", artifact |-> "none", ack |-> FALSE]]
    /\ file = [c \in Captures |-> NoFile]
    /\ unsynced = {} /\ quarantined = {} /\ damaged = {}
    /\ call = [c \in Captures |-> NoCall]
    /\ told = [c \in Captures |-> "nothing"]
    /\ observed = [c \in Captures |-> NoFile]
    /\ recovery = NothingToDo
-----------------------------------------------------------------------------
(* SQLiteCaptureLedger *)
markIntent(c, state) ==
    /\ rows' = IF state = "acknowledged" THEN [rows EXCEPT ![c].ack = TRUE]
                                         ELSE [rows EXCEPT ![c].intent = state]
    /\ mem' = [mem EXCEPT ![c] = state]

commitDurableCapture(c, content) ==
    /\ content # "empty"                        \* assertArtifact
    /\ rows[c].artifact = "none"
    /\ rows' = [rows EXCEPT ![c].artifact = content, ![c].intent = "durable"]
    /\ mem' = [mem EXCEPT ![c] = "durable"]

(* An acknowledgement receipt hides the state of the intent row. *)
hydrate == [c \in Captures |-> IF rows[c].ack THEN "acknowledged" ELSE rows[c].intent]
-----------------------------------------------------------------------------
(* The coordinator's capture() *)
BeginIntent(c) ==
    /\ phase = "ready" /\ call[c].pc = "idle" /\ rows[c].intent = "none"
    /\ \E source \in {"whole", "empty"} :
          call' = [call EXCEPT ![c] = [pc |-> "persist", native |-> "start", source |-> source]]
    /\ markIntent(c, "pending")
    /\ UNCHANGED <<phase, disk, told, observed, recovery>>

(* capture() returns failed or throws: not acknowledged. *)
EndsFailed(c) ==
    /\ told' = [told EXCEPT ![c] = "not_acknowledged"]
    /\ call' = [call EXCEPT ![c].pc = "ended"]
    /\ UNCHANGED <<phase, disk, observed, recovery>>

(* A ledger write throws: beginIntent, a commit or a markIntent. *)
LedgerFails(c) ==
    /\ phase = "ready"
    /\ \/ call[c].pc = "idle" /\ rows[c].intent = "none"
       \/ call[c].pc \in {"persist", "acknowledge"}
    /\ EndsFailed(c)
    /\ UNCHANGED <<rows, mem>>

(* persistCapture reports an error, or the bridge rejects while the native *)
(* side may be anywhere and carry on.                                      *)
PersistFails(c) ==
    /\ call[c].pc = "persist"
    /\ markIntent(c, "failed")
    /\ EndsFailed(c)

PersistUnsupported(c) ==
    /\ call[c].pc = "persist" /\ call[c].native = "unsupported"
    /\ markIntent(c, "evidence_at_risk")
    /\ EndsFailed(c)

(* The hash is the one of the bytes read from the source. *)
CommitLedger(c) ==
    /\ call[c].pc = "persist" /\ call[c].native = "done"
    /\ commitDurableCapture(c, call[c].source)
    /\ call' = [call EXCEPT ![c].pc = "acknowledge"]
    /\ UNCHANGED <<phase, disk, told, observed, recovery>>

Acknowledge(c) ==
    /\ call[c].pc = "acknowledge"
    /\ markIntent(c, "acknowledged")
    /\ told' = [told EXCEPT ![c] = "acknowledged"]
    /\ call' = [call EXCEPT ![c].pc = "ended"]
    /\ UNCHANGED <<phase, disk, observed, recovery>>
-----------------------------------------------------------------------------
(* persistCapture of the native module *)
Native(c, from, to) ==
    /\ call[c].native = from
    /\ call' = [call EXCEPT ![c].native = to]
    /\ UNCHANGED <<phase, mem, rows, quarantined, damaged, told, observed, recovery>>

CreatePartial(c) ==
    /\ file[c].final = "none"
    /\ Native(c, "start", "copying")
    /\ file' = [file EXCEPT ![c].partial = "torn"]
    /\ unsynced' = unsynced \cup {c}

(* The copy is complete, synced and made read-only. *)
SyncPartial(c) ==
    /\ Native(c, "copying", "synced")
    /\ file' = [file EXCEPT ![c].partial = call[c].source]
    /\ UNCHANGED unsynced

AtomicRename(c) ==
    /\ Native(c, "synced", "renamed")
    /\ file' = [file EXCEPT ![c] = [partial |-> "none", final |-> file[c].partial]]
    /\ unsynced' = unsynced \cup {c}

(* Mutant of SynchronizeDirectory: nothing is synced. *)
SynchronizeNothing(c) ==
    /\ Native(c, "renamed", "done")
    /\ UNCHANGED <<file, unsynced>>

(* One fsync of the directory covers every entry in it. *)
SynchronizeDirectory(c) ==
    /\ Native(c, "renamed", "done")
    /\ unsynced' = {}
    /\ UNCHANGED file

(* The result type also knows a platform that cannot sync a directory.     *)
SyncUnsupported(c) ==
    /\ Native(c, "renamed", "unsupported")
    /\ UNCHANGED <<file, unsynced>>

(* An error deletes the partial, if it can, and keeps a published final.   *)
NativeFails(c) ==
    /\ \E stage \in {"start", "copying", "synced", "renamed"} : Native(c, stage, "error")
    /\ \/ file' = [file EXCEPT ![c].partial = "none"]
       \/ UNCHANGED file
    /\ UNCHANGED unsynced
-----------------------------------------------------------------------------
(* Startup: hydrate, then scanCaptureResidues, which skips a final it      *)
(* cannot read and syncs the directory.                                    *)
Launch ==
    /\ phase = "down"
    /\ mem' = hydrate
    /\ \E skipped \in SUBSET {c \in Captures : file[c].final # "none"} :
          observed' = [c \in Captures |->
                         IF c \in skipped THEN [file[c] EXCEPT !.final = "none"] ELSE file[c]]
    /\ unsynced' = {}
    /\ phase' = "recover"
    /\ recovery' =
          [todo  |-> {c \in Captures : rows[c].intent # "none"},
           moves |-> {m \in Captures \X {"partial", "final"} :
                        /\ rows[m[1]].intent = "none"
                        /\ observed'[m[1]][m[2]] # "none"}]
    /\ UNCHANGED <<rows, file, quarantined, damaged, call, told>>

Done(c, moves) ==
    /\ recovery' = [todo |-> recovery.todo \ {c}, moves |-> recovery.moves \cup moves]
    /\ UNCHANGED <<phase, disk, call, told, observed>>

(* reconcileCaptureStorage for one intent; seen is what the scan found.    *)
QuarantineFinal(c, seen) ==
    /\ seen.final # "none"
    /\ seen.final = "empty" \/ rows[c].artifact \notin {"none", seen.final}
    /\ markIntent(c, "evidence_at_risk")
    /\ Done(c, {<<c, "final">>})

(* Mutant of Adopt: the adopted final is not acknowledged. *)
AdoptUnacknowledged(c, seen) ==
    /\ seen.final \notin {"none", "empty"}
    /\ rows[c].artifact = "none"
    /\ commitDurableCapture(c, seen.final)
    /\ Done(c, {})

(* The acknowledgement of an adopted final is the next step. *)
Adopt(c, seen) ==
    /\ seen.final \notin {"none", "empty"}
    /\ rows[c].artifact = "none"
    /\ commitDurableCapture(c, seen.final)
    /\ UNCHANGED <<phase, disk, call, told, observed, recovery>>

ResumeAcknowledgement(c, seen) ==
    /\ seen.final \notin {"none", "empty"}
    /\ rows[c].artifact = seen.final
    /\ IF mem[c] = "acknowledged" THEN UNCHANGED <<rows, mem>>
                                  ELSE markIntent(c, "acknowledged")
    /\ Done(c, {})

QuarantinePartial(c, seen) ==
    /\ seen.final = "none" /\ seen.partial # "none"
    /\ markIntent(c, IF rows[c].artifact = "none" THEN "quarantined" ELSE "evidence_at_risk")
    /\ Done(c, {<<c, "partial">>})

NothingFound(c, seen) ==
    /\ seen = NoFile
    /\ markIntent(c, IF rows[c].artifact = "none" THEN "no_residue" ELSE "evidence_at_risk")
    /\ Done(c, {})

Reconcile(c) ==
    /\ phase = "recover" /\ c \in recovery.todo
    /\ LET seen == observed[c]
       IN  \/ QuarantineFinal(c, seen) \/ Adopt(c, seen) \/ ResumeAcknowledgement(c, seen)
           \/ QuarantinePartial(c, seen) \/ NothingFound(c, seen)

(* quarantineCaptureResidue, after every intent has been reconciled.       *)
Quarantine(m) ==
    /\ phase = "recover" /\ recovery.todo = {} /\ m \in recovery.moves
    /\ file' = [file EXCEPT ![m[1]][m[2]] = "none"]
    /\ quarantined' = quarantined \cup {m[1]}
    /\ unsynced' = {}
    /\ recovery' = [recovery EXCEPT !.moves = @ \ {m}]
    /\ UNCHANGED <<phase, mem, rows, damaged, call, told, observed>>

Ready ==
    /\ phase = "recover" /\ recovery = NothingToDo
    /\ phase' = "ready"
    /\ UNCHANGED <<mem, rows, disk, call, told, observed, recovery>>

(* Any step of initialise() throws: capture stays disabled. *)
StartupFails ==
    /\ phase = "recover"
    /\ phase' = "terminal"
    /\ recovery' = NothingToDo
    /\ UNCHANGED <<mem, rows, disk, call, told, observed>>
-----------------------------------------------------------------------------
ProcessGone ==
    /\ phase # "down"
    /\ phase' = "down"
    /\ mem' = [c \in Captures |-> "none"]
    /\ call' = [c \in Captures |-> NoCall]
    /\ observed' = [c \in Captures |-> NoFile]
    /\ recovery' = NothingToDo
    /\ UNCHANGED <<rows, quarantined, damaged, told>>

(* A kill leaves the files as they are. *)
Killed == ProcessGone /\ UNCHANGED <<file, unsynced>>

(* Power loss may undo a rename or a creation that was not synced.         *)
AfterPowerLoss(f) ==
    {f, NoFile} \cup
    (IF f.final = "none" THEN {} ELSE {[partial |-> f.final, final |-> "none"]})

PowerLost ==
    /\ ProcessGone
    /\ file' \in [Captures -> Files]
    /\ \A c \in Captures :
          file'[c] \in IF c \in unsynced THEN AfterPowerLoss(file[c]) ELSE {file[c]}
    /\ unsynced' = {}

(* A final is deleted, truncated or altered while the app is not running.  *)
Damage(c) ==
    /\ phase = "down" /\ c \notin damaged /\ file[c].final # "none"
    /\ \E left \in {"none", "empty", "torn"} : file' = [file EXCEPT ![c].final = left]
    /\ damaged' = damaged \cup {c}
    /\ UNCHANGED <<phase, mem, rows, unsynced, quarantined, call, told, observed, recovery>>

CoordinatorStep(c) ==
    \/ BeginIntent(c) \/ LedgerFails(c) \/ PersistFails(c) \/ PersistUnsupported(c)
    \/ CommitLedger(c) \/ Acknowledge(c)

NativeStep(c) ==
    \/ CreatePartial(c) \/ SyncPartial(c) \/ AtomicRename(c)
    \/ SynchronizeDirectory(c) \/ SyncUnsupported(c) \/ NativeFails(c)

CaptureNext ==
    \/ \E c \in Captures : CoordinatorStep(c) \/ NativeStep(c) \/ Reconcile(c) \/ Damage(c)
    \/ \E m \in Captures \X {"partial", "final"} : Quarantine(m)
    \/ Launch \/ Ready \/ StartupFails \/ Killed \/ PowerLost

CaptureSpec == CaptureInit /\ [][CaptureNext]_cvars
-----------------------------------------------------------------------------
CaptureTypeOK ==
    /\ phase \in {"down", "recover", "ready", "terminal"}
    /\ mem \in [Captures -> IntentStates \cup {"none", "acknowledged"}]
    /\ rows \in [Captures -> Rows]
    /\ file \in [Captures -> Files] /\ observed \in [Captures -> Files]
    /\ unsynced \subseteq Captures /\ quarantined \subseteq Captures
    /\ damaged \subseteq Captures
    /\ call \in [Captures -> Calls]
    /\ told \in [Captures -> {"nothing", "acknowledged", "not_acknowledged"}]
    /\ recovery \in [todo : SUBSET Captures, moves : SUBSET (Captures \X {"partial", "final"})]

(* Missing or corrupt evidence is never acknowledged: once the app is      *)
(* ready, a capture it shows as acknowledged has its final file, with the  *)
(* bytes whose hash the artifact row holds, whatever happened to the file  *)
(* while the app was down.                                                 *)
AcknowledgedIsBacked ==
    \A c \in Captures :
        (phase = "ready" /\ mem[c] = "acknowledged") =>
            /\ file[c].final = rows[c].artifact
            /\ rows[c].artifact \notin {"none", "empty"}

(* A committed artifact row always stands for the complete original: from  *)
(* the commit on, kills and power losses included, the whole file is in    *)
(* its final place.                                                        *)
CommittedIsWhole ==
    \A c \in Captures :
        (rows[c].artifact # "none" /\ c \notin damaged) =>
            rows[c].artifact = "whole" /\ file[c].final = "whole"

(* An earlier capture whose final the scan of this start skipped. *)
Overlooked(c) ==
    call[c].pc = "idle" /\ observed[c].final = "none" /\ file[c].final # "none"

(* What the inspector was told is kept: a capture reported as saved is     *)
(* acknowledged in every later session, unless its file was damaged from   *)
(* outside or could not be read at this start.                             *)
AcknowledgementSurvives ==
    \A c \in Captures :
        (phase = "ready" /\ told[c] = "acknowledged" /\ c \notin damaged) =>
            mem[c] = "acknowledged" \/ Overlooked(c)

(* Every interrupted capture has one outcome before capturing is enabled:  *)
(* its valid final is adopted and acknowledged, or no file of it is left   *)
(* in the capture directory and the ledger says so.                        *)
RestartSettles ==
    \A c \in Captures :
        (phase = "ready" /\ call[c].pc = "idle" /\ ~Overlooked(c)) =>
            /\ mem[c] \notin {"pending", "durable"}
            /\ file[c].partial = "none"
            /\ (file[c].final # "none") <=> (mem[c] = "acknowledged")

(* A capture the inspector was told is saved is kept and backed by its     *)
(* file through kills, power losses, failing writes and restarts           *)
(* (capture-coordinator.ts:115-250, sqlite-capture-ledger.ts:320).         *)
AcknowledgedIsKept == AcknowledgedIsBacked /\ AcknowledgementSurvives

(* Nothing half-done is left behind: a committed row stands for the whole  *)
(* original at every moment, and a start settles every interrupted capture *)
(* before capturing is enabled (reconciliation.ts:193).                    *)
RestartIsClean == CaptureTypeOK /\ CommittedIsWhole /\ RestartSettles

(* reconciliation.ts: an intent discarded as "no_file_residue" has no file *)
(* residue.                                                                *)
DiscardedHasNoResidue ==
    \A c \in Captures : mem[c] = "no_residue" => c \notin quarantined
============================================================================
