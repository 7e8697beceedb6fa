---------------------------- MODULE EventHistory ----------------------------
(***************************************************************************)
(* The event history of packages/domain: one aggregate's hash-chained log  *)
(* of current (v1) and first-prototype (v0) events, verified and upcast    *)
(* before anything is projected from it, and checkpoints that are compared *)
(* with the raw history and never replace it.  The store between writing   *)
(* and replay may lose, reorder, duplicate or alter lines, and writers go  *)
(* on writing after it did.  A hash is modelled by what it is the hash of: *)
(* the versions and bodies from the first event of its chain on.           *)
(***************************************************************************)
EXTENDS Naturals, Sequences, FiniteSets

CONSTANTS
    Bodies,     \* event bodies that are written, see Body
    MaxEvents,  \* bound: lines, and different chains written
    MaxDamage   \* bound: damages to the store

(* A body: its schema version, its event name, and its module as written   *)
(* ("none" if it has none).  v0 calls the timber-pest module "pest".       *)
ModuleEvents == {"inspection.module_started", "inspection.module_completed",
                 "approval.module_approved", "amendment.module_amended",
                 "approval.module_withdrawn"}
PlainEvents == {"booking.created", "booking.cancelled", "inspection.started",
                "inspection.completed", "report.package_confirmed",
                "report.package_cancelled", "delivery.delivered",
                "recipient_access.grant_issued", "recipient_access.grant_revoked",
                "system.deletion_suppressed", "system.compaction_checkpoint"}
LegacyNames == {"inspection.module_signed_off", "inspection.module_reopened",
                "delivery.package_voided"}
Body == [schema : {0, 1}, name : ModuleEvents \cup PlainEvents \cup LegacyNames,
         module : {"none", "building", "timber_pest", "pest"}]

ASSUME HistoryAssumption ==
    Bodies \subseteq Body /\ MaxEvents \in Nat /\ MaxDamage \in Nat

VARIABLES
    issued,      \* history: the hashes that writers ever made
    stored,      \* the store's lines: [body, version, previous, hash]
    damage,      \* damages so far
    checkpoint   \* the last checkpoint, or NoCheckpoint; over is history:
                 \* the bodies it was taken over

historyVars == <<issued, stored, damage, checkpoint>>

NoCheckpoint == [through |-> 0]
NoHash == <<>>

HistoryInit == /\ issued = {} /\ stored = <<>> /\ damage = 0
               /\ checkpoint = NoCheckpoint

-----------------------------------------------------------------------------
(* A writer chains its event to the previous event it is given, null (0)   *)
(* for none.  That is the store's last line, an earlier one if its copy is *)
(* stale, and whatever line is last after a loss: only the version and the *)
(* aggregate of that line are looked at.                                   *)
Write(b, i) ==
    LET version == IF i = 0 THEN 1 ELSE stored[i].version + 1
        previous == IF i = 0 THEN NoHash ELSE stored[i].hash
        hash == Append(previous, [version |-> version, body |-> b])
    IN  /\ Cardinality(issued) < MaxEvents /\ Len(stored) < MaxEvents
        /\ issued' = issued \cup {hash}
        /\ stored' = Append(stored, [body |-> b, version |-> version,
                                     previous |-> previous, hash |-> hash])
        /\ UNCHANGED <<damage, checkpoint>>

(* The previous event must parse as a v1 event: a v0 line has no v1        *)
(* successor.                                                              *)
createEventEnvelope(b, i) ==
    /\ b.schema = 1
    /\ i # 0 => stored[i].body.schema = 1
    /\ Write(b, i)

createLegacyEventEnvelopeV0(b, i) == b.schema = 0 /\ Write(b, i)

(* What can happen to the store.                                           *)
Damage(lines) ==
    /\ damage < MaxDamage /\ damage' = damage + 1 /\ stored' = lines
    /\ lines # stored
    /\ UNCHANGED <<issued, checkpoint>>

Drop(i) == Damage(SubSeq(stored, 1, i - 1) \o SubSeq(stored, i + 1, Len(stored)))
Swap(i) == i < Len(stored) /\
           Damage([stored EXCEPT ![i] = stored[i + 1], ![i + 1] = stored[i]])
Duplicate(i) == Damage(SubSeq(stored, 1, i) \o SubSeq(stored, i, Len(stored)))
Alter(i, b) == Damage([stored EXCEPT ![i].body = b])
Renumber(i, v) == Damage([stored EXCEPT ![i].version = v])

-----------------------------------------------------------------------------
(* verifyStoredEventChain and verifyEventChain.                            *)

verifyStoredEvent(e) ==
    e.hash = Append(e.previous, [version |-> e.version, body |-> e.body])

verifyStoredEventChain(lines) ==
    \A i \in DOMAIN lines :
       /\ verifyStoredEvent(lines[i])
       /\ IF i = 1 THEN lines[1].version = 1 /\ lines[1].previous = NoHash
          ELSE /\ lines[i].version = lines[i - 1].version + 1
               /\ lines[i].previous = lines[i - 1].hash

(* upcastLegacyV0; a v1 body is taken as it is.                            *)
upcast(b) ==
    IF b.schema = 1 THEN b
    ELSE [schema |-> 1,
          name |-> CASE b.name = "inspection.module_signed_off" -> "approval.module_approved"
                     [] b.name = "inspection.module_reopened" -> "amendment.module_amended"
                     [] b.name = "delivery.package_voided" -> "report.package_cancelled"
                     [] OTHER -> b.name,
          module |-> IF b.module = "pest" THEN "timber_pest" ELSE b.module]

upcastEventStream(lines) == [i \in DOMAIN lines |-> upcast(lines[i].body)]

-----------------------------------------------------------------------------
(* The projection.  An approval is named by the version of its event.      *)

initialModule == [status |-> "not_started", currentApproval |-> 0,
                  amendmentCount |-> 0]
initialProjection ==
    [revision |-> 0, booking |-> "none", inspection |-> "not_started",
     modules |-> [m \in {"building", "timber_pest"} |-> initialModule],
     package |-> "none", delivery |-> "not_delivered", access |-> "none",
     deletion |-> "active", checkpoints |-> 0]

(* metadataModule: a module event needs one of the two modules.            *)
replayable(b) == b.name \in ModuleEvents => b.module \in {"building", "timber_pest"}

updateModule(m, b, version) ==
    CASE b.name = "inspection.module_started" ->
            [m EXCEPT !.status = "inspection_in_progress"]
      [] b.name = "inspection.module_completed" ->
            [m EXCEPT !.status = "inspection_completed"]
      [] b.name = "approval.module_approved" ->
            [m EXCEPT !.status = "approved", !.currentApproval = version]
      [] b.name = "amendment.module_amended" ->
            [m EXCEPT !.status = "amendment_pending", !.currentApproval = 0,
                      !.amendmentCount = @ + 1]
      [] b.name = "approval.module_withdrawn" ->
            [m EXCEPT !.status = "withdrawn", !.currentApproval = 0]

applyEvent(prior, b, version) ==
    LET p == [prior EXCEPT !.revision = version] IN
    CASE b.name \in ModuleEvents ->
            [p EXCEPT !.modules[b.module] = updateModule(@, b, version)]
      [] b.name = "booking.created" -> [p EXCEPT !.booking = "booked"]
      [] b.name = "booking.cancelled" -> [p EXCEPT !.booking = "cancelled"]
      [] b.name = "inspection.started" -> [p EXCEPT !.inspection = "in_progress"]
      [] b.name = "inspection.completed" -> [p EXCEPT !.inspection = "completed"]
      [] b.name = "report.package_confirmed" -> [p EXCEPT !.package = "confirmed"]
      [] b.name = "report.package_cancelled" -> [p EXCEPT !.package = "cancelled"]
      [] b.name = "delivery.delivered" -> [p EXCEPT !.delivery = "delivered"]
      [] b.name = "recipient_access.grant_issued" -> [p EXCEPT !.access = "active"]
      [] b.name = "recipient_access.grant_revoked" -> [p EXCEPT !.access = "revoked"]
      [] b.name = "system.deletion_suppressed" ->
            [p EXCEPT !.deletion = "deletion_suppressed"]
      [] b.name = "system.compaction_checkpoint" -> [p EXCEPT !.checkpoints = @ + 1]
      [] OTHER -> p

(* reduceEvents over events k + 1 .. n, from a seed.                       *)
reduceEvents(events, k, n, seed) ==
    LET after[i \in k .. n] ==
            IF i = k THEN seed ELSE applyEvent(after[i - 1], events[i], i)
    IN  after[n]

Verified == verifyStoredEventChain(stored)
             /\ \A i \in DOMAIN stored : replayable(upcast(stored[i].body))

(* A checkpoint may be taken at any version of a history that verifies.    *)
createReplayCheckpoint(n) ==
    /\ Verified /\ n \in DOMAIN stored
    /\ checkpoint' = [through |-> n, hash |-> stored[n].hash,
                      projection |-> reduceEvents(upcastEventStream(stored), 0, n,
                                                  initialProjection),
                      over |-> [i \in 1 .. n |-> stored[i].body]]
    /\ UNCHANGED <<issued, stored, damage>>

(* replayInspectionProjection: a checkpoint must lie in the history, match *)
(* the raw hash at its version and the recomputed prefix; then it seeds    *)
(* the rest.                                                               *)
(* Mutant: only the projections are compared.                              *)
checkpointProjects(c) ==
    /\ c.through \in DOMAIN stored
    /\ reduceEvents(upcastEventStream(stored), 0, c.through, initialProjection)
          = c.projection
checkpointMatches(c) ==
    /\ c.through \in DOMAIN stored
    /\ stored[c.through].hash = c.hash
    /\ reduceEvents(upcastEventStream(stored), 0, c.through, initialProjection)
          = c.projection

Accepted == Verified /\ stored # <<>> /\ (checkpoint = NoCheckpoint
                                          \/ checkpointMatches(checkpoint))

replayInspectionProjection ==
    LET events == upcastEventStream(stored) IN
    IF checkpoint = NoCheckpoint
    THEN reduceEvents(events, 0, Len(events), initialProjection)
    ELSE reduceEvents(events, checkpoint.through, Len(events), checkpoint.projection)

HistoryNext ==
    \/ \E b \in Bodies, i \in 0 .. Len(stored) :
          createEventEnvelope(b, i) \/ createLegacyEventEnvelopeV0(b, i)
    \/ \E i \in DOMAIN stored :
          \/ Drop(i) \/ Swap(i) \/ Duplicate(i) \/ createReplayCheckpoint(i)
          \/ \E b \in Bodies : Alter(i, b)
          \/ \E v \in 1 .. MaxEvents : Renumber(i, v)

HistorySpec == HistoryInit /\ [][HistoryNext]_historyVars

-----------------------------------------------------------------------------
(* A history that verifies is, from its first to its last line, one chain  *)
(* that writers made, each event as the successor of the one before it: no *)
(* line is missing inside, moved, repeated, altered or of another chain    *)
(* (upcasters.ts:153-201).  It need not be the chain that was last there:  *)
(* lines lost from the end leave no trace, and what is written after such  *)
(* a loss verifies too.                                                    *)
VerifiedIsOneChain ==
    (verifyStoredEventChain(stored) /\ stored # <<>>) =>
        [i \in DOMAIN stored |-> [version |-> i, body |-> stored[i].body]] \in issued

(* What a checkpoint adds: a replay that starts from one is given a        *)
(* history that begins with exactly the events the checkpoint was taken    *)
(* over, and answers what a replay of all of it answers; a history that    *)
(* lost some of them, or has others in their place, is refused             *)
(* (replay.ts:50-103).                                                     *)
CheckpointIsOfThisHistory ==
    (Accepted /\ checkpoint # NoCheckpoint) =>
        /\ \A i \in 1 .. checkpoint.through : stored[i].body = checkpoint.over[i]
        /\ replayInspectionProjection =
              reduceEvents(upcastEventStream(stored), 0, Len(stored), initialProjection)

(* Whatever losses, damage, stale writers and checkpoints a history went   *)
(* through, a reader is given one written chain, and the chain of its      *)
(* checkpoint (upcasters.ts:153-201, replay.ts:50-103).                    *)
HistoryIsWhole == VerifiedIsOneChain /\ CheckpointIsOfThisHistory
=============================================================================
