----------------------------- MODULE FieldWork -----------------------------
(***************************************************************************)
(* The field application (apps/mobile/App.tsx) above the capture ledger:   *)
(* investigations, the field session and the review workflow.  Every       *)
(* button starts an asynchronous handler; handlers interleave at each      *)
(* await.  A handler keeps the session and the review item that were on    *)
(* screen when it was pressed, reads the refs when it resumes, saves an    *)
(* investigation with compare-and-set and the session through one queue of *)
(* writes.  The app may be killed at any time and then starts from what is *)
(* stored.  A screen is taken to show the refs' current values (a render   *)
(* is immediate); an identity is the number of the press that drew it.      *)
(***************************************************************************)
EXTENDS Naturals, Sequences

CONSTANTS
    Handlers,           \* handlers that can be in flight at once
    Areas,              \* areas of the job, in the order of the button
    Commissioned,       \* commissioned modules, one review item each
    MaxPresses,         \* bound: buttons pressed
    MaxMishaps          \* bound: kills and failed writes

ASSUME FieldAssumption ==
    /\ Areas \in Seq(STRING) /\ Areas # <<>>
    /\ MaxPresses \in Nat /\ MaxMishaps \in Nat

VARIABLES
    app,       \* "down", "restarted" (nothing pressed yet) or "running"
    sess,      \* sessionRef, and the session on screen
    wf,        \* workflowRef, and the workflow on screen
    stored,    \* the ledger's field session
    writes,    \* sessionWrites: session writes not yet done
    doing,     \* handler -> what it does
    inv,       \* investigation snapshots in the local database
    presses,   \* buttons pressed; the identities a handler draws are this
    mishaps,
    taken,     \* history: sequence numbers in the order captures used them
    linked,    \* history: links the inspector was told of
    saved      \* history: the last workflow the inspector was told is saved

fieldVars == <<app, sess, wf, stored, writes, doing, inv, presses, mishaps,
               taken, linked, saved>>

Captured == {"photo", "voice"}
None == [status |-> "none"]
NoManifest == {}
Idle == [op |-> "none", pc |-> "idle", arg |-> "none", n |-> 0, inv |-> 0,
         session |-> 0, snap |-> None, item |-> 0]

(* createSyntheticReviewItems: drafts whose exact version passed; passed   *)
(* is the version a verifier pass binds, 0 while it is pending.            *)
FirstItem == [version |-> 1, origin |-> "ai", passed |-> 1,
              status |-> "awaiting_decision"]
initialFieldWorkflow ==
    [revision |-> 1, status |-> "none", approved |-> {},
     items |-> [m \in Commissioned |-> FirstItem],
     delivery |-> "waiting_for_approval", manifest |-> NoManifest]
initialDemoSession == [area |-> Areas[1], active |-> 0, last |-> 0, seq |-> 1,
                       wf |-> initialFieldWorkflow]

FieldInit ==
    /\ app = "restarted" /\ sess = initialDemoSession /\ wf = sess.wf
    /\ stored = sess /\ writes = <<>>
    /\ doing = [c \in Handlers |-> Idle]
    /\ inv = [i \in 1 .. MaxPresses |-> None] /\ presses = 0
    /\ mishaps = 0 /\ taken = <<>> /\ linked = {} /\ saved = wf

-----------------------------------------------------------------------------
(* Saving.  The session on screen changes at once, the write is queued.    *)

(* Mutant: the sequence number of the saved session is not raised.         *)
asGiven(next) == next
normalised(next) == [next EXCEPT !.seq = IF next.seq > sess.seq THEN next.seq
                                         ELSE sess.seq]

Queued(c, next) == [by |-> c, session |-> normalised(next)]

saveSession(c, next, waiting) ==
    /\ sess' = normalised(next)
    /\ writes' = Append(waiting, Queued(c, next))

saveWorkflow(c, patched, waiting) ==
    saveSession(c, [sess EXCEPT !.wf = [patched EXCEPT !.revision = wf.revision + 1]],
                waiting)

Goes(c, pc) == doing' = [doing EXCEPT ![c] = [Idle EXCEPT !.op = doing[c].op,
                              !.arg = doing[c].arg, !.n = doing[c].n, !.pc = pc]]
Ends(c) == doing' = [doing EXCEPT ![c] = Idle]
Mishap == mishaps < MaxMishaps /\ mishaps' = mishaps + 1

(* saveFieldSession of the ledger: a changed workflow is the next revision *)
(* of the stored one.                                                      *)
(* Mutant: any workflow may replace the stored one.                        *)
replacesAny(next) == TRUE
appendsOneRevision(next) ==
    IF next.wf.revision = stored.wf.revision THEN next.wf = stored.wf
    ELSE next.wf.revision = stored.wf.revision + 1

WithStatus(status) == [wf EXCEPT !.status = status]

finishedStatus(arg) == IF arg = "candidate" THEN "completed_findings"
                       ELSE "completed_no_reportable_finding"

(* What a handler does once its own write is done.                         *)
afterWrite(c, session) ==
    LET op == doing[c].op
    IN  CASE doing[c].pc = "reserving" ->
               /\ Goes(c, "capturing") /\ writes' = Tail(writes)
               /\ UNCHANGED <<sess, wf, saved>>
          [] doing[c].pc = "pointing" /\ op = "area" ->
               Ends(c) /\ writes' = Tail(writes) /\ UNCHANGED <<sess, wf, saved>>
          [] doing[c].pc = "pointing" /\ op # "area" ->
               /\ Goes(c, "closing")
               /\ saveWorkflow(c, WithStatus(IF op = "start" THEN "active"
                                             ELSE finishedStatus(doing[c].arg)),
                               Tail(writes))
               /\ UNCHANGED <<wf, saved>>
          [] doing[c].pc = "closing" ->
               /\ Ends(c) /\ writes' = Tail(writes)
               /\ wf' = session.wf /\ saved' = session.wf /\ UNCHANGED sess

(* The write at the head of the queue: done, refused, or failed.           *)
sessionWrite ==
    /\ writes # <<>>
    /\ LET next == Head(writes).session
           c == Head(writes).by
       IN  \/ /\ appendsOneRevision(next) /\ stored' = next
              /\ afterWrite(c, next) /\ UNCHANGED mishaps
           \/ /\ ~appendsOneRevision(next) \/ mishaps < MaxMishaps
              /\ mishaps' = IF appendsOneRevision(next) THEN mishaps + 1 ELSE mishaps
              /\ Ends(c) /\ writes' = Tail(writes)
              /\ UNCHANGED <<stored, sess, wf, saved>>
    /\ UNCHANGED <<app, inv, presses, taken, linked>>

-----------------------------------------------------------------------------
(* The investigation aggregate.                                            *)

Elements(s) == {s[i] : i \in DOMAIN s}

startInvestigation(area) ==
    [status |-> "active", revision |-> 0, area |-> area, evidence |-> <<>>,
     observations |-> {}, sources |-> {}]

advance(s) == [s EXCEPT !.revision = @ + 1]
attachInvestigationEvidence(s, n) == [advance(s) EXCEPT !.evidence = Append(@, n)]
recordInvestigationObservation(s, n) ==
    [advance(s) EXCEPT !.observations = @ \cup {n}]
changeInvestigationArea(s, area) == [advance(s) EXCEPT !.area = area]
pauseInvestigation(s) == [advance(s) EXCEPT !.status = "paused"]
resumeInvestigation(s) == [advance(s) EXCEPT !.status = "active"]
completeInvestigation(s, arg) ==
    [advance(s) EXCEPT !.status = finishedStatus(arg),
                       !.sources = IF arg = "candidate" THEN Elements(s.evidence)
                                   ELSE {}]

nextArea(area) ==
    LET i == CHOOSE k \in DOMAIN Areas : Areas[k] = area
    IN  Areas[(i % Len(Areas)) + 1]

(* What the handler makes of the snapshot it loaded.                       *)
transition(k) ==
    CASE k.op \in Captured  -> attachInvestigationEvidence(k.snap, k.n)
      [] k.op = "note"      -> recordInvestigationObservation(k.snap, k.n)
      [] k.op = "area"      -> changeInvestigationArea(k.snap, nextArea(k.session.area))
      [] k.op = "start"     -> startInvestigation(k.session.area)
      [] k.op = "pause"     -> pauseInvestigation(k.snap)
      [] k.op = "resume"    -> resumeInvestigation(k.snap)
      [] k.op = "finish"    -> completeInvestigation(k.snap, k.arg)

(* assertWritable and the other refusals of the transitions.               *)
permitted(k, s) ==
    CASE k.op \in Captured \cup {"note", "pause"} -> s.status = "active"
      [] k.op = "area"   -> s.status = "active" /\ s.area # nextArea(k.session.area)
      [] k.op = "resume" -> s.status = "paused"
      [] k.op = "finish" -> /\ s.status = "active"
                            /\ \/ k.arg = "no_finding"
                               \/ s.evidence # <<>> \/ s.observations # {}

(* The stored snapshot, verified against its checksum: corruption of the   *)
(* local database is not modelled.                                         *)
loadCheckedSnapshot(i) == inv[i]

(* changeArea saves the session alone when the investigation is finished.  *)
loadActiveInvestigation(c) ==
    LET k == doing[c]
        s == loadCheckedSnapshot(k.inv)
    IN  /\ k.pc = "loading"
        /\ IF permitted(k, s)
           THEN /\ doing' = [doing EXCEPT ![c].pc = "saving", ![c].snap = s]
                /\ UNCHANGED <<sess, writes>>
           ELSE IF k.op = "area" /\ s.status \notin {"active", "paused"}
           THEN /\ Goes(c, "pointing")
                /\ saveSession(c, [k.session EXCEPT !.area = nextArea(@)], writes)
           ELSE Ends(c) /\ UNCHANGED <<sess, writes>>
        /\ UNCHANGED <<app, wf, stored, inv, presses, mishaps, taken, linked, saved>>

(* Mutant: the stored revision is not compared.                            *)
alwaysSaves(k) == TRUE
compareAndSet(k) == IF k.op = "start" THEN inv[k.inv] = None
                    ELSE inv[k.inv].revision = k.snap.revision

saveAggregate(k) == [inv EXCEPT ![k.inv] = transition(k)]

saveInvestigationTransition(c) ==
    LET k == doing[c] IN
    /\ k.pc = "saving"
    /\ \/ /\ compareAndSet(k) /\ UNCHANGED mishaps
          /\ inv' = saveAggregate(k)
          /\ CASE k.op \in Captured \cup {"note"} ->
                    /\ Ends(c) /\ UNCHANGED <<sess, writes>>
                    /\ linked' = linked \cup {[inv |-> k.inv, n |-> k.n,
                                               note |-> k.op = "note"]}
               [] k.op = "area" ->
                    /\ Goes(c, "pointing") /\ UNCHANGED linked
                    /\ saveSession(c, [k.session EXCEPT !.area = nextArea(@)], writes)
               [] k.op = "start" ->
                    /\ Goes(c, "pointing") /\ UNCHANGED linked
                    /\ saveSession(c, [k.session EXCEPT !.active = k.inv], writes)
               [] k.op = "finish" ->
                    /\ Goes(c, "pointing") /\ UNCHANGED linked
                    /\ saveSession(c, [k.session EXCEPT !.active = 0, !.last = k.inv],
                                   writes)
               [] k.op \in {"pause", "resume"} ->
                    /\ Goes(c, "closing") /\ UNCHANGED linked
                    /\ saveWorkflow(c, WithStatus(IF k.op = "pause" THEN "paused"
                                                  ELSE "active"), writes)
       \/ /\ ~compareAndSet(k) \/ mishaps < MaxMishaps
          /\ mishaps' = IF compareAndSet(k) THEN mishaps + 1 ELSE mishaps
          /\ Ends(c) /\ UNCHANGED <<inv, sess, writes, linked>>
    /\ UNCHANGED <<app, wf, stored, presses, taken, saved>>

-----------------------------------------------------------------------------
(* Buttons of the capture view.                                            *)

Pressed(c) == /\ app # "down" /\ doing[c] = Idle /\ app' = "running"
              /\ presses < MaxPresses /\ presses' = presses + 1
Begins(c, k) == doing' = [doing EXCEPT ![c] = k]
Handler(op, arg, pc, n, i) ==
    [Idle EXCEPT !.op = op, !.arg = arg, !.pc = pc, !.n = n, !.inv = i]
(* A handler that later saves the session that was on screen.              *)
OnScreen(op, arg, pc, i) == [Handler(op, arg, pc, 0, i) EXCEPT !.session = sess]

(* takePhoto and toggleVoice: reserveSequence first.  The voice button     *)
(* does nothing while a note is saved; the shutter asks photoSaving before *)
(* an await and sets it after, so that a double tap takes two photos.      *)
reserveSequence(c, op) ==
    /\ Pressed(c)
    /\ op = "voice" => \A d \in Handlers : doing[d].op # "voice"
    /\ Begins(c, Handler(op, "none", "reserving", sess.seq, 0))
    /\ saveSession(c, [sess EXCEPT !.seq = @ + 1], writes)
    /\ UNCHANGED <<wf, stored, inv, mishaps, taken, linked, saved>>

(* persistMedia: the capture (module Capture) uses the number; once it is  *)
(* acknowledged it is attached to the investigation the session now points *)
(* to.  The capture is named by its place in taken.                        *)
persistMedia(c) ==
    LET k == doing[c] IN
    /\ k.pc = "capturing"
    /\ taken' = Append(taken, k.n)
    /\ \/ /\ sess.active # 0
          /\ doing' = [doing EXCEPT ![c].pc = "loading", ![c].inv = sess.active,
                                  ![c].n = Len(taken) + 1]
       \/ Ends(c)
    /\ UNCHANGED <<app, sess, wf, stored, writes, inv, presses, mishaps, linked, saved>>

(* saveManualNote: the note is stored first.                               *)
saveManualNote(c) ==
    /\ Pressed(c)
    /\ Begins(c, Handler("note", "none", "noting", presses + 1, 0))
    /\ UNCHANGED <<sess, wf, stored, writes, inv, mishaps, taken, linked, saved>>

noteStored(c) ==
    /\ doing[c].pc = "noting"
    /\ IF sess.active = 0 THEN Ends(c)
       ELSE doing' = [doing EXCEPT ![c].pc = "loading", ![c].inv = sess.active]
    /\ UNCHANGED <<app, sess, wf, stored, writes, inv, presses, mishaps, taken,
                   linked, saved>>

(* With no investigation there is nothing to load, and nothing intervenes. *)
changeArea(c) ==
    /\ Pressed(c)
    /\ IF sess.active = 0
       THEN /\ Begins(c, Handler("area", "none", "pointing", 0, 0))
            /\ saveSession(c, [sess EXCEPT !.area = nextArea(@)], writes)
       ELSE /\ Begins(c, OnScreen("area", "none", "loading", sess.active))
            /\ UNCHANGED <<sess, writes>>
    /\ UNCHANGED <<wf, stored, inv, mishaps, taken, linked, saved>>

(* changeInvestigationState; pausing, resuming and finishing an            *)
(* investigation that the session does not point to fails.                 *)
beginInvestigation(c) ==
    /\ Pressed(c) /\ wf.status \notin {"active", "paused"}
    /\ Begins(c, OnScreen("start", "none", "saving", presses + 1))
    /\ UNCHANGED <<sess, wf, stored, writes, inv, mishaps, taken, linked, saved>>

changeInvestigationState(c) ==
    /\ Pressed(c) /\ wf.status \in {"active", "paused"}
    /\ sess.active # 0
    /\ Begins(c, Handler(IF wf.status = "active" THEN "pause" ELSE "resume",
                         "none", "loading", 0, sess.active))
    /\ UNCHANGED <<sess, wf, stored, writes, inv, mishaps, taken, linked, saved>>

(* The choice opens while an investigation is active and stays open after. *)
finishChoiceOpen == wf.status # "none"

finishInvestigation(c, result) ==
    /\ Pressed(c) /\ finishChoiceOpen /\ sess.active # 0
    /\ Begins(c, OnScreen("finish", result, "loading", sess.active))
    /\ UNCHANGED <<sess, wf, stored, writes, inv, mishaps, taken, linked, saved>>

-----------------------------------------------------------------------------
(* Review: pure decisions on the item that was on screen.                  *)

assertActionable(item) == item.status = "awaiting_decision"
assertConfirmableVerifier(item) ==
    item.origin = "human" \/ item.passed = item.version

(* The enabled buttons of the review card; editing can go on in its form.  *)
reviewActions(item) ==
    IF item.status # "awaiting_decision" THEN {}
    ELSE {"edit", "reject"}
         \cup (IF assertConfirmableVerifier(item) THEN {"accept"} ELSE {})
         \cup (IF item.origin = "ai" /\ item.passed # item.version
               THEN {"reverify"} ELSE {})

(* The completion dock: a module is approved once, and the package is      *)
(* confirmed when every module has no blocker.                             *)
reviewComplete(m) == wf.items[m].status = "accepted"
projectCompletion == \A m \in Commissioned : reviewComplete(m) /\ m \in wf.approved

editReviewItem(item, pathway, version) ==
    [version |-> version, status |-> "awaiting_decision", passed |-> 0,
     origin |-> IF pathway = "convert_to_human" THEN "human" ELSE "ai"]

(* replaceReviewItem: the module loses its approval, the package its       *)
(* manifest.                                                               *)
(* Mutant: the module keeps its approval.                                  *)
keepApproval(m, next) ==
    [wf EXCEPT !.items[m] = next, !.delivery = "waiting_for_approval",
               !.manifest = NoManifest]
replaceReviewItem(m, next) ==
    [wf EXCEPT !.items[m] = next, !.approved = @ \ {m},
               !.delivery = "waiting_for_approval", !.manifest = NoManifest]

Decides(c, op, patched) ==
    /\ Pressed(c)
    /\ Begins(c, Handler(op, "none", "closing", 0, 0))
    /\ saveWorkflow(c, patched, writes)
    /\ UNCHANGED <<wf, stored, inv, mishaps, taken, linked, saved>>

acceptReview(c, m) ==
    /\ "accept" \in reviewActions(wf.items[m])
    /\ Decides(c, "accept", replaceReviewItem(m, [wf.items[m] EXCEPT !.status = "accepted"]))
rejectReview(c, m) ==
    /\ "reject" \in reviewActions(wf.items[m])
    /\ Decides(c, "reject", replaceReviewItem(m, [wf.items[m] EXCEPT !.status = "rejected"]))
reverifyReview(c, m) ==
    /\ "reverify" \in reviewActions(wf.items[m])
    /\ Decides(c, "reverify",
               replaceReviewItem(m, [wf.items[m] EXCEPT !.passed = wf.items[m].version]))

approveModule(c, m) ==
    /\ reviewComplete(m) /\ m \notin wf.approved
    /\ Decides(c, "approve", [wf EXCEPT !.approved = @ \cup {m},
                                        !.delivery = "waiting_for_approval",
                                        !.manifest = NoManifest])

(* saveReviewEdit and continueReviewAsHuman hash the content first.        *)
digestContent(c, m, pathway) ==
    /\ Pressed(c)
    /\ assertActionable(wf.items[m])
    /\ Begins(c, [Handler("edit", m, "digesting", 0, 0) EXCEPT
                    !.item = editReviewItem(wf.items[m], pathway, presses + 2)])
    /\ UNCHANGED <<sess, wf, stored, writes, inv, mishaps, taken, linked, saved>>

saveReviewEdit(c, m, pathway) ==
    /\ ~(wf.items[m].origin = "human" /\ pathway = "reverify_ai")
    /\ digestContent(c, m, pathway)

continueReviewAsHuman(c, m) ==
    /\ wf.items[m].origin = "ai"
    /\ digestContent(c, m, "convert_to_human")

editHashed(c) ==
    /\ doing[c].op = "edit" /\ doing[c].pc = "digesting"
    /\ Goes(c, "closing")
    /\ saveWorkflow(c, replaceReviewItem(doing[c].arg, doing[c].item), writes)
    /\ UNCHANGED <<app, wf, stored, inv, presses, mishaps, taken, linked, saved>>

(* The accepted versions a package manifest is the hash of.                *)
AcceptedVersions(w) ==
    {[module |-> m, version |-> w.items[m].version] :
        m \in {d \in Commissioned : w.items[d].status = "accepted"}}

confirmDeliveryPackage(c) ==
    /\ Pressed(c) /\ projectCompletion
    /\ Begins(c, [Handler("confirm", "none", "digesting", 0, 0) EXCEPT
                    !.item = AcceptedVersions(wf)])
    /\ UNCHANGED <<sess, wf, stored, writes, inv, mishaps, taken, linked, saved>>

manifestHashed(c, pending) ==
    /\ doing[c].op = "confirm" /\ doing[c].pc = "digesting"
    /\ Goes(c, "closing")
    /\ saveWorkflow(c, [wf EXCEPT !.manifest = doing[c].item,
                                  !.delivery = IF pending THEN "waiting_for_evidence"
                                               ELSE "queued"], writes)
    /\ UNCHANGED <<app, wf, stored, inv, presses, mishaps, taken, linked, saved>>

-----------------------------------------------------------------------------
(* The app is killed, and starts again.                                    *)

Kill ==
    /\ app = "running" /\ Mishap /\ app' = "down"
    /\ doing' = [c \in Handlers |-> Idle] /\ writes' = <<>>
    /\ sess' = stored /\ wf' = stored.wf
    /\ UNCHANGED <<stored, inv, presses, taken, linked, saved>>

Pointed(s) == IF s.active # 0 THEN s.active ELSE s.last

(* Mutant: the stored workflow is shown as it is.                          *)
trustWorkflow(w, status) == w
reconcileInvestigationStatus(w, status) ==
    IF w.status = status THEN w
    ELSE [w EXCEPT !.status = status, !.revision = @ + 1]

initialise ==
    /\ app = "down"
    /\ LET w == IF Pointed(stored) = 0 THEN stored.wf
                ELSE reconcileInvestigationStatus(stored.wf, inv[Pointed(stored)].status)
       IN  /\ wf' = w /\ sess' = [stored EXCEPT !.wf = w] /\ stored' = sess'
    /\ app' = "restarted"
    /\ UNCHANGED <<writes, doing, inv, presses, mishaps, taken, linked, saved>>

FieldNext ==
    \/ sessionWrite \/ Kill \/ initialise
    \/ \E c \in Handlers :
          \/ loadActiveInvestigation(c) \/ saveInvestigationTransition(c)
          \/ \E op \in Captured : reserveSequence(c, op)
          \/ persistMedia(c) \/ saveManualNote(c) \/ noteStored(c)
          \/ changeArea(c) \/ beginInvestigation(c) \/ changeInvestigationState(c)
          \/ \E r \in {"candidate", "no_finding"} : finishInvestigation(c, r)
          \/ \E m \in Commissioned :
                \/ acceptReview(c, m) \/ rejectReview(c, m) \/ reverifyReview(c, m)
                \/ approveModule(c, m) \/ continueReviewAsHuman(c, m)
                \/ \E p \in {"reverify_ai", "convert_to_human"} : saveReviewEdit(c, m, p)
          \/ editHashed(c) \/ confirmDeliveryPackage(c)
          \/ \E pending \in BOOLEAN : manifestHashed(c, pending)

FieldSpec == FieldInit /\ [][FieldNext]_fieldVars

-----------------------------------------------------------------------------
(* Evidence and notes that the inspector was told are linked stay in the   *)
(* stored investigation, and a finished one names all of its evidence as   *)
(* sources, however its handlers interleaved (App.tsx:443-478, 719-728,    *)
(* 896-957; sqlite-inspection-snapshot-port.ts:76-126).                    *)
NothingLinkedIsLost ==
    /\ \A l \in linked :
          l.n \in (IF l.note THEN inv[l.inv].observations
                   ELSE Elements(inv[l.inv].evidence))
    /\ \A i \in DOMAIN inv : inv[i].status = "completed_findings" =>
          inv[i].sources = Elements(inv[i].evidence)

(* No two captures use the same sequence number, across stale sessions     *)
(* that are saved late and across restarts (App.tsx:341-355, 480-494).     *)
SequencesAreUnique ==
    \A i, j \in DOMAIN taken : taken[i] = taken[j] => i = j

(* A decision the inspector was told is saved survives: the stored         *)
(* workflow is that one or one built after it (sqlite-capture-ledger.ts:   *)
(* 677-696, App.tsx:357-397).                                              *)
ReportedIsDurable ==
    /\ stored.wf.revision >= saved.revision
    /\ stored.wf.revision = saved.revision => stored.wf = saved

(* After a start the workflow shows the state of an investigation that     *)
(* exists, whatever the kill interrupted (App.tsx:267-289).                *)
NoGhostInvestigation ==
    app = "restarted" =>
       wf.status = IF Pointed(sess) = 0 THEN "none" ELSE inv[Pointed(sess)].status

(* In memory and in the ledger, an approved module has its finding         *)
(* accepted, and an accepted AI finding passed in exactly that version     *)
(* (App.tsx:959-976, 1087-1131; investigation-review.ts:118-142).          *)
ApprovedIsAccepted ==
    \A w \in {wf, sess.wf, stored.wf} :
       \A m \in Commissioned :
          /\ m \in w.approved => w.items[m].status = "accepted"
          /\ w.items[m].status = "accepted" => assertConfirmableVerifier(w.items[m])

(* A confirmed package is of the accepted versions the workflow now has,   *)
(* all approved: "every approval/package references exact current          *)
(* immutable snapshots and stale professional commands fail closed".       *)
ManifestIsCurrent ==
    wf.manifest # NoManifest =>
       wf.manifest = AcceptedVersions(wf) /\ wf.approved = Commissioned
=============================================================================
