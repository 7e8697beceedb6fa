---------------------------- MODULE DomainProofs ----------------------------
(***************************************************************************)
(* Proofs about the inspection record, the drafting agent, the coverage    *)
(* ledger and the event history.  The modules share no variable and have a *)
(* specification each.                                                     *)
(***************************************************************************)
EXTENDS ModuleLifecycle, DraftRunner, Coverage, EventHistory,
        FiniteSetTheorems, SequenceTheorems, WellFoundedInduction, TLAPS

-----------------------------------------------------------------------------
(* The professional record.  A caller's copy of a module is one of its     *)
(* earlier states.  Every transition counts the revision up, so a copy of  *)
(* the current revision is the current state.                              *)
ModuleStatus == {"draft", "approved", "withdrawn", "evidence_at_risk"}
ModuleStates ==
    [revision : Nat, status : ModuleStatus,
     snapshots : Nat, approvals : Seq(Nat),
     amendments : Seq([prior : Nat, replacement : Nat]),
     currentSnapshotId : Nat, currentApprovalId : Nat, withdrawal : Nat,
     evidenceRisk : BOOLEAN]

(* What RecordExplainsItself says of one module, and that the newest       *)
(* snapshot is the current one.                                            *)
Explained(s) ==
    /\ s.currentSnapshotId = s.snapshots
    /\ s.currentApprovalId \in 0 .. Len(s.approvals)
    /\ \A i \in DOMAIN s.amendments :
          /\ s.amendments[i] = [prior |-> i, replacement |-> i + 1]
          /\ \E a \in DOMAIN s.approvals : s.approvals[a] = i
    /\ s.snapshots = 0 => Len(s.amendments) = 0
    /\ s.currentApprovalId # 0 => s.currentSnapshotId # 0
    /\ s.snapshots = 0 \/ s.snapshots = Len(s.amendments) + 1
    /\ s.status = "withdrawn" =>
          \E a \in DOMAIN s.approvals : s.approvals[a] = s.withdrawal
    /\ (s.currentApprovalId # 0) <=> (s.status = "approved")
    /\ s.currentApprovalId # 0 =>
          s.approvals[s.currentApprovalId] = s.currentSnapshotId

(* What a caller holds of a module is old or true.                         *)
OldOrTrue(r, s) == r.revision < s.revision \/ r = s

RecordInv ==
    /\ mods \in [Professional -> ModuleStates]
    /\ seen \in [Callers -> [Professional -> ModuleStates]]
    /\ \A m \in Professional : Explained(mods[m])
    /\ \A c \in Callers, m \in Professional : OldOrTrue(seen[c][m], mods[m])

(* A module that goes on to an explained state of the next revision.       *)
LEMMA AdvancePreserves ==
    ASSUME RecordInv, NEW m \in Professional, NEW s \in ModuleStates,
           Advance(m, s), Explained(s), s.revision = mods[m].revision + 1
    PROVE  RecordInv'
  <1>1. mods' = [mods EXCEPT ![m] = s] /\ UNCHANGED seen
    BY DEF Advance
  <1>2. /\ mods' \in [Professional -> ModuleStates]
        /\ \A n \in Professional : mods'[n] = IF n = m THEN s ELSE mods[n]
    BY <1>1 DEF RecordInv
  <1>3. ASSUME NEW n \in Professional
        PROVE  Explained(mods'[n]) /\ OldOrTrue(mods[n], mods'[n])
    <2>1. mods[m].revision \in Nat
      BY DEF RecordInv, ModuleStates
    <2>2. mods[m].revision < s.revision
      BY <2>1
    <2>. QED
      BY <1>2, <2>2 DEF RecordInv, OldOrTrue
  <1>4. ASSUME NEW c \in Callers, NEW n \in Professional
        PROVE  OldOrTrue(seen'[c][n], mods'[n])
    <2>1. /\ seen[c][n].revision \in Nat /\ mods[n].revision \in Nat
          /\ mods'[n].revision \in Nat
      BY <1>2 DEF RecordInv, ModuleStates
    <2>. QED
      BY <1>1, <1>3, <2>1 DEF RecordInv, OldOrTrue
  <1>. QED
    BY <1>1, <1>2, <1>3, <1>4 DEF RecordInv

(* What a list is after something was appended to it.                      *)
LEMMA AppendKeeps ==
    ASSUME NEW S, NEW q \in Seq(S), NEW x \in S
    PROVE  /\ Append(q, x) \in Seq(S)
           /\ Len(Append(q, x)) = Len(q) + 1 /\ Len(q) \in Nat
           /\ DOMAIN q = 1 .. Len(q) /\ DOMAIN Append(q, x) = 1 .. Len(q) + 1
           /\ Append(q, x)[Len(q) + 1] = x
           /\ \A i \in DOMAIN q : i \in DOMAIN Append(q, x) /\ Append(q, x)[i] = q[i]
  OBVIOUS

LEMMA ModuleStepsPreserve ==
    ASSUME RecordInv, NEW c \in Callers, NEW m \in Professional,
           \/ \E r \in 1 .. MaxRevision :
                 registerModuleSnapshot(c, m, r) \/ amendModule(c, m, r)
           \/ approveModule(c, m) \/ withdrawProfessionalModule(c, m)
           \/ markEvidenceAtRisk(c, m)
    PROVE  RecordInv'
  <1>. DEFINE s == mods[m]
  <1>a. s \in ModuleStates /\ Explained(s)
    BY DEF RecordInv
  <1>b. /\ s.revision + 1 \in Nat /\ Len(s.approvals) + 1 \in Nat
        /\ s.currentSnapshotId \in Nat /\ s.snapshots \in Nat
    BY <1>a DEF ModuleStates
  <1>c. /\ "draft" \in ModuleStatus /\ "approved" \in ModuleStatus
        /\ "withdrawn" \in ModuleStatus /\ "evidence_at_risk" \in ModuleStatus
    BY DEF ModuleStatus
  <1>1. ASSUME NEW r \in 1 .. MaxRevision, registerModuleSnapshot(c, m, r)
        PROVE  RecordInv'
    <2>. DEFINE new == [s EXCEPT !.revision = @ + 1, !.status = "draft",
                                 !.snapshots = 1, !.currentSnapshotId = 1,
                                 !.currentApprovalId = 0, !.withdrawal = 0,
                                 !.evidenceRisk = FALSE]
    <2>1. Advance(m, new) /\ s.snapshots = 0
      BY <1>1 DEF registerModuleSnapshot
    <2>2. new \in ModuleStates
      BY <1>a, <1>b, <1>c DEF ModuleStates
    <2>3. Explained(new) /\ new.revision = s.revision + 1
      BY <1>a, <2>1 DEF Explained, ModuleStates
    <2>. QED
      BY <2>1, <2>2, <2>3, AdvancePreserves
  <1>2. ASSUME NEW r \in 1 .. MaxRevision, amendModule(c, m, r)
        PROVE  RecordInv'
    <2>. DEFINE link == [prior |-> s.currentSnapshotId, replacement |-> r]
                new == [s EXCEPT !.revision = @ + 1, !.status = "draft",
                                 !.snapshots = r, !.amendments = Append(@, link),
                                 !.currentSnapshotId = r, !.currentApprovalId = 0,
                                 !.withdrawal = 0, !.evidenceRisk = FALSE]
    <2>1. Advance(m, new) /\ s.status = "approved" /\ r = s.snapshots + 1
      BY <1>2 DEF amendModule, amendable
    <2>2. /\ link \in [prior : Nat, replacement : Nat]
          /\ s.amendments \in Seq([prior : Nat, replacement : Nat])
          /\ Append(s.amendments, link) \in Seq([prior : Nat, replacement : Nat])
      BY <1>a, <2>1 DEF ModuleStates
    <2>3. new \in ModuleStates
      BY <1>a, <1>b, <1>c, <2>2 DEF ModuleStates
    <2>4. /\ s.currentSnapshotId = s.snapshots /\ s.currentApprovalId # 0
          /\ s.currentApprovalId \in DOMAIN s.approvals
          /\ s.approvals[s.currentApprovalId] = s.snapshots
      BY <1>a, <2>1 DEF Explained, ModuleStates
    <2>5. s.snapshots = Len(s.amendments) + 1
      BY <1>a, <2>4 DEF Explained, ModuleStates
    <2>6. ASSUME NEW i \in DOMAIN new.amendments
          PROVE  /\ new.amendments[i] = [prior |-> i, replacement |-> i + 1]
                 /\ \E a \in DOMAIN s.approvals : s.approvals[a] = i
      <3>. DEFINE as == s.amendments
      <3>1. new.amendments = Append(as, link)
        BY <1>a DEF ModuleStates
      <3>2. CASE i \in DOMAIN as
        BY <1>a, <2>2, <3>1, <3>2 DEF Explained
      <3>3. CASE i = Len(as) + 1
        BY <2>1, <2>2, <2>4, <2>5, <3>1, <3>3
      <3>4. /\ Len(as) \in Nat /\ DOMAIN as = 1 .. Len(as)
            /\ DOMAIN Append(as, link) = 1 .. Len(as) + 1
        BY <2>2, AppendKeeps
      <3>. QED
        BY <3>1, <3>2, <3>3, <3>4
    <2>7. /\ new.approvals = s.approvals /\ new.snapshots = r /\ new.currentSnapshotId = r
          /\ new.currentApprovalId = 0 /\ new.status = "draft"
          /\ new.revision = s.revision + 1 /\ Len(new.amendments) = r - 1
      BY <1>a, <2>1, <2>2, <2>5 DEF ModuleStates
    <2>. HIDE DEF new
    <2>8. Explained(new)
      BY <1>a, <2>6, <2>7 DEF Explained, ModuleStates
    <2>. QED
      BY <2>1, <2>3, <2>7, <2>8, AdvancePreserves
  <1>3. CASE approveModule(c, m)
    <2>. DEFINE old == s.approvals
                cur == s.currentSnapshotId
                app == Append(old, cur)
                new == [s EXCEPT !.revision = @ + 1, !.status = "approved",
                                 !.approvals = app,
                                 !.currentApprovalId = Len(old) + 1,
                                 !.withdrawal = 0, !.evidenceRisk = FALSE]
    <2>1. Advance(m, new) /\ cur # 0
      BY <1>3 DEF approveModule
    <2>2. old \in Seq(Nat) /\ cur \in Nat
      BY <1>a DEF ModuleStates
    <2>3. /\ app \in Seq(Nat) /\ Len(app) = Len(old) + 1 /\ Len(old) \in Nat
          /\ app[Len(old) + 1] = cur
          /\ \A i \in DOMAIN old : i \in DOMAIN app /\ app[i] = old[i]
      <3>. HIDE DEF old, cur
      <3>. QED
        BY <2>2, AppendKeeps
    <2>. HIDE DEF app
    <2>4. new \in ModuleStates
      BY <1>a, <1>b, <1>c, <2>3 DEF ModuleStates
    <2>5. /\ new.approvals = app /\ new.status = "approved" /\ new.snapshots = s.snapshots
          /\ new.currentSnapshotId = cur
          /\ new.currentApprovalId = Len(old) + 1 /\ new.amendments = s.amendments
          /\ new.revision = s.revision + 1
      BY <1>a DEF ModuleStates
    <2>. HIDE DEF new
    <2>6. Explained(new)
      <3>1. \A i \in DOMAIN new.amendments :
               /\ new.amendments[i] = [prior |-> i, replacement |-> i + 1]
               /\ \E a \in DOMAIN new.approvals : new.approvals[a] = i
        <4>1. TAKE i \in DOMAIN new.amendments
        <4>2. i \in DOMAIN s.amendments /\ new.amendments[i] = s.amendments[i]
          BY <2>5
        <4>3. /\ s.amendments[i] = [prior |-> i, replacement |-> i + 1]
              /\ \E a \in DOMAIN old : old[a] = i
          BY <1>a, <4>2 DEF Explained
        <4>4. PICK a \in DOMAIN old : old[a] = i
          BY <4>3
        <4>5. a \in DOMAIN new.approvals /\ new.approvals[a] = old[a]
          BY <2>3, <2>5
        <4>. QED
          BY <4>2, <4>3, <4>4, <4>5
      <3>2. /\ new.currentApprovalId \in 0 .. Len(new.approvals)
            /\ new.currentApprovalId # 0
        <4>. HIDE DEF old
        <4>. QED
          BY <2>3, <2>5
      <3>3. new.approvals[new.currentApprovalId] = new.currentSnapshotId
        <4>. HIDE DEF old, cur
        <4>. QED
          BY <2>3, <2>5
      <3>. QED
        BY <1>a, <2>1, <2>5, <3>1, <3>2, <3>3 DEF Explained
    <2>. QED
      BY <2>1, <2>4, <2>5, <2>6, AdvancePreserves
  <1>4. CASE withdrawProfessionalModule(c, m)
    <2>. DEFINE new == [s EXCEPT !.revision = @ + 1, !.status = "withdrawn",
                                 !.currentApprovalId = 0,
                                 !.withdrawal = s.currentSnapshotId,
                                 !.evidenceRisk = FALSE]
    <2>1. Advance(m, new) /\ s.status = "approved"
      BY <1>4 DEF withdrawProfessionalModule
    <2>2. new \in ModuleStates
      BY <1>a, <1>b, <1>c DEF ModuleStates
    <2>3. Explained(new) /\ new.revision = s.revision + 1
      BY <1>a, <2>1 DEF Explained, ModuleStates
    <2>. QED
      BY <2>1, <2>2, <2>3, AdvancePreserves
  <1>5. CASE markEvidenceAtRisk(c, m)
    <2>. DEFINE new == [s EXCEPT !.revision = @ + 1, !.status = "evidence_at_risk",
                                 !.currentApprovalId = 0, !.withdrawal = 0,
                                 !.evidenceRisk = TRUE]
    <2>1. Advance(m, new)
      BY <1>5 DEF markEvidenceAtRisk
    <2>2. new \in ModuleStates
      BY <1>a, <1>b, <1>c DEF ModuleStates
    <2>3. Explained(new) /\ new.revision = s.revision + 1
      BY <1>a DEF Explained, ModuleStates
    <2>. QED
      BY <2>1, <2>2, <2>3, AdvancePreserves
  <1>. QED
    BY <1>1, <1>2, <1>3, <1>4, <1>5

LEMMA RecordInvariant == LifecycleSpec => []RecordInv
  <1>1. LifecycleInit => RecordInv
    <2>0. /\ "draft" \in ModuleStatus /\ FALSE \in BOOLEAN
          /\ <<>> \in Seq(Nat) /\ <<>> \in Seq([prior : Nat, replacement : Nat])
      BY DEF ModuleStatus
    <2>1. createInitialModuleState \in ModuleStates
      BY <2>0 DEF createInitialModuleState, ModuleStates
    <2>2. Explained(createInitialModuleState)
      BY DEF createInitialModuleState, Explained
    <2>. QED
      BY <2>1, <2>2 DEF LifecycleInit, RecordInv, OldOrTrue
  <1>2. ASSUME RecordInv, [LifecycleNext]_lifecycleVars PROVE RecordInv'
    <2>1. ASSUME NEW c \in Callers, Read(c) PROVE RecordInv'
      BY <1>2, <2>1 DEF Read, RecordInv, OldOrTrue
    <2>2. CASE UNCHANGED <<mods, seen>>
      BY <1>2, <2>2 DEF RecordInv
    <2>. QED
      BY <1>2, <2>1, <2>2, ModuleStepsPreserve
         DEF LifecycleNext, lifecycleVars, cancelDeliveryPackage, suppressDeliveryPackage,
             EndPackage, revokeRecipientGrant, suppressDeletion, confirmDeliveryPackage
  <1>. QED
    BY <1>1, <1>2, PTL DEF LifecycleSpec

(* The amendments link each snapshot to the next, and only what had been   *)
(* approved is replaced or withdrawn (transitions.ts:144-218).             *)
THEOREM RecordsExplainThemselves == LifecycleSpec => []RecordExplainsItself
  <1>1. RecordInv => RecordExplainsItself
    BY DEF RecordInv, Explained, RecordExplainsItself
  <1>. QED
    BY <1>1, RecordInvariant, PTL

(* Stale professional commands fail closed: whoever changes a module had   *)
(* its current state before him (assertRevision in transitions.ts).        *)
THEOREM StaleCommandsAlwaysFail == LifecycleSpec => StaleCommandsFail
  <1>1. ASSUME RecordInv, [LifecycleNext]_lifecycleVars,
               NEW m \in Professional, mods'[m] # mods[m]
        PROVE  \E c \in Callers : seen[c][m] = mods[m]
    <2>1. PICK c \in Callers, n \in Professional :
             \/ \E r \in 1 .. MaxRevision :
                   registerModuleSnapshot(c, n, r) \/ amendModule(c, n, r)
             \/ approveModule(c, n) \/ withdrawProfessionalModule(c, n)
             \/ markEvidenceAtRisk(c, n)
      BY <1>1 DEF LifecycleNext, lifecycleVars, Read, confirmDeliveryPackage,
         cancelDeliveryPackage, suppressDeliveryPackage, EndPackage,
         revokeRecipientGrant, suppressDeletion
    <2>2. assertRevision(c, n) /\ \E changes : mods' = [mods EXCEPT ![n] = changes]
      BY <2>1 DEF registerModuleSnapshot, amendModule, approveModule,
         withdrawProfessionalModule, markEvidenceAtRisk, Advance
    <2>3. m = n
      BY <1>1, <2>2 DEF RecordInv
    <2>4. seen[c][m].revision \in Nat /\ OldOrTrue(seen[c][m], mods[m])
      BY <1>1 DEF RecordInv, ModuleStates
    <2>. QED
      BY <2>2, <2>3, <2>4 DEF assertRevision, OldOrTrue
  <1>2. RecordInv /\ [LifecycleNext]_lifecycleVars =>
           [\A m \in Professional :
              mods'[m] # mods[m] => \E c \in Callers : seen[c][m] = mods[m]]_lifecycleVars
    BY <1>1
  <1>. QED
    BY <1>2, RecordInvariant, PTL DEF LifecycleSpec, StaleCommandsFail

-----------------------------------------------------------------------------
(* The drafting agent.  An attempt holds copies of a record that other     *)
(* attempts rewrite meanwhile.  What it writes back is still right because *)
(* a run is bound to one packet for good, every copy of its record is of   *)
(* that packet, and a copy is only written over a record of its draft.     *)
Live == {"bound", "generating", "inserting", "drafted", "checking", "guarded",
         "verifying", "decided", "stale"}
HoldsDraft == {"drafted", "checking", "guarded", "verifying", "decided"}
AttemptFields == {"pc", "run", "packet", "request", "rec", "old", "late"}
RecordFields == {"packet", "draft", "saw", "checked", "verification", "status"}

(* A record of a draft from packet p, with no verdict or its own.          *)
Good(rec, p) ==
    /\ DOMAIN rec = RecordFields
    /\ rec.packet = p
    /\ rec.draft \in InspectionDraft /\ rec.draft.packet = p
    /\ rec.saw \in Prepared
    /\ rec.saw = NoRequest \/ rec.saw.packet = p
    /\ rec.verification = NoVerdict \/ rec.verification = verify(p, rec.draft)
    /\ rec.status = "verified" =>
          rec.verification = verify(p, rec.draft) /\ rec.verification.passed

RunOk(r) == record[r] = NoRecord \/ (boundTo[r] # 0 /\ Good(record[r], boundTo[r]))

BoundOk(a) ==
    att[a].pc \in Live =>
       /\ att[a].run \in RunIds
       /\ att[a].packet = boundTo[att[a].run] /\ att[a].packet # 0
       /\ att[a].rec = NoRecord \/ Good(att[a].rec, att[a].packet)
CopyOk(a) ==
    /\ att[a].pc \in HoldsDraft => Good(att[a].rec, att[a].packet)
    /\ att[a].pc \in {"inserting", "checking", "verifying"} =>
          Good(att[a].old, att[a].packet)
    /\ att[a].pc \in {"checking", "verifying"} =>
          att[a].old.draft = att[a].rec.draft
LateOk(a) ==
    att[a].late => /\ att[a].packet # current
                   /\ att[a].pc \in {"bound", "stale", "superseded", "failed"}
AttemptOk(a) ==
    /\ DOMAIN att[a] = AttemptFields /\ att[a].request \in Prepared
    /\ BoundOk(a) /\ CopyOk(a) /\ LateOk(a)

DraftInv ==
    /\ DOMAIN boundTo = RunIds /\ DOMAIN record = RunIds /\ DOMAIN att = Attempts
    /\ \A r \in RunIds : RunOk(r)
    /\ \A a \in Attempts : AttemptOk(a)

LEMMA GoodIsARecord ==
    ASSUME NEW rec, NEW p, Good(rec, p) PROVE rec # NoRecord
  <1>1. DOMAIN NoRecord = {"status"} /\ "draft" \in DOMAIN rec
    BY DEF NoRecord, Good, RecordFields
  <1>. QED
    BY <1>1

(* A step of one attempt that leaves packets and records as they are.      *)
LEMMA AttemptStep ==
    ASSUME DraftInv, NEW a \in Attempts, NEW t, att' = [att EXCEPT ![a] = t],
           UNCHANGED <<current, boundTo, record>>,
           AttemptOk(a)'
    PROVE  DraftInv'
  <1>1. \A b \in Attempts : b # a => att'[b] = att[b]
    BY DEF DraftInv
  <1>2. ASSUME NEW b \in Attempts, b # a PROVE AttemptOk(b)'
    BY <1>1, <1>2 DEF DraftInv, AttemptOk, BoundOk, CopyOk, LateOk
  <1>3. \A r \in RunIds : RunOk(r)'
    BY DEF DraftInv, RunOk
  <1>. QED
    BY <1>2, <1>3 DEF DraftInv

(* A step of one attempt that writes its run's record, well.               *)
LEMMA StoreStep ==
    ASSUME DraftInv, NEW a \in Attempts, att[a].pc \in Live, NEW t, NEW rec,
           att' = [att EXCEPT ![a] = t],
           record' = [record EXCEPT ![att[a].run] = rec],
           UNCHANGED <<current, boundTo>>,
           Good(rec, att[a].packet), AttemptOk(a)'
    PROVE  DraftInv'
  <1>1. \A b \in Attempts : b # a => att'[b] = att[b]
    BY DEF DraftInv
  <1>2. ASSUME NEW b \in Attempts, b # a PROVE AttemptOk(b)'
    BY <1>1, <1>2 DEF DraftInv, AttemptOk, BoundOk, CopyOk, LateOk
  <1>3. BoundOk(a)
    BY DEF DraftInv, AttemptOk
  <1>4. \A r \in RunIds : RunOk(r)'
    BY <1>3 DEF DraftInv, RunOk, BoundOk
  <1>. QED
    BY <1>2, <1>4 DEF DraftInv

(* An attempt that ends holds nothing.                                     *)
LEMMA ReturnsOk ==
    ASSUME DraftInv, NEW a \in Attempts,
           NEW outcome \in {"verified", "rejected", "superseded", "failed"},
           outcome \in {"verified", "rejected"} => ~att[a].late,
           Returns(a, outcome), UNCHANGED current
    PROVE  AttemptOk(a)'
  <1>1. /\ DOMAIN att'[a] = AttemptFields
        /\ att'[a].pc = outcome /\ att'[a].packet = att[a].packet
        /\ att'[a].late = att[a].late /\ att'[a].request = NoRequest
    BY DEF DraftInv, Returns, Waiting, AttemptFields
  <1>2. NoRequest \in Prepared
    BY DEF Prepared
  <1>3. BoundOk(a)' /\ CopyOk(a)'
    BY <1>1 DEF BoundOk, CopyOk, Live, HoldsDraft
  <1>4. LateOk(a)'
    BY <1>1 DEF LateOk, DraftInv, AttemptOk
  <1>. QED
    BY <1>1, <1>2, <1>3, <1>4 DEF AttemptOk

LEMMA ReturnsPreserves ==
    ASSUME DraftInv, NEW a \in Attempts,
           NEW outcome \in {"verified", "rejected", "superseded", "failed"},
           outcome \in {"verified", "rejected"} => ~att[a].late,
           Returns(a, outcome), UNCHANGED <<current, boundTo, record>>
    PROVE  DraftInv'
  <1>1. AttemptOk(a)'
    BY ReturnsOk
  <1>2. PICK t : att' = [att EXCEPT ![a] = t]
    BY DEF Returns
  <1>. QED
    BY <1>1, <1>2, AttemptStep

LEMMA BindPreserves ==
    ASSUME DraftInv, NEW a \in Attempts, NEW r \in RunIds, NEW p \in Revisions,
           NEW q \in Prepared, bindAndGet(a, r, p, q)
    PROVE  DraftInv'
  <1>0. At(a, "idle") /\ UNCHANGED <<current, record>> /\ p # 0
    BY PacketAssumption DEF bindAndGet, Revisions
  <1>1. CASE boundTo[r] \in {0, p}
    <2>1. /\ boundTo' = [boundTo EXCEPT ![r] = p]
          /\ att' = [att EXCEPT ![a] =
                       [Waiting EXCEPT !.pc = "bound", !.run = r, !.packet = p,
                          !.request = q, !.rec = record[r], !.late = p # current]]
      BY <1>1 DEF bindAndGet
    <2>2. /\ DOMAIN att'[a] = AttemptFields
          /\ att'[a].pc = "bound" /\ att'[a].run = r /\ att'[a].packet = p
          /\ att'[a].request = q /\ att'[a].rec = record[r]
      BY <2>1 DEF DraftInv, Waiting, AttemptFields
    <2>3. att'[a].late => p # current
      BY <2>1 DEF DraftInv, Waiting
    <2>4. boundTo'[r] = p /\ \A o \in RunIds : boundTo[o] # 0 => boundTo'[o] = boundTo[o]
      BY <1>0, <1>1, <2>1 DEF DraftInv
    <2>5. AttemptOk(a)'
      <3>1. BoundOk(a)'
        BY <1>0, <1>1, <2>2, <2>4 DEF BoundOk, DraftInv, RunOk
      <3>2. CopyOk(a)'
        BY <2>2 DEF CopyOk, HoldsDraft
      <3>3. LateOk(a)'
        BY <1>0, <2>2, <2>3 DEF LateOk
      <3>. QED
        BY <2>2, <3>1, <3>2, <3>3 DEF AttemptOk
    <2>6. ASSUME NEW b \in Attempts, b # a PROVE AttemptOk(b)'
      <3>1. att'[b] = att[b] /\ AttemptOk(b)
        BY <2>1, <2>6 DEF DraftInv
      <3>2. BoundOk(b)'
        BY <2>4, <3>1 DEF AttemptOk, BoundOk
      <3>. QED
        BY <1>0, <3>1, <3>2 DEF AttemptOk, CopyOk, LateOk
    <2>7. \A o \in RunIds : RunOk(o)'
      BY <1>0, <2>4 DEF DraftInv, RunOk
    <2>. QED
      BY <1>0, <2>1, <2>5, <2>6, <2>7 DEF DraftInv
  <1>2. CASE boundTo[r] \notin {0, p}
    <2>1. att' = [att EXCEPT ![a] = [Waiting EXCEPT !.pc = "failed"]] /\ UNCHANGED boundTo
      BY <1>2 DEF bindAndGet
    <2>2. /\ DOMAIN att'[a] = AttemptFields /\ att'[a].pc = "failed"
          /\ att'[a].packet = 0 /\ att'[a].request = NoRequest /\ att'[a].late = FALSE
      BY <2>1 DEF DraftInv, Waiting, AttemptFields
    <2>3. AttemptOk(a)'
      BY <2>2 DEF AttemptOk, BoundOk, CopyOk, LateOk, Live, HoldsDraft, Prepared
    <2>. QED
      BY <1>0, <2>1, <2>3, AttemptStep
  <1>. QED
    BY <1>1, <1>2

(* What an attempt that only moves on keeps.                               *)
LEMMA MovesKeeps ==
    ASSUME DraftInv, NEW a \in Attempts, NEW pc, Moves(a, pc)
    PROVE  /\ att' = [att EXCEPT ![a] = [att[a] EXCEPT !.pc = pc]]
           /\ DOMAIN att'[a] = AttemptFields /\ att'[a].pc = pc
           /\ att'[a].run = att[a].run /\ att'[a].packet = att[a].packet
           /\ att'[a].request = att[a].request /\ att'[a].rec = att[a].rec
           /\ att'[a].old = att[a].old /\ att'[a].late = att[a].late
  BY DEF DraftInv, Moves, AttemptOk, AttemptFields

LEMMA ResumesToADraft ==
    ASSUME NEW rec
    PROVE  /\ Resumes(rec) \in {"generating", "drafted", "guarded", "decided"}
           /\ Resumes(rec) = "generating" <=> rec = NoRecord
  BY DEF Resumes

(* The packet was superseded: a live attempt has only to give up.          *)
LEMMA TurnsStale ==
    ASSUME DraftInv, NEW a \in Attempts, att[a].pc \in Live, Moves(a, "stale"),
           UNCHANGED <<current, boundTo, record>>
    PROVE  DraftInv'
  <1>1. AttemptOk(a)'
    BY MovesKeeps DEF DraftInv, AttemptOk, BoundOk, CopyOk, LateOk, Live, HoldsDraft
  <1>. QED
    BY <1>1, MovesKeeps, AttemptStep

LEMMA CheckCurrentPreserves ==
    ASSUME DraftInv, NEW a \in Attempts, checkCurrent(a) PROVE DraftInv'
  <1>. DEFINE next == IF isPacketCurrent(a) THEN Resumes(att[a].rec) ELSE "stale"
  <1>1. /\ att[a].pc = "bound" /\ Moves(a, next) /\ UNCHANGED <<current, boundTo, record>>
    BY DEF checkCurrent, At
  <1>2. CASE ~isPacketCurrent(a)
    BY <1>1, <1>2, TurnsStale DEF Live
  <1>3. CASE isPacketCurrent(a)
    <2>1. /\ att'[a].pc \in {"generating", "drafted", "guarded", "decided"}
          /\ att'[a].pc = "generating" <=> att[a].rec = NoRecord
      BY <1>1, <1>3, MovesKeeps, ResumesToADraft
    <2>2. ~att[a].late
      BY <1>3 DEF isPacketCurrent, DraftInv, AttemptOk, LateOk
    <2>3. BoundOk(a)' /\ (att[a].rec = NoRecord \/ Good(att[a].rec, att[a].packet))
      BY <1>1, MovesKeeps DEF DraftInv, AttemptOk, BoundOk, Live
    <2>4. CopyOk(a)'
      BY <1>1, <2>1, <2>3, MovesKeeps DEF CopyOk, HoldsDraft
    <2>5. LateOk(a)'
      BY <1>1, <2>2, MovesKeeps DEF LateOk, DraftInv, AttemptOk
    <2>6. AttemptOk(a)'
      BY <1>1, <2>3, <2>4, <2>5, MovesKeeps DEF AttemptOk, DraftInv
    <2>. QED
      BY <1>1, <2>6, MovesKeeps, AttemptStep
  <1>. QED
    BY <1>2, <1>3

LEMMA InsertPreserves ==
    ASSUME DraftInv, NEW a \in Attempts, NEW d \in InspectionDraft, insertIfCurrent(a, d)
    PROVE  DraftInv'
  <1>1. /\ att[a].pc = "generating"
        /\ att[a].request = NoRequest \/ att[a].request.packet = att[a].packet
        /\ d.packet = att[a].packet /\ UNCHANGED <<current, boundTo, record>>
    BY DEF insertIfCurrent, At, requiredPreparedRequest, assertDraftPins
  <1>2. CASE record[att[a].run] # NoRecord
    BY <1>1, <1>2, ReturnsPreserves DEF insertIfCurrent, Throws
  <1>3. CASE record[att[a].run] = NoRecord /\ att[a].packet # current
    BY <1>1, <1>3, TurnsStale DEF insertIfCurrent, Live
  <1>4. CASE record[att[a].run] = NoRecord /\ att[a].packet = current
    <2>. DEFINE rec == [packet |-> att[a].packet, draft |-> d, saw |-> att[a].request,
                        checked |-> FALSE, verification |-> NoVerdict,
                        status |-> "provisional"]
    <2>1. att' = [att EXCEPT ![a] = [att[a] EXCEPT !.pc = "inserting",
                                       !.request = NoRequest, !.old = rec]]
      BY <1>4 DEF insertIfCurrent
    <2>2. AttemptOk(a)
      BY DEF DraftInv
    <2>3. Good(rec, att[a].packet)
      BY <1>1, <2>2 DEF Good, RecordFields, AttemptOk
    <2>. HIDE DEF rec
    <2>4. /\ DOMAIN att'[a] = AttemptFields /\ att'[a].pc = "inserting"
          /\ att'[a].run = att[a].run /\ att'[a].packet = att[a].packet
          /\ att'[a].request = NoRequest /\ att'[a].rec = att[a].rec
          /\ att'[a].old = rec /\ att'[a].late = att[a].late
      BY <2>1, <2>2 DEF DraftInv, AttemptOk, AttemptFields
    <2>5. BoundOk(a)' /\ LateOk(a)' /\ NoRequest \in Prepared
      BY <1>1, <2>2, <2>4 DEF AttemptOk, BoundOk, LateOk, Live, Prepared
    <2>6. CopyOk(a)'
      BY <2>3, <2>4 DEF CopyOk, HoldsDraft
    <2>7. AttemptOk(a)'
      BY <2>4, <2>5, <2>6 DEF AttemptOk
    <2>. QED
      BY <1>1, <2>1, <2>7, AttemptStep
  <1>. QED
    BY <1>2, <1>3, <1>4

(* An attempt that stores a good record holds it from then on.             *)
LEMMA StoredPreserves ==
    ASSUME DraftInv, NEW a \in Attempts, att[a].pc \in {"inserting", "checking", "verifying"},
           NEW pc \in HoldsDraft \ {"checking", "verifying"}, NEW rec,
           Good(rec, att[a].packet), Stored(a, pc, rec)
    PROVE  DraftInv'
  <1>. DEFINE t == [att[a] EXCEPT !.pc = pc, !.rec = rec, !.old = NoRecord]
  <1>1. /\ att' = [att EXCEPT ![a] = t] /\ UNCHANGED <<current, boundTo>>
        /\ record' = [record EXCEPT ![att[a].run] = rec]
    BY DEF Stored, Holds
  <1>2. AttemptOk(a) /\ att[a].pc \in Live
    BY DEF DraftInv, Live
  <1>3. /\ DOMAIN att'[a] = AttemptFields /\ att'[a].pc = pc
        /\ att'[a].run = att[a].run /\ att'[a].packet = att[a].packet
        /\ att'[a].request = att[a].request /\ att'[a].rec = rec
        /\ att'[a].late = att[a].late
    BY <1>1, <1>2 DEF DraftInv, AttemptOk, AttemptFields
  <1>4. BoundOk(a)'
    BY <1>1, <1>2, <1>3 DEF AttemptOk, BoundOk
  <1>5. CopyOk(a)'
    BY <1>3 DEF CopyOk, HoldsDraft
  <1>6. LateOk(a)'
    BY <1>1, <1>2, <1>3 DEF AttemptOk, LateOk
  <1>7. AttemptOk(a)'
    BY <1>2, <1>3, <1>4, <1>5, <1>6 DEF AttemptOk
  <1>. HIDE DEF t
  <1>. QED
    BY <1>1, <1>2, <1>7, StoreStep

LEMMA WritesPreserve ==
    ASSUME DraftInv, NEW a \in Attempts,
           draftPersisted(a) \/ deterministicChecked(a) \/ verdictStored(a)
    PROVE  DraftInv'
  <1>. DEFINE old == att[a].old
  <1>1. AttemptOk(a)
    BY DEF DraftInv
  <1>2. CASE draftPersisted(a)
    <2>1. att[a].pc = "inserting" /\ Stored(a, "drafted", old) /\ Good(old, att[a].packet)
      BY <1>1, <1>2 DEF draftPersisted, At, AttemptOk, CopyOk
    <2>. QED
      BY <2>1, StoredPreserves DEF HoldsDraft
  <1>3. CASE deterministicChecked(a)
    <2>. DEFINE rec == [old EXCEPT !.checked = TRUE]
    <2>1. att[a].pc = "checking" /\ Stored(a, Resumes(rec), rec) /\ Good(old, att[a].packet)
      BY <1>1, <1>3 DEF deterministicChecked, At, AttemptOk, CopyOk
    <2>2. Good(rec, att[a].packet)
      BY <2>1 DEF Good, RecordFields
    <2>. HIDE DEF rec
    <2>3. Resumes(rec) \in HoldsDraft \ {"checking", "verifying"}
      BY <2>2, GoodIsARecord, ResumesToADraft DEF HoldsDraft
    <2>. QED
      BY <2>1, <2>2, <2>3, StoredPreserves
  <1>4. CASE verdictStored(a)
    <2>. DEFINE v == verify(att[a].packet, att[a].rec.draft)
                rec == [old EXCEPT !.verification = v,
                          !.status = IF v.passed THEN "verified" ELSE "rejected"]
    <2>1. /\ att[a].pc = "verifying" /\ Stored(a, "decided", rec)
          /\ Good(old, att[a].packet) /\ old.draft = att[a].rec.draft
      BY <1>1, <1>4 DEF verdictStored, At, AttemptOk, CopyOk
    <2>2. /\ DOMAIN rec = RecordFields /\ rec.packet = old.packet /\ rec.draft = old.draft
          /\ rec.saw = old.saw /\ rec.verification = v
          /\ rec.status = "verified" => v.passed
      BY <2>1 DEF Good, RecordFields
    <2>. HIDE DEF rec
    <2>3. Good(rec, att[a].packet)
      BY <2>1, <2>2 DEF Good
    <2>. QED
      BY <2>1, <2>3, StoredPreserves DEF HoldsDraft
  <1>. QED
    BY <1>2, <1>3, <1>4

(* What an update read is a good record of the draft the attempt holds.    *)
LEMMA UpdatePreserves ==
    ASSUME DraftInv, NEW a \in Attempts,
           NEW pc \in {"drafted", "guarded"}, NEW next \in {"checking", "verifying"},
           updateIfCurrent(a, pc, next)
    PROVE  DraftInv'
  <1>. DEFINE kept == record[att[a].run]
  <1>1. att[a].pc = pc /\ UNCHANGED <<current, boundTo, record>>
    BY DEF updateIfCurrent, At
  <1>2. AttemptOk(a) /\ att[a].pc \in Live /\ att[a].pc \in HoldsDraft
    BY <1>1 DEF DraftInv, Live, HoldsDraft
  <1>3. CASE ~sameDraft(kept, att[a].rec)
    BY <1>1, <1>3, ReturnsPreserves DEF updateIfCurrent, Throws
  <1>4. CASE sameDraft(kept, att[a].rec) /\ kept.packet # current
    BY <1>1, <1>2, <1>4, TurnsStale DEF updateIfCurrent
  <1>5. CASE sameDraft(kept, att[a].rec) /\ kept.packet = current
    <2>1. att' = [att EXCEPT ![a] = [att[a] EXCEPT !.pc = next, !.old = kept]]
      BY <1>5 DEF updateIfCurrent
    <2>2. Good(kept, att[a].packet) /\ kept.draft = att[a].rec.draft
      BY <1>2, <1>5 DEF sameDraft, DraftInv, RunOk, AttemptOk, BoundOk
    <2>. HIDE DEF kept
    <2>3. /\ DOMAIN att'[a] = AttemptFields /\ att'[a].pc = next
          /\ att'[a].run = att[a].run /\ att'[a].packet = att[a].packet
          /\ att'[a].request = att[a].request /\ att'[a].rec = att[a].rec
          /\ att'[a].old = kept /\ att'[a].late = att[a].late
      BY <1>2, <2>1 DEF DraftInv, AttemptOk, AttemptFields
    <2>4. BoundOk(a)' /\ LateOk(a)'
      BY <1>1, <1>2, <2>3 DEF AttemptOk, BoundOk, LateOk
    <2>5. CopyOk(a)'
      BY <1>2, <2>2, <2>3 DEF AttemptOk, CopyOk, HoldsDraft
    <2>6. AttemptOk(a)'
      BY <1>2, <2>3, <2>4, <2>5 DEF AttemptOk
    <2>. QED
      BY <1>1, <2>1, <2>6, AttemptStep
  <1>. QED
    BY <1>3, <1>4, <1>5

LEMMA MarkStalePreserves ==
    ASSUME DraftInv, NEW a \in Attempts, markStale(a) PROVE DraftInv'
  <1>. DEFINE kept == record[att[a].run]
  <1>1. att[a].pc = "stale" /\ UNCHANGED <<current, boundTo>>
    BY DEF markStale, At
  <1>2. CASE UNCHANGED record
    BY <1>1, <1>2, ReturnsPreserves DEF markStale, Throws
  <1>3. CASE ~UNCHANGED record
    <2>. DEFINE marked == [kept EXCEPT !.status = "stale"]
    <2>1. /\ sameDraft(kept, att[a].rec) /\ Returns(a, "superseded")
          /\ record' = [record EXCEPT ![att[a].run].status = "stale"]
      BY <1>3 DEF markStale
    <2>2. AttemptOk(a) /\ att[a].pc \in Live
      BY <1>1 DEF DraftInv, Live
    <2>3. Good(kept, att[a].packet)
      BY <2>1, <2>2 DEF sameDraft, DraftInv, RunOk, AttemptOk, BoundOk
    <2>4. Good(marked, att[a].packet)
      BY <2>3 DEF Good, RecordFields
    <2>5. record' = [record EXCEPT ![att[a].run] = marked]
      BY <2>1
    <2>. HIDE DEF marked
    <2>6. AttemptOk(a)'
      BY <1>1, <2>1, ReturnsOk
    <2>7. PICK t : att' = [att EXCEPT ![a] = t]
      BY <2>1 DEF Returns
    <2>. QED
      BY <1>1, <2>2, <2>4, <2>5, <2>6, <2>7, StoreStep
  <1>. QED
    BY <1>2, <1>3

LEMMA DraftInvariant == DraftSpec => []DraftInv
  <1>1. DraftInit => DraftInv
    <2>1. DOMAIN Waiting = AttemptFields /\ NoRequest \in Prepared
      BY DEF Waiting, AttemptFields, Prepared
    <2>2. /\ Waiting.pc = "idle" /\ Waiting.late = FALSE /\ Waiting.packet = 0
          /\ Waiting.request = NoRequest
      BY DEF Waiting
    <2>. HIDE DEF Waiting
    <2>. QED
      BY <2>1, <2>2 DEF DraftInit, DraftInv, RunOk, AttemptOk, BoundOk, CopyOk, LateOk,
                       Live, HoldsDraft
  <1>2. ASSUME DraftInv, [DraftNext]_draftVars PROVE DraftInv'
    <2>1. ASSUME NEW p \in Revisions, setCurrent(p) PROVE DraftInv'
      <3>1. current' = p /\ UNCHANGED <<boundTo, record>> /\ DOMAIN att' = Attempts
        BY <2>1 DEF setCurrent
      <3>2. ASSUME NEW a \in Attempts PROVE AttemptOk(a)'
        <4>1. AttemptOk(a)
          BY <1>2 DEF DraftInv
        <4>2. att'[a] = [att[a] EXCEPT !.late = @ /\ att[a].packet # p]
          BY <2>1 DEF setCurrent
        <4>3. /\ DOMAIN att'[a] = AttemptFields /\ att'[a].pc = att[a].pc
              /\ att'[a].run = att[a].run /\ att'[a].packet = att[a].packet
              /\ att'[a].request = att[a].request /\ att'[a].rec = att[a].rec
              /\ att'[a].old = att[a].old
          BY <4>1, <4>2 DEF AttemptOk, AttemptFields
        <4>4. att'[a].late => att[a].late /\ att[a].packet # p
          BY <4>1, <4>2 DEF AttemptOk, AttemptFields
        <4>5. BoundOk(a)' /\ CopyOk(a)'
          BY <3>1, <4>1, <4>3 DEF AttemptOk, BoundOk, CopyOk
        <4>6. LateOk(a)'
          BY <3>1, <4>1, <4>3, <4>4 DEF AttemptOk, LateOk
        <4>. QED
          BY <4>1, <4>3, <4>5, <4>6 DEF AttemptOk
      <3>. QED
        BY <1>2, <3>1, <3>2 DEF DraftInv, RunOk
    <2>2. ASSUME NEW a \in Attempts, runCompleted(a) PROVE DraftInv'
      <3>1. /\ att[a].pc = "decided" /\ UNCHANGED <<current, boundTo, record>>
            /\ \/ Returns(a, "verified") \/ Returns(a, "rejected")
        BY <2>2 DEF runCompleted, At
      <3>2. ~att[a].late
        BY <1>2, <3>1 DEF DraftInv, AttemptOk, LateOk
      <3>. QED
        BY <1>2, <3>1, <3>2, ReturnsPreserves
    <2>3. ASSUME NEW a \in Attempts, generateFails(a) \/ SimulatedRunnerCrash(a) PROVE DraftInv'
      BY <1>2, <2>3, ReturnsPreserves DEF generateFails, SimulatedRunnerCrash, Throws
    <2>4. CASE UNCHANGED draftVars
      BY <1>2, <2>4 DEF draftVars, DraftInv, RunOk, AttemptOk, BoundOk, CopyOk, LateOk
    <2>. QED
      BY <1>2, <2>1, <2>2, <2>3, <2>4, BindPreserves, CheckCurrentPreserves,
         InsertPreserves, WritesPreserve, UpdatePreserves, MarkStalePreserves DEF DraftNext
  <1>. QED
    BY <1>1, <1>2, PTL DEF DraftSpec

-----------------------------------------------------------------------------
(* What a clause cites of a packet, and its tokens that are found there.   *)
Cited(p, c) ==
    {s \in PacketSources[p] : \E ref \in c.refs : s.kind = ref.kind /\ s.id = ref.id}
Found(p, c) ==
    {i \in DOMAIN c.terms : \E s \in Cited(p, c) : c.terms[i] \in s.text.words}

(* A cited text that says anything is one the check reads: one without a   *)
(* text has no number, no word and no denial.                              *)
LEMMA TextsAreCited ==
    ASSUME NEW p, NEW c
    PROVE  /\ \A t \in sourceTexts(p, c.refs) : \E s \in Cited(p, c) : t = s.text
           /\ \A s \in Cited(p, c) : \A w \in s.text.words :
                 \E t \in sourceTexts(p, c.refs) : w \in t.words
  <1>1. NoText.words = {}
    BY DEF NoText
  <1>2. ASSUME NEW s \in Cited(p, c), NEW w \in s.text.words
        PROVE  s.text \in sourceTexts(p, c.refs)
    <2>1. s.text # NoText
      BY <1>1
    <2>. HIDE DEF NoText
    <2>. QED
      BY <2>1 DEF Cited, sourceTexts
  <1>3. \A t \in sourceTexts(p, c.refs) : \E s \in Cited(p, c) : t = s.text
    BY DEF Cited, sourceTexts
  <1>. QED
    BY <1>2, <1>3

(* All of up to three material tokens are found, or more than half.        *)
LEMMA TermsAreFound ==
    ASSUME NEW p, NEW c \in Texts, materialTermsAreEntailed(c, sourceTexts(p, c.refs))
    PROVE  IF Len(c.terms) <= 3 THEN Found(p, c) = DOMAIN c.terms
           ELSE 2 * Cardinality(Found(p, c)) > Len(c.terms)
  <1>. DEFINE words == UNION {t.words : t \in sourceTexts(p, c.refs)}
              supported == {i \in DOMAIN c.terms : c.terms[i] \in words}
  <1>1. Len(c.terms) \in Nat /\ DOMAIN c.terms = 1 .. Len(c.terms)
    BY TextsAssumption
  <1>2. supported = Found(p, c)
    <2>1. \A i \in supported : i \in Found(p, c)
      <3>. SUFFICES ASSUME NEW i \in supported PROVE i \in Found(p, c)
        OBVIOUS
      <3>1. PICK t \in sourceTexts(p, c.refs) : c.terms[i] \in t.words
        OBVIOUS
      <3>2. PICK s \in Cited(p, c) : t = s.text
        BY TextsAreCited
      <3>. QED
        BY <3>1, <3>2 DEF Found
    <2>2. \A i \in Found(p, c) : i \in supported
      <3>. SUFFICES ASSUME NEW i \in Found(p, c) PROVE i \in supported
        OBVIOUS
      <3>1. PICK s \in Cited(p, c) : c.terms[i] \in s.text.words
        BY DEF Found
      <3>2. \E t \in sourceTexts(p, c.refs) : c.terms[i] \in t.words
        BY <3>1, TextsAreCited
      <3>. QED
        BY <3>2 DEF Found
    <2>3. supported \subseteq DOMAIN c.terms /\ Found(p, c) \subseteq DOMAIN c.terms
      BY DEF Found
    <2>. QED
      BY <2>1, <2>2, <2>3
  <1>3. /\ Len(c.terms) <= 3 => Cardinality(Found(p, c)) = Len(c.terms)
        /\ 100 * Cardinality(Found(p, c)) >= 55 * Len(c.terms)
    <2>1. /\ Len(c.terms) <= 3 => Cardinality(supported) = Len(c.terms)
          /\ 100 * Cardinality(supported) >= 55 * Len(c.terms)
      BY DEF materialTermsAreEntailed
    <2>. QED
      BY <1>2, <2>1
  <1>4. /\ IsFiniteSet(1 .. Len(c.terms)) /\ Cardinality(1 .. Len(c.terms)) = Len(c.terms)
    BY <1>1, FS_Interval
  <1>5. Found(p, c) \subseteq 1 .. Len(c.terms)
    BY <1>1 DEF Found
  <1>6. Cardinality(Found(p, c)) \in Nat
    BY <1>4, <1>5, FS_Subset, FS_CardinalityType
  <1>7. CASE Len(c.terms) <= 3
    BY <1>1, <1>3, <1>4, <1>5, <1>7, FS_Subset
  <1>8. CASE ~(Len(c.terms) <= 3)
    BY <1>1, <1>3, <1>6, <1>8
  <1>. QED
    BY <1>7, <1>8

(* A draft that passes cites only sources of its packet, and its numbers,  *)
(* its absences and its material tokens are found there as far as the      *)
(* check looks (guards.ts:45-234, semantic-entailment.ts:149-179).         *)
LEMMA PassedIsSupported ==
    ASSUME NEW p, NEW d \in InspectionDraft, verify(p, d).passed
    PROVE  LET c == d.clause
           IN  /\ \A ref \in c.refs :
                     \E s \in Cited(p, c) : s.kind = ref.kind /\ s.id = ref.id
               /\ \A n \in c.numbers : \E s \in Cited(p, c) : n \in s.text.numbers
               /\ c.denies => \E s \in Cited(p, c) : s.text.denies
               /\ IF Len(c.terms) <= 3 THEN Found(p, c) = DOMAIN c.terms
                  ELSE 2 * Cardinality(Found(p, c)) > Len(c.terms)
  <1>. DEFINE c == d.clause
              texts == sourceTexts(p, c.refs)
  <1>1. /\ runDeterministicDraftGuard(p, d) = {} /\ c \in Texts
        /\ numbersAreEntailed(c, texts) /\ polarityIsEntailed(c, texts)
        /\ materialTermsAreEntailed(c, texts)
    BY DEF verify, Entailed, InspectionDraft
  <1>2. PICK m \in d.modules : TRUE
    <2>1. d.modules \in (SUBSET DraftModules) \ {{}}
      BY DEF InspectionDraft
    <2>. QED
      BY <2>1
  <1>3. checkClause(p, m, c) = {}
    BY <1>1, <1>2 DEF runDeterministicDraftGuard
  <1>4. ASSUME NEW ref \in c.refs
        PROVE  \E s \in Cited(p, c) : s.kind = ref.kind /\ s.id = ref.id
    <2>1. packetAuthorizesSource(p, ref)
      <3>1. ~packetAuthorizesSource(p, ref) =>
               "unauthorized_provenance" \in checkClause(p, m, c)
        BY DEF checkClause
      <3>. QED
        BY <1>3, <3>1
    <2>. QED
      BY <2>1 DEF packetAuthorizesSource, Cited
  <1>5. ASSUME NEW n \in c.numbers
        PROVE  \E s \in Cited(p, c) : n \in s.text.numbers
    <2>1. PICK t \in texts : n \in t.numbers
      BY <1>1 DEF numbersAreEntailed
    <2>2. PICK s \in Cited(p, c) : t = s.text
      BY TextsAreCited
    <2>3. n \in s.text.numbers
      BY <2>1, <2>2
    <2>. QED
      BY <2>3
  <1>6. c.denies => \E s \in Cited(p, c) : s.text.denies
    <2>. SUFFICES ASSUME c.denies PROVE \E s \in Cited(p, c) : s.text.denies
      OBVIOUS
    <2>1. PICK t \in texts : t.denies
      BY <1>1 DEF polarityIsEntailed
    <2>. QED
      BY <2>1, TextsAreCited
  <1>7. IF Len(c.terms) <= 3 THEN Found(p, c) = DOMAIN c.terms
        ELSE 2 * Cardinality(Found(p, c)) > Len(c.terms)
    BY <1>1, TermsAreFound
  <1>. QED
    BY <1>4, <1>5, <1>6, <1>7

(* What is stored for a run comes from its packet and is judged for what   *)
(* it says, however its attempts overlap (repository.ts:79-134,            *)
(* runner.ts:115-163, 312-376).                                            *)
THEOREM DraftsAreGrounded == DraftSpec => []DraftIsGrounded
  <1>1. ASSUME DraftInv, NEW r \in RunIds, record[r] # NoRecord
        PROVE  Good(record[r], boundTo[r]) /\ boundTo[r] # 0
    BY <1>1 DEF DraftInv, RunOk
  <1>2. DraftInv => VerdictIsExact
    <2>. SUFFICES ASSUME DraftInv, NEW r \in RunIds, record[r] # NoRecord
                  PROVE  LET rec == record[r]
                             c == rec.draft.clause
                             p == boundTo[r]
                         IN  /\ rec.verification # NoVerdict => rec.verification.of = rec.draft
                             /\ rec.status = "verified" =>
                                  /\ rec.verification.passed
                                  /\ \A ref \in c.refs : \E s \in Cited(p, c) :
                                        s.kind = ref.kind /\ s.id = ref.id
                                  /\ \A n \in c.numbers :
                                        \E s \in Cited(p, c) : n \in s.text.numbers
                                  /\ c.denies => \E s \in Cited(p, c) : s.text.denies
                                  /\ IF Len(c.terms) <= 3 THEN Found(p, c) = DOMAIN c.terms
                                     ELSE 2 * Cardinality(Found(p, c)) > Len(c.terms)
      BY DEF VerdictIsExact, Cited, Found
    <2>1. Good(record[r], boundTo[r])
      BY <1>1
    <2>2. record[r].verification # NoVerdict => record[r].verification.of = record[r].draft
      BY <2>1 DEF Good, verify
    <2>3. record[r].status = "verified" =>
             verify(boundTo[r], record[r].draft).passed /\ record[r].verification.passed
      BY <2>1 DEF Good
    <2>4. record[r].draft \in InspectionDraft
      BY <2>1 DEF Good
    <2>. QED
      BY <2>2, <2>3, <2>4, PassedIsSupported
  <1>3. DraftInv => DraftSawItsPacket
    <2>. SUFFICES ASSUME DraftInv, NEW r \in RunIds, record[r] # NoRecord
                  PROVE  /\ record[r].packet = boundTo[r] /\ record[r].draft.packet = boundTo[r]
                         /\ record[r].saw = NoRequest \/ record[r].saw.packet = boundTo[r]
                         /\ \A i \in record[r].saw.images : \E x \in Proxies :
                               x.id = i /\ x.trustState = "safe_proxy" /\ x.resolved = "same"
      BY DEF DraftSawItsPacket
    <2>1. Good(record[r], boundTo[r]) /\ boundTo[r] # 0
      BY <1>1
    <2>. DEFINE Safe == {s \in SUBSET Proxies : \A x \in s : sameProxyManifest(x)}
                Asked(p, xs) == [packet |-> p, images |-> {x.id : x \in xs}]
    <2>2. Prepared = {NoRequest} \cup {Asked(p, xs) : p \in Revisions, xs \in Safe}
      BY DEF Prepared
    <2>3. record[r].saw \in Prepared
      BY <2>1 DEF Good
    <2>4. NoRequest.images = {}
      BY DEF NoRequest
    <2>. HIDE DEF Asked, Safe, NoRequest
    <2>5. record[r].saw \in {NoRequest} \cup {Asked(p, xs) : p \in Revisions, xs \in Safe}
      BY <2>2, <2>3
    <2>6. ASSUME NEW i \in record[r].saw.images
          PROVE  \E x \in Proxies : x.id = i /\ x.trustState = "safe_proxy" /\ x.resolved = "same"
      <3>1. PICK p \in Revisions, xs \in Safe : record[r].saw = Asked(p, xs)
        BY <2>4, <2>5, <2>6
      <3>2. PICK x \in xs : x.id = i
        BY <2>6, <3>1 DEF Asked
      <3>. QED
        BY <3>2 DEF Safe, sameProxyManifest
    <2>. QED
      BY <2>1, <2>6 DEF Good
  <1>. QED
    BY <1>2, <1>3, DraftInvariant, PTL DEF DraftIsGrounded

(* An attempt that began after its packet was superseded ends without a    *)
(* verdict (runner.ts:106-108, 178-189).                                   *)
THEOREM LateAttemptsGiveNoVerdict == DraftSpec => []NoLateVerdict
  <1>1. DraftInv => NoLateVerdict
    BY DEF DraftInv, AttemptOk, LateOk, NoLateVerdict
  <1>. QED
    BY <1>1, DraftInvariant, PTL

-----------------------------------------------------------------------------
(* The coverage ledger.  What a ledger says of a pair of area and module   *)
(* is kept in three lists; each entry that is recorded brings the other    *)
(* two in line with it, and compare-and-set saves only what was made from  *)
(* the stored ledger.                                                      *)
Entry == [id : Nat, area : DOMAIN AreaModules, module : Surveyed,
          state : AreaCoverageState]
QualifierStatus == {"active", "superseded", "open", "resolved"}
Qualifier == [area : DOMAIN AreaModules, module : Surveyed, status : QualifierStatus]

IsLast(entries, i) ==
    \A k \in DOMAIN entries : Pair(entries[k]) = Pair(entries[i]) => k <= i
Raised(items, status, p) == \E n \in Having(items, status) : Pair(items[n]) = p
Once(items, status) ==
    \A m, n \in Having(items, status) : Pair(items[m]) = Pair(items[n]) => m = n

LastSays(l) ==
    \A i \in DOMAIN l.entries : IsLast(l.entries, i) =>
       /\ l.entries[i].state \in Limited
             <=> Raised(l.limitations, "active", Pair(l.entries[i]))
       /\ l.entries[i].state = "revisit"
             <=> Raised(l.revisitItems, "open", Pair(l.entries[i]))
HasLast(l) ==
    \A i \in DOMAIN l.entries : \E j \in DOMAIN l.entries :
       Pair(l.entries[j]) = Pair(l.entries[i]) /\ IsLast(l.entries, j)
RaisedByEntry(l) ==
    \A p : Raised(l.limitations, "active", p) \/ Raised(l.revisitItems, "open", p) =>
       \E i \in DOMAIN l.entries : Pair(l.entries[i]) = p
LedgerOk(l) ==
    /\ l.revision \in Nat /\ l.entries \in Seq(Entry)
    /\ l.limitations \in Seq(Qualifier) /\ l.revisitItems \in Seq(Qualifier)
    /\ \A i \in DOMAIN l.entries :
          recordable(l.entries[i].area, l.entries[i].module, l.entries[i].state)
    /\ Once(l.limitations, "active") /\ Once(l.revisitItems, "open")
    /\ LastSays(l) /\ HasLast(l) /\ RaisedByEntry(l)

LEMMA PairsAreEqual ==
    ASSUME NEW x, NEW area, NEW module
    PROVE  Pair(x) = <<area, module>> <=> x.area = area /\ x.module = module
  BY DEF Pair

(* Closing the earlier qualifiers of a pair touches no other pair.         *)
LEMMA ClosedQualifiers ==
    ASSUME NEW items \in Seq(Qualifier), NEW area, NEW module, NEW status \in QualifierStatus
    PROVE  LET c == closeEarlier(items, area, module, status) IN
           /\ c \in Seq(Qualifier) /\ Len(c) = Len(items) /\ DOMAIN c = DOMAIN items
           /\ \A i \in DOMAIN items :
                 /\ Pair(c[i]) = Pair(items[i])
                 /\ c[i].status = IF Pair(items[i]) = <<area, module>> THEN status
                                  ELSE items[i].status
  <1>. DEFINE c == closeEarlier(items, area, module, status)
              mine(x) == x.area = area /\ x.module = module
              after(x) == IF mine(x) THEN [x EXCEPT !.status = status] ELSE x
  <1>1. c = [i \in DOMAIN items |-> after(items[i])]
    BY DEF closeEarlier
  <1>2. ASSUME NEW x \in Qualifier
        PROVE  /\ after(x) \in Qualifier /\ Pair(after(x)) = Pair(x)
               /\ after(x).status = IF Pair(x) = <<area, module>> THEN status ELSE x.status
    <2>1. CASE mine(x)
      <3>1. after(x) = [x EXCEPT !.status = status] /\ Pair(x) = <<area, module>>
        BY <2>1, PairsAreEqual
      <3>2. /\ [x EXCEPT !.status = status] \in Qualifier
            /\ [x EXCEPT !.status = status].status = status
            /\ [x EXCEPT !.status = status].area = x.area
            /\ [x EXCEPT !.status = status].module = x.module
        BY DEF Qualifier
      <3>. QED
        BY <3>1, <3>2 DEF Pair
    <2>2. CASE ~mine(x)
      BY <2>2, PairsAreEqual
    <2>. QED
      BY <2>1, <2>2
  <1>. HIDE DEF after
  <1>3. Len(items) \in Nat /\ DOMAIN items = 1 .. Len(items)
        /\ \A i \in DOMAIN items : items[i] \in Qualifier
    OBVIOUS
  <1>4. c \in [1 .. Len(items) -> Qualifier]
    BY <1>1, <1>2, <1>3
  <1>. HIDE DEF c
  <1>5. c \in Seq(Qualifier) /\ Len(c) = Len(items) /\ DOMAIN c = DOMAIN items
    BY <1>3, <1>4
  <1>6. \A i \in DOMAIN items : c[i] = after(items[i])
    BY <1>1
  <1>. QED
    BY <1>2, <1>3, <1>5, <1>6 DEF c

(* Of the pair that is recorded at most the new qualifier is left.         *)
LEMMA QualifiersFollow ==
    ASSUME NEW items \in Seq(Qualifier), NEW area \in DOMAIN AreaModules,
           NEW module \in Surveyed,
           NEW live \in {"active", "open"}, NEW closed \in {"superseded", "resolved"},
           Once(items, live)
    PROVE  LET c == closeEarlier(items, area, module, closed)
               a == Append(c, [area |-> area, module |-> module, status |-> live])
           IN  /\ c \in Seq(Qualifier) /\ Once(c, live)
               /\ a \in Seq(Qualifier) /\ Once(a, live)
               /\ ~Raised(c, live, <<area, module>>) /\ Raised(a, live, <<area, module>>)
               /\ \A p : p # <<area, module>> =>
                     /\ Raised(c, live, p) <=> Raised(items, live, p)
                     /\ Raised(a, live, p) <=> Raised(items, live, p)
  <1>. DEFINE c == closeEarlier(items, area, module, closed)
              new == [area |-> area, module |-> module, status |-> live]
              a == Append(c, new)
              mine == <<area, module>>
  <1>1. /\ c \in Seq(Qualifier) /\ Len(c) = Len(items) /\ DOMAIN c = DOMAIN items
        /\ \A i \in DOMAIN items :
              /\ Pair(c[i]) = Pair(items[i])
              /\ c[i].status = IF Pair(items[i]) = mine THEN closed ELSE items[i].status
    <2>1. closed \in QualifierStatus
      BY DEF QualifierStatus
    <2>. QED
      BY <2>1, ClosedQualifiers
  <1>2. new \in Qualifier /\ Pair(new) = mine /\ new.status = live /\ closed # live
    <2>1. live \in QualifierStatus /\ closed # live
      BY DEF QualifierStatus
    <2>2. new \in Qualifier
      BY <2>1 DEF Qualifier
    <2>. QED
      BY <2>1, <2>2 DEF Pair
  <1>. HIDE DEF c, new, mine, a
  <1>3. Having(c, live) = {i \in Having(items, live) : Pair(items[i]) # mine}
    BY <1>1, <1>2 DEF Having
  <1>4. \A i \in Having(c, live) : /\ i \in Having(items, live) /\ i \in DOMAIN c
                                   /\ Pair(c[i]) = Pair(items[i]) /\ Pair(c[i]) # mine
    BY <1>1, <1>3 DEF Having
  <1>5. Once(c, live) /\ ~Raised(c, live, mine)
    BY <1>4 DEF Once, Raised
  <1>6. ASSUME NEW p, p # mine PROVE Raised(c, live, p) <=> Raised(items, live, p)
    BY <1>3, <1>4, <1>6 DEF Raised
  <1>7. /\ a \in Seq(Qualifier) /\ Len(c) \in Nat
        /\ DOMAIN c = 1 .. Len(c) /\ DOMAIN a = 1 .. Len(c) + 1
        /\ a[Len(c) + 1] = new
        /\ \A i \in DOMAIN c : i \in DOMAIN a /\ a[i] = c[i]
    BY <1>1, <1>2, AppendKeeps DEF a
  <1>8. Having(a, live) = Having(c, live) \cup {Len(c) + 1}
    BY <1>2, <1>7 DEF Having
  <1>9. \A i \in Having(c, live) : i # Len(c) + 1 /\ a[i] = c[i]
    BY <1>4, <1>7
  <1>10. Once(a, live)
    BY <1>2, <1>4, <1>5, <1>7, <1>8, <1>9 DEF Once
  <1>11. Raised(a, live, mine)
    BY <1>2, <1>7, <1>8 DEF Raised
  <1>12. ASSUME NEW p, p # mine PROVE Raised(a, live, p) <=> Raised(c, live, p)
    BY <1>2, <1>7, <1>8, <1>9, <1>12 DEF Raised
  <1>. QED
    BY <1>1, <1>5, <1>6, <1>7, <1>10, <1>11, <1>12 DEF a, mine, c, new

(* The ledger after a close-out speaks for all of its entries again.       *)
LEMMA RecordedLedger ==
    ASSUME NEW l, LedgerOk(l), NEW area \in DOMAIN AreaModules, NEW module \in Surveyed,
           NEW state \in AreaCoverageState, recordable(area, module, state)
    PROVE  LET r == recordAreaCoverage(l, area, module, state) IN
           /\ LedgerOk(r) /\ r.revision = l.revision + 1
           /\ Len(r.entries) = Len(l.entries) + 1 /\ Len(l.entries) \in Nat
           /\ \A i \in DOMAIN l.entries : i \in DOMAIN r.entries /\ r.entries[i] = l.entries[i]
  <1>. DEFINE r == recordAreaCoverage(l, area, module, state)
              n == Len(l.entries) + 1
              new == [id |-> l.revision + 1, area |-> area, module |-> module,
                      state |-> state]
              mine == <<area, module>>
  <1>1. /\ r.revision = l.revision + 1 /\ r.entries = Append(l.entries, new)
        /\ r.limitations = Added(closeEarlier(l.limitations, area, module, "superseded"),
              state \in Limited, [area |-> area, module |-> module, status |-> "active"])
        /\ r.revisitItems = Added(closeEarlier(l.revisitItems, area, module, "resolved"),
              state = "revisit", [area |-> area, module |-> module, status |-> "open"])
    BY DEF recordAreaCoverage
  <1>. HIDE DEF r
  <1>2. l.revision \in Nat /\ l.entries \in Seq(Entry) /\ l.limitations \in Seq(Qualifier)
        /\ l.revisitItems \in Seq(Qualifier) /\ Once(l.limitations, "active")
        /\ Once(l.revisitItems, "open")
    BY DEF LedgerOk
  <1>3. /\ new \in Entry /\ new.area = area /\ new.module = module /\ new.state = state
        /\ Pair(new) = mine
    <2>1. l.revision + 1 \in Nat
      BY <1>2
    <2>. QED
      BY <2>1 DEF Entry, Pair
  <1>. HIDE DEF new
  <1>4. /\ r.limitations \in Seq(Qualifier) /\ Once(r.limitations, "active")
        /\ \A p : /\ p = mine => (Raised(r.limitations, "active", p) <=> (state \in Limited))
                  /\ p # mine => (Raised(r.limitations, "active", p) <=> Raised(l.limitations, "active", p))
    <2>. DEFINE old == l.limitations
                c == closeEarlier(old, area, module, "superseded")
                a == Append(c, [area |-> area, module |-> module, status |-> "active"])
    <2>1. /\ c \in Seq(Qualifier) /\ Once(c, "active")
          /\ a \in Seq(Qualifier) /\ Once(a, "active")
          /\ ~Raised(c, "active", mine) /\ Raised(a, "active", mine)
          /\ \A p : p # mine => /\ Raised(c, "active", p) <=> Raised(old, "active", p)
                                /\ Raised(a, "active", p) <=> Raised(old, "active", p)
      BY <1>2, QualifiersFollow
    <2>2. r.limitations = IF state \in Limited THEN a ELSE c
      BY <1>1 DEF Added
    <2>. HIDE DEF old, a, c
    <2>. QED
      BY <2>1, <2>2 DEF old
  <1>5. /\ r.revisitItems \in Seq(Qualifier) /\ Once(r.revisitItems, "open")
        /\ \A p : /\ p = mine => (Raised(r.revisitItems, "open", p) <=> (state = "revisit"))
                  /\ p # mine => (Raised(r.revisitItems, "open", p) <=> Raised(l.revisitItems, "open", p))
    <2>. DEFINE old == l.revisitItems
                c == closeEarlier(old, area, module, "resolved")
                a == Append(c, [area |-> area, module |-> module, status |-> "open"])
    <2>1. /\ c \in Seq(Qualifier) /\ Once(c, "open")
          /\ a \in Seq(Qualifier) /\ Once(a, "open")
          /\ ~Raised(c, "open", mine) /\ Raised(a, "open", mine)
          /\ \A p : p # mine => /\ Raised(c, "open", p) <=> Raised(old, "open", p)
                                /\ Raised(a, "open", p) <=> Raised(old, "open", p)
      BY <1>2, QualifiersFollow
    <2>2. r.revisitItems = IF state = "revisit" THEN a ELSE c
      BY <1>1 DEF Added
    <2>. HIDE DEF old, a, c
    <2>. QED
      BY <2>1, <2>2 DEF old
  <1>. HIDE DEF mine
  <1>6. /\ r.entries \in Seq(Entry) /\ Len(r.entries) = n /\ Len(l.entries) \in Nat
        /\ DOMAIN l.entries = 1 .. Len(l.entries) /\ DOMAIN r.entries = 1 .. n
        /\ r.entries[n] = new
        /\ \A i \in DOMAIN l.entries : i \in DOMAIN r.entries /\ r.entries[i] = l.entries[i]
    BY <1>1, <1>2, <1>3, AppendKeeps
  <1>7. IsLast(r.entries, n)
    BY <1>6 DEF IsLast
  <1>8. ASSUME NEW i \in DOMAIN l.entries
        PROVE  /\ i # n /\ r.entries[i] = l.entries[i]
               /\ IsLast(r.entries, i) <=>
                     IsLast(l.entries, i) /\ Pair(l.entries[i]) # mine
    BY <1>3, <1>6 DEF IsLast
  <1>9. LastSays(r)
    <2>1. ASSUME NEW i \in DOMAIN r.entries, IsLast(r.entries, i)
          PROVE  /\ r.entries[i].state \in Limited
                       <=> Raised(r.limitations, "active", Pair(r.entries[i]))
                 /\ r.entries[i].state = "revisit"
                       <=> Raised(r.revisitItems, "open", Pair(r.entries[i]))
      <3>1. CASE i = n
        BY <1>3, <1>4, <1>5, <1>6, <3>1
      <3>2. CASE i \in DOMAIN l.entries
        BY <1>4, <1>5, <1>8, <2>1, <3>2 DEF LedgerOk, LastSays
      <3>. QED
        BY <1>6, <3>1, <3>2
    <2>. QED
      BY <2>1 DEF LastSays
  <1>10. HasLast(r)
    <2>1. ASSUME NEW i \in DOMAIN r.entries
          PROVE  \E j \in DOMAIN r.entries :
                    Pair(r.entries[j]) = Pair(r.entries[i]) /\ IsLast(r.entries, j)
      <3>1. CASE Pair(r.entries[i]) = mine
        BY <1>3, <1>6, <1>7, <3>1
      <3>2. CASE Pair(r.entries[i]) # mine
        <4>1. i \in DOMAIN l.entries /\ Pair(l.entries[i]) # mine
          BY <1>3, <1>6, <3>2
        <4>2. PICK j \in DOMAIN l.entries :
                 Pair(l.entries[j]) = Pair(l.entries[i]) /\ IsLast(l.entries, j)
          BY <4>1 DEF LedgerOk, HasLast
        <4>. QED
          BY <1>6, <1>8, <4>1, <4>2
      <3>. QED
        BY <3>1, <3>2
    <2>. QED
      BY <2>1 DEF HasLast
  <1>11. RaisedByEntry(r)
    <2>1. ASSUME NEW p, Raised(r.limitations, "active", p) \/ Raised(r.revisitItems, "open", p)
          PROVE  \E i \in DOMAIN r.entries : Pair(r.entries[i]) = p
      <3>1. CASE p = mine
        BY <1>3, <1>6, <3>1
      <3>2. CASE p # mine
        <4>1. PICK i \in DOMAIN l.entries : Pair(l.entries[i]) = p
          BY <1>4, <1>5, <2>1, <3>2 DEF LedgerOk, RaisedByEntry
        <4>. QED
          BY <1>6, <4>1
      <3>. QED
        BY <3>1, <3>2
    <2>. QED
      BY <2>1 DEF RaisedByEntry
  <1>12. ASSUME NEW i \in DOMAIN r.entries
         PROVE  recordable(r.entries[i].area, r.entries[i].module, r.entries[i].state)
    <2>1. CASE i = n
      BY <1>3, <1>6, <2>1
    <2>2. CASE i \in DOMAIN l.entries
      BY <1>6, <2>2 DEF LedgerOk
    <2>. QED
      BY <1>6, <2>1, <2>2
  <1>13. r.revision \in Nat
    BY <1>1, <1>2
  <1>14. LedgerOk(r)
    BY <1>4, <1>5, <1>6, <1>9, <1>10, <1>11, <1>12, <1>13 DEF LedgerOk
  <1>. QED
    BY <1>1, <1>6, <1>14 DEF r

(* What a screen is about to save is its copy and one entry more.          *)
Extends(l, copied) ==
    /\ LedgerOk(l) /\ l.revision = copied.revision + 1
    /\ Len(l.entries) = Len(copied.entries) + 1 /\ Len(copied.entries) \in Nat
    /\ \A i \in DOMAIN copied.entries :
          i \in DOMAIN l.entries /\ l.entries[i] = copied.entries[i]

ScreenOk(s) ==
    /\ LedgerOk(copy[s]) /\ copy[s].revision <= cover.revision
    /\ copy[s].revision = cover.revision => copy[s] = cover
    /\ pending[s] = copy[s] \/ Extends(pending[s], copy[s])

PacketOk == \A c \in packet.coverage :
    c.state \in Limited <=> \E l \in packet.limitations : l.pair = c.pair

CoverInv ==
    /\ LedgerOk(cover)
    /\ DOMAIN copy = Screens /\ DOMAIN pending = Screens
    /\ \A s \in Screens : ScreenOk(s)
    /\ \A e \in told : \E i \in DOMAIN cover.entries : cover.entries[i] = e
    /\ PacketOk

LEMMA SaveCoveragePreserves ==
    ASSUME CoverInv, NEW s \in Screens, saveCoverage(s) PROVE CoverInv'
  <1>0. /\ LedgerOk(copy[s]) /\ Extends(pending[s], copy[s]) /\ UNCHANGED packet
        /\ cover.revision \in Nat
    BY DEF saveCoverage, CoverInv, ScreenOk, LedgerOk
  <1>1. CASE cover.revision # copy[s].revision
    <2>1. pending' = [pending EXCEPT ![s] = copy[s]] /\ UNCHANGED <<cover, copy, told>>
      BY <1>1 DEF saveCoverage
    <2>2. \A v \in Screens : pending'[v] = IF v = s THEN copy[v] ELSE pending[v]
      BY <2>1 DEF CoverInv
    <2>. QED
      BY <1>0, <2>1, <2>2 DEF CoverInv, ScreenOk, PacketOk
  <1>2. CASE cover.revision = copy[s].revision
    <2>. DEFINE new == pending[s]
                e == new.entries[Len(new.entries)]
    <2>1. /\ cover' = new /\ copy' = [copy EXCEPT ![s] = new] /\ UNCHANGED pending
          /\ told' = told \cup {e}
      BY <1>2 DEF saveCoverage
    <2>2. cover = copy[s]
      BY <1>2 DEF CoverInv, ScreenOk
    <2>3. /\ LedgerOk(new) /\ new.revision = cover.revision + 1 /\ new.revision \in Nat
          /\ Len(new.entries) \in DOMAIN new.entries
          /\ \A i \in DOMAIN cover.entries :
                i \in DOMAIN new.entries /\ new.entries[i] = cover.entries[i]
      BY <1>0, <2>2 DEF Extends, LedgerOk
    <2>. HIDE DEF new
    <2>4. \A v \in Screens : copy'[v] = IF v = s THEN new ELSE copy[v]
      BY <2>1 DEF CoverInv
    <2>5. ASSUME NEW v \in Screens PROVE ScreenOk(v)'
      <3>1. CASE v = s
        BY <2>1, <2>3, <2>4, <3>1 DEF ScreenOk, new
      <3>2. CASE v # s
        <4>1. ScreenOk(v) /\ copy[v].revision \in Nat
          BY DEF CoverInv, ScreenOk, LedgerOk
        <4>. QED
          BY <1>0, <2>1, <2>3, <2>4, <3>2, <4>1 DEF ScreenOk
      <3>. QED
        BY <3>1, <3>2
    <2>6. \A d \in told' : \E i \in DOMAIN cover'.entries : cover'.entries[i] = d
      BY <2>1, <2>3 DEF CoverInv
    <2>. QED
      BY <1>0, <2>1, <2>3, <2>5, <2>6 DEF CoverInv, PacketOk
  <1>. QED
    BY <1>1, <1>2

LEMMA CloseOutPreserves ==
    ASSUME CoverInv, NEW s \in Screens, NEW a \in DOMAIN AreaModules, NEW m \in Surveyed,
           NEW c \in AreaCoverageState, closeOutArea(s, a, m, c)
    PROVE  CoverInv'
  <1>. DEFINE r == recordAreaCoverage(copy[s], a, m, c)
  <1>1. /\ LedgerOk(copy[s]) /\ recordable(a, m, c)
        /\ pending' = [pending EXCEPT ![s] = r] /\ UNCHANGED <<cover, copy, packet, told>>
    BY DEF closeOutArea, CoverInv, ScreenOk
  <1>2. Extends(r, copy[s])
    BY <1>1, RecordedLedger DEF Extends
  <1>. HIDE DEF r
  <1>3. \A v \in Screens : pending'[v] = IF v = s THEN r ELSE pending[v]
    BY <1>1 DEF CoverInv
  <1>. QED
    BY <1>1, <1>2, <1>3 DEF CoverInv, ScreenOk, PacketOk

(* A packet names a limitation for a pair exactly when it says the pair is *)
(* limited.                                                                *)
LEMMA PacketPreserves ==
    ASSUME CoverInv, NEW s \in Screens, NEW selected, NEW spans,
           createInvestigationPacket(s, selected, spans)
    PROVE  CoverInv'
  <1>. DEFINE l == copy[s]
              said == {[pair |-> Pair(e), state |-> e.state] : e \in currentCoverageEntries(l)}
              active == Having(l.limitations, "active")
              limit(i) == [n |-> i, pair |-> Pair(l.limitations[i])]
              lims == {limit(i) : i \in active}
  <1>1. /\ LedgerOk(l) /\ UNCHANGED <<cover, copy, pending, told>>
        /\ packet'.coverage = said /\ packet'.limitations = lims
    BY DEF createInvestigationPacket, CoverInv, ScreenOk
  <1>. HIDE DEF l
  <1>2. ASSUME NEW q \in said
        PROVE  q.state \in Limited <=> \E x \in lims : x.pair = q.pair
    <2>1. PICK e \in currentCoverageEntries(l) : q = [pair |-> Pair(e), state |-> e.state]
      BY <1>2
    <2>2. PICK j \in DOMAIN l.entries : e = l.entries[j] /\ IsLast(l.entries, j)
      BY <2>1 DEF currentCoverageEntries, IsLast
    <2>3. e.state \in Limited <=> Raised(l.limitations, "active", Pair(e))
      BY <1>1, <2>2 DEF LedgerOk, LastSays
    <2>4. \A i : limit(i).pair = Pair(l.limitations[i])
      OBVIOUS
    <2>. HIDE DEF limit
    <2>a. (\E x \in lims : x.pair = Pair(e)) <=> \E i \in active : limit(i).pair = Pair(e)
      OBVIOUS
    <2>5. Raised(l.limitations, "active", Pair(e)) <=> \E x \in lims : x.pair = Pair(e)
      BY <2>4, <2>a DEF Raised
    <2>. QED
      BY <2>1, <2>3, <2>5
  <1>3. PacketOk'
    BY <1>1, <1>2 DEF PacketOk
  <1>. QED
    BY <1>1, <1>3 DEF CoverInv, ScreenOk

LEMMA CoverInvariant == CoverSpec => []CoverInv
  <1>1. CoverInit => CoverInv
    <2>. SUFFICES ASSUME CoverInit PROVE CoverInv
      OBVIOUS
    <2>1. /\ cover.revision = 0 /\ cover.entries = <<>> /\ cover.limitations = <<>>
          /\ cover.revisitItems = <<>>
      BY DEF CoverInit, createCoverageLedger
    <2>2. /\ cover.entries \in Seq(Entry) /\ cover.limitations \in Seq(Qualifier)
          /\ cover.revisitItems \in Seq(Qualifier)
      BY <2>1
    <2>3. LedgerOk(cover)
      BY <2>1, <2>2 DEF LedgerOk, LastSays, HasLast, RaisedByEntry, Raised, Once, Having
    <2>4. ASSUME NEW s \in Screens PROVE ScreenOk(s)
      BY <2>1, <2>3 DEF CoverInit, ScreenOk
    <2>5. DOMAIN copy = Screens /\ DOMAIN pending = Screens /\ told = {}
      BY DEF CoverInit
    <2>6. PacketOk
      BY DEF CoverInit, PacketOk, NoPacket
    <2>. QED
      BY <2>3, <2>4, <2>5, <2>6 DEF CoverInv
  <1>2. ASSUME CoverInv, [CoverNext]_coverVars PROVE CoverInv'
    <2>1. ASSUME NEW s \in Screens, loadCoverage(s) PROVE CoverInv'
      <3>1. /\ copy' = [copy EXCEPT ![s] = cover] /\ pending' = [pending EXCEPT ![s] = cover]
            /\ UNCHANGED <<cover, packet, told>>
        BY <2>1 DEF loadCoverage
      <3>2. \A v \in Screens : /\ copy'[v] = IF v = s THEN cover ELSE copy[v]
                               /\ pending'[v] = IF v = s THEN cover ELSE pending[v]
        BY <1>2, <3>1 DEF CoverInv
      <3>3. LedgerOk(cover) /\ cover.revision \in Nat
        BY <1>2 DEF CoverInv, LedgerOk
      <3>4. ASSUME NEW v \in Screens PROVE ScreenOk(v)'
        BY <1>2, <3>1, <3>2, <3>3 DEF CoverInv, ScreenOk
      <3>. QED
        BY <1>2, <3>1, <3>4 DEF CoverInv, PacketOk
    <2>2. CASE UNCHANGED coverVars
      BY <1>2, <2>2 DEF coverVars, CoverInv, ScreenOk, PacketOk
    <2>. QED
      BY <1>2, <2>1, <2>2, SaveCoveragePreserves, CloseOutPreserves, PacketPreserves
         DEF CoverNext
  <1>. QED
    BY <1>1, <1>2, PTL DEF CoverSpec

(* Completion is clear exactly when every pair has a latest entry that is  *)
(* no revisit.                                                             *)
LEMMA CompletionIsExact ==
    ASSUME CoverInv
    PROVE  coverageCompletionIssues(cover) = {} <=>
              \A a \in DOMAIN AreaModules : \A m \in AreaModules[a] :
                 \E e \in currentCoverageEntries(cover) :
                    Pair(e) = <<a, m>> /\ e.state # "revisit"
  <1>. DEFINE l == cover
              applicable == {q \in (DOMAIN AreaModules) \X Surveyed : q[2] \in AreaModules[q[1]]}
              recorded(q) == \E i \in DOMAIN l.entries : Pair(l.entries[i]) = q
  <1>1. LedgerOk(l)
    BY DEF CoverInv
  <1>2. coverageCompletionIssues(l) = {} <=>
           /\ \A q \in applicable : recorded(q)
           /\ Having(l.revisitItems, "open") = {}
    <2>. DEFINE missing == {q \in (DOMAIN AreaModules) \X Surveyed :
                              /\ q[2] \in AreaModules[q[1]]
                              /\ \A i \in DOMAIN l.entries : Pair(l.entries[i]) # q}
                open == Having(l.revisitItems, "open")
    <2>1. coverageCompletionIssues(l) =
             {[reason |-> "coverage_not_recorded", pair |-> p] : p \in missing}
             \cup {[reason |-> "revisit_open", pair |-> Pair(l.revisitItems[i])] : i \in open}
      BY DEF coverageCompletionIssues
    <2>2. missing = {} <=> \A q \in applicable : recorded(q)
      OBVIOUS
    <2>. HIDE DEF missing, open
    <2>3. coverageCompletionIssues(l) = {} <=> missing = {} /\ open = {}
      BY <2>1
    <2>. QED
      BY <2>2, <2>3 DEF open
  <1>3. ASSUME NEW e \in currentCoverageEntries(l)
        PROVE  /\ recorded(Pair(e))
               /\ e.state = "revisit" <=> Raised(l.revisitItems, "open", Pair(e))
    <2>1. PICK i \in DOMAIN l.entries : e = l.entries[i] /\ IsLast(l.entries, i)
      BY <1>3 DEF currentCoverageEntries, IsLast
    <2>. QED
      BY <1>1, <2>1 DEF LedgerOk, LastSays
  <1>4. ASSUME NEW q, recorded(q)
        PROVE  \E e \in currentCoverageEntries(l) : Pair(e) = q
    <2>1. PICK j \in DOMAIN l.entries : Pair(l.entries[j]) = q /\ IsLast(l.entries, j)
      BY <1>1, <1>4 DEF LedgerOk, HasLast
    <2>. QED
      BY <2>1 DEF currentCoverageEntries, IsLast
  <1>5. \A q : q \in applicable <=>
           \E a \in DOMAIN AreaModules : \E m \in AreaModules[a] : q = <<a, m>>
    BY CoverageAssumption DEF CoverageAssumption
  <1>6. ASSUME NEW q, Raised(l.revisitItems, "open", q) PROVE q \in applicable
    <2>1. PICK i \in DOMAIN l.entries : Pair(l.entries[i]) = q
      BY <1>1, <1>6 DEF LedgerOk, RaisedByEntry
    <2>2. PICK j \in DOMAIN l.entries : Pair(l.entries[j]) = q /\ IsLast(l.entries, j)
      BY <1>1, <2>1 DEF LedgerOk, HasLast
    <2>3. l.entries[j].state = "revisit"
      BY <1>1, <1>6, <2>2 DEF LedgerOk, LastSays
    <2>4. /\ l.entries[j] \in Entry
          /\ recordable(l.entries[j].area, l.entries[j].module, l.entries[j].state)
      BY <1>1 DEF LedgerOk
    <2>5. l.entries[j].area \in DOMAIN AreaModules /\ l.entries[j].module \in Surveyed
      BY <2>4 DEF Entry
    <2>6. q = <<l.entries[j].area, l.entries[j].module>>
      BY <2>2 DEF Pair
    <2>. QED
      BY <2>3, <2>4, <2>5, <2>6 DEF recordable
  <1>. HIDE DEF applicable, recorded
  <1>7. ASSUME coverageCompletionIssues(l) = {}, NEW q \in applicable
        PROVE  \E e \in currentCoverageEntries(l) : Pair(e) = q /\ e.state # "revisit"
    <2>1. PICK e \in currentCoverageEntries(l) : Pair(e) = q
      BY <1>2, <1>4, <1>7
    <2>. QED
      BY <1>2, <1>3, <1>7, <2>1 DEF Raised
  <1>8. ASSUME \A q \in applicable :
                  \E e \in currentCoverageEntries(l) : Pair(e) = q /\ e.state # "revisit"
        PROVE  coverageCompletionIssues(l) = {}
    <2>1. \A q \in applicable : recorded(q)
      BY <1>3, <1>8
    <2>2. ASSUME NEW n \in Having(l.revisitItems, "open") PROVE FALSE
      <3>. DEFINE q == Pair(l.revisitItems[n])
      <3>1. Raised(l.revisitItems, "open", q)
        BY DEF Raised
      <3>2. PICK e \in currentCoverageEntries(l) : Pair(e) = q /\ e.state # "revisit"
        BY <1>6, <1>8, <3>1
      <3>. QED
        BY <1>3, <3>1, <3>2
    <2>. QED
      BY <1>2, <2>1, <2>2
  <1>. DEFINE covered(q) == \E e \in currentCoverageEntries(l) :
                               Pair(e) = q /\ e.state # "revisit"
  <1>9. coverageCompletionIssues(l) = {} <=> \A q \in applicable : covered(q)
    BY <1>7, <1>8
  <1>. HIDE DEF covered
  <1>10. (\A q \in applicable : covered(q)) <=>
            \A a \in DOMAIN AreaModules : \A m \in AreaModules[a] : covered(<<a, m>>)
    BY <1>5
  <1>. QED
    BY <1>9, <1>10 DEF covered

(* However screens interleave, recorded entries stay, each pair has the    *)
(* one qualifier its latest entry calls for, and completion and packets    *)
(* agree with the entries (coverage.ts:143-264, packet.ts:76-104).         *)
THEOREM CoverageAlwaysSpeaksOnce == CoverSpec => []CoverageSpeaksOnce
  <1>1. ASSUME CoverInv, NEW e \in currentCoverageEntries(cover)
        PROVE  LET live == {i \in Having(cover.limitations, "active") :
                              Pair(cover.limitations[i]) = Pair(e)}
               IN  /\ e.state \in Limited <=> \E i \in live : live = {i}
                   /\ e.state \notin Limited => live = {}
    <2>. DEFINE live == {i \in Having(cover.limitations, "active") :
                            Pair(cover.limitations[i]) = Pair(e)}
    <2>1. LedgerOk(cover)
      BY <1>1 DEF CoverInv
    <2>2. PICK i \in DOMAIN cover.entries : e = cover.entries[i] /\ IsLast(cover.entries, i)
      BY <1>1 DEF currentCoverageEntries, IsLast
    <2>3. e.state \in Limited <=> live # {}
      BY <2>1, <2>2 DEF LedgerOk, LastSays, Raised
    <2>4. \A m, n \in live : m = n
      BY <2>1 DEF LedgerOk, Once
    <2>. QED
      BY <2>3, <2>4
  <1>2. CoverInv => CoverageSpeaksOnce
    <2>. SUFFICES ASSUME CoverInv PROVE CoverageSpeaksOnce
      OBVIOUS
    <2>1. \A e \in told : \E i \in DOMAIN cover.entries : cover.entries[i] = e
      BY DEF CoverInv
    <2>2. \A c \in packet.coverage :
             (c.state \in Limited) <=> (\E l \in packet.limitations : l.pair = c.pair)
      BY DEF CoverInv, PacketOk
    <2>. QED
      BY <1>1, <2>1, <2>2, CompletionIsExact DEF CoverageSpeaksOnce
  <1>. QED
    BY <1>2, CoverInvariant, PTL

-----------------------------------------------------------------------------
(* The event history.  A line may be lost, moved or altered, but only      *)
(* writers make hashes: every hash in the store was issued, and it is the  *)
(* whole chain up to its line.                                             *)
Entries == [version : Nat, body : Bodies]
Lines == [body : Bodies, version : Nat, previous : Seq(Entries), hash : Seq(Entries)]

Genuine == {l \in Lines : l.hash \in issued}

(* A checkpoint's hash is of the events it was taken over.                 *)
CheckpointOk ==
    checkpoint = NoCheckpoint \/
        /\ checkpoint.through \in Nat
        /\ \A i \in 1 .. checkpoint.through :
              checkpoint.hash[i].body = checkpoint.over[i]

HistoryInv ==
    /\ issued \subseteq Seq(Entries)
    /\ stored \in Seq(Genuine)
    /\ CheckpointOk

(* The least-number principle, for the inductions below.                   *)
LEMMA LeastOf ==
    ASSUME NEW S \in SUBSET Nat, S # {}
    PROVE  \E m \in S : \A k \in S : m <= k
  <1>. DEFINE below == OpToRel(<, Nat)
  <1>1. IsWellFoundedOn(below, Nat)
    BY NatLessThanWellFounded
  <1>2. \A x, y \in Nat : x < y => <<x, y>> \in below
    BY DEF OpToRel
  <1>. HIDE DEF below
  <1>3. PICK m \in S : \A k \in S : ~(<<k, m>> \in below)
    BY <1>1, WFMin
  <1>4. \A k \in S : ~(k < m)
    BY <1>2, <1>3
  <1>. QED
    BY <1>4

LEMMA HistoryInitially == ASSUME HistoryInit PROVE HistoryInv
  BY DEF HistoryInit, HistoryInv, CheckpointOk

(* The store only loses or moves what it has.                              *)
LEMMA RearrangingPreserves ==
    ASSUME HistoryInv, NEW i \in DOMAIN stored, Drop(i) \/ Swap(i) \/ Duplicate(i)
    PROVE  HistoryInv'
  <1>. DEFINE L == Genuine
  <1>. stored \in Seq(L)
    BY DEF HistoryInv
  <1>0. i \in 1 .. Len(stored)
    OBVIOUS
  <1>. HIDE DEF L
  <1>1. stored' \in Seq(L)
    <2>1. CASE Drop(i)
      <3>1. SubSeq(stored, 1, i - 1) \in Seq(L) /\ SubSeq(stored, i + 1, Len(stored)) \in Seq(L)
        BY <1>0, SubSeqProperties
      <3>2. SubSeq(stored, 1, i - 1) \o SubSeq(stored, i + 1, Len(stored)) \in Seq(L)
        BY <3>1
      <3>. QED
        BY <2>1, <3>2 DEF Drop, Damage
    <2>2. CASE Swap(i)
      <3>1. i + 1 \in 1 .. Len(stored)
        BY <1>0, <2>2 DEF Swap
      <3>2. [stored EXCEPT ![i] = stored[i + 1], ![i + 1] = stored[i]] \in Seq(L)
        BY <1>0, <3>1
      <3>. QED
        BY <2>2, <3>2 DEF Swap, Damage
    <2>3. CASE Duplicate(i)
      <3>1. SubSeq(stored, 1, i) \in Seq(L) /\ SubSeq(stored, i, Len(stored)) \in Seq(L)
        BY <1>0, SubSeqProperties
      <3>2. SubSeq(stored, 1, i) \o SubSeq(stored, i, Len(stored)) \in Seq(L)
        BY <3>1
      <3>. QED
        BY <2>3, <3>2 DEF Duplicate, Damage
    <2>. QED
      BY <2>1, <2>2, <2>3
  <1>2. issued' = issued /\ checkpoint' = checkpoint
    BY DEF Drop, Swap, Duplicate, Damage
  <1>3. Genuine' = Genuine
    BY <1>2 DEF Genuine
  <1>. QED
    BY <1>1, <1>2, <1>3 DEF HistoryInv, CheckpointOk, L

(* It alters bodies and versions, no hash.                                 *)
LEMMA AlteringPreserves ==
    ASSUME HistoryInv, NEW i \in DOMAIN stored,
           (\E b \in Bodies : Alter(i, b)) \/ (\E v \in 1 .. MaxEvents : Renumber(i, v))
    PROVE  HistoryInv'
  <1>. /\ stored \in Seq(Genuine) /\ i \in 1 .. Len(stored)
       /\ stored[i] \in Genuine
    BY DEF HistoryInv
  <1>1. stored' \in Seq(Genuine)
    <2>1. CASE \E b \in Bodies : Alter(i, b)
      <3>1. PICK b \in Bodies : Alter(i, b)
        BY <2>1
      <3>2. [stored[i] EXCEPT !.body = b] \in Genuine
        BY DEF Genuine, Lines
      <3>3. [stored EXCEPT ![i] = [stored[i] EXCEPT !.body = b]] \in Seq(Genuine)
        BY <3>2
      <3>. QED
        BY <3>1, <3>3 DEF Alter, Damage
    <2>2. CASE \E v \in 1 .. MaxEvents : Renumber(i, v)
      <3>1. PICK v \in 1 .. MaxEvents : Renumber(i, v)
        BY <2>2
      <3>. v \in Nat
        BY HistoryAssumption
      <3>2. [stored[i] EXCEPT !.version = v] \in Genuine
        BY DEF Genuine, Lines
      <3>3. [stored EXCEPT ![i] = [stored[i] EXCEPT !.version = v]] \in Seq(Genuine)
        BY <3>2
      <3>. QED
        BY <3>1, <3>3 DEF Renumber, Damage
    <2>. QED
      BY <2>1, <2>2
  <1>2. issued' = issued /\ checkpoint' = checkpoint
    BY DEF Alter, Renumber, Damage
  <1>3. Genuine' = Genuine
    BY <1>2 DEF Genuine
  <1>. QED
    BY <1>1, <1>2, <1>3 DEF HistoryInv, CheckpointOk

(* A writer issues the hash of its line.                                   *)
LEMMA WritingPreserves ==
    ASSUME HistoryInv, NEW b \in Bodies, NEW i \in 0 .. Len(stored),
           createEventEnvelope(b, i) \/ createLegacyEventEnvelopeV0(b, i)
    PROVE  HistoryInv'
  <1>. DEFINE version == IF i = 0 THEN 1 ELSE stored[i].version + 1
              previous == IF i = 0 THEN NoHash ELSE stored[i].hash
              entry == [version |-> version, body |-> b]
              hash == Append(previous, entry)
              line == [body |-> b, version |-> version, previous |-> previous, hash |-> hash]
  <1>0. /\ issued' = issued \cup {hash} /\ stored' = Append(stored, line)
        /\ checkpoint' = checkpoint
    BY DEF createEventEnvelope, createLegacyEventEnvelopeV0, Write
  <1>. stored \in Seq(Genuine) /\ issued \subseteq Seq(Entries)
    BY DEF HistoryInv
  <1>1. version \in Nat /\ previous \in Seq(Entries)
    <2>1. CASE i = 0
      BY <2>1 DEF NoHash
    <2>2. CASE i # 0
      <3>1. stored[i] \in Lines
        BY <2>2 DEF Genuine
      <3>. QED
        BY <2>2, <3>1 DEF Lines
    <2>. QED
      BY <2>1, <2>2
  <1>. HIDE DEF version, previous
  <1>2. entry \in Entries
    BY <1>1 DEF Entries
  <1>. HIDE DEF entry
  <1>3. hash \in Seq(Entries)
    BY <1>1, <1>2
  <1>. HIDE DEF hash
  <1>4. line \in Genuine' /\ Genuine \subseteq Genuine'
    BY <1>0, <1>1, <1>3 DEF Genuine, Lines
  <1>. HIDE DEF line
  <1>5. stored \in Seq(Genuine')
    BY <1>4, SeqMonotonic
  <1>6. Append(stored, line) \in Seq(Genuine')
    BY <1>4, <1>5
  <1>. QED
    BY <1>0, <1>3, <1>6 DEF HistoryInv, CheckpointOk

(* In a history that verifies, line i is version i, and its hash is the    *)
(* chain of the lines up to it.                                            *)
ChainTo(i) ==
    LET l == stored[i] IN
    /\ l.version = i /\ Len(l.hash) = i
    /\ \A j \in 1 .. i : l.hash[j] = [version |-> j, body |-> stored[j].body]

LEMMA HashesAreChains ==
    ASSUME HistoryInv, verifyStoredEventChain(stored)
    PROVE  \A i \in DOMAIN stored : ChainTo(i)
  <1>. DEFINE wrong == {i \in DOMAIN stored : ~ChainTo(i)}
  <1>. SUFFICES ASSUME wrong # {} PROVE FALSE
    OBVIOUS
  <1>0. stored \in Seq(Genuine) /\ \A i \in DOMAIN stored : stored[i] \in Lines
    BY DEF HistoryInv, Genuine
  <1>. wrong \in SUBSET Nat
    BY <1>0
  <1>1. PICK m \in wrong : \A k \in wrong : m <= k
    <2>. HIDE DEF wrong
    <2>. QED
      BY LeastOf
  <1>2. m \in DOMAIN stored /\ ~ChainTo(m) /\ m \in 1 .. Len(stored) /\ stored[m] \in Lines
    BY <1>0
  <1>. DEFINE l == stored[m]
              entry == [version |-> l.version, body |-> l.body]
  <1>3. l.hash = Append(l.previous, entry) /\ l.previous \in Seq(Entries) /\ entry \in Entries
    BY <1>2 DEF verifyStoredEventChain, verifyStoredEvent, Lines, Entries
  <1>4. /\ Len(l.hash) = Len(l.previous) + 1 /\ Len(l.previous) \in Nat
        /\ l.hash[Len(l.previous) + 1] = entry
        /\ \A j \in 1 .. Len(l.previous) : l.hash[j] = l.previous[j]
    <2>. HIDE DEF entry
    <2>. QED
      BY <1>3
  <1>5. CASE m = 1
    <2>1. l.version = 1 /\ Len(l.previous) = 0
      BY <1>2, <1>5 DEF verifyStoredEventChain, NoHash
    <2>. QED
      BY <1>2, <1>4, <1>5, <2>1 DEF ChainTo
  <1>6. CASE m # 1
    <2>1. m - 1 \in DOMAIN stored /\ m - 1 \notin wrong /\ m \in Nat
      BY <1>0, <1>1, <1>2, <1>6
    <2>2. ChainTo(m - 1)
      BY <2>1
    <2>3. l.version = stored[m - 1].version + 1 /\ l.previous = stored[m - 1].hash
      BY <1>2, <1>6 DEF verifyStoredEventChain
    <2>4. l.version = m /\ Len(l.previous) = m - 1
      BY <2>1, <2>2, <2>3 DEF ChainTo
    <2>5. \A j \in 1 .. (m - 1) : l.hash[j] = [version |-> j, body |-> stored[j].body]
      BY <1>4, <2>1, <2>2, <2>3, <2>4 DEF ChainTo
    <2>6. l.hash[m] = [version |-> m, body |-> l.body] /\ Len(l.hash) = m
      BY <1>4, <2>1, <2>4
    <2>7. \A j \in 1 .. m : j = m \/ j \in 1 .. (m - 1)
      BY <2>1
    <2>. QED
      BY <1>2, <2>4, <2>5, <2>6, <2>7 DEF ChainTo
  <1>. QED
    BY <1>5, <1>6

LEMMA HistoryInvariant == HistorySpec => []HistoryInv
  <1>1. HistoryInit => HistoryInv
    BY HistoryInitially
  <1>2. HistoryInv /\ [HistoryNext]_historyVars => HistoryInv'
    <2>. SUFFICES ASSUME HistoryInv, [HistoryNext]_historyVars PROVE HistoryInv'
      OBVIOUS
    <2>1. CASE UNCHANGED historyVars
      BY <2>1 DEF HistoryInv, CheckpointOk, Genuine, historyVars
    <2>2. ASSUME NEW b \in Bodies, NEW i \in 0 .. Len(stored),
                 createEventEnvelope(b, i) \/ createLegacyEventEnvelopeV0(b, i)
          PROVE  HistoryInv'
      BY <2>2, WritingPreserves
    <2>3. ASSUME NEW i \in DOMAIN stored, createReplayCheckpoint(i) PROVE HistoryInv'
      <3>1. i \in Nat /\ UNCHANGED <<issued, stored>>
        BY <2>3 DEF createReplayCheckpoint, HistoryInv
      <3>2. ChainTo(i)
        BY <2>3, HashesAreChains DEF createReplayCheckpoint, Verified
      <3>3. /\ checkpoint'.through = i /\ checkpoint'.hash = stored[i].hash
            /\ checkpoint'.over = [j \in 1 .. i |-> stored[j].body]
        BY <2>3 DEF createReplayCheckpoint
      <3>4. ASSUME NEW j \in 1 .. i PROVE checkpoint'.hash[j].body = checkpoint'.over[j]
        <4>1. stored[i].hash[j] = [version |-> j, body |-> stored[j].body]
          BY <3>2 DEF ChainTo
        <4>. QED
          BY <3>3, <4>1
      <3>5. CheckpointOk'
        BY <3>1, <3>3, <3>4 DEF CheckpointOk
      <3>. QED
        BY <3>1, <3>5 DEF HistoryInv, Genuine
    <2>. QED
      BY <2>1, <2>2, <2>3, RearrangingPreserves, AlteringPreserves DEF HistoryNext
  <1>. QED
    BY <1>1, <1>2, PTL DEF HistorySpec

LEMMA VerifiedWasIssued == HistoryInv => VerifiedIsOneChain
  <1>. SUFFICES ASSUME HistoryInv, verifyStoredEventChain(stored), stored # <<>>
                PROVE  [i \in DOMAIN stored |->
                          [version |-> i, body |-> stored[i].body]] \in issued
    BY DEF VerifiedIsOneChain
  <1>. DEFINE n == Len(stored)
              chain == [i \in DOMAIN stored |-> [version |-> i, body |-> stored[i].body]]
  <1>1. stored \in Seq(Genuine) /\ n \in DOMAIN stored /\ DOMAIN stored = 1 .. n
    BY DEF HistoryInv
  <1>2. stored[n].hash \in issued /\ stored[n].hash \in Seq(Entries)
    BY <1>1 DEF Genuine, Lines
  <1>3. ChainTo(n)
    BY <1>1, HashesAreChains
  <1>4. DOMAIN stored[n].hash = 1 .. n
    BY <1>2, <1>3 DEF ChainTo
  <1>5. \A j \in 1 .. n : stored[n].hash[j] = chain[j]
    BY <1>1, <1>3 DEF ChainTo
  <1>6. stored[n].hash = chain
    <2>. DEFINE h == stored[n].hash
    <2>1. h = [j \in 1 .. n |-> h[j]] /\ chain = [j \in 1 .. n |-> chain[j]]
      BY <1>1, <1>2, <1>4
    <2>. HIDE DEF h, chain, n
    <2>2. [j \in 1 .. n |-> h[j]] = [j \in 1 .. n |-> chain[j]]
      BY <1>5 DEF h
    <2>. QED
      BY <2>1, <2>2 DEF h
  <1>. QED
    BY <1>2, <1>6

(* f is a run of reduceEvents: over events k + 1 .. n from the seed.       *)
IsRun(f, events, k, n, seed) ==
    f = [i \in k .. n |-> IF i = k THEN seed ELSE applyEvent(f[i - 1], events[i], i)]

LEMMA RunExists ==
    ASSUME NEW events, NEW k \in Nat, NEW n \in Nat, k <= n, NEW seed
    PROVE  \E f : IsRun(f, events, k, n, seed)
  <1>. DEFINE runless == {m \in k .. n : ~ \E f : IsRun(f, events, k, m, seed)}
  <1>. SUFFICES ASSUME runless # {} PROVE FALSE
    BY n \in k .. n
  <1>. runless \in SUBSET Nat
    OBVIOUS
  <1>1. PICK m \in runless : \A j \in runless : m <= j
    <2>. HIDE DEF runless
    <2>. QED
      BY LeastOf
  <1>2. m \in k .. n /\ ~ \E f : IsRun(f, events, k, m, seed)
    OBVIOUS
  <1>3. CASE m = k
    <2>. DEFINE f == [i \in k .. k |-> seed]
    <2>1. f = [i \in k .. k |-> IF i = k THEN seed ELSE applyEvent(f[i - 1], events[i], i)]
      OBVIOUS
    <2>. QED
      BY <1>2, <1>3, <2>1 DEF IsRun
  <1>4. CASE m # k
    <2>1. m - 1 \in k .. n /\ m - 1 \notin runless
      BY <1>1, <1>2, <1>4
    <2>2. PICK g : IsRun(g, events, k, m - 1, seed)
      BY <2>1
    <2>. DEFINE f == [i \in k .. m |-> IF i = m THEN applyEvent(g[m - 1], events[m], m)
                                              ELSE g[i]]
                h == [i \in k .. m |-> IF i = k THEN seed
                                       ELSE applyEvent(f[i - 1], events[i], i)]
    <2>3. \A i \in k .. (m - 1) :
             g[i] = IF i = k THEN seed ELSE applyEvent(g[i - 1], events[i], i)
      BY <2>2 DEF IsRun
    <2>4. \A i \in k .. m : f[i] = h[i]
      <3>1. \A i \in k .. (m - 1) : f[i] = g[i]
        BY <1>2
      <3>2. f[m] = applyEvent(g[m - 1], events[m], m)
        BY <1>2
      <3>. HIDE DEF f
      <3>3. \A i \in k .. m : h[i] = IF i = k THEN seed
                                     ELSE applyEvent(f[i - 1], events[i], i)
        OBVIOUS
      <3>4. \A i \in k .. m : i # k => i - 1 \in k .. (m - 1)
        BY <1>2
      <3>. HIDE DEF h
      <3>5. h[m] = f[m]
        BY <1>2, <1>4, <3>1, <3>2, <3>3, <3>4
      <3>6. ASSUME NEW i \in k .. (m - 1) PROVE f[i] = h[i]
        <4>1. i \in k .. m
          BY <1>2
        <4>2. CASE i = k
          BY <2>3, <3>1, <3>3, <4>1, <4>2
        <4>3. CASE i # k
          <5>1. i - 1 \in k .. (m - 1)
            BY <1>2, <4>3
          <5>. QED
            BY <2>3, <3>1, <3>3, <4>1, <4>3, <5>1
        <4>. QED
          BY <4>2, <4>3
      <3>. QED
        BY <1>2, <3>5, <3>6
    <2>5. f = h
      BY <2>4
    <2>. HIDE DEF f
    <2>6. IsRun(f, events, k, m, seed)
      BY <2>5 DEF IsRun
    <2>. QED
      BY <1>2, <2>6
  <1>. QED
    BY <1>3, <1>4

(* reduceEvents is the last value of a run.                                *)
LEMMA ReduceRuns ==
    ASSUME NEW events, NEW k \in Nat, NEW n \in Nat, k <= n, NEW seed
    PROVE  \E f : IsRun(f, events, k, n, seed)
                  /\ reduceEvents(events, k, n, seed) = f[n]
  <1>. DEFINE f == CHOOSE g : IsRun(g, events, k, n, seed)
  <1>1. IsRun(f, events, k, n, seed)
    BY RunExists
  <1>2. reduceEvents(events, k, n, seed) = f[n]
    BY DEF reduceEvents, IsRun
  <1>. QED
    BY <1>1, <1>2

(* Two runs that agree somewhere agree from there on.                      *)
LEMMA RunsAgree ==
    ASSUME NEW events, NEW k \in Nat, NEW j \in Nat, NEW c \in Nat,
           NEW n \in Nat, NEW m \in Nat, NEW seed, NEW other, NEW f, NEW g,
           IsRun(f, events, k, n, seed), IsRun(g, events, j, m, other),
           k <= c, j <= c, f[c] = g[c]
    PROVE  \A i \in c .. n : i <= m => f[i] = g[i]
  <1>. DEFINE apart == {i \in c .. n : i <= m /\ f[i] # g[i]}
  <1>. SUFFICES ASSUME apart # {} PROVE FALSE
    OBVIOUS
  <1>. apart \in SUBSET Nat
    OBVIOUS
  <1>1. PICK i \in apart : \A l \in apart : i <= l
    <2>. HIDE DEF apart
    <2>. QED
      BY LeastOf
  <1>2. i \in c .. n /\ i <= m /\ f[i] # g[i] /\ i # c
    OBVIOUS
  <1>3. i - 1 \in c .. n /\ i - 1 <= m /\ i - 1 \notin apart
    BY <1>1, <1>2
  <1>4. f[i - 1] = g[i - 1]
    BY <1>3
  <1>5. f[i] = applyEvent(f[i - 1], events[i], i)
    <2>1. i \in k .. n /\ i # k
      BY <1>2
    <2>. QED
      BY <2>1 DEF IsRun
  <1>6. g[i] = applyEvent(g[i - 1], events[i], i)
    <2>1. i \in j .. m /\ i # j
      BY <1>2
    <2>. QED
      BY <2>1 DEF IsRun
  <1>. QED
    BY <1>2, <1>4, <1>5, <1>6

(* Reducing to c and from there to n is reducing to n.                     *)
LEMMA ReduceInTwo ==
    ASSUME NEW events, NEW c \in Nat, NEW n \in Nat, c <= n, NEW seed
    PROVE  reduceEvents(events, c, n, reduceEvents(events, 0, c, seed))
              = reduceEvents(events, 0, n, seed)
  <1>1. PICK f : IsRun(f, events, 0, n, seed)
                 /\ reduceEvents(events, 0, n, seed) = f[n]
    BY ReduceRuns
  <1>2. PICK g : IsRun(g, events, 0, c, seed)
                 /\ reduceEvents(events, 0, c, seed) = g[c]
    BY ReduceRuns
  <1>3. PICK h : IsRun(h, events, c, n, g[c])
                 /\ reduceEvents(events, c, n, g[c]) = h[n]
    BY ReduceRuns
  <1>4. f[0] = seed /\ g[0] = seed /\ h[c] = g[c]
    BY <1>1, <1>2, <1>3 DEF IsRun
  <1>5. f[c] = g[c]
    BY <1>1, <1>2, <1>4, RunsAgree
  <1>6. f[n] = h[n]
    BY <1>1, <1>3, <1>4, <1>5, RunsAgree
  <1>. QED
    BY <1>1, <1>2, <1>3, <1>6

LEMMA CheckpointIsNoShortcut == HistoryInv => CheckpointIsOfThisHistory
  <1>. SUFFICES ASSUME HistoryInv, Accepted, checkpoint # NoCheckpoint
                PROVE  /\ \A i \in 1 .. checkpoint.through :
                             stored[i].body = checkpoint.over[i]
                       /\ replayInspectionProjection =
                             reduceEvents(upcastEventStream(stored), 0, Len(stored),
                                          initialProjection)
    BY DEF CheckpointIsOfThisHistory
  <1>. DEFINE events == upcastEventStream(stored)
              start == initialProjection
  <1>0. stored \in Seq(Genuine)
    BY DEF HistoryInv
  <1>1. Len(events) = Len(stored)
    BY <1>0 DEF upcastEventStream
  <1>2. /\ checkpoint.through \in DOMAIN stored
        /\ stored[checkpoint.through].hash = checkpoint.hash
        /\ reduceEvents(events, 0, checkpoint.through, start) = checkpoint.projection
    BY DEF Accepted, checkpointMatches
  <1>3. \A i \in 1 .. checkpoint.through : stored[i].body = checkpoint.over[i]
    <2>1. ChainTo(checkpoint.through)
      BY <1>2, HashesAreChains DEF Accepted, Verified
    <2>2. CheckpointOk
      BY DEF HistoryInv
    <2>3. ASSUME NEW i \in 1 .. checkpoint.through
          PROVE  stored[i].body = checkpoint.over[i]
      <3>1. checkpoint.hash[i] = [version |-> i, body |-> stored[i].body]
        BY <1>2, <2>1 DEF ChainTo
      <3>2. checkpoint.hash[i].body = checkpoint.over[i]
        BY <2>2 DEF CheckpointOk
      <3>. QED
        BY <3>1, <3>2
    <2>. QED
      BY <2>3
  <1>4. replayInspectionProjection
           = reduceEvents(events, checkpoint.through, Len(events), checkpoint.projection)
    BY DEF replayInspectionProjection
  <1>. HIDE DEF events, start
  <1>5. checkpoint.through \in Nat /\ checkpoint.through <= Len(stored)
        /\ Len(stored) \in Nat
    BY <1>0, <1>2
  <1>6. reduceEvents(events, checkpoint.through, Len(stored), checkpoint.projection)
           = reduceEvents(events, 0, Len(stored), start)
    BY <1>2, <1>5, ReduceInTwo
  <1>. QED
    BY <1>1, <1>3, <1>4, <1>6 DEF start, events

(* Whatever losses, damage, stale writers and checkpoints a history went   *)
(* through, a reader is given one chain that writers made, and with a      *)
(* checkpoint the chain it was taken over (upcasters.ts:153-201,           *)
(* replay.ts:50-103).                                                      *)
THEOREM HistoriesAreWhole == HistorySpec => []HistoryIsWhole
  <1>1. HistoryInv => HistoryIsWhole
    BY VerifiedWasIssued, CheckpointIsNoShortcut DEF HistoryIsWhole
  <1>. QED
    BY <1>1, HistoryInvariant, PTL
=============================================================================
