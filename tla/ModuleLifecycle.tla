-------------------------- MODULE ModuleLifecycle --------------------------
(***************************************************************************)
(* The professional record of packages/domain: modules that are drafted,   *)
(* approved, amended, withdrawn or put at risk, the delivery package over  *)
(* them, a recipient's grant and a lifecycle record.  Every transition is  *)
(* a pure function of a record and of the revision its caller expects.     *)
(* Callers read the records at one moment and act on them at another, and  *)
(* confirmDeliveryPackage works on the module states its caller still      *)
(* holds.  Snapshots and approvals are named by their position in the      *)
(* lists of their module; the hash of a snapshot is the snapshot.          *)
(***************************************************************************)
EXTENDS Naturals, Sequences

CONSTANTS
    Commissioned,  \* the commissioned modules, in canonical order
    Callers,       \* inspectors and services that send commands
    MaxRevision,   \* bound: revisions of a module
    MaxHolds       \* bound: times a deletion is suppressed

ASSUME LifecycleAssumption ==
    /\ MaxRevision \in Nat /\ MaxHolds \in Nat
    /\ Commissioned \in Seq(STRING) /\ Commissioned # <<>>

Professional == {Commissioned[i] : i \in DOMAIN Commissioned}

VARIABLES
    mods,    \* module -> ProfessionalModuleState
    pkg,     \* DeliveryPackage
    grant,   \* RecipientGrant
    life,    \* LifecycleRecord
    seen     \* caller -> the module states it read last

lifecycleVars == <<mods, pkg, grant, life, seen>>

(* snapshots counts them; 0 stands for null.                               *)
createInitialModuleState ==
    [revision |-> 0, status |-> "draft", snapshots |-> 0, approvals |-> <<>>,
     amendments |-> <<>>, currentSnapshotId |-> 0, currentApprovalId |-> 0,
     withdrawal |-> 0, evidenceRisk |-> FALSE]

createInitialDeliveryPackage ==
    [revision |-> 0, status |-> "pending", moduleSnapshots |-> <<>>]

LifecycleInit ==
    /\ mods = [m \in Professional |-> createInitialModuleState]
    /\ pkg = createInitialDeliveryPackage
    /\ grant = [revision |-> 0, status |-> "active"]
    /\ life = [revision |-> 0, status |-> "active"]
    /\ seen = [c \in Callers |-> mods]

Read(c) == /\ seen[c] # mods /\ seen' = [seen EXCEPT ![c] = mods]
           /\ UNCHANGED <<mods, pkg, grant, life>>

-----------------------------------------------------------------------------
(* Transitions of one module by a caller that saw it at some revision.     *)

(* Mutant: the snapshot is compared, not the revision.                     *)
assertSnapshot(c, m) == mods[m].snapshots = seen[c][m].snapshots
assertRevision(c, m) == mods[m].revision = seen[c][m].revision

(* ProfessionalModuleStateSchema: every new state is parsed, and refused   *)
(* when its parts contradict each other.                                   *)
consistentState(s) ==
    /\ s.currentSnapshotId \in 0 .. s.snapshots
    /\ s.currentApprovalId \in 0 .. Len(s.approvals)
    /\ s.status = "approved" => s.currentApprovalId # 0
    /\ s.status = "approved" /\ s.currentSnapshotId # 0 =>
          s.approvals[s.currentApprovalId] = s.currentSnapshotId
    /\ s.status \in {"withdrawn", "evidence_at_risk"} => s.currentApprovalId = 0
    /\ (s.status = "withdrawn") = (s.withdrawal # 0)
    /\ (s.status = "evidence_at_risk") = s.evidenceRisk

Advance(m, changes) ==
    /\ mods[m].revision < MaxRevision /\ consistentState(changes)
    /\ mods' = [mods EXCEPT ![m] = changes]
    /\ UNCHANGED <<pkg, grant, life, seen>>

registerModuleSnapshot(c, m, revision) ==
    LET s == mods[m] IN
    /\ assertRevision(c, m) /\ s.snapshots = 0 /\ revision = 1
    /\ Advance(m, [s EXCEPT !.revision = @ + 1, !.status = "draft",
                            !.snapshots = 1, !.currentSnapshotId = 1,
                            !.currentApprovalId = 0, !.withdrawal = 0,
                            !.evidenceRisk = FALSE])

(* The command names the snapshot its caller has in front of it.           *)
approveModule(c, m) ==
    LET s == mods[m] IN
    /\ assertRevision(c, m) /\ s.status = "draft"
    /\ s.currentSnapshotId # 0
    /\ s.currentSnapshotId = seen[c][m].currentSnapshotId
    /\ Advance(m, [s EXCEPT !.revision = @ + 1, !.status = "approved",
                            !.approvals = Append(@, s.currentSnapshotId),
                            !.currentApprovalId = Len(s.approvals) + 1,
                            !.withdrawal = 0, !.evidenceRisk = FALSE])

(* Mutant: a draft can be amended too.                                     *)
anySnapshot(s) == s.currentSnapshotId # 0
amendable(s) == s.status = "approved"

amendModule(c, m, revision) ==
    LET s == mods[m] IN
    /\ assertRevision(c, m) /\ amendable(s)
    /\ revision = s.snapshots + 1
    /\ Advance(m, [s EXCEPT !.revision = @ + 1, !.status = "draft",
                            !.snapshots = revision,
                            !.amendments = Append(@, [prior |-> s.currentSnapshotId,
                                                      replacement |-> revision]),
                            !.currentSnapshotId = revision,
                            !.currentApprovalId = 0, !.withdrawal = 0,
                            !.evidenceRisk = FALSE])

withdrawProfessionalModule(c, m) ==
    LET s == mods[m] IN
    /\ assertRevision(c, m) /\ s.status = "approved"
    /\ Advance(m, [s EXCEPT !.revision = @ + 1, !.status = "withdrawn",
                            !.currentApprovalId = 0,
                            !.withdrawal = s.currentSnapshotId,
                            !.evidenceRisk = FALSE])

markEvidenceAtRisk(c, m) ==
    LET s == mods[m] IN
    /\ assertRevision(c, m) /\ s.status # "withdrawn"
    /\ Advance(m, [s EXCEPT !.revision = @ + 1, !.status = "evidence_at_risk",
                            !.currentApprovalId = 0, !.withdrawal = 0,
                            !.evidenceRisk = TRUE])

-----------------------------------------------------------------------------
(* The package: one reference per commissioned module, from the states the *)
(* caller holds, whose revisions are compared with nothing.  A caller that *)
(* expects another package revision fails.                                 *)

approvedModule(s) == /\ s.status = "approved" /\ s.currentApprovalId # 0
                     /\ s.approvals[s.currentApprovalId] = s.currentSnapshotId

confirmDeliveryPackage(c) ==
    /\ pkg.status = "pending"
    /\ \A m \in Professional : approvedModule(seen[c][m])
    /\ pkg' = [revision |-> pkg.revision + 1, status |-> "confirmed",
               moduleSnapshots |->
                  [i \in DOMAIN Commissioned |->
                     [module |-> Commissioned[i],
                      snapshotId |-> seen[c][Commissioned[i]].currentSnapshotId,
                      approvalId |-> seen[c][Commissioned[i]].currentApprovalId]]]
    /\ UNCHANGED <<mods, grant, life, seen>>

EndPackage(status) ==
    /\ pkg.status \notin {"cancelled", "suppressed"}
    /\ pkg' = [pkg EXCEPT !.revision = @ + 1, !.status = status]
    /\ UNCHANGED <<mods, grant, life, seen>>

cancelDeliveryPackage == EndPackage("cancelled")
suppressDeliveryPackage == EndPackage("suppressed")

revokeRecipientGrant ==
    /\ grant.status = "active"
    /\ grant' = [revision |-> grant.revision + 1, status |-> "revoked"]
    /\ UNCHANGED <<mods, pkg, life, seen>>

(* Suppressing again records another reason.                               *)
suppressDeletion ==
    /\ life.status # "purged" /\ life.revision < MaxHolds
    /\ life' = [revision |-> life.revision + 1, status |-> "deletion_suppressed"]
    /\ UNCHANGED <<mods, pkg, grant, seen>>

LifecycleNext ==
    \/ \E c \in Callers : Read(c) \/ confirmDeliveryPackage(c)
    \/ \E c \in Callers, m \in Professional :
          \/ \E r \in 1 .. MaxRevision :
                registerModuleSnapshot(c, m, r) \/ amendModule(c, m, r)
          \/ approveModule(c, m) \/ withdrawProfessionalModule(c, m)
          \/ markEvidenceAtRisk(c, m)
    \/ cancelDeliveryPackage \/ suppressDeliveryPackage
    \/ revokeRecipientGrant \/ suppressDeletion

LifecycleSpec == LifecycleInit /\ [][LifecycleNext]_lifecycleVars

-----------------------------------------------------------------------------
(* The record explains itself: the amendments link each snapshot to the    *)
(* next, only a snapshot that had been approved is ever replaced or        *)
(* withdrawn, and a current approval is of the current snapshot            *)
(* (transitions.ts:144-218).                                               *)
RecordExplainsItself ==
    \A m \in Professional :
       LET s == mods[m] IN
       /\ \A i \in DOMAIN s.amendments :
             /\ s.amendments[i] = [prior |-> i, replacement |-> i + 1]
             /\ \E a \in DOMAIN s.approvals : s.approvals[a] = i
       /\ s.snapshots = 0 \/ s.snapshots = Len(s.amendments) + 1
       /\ s.status = "withdrawn" =>
             \E a \in DOMAIN s.approvals : s.approvals[a] = s.withdrawal
       /\ (s.currentApprovalId # 0) = (s.status = "approved")
       /\ s.currentApprovalId # 0 =>
             s.approvals[s.currentApprovalId] = s.currentSnapshotId

(* Stale professional commands fail closed: a module only changes by the   *)
(* command of a caller whose copy of it is what the record holds, so no    *)
(* approval, amendment, withdrawal or risk is decided over a change that   *)
(* its caller has not read (assertRevision in transitions.ts:48-257).      *)
StaleCommandsFail ==
    [][\A m \in Professional :
          mods'[m] # mods[m] => \E c \in Callers : seen[c][m] = mods[m]]_lifecycleVars

(* docs/plans, line 860: "every approval/package references exact current  *)
(* immutable snapshots".  A package that becomes confirmed names the       *)
(* current snapshot and approval of each of its modules                    *)
(* (confirmDeliveryPackage in transitions.ts:281-364).                     *)
PackageIsCurrent ==
    [][pkg'.status = "confirmed" /\ pkg.status # "confirmed" =>
          \A i \in DOMAIN Commissioned :
              LET r == pkg'.moduleSnapshots[i]
                  s == mods[Commissioned[i]]
              IN  r.snapshotId = s.currentSnapshotId /\ r.approvalId = s.currentApprovalId
      ]_lifecycleVars
=============================================================================
