----------------------------- MODULE Approvals -----------------------------
(***************************************************************************)
(* The module snapshot store (packages/reporting/src/snapshot) and the     *)
(* approval service (packages/approvals) of one job.                       *)
(*                                                                         *)
(* Every command carries the module revision its sender saw and is refused *)
(* without effect unless that is the current one; the sender's authority   *)
(* and recent authentication are checked the same way, and a repeated      *)
(* idempotency key returns the recorded approval.  What remains is that a  *)
(* command with the current revision may arrive at any time, which is what *)
(* the actions say, so revisions need not be counted.                      *)
(***************************************************************************)
EXTENDS Naturals, FiniteSets

CONSTANTS Modules,       \* the commissioned modules
          MaxSnapshot    \* bound on the snapshots of one module

ASSUME ApprovalAssumption == MaxSnapshot \in Nat /\ Modules # {}

(* A snapshot is identified by its revision, 0 stands for none.  edited    *)
(* holds the snapshots that replaced another one and whose editor has not  *)
(* yet called invalidateForSnapshotEdit.  withdrawnEver remembers every    *)
(* snapshot a withdrawal named.                                            *)
VARIABLES snapshot, approval, edited, withdrawnEver

avars == <<snapshot, approval, edited, withdrawnEver>>

Snapshots == 0..MaxSnapshot

ApprovalState == [approved : Snapshots, withdrawn : BOOLEAN, withdrawnSnapshot : Snapshots]

AInit ==
    /\ snapshot = [m \in Modules |-> 0]
    /\ approval = [m \in Modules |->
                     [approved |-> 0, withdrawn |-> FALSE, withdrawnSnapshot |-> 0]]
    /\ edited = [m \in Modules |-> {}]
    /\ withdrawnEver = [m \in Modules |-> {}]

(* InMemoryModuleSnapshotStore.create, from the current revision *)
create(m) ==
    /\ snapshot[m] < MaxSnapshot
    /\ snapshot' = [snapshot EXCEPT ![m] = @ + 1]
    /\ edited' = [edited EXCEPT ![m] = IF snapshot[m] = 0 THEN @ ELSE @ \cup {snapshot[m] + 1}]
    /\ UNCHANGED <<approval, withdrawnEver>>

(* Mutant of approve: the snapshot named by the command is not compared    *)
(* with the current one.                                                   *)
approveAny(m, s) ==
    /\ s # 0 /\ s <= snapshot[m]
    /\ ~approval[m].withdrawn
    /\ approval' = [approval EXCEPT ![m].approved = s]
    /\ UNCHANGED <<snapshot, edited, withdrawnEver>>

approve(m, s) ==
    /\ s # 0 /\ s = snapshot[m]
    /\ ~approval[m].withdrawn
    /\ approval' = [approval EXCEPT ![m].approved = s]
    /\ UNCHANGED <<snapshot, edited, withdrawnEver>>

invalidateForSnapshotEdit(m, new) ==
    /\ new \in edited[m] /\ new = snapshot[m]
    /\ approval[m].approved \in {0, new - 1}
    /\ approval' = [approval EXCEPT ![m] =
                      [approved |-> 0, withdrawn |-> FALSE, withdrawnSnapshot |-> 0]]
    /\ edited' = [edited EXCEPT ![m] = @ \ {new}]
    /\ UNCHANGED <<snapshot, withdrawnEver>>

withdraw(m) ==
    /\ snapshot[m] # 0
    /\ approval' = [approval EXCEPT ![m] =
                      [approved |-> 0, withdrawn |-> TRUE, withdrawnSnapshot |-> snapshot[m]]]
    /\ withdrawnEver' = [withdrawnEver EXCEPT ![m] = @ \cup {snapshot[m]}]
    /\ UNCHANGED <<snapshot, edited>>

reopenWithNewSnapshot(m) ==
    /\ snapshot[m] # 0
    /\ approval[m].withdrawn
    /\ snapshot[m] # approval[m].withdrawnSnapshot
    /\ approval' = [approval EXCEPT ![m] =
                      [approved |-> 0, withdrawn |-> FALSE, withdrawnSnapshot |-> 0]]
    /\ UNCHANGED <<snapshot, edited, withdrawnEver>>

ANext ==
    \E m \in Modules :
        \/ create(m)
        \/ \E s \in Snapshots : approve(m, s) \/ invalidateForSnapshotEdit(m, s)
        \/ withdraw(m)
        \/ reopenWithNewSnapshot(m)

ASpec == AInit /\ [][ANext]_avars
-----------------------------------------------------------------------------
ATypeOK ==
    /\ snapshot \in [Modules -> Snapshots]
    /\ approval \in [Modules -> ApprovalState]
    /\ edited \in [Modules -> SUBSET Snapshots]
    /\ withdrawnEver \in [Modules -> SUBSET Snapshots]

(* An approval is for the exact current snapshot, unless an edit has just  *)
(* replaced it and its invalidation is still to come.                      *)
ApprovalIsExact ==
    \A m \in Modules :
        approval[m].approved \notin {0, snapshot[m]} => snapshot[m] \in edited[m]

(* approval-service.ts: "A withdrawn module requires a new snapshot before *)
(* approval", so a withdrawn snapshot is never approved again.             *)
WithdrawnNeverApproved ==
    \A m \in Modules : approval[m].approved \notin withdrawnEver[m]
============================================================================
