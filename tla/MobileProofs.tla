---------------------------- MODULE MobileProofs ----------------------------
(***************************************************************************)
(* Proofs about the phone, Capture and FieldWork, for every set of         *)
(* captures, handlers and commissioned modules and every job.  A capture   *)
(* is kept by what its row, its file, its native call and the work of      *)
(* recovery know of each other, so the invariant is stated per capture.    *)
(***************************************************************************)
EXTENDS Capture, FieldWork, SequenceTheorems, TLAPS

-----------------------------------------------------------------------------
(* Capture.                                                                *)

(* Before its intent is written a capture has left no trace at all.        *)
Untouched(c) ==
    rows[c].intent = "none" =>
        /\ file[c] = NoFile /\ c \notin damaged
        /\ rows[c].artifact = "none" /\ ~rows[c].ack
        /\ call[c].native = "none"

(* A call is made while the app is ready, of a capture that no earlier     *)
(* process knew, and reads all of its source or finds it empty.            *)
CallOK(c) ==
    /\ phase # "ready" => call[c] = NoCall
    /\ call[c].pc \in {"persist", "acknowledge"} => call[c].native # "none"
    /\ call[c].pc = "idle" => call[c].native = "none"
    /\ call[c].native # "none" => c \notin damaged
    /\ call[c].source # "torn"
    /\ call[c].pc = "acknowledge" => rows[c].artifact # "none"

(* What the native module has done so far is in the file.                  *)
NativeOK(c) ==
    /\ call[c].native \in {"copying", "synced"} => file[c].final = "none"
    /\ call[c].native = "synced" => file[c].partial = call[c].source
    /\ call[c].native \in {"renamed", "done", "unsupported"} =>
          file[c].final = call[c].source
    /\ call[c].native = "done" => c \notin unsynced

(* A file is at one place, and a torn one was never published.             *)
FileOK(c) ==
    /\ file[c].partial = "none" \/ file[c].final = "none"
    /\ c \notin damaged => file[c].final # "torn"

(* A committed row stands for the whole synced original, which no native   *)
(* call will touch again.                                                  *)
RowOK(c) ==
    rows[c].artifact # "none" =>
        /\ c \notin unsynced
        /\ call[c].native \in {"none", "done"}
        /\ c \notin damaged =>
              rows[c].artifact = "whole" /\ file[c].final = "whole"

(* The scan of this start missed the final. *)
Skipped(c) == observed[c].final = "none" /\ file[c].final # "none"

(* Until recovery has reconciled a capture its file is as scanned; then    *)
(* the ledger says so, what it could not adopt is to be quarantined, and   *)
(* what it acknowledges is there.                                          *)
RecoveryOK(c) ==
    phase = "recover" =>
        /\ c \in recovery.todo =>
              /\ observed[c].partial = file[c].partial
              /\ observed[c].final \in {"none", file[c].final}
        /\ \A part \in {"partial", "final"} : <<c, part>> \in recovery.moves =>
              /\ c \notin recovery.todo
              /\ mem[c] # "acknowledged"
              /\ observed[c][part] # "none"
        /\ (<<c, "final">> \in recovery.moves /\ c \notin damaged) =>
              rows[c].artifact = "none"
        /\ c \notin recovery.todo =>
              /\ (mem[c] = "acknowledged") =>
                    /\ file[c].final = rows[c].artifact
                    /\ rows[c].artifact \notin {"none", "empty"}
              /\ ~Skipped(c) =>
                    /\ mem[c] \notin {"pending", "durable"}
                    /\ file[c].partial # "none" => <<c, "partial">> \in recovery.moves
                    /\ file[c].final # "none" =>
                          mem[c] = "acknowledged" \/ <<c, "final">> \in recovery.moves

(* What was said to be saved has its receipt, which every start shows.     *)
ToldOK(c) ==
    told[c] = "acknowledged" =>
        /\ rows[c].ack /\ rows[c].artifact # "none"
        /\ call[c].pc \in {"idle", "ended"}
        /\ (phase \in {"recover", "ready"} /\ c \notin damaged) =>
              \/ mem[c] = "acknowledged"
              \/ call[c].pc = "idle" /\ observed[c].final = "none"

PhaseOK ==
    /\ phase # "recover" => recovery = NothingToDo
    /\ phase \in {"recover", "terminal"} => unsynced = {}

BackedOK(c) ==
    (phase = "ready" /\ mem[c] = "acknowledged") =>
        /\ file[c].final = rows[c].artifact
        /\ rows[c].artifact \notin {"none", "empty"}

SettledOK(c) ==
    (phase = "ready" /\ call[c].pc = "idle" /\ ~Overlooked(c)) =>
        /\ mem[c] \notin {"pending", "durable"}
        /\ file[c].partial = "none"
        /\ (file[c].final # "none") <=> (mem[c] = "acknowledged")

CaptureOK(c) ==
    /\ Untouched(c) /\ CallOK(c) /\ NativeOK(c) /\ FileOK(c) /\ RowOK(c)
    /\ RecoveryOK(c) /\ ToldOK(c) /\ BackedOK(c) /\ SettledOK(c)

CaptureInv == CaptureTypeOK /\ PhaseOK /\ \A c \in Captures : CaptureOK(c)

(* A step that is about other captures leaves d as it is; a sync of the    *)
(* directory may only help it.                                             *)
LeftAlone(d) ==
    /\ phase' = phase /\ mem'[d] = mem[d] /\ rows'[d] = rows[d]
    /\ file'[d] = file[d] /\ call'[d] = call[d] /\ told'[d] = told[d]
    /\ observed'[d] = observed[d]
    /\ d \in unsynced' => d \in unsynced
    /\ d \in damaged' <=> d \in damaged
    /\ d \in recovery'.todo <=> d \in recovery.todo
    /\ \A part \in {"partial", "final"} :
          <<d, part>> \in recovery'.moves <=> <<d, part>> \in recovery.moves

LEMMA Elsewhere ==
    ASSUME NEW d \in Captures, CaptureOK(d), LeftAlone(d)
    PROVE  CaptureOK(d)'
  <1> USE DEF LeftAlone
  <1>1. Untouched(d)' /\ CallOK(d)' /\ NativeOK(d)' /\ FileOK(d)' /\ RowOK(d)'
    BY DEF CaptureOK, Untouched, CallOK, NativeOK, FileOK, RowOK
  <1>2. RecoveryOK(d)'
    BY DEF CaptureOK, RecoveryOK, Skipped
  <1>3. ToldOK(d)' /\ BackedOK(d)' /\ SettledOK(d)'
    BY DEF CaptureOK, ToldOK, BackedOK, SettledOK, Overlooked
  <1> QED BY <1>1, <1>2, <1>3 DEF CaptureOK

(* What marking and committing leave in the ledger.                        *)
Marks == IntentStates \cup {"acknowledged"}

LEMMA RowFields ==
    ASSUME NEW x \in Rows
    PROVE  /\ x.intent \in IntentStates \cup {"none"}
           /\ x.artifact \in Contents \cup {"none"} /\ x.ack \in BOOLEAN
           /\ \A v \in IntentStates : [x EXCEPT !.intent = v] \in Rows
           /\ [x EXCEPT !.ack = TRUE] \in Rows
           /\ \A v \in Contents :
                 [x EXCEPT !.artifact = v, !.intent = "durable"] \in Rows
  BY DEF Rows, IntentStates

LEMMA MarkEffect ==
    ASSUME CaptureTypeOK, NEW c \in Captures, NEW s \in Marks, markIntent(c, s)
    PROVE  /\ rows' \in [Captures -> Rows]
           /\ mem' \in [Captures -> IntentStates \cup {"none", "acknowledged"}]
           /\ mem'[c] = s
           /\ rows'[c].artifact = rows[c].artifact
           /\ rows'[c].intent = IF s = "acknowledged" THEN rows[c].intent ELSE s
           /\ rows'[c].ack <=> (rows[c].ack \/ s = "acknowledged")
           /\ \A d \in Captures \ {c} : rows'[d] = rows[d] /\ mem'[d] = mem[d]
  <1>1. rows \in [Captures -> Rows] /\ rows[c] \in Rows
    BY DEF CaptureTypeOK
  <1>2. mem' = [mem EXCEPT ![c] = s] /\ s \in IntentStates \cup {"none", "acknowledged"}
    BY DEF markIntent, Marks
  <1>3. /\ mem' \in [Captures -> IntentStates \cup {"none", "acknowledged"}]
        /\ mem'[c] = s /\ \A d \in Captures \ {c} : mem'[d] = mem[d]
    BY <1>2 DEF CaptureTypeOK
  <1>4. CASE s = "acknowledged"
    <2> DEFINE y == [rows[c] EXCEPT !.ack = TRUE]
    <2>1. rows' = [rows EXCEPT ![c] = y]
      BY <1>4 DEF markIntent
    <2>2. /\ y \in Rows /\ y.ack = TRUE
          /\ y.intent = rows[c].intent /\ y.artifact = rows[c].artifact
      BY <1>1, RowFields DEF Rows
    <2> HIDE DEF y
    <2> QED BY <2>1, <2>2, <1>1, <1>3, <1>4
  <1>5. CASE s # "acknowledged"
    <2> DEFINE y == [rows[c] EXCEPT !.intent = s]
    <2>1. rows' = [rows EXCEPT ![c] = y] /\ s \in IntentStates
      BY <1>5 DEF markIntent, Marks
    <2>2. /\ y \in Rows /\ y.ack = rows[c].ack
          /\ y.intent = s /\ y.artifact = rows[c].artifact
      BY <1>1, <2>1, RowFields DEF Rows
    <2> HIDE DEF y
    <2> QED BY <2>1, <2>2, <1>1, <1>3, <1>5
  <1> QED BY <1>4, <1>5

LEMMA CommitEffect ==
    ASSUME CaptureTypeOK, NEW c \in Captures, NEW content \in Contents,
           commitDurableCapture(c, content)
    PROVE  /\ rows' \in [Captures -> Rows]
           /\ mem' \in [Captures -> IntentStates \cup {"none", "acknowledged"}]
           /\ content # "empty" /\ rows[c].artifact = "none"
           /\ mem'[c] = "durable" /\ rows'[c].intent = "durable"
           /\ rows'[c].artifact = content /\ rows'[c].ack = rows[c].ack
           /\ \A d \in Captures \ {c} : rows'[d] = rows[d] /\ mem'[d] = mem[d]
  <1>1. rows \in [Captures -> Rows] /\ rows[c] \in Rows
    BY DEF CaptureTypeOK
  <1>2. /\ mem' \in [Captures -> IntentStates \cup {"none", "acknowledged"}]
        /\ mem'[c] = "durable" /\ \A d \in Captures \ {c} : mem'[d] = mem[d]
    BY DEF CaptureTypeOK, commitDurableCapture, IntentStates
  <1> DEFINE y == [rows[c] EXCEPT !.artifact = content, !.intent = "durable"]
  <1>3. /\ rows' = [rows EXCEPT ![c] = y]
        /\ content # "empty" /\ rows[c].artifact = "none"
    BY DEF commitDurableCapture
  <1>4. /\ y \in Rows /\ y.intent = "durable"
        /\ y.artifact = content /\ y.ack = rows[c].ack
    BY <1>1, RowFields DEF Rows
  <1> HIDE DEF y
  <1> QED BY <1>1, <1>2, <1>3, <1>4

(* A call moves on in one of its fields.                                   *)
CallPcs == {"idle", "persist", "acknowledge", "ended"}
Natives == {"none", "start", "copying", "synced", "renamed", "done", "unsupported",
            "error"}

LEMMA CallFields ==
    ASSUME NEW x \in Calls
    PROVE  /\ x.pc \in CallPcs /\ x.native \in Natives /\ x.source \in Contents
           /\ \A v \in CallPcs :
                 /\ [x EXCEPT !.pc = v] \in Calls
                 /\ [x EXCEPT !.pc = v].pc = v
                 /\ [x EXCEPT !.pc = v].native = x.native
                 /\ [x EXCEPT !.pc = v].source = x.source
           /\ \A v \in Natives :
                 /\ [x EXCEPT !.native = v] \in Calls
                 /\ [x EXCEPT !.native = v].pc = x.pc
                 /\ [x EXCEPT !.native = v].native = v
                 /\ [x EXCEPT !.native = v].source = x.source
  <1>1. Calls = [pc : CallPcs, native : Natives, source : Contents]
    BY DEF Calls, CallPcs, Natives
  <1> QED BY <1>1

LEMMA CallAt ==
    ASSUME CaptureTypeOK, NEW c \in Captures, NEW y \in Calls,
           call' = [call EXCEPT ![c] = y]
    PROVE  /\ call' \in [Captures -> Calls] /\ call'[c] = y
           /\ \A d \in Captures \ {c} : call'[d] = call[d]
  BY DEF CaptureTypeOK

LEMMA CallPc ==
    ASSUME CaptureTypeOK, NEW c \in Captures, NEW v \in CallPcs,
           call' = [call EXCEPT ![c].pc = v]
    PROVE  /\ call' \in [Captures -> Calls] /\ call'[c].pc = v
           /\ call'[c].native = call[c].native /\ call'[c].source = call[c].source
           /\ \A d \in Captures \ {c} : call'[d] = call[d]
  <1> DEFINE y == [call[c] EXCEPT !.pc = v]
  <1>1. /\ y \in Calls /\ y.pc = v /\ y.native = call[c].native
        /\ y.source = call[c].source
    BY CallFields DEF CaptureTypeOK
  <1>2. call' = [call EXCEPT ![c] = y]
    OBVIOUS
  <1> HIDE DEF y
  <1> QED BY <1>1, <1>2, CallAt

LEMMA CallNative ==
    ASSUME CaptureTypeOK, NEW c \in Captures, NEW v \in Natives,
           call' = [call EXCEPT ![c].native = v]
    PROVE  /\ call' \in [Captures -> Calls] /\ call'[c].native = v
           /\ call'[c].pc = call[c].pc /\ call'[c].source = call[c].source
           /\ \A d \in Captures \ {c} : call'[d] = call[d]
  <1> DEFINE y == [call[c] EXCEPT !.native = v]
  <1>1. /\ y \in Calls /\ y.native = v /\ y.pc = call[c].pc
        /\ y.source = call[c].source
    BY CallFields DEF CaptureTypeOK
  <1>2. call' = [call EXCEPT ![c] = y]
    OBVIOUS
  <1> HIDE DEF y
  <1> QED BY <1>1, <1>2, CallAt

LEMMA EndEffect ==
    ASSUME CaptureTypeOK, NEW c \in Captures, EndsFailed(c)
    PROVE  /\ call' \in [Captures -> Calls]
           /\ told' \in [Captures -> {"nothing", "acknowledged", "not_acknowledged"}]
           /\ call'[c].pc = "ended" /\ told'[c] = "not_acknowledged"
           /\ call'[c].native = call[c].native /\ call'[c].source = call[c].source
           /\ UNCHANGED <<phase, disk, observed, recovery>>
  <1>1. call' = [call EXCEPT ![c].pc = "ended"] /\ "ended" \in CallPcs
    BY DEF EndsFailed, CallPcs
  <1>2. /\ told' \in [Captures -> {"nothing", "acknowledged", "not_acknowledged"}]
        /\ told'[c] = "not_acknowledged"
        /\ UNCHANGED <<phase, disk, observed, recovery>>
    BY DEF EndsFailed, CaptureTypeOK
  <1> QED BY <1>1, <1>2, CallPc

(* The coordinator's calls.                                                *)
LEMMA CoordinatorTypes ==
    ASSUME CaptureTypeOK, NEW c \in Captures, CoordinatorStep(c)
    PROVE  CaptureTypeOK'
  <1> USE DEF disk
  <1>1. CASE BeginIntent(c)
    <2>1. \A s \in {"whole", "empty"} : [pc |-> "persist", native |-> "start", source |-> s] \in Calls
      BY DEF Calls, Contents
    <2>2. markIntent(c, "pending") /\ "pending" \in Marks
      BY <1>1 DEF BeginIntent, Marks, IntentStates
    <2> QED BY <1>1, <2>1, <2>2, MarkEffect DEF BeginIntent, CaptureTypeOK
  <1>3. CASE LedgerFails(c)
    BY <1>3, EndEffect DEF LedgerFails, CaptureTypeOK
  <1>4. CASE PersistFails(c) \/ PersistUnsupported(c)
    <2>1. EndsFailed(c)
      BY <1>4 DEF PersistFails, PersistUnsupported
    <2>2. \E s \in Marks : markIntent(c, s)
      BY <1>4 DEF PersistFails, PersistUnsupported, Marks, IntentStates
    <2> QED BY <2>1, <2>2, EndEffect, MarkEffect DEF CaptureTypeOK
  <1>5. CASE CommitLedger(c)
    <2>1. call' = [call EXCEPT ![c].pc = "acknowledge"] /\ "acknowledge" \in CallPcs
      BY <1>5 DEF CommitLedger, CallPcs
    <2>2. call[c].source \in Contents
      BY CallFields DEF CaptureTypeOK
    <2>3. call' \in [Captures -> Calls]
      BY <2>1, CallPc
    <2>4. /\ rows' \in [Captures -> Rows]
          /\ mem' \in [Captures -> IntentStates \cup {"none", "acknowledged"}]
      BY <1>5, <2>2, CommitEffect DEF CommitLedger
    <2> QED BY <1>5, <2>3, <2>4 DEF CommitLedger, CaptureTypeOK
  <1>6. CASE Acknowledge(c)
    <2>1. call' = [call EXCEPT ![c].pc = "ended"] /\ "ended" \in CallPcs
      BY <1>6 DEF Acknowledge, CallPcs
    <2>2. markIntent(c, "acknowledged") /\ "acknowledged" \in Marks
      BY <1>6 DEF Acknowledge, Marks
    <2>3. call' \in [Captures -> Calls]
      BY <2>1, CallPc
    <2>4. /\ rows' \in [Captures -> Rows]
          /\ mem' \in [Captures -> IntentStates \cup {"none", "acknowledged"}]
      BY <2>2, MarkEffect
    <2> QED BY <1>6, <2>3, <2>4 DEF Acknowledge, CaptureTypeOK
  <1> QED BY <1>1, <1>3, <1>4, <1>5, <1>6 DEF CoordinatorStep

LEMMA CoordinatorPreserves ==
    ASSUME CaptureInv, NEW c \in Captures, CoordinatorStep(c)
    PROVE  CaptureInv'
  <1> USE DEF CaptureInv
  <1>1. CaptureTypeOK' BY CoordinatorTypes
  <1>2. PhaseOK'
    BY DEF PhaseOK, CoordinatorStep, BeginIntent, LedgerFails, PersistFails,
           PersistUnsupported, CommitLedger, Acknowledge, EndsFailed, disk
  <1>3. ASSUME NEW d \in Captures, d # c PROVE CaptureOK(d)'
    <2>1. LeftAlone(d)
      BY <1>3 DEF LeftAlone, CaptureTypeOK, CoordinatorStep, BeginIntent, LedgerFails,
           PersistFails, PersistUnsupported, CommitLedger, Acknowledge, EndsFailed,
           markIntent, commitDurableCapture, disk
    <2> QED BY <2>1, Elsewhere
  <1>4. CaptureOK(c)'
    <2>1. CASE BeginIntent(c)
      BY <2>1, <1>1 DEF BeginIntent, markIntent, CaptureTypeOK, CaptureOK, Untouched, CallOK,
         NativeOK, FileOK, RowOK, RecoveryOK, ToldOK, BackedOK, SettledOK, Overlooked,
         Skipped, disk, NoFile, Rows, Calls, PhaseOK
    <2>2. CASE LedgerFails(c)
      BY <2>2, <1>1 DEF LedgerFails, EndsFailed, CaptureTypeOK, CaptureOK, Untouched, CallOK,
         NativeOK, FileOK, RowOK, RecoveryOK, ToldOK, BackedOK, SettledOK, Overlooked,
         Skipped, disk, NoFile, Rows, Calls, PhaseOK
    <2>3. CASE PersistFails(c) \/ PersistUnsupported(c)
      <3>1. PICK s \in {"failed", "evidence_at_risk"} : markIntent(c, s)
        BY <2>3 DEF PersistFails, PersistUnsupported
      <3>2. s \in Marks
        BY DEF Marks, IntentStates
      <3>3. EndsFailed(c) /\ call[c].pc = "persist"
        BY <2>3 DEF PersistFails, PersistUnsupported
      <3>4. /\ call'[c].pc = "ended" /\ call'[c].native = call[c].native
            /\ call'[c].source = call[c].source /\ told'[c] = "not_acknowledged"
        BY <3>3, EndEffect
      <3> HIDE DEF CaptureInv
      <3>5. /\ mem'[c] = s /\ rows'[c].artifact = rows[c].artifact
            /\ rows'[c].intent = s
            /\ rows'[c].ack <=> rows[c].ack
        BY <3>1, <3>2, MarkEffect DEF CaptureInv
      <3>6. phase = "ready" /\ UNCHANGED <<phase, disk, observed, recovery>>
        BY <3>3 DEF EndsFailed, CaptureInv, CaptureOK, CallOK, NoCall
      <3>7. CaptureOK(c)
        BY DEF CaptureInv
      <3>8. Untouched(c)' /\ CallOK(c)' /\ NativeOK(c)' /\ FileOK(c)' /\ RowOK(c)'
        BY <3>3, <3>4, <3>5, <3>6, <3>7
        DEF CaptureOK, Untouched, CallOK, NativeOK, FileOK, RowOK, disk
      <3>9. RecoveryOK(c)' /\ ToldOK(c)' /\ BackedOK(c)' /\ SettledOK(c)'
        BY <3>4, <3>5, <3>6
        DEF RecoveryOK, ToldOK, BackedOK, SettledOK
      <3> QED BY <3>8, <3>9 DEF CaptureOK
    <2>4. CASE CommitLedger(c)
      <3>1. call[c].source \in Contents
        BY CallFields DEF CaptureTypeOK
      <3>2. /\ rows[c].artifact = "none" /\ call[c].source # "empty"
            /\ mem'[c] = "durable" /\ rows'[c].intent = "durable"
            /\ rows'[c].artifact = call[c].source /\ rows'[c].ack = rows[c].ack
        BY <2>4, <3>1, CommitEffect DEF CommitLedger
      <3>3. /\ call[c].pc = "persist" /\ call[c].native = "done"
            /\ call'[c].pc = "acknowledge" /\ call'[c].native = "done"
            /\ call'[c].source = call[c].source
        BY <2>4 DEF CommitLedger, CaptureTypeOK, Calls
      <3>4. phase = "ready" /\ UNCHANGED <<phase, disk, told, observed, recovery>>
        BY <2>4, <3>3 DEF CommitLedger, CaptureOK, CallOK, NoCall
      <3>5. call[c].source = "whole"
        BY <3>1, <3>2 DEF CaptureOK, CallOK, Contents
      <3> QED
        BY <3>2, <3>3, <3>4, <3>5 DEF CaptureOK, Untouched, CallOK, NativeOK,
           FileOK, RowOK, RecoveryOK, ToldOK, BackedOK, SettledOK, Overlooked, disk
    <2>5. CASE Acknowledge(c)
      <3>1. /\ call[c].pc = "acknowledge" /\ call'[c].pc = "ended"
            /\ call'[c].native = call[c].native /\ call'[c].source = call[c].source
            /\ told'[c] = "acknowledged"
        BY <2>5 DEF Acknowledge, CaptureTypeOK, Calls
      <3>2. markIntent(c, "acknowledged") /\ "acknowledged" \in Marks
        BY <2>5 DEF Acknowledge, Marks
      <3>3. /\ mem'[c] = "acknowledged" /\ rows'[c].artifact = rows[c].artifact
            /\ rows'[c].intent = rows[c].intent /\ rows'[c].ack
        BY <3>2, MarkEffect
      <3>4. phase = "ready" /\ UNCHANGED <<phase, disk, observed, recovery>>
        BY <2>5, <3>1 DEF Acknowledge, CaptureOK, CallOK, NoCall
      <3>5. call[c].native # "none" /\ rows[c].artifact # "none" /\ c \notin damaged
        BY <3>1 DEF CaptureOK, CallOK
      <3>6. file[c].final = "whole" /\ rows[c].artifact = "whole" /\ c \notin unsynced
            /\ call[c].native = "done"
        BY <3>5 DEF CaptureOK, RowOK
      <3> QED
        BY <3>1, <3>3, <3>4, <3>5, <3>6 DEF CaptureOK, Untouched, CallOK, NativeOK,
           FileOK, RowOK, RecoveryOK, ToldOK, BackedOK, SettledOK, Overlooked, disk
    <2> QED BY <2>1, <2>2, <2>3, <2>4, <2>5 DEF CoordinatorStep
  <1> QED BY <1>1, <1>2, <1>3, <1>4
(* The steps of the native module.                                         *)
LEMMA NativeEffect ==
    ASSUME CaptureTypeOK, NEW c \in Captures, NEW from \in Natives, NEW to \in Natives,
           Native(c, from, to)
    PROVE  /\ call' \in [Captures -> Calls] /\ call[c].native = from
           /\ call'[c].native = to /\ call'[c].pc = call[c].pc
           /\ call'[c].source = call[c].source
           /\ \A d \in Captures \ {c} : call'[d] = call[d]
           /\ UNCHANGED <<phase, mem, rows, quarantined, damaged, told, observed, recovery>>
  <1>1. call' = [call EXCEPT ![c].native = to] /\ call[c].native = from
    BY DEF Native
  <1>2. UNCHANGED <<phase, mem, rows, quarantined, damaged, told, observed, recovery>>
    BY DEF Native
  <1> QED BY <1>1, <1>2, CallNative

(* What a native step may do to the directory.                             *)
LEMMA FileFields ==
    ASSUME NEW x \in Files
    PROVE  /\ x.partial \in Contents \cup {"none"} /\ x.final \in Contents \cup {"none"}
           /\ \A v \in Contents \cup {"none"} :
                 /\ [x EXCEPT !.partial = v] \in Files
                 /\ [x EXCEPT !.partial = v].partial = v
                 /\ [x EXCEPT !.partial = v].final = x.final
                 /\ [x EXCEPT !.final = v] \in Files
                 /\ [x EXCEPT !.final = v].final = v
                 /\ [x EXCEPT !.final = v].partial = x.partial
  BY DEF Files

LEMMA FileAt ==
    ASSUME CaptureTypeOK, NEW c \in Captures, NEW y \in Files,
           file' = [file EXCEPT ![c] = y]
    PROVE  /\ file' \in [Captures -> Files] /\ file'[c] = y
           /\ \A d \in Captures \ {c} : file'[d] = file[d]
  BY DEF CaptureTypeOK

LEMMA PartialAt ==
    ASSUME CaptureTypeOK, NEW c \in Captures, NEW v \in Contents \cup {"none"},
           file' = [file EXCEPT ![c].partial = v]
    PROVE  /\ file' \in [Captures -> Files]
           /\ file'[c].partial = v /\ file'[c].final = file[c].final
           /\ \A d \in Captures \ {c} : file'[d] = file[d]
  <1> DEFINE y == [file[c] EXCEPT !.partial = v]
  <1>0. file[c] \in Files
    BY DEF CaptureTypeOK
  <1>1. y \in Files /\ y.partial = v /\ y.final = file[c].final
    BY <1>0, FileFields
  <1>2. file' = [file EXCEPT ![c] = y]
    OBVIOUS
  <1> HIDE DEF y
  <1> QED BY <1>1, <1>2, FileAt

LEMMA FinalAt ==
    ASSUME CaptureTypeOK, NEW c \in Captures, NEW v \in Contents \cup {"none"},
           file' = [file EXCEPT ![c].final = v]
    PROVE  /\ file' \in [Captures -> Files]
           /\ file'[c].final = v /\ file'[c].partial = file[c].partial
           /\ \A d \in Captures \ {c} : file'[d] = file[d]
  <1> DEFINE y == [file[c] EXCEPT !.final = v]
  <1>0. file[c] \in Files
    BY DEF CaptureTypeOK
  <1>1. y \in Files /\ y.final = v /\ y.partial = file[c].partial
    BY <1>0, FileFields
  <1>2. file' = [file EXCEPT ![c] = y]
    OBVIOUS
  <1> HIDE DEF y
  <1> QED BY <1>1, <1>2, FileAt

(* The stage of the native call and what it leaves in the directory.       *)
Stage(c, from, to) ==
    /\ call[c].native = from /\ call'[c].native = to
    /\ call'[c].pc = call[c].pc /\ call'[c].source = call[c].source

NativeStage(c) ==
    \/ /\ Stage(c, "start", "copying") /\ file[c].final = "none"
       /\ file'[c].partial = "torn" /\ file'[c].final = "none"
    \/ /\ Stage(c, "copying", "synced")
       /\ file'[c].partial = call[c].source /\ file'[c].final = file[c].final
       /\ unsynced' = unsynced
    \/ /\ Stage(c, "synced", "renamed")
       /\ file'[c].partial = "none" /\ file'[c].final = file[c].partial
    \/ /\ Stage(c, "renamed", "done")
       /\ unsynced' = {} /\ file'[c] = file[c]
    \/ /\ Stage(c, "renamed", "unsupported")
       /\ unsynced' = unsynced /\ file'[c] = file[c]
    \/ /\ \E stage \in {"start", "copying", "synced", "renamed"} : Stage(c, stage, "error")
       /\ unsynced' = unsynced /\ file'[c].final = file[c].final
       /\ file'[c].partial \in {"none", file[c].partial}

LEMMA NativeView ==
    ASSUME CaptureTypeOK, NEW c \in Captures, NativeStep(c)
    PROVE  /\ NativeStage(c)
           /\ call' \in [Captures -> Calls] /\ file' \in [Captures -> Files]
           /\ unsynced' \subseteq unsynced \cup {c}
           /\ \A d \in Captures \ {c} : call'[d] = call[d] /\ file'[d] = file[d]
           /\ UNCHANGED <<phase, mem, rows, quarantined, damaged, told, observed, recovery>>
  <1> USE DEF Stage
  <1>0. \A v \in {"start", "copying", "synced", "renamed", "done", "unsupported", "error"} :
           v \in Natives
    BY DEF Natives
  <1>1. CASE CreatePartial(c)
    <2>1. Native(c, "start", "copying") /\ file[c].final = "none"
      BY <1>1 DEF CreatePartial
    <2>2. file' = [file EXCEPT ![c].partial = "torn"] /\ "torn" \in Contents
      BY <1>1 DEF CreatePartial, Contents
    <2>3. /\ file' \in [Captures -> Files]
          /\ file'[c].partial = "torn" /\ file'[c].final = file[c].final
          /\ \A d \in Captures \ {c} : file'[d] = file[d]
      BY <2>2, PartialAt
    <2>4. unsynced' \subseteq unsynced \cup {c}
      BY <1>1 DEF CreatePartial
    <2> QED BY <1>0, <2>1, <2>3, <2>4, NativeEffect DEF NativeStage
  <1>2. CASE SyncPartial(c)
    <2>1. Native(c, "copying", "synced") /\ unsynced' = unsynced
      BY <1>2 DEF SyncPartial
    <2>2. file' = [file EXCEPT ![c].partial = call[c].source] /\ call[c].source \in Contents
      BY <1>2, CallFields DEF SyncPartial, CaptureTypeOK
    <2>3. /\ file' \in [Captures -> Files]
          /\ file'[c].partial = call[c].source /\ file'[c].final = file[c].final
          /\ \A d \in Captures \ {c} : file'[d] = file[d]
      BY <2>2, PartialAt
    <2> QED BY <1>0, <2>1, <2>3, NativeEffect DEF NativeStage
  <1>3. CASE AtomicRename(c)
    <2> DEFINE y == [partial |-> "none", final |-> file[c].partial]
    <2>1. Native(c, "synced", "renamed")
      BY <1>3 DEF AtomicRename
    <2>2. file' = [file EXCEPT ![c] = y]
      BY <1>3 DEF AtomicRename
    <2>3. y \in Files /\ y.partial = "none" /\ y.final = file[c].partial
      BY FileFields DEF Files, CaptureTypeOK
    <2> HIDE DEF y
    <2>4. /\ file' \in [Captures -> Files] /\ file'[c] = y
          /\ \A d \in Captures \ {c} : file'[d] = file[d]
      BY <2>2, <2>3, FileAt
    <2>5. unsynced' \subseteq unsynced \cup {c}
      BY <1>3 DEF AtomicRename
    <2> QED BY <1>0, <2>1, <2>3, <2>4, <2>5, NativeEffect DEF NativeStage
  <1>4. CASE SynchronizeDirectory(c)
    BY <1>0, <1>4, NativeEffect DEF SynchronizeDirectory, NativeStage, CaptureTypeOK
  <1>5. CASE SyncUnsupported(c)
    BY <1>0, <1>5, NativeEffect DEF SyncUnsupported, NativeStage, CaptureTypeOK
  <1>6. CASE NativeFails(c)
    <2>1. PICK stage \in {"start", "copying", "synced", "renamed"} : Native(c, stage, "error")
      BY <1>6 DEF NativeFails
    <2>2. /\ unsynced' = unsynced
          /\ file' = [file EXCEPT ![c].partial = "none"] \/ file' = file
      BY <1>6 DEF NativeFails
    <2>3. /\ file' \in [Captures -> Files] /\ file'[c].final = file[c].final
          /\ file'[c].partial \in {"none", file[c].partial}
          /\ \A d \in Captures \ {c} : file'[d] = file[d]
      BY <2>2, PartialAt DEF CaptureTypeOK
    <2> QED BY <1>0, <2>1, <2>2, <2>3, NativeEffect DEF NativeStage
  <1> QED BY <1>1, <1>2, <1>3, <1>4, <1>5, <1>6 DEF NativeStep

LEMMA NativePreserves ==
    ASSUME CaptureInv, NEW c \in Captures, NativeStep(c)
    PROVE  CaptureInv'
  <1>1. CaptureTypeOK /\ PhaseOK /\ CaptureOK(c)
    BY DEF CaptureInv
  <1>2. /\ NativeStage(c)
        /\ call' \in [Captures -> Calls] /\ file' \in [Captures -> Files]
        /\ unsynced' \subseteq unsynced \cup {c}
        /\ \A d \in Captures \ {c} : call'[d] = call[d] /\ file'[d] = file[d]
        /\ UNCHANGED <<phase, mem, rows, quarantined, damaged, told, observed, recovery>>
    BY <1>1, NativeView
  <1>3. CaptureTypeOK'
    BY <1>1, <1>2 DEF CaptureTypeOK
  <1>4. /\ call[c].native \notin {"none", "done"} /\ call'[c].native # "none"
        /\ call'[c].pc = call[c].pc /\ call'[c].source = call[c].source
    BY <1>2 DEF NativeStage, Stage
  <1>5. /\ phase = "ready" /\ rows[c].artifact = "none" /\ c \notin damaged
        /\ call[c].pc # "idle" /\ call[c].source # "torn"
    BY <1>1, <1>4 DEF CaptureOK, CallOK, RowOK, NoCall
  <1>6. PhaseOK'
    BY <1>1, <1>2, <1>5 DEF PhaseOK
  <1>7. ASSUME NEW d \in Captures, d # c PROVE CaptureOK(d)'
    <2>1. LeftAlone(d)
      BY <1>2, <1>7 DEF LeftAlone
    <2> QED BY <2>1, Elsewhere DEF CaptureInv
  <1>8. Untouched(c)' /\ CallOK(c)' /\ RowOK(c)'
    BY <1>1, <1>2, <1>4, <1>5 DEF CaptureOK, Untouched, CallOK, RowOK
  <1>9. NativeOK(c)' /\ FileOK(c)'
    BY <1>1, <1>2, <1>5 DEF CaptureOK, NativeOK, FileOK, NativeStage, Stage
  <1>10. RecoveryOK(c)' /\ ToldOK(c)' /\ BackedOK(c)' /\ SettledOK(c)'
    BY <1>1, <1>2, <1>4, <1>5
    DEF CaptureOK, RecoveryOK, ToldOK, BackedOK, SettledOK
  <1> QED BY <1>1, <1>3, <1>6, <1>7, <1>8, <1>9, <1>10 DEF CaptureInv, CaptureOK
(* A capture call is idle in a process that has not become ready.          *)
LEMMA NoCallFields ==
    /\ NoCall \in Calls /\ NoCall.pc = "idle" /\ NoCall.native = "none"
    /\ NoCall.source = "whole"
  BY DEF NoCall, Calls, Contents

(* Startup: what the scan finds and what the ledger shows.                 *)
LEMMA LaunchView ==
    ASSUME CaptureInv, Launch, NEW d \in Captures
    PROVE  /\ observed'[d] \in Files
           /\ observed'[d].partial = file[d].partial
           /\ observed'[d].final \in {"none", file[d].final}
           /\ mem'[d] = IF rows[d].ack THEN "acknowledged" ELSE rows[d].intent
  <1>1. PICK skipped \in SUBSET {c \in Captures : file[c].final # "none"} :
           observed' = [c \in Captures |->
                          IF c \in skipped THEN [file[c] EXCEPT !.final = "none"]
                                           ELSE file[c]]
    BY DEF Launch
  <1>2. observed'[d] \in {[file[d] EXCEPT !.final = "none"], file[d]}
    BY <1>1
  <1>3. file[d] \in Files
    BY DEF CaptureInv, CaptureTypeOK
  <1>4. mem'[d] = IF rows[d].ack THEN "acknowledged" ELSE rows[d].intent
    BY DEF Launch, hydrate
  <1> DEFINE y == [file[d] EXCEPT !.final = "none"]
  <1>5. y \in Files /\ y.final = "none" /\ y.partial = file[d].partial
    BY <1>3, FileFields
  <1>6. observed'[d] \in {y, file[d]}
    BY <1>2
  <1> HIDE DEF y
  <1> QED BY <1>3, <1>4, <1>5, <1>6

LEMMA LaunchPreserves ==
    ASSUME CaptureInv, Launch
    PROVE  CaptureInv'
  <1>1. CaptureTypeOK /\ PhaseOK /\ \A d \in Captures : CaptureOK(d)
    BY DEF CaptureInv
  <1>2. /\ phase = "down" /\ phase' = "recover" /\ unsynced' = {}
        /\ UNCHANGED <<rows, file, quarantined, damaged, call, told>>
        /\ recovery'.todo = {c \in Captures : rows[c].intent # "none"}
    BY DEF Launch
  <1>3. ASSUME NEW d \in Captures, rows[d].intent = "none"
        PROVE  observed'[d].partial = "none" /\ observed'[d].final = "none"
    <2>1. file[d] = NoFile
      BY <1>1, <1>3 DEF CaptureOK, Untouched
    <2> QED BY <2>1, LaunchView DEF NoFile
  <1>4. recovery' = [todo |-> {c \in Captures : rows[c].intent # "none"}, moves |-> {}]
    <2>1. {m \in Captures \X {"partial", "final"} :
             /\ rows[m[1]].intent = "none" /\ observed'[m[1]][m[2]] # "none"} = {}
      BY <1>3
    <2> QED BY <2>1 DEF Launch
  <1>5. observed' \in [Captures -> Files]
    <2>1. observed' = [c \in Captures |-> observed'[c]]
      BY DEF Launch
    <2> QED BY <2>1, LaunchView
  <1>6. mem' \in [Captures -> IntentStates \cup {"none", "acknowledged"}]
    <2>1. \A c \in Captures : rows[c] \in Rows
      BY <1>1 DEF CaptureTypeOK
    <2>2. \A c \in Captures : hydrate[c] \in IntentStates \cup {"none", "acknowledged"}
      BY <2>1, RowFields DEF hydrate
    <2> QED BY <2>2 DEF Launch, hydrate
  <1>7. CaptureTypeOK'
    BY <1>1, <1>2, <1>4, <1>5, <1>6 DEF CaptureTypeOK
  <1>8. PhaseOK'
    BY <1>2 DEF PhaseOK
  <1>9. ASSUME NEW d \in Captures PROVE CaptureOK(d)'
    <2>1. /\ CaptureOK(d) /\ call[d] = NoCall /\ rows[d] \in Rows
      BY <1>1, <1>2 DEF CaptureOK, CallOK, CaptureTypeOK
    <2>2. /\ observed'[d].partial = file[d].partial
          /\ observed'[d].final \in {"none", file[d].final}
          /\ mem'[d] = IF rows[d].ack THEN "acknowledged" ELSE rows[d].intent
      BY LaunchView
    <2>3. Untouched(d)' /\ CallOK(d)' /\ NativeOK(d)' /\ FileOK(d)' /\ RowOK(d)'
      BY <1>2, <2>1, NoCallFields
      DEF CaptureOK, Untouched, CallOK, NativeOK, FileOK, RowOK
    <2>4. RecoveryOK(d)'
      <3>1. CASE rows[d].intent = "none"
        <4>1. file[d] = NoFile /\ ~rows[d].ack /\ mem'[d] = "none"
          BY <2>1, <2>2, <3>1 DEF CaptureOK, Untouched
        <4>2. /\ file'[d].partial = "none" /\ file'[d].final = "none"
              /\ d \notin recovery'.todo /\ recovery'.moves = {}
          BY <1>2, <1>4, <3>1, <4>1 DEF NoFile
        <4> QED BY <4>1, <4>2 DEF RecoveryOK
      <3>2. CASE rows[d].intent # "none"
        BY <1>2, <1>4, <2>2, <3>2 DEF RecoveryOK
      <3> QED BY <3>1, <3>2
    <2>5. ToldOK(d)' /\ BackedOK(d)' /\ SettledOK(d)'
      BY <1>2, <2>1, <2>2 DEF CaptureOK, ToldOK, BackedOK, SettledOK
    <2> QED BY <2>3, <2>4, <2>5 DEF CaptureOK
  <1> QED BY <1>7, <1>8, <1>9 DEF CaptureInv

(* Recovery: what reconciling one capture makes of its row and its work.   *)
Reconciled(c) ==
    LET seen == observed[c] IN
    \/ /\ seen.final # "none"
       /\ seen.final = "empty" \/ rows[c].artifact \notin {"none", seen.final}
       /\ markIntent(c, "evidence_at_risk") /\ Done(c, {<<c, "final">>})
    \/ Adopt(c, seen)
    \/ /\ seen.final \notin {"none", "empty"} /\ rows[c].artifact = seen.final
       /\ \/ mem[c] = "acknowledged" /\ UNCHANGED <<rows, mem>>
          \/ markIntent(c, "acknowledged")
       /\ Done(c, {})
    \/ /\ seen.final = "none" /\ seen.partial # "none"
       /\ \E s \in {"quarantined", "evidence_at_risk"} : markIntent(c, s)
       /\ Done(c, {<<c, "partial">>})
    \/ /\ seen.final = "none" /\ seen.partial = "none"
       /\ \E s \in {"no_residue", "evidence_at_risk"} : markIntent(c, s)
       /\ Done(c, {})

LEMMA ReconcileView ==
    ASSUME NEW c \in Captures, Reconcile(c)
    PROVE  phase = "recover" /\ c \in recovery.todo /\ Reconciled(c)
  <1> DEFINE seen == observed[c]
  <1>1. phase = "recover" /\ c \in recovery.todo
    BY DEF Reconcile
  <1>2. CASE QuarantineFinal(c, seen)
    BY <1>1, <1>2 DEF QuarantineFinal, Reconciled
  <1>3. CASE Adopt(c, seen)
    BY <1>1, <1>3 DEF Reconciled
  <1>4. CASE ResumeAcknowledgement(c, seen)
    BY <1>1, <1>4 DEF ResumeAcknowledgement, Reconciled
  <1>5. CASE QuarantinePartial(c, seen)
    BY <1>1, <1>5 DEF QuarantinePartial, Reconciled
  <1>6. CASE NothingFound(c, seen)
    BY <1>1, <1>6 DEF NothingFound, NoFile, Reconciled
  <1> QED BY <1>2, <1>3, <1>4, <1>5, <1>6 DEF Reconcile

LEMMA DoneEffect ==
    ASSUME CaptureTypeOK, NEW c \in Captures,
           NEW moves \in SUBSET ({c} \X {"partial", "final"}), Done(c, moves)
    PROVE  /\ recovery' \in [todo : SUBSET Captures,
                              moves : SUBSET (Captures \X {"partial", "final"})]
           /\ recovery'.todo = recovery.todo \ {c}
           /\ recovery'.moves = recovery.moves \cup moves
           /\ UNCHANGED <<phase, disk, call, told, observed>>
  BY DEF Done, CaptureTypeOK
(* One capture is reconciled; the others keep what they have.              *)
LEMMA ReconciledEffect ==
    ASSUME CaptureTypeOK, NEW c \in Captures, Reconciled(c)
    PROVE  /\ rows' \in [Captures -> Rows]
           /\ mem' \in [Captures -> IntentStates \cup {"none", "acknowledged"}]
           /\ recovery' \in [todo : SUBSET Captures,
                              moves : SUBSET (Captures \X {"partial", "final"})]
           /\ UNCHANGED <<phase, disk, call, told, observed>>
           /\ \A d \in Captures \ {c} :
                 /\ rows'[d] = rows[d] /\ mem'[d] = mem[d]
                 /\ d \in recovery'.todo <=> d \in recovery.todo
                 /\ \A part \in {"partial", "final"} :
                       <<d, part>> \in recovery'.moves <=> <<d, part>> \in recovery.moves
  <1> DEFINE seen == observed[c]
             Finishes == \E moves \in SUBSET ({c} \X {"partial", "final"}) : Done(c, moves)
             Marked == \E s \in Marks : markIntent(c, s)
             Ledger == /\ rows' \in [Captures -> Rows]
                       /\ mem' \in [Captures -> IntentStates \cup {"none", "acknowledged"}]
                       /\ \A d \in Captures \ {c} : rows'[d] = rows[d] /\ mem'[d] = mem[d]
             Work == /\ recovery' \in [todo : SUBSET Captures,
                                      moves : SUBSET (Captures \X {"partial", "final"})]
                     /\ UNCHANGED <<phase, disk, call, told, observed>>
                     /\ \A d \in Captures \ {c} :
                           /\ d \in recovery'.todo <=> d \in recovery.todo
                           /\ \A part \in {"partial", "final"} :
                                 <<d, part>> \in recovery'.moves <=>
                                    <<d, part>> \in recovery.moves
  <1>1. Marked => Ledger
    BY MarkEffect
  <1>2. Finishes => Work
    BY DoneEffect
  <1>3. CASE Adopt(c, seen)
    <2>1. seen.final \in Contents /\ commitDurableCapture(c, seen.final)
      BY <1>3, FileFields DEF Adopt, CaptureTypeOK
    <2>2. Ledger
      BY <2>1, CommitEffect
    <2>3. Work
      BY <1>3 DEF Adopt, CaptureTypeOK
    <2> QED BY <2>2, <2>3
  <1>4. CASE ~Adopt(c, seen)
    <2>1. {<<c, "final">>} \in SUBSET ({c} \X {"partial", "final"})
          /\ {<<c, "partial">>} \in SUBSET ({c} \X {"partial", "final"})
          /\ {} \in SUBSET ({c} \X {"partial", "final"})
      OBVIOUS
    <2>2. Finishes
      BY <1>4, <2>1 DEF Reconciled
    <2>3. {"quarantined", "evidence_at_risk", "no_residue", "acknowledged"} \subseteq Marks
      BY DEF Marks, IntentStates
    <2>4. Marked \/ UNCHANGED <<rows, mem>>
      BY <1>4, <2>3 DEF Reconciled
    <2>5. UNCHANGED <<rows, mem>> => Ledger
      BY DEF CaptureTypeOK
    <2> HIDE DEF Marked, Finishes
    <2> QED BY <1>1, <1>2, <2>2, <2>4, <2>5
  <1> QED BY <1>3, <1>4

LEMMA ReconcilePreserves ==
    ASSUME CaptureInv, NEW c \in Captures, Reconcile(c)
    PROVE  CaptureInv'
  <1>1. CaptureTypeOK /\ PhaseOK /\ CaptureOK(c)
    BY DEF CaptureInv
  <1>2. phase = "recover" /\ c \in recovery.todo /\ Reconciled(c)
    BY ReconcileView
  <1>3. /\ rows' \in [Captures -> Rows]
        /\ mem' \in [Captures -> IntentStates \cup {"none", "acknowledged"}]
        /\ recovery' \in [todo : SUBSET Captures,
                           moves : SUBSET (Captures \X {"partial", "final"})]
        /\ UNCHANGED <<phase, file, unsynced, quarantined, damaged, call, told, observed>>
        /\ \A d \in Captures \ {c} :
              /\ rows'[d] = rows[d] /\ mem'[d] = mem[d]
              /\ d \in recovery'.todo <=> d \in recovery.todo
              /\ \A part \in {"partial", "final"} :
                    <<d, part>> \in recovery'.moves <=> <<d, part>> \in recovery.moves
    BY <1>1, <1>2, ReconciledEffect DEF disk
  <1>4. CaptureTypeOK'
    BY <1>1, <1>3 DEF CaptureTypeOK
  <1>5. PhaseOK'
    BY <1>1, <1>2, <1>3 DEF PhaseOK
  <1>6. ASSUME NEW d \in Captures, d # c PROVE CaptureOK(d)'
    <2>1. LeftAlone(d)
      BY <1>3, <1>6 DEF LeftAlone
    <2> QED BY <2>1, Elsewhere DEF CaptureInv
  <1>7. /\ call[c] = NoCall /\ rows[c].intent \in Marks \cup {"none"}
        /\ rows[c] \in Rows /\ observed[c] \in Files /\ file[c] \in Files
        /\ observed[c].partial = file[c].partial
        /\ observed[c].final \in {"none", file[c].final}
        /\ \A part \in {"partial", "final"} : <<c, part>> \notin recovery.moves
    BY <1>1, <1>2, RowFields DEF CaptureTypeOK, CaptureOK, CallOK, RecoveryOK, Marks
  <1>8. ASSUME Adopt(c, observed[c]) PROVE CaptureOK(c)'
    <2>1. observed[c].final \in Contents
      BY <1>7, <1>8, FileFields DEF Adopt
    <2>2. /\ observed[c].final # "empty" /\ rows[c].artifact = "none"
          /\ mem'[c] = "durable" /\ rows'[c].intent = "durable"
          /\ rows'[c].artifact = observed[c].final /\ rows'[c].ack = rows[c].ack
      BY <1>1, <1>8, <2>1, CommitEffect DEF Adopt
    <2>3. recovery' = recovery
      BY <1>8 DEF Adopt
    <2>4. observed[c].final = file[c].final /\ (c \notin damaged => file[c].final = "whole")
      BY <1>1, <1>7, <1>8, <2>1, <2>2 DEF Adopt, CaptureOK, FileOK, Contents
    <2>5. Untouched(c)' /\ CallOK(c)' /\ NativeOK(c)' /\ FileOK(c)' /\ RowOK(c)'
      BY <1>1, <1>2, <1>3, <1>7, <2>2, <2>4, NoCallFields
      DEF CaptureOK, Untouched, CallOK, NativeOK, FileOK, RowOK, PhaseOK
    <2>6. RecoveryOK(c)' /\ ToldOK(c)' /\ BackedOK(c)' /\ SettledOK(c)'
      BY <1>1, <1>2, <1>3, <1>7, <2>2, <2>3
      DEF CaptureOK, RecoveryOK, ToldOK, BackedOK, SettledOK
    <2> QED BY <2>5, <2>6 DEF CaptureOK
  <1>9. ASSUME ~Adopt(c, observed[c]) PROVE CaptureOK(c)'
    <2> DEFINE seen == observed[c]
    <2>1. {"quarantined", "evidence_at_risk", "no_residue", "acknowledged"} \subseteq Marks
      BY DEF Marks, IntentStates
    (* Acknowledged again, or settled in another way.                      *)
    <2>2. \/ /\ seen.final \notin {"none", "empty"} /\ rows[c].artifact = seen.final
             /\ mem'[c] = "acknowledged" /\ rows'[c].intent = rows[c].intent
             /\ Done(c, {})
          \/ /\ mem'[c] \in {"quarantined", "evidence_at_risk", "no_residue"}
             /\ rows'[c].intent = mem'[c]
             /\ \/ /\ seen.final # "none" /\ Done(c, {<<c, "final">>})
                   /\ seen.final = "empty" \/ rows[c].artifact \notin {"none", seen.final}
                \/ /\ seen.final = "none" /\ seen.partial # "none"
                   /\ Done(c, {<<c, "partial">>})
                \/ /\ seen.final = "none" /\ seen.partial = "none"
                   /\ Done(c, {})
      <3>1. ASSUME NEW s \in {"quarantined", "evidence_at_risk", "no_residue"},
                   markIntent(c, s)
            PROVE  mem'[c] = s /\ rows'[c].intent = s
        BY <1>1, <2>1, <3>1, MarkEffect
      <3>2. ASSUME markIntent(c, "acknowledged")
            PROVE  mem'[c] = "acknowledged" /\ rows'[c].intent = rows[c].intent
        BY <1>1, <2>1, <3>2, MarkEffect
      <3> QED BY <1>2, <1>9, <3>1, <3>2 DEF Reconciled
    <2>3. /\ rows'[c].artifact = rows[c].artifact
          /\ rows[c].ack => rows'[c].ack
      <3>1. UNCHANGED rows \/ \E s \in Marks : markIntent(c, s)
        BY <1>2, <1>9, <2>1 DEF Reconciled
      <3> QED BY <1>1, <3>1, MarkEffect
    <2>4. rows'[c].intent # "none"
      BY <1>1, <2>2 DEF CaptureOK, Untouched
    <2>5. Untouched(c)' /\ CallOK(c)' /\ NativeOK(c)' /\ FileOK(c)' /\ RowOK(c)'
      BY <1>1, <1>3, <1>7, <2>3, <2>4
      DEF CaptureOK, Untouched, CallOK, NativeOK, FileOK, RowOK
    <2>6. recovery'.todo = recovery.todo \ {c}
      BY <2>2 DEF Done
    (* What is moved is what was found.                                    *)
    <2>7. \/ /\ mem'[c] = "acknowledged" /\ recovery'.moves = recovery.moves
             /\ seen.final \notin {"none", "empty"} /\ rows[c].artifact = seen.final
          \/ /\ mem'[c] \in {"quarantined", "evidence_at_risk", "no_residue"}
             /\ \/ /\ recovery'.moves = recovery.moves \cup {<<c, "final">>}
                   /\ seen.final # "none"
                   /\ seen.final = "empty" \/ rows[c].artifact \notin {"none", seen.final}
                \/ /\ recovery'.moves = recovery.moves \cup {<<c, "partial">>}
                   /\ seen.final = "none" /\ seen.partial # "none"
                \/ /\ recovery'.moves = recovery.moves
                   /\ seen.final = "none" /\ seen.partial = "none"
      BY <2>2 DEF Done
    <2>8. <<c, "final">> \in recovery'.moves /\ c \notin damaged => rows'[c].artifact = "none"
      BY <1>1, <1>7, <2>3, <2>7 DEF CaptureOK, RowOK
    <2>9. RecoveryOK(c)'
      BY <1>1, <1>2, <1>3, <1>7, <2>3, <2>6, <2>7, <2>8
      DEF CaptureOK, RecoveryOK, FileOK, Skipped
    <2>10. ToldOK(c)'
      <3>1. CASE told[c] # "acknowledged"
        BY <1>3, <3>1 DEF ToldOK
      <3>2. CASE told[c] = "acknowledged"
        <4>1. rows[c].ack /\ rows[c].artifact # "none" /\ call[c].pc \in {"idle", "ended"}
          BY <1>1, <3>2 DEF CaptureOK, ToldOK
        <4>2. c \notin damaged => seen.final \in {"none", "whole"} /\ rows[c].artifact = "whole"
          BY <1>1, <1>7, <4>1 DEF CaptureOK, RowOK
        <4> QED BY <1>3, <1>7, <2>3, <2>7, <4>1, <4>2, NoCallFields DEF ToldOK
      <3> QED BY <3>1, <3>2
    <2>11. BackedOK(c)' /\ SettledOK(c)'
      BY <1>2, <1>3 DEF BackedOK, SettledOK
    <2> QED BY <2>5, <2>9, <2>10, <2>11 DEF CaptureOK
  <1> QED BY <1>4, <1>5, <1>6, <1>8, <1>9 DEF CaptureInv
(* A residue that is moved away was found by this scan and is not one that *)
(* the ledger acknowledges.                                                *)
LEMMA QuarantinePreserves ==
    ASSUME CaptureInv, NEW m \in Captures \X {"partial", "final"}, Quarantine(m)
    PROVE  CaptureInv'
  <1>1. CaptureTypeOK /\ PhaseOK
    BY DEF CaptureInv
  <1>2. PICK c \in Captures, part \in {"partial", "final"} : m = <<c, part>>
    OBVIOUS
  <1>3. CaptureOK(c)
    BY DEF CaptureInv
  <1>4. /\ phase = "recover" /\ recovery.todo = {} /\ <<c, part>> \in recovery.moves
        /\ file' = [file EXCEPT ![c][part] = "none"] /\ unsynced' = {}
        /\ quarantined' = quarantined \cup {c}
        /\ UNCHANGED <<phase, mem, rows, damaged, call, told, observed>>
    BY <1>2 DEF Quarantine
  <1>5. /\ recovery' \in [todo : SUBSET Captures,
                           moves : SUBSET (Captures \X {"partial", "final"})]
        /\ recovery'.todo = {} /\ recovery'.moves = recovery.moves \ {<<c, part>>}
    BY <1>1, <1>2, <1>4 DEF Quarantine, CaptureTypeOK
  <1>6. /\ file' \in [Captures -> Files]
        /\ \A d \in Captures \ {c} : file'[d] = file[d]
        /\ part = "partial" => file'[c].partial = "none" /\ file'[c].final = file[c].final
        /\ part = "final" => file'[c].final = "none" /\ file'[c].partial = file[c].partial
    <2>1. CASE part = "partial"
      <3>1. file' = [file EXCEPT ![c].partial = "none"]
        BY <1>4, <2>1
      <3> QED BY <1>1, <2>1, <3>1, PartialAt
    <2>2. CASE part = "final"
      <3>1. file' = [file EXCEPT ![c].final = "none"]
        BY <1>4, <2>2
      <3> QED BY <1>1, <2>2, <3>1, FinalAt
    <2> QED BY <2>1, <2>2
  <1>7. CaptureTypeOK'
    BY <1>1, <1>4, <1>5, <1>6 DEF CaptureTypeOK
  <1>8. PhaseOK'
    BY <1>1, <1>4 DEF PhaseOK
  <1>9. ASSUME NEW d \in Captures, d # c PROVE CaptureOK(d)'
    <2>1. LeftAlone(d)
      BY <1>4, <1>5, <1>6, <1>9 DEF LeftAlone
    <2> QED BY <2>1, Elsewhere DEF CaptureInv
  <1>10. CaptureOK(c)'
    <2>1. /\ call[c] = NoCall /\ mem[c] # "acknowledged" /\ observed[c][part] # "none"
          /\ part = "final" /\ c \notin damaged => rows[c].artifact = "none"
          /\ file[c] \in Files
      BY <1>1, <1>3, <1>4 DEF CaptureOK, CallOK, RecoveryOK, CaptureTypeOK
    <2>2. Untouched(c)'
      <3>1. rows[c].intent = "none" => file'[c] = NoFile
        BY <1>3, <1>6 DEF CaptureOK, Untouched, NoFile, Files
      <3> QED BY <1>3, <1>4, <3>1 DEF CaptureOK, Untouched
    <2>3. CallOK(c)' /\ NativeOK(c)' /\ FileOK(c)' /\ RowOK(c)'
      BY <1>3, <1>4, <1>6, <2>1, NoCallFields
      DEF CaptureOK, CallOK, NativeOK, FileOK, RowOK
    <2>4. RecoveryOK(c)'
      BY <1>3, <1>4, <1>5, <1>6, <2>1
      DEF CaptureOK, RecoveryOK, Skipped
    <2>5. ToldOK(c)' /\ BackedOK(c)' /\ SettledOK(c)'
      BY <1>3, <1>4 DEF CaptureOK, ToldOK, BackedOK, SettledOK
    <2> QED BY <2>2, <2>3, <2>4, <2>5 DEF CaptureOK
  <1> QED BY <1>7, <1>8, <1>9, <1>10 DEF CaptureInv

(* Recovery ends: with nothing left to do, what is settled is what is in   *)
(* the directory.                                                          *)
LEMMA ReadyPreserves ==
    ASSUME CaptureInv, Ready \/ StartupFails
    PROVE  CaptureInv'
  <1>1. CaptureTypeOK /\ PhaseOK
    BY DEF CaptureInv
  <1>2. /\ phase = "recover" /\ recovery' = NothingToDo
        /\ phase' = "ready" => recovery = NothingToDo
        /\ phase' \in {"ready", "terminal"}
        /\ UNCHANGED <<mem, rows, file, unsynced, quarantined, damaged, call, told, observed>>
    BY DEF Ready, StartupFails, disk
  <1>3. CaptureTypeOK'
    BY <1>1, <1>2 DEF CaptureTypeOK, NothingToDo
  <1>4. PhaseOK'
    BY <1>1, <1>2 DEF PhaseOK
  <1>5. ASSUME NEW c \in Captures PROVE CaptureOK(c)'
    <2>1. CaptureOK(c) /\ call[c] = NoCall
      BY <1>2 DEF CaptureInv, CaptureOK, CallOK
    <2>2. Untouched(c)' /\ CallOK(c)' /\ NativeOK(c)' /\ FileOK(c)' /\ RowOK(c)'
      BY <1>2, <2>1, NoCallFields
      DEF CaptureOK, Untouched, CallOK, NativeOK, FileOK, RowOK
    <2>3. RecoveryOK(c)' /\ ToldOK(c)'
      BY <1>2, <2>1 DEF CaptureOK, RecoveryOK, ToldOK
    <2>4. BackedOK(c)' /\ SettledOK(c)'
      <3>1. phase' = "ready" => c \notin recovery.todo /\ recovery.moves = {}
        BY <1>2 DEF NothingToDo
      <3> QED BY <1>2, <2>1, <3>1
              DEF CaptureOK, RecoveryOK, Skipped, BackedOK, SettledOK, Overlooked
    <2> QED BY <2>2, <2>3, <2>4 DEF CaptureOK
  <1> QED BY <1>3, <1>4, <1>5 DEF CaptureInv

(* The process ends: of the directory at most what was not synced is lost, *)
(* and a row that is committed stands for a file that was.                 *)
LEMMA GonePreserves ==
    ASSUME CaptureInv, Killed \/ PowerLost
    PROVE  CaptureInv'
  <1>1. CaptureTypeOK
    BY DEF CaptureInv
  <1>2. /\ phase' = "down" /\ recovery' = NothingToDo
        /\ mem' = [c \in Captures |-> "none"] /\ call' = [c \in Captures |-> NoCall]
        /\ observed' = [c \in Captures |-> NoFile]
        /\ UNCHANGED <<rows, quarantined, damaged, told>>
    BY DEF Killed, PowerLost, ProcessGone
  <1>3. /\ file' \in [Captures -> Files] /\ unsynced' \subseteq unsynced
        /\ \A c \in Captures : file'[c] \in AfterPowerLoss(file[c])
        /\ \A c \in Captures \ unsynced : file'[c] = file[c]
    BY <1>1 DEF Killed, PowerLost, AfterPowerLoss, CaptureTypeOK
  <1>4. NoFile \in Files /\ NoFile.partial = "none" /\ NoFile.final = "none"
    BY DEF NoFile, Files
  <1>5. CaptureTypeOK'
    BY <1>1, <1>2, <1>3, <1>4, NoCallFields DEF CaptureTypeOK, NothingToDo
  <1>6. PhaseOK'
    BY <1>2 DEF PhaseOK
  <1>7. ASSUME NEW c \in Captures PROVE CaptureOK(c)'
    <2>1. CaptureOK(c)
      BY DEF CaptureInv
    <2>2. /\ file'[c].partial = "none" \/ file'[c].final = "none"
          /\ file'[c].final \in {"none", file[c].final}
      BY <1>3, <1>4, <2>1 DEF AfterPowerLoss, CaptureOK, FileOK
    <2>3. file[c] = NoFile => file'[c] = NoFile
      BY <1>3, <1>4 DEF AfterPowerLoss
    <2>4. call'[c] = NoCall /\ c \in unsynced' => c \in unsynced
      BY <1>2, <1>3
    <2>5. Untouched(c)' /\ CallOK(c)' /\ NativeOK(c)' /\ FileOK(c)'
      BY <1>2, <2>1, <2>2, <2>3, NoCallFields
      DEF CaptureOK, Untouched, CallOK, NativeOK, FileOK
    <2>6. RowOK(c)'
      BY <1>2, <1>3, <2>1, NoCallFields DEF CaptureOK, RowOK
    <2>7. RecoveryOK(c)' /\ ToldOK(c)' /\ BackedOK(c)' /\ SettledOK(c)'
      BY <1>2, <2>1, NoCallFields DEF CaptureOK, RecoveryOK, ToldOK, BackedOK, SettledOK
    <2> QED BY <2>5, <2>6, <2>7 DEF CaptureOK
  <1> QED BY <1>5, <1>6, <1>7 DEF CaptureInv

LEMMA DamagePreserves ==
    ASSUME CaptureInv, NEW c \in Captures, Damage(c)
    PROVE  CaptureInv'
  <1>1. CaptureTypeOK /\ PhaseOK /\ CaptureOK(c)
    BY DEF CaptureInv
  <1>2. PICK left \in {"none", "empty", "torn"} : file' = [file EXCEPT ![c].final = left]
    BY DEF Damage
  <1>3. left \in Contents \cup {"none"}
    BY DEF Contents
  <1>4. /\ file' \in [Captures -> Files]
        /\ file'[c].final = left /\ file'[c].partial = file[c].partial
        /\ \A d \in Captures \ {c} : file'[d] = file[d]
    BY <1>1, <1>2, <1>3, FinalAt
  <1>5. /\ phase = "down" /\ damaged' = damaged \cup {c} /\ file[c].final # "none"
        /\ UNCHANGED <<phase, mem, rows, unsynced, quarantined, call, told, observed, recovery>>
    BY DEF Damage
  <1>6. CaptureTypeOK'
    BY <1>1, <1>4, <1>5 DEF CaptureTypeOK
  <1>7. PhaseOK'
    BY <1>1, <1>5 DEF PhaseOK
  <1>8. ASSUME NEW d \in Captures, d # c PROVE CaptureOK(d)'
    <2>1. LeftAlone(d)
      BY <1>4, <1>5, <1>8 DEF LeftAlone
    <2> QED BY <2>1, Elsewhere DEF CaptureInv
  <1>9. CaptureOK(c)'
    <2>1. call[c] = NoCall /\ rows[c].intent # "none" /\ file[c].partial = "none"
      BY <1>1, <1>5 DEF CaptureOK, CallOK, Untouched, FileOK, NoFile
    <2> QED BY <1>1, <1>4, <1>5, <2>1, NoCallFields
            DEF CaptureOK, Untouched, CallOK, NativeOK, FileOK, RowOK, RecoveryOK,
                ToldOK, BackedOK, SettledOK
  <1> QED BY <1>6, <1>7, <1>8, <1>9 DEF CaptureInv

LEMMA CaptureStarts == CaptureInit => CaptureInv
  <1> SUFFICES ASSUME CaptureInit PROVE CaptureInv
    OBVIOUS
  <1>1. NoFile \in Files /\ NoFile.partial = "none" /\ NoFile.final = "none"
    BY DEF NoFile, Files
  <1>2. [intent |-> "none", artifact |-> "none", ack |-> FALSE] \in Rows
    BY DEF Rows
  <1>3. CaptureTypeOK /\ PhaseOK
    BY <1>1, <1>2, NoCallFields DEF CaptureInit, CaptureTypeOK, PhaseOK, NothingToDo
  <1>4. ASSUME NEW c \in Captures PROVE CaptureOK(c)
    BY <1>1, NoCallFields
    DEF CaptureInit, CaptureOK, Untouched, CallOK, NativeOK, FileOK, RowOK, RecoveryOK,
        ToldOK, BackedOK, SettledOK
  <1> QED BY <1>3, <1>4 DEF CaptureInv

LEMMA CaptureStepPreserves == CaptureInv /\ [CaptureNext]_cvars => CaptureInv'
  <1> SUFFICES ASSUME CaptureInv, [CaptureNext]_cvars PROVE CaptureInv'
    OBVIOUS
  <1>1. CASE UNCHANGED cvars
    <2>1. CaptureTypeOK' /\ PhaseOK'
      BY <1>1 DEF CaptureInv, CaptureTypeOK, PhaseOK, cvars, disk
    <2>2. ASSUME NEW d \in Captures PROVE CaptureOK(d)'
      <3>1. LeftAlone(d)
        BY <1>1 DEF LeftAlone, cvars, disk
      <3> QED BY <3>1, Elsewhere DEF CaptureInv
    <2> QED BY <2>1, <2>2 DEF CaptureInv
  <1>2. CASE CaptureNext
    BY <1>2, CoordinatorPreserves, NativePreserves, ReconcilePreserves, DamagePreserves,
       QuarantinePreserves, LaunchPreserves, ReadyPreserves, GonePreserves
    DEF CaptureNext
  <1> QED BY <1>1, <1>2

(* A capture the inspector was told is saved is kept and backed by its     *)
(* file through kills, power losses, failing writes and restarts           *)
(* (capture-coordinator.ts:115-250).                                       *)
THEOREM AcknowledgementsAreKept == CaptureSpec => []AcknowledgedIsKept
  <1>1. CaptureInv => AcknowledgedIsKept
    BY DEF CaptureInv, CaptureOK, ToldOK, BackedOK, RowOK, AcknowledgedIsKept,
           AcknowledgedIsBacked, AcknowledgementSurvives, Overlooked
  <1> QED BY <1>1, CaptureStarts, CaptureStepPreserves, PTL DEF CaptureSpec

(* A committed row stands for the whole original at every moment, and a    *)
(* start settles every interrupted capture before capturing is enabled     *)
(* (reconciliation.ts:193).                                                *)
THEOREM RestartsAreClean == CaptureSpec => []RestartIsClean
  <1>1. CaptureInv => RestartIsClean
    BY DEF CaptureInv, CaptureOK, RowOK, SettledOK, RestartIsClean, CommittedIsWhole,
           RestartSettles
  <1> QED BY <1>1, CaptureStarts, CaptureStepPreserves, PTL DEF CaptureSpec
-----------------------------------------------------------------------------
(* FieldWork.                                                              *)

AreaNames == {Areas[i] : i \in DOMAIN Areas}
Identities == 0 .. MaxPresses
WorkflowStates == {"none", "active", "paused", "completed_findings",
                   "completed_no_reportable_finding"}
ReviewItems == [version : Nat, origin : {"ai", "human"}, passed : Nat,
                status : {"awaiting_decision", "accepted", "rejected"}]
Manifests == SUBSET [module : Commissioned, version : Nat]
Workflows == [revision : Nat, status : WorkflowStates, approved : SUBSET Commissioned,
              items : [Commissioned -> ReviewItems],
              delivery : {"waiting_for_approval", "waiting_for_evidence", "queued"},
              manifest : Manifests]
Sessions == [area : AreaNames, active : Identities, last : Identities, seq : Nat,
             wf : Workflows]
Entries == [by : Handlers, session : Sessions]
Begun == WorkflowStates \ {"none"}
Names == SUBSET Nat
EvidenceLists == Seq(Nat)
Snapshots == [status : Begun, revision : Nat, area : AreaNames,
              evidence : EvidenceLists, observations : Names, sources : Names]

OnScreenOps == {"area", "start", "finish"}
Transitions == Captured \cup {"note", "area", "start", "pause", "resume", "finish"}
Decisions == {"accept", "reject", "reverify", "approve", "edit", "confirm"}
HandlerPcs == {"idle", "reserving", "capturing", "noting", "loading", "saving",
               "pointing", "digesting", "closing"}
Ops == Transitions \cup Decisions \cup {"none"}
Args == Commissioned \cup {"none", "candidate", "no_finding"}
HandlerRecords == [op : Ops, pc : HandlerPcs, arg : Args, n : Nat, inv : Identities,
                   session : Sessions \cup {0}, snap : Snapshots \cup {None},
                   item : ReviewItems \cup Manifests \cup {0}]

FieldTypeOK ==
    /\ app \in {"down", "restarted", "running"}
    /\ sess \in Sessions /\ stored \in Sessions
    /\ wf \in Workflows /\ saved \in Workflows
    /\ writes \in Seq(Entries)
    /\ doing \in [Handlers -> HandlerRecords]
    /\ inv \in [1 .. MaxPresses -> Snapshots \cup {None}]
    /\ presses \in Identities /\ mishaps \in Nat
    /\ taken \in Seq(Nat)
    /\ linked \subseteq [inv : 1 .. MaxPresses, n : Nat, note : BOOLEAN]

(* An approved module has its finding accepted, an accepted AI finding     *)
(* passed in exactly that version.                                         *)
ApprovalsOK(w) ==
    \A m \in Commissioned :
       /\ m \in w.approved => w.items[m].status = "accepted"
       /\ w.items[m].status = "accepted" => assertConfirmableVerifier(w.items[m])

(* A session that shows an investigation's state points to one.            *)
Points(s) == Pointed(s) # 0
SessionOK(s) == ApprovalsOK(s.wf) /\ (s.wf.status # "none" => Points(s))

(* A handler that waits has its write in the queue; what it writes was on  *)
(* screen, is not older than what is stored, and points to what it began.  *)
Writing == {"reserving", "pointing", "closing"}
EntryOK(e) ==
    /\ SessionOK(e.session)
    /\ Points(e.session) => Points(sess)
    /\ stored.seq <= e.session.seq /\ e.session.seq <= sess.seq
    /\ doing[e.by].pc \in Writing
    /\ doing[e.by].pc = "pointing" /\ doing[e.by].op # "area" => Points(e.session)
    /\ doing[e.by].pc = "reserving" => doing[e.by].n < e.session.seq

QueueOK ==
    /\ \A i \in DOMAIN writes : EntryOK(writes[i])
    /\ \A i, j \in DOMAIN writes : i < j =>
          /\ writes[i].by # writes[j].by
          /\ writes[i].session.seq <= writes[j].session.seq

SessionsOK ==
    /\ SessionOK(sess) /\ SessionOK(stored) /\ ApprovalsOK(wf)
    /\ wf.status # "none" => Points(sess)
    /\ stored.seq <= sess.seq

(* The snapshot a handler is about to replace was the stored one and       *)
(* permitted the transition; a newer one has another revision.             *)
Checked(k) ==
    /\ k.snap \in Snapshots /\ permitted(k, k.snap)
    /\ inv[k.inv] \in Snapshots
    /\ k.snap.revision <= inv[k.inv].revision
    /\ k.snap.revision = inv[k.inv].revision => k.snap = inv[k.inv]

HandlerOK(k) ==
    /\ k.pc = "idle" => k = Idle
    /\ k.pc \in {"reserving", "capturing"} => k.op \in Captured
    /\ k.pc = "reserving" => k.n < sess.seq
    /\ k.pc = "capturing" => k.n < stored.seq
    /\ k.pc = "noting" => k.op = "note"
    /\ k.pc \in {"loading", "saving"} =>
          /\ k.inv # 0 /\ k.op \in Transitions
          /\ k.op = "start" => k.pc = "saving"
          /\ k.op \in OnScreenOps => k.session \in Sessions /\ ApprovalsOK(k.session.wf)
          /\ k.op = "area" => k.session.active # 0
    /\ k.pc = "saving" /\ k.op # "start" => Checked(k)
    /\ k.pc = "pointing" => k.op \in OnScreenOps
    /\ k.pc = "digesting" =>
          \/ /\ k.op = "edit" /\ k.arg \in Commissioned
             /\ k.item \in ReviewItems /\ k.item.status = "awaiting_decision"
          \/ k.op = "confirm" /\ k.item \in Manifests
    /\ k.op \in {"pause", "resume"} => Points(sess)

(* Sequence numbers that are reserved or used are below the stored one, or *)
(* below one that will be stored before they are used.                     *)
Reserved(c) == doing[c].pc \in {"reserving", "capturing"}
SequencesOK ==
    /\ SequencesAreUnique
    /\ \A i \in DOMAIN taken :
          /\ taken[i] < stored.seq
          /\ \A c \in Handlers : Reserved(c) => doing[c].n # taken[i]
    /\ \A c, d \in Handlers : Reserved(c) /\ Reserved(d) /\ c # d => doing[c].n # doing[d].n

(* A link is kept by an investigation that exists.                         *)
LinkKept(l) ==
    /\ inv[l.inv] # None
    /\ l.n \in (IF l.note THEN inv[l.inv].observations ELSE Elements(inv[l.inv].evidence))

LinksOK ==
    /\ \A l \in linked : LinkKept(l)
    /\ \A i \in 1 .. MaxPresses : inv[i].status = "completed_findings" =>
          inv[i].sources = Elements(inv[i].evidence)

(* Outside a running session nothing is under way.                         *)
RestOK ==
    /\ app # "running" => writes = <<>> /\ \A c \in Handlers : doing[c] = Idle
    /\ NoGhostInvestigation

FieldInv ==
    /\ FieldTypeOK /\ SessionsOK /\ QueueOK
    /\ \A c \in Handlers : HandlerOK(doing[c])
    /\ SequencesOK /\ LinksOK /\ RestOK /\ ReportedIsDurable
(* The parts of the records are what their sets say.                       *)
LEMMA FirstAreaExists == Areas[1] \in AreaNames
  <1>1. Len(Areas) \in Nat \ {0} /\ DOMAIN Areas = 1 .. Len(Areas)
    BY FieldAssumption
  <1>2. 1 \in DOMAIN Areas
    BY <1>1
  <1> QED BY <1>2 DEF AreaNames

LEMMA NextAreaExists ==
    ASSUME NEW area \in AreaNames
    PROVE  nextArea(area) \in AreaNames
  <1> DEFINE i == CHOOSE k \in DOMAIN Areas : Areas[k] = area
  <1>1. i \in DOMAIN Areas
    BY DEF AreaNames
  <1>2. Len(Areas) \in Nat \ {0} /\ DOMAIN Areas = 1 .. Len(Areas)
    BY FieldAssumption
  <1>3. (i % Len(Areas)) + 1 \in DOMAIN Areas
    BY <1>1, <1>2
  <1>4. nextArea(area) = Areas[(i % Len(Areas)) + 1]
    BY DEF nextArea
  <1> HIDE DEF i
  <1> QED BY <1>3, <1>4 DEF AreaNames

LEMMA SnapshotFacts ==
    /\ None \notin Snapshots /\ None.status = "none"
    /\ \A s \in Snapshots : s.status # "none"
  <1>1. \A s \in Snapshots : s.status # "none"
    BY DEF Snapshots, Begun
  <1>2. None.status = "none"
    BY DEF None
  <1> QED BY <1>1, <1>2

LEMMA IdleFacts ==
    /\ Idle \in HandlerRecords
    /\ Idle.op = "none" /\ Idle.pc = "idle"
  <1>1. /\ "none" \in Ops /\ "none" \in Args /\ "idle" \in HandlerPcs
        /\ 0 \in Identities /\ 0 \in Nat
    BY FieldAssumption DEF Ops, Args, HandlerPcs, Identities
  <1> QED BY <1>1 DEF Idle, HandlerRecords

(* A patch of a session is a session.                                      *)
LEMMA SessionFields ==
    ASSUME NEW s \in Sessions
    PROVE  /\ s.area \in AreaNames /\ s.active \in Identities /\ s.last \in Identities
           /\ s.seq \in Nat /\ s.wf \in Workflows
           /\ \A a \in AreaNames : LET t == [s EXCEPT !.area = a] IN
                 /\ t \in Sessions /\ t.active = s.active /\ t.last = s.last
                 /\ t.wf = s.wf /\ t.seq = s.seq
           /\ \A i \in Identities : LET t == [s EXCEPT !.active = i] IN
                 /\ t \in Sessions /\ t.active = i /\ t.last = s.last
                 /\ t.wf = s.wf /\ t.seq = s.seq
           /\ \A i \in Identities : LET t == [s EXCEPT !.active = 0, !.last = i] IN
                 /\ t \in Sessions /\ t.active = 0 /\ t.last = i
                 /\ t.wf = s.wf /\ t.seq = s.seq
           /\ \A n \in Nat : LET t == [s EXCEPT !.seq = n] IN
                 /\ t \in Sessions /\ t.active = s.active /\ t.last = s.last
                 /\ t.wf = s.wf /\ t.seq = n /\ t.area = s.area
           /\ \A w \in Workflows : LET t == [s EXCEPT !.wf = w] IN
                 /\ t \in Sessions /\ t.active = s.active /\ t.last = s.last
                 /\ t.wf = w /\ t.seq = s.seq
  <1>1. 0 \in Identities
    BY FieldAssumption DEF Identities
  <1> QED BY <1>1 DEF Sessions

(* What saving a session puts on screen and in the queue.                  *)
LEMMA SaveEffect ==
    ASSUME sess \in Sessions, NEW c \in Handlers, NEW next \in Sessions,
           NEW waiting \in Seq(Entries), saveSession(c, next, waiting)
    PROVE  /\ sess' \in Sessions
           /\ sess'.active = next.active /\ sess'.last = next.last /\ sess'.wf = next.wf
           /\ sess.seq <= sess'.seq /\ next.seq <= sess'.seq
           /\ writes' = Append(waiting, [by |-> c, session |-> sess'])
           /\ writes' \in Seq(Entries)
  <1> DEFINE top == IF next.seq > sess.seq THEN next.seq ELSE sess.seq
  <1>1. top \in Nat /\ sess.seq <= top /\ next.seq <= top
    <2>1. sess.seq \in Nat /\ next.seq \in Nat
      BY SessionFields
    <2> QED BY <2>1
  <1>2. sess' = [next EXCEPT !.seq = top]
    BY DEF saveSession, normalised
  <1>3. Queued(c, next) = [by |-> c, session |-> sess']
    BY DEF saveSession, Queued
  <1> HIDE DEF top
  <1>4. /\ sess' \in Sessions /\ sess'.seq = top
        /\ sess'.active = next.active /\ sess'.last = next.last /\ sess'.wf = next.wf
    BY <1>1, <1>2, SessionFields
  <1>5. Queued(c, next) \in Entries
    BY <1>3, <1>4 DEF Entries
  <1> QED BY <1>1, <1>3, <1>4, <1>5 DEF saveSession

LEMMA WorkflowEffect ==
    ASSUME sess \in Sessions, wf \in Workflows, NEW c \in Handlers,
           NEW patched \in Workflows, NEW waiting \in Seq(Entries),
           saveWorkflow(c, patched, waiting)
    PROVE  /\ sess' \in Sessions
           /\ sess'.active = sess.active /\ sess'.last = sess.last
           /\ sess'.wf.status = patched.status /\ sess'.wf.items = patched.items
           /\ sess'.wf.approved = patched.approved
           /\ sess.seq <= sess'.seq
           /\ writes' = Append(waiting, [by |-> c, session |-> sess'])
           /\ writes' \in Seq(Entries)
  <1> DEFINE w == [patched EXCEPT !.revision = wf.revision + 1]
             next == [sess EXCEPT !.wf = w]
  <1>1. /\ w \in Workflows /\ w.status = patched.status /\ w.items = patched.items
        /\ w.approved = patched.approved
    BY DEF Workflows
  <1>2. saveSession(c, next, waiting)
    BY DEF saveWorkflow
  <1> HIDE DEF w
  <1>3. /\ next \in Sessions /\ next.active = sess.active /\ next.last = sess.last
        /\ next.wf = w /\ next.seq = sess.seq
    BY <1>1, SessionFields
  <1> HIDE DEF next
  <1> QED BY <1>1, <1>2, <1>3, SaveEffect
-----------------------------------------------------------------------------
(* Investigations: what each transition makes of the snapshot it is given. *)

LEMMA ElementsOfAppend ==
    ASSUME NEW e \in Seq(Nat), NEW n \in Nat
    PROVE  Append(e, n) \in Seq(Nat) /\ Elements(Append(e, n)) = Elements(e) \cup {n}
  <1>1. /\ Append(e, n) \in Seq(Nat) /\ Len(Append(e, n)) = Len(e) + 1
        /\ \A i \in 1 .. Len(e) : Append(e, n)[i] = e[i]
        /\ Append(e, n)[Len(e) + 1] = n
    BY AppendProperties
  <1>2. /\ Len(e) \in Nat /\ DOMAIN e = 1 .. Len(e)
        /\ DOMAIN Append(e, n) = 1 .. Len(e) + 1
    BY <1>1
  <1>3. Elements(Append(e, n)) \subseteq Elements(e) \cup {n}
    <2> SUFFICES ASSUME NEW i \in 1 .. Len(e) + 1
                 PROVE  Append(e, n)[i] \in Elements(e) \cup {n}
      BY <1>2 DEF Elements
    <2>1. CASE i = Len(e) + 1
      BY <1>1, <2>1
    <2>2. CASE i # Len(e) + 1
      <3>1. i \in 1 .. Len(e)
        BY <1>2, <2>2
      <3> QED BY <1>1, <1>2, <3>1 DEF Elements
    <2> QED BY <2>1, <2>2
  <1>4. Elements(e) \cup {n} \subseteq Elements(Append(e, n))
    <2>1. Len(e) + 1 \in 1 .. Len(e) + 1 /\ \A i \in 1 .. Len(e) : i \in 1 .. Len(e) + 1
      BY <1>2
    <2> QED BY <1>1, <1>2, <2>1 DEF Elements
  <1> QED BY <1>1, <1>3, <1>4

LEMMA SnapshotFields ==
    ASSUME NEW s \in Snapshots
    PROVE  /\ s.status \in Begun /\ s.revision \in Nat /\ s.evidence \in EvidenceLists
           /\ s.observations \in Names /\ s.sources \in Names /\ s.area \in AreaNames
  BY DEF Snapshots

LEMMA EvidencePatch ==
    ASSUME NEW s \in Snapshots, NEW e \in EvidenceLists, NEW t,
           t = [s EXCEPT !.evidence = e]
    PROVE  /\ t \in Snapshots /\ t.status = s.status /\ t.revision = s.revision
           /\ t.evidence = e /\ t.observations = s.observations
  BY DEF Snapshots

LEMMA ObservationPatch ==
    ASSUME NEW s \in Snapshots, NEW o \in Names, NEW t, t = [s EXCEPT !.observations = o]
    PROVE  /\ t \in Snapshots /\ t.status = s.status /\ t.revision = s.revision
           /\ t.evidence = s.evidence /\ t.observations = o
  BY DEF Snapshots

LEMMA AreaPatch ==
    ASSUME NEW s \in Snapshots, NEW a \in AreaNames, NEW t, t = [s EXCEPT !.area = a]
    PROVE  /\ t \in Snapshots /\ t.status = s.status /\ t.revision = s.revision
           /\ t.evidence = s.evidence /\ t.observations = s.observations
  BY DEF Snapshots

LEMMA StatusPatch ==
    ASSUME NEW s \in Snapshots, NEW x \in Begun, NEW t, t = [s EXCEPT !.status = x]
    PROVE  /\ t \in Snapshots /\ t.status = x /\ t.revision = s.revision
           /\ t.evidence = s.evidence /\ t.observations = s.observations
  BY DEF Snapshots

(* A snapshot with everything the older one has, one revision on.          *)
Follows(t, s) ==
    /\ t \in Snapshots /\ t.revision = s.revision + 1
    /\ Elements(s.evidence) \subseteq Elements(t.evidence)
    /\ s.observations \subseteq t.observations

SourcesOK(t) == t.status = "completed_findings" => t.sources = Elements(t.evidence)

LEMMA AdvanceEffect ==
    ASSUME NEW s \in Snapshots
    PROVE  /\ advance(s) \in Snapshots /\ advance(s).status = s.status
           /\ advance(s).revision = s.revision + 1 /\ advance(s).evidence = s.evidence
           /\ advance(s).observations = s.observations
  <1>1. s.revision + 1 \in Nat
    BY SnapshotFields
  <1> QED BY <1>1 DEF advance, Snapshots

LEMMA TransitionEffect ==
    ASSUME NEW k \in HandlerRecords, k.op \in Transitions \ {"start"},
           k.snap \in Snapshots, permitted(k, k.snap),
           k.op = "area" => k.session \in Sessions
    PROVE  /\ Follows(transition(k), k.snap) /\ SourcesOK(transition(k))
           /\ k.op \in Captured => k.n \in Elements(transition(k).evidence)
           /\ k.op = "note" => k.n \in transition(k).observations
  <1> DEFINE s == k.snap
             a == advance(s)
  <1>0. k.n \in Nat
    BY DEF HandlerRecords
  <1>1. /\ a \in Snapshots /\ a.status = s.status /\ a.revision = s.revision + 1
        /\ a.evidence = s.evidence /\ a.observations = s.observations
        /\ a.evidence \in EvidenceLists /\ a.observations \in Names
    BY AdvanceEffect, SnapshotFields
  <1>2. CASE k.op \in Captured
    <2> DEFINE e == Append(a.evidence, k.n)
               t == [a EXCEPT !.evidence = e]
    <2>1. e \in EvidenceLists /\ Elements(e) = Elements(s.evidence) \cup {k.n}
      BY <1>0, <1>1, ElementsOfAppend DEF EvidenceLists
    <2>2. transition(k) = t
      BY <1>2 DEF transition, attachInvestigationEvidence, Captured
    <2>3. s.status = "active"
      BY <1>2 DEF permitted, Captured
    <2> HIDE DEF e, a
    <2>4. /\ t \in Snapshots /\ t.status = "active" /\ t.revision = s.revision + 1
          /\ t.evidence = e /\ t.observations = s.observations
      BY <1>1, <2>1, <2>3, EvidencePatch
    <2> HIDE DEF t
    <2> QED BY <1>2, <2>1, <2>2, <2>4 DEF Follows, SourcesOK, Captured
  <1>3. CASE k.op = "note"
    <2> DEFINE o == a.observations \cup {k.n}
               t == [a EXCEPT !.observations = o]
    <2>1. o \in Names
      BY <1>0, <1>1 DEF Names
    <2>2. transition(k) = t
      BY <1>3 DEF transition, recordInvestigationObservation, Captured
    <2>3. s.status = "active"
      BY <1>3 DEF permitted, Captured
    <2>4. s.observations \subseteq o /\ k.n \in o /\ t = [a EXCEPT !.observations = o]
      BY <1>1
    <2> HIDE DEF a, t, o
    <2>5. /\ t \in Snapshots /\ t.status = "active" /\ t.revision = s.revision + 1
          /\ t.evidence = s.evidence /\ t.observations = o
      BY <1>1, <2>1, <2>3, <2>4, ObservationPatch
    <2> QED BY <1>3, <2>2, <2>4, <2>5 DEF Follows, SourcesOK, Captured
  <1>4. CASE k.op = "area"
    <2> DEFINE ar == nextArea(k.session.area)
               t == [a EXCEPT !.area = ar]
    <2>1. ar \in AreaNames
      BY <1>4, NextAreaExists, SessionFields
    <2>2. transition(k) = t
      BY <1>4 DEF transition, changeInvestigationArea, Captured
    <2>3. s.status = "active"
      BY <1>4 DEF permitted, Captured
    <2> HIDE DEF a, ar
    <2>4. /\ t \in Snapshots /\ t.status = "active" /\ t.revision = s.revision + 1
          /\ t.evidence = s.evidence /\ t.observations = s.observations
      BY <1>1, <2>1, <2>3, AreaPatch
    <2> HIDE DEF t
    <2> QED BY <1>4, <2>2, <2>4 DEF Follows, SourcesOK, Captured
  <1>5. CASE k.op \in {"pause", "resume"}
    <2> DEFINE x == IF k.op = "pause" THEN "paused" ELSE "active"
               t == [a EXCEPT !.status = x]
    <2>1. x \in Begun /\ x # "completed_findings"
      BY DEF WorkflowStates, Begun
    <2>2. transition(k) = t
      BY <1>5 DEF transition, pauseInvestigation, resumeInvestigation, Captured
    <2> HIDE DEF a, x
    <2>3. /\ t \in Snapshots /\ t.status = x /\ t.revision = s.revision + 1
          /\ t.evidence = s.evidence /\ t.observations = s.observations
      BY <1>1, <2>1, StatusPatch
    <2> HIDE DEF t
    <2> QED BY <1>5, <2>1, <2>2, <2>3 DEF Follows, SourcesOK, Captured
  <1>6. CASE k.op = "finish"
    <2> DEFINE x == finishedStatus(k.arg)
               o == IF k.arg = "candidate" THEN Elements(s.evidence) ELSE {}
               t == [a EXCEPT !.status = x, !.sources = o]
    <2>1. x \in Begun
      BY DEF WorkflowStates, Begun, finishedStatus
    <2>2. transition(k) = t
      BY <1>6 DEF transition, completeInvestigation, Captured
    <2>3. x = "completed_findings" => o = Elements(s.evidence)
      BY DEF finishedStatus
    <2>4. o \in Names
      <3>1. s.evidence \in Seq(Nat)
        BY <1>1 DEF EvidenceLists
      <3>2. Elements(s.evidence) \subseteq Nat
        BY <3>1, ElementOfSeq DEF Elements
      <3> QED BY <3>2 DEF Names
    <2>5. t = [a EXCEPT !.status = x, !.sources = o]
      OBVIOUS
    <2> HIDE DEF a, x, o, t
    <2>6. /\ t \in Snapshots /\ t.status = x /\ t.revision = s.revision + 1
          /\ t.evidence = s.evidence /\ t.observations = s.observations /\ t.sources = o
      <3>1. a \in Snapshots
        BY <1>1
      <3>2. /\ t \in Snapshots /\ t.status = x /\ t.revision = a.revision
            /\ t.evidence = a.evidence /\ t.observations = a.observations /\ t.sources = o
        BY <2>1, <2>4, <2>5, <3>1 DEF Snapshots
      <3> QED BY <1>1, <3>2
    <2> QED BY <1>6, <2>2, <2>3, <2>6 DEF Follows, SourcesOK, Captured
  <1> QED BY <1>2, <1>3, <1>4, <1>5, <1>6 DEF Transitions

LEMMA StartEffect ==
    ASSUME NEW area \in AreaNames
    PROVE  startInvestigation(area) \in Snapshots /\ SourcesOK(startInvestigation(area))
  <1>1. "active" \in Begun /\ <<>> \in EvidenceLists /\ {} \in Names
    BY DEF WorkflowStates, Begun, EvidenceLists, Names
  <1> QED BY <1>1 DEF startInvestigation, Snapshots, SourcesOK
(* Review: what a patch of the workflow keeps.                             *)
LEMMA SameApprovals ==
    ASSUME NEW v, NEW w, ApprovalsOK(v), w.items = v.items, w.approved = v.approved
    PROVE  ApprovalsOK(w)
  BY DEF ApprovalsOK

LEMMA StatusOfWorkflow ==
    ASSUME NEW w \in Workflows, NEW x \in WorkflowStates, NEW v, v = [w EXCEPT !.status = x]
    PROVE  /\ v \in Workflows /\ v.status = x /\ v.items = w.items
           /\ v.approved = w.approved
  BY DEF Workflows

LEMMA ReplaceEffect ==
    ASSUME wf \in Workflows, NEW m \in Commissioned, NEW next \in ReviewItems,
           ApprovalsOK(wf), next.status = "accepted" => assertConfirmableVerifier(next)
    PROVE  /\ replaceReviewItem(m, next) \in Workflows
           /\ replaceReviewItem(m, next).status = wf.status
           /\ ApprovalsOK(replaceReviewItem(m, next))
  <1> DEFINE v == replaceReviewItem(m, next)
  <1>1. wf.items \in [Commissioned -> ReviewItems] /\ wf.approved \subseteq Commissioned
    BY DEF Workflows
  <1>2. [wf.items EXCEPT ![m] = next] \in [Commissioned -> ReviewItems]
    BY <1>1
  <1>3. {} \in Manifests
    BY DEF Manifests
  <1>4. /\ v \in Workflows /\ v.status = wf.status
        /\ v.items = [wf.items EXCEPT ![m] = next] /\ v.approved = wf.approved \ {m}
    BY <1>1, <1>2, <1>3 DEF replaceReviewItem, Workflows, NoManifest
  <1> HIDE DEF v
  <1>5. ASSUME NEW d \in Commissioned
        PROVE  /\ d \in v.approved => v.items[d].status = "accepted"
               /\ v.items[d].status = "accepted" => assertConfirmableVerifier(v.items[d])
    BY <1>1, <1>4 DEF ApprovalsOK
  <1>6. ApprovalsOK(v)
    BY <1>5 DEF ApprovalsOK
  <1> QED BY <1>4, <1>6 DEF v

LEMMA ApproveEffect ==
    ASSUME wf \in Workflows, NEW m \in Commissioned, ApprovalsOK(wf), reviewComplete(m),
           NEW v, v = [wf EXCEPT !.approved = @ \cup {m}, !.delivery = "waiting_for_approval",
                                 !.manifest = NoManifest]
    PROVE  v \in Workflows /\ v.status = wf.status /\ ApprovalsOK(v)
  <1>1. {} \in Manifests
    BY DEF Manifests
  <1>2. /\ v \in Workflows /\ v.status = wf.status
        /\ v.items = wf.items /\ v.approved = wf.approved \cup {m}
    BY <1>1 DEF Workflows, NoManifest
  <1> QED BY <1>2 DEF ApprovalsOK, reviewComplete

LEMMA ConfirmEffect ==
    ASSUME wf \in Workflows, NEW manifest \in Manifests,
           NEW d \in {"waiting_for_evidence", "waiting_for_approval", "queued"},
           NEW v, v = [wf EXCEPT !.manifest = manifest, !.delivery = d]
    PROVE  /\ v \in Workflows /\ v.status = wf.status
           /\ v.items = wf.items /\ v.approved = wf.approved
  BY DEF Workflows

LEMMA ReviewItemFields ==
    ASSUME NEW x \in ReviewItems
    PROVE  /\ x.version \in Nat
           /\ \A st \in {"accepted", "rejected"} : LET y == [x EXCEPT !.status = st] IN
                 /\ y \in ReviewItems /\ y.status = st
                 /\ assertConfirmableVerifier(y) <=> assertConfirmableVerifier(x)
           /\ LET y == [x EXCEPT !.passed = x.version] IN
                 y \in ReviewItems /\ y.status = x.status
           /\ \A p \in {"reverify_ai", "convert_to_human"}, v \in Nat :
                 /\ editReviewItem(x, p, v) \in ReviewItems
                 /\ editReviewItem(x, p, v).status = "awaiting_decision"
  BY DEF ReviewItems, assertConfirmableVerifier, editReviewItem

(* A handler moves on; the others stay where they are.                     *)
LEMMA HandlerAt ==
    ASSUME FieldTypeOK, NEW c \in Handlers, NEW y \in HandlerRecords,
           doing' = [doing EXCEPT ![c] = y]
    PROVE  /\ doing' \in [Handlers -> HandlerRecords] /\ doing'[c] = y
           /\ \A d \in Handlers \ {c} : doing'[d] = doing[d]
  BY DEF FieldTypeOK

LEMMA GoesEffect ==
    ASSUME FieldTypeOK, NEW c \in Handlers, NEW pc \in HandlerPcs, Goes(c, pc)
    PROVE  /\ doing' \in [Handlers -> HandlerRecords]
           /\ \A d \in Handlers \ {c} : doing'[d] = doing[d]
           /\ doing'[c].pc = pc /\ doing'[c].op = doing[c].op
           /\ doing'[c].arg = doing[c].arg /\ doing'[c].n = doing[c].n
  <1> DEFINE k == doing[c]
             y == [Idle EXCEPT !.op = k.op, !.arg = k.arg, !.n = k.n, !.pc = pc]
  <1>1. k \in HandlerRecords
    BY DEF FieldTypeOK
  <1>2. doing' = [doing EXCEPT ![c] = y]
    BY DEF Goes
  <1> HIDE DEF k
  <1>3. k.op \in Ops /\ k.arg \in Args /\ k.n \in Nat
    BY <1>1 DEF HandlerRecords
  <1>4. y \in HandlerRecords /\ y.pc = pc /\ y.op = k.op /\ y.arg = k.arg /\ y.n = k.n
    BY <1>3, IdleFacts DEF HandlerRecords
  <1> HIDE DEF y
  <1> QED BY <1>2, <1>4, HandlerAt DEF k

LEMMA EndsEffect ==
    ASSUME FieldTypeOK, NEW c \in Handlers, Ends(c)
    PROVE  /\ doing' \in [Handlers -> HandlerRecords] /\ doing'[c] = Idle
           /\ \A d \in Handlers \ {c} : doing'[d] = doing[d]
  BY IdleFacts, HandlerAt DEF Ends

LEMMA HandlerFields ==
    ASSUME NEW op \in Ops, NEW arg \in Args, NEW pc \in HandlerPcs, NEW n \in Nat,
           NEW i \in Identities, NEW y, y = Handler(op, arg, pc, n, i)
    PROVE  /\ y \in HandlerRecords /\ y.op = op /\ y.arg = arg /\ y.pc = pc /\ y.n = n
           /\ y.inv = i
           /\ \A s \in Sessions : LET z == [y EXCEPT !.session = s] IN
                 /\ z \in HandlerRecords /\ z.op = op /\ z.arg = arg /\ z.pc = pc
                 /\ z.inv = i /\ z.session = s
           /\ \A x \in ReviewItems \cup Manifests : LET z == [y EXCEPT !.item = x] IN
                 /\ z \in HandlerRecords /\ z.op = op /\ z.arg = arg /\ z.pc = pc
                 /\ z.item = x
  BY IdleFacts DEF Handler, HandlerRecords
-----------------------------------------------------------------------------
(* What a step of handler c does, other than a write of the queue: it may  *)
(* put a session on screen and in the queue, replace one snapshot, use its *)
(* sequence number and report a link.                                      *)
Pushes(c, waiting) ==
    /\ sess' \in Sessions /\ SessionOK(sess)'
    /\ Points(sess) => Points(sess)'
    /\ sess.seq <= sess'.seq
    /\ writes' = Append(waiting, [by |-> c, session |-> sess'])
    /\ doing'[c].pc \in Writing
    /\ doing'[c].pc = "pointing" /\ doing'[c].op # "area" => Points(sess)'
    /\ doing'[c].pc = "reserving" => doing'[c].n < sess'.seq

Quiet == UNCHANGED <<sess, writes>>

Replaces(i, t) ==
    /\ inv' = [inv EXCEPT ![i] = t]
    /\ t \in Snapshots /\ SourcesOK(t)
    /\ inv[i] # None => Follows(t, inv[i])

InvStep == inv' = inv \/ \E i \in 1 .. MaxPresses, t \in Snapshots : Replaces(i, t)

TakenStep(c) ==
    \/ /\ taken' = taken
       /\ Reserved(c)' => \/ Reserved(c) /\ doing'[c].n = doing[c].n
                          \/ doing'[c].n = sess.seq
    \/ /\ taken' = Append(taken, doing[c].n)
       /\ doing[c].pc = "capturing" /\ ~Reserved(c)'

LinkStep ==
    \/ linked' = linked
    \/ \E l \in [inv : 1 .. MaxPresses, n : Nat, note : BOOLEAN] :
          linked' = linked \cup {l} /\ LinkKept(l)'

HandlerStep(c) ==
    /\ doing[c].pc \notin Writing
    /\ doing' \in [Handlers -> HandlerRecords]
    /\ \A d \in Handlers \ {c} : doing'[d] = doing[d]
    /\ HandlerOK(doing[c])'
    /\ UNCHANGED <<stored, wf, saved>>
    /\ app' = "running" /\ presses' \in Identities /\ mishaps' \in Nat
    /\ Quiet \/ Pushes(c, writes)
    /\ InvStep /\ TakenStep(c) /\ LinkStep

(* The queue grows at its end.                                             *)
LEMMA AppendEntry ==
    ASSUME NEW w \in Seq(Entries), NEW e \in Entries, NEW q, q = Append(w, e)
    PROVE  /\ q \in Seq(Entries)
           /\ \A i \in DOMAIN q :
                 \/ i \in DOMAIN w /\ q[i] = w[i]
                 \/ i = Len(w) + 1 /\ q[i] = e
           /\ \A i, j \in DOMAIN q : i < j => i \in DOMAIN w
  <1>1. /\ q \in Seq(Entries) /\ Len(q) = Len(w) + 1
        /\ \A i \in 1 .. Len(w) : q[i] = w[i]
        /\ q[Len(w) + 1] = e
    BY AppendProperties
  <1>2. /\ Len(w) \in Nat /\ DOMAIN w = 1 .. Len(w)
        /\ DOMAIN q = 1 .. Len(w) + 1
    BY <1>1
  <1>3. ASSUME NEW i \in DOMAIN q
        PROVE  \/ i \in DOMAIN w /\ q[i] = w[i]
               \/ i = Len(w) + 1 /\ q[i] = e
    <2>1. CASE i \in 1 .. Len(w)
      BY <1>1, <1>2, <2>1
    <2>2. CASE i = Len(w) + 1
      BY <1>1, <2>2
    <2> QED BY <1>2, <2>1, <2>2
  <1>4. ASSUME NEW i \in DOMAIN q, NEW j \in DOMAIN q, i < j
        PROVE  i \in DOMAIN w
    BY <1>2, <1>4
  <1> QED BY <1>1, <1>3, <1>4

LEMMA EntryKept ==
    ASSUME NEW e \in Entries, EntryOK(e),
           stored'.seq <= e.session.seq, doing'[e.by] = doing[e.by],
           Points(sess) => Points(sess)', sess \in Sessions, sess' \in Sessions,
           sess.seq <= sess'.seq
    PROVE  EntryOK(e)'
  <1>1. /\ sess.seq \in Nat /\ sess'.seq \in Nat /\ e.session.seq \in Nat
    BY SessionFields DEF Entries
  <1>2. SessionOK(e.session)'
    BY DEF EntryOK, SessionOK, ApprovalsOK, Points, Pointed, assertConfirmableVerifier
  <1>3. e.session.seq <= sess'.seq
    BY <1>1 DEF EntryOK
  <1> QED BY <1>2, <1>3 DEF EntryOK, Points, Pointed

LEMMA QueueGrows ==
    ASSUME FieldInv, NEW c \in Handlers, NEW waiting \in Seq(Entries),
           \A i \in DOMAIN waiting :
              /\ EntryOK(waiting[i]) /\ waiting[i].by # c
              /\ stored'.seq <= waiting[i].session.seq,
           \A i, j \in DOMAIN waiting : i < j =>
              /\ waiting[i].by # waiting[j].by
              /\ waiting[i].session.seq <= waiting[j].session.seq,
           \A d \in Handlers \ {c} : doing'[d] = doing[d],
           stored' \in Sessions, stored'.seq <= sess.seq, Pushes(c, waiting)
    PROVE  QueueOK' /\ writes' \in Seq(Entries)
  <1>0. PICK e \in Entries : e = [by |-> c, session |-> sess']
    BY DEF Pushes, Entries
  <1>1. e.by = c /\ e.session = sess'
    BY <1>0
  <1>2. sess \in Sessions /\ sess' \in Sessions
    BY DEF FieldInv, FieldTypeOK, Pushes
  <1>3. /\ writes' \in Seq(Entries)
        /\ \A i \in DOMAIN writes' :
              \/ i \in DOMAIN waiting /\ writes'[i] = waiting[i]
              \/ i = Len(waiting) + 1 /\ writes'[i] = e
        /\ \A i, j \in DOMAIN writes' : i < j => i \in DOMAIN waiting
    <2>1. writes' = Append(waiting, e)
      BY <1>0 DEF Pushes
    <2> QED BY <2>1, AppendEntry
  <1>4. ASSUME NEW i \in DOMAIN waiting PROVE waiting[i] \in Entries
    BY <1>4, ElementOfSeq
  <1>5. ASSUME NEW i \in DOMAIN waiting PROVE EntryOK(waiting[i])'
    <2>1. /\ EntryOK(waiting[i]) /\ waiting[i].by # c /\ waiting[i].by \in Handlers
          /\ stored'.seq <= waiting[i].session.seq
      BY <1>4 DEF Entries
    <2> QED BY <1>2, <1>4, <2>1, EntryKept DEF Pushes
  <1>6. EntryOK(e)'
    <2>1. stored'.seq \in Nat /\ sess.seq \in Nat /\ sess'.seq \in Nat
      BY <1>2, SessionFields
    <2>2. stored'.seq <= sess'.seq /\ sess'.seq <= sess'.seq
      BY <2>1 DEF Pushes
    <2>3. SessionOK(e.session)' /\ (Points(e.session) <=> Points(sess))'
      BY <1>1 DEF Pushes
    <2> QED BY <1>1, <2>2, <2>3 DEF EntryOK, Pushes
  <1>7. ASSUME NEW i \in DOMAIN writes' PROVE EntryOK(writes[i])'
    BY <1>3, <1>5, <1>6, <1>7
  <1>8. ASSUME NEW i \in DOMAIN writes', NEW j \in DOMAIN writes', i < j
        PROVE  /\ writes'[i].by # writes'[j].by
               /\ writes'[i].session.seq <= writes'[j].session.seq
    <2>1. i \in DOMAIN waiting /\ writes'[i] = waiting[i]
      BY <1>3, <1>8
    <2>2. CASE j \in DOMAIN waiting /\ writes'[j] = waiting[j]
      BY <1>8, <2>1, <2>2
    <2>3. CASE writes'[j] = e
      <3>1. /\ waiting[i].by # c /\ waiting[i].session.seq <= sess.seq
            /\ waiting[i].session.seq \in Nat
        BY <1>4, <2>1, SessionFields DEF EntryOK, Entries
      <3>2. sess.seq \in Nat /\ sess'.seq \in Nat /\ sess.seq <= sess'.seq
        BY <1>2, SessionFields DEF Pushes
      <3> QED BY <1>1, <2>1, <2>3, <3>1, <3>2
    <2> QED BY <1>3, <2>2, <2>3
  <1> QED BY <1>3, <1>7, <1>8 DEF QueueOK
(* The other handlers: what they know is not disturbed.                    *)
LEMMA InvStepKeeps ==
    ASSUME FieldInv, InvStep, NEW i \in 1 .. MaxPresses
    PROVE  /\ inv' \in [1 .. MaxPresses -> Snapshots \cup {None}]
           /\ \/ inv'[i] = inv[i]
              \/ inv'[i] \in Snapshots /\ SourcesOK(inv'[i]) /\ inv[i] = None
              \/ /\ inv'[i] \in Snapshots /\ SourcesOK(inv'[i]) /\ inv[i] \in Snapshots
                 /\ Follows(inv'[i], inv[i])
  <1>1. inv \in [1 .. MaxPresses -> Snapshots \cup {None}]
    BY DEF FieldInv, FieldTypeOK
  <1>2. CASE inv' = inv
    BY <1>1, <1>2
  <1>3. CASE \E j \in 1 .. MaxPresses, t \in Snapshots : Replaces(j, t)
    BY <1>1, <1>3 DEF Replaces
  <1> QED BY <1>2, <1>3 DEF InvStep

LEMMA CheckedKept ==
    ASSUME FieldInv, InvStep, NEW k \in HandlerRecords, k.inv # 0, Checked(k)
    PROVE  Checked(k)'
  <1>1. k.inv \in 1 .. MaxPresses
    BY FieldAssumption DEF HandlerRecords, Identities
  <1>2. inv[k.inv] \in Snapshots /\ k.snap \in Snapshots
    BY DEF Checked
  <1>3. CASE inv'[k.inv] = inv[k.inv]
    BY <1>3 DEF Checked, permitted
  <1>4. CASE /\ inv'[k.inv] \in Snapshots /\ Follows(inv'[k.inv], inv[k.inv])
    <2>1. /\ k.snap.revision \in Nat /\ inv[k.inv].revision \in Nat
          /\ inv'[k.inv].revision = inv[k.inv].revision + 1
          /\ k.snap.revision <= inv[k.inv].revision
      BY <1>2, <1>4, SnapshotFields DEF Follows, Checked
    <2>2. k.snap.revision <= inv'[k.inv].revision /\ k.snap.revision # inv'[k.inv].revision
      BY <2>1
    <2> QED BY <1>2, <1>4, <2>2 DEF Checked, permitted
  <1> QED BY <1>1, <1>2, <1>3, <1>4, InvStepKeeps, SnapshotFacts

LEMMA OtherHandler ==
    ASSUME FieldInv, NEW d \in Handlers, doing'[d] = doing[d], InvStep,
           sess' \in Sessions, sess.seq <= sess'.seq, stored' \in Sessions,
           stored.seq <= stored'.seq, Points(sess) => Points(sess)'
    PROVE  HandlerOK(doing[d])'
  <1> DEFINE k == doing[d]
  <1>0. sess \in Sessions /\ stored \in Sessions
    BY DEF FieldInv, FieldTypeOK
  <1>1. HandlerOK(k) /\ k \in HandlerRecords /\ k.n \in Nat
    BY DEF FieldInv, FieldTypeOK, HandlerRecords
  <1>2. /\ sess.seq \in Nat /\ sess'.seq \in Nat /\ stored.seq \in Nat /\ stored'.seq \in Nat
    BY <1>0, SessionFields
  <1>3. /\ k.n < sess.seq => k.n < sess'.seq
        /\ k.n < stored.seq => k.n < stored'.seq
    BY <1>1, <1>2
  <1>4. PICK x : x = k
    OBVIOUS
  <1>5. doing[d] = x /\ doing'[d] = x
    BY <1>4
  <1>6. HandlerOK(x) /\ x \in HandlerRecords
    BY <1>1, <1>4
  <1>7. x.pc = "saving" /\ x.op # "start" => Checked(x)'
    BY <1>6, CheckedKept DEF HandlerOK
  <1>8. HandlerOK(x)'
    BY <1>3, <1>4, <1>6, <1>7
    DEF HandlerOK, ApprovalsOK, assertConfirmableVerifier, Points, Pointed
  <1> QED BY <1>5, <1>8

LEMMA SequencesKept ==
    ASSUME FieldInv, NEW c \in Handlers, HandlerStep(c)
    PROVE  SequencesOK' /\ taken' \in Seq(Nat)
  <1>1. /\ doing \in [Handlers -> HandlerRecords] /\ doing' \in [Handlers -> HandlerRecords]
        /\ stored' = stored /\ stored.seq \in Nat /\ sess.seq \in Nat
        /\ stored.seq <= sess.seq /\ taken \in Seq(Nat)
    BY SessionFields DEF FieldInv, FieldTypeOK, SessionsOK, HandlerStep
  <1>2. ASSUME NEW d \in Handlers PROVE doing[d].n \in Nat /\ doing'[d].n \in Nat
    BY <1>1, <1>2 DEF HandlerRecords
  <1>3. ASSUME NEW d \in Handlers, Reserved(d) PROVE doing[d].n < sess.seq
    BY <1>1, <1>2, <1>3 DEF FieldInv, HandlerOK, Reserved
  <1>4. ASSUME NEW d \in Handlers \ {c}
        PROVE  (Reserved(d)' <=> Reserved(d)) /\ doing'[d].n = doing[d].n
    BY <1>4 DEF HandlerStep, Reserved
  <1>5. /\ \A i \in DOMAIN taken : taken[i] \in Nat /\ taken[i] < stored.seq
        /\ \A i \in DOMAIN taken, d \in Handlers : Reserved(d) => doing[d].n # taken[i]
        /\ \A d, e \in Handlers : Reserved(d) /\ Reserved(e) /\ d # e => doing[d].n # doing[e].n
        /\ \A i, j \in DOMAIN taken : taken[i] = taken[j] => i = j
    BY <1>1, ElementOfSeq DEF FieldInv, SequencesOK, SequencesAreUnique
  <1>6. CASE /\ taken' = taken
             /\ Reserved(c)' => \/ Reserved(c) /\ doing'[c].n = doing[c].n
                                \/ doing'[c].n = sess.seq
    <2>1. ASSUME NEW i \in DOMAIN taken, NEW d \in Handlers, Reserved(d)'
          PROVE  doing'[d].n # taken[i]
      <3>1. taken[i] < sess.seq
        BY <1>1, <1>5
      <3> QED BY <1>1, <1>4, <1>5, <1>6, <2>1, <3>1
    <2>2. ASSUME NEW d \in Handlers, NEW e \in Handlers, Reserved(d)', Reserved(e)', d # e
          PROVE  doing'[d].n # doing'[e].n
      <3>1. CASE d = c
        <4>1. Reserved(e) /\ doing'[e].n = doing[e].n /\ doing[e].n < sess.seq
          BY <1>3, <1>4, <2>2, <3>1
        <4> QED BY <1>1, <1>2, <1>5, <1>6, <2>2, <3>1, <4>1
      <3>2. CASE e = c
        <4>1. Reserved(d) /\ doing'[d].n = doing[d].n /\ doing[d].n < sess.seq
          BY <1>3, <1>4, <2>2, <3>2
        <4> QED BY <1>1, <1>2, <1>5, <1>6, <2>2, <3>2, <4>1
      <3> QED BY <1>4, <1>5, <2>2, <3>1, <3>2
    <2> QED BY <1>1, <1>5, <1>6, <2>1, <2>2 DEF SequencesOK, SequencesAreUnique
  <1>7. CASE /\ taken' = Append(taken, doing[c].n)
             /\ doing[c].pc = "capturing" /\ ~Reserved(c)'
    <2> DEFINE n == doing[c].n
    <2>1. n \in Nat /\ n < stored.seq /\ Reserved(c)
      BY <1>2, <1>7 DEF FieldInv, HandlerOK, Reserved
    <2>2. /\ taken' \in Seq(Nat)
          /\ \A i \in DOMAIN taken' : \/ i \in DOMAIN taken /\ taken'[i] = taken[i]
                                      \/ i = Len(taken) + 1 /\ taken'[i] = n
      <3>1. /\ taken' \in Seq(Nat) /\ Len(taken') = Len(taken) + 1
            /\ \A i \in 1 .. Len(taken) : taken'[i] = taken[i]
            /\ taken'[Len(taken) + 1] = n
        BY <1>1, <1>7, <2>1, AppendProperties
      <3>2. /\ Len(taken) \in Nat /\ DOMAIN taken = 1 .. Len(taken)
            /\ DOMAIN taken' = 1 .. Len(taken) + 1
        BY <1>1, <3>1
      <3> QED BY <3>1, <3>2
    <2>3. ASSUME NEW i \in DOMAIN taken', NEW d \in Handlers, Reserved(d)'
          PROVE  doing'[d].n # taken'[i]
      <3>1. d # c /\ Reserved(d) /\ doing'[d].n = doing[d].n
        BY <1>4, <1>7, <2>3
      <3> QED BY <1>5, <2>1, <2>2, <3>1
    <2>4. ASSUME NEW i \in DOMAIN taken', NEW j \in DOMAIN taken', taken'[i] = taken'[j]
          PROVE  i = j
      BY <1>5, <2>1, <2>2, <2>4
    <2>5. ASSUME NEW i \in DOMAIN taken' PROVE taken'[i] < stored.seq
      BY <1>5, <2>1, <2>2, <2>5
    <2>6. ASSUME NEW d \in Handlers, NEW e \in Handlers, Reserved(d)', Reserved(e)', d # e
          PROVE  doing'[d].n # doing'[e].n
      BY <1>4, <1>5, <1>7, <2>6
    <2> HIDE DEF n
    <2> QED BY <1>1, <2>2, <2>3, <2>4, <2>5, <2>6 DEF SequencesOK, SequencesAreUnique
  <1> QED BY <1>6, <1>7 DEF HandlerStep, TakenStep

LEMMA LinksKept ==
    ASSUME FieldInv, InvStep, LinkStep
    PROVE  LinksOK' /\ linked' \subseteq [inv : 1 .. MaxPresses, n : Nat, note : BOOLEAN]
  <1> DEFINE Links2 == [inv : 1 .. MaxPresses, n : Nat, note : BOOLEAN]
  <1>1. ASSUME NEW l \in Links2, LinkKept(l) PROVE LinkKept(l)'
    <2>1. l.inv \in 1 .. MaxPresses
      OBVIOUS
    <2>2. inv[l.inv] # None
      BY <1>1 DEF LinkKept
    <2>3. CASE inv'[l.inv] = inv[l.inv]
      BY <1>1, <2>3 DEF LinkKept
    <2>4. CASE inv'[l.inv] \in Snapshots /\ Follows(inv'[l.inv], inv[l.inv])
      BY <1>1, <2>4, SnapshotFacts DEF LinkKept, Follows
    <2> QED BY <2>1, <2>2, <2>3, <2>4, InvStepKeeps
  <1>2. ASSUME NEW l \in linked' PROVE LinkKept(l)' /\ l \in Links2
    BY <1>1, <1>2 DEF LinkStep, FieldInv, LinksOK, FieldTypeOK
  <1>3. ASSUME NEW i \in 1 .. MaxPresses, inv'[i].status = "completed_findings"
        PROVE  inv'[i].sources = Elements(inv'[i].evidence)
    BY <1>3, InvStepKeeps DEF FieldInv, LinksOK, SourcesOK
  <1> QED BY <1>2, <1>3 DEF LinksOK

LEMMA HandlerStepPreserves ==
    ASSUME FieldInv, NEW c \in Handlers, HandlerStep(c)
    PROVE  FieldInv'
  <1>1. /\ sess \in Sessions /\ sess' \in Sessions /\ stored' = stored /\ stored \in Sessions
        /\ sess.seq <= sess'.seq /\ stored.seq <= stored'.seq
        /\ Points(sess) => Points(sess)'
        /\ writes \in Seq(Entries)
    <2>1. sess \in Sessions /\ stored \in Sessions /\ stored' = stored /\ writes \in Seq(Entries)
      BY DEF FieldInv, FieldTypeOK, HandlerStep
    <2>2. sess.seq \in Nat /\ stored.seq \in Nat
      BY <2>1, SessionFields
    <2>3. CASE Quiet
      BY <2>1, <2>2, <2>3 DEF Quiet, Points, Pointed
    <2>4. CASE Pushes(c, writes)
      BY <2>1, <2>2, <2>4 DEF Pushes
    <2> QED BY <2>3, <2>4 DEF HandlerStep
  <1>2. \A i \in DOMAIN writes :
           /\ EntryOK(writes[i]) /\ writes[i].by # c
           /\ stored'.seq <= writes[i].session.seq
    BY DEF FieldInv, QueueOK, EntryOK, HandlerStep
  <1>3. QueueOK' /\ writes' \in Seq(Entries)
    <2>1. CASE Pushes(c, writes)
      <3>1. \A i, j \in DOMAIN writes : i < j =>
               /\ writes[i].by # writes[j].by
               /\ writes[i].session.seq <= writes[j].session.seq
        BY DEF FieldInv, QueueOK
      <3>2. stored'.seq <= sess.seq
        BY <1>1 DEF FieldInv, SessionsOK
      <3> QED BY <1>1, <1>2, <2>1, <3>1, <3>2, QueueGrows DEF HandlerStep
    <2>2. CASE Quiet
      <3>1. ASSUME NEW i \in DOMAIN writes PROVE EntryOK(writes[i])'
        <4>1. /\ writes[i] \in Entries /\ writes[i].by # c /\ EntryOK(writes[i])
              /\ stored'.seq <= writes[i].session.seq
          BY <1>1, <1>2, <3>1, ElementOfSeq
        <4>2. doing'[writes[i].by] = doing[writes[i].by]
          BY <4>1 DEF HandlerStep, Entries
        <4>3. PICK e \in Entries : e = writes[i]
          BY <4>1
        <4>4. EntryOK(e)'
          BY <1>1, <4>1, <4>2, <4>3, EntryKept
        <4> QED BY <2>2, <4>3, <4>4 DEF Quiet
      <3> QED BY <1>1, <2>2, <3>1 DEF QueueOK, Quiet, FieldInv
    <2> QED BY <2>1, <2>2 DEF HandlerStep
  <1>4. SequencesOK' /\ taken' \in Seq(Nat)
    BY SequencesKept
  <1>5. LinksOK' /\ linked' \subseteq [inv : 1 .. MaxPresses, n : Nat, note : BOOLEAN]
    BY LinksKept DEF HandlerStep
  <1>6. inv' \in [1 .. MaxPresses -> Snapshots \cup {None}]
    BY InvStepKeeps DEF HandlerStep, InvStep, FieldInv, FieldTypeOK, Replaces
  <1>7. FieldTypeOK'
    BY <1>1, <1>3, <1>4, <1>5, <1>6 DEF FieldInv, FieldTypeOK, HandlerStep
  <1>8. SessionsOK'
    <2>1. SessionOK(sess)'
      BY DEF HandlerStep, Quiet, Pushes, FieldInv, SessionsOK, SessionOK, ApprovalsOK,
             Points, Pointed, assertConfirmableVerifier
    <2>2. stored'.seq <= sess'.seq
      <3>1. stored.seq \in Nat /\ sess.seq \in Nat /\ sess'.seq \in Nat
        BY <1>1, SessionFields
      <3> QED BY <1>1, <3>1 DEF FieldInv, SessionsOK
    <2>3. SessionOK(stored)' /\ ApprovalsOK(wf)'
      BY <1>1 DEF HandlerStep, FieldInv, SessionsOK, SessionOK, ApprovalsOK, Points, Pointed,
                  assertConfirmableVerifier
    <2> QED BY <1>1, <2>1, <2>2, <2>3 DEF HandlerStep, FieldInv, SessionsOK
  <1>9. ASSUME NEW d \in Handlers PROVE HandlerOK(doing[d])'
    <2>1. CASE d = c
      BY <2>1 DEF HandlerStep
    <2>2. CASE d # c
      BY <1>1, <1>9, <2>2, OtherHandler DEF HandlerStep
    <2> QED BY <2>1, <2>2
  <1>10. RestOK' /\ ReportedIsDurable'
    BY DEF HandlerStep, FieldInv, RestOK, NoGhostInvestigation, ReportedIsDurable
  <1> QED BY <1>3, <1>4, <1>5, <1>7, <1>8, <1>9, <1>10 DEF FieldInv
-----------------------------------------------------------------------------
(* The parts the handlers' steps are made of.                              *)
LEMMA PressEffect ==
    ASSUME FieldInv, NEW c \in Handlers, Pressed(c)
    PROVE  /\ app' = "running" /\ presses' \in Identities /\ presses' = presses + 1
           /\ presses + 1 \in 1 .. MaxPresses /\ presses \in Nat
           /\ doing[c] = Idle /\ doing[c].pc = "idle" /\ ~Reserved(c)
           /\ doing[c].pc \notin Writing
  <1>1. presses \in 0 .. MaxPresses /\ MaxPresses \in Nat
    BY FieldAssumption DEF FieldInv, FieldTypeOK, Identities
  <1>2. /\ presses' = presses + 1 /\ presses < MaxPresses /\ doing[c] = Idle
        /\ app' = "running"
    BY DEF Pressed
  <1>3. presses + 1 \in 1 .. MaxPresses /\ presses + 1 \in 0 .. MaxPresses
    BY <1>1, <1>2
  <1> QED BY <1>1, <1>2, <1>3, IdleFacts DEF Reserved, Identities, Writing

LEMMA RunningEffect ==
    ASSUME FieldInv, NEW c \in Handlers, doing[c].pc # "idle"
    PROVE  app = "running" /\ doing[c] \in HandlerRecords /\ HandlerOK(doing[c])
  BY IdleFacts DEF FieldInv, RestOK, FieldTypeOK

LEMMA SavePushes ==
    ASSUME FieldInv, NEW c \in Handlers, NEW next \in Sessions, NEW waiting \in Seq(Entries),
           saveSession(c, next, waiting), SessionOK(next),
           Points(sess) => Points(next),
           doing'[c].pc \in Writing,
           doing'[c].pc = "pointing" /\ doing'[c].op # "area" => Points(next),
           doing'[c].pc = "reserving" => doing'[c].n < next.seq /\ doing'[c].n \in Nat
    PROVE  Pushes(c, waiting)
  <1>1. sess \in Sessions
    BY DEF FieldInv, FieldTypeOK
  <1>2. /\ sess' \in Sessions
        /\ sess'.active = next.active /\ sess'.last = next.last /\ sess'.wf = next.wf
        /\ sess.seq <= sess'.seq /\ next.seq <= sess'.seq
        /\ writes' = Append(waiting, [by |-> c, session |-> sess'])
    BY <1>1, SaveEffect
  <1>3. next.seq \in Nat /\ sess'.seq \in Nat
    BY <1>2, SessionFields
  <1>4. SessionOK(sess)' /\ (Points(sess)' <=> Points(next))
    BY <1>2 DEF SessionOK, ApprovalsOK, Points, Pointed, assertConfirmableVerifier
  <1>5. doing'[c].pc = "reserving" => doing'[c].n < sess'.seq
    BY <1>2, <1>3
  <1> QED BY <1>2, <1>4, <1>5 DEF Pushes

LEMMA WorkflowPushes ==
    ASSUME FieldInv, NEW c \in Handlers, NEW patched \in Workflows,
           NEW waiting \in Seq(Entries), saveWorkflow(c, patched, waiting),
           ApprovalsOK(patched), patched.status # "none" => Points(sess),
           doing'[c].pc = "closing"
    PROVE  Pushes(c, waiting)
  <1>1. sess \in Sessions /\ wf \in Workflows
    BY DEF FieldInv, FieldTypeOK
  <1>2. /\ sess' \in Sessions
        /\ sess'.active = sess.active /\ sess'.last = sess.last
        /\ sess'.wf.status = patched.status /\ sess'.wf.items = patched.items
        /\ sess'.wf.approved = patched.approved
        /\ sess.seq <= sess'.seq
        /\ writes' = Append(waiting, [by |-> c, session |-> sess'])
    BY <1>1, WorkflowEffect
  <1>3. Points(sess)' <=> Points(sess)
    BY <1>2 DEF Points, Pointed
  <1>4. SessionOK(sess)'
    BY <1>2, <1>3 DEF SessionOK, ApprovalsOK, assertConfirmableVerifier
  <1> QED BY <1>2, <1>3, <1>4 DEF Pushes, Writing

(* The decisions of the review.                                            *)
LEMMA DecidesStep ==
    ASSUME FieldInv, NEW c \in Handlers, NEW op \in Decisions, NEW patched \in Workflows,
           ApprovalsOK(patched), patched.status = wf.status, Decides(c, op, patched)
    PROVE  HandlerStep(c)
  <1> DEFINE y == Handler(op, "none", "closing", 0, 0)
  <1>1. op \in Ops /\ "none" \in Args /\ "closing" \in HandlerPcs /\ 0 \in Nat /\ 0 \in Identities
    BY FieldAssumption DEF Ops, Args, HandlerPcs, Identities
  <1>2. y \in HandlerRecords /\ y.op = op /\ y.pc = "closing"
    BY <1>1, HandlerFields
  <1>3. doing' = [doing EXCEPT ![c] = y]
    BY DEF Decides, Begins
  <1> HIDE DEF y
  <1>4. /\ doing' \in [Handlers -> HandlerRecords] /\ doing'[c] = y
        /\ \A d \in Handlers \ {c} : doing'[d] = doing[d]
    BY <1>2, <1>3, HandlerAt DEF FieldInv
  <1>5. HandlerOK(doing[c])'
    BY <1>2, <1>4 DEF HandlerOK, Decisions
  <1>6. Pushes(c, writes)
    BY <1>2, <1>4, WorkflowPushes DEF Decides, FieldInv, FieldTypeOK, SessionsOK
  <1>7. InvStep /\ TakenStep(c) /\ LinkStep
    BY <1>2, <1>4 DEF Decides, InvStep, TakenStep, LinkStep, Reserved
  <1>8. mishaps' \in Nat /\ UNCHANGED <<stored, wf, saved>>
    BY DEF Decides, FieldInv, FieldTypeOK
  <1> QED BY <1>4, <1>5, <1>6, <1>7, <1>8, PressEffect DEF Decides, HandlerStep

LEMMA AcceptStep ==
    ASSUME FieldInv, NEW c \in Handlers, NEW m \in Commissioned,
           acceptReview(c, m) \/ rejectReview(c, m) \/ reverifyReview(c, m)
    PROVE  HandlerStep(c)
  <1> DEFINE x == wf.items[m]
  <1>1. x \in ReviewItems /\ wf \in Workflows /\ ApprovalsOK(wf)
    BY DEF FieldInv, FieldTypeOK, Workflows, SessionsOK
  <1>2. PICK y \in ReviewItems, op \in {"accept", "reject", "reverify"} :
           /\ y.status = "accepted" => assertConfirmableVerifier(y)
           /\ Decides(c, op, replaceReviewItem(m, y))
    <2>1. CASE acceptReview(c, m)
      <3> DEFINE y == [x EXCEPT !.status = "accepted"]
      <3>1. assertConfirmableVerifier(x)
        BY <2>1 DEF acceptReview, reviewActions
      <3>2. y \in ReviewItems /\ (assertConfirmableVerifier(y) <=> assertConfirmableVerifier(x))
        BY <1>1, ReviewItemFields
      <3>3. Decides(c, "accept", replaceReviewItem(m, y))
        BY <2>1 DEF acceptReview
      <3> HIDE DEF x, y
      <3> QED BY <3>1, <3>2, <3>3
    <2>2. CASE rejectReview(c, m)
      <3> DEFINE y == [x EXCEPT !.status = "rejected"]
      <3>1. y \in ReviewItems /\ y.status = "rejected"
        BY <1>1, ReviewItemFields
      <3>2. Decides(c, "reject", replaceReviewItem(m, y))
        BY <2>2 DEF rejectReview
      <3> HIDE DEF x, y
      <3> QED BY <3>1, <3>2
    <2>3. CASE reverifyReview(c, m)
      <3> DEFINE y == [x EXCEPT !.passed = x.version]
      <3>1. y \in ReviewItems /\ y.status = x.status
        BY <1>1, ReviewItemFields
      <3>2. x.status = "awaiting_decision"
        BY <2>3 DEF reverifyReview, reviewActions
      <3>3. Decides(c, "reverify", replaceReviewItem(m, y))
        BY <2>3 DEF reverifyReview
      <3> HIDE DEF x, y
      <3> QED BY <3>1, <3>2, <3>3
    <2> QED BY <2>1, <2>2, <2>3
  <1>3. /\ replaceReviewItem(m, y) \in Workflows
        /\ replaceReviewItem(m, y).status = wf.status
        /\ ApprovalsOK(replaceReviewItem(m, y))
    BY <1>1, <1>2, ReplaceEffect
  <1>4. op \in Decisions
    BY <1>2 DEF Decisions
  <1> QED BY <1>2, <1>3, <1>4, DecidesStep

LEMMA ApproveStep ==
    ASSUME FieldInv, NEW c \in Handlers, NEW m \in Commissioned, approveModule(c, m)
    PROVE  HandlerStep(c)
  <1> DEFINE v == [wf EXCEPT !.approved = @ \cup {m}, !.delivery = "waiting_for_approval",
                             !.manifest = NoManifest]
  <1>1. v \in Workflows /\ v.status = wf.status /\ ApprovalsOK(v)
    BY ApproveEffect DEF FieldInv, FieldTypeOK, SessionsOK, approveModule
  <1>2. Decides(c, "approve", v) /\ "approve" \in Decisions
    BY DEF approveModule, Decisions
  <1> HIDE DEF v
  <1> QED BY <1>1, <1>2, DecidesStep
(* A press that only starts a handler.                                     *)
LEMMA BeginStep ==
    ASSUME FieldInv, NEW c \in Handlers, NEW y \in HandlerRecords, Pressed(c), Begins(c, y),
           HandlerOK(y)', y.pc \notin {"reserving", "capturing"},
           UNCHANGED <<sess, wf, stored, writes, inv, mishaps, taken, linked, saved>>
    PROVE  HandlerStep(c)
  <1>1. /\ doing' \in [Handlers -> HandlerRecords] /\ doing'[c] = y
        /\ \A d \in Handlers \ {c} : doing'[d] = doing[d]
    BY HandlerAt DEF FieldInv, Begins
  <1>2. HandlerOK(doing[c])'
    BY <1>1
  <1>3. InvStep /\ TakenStep(c) /\ LinkStep /\ Quiet
    BY <1>1 DEF InvStep, TakenStep, LinkStep, Reserved, Quiet
  <1> QED BY <1>1, <1>2, <1>3, PressEffect DEF HandlerStep, FieldInv, FieldTypeOK

LEMMA DigestStep ==
    ASSUME FieldInv, NEW c \in Handlers, NEW m \in Commissioned,
           NEW p \in {"reverify_ai", "convert_to_human"}, digestContent(c, m, p)
    PROVE  HandlerStep(c)
  <1> DEFINE x == wf.items[m]
             e == editReviewItem(x, p, presses + 2)
             y == Handler("edit", m, "digesting", 0, 0)
             z0 == [y EXCEPT !.item = e]
  <1>1. presses + 2 \in Nat /\ Pressed(c)
    BY PressEffect DEF digestContent
  <1>2. e \in ReviewItems /\ e.status = "awaiting_decision"
    <2>1. x \in ReviewItems
      BY DEF FieldInv, FieldTypeOK, Workflows
    <2> QED BY <1>1, <2>1 DEF ReviewItems, editReviewItem
  <1>3. /\ "edit" \in Ops /\ m \in Args /\ "digesting" \in HandlerPcs /\ 0 \in Nat
        /\ 0 \in Identities
    BY FieldAssumption DEF Ops, Decisions, Args, HandlerPcs, Identities
  <1>4. Begins(c, z0)
    BY DEF digestContent
  <1>5. UNCHANGED <<sess, wf, stored, writes, inv, mishaps, taken, linked, saved>>
    BY DEF digestContent
  <1> HIDE DEF e
  <1>6. /\ z0 \in HandlerRecords /\ z0.op = "edit" /\ z0.arg = m /\ z0.pc = "digesting"
        /\ z0.item = e
    BY <1>2, <1>3, HandlerFields
  <1> HIDE DEF z0
  <1>7. PICK z \in HandlerRecords : z = z0
    BY <1>6
  <1>8. /\ z.pc = "digesting" /\ z.op = "edit" /\ z.arg \in Commissioned
        /\ z.item \in ReviewItems /\ z.item.status = "awaiting_decision"
    BY <1>2, <1>6, <1>7
  <1>9. HandlerOK(z)'
    BY <1>8 DEF HandlerOK
  <1> QED BY <1>1, <1>4, <1>5, <1>8, <1>7, <1>9, BeginStep

LEMMA VersionsOfWorkflow ==
    ASSUME NEW w \in Workflows
    PROVE  AcceptedVersions(w) \in Manifests
  <1>1. \A m \in Commissioned : w.items[m].version \in Nat
    BY DEF Workflows, ReviewItems
  <1> QED BY <1>1 DEF AcceptedVersions, Manifests

LEMMA ConfirmStep ==
    ASSUME FieldInv, NEW c \in Handlers, confirmDeliveryPackage(c)
    PROVE  HandlerStep(c)
  <1> DEFINE e == AcceptedVersions(wf)
             y == Handler("confirm", "none", "digesting", 0, 0)
             z0 == [y EXCEPT !.item = e]
  <1>1. e \in Manifests
    BY VersionsOfWorkflow DEF FieldInv, FieldTypeOK
  <1>2. /\ "confirm" \in Ops /\ "none" \in Args /\ "digesting" \in HandlerPcs /\ 0 \in Nat
        /\ 0 \in Identities
    BY FieldAssumption DEF Ops, Decisions, Args, HandlerPcs, Identities
  <1>3. Begins(c, z0) /\ Pressed(c)
    BY DEF confirmDeliveryPackage
  <1>4. UNCHANGED <<sess, wf, stored, writes, inv, mishaps, taken, linked, saved>>
    BY DEF confirmDeliveryPackage
  <1> HIDE DEF e
  <1>5. /\ z0 \in HandlerRecords /\ z0.op = "confirm" /\ z0.pc = "digesting" /\ z0.item = e
    BY <1>1, <1>2, HandlerFields
  <1> HIDE DEF z0
  <1>6. PICK z \in HandlerRecords : z = z0
    BY <1>5
  <1>7. z.pc = "digesting" /\ z.op = "confirm" /\ z.item \in Manifests
    BY <1>1, <1>5, <1>6
  <1>8. HandlerOK(z)'
    BY <1>7 DEF HandlerOK
  <1> QED BY <1>3, <1>4, <1>6, <1>7, <1>8, BeginStep

(* A handler that resumes and queues a write of the workflow.              *)
LEMMA HashedStep ==
    ASSUME FieldInv, NEW c \in Handlers, doing[c].pc = "digesting", Goes(c, "closing"),
           NEW patched \in Workflows, ApprovalsOK(patched), patched.status = wf.status,
           saveWorkflow(c, patched, writes),
           UNCHANGED <<app, wf, stored, inv, presses, mishaps, taken, linked, saved>>
    PROVE  HandlerStep(c)
  <1>1. app = "running" /\ HandlerOK(doing[c])
    BY RunningEffect
  <1>2. /\ doing' \in [Handlers -> HandlerRecords]
        /\ \A d \in Handlers \ {c} : doing'[d] = doing[d]
        /\ doing'[c].pc = "closing" /\ doing'[c].op = doing[c].op
    BY GoesEffect DEF FieldInv, HandlerPcs
  <1>3. HandlerOK(doing[c])'
    BY <1>1, <1>2 DEF HandlerOK
  <1>4. Pushes(c, writes)
    BY <1>2, WorkflowPushes DEF FieldInv, FieldTypeOK, SessionsOK
  <1>5. InvStep /\ TakenStep(c) /\ LinkStep
    BY <1>2 DEF InvStep, TakenStep, LinkStep, Reserved
  <1> QED BY <1>1, <1>2, <1>3, <1>4, <1>5 DEF HandlerStep, FieldInv, FieldTypeOK, Writing

LEMMA EditHashedStep ==
    ASSUME FieldInv, NEW c \in Handlers, editHashed(c)
    PROVE  HandlerStep(c)
  <1> DEFINE v == replaceReviewItem(doing[c].arg, doing[c].item)
  <1>1. /\ doing[c].pc = "digesting" /\ doing[c].arg \in Commissioned
        /\ doing[c].item \in ReviewItems /\ doing[c].item.status # "accepted"
    BY RunningEffect DEF editHashed, HandlerOK
  <1>2. v \in Workflows /\ v.status = wf.status /\ ApprovalsOK(v)
    BY <1>1, ReplaceEffect DEF FieldInv, FieldTypeOK, SessionsOK
  <1>3. /\ Goes(c, "closing") /\ saveWorkflow(c, v, writes)
        /\ UNCHANGED <<app, wf, stored, inv, presses, mishaps, taken, linked, saved>>
    BY DEF editHashed
  <1> HIDE DEF v
  <1> QED BY <1>1, <1>2, <1>3, HashedStep

LEMMA ManifestHashedStep ==
    ASSUME FieldInv, NEW c \in Handlers, NEW pending \in BOOLEAN, manifestHashed(c, pending)
    PROVE  HandlerStep(c)
  <1> DEFINE d == IF pending THEN "waiting_for_evidence" ELSE "queued"
             v == [wf EXCEPT !.manifest = doing[c].item, !.delivery = d]
  <1>1. doing[c].pc = "digesting" /\ doing[c].item \in Manifests
    BY RunningEffect DEF manifestHashed, HandlerOK
  <1>2. d \in {"waiting_for_evidence", "waiting_for_approval", "queued"}
    OBVIOUS
  <1>3. /\ Goes(c, "closing") /\ saveWorkflow(c, v, writes)
        /\ UNCHANGED <<app, wf, stored, inv, presses, mishaps, taken, linked, saved>>
    BY DEF manifestHashed
  <1> HIDE DEF d
  <1>4. /\ v \in Workflows /\ v.status = wf.status
        /\ v.items = wf.items /\ v.approved = wf.approved
    BY <1>1, <1>2, ConfirmEffect DEF FieldInv, FieldTypeOK
  <1> HIDE DEF v
  <1>5. ApprovalsOK(v)
    BY <1>4, SameApprovals DEF FieldInv, SessionsOK
  <1> QED BY <1>1, <1>3, <1>4, <1>5, HashedStep
-----------------------------------------------------------------------------
(* The buttons of the capture view.                                        *)
LEMMA ReserveStep ==
    ASSUME FieldInv, NEW c \in Handlers, NEW op \in Captured, reserveSequence(c, op)
    PROVE  HandlerStep(c)
  <1> DEFINE y == Handler(op, "none", "reserving", sess.seq, 0)
             next == [sess EXCEPT !.seq = sess.seq + 1]
  <1>1. /\ op \in Ops /\ "none" \in Args /\ "reserving" \in HandlerPcs /\ 0 \in Identities
    BY FieldAssumption DEF Ops, Transitions, Args, HandlerPcs, Identities
  <1>2. sess \in Sessions /\ sess.seq \in Nat /\ sess.seq + 1 \in Nat
    <2>1. sess \in Sessions
      BY DEF FieldInv, FieldTypeOK
    <2>2. sess.seq \in Nat
      BY <2>1, SessionFields
    <2> QED BY <2>1, <2>2
  <1>3. y \in HandlerRecords /\ y.op = op /\ y.pc = "reserving" /\ y.n = sess.seq
    BY <1>1, <1>2, HandlerFields
  <1>4. doing' = [doing EXCEPT ![c] = y] /\ saveSession(c, next, writes)
    BY DEF reserveSequence, Begins
  <1> HIDE DEF y
  <1>5. /\ doing' \in [Handlers -> HandlerRecords] /\ doing'[c] = y
        /\ \A d \in Handlers \ {c} : doing'[d] = doing[d]
    BY <1>3, <1>4, HandlerAt DEF FieldInv
  <1>6. /\ next \in Sessions /\ next.active = sess.active /\ next.last = sess.last
        /\ next.wf = sess.wf /\ next.seq = sess.seq + 1
    BY <1>2, SessionFields
  <1> HIDE DEF next
  <1>7. SessionOK(next) /\ (Points(sess) => Points(next)) /\ sess.seq < next.seq
    BY <1>2, <1>6 DEF FieldInv, SessionsOK, SessionOK, Points, Pointed
  <1>8. Pushes(c, writes)
    BY <1>2, <1>3, <1>4, <1>5, <1>6, <1>7, SavePushes
    DEF FieldInv, FieldTypeOK, Writing
  <1>9. HandlerOK(doing[c])'
    <2>1. doing'[c].n < sess'.seq
      BY <1>3, <1>5, <1>8 DEF Pushes
    <2> QED BY <1>3, <1>5, <2>1 DEF HandlerOK, Captured
  <1>10. InvStep /\ TakenStep(c) /\ LinkStep
    BY <1>3, <1>5 DEF reserveSequence, InvStep, TakenStep, LinkStep, Reserved
  <1> QED BY <1>5, <1>8, <1>9, <1>10, PressEffect
          DEF reserveSequence, HandlerStep, FieldInv, FieldTypeOK

LEMMA NoteStep ==
    ASSUME FieldInv, NEW c \in Handlers, saveManualNote(c)
    PROVE  HandlerStep(c)
  <1> DEFINE y0 == Handler("note", "none", "noting", presses + 1, 0)
  <1>1. /\ "note" \in Ops /\ "none" \in Args /\ "noting" \in HandlerPcs /\ 0 \in Identities
        /\ presses + 1 \in Nat /\ Pressed(c)
    BY FieldAssumption, PressEffect
    DEF saveManualNote, Ops, Transitions, Args, HandlerPcs, Identities
  <1>2. y0 \in HandlerRecords /\ y0.op = "note" /\ y0.pc = "noting"
    BY <1>1, HandlerFields
  <1>3. /\ Begins(c, y0)
        /\ UNCHANGED <<sess, wf, stored, writes, inv, mishaps, taken, linked, saved>>
    BY DEF saveManualNote
  <1> HIDE DEF y0
  <1>4. PICK y \in HandlerRecords : y = y0
    BY <1>2
  <1>5. HandlerOK(y)' /\ y.pc = "noting"
    BY <1>2, <1>4 DEF HandlerOK
  <1> QED BY <1>1, <1>3, <1>4, <1>5, BeginStep

(* A handler that ends, or moves on without touching the session.          *)
LEMMA ResumeStep ==
    ASSUME FieldInv, NEW c \in Handlers, doing[c].pc \notin {"idle"} \cup Writing,
           doing' \in [Handlers -> HandlerRecords],
           \A d \in Handlers \ {c} : doing'[d] = doing[d],
           HandlerOK(doing[c])', doing'[c].pc \notin {"reserving", "capturing"},
           UNCHANGED <<app, sess, wf, stored, writes, inv, presses, saved>>,
           mishaps' \in Nat, TakenStep(c), LinkStep
    PROVE  HandlerStep(c)
  <1>1. app = "running"
    BY RunningEffect
  <1> QED BY <1>1 DEF HandlerStep, InvStep, Quiet, FieldInv, FieldTypeOK

LEMMA IdleIsOK == HandlerOK(Idle)'
  BY IdleFacts DEF HandlerOK, Idle

LEMMA LoadingIsAPc == "loading" \in HandlerPcs
  BY DEF HandlerPcs

LEMMA PersistStep ==
    ASSUME FieldInv, NEW c \in Handlers, persistMedia(c)
    PROVE  HandlerStep(c)
  <1> DEFINE k == doing[c]
  <1>1. /\ k.pc = "capturing" /\ k \in HandlerRecords /\ k.op \in Captured
        /\ k.pc \notin {"idle"} \cup Writing
    BY RunningEffect DEF persistMedia, HandlerOK, Writing
  <1>2. UNCHANGED <<app, sess, wf, stored, writes, inv, presses, mishaps, linked, saved>>
    BY DEF persistMedia
  <1>3. CASE Ends(c)
    <2>1. /\ doing' \in [Handlers -> HandlerRecords] /\ doing'[c] = Idle
          /\ \A d \in Handlers \ {c} : doing'[d] = doing[d]
      BY <1>3, EndsEffect DEF FieldInv
    <2>2. HandlerOK(doing[c])'
      BY <2>1, IdleIsOK
    <2>3. TakenStep(c) /\ LinkStep /\ doing'[c].pc \notin {"reserving", "capturing"}
      BY <1>1, <1>2, <2>1, IdleFacts DEF persistMedia, TakenStep, LinkStep, Reserved
    <2> QED BY <1>1, <1>2, <2>1, <2>2, <2>3, ResumeStep DEF FieldInv, FieldTypeOK
  <1>4. CASE /\ sess.active # 0
             /\ doing' = [doing EXCEPT ![c].pc = "loading", ![c].inv = sess.active,
                                       ![c].n = Len(taken) + 1]
    <2>0. PICK y : y = [k EXCEPT !.pc = "loading", !.inv = sess.active, !.n = Len(taken) + 1]
      OBVIOUS
    <2>1. Len(taken) + 1 \in Nat /\ sess.active \in Identities
      <3>1. sess \in Sessions /\ taken \in Seq(Nat)
        BY DEF FieldInv, FieldTypeOK
      <3>2. Len(taken) \in Nat
        BY <3>1, LenProperties
      <3>3. sess.active \in Identities
        BY <3>1, SessionFields
      <3> QED BY <3>2, <3>3
    <2>2. y \in HandlerRecords /\ y.pc = "loading" /\ y.inv # 0 /\ y.op = k.op
      <3>1. y \in HandlerRecords /\ y.pc = "loading" /\ y.inv = sess.active /\ y.op = k.op
        BY <1>1, <2>0, <2>1, LoadingIsAPc DEF HandlerRecords
      <3> QED BY <1>4, <3>1
    <2>3. doing' = [doing EXCEPT ![c] = y]
      BY <1>4, <2>0 DEF FieldInv, FieldTypeOK
    <2>4. /\ doing' \in [Handlers -> HandlerRecords] /\ doing'[c] = y
          /\ \A d \in Handlers \ {c} : doing'[d] = doing[d]
      BY <2>2, <2>3, HandlerAt DEF FieldInv
    <2>5. HandlerOK(doing[c])'
      BY <1>1, <2>2, <2>4 DEF HandlerOK, Captured, Transitions, OnScreenOps
    <2>6. TakenStep(c) /\ LinkStep /\ doing'[c].pc \notin {"reserving", "capturing"}
      BY <1>1, <1>2, <2>2, <2>4 DEF persistMedia, TakenStep, LinkStep, Reserved
    <2> QED BY <1>1, <1>2, <2>4, <2>5, <2>6, ResumeStep DEF FieldInv, FieldTypeOK
  <1> QED BY <1>3, <1>4 DEF persistMedia

LEMMA NoteStoredStep ==
    ASSUME FieldInv, NEW c \in Handlers, noteStored(c)
    PROVE  HandlerStep(c)
  <1> DEFINE k == doing[c]
  <1>1. /\ k.pc = "noting" /\ k \in HandlerRecords /\ k.op = "note" /\ k.n \in Nat
        /\ k.pc \notin {"idle"} \cup Writing
    BY RunningEffect DEF noteStored, HandlerOK, Writing, HandlerRecords
  <1>2. UNCHANGED <<app, sess, wf, stored, writes, inv, presses, mishaps, taken, linked, saved>>
    BY DEF noteStored
  <1>3. CASE Ends(c)
    <2>1. /\ doing' \in [Handlers -> HandlerRecords] /\ doing'[c] = Idle
          /\ \A d \in Handlers \ {c} : doing'[d] = doing[d]
      BY <1>3, EndsEffect DEF FieldInv
    <2>2. HandlerOK(doing[c])'
      BY <2>1, IdleIsOK
    <2>3. TakenStep(c) /\ LinkStep /\ doing'[c].pc \notin {"reserving", "capturing"}
      BY <1>2, <2>1, IdleFacts DEF TakenStep, LinkStep, Reserved
    <2> QED BY <1>1, <1>2, <2>1, <2>2, <2>3, ResumeStep DEF FieldInv, FieldTypeOK
  <1>4. CASE /\ sess.active # 0
             /\ doing' = [doing EXCEPT ![c].pc = "loading", ![c].inv = sess.active]
    <2>0. PICK y : y = [k EXCEPT !.pc = "loading", !.inv = sess.active, !.n = k.n]
      OBVIOUS
    <2>1. sess.active \in Identities
      <3>1. sess \in Sessions
        BY DEF FieldInv, FieldTypeOK
      <3> QED BY <3>1, SessionFields
    <2>2. y \in HandlerRecords /\ y.pc = "loading" /\ y.inv # 0 /\ y.op = k.op
      <3>1. y \in HandlerRecords /\ y.pc = "loading" /\ y.inv = sess.active /\ y.op = k.op
        BY <1>1, <2>0, <2>1, LoadingIsAPc DEF HandlerRecords
      <3> QED BY <1>4, <3>1
    <2>3. doing' = [doing EXCEPT ![c] = y]
      BY <1>1, <1>4, <2>0 DEF FieldInv, FieldTypeOK, HandlerRecords
    <2>4. /\ doing' \in [Handlers -> HandlerRecords] /\ doing'[c] = y
          /\ \A d \in Handlers \ {c} : doing'[d] = doing[d]
      BY <2>2, <2>3, HandlerAt DEF FieldInv
    <2>5. HandlerOK(doing[c])'
      BY <1>1, <2>2, <2>4 DEF HandlerOK, Transitions, OnScreenOps
    <2>6. TakenStep(c) /\ LinkStep /\ doing'[c].pc \notin {"reserving", "capturing"}
      BY <1>2, <2>2, <2>4 DEF TakenStep, LinkStep, Reserved
    <2> QED BY <1>1, <1>2, <2>4, <2>5, <2>6, ResumeStep DEF FieldInv, FieldTypeOK
  <1> QED BY <1>3, <1>4 DEF noteStored
LEMMA OnScreenFields ==
    ASSUME FieldInv, NEW op \in Ops, NEW arg \in Args, NEW pc \in HandlerPcs,
           NEW i \in Identities
    PROVE  \E z \in HandlerRecords :
              /\ z = OnScreen(op, arg, pc, i) /\ z.op = op /\ z.arg = arg /\ z.pc = pc
              /\ z.inv = i /\ z.session = sess /\ sess \in Sessions /\ ApprovalsOK(sess.wf)
  <1> DEFINE y == Handler(op, arg, pc, 0, i)
  <1>1. sess \in Sessions /\ ApprovalsOK(sess.wf)
    BY DEF FieldInv, FieldTypeOK, SessionsOK, SessionOK
  <1>2. 0 \in Nat
    OBVIOUS
  <1>3. LET z == [y EXCEPT !.session = sess] IN
           /\ z \in HandlerRecords /\ z.op = op /\ z.arg = arg /\ z.pc = pc
           /\ z.inv = i /\ z.session = sess
    BY <1>1, <1>2, HandlerFields
  <1>4. OnScreen(op, arg, pc, i) = [y EXCEPT !.session = sess]
    BY DEF OnScreen
  <1> HIDE DEF y
  <1> QED BY <1>1, <1>3, <1>4

LEMMA BeginInvestigationStep ==
    ASSUME FieldInv, NEW c \in Handlers, beginInvestigation(c)
    PROVE  HandlerStep(c)
  <1>1. /\ Pressed(c) /\ Begins(c, OnScreen("start", "none", "saving", presses + 1))
        /\ UNCHANGED <<sess, wf, stored, writes, inv, mishaps, taken, linked, saved>>
    BY DEF beginInvestigation
  <1>2. /\ "start" \in Ops /\ "none" \in Args /\ "saving" \in HandlerPcs
        /\ presses + 1 \in Identities /\ presses + 1 # 0
    BY <1>1, PressEffect DEF Ops, Transitions, Args, HandlerPcs, Identities
  <1>3. PICK z \in HandlerRecords :
           /\ z = OnScreen("start", "none", "saving", presses + 1)
           /\ z.op = "start" /\ z.pc = "saving" /\ z.inv # 0
           /\ z.session \in Sessions /\ ApprovalsOK(z.session.wf)
    BY <1>2, OnScreenFields
  <1>4. HandlerOK(z)'
    BY <1>3 DEF HandlerOK, Transitions, OnScreenOps, ApprovalsOK, assertConfirmableVerifier
  <1> QED BY <1>1, <1>3, <1>4, BeginStep

LEMMA FinishStep ==
    ASSUME FieldInv, NEW c \in Handlers, NEW r \in {"candidate", "no_finding"},
           finishInvestigation(c, r)
    PROVE  HandlerStep(c)
  <1>1. /\ Pressed(c) /\ Begins(c, OnScreen("finish", r, "loading", sess.active))
        /\ UNCHANGED <<sess, wf, stored, writes, inv, mishaps, taken, linked, saved>>
        /\ sess.active # 0
    BY DEF finishInvestigation
  <1>2. sess \in Sessions
    BY DEF FieldInv, FieldTypeOK
  <1>3. sess.active \in Identities
    BY <1>2, SessionFields
  <1>4. "finish" \in Ops /\ r \in Args /\ "loading" \in HandlerPcs
    BY DEF Ops, Transitions, Args, HandlerPcs
  <1>5. PICK z \in HandlerRecords :
           /\ z = OnScreen("finish", r, "loading", sess.active)
           /\ z.op = "finish" /\ z.pc = "loading" /\ z.inv # 0
           /\ z.session \in Sessions /\ ApprovalsOK(z.session.wf)
    BY <1>1, <1>3, <1>4, OnScreenFields
  <1>6. HandlerOK(z)'
    BY <1>5 DEF HandlerOK, Transitions, OnScreenOps, ApprovalsOK, assertConfirmableVerifier
  <1> QED BY <1>1, <1>5, <1>6, BeginStep

LEMMA ChangeStateStep ==
    ASSUME FieldInv, NEW c \in Handlers, changeInvestigationState(c)
    PROVE  HandlerStep(c)
  <1> DEFINE op0 == IF wf.status = "active" THEN "pause" ELSE "resume"
  <1>1. /\ Pressed(c) /\ Begins(c, Handler(op0, "none", "loading", 0, sess.active))
        /\ UNCHANGED <<sess, wf, stored, writes, inv, mishaps, taken, linked, saved>>
        /\ sess.active # 0
    BY DEF changeInvestigationState
  <1>2. PICK op \in {"pause", "resume"} : op = op0
    OBVIOUS
  <1>3. sess \in Sessions
    BY DEF FieldInv, FieldTypeOK
  <1>4. sess.active \in Identities
    BY <1>3, SessionFields
  <1>5. op \in Ops /\ "none" \in Args /\ "loading" \in HandlerPcs /\ 0 \in Nat
    BY <1>2 DEF Ops, Transitions, Args, HandlerPcs
  <1> HIDE DEF op0
  <1>6. PICK z : z = Handler(op, "none", "loading", 0, sess.active)
    OBVIOUS
  <1>7. z \in HandlerRecords /\ z.op = op /\ z.pc = "loading" /\ z.inv = sess.active
    BY <1>4, <1>5, <1>6, HandlerFields
  <1>8. Points(sess)'
    BY <1>1 DEF Points, Pointed
  <1>9. HandlerOK(z)'
    BY <1>1, <1>2, <1>7, <1>8 DEF HandlerOK, Transitions, OnScreenOps
  <1> QED BY <1>1, <1>2, <1>6, <1>7, <1>9, BeginStep

LEMMA ChangeAreaStep ==
    ASSUME FieldInv, NEW c \in Handlers, changeArea(c)
    PROVE  HandlerStep(c)
  <1>1. Pressed(c) /\ UNCHANGED <<wf, stored, inv, mishaps, taken, linked, saved>>
    BY DEF changeArea
  <1>2. sess \in Sessions
    BY DEF FieldInv, FieldTypeOK
  <1>3. CASE sess.active = 0
    <2>1. PICK z : z = Handler("area", "none", "pointing", 0, 0)
      OBVIOUS
    <2>2. /\ "area" \in Ops /\ "none" \in Args /\ "pointing" \in HandlerPcs
          /\ 0 \in Nat /\ 0 \in Identities
      BY FieldAssumption DEF Ops, Transitions, Args, HandlerPcs, Identities
    <2>3. z \in HandlerRecords /\ z.op = "area" /\ z.pc = "pointing"
      BY <2>1, <2>2, HandlerFields
    <2>4. /\ doing' = [doing EXCEPT ![c] = z]
          /\ saveSession(c, [sess EXCEPT !.area = nextArea(sess.area)], writes)
      BY <1>3, <2>1 DEF changeArea, Begins
    <2>5. /\ doing' \in [Handlers -> HandlerRecords] /\ doing'[c] = z
          /\ \A d \in Handlers \ {c} : doing'[d] = doing[d]
      BY <2>3, <2>4, HandlerAt DEF FieldInv
    <2> DEFINE next == [sess EXCEPT !.area = nextArea(sess.area)]
    <2>6. nextArea(sess.area) \in AreaNames
      BY <1>2, SessionFields, NextAreaExists
    <2>7. /\ next \in Sessions /\ next.active = sess.active /\ next.last = sess.last
          /\ next.wf = sess.wf
      BY <1>2, <2>6, SessionFields
    <2>8. saveSession(c, next, writes)
      BY <2>4
    <2> HIDE DEF next
    <2>9. SessionOK(next) /\ (Points(sess) => Points(next))
      BY <2>7 DEF FieldInv, SessionsOK, SessionOK, Points, Pointed
    <2>10. Pushes(c, writes)
      BY <2>3, <2>5, <2>7, <2>8, <2>9, SavePushes DEF FieldInv, FieldTypeOK, Writing
    <2>11. HandlerOK(doing[c])'
      BY <2>3, <2>5 DEF HandlerOK, OnScreenOps
    <2>12. InvStep /\ TakenStep(c) /\ LinkStep
      BY <1>1, <2>3, <2>5 DEF InvStep, TakenStep, LinkStep, Reserved
    <2> QED BY <1>1, <2>5, <2>10, <2>11, <2>12, PressEffect
            DEF HandlerStep, FieldInv, FieldTypeOK
  <1>4. CASE sess.active # 0
    <2>1. /\ Begins(c, OnScreen("area", "none", "loading", sess.active))
          /\ UNCHANGED <<sess, writes>>
      BY <1>4 DEF changeArea
    <2>2. sess.active \in Identities
      BY <1>2, SessionFields
    <2>3. "area" \in Ops /\ "none" \in Args /\ "loading" \in HandlerPcs
      BY DEF Ops, Transitions, Args, HandlerPcs
    <2>4. PICK z \in HandlerRecords :
             /\ z = OnScreen("area", "none", "loading", sess.active)
             /\ z.op = "area" /\ z.pc = "loading" /\ z.inv # 0 /\ z.session.active # 0
             /\ z.session \in Sessions /\ ApprovalsOK(z.session.wf)
      BY <1>4, <2>2, <2>3, OnScreenFields
    <2>5. HandlerOK(z)'
      BY <2>4 DEF HandlerOK, Transitions, OnScreenOps, ApprovalsOK, assertConfirmableVerifier
    <2> QED BY <1>1, <2>1, <2>4, <2>5, BeginStep
  <1> QED BY <1>3, <1>4
(* A handler that queues the session that was on screen, patched.          *)
LEMMA PointStep ==
    ASSUME FieldInv, NEW c \in Handlers, doing[c].pc \in {"loading", "saving"},
           doing[c].op \in OnScreenOps, Goes(c, "pointing"),
           NEW next \in Sessions, ApprovalsOK(next.wf), Points(next),
           saveSession(c, next, writes),
           UNCHANGED <<app, wf, stored, presses, taken, saved>>,
           mishaps' \in Nat, InvStep, LinkStep
    PROVE  HandlerStep(c)
  <1>1. app = "running"
    BY RunningEffect
  <1>2. /\ doing' \in [Handlers -> HandlerRecords]
        /\ \A d \in Handlers \ {c} : doing'[d] = doing[d]
        /\ doing'[c].pc = "pointing" /\ doing'[c].op = doing[c].op
    BY GoesEffect DEF FieldInv, HandlerPcs
  <1>3. HandlerOK(doing[c])'
    BY <1>2 DEF HandlerOK, OnScreenOps
  <1>4. Pushes(c, writes)
    BY <1>2, SavePushes DEF FieldInv, FieldTypeOK, SessionOK, Writing
  <1>5. TakenStep(c)
    BY <1>2 DEF TakenStep, Reserved
  <1> QED BY <1>1, <1>2, <1>3, <1>4, <1>5 DEF HandlerStep, FieldInv, FieldTypeOK, Writing

LEMMA SnapshotOf ==
    ASSUME FieldInv, NEW k \in HandlerRecords, k.inv # 0
    PROVE  k.inv \in 1 .. MaxPresses /\ inv[k.inv] \in Snapshots \cup {None}
  <1>1. k.inv \in 1 .. MaxPresses
    BY FieldAssumption DEF HandlerRecords, Identities
  <1> QED BY <1>1 DEF FieldInv, FieldTypeOK

LEMMA PermittedHasSnapshot ==
    ASSUME NEW k, NEW s \in Snapshots \cup {None}, k.op \in Transitions \ {"start"},
           permitted(k, s)
    PROVE  s \in Snapshots
  <1>1. s.status # "none"
    BY DEF permitted, Transitions, Captured
  <1> QED BY <1>1, SnapshotFacts

LEMMA LoadStep ==
    ASSUME FieldInv, NEW c \in Handlers, loadActiveInvestigation(c)
    PROVE  HandlerStep(c)
  <1> DEFINE k == doing[c]
             s == inv[k.inv]
  <1>1. /\ k.pc = "loading" /\ k \in HandlerRecords /\ HandlerOK(k)
        /\ k.pc \notin {"idle"} \cup Writing
    BY RunningEffect DEF loadActiveInvestigation, Writing
  <1>2. /\ k.inv # 0 /\ k.op \in Transitions \ {"start"}
        /\ k.op \in OnScreenOps => k.session \in Sessions /\ ApprovalsOK(k.session.wf)
        /\ k.op = "area" => k.session.active # 0
        /\ k.op \in {"pause", "resume"} => Points(sess)
    BY <1>1 DEF HandlerOK
  <1>3. k.inv \in 1 .. MaxPresses /\ s \in Snapshots \cup {None}
    BY <1>1, <1>2, SnapshotOf
  <1>4. UNCHANGED <<app, wf, stored, inv, presses, mishaps, taken, linked, saved>>
    BY DEF loadActiveInvestigation
  <1>5. InvStep /\ LinkStep /\ mishaps' \in Nat
    BY <1>4 DEF InvStep, LinkStep, FieldInv, FieldTypeOK
  <1>6. CASE permitted(k, s)
    <2>1. s \in Snapshots
      BY <1>2, <1>3, <1>6, PermittedHasSnapshot
    <2>2. PICK y : y = [k EXCEPT !.pc = "saving", !.snap = s]
      OBVIOUS
    <2>3. "saving" \in HandlerPcs
      BY DEF HandlerPcs
    <2>4. /\ y \in HandlerRecords /\ y.pc = "saving" /\ y.snap = s /\ y.op = k.op
          /\ y.inv = k.inv /\ y.session = k.session /\ y.arg = k.arg
      BY <1>1, <2>1, <2>2, <2>3 DEF HandlerRecords
    <2>5. doing' = [doing EXCEPT ![c] = y] /\ UNCHANGED <<sess, writes>>
      BY <1>6, <2>2
      DEF loadActiveInvestigation, loadCheckedSnapshot, FieldInv, FieldTypeOK
    <2>6. /\ doing' \in [Handlers -> HandlerRecords] /\ doing'[c] = y
          /\ \A d \in Handlers \ {c} : doing'[d] = doing[d]
      BY <2>4, <2>5, HandlerAt DEF FieldInv
    <2>7. permitted(y, y.snap)
      BY <1>6, <2>4 DEF permitted
    <2>8. Checked(y)'
      <3>1. y.snap = inv'[y.inv] /\ y.snap \in Snapshots
        BY <1>4, <2>1, <2>4
      <3>2. y.snap.revision \in Nat
        BY <3>1, SnapshotFields
      <3>3. permitted(y, y.snap)'
        BY <2>7 DEF permitted
      <3>4. y.snap.revision <= y.snap.revision
        BY <3>2
      <3> QED BY <3>1, <3>3, <3>4 DEF Checked
    <2>9. HandlerOK(y)'
      BY <1>2, <2>4, <2>5, <2>8
      DEF HandlerOK, ApprovalsOK, assertConfirmableVerifier, Points, Pointed
    <2>10. HandlerOK(doing[c])' /\ doing'[c].pc \notin {"reserving", "capturing"}
      BY <2>4, <2>6, <2>9
    <2>11. TakenStep(c)
      BY <1>4, <2>4, <2>6 DEF TakenStep, Reserved
    <2> QED BY <1>1, <1>4, <1>5, <2>5, <2>6, <2>10, <2>11, ResumeStep
  <1>7. CASE ~permitted(k, s) /\ k.op = "area" /\ s.status \notin {"active", "paused"}
    <2>1. /\ Goes(c, "pointing")
          /\ saveSession(c, [k.session EXCEPT !.area = nextArea(k.session.area)], writes)
      BY <1>7 DEF loadActiveInvestigation, loadCheckedSnapshot
    <2>2. k.session \in Sessions /\ k.op \in OnScreenOps
      BY <1>2, <1>7 DEF OnScreenOps
    <2>3. nextArea(k.session.area) \in AreaNames
      BY <2>2, SessionFields, NextAreaExists
    <2> DEFINE next == [k.session EXCEPT !.area = nextArea(k.session.area)]
    <2>4. /\ next \in Sessions /\ next.active = k.session.active /\ next.wf = k.session.wf
      BY <2>2, <2>3, SessionFields
    <2>5. saveSession(c, next, writes)
      BY <2>1
    <2> HIDE DEF next
    <2>6. ApprovalsOK(next.wf) /\ Points(next)
      BY <1>2, <1>7, <2>2, <2>4 DEF Points, Pointed
    <2> QED BY <1>1, <1>4, <1>5, <2>1, <2>2, <2>4, <2>5, <2>6, PointStep
  <1>8. CASE ~permitted(k, s) /\ ~(k.op = "area" /\ s.status \notin {"active", "paused"})
    <2>1. Ends(c) /\ UNCHANGED <<sess, writes>>
      BY <1>8 DEF loadActiveInvestigation, loadCheckedSnapshot
    <2>2. /\ doing' \in [Handlers -> HandlerRecords] /\ doing'[c] = Idle
          /\ \A d \in Handlers \ {c} : doing'[d] = doing[d]
      BY <2>1, EndsEffect DEF FieldInv
    <2>3. HandlerOK(doing[c])'
      BY <2>2, IdleIsOK
    <2>4. TakenStep(c) /\ doing'[c].pc \notin {"reserving", "capturing"}
      BY <1>4, <2>2, IdleFacts DEF TakenStep, Reserved
    <2> QED BY <1>1, <1>4, <1>5, <2>1, <2>2, <2>3, <2>4, ResumeStep
  <1> QED BY <1>6, <1>7, <1>8
(* The compare-and-set: what is replaced is what the handler loaded.       *)
LEMMA SaveReplaces ==
    ASSUME FieldInv, NEW k \in HandlerRecords, HandlerOK(k), k.pc = "saving",
           compareAndSet(k), inv' = saveAggregate(k)
    PROVE  /\ k.inv \in 1 .. MaxPresses /\ InvStep /\ inv'[k.inv] = transition(k)
           /\ inv'[k.inv] \in Snapshots
           /\ k.op \in Captured => k.n \in Elements(transition(k).evidence)
           /\ k.op = "note" => k.n \in transition(k).observations
  <1>1. /\ k.inv # 0 /\ k.op \in Transitions
        /\ k.op \in OnScreenOps => k.session \in Sessions
        /\ k.op # "start" => Checked(k)
    BY DEF HandlerOK
  <1>2. k.inv \in 1 .. MaxPresses
    BY <1>1, SnapshotOf
  <1>3. PICK t : t = transition(k)
    OBVIOUS
  <1>4. inv' = [inv EXCEPT ![k.inv] = t]
    BY <1>3 DEF saveAggregate
  <1>5. inv'[k.inv] = t
    BY <1>2, <1>4 DEF FieldInv, FieldTypeOK
  <1>6. CASE k.op = "start"
    <2>1. t = startInvestigation(k.session.area)
      BY <1>3, <1>6 DEF transition, Captured
    <2>2. k.session.area \in AreaNames
      BY <1>1, <1>6, SessionFields DEF OnScreenOps
    <2>3. t \in Snapshots /\ SourcesOK(t)
      BY <2>1, <2>2, StartEffect
    <2>4. inv[k.inv] = None
      BY <1>6 DEF compareAndSet
    <2>5. Replaces(k.inv, t)
      BY <1>4, <2>3, <2>4 DEF Replaces
    <2> QED BY <1>2, <1>3, <1>5, <1>6, <2>3, <2>5 DEF InvStep, Captured
  <1>7. CASE k.op # "start"
    <2>1. k.snap \in Snapshots /\ permitted(k, k.snap) /\ k.snap = inv[k.inv]
      BY <1>1, <1>7 DEF Checked, compareAndSet
    <2>2. /\ Follows(t, k.snap) /\ SourcesOK(t)
          /\ k.op \in Captured => k.n \in Elements(t.evidence)
          /\ k.op = "note" => k.n \in t.observations
      BY <1>1, <1>3, <1>7, <2>1, TransitionEffect DEF OnScreenOps
    <2>3. t \in Snapshots
      BY <2>2 DEF Follows
    <2>4. Replaces(k.inv, t)
      BY <1>4, <2>1, <2>2, <2>3 DEF Replaces
    <2> QED BY <1>2, <1>3, <1>5, <2>2, <2>3, <2>4 DEF InvStep
  <1> QED BY <1>6, <1>7

(* A handler that ends, with or without having replaced a snapshot.        *)
LEMMA EndStep ==
    ASSUME FieldInv, NEW c \in Handlers, doing[c].pc \notin {"idle"} \cup Writing, Ends(c),
           UNCHANGED <<app, sess, wf, stored, writes, presses, taken, saved>>,
           mishaps' \in Nat, InvStep, LinkStep
    PROVE  HandlerStep(c)
  <1>1. app = "running"
    BY RunningEffect
  <1>2. /\ doing' \in [Handlers -> HandlerRecords] /\ doing'[c] = Idle
        /\ \A d \in Handlers \ {c} : doing'[d] = doing[d]
    BY EndsEffect DEF FieldInv
  <1>3. HandlerOK(doing[c])'
    BY <1>2, IdleIsOK
  <1>4. TakenStep(c)
    BY <1>2, IdleFacts DEF TakenStep, Reserved
  <1> QED BY <1>1, <1>2, <1>3, <1>4 DEF HandlerStep, Quiet, FieldInv, FieldTypeOK

(* What saving does, by operation: one branch of the action each.          *)
SavedAs(c) ==
    LET k == doing[c] IN
    \/ /\ k.op \in Captured \cup {"note"} /\ Ends(c) /\ UNCHANGED <<sess, writes>>
       /\ linked' = linked \cup {[inv |-> k.inv, n |-> k.n, note |-> k.op = "note"]}
    \/ /\ k.op = "area" /\ Goes(c, "pointing") /\ linked' = linked
       /\ saveSession(c, [k.session EXCEPT !.area = nextArea(k.session.area)], writes)
    \/ /\ k.op = "start" /\ Goes(c, "pointing") /\ linked' = linked
       /\ saveSession(c, [k.session EXCEPT !.active = k.inv], writes)
    \/ /\ k.op = "finish" /\ Goes(c, "pointing") /\ linked' = linked
       /\ saveSession(c, [k.session EXCEPT !.active = 0, !.last = k.inv], writes)
    \/ /\ k.op = "pause" /\ Goes(c, "closing") /\ linked' = linked
       /\ saveWorkflow(c, WithStatus("paused"), writes)
    \/ /\ k.op = "resume" /\ Goes(c, "closing") /\ linked' = linked
       /\ saveWorkflow(c, WithStatus("active"), writes)

LEMMA SaveBranches ==
    ASSUME NEW c \in Handlers, saveInvestigationTransition(c), doing[c].op \in Transitions
    PROVE  \/ /\ Ends(c) /\ UNCHANGED <<inv, sess, writes, linked>>
              /\ mishaps' = mishaps \/ mishaps' = mishaps + 1
           \/ /\ compareAndSet(doing[c]) /\ inv' = saveAggregate(doing[c])
              /\ mishaps' = mishaps /\ SavedAs(c)
  <1> DEFINE k == doing[c]
  <1>1. CASE k.op \in Captured \cup {"note"}
    BY <1>1 DEF saveInvestigationTransition, SavedAs
  <1>2. CASE k.op = "area"
    BY <1>2 DEF saveInvestigationTransition, SavedAs, Captured
  <1>3. CASE k.op = "start"
    BY <1>3 DEF saveInvestigationTransition, SavedAs, Captured
  <1>4. CASE k.op = "finish"
    BY <1>4 DEF saveInvestigationTransition, SavedAs, Captured
  <1>5. CASE k.op = "pause"
    BY <1>5 DEF saveInvestigationTransition, SavedAs, Captured
  <1>6. CASE k.op = "resume"
    BY <1>6 DEF saveInvestigationTransition, SavedAs, Captured
  <1> QED BY <1>1, <1>2, <1>3, <1>4, <1>5, <1>6 DEF Transitions
LEMMA SaveStep ==
    ASSUME FieldInv, NEW c \in Handlers, saveInvestigationTransition(c)
    PROVE  HandlerStep(c)
  <1> DEFINE k == doing[c]
  <1>1. /\ k.pc = "saving" /\ k \in HandlerRecords /\ HandlerOK(k) /\ app = "running"
        /\ k.pc \notin {"idle"} \cup Writing
    BY RunningEffect DEF saveInvestigationTransition, Writing
  <1>2. /\ k.inv # 0 /\ k.inv \in Identities /\ k.op \in Transitions /\ k.n \in Nat
        /\ k.op \in OnScreenOps => k.session \in Sessions /\ ApprovalsOK(k.session.wf)
        /\ k.op = "area" => k.session.active # 0
        /\ k.op \in {"pause", "resume"} => Points(sess)
    BY <1>1 DEF HandlerOK, HandlerRecords
  <1>3. UNCHANGED <<app, wf, stored, presses, taken, saved>>
    BY DEF saveInvestigationTransition
  <1>4. \/ /\ Ends(c) /\ UNCHANGED <<inv, sess, writes, linked>>
           /\ mishaps' = mishaps \/ mishaps' = mishaps + 1
        \/ /\ compareAndSet(k) /\ inv' = saveAggregate(k)
           /\ mishaps' = mishaps /\ SavedAs(c)
    BY <1>2, SaveBranches
  <1>5. mishaps' \in Nat
    BY <1>4 DEF FieldInv, FieldTypeOK
  <1>6. CASE Ends(c) /\ UNCHANGED <<inv, sess, writes, linked>>
    BY <1>1, <1>3, <1>5, <1>6, EndStep DEF InvStep, LinkStep
  <1>7. CASE compareAndSet(k) /\ inv' = saveAggregate(k) /\ SavedAs(c)
    <2>1. /\ k.inv \in 1 .. MaxPresses /\ InvStep /\ inv'[k.inv] = transition(k)
          /\ inv'[k.inv] \in Snapshots
          /\ k.op \in Captured => k.n \in Elements(transition(k).evidence)
          /\ k.op = "note" => k.n \in transition(k).observations
      BY <1>1, <1>7, SaveReplaces
    <2>2. CASE k.op \in Captured \cup {"note"} /\ Ends(c) /\ UNCHANGED <<sess, writes>>
               /\ linked' = linked \cup {[inv |-> k.inv, n |-> k.n, note |-> k.op = "note"]}
      <3> DEFINE L == [inv : 1 .. MaxPresses, n : Nat, note : BOOLEAN]
      <3> DEFINE l0 == [inv |-> k.inv, n |-> k.n, note |-> k.op = "note"]
      <3>1. PICK l \in L : /\ l.inv = k.inv /\ l.n = k.n
                           /\ l.note <=> (k.op = "note")
                           /\ linked' = linked \cup {l}
        <4>1. l0 \in L /\ linked' = linked \cup {l0}
          BY <1>2, <2>1, <2>2
        <4>2. l0.inv = k.inv /\ l0.n = k.n
          OBVIOUS
        <4>3. l0.note <=> (k.op = "note")
          OBVIOUS
        <4> HIDE DEF l0
        <4> QED BY <4>1, <4>2, <4>3
      <3>2. inv'[l.inv] = transition(k) /\ inv'[l.inv] # None
        BY <2>1, <3>1, SnapshotFacts
      <3>3. l.n \in (IF l.note THEN transition(k).observations
                     ELSE Elements(transition(k).evidence))
        BY <2>1, <2>2, <3>1 DEF Captured
      <3>4. LinkKept(l)'
        BY <3>2, <3>3 DEF LinkKept
      <3>5. LinkStep
        BY <3>1, <3>4 DEF LinkStep
      <3> QED BY <1>1, <1>3, <1>5, <2>1, <2>2, <3>5, EndStep
    <2>3. ASSUME NEW next \in Sessions, ApprovalsOK(next.wf), Points(next),
                 saveSession(c, next, writes), Goes(c, "pointing"), linked' = linked,
                 k.op \in OnScreenOps
          PROVE  HandlerStep(c)
      BY <1>1, <1>3, <1>5, <2>1, <2>3, PointStep DEF LinkStep
    <2>4. CASE k.op \in OnScreenOps
      <3>1. k.session \in Sessions /\ ApprovalsOK(k.session.wf)
        BY <1>2, <2>4
      <3>2. Goes(c, "pointing") /\ linked' = linked
        BY <1>1, <1>7, <2>4 DEF SavedAs, OnScreenOps, Captured
      <3>3. PICK next \in Sessions :
               saveSession(c, next, writes) /\ next.wf = k.session.wf /\ Points(next)
        <4>1. CASE k.op = "area"
          <5>1. nextArea(k.session.area) \in AreaNames
            BY <3>1, SessionFields, NextAreaExists
          <5> DEFINE next == [k.session EXCEPT !.area = nextArea(k.session.area)]
          <5>2. /\ next \in Sessions /\ next.active = k.session.active
                /\ next.wf = k.session.wf
            BY <3>1, <5>1, SessionFields
          <5>3. saveSession(c, next, writes)
            BY <1>1, <1>7, <4>1 DEF SavedAs, Captured
          <5> HIDE DEF next
          <5> QED BY <1>2, <4>1, <5>2, <5>3 DEF Points, Pointed
        <4>2. CASE k.op = "start"
          <5> DEFINE next == [k.session EXCEPT !.active = k.inv]
          <5>1. next \in Sessions /\ next.active = k.inv /\ next.wf = k.session.wf
            BY <1>2, <3>1, SessionFields
          <5>2. saveSession(c, next, writes)
            BY <1>1, <1>7, <4>2 DEF SavedAs, Captured
          <5> HIDE DEF next
          <5> QED BY <1>2, <5>1, <5>2 DEF Points, Pointed
        <4>3. CASE k.op = "finish"
          <5> DEFINE next == [k.session EXCEPT !.active = 0, !.last = k.inv]
          <5>1. /\ next \in Sessions /\ next.active = 0 /\ next.last = k.inv
                /\ next.wf = k.session.wf
            BY <1>2, <3>1, SessionFields
          <5>2. saveSession(c, next, writes)
            BY <1>1, <1>7, <4>3 DEF SavedAs, Captured
          <5> HIDE DEF next
          <5> QED BY <1>2, <5>1, <5>2 DEF Points, Pointed
        <4> QED BY <2>4, <4>1, <4>2, <4>3 DEF OnScreenOps
      <3> QED BY <2>3, <2>4, <3>1, <3>2, <3>3
    <2>5. CASE k.op \in {"pause", "resume"}
      <3> DEFINE x == IF k.op = "pause" THEN "paused" ELSE "active"
                 v0 == [wf EXCEPT !.status = x]
      <3>1. Goes(c, "closing") /\ linked' = linked /\ saveWorkflow(c, v0, writes)
        BY <1>1, <1>7, <2>5 DEF SavedAs, Captured, WithStatus
      <3>2. x \in WorkflowStates
        BY DEF WorkflowStates
      <3> HIDE DEF x
      <3>3. PICK v : v = v0
        OBVIOUS
      <3>4. v \in Workflows /\ v.items = wf.items /\ v.approved = wf.approved
        BY <3>2, <3>3, StatusOfWorkflow DEF FieldInv, FieldTypeOK
      <3>5. ApprovalsOK(v)
        BY <3>4, SameApprovals DEF FieldInv, SessionsOK
      <3>6. /\ doing' \in [Handlers -> HandlerRecords]
            /\ \A d \in Handlers \ {c} : doing'[d] = doing[d]
            /\ doing'[c].pc = "closing" /\ doing'[c].op = k.op
        BY <3>1, GoesEffect DEF FieldInv, HandlerPcs
      <3>7. Pushes(c, writes)
        BY <1>2, <2>5, <3>1, <3>3, <3>4, <3>5, <3>6, WorkflowPushes DEF FieldInv, FieldTypeOK
      <3>8. HandlerOK(doing[c])'
        <4>1. Points(sess)'
          BY <1>2, <2>5, <3>7 DEF Pushes
        <4> QED BY <2>5, <3>6, <4>1 DEF HandlerOK
      <3>9. TakenStep(c) /\ LinkStep
        BY <1>3, <3>1, <3>6 DEF TakenStep, Reserved, LinkStep
      <3> QED BY <1>1, <1>3, <1>5, <2>1, <3>6, <3>7, <3>8, <3>9
              DEF HandlerStep, FieldInv, FieldTypeOK
    <2>6. CASE k.op \in Captured \cup {"note"}
      BY <1>1, <1>7, <2>2, <2>6 DEF SavedAs, Captured
    <2> QED BY <1>2, <2>4, <2>5, <2>6 DEF Transitions, OnScreenOps
  <1> QED BY <1>4, <1>6, <1>7
-----------------------------------------------------------------------------
(* The write at the head of the queue.                                     *)
LEMMA TailFacts ==
    ASSUME FieldInv, writes # <<>>
    PROVE  /\ Head(writes) \in Entries /\ EntryOK(Head(writes)) /\ app = "running"
           /\ Tail(writes) \in Seq(Entries)
           /\ \A i \in DOMAIN Tail(writes) :
                 /\ EntryOK(Tail(writes)[i]) /\ Tail(writes)[i].by # Head(writes).by
                 /\ Head(writes).session.seq <= Tail(writes)[i].session.seq
           /\ \A i, j \in DOMAIN Tail(writes) : i < j =>
                 /\ Tail(writes)[i].by # Tail(writes)[j].by
                 /\ Tail(writes)[i].session.seq <= Tail(writes)[j].session.seq
  <1>1. writes \in Seq(Entries) /\ QueueOK /\ app = "running"
    BY DEF FieldInv, FieldTypeOK, RestOK
  <1>2. Len(writes) \in Nat \ {0} /\ DOMAIN writes = 1 .. Len(writes)
    BY <1>1, EmptySeq, LenProperties
  <1>3. /\ Head(writes) = writes[1] /\ Tail(writes) \in Seq(Entries)
        /\ Len(Tail(writes)) = Len(writes) - 1
        /\ \A i \in 1 .. Len(Tail(writes)) : Tail(writes)[i] = writes[i + 1]
    BY <1>1, HeadTailProperties
  <1>4. DOMAIN Tail(writes) = 1 .. Len(writes) - 1
    BY <1>3, LenProperties
  <1>5. 1 \in DOMAIN writes
    BY <1>2
  <1>6. writes[1] \in Entries
    BY <1>1, <1>5, ElementOfSeq
  <1>7. ASSUME NEW i \in DOMAIN Tail(writes)
        PROVE  /\ i + 1 \in DOMAIN writes /\ 1 < i + 1
               /\ Tail(writes)[i] = writes[i + 1]
    BY <1>2, <1>3, <1>4, <1>7
  <1>8. ASSUME NEW i \in DOMAIN Tail(writes), NEW j \in DOMAIN Tail(writes), i < j
        PROVE  i + 1 < j + 1
    BY <1>2, <1>4, <1>8
  <1> QED BY <1>1, <1>3, <1>5, <1>6, <1>7, <1>8 DEF QueueOK

(* What a done write of handler c leaves: the stored session is the one    *)
(* written or the old one, and only c has moved.                           *)
WriteStep(c) ==
    /\ doing' \in [Handlers -> HandlerRecords]
    /\ \A d \in Handlers \ {c} : doing'[d] = doing[d]
    /\ HandlerOK(doing[c])'
    /\ Reserved(c)' => Reserved(c) /\ doing'[c].n = doing[c].n
    /\ stored' \in Sessions /\ SessionOK(stored)'
    /\ stored.seq <= stored'.seq /\ stored'.seq <= Head(writes).session.seq
    /\ wf' \in Workflows /\ ApprovalsOK(wf)' /\ (wf'.status # "none" => Points(sess))
    /\ saved' \in Workflows /\ ReportedIsDurable'
    /\ mishaps' \in Nat /\ UNCHANGED <<app, inv, presses, taken, linked>>
    /\ \/ sess' = sess /\ writes' = Tail(writes)
       \/ Pushes(c, Tail(writes))

LEMMA WriteStepPreserves ==
    ASSUME FieldInv, writes # <<>>, NEW c \in Handlers, c = Head(writes).by, WriteStep(c)
    PROVE  FieldInv'
  <1> DEFINE q == Tail(writes)
  <1>1. /\ sess \in Sessions /\ sess' \in Sessions /\ stored \in Sessions /\ stored' \in Sessions
        /\ sess.seq <= sess'.seq /\ stored.seq <= stored'.seq
        /\ Points(sess) => Points(sess)'
    <2>1. sess \in Sessions /\ stored \in Sessions /\ stored' \in Sessions
      BY DEF FieldInv, FieldTypeOK, WriteStep
    <2>2. sess.seq \in Nat
      BY <2>1, SessionFields
    <2> QED BY <2>1, <2>2 DEF WriteStep, Pushes, Points, Pointed
  <1>2. /\ sess.seq \in Nat /\ sess'.seq \in Nat /\ stored.seq \in Nat /\ stored'.seq \in Nat
    BY <1>1, SessionFields
  <1>3. /\ Head(writes) \in Entries /\ Head(writes).session.seq \in Nat
        /\ Head(writes).session.seq <= sess.seq
        /\ q \in Seq(Entries) /\ app = "running"
    <2>1. Head(writes) \in Entries /\ EntryOK(Head(writes))
      BY TailFacts
    <2> QED BY <2>1, TailFacts, SessionFields DEF EntryOK, Entries
  <1>4. stored'.seq <= sess.seq /\ stored'.seq <= sess'.seq
    BY <1>1, <1>2, <1>3 DEF WriteStep
  <1>5. ASSUME NEW i \in DOMAIN q
        PROVE  /\ q[i] \in Entries /\ EntryOK(q[i]) /\ q[i].by # c
               /\ stored'.seq <= q[i].session.seq
    <2>1. q[i] \in Entries
      BY <1>3, <1>5, ElementOfSeq
    <2>2. /\ EntryOK(q[i]) /\ q[i].by # c
          /\ Head(writes).session.seq <= q[i].session.seq
      BY <1>5, TailFacts
    <2>3. q[i].session.seq \in Nat
      BY <2>1, SessionFields DEF Entries
    <2> QED BY <1>2, <1>3, <2>1, <2>2, <2>3 DEF WriteStep
  <1>6. \A i, j \in DOMAIN q : i < j =>
           /\ q[i].by # q[j].by /\ q[i].session.seq <= q[j].session.seq
    BY TailFacts
  <1> HIDE DEF q
  <1>7. QueueOK' /\ writes' \in Seq(Entries)
    <2>1. CASE Pushes(c, q)
      BY <1>1, <1>3, <1>4, <1>5, <1>6, <2>1, QueueGrows DEF WriteStep
    <2>2. CASE sess' = sess /\ writes' = q
      <3>1. ASSUME NEW i \in DOMAIN q PROVE EntryOK(writes[i])'
        <4>1. PICK e \in Entries : e = q[i]
          BY <1>5, <3>1
        <4>2. /\ EntryOK(e) /\ e.by # c /\ stored'.seq <= e.session.seq
              /\ e.by \in Handlers
          BY <1>5, <3>1, <4>1 DEF Entries
        <4>3. EntryOK(e)'
          BY <1>1, <4>2, EntryKept DEF WriteStep
        <4> QED BY <2>2, <4>1, <4>3
      <3> QED BY <1>3, <1>6, <2>2, <3>1 DEF QueueOK
    <2> QED BY <2>1, <2>2 DEF WriteStep, q
  <1>8. FieldTypeOK'
    BY <1>1, <1>7 DEF FieldInv, FieldTypeOK, WriteStep
  <1>9. SessionsOK'
    <2>1. SessionOK(sess)'
      BY DEF WriteStep, Pushes, FieldInv, SessionsOK, SessionOK, ApprovalsOK,
             Points, Pointed, assertConfirmableVerifier
    <2> QED BY <1>1, <1>4, <2>1 DEF WriteStep, SessionsOK
  <1>10. ASSUME NEW d \in Handlers PROVE HandlerOK(doing[d])'
    <2>1. CASE d = c
      BY <2>1 DEF WriteStep
    <2>2. CASE d # c
      BY <1>1, <1>10, <2>2, OtherHandler DEF WriteStep, InvStep
    <2> QED BY <2>1, <2>2
  <1>11. SequencesOK'
    <2>1. ASSUME NEW d \in Handlers, Reserved(d)'
          PROVE  Reserved(d) /\ doing'[d].n = doing[d].n
      BY <2>1 DEF WriteStep, Reserved
    <2>2. ASSUME NEW i \in DOMAIN taken PROVE taken[i] < stored'.seq
      <3>1. taken[i] \in Nat /\ taken[i] < stored.seq
        BY <2>2, ElementOfSeq DEF FieldInv, FieldTypeOK, SequencesOK
      <3> QED BY <1>1, <1>2, <3>1
    <2>3. taken' = taken
      BY DEF WriteStep
    <2> QED BY <2>1, <2>2, <2>3 DEF FieldInv, SequencesOK, SequencesAreUnique
  <1>12. LinksOK'
    BY DEF WriteStep, FieldInv, LinksOK, LinkKept
  <1>13. RestOK' /\ ReportedIsDurable'
    BY <1>3 DEF WriteStep, RestOK, NoGhostInvestigation
  <1> QED BY <1>7, <1>8, <1>9, <1>10, <1>11, <1>12, <1>13 DEF FieldInv

(* What a handler does after its write, by the write it waited for.        *)
AfterAs(c, session) ==
    \/ /\ doing[c].pc = "reserving" /\ Goes(c, "capturing")
       /\ writes' = Tail(writes) /\ UNCHANGED <<sess, wf, saved>>
    \/ /\ doing[c].pc = "pointing" /\ doing[c].op = "area" /\ Ends(c)
       /\ writes' = Tail(writes) /\ UNCHANGED <<sess, wf, saved>>
    \/ /\ doing[c].pc = "pointing" /\ doing[c].op # "area" /\ Goes(c, "closing")
       /\ saveWorkflow(c, WithStatus(IF doing[c].op = "start" THEN "active"
                                     ELSE finishedStatus(doing[c].arg)), Tail(writes))
       /\ UNCHANGED <<wf, saved>>
    \/ /\ doing[c].pc = "closing" /\ Ends(c) /\ writes' = Tail(writes)
       /\ wf' = session.wf /\ saved' = session.wf /\ sess' = sess

LEMMA AfterBranches ==
    ASSUME NEW c, NEW session, doing[c].pc \in Writing, afterWrite(c, session)
    PROVE  AfterAs(c, session)
  <1>1. CASE doing[c].pc = "reserving"
    BY <1>1 DEF afterWrite, AfterAs
  <1>2. CASE doing[c].pc = "pointing" /\ doing[c].op = "area"
    BY <1>2 DEF afterWrite, AfterAs
  <1>3. CASE doing[c].pc = "pointing" /\ doing[c].op # "area"
    BY <1>3 DEF afterWrite, AfterAs
  <1>4. CASE doing[c].pc = "closing"
    BY <1>4 DEF afterWrite, AfterAs
  <1> QED BY <1>1, <1>2, <1>3, <1>4 DEF Writing
LEMMA SessionWritePreserves ==
    ASSUME FieldInv, sessionWrite
    PROVE  FieldInv'
  <1>1. writes # <<>> /\ UNCHANGED <<app, inv, presses, taken, linked>>
    BY DEF sessionWrite
  <1>2. Head(writes) \in Entries /\ EntryOK(Head(writes)) /\ Tail(writes) \in Seq(Entries)
    BY <1>1, TailFacts
  <1>3. PICK c \in Handlers, next \in Sessions :
           c = Head(writes).by /\ next = Head(writes).session
    BY <1>2 DEF Entries
  <1>4. /\ SessionOK(next)
        /\ Points(next) => Points(sess)
        /\ stored.seq <= next.seq /\ doing[c].pc \in Writing
        /\ doing[c].pc = "pointing" /\ doing[c].op # "area" => Points(next)
        /\ doing[c].pc = "reserving" => doing[c].n < next.seq
    BY <1>2, <1>3 DEF EntryOK
  <1>5. /\ sess \in Sessions /\ stored \in Sessions /\ wf \in Workflows
        /\ saved \in Workflows /\ mishaps \in Nat /\ HandlerOK(doing[c])
    BY DEF FieldInv, FieldTypeOK
  <1>6. /\ stored.seq \in Nat /\ next.seq \in Nat
        /\ next.wf \in Workflows /\ stored.wf \in Workflows
    BY <1>3, <1>5, SessionFields
  <1>7. \/ /\ stored' = stored /\ Ends(c) /\ writes' = Tail(writes)
           /\ UNCHANGED <<sess, wf, saved>>
           /\ mishaps' = mishaps \/ mishaps' = mishaps + 1
        \/ /\ appendsOneRevision(next) /\ stored' = next /\ mishaps' = mishaps
           /\ afterWrite(c, next)
    BY <1>3 DEF sessionWrite
  <1>8. CASE /\ stored' = stored /\ Ends(c) /\ writes' = Tail(writes)
             /\ UNCHANGED <<sess, wf, saved>>
             /\ mishaps' = mishaps \/ mishaps' = mishaps + 1
    <2>1. /\ doing' \in [Handlers -> HandlerRecords] /\ doing'[c] = Idle
          /\ \A d \in Handlers \ {c} : doing'[d] = doing[d]
      BY <1>8, EndsEffect DEF FieldInv
    <2>2. HandlerOK(doing[c])' /\ ~Reserved(c)'
      BY <2>1, IdleIsOK, IdleFacts DEF Reserved
    <2>3. SessionOK(stored)' /\ ApprovalsOK(wf)' /\ (wf'.status # "none" => Points(sess))
      BY <1>8 DEF FieldInv, SessionsOK, SessionOK, ApprovalsOK, Points, Pointed,
                  assertConfirmableVerifier
    <2>4. ReportedIsDurable'
      BY <1>8 DEF FieldInv, ReportedIsDurable
    <2>5. stored.seq <= stored'.seq /\ stored'.seq <= Head(writes).session.seq
      BY <1>3, <1>4, <1>6, <1>8
    <2>6. mishaps' \in Nat
      BY <1>5, <1>8
    <2>7. WriteStep(c)
      BY <1>1, <1>5, <1>8, <2>1, <2>2, <2>3, <2>4, <2>5, <2>6 DEF WriteStep
    <2> QED BY <1>1, <1>3, <2>7, WriteStepPreserves
  <1>9. CASE /\ appendsOneRevision(next) /\ stored' = next /\ mishaps' = mishaps
             /\ afterWrite(c, next)
    <2>1. AfterAs(c, next)
      BY <1>4, <1>9, AfterBranches
    <2>2. /\ stored' \in Sessions /\ stored.seq <= stored'.seq
          /\ stored'.seq <= Head(writes).session.seq
      BY <1>3, <1>4, <1>6, <1>9
    <2>3. SessionOK(stored)'
      BY <1>4, <1>9 DEF SessionOK, ApprovalsOK, Points, Pointed, assertConfirmableVerifier
    <2>4. saved' = saved => ReportedIsDurable'
      <3>1. /\ saved.revision \in Nat /\ stored.wf.revision \in Nat
            /\ next.wf.revision \in Nat
        BY <1>5, <1>6 DEF Workflows
      <3>2. /\ stored.wf.revision >= saved.revision
            /\ stored.wf.revision = saved.revision => stored.wf = saved
        BY DEF FieldInv, ReportedIsDurable
      <3>3. \/ next.wf = stored.wf
            \/ next.wf.revision = stored.wf.revision + 1
        BY <1>9 DEF appendsOneRevision
      <3> QED BY <1>9, <3>1, <3>2, <3>3 DEF ReportedIsDurable
    <2>5. wf' = wf => ApprovalsOK(wf)' /\ (wf'.status # "none" => Points(sess))
      BY DEF FieldInv, SessionsOK, ApprovalsOK, assertConfirmableVerifier
    <2>6. CASE /\ doing[c].pc = "reserving" /\ Goes(c, "capturing")
               /\ writes' = Tail(writes) /\ UNCHANGED <<sess, wf, saved>>
      <3>1. /\ doing' \in [Handlers -> HandlerRecords]
            /\ \A d \in Handlers \ {c} : doing'[d] = doing[d]
            /\ doing'[c].pc = "capturing" /\ doing'[c].op = doing[c].op
            /\ doing'[c].n = doing[c].n
        BY <2>6, GoesEffect DEF FieldInv, HandlerPcs
      <3>2. doing[c].op \in Captured
        BY <1>5, <2>6 DEF HandlerOK
      <3>3. HandlerOK(doing[c])' /\ Reserved(c)
        BY <1>4, <1>9, <2>6, <3>1, <3>2 DEF HandlerOK, Captured, Reserved
      <3>4. WriteStep(c)
        BY <1>1, <1>5, <1>9, <2>2, <2>3, <2>4, <2>5, <2>6, <3>1, <3>3 DEF WriteStep
      <3> QED BY <1>1, <1>3, <3>4, WriteStepPreserves
    <2>7. CASE /\ doing[c].pc = "pointing" /\ doing[c].op = "area" /\ Ends(c)
               /\ writes' = Tail(writes) /\ UNCHANGED <<sess, wf, saved>>
      <3>1. /\ doing' \in [Handlers -> HandlerRecords] /\ doing'[c] = Idle
            /\ \A d \in Handlers \ {c} : doing'[d] = doing[d]
        BY <2>7, EndsEffect DEF FieldInv
      <3>2. HandlerOK(doing[c])' /\ ~Reserved(c)'
        BY <3>1, IdleIsOK, IdleFacts DEF Reserved
      <3>3. WriteStep(c)
        BY <1>1, <1>5, <1>9, <2>2, <2>3, <2>4, <2>5, <2>7, <3>1, <3>2 DEF WriteStep
      <3> QED BY <1>1, <1>3, <3>3, WriteStepPreserves
    <2>8. CASE /\ doing[c].pc = "pointing" /\ doing[c].op # "area" /\ Goes(c, "closing")
               /\ saveWorkflow(c, WithStatus(IF doing[c].op = "start" THEN "active"
                                             ELSE finishedStatus(doing[c].arg)), Tail(writes))
               /\ UNCHANGED <<wf, saved>>
      <3>1. PICK x \in WorkflowStates :
               x = IF doing[c].op = "start" THEN "active" ELSE finishedStatus(doing[c].arg)
        BY DEF WorkflowStates, finishedStatus
      <3>2. PICK v : v = [wf EXCEPT !.status = x]
        OBVIOUS
      <3>3. saveWorkflow(c, v, Tail(writes))
        BY <2>8, <3>1, <3>2 DEF WithStatus
      <3>4. v \in Workflows /\ v.items = wf.items /\ v.approved = wf.approved
        BY <1>5, <3>2, StatusOfWorkflow
      <3>5. ApprovalsOK(v)
        BY <3>4, SameApprovals DEF FieldInv, SessionsOK
      <3>6. /\ doing' \in [Handlers -> HandlerRecords]
            /\ \A d \in Handlers \ {c} : doing'[d] = doing[d]
            /\ doing'[c].pc = "closing" /\ doing'[c].op = doing[c].op
        BY <2>8, GoesEffect DEF FieldInv, HandlerPcs
      <3>7. Points(sess)
        BY <1>4, <2>8
      <3>8. Pushes(c, Tail(writes))
        BY <1>2, <3>3, <3>4, <3>5, <3>6, <3>7, WorkflowPushes
      <3>9. doing[c].op \in OnScreenOps
        BY <1>5, <2>8 DEF HandlerOK
      <3>10. HandlerOK(doing[c])' /\ ~Reserved(c)'
        BY <3>6, <3>9 DEF HandlerOK, OnScreenOps, Reserved
      <3>11. WriteStep(c)
        BY <1>1, <1>5, <1>9, <2>2, <2>3, <2>4, <2>5, <2>8, <3>6, <3>8, <3>10 DEF WriteStep
      <3> QED BY <1>1, <1>3, <3>11, WriteStepPreserves
    <2>9. CASE /\ doing[c].pc = "closing" /\ Ends(c) /\ writes' = Tail(writes)
               /\ wf' = next.wf /\ saved' = next.wf /\ sess' = sess
      <3>1. /\ doing' \in [Handlers -> HandlerRecords] /\ doing'[c] = Idle
            /\ \A d \in Handlers \ {c} : doing'[d] = doing[d]
        BY <2>9, EndsEffect DEF FieldInv
      <3>2. HandlerOK(doing[c])' /\ ~Reserved(c)'
        BY <3>1, IdleIsOK, IdleFacts DEF Reserved
      <3>3. ReportedIsDurable'
        <4>1. next.wf.revision \in Nat
          BY <1>6 DEF Workflows
        <4> QED BY <1>9, <2>9, <4>1 DEF ReportedIsDurable
      <3>4. ApprovalsOK(wf)' /\ (wf'.status # "none" => Points(sess))
        BY <1>4, <2>9 DEF SessionOK, ApprovalsOK, assertConfirmableVerifier
      <3>5. WriteStep(c)
        BY <1>1, <1>5, <1>6, <1>9, <2>2, <2>3, <2>9, <3>1, <3>2, <3>3, <3>4 DEF WriteStep
      <3> QED BY <1>1, <1>3, <3>5, WriteStepPreserves
    <2> QED BY <2>1, <2>6, <2>7, <2>8, <2>9 DEF AfterAs
  <1> QED BY <1>7, <1>8, <1>9
-----------------------------------------------------------------------------
(* The app is killed, and starts again: only what is stored remains.       *)
LEMMA KillPreserves ==
    ASSUME FieldInv, Kill
    PROVE  FieldInv'
  <1>1. /\ app' = "down" /\ doing' = [c \in Handlers |-> Idle] /\ writes' = <<>>
        /\ sess' = stored /\ wf' = stored.wf
        /\ UNCHANGED <<stored, inv, presses, taken, linked, saved>>
        /\ mishaps' = mishaps + 1
    BY DEF Kill, Mishap
  <1>2. stored \in Sessions
    BY DEF FieldInv, FieldTypeOK
  <1>3. stored.seq \in Nat /\ stored.wf \in Workflows
    BY <1>2, SessionFields
  <1>4. \A c \in Handlers : doing'[c] = Idle /\ HandlerOK(doing[c])' /\ ~Reserved(c)'
    BY <1>1, IdleIsOK, IdleFacts DEF Reserved
  <1>5. QueueOK' /\ writes' \in Seq(Entries)
    BY <1>1 DEF QueueOK
  <1>6. doing' \in [Handlers -> HandlerRecords]
    BY <1>1, IdleFacts
  <1>7. FieldTypeOK'
    BY <1>1, <1>3, <1>5, <1>6 DEF FieldInv, FieldTypeOK
  <1>8. SessionsOK'
    BY <1>1, <1>3 DEF FieldInv, SessionsOK, SessionOK, ApprovalsOK, Points, Pointed,
                      assertConfirmableVerifier
  <1>9. SequencesOK'
    BY <1>1, <1>4 DEF FieldInv, SequencesOK, SequencesAreUnique
  <1>10. LinksOK' /\ RestOK' /\ ReportedIsDurable'
    BY <1>1, <1>4 DEF FieldInv, LinksOK, LinkKept, RestOK, NoGhostInvestigation,
                      ReportedIsDurable
  <1> QED BY <1>4, <1>5, <1>7, <1>8, <1>9, <1>10 DEF FieldInv

(* The status shown after a start is that of the investigation pointed to. *)
LEMMA ReconcileStatusEffect ==
    ASSUME NEW w \in Workflows, NEW status \in WorkflowStates
    PROVE  LET v == reconcileInvestigationStatus(w, status) IN
           /\ v \in Workflows /\ v.status = status
           /\ v.items = w.items /\ v.approved = w.approved
           /\ v = w \/ v.revision = w.revision + 1
  <1>1. w.revision + 1 \in Nat
    BY DEF Workflows
  <1>2. CASE w.status = status
    BY <1>2 DEF reconcileInvestigationStatus
  <1>3. CASE w.status # status
    <2>1. PICK v : v = [w EXCEPT !.status = status, !.revision = w.revision + 1]
      OBVIOUS
    <2>2. /\ v \in Workflows /\ v.status = status /\ v.items = w.items
          /\ v.approved = w.approved /\ v.revision = w.revision + 1
      BY <1>1, <2>1 DEF Workflows
    <2>3. reconcileInvestigationStatus(w, status) = v
      BY <1>3, <2>1 DEF reconcileInvestigationStatus
    <2> QED BY <2>2, <2>3
  <1> QED BY <1>2, <1>3

LEMMA InitialisePreserves ==
    ASSUME FieldInv, initialise
    PROVE  FieldInv'
  <1> DEFINE p == Pointed(stored)
  <1>1. /\ app = "down" /\ app' = "restarted"
        /\ UNCHANGED <<writes, doing, inv, presses, mishaps, taken, linked, saved>>
    BY DEF initialise
  <1>2. /\ writes = <<>> /\ \A c \in Handlers : doing[c] = Idle
    BY <1>1 DEF FieldInv, RestOK
  <1>3. stored \in Sessions /\ SessionOK(stored)
    BY DEF FieldInv, FieldTypeOK, SessionsOK
  <1>4. stored.wf \in Workflows /\ p \in Identities
    BY <1>3, SessionFields DEF Pointed
  <1>5. PICK w \in Workflows :
           /\ wf' = w /\ sess' = [stored EXCEPT !.wf = w] /\ stored' = sess'
           /\ w.items = stored.wf.items /\ w.approved = stored.wf.approved
           /\ w = stored.wf \/ w.revision = stored.wf.revision + 1
           /\ w.status = IF p = 0 THEN "none" ELSE inv[p].status
    <2>1. CASE p = 0
      BY <1>3, <1>4, <2>1 DEF initialise, SessionOK, Points
    <2>2. CASE p # 0
      <3>1. p \in 1 .. MaxPresses
        BY <1>4, <2>2, FieldAssumption DEF Identities
      <3>2. inv[p].status \in WorkflowStates
        <4>1. inv[p] \in Snapshots \cup {None}
          BY <3>1 DEF FieldInv, FieldTypeOK
        <4>2. None.status \in WorkflowStates
          BY SnapshotFacts DEF WorkflowStates
        <4>3. inv[p] \in Snapshots => inv[p].status \in WorkflowStates
          BY SnapshotFields DEF Begun
        <4> QED BY <4>1, <4>2, <4>3
      <3>3. PICK w : w = reconcileInvestigationStatus(stored.wf, inv[p].status)
        OBVIOUS
      <3>4. wf' = w /\ sess' = [stored EXCEPT !.wf = w] /\ stored' = sess'
        BY <2>2, <3>3 DEF initialise
      <3>5. /\ w \in Workflows /\ w.status = inv[p].status
            /\ w.items = stored.wf.items /\ w.approved = stored.wf.approved
            /\ w = stored.wf \/ w.revision = stored.wf.revision + 1
        BY <1>4, <3>2, <3>3, ReconcileStatusEffect
      <3> QED BY <2>2, <3>4, <3>5
    <2> QED BY <2>1, <2>2
  <1>6. /\ sess' \in Sessions /\ sess'.active = stored.active /\ sess'.last = stored.last
        /\ sess'.wf = w /\ sess'.seq = stored.seq /\ stored.seq \in Nat
    BY <1>3, <1>5, SessionFields
  <1>7. Pointed(sess)' = p
    BY <1>6 DEF Pointed
  <1>8. FieldTypeOK'
    BY <1>1, <1>5, <1>6 DEF FieldInv, FieldTypeOK
  <1>9. ApprovalsOK(w)
    BY <1>3, <1>5, SameApprovals DEF SessionOK
  <1>10. SessionsOK'
    <2>1. ApprovalsOK(wf)' /\ ApprovalsOK(sess.wf)' /\ ApprovalsOK(stored.wf)'
      BY <1>5, <1>6, <1>9 DEF ApprovalsOK, assertConfirmableVerifier
    <2>2. w.status # "none" => Pointed(sess)' # 0
      BY <1>5, <1>7
    <2>3. Pointed(stored)' = Pointed(sess)'
      BY <1>5 DEF Pointed
    <2>4. stored'.seq <= sess'.seq
      BY <1>5, <1>6
    <2> QED BY <1>5, <1>6, <2>1, <2>2, <2>3, <2>4 DEF SessionsOK, SessionOK, Points
  <1>11. QueueOK'
    BY <1>1, <1>2 DEF QueueOK
  <1>12. \A c \in Handlers : doing'[c] = Idle /\ HandlerOK(doing[c])' /\ ~Reserved(c)'
    BY <1>1, <1>2, IdleIsOK, IdleFacts DEF Reserved
  <1>13. SequencesOK'
    BY <1>1, <1>5, <1>6, <1>12 DEF FieldInv, SequencesOK, SequencesAreUnique
  <1>14. LinksOK'
    BY <1>1 DEF FieldInv, LinksOK, LinkKept
  <1>15. RestOK'
    <2>1. NoGhostInvestigation'
      BY <1>1, <1>5, <1>7 DEF NoGhostInvestigation
    <2> QED BY <1>1, <1>2, <1>12, <2>1 DEF RestOK
  <1>16. ReportedIsDurable'
    <2>1. /\ saved.revision \in Nat /\ stored.wf.revision \in Nat
      BY <1>4 DEF FieldInv, FieldTypeOK, Workflows
    <2> QED BY <1>1, <1>5, <1>6, <2>1 DEF FieldInv, ReportedIsDurable
  <1> QED BY <1>8, <1>10, <1>11, <1>12, <1>13, <1>14, <1>15, <1>16 DEF FieldInv
-----------------------------------------------------------------------------
(* The invariant of FieldWork, and what follows from it.                   *)
LEMMA FieldStarts == FieldInit => FieldInv
  <1> SUFFICES ASSUME FieldInit PROVE FieldInv
    OBVIOUS
  <1>1. FirstItem \in ReviewItems /\ assertConfirmableVerifier(FirstItem)
    BY DEF FirstItem, ReviewItems, assertConfirmableVerifier
  <1>2. 0 \in Identities /\ {} \in Manifests
    BY FieldAssumption DEF Identities, Manifests
  <1>3. PICK w : w = initialFieldWorkflow
    OBVIOUS
  <1>4. /\ w \in Workflows /\ w.status = "none" /\ w.approved = {}
        /\ \A m \in Commissioned : w.items[m] = FirstItem
    BY <1>1, <1>2, <1>3 DEF initialFieldWorkflow, Workflows, WorkflowStates, NoManifest
  <1>5. ApprovalsOK(w)
    BY <1>1, <1>4 DEF ApprovalsOK
  <1>6. PICK s : s = initialDemoSession
    OBVIOUS
  <1>7. s \in Sessions /\ s.active = 0 /\ s.last = 0 /\ s.seq = 1 /\ s.wf = w
    BY <1>2, <1>3, <1>4, <1>6, FirstAreaExists DEF initialDemoSession, Sessions
  <1>8. /\ app = "restarted" /\ sess = s /\ wf = w /\ stored = s /\ writes = <<>>
        /\ doing = [c \in Handlers |-> Idle] /\ inv = [i \in 1 .. MaxPresses |-> None]
        /\ presses = 0 /\ mishaps = 0 /\ taken = <<>> /\ linked = {} /\ saved = w
    BY <1>6, <1>7 DEF FieldInit
  <1>9. FieldTypeOK
    BY <1>2, <1>4, <1>7, <1>8, IdleFacts DEF FieldTypeOK
  <1>10. SessionsOK
    BY <1>4, <1>5, <1>7, <1>8 DEF SessionsOK, SessionOK
  <1>11. QueueOK
    BY <1>8 DEF QueueOK
  <1>12. ASSUME NEW c \in Handlers
         PROVE  doing[c] = Idle /\ HandlerOK(doing[c]) /\ ~Reserved(c)
    BY <1>8, IdleFacts DEF HandlerOK, Reserved
  <1>13. SequencesOK
    BY <1>8, <1>12 DEF SequencesOK, SequencesAreUnique
  <1>14. LinksOK
    BY <1>8, SnapshotFacts DEF LinksOK
  <1>15. RestOK
    BY <1>4, <1>7, <1>8 DEF RestOK, NoGhostInvestigation, Pointed
  <1>16. ReportedIsDurable
    <2>1. w.revision \in Nat
      BY <1>4 DEF Workflows
    <2> QED BY <1>7, <1>8, <2>1 DEF ReportedIsDurable
  <1> QED BY <1>9, <1>10, <1>11, <1>12, <1>13, <1>14, <1>15, <1>16 DEF FieldInv

LEMMA FieldStutters ==
    ASSUME FieldInv, UNCHANGED fieldVars
    PROVE  FieldInv'
  <1>1. /\ FieldTypeOK' /\ SessionsOK'
    BY DEF fieldVars, FieldInv, FieldTypeOK, SessionsOK, SessionOK, ApprovalsOK, Points,
           Pointed, assertConfirmableVerifier
  <1>2. QueueOK'
    BY DEF fieldVars, FieldInv, QueueOK, EntryOK, SessionOK, ApprovalsOK, Points,
           Pointed, assertConfirmableVerifier
  <1>3. ASSUME NEW c \in Handlers PROVE HandlerOK(doing[c])'
    <2>1. sess \in Sessions /\ stored \in Sessions
      BY DEF FieldInv, FieldTypeOK
    <2>2. sess.seq <= sess.seq /\ stored.seq <= stored.seq
      <3>1. sess.seq \in Nat /\ stored.seq \in Nat
        BY <2>1, SessionFields
      <3> QED BY <3>1
    <2>3. /\ sess' = sess /\ stored' = stored /\ doing'[c] = doing[c] /\ InvStep
          /\ Points(sess) => Points(sess)'
      BY DEF fieldVars, InvStep, Points, Pointed
    <2> QED BY <2>1, <2>2, <2>3, OtherHandler
  <1>4. SequencesOK' /\ LinksOK' /\ RestOK' /\ ReportedIsDurable'
    BY DEF fieldVars, FieldInv, SequencesOK, SequencesAreUnique, Reserved, LinksOK, LinkKept,
           RestOK, NoGhostInvestigation, ReportedIsDurable, Pointed
  <1> QED BY <1>1, <1>2, <1>3, <1>4 DEF FieldInv

LEMMA FieldStepPreserves == FieldInv /\ [FieldNext]_fieldVars => FieldInv'
  <1> SUFFICES ASSUME FieldInv, [FieldNext]_fieldVars PROVE FieldInv'
    OBVIOUS
  <1>1. CASE sessionWrite
    BY <1>1, SessionWritePreserves
  <1>2. CASE Kill
    BY <1>2, KillPreserves
  <1>3. CASE initialise
    BY <1>3, InitialisePreserves
  <1>4. CASE UNCHANGED fieldVars
    BY <1>4, FieldStutters
  <1>5. ASSUME NEW c \in Handlers,
               \/ loadActiveInvestigation(c) \/ saveInvestigationTransition(c)
               \/ \E op \in Captured : reserveSequence(c, op)
               \/ persistMedia(c) \/ saveManualNote(c) \/ noteStored(c)
               \/ changeArea(c) \/ beginInvestigation(c) \/ changeInvestigationState(c)
               \/ \E r \in {"candidate", "no_finding"} : finishInvestigation(c, r)
        PROVE  HandlerStep(c)
    BY <1>5, LoadStep, SaveStep, ReserveStep, PersistStep, NoteStep, NoteStoredStep,
       ChangeAreaStep, BeginInvestigationStep, ChangeStateStep, FinishStep
  <1>6. ASSUME NEW c \in Handlers, NEW m \in Commissioned,
               \/ acceptReview(c, m) \/ rejectReview(c, m) \/ reverifyReview(c, m)
               \/ approveModule(c, m) \/ continueReviewAsHuman(c, m)
               \/ \E p \in {"reverify_ai", "convert_to_human"} : saveReviewEdit(c, m, p)
        PROVE  HandlerStep(c)
    BY <1>6, AcceptStep, ApproveStep, DigestStep DEF continueReviewAsHuman, saveReviewEdit
  <1>7. ASSUME NEW c \in Handlers,
               \/ editHashed(c) \/ confirmDeliveryPackage(c)
               \/ \E pending \in BOOLEAN : manifestHashed(c, pending)
        PROVE  HandlerStep(c)
    BY <1>7, EditHashedStep, ConfirmStep, ManifestHashedStep
  <1>8. CASE \E c \in Handlers : HandlerStep(c)
    BY <1>8, HandlerStepPreserves
  <1>9. \/ sessionWrite \/ Kill \/ initialise \/ UNCHANGED fieldVars
        \/ \E c \in Handlers : HandlerStep(c)
    BY <1>5, <1>6, <1>7 DEF FieldNext
  <1> QED BY <1>1, <1>2, <1>3, <1>4, <1>8, <1>9

(* A photo, recording or note that the inspector was told is linked stays  *)
(* in the investigation, whichever handlers saved it since: a save is      *)
(* compared with the revision its handler loaded, so what it replaces is   *)
(* what it extends (App.tsx:443-478, 719-728; sqlite-inspection-snapshot-  *)
(* port.ts:76-126).                                                        *)
THEOREM LinksAreKept == FieldSpec => []NothingLinkedIsLost
  <1>1. FieldInv => NothingLinkedIsLost
    BY DEF FieldInv, FieldTypeOK, LinksOK, LinkKept, NothingLinkedIsLost
  <1> QED BY <1>1, FieldStarts, FieldStepPreserves, PTL DEF FieldSpec

(* No two captures use one sequence number: a number is used only after a  *)
(* session above it is stored, and no later write or start goes below what *)
(* is stored (App.tsx:341-355, 480-494).                                   *)
THEOREM SequencesStayUnique == FieldSpec => []SequencesAreUnique
  <1>1. FieldInv => SequencesAreUnique
    BY DEF FieldInv, SequencesOK
  <1> QED BY <1>1, FieldStarts, FieldStepPreserves, PTL DEF FieldSpec

(* What the inspector was told is saved is the stored workflow or one a    *)
(* later revision replaced it with (sqlite-capture-ledger.ts:677-696,      *)
(* App.tsx:357-397).                                                       *)
THEOREM ReportsAreDurable == FieldSpec => []ReportedIsDurable
  <1>1. FieldInv => ReportedIsDurable
    BY DEF FieldInv
  <1> QED BY <1>1, FieldStarts, FieldStepPreserves, PTL DEF FieldSpec

(* After a start the workflow has the status of the investigation the      *)
(* session points to, and none when it points to none: a stored session    *)
(* never shows an investigation it does not point to (App.tsx:267-289).    *)
THEOREM NoGhosts == FieldSpec => []NoGhostInvestigation
  <1>1. FieldInv => NoGhostInvestigation
    BY DEF FieldInv, RestOK
  <1> QED BY <1>1, FieldStarts, FieldStepPreserves, PTL DEF FieldSpec

(* On screen and in the ledger, an approved module always has its          *)
(* finding accepted, and an accepted AI finding passed in that version,    *)
(* also when an edit or a late save of an older session came in between    *)
(* (App.tsx:959-976, 1087-1131; investigation-review.ts:118-142).          *)
THEOREM ApprovalsAreAccepted == FieldSpec => []ApprovedIsAccepted
  <1>1. FieldInv => ApprovedIsAccepted
    BY DEF FieldInv, SessionsOK, SessionOK, ApprovalsOK, ApprovedIsAccepted
  <1> QED BY <1>1, FieldStarts, FieldStepPreserves, PTL DEF FieldSpec
=============================================================================
