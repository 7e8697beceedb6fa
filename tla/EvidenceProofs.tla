--------------------------- MODULE EvidenceProofs ---------------------------
(***************************************************************************)
(* Proofs about EvidenceSync and EvidencePipeline.  First the sync service *)
(* alone: however many uploads, retakes, retries and lost calls race for   *)
(* the same keys, a durable row has its exact object and never changes.    *)
(* The invariant has to know more than the rows: what finalize verified    *)
(* before its commit is still in the store when the commit runs, because   *)
(* no later put can replace an object.  Then the composition with the      *)
(* queue and its workers, whose steps are the parts' steps, and what an    *)
(* original, its task and the handler that holds its lease know of each    *)
(* other.                                                                  *)
(***************************************************************************)
EXTENDS EvidencePipeline, WorkerProofs

(* An issued intent has its descriptor, and one about to be committed has  *)
(* its bytes in the store.                                                 *)
IntentOK(i) ==
    /\ intent[i].pc # "none" => D(i) \in Descriptors
    /\ intent[i].pc = "commit" => objects[KeyOf(D(i))] = D(i).content

SyncInv ==
    /\ STypeOK
    /\ \A i \in Intents : IntentOK(i)
    /\ DurableIsExact

(* A descriptor names a key of the store and contents that are not None.   *)
LEMMA DescriptorFacts ==
    ASSUME NEW d \in Descriptors
    PROVE  /\ d.artifact \in Artifacts
           /\ d.capture \in Captures
           /\ d.content \in Contents
           /\ KeyOf(d) \in Keys
           /\ d # None /\ d.content # None /\ d.artifact # None
  BY SyncAssumption DEF KeyOf, Keys

(* A step that only moves a call, to any state but commit, keeps SyncInv:  *)
(* the heads and observations of upload, and a call that is lost.          *)
LEMMA CallMoves ==
    ASSUME SyncInv, NEW i \in Intents, NEW pc \in {"open", "put", "observe"},
           intent[i].pc # "none", Call(i, pc),
           UNCHANGED <<objects, artifacts, captureIndex>>
    PROVE  SyncInv'
  <1>1. STypeOK'
    BY DEF SyncInv, STypeOK, Call, IntentRecord
  <1>2. ASSUME NEW j \in Intents PROVE IntentOK(j)'
    BY DEF SyncInv, STypeOK, Call, IntentRecord, IntentOK, D, KeyOf
  <1>3. DurableIsExact'
    BY DEF SyncInv, DurableIsExact, KeyOf
  <1>. QED
    BY <1>1, <1>2, <1>3 DEF SyncInv

(* issueUploadIntent keeps SyncInv. *)
LEMMA IssuePreserves ==
    ASSUME SyncInv, NEW i \in Intents, NEW d \in Descriptors, issueUploadIntent(i, d)
    PROVE  SyncInv'
  <1>1. STypeOK'
    BY DEF SyncInv, STypeOK, issueUploadIntent, IntentRecord
  <1>2. ASSUME NEW j \in Intents PROVE IntentOK(j)'
    BY DEF SyncInv, STypeOK, issueUploadIntent, IntentRecord, IntentOK, D, KeyOf
  <1>3. DurableIsExact'
    BY DEF SyncInv, DurableIsExact, issueUploadIntent, KeyOf
  <1>. QED
    BY <1>1, <1>2, <1>3 DEF SyncInv

(* putImmutable keeps SyncInv: it fills an empty key, and neither a row    *)
(* nor a verified intent has an empty key.                                 *)
LEMMA PutPreserves ==
    ASSUME SyncInv, NEW i \in Intents, UploadPut(i)
    PROVE  SyncInv'
  <1>d. D(i) \in Descriptors
    BY DEF SyncInv, IntentOK, UploadPut
  <1>k. KeyOf(D(i)) \in Keys /\ D(i).content \in Contents
    BY <1>d, DescriptorFacts
  <1>1. CASE objects[KeyOf(D(i))] = None
    <2>0. /\ objects' = [objects EXCEPT ![KeyOf(D(i))] = D(i).content]
          /\ intent' = [intent EXCEPT ![i].pc = "open"]
          /\ UNCHANGED <<artifacts, captureIndex>>
      BY <1>1 DEF UploadPut, Call
    <2>1. STypeOK'
      BY <1>k, <2>0 DEF SyncInv, STypeOK, IntentRecord
    <2>2. ASSUME NEW j \in Intents PROVE IntentOK(j)'
      <3>1. D(j)' = D(j)
        BY <2>0 DEF D, SyncInv, STypeOK, IntentRecord
      <3>2. CASE intent[j].pc = "commit"
        <4>1. D(j) \in Descriptors /\ objects[KeyOf(D(j))] = D(j).content
          BY <3>2 DEF SyncInv, IntentOK
        <4>2. KeyOf(D(j)) \in Keys /\ KeyOf(D(j)) # KeyOf(D(i))
          BY <4>1, <1>1, DescriptorFacts
        <4>3. objects'[KeyOf(D(j))] = objects[KeyOf(D(j))]
          BY <4>2, <2>0 DEF SyncInv, STypeOK
        <4>. QED
          BY <3>1, <4>1, <4>3 DEF IntentOK, KeyOf
      <3>3. CASE intent[j].pc # "commit"
        <4>1. intent'[j].pc # "commit" /\ (intent'[j].pc # "none" => intent[j].pc # "none")
          BY <2>0, <3>3 DEF SyncInv, STypeOK, IntentRecord, UploadPut
        <4>. QED
          BY <3>1, <4>1 DEF IntentOK, SyncInv
      <3>. QED
        BY <3>2, <3>3
    <2>3. DurableIsExact'
      <3>1. SUFFICES ASSUME NEW a \in Artifacts, artifacts[a] # None
                     PROVE  /\ artifacts[a].artifact = a
                            /\ objects'[KeyOf(artifacts[a])] = artifacts[a].content
                            /\ captureIndex[artifacts[a].capture] = a
        BY <2>0 DEF DurableIsExact, KeyOf
      <3>2. artifacts[a] \in Descriptors
        BY <3>1 DEF SyncInv, STypeOK
      <3>3. KeyOf(artifacts[a]) \in Keys /\ KeyOf(artifacts[a]) # KeyOf(D(i))
        BY <3>1, <3>2, <1>1, DescriptorFacts DEF SyncInv, DurableIsExact
      <3>4. objects'[KeyOf(artifacts[a])] = objects[KeyOf(artifacts[a])]
        BY <3>3, <2>0 DEF SyncInv, STypeOK
      <3>. QED
        BY <3>1, <3>4 DEF SyncInv, DurableIsExact
    <2>. QED
      BY <2>1, <2>2, <2>3 DEF SyncInv
  <1>2. CASE objects[KeyOf(D(i))] # None
    BY <1>2, CallMoves DEF UploadPut
  <1>. QED
    BY <1>1, <1>2

(* finalize's verification keeps SyncInv and establishes what the commit   *)
(* relies on.                                                              *)
LEMMA FinalizePreserves ==
    ASSUME SyncInv, NEW i \in Intents, FinalizeObserve(i)
    PROVE  SyncInv'
  <1>1. STypeOK'
    BY DEF SyncInv, STypeOK, FinalizeObserve, Call, IntentRecord
  <1>2. ASSUME NEW j \in Intents PROVE IntentOK(j)'
    BY DEF SyncInv, STypeOK, FinalizeObserve, Call, IntentRecord, IntentOK, D, KeyOf
  <1>3. DurableIsExact'
    BY DEF SyncInv, DurableIsExact, FinalizeObserve, KeyOf
  <1>. QED
    BY <1>1, <1>2, <1>3 DEF SyncInv

(* The durable commit keeps SyncInv: a row is recorded only for a capture  *)
(* and an artifact without one.                                            *)
LEMMA CommitPreserves ==
    ASSUME SyncInv, NEW i \in Intents, commitVerifiedDurability(i)
    PROVE  SyncInv'
  <1>d. D(i) \in Descriptors /\ objects[KeyOf(D(i))] = D(i).content
    BY DEF SyncInv, IntentOK, commitVerifiedDurability
  <1>k. D(i).artifact \in Artifacts /\ D(i).capture \in Captures /\ D(i).artifact # None
    BY <1>d, DescriptorFacts
  <1>1. CASE Records(i)
    <2>0. /\ artifacts' = [artifacts EXCEPT ![D(i).artifact] = D(i)]
          /\ captureIndex' = [captureIndex EXCEPT ![D(i).capture] = D(i).artifact]
          /\ intent' = [intent EXCEPT ![i].pc = "open"]
          /\ UNCHANGED objects
      BY <1>1 DEF commitVerifiedDurability, Call
    <2>1. STypeOK'
      BY <1>d, <1>k, <2>0 DEF SyncInv, STypeOK, IntentRecord
    <2>2. ASSUME NEW j \in Intents PROVE IntentOK(j)'
      BY <2>0, <1>d DEF SyncInv, STypeOK, IntentRecord, IntentOK, D, KeyOf
    <2>3. DurableIsExact'
      <3>1. SUFFICES ASSUME NEW a \in Artifacts, artifacts'[a] # None
                     PROVE  /\ artifacts'[a].artifact = a
                            /\ objects[KeyOf(artifacts'[a])] = artifacts'[a].content
                            /\ captureIndex'[artifacts'[a].capture] = a
        BY <2>0 DEF DurableIsExact, KeyOf
      <3>2. CASE a = D(i).artifact
        BY <3>2, <1>d, <1>k, <2>0 DEF SyncInv, STypeOK
      <3>3. CASE a # D(i).artifact
        <4>1. artifacts'[a] = artifacts[a]
          BY <3>3, <2>0 DEF SyncInv, STypeOK
        <4>2. artifacts[a] \in Descriptors /\ artifacts[a].capture \in Captures
          BY <3>1, <4>1, DescriptorFacts DEF SyncInv, STypeOK
        <4>3. /\ artifacts[a].artifact = a
              /\ objects[KeyOf(artifacts[a])] = artifacts[a].content
              /\ captureIndex[artifacts[a].capture] = a
          BY <3>1, <4>1 DEF SyncInv, DurableIsExact
        <4>4. a # None
          BY <4>2, <4>3, DescriptorFacts
        <4>5. artifacts[a].capture # D(i).capture
          BY <1>1, <4>3, <4>4 DEF Records
        <4>6. captureIndex'[artifacts[a].capture] = a
          BY <4>2, <4>3, <4>5, <2>0 DEF SyncInv, STypeOK
        <4>. QED
          BY <4>1, <4>3, <4>6
      <3>. QED
        BY <3>2, <3>3
    <2>. QED
      BY <2>1, <2>2, <2>3 DEF SyncInv
  <1>2. CASE ~Records(i)
    BY <1>2, CallMoves DEF commitVerifiedDurability
  <1>. QED
    BY <1>1, <1>2

(* Every step of the specification keeps SyncInv. *)
LEMMA SyncStepPreserves ==
    ASSUME SyncInv, [SNext]_svars
    PROVE  SyncInv'
  <1>1. CASE UNCHANGED svars
    BY <1>1 DEF SyncInv, STypeOK, IntentOK, DurableIsExact, svars, D, KeyOf
  <1>2. ASSUME NEW i \in Intents, SyncStep(i) PROVE SyncInv'
    <2>1. CASE \E d \in Descriptors : issueUploadIntent(i, d)
      BY <2>1, IssuePreserves
    <2>2. CASE UploadHead(i) \/ UploadObserve(i) \/ CallLost(i)
      BY <2>2, CallMoves DEF UploadHead, UploadObserve, CallLost
    <2>3. CASE UploadPut(i)
      BY <2>3, PutPreserves
    <2>4. CASE FinalizeObserve(i)
      BY <2>4, FinalizePreserves
    <2>. QED
      BY <1>2, <2>1, <2>2, <2>3, <2>4 DEF SyncStep
  <1>3. ASSUME NEW i \in Intents, commitVerifiedDurability(i) PROVE SyncInv'
    BY <1>3, CommitPreserves
  <1>. QED
    BY <1>1, <1>2, <1>3 DEF SNext

LEMMA SyncStarts == ASSUME SInit PROVE SyncInv
  BY SyncAssumption DEF SInit, SyncInv, STypeOK, IntentOK, IntentRecord, DurableIsExact

(* SyncInv is an invariant of evidence sync for any intents, captures,     *)
(* artifacts and contents.                                                 *)
THEOREM SyncInvariant == SSpec => []SyncInv
  <1>1. SInit => SyncInv
    BY SyncStarts
  <1>2. SyncInv /\ [SNext]_svars => SyncInv'
    BY SyncStepPreserves
  <1>. QED
    BY <1>1, <1>2, PTL DEF SSpec

(* The rows, the capture index, the objects and the intents keep their     *)
(* types.                                                                  *)
THEOREM SyncTypes == SSpec => []STypeOK
  <1>1. SyncInv => STypeOK
    BY DEF SyncInv
  <1>. QED
    BY <1>1, SyncInvariant, PTL

(* A durable row of commitVerifiedDurability always has its object, with   *)
(* the bytes it names, and its capture points back to it.                  *)
THEOREM DurableExactness == SSpec => []DurableIsExact
  <1>1. SyncInv => DurableIsExact
    BY DEF SyncInv
  <1>. QED
    BY <1>1, SyncInvariant, PTL

(* No step replaces the artifact of a capture or the row of an artifact.   *)
LEMMA KeepsRows ==
    ASSUME SyncInv, [SNext]_svars
    PROVE  /\ \A c \in Captures : captureIndex[c] # None => captureIndex'[c] = captureIndex[c]
           /\ \A a \in Artifacts : artifacts[a] # None => artifacts'[a] = artifacts[a]
  <1>1. CASE UNCHANGED <<artifacts, captureIndex>>
    BY <1>1
  <1>2. ASSUME NEW i \in Intents, Records(i),
               artifacts' = [artifacts EXCEPT ![D(i).artifact] = D(i)],
               captureIndex' = [captureIndex EXCEPT ![D(i).capture] = D(i).artifact]
        PROVE  /\ \A c \in Captures : captureIndex[c] # None => captureIndex'[c] = captureIndex[c]
               /\ \A a \in Artifacts : artifacts[a] # None => artifacts'[a] = artifacts[a]
    BY <1>2 DEF Records, SyncInv, STypeOK
  <1>. QED
    BY <1>1, <1>2 DEF SNext, SyncStep, svars, issueUploadIntent, UploadHead, UploadPut,
        UploadObserve, FinalizeObserve, CallLost, commitVerifiedDurability

(* A capture keeps the artifact it was first made durable with, whatever   *)
(* is retaken, retried or raced afterwards.                                *)
THEOREM CapturePermanence == SSpec => CaptureKeepsArtifact
  <1>1. SyncInv /\ [SNext]_svars =>
          [/\ \A c \in Captures : captureIndex[c] # None => captureIndex'[c] = captureIndex[c]
           /\ \A a \in Artifacts : artifacts[a] # None => artifacts'[a] = artifacts[a]]_svars
    BY KeepsRows
  <1>. QED
    BY <1>1, SyncInvariant, PTL DEF SSpec, CaptureKeepsArtifact

-----------------------------------------------------------------------------
(* The content pipeline.  Its handler runs exactly while its worker does;  *)
(* past its commit its artifact is assessed, before its commit the proxy   *)
(* it will name is stored, and before that its first look is still true as *)
(* long as its lease is.                                                   *)
Looking == {"read", "decode", "put", "verify"}

HandlerOk(w) ==
    /\ handler[w] # "none" <=> Running(w)
    /\ handler[w] \in {"checkpoint", "finish"} => assessment[T(w)] # Unassessed
    /\ handler[w] = "verify" => <<T(w), G(w)>> \in proxies
    /\ handler[w] \in Looking /\ ValidLease(T(w), G(w)) => assessment[T(w)] = Unassessed

(* An assessment was made under a lease that was granted, and names a      *)
(* stored proxy; a task only succeeds by a completion, after it.           *)
AssessedOk(a) ==
    /\ assessment[a].proxy <= tasks[a].leaseGeneration
    /\ assessment[a].state = "accepted" => <<a, assessment[a].proxy>> \in proxies
    /\ tasks[a].state = "succeeded" => assessment[a] # Unassessed /\ tasks[a].result # 0

PipeTypes ==
    /\ handler \in [Workers -> HandlerStates]
    /\ assessment \in [Artifacts -> Assessments]
    /\ proxies \subseteq Artifacts \X Nat

PipeInv ==
    /\ SyncInv /\ WorkInv /\ PipeTypes
    /\ \A w \in Workers : HandlerOk(w)
    /\ \A a \in Artifacts : AssessedOk(a)
    /\ TaskPerArtifact

(* What a call of the queue, other than enqueue and complete, does to a    *)
(* task: it neither makes nor loses one, nor lets it succeed.              *)
Carries(x, y) ==
    /\ y.state = "absent" <=> x.state = "absent"
    /\ y.state = "succeeded" => x.state = "succeeded" /\ y.result = x.result

LEMMA OneCarries ==
    ASSUME QInv, NEW t \in TaskIds, NEW y, tasks' = [tasks EXCEPT ![t] = y],
           tasks[t].state # "absent", y.state \notin {"absent", "succeeded"}
    PROVE  \A u \in TaskIds : Carries(tasks[u], tasks'[u])
  BY DEF QInv, Carries

LEMMA RecoveredCarries ==
    ASSUME QInv, NEW t \in TaskIds
    PROVE  Carries(tasks[t], recoverExpiredLeases[t])
  <1>. DEFINE x == tasks[t]
              s == IF x.attemptCount < MaxOf(x) THEN "retry_wait" ELSE "dead_letter"
  <1>1. x \in TaskRecord /\ recoverExpiredLeases[t] = Recovered(x)
    BY DEF QInv, recoverExpiredLeases
  <1>2. CASE ~Expired(x)
    BY <1>1, <1>2 DEF Recovered, Carries
  <1>3. CASE Expired(x)
    <2>1. Recovered(x) = [Cleared(x) EXCEPT !.state = s, !.availableIn = 0]
      BY <1>3 DEF Recovered
    <2>2. s \notin {"absent", "succeeded"} /\ x.state = "running"
      BY <1>3 DEF Expired
    <2>. HIDE DEF s
    <2>3. Recovered(x).state = s
      BY <1>1, <2>1, EndedState
    <2>. QED
      BY <1>1, <2>2, <2>3 DEF Carries
  <1>. QED
    BY <1>2, <1>3

LEMMA SweptCarries ==
    ASSUME QInv, NEW C, CancelledBy(recoverExpiredLeases, C), NEW t \in TaskIds
    PROVE  Carries(tasks[t], reconcileBlockedDependencies(recoverExpiredLeases, C)[t])
  <1>. DEFINE y == recoverExpiredLeases[t]
  <1>1. y \in TaskRecord /\ Carries(tasks[t], y)
    BY RecoverSwept, RecoveredCarries DEF SweptFrom
  <1>2. CASE t \notin C
    BY <1>1, <1>2 DEF reconcileBlockedDependencies
  <1>3. CASE t \in C
    <2>1. y.state \in Waiting
      BY <1>3 DEF CancelledBy
    <2>2. reconcileBlockedDependencies(recoverExpiredLeases, C)[t]
             = [y EXCEPT !.state = "cancelled"]
      BY <1>3 DEF reconcileBlockedDependencies
    <2>. HIDE DEF y
    <2>3. [y EXCEPT !.state = "cancelled"].state = "cancelled"
      BY <1>1 DEF TaskRecord
    <2>. QED
      BY <1>1, <2>1, <2>2, <2>3 DEF Carries, Waiting
  <1>. QED
    BY <1>2, <1>3

LEMMA LeaseCarries ==
    ASSUME QInv, LeaseNothing \/ \E t \in TaskIds : LeaseTask(t)
    PROVE  \A u \in TaskIds : Carries(tasks[u], tasks'[u])
  <1>1. CASE LeaseNothing
    BY <1>1, SweptCarries DEF LeaseNothing
  <1>2. ASSUME NEW t \in TaskIds, LeaseTask(t)
        PROVE  \A u \in TaskIds : Carries(tasks[u], tasks'[u])
    <2>1. PICK C \in SUBSET TaskIds :
             /\ CancelledBy(recoverExpiredLeases, C)
             /\ LET swept == reconcileBlockedDependencies(recoverExpiredLeases, C)
                IN  /\ Leasable(swept, t)
                    /\ tasks' = [swept EXCEPT ![t] = Granted(swept[t])]
      BY <1>2 DEF LeaseTask
    <2>. DEFINE swept == reconcileBlockedDependencies(recoverExpiredLeases, C)
    <2>2. /\ SweptFrom(swept) /\ \A u \in TaskIds : Carries(tasks[u], swept[u])
      BY <2>1, RecoverSwept, BlockedSwept, SweptCarries
    <2>3. Leasable(swept, t) /\ tasks' = [swept EXCEPT ![t] = Granted(swept[t])]
      BY <2>1
    <2>. HIDE DEF swept
    <2>4. swept[t] \in TaskRecord /\ swept[t].state \in Waiting
      BY <2>2, <2>3 DEF SweptFrom, Leasable
    <2>5. Granted(swept[t]).state = "running"
      BY <2>4 DEF Granted, TaskRecord
    <2>6. /\ tasks'[t] = Granted(swept[t])
          /\ \A u \in TaskIds : u # t => tasks'[u] = swept[u]
      BY <2>2, <2>3 DEF SweptFrom
    <2>. QED
      BY <2>2, <2>4, <2>5, <2>6 DEF Carries, Waiting
  <1>. QED
    BY <1>1, <1>2

LEMMA CallCarries ==
    ASSUME QInv, NEW t \in TaskIds, NEW g \in Nat,
           \/ heartbeat(t, g) \/ checkpoint(t, g) \/ cancel(t)
           \/ \E b \in BOOLEAN : \E delay : fail(t, g, b, delay)
    PROVE  \A u \in TaskIds : Carries(tasks[u], tasks'[u])
  <1>. DEFINE x == tasks[t]
  <1>1. x \in TaskRecord
    BY DEF QInv
  <1>2. CASE heartbeat(t, g)
    <2>. DEFINE y == [x EXCEPT !.leaseLeft = LeaseTicks]
    <2>1. tasks' = [tasks EXCEPT ![t] = y] /\ x.state = "running"
      BY <1>2 DEF heartbeat, ValidLease
    <2>2. y.state = "running"
      BY <1>1, <2>1 DEF TaskRecord
    <2>. HIDE DEF y
    <2>. QED
      BY <2>1, <2>2, OneCarries
  <1>3. CASE checkpoint(t, g)
    <2>. DEFINE y == [x EXCEPT !.checkpoints = x.checkpoints \cup {g}]
    <2>1. tasks' = [tasks EXCEPT ![t] = y] /\ x.state = "running"
      BY <1>3 DEF checkpoint, ValidLease
    <2>2. y.state = "running"
      BY <1>1, <2>1 DEF TaskRecord
    <2>. HIDE DEF y
    <2>. QED
      BY <2>1, <2>2, OneCarries
  <1>4. CASE cancel(t)
    <2>. DEFINE y == [Cleared(x) EXCEPT !.state = "cancelled"]
    <2>1. tasks' = [tasks EXCEPT ![t] = y] /\ x.state # "absent"
      BY <1>4 DEF cancel
    <2>2. y.state = "cancelled"
      BY <1>1, EndedState
    <2>. HIDE DEF y
    <2>. QED
      BY <2>1, <2>2, OneCarries
  <1>5. ASSUME NEW b \in BOOLEAN, NEW delay, fail(t, g, b, delay)
        PROVE  \A u \in TaskIds : Carries(tasks[u], tasks'[u])
    <2>. DEFINE s == IF b /\ x.attemptCount < MaxOf(x) THEN "retry_wait" ELSE "dead_letter"
                y == [Cleared(x) EXCEPT !.state = s, !.availableIn = delay]
    <2>1. tasks' = [tasks EXCEPT ![t] = y] /\ x.state = "running"
      BY <1>5 DEF fail, ValidLease
    <2>2. s \in {"retry_wait", "dead_letter"}
      OBVIOUS
    <2>. HIDE DEF s
    <2>3. y.state = s
      BY <1>1, EndedState
    <2>. HIDE DEF y
    <2>. QED
      BY <2>1, <2>2, <2>3, OneCarries
  <1>. QED
    BY <1>2, <1>3, <1>4, <1>5

LEMMA TickCarries ==
    ASSUME QInv, Tick PROVE \A u \in TaskIds : Carries(tasks[u], tasks'[u])
  <1>. SUFFICES ASSUME NEW u \in TaskIds PROVE Carries(tasks[u], tasks'[u])
    OBVIOUS
  <1>. DEFINE x == tasks[u]
              left == IF x.leaseLeft >= 0 THEN x.leaseLeft - 1 ELSE x.leaseLeft
              wait == IF x.availableIn > 0 THEN x.availableIn - 1 ELSE x.availableIn
  <1>1. x \in TaskRecord
    BY DEF QInv
  <1>2. tasks'[u] = [x EXCEPT !.leaseLeft = left, !.availableIn = wait]
    BY DEF Tick
  <1>. HIDE DEF left, wait
  <1>3. tasks'[u].state = x.state /\ tasks'[u].result = x.result
    BY <1>1, <1>2 DEF TaskRecord
  <1>. QED
    BY <1>3 DEF Carries

(* What an unfinished handler knows of the task it is working on.          *)
LEMMA HandlerFacts ==
    ASSUME PipeInv, NEW w \in Workers, handler[w] # "none"
    PROVE  /\ Running(w) /\ T(w) \in Artifacts /\ G(w) \in Nat /\ G(w) # 0
           /\ G(w) <= tasks[T(w)].leaseGeneration
  BY PipelineAssumption DEF PipeInv, HandlerOk, WorkInv, GrantOk, LeasesAreExclusive,
     WTypeOK, WorkerRecord, G

(* Each step is one of the workers or none of theirs, and everything that  *)
(* touches the store is a step of sync.                                    *)
LEMMA StepsOfTheParts ==
    ASSUME PipeInv, [PNext]_evars
    PROVE  [WNext]_wvars /\ [SNext]_svars
  <1>1. CASE UNCHANGED evars
    BY <1>1 DEF evars
  <1>2. ASSUME NEW i \in Intents, SyncStep(i) /\ UNCHANGED <<wvars, pvars>>
        PROVE  [WNext]_wvars /\ [SNext]_svars
    BY <1>2 DEF SNext
  <1>3. ASSUME NEW i \in Intents, Commit(i)
        PROVE  [WNext]_wvars /\ [SNext]_svars
    BY <1>3 DEF Commit, SNext, WNext, Client, wvars
  <1>4. ASSUME NEW w \in Workers, NEW a \in Artifacts, StartHandler(w, a)
        PROVE  [WNext]_wvars /\ [SNext]_svars
    BY <1>4, PipelineAssumption DEF StartHandler, WNext, Poll
  <1>5. ASSUME NEW w \in Workers,
               ReadPasses(w) \/ Reject(w) \/ DecodePasses(w) \/ PutProxy(w) \/ Accept(w)
        PROVE  [WNext]_wvars /\ [SNext]_svars
    BY <1>5 DEF ReadPasses, Reject, DecodePasses, PutProxy, Accept
  <1>6. ASSUME NEW w \in Workers, Checkpointed(w) \/ Completed(w) \/ HandlerFenced(w)
        PROVE  [WNext]_wvars /\ [SNext]_svars
    BY <1>6 DEF Checkpointed, Completed, HandlerFenced, WNext, Finish
  <1>7. ASSUME NEW w \in Workers, HandlerErrs(w)
        PROVE  [WNext]_wvars /\ [SNext]_svars
    <2>1. handler[w] # "none"
      BY <1>7 DEF HandlerErrs
    <2>2. Throw(w)
      <3>1. FALSE \in IF T(w) \in Handled THEN BOOLEAN ELSE {FALSE}
        OBVIOUS
      <3>. QED
        BY <1>7, <2>1, <3>1, HandlerFacts DEF HandlerErrs, Throw
    <2>. QED
      BY <1>7, <2>2 DEF HandlerErrs, WNext, Finish
  <1>8. ASSUME NEW w \in Workers,
               \/ HandlerCrash(w) \/ Idles(w) \/ Leaves(w)
               \/ (HeartbeatTimer(w) \/ Shutdown(w)) /\ UNCHANGED <<svars, pvars>>
        PROVE  [WNext]_wvars /\ [SNext]_svars
    BY <1>8 DEF HandlerCrash, Idles, Leaves, WNext, Poll
  <1>9. ASSUME NEW a \in Artifacts, cancel(a) /\ UNCHANGED <<svars, worker, shutdown, pvars>>
        PROVE  [WNext]_wvars /\ [SNext]_svars
    BY <1>9, PipelineAssumption DEF WNext, Client
  <1>10. CASE Clock /\ UNCHANGED <<svars, pvars>>
    BY <1>10 DEF WNext
  <1>. QED
    BY <1>1, <1>2, <1>3, <1>4, <1>5, <1>6, <1>7, <1>8, <1>9, <1>10 DEF PNext, HandlerStep

(* What follows for the parts.                                             *)
LEMMA PartsHold ==
    ASSUME PipeInv, [PNext]_evars
    PROVE  /\ SyncInv' /\ WorkInv' /\ [Next]_vars
           /\ \A a \in Artifacts : /\ tasks[a].leaseGeneration \in Nat
                                   /\ tasks'[a].leaseGeneration \in Nat
                                   /\ tasks[a].leaseGeneration <= tasks'[a].leaseGeneration
  <1>1. SyncInv' /\ WorkInv' /\ [Next]_vars
    BY StepsOfTheParts, SyncStepPreserves, WorkerStepPreserves, WorkerStepsAreCalls DEF PipeInv
  <1>. QED
    BY <1>1, QueueSteps, PipelineAssumption DEF PipeInv

(* A handler that nobody touched, whatever others did to its task.         *)
HandlerRests(v) ==
    /\ handler'[v] = handler[v] /\ worker'[v].pc = worker[v].pc
    /\ worker'[v].task = worker[v].task /\ worker'[v].generation = worker[v].generation

LEMMA RestingHandler ==
    ASSUME PipeInv, [Next]_vars, NEW v \in Workers, HandlerRests(v),
           \A a \in Artifacts : assessment[a] # Unassessed => assessment'[a] # Unassessed,
           proxies \subseteq proxies',
           handler[v] \in Looking /\ ValidLease(T(v), G(v)) =>
              assessment'[T(v)] = assessment[T(v)]
    PROVE  HandlerOk(v)'
  <1>1. T(v)' = T(v) /\ G(v)' = G(v) /\ (Running(v)' <=> Running(v))
    BY DEF HandlerRests, T, G, Running
  <1>2. HandlerOk(v)
    BY DEF PipeInv
  <1>3. CASE handler[v] = "none"
    BY <1>1, <1>2, <1>3 DEF HandlerRests, HandlerOk, Looking
  <1>4. CASE handler[v] # "none"
    <2>1. PICK t \in Artifacts, g \in Nat : t = T(v) /\ g = G(v)
                                          /\ g <= tasks[t].leaseGeneration
      BY <1>4, HandlerFacts
    <2>2. ~ValidLease(t, g) => ~ValidLease(t, g)'
      BY <2>1, LostIsLost, PipelineAssumption DEF PipeInv, WorkInv
    <2>3. ValidLease(T(v), G(v))' => ValidLease(T(v), G(v))
      BY <1>1, <2>1, <2>2 DEF ValidLease
    <2>4. assessment[T(v)] # Unassessed => (assessment[T(v)] # Unassessed)'
      BY <1>1, <2>1
    <2>5. handler[v] \in Looking /\ ValidLease(T(v), G(v)) =>
             (assessment[T(v)] = Unassessed)'
      BY <1>1, <1>2 DEF HandlerOk
    <2>. QED
      BY <1>1, <1>2, <1>4, <2>3, <2>4, <2>5 DEF HandlerOk, HandlerRests
  <1>. QED
    BY <1>3, <1>4

(* An artifact whose assessment stays and whose task is carried on.        *)
LEMMA RestingArtifact ==
    ASSUME PipeInv, [PNext]_evars, NEW a \in Artifacts, Carries(tasks[a], tasks'[a]),
           assessment'[a] = assessment[a], proxies \subseteq proxies'
    PROVE  AssessedOk(a)'
  <1>1. AssessedOk(a) /\ assessment[a].proxy \in Nat
    BY DEF PipeInv, PipeTypes, Assessments
  <1>2. (assessment[a].proxy <= tasks[a].leaseGeneration)'
    BY <1>1, PartsHold DEF AssessedOk
  <1>. QED
    BY <1>1, <1>2 DEF AssessedOk, Carries

(* A step that leaves handlers and store of proxies alone.                 *)
LEMMA QuietPreserves ==
    ASSUME PipeInv, [PNext]_evars, UNCHANGED pvars,
           \A v \in Workers : HandlerRests(v),
           \A a \in Artifacts : AssessedOk(a)',
           TaskPerArtifact'
    PROVE  PipeInv'
  <1>1. \A v \in Workers : HandlerOk(v)'
    BY PartsHold, RestingHandler DEF pvars
  <1>2. PipeTypes'
    BY DEF PipeInv, PipeTypes, pvars
  <1>. QED
    BY <1>1, <1>2, PartsHold DEF PipeInv

LEMMA TasksStay ==
    ASSUME PipeInv, UNCHANGED artifacts,
           \A t \in TaskIds : Carries(tasks[t], tasks'[t])
    PROVE  TaskPerArtifact'
  BY PipelineAssumption DEF PipeInv, TaskPerArtifact, Carries

LEMMA SyncStepsPreserve ==
    ASSUME PipeInv, [PNext]_evars, NEW i \in Intents, SyncStep(i), UNCHANGED <<wvars, pvars>>
    PROVE  PipeInv'
  <1>1. UNCHANGED artifacts
    BY DEF SyncStep, issueUploadIntent, UploadHead, UploadPut, UploadObserve,
           FinalizeObserve, CallLost
  <1>2. \A v \in Workers : HandlerRests(v)
    BY DEF HandlerRests, wvars, pvars
  <1>3. \A t \in TaskIds : Carries(tasks[t], tasks'[t])
    BY DEF Carries, wvars
  <1>4. \A a \in Artifacts : AssessedOk(a)'
    BY <1>3, RestingArtifact, PipelineAssumption DEF pvars
  <1>. QED
    BY <1>1, <1>2, <1>3, <1>4, TasksStay, QuietPreserves

LEMMA CommitKeepsPipe ==
    ASSUME PipeInv, [PNext]_evars, NEW i \in Intents, Commit(i)
    PROVE  PipeInv'
  <1>0. UNCHANGED <<worker, shutdown, pvars>>
    BY DEF Commit
  <1>1. \A v \in Workers : HandlerRests(v)
    BY <1>0 DEF HandlerRests, pvars
  <1>2. CASE ~Records(i)
    <2>1. UNCHANGED <<artifacts, tasks>>
      BY <1>2 DEF Commit, commitVerifiedDurability
    <2>2. \A t \in TaskIds : Carries(tasks[t], tasks'[t])
      BY <2>1 DEF Carries
    <2>3. \A a \in Artifacts : AssessedOk(a)'
      BY <1>0, <2>2, RestingArtifact, PipelineAssumption DEF pvars
    <2>. QED
      BY <1>0, <1>1, <2>1, <2>2, <2>3, TasksStay, QuietPreserves
  <1>3. CASE Records(i)
    <2>. DEFINE b == D(i).artifact
    <2>1. PICK r \in Requests : r.taskId = b /\ Enqueue(r)
      BY <1>3 DEF Commit
    <2>2. artifacts' = [artifacts EXCEPT ![b] = D(i)] /\ intent[i].pc = "commit"
      BY <1>3 DEF Commit, commitVerifiedDurability
    <2>3. D(i) # None /\ b \in Artifacts
      <3>1. D(i) \in Descriptors
        BY <2>2 DEF PipeInv, SyncInv, IntentOK
      <3>. QED
        BY <3>1, DescriptorFacts
    <2>. DEFINE y == [AbsentTask EXCEPT !.state = "queued", !.request = r,
                                        !.earlier = Present(tasks),
                                        !.availableIn = r.availableIn]
    <2>4. tasks' = [tasks EXCEPT ![b] = y] /\ tasks[b].state = "absent"
      BY <2>1 DEF Enqueue
    <2>5. y.state = "queued"
      BY DEF AbsentTask
    <2>. HIDE DEF y, b
    <2>6. tasks \in [TaskIds -> TaskRecord] /\ artifacts \in [Artifacts -> Descriptors \cup {None}]
      BY DEF PipeInv, WorkInv, QInv, SyncInv, STypeOK
    <2>7. ASSUME NEW a \in Artifacts
          PROVE  /\ (artifacts'[a] # None) <=> (tasks'[a].state # "absent")
                 /\ AssessedOk(a)'
      <3>1. CASE a = b
        <4>1. /\ artifacts'[a] = D(i) /\ tasks'[a].state = "queued"
              /\ assessment'[a] = assessment[a] /\ proxies' = proxies
          BY <1>0, <2>2, <2>3, <2>4, <2>5, <2>6, <3>1, PipelineAssumption DEF pvars
        <4>2. AssessedOk(a) /\ assessment[a].proxy \in Nat
          BY DEF PipeInv, PipeTypes, Assessments
        <4>3. (assessment[a].proxy <= tasks[a].leaseGeneration)'
          BY <4>1, <4>2, PartsHold DEF AssessedOk
        <4>. QED
          BY <2>3, <4>1, <4>2, <4>3 DEF AssessedOk
      <3>2. CASE a # b
        <4>1. artifacts'[a] = artifacts[a] /\ tasks'[a] = tasks[a]
          BY <2>2, <2>4, <2>6, <3>2, PipelineAssumption
        <4>2. AssessedOk(a)'
          BY <1>0, <4>1, RestingArtifact DEF Carries, pvars
        <4>. QED
          BY <4>1, <4>2 DEF PipeInv, TaskPerArtifact
      <3>. QED
        BY <3>1, <3>2
    <2>. QED
      BY <1>0, <1>1, <2>7, QuietPreserves DEF TaskPerArtifact
  <1>. QED
    BY <1>2, <1>3

(* Heartbeats, cancellations, time and a worker without a task.            *)
LEMMA AroundPreserves ==
    ASSUME PipeInv, [PNext]_evars, UNCHANGED <<svars, pvars>>,
           \/ Clock
           \/ \E a \in Artifacts : cancel(a) /\ UNCHANGED <<worker, shutdown>>
           \/ \E w \in Workers : \/ HeartbeatTimer(w) \/ PollIdle(w) \/ Wake(w) \/ Restart(w)
                                \/ EventLoopDrains(w) \/ LoopEnds(w) \/ Shutdown(w)
    PROVE  PipeInv'
  <1>0. QInv /\ worker \in [Workers -> WorkerRecord]
    BY DEF PipeInv, WorkInv, LeasesAreExclusive, WTypeOK
  <1>1. \A t \in TaskIds : Carries(tasks[t], tasks'[t])
    <2>1. CASE Clock
      BY <1>0, <2>1, TickCarries DEF Clock
    <2>2. ASSUME NEW a \in Artifacts, cancel(a)
          PROVE  \A t \in TaskIds : Carries(tasks[t], tasks'[t])
      BY <1>0, <2>2, CallCarries, PipelineAssumption
    <2>3. CASE UNCHANGED tasks
      BY <2>3 DEF Carries
    <2>4. ASSUME NEW w \in Workers, HeartbeatTimer(w)
          PROVE  \A t \in TaskIds : Carries(tasks[t], tasks'[t])
      <3>1. CASE heartbeat(T(w), G(w))
        <4>1. T(w) \in TaskIds /\ G(w) \in Nat
          BY <1>0, <2>4 DEF HeartbeatTimer, PipeInv, WorkInv, GrantOk, WorkerRecord, G
        <4>. QED
          BY <1>0, <3>1, <4>1, CallCarries
      <3>. QED
        BY <2>3, <2>4, <3>1 DEF HeartbeatTimer
    <2>5. ASSUME NEW w \in Workers,
                 \/ PollIdle(w) \/ Wake(w) \/ Restart(w)
                 \/ EventLoopDrains(w) \/ LoopEnds(w) \/ Shutdown(w)
          PROVE  \A t \in TaskIds : Carries(tasks[t], tasks'[t])
      BY <1>0, <2>3, <2>5, LeaseCarries
         DEF PollIdle, Wake, Restart, EventLoopDrains, LoopEnds, Shutdown
    <2>. QED
      BY <2>1, <2>2, <2>4, <2>5
  <1>2. \A a \in Artifacts : AssessedOk(a)'
    BY <1>1, RestingArtifact, PipelineAssumption DEF pvars
  <1>3. TaskPerArtifact'
    BY <1>1, TasksStay DEF svars
  <1>4. CASE \A v \in Workers : HandlerRests(v)
    BY <1>2, <1>3, <1>4, QuietPreserves
  <1>5. ASSUME NEW w \in Workers, HeartbeatTimer(w) PROVE PipeInv'
    <2>1. worker' = worker \/ worker' = [worker EXCEPT ![w].heartbeatLost = TRUE]
      BY <1>5 DEF HeartbeatTimer
    <2>2. \A v \in Workers : HandlerRests(v)
      BY <1>0, <2>1 DEF HandlerRests, pvars, WorkerRecord
    <2>. QED
      BY <1>4, <2>2
  <1>6. ASSUME NEW w \in Workers,
               \/ PollIdle(w) \/ Wake(w) \/ Restart(w)
               \/ EventLoopDrains(w) \/ LoopEnds(w)
        PROVE  PipeInv'
    <2>1. ~Running(w) /\ \E pc \in {"idle", "ready", "exited"} : Goto(w, pc)
      BY <1>6 DEF PollIdle, Wake, Restart, EventLoopDrains, LoopEnds, Running
    <2>2. PICK pc \in {"idle", "ready", "exited"} : Goto(w, pc)
      BY <2>1
    <2>3. worker'[w].pc = pc /\ \A v \in Workers : v # w => worker'[v] = worker[v]
      BY <1>0, <2>2 DEF Goto, Fresh
    <2>4. handler[w] = "none"
      BY <2>1 DEF PipeInv, HandlerOk
    <2>5. HandlerOk(w)'
      BY <2>3, <2>4 DEF HandlerOk, Running, pvars, Looking
    <2>6. \A v \in Workers : HandlerOk(v)'
      BY <2>3, <2>5, PartsHold, RestingHandler DEF HandlerRests, pvars
    <2>7. PipeTypes'
      BY DEF PipeInv, PipeTypes, pvars
    <2>. QED
      BY <1>2, <1>3, <2>6, <2>7, PartsHold DEF PipeInv
  <1>7. CASE UNCHANGED worker
    BY <1>4, <1>7 DEF HandlerRests, pvars
  <1>. QED
    BY <1>5, <1>6, <1>7 DEF Clock, Shutdown

(* A lease is granted: the handler looks for an assessment.                *)
LEMMA StartPreserves ==
    ASSUME PipeInv, [PNext]_evars, NEW w \in Workers, NEW a \in Artifacts, StartHandler(w, a)
    PROVE  PipeInv'
  <1>0. /\ QInv /\ worker \in [Workers -> WorkerRecord] /\ a \in TaskIds
        /\ PollLease(w, a) /\ UNCHANGED <<svars, assessment, proxies>>
    BY PipelineAssumption DEF PipeInv, WorkInv, LeasesAreExclusive, WTypeOK, StartHandler
  <1>1. \A t \in TaskIds : Carries(tasks[t], tasks'[t])
    BY <1>0, LeaseCarries DEF PollLease
  <1>2. \A b \in Artifacts : AssessedOk(b)'
    BY <1>0, <1>1, RestingArtifact, PipelineAssumption
  <1>3. TaskPerArtifact'
    BY <1>0, <1>1, TasksStay DEF svars
  <1>. DEFINE pc == IF assessment[a] = Unassessed THEN "read" ELSE "checkpoint"
  <1>4. /\ handler' = [handler EXCEPT ![w] = pc]
        /\ worker'[w].pc = "running" /\ worker'[w].task = a
        /\ \A v \in Workers : v # w => worker'[v] = worker[v]
    BY <1>0 DEF StartHandler, Handle, PollLease
  <1>5. handler \in [Workers -> HandlerStates] /\ pc \in HandlerStates
    BY DEF PipeInv, PipeTypes, HandlerStates
  <1>6. HandlerOk(w)'
    BY <1>0, <1>4, <1>5 DEF HandlerOk, Running, T, Looking
  <1>7. \A v \in Workers : v # w => HandlerRests(v)
    BY <1>4, <1>5 DEF HandlerRests
  <1>8. \A v \in Workers : HandlerOk(v)'
    BY <1>0, <1>6, <1>7, PartsHold, RestingHandler
  <1>9. PipeTypes'
    BY <1>0, <1>4, <1>5 DEF PipeInv, PipeTypes
  <1>. QED
    BY <1>2, <1>3, <1>8, <1>9, PartsHold DEF PipeInv

(* Between its lease and its checkpoint the handler touches no task.  Two  *)
(* handlers of one artifact cannot both hold its lease, so a commit leaves *)
(* no other handler with a wrong first look.                               *)
LEMMA WorkingPreserves ==
    ASSUME PipeInv, [PNext]_evars, NEW w \in Workers, UNCHANGED <<svars, wvars>>,
           \/ ReadPasses(w) \/ Reject(w) \/ DecodePasses(w) \/ PutProxy(w) \/ Accept(w)
    PROVE  PipeInv'
  <1>0. /\ handler[w] \in Looking /\ handler[w] # "none" /\ HandlerOk(w)
        /\ handler \in [Workers -> HandlerStates]
        /\ assessment \in [Artifacts -> Assessments]
        /\ proxies \subseteq Artifacts \X Nat
    BY DEF ReadPasses, Reject, DecodePasses, PutProxy, Accept, Looking, PipeInv, PipeTypes
  <1>1. /\ Running(w) /\ T(w) \in Artifacts /\ G(w) \in Nat /\ G(w) # 0
        /\ G(w) <= tasks[T(w)].leaseGeneration
    BY <1>0, HandlerFacts
  <1>. DEFINE t == T(w)
              g == G(w)
  <1>2. \A v \in Workers : /\ worker'[v] = worker[v] /\ T(v)' = T(v) /\ G(v)' = G(v)
                           /\ Running(v)' <=> Running(v)
                           /\ ValidLease(T(v), G(v))' <=> ValidLease(T(v), G(v))
    BY DEF wvars, T, G, Running, ValidLease
  <1>3. \A u \in TaskIds : Carries(tasks[u], tasks'[u]) /\ tasks'[u] = tasks[u]
    BY DEF Carries, wvars
  <1>4. TaskPerArtifact'
    BY <1>3, TasksStay DEF svars
  <1>5. \A v \in Workers : v # w /\ Running(v) /\ T(v) = t /\ ValidLease(t, g) =>
                              ~ValidLease(T(v), G(v))
    BY <1>1 DEF PipeInv, WorkInv, LeasesAreExclusive, NoSharedLease, ValidLease
  <1>6. CASE UNCHANGED assessment
    <2>1. PICK pc \in Looking :
             /\ handler' = [handler EXCEPT ![w] = pc]
             /\ proxies \subseteq proxies' /\ proxies' \subseteq Artifacts \X Nat
             /\ pc = "verify" => <<t, g>> \in proxies'
      <3>1. CASE ReadPasses(w) \/ DecodePasses(w)
        BY <1>0, <3>1 DEF ReadPasses, DecodePasses, Handle, Looking
      <3>2. CASE PutProxy(w)
        BY <1>0, <1>1, <3>2 DEF PutProxy, Handle, Looking
      <3>3. ASSUME NEW x, recordAssessment(w, x), x # Unassessed PROVE FALSE
        BY <1>0, <1>1, <1>6, <3>3 DEF recordAssessment
      <3>4. CASE Reject(w) \/ Accept(w)
        BY <3>3, <3>4 DEF Reject, Accept, Unassessed
      <3>. QED
        BY <3>1, <3>2, <3>4
    <2>2. handler'[w] = pc /\ \A v \in Workers : v # w => handler'[v] = handler[v]
      BY <1>0, <2>1
    <2>3. HandlerOk(w)'
      BY <1>0, <1>1, <1>2, <1>6, <2>1, <2>2 DEF HandlerOk, Looking
    <2>4. \A v \in Workers : v # w => HandlerRests(v)
      BY <1>2, <2>2 DEF HandlerRests
    <2>5. \A v \in Workers : HandlerOk(v)'
      BY <1>6, <2>1, <2>3, <2>4, PartsHold, RestingHandler
    <2>6. \A b \in Artifacts : AssessedOk(b)'
      BY <1>3, <1>6, <2>1, RestingArtifact, PipelineAssumption
    <2>7. PipeTypes'
      BY <1>0, <1>6, <2>1 DEF PipeTypes, Looking, HandlerStates
    <2>. QED
      BY <1>4, <2>5, <2>6, <2>7, PartsHold DEF PipeInv
  <1>7. ASSUME NEW x \in Assessments, recordAssessment(w, x), x # Unassessed,
               x.proxy \in {0, g}, x.state = "accepted" => <<t, x.proxy>> \in proxies,
               Handle(w, "checkpoint"), UNCHANGED proxies
        PROVE  PipeInv'
    <2>1. /\ ValidLease(t, g) /\ assessment[t] = Unassessed
          /\ assessment' = [assessment EXCEPT ![t] = x]
          /\ handler' = [handler EXCEPT ![w] = "checkpoint"]
      BY <1>7 DEF recordAssessment, assertLease, Handle
    <2>2. /\ assessment'[t] = x
          /\ \A b \in Artifacts : b # t => assessment'[b] = assessment[b]
          /\ handler'[w] = "checkpoint"
          /\ \A v \in Workers : v # w => handler'[v] = handler[v]
      BY <1>0, <1>1, <2>1
    <2>3. HandlerOk(w)'
      BY <1>1, <1>2, <1>7, <2>2 DEF HandlerOk, Looking
    <2>4. \A b \in Artifacts : assessment[b] # Unassessed => assessment'[b] # Unassessed
      BY <1>7, <2>1, <2>2
    <2>5. ASSUME NEW v \in Workers, v # w PROVE HandlerOk(v)'
      <3>1. HandlerRests(v)
        BY <1>2, <2>2, <2>5 DEF HandlerRests
      <3>2. handler[v] \in Looking /\ ValidLease(T(v), G(v)) =>
               assessment'[T(v)] = assessment[T(v)]
        <4>. SUFFICES ASSUME handler[v] \in Looking, ValidLease(T(v), G(v))
                      PROVE  assessment'[T(v)] = assessment[T(v)]
          OBVIOUS
        <4>1. handler[v] # "none"
          BY DEF Looking
        <4>2. Running(v) /\ T(v) \in Artifacts
          BY <4>1, HandlerFacts
        <4>. QED
          BY <1>5, <2>1, <2>2, <2>5, <4>2
      <3>. QED
        BY <1>7, <2>4, <3>1, <3>2, PartsHold, RestingHandler
    <2>6. ASSUME NEW b \in Artifacts PROVE AssessedOk(b)'
      <3>1. CASE b # t
        BY <1>3, <1>7, <2>2, <3>1, RestingArtifact, PipelineAssumption
      <3>2. CASE b = t
        <4>1. tasks'[t] = tasks[t] /\ tasks[t].state = "running"
          BY <1>1, <1>3, <2>1, PipelineAssumption DEF ValidLease
        <4>2. tasks[t].leaseGeneration \in Nat
          BY <1>1, PartsHold
        <4>. QED
          BY <1>1, <1>7, <2>2, <3>2, <4>1, <4>2 DEF AssessedOk
      <3>. QED
        BY <3>1, <3>2
    <2>7. PipeTypes'
      BY <1>0, <1>7, <2>1 DEF PipeTypes, HandlerStates
    <2>. QED
      BY <1>4, <2>3, <2>5, <2>6, <2>7, PartsHold DEF PipeInv
  <1>8. CASE Reject(w)
    <2>. DEFINE x == [state |-> "rejected", proxy |-> 0]
    <2>1. x \in Assessments /\ x # Unassessed /\ x.proxy = 0 /\ x.state = "rejected"
      BY DEF Assessments, Unassessed
    <2>2. recordAssessment(w, x) /\ Handle(w, "checkpoint") /\ UNCHANGED proxies
      BY <1>8 DEF Reject
    <2>. HIDE DEF x
    <2>. QED
      BY <1>7, <2>1, <2>2
  <1>9. CASE Accept(w)
    <2>. DEFINE x == [state |-> "accepted", proxy |-> g]
    <2>1. x \in Assessments /\ x # Unassessed /\ x.proxy = g
      BY <1>1 DEF Assessments, Unassessed
    <2>2. /\ recordAssessment(w, x) /\ Handle(w, "checkpoint") /\ UNCHANGED proxies
          /\ <<t, g>> \in proxies
      BY <1>0, <1>9 DEF Accept, HandlerOk
    <2>. HIDE DEF x
    <2>. QED
      BY <1>7, <2>1, <2>2
  <1>. QED
    BY <1>6, <1>8, <1>9 DEF ReadPasses, DecodePasses, PutProxy

(* The checkpoint changes nothing the invariant looks at.                  *)
LEMMA CheckpointedPreserves ==
    ASSUME PipeInv, [PNext]_evars, NEW w \in Workers, Checkpointed(w)
    PROVE  PipeInv'
  <1>0. /\ QInv /\ handler[w] = "checkpoint" /\ HandlerOk(w) /\ UNCHANGED <<svars, assessment, proxies>>
        /\ handler \in [Workers -> HandlerStates] /\ worker' = worker
        /\ handler' = [handler EXCEPT ![w] = "finish"] /\ checkpoint(T(w), G(w))
    BY DEF PipeInv, PipeTypes, WorkInv, Checkpointed, HandlerCheckpoint, Handle
  <1>1. Running(w) /\ T(w) \in Artifacts /\ G(w) \in Nat
    BY <1>0, HandlerFacts
  <1>2. \A t \in TaskIds : Carries(tasks[t], tasks'[t])
    BY <1>0, <1>1, CallCarries, PipelineAssumption
  <1>3. /\ handler'[w] = "finish"
        /\ \A v \in Workers : v # w => handler'[v] = handler[v]
    BY <1>0
  <1>4. HandlerOk(w)'
    BY <1>0, <1>1, <1>3 DEF HandlerOk, Running, T, Looking
  <1>5. \A v \in Workers : v # w => HandlerRests(v)
    BY <1>0, <1>3 DEF HandlerRests
  <1>6. \A v \in Workers : HandlerOk(v)'
    BY <1>0, <1>4, <1>5, PartsHold, RestingHandler
  <1>7. \A b \in Artifacts : AssessedOk(b)'
    BY <1>0, <1>2, RestingArtifact, PipelineAssumption
  <1>8. TaskPerArtifact' /\ PipeTypes'
    BY <1>0, <1>2, TasksStay DEF svars, PipeInv, PipeTypes, HandlerStates
  <1>. QED
    BY <1>6, <1>7, <1>8, PartsHold DEF PipeInv

(* A handler ends: its worker goes on without it.                          *)
LEMMA EndingPreserves ==
    ASSUME PipeInv, [PNext]_evars, NEW w \in Workers,
           Handle(w, "none"), UNCHANGED <<svars, assessment, proxies>>,
           NEW pc \in {"ready", "failed", "killed"}, Goto(w, pc),
           \A a \in Artifacts : AssessedOk(a)', TaskPerArtifact'
    PROVE  PipeInv'
  <1>0. handler \in [Workers -> HandlerStates] /\ worker \in [Workers -> WorkerRecord]
    BY DEF PipeInv, PipeTypes, WorkInv, LeasesAreExclusive, WTypeOK
  <1>1. /\ handler'[w] = "none" /\ worker'[w].pc = pc
        /\ \A v \in Workers : v # w => handler'[v] = handler[v] /\ worker'[v] = worker[v]
    BY <1>0 DEF Handle, Goto, Fresh
  <1>2. HandlerOk(w)'
    BY <1>1 DEF HandlerOk, Running, Looking
  <1>3. \A v \in Workers : HandlerOk(v)'
    BY <1>1, <1>2, PartsHold, RestingHandler DEF HandlerRests
  <1>4. PipeTypes'
    BY <1>0 DEF PipeInv, PipeTypes, Handle, HandlerStates
  <1>. QED
    BY <1>3, <1>4, PartsHold DEF PipeInv

LEMMA EndsPreserve ==
    ASSUME PipeInv, [PNext]_evars, NEW w \in Workers,
           Completed(w) \/ HandlerErrs(w) \/ HandlerFenced(w) \/ HandlerCrash(w)
    PROVE  PipeInv'
  <1>0. QInv /\ HandlerOk(w)
    BY DEF PipeInv, WorkInv
  <1>1. ASSUME UNCHANGED <<svars, assessment, proxies>>,
               \A t \in TaskIds : Carries(tasks[t], tasks'[t])
        PROVE  (\A a \in Artifacts : AssessedOk(a)') /\ TaskPerArtifact'
    BY <1>1, RestingArtifact, TasksStay, PipelineAssumption DEF svars
  <1>2. CASE HandlerErrs(w)
    <2>1. handler[w] # "none"
      BY <1>2 DEF HandlerErrs
    <2>2. T(w) \in TaskIds /\ G(w) \in Nat
      BY <2>1, HandlerFacts, PipelineAssumption
    <2>3. \A t \in TaskIds : Carries(tasks[t], tasks'[t])
      BY <1>0, <1>2, <2>2, CallCarries DEF HandlerErrs
    <2>. QED
      BY <1>1, <1>2, <2>3, EndingPreserves DEF HandlerErrs
  <1>3. CASE HandlerFenced(w) \/ HandlerCrash(w)
    <2>1. \A t \in TaskIds : Carries(tasks[t], tasks'[t])
      BY <1>3 DEF HandlerFenced, HandlerCrash, ThrowFenced, Crash, Carries
    <2>2. \E pc \in {"failed", "killed"} : Goto(w, pc)
      BY <1>3 DEF HandlerFenced, HandlerCrash, ThrowFenced, Crash
    <2>. QED
      BY <1>1, <1>3, <2>1, <2>2, EndingPreserves DEF HandlerFenced, HandlerCrash
  <1>4. CASE Completed(w)
    <2>1. /\ handler[w] # "none" /\ complete(T(w), G(w)) /\ Goto(w, "ready")
          /\ Handle(w, "none") /\ UNCHANGED <<svars, assessment, proxies>>
          /\ assessment[T(w)] # Unassessed
      BY <1>0, <1>4 DEF Completed, Succeed, HandlerOk
    <2>2. T(w) \in Artifacts /\ T(w) \in TaskIds /\ G(w) \in Nat /\ G(w) # 0
      BY <2>1, HandlerFacts, PipelineAssumption
    <2>. DEFINE x == tasks[T(w)]
                y == [Cleared(x) EXCEPT !.state = "succeeded", !.result = G(w)]
    <2>3. x \in TaskRecord /\ tasks' = [tasks EXCEPT ![T(w)] = y] /\ x.state = "running"
      BY <1>0, <2>1, <2>2 DEF QInv, complete, ValidLease
    <2>4. y.state = "succeeded" /\ y.result = G(w)
      BY <2>3, ClearedFacts DEF TaskRecord
    <2>. HIDE DEF y
    <2>5. /\ tasks'[T(w)] = y
          /\ \A t \in TaskIds : t # T(w) => tasks'[t] = tasks[t]
      BY <1>0, <2>2, <2>3 DEF QInv
    <2>6. ASSUME NEW a \in Artifacts PROVE AssessedOk(a)'
      <3>1. CASE a # T(w)
        BY <2>1, <2>5, <3>1, RestingArtifact, PipelineAssumption DEF Carries
      <3>2. CASE a = T(w)
        <4>1. AssessedOk(a) /\ assessment[a].proxy \in Nat
          BY DEF PipeInv, PipeTypes, Assessments
        <4>2. (assessment[a].proxy <= tasks[a].leaseGeneration)'
          BY <2>1, <4>1, PartsHold DEF AssessedOk
        <4>. QED
          BY <2>1, <2>2, <2>4, <2>5, <3>2, <4>1, <4>2 DEF AssessedOk
      <3>. QED
        BY <3>1, <3>2
    <2>7. TaskPerArtifact'
      BY <2>1, <2>3, <2>4, <2>5, PipelineAssumption DEF svars, PipeInv, TaskPerArtifact
    <2>. QED
      BY <2>1, <2>6, <2>7, EndingPreserves
  <1>. QED
    BY <1>2, <1>3, <1>4

LEMMA PipeStepPreserves ==
    ASSUME PipeInv, [PNext]_evars PROVE PipeInv'
  <1>1. CASE UNCHANGED evars
    <2>1. \A v \in Workers : HandlerRests(v)
      BY <1>1 DEF HandlerRests, evars, wvars, pvars
    <2>2. \A t \in TaskIds : Carries(tasks[t], tasks'[t])
      BY <1>1 DEF Carries, evars, wvars
    <2>3. TaskPerArtifact'
      BY <1>1, <2>2, TasksStay DEF evars, svars
    <2>4. UNCHANGED pvars /\ \A a \in Artifacts : AssessedOk(a)'
      BY <1>1, <2>2, RestingArtifact, PipelineAssumption DEF evars, pvars
    <2>. QED
      BY <2>1, <2>3, <2>4, QuietPreserves
  <1>2. ASSUME NEW i \in Intents,
               Commit(i) \/ (SyncStep(i) /\ UNCHANGED <<wvars, pvars>>)
        PROVE  PipeInv'
    BY <1>2, SyncStepsPreserve, CommitKeepsPipe
  <1>3. ASSUME NEW w \in Workers, NEW a \in Artifacts, StartHandler(w, a) PROVE PipeInv'
    BY <1>3, StartPreserves
  <1>4. ASSUME NEW w \in Workers, HandlerStep(w) \/ HandlerCrash(w) PROVE PipeInv'
    <2>1. CASE ReadPasses(w) \/ Reject(w) \/ DecodePasses(w) \/ PutProxy(w) \/ Accept(w)
      <3>1. UNCHANGED <<svars, wvars>>
        BY <2>1 DEF ReadPasses, Reject, DecodePasses, PutProxy, Accept
      <3>. QED
        BY <2>1, <3>1, WorkingPreserves
    <2>. QED
      BY <1>4, <2>1, CheckpointedPreserves, EndsPreserve DEF HandlerStep
  <1>5. ASSUME NEW w \in Workers,
               \/ Idles(w) \/ Leaves(w)
               \/ (HeartbeatTimer(w) \/ Shutdown(w)) /\ UNCHANGED <<svars, pvars>>
        PROVE  PipeInv'
    BY <1>5, AroundPreserves DEF Idles, Leaves
  <1>6. CASE Clock /\ UNCHANGED <<svars, pvars>>
    BY <1>6, AroundPreserves
  <1>7. ASSUME NEW a \in Artifacts, cancel(a), UNCHANGED <<svars, worker, shutdown, pvars>>
        PROVE  PipeInv'
    BY <1>7, AroundPreserves
  <1>. QED
    BY <1>1, <1>2, <1>3, <1>4, <1>5, <1>6, <1>7 DEF PNext

LEMMA PipeStarts == ASSUME PInit PROVE PipeInv
  <1>1. SyncInv /\ WorkInv
    BY SyncStarts, WorkersStart DEF PInit
  <1>2. PipeTypes
    BY DEF PInit, PipeTypes, Unassessed, Assessments, HandlerStates
  <1>3. \A w \in Workers : HandlerOk(w)
    BY DEF PInit, WInit, Fresh, HandlerOk, Running, Looking
  <1>4. \A a \in Artifacts : AssessedOk(a)
    BY PipelineAssumption DEF PInit, WInit, Init, AbsentTask, AssessedOk, Unassessed
  <1>5. TaskPerArtifact
    BY PipelineAssumption DEF PInit, SInit, WInit, Init, AbsentTask, TaskPerArtifact
  <1>. QED
    BY <1>1, <1>2, <1>3, <1>4, <1>5 DEF PipeInv

LEMMA PipeInvariant == PSpec => []PipeInv
  <1>1. PInit => PipeInv
    BY PipeStarts
  <1>2. PipeInv /\ [PNext]_evars => PipeInv'
    BY PipeStepPreserves
  <1>. QED
    BY <1>1, <1>2, PTL DEF PSpec

(* Sync, queue, workers and handler agree on every original: it has a task *)
(* exactly when it has a row, a handler that still holds its lease is the  *)
(* first to assess it, its success is an assessment, and reconcileEvidence *)
(* finds nothing missing (content-pipeline.ts:130, evidence-handlers.ts:13).*)
THEOREM ThePipelineIsSound == PSpec => []PipelineIsSound
  <1>1. PipeInv => PipelineIsSound
    <2>. SUFFICES ASSUME PipeInv PROVE PipelineIsSound
      OBVIOUS
    <2>1. PTypeOK
      BY DEF PipeInv, PipeTypes, PTypeOK, SyncInv, WorkInv, LeasesAreExclusive
    <2>2. FirstLookStillTrue
      BY DEF PipeInv, HandlerOk, FirstLookStillTrue, Looking
    <2>3. ASSUME NEW a \in Artifacts, tasks[a].state = "succeeded"
          PROVE  assessment[a] # Unassessed /\ assessment[a].proxy <= tasks[a].result
      <3>1. TaskOK(tasks[a]) /\ AssessedOk(a)
        BY PipelineAssumption DEF PipeInv, WorkInv, QInv
      <3>. QED
        BY <2>3, <3>1 DEF TaskOK, AssessedOk
    <2>4. ASSUME NEW k \in Keys
          PROVE  reconcileEvidence(k) \notin {"missing_object", "divergent_checksum"}
      <3>. DEFINE a == k[2]
      <3>1. a \in Artifacts
        BY DEF Keys
      <3>2. artifacts[a] # None => /\ objects[KeyOf(artifacts[a])] = artifacts[a].content
                                   /\ artifacts[a].content # None
        BY <3>1, DescriptorFacts DEF PipeInv, SyncInv, STypeOK, DurableIsExact
      <3>3. AssessedOk(a)
        BY <3>1 DEF PipeInv
      <3>. QED
        BY <3>2, <3>3 DEF reconcileEvidence, AssessedOk
    <2>. QED
      BY <2>1, <2>2, <2>3, <2>4 DEF PipeInv, PipelineIsSound, SuccessIsAssessed, ReconcilesClean
  <1>. QED
    BY <1>1, PipeInvariant, PTL

(* What holds of sync by itself holds of it in the pipeline: it is used as *)
(* its module says, and so a capture keeps its artifact and its row.       *)
THEOREM SyncInThePipeline == PSpec => SSpec /\ CaptureKeepsArtifact
  <1>1. PInit => SInit
    BY DEF PInit
  <1>2. PipeInv /\ [PNext]_evars => [SNext]_svars
    BY StepsOfTheParts
  <1>3. PSpec => SSpec
    BY <1>1, <1>2, PipeInvariant, PTL DEF PSpec, SSpec
  <1>. QED
    BY <1>3, CapturePermanence

=============================================================================
