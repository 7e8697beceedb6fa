---------------------------- MODULE DraftRunner ----------------------------
(***************************************************************************)
(* The drafting agent (packages/agent): attempts of a run prepare a        *)
(* request from a frozen packet, have the model draft, store the draft,    *)
(* check it and store a verdict.  The queue delivers at least once, so two *)
(* attempts of one run may overlap, and the packet may be superseded at    *)
(* any time.  Each repository write checks first and writes after an       *)
(* await.  A packet revision stands for its hash, a draft for its own.     *)
(***************************************************************************)
EXTENDS Naturals, Sequences, FiniteSets

CONSTANTS
    Attempts,       \* attempts that can be in flight
    RunIds,
    PacketSources,  \* the sources of each packet revision
    Proxies,        \* image proxies a request may select
    Texts           \* clauses a model writes

ASSUME PacketAssumption ==
    PacketSources # <<>> /\ DOMAIN PacketSources = 1 .. Len(PacketSources)
ASSUME TextsAssumption == \A c \in Texts : c.terms \in Seq(STRING)

Revisions == DOMAIN PacketSources
DraftModules == {"building", "timber_pest"}

VARIABLES
    current,   \* the current packet revision
    boundTo,   \* run -> the packet it is bound to, 0 before
    record,    \* run -> ProvisionalDraftRecord
    att        \* attempt -> where it is and what it holds

draftVars == <<current, boundTo, record, att>>

NoRecord == [status |-> "none"]
NoRequest == [packet |-> 0, images |-> {}]
NoVerdict == [passed |-> FALSE, of |-> NoRecord]
Waiting == [pc |-> "idle", run |-> 0, packet |-> 0, request |-> NoRequest,
            rec |-> NoRecord, old |-> NoRecord, late |-> FALSE]

DraftInit ==
    /\ current = 1
    /\ boundTo = [r \in RunIds |-> 0]
    /\ record = [r \in RunIds |-> NoRecord]
    /\ att = [a \in Attempts |-> Waiting]

-----------------------------------------------------------------------------
(* What crosses to the provider.                                           *)

sameProxyManifest(x) == x.trustState = "safe_proxy" /\ x.resolved = "same"

(* prepareOpenAiRequest throws unless every selected proxy resolves to the *)
(* same manifest and bytes; text is redacted before (prepared-request.ts). *)
Prepared ==
    {NoRequest} \cup
    {[packet |-> p, images |-> {x.id : x \in xs}] :
        p \in Revisions,
        xs \in {s \in SUBSET Proxies : \A x \in s : sameProxyManifest(x)}}

(* The fixture model drafts from the packet and has no request; a real one *)
(* without its packet's request throws.                                    *)
requiredPreparedRequest(request, packet) ==
    request = NoRequest \/ request.packet = packet

(* What a model can return: a clause that each of its modules uses.        *)
InspectionDraft ==
    [packet : Revisions, pins : BOOLEAN, modules : (SUBSET DraftModules) \ {{}},
     clause : Texts]
assertDraftPins(packet, d) == d.packet = packet /\ d.pins

-----------------------------------------------------------------------------
(* The deterministic guard and the lexical entailment check.  A clause has *)
(* the wording it uses, the sources it cites, its numbers, whether it      *)
(* asserts an absence, and its material tokens in order; a source has a    *)
(* text with numbers, words and perhaps a word of absence or doubt, or it  *)
(* has none.  Every critical issue fails the draft.                        *)

packetAuthorizesSource(p, ref) ==
    \E s \in PacketSources[p] : s.kind = ref.kind /\ s.id = ref.id

(* Wording no module may use, and wording of the other module.             *)
Prohibited == {"professional_boundary", "absolute_no_pest_claim"}
OtherModule == [building |-> "pest_only", timber_pest |-> "building_only"]

checkClause(p, m, c) ==
    (Prohibited \cap c.says)
    \cup {issue \in {"module_taxonomy_leakage", "unbounded_no_evidence_claim",
                     "no_evidence_without_coverage", "lost_qualification",
                     "unauthorized_provenance"} :
        \/ issue = "module_taxonomy_leakage" /\ OtherModule[m] \in c.says
        \/ /\ m = "timber_pest" /\ "no_visible_evidence" \in c.says
           /\ \/ /\ issue = "unbounded_no_evidence_claim"
                 /\ "access_and_time" \notin c.says
              \/ /\ issue = "no_evidence_without_coverage"
                 /\ \A ref \in c.refs : ref.kind # "coverage"
        \/ issue = "lost_qualification" /\ ~c.qualified
        \/ /\ issue = "unauthorized_provenance"
           /\ \E ref \in c.refs : ~packetAuthorizesSource(p, ref)}

runDeterministicDraftGuard(p, d) ==
    UNION {checkClause(p, m, d.clause) : m \in d.modules}
    \cup {issue \in {"packet_identity_mismatch", "module_missing"} :
            IF issue = "module_missing" THEN d.modules # DraftModules
            ELSE d.packet # p}

(* Only sources of the packet that the clause cites support it, all their  *)
(* texts taken together; an artifact and a blank source have no text.      *)
NoText == [numbers |-> {}, words |-> {}, denies |-> FALSE]
sourceTexts(p, refs) ==
    {s.text : s \in {t \in PacketSources[p] :
                 t.text # NoText /\ \E ref \in refs : ref.kind = t.kind /\ ref.id = t.id}}

numbersAreEntailed(c, texts) == c.numbers \subseteq UNION {t.numbers : t \in texts}

(* Any word of absence or doubt will do, whatever it is said of.           *)
polarityIsEntailed(c, texts) == c.denies => \E t \in texts : t.denies

(* Up to three material tokens must all be found, of more at least 55 %.   *)
materialTermsAreEntailed(c, texts) ==
    LET words == UNION {t.words : t \in texts}
        supported == Cardinality({i \in DOMAIN c.terms : c.terms[i] \in words})
    IN  /\ Len(c.terms) <= 3 => supported = Len(c.terms)
        /\ 100 * supported >= 55 * Len(c.terms)

Entailed(p, c) ==
    LET texts == sourceTexts(p, c.refs)
    IN  /\ texts # {}
        /\ numbersAreEntailed(c, texts) /\ polarityIsEntailed(c, texts)
        /\ materialTermsAreEntailed(c, texts)

verify(p, d) ==
    [of |-> d, passed |-> runDeterministicDraftGuard(p, d) = {} /\ Entailed(p, d.clause)]

-----------------------------------------------------------------------------
(* One attempt.  Starts, returns, throws or is abandoned.                  *)

At(a, pc) == att[a].pc = pc
Moves(a, pc) == att' = [att EXCEPT ![a].pc = pc]
(* The attempt now holds the record it stored.                             *)
Holds(a, pc, rec) == att' = [att EXCEPT ![a].pc = pc, ![a].rec = rec,
                                        ![a].old = NoRecord]
Returns(a, outcome) ==
    att' = [att EXCEPT ![a] = [Waiting EXCEPT !.pc = outcome, !.run = att[a].run,
                                  !.packet = att[a].packet, !.late = att[a].late]]
Throws(a) == Returns(a, "failed")

(* bindAndGet: a run id is bound to one packet for good.                   *)
bindAndGet(a, r, p, request) ==
    /\ At(a, "idle")
    /\ IF boundTo[r] \in {0, p}
       THEN /\ boundTo' = [boundTo EXCEPT ![r] = p]
            /\ att' = [att EXCEPT ![a] =
                         [Waiting EXCEPT !.pc = "bound", !.run = r, !.packet = p,
                            !.request = request, !.rec = record[r],
                            !.late = p # current]]
       ELSE /\ att' = [att EXCEPT ![a] = [Waiting EXCEPT !.pc = "failed"]]
            /\ UNCHANGED boundTo
    /\ UNCHANGED <<current, record>>

(* Where the attempt goes on with the record it has.                       *)
Resumes(rec) == IF rec = NoRecord THEN "generating"
                ELSE IF ~rec.checked THEN "drafted"
                ELSE IF rec.verification = NoVerdict THEN "guarded"
                ELSE "decided"

(* Mutant: the packet is not compared with the current one.                *)
assumeCurrent(a) == TRUE
isPacketCurrent(a) == att[a].packet = current

checkCurrent(a) ==
    /\ At(a, "bound")
    /\ Moves(a, IF isPacketCurrent(a) THEN Resumes(att[a].rec) ELSE "stale")
    /\ UNCHANGED <<current, boundTo, record>>

(* generateAndPersist: a bad request, the provider's failure, a timeout, a *)
(* cost over budget and wrong pins all throw.  insertIfCurrent looks for a *)
(* record and for the current packet, then waits.                          *)
insertIfCurrent(a, d) ==
    /\ At(a, "generating")
    /\ requiredPreparedRequest(att[a].request, att[a].packet)
    /\ assertDraftPins(att[a].packet, d)
    /\ IF record[att[a].run] # NoRecord THEN Throws(a)
       ELSE IF att[a].packet # current THEN Moves(a, "stale")
       ELSE att' = [att EXCEPT ![a].pc = "inserting", ![a].request = NoRequest,
                      ![a].old = [packet |-> att[a].packet, draft |-> d,
                                  saw |-> att[a].request, checked |-> FALSE,
                                  verification |-> NoVerdict,
                                  status |-> "provisional"]]
    /\ UNCHANGED <<current, boundTo, record>>

generateFails(a) ==
    /\ At(a, "generating") /\ Throws(a)
    /\ UNCHANGED <<current, boundTo, record>>

Stored(a, pc, rec) ==
    /\ record' = [record EXCEPT ![att[a].run] = rec]
    /\ Holds(a, pc, rec)
    /\ UNCHANGED <<current, boundTo>>

draftPersisted(a) == At(a, "inserting") /\ Stored(a, "drafted", att[a].old)

(* updateIfCurrent: the record is read and compared by its draft's hash,   *)
(* then the packet, then, after an await, the record read is rewritten.    *)
(* Mutant: any record of the run will do.                                  *)
anyDraft(stored, held) == stored # NoRecord
sameDraft(stored, held) == stored # NoRecord /\ stored.draft = held.draft

updateIfCurrent(a, pc, next) ==
    /\ At(a, pc)
    /\ LET stored == record[att[a].run]
       IN  IF ~sameDraft(stored, att[a].rec) THEN Throws(a)
           ELSE IF stored.packet # current THEN Moves(a, "stale")
           ELSE att' = [att EXCEPT ![a].pc = next, ![a].old = stored]
    /\ UNCHANGED <<current, boundTo, record>>

deterministicChecked(a) ==
    /\ At(a, "checking")
    /\ LET rec == [att[a].old EXCEPT !.checked = TRUE]
       IN  Stored(a, Resumes(rec), rec)

verdictStored(a) ==
    /\ At(a, "verifying")
    /\ LET v == verify(att[a].packet, att[a].rec.draft)
       IN  Stored(a, "decided",
                  [att[a].old EXCEPT !.verification = v,
                     !.status = IF v.passed THEN "verified" ELSE "rejected"])

runCompleted(a) ==
    /\ At(a, "decided")
    /\ Returns(a, IF att[a].rec.status = "verified" THEN "verified" ELSE "rejected")
    /\ UNCHANGED <<current, boundTo, record>>

(* The packet was superseded: the record this attempt holds is marked.     *)
markStale(a) ==
    /\ At(a, "stale")
    /\ IF att[a].rec = NoRecord
       THEN Returns(a, "superseded") /\ UNCHANGED record
       ELSE IF ~sameDraft(record[att[a].run], att[a].rec)
       THEN Throws(a) /\ UNCHANGED record
       ELSE /\ Returns(a, "superseded")
            /\ record' = [record EXCEPT ![att[a].run].status = "stale"]
    /\ UNCHANGED <<current, boundTo>>

(* faultAfter: the attempt is lost after a checkpoint.                     *)
SimulatedRunnerCrash(a) ==
    /\ att[a].pc \in {"drafted", "guarded", "decided"} /\ Throws(a)
    /\ UNCHANGED <<current, boundTo, record>>

(* Any revision is made the current one, an earlier one too; an attempt    *)
(* whose packet it is has seen its packet current.                         *)
setCurrent(p) ==
    /\ p # current /\ current' = p
    /\ att' = [a \in Attempts |->
                 [att[a] EXCEPT !.late = @ /\ att[a].packet # p]]
    /\ UNCHANGED <<boundTo, record>>

DraftNext ==
    \/ \E p \in Revisions : setCurrent(p)
    \/ \E a \in Attempts :
         \/ \E r \in RunIds, p \in Revisions, q \in Prepared : bindAndGet(a, r, p, q)
         \/ checkCurrent(a) \/ generateFails(a)
         \/ \E d \in InspectionDraft : insertIfCurrent(a, d)
         \/ draftPersisted(a)
         \/ updateIfCurrent(a, "drafted", "checking") \/ deterministicChecked(a)
         \/ updateIfCurrent(a, "guarded", "verifying") \/ verdictStored(a)
         \/ runCompleted(a) \/ markStale(a) \/ SimulatedRunnerCrash(a)

DraftSpec == DraftInit /\ [][DraftNext]_draftVars

-----------------------------------------------------------------------------
(* A stored verdict is of the draft it is stored with, also when           *)
(* overlapping attempts of a run overwrite each other's records.  Verified *)
(* means, of the packet the run is bound to: every source that is cited is *)
(* in it, every number is in a cited text, an absence is asserted only     *)
(* next to a cited text with a word of absence or doubt, a clause of up to *)
(* three material tokens has them all from cited texts and a longer one    *)
(* more than half of them.  It does not mean that nothing is unsupported   *)
(* (repository.ts:85-134, runner.ts:115-163, guards.ts:45-234,             *)
(* semantic-entailment.ts:149-179).                                        *)
VerdictIsExact ==
    \A r \in RunIds \ {s \in RunIds : record[s] = NoRecord} :
       LET rec == record[r]
           c == rec.draft.clause
           cited == {s \in PacketSources[boundTo[r]] :
                        \E ref \in c.refs : s.kind = ref.kind /\ s.id = ref.id}
           found == {i \in DOMAIN c.terms : \E s \in cited : c.terms[i] \in s.text.words}
       IN  /\ rec.verification # NoVerdict => rec.verification.of = rec.draft
           /\ rec.status = "verified" =>
                /\ rec.verification.passed
                /\ \A ref \in c.refs : \E s \in cited : s.kind = ref.kind /\ s.id = ref.id
                /\ \A n \in c.numbers : \E s \in cited : n \in s.text.numbers
                /\ c.denies => \E s \in cited : s.text.denies
                /\ IF Len(c.terms) <= 3 THEN found = DOMAIN c.terms
                   ELSE 2 * Cardinality(found) > Len(c.terms)

(* A stored draft was written from the packet its run is bound to, and its *)
(* model saw that packet's request or, the fixture, none, and no image but *)
(* verified safe proxies (runner.ts:312-376, repository.ts:79-100,         *)
(* openai-boundary.ts:131-203).                                            *)
DraftSawItsPacket ==
    \A r \in RunIds \ {s \in RunIds : record[s] = NoRecord} :
       /\ record[r].packet = boundTo[r] /\ record[r].draft.packet = boundTo[r]
       /\ record[r].saw = NoRequest \/ record[r].saw.packet = boundTo[r]
       /\ \A i \in record[r].saw.images : \E x \in Proxies :
             x.id = i /\ x.trustState = "safe_proxy" /\ x.resolved = "same"

(* However attempts of a run overlap, what is stored for it comes from its *)
(* packet and carries the verdict on what it says.                         *)
DraftIsGrounded == VerdictIsExact /\ DraftSawItsPacket

(* An attempt whose packet was superseded when it started, and was at no   *)
(* time current since, gives no verdict, not even one an earlier attempt   *)
(* had stored (runner.ts:106-108, 178-189).                                *)
NoLateVerdict ==
    \A a \in Attempts : att[a].late => att[a].pc \notin {"verified", "rejected"}

(* "stale results cannot become reviewable": as long as its packet is not  *)
(* the current one, a record that was marked stale stays so.               *)
StaleStaysStale ==
    [][\A r \in RunIds :
          (record[r].status = "stale" /\ record[r].packet # current)
              => record'[r].status = "stale"]_draftVars
=============================================================================
