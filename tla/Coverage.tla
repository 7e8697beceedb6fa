------------------------------ MODULE Coverage ------------------------------
(***************************************************************************)
(* Area coverage and the investigation packet (packages/domain,            *)
(* inspection/coverage.ts and packet.ts).  A screen loads the ledger of a  *)
(* job, closes out an area on its copy and saves the copy with             *)
(* compare-and-set; another screen may have saved in between.  A packet is *)
(* frozen from a loaded ledger and a completed investigation.              *)
(***************************************************************************)
EXTENDS Naturals, Sequences

CONSTANTS
    AreaModules,    \* area -> the modules that apply to it
    Surveyed,       \* commissioned modules
    Screens,        \* screens that hold a copy of the ledger
    Artifacts,      \* artifacts of the job
    AttachedTo,     \* those attached to the completed investigation
    MaxEntries      \* bound: coverage entries

ASSUME CoverageAssumption ==
    /\ MaxEntries \in Nat /\ Surveyed # {}
    /\ \A a \in DOMAIN AreaModules : AreaModules[a] \subseteq Surveyed
    /\ AttachedTo \subseteq Artifacts

VARIABLES
    cover,     \* the stored coverage ledger
    copy,      \* screen -> the ledger it loaded
    pending,   \* screen -> the ledger it is saving; its copy when it is not
    packet,    \* the packet frozen last
    told       \* history: entries an inspector was told are recorded

coverVars == <<cover, copy, pending, packet, told>>

Limited == {"access_limited", "inaccessible"}
AreaCoverageState == Limited \cup {"inspected", "not_applicable", "revisit"}

createCoverageLedger ==
    [revision |-> 0, entries |-> <<>>, limitations |-> <<>>, revisitItems |-> <<>>]
NoPacket == [coverage |-> {}, limitations |-> {}, evidence |-> {}]

CoverInit ==
    /\ cover = createCoverageLedger
    /\ copy = [s \in Screens |-> cover] /\ pending = copy
    /\ packet = NoPacket /\ told = {}

-----------------------------------------------------------------------------
(* Pure functions of a ledger.                                             *)

(* Mutant: an earlier qualifier is left as it is.                          *)
leaveOpen(items, area, module, status) == items
closeEarlier(items, area, module, status) ==
    [i \in DOMAIN items |->
        IF items[i].area = area /\ items[i].module = module
        THEN [items[i] EXCEPT !.status = status] ELSE items[i]]

Added(items, wanted, item) == IF wanted THEN Append(items, item) ELSE items

(* The reason, the limitation id and the revisit id a state needs are      *)
(* given.  An entry is named by the revision that recorded it.             *)
recordAreaCoverage(l, area, module, state) ==
    [revision |-> l.revision + 1,
     entries |-> Append(l.entries, [id |-> l.revision + 1, area |-> area,
                                    module |-> module, state |-> state]),
     limitations |->
        Added(closeEarlier(l.limitations, area, module, "superseded"),
              state \in Limited,
              [area |-> area, module |-> module, status |-> "active"]),
     revisitItems |->
        Added(closeEarlier(l.revisitItems, area, module, "resolved"),
              state = "revisit",
              [area |-> area, module |-> module, status |-> "open"])]

recordable(area, module, state) ==
    module \in AreaModules[area] \/ state = "not_applicable"

(* Pairs of area and module.                                               *)
Pair(x) == <<x.area, x.module>>
currentCoverageEntries(l) ==
    {l.entries[i] : i \in {j \in DOMAIN l.entries :
        \A k \in DOMAIN l.entries : Pair(l.entries[k]) = Pair(l.entries[j]) => k <= j}}

Having(items, status) ==
    {i \in DOMAIN items : items[i].status = status}

coverageCompletionIssues(l) ==
    {[reason |-> "coverage_not_recorded", pair |-> p] :
        p \in {q \in (DOMAIN AreaModules) \X Surveyed :
                 /\ q[2] \in AreaModules[q[1]]
                 /\ \A i \in DOMAIN l.entries : Pair(l.entries[i]) # q}}
    \cup {[reason |-> "revisit_open", pair |-> Pair(l.revisitItems[i])] :
            i \in Having(l.revisitItems, "open")}

-----------------------------------------------------------------------------
(* Screens.                                                                *)

loadCoverage(s) ==
    /\ pending[s] = copy[s] /\ copy[s] # cover
    /\ copy' = [copy EXCEPT ![s] = cover]
    /\ pending' = [pending EXCEPT ![s] = cover]
    /\ UNCHANGED <<cover, packet, told>>

closeOutArea(s, area, module, state) ==
    /\ pending[s] = copy[s] /\ copy[s].revision < MaxEntries
    /\ recordable(area, module, state)
    /\ pending' = [pending EXCEPT ![s] = recordAreaCoverage(copy[s], area, module, state)]
    /\ UNCHANGED <<cover, copy, packet, told>>

(* A conflict leaves the screen with the ledger it had.                    *)
saveCoverage(s) ==
    /\ pending[s] # copy[s]
    /\ IF cover.revision = copy[s].revision
       THEN /\ cover' = pending[s] /\ copy' = [copy EXCEPT ![s] = pending[s]]
            /\ told' = told \cup {pending[s].entries[Len(pending[s].entries)]}
            /\ UNCHANGED pending
       ELSE /\ pending' = [pending EXCEPT ![s] = copy[s]]
            /\ UNCHANGED <<cover, copy, told>>
    /\ UNCHANGED packet

-----------------------------------------------------------------------------
(* Every transcript span is of a selected artifact.                        *)
validatePacketContext(selected, spans) == spans \subseteq selected

createInvestigationPacket(s, selected, spans) ==
    /\ selected \subseteq AttachedTo /\ validatePacketContext(selected, spans)
    /\ packet' = [coverage |-> {[pair |-> Pair(e), state |-> e.state] :
                                   e \in currentCoverageEntries(copy[s])},
                  limitations |-> {[n |-> i, pair |-> Pair(copy[s].limitations[i])] :
                                      i \in Having(copy[s].limitations, "active")},
                  evidence |-> selected]
    /\ packet' # packet
    /\ UNCHANGED <<cover, copy, pending, told>>

CoverNext ==
    \E s \in Screens :
       \/ loadCoverage(s) \/ saveCoverage(s)
       \/ \E a \in DOMAIN AreaModules, m \in Surveyed, c \in AreaCoverageState :
             closeOutArea(s, a, m, c)
       \/ \E sel, spans \in SUBSET Artifacts : createInvestigationPacket(s, sel, spans)

CoverSpec == CoverInit /\ [][CoverNext]_coverVars

-----------------------------------------------------------------------------
(* However screens interleave: recorded entries stay; an area and module   *)
(* whose latest entry is limited has exactly one active limitation and any *)
(* other none; and completion is clear exactly when every applicable pair  *)
(* has a latest entry that is not a revisit.  A packet says the same of    *)
(* its coverage (coverage.ts:143-264, packet.ts:76-104).                   *)
CoverageSpeaksOnce ==
    LET now == currentCoverageEntries(cover)
        Live(items, status, p) ==
            {i \in Having(items, status) : Pair(items[i]) = p}
    IN  /\ \A e \in told : \E i \in DOMAIN cover.entries : cover.entries[i] = e
        /\ \A e \in now :
              /\ (e.state \in Limited) <=>
                    (\E i \in Live(cover.limitations, "active", Pair(e)) :
                        Live(cover.limitations, "active", Pair(e)) = {i})
              /\ e.state \notin Limited =>
                    Live(cover.limitations, "active", Pair(e)) = {}
        /\ (coverageCompletionIssues(cover) = {}) <=>
              (\A a \in DOMAIN AreaModules : \A m \in AreaModules[a] :
                  \E e \in now : Pair(e) = <<a, m>> /\ e.state # "revisit")
        /\ \A c \in packet.coverage :
              (c.state \in Limited) <=> (\E l \in packet.limitations : l.pair = c.pair)
=============================================================================
