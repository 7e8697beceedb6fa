------------------------------ MODULE MCDomain ------------------------------
(***************************************************************************)
(* TLC model of the inspection record: the professional modules, the event *)
(* history and the coverage ledger of packages/domain, and the drafting    *)
(* agent of packages/agent.  No code connects them yet, so part says which *)
(* one moves.                                                              *)
(***************************************************************************)
EXTENDS ModuleLifecycle, EventHistory, Coverage, DraftRunner, TLC

VARIABLE part

TwoModules == <<"building", "timber_pest">>
(* Two bodies that mean the same, and one that cannot be replayed.         *)
SomeBodies ==
    {[schema |-> 1, name |-> "amendment.module_amended", module |-> "timber_pest"],
     [schema |-> 0, name |-> "inspection.module_signed_off", module |-> "pest"],
     [schema |-> 0, name |-> "delivery.package_voided", module |-> "none"],
     [schema |-> 1, name |-> "report.package_cancelled", module |-> "none"]}

(* Timber pest does not apply to the area.                                 *)
OneArea == [garage |-> {"building"}]
BothModules == {"building", "timber_pest"}

(* The second packet has new coverage in place of the first's.             *)
Ref(kind, id) == [kind |-> kind, id |-> id]
Text(numbers, words, denies) == [numbers |-> numbers, words |-> words, denies |-> denies]
Source(kind, id, text) == [kind |-> kind, id |-> id, text |-> text]
TwoPackets ==
    LET crack == Source("observation", 1, Text({2}, {"crack", "cornice", "wall"}, FALSE))
    IN  <<{crack, Source("coverage", 1, Text({}, {"visible", "pest"}, TRUE)),
           Source("artifact", 1, NoText)},
          {crack, Source("coverage", 2, Text({}, {"limit", "access"}, FALSE))}>>

(* Two of five tokens unsupported, which passes; an absence that one       *)
(* packet denies; no text behind it; a number out of nowhere.              *)
Clause(says, refs, numbers, denies, terms, qualified) ==
    [says |-> says, refs |-> refs, numbers |-> numbers, denies |-> denies,
     terms |-> terms, qualified |-> qualified]
SomeTexts ==
    {Clause({}, {Ref("observation", 1)}, {2}, FALSE,
            <<"crack", "cornice", "wall", "active", "severe">>, TRUE),
     Clause({"no_visible_evidence", "access_and_time"}, {Ref("coverage", 1)}, {}, TRUE,
            <<"visible", "pest">>, TRUE),
     Clause({"no_visible_evidence"}, {Ref("artifact", 1)}, {}, FALSE, <<>>, TRUE),
     Clause({"professional_boundary", "pest_only"}, {Ref("observation", 1)}, {3}, FALSE,
            <<"crack">>, FALSE)}
SomeProxies ==
    {[id |-> 1, trustState |-> "safe_proxy", resolved |-> "same"],
     [id |-> 2, trustState |-> "safe_proxy", resolved |-> "missing"],
     [id |-> 3, trustState |-> "original", resolved |-> "same"]}

Symmetry == Permutations(Callers) \cup Permutations(Screens)
            \cup Permutations(Attempts)

vars == <<part, lifecycleVars, historyVars, coverVars, draftVars>>
Init == /\ part \in {"record", "history", "coverage", "drafting"}
        /\ LifecycleInit /\ HistoryInit /\ CoverInit /\ DraftInit
Record == /\ part = "record" /\ LifecycleNext
          /\ UNCHANGED <<part, historyVars, coverVars, draftVars>>
History == /\ part = "history" /\ HistoryNext
           /\ UNCHANGED <<part, lifecycleVars, coverVars, draftVars>>
Covering == /\ part = "coverage" /\ CoverNext
            /\ UNCHANGED <<part, lifecycleVars, historyVars, draftVars>>
Drafting == /\ part = "drafting" /\ DraftNext
            /\ UNCHANGED <<part, lifecycleVars, historyVars, coverVars>>
Next == Record \/ History \/ Covering \/ Drafting
Spec == Init /\ [][Next]_vars
=============================================================================
