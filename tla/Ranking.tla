------------------------------ MODULE Ranking ------------------------------
(* What deserves attention first (finding_policy/ranking.py): every finding is *)
(* given five values, all of them derived and none of them a model's opinion,  *)
(* and a section is sorted by them and then by the finding's id.               *)
(*                                                                             *)
(* A finding is a record                                                       *)
(*   [id, family, impact, confidence, reach, tools, regions]                   *)
(* where `impact` is the kind the proposal chose, `tools` is a set of          *)
(* <<producer, name>> and `regions` a set of <<path, lines>>, its location     *)
(* among them.                                                                 *)
EXTENDS Integers, Sequences, FiniteSets, Functions

CONSTANTS
    AnalyzerProducers,  \* the producers that are external analyzers
    Unmapped            \* the family of a weakness outside the allowlist

Severe  == <<"critical", "high", "medium", "low">>
Sure    == <<"high", "medium", "review_required">>
Reached == <<"demonstrated", "argued", "unknown">>
Effort  == <<"local", "function", "cross_module">>

IsRankable(finding) ==
    /\ finding \in [id : {finding.id}, family : {finding.family}, impact : {finding.impact},
                    confidence : {finding.confidence}, reach : {finding.reach},
                    tools : {finding.tools}, regions : {finding.regions}]
    /\ finding.id \in Nat
    /\ finding.family \in
         {"bounds", "lifetime", "injection", "null", "integer", "leak", Unmapped}
    /\ finding.impact \in
         {"code_execution", "memory_corruption", "information_disclosure", "denial_of_service",
          "resource_exhaustion", "undefined_behavior", "incorrect_result"}
    /\ finding.confidence \in Range(Sure) /\ finding.reach \in Range(Reached)
    /\ IsFiniteSet(finding.tools) /\ IsFiniteSet(finding.regions)

PlaceIn(order, value) == CHOOSE i \in DOMAIN order : order[i] = value

FamilySeverity(family) ==
    CASE family \in {"bounds", "lifetime", "injection"} -> "high"
      [] family \in {"null", "integer", "leak"}         -> "medium"
      [] family = Unmapped                              -> "low"
ImpactCeiling(kind) ==
    CASE kind = "code_execution"                                  -> "critical"
      [] kind \in {"memory_corruption", "information_disclosure"} -> "high"
      [] kind \in {"denial_of_service", "resource_exhaustion", "undefined_behavior"} -> "medium"
      [] kind = "incorrect_result"                                -> "low"

(* Mutant: the impact a proposal chose is a floor. *)
LouderOf(finding) ==
    LET base == FamilySeverity(finding.family)  other == ImpactCeiling(finding.impact)
    IN  IF PlaceIn(Severe, base) <= PlaceIn(Severe, other) THEN base ELSE other

SeverityOf(finding) ==
    LET base == FamilySeverity(finding.family)  ceiling == ImpactCeiling(finding.impact)
    IN  IF PlaceIn(Severe, base) >= PlaceIn(Severe, ceiling) THEN base ELSE ceiling

Agreement(finding) ==
    Cardinality({tool[2] : tool \in {t \in finding.tools : t[1] \in AnalyzerProducers}})

EffortOf(finding) ==
    IF Cardinality({r[1] : r \in finding.regions}) > 1 THEN "cross_module"
    ELSE IF Cardinality(finding.regions) > 1 THEN "function" ELSE "local"

RankInputs(finding) ==
    <<PlaceIn(Severe, SeverityOf(finding)), PlaceIn(Sure, finding.confidence),
      PlaceIn(Reached, finding.reach), 0 - Agreement(finding),
      PlaceIn(Effort, EffortOf(finding))>>

(* Mutant: findings of equal weight stay as they came. *)
WeightOnly(finding) == RankInputs(finding)

RankKey(finding) == Append(RankInputs(finding), finding.id)

Before(p, q) ==
    \E i \in DOMAIN p : p[i] < q[i] /\ \A j \in 1..i - 1 : p[j] = q[j]

(* A stable sort: a finding comes after those before it, and after the equal   *)
(* ones that arrived earlier.                                                  *)
RankFindings(arrived) ==
    LET keys == [i \in DOMAIN arrived |-> RankKey(arrived[i])]
        Ahead(i) == {j \in DOMAIN arrived :
                        Before(keys[j], keys[i]) \/ (keys[j] = keys[i] /\ j < i)}
    IN  [place \in DOMAIN arrived |->
            arrived[CHOOSE i \in DOMAIN arrived : Cardinality(Ahead(i)) = place - 1]]
=============================================================================
