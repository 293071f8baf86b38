-------------------------- MODULE Maintainability --------------------------
(* The maintainability set (eval/maintainability.py): each case's findings are *)
(* ranked, the first one predicts the hazard of the case or abstains, and the  *)
(* predictions and the ranking are scored against labels two people agreed on. *)
EXTENDS Ranking, KeyedData

CONSTANTS
    FindingLists,   \* what may have been found in a case, in the order it came
    LabelSets,      \* committed labels: a set of [case, category, labelers, agreed, note, source]
    LabelledCases,
    Judgements,     \* how relevant the findings shown are, in the order shown
    Cut,            \* how many of the first findings are scored
    Discounts,      \* what a place is worth, decreasing
    NoScore

Uncoverable == {"duplicated_validation", "error_handling"}
ToolSources == {"clang-tidy", "clang", "clang-static-analyzer", "scan-build", "caudit"}

Categories ==
    {"complexity", "duplicated_validation", "ownership_ambiguity", "coupling", "error_handling"}

(* The findings of a case have ids of their own, and a label names a category. *)
ASSUME MaintainabilityAssumption ==
    /\ AnalyzerProducers \cap {"llm", "index"} = {}
    /\ IsFiniteSet(LabelledCases)
    /\ \A list \in FindingLists :
         /\ list \in Seq(Range(list)) /\ \A f \in Range(list) : IsRankable(f)
         /\ \A i, j \in DOMAIN list : list[i].id = list[j].id => i = j
    /\ \A set \in LabelSets : IsFiniteSet(set) /\ \A label \in set : label.category \in Categories
    /\ Judgements \subseteq Seq(Nat)
    /\ Cut \in Nat /\ Discounts \in Seq(Nat \ {0}) /\ Cut <= Len(Discounts)
    /\ \A i, j \in 1..Cut : i < j => Discounts[j] < Discounts[i]

VARIABLES
    reported,    \* case -> its findings as they came
    labels,      \* the labels read, or NoScore when they are refused
    judged,      \* the judgements
    shown,       \* case -> its findings as ranked
    predicted,   \* case -> category
    uncovered,   \* labelled categories no finding can be predicted as
    score        \* NoScore or the scores

maintainVars == <<reported, labels, judged, shown, predicted, uncovered, score>>

-----------------------------------------------------------------------------
(* A committed label names two different people, who agreed or had it settled, *)
(* and did not take it from a tool; a case is labelled once.                   *)
LabelStands(label) ==
    /\ Cardinality(Range(label.labelers)) >= 2
    /\ label.agreed \/ label.note
    /\ label.source \notin ToolSources
LoadLabels(set) ==
    IF /\ \A label \in set : LabelStands(label)
       /\ \A a, b \in set : a.case = b.case => a = b
    THEN set ELSE NoScore

(* What a finding implies, or Unmapped to abstain: the weakness itself before  *)
(* how far its evidence reaches.                                               *)
PredictCategory(finding) ==
    CASE finding.family = "lifetime"           -> "ownership_ambiguity"
      [] finding.family # "lifetime" /\ EffortOf(finding) = "cross_module" -> "coupling"
      [] finding.family # "lifetime" /\ EffortOf(finding) = "function"     -> "complexity"
      [] OTHER                                 -> Unmapped

(* Mutant: the predictions are looked through instead of the labels. *)
UncoveredPredicted(set, prediction) == Range(prediction) \cap Uncoverable

Uncovered(set, prediction) == {label.category : label \in set} \cap Uncoverable

PredictCategories ==
    /\ labels # NoScore /\ shown = << >>
    /\ shown' = [case \in DOMAIN reported |-> RankFindings(reported[case])]
    /\ LET Answer(case) == IF shown'[case] = <<>> THEN Unmapped
                           ELSE PredictCategory(shown'[case][1])
       IN  predicted' = [case \in {c \in DOMAIN reported : Answer(c) # Unmapped} |-> Answer(case)]
    /\ uncovered' = Uncovered(labels, predicted')
    /\ UNCHANGED <<reported, labels, judged, score>>

-----------------------------------------------------------------------------
LabelledAs == [case \in {label.case : label \in labels} |->
             (CHOOSE label \in labels : label.case = case).category]
CasesOf(answers, category) == {case \in DOMAIN answers : answers[case] = category}

(* Mutant: a category nobody labelled is not scored. *)
LabelledCategories == {c \in Categories : CasesOf(LabelledAs, c) # {}}

ScoredCategories ==
    {c \in Categories : CasesOf(LabelledAs, c) # {} \/ CasesOf(predicted, c) # {}}

(* F1 of one category, as a fraction. *)
F1(category) ==
    LET expected == CasesOf(LabelledAs, category)  actual == CasesOf(predicted, category)
    IN  <<2 * Cardinality(expected \cap actual), Cardinality(expected) + Cardinality(actual)>>

Orders(list) ==
    {[i \in DOMAIN list |-> list[p[i]]] :
        p \in {q \in [DOMAIN list -> DOMAIN list] : IsInjective(q)}}

Gain(relevance) == Total([i \in DOMAIN relevance |-> relevance[i] * Discounts[i]])
FirstOf(relevance) == [i \in {k \in DOMAIN relevance : k <= Cut} |-> relevance[i]]
Descending(relevance) ==
    CHOOSE order \in Orders(relevance) :
        \A i, j \in DOMAIN relevance : i < j => order[i] >= order[j]

(* Mutant: the ideal order is that of the findings above the cut. *)
IdealAboveCut(relevance) == Gain(Descending(FirstOf(relevance)))

IdealGain(relevance) == Gain(FirstOf(Descending(relevance)))

(* Normalised gain, as a fraction; whole when nothing was relevant. *)
Ndcg(relevance) ==
    IF IdealGain(relevance) = 0 THEN <<1, 1>>
    ELSE <<Gain(FirstOf(relevance)), IdealGain(relevance)>>

ScoreMaintainability ==
    /\ shown # << >> /\ score = NoScore
    /\ score' = [perCategory |-> [c \in ScoredCategories |-> F1(c)],
                 averaged    |-> uncovered = {},
                 ndcg        |-> Ndcg(judged),
                 agreed      |-> Cardinality({label \in labels : label.agreed}),
                 cases       |-> Cardinality(labels)]
    /\ UNCHANGED <<reported, labels, judged, shown, predicted, uncovered>>

MaintainInit ==
    /\ reported \in [LabelledCases -> FindingLists]
    /\ \E set \in LabelSets : labels = LoadLabels(set)
    /\ judged \in Judgements
    /\ shown = << >> /\ predicted = << >> /\ uncovered = {} /\ score = NoScore
MaintainNext == PredictCategories \/ ScoreMaintainability
MaintainSpec == MaintainInit /\ [][MaintainNext]_maintainVars

-----------------------------------------------------------------------------
Whole(fraction) == fraction[1] = fraction[2]
Spans == SUBSET {<<file, line>> : file \in {"a.c", "b.c"}, line \in {1, 2}}
Reachable ==
    {PredictCategory([family |-> x, regions |-> spans]) :
        x \in {"lifetime", "bounds"}, spans \in Spans}
ImpactKinds == {"code_execution", "memory_corruption", "denial_of_service", "incorrect_result"}

(* Graded by the weakness alone, and a finding a model has spoken of.          *)
KeyOfWeakness(finding) ==
    [RankKey(finding) EXCEPT ![1] = PlaceIn(Severe, FamilySeverity(finding.family))]
Heard(finding, kind) ==
    [[finding EXCEPT !.impact = kind]
        EXCEPT !.tools = @ \cup {<<"llm", "model">>, <<"index", "clang">>}]

(* The order of a report is an order of its findings (ranking.py rank_key):    *)
(* whatever order they came in, it is the same one, and so is the prediction   *)
(* made from its first.                                                        *)
OrderIsOfTheFindings ==
    \A case \in DOMAIN shown : \A order \in Orders(reported[case]) :
        RankFindings(order) = shown[case]

(* Nothing a model says of its own finding lifts it (ranking.py severity_of,   *)
(* provenance_agreement): told of the gravest impact and with the model and    *)
(* the index among its witnesses it stands no higher than the analyzers'       *)
(* findings that were above it when its weakness alone decided.                *)
ModelLiftsNothing ==
    \A case \in DOMAIN shown : \A f, other \in Range(shown[case]) :
        f # other /\ Before(RankKey(other), KeyOfWeakness(f)) =>
            \A kind \in ImpactKinds : Before(RankKey(other), RankKey(Heard(f, kind)))

(* A full score in every category means exactly the labelled answers           *)
(* (maintainability.py macro_f1): a case missed, mistaken or predicted though  *)
(* nobody labelled it costs some category.                                     *)
FullMarksMeanExact ==
    score # NoScore =>
        ((\A c \in DOMAIN score.perCategory : Whole(score.perCategory[c])) <=> predicted = LabelledAs)

(* An average is given only when every labelled category could have been       *)
(* predicted from some finding, of whatever family and however far it reaches  *)
(* (maintainability.py PredictorCoverage).                                     *)
AveragedIfReachable ==
    score # NoScore /\ score.averaged =>
        \A label \in labels : label.category \in Reachable

(* Full marks for the ranking mean that nothing below the cut was more         *)
(* relevant than something above it (maintainability.py ndcg_at_k).            *)
BuriedIsNotPerfect ==
    score # NoScore /\ Whole(score.ndcg) =>
        \A i, j \in DOMAIN judged : i < j /\ i <= Cut => judged[i] >= judged[j]

(* A place in the ranking, and a score for it, is earned by the findings and *)
(* not by their order, the model or a category nobody can reach.            *)
RankingIsEarned ==
    /\ OrderIsOfTheFindings
    /\ ModelLiftsNothing
    /\ FullMarksMeanExact
    /\ AveragedIfReachable
    /\ BuriedIsNotPerfect
=============================================================================
