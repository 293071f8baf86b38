------------------------------ MODULE Scoring ------------------------------
(* `caudit eval` and `caudit calibrate` (eval/matching.py, eval/metrics.py,    *)
(* eval/gates.py, eval/calibration.py, application/evaluation.py): findings    *)
(* are matched to labelled truths case by case, the counts are kept per        *)
(* weakness family, four hard gates decide whether a score may be quoted, and  *)
(* the confidence labels are checked against the same truths.                  *)
(*                                                                             *)
(* A finding is a record [id, path, lo, hi, cwe, confidence, cites, tool]:     *)
(* `cites` is the sequence of its citations, each <<status, subject>>, and     *)
(* `tool` the analyzer it credits.  A truth is [path, line, cwe, family,       *)
(* variant].  Rates are compared by cross multiplication, F2 is per mille.     *)
EXTENDS Integers, Sequences, FiniteSets, FiniteSetsExt, Functions, KeyedData

CONSTANTS
    Suites,      \* the suites that may be scored: sequences of cases
    Families,    \* weakness families
    FamilyOf,    \* CWE -> family, or None for a CWE outside every family
    OutOfBounds, \* the family a false positive falls back to
    Equivalent,  \* pairs <<truth CWE, accepted CWE>>
    Tolerance,   \* lines between a truth and the finding's range
    KnownTools,  \* tools this configuration may credit
    Percent,     \* citation resolution threshold, in percent
    MinPerBin,   \* findings below which a label is not judged
    Floors,      \* analyzer-only macro-F2 a run may be held against
    None

Confidence == <<"high", "medium", "review_required">>

IsFinding(f) ==
    /\ f.id \in Nat /\ f.lo \in Int /\ f.hi \in Int /\ f.lo <= f.hi
    /\ FamilyOf[f.cwe] \in Families \cup {None}
    /\ f.confidence \in Range(Confidence)

IsCase(case) ==
    /\ case.truths \in Seq(Range(case.truths))
    /\ \A t \in Range(case.truths) : t.line \in Int /\ t.family \in Families
    /\ IsFiniteSet(case.findings) /\ \A f \in case.findings : IsFinding(f)
    /\ case.family \in Families \cup {None}

ASSUME ScoringAssumption ==
    /\ IsFiniteSet(Families) /\ OutOfBounds \in Families /\ None \notin Families
    /\ Tolerance \in Nat /\ Percent \in 0..100 /\ MinPerBin \in Nat \ {0}
    /\ Floors \subseteq 0..1000 /\ None \notin {"refused", "quoted"}
    /\ \A cases \in Suites : cases \in Seq(Range(cases)) /\ \A c \in Range(cases) : IsCase(c)

VARIABLES
    suite,    \* the cases, in the order they are scored
    held,     \* the baseline macro-F2 supplied, or None
    baseRun,  \* whether this run has no model in it
    at,       \* cases scored so far
    tp, fp, fn,   \* per family
    gates,    \* the gates that failed, or None before they are evaluated
    curve,    \* [label -> [count, correct]], or None
    overall   \* None, "refused" or "quoted"

scoreVars == <<suite, held, baseRun, at, tp, fp, fn, gates, curve, overall>>

Confirmed(f) == f.confidence # "review_required"

-----------------------------------------------------------------------------
(* Matching: each vulnerable truth, in the order listed, takes the nearest     *)
(* finding still free.                                                         *)

Distance(line, f) == IF line < f.lo THEN f.lo - line
                     ELSE IF line > f.hi THEN line - f.hi ELSE 0

Matches(truth, f) ==
    /\ f.path = truth.path
    /\ Distance(truth.line, f) <= Tolerance
    /\ \/ f.cwe = truth.cwe
       \/ <<truth.cwe, f.cwe>> \in Equivalent

Nearest(truth, S) ==
    CHOOSE f \in S : \A g \in S :
        LET df == Distance(truth.line, f)
            dg == Distance(truth.line, g)
        IN  df < dg \/ (df = dg /\ f.id <= g.id)

(* Mutant: only the finding nearest to the truth is tried, so one that is     *)
(* nearest but already credited leaves the truth missed.                      *)
MatchNearestOnly(truths, findings) ==
    LET upTo[n \in 0..Len(truths)] ==
            IF n = 0 THEN {} ELSE
            LET before == upTo[n - 1]
                fits   == {f \in findings : /\ truths[n].variant = "vulnerable"
                                            /\ Matches(truths[n], f)}
            IN  IF fits = {} \/ \E p \in before : p[2] = Nearest(truths[n], fits)
                THEN before ELSE before \cup {<<n, Nearest(truths[n], fits)>>}
    IN  upTo[Len(truths)]

(* A truth of the vulnerable version takes what is nearest of what no truth    *)
(* before it took.                                                             *)
Free(taken, truth, findings) ==
    {f \in findings : /\ \A p \in taken : p[2] # f
                      /\ truth.variant = "vulnerable" /\ Matches(truth, f)}
Take(taken, n, truth, findings) ==
    LET free == Free(taken, truth, findings)
    IN  IF free = {} THEN taken ELSE taken \cup {<<n, Nearest(truth, free)>>}

(* The pairs <<truth index, finding>> of one case. *)
MatchAll(truths, findings) ==
    LET upTo[n \in 0..Len(truths)] ==
            IF n = 0 THEN {} ELSE Take(upTo[n - 1], n, truths[n], findings)
    IN  upTo[Len(truths)]

Vulnerable(case) == {n \in DOMAIN case.truths : case.truths[n].variant = "vulnerable"}
Scorable(case)   == {f \in case.findings : Confirmed(f)}
Credited(case)   == MatchAll(case.truths, Scorable(case))
Missed(case)     == Vulnerable(case) \ {p[1] : p \in Credited(case)}
Uncredited(case) == Scorable(case) \ {p[2] : p \in Credited(case)}

-----------------------------------------------------------------------------
(* The counts. *)

FallbackFamily(case) == IF case.truths = <<>> THEN OutOfBounds ELSE case.truths[1].family

(* Mutant: a false positive whose CWE is in no family is charged to none. *)
ChargedInScope(f, case) == FamilyOf[f.cwe]

Charged(f, case) ==
    IF FamilyOf[f.cwe] # None THEN FamilyOf[f.cwe]
    ELSE IF case.family # None THEN case.family ELSE FallbackFamily(case)

OfFamily(family, case, S) == Cardinality({n \in S : case.truths[n].family = family})
ChargedTo(family, case) ==
    Cardinality({f \in Uncredited(case) : Charged(f, case) = family})

(* `caudit eval` scores the next case. *)
ScoreCase ==
    /\ at < Len(suite)
    /\ LET case == suite[at + 1]
       IN  /\ tp' = [x \in Families |-> tp[x] + OfFamily(x, case, {p[1] : p \in Credited(case)})]
           /\ fn' = [x \in Families |-> fn[x] + OfFamily(x, case, Missed(case))]
           /\ fp' = [x \in Families |-> fp[x] + ChargedTo(x, case)]
    /\ at' = at + 1
    /\ UNCHANGED <<suite, held, baseRun, gates, curve, overall>>

(* Precision and recall are 1 when there was nothing to predict or to find;   *)
(* F2 = 5PR / (4P + R).                                                        *)
MacroOf(t, p, n) ==
    LET scored == {x \in Families : t[x] + p[x] + n[x] > 0}
        F2(x)  == (5000 * t[x]) \div (5 * t[x] + 4 * n[x] + p[x])
    IN  IF scored = {} THEN 0
        ELSE MapThenSumSet(F2, scored) \div Cardinality(scored)
MacroF2 == MacroOf(tp, fp, fn)

-----------------------------------------------------------------------------
(* The hard gates. *)

AllFindings == UNION {suite[i].findings : i \in DOMAIN suite}
Resolved(f) == Cardinality({i \in DOMAIN f.cites : f.cites[i][1] = "resolved"})
Cited(f) == Len(f.cites)

(* Statuses that mean something was invented, as opposed to unreadable. *)
FabricationStatuses == {"missing_file", "unknown_evidence_id", "symbol_not_found",
                        "outside_repo_root", "hash_mismatch", "line_out_of_range"}

(* Mutant: only what the report presents as confirmed is looked at. *)
SignalsOfConfirmed ==
    UNION {{c \in Range(f.cites) : c[1] \in FabricationStatuses}
           : f \in {g \in AllFindings : Confirmed(g)}}

FabricationSignals ==
    UNION {{c \in Range(f.cites) : c[1] \in FabricationStatuses}
             \cup (IF f.tool \in KnownTools THEN {} ELSE {<<"analyzer", f.tool>>})
           : f \in AllFindings}

CitationRateHolds ==
    LET total == MapThenSumSet(Cited, AllFindings)
    IN  total = 0 \/ 100 * MapThenSumSet(Resolved, AllFindings) >= Percent * total

(* The baseline is one made under the same matching policy: another raises,    *)
(* and the run ends there.  The gate counts_separate is about the metrics'     *)
(* schema and cannot fail in a run.                                            *)
EvaluateGates ==
    /\ at = Len(suite) /\ gates = None
    /\ gates' = (IF CitationRateHolds THEN {} ELSE {"citation_resolution"})
          \cup (IF FabricationSignals = {} THEN {} ELSE {"zero_fabrication"})
          \cup (IF \/ held = None /\ baseRun
                   \/ held # None /\ MacroF2 >= held THEN {} ELSE {"baseline_floor"})
    /\ UNCHANGED <<suite, held, baseRun, at, tp, fp, fn, curve, overall>>

-----------------------------------------------------------------------------
(* Calibration: every finding, confirmed or not, is labelled true or false by *)
(* matching, and each confidence label's accuracy is measured.                *)

TrueFindings(case) == {p[2] : p \in MatchAll(case.truths, case.findings)}

Labelled(case, label) == {f \in case.findings : f.confidence = label}
Bins(cases) ==
    [label \in Range(Confidence) |->
        [count   |-> Total([i \in DOMAIN cases |-> Cardinality(Labelled(cases[i], label))]),
         correct |-> Total([i \in DOMAIN cases |->
                         Cardinality(Labelled(cases[i], label) \cap TrueFindings(cases[i]))])]]

LessAccurate(weaker, stronger) ==
    stronger.correct * weaker.count < weaker.correct * stronger.count

(* Mutant: labels are compared with their neighbour in the list, judged or not. *)
MiscalibratedNeighbours(bins) ==
    \E i \in 1..Len(Confidence) - 1 :
        /\ bins[Confidence[i]].count >= MinPerBin /\ bins[Confidence[i + 1]].count >= MinPerBin
        /\ LessAccurate(bins[Confidence[i + 1]], bins[Confidence[i]])

(* The first pair of neighbours, among the labels with enough findings, whose *)
(* accuracies are out of order.                                               *)
Enough(bins, i) == bins[Confidence[i]].count >= MinPerBin
Miscalibrated(bins) ==
    \E i, j \in DOMAIN Confidence :
        /\ i < j /\ Enough(bins, i) /\ Enough(bins, j)
        /\ \A k \in DOMAIN Confidence : i < k /\ k < j => ~ Enough(bins, k)
        /\ LessAccurate(bins[Confidence[j]], bins[Confidence[i]])

Calibrate ==
    /\ at = Len(suite) /\ curve = None
    /\ curve' = Bins(suite)
    /\ UNCHANGED <<suite, held, baseRun, at, tp, fp, fn, gates, overall>>

(* The overall score is refused on miscalibrated labels, then on any gate. *)
GatedOverallScore ==
    /\ gates # None /\ curve # None /\ overall = None
    /\ overall' = IF Miscalibrated(curve) \/ gates # {} THEN "refused" ELSE "quoted"
    /\ UNCHANGED <<suite, held, baseRun, at, tp, fp, fn, gates, curve>>

ScoringInit ==
    /\ suite \in Suites
    /\ held \in Floors \cup {None}
    /\ baseRun \in BOOLEAN
    /\ at = 0
    /\ tp = [x \in Families |-> 0] /\ fp = tp /\ fn = tp
    /\ gates = None /\ curve = None /\ overall = None

ScoringNext == ScoreCase \/ EvaluateGates \/ Calibrate \/ GatedOverallScore
ScoringSpec == ScoringInit /\ [][ScoringNext]_scoreVars

-----------------------------------------------------------------------------
(* The counts account for everything that was scored (metrics.py): every       *)
(* confirmed finding is a true or a false positive of some family, whatever    *)
(* its CWE, every labelled defect is found or missed, and no truth or finding  *)
(* is counted twice.                                                           *)
EverythingCharged ==
    /\ Total(tp) + Total(fp) = Total([i \in 1..at |-> Cardinality(Scorable(suite[i]))])
    /\ Total(tp) + Total(fn) = Total([i \in 1..at |-> Cardinality(Vulnerable(suite[i]))])

(* A miss and a false positive of the same case never fit each other           *)
(* (matching.py match_all): the greedy assignment leaves no pair over, so the  *)
(* score never charges a tool twice for a defect it did report.                *)
NoMatchLeftOver ==
    \A i \in 1..at : \A n \in Missed(suite[i]), f \in Uncredited(suite[i]) :
        ~ Matches(suite[i].truths[n], f)

(* An overall score is quoted only when nothing was invented anywhere in the   *)
(* run, in a confirmed finding or not, however high the resolution rate is,    *)
(* and a floor was established and reached (gates.py).                         *)
QuotedIsEarned ==
    overall = "quoted" =>
        /\ \A f \in AllFindings : /\ f.tool \in KnownTools
                                  /\ \A c \in Range(f.cites) : c[1] \notin FabricationStatuses
        /\ IF held = None THEN baseRun ELSE MacroF2 >= held

(* When a score is quoted, no confidence label judged on enough findings was   *)
(* right less often than a weaker one, labels with too few findings between    *)
(* them notwithstanding (calibration.py _miscalibration).                      *)
QuotedLabelsOrdered ==
    overall = "quoted" =>
        \A i, j \in DOMAIN Confidence :
            i < j /\ Enough(curve, i) /\ Enough(curve, j) =>
                ~ LessAccurate(curve[Confidence[j]], curve[Confidence[i]])

(* calibrate_cmd.py:55-58, "exactly the rule that decides a true positive in the  *)
(* metrics, so the calibration cannot disagree with the score it sits beside": *)
(* a confirmed finding is labelled true exactly when the metrics credit it.    *)
CalibrationAgreesWithScore ==
    \A i \in DOMAIN suite :
        TrueFindings(suite[i]) \cap Scorable(suite[i]) = {p[2] : p \in Credited(suite[i])}

(* A score is only quoted when it was earned, every finding and every truth *)
(* is counted once, and no bin hides a label out of order.                  *)
ScoreIsEarned ==
    /\ EverythingCharged
    /\ NoMatchLeftOver
    /\ QuotedIsEarned
    /\ QuotedLabelsOrdered
=============================================================================
