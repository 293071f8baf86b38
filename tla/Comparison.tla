---------------------------- MODULE Comparison ----------------------------
(* `caudit compare` (eval/compare.py, eval/experiment.py): two recorded runs   *)
(* are differenced only when they are about the same thing.                    *)
(*                                                                             *)
(* A run report is a record                                                    *)
(*   [suite, scoredUnder, policies, scope, adjudicated, failing, experiment,   *)
(*    families, confirmed, review, calls]                                      *)
(* where `policies` maps each policy name to a version or to None when it was  *)
(* not recorded, `scope` is the set of case ids ({}: not recorded),            *)
(* `experiment` an immutable manifest or None, and `families` maps the scored  *)
(* weakness families to their true positives.                                  *)
EXTENDS Integers, Sequences, FiniteSets

CONSTANTS
    Reports,    \* the recorded runs
    NoRecord    \* what a field that was not recorded holds

ASSUME ComparisonAssumption == \A r \in Reports : r.confirmed \in Nat /\ r.review \in Nat

Comparable  == {"matching", "profile"}
Adjudicated == {"prompt", "retrieval"}

(* The manifest fields besides the condition, which is the one difference a   *)
(* pair of runs is allowed to have.                                           *)
Identity(manifest) == [f \in DOMAIN manifest \ {"condition"} |-> manifest[f]]

VARIABLES
    left, right,   \* the two reports of `caudit compare`
    outcome        \* None, "refused", or the comparison

compareVars == <<left, right, outcome>>

-----------------------------------------------------------------------------
(* The matching policy falls back to the version that scored the run. *)
Policy(report, name) ==
    IF report.policies[name] # NoRecord THEN report.policies[name]
    ELSE IF name = "matching" THEN report.scoredUnder ELSE NoRecord

(* Mutant: what shapes a model's answer is compared on no run. *)
PoliciesOfAnalyzers(a, b) == Comparable

PoliciesToCheck(a, b) ==
    IF a.adjudicated /\ b.adjudicated THEN Comparable \cup Adjudicated ELSE Comparable

Differ(a, b) == a # NoRecord /\ b # NoRecord /\ a # b

AssertComparable(a, b) ==
    /\ \/ a.experiment = NoRecord \/ b.experiment = NoRecord
       \/ Identity(a.experiment) = Identity(b.experiment)
    /\ a.scoredUnder = b.scoredUnder
    /\ a.suite = b.suite
    /\ a.scope = {} \/ b.scope = {} \/ a.scope = b.scope
    /\ \A name \in PoliciesToCheck(a, b) : ~ Differ(Policy(a, name), Policy(b, name))

Caveats(a, b) ==
    (IF a.experiment = NoRecord \/ b.experiment = NoRecord
        THEN {"no experiment manifest"} ELSE {})
    \cup (IF a.scope = {} \/ b.scope = {} THEN {"cases not recorded"} ELSE {})
    \cup {name \in PoliciesToCheck(a, b) :
              Policy(a, name) = NoRecord \/ Policy(b, name) = NoRecord}
    \cup (IF ~ a.adjudicated /\ ~ b.adjudicated THEN {"no model in either run"}
          ELSE IF a.adjudicated = b.adjudicated THEN {"both adjudicated"} ELSE {})

(* A family scored on one side only counts as zero on the other. *)
Value(report, family) ==
    IF family \in DOMAIN report.families THEN report.families[family] ELSE 0

(* Mutant: families only one run scored are left out of the delta. *)
DeltaOfShared(a, b) ==
    [families  |-> [f \in DOMAIN a.families \cap DOMAIN b.families |->
                        Value(b, f) - Value(a, f)],
     confirmed |-> b.confirmed - a.confirmed, review |-> b.review - a.review]

Delta(a, b) ==
    [families  |-> [f \in DOMAIN a.families \cup DOMAIN b.families |->
                        Value(b, f) - Value(a, f)],
     confirmed |-> b.confirmed - a.confirmed, review |-> b.review - a.review]

(* This run's cost less the other's, never below zero. *)
Beyond(a, b) == IF b.calls > a.calls THEN b.calls - a.calls ELSE 0

CompareRuns ==
    /\ left # NoRecord /\ outcome = NoRecord
    /\ outcome' = IF ~ AssertComparable(left, right) THEN [refused |-> TRUE]
                  ELSE [refused |-> FALSE,
                        delta   |-> Delta(left, right),
                        cost    |-> Beyond(left, right),
                        failing |-> left.failing \cup right.failing,
                        caveats |-> Caveats(left, right)]
    /\ UNCHANGED <<left, right>>

CompareInit ==
    /\ left \in Reports /\ right \in Reports
    /\ outcome = NoRecord

CompareNext == CompareRuns
CompareSpec == CompareInit /\ [][CompareNext]_compareVars

-----------------------------------------------------------------------------
Accepted == outcome # NoRecord /\ ~ outcome.refused

(* A delta is printed only for two measurements of one change (compare.py):    *)
(* the same suite, scored under the same rules, over the same cases, and the   *)
(* same policies for what both runs did; which of these could not be checked   *)
(* is a stated caveat and never an assumption.  Nothing is claimed of the      *)
(* prompt and retrieval policies of a run compared with one that had no model  *)
(* in it: the comment on ADJUDICATED_POLICIES says a caveat notes them, and    *)
(* _caveats has none for that case.                                            *)
LikeForLike ==
    Accepted =>
        LET both == left.adjudicated /\ right.adjudicated
            unchecked == {name \in Comparable \cup (IF both THEN Adjudicated ELSE {}) :
                             \/ left.policies[name] # right.policies[name]
                             \/ left.policies[name] = NoRecord}
        IN  /\ left.suite = right.suite /\ left.scoredUnder = right.scoredUnder
            /\ left.scope # right.scope => "cases not recorded" \in outcome.caveats
            /\ \A name \in unchecked :
                   \/ name \in outcome.caveats
                   \/ name = "matching"
                         /\ Policy(left, name) = Policy(right, name)

(* Which run is called the baseline decides the sign of a delta and nothing    *)
(* else (compare.py): the other order is refused exactly when this one is, and *)
(* its deltas are the negatives, family by family, those only one run scored   *)
(* included.                                                                   *)
SignOnly ==
    outcome # NoRecord =>
        /\ outcome.refused = ~ AssertComparable(right, left)
        /\ ~ outcome.refused =>
               LET back == Delta(right, left)
                   all  == DOMAIN left.families \cup DOMAIN right.families
               IN  /\ outcome.delta.confirmed = 0 - back.confirmed
                   /\ outcome.delta.review = 0 - back.review
                   /\ DOMAIN outcome.delta.families = all
                   /\ \A f \in all : outcome.delta.families[f] = Value(right, f) - Value(left, f)

(* Only like is compared with like, and a delta means what its sign says    *)
(* (compare.py).                                                            *)
ComparedLikeForLike ==
    /\ LikeForLike
    /\ SignOnly
=============================================================================
