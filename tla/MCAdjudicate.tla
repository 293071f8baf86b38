----------------------------- MODULE MCAdjudicate -----------------------------
(* Small values for the constants of Adjudicate: one ordinary question, one  *)
(* without primary code, one out of scope, one whose prompt is over the      *)
(* budget of a candidate, one in an excluded file and one whose context is   *)
(* empty.                                                                    *)
EXTENDS Adjudicate

MCEstimate == [q \in Questions |-> CASE q = "big" -> 9 [] q = "bare" -> 3 [] OTHER -> 1]
MCHeadroom == [t \in Tiers |-> IF t = "triage" THEN 0 ELSE 1]
MCPrice == [t \in Tiers |-> IF t = "escalation" THEN 2 ELSE 1]

MCTriageReplies ==
    {[disposition |-> "dismiss", ambiguous |-> FALSE, severe |-> FALSE],
     [disposition |-> "adjudicate", ambiguous |-> TRUE, severe |-> TRUE],
     [disposition |-> "adjudicate", ambiguous |-> FALSE, severe |-> FALSE]}

MCProposals ==
    {[verdict |-> "confirmed", severe |-> TRUE, grounded |-> TRUE],
     [verdict |-> "rejected", severe |-> TRUE, grounded |-> TRUE],
     [verdict |-> "review_required", severe |-> TRUE, grounded |-> TRUE],
     [verdict |-> "review_required", severe |-> FALSE, grounded |-> FALSE]}
=============================================================================
