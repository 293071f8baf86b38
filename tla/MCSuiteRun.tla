------------------------------ MODULE MCSuiteRun ------------------------------
(* Small values for the constants of SuiteRun: a case that cannot be indexed,*)
(* one with four candidates and one whose second candidate lies in an        *)
(* excluded file (x); budgets tight enough that optional units are dropped   *)
(* (a), a primary does not fit what is left (d) and the run budget starves   *)
(* the last candidate (e).                                                   *)
EXTENDS SuiteRun

MCSuite == <<<<"d">>, <<"a", "b", "d", "e">>, <<"c", "x">>>>

MCPrimary == [name \in Names |-> CASE name = "a" -> <<2>> [] name = "b" -> <<1, 2>>
                                   [] name = "c" -> <<1>> [] OTHER -> <<2>>]
MCOptional == [name \in Names |-> CASE name = "a" -> <<3, 1>> [] name = "b" -> <<1>>
                                    [] name = "c" -> <<1>> [] OTHER -> <<>>]

MCQuestions == {Context(name, allowance) : name \in Names, allowance \in 0..PerCandidate}
MCAdjudicable == {q \in Questions : q.units > 0}
MCExcluded == {q \in Questions : q.name = "x"}
MCEstimate == [q \in Questions |-> q.tokens]
MCHeadroom == [t \in Tiers |-> 1]
MCPrice == [t \in Tiers |-> 1]

MCTriageReplies ==
    {[disposition |-> "adjudicate", ambiguous |-> FALSE, severe |-> FALSE]}

MCProposals == {[verdict |-> "confirmed", severe |-> FALSE, grounded |-> TRUE]}
=============================================================================
