----------------------------- MODULE ContextBudget -----------------------------
(***************************************************************************)
(* Fitting a candidate's retrieved units into a token budget               *)
(* (retrieval/budget.py, select).  A unit is its token estimate; the units *)
(* arrive in presentation order, primary ones first.                       *)
(***************************************************************************)
EXTENDS Integers, Sequences

Size(units) ==
    LET sum[i \in 0..Len(units)] == IF i = 0 THEN 0 ELSE sum[i - 1] + units[i]
    IN  sum[Len(units)]

(* One optional unit: taken whole if there is room, left out otherwise.     *)
(* Leaving one out does not end the walk: a smaller one later may still fit.*)
Consider(kept, n, budget, maxUnits) ==
    IF kept.units >= maxUnits \/ kept.tokens + n > budget THEN kept
    ELSE [units |-> kept.units + 1, tokens |-> kept.tokens + n]

(* The primaries go in together or nothing does.                            *)
Select(primary, optional, budget, maxUnits) ==
    LET kept[i \in 0..Len(optional)] ==
          IF i = 0 THEN [units |-> Len(primary), tokens |-> Size(primary)]
          ELSE Consider(kept[i - 1], optional[i], budget, maxUnits)
    IN  IF Size(primary) > budget THEN [units |-> 0, tokens |-> 0]
        ELSE kept[Len(optional)]
=============================================================================
