----------------------------- MODULE MCScanRun ------------------------------
EXTENDS ScanRun

CONSTANTS a, b, gen, ven, h, away, old, drafted

MCPathOrder == <<a, b, gen, h, ven, away, old, drafted>>
Std(isCxx, digits, isDraft) == [cxx |-> isCxx, number |-> digits, draft |-> isDraft]
MCFlags ==
  [p \in Paths |->
     [language |-> IF p = gen THEN None ELSE "c",
      std |-> CASE p = a -> Std(FALSE, 11, FALSE) [] p = b -> Std(TRUE, 2020, FALSE)
                [] p = ven -> Std(TRUE, 98, FALSE) [] p = old -> Std(FALSE, 89, FALSE)
                [] p = drafted -> Std(FALSE, 2, TRUE) [] OTHER -> None]]
Command(ts, opt, agrees, remembers, isDry) ==
  [targets |-> ts, generated |-> opt, thirdParty |-> opt, partial |-> opt,
   consent |-> agrees, remember |-> remembers, dry |-> isDry]
MCInvocations ==
  {[choice |-> Command({}, FALSE, FALSE, FALSE, FALSE), files |-> <<a, b, a>>],
   [choice |-> Command({{b}}, FALSE, FALSE, TRUE, FALSE), files |-> <<b, old>>],
   [choice |-> Command({}, TRUE, TRUE, FALSE, FALSE), files |-> <<a, gen, away>>],
   [choice |-> Command({{b}}, TRUE, TRUE, FALSE, TRUE), files |-> <<h, b, ven>>],
   [choice |-> Command({{gen}}, FALSE, TRUE, FALSE, FALSE), files |-> <<a, gen, ven>>],
   [choice |-> Command({}, TRUE, FALSE, FALSE, FALSE), files |-> <<old, ven, drafted, a>>],
   [choice |-> Command({{h}}, FALSE, FALSE, FALSE, FALSE), files |-> <<a>>]}

MCAnalyzers == <<"csa", "tidy">>
Says(defect, line, function, rank, fate, inScope) ==
  [defect |-> defect, line |-> line, function |-> function, rank |-> rank, fate |-> fate,
   inScope |-> inScope]
F == [name |-> "f", usr |-> "f"]
MCAbout ==
  [leak1 |-> Says("leak", 1, F, 1, "citable", TRUE),
   leak2 |-> Says("leak", 3, F, 2, "citable", TRUE),
   leak3 |-> Says("leak", 5, F, 3, "citable", TRUE),
   sys |-> Says("null", 1, NoFunction, 4, "outside", FALSE)]
Of(d1, d2, d3, d4) ==
  [p \in Paths |-> CASE p = a -> [csa |-> d1, tidy |-> d2]
                     [] p = b -> [csa |-> d3, tidy |-> d4]
                     [] OTHER -> [csa |-> {}, tidy |-> {}]]
MCPrints == <<Of({"leak1", "leak2"}, {"leak3"}, {}, {"sys"}), Of({"leak1"}, {}, {}, {"leak3"})>>
=============================================================================
