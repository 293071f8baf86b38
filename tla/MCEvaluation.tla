---------------------------- MODULE MCEvaluation ----------------------------
(* The evaluation commands, one of them per process: what `command` names runs *)
(* and the state of the others stays idle.                                     *)
EXTENDS Scoring, Comparison, PairRun, AblationGrid, Attribution, Pilot, ReproBundle,
        Maintainability, SourceReads

VARIABLE command

allVars ==
    <<scoreVars, compareVars, pairVars, gridVars, attributionVars, pilotVars, bundleVars,
      maintainVars, storeVars>>
vars == <<command, allVars>>

ScoringIdle ==
    /\ suite = <<>> /\ held = None /\ baseRun = FALSE /\ at = 0
    /\ tp = << >> /\ fp = << >> /\ fn = << >>
    /\ gates = None /\ curve = None /\ overall = None
CompareIdle == left = NoRecord /\ right = NoRecord /\ outcome = NoRecord
GridIdle ==
    /\ grid = <<>> /\ config = NotRun /\ rest = <<>> /\ row = EmptyRow /\ rows = <<>>
    /\ exclusions = << >> /\ model = FALSE /\ written = NotRun
    /\ told = FALSE /\ hitches = 0
AttributionIdle ==
    /\ wish = NoRecord /\ progress = "start" /\ stage = 1
    /\ casesLeft = <<>> /\ candsLeft = <<>> /\ found = << >> /\ said = << >> /\ bill = NoBill
    /\ answers = << >> /\ saved = << >> /\ code = << >> /\ elsewhere = << >>
    /\ stages = << >> /\ matrix = NoRecord
    /\ served = [n \in 1..6 |-> 0] /\ heard = {} /\ unkept = {} /\ slips = 0
MaintainIdle ==
    /\ reported = << >> /\ labels = NoScore /\ judged = <<>> /\ shown = << >>
    /\ predicted = << >> /\ uncovered = {} /\ score = NoScore
StoreIdle ==
    /\ bytes = Nothing /\ mtime = 0 /\ ctime = 0 /\ cached = Nothing /\ asked = Nothing
    /\ turn = 1 /\ status = Nothing /\ span = Nothing /\ loaded = Nothing /\ region = Nothing
    /\ answer = "none" /\ tooLarge = FALSE /\ during = {} /\ quiet = TRUE

Init ==
    \/ /\ command = "eval" /\ ScoringInit
       /\ CompareIdle /\ PairInit /\ GridIdle /\ AttributionIdle /\ PilotIdle
       /\ BundleIdle /\ MaintainIdle /\ StoreIdle
    \/ /\ command = "compare" /\ CompareInit
       /\ ScoringIdle /\ PairInit /\ GridIdle /\ AttributionIdle /\ PilotIdle
       /\ BundleIdle /\ MaintainIdle /\ StoreIdle
    \/ /\ command = "pairs" /\ PairInit
       /\ ScoringIdle /\ CompareIdle /\ GridIdle /\ AttributionIdle /\ PilotIdle
       /\ BundleIdle /\ MaintainIdle /\ StoreIdle
    \/ /\ command = "ablate" /\ GridInit
       /\ ScoringIdle /\ CompareIdle /\ PairInit /\ AttributionIdle /\ PilotIdle
       /\ BundleIdle /\ MaintainIdle /\ StoreIdle
    \/ /\ command = "attribution" /\ AttributionInit
       /\ ScoringIdle /\ CompareIdle /\ PairInit /\ GridIdle /\ PilotIdle
       /\ BundleIdle /\ MaintainIdle /\ StoreIdle
    \/ /\ command = "pilot" /\ PilotIdle
       /\ ScoringIdle /\ CompareIdle /\ PairInit /\ GridIdle /\ AttributionIdle
       /\ BundleIdle /\ MaintainIdle /\ StoreIdle
    \/ /\ command = "bundle" /\ BundleIdle
       /\ ScoringIdle /\ CompareIdle /\ PairInit /\ GridIdle /\ AttributionIdle
       /\ PilotIdle /\ MaintainIdle /\ StoreIdle
    \/ /\ command = "maintainability" /\ MaintainInit
       /\ ScoringIdle /\ CompareIdle /\ PairInit /\ GridIdle /\ AttributionIdle
       /\ PilotIdle /\ BundleIdle /\ StoreIdle
    \/ /\ command = "reads" /\ StoreInit
       /\ ScoringIdle /\ CompareIdle /\ PairInit /\ GridIdle /\ AttributionIdle
       /\ PilotIdle /\ BundleIdle /\ MaintainIdle

Next ==
    \/ /\ command = "eval" /\ ScoringNext
       /\ UNCHANGED <<command, compareVars, pairVars, gridVars, attributionVars,
                      pilotVars, bundleVars, maintainVars, storeVars>>
    \/ /\ command = "compare" /\ CompareNext
       /\ UNCHANGED <<command, scoreVars, pairVars, gridVars, attributionVars,
                      pilotVars, bundleVars, maintainVars, storeVars>>
    \/ /\ command = "pairs" /\ PairNext
       /\ UNCHANGED <<command, scoreVars, compareVars, gridVars, attributionVars,
                      pilotVars, bundleVars, maintainVars, storeVars>>
    \/ /\ command = "ablate" /\ GridNext
       /\ UNCHANGED <<command, scoreVars, compareVars, pairVars, attributionVars,
                      pilotVars, bundleVars, maintainVars, storeVars>>
    \/ /\ command = "attribution" /\ AttributionNext
       /\ UNCHANGED <<command, scoreVars, compareVars, pairVars, gridVars,
                      pilotVars, bundleVars, maintainVars, storeVars>>
    \/ /\ command = "pilot" /\ PilotNext
       /\ UNCHANGED <<command, scoreVars, compareVars, pairVars, gridVars,
                      attributionVars, bundleVars, maintainVars, storeVars>>
    \/ /\ command = "bundle" /\ BundleNext
       /\ UNCHANGED <<command, scoreVars, compareVars, pairVars, gridVars,
                      attributionVars, pilotVars, maintainVars, storeVars>>
    \/ /\ command = "maintainability" /\ MaintainNext
       /\ UNCHANGED <<command, scoreVars, compareVars, pairVars, gridVars,
                      attributionVars, pilotVars, bundleVars, storeVars>>
    \/ /\ command = "reads" /\ StoreNext
       /\ UNCHANGED <<command, scoreVars, compareVars, pairVars, gridVars,
                      attributionVars, pilotVars, bundleVars, maintainVars>>

Spec == Init /\ [][Next]_vars

-----------------------------------------------------------------------------
(* The instance. *)

Finding(i, lo, hi, cwe, conf, cites, by) ==
    [id |-> i, path |-> "a.c", lo |-> lo, hi |-> hi, cwe |-> cwe,
     confidence |-> conf, cites |-> cites, tool |-> by]
Good == <<"resolved", "here">>

MCPool == {
    Finding(1, 2, 2, "787", "high", <<Good>>, "clang"),
    Finding(2, 4, 4, "121", "high", <<Good, Good>>, "clang"),
    Finding(3, 2, 3, "121", "medium", <<Good>>, "clang"),
    Finding(4, 1, 1, "787", "review_required", <<Good, <<"hash_mismatch", "E-2">>>>, "clang"),
    Finding(5, 6, 6, "561", "medium", <<Good, <<"too_large", "b.c">>>>, "clang"),
    Finding(6, 3, 3, "787", "review_required", <<Good>>, "oracle"),
    Finding(7, 1, 1, "787", "review_required", <<Good>>, "clang")}

Truth(line, cwe, family, variant) ==
    [path |-> "a.c", line |-> line, cwe |-> cwe, family |-> family, variant |-> variant]
MCTruths == {
    Truth(1, "787", "bounds", "vulnerable"), Truth(3, "787", "bounds", "vulnerable"),
    Truth(3, "416", "lifetime", "vulnerable"), Truth(2, "787", "bounds", "fixed")}
MCTruthLists == {<<>>} \cup {<<t>> : t \in MCTruths}
                \cup {<<t, u>> : t, u \in MCTruths}
MCCases ==
    [truths : {ts \in MCTruthLists : Len(ts) = 2 => ts[1] # ts[2]},
     findings : UNION {kSubset(k, MCPool) : k \in 0..3},
     family : {None, "lifetime"}]
MCSecond ==
    [truths |-> <<Truth(2, "787", "bounds", "vulnerable")>>,
     findings |-> {Finding(8, 2, 2, "121", "medium", <<Good>>, "clang")},
     family |-> None]
MCSuites == {<<case>> : case \in MCCases}
            \cup {<<case, MCSecond>> : case \in {c \in MCCases : c.family = None}}
MCFamilies == {"bounds", "lifetime"}
MCFamilyOf == ("787" :> "bounds") @@ ("121" :> "bounds") @@ ("416" :> "lifetime")
              @@ ("561" :> None)
MCEquivalent == {<<"787", "121">>}

MCManifest(what, theirs, sources) ==
    [condition |-> what, candidates |-> theirs, corpus |-> sources]
MCPolicies == [matching : {NoRecord, "v1", "v2"}, profile : {NoRecord, "v1"},
               prompt : {NoRecord, "v1", "v2"}, retrieval : {"v1"}]
MCReport(s, under, p, scope, adj, bad, e, fams, n) ==
    [suite |-> s, scoredUnder |-> under, policies |-> p, scope |-> scope,
     adjudicated |-> adj, failing |-> bad, experiment |-> e, families |-> fams,
     confirmed |-> n, review |-> 3 - n, calls |-> IF adj THEN n ELSE 0]
MCFull == [matching |-> "v1", profile |-> "v1", prompt |-> "v1", retrieval |-> "v1"]
MCManifests == {MCManifest("A", 1, 1), MCManifest("B", 1, 1),
                MCManifest("B", 2, 1), MCManifest("B", 1, 2)}
MCReports ==
    {MCReport("mini", under, p, {1}, adj, {}, NoRecord, [bounds |-> 2], 2) :
        under \in {"v1", "v2"}, p \in MCPolicies, adj \in BOOLEAN}
    \cup {MCReport("mini", "v1", MCFull, scope, TRUE, {"baseline_floor"}, NoRecord,
                   [lifetime |-> 1], n) : scope \in {{}, {1}, {1, 2}}, n \in {1, 3}}
    \cup {MCReport(s, "v1", MCFull, {1}, TRUE, {}, e, [bounds |-> 1], 1) :
            s \in {"mini", "juliet"}, e \in MCManifests}
MCPairList == <<"p1", "p2">>

MCGridOrder == <<"c1", "c2">>
MCGridCases ==
    ("c1" :> [candidates |-> <<"x", "y", "z">>, truths |-> {10, 20}])
    @@ ("c2" :> [candidates |-> <<"z">>, truths |-> {30}])
MCUnits ==
    [vc \in {"structural", "flat_window"} \X {"x", "y", "z"} |->
        IF vc[1] = "structural" THEN [primary |-> 2, optional |-> 1]
        ELSE [primary |-> 3, optional |-> 3]]
MCReach ==
    [vc \in {"structural", "flat_window"} \X {"x", "y", "z"} |->
        [primary |-> IF vc[2] = "x" THEN {10} ELSE IF vc[2] = "z" THEN {30} ELSE {},
         optional |-> IF vc = <<"structural", "y">> THEN {20} ELSE {}]]
MCRequests == {<<>>, <<4>>, <<3, 6>>, <<4, 4>>, <<6, 8>>}

MCCaseList == <<"c1", "c2">>
MCCandidatesAt == ("c1" :> <<<<"x", "y">>, <<"x">>>>) @@ ("c2" :> <<<<"z">>, <<"z">>>>)
MCWish(n, agrees, live, replays, where, hidden, c) ==
    [through |-> n, consent |-> agrees, clang |-> live, recorded |-> replays,
     cache |-> where, withheld |-> hidden, ceiling |-> c]
MCWishes == {
    MCWish(6, TRUE, TRUE, FALSE, "row", {}, 9), MCWish(6, TRUE, FALSE, TRUE, "row", {}, 9),
    MCWish(6, TRUE, FALSE, TRUE, "named", {}, 2), MCWish(4, TRUE, FALSE, TRUE, "off", {}, 9),
    MCWish(4, TRUE, FALSE, TRUE, "row", {"z"}, 9), MCWish(1, FALSE, FALSE, TRUE, "row", {}, 9),
    MCWish(2, FALSE, TRUE, TRUE, "row", {}, 9), MCWish(7, TRUE, TRUE, TRUE, "row", {}, 9),
    MCWish(3, TRUE, FALSE, FALSE, "row", {}, 9)}

MCFindsIn ==
    ("k1" :> <<{"a"}, {"a", "b"}>>) @@ ("k2" :> <<{"c"}, {"d"}>>) @@ ("k3" :> <<{}, {"e"}>>)

MCPathOrder == <<"n", "p", "r">>
MCInput(files) == [inside |-> TRUE, files |-> files]
MCSelections == {
    <<MCInput(<<"r">>), MCInput(<<"n">>)>>, <<MCInput(<<"p", "r", "n">>), MCInput(<<"r">>)>>,
    <<MCInput(<<"p">>)>>, <<MCInput(<<"n">>), MCInput(<<"n", "r">>)>>, <<MCInput(<<"r">>)>>,
    <<MCInput(<<"r">>), [inside |-> FALSE, files |-> <<"n">>]>>}

MCRanked(i, family, impact, confidence, reach, tools, regions) ==
    [id |-> i, family |-> family, impact |-> impact, confidence |-> confidence,
     reach |-> reach, tools |-> tools, regions |-> regions]
MCTidy == <<"clang_tidy", "tidy">>
MCCsa == <<"csa", "csa">>
MCHere == <<"a.c", 1>>
MCWeak ==
    <<MCRanked(1, "bounds", "incorrect_result", "high", "argued", {MCTidy}, {MCHere}),
      MCRanked(2, "leak", "code_execution", "high", "argued", {MCTidy}, {MCHere, <<"a.c", 2>>}),
      MCRanked(3, "leak", "code_execution", "high", "argued", {MCTidy}, {MCHere, <<"a.c", 3>>}),
      MCRanked(4, "lifetime", "memory_corruption", "medium", "unknown",
               {MCTidy, MCCsa, <<"clang", "csa">>}, {MCHere}),
      MCRanked(5, "integer", "undefined_behavior", "high", "argued",
               {MCTidy, MCCsa}, {MCHere, <<"b.c", 1>>}),
      MCRanked(6, Unmapped, "code_execution", "high", "demonstrated", {MCTidy}, {MCHere})>>
MCFindingLists ==
    {<<>>} \cup {<<MCWeak[i]>> : i \in 1..6}
    \cup {<<MCWeak[p[1]], MCWeak[p[2]]>> : p \in {q \in (1..6) \X (1..6) : q[1] # q[2]}}
    \cup {<<MCWeak[p[1]], MCWeak[p[2]], MCWeak[p[3]]>> :
            p \in {q \in (1..4) \X (1..4) \X (1..4) : Cardinality({q[1], q[2], q[3]}) = 3}}
MCLabel(case, category, who, agreed, note, from) ==
    [case |-> case, category |-> category, labelers |-> who, agreed |-> agreed,
     note |-> note, source |-> from]
MCTwo == <<"p", "q">>
MCLabelSets ==
    {{}} \cup {{MCLabel("m1", c, MCTwo, TRUE, FALSE, "review")} : c \in Categories}
    \cup {{MCLabel("m1", "coupling", who, agreed, note, from)} :
            who \in {MCTwo, <<"p", "p">>}, agreed, note \in BOOLEAN, from \in {"review", "clang"}}
    \cup {{MCLabel("m1", c, MCTwo, TRUE, FALSE, "review"),
           MCLabel(case, "complexity", MCTwo, FALSE, TRUE, "review")} :
            c \in {"coupling", "ownership_ambiguity", "error_handling"}, case \in {"m1", "m2"}}
MCJudgements == [1..3 -> 0..1] \cup {<<2, 1, 0>>, <<0, 0, 2>>, <<1>>}
MCDiscounts == <<100, 63, 50>>

MCContents == {<<>>, <<0>>, <<1, 0>>, <<1, 0, 2>>, <<2, 0, 1>>, <<1, 2, 0, 1>>}
MCAsked ==
    {[op |-> "region", first |-> i, last |-> j] : i \in 0..2, j \in 1..3}
    \cup {[op |-> "around", line |-> i, around |-> 1] : i \in 1..3}
    \cup {[op |-> "again"]}
=============================================================================
