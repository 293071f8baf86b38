---------------------------- MODULE AblationGrid ----------------------------
(* `caudit ablate` (cli/ablate_cmd.py, eval/ablation.py,                       *)
(* eval/ablation_runner.py): every configuration of a grid is measured over    *)
(* the cases of a suite, first what retrieval puts on the page and then, with  *)
(* consent, what a model makes of it; a verdict compares the baseline with the *)
(* flat-window control.                                                        *)
(*                                                                             *)
(* A configuration is [budget, variant]; a case is [candidates, truths], the   *)
(* sequence of its candidates and its decisive lines.  What a candidate's      *)
(* context holds is decided by the budget of the run (ContextBudget).          *)
EXTENDS Integers, Sequences, FiniteSets, Functions, ContextBudget, KeyedData

CONSTANTS
    GridCases,    \* case id -> the case
    GridOrder,    \* the cases in the order they are measured
    Units,        \* <<variant, candidate>> -> its units' [primary, optional] tokens
    Reach,        \* <<variant, candidate>> -> decisive lines in its [primary, optional] units
    BaseBudget,   \* the run budget of the configuration that was given
    Requests,     \* the values asked for --token-budget, in order
    MaxHitches,   \* bound: cases that cannot be indexed, silent providers
    NotRun

Config(b, v) == [budget |-> b, variant |-> v]
ASSUME GridAssumption ==
    /\ GridOrder \in Seq(DOMAIN GridCases) /\ IsInjective(GridOrder)
    /\ \A c \in DOMAIN GridCases :
           /\ GridCases[c].candidates \in Seq(Range(GridCases[c].candidates))
           /\ IsFiniteSet(GridCases[c].truths)
           /\ \A x \in Range(GridCases[c].candidates) : \A v \in {"structural", "flat_window"} :
                  Units[<<v, x>>].primary \in Nat /\ Units[<<v, x>>].optional \in Nat
    /\ BaseBudget \in Nat /\ MaxHitches \in Nat
    /\ \A budgets \in Requests : budgets \in Seq(Nat)
    /\ NotRun \notin [budget : Nat, variant : {"structural", "flat_window"}]

VARIABLES
    grid,        \* the configurations still to measure
    config,      \* the one being measured, or NotRun
    rest,        \* its cases still to measure
    row,         \* its measurement so far
    rows,        \* the rows that are finished
    exclusions,  \* configuration -> cases it could not measure
    model,       \* whether a provider was constructed
    written,     \* the suite's record: NotRun, "refused" or "written"
    told,        \* whether the console said the rows excluded different cases
    hitches

gridVars == <<grid, config, rest, row, rows, exclusions, model, written, told, hitches>>

-----------------------------------------------------------------------------
(* The grid: the baseline, one configuration per value asked for that differs *)
(* from it, and the control.                                                  *)

Baseline == Config(BaseBudget, "structural")
Control  == Config(BaseBudget, "flat_window")

Grid(budgets) ==
    LET varied == AtPlaces(budgets, {n \in DOMAIN budgets : budgets[n] # BaseBudget})
    IN  <<Baseline>> \o [i \in DOMAIN varied |-> Config(varied[i], "structural")]
                     \o <<Control>>

EmptyRow == [config |-> NotRun, contexts |-> 0, starved |-> 0, spent |-> 0, over |-> 0,
             truths |-> 0, covered |-> 0, calls |-> 0, measured |-> {}]

StartConfig ==
    /\ config = NotRun /\ grid # <<>>
    /\ config' = Head(grid) /\ grid' = Tail(grid)
    /\ rest' = GridOrder /\ row' = [EmptyRow EXCEPT !.config = Head(grid)]
    /\ UNCHANGED <<rows, exclusions, model, written, told, hitches>>

(* What a candidate is given: the allowance is what is left of the run. *)
Context(candidate, left) ==
    LET units == Units[<<config.variant, candidate>>]
    IN  Select(<<units.primary>>, <<units.optional>>, left, 2)

(* Candidates in order: with nothing left one is starved, otherwise it is     *)
(* expanded and charged, even when its primary units did not fit and it was   *)
(* given none.                                                                *)
Given(so, candidate) ==
    LET context == Context(candidate, config.budget - so.spent)
        lines   == Reach[<<config.variant, candidate>>]
    IN  IF so.spent >= config.budget THEN [so EXCEPT !.starved = @ + 1]
        ELSE [contexts |-> so.contexts + 1, starved |-> so.starved,
              spent |-> so.spent + context.tokens,
              over  |-> so.over + (IF context.units = 0 THEN 1 ELSE 0),
              lines |-> so.lines \cup (IF context.units > 0 THEN lines.primary ELSE {})
                                 \cup (IF context.units > 1 THEN lines.optional ELSE {})]

NoneMet == [contexts |-> 0, starved |-> 0, spent |-> 0, over |-> 0, lines |-> {}]
Expand(case) ==
    LET after[n \in 0..Len(case.candidates)] ==
            IF n = 0 THEN NoneMet ELSE Given(after[n - 1], case.candidates[n])
    IN  after[Len(case.candidates)]

(* Coverage of a case: over the union of its candidates' contexts. *)
WithCase(case, done, starved) ==
    [config |-> row.config, contexts |-> row.contexts + done.contexts,
     starved |-> row.starved + starved, spent |-> row.spent + done.spent,
     over |-> row.over + done.over, truths |-> row.truths + Cardinality(case.truths),
     covered |-> row.covered + Cardinality(case.truths \cap done.lines),
     calls |-> row.calls, measured |-> row.measured \cup {Head(rest)}]

(* Mutant: the candidates the budget did not reach are left out of the row. *)
MeasuredReached(case) == WithCase(case, Expand(case), 0)

Measured(case) == WithCase(case, Expand(case), Expand(case).starved)

ExcludedFrom(c) == IF c \in DOMAIN exclusions THEN exclusions[c] ELSE {}

(* Mutant: the exclusions of the last configuration replace those before. *)
ExcludeOver ==
    exclusions' = [x \in {config} |-> ExcludedFrom(x) \cup {Head(rest)}]

(* A case with no database, or that cannot be indexed, is in neither ratio.  *)
Excluding == exclusions' = Put(exclusions, config, ExcludedFrom(config) \cup {Head(rest)})

MeasureCase ==
    /\ config # NotRun /\ rest # <<>>
    /\ \/ /\ row' = Measured(GridCases[Head(rest)])
          /\ UNCHANGED <<exclusions, hitches>>
       \/ /\ hitches < MaxHitches /\ hitches' = hitches + 1
          /\ Excluding /\ UNCHANGED row
    /\ rest' = Tail(rest)
    /\ UNCHANGED <<grid, config, rows, model, written, told>>

(* The suite is scored; with a provider the model is asked about every        *)
(* candidate, and a provider that does not answer makes no call.              *)
FinishRow ==
    /\ config # NotRun /\ rest = <<>>
    /\ \E answered \in IF model /\ row.contexts > 0
                       THEN {row.contexts} \cup (IF hitches < MaxHitches THEN {0} ELSE {})
                       ELSE {0} :
          /\ hitches' = IF model /\ row.contexts > 0 /\ answered = 0 THEN hitches + 1 ELSE hitches
          /\ rows' = Append(rows, [row EXCEPT !.calls = answered])
    /\ exclusions' = Put(exclusions, config, ExcludedFrom(config))
    /\ config' = NotRun
    /\ UNCHANGED <<grid, rest, row, model, written, told>>

Mode(r) == IF r.calls > 0 THEN "detection" ELSE "retrieval_only"
RowOf(c) == rows[CHOOSE n \in DOMAIN rows : rows[n].config = c]

(* Mutant: a grid that had a provider measured detection. *)
EarnsWhenAsked ==
    IF ~ model THEN "not measured"
    ELSE IF RowOf(Baseline).covered > RowOf(Control).covered THEN "yes" ELSE "no"

(* structural_retrieval_earns_itself: no verdict from a row no model read;    *)
(* the score of a row a model read is what it was shown.                      *)
EarnsItself ==
    IF "retrieval_only" \in {Mode(RowOf(Baseline)), Mode(RowOf(Control))} THEN "not measured"
    ELSE IF RowOf(Baseline).covered > RowOf(Control).covered THEN "yes" ELSE "no"

(* structural_retrieval_covers_more: no verdict over an empty denominator.    *)
CoversMore ==
    LET base == RowOf(Baseline)
        flat == RowOf(Control)
    IN  IF base.truths = 0 \/ flat.truths = 0 THEN "not measured"
        ELSE IF base.covered * flat.truths > flat.covered * base.truths THEN "yes" ELSE "no"

ExclusionsAgree == \A a, b \in DOMAIN exclusions : exclusions[a] = exclusions[b]

(* The record is refused on two rows of one name; what was measured for them  *)
(* is not written.                                                            *)
WriteSuite ==
    /\ grid = <<>> /\ config = NotRun /\ written = NotRun
    /\ IF \E i, j \in DOMAIN rows : i # j /\ rows[i].config = rows[j].config
       THEN written' = [refused |-> TRUE] /\ UNCHANGED told
       ELSE /\ written' = [refused |-> FALSE, earns |-> EarnsItself, covers |-> CoversMore]
            /\ told' = ~ ExclusionsAgree
    /\ UNCHANGED <<grid, config, rest, row, rows, exclusions, model, hitches>>

GridInit ==
    /\ \E budgets \in Requests : grid = Grid(budgets)
    /\ model \in BOOLEAN
    /\ config = NotRun /\ rest = <<>> /\ row = EmptyRow /\ rows = <<>>
    /\ exclusions = << >> /\ written = NotRun /\ told = FALSE /\ hitches = 0

GridNext == StartConfig \/ MeasureCase \/ FinishRow \/ WriteSuite
GridSpec == GridInit /\ [][GridNext]_gridVars

-----------------------------------------------------------------------------
Recorded == written # NotRun /\ ~ written.refused

(* A case that cannot be indexed is left out of the row that noticed, not of   *)
(* every row as the module's docstring has it, and verdicts are drawn over     *)
(* rows of different cases.  What is left of that rule is that whoever runs    *)
(* the grid is told on the console (exclusions_agree, ablate_cmd.py), from     *)
(* whatever configuration a case was missing; the record does not say it.      *)
UnequalOnConsole ==
    (Recorded /\ \E i, j \in DOMAIN rows : rows[i].measured # rows[j].measured) => told

(* Whether structural retrieval earns itself is answered only when a model     *)
(* read the contexts of both rows it compares (ablation.py), whatever was      *)
(* intended; and coverage is compared only where something was labelled.       *)
VerdictHasBothRows ==
    Recorded =>
        /\ written.earns # "not measured" =>
               RowOf(Baseline).calls > 0 /\ RowOf(Control).calls > 0
        /\ written.covers # "not measured" =>
               RowOf(Baseline).truths > 0 /\ RowOf(Control).truths > 0

CandidatesOf(cases) == Total([c \in cases |-> Len(GridCases[c].candidates)])

(* Every candidate of a case a row measured is one of its contexts or is       *)
(* counted as starved (ablation_runner.py measure_retrieval), so a row that    *)
(* covers less says why; and no case spends more than the row's budget.        *)
CandidatesAccounted ==
    \A n \in DOMAIN rows :
        /\ rows[n].contexts + rows[n].starved = CandidatesOf(rows[n].measured)
        /\ rows[n].spent <= rows[n].config.budget * Cardinality(rows[n].measured)

(* A verdict of the grid compares rows that were measured, and the console  *)
(* says where they were not measured on the same (ablation.py).             *)
VerdictIsMeasured ==
    /\ UnequalOnConsole
    /\ VerdictHasBothRows
    /\ CandidatesAccounted
=============================================================================
