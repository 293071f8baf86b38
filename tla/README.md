# A verification model of C Audit

C Audit (`src/src/caudit`) audits C and C++ code. Deterministic stages collect
evidence: it resolves a compilation database, indexes the translation units with
libclang in worker processes, runs Clang's analyzers and normalises their
diagnostics into candidates. With the user's consent a language model is asked
about each candidate, under quotas and budgets, and a local gate decides what
may be reported as confirmed. Without consent the candidates are promoted as the
analyzers reported them. A second family of commands measures the tool itself:
it scores findings against labelled suites, compares and ablates configurations,
scans pairs of revisions and packs the results for others to check.

What is hard to get right here is the bookkeeping around unreliable parties: a
provider that refuses, times out or answers nonsense; a process that is killed in
the middle of a paid run; workers and analyzers that hang or die; a tree that is
edited while it is read; and measurements that must not be about two different
things. The modules in this directory model that bookkeeping. TLC checks it on
small instances and TLAPS proves the most important parts for every instance.

All source paths below are relative to `src/src/caudit`.

## 1. Inventory

| Component | Source | State it keeps | Hard behaviour | What makes it correct | Modelled in |
|---|---|---|---|---|---|
| Run account | `llm/accounting.py` | calls, tokens, quota window, standing stop | reservations that never report usage, two kinds of ceiling | quota kept, ledger balances | `RunAccount` |
| Attempt loop, response cache | `llm/attempts.py`, `llm/cache.py` | attempts of a request, a file per answer | nested retries, torn files, hits that skip the citation check | grounded answers only, it ends | `AttemptLoop` |
| Adjudication, routing | `llm/service.py`, `llm/routing.py` | attempts and first answer | failed triage or escalation, a ceiling between two calls | escalation earned, first answer stands | `Adjudicate` |
| Context budget | `retrieval/budget.py` | the run's retrieval ledger | the tail of a budget | same context after a resume | `ContextBudget` |
| Pipeline, checkpoint, suite | `application/pipeline.py`, `llm/checkpoint.py`, `eval/adjudicated.py` | outcomes, a checkpoint per case, a shared account | a kill between any two steps | nothing saved is lost or asked again | `SuiteRun`, `SuiteReport` |
| Parse worker pool | `index/workers.py` | pending units, pipes, results | children hang, raise, die; deadlines race with answers | no unit lost, doubled or misattributed | `ParsePool` |
| Index store (cache) | `index/store.py` | an entry per unit | edits between and during scans, scans cut short | what is served is what parsing would give | `IndexCache` |
| Index walk, merge, graphs | `index/traversal.py`, `parser.py`, `graphs.py`, `symbols.py`, `limits.py`, `resolver.py` | the merged tables | two entities with one name, calls nobody can resolve, units that failed | nothing invented, nothing missing unsaid | `IndexMerge` |
| Retrieval | `retrieval/*` | units built so far, gaps | cyclic graphs, unreadable regions, a budget | complete at its distance or said to be missing | `Retrieval` |
| Prompt and redaction | `llm/prompts`, `llm/redaction.py`, `evidence/filters.py` | the assembled text | exclusions, credentials across unit borders | no excluded text leaves; what was altered is told | `Prompt` |
| Verification gate | `verify/*`, `finding_policy/promotion.py`, `report/sections.py` | bundle, verdict, findings | several checks fail at once, the tree changes after capture | nothing unverified is confirmed | `Gate` |
| Evidence store | `evidence/store.py`, `resolver.py` | cached bytes with their status | an edit between status and read, or in one clock tick | a load is current | `SourceReads`, `Gate` |
| Intake | `intake/*` | plan | duplicate entries, files outside, coverage floor | every entry accounted for | `Intake` |
| Analyzers | `analyzers/*` | runs, raw output files | time limits with partial output, files of an earlier scan | found means reported | `AnalyzerRuns` |
| Scan, consent, report | `application/scan.py`, `stages.py`, `llm/consent.py`, `report/*` | stage records, the grant, three files | degraded stages, crashes while writing, consent withdrawn | status is true, nothing sent unagreed | `ScanRun` |
| Finding policy | `finding_policy/*` | none | ties, ceilings | order is of the findings | `Ranking`, `Gate` |
| Scoring, gates, calibration | `eval/metrics.py`, `matching.py`, `gates.py`, `calibration.py`, `application/evaluation.py` | counts per family | greedy matching, findings of no family | everything charged once | `Scoring` |
| Comparison | `eval/compare.py`, `experiment.py` | none | fields that were never recorded | like is compared with like | `Comparison` |
| Repository pairs | `eval/pairs*.py`, `cli/pairs_cmd.py` | checkouts and a ledger on disk | half-made checkouts, kills | the pinned revision is scanned | `PairRun` |
| Ablation | `eval/ablation*.py` | grid, rows | cases a row could not measure | a verdict is about one corpus | `AblationGrid` |
| Attribution | `eval/attribution.py`, `naive.py`, `profiled.py` | rows, checkpoints, answers | cases edited between rows, resumes, remembered answers | rows differ in one thing | `Attribution` |
| Pilot | `eval/pilot.py`, `adapters/castle.py` | records of repetitions | a checkout that moves, reports of an earlier pilot | a record is of its own run | `Pilot` |
| Bundle | `eval/repro_bundle.py` | an archive | overlapping inputs, damage | same files, same archive | `ReproBundle` |
| Maintainability | `eval/maintainability.py` | labels, scores | abstention, uncoverable categories | full marks mean exact | `Maintainability` |
| Provider clients, cassettes | `llm/gemini.py`, `cassette.py` | a recording | | | environment of `AttemptLoop` |
| Corpora adapters | `eval/adapters/mini.py`, `juliet.py`, `runner.py` | none | | | constants of `Scoring` |
| Configuration, command line, trace | `config/*`, `cli/*`, `eval/trace.py` | values, printing, an append-only log | | | constants; exit codes in `ScanRun` |

How they interact. `run_scan` runs intake, index, analyzers and (with consent)
the model stage, and hands everything to the report; each stage returns values
and the stage records say how it went. The model stage, and `run_suite` for a
benchmark, call `adjudicate_candidates` once per scan or case: it owns the
retrieval ledger and the outcomes, and calls `expand`, the prompt, `adjudicate`,
the gate and the checkpoint for one candidate after another. `adjudicate` calls
the attempt loop up to three times. They share one `RunAccount` and one
`ResponseCache`; the account lives in memory, cache and checkpoints on disk. All
of this is one thread. Processes really interleave in two places: the parse pool
(a parent and its children over a pair of pipes each) and the pool of threads
that wait for analyzers. What everything shares is the working tree, which the
user may edit at any moment, and the output directories, which outlive a run.
The measuring commands read each other's files, never each other's memory.

## 2. Modules

```
RunAccount            the ledger as a value: pure operators
  AttemptLoop         one request: cache, quota, retries          <- SuiteRunProofs
    Adjudicate        one candidate: triage, routing, escalation  <- SuiteRunProofs
      SuiteRun        cases, candidates, budget, kills          <- SuiteRunProofs
        (SuiteReport) what a resumable run promises: refined by SuiteRun
ParsePool             parent and children of the parse pool       <- ParsePoolProofs
  IndexMerge          the index merged from what the pool returned <- ParsePoolProofs
IndexCache            scans of a tree that changes, and their cache <- IndexCacheProofs
Gate                  one candidate from capture to report section  <- GateProofs
ContextBudget         fitting units into an allowance (SuiteRun, Retrieval, AblationGrid)
Retrieval             what is shown of one candidate            <- RetrievalProofs
  Prompt              what of it leaves the process             <- RetrievalProofs
Intake, AnalyzerRuns  the first and the third stage of a scan
  ScanRun             the scan: stages, consent, report, exit   <- ScanRunProofs
Comparison, PairRun, Pilot, ReproBundle, SourceReads            <- EvaluationProofs
  Attribution         the rows A0 to A5 and their matrix        <- EvaluationProofs
  AblationGrid        the grid of configurations, its verdicts  <- EvaluationProofs
Scoring               matching, gates, labels and their curve <- EvaluationProofs
Ranking               severity, rank key and order of findings
  Maintainability     ranking and prediction scored against labels <- EvaluationProofs
KeyedData             dictionaries, their sums, filtered lists (index, measuring commands)
DataInduction         lemmas on sequences, counts, trees and recursive functions (the proofs)
```

A module extends the one whose code it calls into, and its steps are its own
decisions or a step of the callee: `AdjudicateStep` contains `AttemptStep`,
`SuiteRun`'s `AdjudicateHere` is `AdjudicateStep`, `IndexMerge` begins with the
results `ParsePool` ends with, `Prompt` with the context `Retrieval` ends with,
and a step of `ScanRun` is a step of `Intake` or `AnalyzerRuns` while that stage
runs. Where a part is called whose details another module has, it is one step by
its possible ends: the model stage of `ScanRun` (`AskCandidate`) and of
`Attribution` stands for `Retrieval`, `Adjudicate` and `Gate`.

Operators whose comment begins with *Mutant* are not part of the model. Each is
a plausible fault of the definition below it, and each property is known to
fail when one of them takes that definition's place. Where a name is an
abbreviation the comment names the source function.

### Money and answers

**RunAccount.** `Account` is the dataclass without its labels. Tokens are kept
per tier because tiers have prices; calls, retries and refusals are run totals.
`QuotaStop`/`Reserved`/`Barred` are the three exits of `reserve`, `Charged` and
`ChargedCached` the two halves of `charge`, `StopReason` is `stop_reason`,
`Restored` is `restore_account`. A limit that is not configured is an empty set;
with two limits of a kind the smaller one binds (`_limit`), which is what the
existential in `QuotaStop` says.

**AttemptLoop.** `req.phase` is the point in `_attempt_loop` and `_call`: `lookup`
before the cache is read, `send` before a reservation, `wait` while the provider has
the request, `write` while a cache file is written. `number` and `transport` are the
two loop counters. A reply is an answer of the tier's result type, text that fails
its schema, an answer with unknown citations, a refusal or an unavailability. A
cache entry is `None`, an answer, or `Torn`: `write_text` truncates before it
writes. `wire` is history: what really left for the provider, and how much of it the
ledger no longer counts.

**Adjudicate.** `cand.phase` says which of the three requests is out. `Present`
is the head of `adjudicate` with its tests in the code's order, `TriageSaid` the
triage answer or the assumption made without one, `Route` the routing table,
used twice as in the code. `Raise` is the exception that leaves it for a candidate
in an excluded file.

**SuiteRun.** `run` is the position of the process: before a case, before
candidate `at`, inside `adjudicate`, or before a checkpoint is written. A
candidate's question is `Context(name, allowance)`, so a different allowance is a
different question with its own cache key. `Crash` throws away everything in
memory and keeps `cache` and `disk`; the process then begins at the first case,
as the command does when it is run again. `ExpandRaises` and the callee's `Raise`
are the exceptions that end the process (`Raised`); started again it meets the
second of them again. `Save` is one step because the code
writes aside and renames. **SuiteReport** is the promise in two variables:
results become durable as growing prefixes of the visit order, a case is reported
once with each of its candidates, an interruption takes back reports and nothing
durable.

### The index

**ParsePool.** `parent` is the position in the loop of `run_parallel` and the
workers the current pass has yet to visit. `jobs` and `results` are the pipes,
`child`, `work` the other side of them. `late` abstracts the clock: from some
moment on `elapsed > timeout`. `events` is history: what happened to a unit.

**IndexMerge.** When the pool has returned, `ReturnResults` chooses a program
and `AbsorbNext` merges one result after another (`Index.from_results`). A unit
is Clang's cursors in pre-order: a record of kind, name, file, lines, parent and
target. `Usr` gives the name the merge identifies an entity by, `Walked` is
the walk of one unit (`traversal.py`: symbols, calls, overrides, macro uses,
references), `Absorb` and `MergedTables` the merge, `Walk` the breadth-first
queries of `graphs.py`. The walk over the tree of cursors (`SymbolsIn`, `Around`) is
a recursive function of the position. The definitions the properties compare with
(`Entity`, `MayCall`, `BodyAround`) are read off the program and not off the index.
What a program may be is `IndexAssumption` (`CursorOK`, `ClassesOK`, `EntitiesOK`,
`LayoutOK`): it is about Clang and the C++ it parses, and the code relies on it.

**IndexCache.** `tree` is the working tree, `dir` the directory each compile
command names, `entries` the cache on disk; the rest lives in one call of
`build_index`. A unit has one include directive and `Search` says where it may be
answered, in order. A parse is two steps, as in the code: libclang reads
(`Parse`), then `_record_inputs` reads the files again to hash them
(`RecordInputs`). `GiveUp` stands for the outcomes of `ParsePool` other than a
parse. An entry is found by unit alone: flags and language, which the key covers,
do not change here, and the directory, which does, is not in the key. `settled`
is history: the units of the last full scan that nothing has touched since.

### From candidate to finding

**Retrieval.** `phase` runs through `expand` in its order: the containing function
(or the window for a diagnostic in none), types, macros, globals, the walk of
callers and the walk of callees hop by hop, cleanup paths, the functions on the
analyzer's path, the analyzer's message, and the selection under the allowance.
Graphs and the code around the diagnostic are chosen in `Init` from `Situations`.
`Build` stands for `UnitFactory`, which returns a unit or records a gap; `lost` are
the regions that are not readable as indexed (the labels of such a function may be
found or not). Regions are named by what they hold, `EvidenceId` is the id the code
issues for them; `SelectPrimary` and `FitOptional` are `select()` of `ContextBudget`
unit by unit.

**Prompt.** `Assemble` is `assemble()` over the finished context. A text is what it
holds (a token, a literal with a telling name, one with a credential further inside,
a whole private key, the line that opens or closes one); `Hits` is one scrub of a
text, `Swallowed` and `Blocks` the second scrub of the whole, `Offends` its second
look at excluded paths. `HandOver` returns the prompt, or stops with a
`PrivacyError`.

**Gate.** `disk` says what each region holds now, `orig` being what the index
hashed. Every read is a step of its own, because the tree may change between two:
`CaptureSteps` (the analyzer's path), `ReadUnit` then `AddUnit` (the two reads of
`UnitFactory`), `Propose` (the answer), `Verify` (every check of `VerificationGate`
in its order, all of which look at the tree of that moment), `BuildSections` (the
report resolves each citation again and moves what no longer resolves to review).
A failed check adds a reason; `PrimaryReason` is the one that is reported.

**Ranking.** `RankInputs` are the five values of `ranking.py`, `RankKey` the sort
key with the id as its last part. `IsRankable` says which findings have one: the
schema's families, impacts, confidences and reachabilities.

### A scan

**Intake.** One step per entry of the database, in any order, since only the
position decides between two for a file; then the filters in the order of the
code (`Rules`), coverage and its floor. **AnalyzerRuns.** `Probe` finds what is
installed, `StartRun` and `EndRun` are the threads, `artifacts` the raw files,
which outlive a scan; `Collect` reads them, normalises and merges (`MergeCandidates`).
**ScanRun.** `stage` is the stage under way and `records` the stage records.
`Crash` may happen anywhere and may leave the file being written torn; `EditCode`
and `Withdraw` happen between. A number in `files` is the scan that wrote the
file. Everything that goes wrong is counted in `mishaps`.

### Measuring

Each of these is one command, with one action for each step after which the outside
world could be different. **Scoring**: `ScoreCase` (matching and counts of one
case), `EvaluateGates`, `Calibrate`, `GatedOverallScore`. **Comparison**:
`CompareRuns`. **PairRun**: ledger, clone, checkout, build, scan per side, `Kill`
between any two; `checkout` and `ledger` survive. **AblationGrid**: `StartConfig`,
`MeasureCase`, `FinishRow`, `WriteSuite`. **Attribution**: a row is replayed or
analysed (`ReplayRecording`, `RunProfile`), its cases opened (`OpenCase`,
`Unindexed`), each candidate ends in `Refuse`, `Withhold`, `Recall` (a remembered
answer), `Dismiss`, `Answer` or `NoAnswer`, and the row is written. Edits are of a
candidate's own lines (`code`) or of what else its case holds (`elsewhere`), which
the code hashes at different times: the first when it promotes and resumes, both
when a row is written. The process is killed between two steps (`Again`) or while a
candidate is asked about (`KilledAsking`), where what was answered and paid for is
remembered or lost. **Pilot**: `DrawCases`, then per repetition `LoadCases`,
`ScanCase`, `WriteReport` and the record; the checkout may move at any time, and
`raw` is what analyzers wrote, which outlives a pilot. **ReproBundle**:
`BuildBundle`, `VerifyBundle`, `Damage`, `EditTree`. **Maintainability**:
`PredictCategories`, `ScoreMaintainability`. **SourceReads**: `Ask`, `Look` (the
status), `ReadBytes`, with `EditFile` between any two. `MCEvaluation` runs one of
them per behaviour, as `MCEvidence` runs `IndexCache`, `Prompt` (over `Retrieval`)
or `Gate`.

## 3. What TLC checks

| Run | Configuration | Question | Bounds |
|---|---|---|---|
| `service` | `MCAdjudicate` | what may a candidate cost, which answer counts, and can a quota, the ledger or the cache be talked out of its promise by any replies? | six kinds of candidate, 2 candidates on one account and cache, 2 schema x 2 transport attempts on each of three tiers, request quotas 5 and 7, token quota 14, token ceiling 3 |
| `resume` | `MCSuiteRun` | does a run killed anywhere continue as itself? | three cases (one not indexable), six candidates, one in an excluded file and one in a file edited while it is read, budget 6, request quota 3, up to 2 kills |
| `parse_pool` | `MCParsePool` | does every unit get its own true result, and is the index the truth about the program? | 2 workers, 3 units, 1 idle death, three programs |
| `evidence` | `MCEvidence` | is the cache invisible where it claims to be, is what is shown complete or said not to be, and what can be confirmed? | see below |
| `scan` | `MCScanRun` | do exit code, report, bill and consent agree with what happened? | 8 files, 7 command lines, 2 analyzers, 4 diagnostics, 2 scans into one directory, any 2 mishaps |
| `evaluation` | `MCEvaluation` | can a measurement be wrong about what it measured? | see below |

Bounds of `evidence`: for the cache 2 units, 2 headers, 2 build directories, 3 contents
(one broken), 2 changes, 1 scan cut short, any number of scans; for the context every
graph of 6 calls, every closure of 7 references, caller depth 3, callee depth 2, budget
4 of at most 3 units, 4 sets of exclusions, 3 distributions of credentials; for the gate
3 units and an analyzer step, 2 edits at any time, 45 answers, 3 refusals.

Bounds of `evaluation`: cases of up to 3 findings out of 7 and 2 truths out of 4,
and suites of two; 86 recorded reports, in pairs; two repository pairs, 3
runs, 2 mishaps; grids of up to two budgets over two cases, 2 hitches; nine
command lines of attribution over two cases, 2 slips; 3 repetitions over three
cases in two groups, 3 faults; three files, 2 bundles, 2 damages; up to 3 of 6
findings per case; six contents of a file, 2 edits.

Each property of a run is the conjunction of a few named statements about one
subject; each of these has its own definition with its own comment, and a mutant
that breaks it.

| Property | Parts |
|---|---|
| `EscalationIsSafe` | `EscalationEarned`, `FirstAnswerStands` |
| `CostIsKnown` | `AdjudicateTypeOK`, `AttemptsRecorded`, `OvershootBounded` |
| `ResumeContinues` | `TypeOK`, `SameQuestionAfterResume`, `SavedNotAskedAgain` |
| `PoolIsTrue` | `TypeOK`, `EachUnitInOnePlace`, `ChildServesItsUnit`, `ReportedAsItHappened` |
| `IndexIsOfTheSource` | `UnitsAccounted`, `BodyFound`, `VerifiedIsWritten`; beside it `MissedIsTold`: a call that is written and not in the index is admitted to |
| `CacheIsSafe` | `CacheTypeOK`, `ReusedOnlyIfUnchanged`, `ReusedIsFresh` |
| `ConfirmedOnTheEvidence` | `GateTypeOK`, `ShownUnlessChangedTwice`, `ClaimsWithinEvidence`; beside it `ConfirmedIsGrounded`, `ConfirmedStillThere`, `InventionNamedFirst` |
| `ContextSaysWhatItLacks` | `DistanceExact`, `ClosureOnPage`, `NothingSilentlyMissing`, `LowerBoundSaid` |
| `PageIsChosenWell` | `TypeOK`, `StrongestRoleStands`, `PageFitsBudget` |
| `PromptIsTruthful` | `ExcludedWithheld`, `StopsAtExcludedSite`, `NotAsWrittenIsTold`, `ReplacedCountedOnce` |
| `EntriesAccounted` | `LastEntryWins`, `EveryEntryAccounted`, `OldStandardsLeftOut` |
| `StatusIsTrue` | `TypeOK`, `OkMeansComplete`, `PartialTold`, `ManifestLast` |
| `ReportIsWhole` | `SourceAccounted`, `FoundMeansReported`, `CostReported`; beside it `NothingSentUnagreed` |
| `ScoreIsEarned` | `EverythingCharged`, `NoMatchLeftOver`, `QuotedIsEarned`, `QuotedLabelsOrdered` |
| `ComparedLikeForLike` | `LikeForLike`, `SignOnly` |
| `PairsAreMeasured` | `PinnedIsScanned`, `PairOnce`, `ReuseIsTold` |
| `VerdictIsMeasured` | `UnequalOnConsole`, `VerdictHasBothRows`, `CandidatesAccounted` |
| `RowsAreComparable` | `MatrixOneExperiment`, `NothingLostBetweenRows`, `ConfirmedAsFound`, `RowPaysForItself`; beside it `NotAskedTwice` |
| `PilotIsOfItsRuns` | `RecordsOwnReport`, `StableMeansAllAgree` |
| `BundleIsReproducible` | `SameFilesSameArchive`, `DamageIsFound`, `BuiltIsAccepted` |
| `RankingIsEarned` | `OrderIsOfTheFindings`, `ModelLiftsNothing`, `FullMarksMeanExact`, `AveragedIfReachable`, `BuriedIsNotPerfect` |
| `ReadsAreCurrent` | `RegionIsItsLines`, `LoadIsCurrent` |

Why the bounds are enough. In `service` two candidates with up to three requests each
are enough for an answer to be cached and read back and for the first to reach a ceiling
the second meets; two attempts of each kind give every nesting of the two loops, and the
quotas bind in the middle of a retry. The budget of `resume` makes
one candidate lose its optional unit, another not fit and a last one starve, and
two kills let a resumed run be killed again; the candidate in an excluded file comes
last, after results that are saved. In `parse_pool` a third unit is what
makes a worker be reused after an answer, a time-out or a death; the three
programs hold two static functions of one name, a hierarchy over three units, two
`main`s in one tree, a header above the size cap, a class local to a function and
a call into the toolchain. In `evidence` two changes allow a file to be changed
and changed back, a header to appear after another went, or an entry to be damaged
after an edit; two edits of the gate's files change a region after its capture and again
before the report, the least that fools a comparison with the first; the graphs
include cycles, a caller reached at two distances and a
call through a pointer; a type behind a macro behind a type crosses the depth
limit; the budget drops optional units in some contexts and not in others. In
`scan` a second scan into the same directory is what a stale file needs, and two
mishaps let a failed stage be followed by a crash, or an agreement by its
withdrawal. In `evaluation` three findings near two truths are the least that make
greedy matching choose, and two rows, revisions or repetitions the least that can
disagree. The names `MaxRequests`, `MaxCrashes`, `MaxIdleDeaths`, `MaxEdits`, `MaxRewrites`,
`MaxAborts`, `MaxMishaps`, `MaxScans`, `MaxRuns`, `MaxHitches`, `MaxSlips`,
`MaxFaults`, `MaxBuilds` and `MaxDamage` bound the model and not the code.

Deadlock is checked in `resume` and `parse_pool`; it is switched
off where a behaviour ends because the program does (`evidence`, `evaluation`), because a
bounded environment stops asking (`service`) or because no further scan is started
(`scan`).

Six more runs record where a comment or docstring and the code disagree. Each
states the sentence as a property and TLC shows a behaviour of the code that
breaks it:

| Run | The text | What the code does |
|---|---|---|
| `cache_directory` | `index/store.py:419` the cache "must never change what is reported" | the working directory is dropped from the key (`parser.py:139`), so a unit moved to another build directory is served the old entry |
| `stale_output` | `analyzers/runner.py:297` "The artifact's text, or "" when the tool wrote nothing." | nothing removes the file of an earlier scan, which is then read as this one's |
| `calibration` | `cli/calibrate_cmd.py` calibration "cannot disagree with the score it sits beside" | it matches review findings too, and one of them may take a truth from the confirmed finding the metrics credit |
| `raises_out` | `application/pipeline.py:214` "Nothing raises past this function for a per-candidate problem" | the prompt of a candidate in an excluded file raises `PrivacyError` (`llm/prompts/__init__.py:158`), which nothing catches: the suite ends there, and ends there again when it is resumed. A file edited between a unit's two reads does the same by `RegionError` (`retrieval/budget.py:132`) |
| `excluded_named` | `llm/redaction.py:299` "no excluded file is quoted, and none is named by us", `:5` "Exclusion is absolute" | prose is searched for what looks like a path, and a file in the root of the tree does not (`:289`), so a limitation names it |
| `old_verdict` | `llm/checkpoint.py:85` "Hash inputs that affect answers" | the identity holds the candidates and the configuration; a caller or callee that was shown may be edited, and the old verdict is restored |

Other disagreements are in the modules as the code has them, without a run of
their own.

*Accounts.* Every restored outcome counts as adjudicated, also a refused one
(`pipeline.py:127`). `eval/adjudicated.py:94` has the totals accumulate over the
suite; loading a case's checkpoint replaces them by those of its last save and
begins the request count of the quota window at zero (`checkpoint.py:173`, `:186`),
so what a resumed process had sent before for other cases is counted by nobody. The
history `wire` keeps it (`dropped`), and `RequestQuotaKept` is therefore about
processes that restore nothing. The cost ceiling is looked at before a candidate and
before an escalation only (`config/schema.py:339`); `OvershootBounded` says how far
it is passed. `AdjudicationOutcome.calls` is documented as "Requests that reached a
backend" (`attempts.py:112`) and also counts the attempts the local quota turned
back, which are recorded as refused: `AttemptsRecorded` speaks of attempts and not
of requests for that reason. Such a candidate is reported as `provider_unavailable`,
though nobody was asked.

*Index.* A worker that dies idle is not replaced (`workers.py:247`); with all
dead the loop does not end, which is why `MaxIdleDeaths` is below the number of
workers. A file edited between its parse and its hash is filed under the new
digest (`store.py:386`). A header created earlier on the search path is in no
digest; one above the size cap is parsed and not hashed, although `parser.py:183`
says every file is. `is_complete` ignores failed units; symbols of an oversized
header are dropped without a word; a call through an interface of the toolchain
carries no limitation; two programs' `main` share an identity and the first body
is kept. A cache entry that is not UTF-8 ends the scan with a `UnicodeDecodeError`
(`store.py:418`).

*Prompt.* A private key that opens in one unit and closes in a later one swallows
the units between, in no limitation, though their ids can still be cited
(`redaction.py:12`, `:96`). A literal with another credential inside is counted twice
(`redaction.py:195`). That the second check fires for every diagnostic in an excluded
header is what `redaction.py:9` calls a bug in the package.

*Scan and evaluation.* A read of the index's file after retrieval may raise
`RegionError` uncaught. A partial scan with a confirmed finding exits like a full
one. Greedy matching depends on the order of the truths (`matching.py:110`). A
degraded scan of a pair is counted as a miss, though `pairs_runner.py:23` says a
failure never is. No finding can be critical, though the comment at `ranking.py:92`
says code execution reaches it. A3 ignores the verdict it asked for. A drawn case
that is gone from the checkout ends the pilot with a `KeyError`; a repetition is not
into a "fresh output directory" (`pilot_cmd.py:98`) when an earlier pilot used it,
and an analyzer that writes nothing is read as having said what it said then
(`ScanCase`; the `stale_output` run shows the same of a scan). The comment on
`ADJUDICATED_POLICIES` (`compare.py:53`) says the prompt and retrieval policies are
"noted as a caveat when only one did" have a model; `_caveats` has no such caveat,
and `LikeForLike` claims nothing of that case. `ablation_runner.py:26` excludes a
case that cannot be indexed from every row; the code leaves it out of the row that
noticed, compares the rows, and only the console says so (`ablate_cmd.py:147`). Two
rows of an attribution matrix were over one corpus when they were written, which is
when the corpus is hashed (`identity.py:50`), and not necessarily when their
candidates were judged. An ablation value asked for twice is measured twice and then
refused.

## 4. Fairness

`EveryCandidateEnds` assumes weak fairness of `AdjudicateStep`: a single thread
blocks on a provider call that returns or times out within
`request_timeout_seconds`; nothing is assumed of the kind of reply.
`RunEnds` assumes weak fairness of `Work` and none of `Crash`. It says that the last
process comes to an end, by scoring every case or by the exception that leaves it.
`PoolFinishes` assumes that the parent runs and that time passes (`Overrun` for
each worker); nothing is assumed of the children, which may hang for ever.
`ScanEnds` assumes weak fairness of `Progress`, the scan's own steps: analyzers
have a time limit and the thread pool waits for each. The other specifications
state safety only and assume nothing.

## 5. What is proved

`SuiteRunProofs` goes up from a request to a candidate to a run, each part using the
step lemmas of the one below. The first is about one request, for every quota,
price, set of questions and answers, and retry limits: `RequestQuotaKept`,
`LedgerBalances`, `AnswersGrounded` and `FinalMeansFinal`. The inductive invariant
`AttemptInv` adds to the first four what the loop knows between two steps: the
ledger's request count is the number of requests that left since it was last
restored (`RequestQuotaKept` speaks of the latter where nothing was restored,
`reserve` tests the former); only a call in flight holds tokens; an answer about to
be written is one its tier can give. The heart is `ChargedAccount`: where the ledger
holds at least the reservation, `charge` loses nothing to its clamp, and
`LedgerBalances` says it always does. `FinalMeansFinal` needs one more invariant: a
request that may still send has nothing final behind it.

The second part is about a candidate, for every routing answer and ceiling:
`EscalationIsSafe`, `StoppedRunStaysStopped` and `CostIsKnown`, and that quota,
ledger and groundedness hold over triage, first answer and escalation of any
number of candidates. `AdjudicateInv` is `AttemptInv`, kept by the step lemmas of
the loop, with what the phase of a candidate tells about the request
(`PhaseKnows`) and that an answer in hand is one some attempt recorded
(`AnswerRecorded`): without the latter an escalation could not be traced to an
answer that was really given. `CostInv` adds two counts: the calls of a
candidate's attempts are those the account was charged since it was presented,
and the tokens spent stay below the ceiling plus the peak usage of one call for
each attempt that may have been made since the ceiling was last looked at. From
the second follows how far a ceiling is passed (`OvershootBounded`). It needs that
usage is bounded, which the limits on a request's tokens give.

The third part is about a run, for any cases, candidates, budgets and number of
kills: it implements `SuiteReport` (`ImplementsReport`), what it resumes continues what it
left (`ResumeContinues`), and `LedgerBalances`, `AnswersGrounded` and `EscalationIsSafe`
outlive kill and resume. `RequestQuotaKept` does not: what the restored account holds
is no longer what this process has sent, and the invariant says by how much
(`wire.dropped`). `SuiteInv` is `AdjudicateInv` with what the run knows:
the results in memory carry the names of a beginning of the case's order, those on
disk the names of a beginning of that, and every restored result lies ahead of the
visit. From this a save is `Persist` of more of the same order and a report is
`Publish`. It needs that no two candidates of a case have one name, which
`SuiteAssumption` states and the code does not enforce: `candidate_id`
(`model/ids.py:155`) hashes producer, rule, path, line and message but not the
column, so two candidates on one line that were not merged may share an id, and
after a resume both would be skipped for the result of one (`pipeline.py:244`).
`ResumeInv` adds the arithmetic: what the retrieval ledger has spent before a
candidate is the sum of what was fitted for the ones before it, and a checkpoint
holds that sum for the results it holds. As the sum up to a candidate does not
depend on how often the run was killed, neither does the allowance a candidate is
given, hence not its question (`SameQuestionAfterResume`).

`ParsePoolProofs`, for any number of workers and units: `PoolIsTrue` and
`ResultsFinal`. None of the parts of `PoolIsTrue` but the type is inductive
alone. `ChildAccount` adds why the parent may believe what it sees: the pipes of a
worker never hold two things at once, and a ready child that owes an answer has
its request or its answer in a pipe; a dead one owes a crash.

The second part is about the index, for any program, results and order of merging:
`IndexIsOfTheSource` and `MissedIsTold`. `IndexInv` is `PoolInv` with `MergeInv`:
the statuses, calls, overrides and limitations of the index are those of the results
taken so far and no others, and the symbol of each entity shows exactly what was
sighted of it (`IsTableOf`: the definition if one was seen, all declarations and
references). Neither property speaks of a merge that is under way, so what they say
at its end is traced back result by result. What one unit contributes is induction
down its cursors (`DownTheTree`): the function the walk is in is the one whose body
the cursor is written in (`EnclosingIsBody`), so a call is recorded from the
function it is written in. For calls, a method is recorded as overriding what its
class inherits at any remove (`DerivedWithin`: a chain of bases no longer than the
classes there are), so what a virtual call may reach is in the index or the call is
told as unresolved. For bodies, of the functions that hold a line the one
`enclosing` picks is the innermost one, because two that share a line nest
(`BodiesNest`). The breadth-first walk is followed for one and two hops (`WalkOnce`,
`WalkTwice`), which is what the property asks. That the pool's results are true and
final is proved again for the composed specification (`PoolTrueToTheEnd`,
`ResultsFinalToTheEnd`), because a step of the merge must not disturb them.

`IndexCacheProofs`, for any units, headers, search paths, contents and any number
of edits and interrupted scans, under the assumption that the tree does not
change while it is scanned (`~EditsDuringScan`): `CacheIsSafe` and
`UnchangedReused`. `CacheInv` says that the digests of every entry and result are
the contents its parse read, that a covered unit's parse read all it depends on,
and that what a running scan knows is still true of the tree. `ScanInv` adds
where each unit is in the scan, so that what it indexed is known to be in the
cache when it ends. `ReusedIsFresh` is what remains of the cache's promise: for a
unit with one place to look for its header, the same from every directory, a
header small enough to hash, and a tree that stands still, the cache changes
nothing. The second unit of `evidence` is not of that kind.

`GateProofs`, for any plan, files, answers and number of edits: `GateTypeOK`,
`ConfirmedIsGrounded`, `ConfirmedStillThere`, `InventionNamedFirst` and
`ConfirmedOnTheEvidence`. An invented evidence id is the reason given whatever else
failed, because it is first in the report's order of what such an answer can fail; an
invented call edge may stand behind it, or behind a citation that an edit broke. The
inductive invariant ties the bundle to what was shown (an id is issued only with
captured bytes) and a confirmed finding to the checks it passed; that a citation
still resolves in the report needs nothing of the time between, because the
sections are built from a resolution of their own. `ConfirmedOnTheEvidence` has two
halves: claims are only ever lowered, to what the cited roles and the verified
edges carry; and, by the invariant `EditsCounted`, a region that was captured
with other bytes than were indexed and now has the indexed ones was edited twice.

`RetrievalProofs`, for any index, diagnostic, depths, budget and set of unreadable
regions: `ContextSaysWhatItLacks` and `PageIsChosenWell`. What a walk hop by hop
collects is compared with `Around`, what is at most n edges away, a recursive
function that no step of the model uses. `RetrievalInv` has five parts.
`CollectedKnown`: what a unit is follows from its region, its role and, in the
roles of a walk, its distance. `WalksKnown`: after n hops a walk has met what is
at most n edges away, its frontier is what is exactly n away, and the units of its
role are those at the distances 1 to n and no others; a walk that stops because its
frontier is empty has met all there is, at whatever limit (`AroundStops`).
`ClosureKnown`: what a region on the page expands is on the page or still to be
looked at, which is what makes the closure over macros complete when nothing is
pending. `CallsKnown`: what was met is presented, unreadable or named. `PageKnown`:
kept, dropped and pending share out the units that `_dedupe` leaves, the kept ones
fit the budget, and all the primaries are kept or nothing is. None of this is
visible at the end alone: the property speaks of the last state, the invariant of
every hop before it. That one unit is left for each evidence id needs a strict
order (`BeforeOrders`), and the attempt to prove it showed one missing from the
model: eight calls away, a function met as caller and as callee is worth nothing
in either role, has one place and one id, and what decides is that Python's sort is
stable, hence the order in which `expand` collects. `Collected` is that order now.

`PromptIsTruthful` is proved there too, for any context, exclusions and contents,
under `PromptSpec`: the invariant of the retrieval holds until assembly begins and
retrieval then rests (`RetrievalRests`), so what is assembled is of a finished
context. A unit has at most one place that is replaced (`PlacesAreUnits`), which is
why counting places counts units. A second key that straddles units is a second
replacement; one of the run's contents holds two such keys. What is said of excluded
files is that none is quoted and none in a directory is named; that none is named at all
is not true of the code (`excluded_named`).

`ScanRunProofs`, for any command lines, files, analyzers and mishaps:
`NothingSentUnagreed`, `CostReported`, `ManifestLast`, `EntriesAccounted`,
`StatusIsTrue` and `ReportIsWhole`. The consent is decided once, between the
stages, so what a candidate in flight rests on is the decision and not the grant
as it is now; the bill and what was asked grow in one step; a manifest is only
written where report and results of the same scan lie. `IntakeInv` says that the
chosen entry of a file is the last one read, whatever the order of the reads, that
every entry read has its reason to be in or out, and that a finished plan is what
the rules make of the entries. `StatusIsTrue` and `ReportIsWhole` need four
invariants that follow the scan: `WorkKnown` (which analyzer runs are planned,
waiting, running or ended, and that what ended well printed everything),
`LogKnown` (which status each stage record has, and that it is "degraded" just
when something was missed there), `ToldKnown` (an analyzer that is not installed
is told, unless the stage says so) and `ReportKnown` (the report is what the scan
knew when it was made, and nothing of that changes while it is written). The proof
for merged candidates rests on `ChainHead`: of the diagnostics of one place the
best is reachable from each of them by a chain of duplicates, which is induction
over their ranks.

`EvaluationProofs` has one part for each measuring command it is about, each under
a specification of that command alone.
- Repository pairs, for any pairs, kills and torn ledgers: `PairsAreMeasured`. By
  `PairInv` every pair is to do, measured or left out, and only one of them;
  what is built or scanned is a checkout of the pinned revision; the ledger counts
  the accesses or is torn, and a run that got past it knows whether it is the first.
- Pilot, for any number of repetitions and groups: `PilotIsOfItsRuns`. By
  `PilotInv` a record belongs to a report its own repetition wrote, whatever analyzer
  output that was made from; a field is
  called stable just when all reports agree, because a set of values has one
  member just when any two are equal (`OneValue`).
- Comparison, for any two reports: `ComparedLikeForLike`; the deltas of the two
  orders are each other's negatives.
- Source reads, for any contents, size limit and edits: `ReadsAreCurrent`, both
  parts. `StoreInv` says what a finished read, a cached entry and a span are of; for
  the region it says that the byte positions of two lines, found by two counts of
  line ends, hold those lines and nothing else.
- Bundle, for any files and selections: `BundleIsReproducible`. The archive is a
  function of the set of files and their contents (`SameFilesAre`): the members at
  some places of a sequence are determined by their set (`MembersDecide`). What is
  left of a damaged archive is, member by member, of the archive that was built or
  garbled; so one that passes has no member altered, lost, added or doubled. This
  theorem is stated under `GarbledApart`, that damaged data is never that of a
  manifest; it quantifies over everything and is a hypothesis of the theorem.
- Attribution, for any cases, candidates and command lines: `RowsAreComparable`
  and `NotAskedTwice`, which excepts what a kill took and a disabled cache.
  `AttributionInv` says where each case and candidate of a row is (`CasesPlaced`,
  `OutcomesPlaced`: a closed case has an outcome for each of its candidates, and
  nothing else has one), what a checkpoint may hold (`SavedKnown`: outcomes of
  what it says was found, and no more calls than were served), what was spent when
  nothing went wrong (`BillsKnown`), what a written row counts (`RowsKnown`) and
  that what was heard is remembered or was lost to a kill (`HeardKnown`). A row's
  confirmed and review findings add up to its candidates because each candidate
  has one outcome; two rows of a matrix have the same candidates, so they add up
  to the same.
- Ablation grid, for any cases, contexts, budgets and requests: `VerdictIsMeasured`.
  By `GridInv` every configuration has its row, is being measured or is still to be,
  so the baseline and the control are there when the verdicts are asked for; and
  what is excluded for a configuration is just what its rows did not measure
  (`ExclusionsKnown`), so rows of different cases have different exclusions and the
  reader is told. That a row counts each candidate once and keeps its budget is a
  fact about the walk over a case (`ExpandIs`), because what is selected fits in
  what is left (`SelectFits`), added up over cases by `TotalMore`.
- Scoring, for any suites, families, tolerance and thresholds: `ScoreIsEarned`, all
  four parts. The matching is a function over the truths, one after another;
  `MatchIs` says by induction over them what it has taken: pairs that fit, no truth
  and no finding twice, and nothing left over that fits, which is why greedy is
  enough (`NoMatchLeftOver`). So the findings of a case are shared out between the
  credited and the uncredited, its labelled defects between the found and the
  missed (`CaseCounts`), and a finite set counted by family counts to the whole set
  (`TotalOfParts`), added up over cases (`TotalAdds`). `ScoreInv` carries the sums
  over the cases scored so far, `GatesKnown` what it means that no gate failed. The
  code compares neighbours only; that all judged labels are ordered is transitivity
  of the cross-multiplied rates (`RatesOrdered`, `LabelsOrdered`), and it needs that
  a judged bin is not empty.
- Maintainability set, for any cases, findings, labels, judgements, cut and
  discounts: `RankingIsEarned`, all five parts. `MaintainInv` says that what is
  shown, predicted and scored is made from what was read; the rest is about what the
  steps compute. Keys are ordered like words and no two findings of a report have
  one, so the place of a finding is the number of those before it, in whatever order
  they came (`OrderedPlaces`, `RankingOfSet`, `RankedAlike`). The ceiling of an
  impact can lower a severity and not raise it, and a producer that is no analyzer
  does not count, so what a model says changes no key for the better
  (`HeardStandsNoHigher`). F1 is whole just when the two sets of cases are equal,
  because what both have is at most each (`FullOverlap`), and answers that agree on
  every category are the same answers. That a full ranking score buries nothing is
  an exchange argument: of two judgements in the wrong order, putting them right
  gains more (`SwapGains`), so no order gains more than the sorted one, and one that
  gains as much is sorted down to the cut (`IdealIsMost`, `FullGainIsSorted`).

`DataInduction` holds what these proofs keep needing: that a set of numbers that is
not empty has a least member, induction up to a bound and the existence of a
function defined by recursion, both from it; counting a set in parts and through a
one-to-one function; the n-th member of a set of numbers and the places of a finite
set in a strict order; sequences by what they hold; and that what is selected under
a context budget fits in it. The induction theorems of the library take an operator
as a parameter, which no installed prover can instantiate. `LeastNumber` takes a set
instead, and with it sums over sequences (`SuiteRun`), chains of duplicates
(`AnalyzerRuns`), counts of line ends (`SourceReads`) and what is inherited down a
tree of parents (`IndexMerge`) can be proved about.

The proofs rest on the assumptions on the constants, which TLC evaluates in every
run: limits are natural numbers, positive where the configuration demands it, what a
schema enforces of an answer holds, and `None` and `Torn` are not answers
(`AccountAssumption`, `AttemptAssumption`, `AdjudicateAssumption`, `PoolAssumption`,
`CacheAssumption`, `GateAssumption`, `NoneAssumption`); usage and the sizes of units
are numbers (`SuiteAssumption`); files are numbered, cursors form a tree in
pre-order and what is below a cursor is in its file, who calls is in a body, a base
stands right below its class, a virtual method that is called has been declared
where the index can read it, one name is of one kind and scope, two functions that
share a line nest and the unit that reads the outer one reads what the inner one is
written in, and `None` is none of these (`IndexAssumption`); diagnostics are
finitely many and no two have one rank, and no analyzer is named twice (`TablesOK`);
a standard a command names is one that has been written (`FlagsOK`); databases list
known files (`InputsOK`); no pair is listed twice (`PairRunAssumption`); at least
one repetition (`PilotAssumption`); counts of a report are numbers
(`ComparisonAssumption`); a requested region is of numbered lines
(`SourceReadsAssumption`); the paths are distinct and none has the name of the
manifest or the tables (`ReproBundleAssumption`); no case is selected twice and no
two share a candidate, whose name holds its case's (`AttributionAssumption`); a grid
measures no case twice, the sizes of its units and budgets are numbers, and `NotRun`
is no configuration (`GridAssumption`); a case to score has finitely many findings,
their ids and lines are numbers and their ranges not reversed, families are finitely
many and `None` is none of them, and a label is judged on at least one finding
(`ScoringAssumption`); neither the model nor the index is one of the analyzers, the
labelled cases and each set of labels are finite, findings are rankable and those of
one case have ids of their own (`model/ids.py:81`), a label names a category, and
judgements are numbers and discounts positive and decreasing down to the cut
(`MaintainabilityAssumption`); names of functions, types, macros and globals are
regions of their own, finitely many, no two regions have one place, depths are those
the policy allows, and what an index says of calls, types, globals and macros is of
those names (`RetrievalAssumption`).

Only model-checked: everything under fairness (`EveryCandidateEnds`, `RunEnds`,
`PoolFinishes`, `ScanEnds`), which needs ENABLED, out of the prover's reach. Every
invariant of a passing run is the subject of a theorem.

## 6. Not modelled

*Values, text and layout.* Configuration is the constants. Prompt templates,
Markdown, SARIF and console rendering, argument parsing, logging and the trace,
which nothing reads back. Response files and the splitting of command lines in
`intake/compdb.py`, the parsers of the analyzers' own formats, text decoding: they
are conversions of text without state; what the model takes from them is the
value they return. Token counting is a number per unit, money is natural numbers.

*External parties.* libclang's parsing (its cursors are the input of `IndexMerge`),
Clang's analyzers (what they print is a table), git, the vendor's client: its
errors are translated by a table whose results are the replies of `AttemptLoop`. A
cassette is a provider that replies from a recording.

*Closed formulas over recorded lists.* The agreement of two labellers and the
corpora adapters of Juliet and the mini suite, which read manifests.

*Two scanners in one cache directory.* They write the same temporary file and one
may rename what the other is still writing (`store.py:436`); `IndexCache` has one
scanner, and its proofs use that.

*Left to one module.* Escalation is `Adjudicate`'s and not modelled again in
`Attribution`, nor is the retrieval that raises (`ExpandRaises` of `SuiteRun`); a window
control that cannot read its lines ends the run as a kill does. Citations of a symbol by
its qualified name or USR resolve to no more than `Named`, by name, does (`IndexMerge`).
A baseline of another matching policy ends the gates before they are evaluated, and the
gate on the counts' schema cannot fail within a run (`Scoring`). Every error the report
stage can raise has the exit code `internal` (`errors.py`), so `Crash` has one.

*Backoff delays and clocks.* A time limit is an event that may happen, never a
number.

## 7. Plan

1. A second scanner beside `IndexCache`, with the temporary file they share, and
   the cache's proofs under it.
2. `Gate` as the refinement of the single step `Answer` of `Attribution` and
   `AskCandidate` of `ScanRun`.
3. Provider errors and cassettes as operators against a table of their meanings.
