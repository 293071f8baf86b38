------------------------------ MODULE ScanRun -------------------------------
(***************************************************************************)
(* One `caudit scan` after another over the same repository and output     *)
(* directory: intake, index, candidates, consent, the model stages, the    *)
(* report and its three files, the exit code.  Intake and candidate        *)
(* generation are the modules Intake and AnalyzerRuns; what indexing and   *)
(* adjudication may come to is taken from the modules about them.          *)
(***************************************************************************)
EXTENDS Intake, AnalyzerRuns

CONSTANTS
  PathOrder,              \* Paths, sorted
  Invocations,            \* [choice, files]: command lines and databases
  MaxScans                \* bound

ASSUME InputsOK ==
  /\ \A run \in Invocations : run.files \in Seq(Paths)
  /\ PathOrder \in Seq(Paths) /\ \A p \in Paths : \E i \in DOMAIN PathOrder : PathOrder[i] = p
  /\ \A v \in 1..2, p \in Paths, a \in AnalyzerNames : Prints[v][p][a] \subseteq Diagnostics

VARIABLES
  stage,                  \* where the scan is
  index,                  \* the index as the later stages find it
  records,                \* the stage log: stage -> status
  consentFile,            \* the persisted grant is on disk
  consent,                \* this scan's decision
  pipeline,               \* candidate -> what the report will say of it
  asked,                  \* the same, for candidates the model was asked about
  cost,                   \* provider calls the account has counted
  report,                 \* sections and manifest, before they are written
  files,                  \* report.md, results.sarif, run-manifest.json
  exit,
  scan,
  agreed, agreedThen      \* history: a standing grant the user gave

workVars == <<intakeVars, analyzerVars>>
consentVars == <<consentFile, consent, agreed, agreedThen>>
modelVars == <<pipeline, asked, cost>>
endVars == <<report, files, exit, scan>>
vars == <<workVars, stage, index, records, consentVars, modelVars, endVars, mishaps>>

Init ==
  /\ options = None /\ database = <<>> /\ unread = {} /\ chosen = [p \in Paths |-> 0]
  /\ discarded = {} /\ outside = {} /\ plan = None
  /\ version = 1 /\ artifacts = <<>> /\ AnalyzersIdle
  /\ stage = "idle" /\ index = None /\ records = <<>> /\ consentFile = FALSE
  /\ consent = FALSE /\ pipeline = <<>> /\ asked = <<>> /\ cost = 0 /\ report = None
  /\ files = [f \in {"report.md", "results.sarif", "run-manifest.json"} |-> 0]
  /\ exit = None /\ scan = 0 /\ mishaps = 0
  /\ agreed = FALSE /\ agreedThen = FALSE

(* Each of what may go wrong is one mishap; MaxMishaps bounds them.        *)
Recorded(s, status) == [x \in DOMAIN records \cup {s} |-> IF x = s THEN status ELSE records[x]]
Broken(log) == {s \in DOMAIN log : log[s] \in {"failed", "degraded"}}
Candidates == {c.first : c \in merged}

-----------------------------------------------------------------------------
StartScan ==
  /\ stage = "idle" /\ scan < MaxScans
  /\ \E run \in Invocations : Reading(run.choice, run.files)
  /\ stage' = "intake" /\ scan' = scan + 1
  /\ selected' = <<>> /\ waiting' = <<>> /\ running' = {} /\ ended' = <<>>
  /\ merged' = {} /\ told' = {}
  /\ index' = None /\ records' = <<>> /\ consent' = FALSE /\ pipeline' = <<>> /\ asked' = <<>>
  /\ cost' = 0 /\ report' = None /\ exit' = None /\ agreedThen' = FALSE
  /\ UNCHANGED <<version, artifacts, consentFile, files, mishaps, agreed>>

IntakeStep ==
  /\ stage = "intake" /\ (RejectDatabase \/ ReadEntry \/ MakePlan)
  /\ UNCHANGED <<consentVars, modelVars, endVars, analyzerVars, stage, index, records, mishaps>>

(* Intake does not degrade: without a plan there is no scan. *)
Finish(code) == stage' = "idle" /\ exit' = code

IntakeDone ==
  /\ stage = "intake" /\ plan # None
  /\ IF Planned THEN stage' = "index" /\ UNCHANGED exit ELSE Finish("environment")
  /\ records' = IF Planned THEN Recorded("intake", "ok") ELSE records
  /\ UNCHANGED <<workVars, consentVars, modelVars, index, report, files, scan, mishaps>>

(* The stage fails as a whole and leaves an empty index; units that did    *)
(* not parse are holes in it, not a degraded stage.                        *)
BuildIndex ==
  /\ stage = "index"
  /\ \E outcome \in {"whole", "holes", "empty"} :
       /\ outcome = "holes" => plan.units # {}
       /\ IF outcome = "whole" THEN UNCHANGED mishaps ELSE Mishap
       /\ index' = outcome
       /\ records' = Recorded("index", IF outcome = "empty" THEN "failed" ELSE "ok")
  /\ stage' = "probe"
  /\ UNCHANGED <<workVars, consentVars, modelVars, endVars>>

ProbeTools ==
  /\ stage = "probe"
  /\ Probe(InOrder(PathOrder, plan.units))
  /\ stage' = IF selected' = <<>> THEN "consent" ELSE "candidates"
  /\ records' = IF selected' = <<>> THEN Recorded("candidates", "degraded") ELSE records
  /\ UNCHANGED <<consentVars, modelVars, endVars, intakeVars, index>>

AnalyzerStep ==
  /\ stage = "candidates" /\ (StartRun \/ EndRun)
  /\ UNCHANGED <<consentVars, modelVars, endVars, intakeVars, stage, index, records>>

(* Mutant: the stage is degraded only when nothing at all came of it. *)
OnlyWhenNothing == IF RanOn = {} THEN "degraded" ELSE "ok"

(* Mutant: a status the manifest does not know. *)
UnknownStatus == IF Failed # {} THEN "partial" ELSE "ok"

CandidatesStatus == IF Failed # {} \/ RanOn = {} THEN "degraded" ELSE "ok"

CandidatesDone ==
  /\ stage = "candidates" /\ Collect(index # "empty")
  /\ records' = Recorded("candidates", CandidatesStatus)
  /\ stage' = "consent"
  /\ UNCHANGED <<consentVars, modelVars, endVars, intakeVars, index>>

(* A check profile that will not load fails the stage before any run: no   *)
(* candidate, and no limitation but the stage's own.                       *)
CandidatesFail ==
  /\ stage = "probe" /\ Mishap
  /\ records' = Recorded("candidates", "failed")
  /\ stage' = "consent"
  /\ UNCHANGED <<workVars, consentVars, modelVars, endVars, index>>
-----------------------------------------------------------------------------
Promoted(c) == [confirmed |-> About[c[1]].inScope, answer |-> "not_asked"]
PromoteOnly == [c \in Candidates |-> Promoted(c)]

(* Mutant: every grant is kept for the next scan. *)
RemembersAlways == options.consent

Remembers == options.remember

Consented == options.consent \/ options.remember \/ consentFile'

ModelStages == {"expansion", "adjudication", "verification"}
Skipped(stages) ==
  [s \in DOMAIN records \cup stages |-> IF s \in stages THEN "skipped" ELSE records[s]]

(* The grant is recorded, then the decision is taken once for the scan.    *)
ReadConsent ==
  /\ stage = "consent"
  /\ consentFile' = (consentFile \/ Remembers)
  /\ agreed' = (agreed \/ options.remember) /\ agreedThen' = agreed'
  /\ consent' = Consented
  /\ pipeline' = PromoteOnly
  /\ \/ options.dry /\ stage' = "dry_run" /\ UNCHANGED records
     \/ ~options.dry /\ consent' /\ Candidates # {} /\ stage' = "model" /\ UNCHANGED records
     \/ /\ ~options.dry /\ (~consent' \/ Candidates = {})
        /\ stage' = "report" /\ records' = Skipped(ModelStages)
  /\ UNCHANGED <<workVars, endVars, index, asked, cost, mishaps>>

(* --dry-run-prompts writes the prompts and sends nothing. *)
WritePrompts ==
  /\ stage = "dry_run" /\ stage' = "report"
  /\ \E status \in {"skipped", "failed"} :
       /\ records' = Recorded("expansion", status)
       /\ IF status = "failed" THEN Mishap ELSE UNCHANGED mishaps
  /\ UNCHANGED <<workVars, consentVars, modelVars, endVars, index>>

(* One candidate through retrieval, the model and the gate.  Unanswered,   *)
(* it stays on the analyzer's word or goes to review.                      *)
AskCandidate ==
  /\ stage = "model"
  /\ \E c \in Candidates \ DOMAIN asked, confirmed \in BOOLEAN,
        answer \in {"answered", "unanswered"} :
       /\ answer = "unanswered" /\ confirmed => Promoted(c).confirmed
       /\ IF answer = "unanswered" THEN Mishap ELSE UNCHANGED mishaps
       /\ asked' = [x \in DOMAIN asked \cup {c} |->
                      IF x = c THEN [confirmed |-> confirmed, answer |-> answer] ELSE asked[x]]
  /\ cost' = cost + 1
  /\ UNCHANGED <<workVars, consentVars, endVars, stage, index, records, pipeline>>

AdjudicationStatus ==
  IF \E c \in DOMAIN asked : asked[c].answer = "unanswered" THEN "degraded" ELSE "ok"

ModelDone ==
  /\ stage = "model" /\ DOMAIN asked = Candidates
  /\ pipeline' = asked
  /\ records' = Recorded("adjudication", AdjudicationStatus)
  /\ stage' = "report"
  /\ UNCHANGED <<workVars, consentVars, endVars, index, asked, cost, mishaps>>

(* Mutant: the outcomes so far replace the baseline. *)
KeepsOutcomes == asked

Fallback == pipeline

ModelFails ==
  /\ stage = "model" /\ Mishap
  /\ pipeline' = Fallback
  /\ records' = Recorded("adjudication", "failed")
  /\ stage' = "report"
  /\ UNCHANGED <<workVars, consentVars, endVars, index, asked, cost>>

-----------------------------------------------------------------------------
Unanswered == {c \in DOMAIN pipeline : pipeline[c].answer = "unanswered"}
ConsentLimitation == IF options.dry \/ consent THEN {} ELSE {<<"no_consent">>}

(* Mutant: stage limitations are taken before the model stages ran. *)
EarlyStageLimitations ==
  {<<"stage", s>> : s \in Broken(records) \cap {"intake", "index", "candidates"}}

StageLimitations == {<<"stage", s>> : s \in Broken(records)}

Limitations ==
  plan.limitations \cup (IF index = "holes" THEN {<<"not_parsed">>} ELSE {}) \cup told
    \cup ConsentLimitation \cup {<<"unanswered", c>> : c \in Unanswered} \cup StageLimitations

(* Mutant: the bill is taken from the outcomes that reached the report. *)
CostOfOutcomes == Cardinality({c \in DOMAIN pipeline : pipeline[c].answer # "not_asked"})

TotalCost == cost

BuildReport ==
  /\ stage = "report" /\ stage' = "report.md"
  /\ report' = [findings |-> pipeline, limitations |-> Limitations, log |-> records,
                partial |-> Broken(records) # {}, cost |-> TotalCost]
  /\ UNCHANGED <<workVars, consentVars, modelVars, index, records, files, exit, scan, mishaps>>

(* Mutant: the manifest goes first. *)
ManifestFirst ==
  [s \in {"report.md", "results.sarif", "run-manifest.json"} |->
     CASE s = "report.md" -> "run-manifest.json"
       [] s = "results.sarif" -> "report.md"
       [] OTHER -> "results.sarif"]

FileWritten == [s \in {"report.md", "results.sarif", "run-manifest.json"} |-> s]

AfterWriting(s) ==
  CASE s = "report.md" -> "results.sarif"
    [] s = "results.sarif" -> "run-manifest.json"
    [] OTHER -> "exit"

WriteFile ==
  /\ stage \in DOMAIN files
  /\ files' = [files EXCEPT ![FileWritten[stage]] = scan]
  /\ stage' = AfterWriting(stage)
  /\ UNCHANGED <<workVars, consentVars, modelVars, index, records, report, exit, scan, mishaps>>

(* Mutant: a run with nothing confirmed is a clean run. *)
NothingConfirmedIsOk ==
  IF RanOn = {} THEN "environment"
  ELSE IF \E c \in DOMAIN pipeline : pipeline[c].confirmed THEN "findings" ELSE "ok"

ScanExitCode ==
  IF RanOn = {} THEN "environment"
  ELSE IF \E c \in DOMAIN pipeline : pipeline[c].confirmed THEN "findings"
  ELSE IF Broken(records) # {} THEN "environment" ELSE "ok"

Exit ==
  /\ stage = "exit" /\ Finish(ScanExitCode)
  /\ UNCHANGED <<workVars, consentVars, modelVars, index, records, report, files, scan, mishaps>>

(* A kill or an exception nothing expects, anywhere (the typed ones of the *)
(* report stage have the exit code of those); a file being written may be  *)
(* left torn.                                                              *)
Crash ==
  /\ stage # "idle" /\ Mishap /\ Finish("internal")
  /\ \/ UNCHANGED files
     \/ stage \in DOMAIN files /\ files' = [files EXCEPT ![FileWritten[stage]] = 0]
  /\ UNCHANGED <<workVars, consentVars, modelVars, index, records, report, scan>>

(* Between scans the user may change the code or delete the record. *)
EditCode ==
  /\ stage = "idle" /\ scan > 0 /\ Mishap
  /\ version' = 3 - version
  /\ UNCHANGED <<consentVars, modelVars, endVars, intakeVars, selected, waiting, running,
                 ended, artifacts, merged, told, stage, index, records>>

Withdraw ==
  /\ consentFile /\ Mishap
  /\ consentFile' = FALSE /\ agreed' = FALSE
  /\ UNCHANGED <<workVars, modelVars, endVars, stage, index, records, consent, agreedThen>>

Progress ==
  \/ IntakeStep \/ IntakeDone \/ BuildIndex \/ ProbeTools \/ AnalyzerStep \/ CandidatesDone
  \/ CandidatesFail \/ ReadConsent \/ WritePrompts \/ AskCandidate \/ ModelDone
  \/ ModelFails \/ BuildReport \/ WriteFile \/ Exit

Next == StartScan \/ Progress \/ Crash \/ EditCode \/ Withdraw
Spec == Init /\ [][Next]_vars /\ WF_vars(Progress)

-----------------------------------------------------------------------------
Stages == {"idle", "intake", "index", "probe", "candidates", "consent", "dry_run", "model",
           "report", "exit"} \cup DOMAIN files
TypeOK ==
  /\ stage \in Stages /\ index \in {None, "whole", "holes", "empty"}
  /\ exit \in {None, "ok", "findings", "environment", "internal"}
  /\ \A s \in DOMAIN records : records[s] \in {"ok", "degraded", "failed", "skipped"}
  /\ Candidates \subseteq Diagnostics \X AnalyzerNames
  /\ \A f \in DOMAIN files : files[f] \in 0..scan
  /\ cost \in 0..Cardinality(Diagnostics) * Len(Analyzers)

Over == stage = "idle" /\ scan > 0
Reported == report # None /\ stage # "idle"
PlannedRuns == plan.units \X {selected[i] : i \in DOMAIN selected}

(* "Ran to completion with nothing that requires attention": every run of  *)
(* every analyzer found on the machine ended well, over an index that was  *)
(* built, no candidate the model was asked about went without an answer,   *)
(* and nothing is confirmed.                                               *)
OkMeansComplete ==
  Over /\ exit = "ok" =>
    /\ index # "empty" /\ PlannedRuns # {} /\ \A w \in PlannedRuns : ended[w] = "ok"
    /\ \A c \in DOMAIN pipeline : pipeline[c].answer # "unanswered" /\ ~pipeline[c].confirmed

(* Whatever failed or was cut short on the way is told in the report that  *)
(* scan writes, even when every later stage succeeded.                     *)
PartialTold ==
  Reported =>
    /\ report.partial <=> \/ index = "empty"
                          \/ \E w \in DOMAIN ended : ended[w] # "ok"
                          \/ RanOn = {}
                          \/ \E s \in DOMAIN report.log : report.log[s] = "failed"
                          \/ Unanswered # {}
    /\ \A s \in DOMAIN report.log :
         report.log[s] \in {"failed", "degraded"} => <<"stage", s>> \in report.limitations

(* Every source file of the tree, and every analyzer, down to the single   *)
(* run: examined, or the report says it was not.                           *)
SourceAccounted ==
  Reported =>
    /\ BelowFloor => options.partial
    /\ \A p \in Present \ (plan.units \cup plan.excluded) : <<"gap">> \in report.limitations
    /\ \A p \in plan.excluded : <<ReasonFor(p)>> \in report.limitations
    /\ \A p \in plan.units, a \in AnalyzerNames :
         \/ <<p, a>> \in DOMAIN ended /\ ended[<<p, a>>] = "ok"
         \/ <<p, a>> \in DOMAIN ended /\ <<ended[<<p, a>>], <<p, a>>>> \in report.limitations
         \/ <<"unavailable", a>> \in report.limitations
         \/ <<"stage", "candidates">> \in report.limitations

(* What an analyzer found in a run that ended well is in the report: in    *)
(* one finding, which stands at most the tolerance away from it unless the *)
(* index proved both to be in the same function.                           *)
FoundMeansReported ==
  Reported =>
    /\ DOMAIN report.findings = Candidates
    /\ \A w \in DOMAIN ended, d \in Diagnostics :
         ended[w] = "ok" /\ d \in Full(w) /\ About[d].fate = "citable" =>
           \E m \in merged :
             /\ <<d, w[2]>> \in m.provenance
             /\ \/ Abs(Line(d) - Line(m.first[1])) <= Tolerance
                \/ index # "empty" /\ About[d].function = About[m.first[1]].function
    /\ \A m, n \in merged : m # n => m.provenance \cap n.provenance = {}

(* The bill in the manifest covers the calls of a stage that then failed.  *)
CostReported == Reported => report.cost = Cardinality(DOMAIN asked)

(* A candidate goes to a model only in a scan the user allowed it for, on  *)
(* this command line or by a grant asked to be remembered and not since    *)
(* withdrawn; never in a dry run.                                          *)
NothingSentUnagreed ==
  asked # <<>> => ~options.dry /\ (options.consent \/ options.remember \/ agreedThen)

(* The manifest on disk never describes a scan whose report and results    *)
(* are not there; a scan that ended by itself left all three.              *)
ManifestLast ==
  /\ \A f \in DOMAIN files : files["run-manifest.json"] <= files[f] \/ files[f] = 0
  /\ Over /\ report # None /\ exit # "internal" => \A f \in DOMAIN files : files[f] = scan

(* Nothing in the report is older than this scan: a candidate rests on     *)
(* what an analyzer printed in a run of this scan, about the code as it is.*)
ReportsThisCode ==
  Reported =>
    \A m \in merged : \A c \in m.provenance :
      \E w \in DOMAIN ended : w[2] = c[2] /\ c[1] \in Full(w)

(* A scan ends: no stage waits for another, a run ends or is stopped.      *)
ScanEnds == stage # "idle" ~> stage = "idle"

(* Every entry of the database, every file present, is scanned or told of   *)
(* (intake/loader.py, coverage.py).                                         *)
EntriesAccounted ==
  /\ LastEntryWins
  /\ EveryEntryAccounted
  /\ OldStandardsLeftOut

(* The exit status and the manifest say how far the scan came, and the      *)
(* manifest is written last (scan.py, report/service.py).                   *)
StatusIsTrue ==
  /\ TypeOK
  /\ OkMeansComplete
  /\ PartialTold
  /\ ManifestLast

(* What an analyzer found is reported and what could not be looked at is    *)
(* told, with what was spent (analyzers/service.py, scan.py).               *)
ReportIsWhole ==
  /\ SourceAccounted
  /\ FoundMeansReported
  /\ CostReported
=============================================================================
