----------------------------- MODULE ScanRunProofs -----------------------------
(***************************************************************************)
(* Proofs about ScanRun, for any tree, database, analyzers, command lines  *)
(* and number of scans and mishaps: consent, the bill, the order in which  *)
(* the files of a report appear, what becomes of the entries of the        *)
(* database, what the runs found and what the report says of it.           *)
(***************************************************************************)
EXTENDS ScanRun, FiniteSetTheorems, DataInduction, TLAPS

BeforeModel == {"intake", "index", "probe", "candidates", "consent"}
BeforeReport == BeforeModel \cup {"dry_run", "model", "report"}

(* Consent is traced to the command line or to a grant that stood when the  *)
(* decision was taken; the record on disk exists only by such a grant; the  *)
(* model stages run only with consent, and nothing was asked before them.   *)
ConsentTraced ==
  /\ consentFile => agreed
  /\ consent => options.consent \/ options.remember \/ agreedThen
  /\ stage = "model" => consent /\ ~options.dry
  /\ stage \in BeforeModel => asked = <<>>

ConsentInv == ConsentTraced /\ NothingSentUnagreed

(* Nothing but the command line's own step changes the options, and the     *)
(* decision is taken in one step.                                           *)
LEMMA OptionsKept ==
  ASSUME Progress \/ Crash \/ EditCode \/ Withdraw
  PROVE  UNCHANGED options
<1>1. ASSUME IntakeStep PROVE UNCHANGED options
  BY <1>1 DEF IntakeStep, RejectDatabase, ReadEntry, MakePlan
<1>2. ASSUME UNCHANGED intakeVars PROVE UNCHANGED options
  BY <1>2 DEF intakeVars
<1>3. CASE EditCode \/ Withdraw \/ Crash
  BY <1>2, <1>3 DEF EditCode, Withdraw, Crash, workVars
<1>4. CASE Progress
  BY <1>1, <1>2, <1>4 DEF Progress, IntakeDone, BuildIndex, ProbeTools, AnalyzerStep,
     CandidatesDone, CandidatesFail, ReadConsent, WritePrompts, AskCandidate, ModelDone,
     ModelFails, BuildReport, WriteFile, Exit, workVars
<1>5. QED BY <1>3, <1>4

(* Every step keeps what is known of the consent.                           *)
LEMMA ConsentNext ==
  ASSUME ConsentInv, [Next]_vars
  PROVE  ConsentInv'
<1> USE DEF ConsentInv, ConsentTraced, NothingSentUnagreed, BeforeModel
<1>1. CASE StartScan
  BY <1>1 DEF StartScan
<1>2. CASE ReadConsent
  <2>1. UNCHANGED options
    BY <1>2, OptionsKept DEF Progress
  <2>2. asked' = <<>> /\ (stage' = "model" => consent' /\ ~options.dry)
        /\ stage' \notin BeforeModel
    BY <1>2 DEF ReadConsent
  <2>3. /\ consentFile' => consentFile \/ options.remember
        /\ agreed \/ options.remember => agreed'
        /\ agreed' => agreedThen'
        /\ consent' => options.consent \/ options.remember \/ consentFile'
    BY <1>2 DEF ReadConsent, Consented, Remembers
  <2>4. /\ consentFile' => agreed'
        /\ consent' => options.consent \/ options.remember \/ agreedThen'
    BY <2>3
  <2>5. QED BY <2>1, <2>2, <2>4
<1>3. CASE AskCandidate
  <2>1. UNCHANGED options
    BY <1>3, OptionsKept DEF Progress
  <2>2. stage = "model" /\ UNCHANGED <<stage, consentFile, consent, agreed, agreedThen>>
    BY <1>3 DEF AskCandidate, consentVars
  <2>3. QED BY <2>1, <2>2
<1>4. CASE IntakeStep \/ IntakeDone \/ BuildIndex \/ ProbeTools \/ AnalyzerStep
             \/ CandidatesDone \/ CandidatesFail
  <2>1. UNCHANGED options
    BY <1>4, OptionsKept DEF Progress
  <2>2. /\ stage \in BeforeModel /\ stage' # "model"
        /\ UNCHANGED <<consentFile, consent, agreed, agreedThen, asked>>
    BY <1>4 DEF IntakeStep, IntakeDone, BuildIndex, ProbeTools, AnalyzerStep, CandidatesDone,
       CandidatesFail, Finish, consentVars, modelVars
  <2>3. QED BY <2>1, <2>2
<1>5. CASE WritePrompts \/ ModelDone \/ ModelFails \/ BuildReport \/ WriteFile \/ Exit \/ Crash
  <2>1. UNCHANGED options
    BY <1>5, OptionsKept DEF Progress
  <2>2. stage' \notin BeforeModel \cup {"model"}
    BY <1>5 DEF WritePrompts, ModelDone, ModelFails, BuildReport, WriteFile, AfterWriting,
       Exit, Crash, Finish
  <2>3. UNCHANGED <<consentFile, consent, agreed, agreedThen, asked>>
    BY <1>5 DEF WritePrompts, ModelDone, ModelFails, BuildReport, WriteFile, Exit, Crash,
       consentVars, modelVars
  <2>4. QED BY <2>1, <2>2, <2>3
<1>6. CASE EditCode \/ Withdraw
  <2>1. UNCHANGED options
    BY <1>6, OptionsKept
  <2>2. /\ UNCHANGED <<stage, consent, agreedThen, asked>>
        /\ consentFile' => agreed'
    BY <1>6 DEF EditCode, Withdraw, consentVars, modelVars
  <2>3. QED BY <2>1, <2>2
<1>7. CASE UNCHANGED vars
  BY <1>7 DEF vars, workVars, consentVars, modelVars, intakeVars
<1>8. QED BY <1>1, <1>2, <1>3, <1>4, <1>5, <1>6, <1>7 DEF Next, Progress

(* A candidate goes to a model only in a scan the user allowed it for, and  *)
(* never in a dry run (ScanRun, NothingSentUnagreed).                       *)
THEOREM OnlySentWhenAgreed == Spec => []NothingSentUnagreed
<1>1. Init => ConsentInv
  BY DEF Init, ConsentInv, ConsentTraced, NothingSentUnagreed, BeforeModel
<1>2. ConsentInv => NothingSentUnagreed
  BY DEF ConsentInv
<1>3. QED BY <1>1, <1>2, ConsentNext, PTL DEF Spec

-----------------------------------------------------------------------------
FileNames == {"report.md", "results.sarif", "run-manifest.json"}

(* The account counts the candidates asked about, and the report, once      *)
(* made, repeats that count; nobody is asked after it is made.              *)
BillInv ==
  /\ IsFiniteSet(DOMAIN asked)
  /\ cost = Cardinality(DOMAIN asked)
  /\ stage \in BeforeReport => report = None
  /\ DOMAIN files = FileNames
  /\ CostReported

(* Every step keeps what is known of the bill.                              *)
LEMMA BillNext ==
  ASSUME BillInv, [Next]_vars
  PROVE  BillInv'
<1> USE DEF BillInv, CostReported, Reported, BeforeReport, BeforeModel, FileNames
<1>1. CASE StartScan
  <2>1. asked' = <<>> /\ cost' = 0 /\ report' = None /\ UNCHANGED files
    BY <1>1 DEF StartScan
  <2>2. DOMAIN asked' = {}
    BY <2>1
  <2>3. QED BY <2>1, <2>2, FS_EmptySet
<1>2. CASE AskCandidate
  <2>1. PICK c \in Candidates \ DOMAIN asked : DOMAIN asked' = DOMAIN asked \cup {c}
    BY <1>2 DEF AskCandidate
  <2>2. stage = "model" /\ UNCHANGED <<stage, report, files>> /\ cost' = cost + 1
    BY <1>2 DEF AskCandidate, endVars
  <2>3. IsFiniteSet(DOMAIN asked') /\ Cardinality(DOMAIN asked') = Cardinality(DOMAIN asked) + 1
    BY <2>1, FS_AddElement
  <2>4. QED BY <2>2, <2>3
<1>3. CASE BuildReport
  <2>1. report'.cost = cost /\ stage' = "report.md" /\ UNCHANGED <<asked, cost, files>>
    BY <1>3 DEF BuildReport, TotalCost, modelVars
  <2>2. QED BY <2>1
<1>4. CASE IntakeStep \/ IntakeDone \/ BuildIndex \/ ProbeTools \/ AnalyzerStep
             \/ CandidatesDone \/ CandidatesFail \/ ReadConsent \/ WritePrompts
             \/ ModelDone \/ ModelFails
  <2>1. stage \in BeforeReport /\ UNCHANGED <<asked, cost, report, files>>
    BY <1>4 DEF IntakeStep, IntakeDone, BuildIndex, ProbeTools, AnalyzerStep, CandidatesDone,
       CandidatesFail, ReadConsent, WritePrompts, ModelDone, ModelFails, modelVars, endVars
  <2>2. QED BY <2>1
<1>5. CASE WriteFile \/ Exit \/ Crash
  <2>1. /\ UNCHANGED <<asked, cost, report>> /\ stage # "idle"
        /\ DOMAIN files' = DOMAIN files
    BY <1>5 DEF WriteFile, Exit, Crash, modelVars
  <2>2. stage' \notin BeforeReport
    BY <1>5 DEF WriteFile, AfterWriting, Exit, Crash, Finish
  <2>3. QED BY <2>1, <2>2
<1>6. CASE EditCode \/ Withdraw \/ UNCHANGED vars
  <2>1. UNCHANGED <<asked, cost, report, stage, files>>
    BY <1>6 DEF EditCode, Withdraw, vars, modelVars, endVars
  <2>2. QED BY <2>1
<1>7. QED BY <1>1, <1>2, <1>3, <1>4, <1>5, <1>6 DEF Next, Progress

(* Before the first scan nothing was asked and nothing counted.             *)
LEMMA BillInit ==
  ASSUME Init
  PROVE  BillInv
<1>1. asked = <<>> /\ cost = 0 /\ report = None /\ DOMAIN files = FileNames
  BY DEF Init, FileNames
<1>2. DOMAIN asked = {}
  BY <1>1
<1>3. QED BY <1>1, <1>2, FS_EmptySet DEF BillInv, CostReported, Reported

(* The bill in a report is the number of candidates a model was asked       *)
(* about, those of a stage that failed included (ScanRun, CostReported).    *)
THEOREM BillIsComplete == Spec => []CostReported
<1>1. Init => BillInv
  BY BillInit
<1>2. BillInv => CostReported
  BY DEF BillInv
<1>3. QED BY <1>1, <1>2, BillNext, PTL DEF Spec

-----------------------------------------------------------------------------
(* Where the writing is: what this scan has written so far, in order.       *)
FilesInv ==
  /\ scan \in Nat
  /\ files \in [FileNames -> Nat]
  /\ \A f \in FileNames : files[f] <= scan
  /\ stage \in {"results.sarif", "run-manifest.json", "exit"} => files["report.md"] = scan
  /\ stage \in {"run-manifest.json", "exit"} => files["results.sarif"] = scan
  /\ stage = "exit" => files["run-manifest.json"] = scan
  /\ stage \in BeforeReport => report = None
  /\ ManifestLast

(* Every step keeps what is known of the files.                             *)
LEMMA FilesNext ==
  ASSUME FilesInv, [Next]_vars
  PROVE  FilesInv'
<1> USE DEF FilesInv, ManifestLast, Over, FileNames, BeforeReport, BeforeModel
<1>1. CASE StartScan
  BY <1>1 DEF StartScan
<1>2. CASE WriteFile
  <2>1. /\ stage \in FileNames /\ files' = [files EXCEPT ![stage] = scan]
        /\ UNCHANGED <<report, exit, scan>> /\ stage' = AfterWriting(stage)
    BY <1>2 DEF WriteFile, FileWritten
  <2>2. CASE stage = "report.md"
    BY <2>1, <2>2 DEF AfterWriting
  <2>3. CASE stage = "results.sarif"
    BY <2>1, <2>3 DEF AfterWriting
  <2>4. CASE stage = "run-manifest.json"
    BY <2>1, <2>4 DEF AfterWriting
  <2>5. QED BY <2>1, <2>2, <2>3, <2>4
<1>3. CASE Crash
  <2>1. /\ stage' = "idle" /\ exit' = "internal" /\ UNCHANGED <<report, scan>>
        /\ \/ UNCHANGED files
           \/ stage \in FileNames /\ files' = [files EXCEPT ![stage] = 0]
    BY <1>3 DEF Crash, Finish, FileWritten
  <2>2. QED BY <2>1
<1>4. CASE Exit
  BY <1>4 DEF Exit, Finish
<1>5. CASE BuildReport
  BY <1>5 DEF BuildReport
<1>6. CASE IntakeStep \/ IntakeDone \/ BuildIndex \/ ProbeTools \/ AnalyzerStep
             \/ CandidatesDone \/ CandidatesFail \/ ReadConsent \/ WritePrompts
             \/ AskCandidate \/ ModelDone \/ ModelFails
  <2>1. stage \in BeforeReport /\ UNCHANGED <<files, scan, report>>
    BY <1>6 DEF IntakeStep, IntakeDone, BuildIndex, ProbeTools, AnalyzerStep, CandidatesDone,
       CandidatesFail, ReadConsent, WritePrompts, AskCandidate, ModelDone, ModelFails, endVars
  <2>2. stage' \in BeforeReport \cup {"idle"}
    BY <1>6 DEF IntakeStep, IntakeDone, BuildIndex, ProbeTools, AnalyzerStep, CandidatesDone,
       CandidatesFail, ReadConsent, WritePrompts, AskCandidate, ModelDone, ModelFails, Finish
  <2>3. QED BY <2>1, <2>2
<1>7. CASE EditCode \/ Withdraw \/ UNCHANGED vars
  <2>1. UNCHANGED <<files, scan, report, exit, stage>>
    BY <1>7 DEF EditCode, Withdraw, vars, endVars
  <2>2. QED BY <2>1
<1>8. QED BY <1>1, <1>2, <1>3, <1>4, <1>5, <1>6, <1>7 DEF Next, Progress

(* Before the first scan nothing was written.                               *)
LEMMA FilesInit ==
  ASSUME Init
  PROVE  FilesInv
BY DEF Init, FilesInv, ManifestLast, Over, FileNames

(* The manifest on disk never describes a scan whose report and results     *)
(* are not there, whatever was torn by a crash (ScanRun, ManifestLast).     *)
THEOREM ManifestIsLast == Spec => []ManifestLast
<1>1. Init => FilesInv
  BY FilesInit
<1>2. FilesInv => ManifestLast
  BY DEF FilesInv
<1>3. QED BY <1>1, <1>2, FilesNext, PTL DEF Spec

-----------------------------------------------------------------------------
(* The reason that is given is one of the reasons there are.                *)
LEMMA ReasonIsOne ==
  ASSUME NEW p, ReasonFor(p) = None
  PROVE  Applying(p) = {}
<1>1. ASSUME Applying(p) # {} PROVE FALSE
  <2>1. Applying(p) \in SUBSET (1..8)
    BY DEF Applying, Rules
  <2>2. PICK i \in Applying(p) : \A j \in Applying(p) : i <= j
    BY <1>1, <2>1, LeastNumber
  <2>3. Min(Applying(p)) \in Applying(p)
    BY <2>2 DEF Min
  <2>4. \A j \in 1..8 : Rules(p)[j][1] \in Reasons
    BY DEF Rules, Reasons
  <2>5. QED BY <1>1, <2>1, <2>3, <2>4, FlagsOK DEF ReasonFor
<1>2. QED BY <1>1

(* A standard the tool reads is of the years it says it reads.              *)
LEMMA YearInFull ==
  ASSUME NEW std, StandardOK(std), StandardIsSupported(std)
  PROVE  SinceInFull(std) >= (IF std.cxx THEN 2017 ELSE 2011)
<1> DEFINE n == std.number
<1>1. n \in Nat /\ std.cxx \in BOOLEAN /\ std.draft \in BOOLEAN
  BY DEF StandardOK
<1>2. CASE std.draft
  BY <1>1, <1>2 DEF StandardOK, StandardIsSupported, Year, SinceInFull
<1>3. CASE ~std.draft /\ n > 999
  BY <1>1, <1>3 DEF StandardOK, StandardIsSupported, Year, SinceInFull
<1>4. CASE ~std.draft /\ ~(n > 999)
  BY <1>1, <1>4 DEF StandardOK, StandardIsSupported, Year, SinceInFull
<1>5. QED BY <1>1, <1>2, <1>3, <1>4

(* The greatest number of a set, when there is one.                         *)
LEMMA MaxIs ==
  ASSUME NEW S \in SUBSET Nat, NEW k \in S, \A i \in S : i <= k
  PROVE  Max(S) = k
<1>1. Max(S) \in S /\ \A i \in S : i <= Max(S)
  BY DEF Max
<1>2. Max(S) \in Nat /\ k \in Nat
  BY <1>1
<1>3. Max(S) <= k /\ k <= Max(S)
  BY <1>1
<1>4. QED BY <1>2, <1>3

(* The entries read so far: those outside the tree, those that lost, and    *)
(* one for each file, which is the last of them.                            *)
Entries == DOMAIN database \ unread
Kept == {i \in Entries : database[i] \notin Elsewhere /\ chosen[database[i]] = i}

ChosenLast ==
  /\ database \in Seq(Paths) /\ unread \subseteq DOMAIN database
  /\ chosen \in [Paths -> 0..Len(database)]
  /\ \A p \in Paths : chosen[p] # 0 => chosen[p] \in Kept /\ database[chosen[p]] = p
  /\ \A i \in Entries : database[i] \in Elsewhere \/ i <= chosen[database[i]]

EntriesSorted ==
  /\ outside = {i \in Entries : database[i] \in Elsewhere}
  /\ discarded = Entries \ (outside \cup Kept)

PlanOfEntries ==
  Planned =>
    /\ unread = {}
    /\ plan.excluded = {p \in Described : ReasonFor(p) # None}
    /\ plan.units = Described \ plan.excluded
    /\ plan.limitations = IntakeLimitations(plan.excluded)
    /\ BelowFloor => options.partial

IntakeInv == ChosenLast /\ EntriesSorted /\ PlanOfEntries

(* A scan starts with nothing read.                                         *)
LEMMA NothingRead ==
  ASSUME NEW run \in Invocations, Reading(run.choice, run.files)
  PROVE  IntakeInv'
<1>1. database' \in Seq(Paths) /\ unread' = DOMAIN database' /\ Entries' = {}
  BY InputsOK DEF Reading, Entries
<1>2. chosen' = [p \in Paths |-> 0] /\ Len(database') \in Nat
  BY <1>1 DEF Reading
<1>3. ChosenLast'
  BY <1>1, <1>2 DEF ChosenLast
<1>4. EntriesSorted'
  BY <1>1 DEF Reading, EntriesSorted, Kept
<1>5. ~Planned'
  BY DEF Reading, Planned
<1>6. QED BY <1>3, <1>4, <1>5 DEF IntakeInv, PlanOfEntries

(* The next entry goes to one of the three.                                 *)
LEMMA EntryRead ==
  ASSUME IntakeInv, ReadEntry
  PROVE  IntakeInv'
<1>1. PICK i \in unread :
        LET file == database[i]
            previous == chosen[file] IN
        /\ unread' = unread \ {i}
        /\ IF file \in Elsewhere
           THEN outside' = outside \cup {i} /\ UNCHANGED <<chosen, discarded>>
           ELSE /\ UNCHANGED outside
                /\ chosen' = IF i >= previous THEN [chosen EXCEPT ![file] = i] ELSE chosen
                /\ discarded' = discarded \cup (IF previous = 0 THEN {}
                                                ELSE IF i >= previous THEN {previous} ELSE {i})
        /\ UNCHANGED <<options, database, plan>>
  BY DEF ReadEntry, Wins
<1> DEFINE file == database[i]
<1>2. /\ i \in DOMAIN database /\ i \in Nat \ {0} /\ file \in Paths /\ i \in 1..Len(database)
      /\ chosen[file] \in 0..Len(database) /\ Len(database) \in Nat
  BY DEF IntakeInv, ChosenLast
<1>3. Entries' = Entries \cup {i} /\ i \notin Entries
  BY <1>1, <1>2 DEF Entries
<1>4. UNCHANGED <<options, database, plan>> /\ unread' = unread \ {i}
  BY <1>1
<1>5. ~Planned'
  BY <1>4 DEF IntakeInv, PlanOfEntries, Planned
<1>6. \A j \in Entries : j \in 1..Len(database) /\ j # i
  BY <1>3 DEF IntakeInv, ChosenLast, Entries
<1>7. CASE file \in Elsewhere
  <2>1. outside' = outside \cup {i} /\ UNCHANGED <<chosen, discarded>>
    BY <1>1, <1>7
  <2>2. Kept' = Kept
    BY <1>3, <1>4, <1>7, <2>1 DEF Kept
  <2>3. ChosenLast'
    BY <1>3, <1>4, <1>7, <2>1, <2>2 DEF IntakeInv, ChosenLast
  <2>4. EntriesSorted'
    BY <1>3, <1>4, <1>7, <2>1, <2>2 DEF IntakeInv, EntriesSorted, Kept
  <2>5. QED BY <1>5, <2>3, <2>4 DEF IntakeInv, PlanOfEntries
<1>8. CASE file \notin Elsewhere /\ i >= chosen[file]
  <2>1. /\ chosen' = [chosen EXCEPT ![file] = i] /\ UNCHANGED outside
        /\ discarded' = discarded \cup (IF chosen[file] = 0 THEN {} ELSE {chosen[file]})
    BY <1>1, <1>8
  <2>2. /\ chosen' \in [Paths -> 0..Len(database)] /\ chosen'[file] = i
        /\ \A p \in Paths \ {file} : chosen'[p] = chosen[p]
    BY <1>2, <2>1 DEF IntakeInv, ChosenLast
  <2>3. \A j \in Entries : database[j] \in Paths
    BY DEF IntakeInv, ChosenLast, Entries
  <2>4. Kept' = (Kept \ {chosen[file]}) \cup {i}
    <3>1. \A j \in Kept : database[j] = file => j = chosen[file]
      BY DEF Kept
    <3>2. chosen[file] \in Kept => database[chosen[file]] = file
      BY <1>2, <1>6 DEF IntakeInv, ChosenLast, Kept
    <3>3. \A j \in Entries : database[j] # file => (j \in Kept' <=> j \in Kept)
      BY <1>3, <1>4, <2>2, <2>3 DEF Kept
    <3>4. \A j \in Entries : database[j] = file => j \notin Kept'
      BY <1>4, <1>6, <2>2 DEF Kept
    <3>5. i \in Kept'
      BY <1>3, <1>4, <1>8, <2>2 DEF Kept
    <3>6. Kept' \subseteq Entries \cup {i} /\ Kept \subseteq Entries
      BY <1>3 DEF Kept
    <3>7. QED BY <3>1, <3>2, <3>3, <3>4, <3>5, <3>6
  <2>5. ChosenLast'
    <3>1. \A p \in Paths : chosen'[p] # 0 => chosen'[p] \in Kept' /\ database[chosen'[p]] = p
      <4> SUFFICES ASSUME NEW p \in Paths, chosen'[p] # 0
                   PROVE  chosen'[p] \in Kept' /\ database[chosen'[p]] = p
        OBVIOUS
      <4>1. CASE p = file
        BY <2>2, <2>4, <4>1
      <4>2. CASE p # file
        <5>1. chosen'[p] = chosen[p] /\ chosen[p] \in Kept /\ database[chosen[p]] = p
          BY <2>2, <4>2 DEF IntakeInv, ChosenLast
        <5>2. chosen[p] # chosen[file]
          BY <1>2, <4>2, <5>1 DEF IntakeInv, ChosenLast, Kept
        <5>3. QED BY <2>4, <5>1, <5>2
      <4>3. QED BY <4>1, <4>2
    <3>2. ASSUME NEW j \in Entries', database[j] \notin Elsewhere PROVE j <= chosen'[database[j]]
      <4>1. CASE j = i
        BY <1>2, <2>2, <4>1
      <4>2. CASE j \in Entries /\ database[j] = file
        <5>1. j <= chosen[file] /\ j \in 1..Len(database)
          BY <1>6, <3>2, <4>2 DEF IntakeInv, ChosenLast
        <5>2. QED BY <1>2, <1>8, <2>2, <4>2, <5>1
      <4>3. CASE j \in Entries /\ database[j] # file
        BY <2>2, <2>3, <3>2, <4>3 DEF IntakeInv, ChosenLast
      <4>4. QED BY <1>3, <4>1, <4>2, <4>3
    <3>3. QED BY <1>4, <2>2, <3>1, <3>2 DEF IntakeInv, ChosenLast
  <2>6. EntriesSorted'
    <3>1. outside' = {j \in Entries' : database'[j] \in Elsewhere}
      BY <1>3, <1>4, <1>8, <2>1 DEF IntakeInv, EntriesSorted
    <3>2. chosen[file] # 0 => chosen[file] \in Kept
      BY <1>2 DEF IntakeInv, ChosenLast
    <3>3. Kept \subseteq Entries /\ Kept \cap outside = {} /\ outside \subseteq Entries
      BY DEF IntakeInv, EntriesSorted, Kept
    <3>4. 0 \notin Entries
      BY <1>6
    <3>5. discarded' = Entries' \ (outside' \cup Kept')
      BY <1>3, <2>1, <2>4, <3>2, <3>3, <3>4 DEF IntakeInv, EntriesSorted
    <3>6. QED BY <3>1, <3>5 DEF EntriesSorted
  <2>7. QED BY <1>5, <2>5, <2>6 DEF IntakeInv, PlanOfEntries
<1>9. CASE file \notin Elsewhere /\ ~(i >= chosen[file])
  <2>1. chosen[file] # 0 /\ UNCHANGED <<chosen, outside>> /\ discarded' = discarded \cup {i}
    BY <1>1, <1>2, <1>9
  <2>2. Kept' = Kept
    BY <1>2, <1>3, <1>4, <1>9, <2>1 DEF Kept
  <2>3. ChosenLast'
    <3>1. i <= chosen[file]
      BY <1>2, <1>9
    <3>2. QED BY <1>3, <1>4, <2>1, <2>2, <3>1 DEF IntakeInv, ChosenLast
  <2>4. EntriesSorted'
    <3>1. i \notin Kept /\ i \notin outside
      BY <1>3 DEF IntakeInv, EntriesSorted, Kept
    <3>2. QED BY <1>3, <1>4, <1>9, <2>1, <2>2, <3>1 DEF IntakeInv, EntriesSorted
  <2>5. QED BY <1>5, <2>3, <2>4 DEF IntakeInv, PlanOfEntries
<1>10. QED BY <1>7, <1>8, <1>9


(* The reasons depend on the command line and on what is chosen.            *)
LEMMA ReasonsStay ==
  ASSUME UNCHANGED <<options, database, chosen, discarded, outside>>
  PROVE  /\ Described' = Described /\ \A p : ReasonFor(p)' = ReasonFor(p)
         /\ \A e : IntakeLimitations(e)' = IntakeLimitations(e)
         /\ BelowFloor' = BelowFloor
<1>1. Described' = Described /\ \A p : ReasonFor(p)' = ReasonFor(p)
  BY DEF Described, ReasonFor, Applying, Rules, Selects
<1>2. /\ \A e : IntakeLimitations(e)' = IntakeLimitations(e)
      /\ BelowFloor' = BelowFloor
  BY <1>1 DEF IntakeLimitations, ExclusionLimitations, Gap, Covered, Present, BelowFloor
<1>3. QED BY <1>1, <1>2

(* The plan is made when every entry is read.                               *)
LEMMA PlanMade ==
  ASSUME IntakeInv, MakePlan
  PROVE  IntakeInv'
<1> DEFINE excluded == {p \in Described : ReasonFor(p) # None}
<1>1. /\ UNCHANGED <<options, database, unread, chosen, discarded, outside>> /\ unread = {}
      /\ plan' = IF Unmatched # {} THEN [error |-> "target"]
                 ELSE IF BelowFloor /\ ~options.partial THEN [error |-> "coverage"]
                 ELSE [units |-> Described \ excluded, excluded |-> excluded,
                       limitations |-> IntakeLimitations(excluded)]
  BY DEF MakePlan
<1>2. ChosenLast' /\ EntriesSorted'
  BY <1>1 DEF IntakeInv, ChosenLast, EntriesSorted, Kept, Entries
<1>3. /\ Described' = Described /\ \A p : ReasonFor(p)' = ReasonFor(p)
      /\ \A e : IntakeLimitations(e)' = IntakeLimitations(e)
      /\ BelowFloor' = BelowFloor
  <2>1. UNCHANGED <<options, database, chosen, discarded, outside>>
    BY <1>1
  <2>2. QED BY <2>1, ReasonsStay
<1>5. CASE Unmatched # {} \/ (BelowFloor /\ ~options.partial)
  <2>1. plan' = [error |-> "target"] \/ plan' = [error |-> "coverage"]
    BY <1>1, <1>5
  <2>2. "units" \notin DOMAIN plan'
    BY <2>1
  <2>3. QED BY <1>2, <2>2 DEF IntakeInv, PlanOfEntries, Planned
<1>6. CASE ~(Unmatched # {} \/ (BelowFloor /\ ~options.partial))
  <2>1. plan' = [units |-> Described \ excluded, excluded |-> excluded,
                 limitations |-> IntakeLimitations(excluded)]
    BY <1>1, <1>6
  <2>2. /\ plan'.units = Described \ excluded /\ plan'.excluded = excluded
        /\ plan'.limitations = IntakeLimitations(excluded)
    BY <2>1
  <2>3. PlanOfEntries'
    BY <1>1, <1>3, <1>6, <2>2 DEF PlanOfEntries
  <2>4. QED BY <1>2, <2>3 DEF IntakeInv
<1>7. QED BY <1>5, <1>6

(* What intake knows stays while nothing of it changes.                     *)
LEMMA IntakeStays ==
  ASSUME IntakeInv, UNCHANGED intakeVars
  PROVE  IntakeInv'
<1>1. UNCHANGED <<options, database, unread, chosen, discarded, outside, plan>>
  BY DEF intakeVars
<1>2. ChosenLast' /\ EntriesSorted'
  BY <1>1 DEF IntakeInv, ChosenLast, EntriesSorted, Kept, Entries
<1>3. /\ Described' = Described /\ \A p : ReasonFor(p)' = ReasonFor(p)
      /\ \A e : IntakeLimitations(e)' = IntakeLimitations(e)
      /\ BelowFloor' = BelowFloor
  BY <1>1, ReasonsStay
<1>5. PlanOfEntries'
  BY <1>1, <1>3 DEF IntakeInv, PlanOfEntries, Planned
<1>6. QED BY <1>2, <1>5 DEF IntakeInv

(* Every step keeps what is known of the entries.                           *)
LEMMA IntakeNext ==
  ASSUME IntakeInv, [Next]_vars
  PROVE  IntakeInv'
<1>1. CASE StartScan
  <2>1. PICK run \in Invocations : Reading(run.choice, run.files)
    BY <1>1 DEF StartScan
  <2>2. QED BY <2>1, NothingRead
<1>2. CASE IntakeStep
  <2>1. CASE RejectDatabase
    <3>1. UNCHANGED <<options, database, unread, chosen, discarded, outside>>
          /\ plan' = [error |-> "database"]
      BY <2>1 DEF RejectDatabase
    <3>2. ChosenLast' /\ EntriesSorted'
      BY <3>1 DEF IntakeInv, ChosenLast, EntriesSorted, Kept, Entries
    <3>3. "units" \notin DOMAIN plan'
      BY <3>1
    <3>4. QED BY <3>2, <3>3 DEF IntakeInv, PlanOfEntries, Planned
  <2>2. QED BY <1>2, <2>1, EntryRead, PlanMade DEF IntakeStep
<1>3. CASE ~StartScan /\ ~IntakeStep
  <2>1. UNCHANGED intakeVars
    BY <1>3 DEF Next, Progress, IntakeDone, BuildIndex, ProbeTools, AnalyzerStep,
       CandidatesDone, CandidatesFail, ReadConsent, WritePrompts, AskCandidate, ModelDone,
       ModelFails, BuildReport, WriteFile, Exit, Crash, EditCode, Withdraw, workVars, vars
  <2>2. QED BY <2>1, IntakeStays
<1>4. QED BY <1>1, <1>2, <1>3

(* Files kept and entries kept are as many.                                 *)
LEMMA AsManyKept ==
  ASSUME IntakeInv, Planned
  PROVE  IsFiniteSet(Kept) /\ IsFiniteSet(Described) /\ Cardinality(Described) = Cardinality(Kept)
<1> DEFINE f == [i \in Kept |-> database[i]]
<1>1. Kept \subseteq 1..Len(database) /\ Len(database) \in Nat
  BY DEF IntakeInv, ChosenLast, Kept, Entries
<1>2. IsFiniteSet(Kept)
  BY <1>1, CountUpTo, CountRest
<1>3. \A i \in Kept : database[i] \in Described /\ chosen[database[i]] = i
  BY <1>1 DEF IntakeInv, ChosenLast, Kept, Described
<1>4. \A p \in Described : chosen[p] \in Kept /\ database[chosen[p]] = p
  BY DEF IntakeInv, ChosenLast, Described
<1>5. f \in [Kept -> Described]
  BY <1>3
<1>6. /\ \A i, j \in Kept : f[i] = f[j] => i = j
      /\ \A p \in Described : \E i \in Kept : f[i] = p
  BY <1>3, <1>4
<1> HIDE DEF f
<1>7. QED BY <1>2, <1>5, <1>6, CountSame

(* The entries that are in none of the three places are none.               *)
LEMMA EntriesAreAccounted ==
  ASSUME IntakeInv
  PROVE  EntriesAccounted
<1>1. LastEntryWins
  <2> SUFFICES ASSUME unread = {}, NEW p \in Paths \ Elsewhere
               PROVE  chosen[p] = (LET named == {i \in DOMAIN database : database[i] = p}
                                   IN IF named = {} THEN 0 ELSE Max(named))
    BY DEF LastEntryWins
  <2> DEFINE named == {i \in DOMAIN database : database[i] = p}
  <2>1. named \in SUBSET Nat /\ named \subseteq Entries /\ chosen[p] \in Nat
    BY DEF IntakeInv, ChosenLast, Entries
  <2>2. chosen[p] # 0 => chosen[p] \in named
    BY DEF IntakeInv, ChosenLast, Kept, Entries
  <2>3. \A i \in named : i <= chosen[p] /\ i # 0
    BY <2>1 DEF IntakeInv, ChosenLast
  <2>4. CASE named = {}
    BY <2>2, <2>4
  <2>5. CASE named # {}
    <3>1. chosen[p] # 0
      BY <2>1, <2>3, <2>5
    <3>2. Max(named) = chosen[p]
      BY <2>1, <2>2, <2>3, <3>1, MaxIs
    <3>3. QED BY <2>5, <3>2
  <2>6. QED BY <2>4, <2>5
<1>2. EveryEntryAccounted
  <2> SUFFICES ASSUME Planned PROVE
        /\ plan.units \cap plan.excluded = {}
        /\ Len(database) = Cardinality(plan.units) + Cardinality(plan.excluded)
                             + Cardinality(outside) + Cardinality(discarded)
        /\ \A i \in DOMAIN database :
             \/ i \in outside /\ <<"outside">> \in plan.limitations
             \/ i \in discarded /\ <<"ambiguous", database[i]>> \in plan.limitations
             \/ database[i] \in plan.excluded /\ <<ReasonFor(database[i])>> \in plan.limitations
             \/ database[i] \in plan.units
    BY DEF EveryEntryAccounted
  <2>1. /\ unread = {} /\ plan.excluded \subseteq Described
        /\ plan.units = Described \ plan.excluded
        /\ plan.limitations = IntakeLimitations(plan.excluded)
    BY DEF IntakeInv, PlanOfEntries
  <2>2. Entries = 1..Len(database) /\ Len(database) \in Nat /\ DOMAIN database = Entries
    BY <2>1 DEF IntakeInv, ChosenLast, Entries
  <2>3. Cardinality(Entries) = Len(database) /\ IsFiniteSet(Entries)
    BY <2>2, CountUpTo
  <2>4. /\ outside \subseteq Entries /\ Kept \subseteq Entries /\ Kept \cap outside = {}
        /\ discarded = Entries \ (outside \cup Kept)
    BY DEF IntakeInv, EntriesSorted, Kept
  <2>5. /\ IsFiniteSet(Entries \ outside)
        /\ Cardinality(Entries) = Cardinality(outside) + Cardinality(Entries \ outside)
        /\ Cardinality(outside) \in Nat /\ Cardinality(Entries \ outside) \in Nat
    BY <2>3, <2>4, CountRest
  <2>6. Kept \subseteq Entries \ outside /\ discarded = (Entries \ outside) \ Kept
    BY <2>4
  <2>7. /\ Cardinality(Entries \ outside) = Cardinality(Kept) + Cardinality(discarded)
        /\ Cardinality(Kept) \in Nat /\ Cardinality(discarded) \in Nat
    BY <2>5, <2>6, CountRest
  <2>8. Cardinality(Described) = Cardinality(Kept) /\ IsFiniteSet(Described)
    BY AsManyKept
  <2>9. /\ Cardinality(Described) = Cardinality(plan.excluded) + Cardinality(plan.units)
        /\ Cardinality(plan.excluded) \in Nat /\ Cardinality(plan.units) \in Nat
    <3> DEFINE all == Described
               left == plan.excluded
    <3>1. IsFiniteSet(all) /\ left \subseteq all
      BY <2>1, <2>8
    <3> HIDE DEF all, left
    <3>2. /\ Cardinality(all) = Cardinality(left) + Cardinality(all \ left)
          /\ Cardinality(left) \in Nat /\ Cardinality(all \ left) \in Nat
      BY <3>1, CountRest
    <3>3. QED BY <2>1, <3>2 DEF all, left
  <2>10. Len(database) = Cardinality(plan.units) + Cardinality(plan.excluded)
                           + Cardinality(outside) + Cardinality(discarded)
    BY <2>2, <2>3, <2>5, <2>7, <2>8, <2>9
  <2>11. ASSUME NEW i \in DOMAIN database PROVE
             \/ i \in outside /\ <<"outside">> \in plan.limitations
             \/ i \in discarded /\ <<"ambiguous", database[i]>> \in plan.limitations
             \/ database[i] \in plan.excluded /\ <<ReasonFor(database[i])>> \in plan.limitations
             \/ database[i] \in plan.units
    <3>1. i \in outside \/ i \in discarded \/ i \in Kept
      BY <2>2, <2>4
    <3>2. CASE i \in outside
      BY <2>1, <3>2 DEF IntakeLimitations
    <3>3. CASE i \in discarded
      BY <2>1, <3>3 DEF IntakeLimitations
    <3>4. CASE i \in Kept
      <4>1. database[i] \in Described
        BY <2>2, <3>4 DEF IntakeInv, ChosenLast, Kept, Described
      <4>2. QED BY <2>1, <4>1 DEF IntakeLimitations, ExclusionLimitations
    <3>5. QED BY <3>1, <3>2, <3>3, <3>4
  <2>12. QED BY <2>1, <2>10, <2>11
<1>3. OldStandardsLeftOut
  <2> SUFFICES ASSUME Planned, NEW p \in plan.units, Flags[p].std # None
               PROVE  SinceInFull(Flags[p].std) >= (IF Flags[p].std.cxx THEN 2017 ELSE 2011)
    BY DEF OldStandardsLeftOut
  <2>1. p \in Paths /\ ReasonFor(p) = None
    BY DEF IntakeInv, PlanOfEntries, Described
  <2>2. Applying(p) = {}
    BY <2>1, ReasonIsOne
  <2>3. Supported(p)
    <3>1. 5 \in DOMAIN Rules(p) /\ Rules(p)[5][2] = ~Supported(p)
      BY DEF Rules
    <3>2. QED BY <2>2, <3>1 DEF Applying
  <2>4. StandardIsSupported(Flags[p].std) /\ StandardOK(Flags[p].std)
    BY <2>1, <2>3, FlagsOK DEF Supported
  <2>5. QED BY <2>4, YearInFull
<1>4. QED BY <1>1, <1>2, <1>3 DEF EntriesAccounted

(* Before the first scan no entry was read.                                 *)
LEMMA IntakeInit ==
  ASSUME Init
  PROVE  IntakeInv
<1>1. /\ database = <<>> /\ unread = {} /\ chosen = [p \in Paths |-> 0]
      /\ discarded = {} /\ outside = {} /\ plan = None
  BY DEF Init
<1>2. Entries = {} /\ database \in Seq(Paths) /\ Len(database) = 0
  BY <1>1 DEF Entries
<1>3. Kept = {} /\ ~Planned
  BY <1>1, <1>2 DEF Kept, Planned
<1>4. QED BY <1>1, <1>2, <1>3 DEF IntakeInv, ChosenLast, EntriesSorted, PlanOfEntries

(* Every entry of the database, every file present, is scanned or told of,  *)
(* for any tree and database (ScanRun, EntriesAccounted).                   *)
THEOREM EveryEntryIsAccounted == Spec => []EntriesAccounted
<1>1. Init => IntakeInv
  BY IntakeInit
<1>2. IntakeInv => EntriesAccounted
  BY EntriesAreAccounted
<1>3. QED BY <1>1, <1>2, IntakeNext, PTL DEF Spec

-----------------------------------------------------------------------------
(* A sequence after another holds what both hold.                           *)
LEMMA OneAfterAnother ==
  ASSUME NEW X, NEW s \in Seq(X), NEW t \in Seq(X)
  PROVE  s \o t \in Seq(X) /\ Elements(s \o t) = Elements(s) \cup Elements(t)
<1> DEFINE u == s \o t
<1>1. /\ u \in Seq(X) /\ Len(u) = Len(s) + Len(t) /\ Len(s) \in Nat /\ Len(t) \in Nat
      /\ DOMAIN u = 1..(Len(s) + Len(t)) /\ DOMAIN s = 1..Len(s) /\ DOMAIN t = 1..Len(t)
  OBVIOUS
<1>2. /\ \A i \in 1..Len(s) : u[i] = s[i]
      /\ \A i \in (Len(s) + 1)..(Len(s) + Len(t)) : u[i] = t[i - Len(s)]
  BY <1>1
<1> HIDE DEF u
<1>3. \A i \in 1..Len(t) : u[Len(s) + i] = t[i] /\ Len(s) + i \in DOMAIN u
  BY <1>1, <1>2
<1>4. \A i \in 1..Len(s) : i \in DOMAIN u
  BY <1>1
<1>5. \A i \in DOMAIN u : i \in 1..Len(s) \/ i - Len(s) \in 1..Len(t)
  BY <1>1
<1>6. \A i \in DOMAIN u : i - Len(s) \in 1..Len(t) => u[i] = t[i - Len(s)]
  BY <1>1, <1>2
<1>7. Elements(u) = Elements(s) \cup Elements(t)
  <2>1. Elements(u) \subseteq Elements(s) \cup Elements(t)
    BY <1>1, <1>2, <1>5, <1>6 DEF Elements
  <2>2. Elements(s) \subseteq Elements(u)
    BY <1>1, <1>2, <1>4 DEF Elements
  <2>3. Elements(t) \subseteq Elements(u)
    BY <1>1, <1>3 DEF Elements
  <2>4. QED BY <2>1, <2>2, <2>3
<1>8. QED BY <1>1, <1>7 DEF u

(* What is kept of a sequence is what it has of the set.                    *)
LEMMA InOrderIs ==
  ASSUME NEW X, NEW s \in Seq(X), NEW S
  PROVE  InOrder(s, S) \in Seq(X) /\ Elements(InOrder(s, S)) = Elements(s) \cap S
<1> DEFINE n == Len(s)
           V == Seq(X)
           Next1(k, i) == IF s[i] \in S THEN Append(k, s[i]) ELSE k
           step == [ik \in (1..n) \X V |-> Next1(ik[2], ik[1])]
           Is(f) == f = [i \in 0..n |-> IF i = 0 THEN <<>> ELSE Next1(f[i - 1], i)]
           kept == CHOOSE f : Is(f)
<1>1. n \in Nat /\ <<>> \in V /\ DOMAIN s = 1..n
  OBVIOUS
<1>2. InOrder(s, S) = kept[n]
  BY DEF InOrder
<1>3. ASSUME NEW k \in V, NEW i \in 1..n PROVE Next1(k, i) \in V
  OBVIOUS
<1>4. step \in Steps(n, V) /\ \A i \in 1..n, k \in V : step[<<i, k>>] = Next1(k, i)
  BY <1>3 DEF Steps
<1>5. ASSUME NEW k \in V, NEW i \in 1..n
      PROVE  Elements(Next1(k, i)) = Elements(k) \cup ({s[i]} \cap S)
  <2>1. s[i] \in X
    OBVIOUS
  <2>2. CASE s[i] \in S
    BY <2>1, <2>2, OneMore
  <2>3. CASE s[i] \notin S
    BY <2>3
  <2>4. QED BY <2>2, <2>3
<1>6. /\ n \in 0..n /\ 0 \in 0..n
      /\ \A i \in 1..n : i \in 0..n /\ i - 1 \in 0..n /\ i # 0
  BY <1>1
<1> HIDE DEF n, V, step, Next1
<1>7. PICK g : IsRecursive(g, n, V, <<>>, step)
  BY <1>1, <1>4, ByRecursion
<1>8. Is(g)
  <2>1. ASSUME NEW i \in 1..n PROVE g[i] = Next1(g[i - 1], i)
    BY <1>4, <1>6, <1>7 DEF IsRecursive
  <2>2. QED BY <1>1, <1>7, <2>1 DEF IsRecursive
<1>9. Is(kept)
  BY <1>8
<1> HIDE DEF kept
<1> DEFINE right == {i \in 0..n : kept[i] \in V /\ Elements(kept[i]) = {s[j] : j \in 1..i} \cap S}
<1>10. 0 \in right
  <2>1. kept[0] = <<>>
    BY <1>6, <1>9
  <2>2. Elements(<<>>) = {} /\ 1..0 = {}
    BY DEF Elements
  <2>3. QED BY <1>1, <1>6, <2>1, <2>2
<1>11. ASSUME NEW i \in 1..n, i - 1 \in right PROVE i \in right
  <2>1. kept[i] = Next1(kept[i - 1], i) /\ kept[i - 1] \in V
    BY <1>6, <1>9, <1>11
  <2>2. Elements(kept[i]) = ({s[j] : j \in 1..(i - 1)} \cap S) \cup ({s[i]} \cap S)
    BY <1>5, <1>11, <2>1
  <2>3. {s[j] : j \in 1..i} = {s[j] : j \in 1..(i - 1)} \cup {s[i]}
    <3>1. \A j : j \in 1..i <=> j \in 1..(i - 1) \/ j = i
      BY <1>1, <1>6
    <3>2. QED BY <3>1
  <2>4. QED BY <1>3, <1>6, <2>1, <2>2, <2>3
<1> HIDE DEF right
<1>12. \A i \in 0..n : i \in right
  BY <1>1, <1>10, <1>11, UpTo, Zenon
<1>13. kept[n] \in V /\ Elements(kept[n]) = {s[j] : j \in 1..n} \cap S
  BY <1>6, <1>12 DEF right
<1>14. QED BY <1>1, <1>2, <1>13 DEF V, Elements

(* Every analyzer over every unit.                                          *)
Pairs(X, Y) == X \X Y

(* The queue holds every unit with every analyzer, and nothing else.        *)
LEMMA WorkIs ==
  ASSUME NEW X, NEW Y, NEW s \in Seq(X), NEW t \in Seq(Y)
  PROVE  /\ Work(s, t) \in Seq(Pairs(X, Y))
         /\ Elements(Work(s, t)) = Pairs(Elements(s), Elements(t))
<1> DEFINE n == Len(s)
           V == Seq(X \X Y)
           row(i) == [j \in DOMAIN t |-> <<s[i], t[j]>>]
           Next1(k, i) == k \o row(i)
           step == [ik \in (1..n) \X V |-> Next1(ik[2], ik[1])]
           Is(f) == f = [i \in 0..n |-> IF i = 0 THEN <<>> ELSE Next1(f[i - 1], i)]
           work == CHOOSE f : Is(f)
<1>1. n \in Nat /\ <<>> \in V /\ DOMAIN s = 1..n
  OBVIOUS
<1>2. Work(s, t) = work[n]
  BY DEF Work
<1>3. ASSUME NEW i \in 1..n PROVE row(i) \in V /\ Elements(row(i)) = {s[i]} \X Elements(t)
  <2>1. s[i] \in X /\ \A j \in DOMAIN t : t[j] \in Y
    OBVIOUS
  <2>2. DOMAIN t = 1..Len(t) /\ Len(t) \in Nat
    OBVIOUS
  <2>3. row(i) \in Seq(X \X Y)
    BY <2>1, <2>2
  <2>4. Elements(row(i)) = {s[i]} \X Elements(t)
    BY DEF Elements
  <2>5. QED BY <2>3, <2>4
<1>4. ASSUME NEW k \in V, NEW i \in 1..n
      PROVE  Next1(k, i) \in V /\ Elements(Next1(k, i)) = Elements(k) \cup ({s[i]} \X Elements(t))
  <2> HIDE DEF row
  <2>1. row(i) \in Seq(X \X Y) /\ k \in Seq(X \X Y)
    BY <1>3
  <2>2. QED BY <1>3, <2>1, OneAfterAnother
<1>5. step \in Steps(n, V) /\ \A i \in 1..n, k \in V : step[<<i, k>>] = Next1(k, i)
  <2> HIDE DEF V, n, Next1
  <2>1. QED BY <1>4 DEF Steps
<1>6. /\ n \in 0..n /\ 0 \in 0..n
      /\ \A i \in 1..n : i \in 0..n /\ i - 1 \in 0..n /\ i # 0
  BY <1>1
<1> HIDE DEF n, V, step, Next1
<1>7. PICK g : IsRecursive(g, n, V, <<>>, step)
  BY <1>1, <1>5, ByRecursion
<1>8. Is(g)
  <2>1. ASSUME NEW i \in 1..n PROVE g[i] = Next1(g[i - 1], i)
    BY <1>5, <1>6, <1>7 DEF IsRecursive
  <2>2. QED BY <1>1, <1>7, <2>1 DEF IsRecursive
<1>9. Is(work)
  BY <1>8
<1> HIDE DEF work
<1> DEFINE right == {i \in 0..n : /\ work[i] \in V
                                  /\ Elements(work[i]) = {s[j] : j \in 1..i} \X Elements(t)}
<1>10. 0 \in right
  <2>1. work[0] = <<>>
    BY <1>6, <1>9
  <2>2. Elements(<<>>) = {} /\ 1..0 = {}
    BY DEF Elements
  <2>3. QED BY <1>1, <1>6, <2>1, <2>2
<1>11. ASSUME NEW i \in 1..n, i - 1 \in right PROVE i \in right
  <2>1. work[i] = Next1(work[i - 1], i) /\ work[i - 1] \in V
    BY <1>6, <1>9, <1>11
  <2>2. Elements(work[i]) = ({s[j] : j \in 1..(i - 1)} \X Elements(t))
                              \cup ({s[i]} \X Elements(t))
    BY <1>4, <1>11, <2>1
  <2>3. {s[j] : j \in 1..i} = {s[j] : j \in 1..(i - 1)} \cup {s[i]}
    <3>1. \A j : j \in 1..i <=> j \in 1..(i - 1) \/ j = i
      BY <1>1, <1>6
    <3>2. QED BY <3>1
  <2>4. QED BY <1>4, <1>6, <2>1, <2>2, <2>3
<1> HIDE DEF right
<1>12. \A i \in 0..n : i \in right
  BY <1>1, <1>10, <1>11, UpTo, Zenon
<1>13. work[n] \in V /\ Elements(work[n]) = {s[j] : j \in 1..n} \X Elements(t)
  BY <1>6, <1>12 DEF right
<1>14. {s[j] : j \in 1..n} = Elements(s)
  BY <1>1 DEF Elements
<1>15. QED BY <1>2, <1>13, <1>14 DEF V, Pairs

-----------------------------------------------------------------------------
(* A position leads unless one that leads agrees with it earlier on.        *)
LEMMA LeadsAre ==
  ASSUME NEW X, NEW s \in Seq(X), NEW indexed
  PROVE  /\ Leads(s, indexed) \subseteq 1..Len(s)
         /\ \A i \in 1..Len(s) :
              i \in Leads(s, indexed) <=>
                \A j \in Leads(s, indexed) : j < i => ~SameDefect(s[j], s[i], indexed)
<1> DEFINE n == Len(s)
           V == SUBSET (1..n)
           Agrees(k, i) == \E j \in k : SameDefect(s[j], s[i], indexed)
           Next1(k, i) == IF Agrees(k, i) THEN k ELSE k \cup {i}
           step == [ik \in (1..n) \X V |-> Next1(ik[2], ik[1])]
           Is(f) == f = [i \in 0..n |-> IF i = 0 THEN {} ELSE Next1(f[i - 1], i)]
           leads == CHOOSE f : Is(f)
<1>1. n \in Nat /\ {} \in V
  OBVIOUS
<1>2. Leads(s, indexed) = leads[n]
  BY DEF Leads
<1> HIDE DEF Agrees
<1>3. ASSUME NEW k \in V, NEW i \in 1..n PROVE Next1(k, i) \in V
  OBVIOUS
<1>4. step \in Steps(n, V) /\ \A i \in 1..n, k \in V : step[<<i, k>>] = Next1(k, i)
  <2> HIDE DEF V, n, Next1
  <2>1. QED BY <1>3 DEF Steps
<1>5. /\ n \in 0..n /\ 0 \in 0..n
      /\ \A i \in 1..n : i \in 0..n /\ i - 1 \in 0..n /\ i # 0 /\ i \in Nat
  BY <1>1
<1> HIDE DEF n, V, step, Next1
<1>6. PICK g : IsRecursive(g, n, V, {}, step)
  BY <1>1, <1>4, ByRecursion
<1>7. Is(g)
  <2>1. ASSUME NEW i \in 1..n PROVE g[i] = Next1(g[i - 1], i)
    BY <1>4, <1>5, <1>6 DEF IsRecursive
  <2>2. QED BY <1>1, <1>6, <2>1 DEF IsRecursive
<1>8. Is(leads)
  BY <1>7
<1> HIDE DEF leads
<1> DEFINE Right(k, i) ==
             /\ k \subseteq 1..i
             /\ \A m \in 1..i : m \in k <=> \A j \in k : j < m => ~SameDefect(s[j], s[m], indexed)
           right == {i \in 0..n : Right(leads[i], i)}
<1>9. 0 \in right
  <2>1. leads[0] = {}
    BY <1>5, <1>8
  <2>2. 1..0 = {}
    OBVIOUS
  <2>3. QED BY <1>5, <2>1, <2>2
<1>10. ASSUME NEW i \in 1..n, i - 1 \in right PROVE i \in right
  <2> DEFINE k == leads[i - 1]
  <2>1. leads[i] = Next1(k, i)
    BY <1>5, <1>8
  <2>2. Right(k, i - 1)
    BY <1>10
  <2>3. \A m \in 1..i : m \in 1..(i - 1) \/ m = i
    BY <1>5
  <2>4. i \notin k /\ \A j \in k : j \in 1..i /\ j < i
    BY <1>5, <2>2
  <2>5. CASE Agrees(k, i)
    <3>1. leads[i] = k
      BY <2>1, <2>5 DEF Next1
    <3>2. Right(k, i)
      BY <2>2, <2>3, <2>4, <2>5 DEF Agrees
    <3>3. QED BY <1>5, <3>1, <3>2
  <2>6. CASE ~Agrees(k, i)
    <3>1. leads[i] = k \cup {i}
      BY <2>1, <2>6 DEF Next1
    <3>2. k \cup {i} \subseteq 1..i
      BY <1>5, <2>4
    <3>3. ASSUME NEW m \in 1..(i - 1)
          PROVE  m \in k \cup {i} <=>
                   \A j \in k \cup {i} : j < m => ~SameDefect(s[j], s[m], indexed)
      <4>1. ~(i < m) /\ m # i
        BY <1>5
      <4>2. QED BY <2>2, <4>1
    <3>4. i \in k \cup {i} /\ \A j \in k \cup {i} : j < i => ~SameDefect(s[j], s[i], indexed)
      BY <1>5, <2>6 DEF Agrees
    <3>5. Right(k \cup {i}, i)
      BY <2>3, <3>2, <3>3, <3>4
    <3>6. QED BY <1>5, <3>1, <3>5
  <2>7. QED BY <2>5, <2>6
<1> HIDE DEF right
<1>11. \A i \in 0..n : i \in right
  BY <1>1, <1>9, <1>10, UpTo, Zenon
<1>12. Right(leads[n], n)
  BY <1>5, <1>11 DEF right
<1>13. QED BY <1>2, <1>12 DEF n

-----------------------------------------------------------------------------
Citations == Diagnostics \X AnalyzerNames

(* A diagnostic is cited at most once by each analyzer.                     *)
LEMMA CitationsAreFinite ==
  IsFiniteSet(Citations) /\ Cardinality(Citations) <= Cardinality(Diagnostics) * Len(Analyzers)
<1>1. Len(Analyzers) \in Nat /\ DOMAIN Analyzers = 1..Len(Analyzers)
  BY TablesOK
<1>2. IsFiniteSet(DOMAIN Analyzers) /\ Cardinality(DOMAIN Analyzers) = Len(Analyzers)
  BY <1>1, CountUpTo
<1> DEFINE f == [i \in DOMAIN Analyzers |-> Analyzers[i]]
<1>3. f \in [DOMAIN Analyzers -> AnalyzerNames] /\ \A z \in AnalyzerNames : \E x \in DOMAIN Analyzers : f[x] = z
  BY DEF AnalyzerNames
<1> HIDE DEF f
<1>4. IsFiniteSet(AnalyzerNames) /\ Cardinality(AnalyzerNames) <= Len(Analyzers)
  BY <1>2, <1>3, CountImage
<1>5. /\ IsFiniteSet(Citations)
      /\ Cardinality(Citations) = Cardinality(Diagnostics) * Cardinality(AnalyzerNames)
  BY <1>4, TablesOK, FS_Product DEF Citations
<1>6. Cardinality(Diagnostics) \in Nat /\ Cardinality(AnalyzerNames) \in Nat
  BY <1>4, TablesOK, FS_CardinalityType
<1>7. ASSUME NEW a \in Nat, NEW b \in Nat, NEW c \in Nat, b <= c PROVE a * b <= a * c
  BY <1>7
<1>8. QED BY <1>1, <1>4, <1>5, <1>6, <1>7

(* The order of the candidates is strict and total.                         *)
LEMMA EarlierIsStrict ==
  /\ \A c \in Citations : ~Earlier(c, c)
  /\ \A c, e \in Citations : c # e => Earlier(c, e) \/ Earlier(e, c)
  /\ \A c, e, f \in Citations : Earlier(c, e) /\ Earlier(e, f) => Earlier(c, f)
<1>1. \A c \in Citations : Line(c[1]) \in Nat /\ About[c[1]].rank \in Nat /\ c = <<c[1], c[2]>>
                           /\ c[1] \in Diagnostics /\ c[2] \in AnalyzerNames
  BY TablesOK DEF Citations, DiagnosticOK
<1>2. \A d, e \in Diagnostics : About[d].rank = About[e].rank => d = e
  BY TablesOK
<1>3. DOMAIN Analyzers \subseteq Nat /\ \A i, j \in DOMAIN Analyzers : Analyzers[i] = Analyzers[j] => i = j
  BY TablesOK
<1>4. \A a \in AnalyzerNames : \E i \in DOMAIN Analyzers : Analyzers[i] = a
  BY DEF AnalyzerNames
<1>5. \A c \in Citations : ~Earlier(c, c)
  BY <1>1 DEF Earlier
<1>6. ASSUME NEW c \in Citations, NEW e \in Citations, c # e PROVE Earlier(c, e) \/ Earlier(e, c)
  <2>1. CASE c[1] # e[1]
    <3>1. About[c[1]].rank # About[e[1]].rank
      BY <1>1, <1>2, <2>1
    <3>2. QED BY <1>1, <3>1 DEF Earlier
  <2>2. CASE c[1] = e[1]
    <3>1. c[2] # e[2]
      BY <1>1, <1>6, <2>2
    <3>2. PICK i, j \in DOMAIN Analyzers : Analyzers[i] = c[2] /\ Analyzers[j] = e[2]
      BY <1>1, <1>4
    <3>3. i < j \/ j < i
      BY <1>3, <3>1, <3>2
    <3>4. QED BY <2>2, <3>1, <3>2, <3>3 DEF Earlier
  <2>3. QED BY <2>1, <2>2
<1>7. ASSUME NEW c \in Citations, NEW e \in Citations, NEW f \in Citations,
             Earlier(c, e), Earlier(e, f)
      PROVE  Earlier(c, f)
  <2> DEFINE By2(x, y) == \E i, j \in DOMAIN Analyzers :
                            i < j /\ Analyzers[i] = x[2] /\ Analyzers[j] = y[2]
             Before(x, y) == \/ Line(x[1]) < Line(y[1])
                             \/ Line(x[1]) = Line(y[1]) /\ About[x[1]].rank < About[y[1]].rank
  <2>1. \A x, y : Earlier(x, y) <=> Before(x, y) \/ (x[1] = y[1] /\ x[2] # y[2] /\ By2(x, y))
    BY DEF Earlier
  <2>2. By2(c, e) /\ By2(e, f) => By2(c, f) /\ c[2] # f[2]
    <3> SUFFICES ASSUME By2(c, e), By2(e, f) PROVE By2(c, f) /\ c[2] # f[2]
      OBVIOUS
    <3>1. PICK i, j \in DOMAIN Analyzers : i < j /\ Analyzers[i] = c[2] /\ Analyzers[j] = e[2]
      OBVIOUS
    <3>2. PICK k, m \in DOMAIN Analyzers : k < m /\ Analyzers[k] = e[2] /\ Analyzers[m] = f[2]
      OBVIOUS
    <3>3. j = k /\ i < m
      BY <1>3, <3>1, <3>2
    <3>4. QED BY <1>3, <3>1, <3>2, <3>3
  <2> HIDE DEF By2
  <2>3. CASE Before(c, e) /\ Before(e, f)
    <3>1. Before(c, f)
      BY <1>1, <2>3
    <3>2. QED BY <2>1, <3>1
  <2>4. CASE Before(c, e) /\ e[1] = f[1]
    <3>1. Before(c, f)
      BY <2>4
    <3>2. QED BY <2>1, <3>1
  <2>5. CASE c[1] = e[1] /\ Before(e, f)
    <3>1. Before(c, f)
      BY <2>5
    <3>2. QED BY <2>1, <3>1
  <2>6. CASE c[1] = e[1] /\ e[1] = f[1] /\ By2(c, e) /\ By2(e, f)
    BY <2>1, <2>2, <2>6
  <2>7. QED BY <1>7, <2>1, <2>3, <2>4, <2>5, <2>6
<1>8. QED BY <1>5, <1>6, <1>7

(* Sorting puts every candidate in one place.                               *)
LEMMA SortedOnce ==
  ASSUME NEW all \in SUBSET Citations
  PROVE  LET s == SortCandidates(all) IN
         /\ s \in Seq(all) /\ Len(s) = Cardinality(all)
         /\ \A i, j \in DOMAIN s : s[i] = s[j] => i = j
         /\ \A c \in all : \E i \in DOMAIN s : s[i] = c
<1> DEFINE n == Cardinality(all)
           before(c) == {e \in all : Earlier(e, c)}
           position == [c \in all |-> Position(c, all)]
           s == SortCandidates(all)
<1>1. IsFiniteSet(all) /\ n \in Nat
  BY CitationsAreFinite, CountRest
<1>2. ASSUME NEW c \in all
      PROVE  /\ IsFiniteSet(before(c)) /\ Cardinality(before(c)) \in Nat
             /\ Cardinality(before(c)) < n /\ c \notin before(c)
  <2>1. before(c) \subseteq all /\ c \notin before(c)
    BY EarlierIsStrict
  <2>2. before(c) \in SUBSET all /\ before(c) # all
    BY <2>1
  <2> HIDE DEF before
  <2>3. IsFiniteSet(before(c)) /\ Cardinality(before(c)) <= n /\ Cardinality(before(c)) # n
    BY <1>1, <2>2, FS_Subset
  <2>4. Cardinality(before(c)) \in Nat
    BY <2>3, FS_CardinalityType
  <2>5. QED BY <1>1, <2>1, <2>3, <2>4
<1>3. ASSUME NEW c \in all PROVE Position(c, all) = 1 + Cardinality(before(c)) /\ Position(c, all) \in 1..n
  <2>1. Position(c, all) = 1 + Cardinality(before(c))
    BY DEF Position
  <2> HIDE DEF before, n
  <2>2. QED BY <1>1, <1>2, <2>1
<1>4. ASSUME NEW c \in all, NEW e \in all, Earlier(c, e)
      PROVE  Cardinality(before(c)) < Cardinality(before(e))
  <2>1. before(c) \in SUBSET before(e) /\ c \in before(e) /\ c \notin before(c)
    <3>1. before(c) \subseteq before(e)
      BY <1>4, EarlierIsStrict
    <3>2. QED BY <1>2, <1>4, <3>1
  <2>2. before(c) # before(e)
    BY <2>1
  <2> HIDE DEF before
  <2>3. Cardinality(before(c)) <= Cardinality(before(e)) /\ Cardinality(before(c)) # Cardinality(before(e))
    BY <1>2, <2>1, <2>2, FS_Subset
  <2>4. Cardinality(before(c)) \in Nat /\ Cardinality(before(e)) \in Nat
    BY <1>2
  <2>5. QED BY <2>3, <2>4
<1>5. ASSUME NEW c \in all, NEW e \in all, Position(c, all) = Position(e, all) PROVE c = e
  <2> HIDE DEF before, n
  <2>1. Cardinality(before(c)) = Cardinality(before(e))
    BY <1>2, <1>3, <1>5
  <2>2. ~Earlier(c, e) /\ ~Earlier(e, c)
    BY <1>2, <1>4, <2>1
  <2>3. QED BY <2>2, EarlierIsStrict
<1>6. \A i \in 1..n : \E c \in all : Position(c, all) = i
  <2>1. position \in [all -> 1..n] /\ \A x, y \in all : position[x] = position[y] => x = y
    BY <1>3, <1>5
  <2>2. IsFiniteSet(1..n) /\ Cardinality(1..n) = n
    BY <1>1, CountUpTo
  <2>3. \A i \in 1..n : \E c \in all : position[c] = i
    <3> DEFINE T == 1..n
    <3>1. /\ IsFiniteSet(T) /\ Cardinality(T) = Cardinality(all)
          /\ position \in [all -> T]
      BY <2>1, <2>2
    <3> HIDE DEF position, n, T
    <3>2. \A i \in T : \E c \in all : position[c] = i
      BY <1>1, <2>1, <3>1, CountInto
    <3>3. QED BY <3>2 DEF T
  <2>4. QED BY <2>3
<1> HIDE DEF before
<1>7. s = [i \in 1..n |-> CHOOSE c \in all : Position(c, all) = i]
  BY DEF SortCandidates
<1>8. \A i \in 1..n : s[i] \in all /\ Position(s[i], all) = i
  <2> HIDE DEF n
  <2>1. QED BY <1>6, <1>7
<1>9. DOMAIN s = 1..n /\ s \in Seq(all) /\ Len(s) = n
  <2>1. DOMAIN s = 1..n /\ s \in [1..n -> all]
    BY <1>7, <1>8
  <2> HIDE DEF n, s
  <2>2. QED BY <1>1, <2>1
<1>10. \A i, j \in DOMAIN s : s[i] = s[j] => i = j
  BY <1>8, <1>9
<1>11. \A c \in all : \E i \in DOMAIN s : s[i] = c
  <2> SUFFICES ASSUME NEW c \in all PROVE \E i \in DOMAIN s : s[i] = c
    OBVIOUS
  <2>1. Position(c, all) \in DOMAIN s /\ Position(s[Position(c, all)], all) = Position(c, all)
    BY <1>3, <1>8, <1>9
  <2>2. s[Position(c, all)] = c
    BY <1>3, <1>5, <1>8, <2>1
  <2>3. QED BY <2>1, <2>2
<1>12. QED BY <1>9, <1>10, <1>11

-----------------------------------------------------------------------------
(* The least number of a set, when there is one.                            *)
LEMMA MinIs ==
  ASSUME NEW S \in SUBSET Nat, S # {}
  PROVE  Min(S) \in S /\ \A i \in S : Min(S) <= i
<1>1. PICK k \in S : \A i \in S : k <= i
  BY LeastNumber
<1>2. QED BY <1>1 DEF Min

(* Merging loses no candidate and puts none in two places.                  *)
LEMMA MergedIs ==
  ASSUME NEW all \in SUBSET Citations, NEW indexed
  PROVE  LET M == MergeCandidates(all, indexed) IN
         /\ \A m \in M : m.first \in all /\ m.provenance \subseteq all
         /\ \A c \in all : \E m \in M : c \in m.provenance /\ SameDefect(m.first, c, indexed)
         /\ \A m, k \in M : m # k => m.provenance \cap k.provenance = {}
<1> DEFINE s == SortCandidates(all)
           leads == Leads(s, indexed)
           agree(i) == {i} \cup {j \in leads : j <= i /\ SameDefect(s[j], s[i], indexed)}
           First(i) == Min(agree(i))
           part(j) == {s[i] : i \in {k \in DOMAIN s : First(k) = j}}
           M == MergeCandidates(all, indexed)
<1>1. M = {[first |-> s[j], provenance |-> part(j)] : j \in leads}
  BY DEF MergeCandidates
<1>2. /\ s \in Seq(all) /\ DOMAIN s = 1..Len(s) /\ Len(s) \in Nat
      /\ \A i, j \in DOMAIN s : s[i] = s[j] => i = j
      /\ \A c \in all : \E i \in DOMAIN s : s[i] = c
      /\ \A i \in DOMAIN s : s[i] \in all
  BY SortedOnce
<1> HIDE DEF s
<1>3. /\ leads \subseteq DOMAIN s
      /\ \A i \in DOMAIN s :
           i \in leads <=> \A j \in leads : j < i => ~SameDefect(s[j], s[i], indexed)
  BY <1>2, LeadsAre
<1> HIDE DEF leads
<1>4. ASSUME NEW c \in Citations PROVE SameDefect(c, c, indexed)
  <2>1. Line(c[1]) \in Nat /\ Tolerance \in Nat
    BY TablesOK DEF Citations, DiagnosticOK
  <2>2. Abs(Line(c[1]) - Line(c[1])) <= Tolerance
    BY <2>1 DEF Abs
  <2>3. QED BY <2>2 DEF SameDefect
<1>5. ASSUME NEW i \in DOMAIN s
      PROVE  First(i) \in leads /\ SameDefect(s[First(i)], s[i], indexed)
  <2>1. agree(i) \in SUBSET Nat /\ i \in agree(i)
    BY <1>2, <1>3
  <2>2. First(i) \in agree(i) /\ \A j \in agree(i) : First(i) <= j
    <3> HIDE DEF agree
    <3>1. QED BY <2>1, MinIs
  <2>3. CASE i \in leads
    <3>1. First(i) = i
      <4>1. First(i) <= i /\ First(i) \in Nat /\ i \in Nat
        BY <2>1, <2>2
      <4>2. ~(First(i) < i)
        BY <1>3, <2>2, <2>3, <4>1
      <4> HIDE DEF First
      <4>3. QED BY <4>1, <4>2
    <3>2. SameDefect(s[i], s[i], indexed)
      BY <1>2, <1>4
    <3>3. QED BY <2>3, <3>1, <3>2
  <2>4. CASE i \notin leads
    <3>1. PICK j \in leads : j < i /\ SameDefect(s[j], s[i], indexed)
      BY <1>3, <2>4
    <3>2. j \in agree(i) /\ j \in Nat /\ i \in Nat /\ First(i) \in Nat
      BY <1>2, <1>3, <2>1, <2>2, <3>1
    <3>3. First(i) <= j
      BY <2>2, <3>2
    <3>4. First(i) # i
      <4> HIDE DEF First
      <4>1. QED BY <3>1, <3>2, <3>3
    <3>5. QED BY <2>2, <3>4
  <2>5. QED BY <2>3, <2>4
<1> HIDE DEF First
<1>6. \A m \in M : m.first \in all /\ m.provenance \subseteq all
  <2> SUFFICES ASSUME NEW j \in leads PROVE s[j] \in all /\ part(j) \subseteq all
    BY <1>1
  <2>1. QED BY <1>2, <1>3
<1>7. ASSUME NEW c \in all
      PROVE  \E m \in M : c \in m.provenance /\ SameDefect(m.first, c, indexed)
  <2>1. PICK i \in DOMAIN s : s[i] = c
    BY <1>2
  <2> DEFINE m == [first |-> s[First(i)], provenance |-> part(First(i))]
  <2>2. m \in M
    BY <1>1, <1>5
  <2>3. c \in m.provenance
    BY <2>1
  <2>4. SameDefect(m.first, c, indexed)
    BY <1>5, <2>1
  <2> HIDE DEF m
  <2>5. QED BY <2>2, <2>3, <2>4
<1>8. ASSUME NEW m \in M, NEW k \in M, m # k, NEW c \in m.provenance, c \in k.provenance
      PROVE  FALSE
  <2>1. PICK i \in leads : m = [first |-> s[i], provenance |-> part(i)]
    BY <1>1
  <2>2. PICK j \in leads : k = [first |-> s[j], provenance |-> part(j)]
    BY <1>1
  <2>3. PICK x \in DOMAIN s : s[x] = c /\ First(x) = i
    BY <2>1
  <2>4. PICK y \in DOMAIN s : s[y] = c /\ First(y) = j
    BY <1>8, <2>2
  <2>5. x = y
    BY <1>2, <2>3, <2>4
  <2>6. QED BY <1>8, <2>1, <2>2, <2>3, <2>4, <2>5
<1>9. QED BY <1>6, <1>7, <1>8

-----------------------------------------------------------------------------
Unprobed == {"intake", "index", "probe"}
Collected == {"consent", "dry_run", "model", "report", "exit"} \cup FileNames
Indexed == {"probe", "candidates"} \cup Collected
RunStatuses == {"ok", "nonzero_exit", "timed_out", "crashed", "tool_missing"}

(* The runs: those not started, under way and ended are the planned ones,   *)
(* and a run that ended well left all that it found.                        *)
WorkTyped ==
  /\ selected \in Seq(AnalyzerNames) /\ waiting \in Seq(Paths \X AnalyzerNames)
  /\ running \subseteq Paths \X AnalyzerNames /\ DOMAIN ended \subseteq Paths \X AnalyzerNames
  /\ version \in 1..2
  /\ \A w \in DOMAIN artifacts : artifacts[w] \subseteq Diagnostics
  /\ DOMAIN ended \subseteq DOMAIN artifacts

WorkKnown ==
  /\ WorkTyped /\ DOMAIN files = FileNames
  /\ stage \in Stages
  /\ stage # "idle" => \A w \in DOMAIN ended : ended[w] = "ok" => Full(w) \subseteq artifacts[w]
  /\ stage \in Unprobed =>
       /\ selected = <<>> /\ waiting = <<>> /\ running = {} /\ ended = <<>>
       /\ merged = {} /\ told = {}
  /\ stage = "candidates" =>
       merged = {} /\ PlannedRuns = Elements(waiting) \cup running \cup DOMAIN ended
  /\ stage \in Indexed \cup {"index"} => Planned

(* What is known of the runs stays while the stage moves on around them.    *)
LEMMA WorkStays ==
  ASSUME WorkKnown, UNCHANGED <<analyzerVars, plan>>, stage' \in Stages,
         DOMAIN files' = DOMAIN files,
         stage' # "idle" => stage # "idle",
         stage' \in Unprobed => stage \in Unprobed,
         stage' = "candidates" => stage = "candidates",
         stage' \in Indexed \cup {"index"} => Planned
  PROVE  WorkKnown'
<1>1. UNCHANGED <<version, selected, waiting, running, ended, artifacts, merged, told, plan>>
  BY DEF analyzerVars
<1>2. WorkTyped'
  BY <1>1 DEF WorkKnown, WorkTyped
<1>3. \A w : Full(w)' = Full(w)
  BY <1>1 DEF Full
<1>4. PlannedRuns' = PlannedRuns /\ Planned' = Planned /\ Elements(waiting)' = Elements(waiting)
  BY <1>1 DEF PlannedRuns, Planned, Elements
<1>5. Stages' = Stages
  BY DEF Stages
<1>6. QED BY <1>1, <1>2, <1>3, <1>4, <1>5 DEF WorkKnown

(* The stages in the order a scan goes through them.                        *)
LEMMA StagesAre ==
  ASSUME DOMAIN files = FileNames
  PROVE  Stages = {"idle"} \cup Unprobed \cup {"candidates"} \cup Collected
BY DEF Stages, Unprobed, Collected, FileNames

(* A scan starts with no work done.                                         *)
LEMMA WorkBegins ==
  ASSUME WorkKnown, StartScan
  PROVE  WorkKnown'
<1>1. /\ stage' = "intake" /\ selected' = <<>> /\ waiting' = <<>> /\ running' = {}
      /\ ended' = <<>> /\ merged' = {} /\ told' = {} /\ UNCHANGED <<version, artifacts, files>>
  BY DEF StartScan
<1>2. DOMAIN ended' = {}
  BY <1>1
<1>3. WorkTyped'
  BY <1>1, <1>2 DEF WorkKnown, WorkTyped
<1>4. stage' \in Stages' /\ stage' \notin Indexed \cup {"index", "candidates"}
  BY <1>1 DEF Stages, Indexed, Collected, FileNames
<1>5. QED BY <1>1, <1>2, <1>3, <1>4 DEF WorkKnown

(* Every selected unit is queued for every analyzer that was found.         *)
LEMMA WorkQueued ==
  ASSUME IntakeInv, WorkKnown, ProbeTools
  PROVE  WorkKnown'
<1> DEFINE units == InOrder(PathOrder, plan.units)
<1>1. /\ stage = "probe" /\ stage' = (IF selected' = <<>> THEN "consent" ELSE "candidates")
      /\ UNCHANGED <<version, running, ended, artifacts, merged, plan, files>>
      /\ waiting' = Work(units, selected')
      /\ \E present \in SUBSET AnalyzerNames : selected' = InOrder(Analyzers, present)
  BY DEF ProbeTools, Probe, intakeVars, endVars
<1>2. Planned /\ running = {} /\ ended = <<>> /\ merged = {}
  BY <1>1 DEF WorkKnown, Unprobed, Indexed
<1>3. plan.units \subseteq Paths
  BY <1>2 DEF IntakeInv, PlanOfEntries, Described
<1>4. Elements(PathOrder) = Paths /\ PathOrder \in Seq(Paths)
  <2>1. PathOrder \in Seq(Paths) /\ \A p \in Paths : \E i \in DOMAIN PathOrder : PathOrder[i] = p
    BY InputsOK
  <2>2. \A i \in DOMAIN PathOrder : PathOrder[i] \in Paths
    BY <2>1
  <2>3. QED BY <2>1, <2>2 DEF Elements
<1>5. units \in Seq(Paths) /\ Elements(units) = plan.units
  <2>1. units \in Seq(Paths) /\ Elements(units) = Elements(PathOrder) \cap plan.units
    BY <1>4, InOrderIs
  <2>2. QED BY <1>3, <1>4, <2>1
<1>6. selected' \in Seq(AnalyzerNames)
  BY <1>1, TablesOK, InOrderIs
<1> HIDE DEF units
<1>7. /\ waiting' \in Seq(Paths \X AnalyzerNames)
      /\ Elements(waiting') = plan.units \X Elements(selected')
  <2>1. /\ Work(units, selected') \in Seq(Paths \X AnalyzerNames)
        /\ Elements(Work(units, selected')) = Elements(units) \X Elements(selected')
    <3> DEFINE found == selected'
    <3>1. units \in Seq(Paths) /\ found \in Seq(AnalyzerNames)
      BY <1>5, <1>6
    <3> HIDE DEF found
    <3>2. /\ Work(units, found) \in Seq(Pairs(Paths, AnalyzerNames))
          /\ Elements(Work(units, found)) = Pairs(Elements(units), Elements(found))
      BY <3>1, WorkIs
    <3>3. QED BY <3>2 DEF found, Pairs
  <2>2. QED BY <1>1, <1>5, <2>1
<1>8. PlannedRuns' = Elements(waiting') /\ Planned'
  BY <1>1, <1>2, <1>7 DEF PlannedRuns, Elements, Planned
<1>9. WorkTyped' /\ DOMAIN ended' = {}
  BY <1>1, <1>2, <1>6, <1>7 DEF WorkKnown, WorkTyped
<1>10. stage' \in Stages' /\ stage' \notin Unprobed /\ DOMAIN files' = FileNames
  BY <1>1 DEF Stages, Unprobed, WorkKnown
<1>11. stage' = "candidates" =>
         merged' = {} /\ PlannedRuns' = Elements(waiting)' \cup running' \cup DOMAIN ended'
  BY <1>1, <1>2, <1>8, <1>9 DEF Elements
<1>12. \A w \in DOMAIN ended' : (ended[w] = "ok" => Full(w) \subseteq artifacts[w])'
  BY <1>9
<1>13. QED BY <1>8, <1>9, <1>10, <1>11, <1>12 DEF WorkKnown

(* A run that is started was waiting.                                       *)
LEMMA WorkStarted ==
  ASSUME WorkKnown, StartRun, stage = "candidates", UNCHANGED <<stage, plan, files>>
  PROVE  WorkKnown'
<1>1. /\ waiting # <<>> /\ running' = running \cup {Head(waiting)} /\ waiting' = Tail(waiting)
      /\ UNCHANGED <<version, selected, ended, artifacts, merged, told>>
  BY DEF StartRun
<1> DEFINE X == Paths \X AnalyzerNames
<1>2. waiting \in Seq(X) /\ waiting # <<>>
  BY <1>1 DEF WorkKnown, WorkTyped
<1>3. /\ Head(waiting) \in X /\ Tail(waiting) \in Seq(X)
      /\ Elements(waiting) = {Head(waiting)} \cup Elements(Tail(waiting))
  <2> DEFINE t == Tail(waiting)
  <2>1. /\ Head(waiting) = waiting[1] /\ Len(waiting) \in Nat \ {0} /\ t \in Seq(X)
        /\ Len(t) = Len(waiting) - 1 /\ DOMAIN t = 1..(Len(waiting) - 1)
        /\ DOMAIN waiting = 1..Len(waiting) /\ waiting[1] \in X
    BY <1>2
  <2>2. \A i \in DOMAIN t : t[i] = waiting[i + 1]
    BY <1>2
  <2> HIDE DEF t
  <2>3. \A i \in DOMAIN waiting : i = 1 \/ (i - 1 \in DOMAIN t /\ t[i - 1] = waiting[i])
    BY <2>1, <2>2
  <2>4. \A i \in DOMAIN t : i + 1 \in DOMAIN waiting
    BY <2>1
  <2>5. 1 \in DOMAIN waiting
    BY <2>1
  <2>6. Elements(waiting) \subseteq {waiting[1]} \cup Elements(t)
    BY <2>3 DEF Elements
  <2>7. Elements(t) \subseteq Elements(waiting) /\ waiting[1] \in Elements(waiting)
    BY <2>2, <2>4, <2>5 DEF Elements
  <2>8. QED BY <2>1, <2>6, <2>7 DEF t
<1>4. WorkTyped'
  BY <1>1, <1>3 DEF WorkKnown, WorkTyped
<1>5. PlannedRuns' = PlannedRuns /\ Planned' = Planned
  BY <1>1 DEF PlannedRuns, Planned
<1>6. \A w : Full(w)' = Full(w)
  BY <1>1 DEF Full
<1>7. Elements(waiting)' = Elements(Tail(waiting))
  BY <1>1 DEF Elements
<1>8. PlannedRuns' = Elements(waiting)' \cup running' \cup DOMAIN ended' /\ merged' = {}
  BY <1>1, <1>3, <1>5, <1>7 DEF WorkKnown
<1>9. stage' \in Stages' /\ stage' = "candidates" /\ stage' \notin Unprobed /\ Planned'
  BY <1>5 DEF Stages, Unprobed, WorkKnown, Indexed
<1>10. \A w \in DOMAIN ended' : (ended[w] = "ok" => Full(w) \subseteq artifacts[w])'
  BY <1>1, <1>6 DEF WorkKnown
<1>11. QED BY <1>4, <1>8, <1>9, <1>10 DEF WorkKnown

(* A run that ends leaves what its status stands for.                       *)
LEMMA WorkEnded ==
  ASSUME WorkKnown, EndRun, stage = "candidates", UNCHANGED <<stage, plan, files>>
  PROVE  WorkKnown'
<1>0. PICK w \in running, status \in RunStatuses :
        /\ \E left \in Leaves(w, status) :
             artifacts' = [x \in DOMAIN artifacts \cup {w} |-> IF x = w THEN left ELSE artifacts[x]]
        /\ running' = running \ {w}
        /\ ended' = [x \in DOMAIN ended \cup {w} |-> IF x = w THEN status ELSE ended[x]]
        /\ UNCHANGED <<version, selected, waiting, merged, told>>
  BY DEF EndRun, RunStatuses
<1>1. PICK left \in Leaves(w, status) :
        artifacts' = [x \in DOMAIN artifacts \cup {w} |-> IF x = w THEN left ELSE artifacts[x]]
  BY <1>0
<1>2. w \in Paths \X AnalyzerNames /\ version \in 1..2
  BY DEF WorkKnown, WorkTyped
<1>3. Full(w) \subseteq Diagnostics
  BY <1>2, InputsOK DEF Full
<1>4. OnDisk(w) \subseteq Diagnostics
  BY DEF OnDisk, WorkKnown, WorkTyped
<1>5. left \subseteq Diagnostics
  BY <1>3, <1>4 DEF Leaves
<1>6. status = "ok" => Full(w) \subseteq left
  BY DEF Leaves
<1>7. /\ DOMAIN artifacts' = DOMAIN artifacts \cup {w} /\ artifacts'[w] = left
      /\ \A x \in DOMAIN artifacts : x # w => artifacts'[x] = artifacts[x]
      /\ DOMAIN ended' = DOMAIN ended \cup {w} /\ ended'[w] = status
      /\ \A x \in DOMAIN ended : x # w => ended'[x] = ended[x]
  BY <1>0, <1>1
<1>8. WorkTyped'
  BY <1>0, <1>1, <1>2, <1>5, <1>7 DEF WorkKnown, WorkTyped
<1>9. PlannedRuns' = PlannedRuns /\ Planned' = Planned /\ Elements(waiting)' = Elements(waiting)
  BY <1>0 DEF PlannedRuns, Planned, Elements
<1>10. \A x : Full(x)' = Full(x)
  BY <1>0 DEF Full
<1>11. PlannedRuns' = Elements(waiting)' \cup running' \cup DOMAIN ended' /\ merged' = {}
  BY <1>0, <1>1, <1>7, <1>9 DEF WorkKnown
<1>12. stage' \in Stages' /\ stage' = "candidates" /\ stage' \notin Unprobed /\ Planned'
  BY <1>9 DEF Stages, Unprobed, WorkKnown, Indexed
<1>13. ASSUME NEW x \in DOMAIN ended' PROVE (ended[x] = "ok" => Full(x) \subseteq artifacts[x])'
  <2>1. CASE x = w
    BY <1>6, <1>7, <1>10, <2>1
  <2>2. CASE x # w
    <3>1. x \in DOMAIN ended /\ x \in DOMAIN artifacts
      BY <1>7, <2>2 DEF WorkKnown, WorkTyped
    <3>2. QED BY <1>7, <1>10, <2>2, <3>1 DEF WorkKnown
  <2>3. QED BY <2>1, <2>2
<1>14. QED BY <1>8, <1>11, <1>12, <1>13 DEF WorkKnown

(* Every step keeps what is known of the runs.                              *)
LEMMA WorkNext ==
  ASSUME IntakeInv, WorkKnown, [Next]_vars
  PROVE  WorkKnown'
<1>a. DOMAIN files = FileNames /\ stage \in Stages
  BY DEF WorkKnown
<1> USE DEF Unprobed, Indexed, Collected, FileNames
<1>1. CASE StartScan
  BY <1>1, WorkBegins
<1>2. CASE ProbeTools
  BY <1>2, WorkQueued
<1>3. CASE AnalyzerStep
  <2>1. stage = "candidates" /\ UNCHANGED <<stage, plan, files>> /\ (StartRun \/ EndRun)
    BY <1>3 DEF AnalyzerStep, intakeVars, endVars
  <2>2. QED BY <2>1, WorkStarted, WorkEnded
<1>4. CASE CandidatesDone
  <2>1. /\ stage = "candidates" /\ stage' = "consent"
        /\ UNCHANGED <<version, selected, waiting, running, ended, artifacts, plan, files>>
    BY <1>4 DEF CandidatesDone, Collect, intakeVars, endVars
  <2>2. WorkTyped' /\ Planned' /\ \A w : Full(w)' = Full(w)
    BY <2>1 DEF WorkKnown, WorkTyped, Planned, Full
  <2>3. stage' \in Stages'
    BY <2>1 DEF Stages
  <2>4. QED BY <2>1, <2>2, <2>3 DEF WorkKnown
<1>5. CASE IntakeStep
  <2>1. UNCHANGED <<analyzerVars, stage, files>> /\ stage = "intake"
    BY <1>5 DEF IntakeStep, endVars
  <2>2. UNCHANGED <<version, selected, waiting, running, ended, artifacts, merged, told>>
    BY <2>1 DEF analyzerVars
  <2>3. WorkTyped'
    BY <2>2 DEF WorkKnown, WorkTyped
  <2>4. QED BY <2>1, <2>2, <2>3 DEF WorkKnown, Stages
<1>6. CASE EditCode
  <2>1. /\ stage = "idle" /\ version' = 3 - version
        /\ UNCHANGED <<stage, selected, waiting, running, ended, artifacts, merged, told, files>>
    BY <1>6 DEF EditCode, endVars
  <2>2. version \in 1..2 => version' \in 1..2
    BY <2>1
  <2>3. WorkTyped'
    BY <2>1, <2>2 DEF WorkKnown, WorkTyped
  <2>4. QED BY <2>1, <2>3 DEF WorkKnown, Stages
<1>7. CASE \/ IntakeDone \/ BuildIndex \/ CandidatesFail \/ ReadConsent \/ WritePrompts
           \/ AskCandidate \/ ModelDone \/ ModelFails \/ BuildReport \/ Exit \/ Withdraw
           \/ WriteFile \/ Crash \/ UNCHANGED vars
  <2>1. UNCHANGED <<analyzerVars, plan>>
    BY <1>7 DEF IntakeDone, BuildIndex, CandidatesFail, ReadConsent, WritePrompts,
       AskCandidate, ModelDone, ModelFails, BuildReport, Exit, Withdraw, WriteFile, Crash,
       workVars, vars, intakeVars
  <2>2. DOMAIN files' = DOMAIN files
    BY <1>7 DEF IntakeDone, BuildIndex, CandidatesFail, ReadConsent, WritePrompts,
       AskCandidate, ModelDone, ModelFails, BuildReport, Exit, Withdraw, WriteFile, Crash,
       endVars, vars
  <2>3. \/ UNCHANGED stage
        \/ stage = "intake" /\ stage' = "index" /\ Planned
        \/ stage # "idle" /\ stage' = "idle"
        \/ stage = "index" /\ stage' = "probe"
        \/ stage \in {"probe"} \cup Collected /\ stage' \in Collected
    BY <1>a, <1>7 DEF IntakeDone, BuildIndex, CandidatesFail, ReadConsent, WritePrompts,
       AskCandidate, ModelDone, ModelFails, BuildReport, Exit, Withdraw, WriteFile, Crash, vars,
       AfterWriting, Finish
  <2>4. Collected \subseteq Stages /\ {"idle", "index", "probe"} \subseteq Stages
    BY <1>a DEF Stages
  <2>5. /\ stage' \in Stages
        /\ stage' # "idle" => stage # "idle"
        /\ stage' \in Unprobed => stage \in Unprobed
        /\ stage' = "candidates" => stage = "candidates"
        /\ stage' \in Indexed \cup {"index"} => Planned
    BY <1>a, <2>3, <2>4 DEF WorkKnown
  <2>6. QED BY <2>1, <2>2, <2>5, WorkStays
<1>8. QED BY <1>1, <1>2, <1>3, <1>4, <1>5, <1>6, <1>7 DEF Next, Progress

(* Before the first scan no work was done.                                  *)
LEMMA WorkInit ==
  ASSUME Init
  PROVE  WorkKnown
<1>1. /\ stage = "idle" /\ selected = <<>> /\ waiting = <<>> /\ running = {} /\ ended = <<>>
      /\ artifacts = <<>> /\ version = 1 /\ DOMAIN files = FileNames
  BY DEF Init, AnalyzersIdle, FileNames
<1>2. DOMAIN ended = {} /\ DOMAIN artifacts = {}
  BY <1>1
<1>3. QED BY <1>1, <1>2 DEF WorkKnown, WorkTyped, Stages, Unprobed, Indexed, Collected, FileNames

-----------------------------------------------------------------------------
Statuses == {"ok", "degraded", "failed", "skipped"}
Unasked == Unprobed \cup {"candidates", "consent"}
Decided == {"report", "exit"} \cup FileNames

(* The stage log says of a stage what is so: of the index, of the runs and  *)
(* of the answers; and what the runs found is what was merged.              *)
LogTyped ==
  /\ \A s \in DOMAIN records : records[s] \in Statuses
  /\ \A s \in DOMAIN records : records[s] = "degraded" => s \in {"candidates", "adjudication"}
  /\ index \in {None, "whole", "holes", "empty"}

IndexLogged ==
  stage \in Indexed =>
    /\ "index" \in DOMAIN records /\ records["index"] \in {"ok", "failed"}
    /\ index = "empty" <=> records["index"] = "failed"

RunsLogged ==
  stage \in Collected =>
    /\ "candidates" \in DOMAIN records /\ records["candidates"] \in Statuses \ {"skipped"}
    /\ records["candidates"] = "ok" <=> Failed = {} /\ RanOn # {}
    /\ records["candidates"] = "ok" => DOMAIN ended = PlannedRuns
    /\ merged = MergeCandidates(Citable, index # "empty")

AnswersLogged ==
  /\ stage \in Unasked \cup {"dry_run", "model"} =>
       "adjudication" \notin DOMAIN records /\ Unanswered = {}
  /\ stage \in Unasked => pipeline = <<>> /\ asked = <<>>
  /\ stage \in Collected \ {"consent"} => DOMAIN pipeline = Candidates
  /\ stage \in Decided =>
       (Unanswered # {} <=> "adjudication" \in DOMAIN records /\ records["adjudication"] = "degraded")
  /\ DOMAIN asked \subseteq Candidates /\ Candidates \subseteq Citations

LogKnown == LogTyped /\ IndexLogged /\ RunsLogged /\ AnswersLogged

(* One status is entered and the others stay.                               *)
LEMMA RecordedIs ==
  ASSUME NEW s, NEW status, records' = Recorded(s, status)
  PROVE  /\ DOMAIN records' = DOMAIN records \cup {s} /\ records'[s] = status
         /\ \A x \in DOMAIN records : x # s => records'[x] = records[x]
BY DEF Recorded

(* No candidate comes of nothing.                                           *)
LEMMA NothingMerged ==
  ASSUME ended = <<>>, NEW indexed
  PROVE  MergeCandidates(Citable, indexed) = {} /\ Failed = {} /\ RanOn = {}
<1>1. DOMAIN ended = {}
  OBVIOUS
<1>2. Citable = {} /\ Failed = {} /\ RanOn = {}
  BY <1>1 DEF Citable, Read, Failed, RanOn
<1>3. {} \in SUBSET Citations
  OBVIOUS
<1>4. \A m \in MergeCandidates({}, indexed) : m.first \in {}
  BY <1>3, MergedIs
<1>5. QED BY <1>2, <1>4

(* What is merged was found by an analyzer.                                 *)
LEMMA CitableTyped ==
  ASSUME WorkKnown
  PROVE  Citable \in SUBSET Citations
<1>1. ASSUME NEW w \in DOMAIN ended, NEW d \in artifacts[w] PROVE <<d, w[2]>> \in Citations
  BY DEF WorkKnown, WorkTyped, Citations
<1>2. Read \subseteq Citations
  BY <1>1 DEF Read
<1>3. QED BY <1>2 DEF Citable

(* The log stays while what it is about stays.                              *)
LEMMA LogStays ==
  ASSUME LogKnown, UNCHANGED <<records, index, ended, artifacts, merged, selected, plan,
                               pipeline, asked>>,
         stage' \in Indexed => stage \in Indexed,
         stage' \in Collected => stage \in Collected,
         stage' \in Unasked => stage \in Unasked,
         stage' \in Unasked \cup {"dry_run", "model"} => stage \in Unasked \cup {"dry_run", "model"},
         stage' \in Collected \ {"consent"} => stage \in Collected \ {"consent"},
         stage' \in Decided => stage \in Decided
  PROVE  LogKnown'
<1>1. LogTyped' /\ IndexLogged'
  BY DEF LogKnown, LogTyped, IndexLogged
<1>2. /\ Failed' = Failed /\ RanOn' = RanOn /\ PlannedRuns' = PlannedRuns
      /\ Citable' = Citable /\ Unanswered' = Unanswered /\ Candidates' = Candidates
  BY DEF Failed, RanOn, PlannedRuns, Citable, Read, Unanswered, Candidates
<1>3. RunsLogged'
  BY <1>2 DEF LogKnown, RunsLogged
<1>4. AnswersLogged'
  BY <1>2 DEF LogKnown, AnswersLogged
<1>5. QED BY <1>1, <1>3, <1>4 DEF LogKnown

(* A scan starts with an empty log.                                         *)
LEMMA LogBegins ==
  ASSUME StartScan
  PROVE  LogKnown'
<1>1. /\ stage' = "intake" /\ records' = <<>> /\ index' = None /\ merged' = {}
      /\ pipeline' = <<>> /\ asked' = <<>>
  BY DEF StartScan
<1>2. DOMAIN records' = {} /\ DOMAIN pipeline' = {} /\ DOMAIN asked' = {}
  BY <1>1
<1>3. stage' \notin Indexed \cup Collected \cup Decided
  BY <1>1 DEF Indexed, Collected, Decided, FileNames
<1>4. QED BY <1>1, <1>2, <1>3 DEF LogKnown, LogTyped, IndexLogged, RunsLogged, AnswersLogged,
        Unanswered, Candidates

(* Intake and the index are logged as they went.                            *)
LEMMA IntakeLogged ==
  ASSUME LogKnown, IntakeDone
  PROVE  LogKnown'
<1>1. /\ stage = "intake" /\ stage' \in {"index", "idle"}
      /\ UNCHANGED <<index, ended, artifacts, merged, selected, plan, pipeline, asked>>
  BY DEF IntakeDone, Finish, workVars, intakeVars, analyzerVars, modelVars
<1>2. stage' \notin Indexed \cup Collected \cup Decided /\ stage \in Unasked
  BY <1>1 DEF Indexed, Collected, Decided, FileNames, Unasked, Unprobed
<1>3. Unanswered' = Unanswered /\ Candidates' = Candidates
  BY <1>1 DEF Unanswered, Candidates
<1>4. CASE UNCHANGED records
  BY <1>1, <1>2, <1>3, <1>4 DEF LogKnown, LogTyped, IndexLogged, RunsLogged, AnswersLogged
<1>5. CASE records' = Recorded("intake", "ok")
  <2>1. /\ DOMAIN records' = DOMAIN records \cup {"intake"} /\ records'["intake"] = "ok"
        /\ \A x \in DOMAIN records : x # "intake" => records'[x] = records[x]
    BY <1>5, RecordedIs
  <2>2. LogTyped'
    BY <1>1, <2>1 DEF LogKnown, LogTyped, Statuses
  <2>3. QED BY <1>1, <1>2, <1>3, <2>1, <2>2 DEF LogKnown, IndexLogged, RunsLogged, AnswersLogged
<1>6. QED BY <1>4, <1>5 DEF IntakeDone

(* The index is logged as it came out.                                      *)
LEMMA IndexBuilt ==
  ASSUME LogKnown, BuildIndex
  PROVE  LogKnown'
<1>1. PICK outcome \in {"whole", "holes", "empty"} :
        index' = outcome /\ records' = Recorded("index", IF outcome = "empty" THEN "failed" ELSE "ok")
  BY DEF BuildIndex
<1>2. /\ stage = "index" /\ stage' = "probe"
      /\ UNCHANGED <<ended, artifacts, merged, selected, plan, pipeline, asked>>
  BY DEF BuildIndex, workVars, intakeVars, analyzerVars, modelVars
<1>3. /\ DOMAIN records' = DOMAIN records \cup {"index"}
      /\ records'["index"] = (IF outcome = "empty" THEN "failed" ELSE "ok")
      /\ \A x \in DOMAIN records : x # "index" => records'[x] = records[x]
  BY <1>1, RecordedIs
<1>4. stage' \notin Collected \cup Decided /\ stage \in Unasked /\ stage' \in Unasked
  BY <1>2 DEF Collected, Decided, FileNames, Unasked, Unprobed
<1>5. Unanswered' = Unanswered /\ Candidates' = Candidates
  BY <1>2 DEF Unanswered, Candidates
<1>6. LogTyped' /\ IndexLogged'
  BY <1>1, <1>3 DEF LogKnown, LogTyped, Statuses, IndexLogged
<1>7. QED BY <1>2, <1>3, <1>4, <1>5, <1>6 DEF LogKnown, RunsLogged, AnswersLogged

(* Candidate generation that did not run at all.                            *)
LEMMA NothingRan ==
  ASSUME WorkKnown, LogKnown, stage = "probe", stage' = "consent",
         UNCHANGED <<ended, artifacts, merged, index, pipeline, asked>>,
         NEW status \in {"degraded", "failed"}, records' = Recorded("candidates", status)
  PROVE  LogKnown'
<1>1. /\ DOMAIN records' = DOMAIN records \cup {"candidates"} /\ records'["candidates"] = status
      /\ \A x \in DOMAIN records : x # "candidates" => records'[x] = records[x]
  BY RecordedIs
<1>2. ended = <<>> /\ merged = {} /\ ended' = ended
  BY DEF WorkKnown, Unprobed
<1>3. (MergeCandidates(Citable, index # "empty") = {} /\ Failed = {} /\ RanOn = {})'
  <2>1. Citable' = Citable /\ Failed' = Failed /\ RanOn' = RanOn
    BY DEF Citable, Read, Failed, RanOn
  <2>2. MergeCandidates(Citable, index # "empty") = {} /\ Failed = {} /\ RanOn = {}
    BY <1>2, NothingMerged
  <2>3. QED BY <2>1, <2>2
<1>4. stage' \notin Decided /\ stage \in Unasked /\ stage' \in Unasked
  BY DEF Decided, FileNames, Unasked, Unprobed
<1>5. stage \in Indexed /\ "index" # "candidates" /\ "adjudication" # "candidates"
  BY DEF Indexed
<1>6. LogTyped' /\ IndexLogged'
  BY <1>1, <1>5 DEF LogKnown, LogTyped, Statuses, IndexLogged
<1>7. RunsLogged'
  BY <1>1, <1>2, <1>3 DEF RunsLogged, Statuses
<1>8. Unanswered' = Unanswered /\ Candidates' = Candidates
  BY DEF Unanswered, Candidates
<1>9. AnswersLogged'
  BY <1>1, <1>4, <1>5, <1>8 DEF LogKnown, AnswersLogged
<1>10. QED BY <1>6, <1>7, <1>9 DEF LogKnown

(* Without a tool the stage is over, and logged so.                         *)
LEMMA ToolsProbed ==
  ASSUME WorkKnown, LogKnown, ProbeTools
  PROVE  LogKnown'
<1>1. /\ stage = "probe" /\ UNCHANGED <<ended, artifacts, merged, index, pipeline, asked, plan>>
      /\ stage' = (IF selected' = <<>> THEN "consent" ELSE "candidates")
      /\ records' = IF selected' = <<>> THEN Recorded("candidates", "degraded") ELSE records
  BY DEF ProbeTools, Probe, modelVars, intakeVars
<1>2. CASE selected' = <<>>
  BY <1>1, <1>2, NothingRan
<1>3. CASE selected' # <<>>
  <2>1. stage' = "candidates" /\ UNCHANGED records
    BY <1>1, <1>3
  <2>2. /\ stage' \notin Collected \cup Decided /\ stage \in Unasked /\ stage' \in Unasked
        /\ stage \in Indexed
    BY <1>1, <2>1 DEF Collected, Decided, FileNames, Unasked, Unprobed, Indexed
  <2>3. Unanswered' = Unanswered /\ Candidates' = Candidates
    BY <1>1 DEF Unanswered, Candidates
  <2>4. QED BY <1>1, <2>1, <2>2, <2>3 DEF LogKnown, LogTyped, IndexLogged, RunsLogged, AnswersLogged
<1>4. QED BY <1>2, <1>3

(* The stage is ok when every run was, and then every planned run ended.    *)
LEMMA CandidatesMerged ==
  ASSUME WorkKnown, LogKnown, CandidatesDone
  PROVE  LogKnown'
<1>1. /\ stage = "candidates" /\ stage' = "consent" /\ waiting = <<>> /\ running = {}
      /\ merged' = MergeCandidates(Citable, index # "empty")
      /\ UNCHANGED <<selected, ended, artifacts, index, pipeline, asked, plan>>
      /\ records' = Recorded("candidates", CandidatesStatus)
  BY DEF CandidatesDone, Collect, modelVars, intakeVars
<1>2. /\ DOMAIN records' = DOMAIN records \cup {"candidates"}
      /\ records'["candidates"] = CandidatesStatus
      /\ \A x \in DOMAIN records : x # "candidates" => records'[x] = records[x]
  BY <1>1, RecordedIs
<1>3. /\ Failed' = Failed /\ RanOn' = RanOn /\ PlannedRuns' = PlannedRuns
      /\ Citable' = Citable /\ Unanswered' = Unanswered
  BY <1>1 DEF Failed, RanOn, PlannedRuns, Citable, Read, Unanswered
<1>4. DOMAIN ended = PlannedRuns
  <2>1. Elements(waiting) = {}
    BY <1>1 DEF Elements
  <2>2. QED BY <1>1, <2>1 DEF WorkKnown
<1>5. CandidatesStatus \in {"ok", "degraded"} /\ (CandidatesStatus = "ok" <=> Failed = {} /\ RanOn # {})
  BY DEF CandidatesStatus
<1>6. /\ stage' \notin Decided /\ stage \in Unasked /\ stage' \in Unasked /\ stage \in Indexed
      /\ "index" # "candidates" /\ "adjudication" # "candidates"
  BY <1>1 DEF Decided, FileNames, Unasked, Unprobed, Indexed
<1>7. LogTyped' /\ IndexLogged'
  BY <1>1, <1>2, <1>5, <1>6 DEF LogKnown, LogTyped, Statuses, IndexLogged
<1>8. RunsLogged'
  BY <1>1, <1>2, <1>3, <1>4, <1>5 DEF RunsLogged, Statuses
<1>9. Candidates' \subseteq Citations
  <2>1. Citable \in SUBSET Citations
    BY CitableTyped
  <2>2. \A m \in merged' : m.first \in Citable
    BY <1>1, <2>1, MergedIs
  <2>3. QED BY <2>1, <2>2 DEF Candidates
<1>10. asked' = <<>> /\ DOMAIN asked' = {}
  <2>1. asked = <<>>
    BY <1>6 DEF LogKnown, AnswersLogged
  <2>2. QED BY <1>1, <2>1
<1>11. AnswersLogged'
  BY <1>1, <1>2, <1>3, <1>6, <1>9, <1>10 DEF LogKnown, AnswersLogged
<1>12. QED BY <1>7, <1>8, <1>11 DEF LogKnown

-----------------------------------------------------------------------------
(* Nobody was asked when the baseline is taken.                             *)
LEMMA ConsentLogged ==
  ASSUME LogKnown, ReadConsent
  PROVE  LogKnown'
<1>1. /\ stage = "consent" /\ stage' \in {"dry_run", "model", "report"}
      /\ UNCHANGED <<ended, artifacts, merged, selected, plan, index, asked>>
      /\ pipeline' = PromoteOnly
      /\ \/ UNCHANGED records /\ stage' # "report"
         \/ records' = Skipped(ModelStages) /\ stage' = "report"
  BY DEF ReadConsent, workVars, intakeVars, analyzerVars
<1>2. /\ Failed' = Failed /\ RanOn' = RanOn /\ PlannedRuns' = PlannedRuns
      /\ Citable' = Citable /\ Candidates' = Candidates
  BY <1>1 DEF Failed, RanOn, PlannedRuns, Citable, Read, Candidates
<1>3. DOMAIN pipeline' = Candidates' /\ Unanswered' = {}
  <2>1. DOMAIN pipeline' = Candidates /\ \A c \in Candidates : pipeline'[c].answer = "not_asked"
    BY <1>1 DEF PromoteOnly, Promoted
  <2>2. QED BY <1>2, <2>1 DEF Unanswered
<1>4. /\ stage \in Unasked /\ stage \in Collected /\ stage \in Indexed
      /\ stage' \notin Unasked
  BY <1>1 DEF Unasked, Unprobed, Collected, Indexed
<1>5. CASE UNCHANGED records /\ stage' # "report"
  <2>1. stage' \in Collected /\ stage' \notin Decided /\ stage' \in {"dry_run", "model"}
    BY <1>1, <1>5 DEF Collected, Decided, FileNames
  <2>2. LogTyped' /\ IndexLogged' /\ RunsLogged'
    BY <1>1, <1>2, <1>4, <1>5 DEF LogKnown, LogTyped, IndexLogged, RunsLogged
  <2>3. AnswersLogged'
    BY <1>1, <1>2, <1>3, <1>4, <1>5, <2>1 DEF LogKnown, AnswersLogged
  <2>4. QED BY <2>2, <2>3 DEF LogKnown
<1>6. CASE records' = Skipped(ModelStages) /\ stage' = "report"
  <2>1. /\ DOMAIN records' = DOMAIN records \cup ModelStages
        /\ \A s \in ModelStages : records'[s] = "skipped"
        /\ \A s \in DOMAIN records : s \notin ModelStages => records'[s] = records[s]
    BY <1>6 DEF Skipped
  <2>2. "index" \notin ModelStages /\ "candidates" \notin ModelStages /\ "adjudication" \in ModelStages
    BY DEF ModelStages
  <2>3. stage' \in Collected /\ stage' \in Decided /\ stage' \notin {"dry_run", "model"}
    BY <1>6 DEF Collected, Decided
  <2>4. LogTyped'
    BY <1>1, <2>1, <2>2 DEF LogKnown, LogTyped, Statuses
  <2>5. IndexLogged' /\ RunsLogged'
    BY <1>1, <1>2, <1>4, <2>1, <2>2 DEF LogKnown, IndexLogged, RunsLogged
  <2>6. records'["adjudication"] = "skipped"
    BY <2>1, <2>2
  <2>7. AnswersLogged'
    BY <1>1, <1>2, <1>3, <1>4, <2>3, <2>6 DEF LogKnown, AnswersLogged
  <2>8. QED BY <2>4, <2>5, <2>7 DEF LogKnown
<1>7. QED BY <1>1, <1>5, <1>6

(* Writing the prompts asks nobody.                                         *)
LEMMA PromptsLogged ==
  ASSUME LogKnown, WritePrompts
  PROVE  LogKnown'
<1>1. PICK status \in {"skipped", "failed"} : records' = Recorded("expansion", status)
  BY DEF WritePrompts
<1>2. /\ stage = "dry_run" /\ stage' = "report"
      /\ UNCHANGED <<ended, artifacts, merged, selected, plan, index, pipeline, asked>>
  BY DEF WritePrompts, workVars, intakeVars, analyzerVars, modelVars
<1>3. /\ DOMAIN records' = DOMAIN records \cup {"expansion"} /\ records'["expansion"] = status
      /\ \A x \in DOMAIN records : x # "expansion" => records'[x] = records[x]
  BY <1>1, RecordedIs
<1>4. /\ Failed' = Failed /\ RanOn' = RanOn /\ PlannedRuns' = PlannedRuns
      /\ Citable' = Citable /\ Candidates' = Candidates /\ Unanswered' = Unanswered
  BY <1>2 DEF Failed, RanOn, PlannedRuns, Citable, Read, Candidates, Unanswered
<1>5. /\ stage \in Collected /\ stage \in Indexed /\ stage' \notin Unasked \cup {"dry_run", "model"}
  BY <1>2 DEF Collected, Indexed, Unasked, Unprobed
<1>6. LogTyped' /\ IndexLogged' /\ RunsLogged'
  BY <1>2, <1>3, <1>4, <1>5 DEF LogKnown, LogTyped, Statuses, IndexLogged, RunsLogged
<1>7. AnswersLogged'
  BY <1>2, <1>3, <1>4, <1>5 DEF LogKnown, AnswersLogged
<1>8. QED BY <1>6, <1>7 DEF LogKnown

(* An answer is for a candidate, and the log waits for the last one.        *)
LEMMA AskedLogged ==
  ASSUME LogKnown, AskCandidate
  PROVE  LogKnown'
<1>1. PICK c \in Candidates \ DOMAIN asked : DOMAIN asked' = DOMAIN asked \cup {c}
  BY DEF AskCandidate
<1>2. /\ stage = "model"
      /\ UNCHANGED <<ended, artifacts, merged, selected, plan, index, pipeline, records, stage>>
  BY DEF AskCandidate, workVars, intakeVars, analyzerVars
<1>3. /\ Failed' = Failed /\ RanOn' = RanOn /\ PlannedRuns' = PlannedRuns
      /\ Citable' = Citable /\ Candidates' = Candidates /\ Unanswered' = Unanswered
  BY <1>2 DEF Failed, RanOn, PlannedRuns, Citable, Read, Candidates, Unanswered
<1>4. stage' \notin Unasked
  BY <1>2 DEF Unasked, Unprobed
<1>5. LogTyped' /\ IndexLogged' /\ RunsLogged'
  BY <1>2, <1>3 DEF LogKnown, LogTyped, IndexLogged, RunsLogged
<1>6. AnswersLogged'
  BY <1>1, <1>2, <1>3, <1>4 DEF LogKnown, AnswersLogged
<1>7. QED BY <1>5, <1>6 DEF LogKnown

(* The model stages end with the answers or with the baseline.              *)
LEMMA ModelLogged ==
  ASSUME LogKnown, ModelDone \/ ModelFails
  PROVE  LogKnown'
<1>1. /\ stage = "model" /\ stage' = "report"
      /\ UNCHANGED <<ended, artifacts, merged, selected, plan, index, asked>>
      /\ \/ /\ DOMAIN asked = Candidates /\ pipeline' = asked
            /\ records' = Recorded("adjudication", AdjudicationStatus)
         \/ pipeline' = pipeline /\ records' = Recorded("adjudication", "failed")
  BY DEF ModelDone, ModelFails, Fallback, workVars, intakeVars, analyzerVars
<1>2. /\ Failed' = Failed /\ RanOn' = RanOn /\ PlannedRuns' = PlannedRuns
      /\ Citable' = Citable /\ Candidates' = Candidates
  BY <1>1 DEF Failed, RanOn, PlannedRuns, Citable, Read, Candidates
<1>3. PICK status \in {"ok", "degraded", "failed"} :
        /\ records' = Recorded("adjudication", status)
        /\ DOMAIN pipeline' = Candidates'
        /\ Unanswered' # {} <=> status = "degraded"
  <2>1. CASE /\ DOMAIN asked = Candidates /\ pipeline' = asked
             /\ records' = Recorded("adjudication", AdjudicationStatus)
    <3>1. Unanswered' # {} <=> AdjudicationStatus = "degraded"
      BY <2>1 DEF Unanswered, AdjudicationStatus
    <3>2. AdjudicationStatus \in {"ok", "degraded", "failed"}
      BY DEF AdjudicationStatus
    <3>3. QED BY <1>2, <2>1, <3>1, <3>2
  <2>2. CASE pipeline' = pipeline /\ records' = Recorded("adjudication", "failed")
    <3>1. stage \in Collected \ {"consent"} /\ Unanswered = {}
      BY <1>1 DEF Collected, LogKnown, AnswersLogged
    <3>2. Unanswered' = {}
      BY <2>2, <3>1 DEF Unanswered
    <3>3. DOMAIN pipeline = Candidates
      BY <3>1 DEF LogKnown, AnswersLogged
    <3>4. QED BY <1>2, <2>2, <3>2, <3>3
  <2>3. QED BY <1>1, <2>1, <2>2
<1>4. /\ DOMAIN records' = DOMAIN records \cup {"adjudication"} /\ records'["adjudication"] = status
      /\ \A x \in DOMAIN records : x # "adjudication" => records'[x] = records[x]
  BY <1>3, RecordedIs
<1>5. /\ stage \in Collected /\ stage \in Indexed /\ stage' \notin Unasked \cup {"dry_run", "model"}
  BY <1>1 DEF Collected, Indexed, Unasked, Unprobed
<1>6. LogTyped' /\ IndexLogged' /\ RunsLogged'
  BY <1>1, <1>2, <1>4, <1>5 DEF LogKnown, LogTyped, Statuses, IndexLogged, RunsLogged
<1>7. AnswersLogged'
  BY <1>1, <1>2, <1>3, <1>4, <1>5 DEF LogKnown, AnswersLogged
<1>8. QED BY <1>6, <1>7 DEF LogKnown

(* Every step keeps what is known of the log.                               *)
LEMMA LogNext ==
  ASSUME WorkKnown, LogKnown, [Next]_vars
  PROVE  LogKnown'
<1>1. CASE StartScan \/ IntakeDone \/ BuildIndex \/ ProbeTools \/ CandidatesDone
  BY <1>1, LogBegins, IntakeLogged, IndexBuilt, ToolsProbed, CandidatesMerged
<1>2. CASE ReadConsent \/ WritePrompts \/ AskCandidate \/ ModelDone \/ ModelFails
  BY <1>2, ConsentLogged, PromptsLogged, AskedLogged, ModelLogged
<1>3. CASE CandidatesFail
  <2>1. /\ stage = "probe" /\ stage' = "consent" /\ records' = Recorded("candidates", "failed")
        /\ UNCHANGED <<ended, artifacts, merged, index, pipeline, asked>>
    BY <1>3 DEF CandidatesFail, workVars, analyzerVars, modelVars
  <2>2. QED BY <2>1, NothingRan
<1>4. CASE IntakeStep
  <2>1. /\ UNCHANGED <<records, index, ended, artifacts, merged, selected, pipeline, asked, stage>>
        /\ stage = "intake"
    BY <1>4 DEF IntakeStep, analyzerVars, modelVars
  <2>2. stage \notin Collected \cup Indexed \cup Decided
    BY <2>1 DEF Collected, Indexed, Decided, FileNames
  <2>3. Candidates' = Candidates /\ Unanswered' = Unanswered
    BY <2>1 DEF Candidates, Unanswered
  <2>4. QED BY <2>1, <2>2, <2>3 DEF LogKnown, LogTyped, IndexLogged, RunsLogged, AnswersLogged
<1>5. CASE AnalyzerStep
  <2>1. /\ UNCHANGED <<records, index, merged, selected, pipeline, asked, stage, plan>>
        /\ stage = "candidates"
    BY <1>5 DEF AnalyzerStep, StartRun, EndRun, intakeVars, modelVars
  <2>2. stage \notin Collected \cup Decided
    BY <2>1 DEF Collected, Indexed, Decided, FileNames
  <2>3. Candidates' = Candidates /\ Unanswered' = Unanswered
    BY <2>1 DEF Candidates, Unanswered
  <2>4. QED BY <2>1, <2>2, <2>3 DEF LogKnown, LogTyped, IndexLogged, RunsLogged, AnswersLogged
<1>6. CASE BuildReport \/ WriteFile \/ Exit \/ Crash \/ EditCode \/ Withdraw \/ UNCHANGED vars
  <2>1. UNCHANGED <<records, index, ended, artifacts, merged, selected, plan, pipeline, asked>>
    BY <1>6 DEF BuildReport, WriteFile, Exit, Crash, EditCode, Withdraw, vars, workVars,
       intakeVars, analyzerVars, modelVars
  <2>2. \/ UNCHANGED stage \/ stage' = "idle"
        \/ stage \in Decided /\ stage' \in Decided \ {"report"}
    BY <1>6 DEF BuildReport, WriteFile, AfterWriting, Exit, Crash, Finish, EditCode, Withdraw,
       vars, WorkKnown, Decided, FileNames
  <2>3. /\ "idle" \notin Indexed \cup Unasked \cup {"dry_run", "model"} \cup Collected \cup Decided
        /\ Decided \subseteq Collected \ {"consent"} /\ Collected \subseteq Indexed
        /\ Decided \cap (Unasked \cup {"dry_run", "model"}) = {}
    BY DEF Indexed, Collected, Unasked, Unprobed, Decided, FileNames
  <2>4. /\ stage' \in Indexed => stage \in Indexed
        /\ stage' \in Collected => stage \in Collected
        /\ stage' \in Unasked => stage \in Unasked
        /\ stage' \in Unasked \cup {"dry_run", "model"} =>
             stage \in Unasked \cup {"dry_run", "model"}
        /\ stage' \in Collected \ {"consent"} => stage \in Collected \ {"consent"}
        /\ stage' \in Decided => stage \in Decided
    BY <2>2, <2>3
  <2>5. QED BY <2>1, <2>4, LogStays
<1>7. QED BY <1>1, <1>2, <1>3, <1>4, <1>5, <1>6 DEF Next, Progress

(* Before the first scan the log is empty.                                  *)
LEMMA LogInit ==
  ASSUME Init
  PROVE  LogKnown
<1>1. /\ stage = "idle" /\ records = <<>> /\ index = None /\ pipeline = <<>> /\ asked = <<>>
      /\ merged = {}
  BY DEF Init, AnalyzersIdle
<1>2. DOMAIN records = {} /\ DOMAIN asked = {} /\ Candidates = {}
  BY <1>1 DEF Candidates
<1>3. stage \notin Indexed \cup Unasked \cup {"dry_run", "model"} \cup Collected \cup Decided
  BY <1>1 DEF Indexed, Collected, Unasked, Unprobed, Decided, FileNames
<1>4. QED BY <1>1, <1>2, <1>3 DEF LogKnown, LogTyped, IndexLogged, RunsLogged, AnswersLogged

-----------------------------------------------------------------------------
Outcomes == {None, "ok", "findings", "environment", "internal"}
ReportMade == {"exit"} \cup FileNames

(* The report is what the scan knows when it is made, and nothing of that   *)
(* changes while it is written; a scan that ends well was complete.         *)
ReportKnown ==
  /\ stage \in BeforeReport => report = None
  /\ Reported => stage \in ReportMade
  /\ Reported => report = [findings |-> pipeline, limitations |-> Limitations, log |-> records,
                           partial |-> Broken(records) # {}, cost |-> TotalCost]
  /\ exit \in Outcomes
  /\ OkMeansComplete

(* A report keeps saying what is so while what it is about stays.           *)
LEMMA ReportStays ==
  ASSUME ReportKnown, UNCHANGED <<report, plan, index, told, options, consent, pipeline,
                                  records, cost>>,
         Reported' => Reported /\ stage' \in ReportMade
  PROVE  Reported' => /\ stage' \in ReportMade
                      /\ (report = [findings |-> pipeline, limitations |-> Limitations,
                                    log |-> records, partial |-> Broken(records) # {},
                                    cost |-> TotalCost])'
<1>1. /\ Limitations' = Limitations /\ Broken(records)' = Broken(records)
      /\ TotalCost' = TotalCost
  BY DEF Limitations, ConsentLimitation, Unanswered, StageLimitations, Broken, TotalCost
<1>2. QED BY <1>1 DEF ReportKnown

(* A scan that exits with nothing to say ran everything it planned.         *)
LEMMA OkIsEarned ==
  ASSUME LogKnown, ReportKnown, Exit
  PROVE  OkMeansComplete'
<1>1. /\ stage = "exit" /\ exit' = ScanExitCode
      /\ UNCHANGED <<index, ended, selected, plan, pipeline, records>>
  BY DEF Exit, Finish, workVars, intakeVars, analyzerVars, modelVars
<1>2. PlannedRuns' = PlannedRuns
  BY <1>1 DEF PlannedRuns
<1>3. ASSUME exit' = "ok"
      PROVE  /\ index # "empty" /\ PlannedRuns # {} /\ \A w \in PlannedRuns : ended[w] = "ok"
             /\ \A c \in DOMAIN pipeline : pipeline[c].answer # "unanswered" /\ ~pipeline[c].confirmed
  <2>1. RanOn # {} /\ Broken(records) = {} /\ \A c \in DOMAIN pipeline : ~pipeline[c].confirmed
    BY <1>1, <1>3 DEF ScanExitCode
  <2>2. stage \in Indexed /\ stage \in Collected /\ stage \in Decided
    BY <1>1 DEF Indexed, Collected, Decided
  <2>3. \A s \in DOMAIN records : records[s] \notin {"failed", "degraded"}
    BY <2>1 DEF Broken
  <2>4. index # "empty"
    BY <2>2, <2>3 DEF LogKnown, IndexLogged
  <2>5. records["candidates"] = "ok" /\ DOMAIN ended = PlannedRuns /\ Failed = {}
    BY <2>2, <2>3 DEF LogKnown, RunsLogged, Statuses
  <2>6. Unanswered = {}
    BY <2>2, <2>3 DEF LogKnown, AnswersLogged
  <2>7. PlannedRuns # {} /\ \A w \in PlannedRuns : ended[w] = "ok"
    BY <2>1, <2>5 DEF RanOn, Failed, IsFailure
  <2>8. QED BY <2>1, <2>4, <2>6, <2>7 DEF Unanswered
<1>4. QED BY <1>1, <1>2, <1>3 DEF OkMeansComplete

(* Every step keeps what is known of the report.                            *)
LEMMA ReportNext ==
  ASSUME LogKnown, ReportKnown, [Next]_vars, DOMAIN files = FileNames
  PROVE  ReportKnown'
<1>1. CASE StartScan
  <2>1. stage' = "intake" /\ report' = None /\ exit' = None
    BY <1>1 DEF StartScan
  <2>2. QED BY <2>1 DEF ReportKnown, Reported, Outcomes, OkMeansComplete, Over
<1>2. CASE BuildReport
  <2>1. /\ stage' = "report.md"
        /\ UNCHANGED <<plan, index, told, options, consent, pipeline, records, cost, exit>>
        /\ report' = [findings |-> pipeline, limitations |-> Limitations, log |-> records,
                      partial |-> Broken(records) # {}, cost |-> TotalCost]
    BY <1>2 DEF BuildReport, workVars, intakeVars, analyzerVars, consentVars, modelVars
  <2>2. /\ Limitations' = Limitations /\ Broken(records)' = Broken(records)
        /\ TotalCost' = TotalCost
    BY <2>1 DEF Limitations, ConsentLimitation, Unanswered, StageLimitations, Broken, TotalCost
  <2>3. stage' \notin BeforeReport /\ stage' \in ReportMade
    BY <2>1 DEF BeforeReport, BeforeModel, ReportMade, FileNames
  <2>4. QED BY <2>1, <2>2, <2>3 DEF ReportKnown, OkMeansComplete, Over
<1>3. CASE WriteFile
  <2>1. /\ stage \in FileNames /\ stage' \in ReportMade
        /\ UNCHANGED <<report, plan, index, told, options, consent, pipeline, records, cost, exit>>
    BY <1>3 DEF WriteFile, AfterWriting, ReportMade, FileNames, workVars, intakeVars,
       analyzerVars, consentVars, modelVars
  <2>2. stage' \notin BeforeReport /\ stage # "idle" /\ stage' # "idle"
    BY <2>1 DEF BeforeReport, BeforeModel, ReportMade, FileNames
  <2>3. Reported' => Reported
    BY <2>1, <2>2 DEF Reported
  <2>4. QED BY <2>1, <2>2, <2>3, ReportStays DEF ReportKnown, OkMeansComplete, Over
<1>4. CASE Exit
  <2>1. stage' = "idle" /\ exit' \in Outcomes
    BY <1>4 DEF Exit, Finish, ScanExitCode, Outcomes
  <2>2. QED BY <1>4, <2>1, OkIsEarned DEF ReportKnown, Reported, BeforeReport, BeforeModel
<1>5. CASE Crash
  <2>1. stage' = "idle" /\ exit' = "internal"
    BY <1>5 DEF Crash, Finish
  <2>2. QED BY <2>1 DEF ReportKnown, Reported, BeforeReport, BeforeModel, Outcomes, OkMeansComplete
<1>6. CASE IntakeStep \/ IntakeDone \/ BuildIndex \/ ProbeTools \/ AnalyzerStep
             \/ CandidatesDone \/ CandidatesFail \/ ReadConsent \/ WritePrompts
             \/ AskCandidate \/ ModelDone \/ ModelFails
  <2>1. stage \in BeforeReport /\ UNCHANGED report
    BY <1>6 DEF IntakeStep, IntakeDone, BuildIndex, ProbeTools, AnalyzerStep, CandidatesDone,
       CandidatesFail, ReadConsent, WritePrompts, AskCandidate, ModelDone, ModelFails, endVars,
       BeforeReport, BeforeModel
  <2>2. \/ stage' # "idle" /\ UNCHANGED exit
        \/ exit' = "environment"
    BY <1>6, <2>1 DEF IntakeStep, IntakeDone, BuildIndex, ProbeTools, AnalyzerStep, CandidatesDone,
       CandidatesFail, ReadConsent, WritePrompts, AskCandidate, ModelDone, ModelFails, endVars,
       Finish, BeforeReport, BeforeModel
  <2>3. report' = None
    BY <2>1 DEF ReportKnown
  <2>4. QED BY <2>2, <2>3 DEF ReportKnown, Reported, OkMeansComplete, Over, Outcomes
<1>7. CASE EditCode \/ Withdraw \/ UNCHANGED vars
  <2>1. UNCHANGED <<report, plan, index, told, options, consent, pipeline, records, cost, exit,
                    stage, ended, selected, scan>>
    BY <1>7 DEF EditCode, Withdraw, vars, workVars, intakeVars, analyzerVars, consentVars,
       modelVars, endVars
  <2>2. Reported' => Reported /\ stage' \in ReportMade
    BY <2>1 DEF Reported, ReportKnown
  <2>3. OkMeansComplete'
    BY <2>1 DEF ReportKnown, OkMeansComplete, PlannedRuns, Over
  <2>4. QED BY <2>1, <2>2, <2>3, ReportStays DEF ReportKnown
<1>8. QED BY <1>1, <1>2, <1>3, <1>4, <1>5, <1>6, <1>7 DEF Next, Progress

(* An analyzer that was not found is told, where the stage's own status     *)
(* does not say that something is missing.                                  *)
Unavailable == {<<"unavailable", a>> : a \in AnalyzerNames \ Elements(selected)}

ToldKnown ==
  /\ stage = "candidates" => Unavailable \subseteq told
  /\ stage \in Collected /\ records["candidates"] = "ok" => Unavailable \subseteq told

(* Every step keeps what is known of what was told.                         *)
LEMMA ToldNext ==
  ASSUME WorkKnown, LogKnown, ToldKnown, [Next]_vars
  PROVE  ToldKnown'
<1>a. DOMAIN files = FileNames
  BY DEF WorkKnown
<1>1. CASE StartScan \/ IntakeStep \/ IntakeDone \/ BuildIndex
  <2>1. stage' \notin {"candidates"} \cup Collected
    BY <1>1 DEF StartScan, IntakeStep, IntakeDone, Finish, BuildIndex, Collected, FileNames
  <2>2. QED BY <2>1 DEF ToldKnown
<1>2. CASE ProbeTools
  <2>1. PICK present \in SUBSET AnalyzerNames :
          /\ selected' = InOrder(Analyzers, present)
          /\ told' = {<<"unavailable", a>> : a \in AnalyzerNames \ present}
                       \cup (IF present = {} THEN {<<"nothing_ran">>} ELSE {})
    BY <1>2 DEF ProbeTools, Probe
  <2>2. Elements(selected') = Elements(Analyzers) \cap present
    BY <2>1, TablesOK, InOrderIs
  <2>3. Elements(Analyzers) = AnalyzerNames
    BY DEF Elements, AnalyzerNames
  <2>4. Unavailable' \subseteq told'
    BY <2>1, <2>2, <2>3 DEF Unavailable, Elements
  <2>5. QED BY <2>4 DEF ToldKnown
<1>3. CASE CandidatesFail
  <2>1. records'["candidates"] = "failed" /\ stage' = "consent"
    BY <1>3, RecordedIs DEF CandidatesFail
  <2>2. QED BY <2>1 DEF ToldKnown
<1>4. CASE CandidatesDone
  <2>1. stage = "candidates" /\ told \subseteq told' /\ UNCHANGED selected
    BY <1>4 DEF CandidatesDone, Collect
  <2>2. Unavailable' = Unavailable
    BY <2>1 DEF Unavailable, Elements
  <2>3. QED BY <2>1, <2>2 DEF ToldKnown
<1>5. CASE /\ ReadConsent \/ WritePrompts \/ AskCandidate \/ ModelDone \/ ModelFails
           /\ stage \in Collected
  <2>1. UNCHANGED <<told, selected>> /\ stage' # "candidates"
    BY <1>5 DEF ReadConsent, WritePrompts, AskCandidate, ModelDone, ModelFails, workVars,
       analyzerVars, Collected, FileNames
  <2>2. records'["candidates"] = records["candidates"]
    <3>1. "candidates" \in DOMAIN records
      BY <1>5 DEF LogKnown, RunsLogged
    <3>2. \/ UNCHANGED records \/ records' = Skipped(ModelStages)
          \/ \E s \in {"expansion", "adjudication"}, status \in Statuses :
               records' = Recorded(s, status)
      BY <1>5 DEF ReadConsent, WritePrompts, AskCandidate, ModelDone, ModelFails,
         AdjudicationStatus, Statuses
    <3>3. QED BY <3>1, <3>2 DEF Skipped, ModelStages, Recorded
  <2>3. Unavailable' = Unavailable
    BY <2>1 DEF Unavailable, Elements
  <2>4. QED BY <1>5, <2>1, <2>2, <2>3 DEF ToldKnown
<1>6. CASE AnalyzerStep
  <2>1. UNCHANGED <<told, selected, stage, records>>
    BY <1>6 DEF AnalyzerStep, StartRun, EndRun
  <2>2. Unavailable' = Unavailable
    BY <2>1 DEF Unavailable, Elements
  <2>3. QED BY <2>1, <2>2 DEF ToldKnown
<1>7. CASE BuildReport \/ WriteFile \/ Exit \/ Crash \/ EditCode \/ Withdraw \/ UNCHANGED vars
  <2>1. UNCHANGED <<told, selected, records>>
    BY <1>7 DEF BuildReport, WriteFile, Exit, Crash, EditCode, Withdraw, vars, workVars,
       analyzerVars
  <2>2. \/ UNCHANGED stage \/ stage' = "idle"
        \/ stage \in Decided /\ stage' \in Decided
    BY <1>7, <1>a DEF BuildReport, WriteFile, AfterWriting, Exit, Crash, Finish, EditCode,
       Withdraw, vars, Decided, FileNames
  <2>3. "idle" \notin Collected \cup {"candidates"} /\ Decided \subseteq Collected \ {"candidates"}
    BY DEF Collected, Decided, FileNames
  <2>4. Unavailable' = Unavailable
    BY <2>1 DEF Unavailable, Elements
  <2>5. QED BY <2>1, <2>2, <2>3, <2>4 DEF ToldKnown
<1>8. ReadConsent \/ WritePrompts \/ AskCandidate \/ ModelDone \/ ModelFails => stage \in Collected
  BY DEF ReadConsent, WritePrompts, AskCandidate, ModelDone, ModelFails, Collected
<1>9. QED BY <1>1, <1>2, <1>3, <1>4, <1>5, <1>6, <1>7, <1>8 DEF Next, Progress

-----------------------------------------------------------------------------
(* What is known holds before the first scan.                               *)
LEMMA ScanInit ==
  ASSUME Init
  PROVE  WorkKnown /\ LogKnown /\ ReportKnown /\ ToldKnown
<1>1. WorkKnown /\ LogKnown
  BY WorkInit, LogInit
<1>2. report = None /\ exit = None /\ scan = 0 /\ stage = "idle"
  BY DEF Init
<1>3. ReportKnown
  BY <1>2 DEF ReportKnown, Reported, OkMeansComplete, Over, Outcomes
<1>4. ToldKnown
  BY <1>2 DEF ToldKnown, Collected, FileNames
<1>5. QED BY <1>1, <1>3, <1>4

(* Every step keeps all that is known.                                      *)
LEMMA ScanNext ==
  ASSUME IntakeInv, WorkKnown, LogKnown, ReportKnown, ToldKnown, [Next]_vars
  PROVE  WorkKnown' /\ LogKnown' /\ ReportKnown' /\ ToldKnown'
<1>1. DOMAIN files = FileNames
  BY DEF WorkKnown
<1>2. QED BY <1>1, WorkNext, LogNext, ReportNext, ToldNext

(* Each variable is what it is declared to be.                              *)
LEMMA TypesAreRight ==
  ASSUME WorkKnown, LogKnown, ReportKnown, BillInv, FilesInv
  PROVE  TypeOK
<1>1. stage \in Stages /\ index \in {None, "whole", "holes", "empty"}
  BY DEF WorkKnown, LogKnown, LogTyped
<1>2. exit \in {None, "ok", "findings", "environment", "internal"}
  BY DEF ReportKnown, Outcomes
<1>3. \A s \in DOMAIN records : records[s] \in {"ok", "degraded", "failed", "skipped"}
  BY DEF LogKnown, LogTyped, Statuses
<1>4. Candidates \subseteq Citations /\ DOMAIN asked \subseteq Candidates
  BY DEF LogKnown, AnswersLogged
<1>5. Candidates \subseteq Diagnostics \X AnalyzerNames
  BY <1>4 DEF Citations
<1>6. \A f \in DOMAIN files : files[f] \in 0..scan
  BY DEF FilesInv
<1>7. cost \in 0..Cardinality(Diagnostics) * Len(Analyzers)
  <2>1. /\ IsFiniteSet(Citations)
        /\ Cardinality(Citations) <= Cardinality(Diagnostics) * Len(Analyzers)
    BY CitationsAreFinite
  <2>2. DOMAIN asked \subseteq Citations /\ cost = Cardinality(DOMAIN asked)
    BY <1>4 DEF BillInv
  <2>3. /\ Cardinality(DOMAIN asked) \in Nat /\ Cardinality(Citations) \in Nat
        /\ Cardinality(DOMAIN asked) <= Cardinality(Citations)
    BY <2>1, <2>2, FS_Subset, FS_CardinalityType
  <2> DEFINE most == Cardinality(Diagnostics) * Len(Analyzers)
  <2>a. most \in Nat
    <3>1. Cardinality(Diagnostics) \in Nat /\ Len(Analyzers) \in Nat
      BY TablesOK, FS_CardinalityType
    <3>2. QED BY <3>1
  <2>4. cost \in Nat /\ most \in Nat /\ Cardinality(Citations) \in Nat
        /\ cost <= Cardinality(Citations) /\ Cardinality(Citations) <= most
    BY <2>1, <2>2, <2>3, <2>a
  <2> HIDE DEF most
  <2>5. cost \in 0..most
    BY <2>4
  <2>6. QED BY <2>5 DEF most
<1>8. QED BY <1>1, <1>2, <1>3, <1>5, <1>6, <1>7 DEF TypeOK

(* The log of a report is broken for one of five reasons, and for no other. *)
LEMMA BrokenFor ==
  ASSUME LogKnown, stage \in ReportMade
  PROVE  Broken(records) # {} <=> \/ index = "empty"
                                  \/ \E w \in DOMAIN ended : ended[w] # "ok"
                                  \/ RanOn = {}
                                  \/ \E s \in DOMAIN records : records[s] = "failed"
                                  \/ Unanswered # {}
<1>1. stage \in Indexed /\ stage \in Collected /\ stage \in Decided
  BY DEF ReportMade, Indexed, Collected, Decided
<1>2. Failed # {} <=> \E w \in DOMAIN ended : ended[w] # "ok"
  BY DEF Failed, IsFailure
<1>3. index = "empty" => \E s \in DOMAIN records : records[s] = "failed"
  BY <1>1 DEF LogKnown, IndexLogged
<1>4. /\ "candidates" \in DOMAIN records
      /\ records["candidates"] \in {"ok", "degraded", "failed"}
      /\ records["candidates"] = "ok" <=> Failed = {} /\ RanOn # {}
  BY <1>1 DEF LogKnown, RunsLogged, Statuses
<1>5. Unanswered # {} <=> "adjudication" \in DOMAIN records /\ records["adjudication"] = "degraded"
  BY <1>1 DEF LogKnown, AnswersLogged
<1>6. ASSUME NEW s \in DOMAIN records, records[s] = "degraded"
      PROVE  s = "candidates" \/ s = "adjudication"
  BY <1>6 DEF LogKnown, LogTyped
<1>7. ASSUME NEW s \in DOMAIN records, records[s] \in {"failed", "degraded"}
      PROVE  \/ Failed # {} \/ RanOn = {} \/ Unanswered # {}
             \/ \E x \in DOMAIN records : records[x] = "failed"
  BY <1>4, <1>5, <1>6, <1>7
<1>8. Broken(records) # {} => \/ Failed # {} \/ RanOn = {} \/ Unanswered # {}
                              \/ \E x \in DOMAIN records : records[x] = "failed"
  BY <1>7 DEF Broken
<1>9. ASSUME \/ Failed # {} \/ RanOn = {} \/ Unanswered # {}
             \/ \E x \in DOMAIN records : records[x] = "failed"
      PROVE  Broken(records) # {}
  <2>1. \E x \in DOMAIN records : records[x] \in {"failed", "degraded"}
    BY <1>4, <1>5, <1>9
  <2>2. QED BY <2>1 DEF Broken
<1>10. QED BY <1>2, <1>3, <1>8, <1>9

(* A report that is not complete says so, and why.                          *)
LEMMA PartsAreTold ==
  ASSUME LogKnown, ReportKnown
  PROVE  PartialTold
<1> SUFFICES ASSUME Reported PROVE
      /\ report.partial <=> \/ index = "empty"
                            \/ \E w \in DOMAIN ended : ended[w] # "ok"
                            \/ RanOn = {}
                            \/ \E s \in DOMAIN report.log : report.log[s] = "failed"
                            \/ Unanswered # {}
      /\ \A s \in DOMAIN report.log :
           report.log[s] \in {"failed", "degraded"} => <<"stage", s>> \in report.limitations
  BY DEF PartialTold
<1>1. /\ stage \in ReportMade /\ report.log = records /\ report.limitations = Limitations
      /\ report.partial = (Broken(records) # {})
  BY DEF ReportKnown
<1>2. ASSUME NEW s \in DOMAIN records, records[s] \in {"failed", "degraded"}
      PROVE  <<"stage", s>> \in Limitations
  BY <1>2 DEF Limitations, StageLimitations, Broken
<1>3. QED BY <1>1, <1>2, BrokenFor

(* The exit status and the manifest say how far the scan came, for any      *)
(* tree, tools and mishaps (ScanRun, StatusIsTrue).                         *)
THEOREM StatusIsAlwaysTrue == Spec => []StatusIsTrue
<1>1. Init => IntakeInv /\ WorkKnown /\ LogKnown /\ ReportKnown /\ ToldKnown /\ BillInv /\ FilesInv
  BY ScanInit, IntakeInit, BillInit, FilesInit
<1>2. WorkKnown /\ LogKnown /\ ReportKnown /\ BillInv /\ FilesInv => StatusIsTrue
  BY TypesAreRight, PartsAreTold DEF StatusIsTrue, ReportKnown, FilesInv
<1>3. QED BY <1>1, <1>2, ScanNext, IntakeNext, BillNext, FilesNext, PTL DEF Spec

(* Nothing of the tree and no analyzer drops out of sight.                  *)
LEMMA SourcesAreAccounted ==
  ASSUME IntakeInv, WorkKnown, LogKnown, ReportKnown, ToldKnown
  PROVE  SourceAccounted
<1> SUFFICES ASSUME Reported PROVE
      /\ BelowFloor => options.partial
      /\ \A p \in Present \ (plan.units \cup plan.excluded) : <<"gap">> \in report.limitations
      /\ \A p \in plan.excluded : <<ReasonFor(p)>> \in report.limitations
      /\ \A p \in plan.units, a \in AnalyzerNames :
           \/ <<p, a>> \in DOMAIN ended /\ ended[<<p, a>>] = "ok"
           \/ <<p, a>> \in DOMAIN ended /\ <<ended[<<p, a>>], <<p, a>>>> \in report.limitations
           \/ <<"unavailable", a>> \in report.limitations
           \/ <<"stage", "candidates">> \in report.limitations
  BY DEF SourceAccounted
<1>1. stage \in ReportMade /\ report.limitations = Limitations
  BY DEF ReportKnown
<1>2. stage \in Indexed /\ stage \in Collected
  BY <1>1 DEF ReportMade, Indexed, Collected
<1>3. Planned
  BY <1>2 DEF WorkKnown
<1>4. /\ plan.excluded = {p \in Described : ReasonFor(p) # None}
      /\ plan.units = Described \ plan.excluded
      /\ plan.limitations = IntakeLimitations(plan.excluded)
      /\ BelowFloor => options.partial
  BY <1>3 DEF IntakeInv, PlanOfEntries
<1>5. plan.limitations \subseteq Limitations /\ told \subseteq Limitations
      /\ StageLimitations \subseteq Limitations
  BY DEF Limitations
<1>6. ASSUME NEW p \in Present \ (plan.units \cup plan.excluded)
      PROVE  <<"gap">> \in Limitations
  <2>1. p \notin Described
    BY <1>4
  <2>2. Covered # Present
    BY <2>1 DEF Covered
  <2>3. QED BY <1>4, <1>5, <2>2 DEF IntakeLimitations, Gap
<1>7. ASSUME NEW p \in plan.excluded PROVE <<ReasonFor(p)>> \in Limitations
  BY <1>4, <1>5 DEF IntakeLimitations, ExclusionLimitations
<1>8. ASSUME NEW p \in plan.units, NEW a \in AnalyzerNames
      PROVE  \/ <<p, a>> \in DOMAIN ended /\ ended[<<p, a>>] = "ok"
             \/ <<"unavailable", a>> \in Limitations
             \/ <<"stage", "candidates">> \in Limitations
  <2>1. "candidates" \in DOMAIN records /\ records["candidates"] \in {"ok", "degraded", "failed"}
    BY <1>2 DEF LogKnown, RunsLogged, Statuses
  <2>2. CASE records["candidates"] # "ok"
    <3>1. "candidates" \in Broken(records)
      BY <2>1, <2>2 DEF Broken
    <3>2. QED BY <1>5, <3>1 DEF StageLimitations
  <2>3. CASE records["candidates"] = "ok"
    <3>1. Failed = {} /\ DOMAIN ended = PlannedRuns /\ Unavailable \subseteq told
      BY <1>2, <2>3 DEF LogKnown, RunsLogged, ToldKnown
    <3>2. CASE a \in Elements(selected)
      <4>1. <<p, a>> \in PlannedRuns
        BY <3>2 DEF PlannedRuns, Elements
      <4>2. QED BY <3>1, <4>1 DEF Failed, IsFailure
    <3>3. CASE a \notin Elements(selected)
      BY <1>5, <3>1, <3>3 DEF Unavailable
    <3>4. QED BY <3>2, <3>3
  <2>4. QED BY <2>2, <2>3
<1>9. QED BY <1>1, <1>4, <1>6, <1>7, <1>8

(* A candidate agrees with the cluster it is in.                            *)
LEMMA FoundIsReported ==
  ASSUME WorkKnown, LogKnown, ReportKnown
  PROVE  FoundMeansReported
<1> SUFFICES ASSUME Reported PROVE
      /\ DOMAIN report.findings = Candidates
      /\ \A w \in DOMAIN ended, d \in Diagnostics :
           ended[w] = "ok" /\ d \in Full(w) /\ About[d].fate = "citable" =>
             \E m \in merged :
               /\ <<d, w[2]>> \in m.provenance
               /\ \/ Abs(Line(d) - Line(m.first[1])) <= Tolerance
                  \/ index # "empty" /\ About[d].function = About[m.first[1]].function
      /\ \A m, n \in merged : m # n => m.provenance \cap n.provenance = {}
  BY DEF FoundMeansReported
<1>1. stage \in ReportMade /\ report.findings = pipeline /\ stage # "idle"
  BY DEF ReportKnown, Reported
<1>2. stage \in Collected /\ stage # "consent"
  BY <1>1 DEF ReportMade, Collected, FileNames
<1>3. DOMAIN report.findings = Candidates
  BY <1>1, <1>2 DEF LogKnown, AnswersLogged
<1>4. merged = MergeCandidates(Citable, index # "empty") /\ Citable \in SUBSET Citations
  BY <1>2, CitableTyped DEF LogKnown, RunsLogged
<1> DEFINE indexed == index # "empty"
<1>5. /\ \A c \in Citable : \E m \in merged : c \in m.provenance /\ SameDefect(m.first, c, indexed)
      /\ \A m, k \in merged : m # k => m.provenance \cap k.provenance = {}
  BY <1>4, MergedIs
<1>6. ASSUME NEW c, NEW e, SameDefect(c, e, indexed)
      PROVE  \/ Abs(Line(c[1]) - Line(e[1])) <= Tolerance
             \/ index # "empty" /\ About[c[1]].function = About[e[1]].function
  BY <1>6 DEF SameDefect, Symbol
<1>7. ASSUME NEW w \in DOMAIN ended, NEW d \in Diagnostics,
             ended[w] = "ok", d \in Full(w), About[d].fate = "citable"
      PROVE  \E m \in merged :
               /\ <<d, w[2]>> \in m.provenance
               /\ \/ Abs(Line(d) - Line(m.first[1])) <= Tolerance
                  \/ index # "empty" /\ About[d].function = About[m.first[1]].function
  <2>1. d \in artifacts[w]
    BY <1>1, <1>7 DEF WorkKnown
  <2>2. <<d, w[2]>> \in Citable
    BY <1>7, <2>1 DEF Citable, Read, ProducedOutput
  <2>3. PICK m \in merged : <<d, w[2]>> \in m.provenance /\ SameDefect(m.first, <<d, w[2]>>, indexed)
    BY <1>5, <2>2
  <2>4. \/ Abs(Line(m.first[1]) - Line(d)) <= Tolerance
        \/ index # "empty" /\ About[m.first[1]].function = About[d].function
    BY <1>6, <2>3
  <2>5. Abs(Line(m.first[1]) - Line(d)) = Abs(Line(d) - Line(m.first[1]))
    <3>1. m.first \in Citations
      BY <1>4, MergedIs
    <3>2. Line(d) \in Nat /\ Line(m.first[1]) \in Nat
      BY <3>1, TablesOK DEF Citations, DiagnosticOK
    <3>3. QED BY <3>2 DEF Abs
  <2>6. QED BY <2>3, <2>4, <2>5
<1>8. QED BY <1>3, <1>5, <1>7

(* What an analyzer found is reported and what could not be looked at is    *)
(* told, with what was spent, for any tree, tools and mishaps (ScanRun,     *)
(* ReportIsWhole).                                                          *)
THEOREM ReportIsAlwaysWhole == Spec => []ReportIsWhole
<1>1. Init => IntakeInv /\ WorkKnown /\ LogKnown /\ ReportKnown /\ ToldKnown /\ BillInv
  BY ScanInit, IntakeInit, BillInit
<1>2. IntakeInv /\ WorkKnown /\ LogKnown /\ ReportKnown /\ ToldKnown /\ BillInv => ReportIsWhole
  BY SourcesAreAccounted, FoundIsReported DEF ReportIsWhole, BillInv
<1>3. QED BY <1>1, <1>2, ScanNext, IntakeNext, BillNext, PTL DEF Spec
=============================================================================
