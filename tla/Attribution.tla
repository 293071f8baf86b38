---------------------------- MODULE Attribution ----------------------------
(* `caudit attribution` (cli/attribution_cmd.py, eval/attribution.py): the     *)
(* rows A0 to A5 are measured one after the other, each over all cases and in  *)
(* a directory of its own, and compared in one matrix when they are about the  *)
(* same candidates of the same corpus.  A0 promotes what the analyzers said;   *)
(* A1 and A2 show the model a fixed window (eval/naive.py); A3 to A5 retrieve  *)
(* a context (eval/adjudicated.py), A4 and A5 verify the answer, and A5 asks a *)
(* cheap model first.  What happens to one candidate in A3 to A5 is Adjudicate *)
(* and Gate; here it is one step, by its end.                                  *)
EXTENDS Comparison, Functions, FiniteSets, KeyedData

CONSTANTS
    CaseList,       \* the selected cases, in order
    CandidatesAt,   \* CandidatesAt[case][version]: the candidates, in order
    OutOfScope,     \* candidates of no scored family
    Wishes,         \* the command lines
    SchemaAttempts, \* how often an unreadable structured answer is asked again
    MaxSlips        \* bound on mishaps, edits, crashes and unusual answers

(* A candidate is named with its case: no two cases share one. *)
ASSUME AttributionAssumption ==
    /\ CaseList \in Seq(Range(CaseList)) /\ IsInjective(CaseList)
    /\ \A case \in Range(CaseList) : \A v \in {1, 2} :
           CandidatesAt[case][v] \in Seq(Range(CandidatesAt[case][v]))
    /\ \A a, b \in Range(CaseList) : \A v, w \in {1, 2} :
           a # b => Range(CandidatesAt[a][v]) \cap Range(CandidatesAt[b][w]) = {}
    /\ \A w \in Wishes : w.through \in 1..8 /\ w.ceiling \in Nat
    /\ SchemaAttempts \in Nat /\ MaxSlips \in Nat

Stages == <<"A0", "A1", "A2", "A3", "A4", "A5", "A6", "A7">>
Shared == {"candidates", "corpus"}

VARIABLES
    wish,       \* [through, consent, clang, recorded, cache, withheld, ceiling]
    progress,   \* "start", "candidates", "opening", "judging", "refused", "ended"
    stage,      \* the number of the row being measured
    casesLeft, candsLeft,
    found,      \* case -> the version it was analysed at and its candidates
    said,       \* candidate -> [level, version, around]: what was read to say it
    bill,       \* [calls, stop] of this row's account
    answers,    \* the remembered answers, by directory, kind, candidate and version
    saved,      \* the checkpoints, by row and case
    code,       \* the version of each case's candidates' own lines
    elsewhere,  \* the version of what else each case holds, callers and callees
    stages,     \* the reports of the rows measured so far
    matrix,     \* NoRecord, <<>> when refused, or the rows
    served,     \* history: requests the provider answered, by row
    heard,      \* history: the questions that were answered usably
    unkept,      \* history: those whose answer a kill took before it was remembered
    slips

attributionVars ==
    <<wish, progress, stage, casesLeft, candsLeft, found, said, bill, answers, saved, code,
      elsewhere, stages, matrix, served, heard, unkept, slips>>
NoBill == [calls |-> 0, stop |-> FALSE]

Case == Head(casesLeft)
Candidate == Head(candsLeft)
NameOf(n) == Stages[n]
Slip(cost) == slips + cost <= MaxSlips /\ slips' = slips + cost

-----------------------------------------------------------------------------
(* What is asked about a candidate, and where the answer is remembered: a row  *)
(* has its own directory unless the configuration names one.  A1 remembers     *)
(* nothing, and no row does with the cache disabled.  A context shows what is  *)
(* elsewhere in the case, a window shows the lines around the candidate only.  *)
Kinds(n) == IF n = 2 THEN {"text"} ELSE IF n = 3 THEN {"window"}
            ELSE IF n = 6 THEN {"triage", "context"} ELSE {"context"}
Directory(n) == IF wish.cache = "named" THEN 0 ELSE n
Shown(kind) == IF kind \in {"triage", "context"} THEN elsewhere[Case] ELSE 0
Question(kind) == <<Directory(stage), kind, Candidate, code[Case], Shown(kind)>>
Open(n) == {kind \in Kinds(n) : Question(kind) \notin DOMAIN answers}

(* Mutant: the structured window is not remembered either. *)
RemembersContexts(n) == n > 3 /\ wish.cache # "off"

Remembers(n) == n > 2 /\ wish.cache # "off"

(* A finding that was promoted is the analyzer's, unless its own region        *)
(* changed since or no family is scored.                                       *)
Stale == code[Case] # found[Case].version
Promoted(c) == IF Stale \/ c \in OutOfScope THEN "review" ELSE "confirmed"

(* The window controls confirm what the analyzer said or set it aside.         *)
ByWindow(verdict) == IF verdict = "confirmed" THEN Promoted(Candidate) ELSE "review"

(* The pipeline verifies in A4 and A5; A3 has its answers and does not look at *)
(* them.                                                                       *)
ByContext(verdict) ==
    IF stage = 4 THEN Promoted(Candidate)
    ELSE IF verdict = "confirmed" /\ ~ Stale THEN "confirmed" ELSE "review"
Level(verdict) == IF stage < 4 THEN ByWindow(verdict) ELSE ByContext(verdict)

Outcome(level) == [level |-> level, version |-> code[Case], around |-> elsewhere[Case]]
Saying(c, level) == Put(said, c, Outcome(level))
PromoteAll(cs) == Over([c \in Range(cs) |-> Outcome(Promoted(c))], said)

Stopped == bill.stop \/ bill.calls >= wish.ceiling

-----------------------------------------------------------------------------
(* Refused before anything is asked: a row that is not implemented, cases      *)
(* without a recording, model rows without consent.                            *)
Refusable == \/ wish.through > 6
             \/ ~ wish.clang /\ ~ wish.recorded
             \/ wish.through > 1 /\ ~ wish.consent

Begin ==
    /\ progress = "start"
    /\ progress' = IF Refusable THEN "refused" ELSE "candidates"
    /\ stages' = << >> /\ matrix' = NoRecord
    /\ stage' = 1 /\ casesLeft' = CaseList /\ candsLeft' = <<>>
    /\ found' = << >> /\ said' = << >> /\ bill' = NoBill
    /\ UNCHANGED <<wish, answers, saved, code, elsewhere, served, heard, unkept, slips>>

(* Each row finds its candidates again.                                        *)
FoundIn(list) ==
    /\ found' = Put(found, Case, [version |-> code[Case], list |-> list])
    /\ progress' = "opening"
    /\ UNCHANGED <<wish, stage, casesLeft, candsLeft, said, bill, answers, saved, code,
                   elsewhere, stages, matrix, served, heard, unkept>>

(* A recorded diagnostic whose lines are gone is left out.                     *)
ReplayRecording ==
    /\ progress = "candidates" /\ casesLeft # <<>> /\ ~ wish.clang
    /\ FoundIn(CandidatesAt[Case][code[Case]])
    /\ UNCHANGED slips

(* The profiled source loses a case it cannot analyse, or what an analyzer     *)
(* that failed would have said, and goes on.                                   *)
RunProfile ==
    /\ progress = "candidates" /\ casesLeft # <<>> /\ wish.clang
    /\ LET all == CandidatesAt[Case][code[Case]] IN
       \E kept \in 0..Len(all) :
           FoundIn(SubSeq(all, 1, kept)) /\ Slip(IF kept < Len(all) THEN 1 ELSE 0)

(* Mutant: a case that could not be indexed has no findings. *)
NoneOf(cs) == said

PromoteOnly(cs) == PromoteAll(cs)

NextCase == progress' = "candidates" /\ casesLeft' = Tail(casesLeft) /\ candsLeft' = <<>>

PromoteControl ==
    /\ progress = "opening" /\ stage = 1
    /\ said' = PromoteAll(found[Case].list) /\ NextCase
    /\ UNCHANGED <<wish, stage, found, bill, answers, saved, code, elsewhere, stages, matrix,
                   served, heard, unkept, slips>>

Unindexed ==
    /\ progress = "opening" /\ stage > 3 /\ Slip(1)
    /\ said' = PromoteOnly(found[Case].list) /\ NextCase
    /\ UNCHANGED <<wish, stage, found, bill, answers, saved, code, elsewhere, stages, matrix,
                   served, heard, unkept>>

(* Mutant: a checkpoint is resumed whatever it was about. *)
AnyExperiment(state) == TRUE

(* The identity of a checkpoint is of the candidates, their own lines included, *)
(* and of the configuration.                                                    *)
SameExperiment(state) == state.found = found[Case]

(* Mutant: what was spent before is added to what was spent since. *)
RestoredAdded(state) == [calls |-> bill.calls + state.calls, stop |-> FALSE]

(* The account is overwritten: the checkpoint holds what the whole row had     *)
(* spent when it was saved.                                                    *)
RestoredBill(state) == [calls |-> state.calls, stop |-> FALSE]

OpenCase ==
    /\ progress = "opening" /\ stage > 1
    /\ IF stage > 3 /\ <<stage, Case>> \in DOMAIN saved
       THEN LET state == saved[<<stage, Case>>] IN
            /\ progress' = IF SameExperiment(state) THEN "judging" ELSE "refused"
            /\ said' = IF SameExperiment(state) THEN Over(state.said, said) ELSE said
            /\ bill' = IF SameExperiment(state) THEN RestoredBill(state) ELSE bill
            /\ candsLeft' = AtPlaces(found[Case].list,
                                   {i \in DOMAIN found[Case].list :
                                       found[Case].list[i] \notin DOMAIN state.said})
       ELSE /\ progress' = "judging" /\ candsLeft' = found[Case].list
            /\ UNCHANGED <<said, bill>>
    /\ UNCHANGED <<wish, stage, casesLeft, found, answers, saved, code, elsewhere, stages,
                   matrix, served, heard, unkept, slips>>

-----------------------------------------------------------------------------
Judging == progress = "judging" /\ candsLeft # <<>>
Done(level) == said' = Saying(Candidate, level) /\ candsLeft' = Tail(candsLeft)

(* The checkpoint of a case is written after each answer, with every outcome   *)
(* the case has so far.                                                        *)
Saves ==
    saved' = IF stage < 4 THEN saved
             ELSE Put(saved, <<stage, Case>>,
                      [found |-> found[Case], calls |-> bill'.calls,
                       said |-> [c \in DOMAIN said' \cap Range(found[Case].list) |-> said'[c]]])

(* A3 to A5 ask nothing once the account has stopped; A1 and A2 do not look.   *)
Refuse ==
    /\ Judging /\ stage > 3 /\ Stopped /\ Done("review")
    /\ UNCHANGED <<wish, progress, stage, casesLeft, found, bill, answers, saved, code,
                   elsewhere, stages, matrix, served, heard, unkept, slips>>

(* A candidate in an excluded file is left to review by the window controls;   *)
(* the prompt of A3 to A5 is refused for it, which ends the whole command.     *)
Withheld == Judging /\ Candidate \in wish.withheld
Withhold ==
    /\ Withheld /\ stage < 4 /\ Done("review")
    /\ UNCHANGED <<wish, progress, stage, casesLeft, found, bill, answers, saved, code,
                   elsewhere, stages, matrix, served, heard, unkept, slips>>
RaisePrivacy ==
    /\ Withheld /\ stage > 3 /\ ~ Stopped /\ progress' = "refused"
    /\ UNCHANGED <<wish, stage, casesLeft, candsLeft, found, said, bill, answers, saved, code,
                   elsewhere, stages, matrix, served, heard, unkept, slips>>

Asking == Judging /\ Candidate \notin wish.withheld /\ (stage > 3 => ~ Stopped)
Dismissed ==
    stage = 6 /\ "triage" \notin Open(6) /\ answers[Question("triage")] = "dismissed"
Deciding == IF stage = 2 THEN "text" ELSE IF stage = 3 THEN "window" ELSE "context"

Recall ==
    /\ Asking /\ Open(stage) = {} /\ ~ Dismissed /\ bill' = bill
    /\ Done(Level(answers[Question(Deciding)])) /\ Saves
    /\ UNCHANGED <<wish, progress, stage, casesLeft, found, answers, code, elsewhere, stages,
                   matrix, served, heard, unkept, slips>>

Learn(new) ==
    /\ answers' = IF Remembers(stage) THEN Over(new, answers) ELSE answers
    /\ heard' = heard \cup DOMAIN new /\ UNCHANGED unkept
Spend(n, stop) ==
    /\ bill' = [calls |-> bill.calls + n, stop |-> stop]
    /\ served' = [served EXCEPT ![stage] = @ + n]

(* What the tier below dismissed keeps what the analyzer said. *)
Dismiss ==
    /\ Asking /\ stage = 6
    /\ \/ Dismissed /\ UNCHANGED <<bill, answers, served, heard, unkept, slips>>
       \/ /\ "triage" \in Open(6) /\ Slip(1) /\ Spend(1, FALSE)
          /\ Learn([q \in {Question("triage")} |-> "dismissed"])
    /\ Done(Promoted(Candidate))
    /\ UNCHANGED <<wish, progress, stage, casesLeft, found, saved, code, elsewhere, stages,
                   matrix>>

(* Every question that is still open is asked; the usual answer confirms. A    *)
(* triage that fails is done without.                                          *)
Verdicts == IF Deciding \notin Open(stage) THEN {answers[Question(Deciding)]}
            ELSE {"confirmed", "declined"} \cup (IF stage > 3 THEN {"ungrounded"} ELSE {})
Answer ==
    /\ Asking /\ Open(stage) # {} /\ ~ Dismissed
    /\ \E verdict \in Verdicts, asked \in {Open(stage), Open(stage) \ {"triage"}} :
           /\ Slip(IF asked = Open(stage) /\ (verdict = "confirmed" \/ Deciding \notin asked)
                   THEN 0 ELSE 1)
           /\ Spend(Cardinality(asked), FALSE)
           /\ Learn([q \in {Question(kind) : kind \in asked} |->
                       IF q[2] = "triage" THEN "worth it" ELSE verdict])
           /\ Done(Level(verdict))
    /\ Saves
    /\ UNCHANGED <<wish, progress, stage, casesLeft, found, code, elsewhere, stages, matrix>>

(* No usable answer: the provider is silent, what it says cannot be read, or   *)
(* the quota refuses to ask.                                                   *)
NoAnswer ==
    /\ Asking /\ Deciding \in Open(stage) /\ ~ Dismissed /\ Slip(1)
    /\ \E triaged \in SUBSET (Open(stage) \cap {"triage"}),
          spent \in {0, IF stage = 2 THEN 1 ELSE SchemaAttempts}, quota \in BOOLEAN :
           /\ quota => spent = 0
           /\ Spend(Cardinality(triaged) + spent, quota)
           /\ Learn([q \in {Question(kind) : kind \in triaged} |-> "worth it"])
    /\ Done("review")
    /\ UNCHANGED <<wish, progress, stage, casesLeft, found, saved, code, elsewhere, stages,
                   matrix>>

(* The run is killed while a candidate is asked about: the last answer came    *)
(* and was charged, and is remembered or not (a file cut short is no answer);  *)
(* nothing of the candidate reached the checkpoint.                            *)
LastOf(asked) == IF asked = {"triage"} THEN asked ELSE asked \ {"triage"}
TriageWords(asked) == {"worth it"} \cup (IF asked = {"triage"} THEN {"dismissed"} ELSE {})
KilledAsking ==
    /\ Asking /\ Open(stage) # {} /\ ~ Dismissed /\ Slip(1)
    /\ \E asked \in {Open(stage) \cap {"triage"}, Open(stage), Open(stage) \ {"triage"}} \ {{}} :
       \E kept \in {asked, asked \ LastOf(asked)},
          word \in TriageWords(asked),
          verdict \in {"confirmed", "declined"} :
           /\ served' = [served EXCEPT ![stage] = @ + Cardinality(asked)]
           /\ answers' = IF Remembers(stage)
                         THEN Over([q \in {Question(kind) : kind \in kept} |->
                                       IF q[2] = "triage" THEN word ELSE verdict], answers)
                         ELSE answers
           /\ heard' = heard \cup {Question(kind) : kind \in asked}
           /\ unkept' = unkept \cup {Question(kind) : kind \in asked \ kept}
    /\ progress' = "start"
    /\ UNCHANGED <<wish, stage, casesLeft, candsLeft, found, said, bill, saved, code, elsewhere,
                   stages, matrix>>

CloseCase ==
    /\ progress = "judging" /\ candsLeft = <<>> /\ NextCase
    /\ UNCHANGED <<wish, stage, found, said, bill, answers, saved, code, elsewhere, stages,
                   matrix, served, heard, unkept, slips>>

-----------------------------------------------------------------------------
Count(level) == Cardinality({c \in DOMAIN said : said[c].level = level})
RowReport ==
    [experiment |-> [condition |-> NameOf(stage), candidates |-> found, corpus |-> <<code, elsewhere>>],
     confirmed |-> Count("confirmed"), review |-> Count("review"), calls |-> bill.calls]

(* The corpus, every source file of every case, is identified when the row is  *)
(* written, and not when its candidates were judged.                           *)
WriteRow ==
    /\ progress = "candidates" /\ casesLeft = <<>> /\ NameOf(stage) \notin DOMAIN stages
    /\ stages' = Put(stages, NameOf(stage), RowReport)
    /\ IF stage = wish.through THEN UNCHANGED <<stage, casesLeft, found, said, bill>>
       ELSE /\ stage' = stage + 1 /\ casesLeft' = CaseList
            /\ found' = << >> /\ said' = << >> /\ bill' = NoBill
    /\ UNCHANGED <<wish, progress, candsLeft, answers, saved, code, elsewhere, matrix, served,
                   heard, unkept, slips>>

(* Mutant: the candidate set is compared and the corpus is not. *)
AgreesOnCandidates(name) ==
    stages[name].experiment.candidates = stages["A0"].experiment.candidates

AgreesWithControl(name) ==
    \A f \in Shared : stages[name].experiment[f] = stages["A0"].experiment[f]

RowStatus(name) == IF name \in DOMAIN stages THEN "measured"
                   ELSE IF name \in {"A6", "A7"} THEN "deferred" ELSE "not_run"

(* One row per stage, in order, once every selected one was measured.          *)
BuildAttributionMatrix ==
    /\ progress = "candidates" /\ casesLeft = <<>> /\ NameOf(wish.through) \in DOMAIN stages
    /\ matrix' = IF \A name \in DOMAIN stages : AgreesWithControl(name)
                 THEN [n \in DOMAIN Stages |->
                          [stage |-> NameOf(n), status |-> RowStatus(NameOf(n)),
                           report |-> IF NameOf(n) \in DOMAIN stages
                                      THEN stages[NameOf(n)] ELSE NoRecord]]
                 ELSE <<>>
    /\ progress' = "ended"
    /\ UNCHANGED <<wish, stage, casesLeft, candsLeft, found, said, bill, answers, saved, code,
                   elsewhere, stages, served, heard, unkept, slips>>

-----------------------------------------------------------------------------
EditCase ==
    /\ progress \in {"candidates", "opening", "judging", "ended"} /\ Slip(1)
    /\ \E case \in DOMAIN code :
           \/ code' = [code EXCEPT ![case] = 3 - @] /\ UNCHANGED elsewhere
           \/ elsewhere' = [elsewhere EXCEPT ![case] = 3 - @] /\ UNCHANGED code
    /\ UNCHANGED <<wish, progress, stage, casesLeft, candsLeft, found, said, bill, answers,
                   saved, stages, matrix, served, heard, unkept>>

(* The run is killed, or has ended, and the same command is given again.       *)
Again ==
    /\ progress \in {"candidates", "opening", "judging", "ended"} /\ Slip(1)
    /\ progress' = "start"
    /\ UNCHANGED <<wish, stage, casesLeft, candsLeft, found, said, bill, answers, saved, code,
                   elsewhere, stages, matrix, served, heard, unkept>>

AttributionInit ==
    /\ wish \in Wishes /\ progress = "start" /\ stage = 1
    /\ casesLeft = <<>> /\ candsLeft = <<>> /\ found = << >> /\ said = << >> /\ bill = NoBill
    /\ answers = << >> /\ saved = << >> /\ code = [case \in Range(CaseList) |-> 1]
    /\ elsewhere = code /\ unkept = {}
    /\ stages = << >> /\ matrix = NoRecord
    /\ served = [n \in 1..6 |-> 0] /\ heard = {} /\ slips = 0

AttributionNext ==
    \/ Begin \/ ReplayRecording \/ RunProfile \/ PromoteControl \/ Unindexed \/ OpenCase
    \/ Refuse \/ Withhold \/ RaisePrivacy
    \/ Recall \/ Dismiss \/ Answer \/ NoAnswer \/ KilledAsking \/ CloseCase
    \/ WriteRow \/ BuildAttributionMatrix
    \/ EditCase \/ Again

AttributionSpec == AttributionInit /\ [][AttributionNext]_attributionVars

-----------------------------------------------------------------------------
Compared == matrix # NoRecord /\ matrix # <<>>

(* Any two measured rows of one matrix had the same candidates, and the same   *)
(* corpus lay there when they were written (attribution.py), whatever was      *)
(* edited while the rows were measured.  That each verdict was given on that   *)
(* corpus is more than the identities can tell: see RestoredIsCurrent.         *)
MatrixOneExperiment ==
    Compared => \A a, b \in DOMAIN stages : \A f \in Shared :
                    stages[a].experiment[f] = stages[b].experiment[f]

(* A candidate the control counted is in every row of the matrix, confirmed or *)
(* for review: neither an index that failed, nor a provider that was silent,   *)
(* nor a stopped account, nor a resumed checkpoint drops one                   *)
(* (pipeline.py adjudicate_candidates, adjudicated.py findings_for).           *)
NothingLostBetweenRows ==
    Compared => \A name \in DOMAIN stages :
        stages[name].confirmed + stages[name].review
            = stages["A0"].confirmed + stages["A0"].review

(* What a row confirms was judged while the candidate's own lines were as they *)
(* were when it was found (promotion.py _region_is_stale, checkpoint.py load): *)
(* an edit of them between finding and judging, or between a run and its       *)
(* resumption, never leaves an old verdict standing.                           *)
ConfirmedAsFound ==
    \A case \in DOMAIN found : \A c \in Range(found[case].list) \cap DOMAIN said :
        said[c].level = "confirmed" => said[c].version = found[case].version

(* A checkpoint is restored only for the inputs that affect its answers        *)
(* (checkpoint.py checkpoint_identity): what it takes over was said about the  *)
(* case as it is now, callers and callees the context showed included.         *)
RestoredIsCurrent ==
    [][progress = "opening" /\ progress' = "judging" =>
          \A c \in DOMAIN said' \ DOMAIN said :
              said'[c].around = elsewhere[Case]]_attributionVars

(* A row's bill is never more than the provider ever answered for that row,    *)
(* however often the run was resumed (checkpoint.py restore_account), and no   *)
(* less when it was not (accounting.py): costs of two rows can be compared.    *)
RowPaysForItself ==
    \A n \in 1..6 : NameOf(n) \in DOMAIN stages =>
        /\ stages[NameOf(n)].calls <= served[n]
        /\ slips = 0 => stages[NameOf(n)].calls = served[n]

(* From A2 on a question that was answered usably is sent again, in this run   *)
(* or a later one in the same directory, only if a kill took its answer before *)
(* it was remembered, or the cache is disabled (attempts.py, cache.py): a run  *)
(* that is repeated costs the answers it did not keep and no others.           *)
NotAskedTwice ==
    [][\A n \in 3..6 : served'[n] # served[n] =>
          \A kind \in Open(n) :
              Question(kind) \in heard => Question(kind) \in unkept \/ wish.cache = "off"
      ]_attributionVars

(* Rows of one matrix differ by the capability that was added, and by       *)
(* nothing that was lost, stale or paid for by another row.                 *)
RowsAreComparable ==
    /\ MatrixOneExperiment
    /\ NothingLostBetweenRows
    /\ ConfirmedAsFound
    /\ RowPaysForItself
=============================================================================
