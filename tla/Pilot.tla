------------------------------- MODULE Pilot -------------------------------
(* `caudit pilot` (cli/pilot_cmd.py, eval/pilot.py): one analyzer-only         *)
(* evaluation of CASTLE is repeated a fixed number of times over cases drawn   *)
(* once, and the summary says whether the repetitions agreed.  A repetition    *)
(* is a whole `caudit eval --baseline --use-clang` (cli/eval_cmd.py run_eval,  *)
(* application/evaluation.py run_suite) into a directory of its own.           *)
(*                                                                             *)
(* The adapter copies a case out of the corpus checkout when it is loaded and  *)
(* again when its compile commands are written (adapters/castle.py _stage).    *)
EXTENDS Integers, Sequences, FiniteSets, Functions, TLC

CONSTANTS
    Groups,       \* the cases in scope, one set per weakness
    FindsIn,      \* FindsIn[case][version]: what the analyzers say of it
    Repetitions,  \* how many were asked for
    MaxFaults     \* bound on edits of the checkout, failures and pilots

ASSUME PilotAssumption == Repetitions \in Nat \ {0}

VARIABLES
    pilotAt,    \* "idle", "drawn", "loaded", "scanned", "wrote", "summed up", "crashed"
    drawn,      \* the cases drawn
    number,     \* the repetition under way
    ahead,      \* its cases not scanned yet
    finds,      \* case -> what this repetition found
    corpus,     \* the checkout: case -> version, without the cases it lost
    staged,     \* the workspace: case -> version
    raw,        \* what an analyzer last wrote, by repetition and case, also of earlier pilots
    onDisk,     \* repetition -> report, also of earlier pilots
    records,    \* the repetitions of this pilot
    summary,    \* the stability flags
    wrote,      \* history: the reports this pilot wrote
    faults

pilotVars ==
    <<pilotAt, drawn, number, ahead, finds, corpus, staged, raw, onDisk, records, summary, wrote,
      faults>>
NoSummary == [candidates |-> FALSE, corpus |-> FALSE, score |-> FALSE]
Fault == faults < MaxFaults /\ faults' = faults + 1

-----------------------------------------------------------------------------
(* One case per weakness; the seed decides which. *)
DrawCases ==
    /\ pilotAt = "idle" /\ DOMAIN corpus # {}
    /\ \E draw \in SUBSET UNION Groups :
           /\ draw \subseteq DOMAIN corpus
           /\ \A g \in Groups :
                  Cardinality(draw \cap g) = IF g \cap DOMAIN corpus = {} THEN 0 ELSE 1
           /\ drawn' = draw
    /\ pilotAt' = "drawn" /\ number' = 1
    /\ records' = <<>> /\ summary' = NoSummary /\ wrote' = << >>
    /\ ahead' = {} /\ finds' = << >>
    /\ UNCHANGED <<corpus, staged, raw, onDisk, faults>>

(* Every case of the suite is staged when the repetition loads it.  A drawn    *)
(* case the corpus no longer has is a KeyError, which the pilot does not catch *)
LoadCases ==
    /\ pilotAt = "drawn" /\ number <= Repetitions /\ DOMAIN corpus # {}
    /\ pilotAt' = IF drawn \subseteq DOMAIN corpus THEN "loaded" ELSE "crashed"
    /\ staged' = corpus @@ staged
    /\ ahead' = drawn /\ finds' = << >>
    /\ UNCHANGED <<drawn, number, corpus, raw, onDisk, records, summary, wrote, faults>>

Found(all, sure) == [all |-> all, sure |-> sure]

(* Staged again for its compile commands, then analysed and promoted; a        *)
(* finding whose file was staged anew in between is not confirmed.  A case     *)
(* that cannot be analysed finds nothing and the run goes on.  An analyzer     *)
(* that ends without writing is read all the same: what an earlier pilot's     *)
(* analyzer left at the same place counts as what it said.                     *)
LeftAt(case) == IF <<number, case>> \in DOMAIN raw THEN raw[<<number, case>>] ELSE {}
ScanCase ==
    /\ pilotAt = "loaded"
    /\ \E case \in ahead \cap DOMAIN corpus :
           LET all == FindsIn[case][corpus[case]] IN
           /\ ahead' = ahead \ {case} /\ staged' = [staged EXCEPT ![case] = corpus[case]]
           /\ \/ /\ \/ UNCHANGED faults /\ finds' = (case :> Found(all, all)) @@ finds
                    \/ all # {} /\ Fault /\ finds' = (case :> Found(all, {})) @@ finds
                 /\ raw' = (<<number, case>> :> all) @@ raw
              \/ /\ all \cup LeftAt(case) # {} /\ Fault /\ UNCHANGED raw
                 /\ \E sure \in {{}, LeftAt(case)} :
                        finds' \in {(case :> Found({}, {})) @@ finds,
                                   (case :> Found(LeftAt(case), sure)) @@ finds}
    /\ UNCHANGED <<pilotAt, drawn, number, corpus, onDisk, records, summary, wrote>>

(* The suite object of the repetition still knows the case, its file is gone.  *)
ScanLostCase ==
    /\ pilotAt = "loaded"
    /\ \E case \in ahead \ DOMAIN corpus :
           ahead' = ahead \ {case} /\ finds' = (case :> Found({}, {})) @@ finds
    /\ UNCHANGED <<pilotAt, drawn, number, corpus, staged, raw, onDisk, records, summary, wrote, faults>>

(* Scored and written; the corpus is identified now, from the staged files.    *)
(* The score is by what was confirmed.                                         *)
RunReport ==
    [candidates |-> [case \in drawn |-> finds[case].all],
     corpus     |-> [case \in drawn |-> staged[case]],
     score      |-> [case \in drawn |-> Cardinality(finds[case].sure)]]
WithReport(reports) ==
    [n \in DOMAIN reports \cup {number} |-> IF n = number THEN RunReport ELSE reports[n]]
WriteReport ==
    /\ pilotAt = "loaded" /\ ahead = {}
    /\ onDisk' = WithReport(onDisk) /\ wrote' = WithReport(wrote)
    /\ pilotAt' = "wrote"
    /\ UNCHANGED <<drawn, number, ahead, finds, corpus, staged, raw, records, summary, faults>>

(* Mutant: the report is looked for whether or not the run succeeded. *)
RecordOfDirectory(succeeded) ==
    IF number \in DOMAIN onDisk THEN [status |-> "completed", of |-> onDisk[number]]
    ELSE [status |-> "failed", of |-> <<>>]

RecordOf(succeeded) ==
    IF succeeded THEN [status |-> "completed", of |-> onDisk[number]]
    ELSE [status |-> "failed", of |-> <<>>]

RecordRun(succeeded) ==
    /\ records' = Append(records, RecordOf(succeeded))
    /\ number' = number + 1 /\ pilotAt' = "drawn"
    /\ UNCHANGED <<drawn, ahead, finds, corpus, staged, raw, onDisk, summary>>

(* No case at all is an error the pilot does catch.                            *)
EmptySuite ==
    /\ pilotAt = "drawn" /\ number <= Repetitions /\ DOMAIN corpus = {} /\ RecordRun(FALSE)
    /\ UNCHANGED <<wrote, faults>>

Completed == pilotAt = "wrote" /\ RecordRun(TRUE) /\ UNCHANGED <<wrote, faults>>

(* Anything may go wrong before the report is written, or reading it back.     *)
FailedRun ==
    /\ pilotAt \in {"loaded", "wrote"} /\ Fault /\ RecordRun(FALSE)
    /\ wrote' = [n \in DOMAIN wrote \ {number} |-> wrote[n]]

(* Mutant: only the first and the last repetition are compared. *)
AgreeFirstLast(field, done) ==
    \E first, last \in done :
        /\ \A n \in done : first <= n /\ n <= last
        /\ records[first].of[field] = records[last].of[field]

Agree(field, done) ==
    done # {} /\ Cardinality({records[n].of[field] : n \in done}) = 1

SumUp ==
    /\ pilotAt = "drawn" /\ number > Repetitions
    /\ LET done == {n \in DOMAIN records : records[n].status = "completed"} IN
       summary' = [candidates |-> Agree("candidates", done), corpus |-> Agree("corpus", done),
                   score |-> Agree("score", done)]
    /\ pilotAt' = "summed up"
    /\ UNCHANGED <<drawn, number, ahead, finds, corpus, staged, raw, onDisk, records, wrote, faults>>

-----------------------------------------------------------------------------
(* The checkout is updated, or somebody else stages from it, or the pilot is   *)
(* killed, or run again into the same directory.                               *)
UpdateCheckout ==
    /\ pilotAt # "idle" /\ Fault
    /\ \E case \in DOMAIN corpus :
           corpus' \in {[corpus EXCEPT ![case] = 3 - @],
                        [other \in DOMAIN corpus \ {case} |-> corpus[other]]}
    /\ UNCHANGED <<pilotAt, drawn, number, ahead, finds, staged, raw, onDisk, records, summary, wrote>>

StagedElsewhere ==
    /\ pilotAt = "loaded" /\ staged # corpus @@ staged
    /\ staged' = corpus @@ staged
    /\ UNCHANGED <<pilotAt, drawn, number, ahead, finds, corpus, raw, onDisk, records, summary, wrote,
                   faults>>

PilotAgain ==
    /\ pilotAt # "idle" /\ Fault /\ pilotAt' = "idle"
    /\ UNCHANGED <<drawn, number, ahead, finds, corpus, staged, raw, onDisk, records, summary, wrote>>

PilotIdle ==
    /\ pilotAt = "idle" /\ drawn = {} /\ number = 1 /\ ahead = {} /\ finds = << >>
    /\ corpus = [case \in UNION Groups |-> 1] /\ staged = << >> /\ raw = << >> /\ onDisk = << >>
    /\ records = <<>> /\ summary = NoSummary /\ wrote = << >> /\ faults = 0

PilotNext ==
    \/ DrawCases \/ LoadCases \/ EmptySuite \/ ScanCase \/ ScanLostCase \/ WriteReport
    \/ Completed \/ FailedRun \/ SumUp \/ UpdateCheckout \/ StagedElsewhere \/ PilotAgain
PilotSpec == PilotIdle /\ [][PilotNext]_pilotVars

-----------------------------------------------------------------------------
SummedUp == pilotAt = "summed up"

(* A summary has one record per requested repetition, and each is of the       *)
(* report its own run wrote or a failure (pilot_cmd.py, pilot.py               *)
(* every_attempt_is_recorded): the report an earlier pilot left in the         *)
(* directory is never taken for it.  What the report holds is another matter:  *)
(* ScanCase may read analyzer output an earlier pilot left.                    *)
RecordsOwnReport ==
    SummedUp =>
        /\ Len(records) = Repetitions
        /\ \A n \in 1..Repetitions :
               records[n] = IF n \in DOMAIN wrote
                            THEN [status |-> "completed", of |-> wrote[n]]
                            ELSE [status |-> "failed", of |-> <<>>]

(* "Stable" is said of a field exactly when some repetition completed and any  *)
(* two that did agree on it (pilot_cmd.py), whatever failed, was lost or was   *)
(* edited in between.                                                          *)
StableMeansAllAgree ==
    SummedUp =>
        \A f \in DOMAIN summary :
            summary[f] <=> /\ DOMAIN wrote # {}
                           /\ \A m, n \in DOMAIN wrote : wrote[m][f] = wrote[n][f]

(* The summary is of the repetitions that were run, and of all of them      *)
(* (pilot_cmd.py, pilot.py).                                                *)
PilotIsOfItsRuns ==
    /\ RecordsOwnReport
    /\ StableMeansAllAgree
=============================================================================
