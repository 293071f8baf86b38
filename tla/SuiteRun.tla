------------------------------- MODULE SuiteRun -------------------------------
(***************************************************************************)
(* A resumable run over the cases of a suite: run_suite calls              *)
(* AdjudicatedSource.findings_for case by case, and adjudicate_candidates  *)
(* visits the candidates of a case in a fixed order, spends the retrieval  *)
(* ledger, adjudicates, verifies, and checkpoints                          *)
(* (application/evaluation.py, eval/adjudicated.py,                        *)
(* application/pipeline.py, llm/checkpoint.py).  The process may be killed *)
(* between any two steps and the command run again in the same directory.  *)
(***************************************************************************)
EXTENDS Adjudicate, ContextBudget

CONSTANTS
    Cases,                \* the number of cases, visited 1..Cases
    Order,                \* candidates of each case by sort_candidates, ids apart
    Unindexed,            \* cases with no compilation database or no index
    Primary, Optional,    \* token estimates of each candidate's units
    MaxUnits,             \* retrieval policy: units in one context
    Promotable,           \* candidates promotion alone would confirm
    Volatile,             \* candidates whose source may be edited while it is read
    VerificationEnabled,  \* whether proposals go through the gate
    MaxCrashes            \* bound: how often the process is killed

Names == UNION { {Order[c][i] : i \in 1..Len(Order[c])} : c \in 1..Cases }

(* expand(): what one candidate's question looks like under an allowance.   *)
Context(name, allowance) ==
    LET kept == Select(Primary[name], Optional[name], allowance, MaxUnits)
    IN  [name |-> name, units |-> kept.units, tokens |-> kept.tokens]

ASSUME SuiteAssumption ==
    /\ Cases \in Nat
    /\ DOMAIN Order = 1..Cases
    /\ \A c \in 1..Cases : Order[c] \in Seq(Names)
    /\ \A c \in 1..Cases : \A i, j \in 1..Len(Order[c]) : Order[c][i] = Order[c][j] => i = j
    /\ Unindexed \subseteq 1..Cases
    /\ Primary \in [Names -> Seq(Nat)] /\ Optional \in [Names -> Seq(Nat)]
    /\ Promotable \subseteq Names
    /\ Volatile \subseteq Names
    /\ VerificationEnabled \in BOOLEAN
    /\ MaxCrashes \in Nat
    /\ \A name \in Names, allowance \in 0..PerCandidate :
        Context(name, allowance) \in Questions
    /\ \A q \in Questions : q.tokens \in Nat /\ (q \in Adjudicable <=> q.units > 0)

VARIABLES
    run,        \* where the process is: the case, the candidate, the phase
    ledger,     \* the retrieval ledger of the current case
    outcomes,   \* what the current case has produced so far
    disk,       \* the checkpoint file of each case
    published,  \* the findings of each finished case, held in memory
    crashes     \* bound counter

vars == <<account, cache, req, wire, cand, run, ledger, outcomes, disk, published, crashes>>

FreshLedger == [spent |-> 0, starved |-> {}]

Init ==
    /\ AdjudicateInit
    /\ run = [phase |-> "case", case |-> 1, at |-> 1]
    /\ ledger = FreshLedger
    /\ outcomes = <<>>
    /\ disk = [c \in 1..Cases |-> None]
    /\ published = [c \in 1..Cases |-> None]
    /\ crashes = 0

-----------------------------------------------------------------------------
(* RunLedger: the retrieval budget of one call of adjudicate_candidates.    *)
Remaining == IF PerRun > ledger.spent THEN PerRun - ledger.spent ELSE 0
Exhausted == Remaining = 0
(* Mutant: a candidate's allowance ignores what the run has left.           *)
AllowanceFull == PerCandidate

Allowance == IF PerCandidate < Remaining THEN PerCandidate ELSE Remaining

Here == Order[run.case][run.at]

(* An outcome, reduced to what is reported and counted.  answered records   *)
(* whether a model's proposal really stands behind it; a restored outcome   *)
(* has lost that and only says resumed.                                     *)
Outcome(name, reason, confirmed, answered) ==
    [name |-> name, reason |-> reason, confirmed |-> confirmed,
     answered |-> answered, resumed |-> FALSE]

(* _refused(): the analyzer's claim survives, unless the reason blocks.     *)
RefusedOutcome(name, reason) ==
    Outcome(name, reason, reason = "analyzer_only" /\ name \in Promotable, FALSE)

Resume(entries) == [i \in DOMAIN entries |-> [entries[i] EXCEPT !.resumed = TRUE]]

(* Mutant: completed candidates are not skipped.                            *)
CompletedNone == {}

Completed == {outcomes[i].name : i \in {j \in DOMAIN outcomes : outcomes[j].resumed}}

-----------------------------------------------------------------------------
(* Mutant: a claim that promotion alone does not confirm stops the case.    *)
PromoteCaseOrRaise ==
    /\ run.phase = "case"
    /\ run.case \in Unindexed
    /\ \A i \in DOMAIN Order[run.case] : Order[run.case][i] \in Promotable
    /\ published' = [published EXCEPT ![run.case] =
           [i \in DOMAIN Order[run.case] |->
               Outcome(Order[run.case][i], None, TRUE, FALSE)]]
    /\ run' = [run EXCEPT !.case = @ + 1]
    /\ UNCHANGED <<account, cache, req, wire, cand, ledger, outcomes, disk, crashes>>

(* A case that cannot be indexed is scored on the analyzers alone.          *)
PromoteCase ==
    /\ run.phase = "case"
    /\ run.case \in Unindexed
    /\ published' = [published EXCEPT ![run.case] =
           [i \in DOMAIN Order[run.case] |->
               LET name == Order[run.case][i]
               IN  Outcome(name, None, name \in Promotable, FALSE)]]
    /\ run' = [run EXCEPT !.case = @ + 1]
    /\ UNCHANGED <<account, cache, req, wire, cand, ledger, outcomes, disk, crashes>>

(* The head of adjudicate_candidates without a checkpoint on disk.          *)
StartCase ==
    /\ run.phase = "case"
    /\ run.case \in 1..Cases \ Unindexed
    /\ disk[run.case] = None
    /\ ledger' = FreshLedger
    /\ outcomes' = <<>>
    /\ run' = [run EXCEPT !.phase = "visit", !.at = 1]
    /\ UNCHANGED <<account, cache, req, wire, cand, disk, published, crashes>>

(* Mutant: the retrieval ledger starts again with every process.            *)
RestoredLedgerFresh(saved) == FreshLedger

RestoredLedger(saved) == [spent |-> saved.spent, starved |-> saved.starved]

(* ... and with one: both ledgers and the outcomes come back from it.  The  *)
(* account is the one of the whole suite, and is replaced all the same: the *)
(* request quota starts again at zero, and what this process had sent and   *)
(* been charged for earlier cases is no longer counted.                     *)
ResumeCase ==
    /\ run.phase = "case"
    /\ run.case \in 1..Cases \ Unindexed
    /\ disk[run.case] # None
    /\ LET saved == disk[run.case]
       IN  /\ account' = Restored(saved.account)
           /\ ledger' = RestoredLedger(saved)
           /\ outcomes' = Resume(saved.entries)
           /\ wire' = [wire EXCEPT !.dropped = wire.window,
                                   !.base = saved.account.quotaTokens,
                                   !.used = 0, !.lost = 0]
    /\ run' = [run EXCEPT !.phase = "visit", !.at = 1]
    /\ UNCHANGED <<cache, req, cand, disk, published, crashes>>

Visiting == run.phase = "visit" /\ run.at <= Len(Order[run.case])

SkipCompleted ==
    /\ Visiting
    /\ Here \in Completed
    /\ run' = [run EXCEPT !.at = @ + 1]
    /\ UNCHANGED <<account, cache, req, wire, cand, ledger, outcomes, disk, published, crashes>>

Starve ==
    /\ Visiting
    /\ Here \notin Completed
    /\ Exhausted
    /\ ledger' = [ledger EXCEPT !.starved = @ \cup {Here}]
    /\ outcomes' = Append(outcomes, RefusedOutcome(Here, "run_budget_exhausted"))
    /\ run' = [run EXCEPT !.at = @ + 1]
    /\ UNCHANGED <<account, cache, req, wire, cand, disk, published, crashes>>

(* Retrieval is paid for before the model is asked, whatever the answer.    *)
Expand ==
    /\ Visiting
    /\ Here \notin Completed
    /\ ~Exhausted
    /\ LET q == Context(Here, Allowance)
       IN  /\ ledger' = [ledger EXCEPT !.spent = @ + q.tokens]
           /\ Present(q)
    /\ run' = [run EXCEPT !.phase = "ask"]
    /\ UNCHANGED <<outcomes, disk, published, crashes>>

(* A file edited between the two reads of one of its units: the RegionError *)
(* of the second read leaves expand() and the run.                          *)
ExpandRaises ==
    /\ Visiting
    /\ Here \in Volatile \ Completed
    /\ ~Exhausted
    /\ run' = [run EXCEPT !.phase = "raised"]
    /\ UNCHANGED <<account, cache, req, wire, cand, ledger, outcomes, disk, published, crashes>>

AdjudicateHere ==
    /\ run.phase = "ask"
    /\ AdjudicateStep
    /\ UNCHANGED <<run, ledger, outcomes, disk, published, crashes>>

Concluded == run.phase = "ask" /\ cand.phase = "done"

(* Mutant: a candidate without a proposal leaves no outcome.                *)
SettleRefusedDropped ==
    /\ Concluded
    /\ cand.result.proposal = None
    /\ run' = [run EXCEPT !.phase = "visit", !.at = @ + 1]
    /\ UNCHANGED <<account, cache, req, wire, cand, ledger, outcomes, disk, published, crashes>>

(* No proposal: the outcome is kept in memory and not checkpointed.         *)
SettleRefused ==
    /\ Concluded
    /\ cand.result.proposal = None
    /\ outcomes' = Append(outcomes, RefusedOutcome(Here, cand.result.reason))
    /\ run' = [run EXCEPT !.phase = "visit", !.at = @ + 1]
    /\ UNCHANGED <<account, cache, req, wire, cand, ledger, disk, published, crashes>>

(* A proposal: the gate may accept a confirmation or refuse it.             *)
Gate(name, proposal) ==
    IF ~VerificationEnabled THEN {name \in Promotable}
    ELSE IF proposal.verdict = "confirmed" THEN BOOLEAN
    ELSE {FALSE}

SettleProposal ==
    /\ Concluded
    /\ cand.result.proposal # None
    /\ \E confirmed \in Gate(Here, cand.result.proposal) :
        outcomes' = Append(outcomes, Outcome(Here, None, confirmed, TRUE))
    /\ run' = [run EXCEPT !.phase = "save"]
    /\ UNCHANGED <<account, cache, req, wire, cand, ledger, disk, published, crashes>>

(* CheckpointStore.save(): written aside and renamed over the old file.     *)
Save ==
    /\ run.phase = "save"
    /\ disk' = [disk EXCEPT ![run.case] =
           [entries |-> [i \in DOMAIN outcomes |-> [outcomes[i] EXCEPT !.resumed = FALSE]],
            account |-> [account EXCEPT !.quotaRequests = 0, !.stop = "none"],
            spent |-> ledger.spent, starved |-> ledger.starved]]
    /\ run' = [run EXCEPT !.phase = "visit", !.at = @ + 1]
    /\ UNCHANGED <<account, cache, req, wire, cand, ledger, outcomes, published, crashes>>

CloseCase ==
    /\ run.phase = "visit"
    /\ run.at > Len(Order[run.case])
    /\ published' = [published EXCEPT ![run.case] = outcomes]
    /\ run' = [run EXCEPT !.phase = "case", !.case = @ + 1]
    /\ UNCHANGED <<account, cache, req, wire, cand, ledger, outcomes, disk, crashes>>

(* The process is killed, or has ended by an exception, and the command is  *)
(* run again: what was in memory is gone, the response cache and the        *)
(* checkpoints are not.                                                     *)
Crash ==
    /\ run.case <= Cases
    /\ crashes < MaxCrashes
    /\ crashes' = crashes + 1
    /\ account' = NewAccount
    /\ req' = NoRequest
    /\ cand' = NoCandidate
    /\ wire' = QuietWire
    /\ run' = [phase |-> "case", case |-> 1, at |-> 1]
    /\ ledger' = FreshLedger
    /\ outcomes' = <<>>
    /\ published' = [c \in 1..Cases |-> None]
    /\ UNCHANGED <<cache, disk>>

Work ==
    \/ PromoteCase
    \/ StartCase
    \/ ResumeCase
    \/ SkipCompleted
    \/ Starve
    \/ Expand
    \/ ExpandRaises
    \/ AdjudicateHere
    \/ SettleRefused
    \/ SettleProposal
    \/ Save
    \/ CloseCase

(* Every case has been scored: the run is over.                             *)
Finished == run.case > Cases

(* An exception has left adjudicate_candidates(): the process has ended     *)
(* without scoring the case or any after it.                                *)
Raised == run.phase = "raised" \/ (run.phase = "ask" /\ cand.phase = "raised")

Next ==
    \/ Work
    \/ Crash
    \/ (Finished \/ Raised) /\ UNCHANGED vars

(* One thread works through the suite; provider calls return or time out.   *)
Spec == Init /\ [][Next]_vars /\ WF_vars(Work)
-----------------------------------------------------------------------------
Checkpoint ==
    [entries : Seq([name : Names, reason : Reasons \cup {None}, confirmed : BOOLEAN,
                    answered : BOOLEAN, resumed : {FALSE}]),
     account : Account, spent : 0..PerRun, starved : SUBSET Names]

OutcomeSet ==
    [name : Names, reason : Reasons \cup {None}, confirmed : BOOLEAN,
     answered : BOOLEAN, resumed : BOOLEAN]

ASSUME NoneAssumption ==
    /\ None \notin Names \cup Reasons
    /\ None \notin Seq(Names) /\ None \notin Seq(OutcomeSet)
    /\ None \notin [entries : Seq(OutcomeSet), account : Account, spent : Nat,
                    starved : SUBSET Names]

(* The domains.  The retrieval ledger's own ceiling is part of them: what   *)
(* is spent on a case never passes token_budget.per_run, because the        *)
(* allowance handed to expand never passes what remains (RunLedger).        *)
TypeOK ==
    /\ AdjudicateTypeOK
    /\ run \in [phase : {"case", "visit", "ask", "save", "raised"},
                case : 1..(Cases + 1), at : Nat]
    /\ ledger \in [spent : 0..PerRun, starved : SUBSET Names]
    /\ outcomes \in Seq(OutcomeSet)
    /\ disk \in [1..Cases -> Checkpoint \cup {None}]
    /\ published \in [1..Cases -> Seq(OutcomeSet) \cup {None}]
    /\ crashes \in 0..MaxCrashes

(* What an uninterrupted run has spent on the first i candidates of a case. *)
Allowed(spent) ==
    IF PerCandidate < PerRun - spent THEN PerCandidate ELSE PerRun - spent

SpentAfter(name, spent) ==
    IF spent = PerRun THEN PerRun ELSE spent + Context(name, Allowed(spent)).tokens

SpentOn(c) ==
    LET spent[i \in 0..Len(Order[c])] ==
          IF i = 0 THEN 0 ELSE SpentAfter(Order[c][i], spent[i - 1])
    IN  spent

(* However often the run was killed and resumed, a candidate is put to the  *)
(* model with exactly the context an uninterrupted run would have given it: *)
(* the restored ledger, and the candidates given up since the last          *)
(* checkpoint and expanded again, leave the same allowance.                 *)
SameQuestionAfterResume ==
    run.phase = "ask" =>
        cand.q = Context(Here, Allowed(SpentOn(run.case)[run.at - 1]))

(* A candidate with a checkpointed result is never put to a model again,    *)
(* whether or not the response cache still has its answer.                  *)
SavedNotAskedAgain ==
    run.phase = "ask" /\ disk[run.case] # None =>
        \A i \in DOMAIN disk[run.case].entries : disk[run.case].entries[i].name # Here

(* The run implements the abstract promise of SuiteReport: durable results  *)
(* in visit order, each candidate reported exactly once per case.           *)
NamesOf(results) == [i \in DOMAIN results |-> results[i].name]

Report == INSTANCE SuiteReport WITH
    Unset <- None,
    durable <- [c \in 1..Cases |-> IF disk[c] = None THEN <<>> ELSE NamesOf(disk[c].entries)],
    report <- [c \in 1..Cases |-> IF published[c] = None THEN None ELSE NamesOf(published[c])]

ImplementsReport == Report!Spec

(* With finitely many crashes the last process comes to an end: every case  *)
(* is scored, or an exception has ended it.  It never stops on a candidate  *)
(* the models do not answer, a ceiling, a starved candidate or a case it    *)
(* cannot index.                                                            *)
RunEnds == <>[](Finished \/ Raised)

(* "Nothing raises past this function for a per-candidate problem".         *)
NothingRaises == ~Raised

(* A resumed run goes on where the killed one was: it asks what that one    *)
(* would have asked and nothing that it had saved (checkpoint.py load).     *)
ResumeContinues ==
    /\ TypeOK
    /\ SameQuestionAfterResume
    /\ SavedNotAskedAgain
=============================================================================
