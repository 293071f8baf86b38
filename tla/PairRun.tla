------------------------------ MODULE PairRun ------------------------------
(* `caudit pairs` (cli/pairs_cmd.py, eval/pairs.py, eval/pairs_runner.py):     *)
(* the pinned revisions of every pair are checked out, built and scanned, a    *)
(* pair with an unusable revision is excluded, and every use of the held-out   *)
(* set is entered in a ledger before it is scanned.  The checkouts and the     *)
(* ledger are on disk and outlive the process, which may be killed between     *)
(* any two steps and started again.                                            *)
EXTENDS Integers, Sequences, FiniteSets, FiniteSetsExt

CONSTANTS
    PairList,     \* the pairs of the manifest's chosen set, in manifest order
    HeldOutSet,   \* whether the chosen set is the held-out one
    MaxRuns,      \* bound: times the command is started
    MaxMishaps    \* bound: kills, failing git and build commands, degraded scans

Pairs == {PairList[i] : i \in DOMAIN PairList}
Side == {"vulnerable", "fixed"}

ASSUME PairRunAssumption ==
    /\ PairList \in Seq(Pairs) /\ PairList # <<>> /\ HeldOutSet \in BOOLEAN
    /\ \A i, j \in DOMAIN PairList : PairList[i] = PairList[j] => i = j
    /\ MaxRuns \in Nat \ {0} /\ MaxMishaps \in Nat

VARIABLES
    checkout,  \* on disk, [pair, side]: "none", "partial" (a killed clone),
               \* "default" (cloned, no revision yet) or "pinned"
    ledger,    \* on disk: accesses on record, or -1 for a torn file
    accesses,  \* runs that went on to scan the held-out set (history)
    phase,     \* "off", "record", "count", "clone", "checkout", "build", "scan", "report", "over"
    todo,      \* pairs this run has still to scan
    side,      \* the revision being worked on
    seen,      \* what the vulnerable revision's scan reported
    outcomes, excluded, caveat, exit,
    scanned,   \* <<pair, side, what was checked out>> of every scan (history)
    runs, pairMishaps

disk    == <<checkout, ledger>>
pairVars == <<checkout, ledger, accesses, phase, todo, side, seen, outcomes,
              excluded, caveat, exit, scanned, runs, pairMishaps>>

Pair == Head(todo)
Mishap == pairMishaps < MaxMishaps /\ pairMishaps' = pairMishaps + 1
NoResult == [detected |-> FALSE, valid |-> TRUE, complete |-> TRUE]

-----------------------------------------------------------------------------
(* The command. *)

Start ==
    /\ phase \in {"off", "over"} /\ runs < MaxRuns
    /\ phase' = IF HeldOutSet THEN "record" ELSE "clone"
    /\ todo' = PairList /\ side' = "vulnerable" /\ seen' = NoResult
    /\ outcomes' = {} /\ excluded' = {} /\ caveat' = FALSE /\ exit' = "none"
    /\ runs' = runs + 1
    /\ UNCHANGED <<checkout, ledger, accesses, scanned, pairMishaps>>

(* HeldOutLedger.record: the accesses on record are read, one is added and    *)
(* the file is written again; a ledger that is not JSON stops the command.    *)
Record ==
    /\ phase = "record"
    /\ IF ledger < 0
       THEN phase' = "over" /\ exit' = "error" /\ UNCHANGED <<ledger, accesses>>
       ELSE /\ ledger' = ledger + 1
            /\ accesses' = accesses + 1
            /\ phase' = "count" /\ UNCHANGED exit
    /\ UNCHANGED <<checkout, todo, side, seen, outcomes, excluded, caveat,
                   scanned, runs, pairMishaps>>

(* Mutant: one use too many goes without a word. *)
CaveatFromThree ==
    /\ phase = "count"
    /\ caveat' = (ledger > 2)
    /\ phase' = "clone"
    /\ UNCHANGED <<disk, accesses, todo, side, seen, outcomes, excluded, exit,
                   scanned, runs, pairMishaps>>

(* The sentence for the results document, when the set was used before. *)
Caveat ==
    /\ phase = "count"
    /\ caveat' = (ledger > 1)
    /\ phase' = "clone"
    /\ UNCHANGED <<disk, accesses, todo, side, seen, outcomes, excluded, exit,
                   scanned, runs, pairMishaps>>

(* The process is killed; a write of the ledger under way leaves half a file, *)
(* a clone under way half a repository.                                       *)
Kill ==
    /\ phase \notin {"off", "over"} /\ Mishap
    /\ phase' = "over" /\ exit' = "killed"
    /\ ledger' \in IF phase = "record" THEN {ledger, -1} ELSE {ledger}
    /\ checkout' \in IF phase = "clone" /\ checkout[<<Pair, side>>] = "none"
                     THEN {checkout, [checkout EXCEPT ![<<Pair, side>>] = "partial"]}
                     ELSE {checkout}
    /\ UNCHANGED <<accesses, todo, side, seen, outcomes, excluded, caveat, scanned, runs>>

-----------------------------------------------------------------------------
(* One revision. *)

(* Mutant: a fixed revision that could not be scanned counts as a clean one. *)
ExcludeVulnerableOnly ==
    IF side = "vulnerable"
    THEN /\ excluded' = excluded \cup {[pair |-> Pair, side |-> side]}
         /\ todo' = Tail(todo)
         /\ phase' = IF Tail(todo) = <<>> THEN "report" ELSE "clone"
         /\ UNCHANGED <<outcomes, seen, side>>
    ELSE /\ outcomes' = outcomes \cup
                {[pair |-> Pair, vulnerable |-> seen.detected, fixed |-> FALSE,
                  valid |-> seen.valid, complete |-> FALSE]}
         /\ todo' = Tail(todo) /\ side' = "vulnerable"
         /\ phase' = IF Tail(todo) = <<>> THEN "report" ELSE "clone"
         /\ UNCHANGED <<excluded, seen>>

(* What run_pairs makes of an unusable revision, and of a usable one. *)
Exclude ==
    /\ excluded' = excluded \cup {[pair |-> Pair, side |-> side]}
    /\ todo' = Tail(todo) /\ side' = "vulnerable"
    /\ phase' = IF Tail(todo) = <<>> THEN "report" ELSE "clone"
    /\ UNCHANGED <<outcomes, seen>>

Usable(result) ==
    IF side = "vulnerable"
    THEN /\ seen' = result /\ side' = "fixed" /\ phase' = "clone"
         /\ UNCHANGED <<outcomes, todo>>
    ELSE /\ outcomes' = outcomes \cup
                {[pair |-> Pair, vulnerable |-> seen.detected, fixed |-> result.detected,
                  valid |-> seen.valid /\ result.valid,
                  complete |-> seen.complete /\ result.complete]}
         /\ todo' = Tail(todo) /\ side' = "vulnerable" /\ seen' = NoResult
         /\ phase' = IF Tail(todo) = <<>> THEN "report" ELSE "clone"

Failed == Mishap /\ Exclude

(* A checkout that has a repository is not cloned again; anything else in its *)
(* place is removed first.  A clone that fails cleans up, one that is stopped *)
(* at its time limit may leave half a repository behind.                      *)
Clone ==
    /\ phase = "clone"
    /\ \/ /\ checkout[<<Pair, side>>] # "none"
          /\ phase' = "checkout"
          /\ UNCHANGED <<checkout, todo, side, seen, outcomes, excluded, pairMishaps>>
       \/ /\ checkout[<<Pair, side>>] = "none"
          /\ checkout' = [checkout EXCEPT ![<<Pair, side>>] = "default"]
          /\ phase' = "checkout"
          /\ UNCHANGED <<todo, side, seen, outcomes, excluded, pairMishaps>>
       \/ /\ checkout[<<Pair, side>>] = "none"
          /\ Failed
          /\ \E left \in {"none", "partial"} :
                checkout' = [checkout EXCEPT ![<<Pair, side>>] = left]
    /\ UNCHANGED <<ledger, accesses, caveat, exit, scanned, runs>>

(* Mutant: a repository that is already there is taken as it is. *)
KeepWhatIsThere ==
    /\ phase = "checkout"
    /\ \/ /\ checkout[<<Pair, side>>] # "partial"
          /\ phase' = "build"
          /\ UNCHANGED <<checkout, todo, side, seen, outcomes, excluded, pairMishaps>>
       \/ /\ checkout[<<Pair, side>>] = "partial"
          /\ Exclude /\ UNCHANGED <<checkout, pairMishaps>>
       \/ Failed /\ UNCHANGED checkout
    /\ UNCHANGED <<ledger, accesses, caveat, exit, scanned, runs>>

(* The pinned revision is checked out; half a repository has none. *)
Checkout ==
    /\ phase = "checkout"
    /\ \/ /\ checkout[<<Pair, side>>] # "partial"
          /\ checkout' = [checkout EXCEPT ![<<Pair, side>>] = "pinned"]
          /\ phase' = "build"
          /\ UNCHANGED <<todo, side, seen, outcomes, excluded, pairMishaps>>
       \/ /\ checkout[<<Pair, side>>] = "partial"
          /\ Exclude /\ UNCHANGED <<checkout, pairMishaps>>
       \/ Failed /\ UNCHANGED checkout
    /\ UNCHANGED <<ledger, accesses, caveat, exit, scanned, runs>>

(* Every step of the recipe, and the database it must leave. *)
Build ==
    /\ phase = "build"
    /\ \/ /\ phase' = "scan"
          /\ UNCHANGED <<todo, side, seen, outcomes, excluded, pairMishaps>>
       \/ Failed
    /\ UNCHANGED <<checkout, ledger, accesses, caveat, exit, scanned, runs>>

(* The scan: it may raise, which excludes the pair, or come back degraded     *)
(* (an analyzer that never answered, a provider that was down), which does    *)
(* not.  A detection is a confirmed finding in a file the fix touched.        *)
Scan ==
    /\ phase = "scan"
    /\ scanned' = scanned \cup {<<Pair, side, checkout[<<Pair, side>>]>>}
    /\ \/ \E detected, valid \in BOOLEAN :
            /\ Usable([detected |-> detected, valid |-> detected => valid, complete |-> TRUE])
            /\ UNCHANGED <<pairMishaps, excluded>>
       \/ /\ Mishap
          /\ Usable([detected |-> FALSE, valid |-> TRUE, complete |-> FALSE])
          /\ UNCHANGED excluded
       \/ Failed
    /\ UNCHANGED <<checkout, ledger, accesses, caveat, exit, runs>>

-----------------------------------------------------------------------------
Persisted == {o \in outcomes : o.fixed}

(* Outcomes, exclusions and the score, then the exit code. *)
Report ==
    /\ phase = "report"
    /\ exit' = IF outcomes = {} THEN "environment"
               ELSE IF Persisted = {} THEN "ok" ELSE "findings"
    /\ phase' = "over"
    /\ UNCHANGED <<disk, accesses, todo, side, seen, outcomes, excluded, caveat,
                   scanned, runs, pairMishaps>>

PairInit ==
    /\ checkout = [ps \in Pairs \X Side |-> "none"]
    /\ ledger = 0 /\ accesses = 0 /\ phase = "off" /\ todo = <<>>
    /\ side = "vulnerable" /\ seen = NoResult
    /\ outcomes = {} /\ excluded = {} /\ caveat = FALSE /\ exit = "none"
    /\ scanned = {} /\ runs = 0 /\ pairMishaps = 0

PairStep == Record \/ Caveat \/ Clone \/ Checkout \/ Build \/ Scan \/ Report
PairNext == Start \/ Kill \/ PairStep
PairSpec == PairInit /\ [][PairNext]_pairVars

-----------------------------------------------------------------------------
(* Whatever an earlier run left half done, what is scanned is the revision the *)
(* manifest pins (pairs_runner.py checkout_revision): never the branch a clone *)
(* starts on.                                                                  *)
PinnedIsScanned == \A s \in scanned : s[3] = "pinned"

(* A run that ends has put every pair in exactly one place (pairs.py           *)
(* run_pairs): an outcome with both of its revisions scanned, or an exclusion. *)
PairOnce ==
    (phase = "over" /\ exit \notin {"killed", "error"}) =>
        /\ {o.pair : o \in outcomes} \cup {x.pair : x \in excluded} = Pairs
        /\ {o.pair : o \in outcomes} \cap {x.pair : x \in excluded} = {}
        /\ \A o \in outcomes : \A s \in Side : \E t \in scanned : t[1] = o.pair /\ t[2] = s

(* A score printed without a caveat comes from the first run that ever used    *)
(* the held-out set (pairs.py HeldOutLedger): a run that was killed before it  *)
(* reported anything has used the set too.                                     *)
ReuseIsTold ==
    (HeldOutSet /\ exit \in {"ok", "findings", "environment"} /\ ~ caveat)
        => accesses = 1

(* What a run of pairs counts is what it scanned at the pinned revisions,   *)
(* each pair once, and a second use of held-out pairs is told.              *)
PairsAreMeasured ==
    /\ PinnedIsScanned
    /\ PairOnce
    /\ ReuseIsTold
=============================================================================
