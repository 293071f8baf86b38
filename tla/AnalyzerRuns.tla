---------------------------- MODULE AnalyzerRuns ----------------------------
(***************************************************************************)
(* Candidate generation: every analyzer that is installed runs over every  *)
(* selected unit in a pool of threads, each run ends in one of five ways   *)
(* and leaves a file of its own, the files of the runs that produced       *)
(* output are parsed, normalised against the tree, and merged into one     *)
(* candidate per defect.  A diagnostic is an element of a set; what the    *)
(* tools print of it is looked up in a table.                              *)
(***************************************************************************)
EXTENDS Integers, FiniteSetsExt, Sequences

CONSTANTS
  Analyzers,              \* in the order build_analyzers lists them
  WritesItself,           \* those that write their artifact themselves
  Diagnostics,
  About,                  \* what a diagnostic says: see DiagnosticOK
  Prints,                 \* version -> unit -> analyzer -> diagnostics
  Tolerance,              \* DEFAULT_LINE_TOLERANCE
  NoFunction,             \* outside every function
  Jobs,
  MaxMishaps              \* bound: things that go wrong, over all scans

AnalyzerNames == {Analyzers[i] : i \in DOMAIN Analyzers}
Line(d) == About[d].line
DiagnosticOK(d) ==
  /\ Line(d) \in Nat /\ About[d].rank \in Nat
  /\ About[d].fate \in {"citable", "outside", "unreadable"}
ASSUME TablesOK ==
  /\ IsFiniteSet(Diagnostics) /\ \A d \in Diagnostics : DiagnosticOK(d)
  /\ \A d, e \in Diagnostics : d # e => About[d].rank # About[e].rank
  /\ Analyzers \in Seq(AnalyzerNames) /\ Tolerance \in Nat
  /\ \A i, j \in DOMAIN Analyzers : Analyzers[i] = Analyzers[j] => i = j

VARIABLES
  version,                \* of the code being scanned
  selected,               \* analyzers found on this machine, in order
  waiting, running,       \* runs not started, runs under way
  ended,                  \* how each run ended
  artifacts,              \* what each run's file on disk parses to
  merged,                 \* the candidates
  told,                   \* limitations of this stage
  mishaps

analyzerVars == <<version, selected, waiting, running, ended, artifacts, merged, told>>
Mishap == mishaps < MaxMishaps /\ mishaps' = mishaps + 1

AnalyzersIdle ==
  selected = <<>> /\ waiting = <<>> /\ running = {} /\ ended = <<>> /\ merged = {} /\ told = {}

(* Mutant: a run that exits non-zero after writing its output is no failure. *)
NoOutput(status) == status \in {"timed_out", "crashed", "tool_missing"}

IsFailure(status) == status # "ok"
ProducedOutput(status) == status \in {"ok", "nonzero_exit"}

(* What of S there is, in the order of s. *)
InOrder(s, S) ==
  LET kept[i \in 0..Len(s)] ==
        IF i = 0 THEN <<>>
        ELSE IF s[i] \in S THEN Append(kept[i - 1], s[i]) ELSE kept[i - 1]
  IN kept[Len(s)]

Work(units, analyzers) ==
  LET work[i \in 0..Len(units)] ==
        IF i = 0 THEN <<>>
        ELSE work[i - 1] \o [j \in DOMAIN analyzers |-> <<units[i], analyzers[j]>>]
  IN work[Len(units)]

(* A binary that is not on PATH costs its analyzers, by name. *)
Probe(units) ==
  \E present \in SUBSET AnalyzerNames :
    /\ selected' = InOrder(Analyzers, present)
    /\ waiting' = Work(units, selected')
    /\ told' = {<<"unavailable", a>> : a \in AnalyzerNames \ present}
                 \cup (IF present = {} THEN {<<"nothing_ran">>} ELSE {})
    /\ IF present # AnalyzerNames THEN Mishap ELSE UNCHANGED mishaps
    /\ UNCHANGED <<version, running, ended, artifacts, merged>>

Failed == {w \in DOMAIN ended : IsFailure(ended[w])}

(* Mutant: a run that fails does not give its thread back. *)
LeakedSlots == Jobs - Cardinality(running) - Cardinality(Failed)

FreeSlots == Jobs - Cardinality(running)

StartRun ==
  /\ waiting # <<>> /\ FreeSlots > 0
  /\ running' = running \cup {Head(waiting)} /\ waiting' = Tail(waiting)
  /\ UNCHANGED <<version, selected, ended, artifacts, merged, told, mishaps>>

Full(w) == Prints[version][w[1]][w[2]]
OnDisk(w) == IF w \in DOMAIN artifacts THEN artifacts[w] ELSE {}

(* What the artifact of a run parses to afterwards.  Console output is     *)
(* captured and written whatever happened.  A tool that writes its own     *)
(* file may have written all of it, a part that no longer parses, or       *)
(* nothing, and an earlier scan's file then stays.                         *)
Leaves(w, status) ==
  IF w[2] \notin WritesItself
  THEN CASE status = "ok" -> {Full(w)}
         [] status = "nonzero_exit" -> SUBSET Full(w)
         [] OTHER -> {{}}
  ELSE CASE status = "ok" /\ Full(w) # {} -> {Full(w)}
         [] status = "tool_missing" -> {OnDisk(w)}
         [] status = "ok" /\ Full(w) = {} -> {{}, OnDisk(w)}
         [] OTHER -> {Full(w), {}, OnDisk(w)}

EndRun ==
  \E w \in running, status \in {"ok", "nonzero_exit", "timed_out", "crashed", "tool_missing"} :
    /\ IF IsFailure(status) THEN Mishap ELSE UNCHANGED mishaps
    /\ \E left \in Leaves(w, status) :
         artifacts' = [x \in DOMAIN artifacts \cup {w} |-> IF x = w THEN left ELSE artifacts[x]]
    /\ running' = running \ {w}
    /\ ended' = [x \in DOMAIN ended \cup {w} |-> IF x = w THEN status ELSE ended[x]]
    /\ UNCHANGED <<version, selected, waiting, merged, told>>

-----------------------------------------------------------------------------
(* A candidate before merging: a diagnostic and the analyzer it came from. *)
Read == UNION {{<<d, w[2]>> : d \in artifacts[w]} :
                 w \in {x \in DOMAIN ended : ProducedOutput(ended[x])}}
Citable == {c \in Read : About[c[1]].fate = "citable"}

(* The symbol counts only with a region that contains it, and only the     *)
(* index supplies one.                                                     *)
Symbol(c, indexed) == IF indexed THEN About[c[1]].function ELSE NoFunction
SymbolName(c, indexed) ==
  IF Symbol(c, indexed) = NoFunction THEN NoFunction ELSE Symbol(c, indexed).name
Fingerprint(c, indexed) == <<About[c[1]].defect, SymbolName(c, indexed)>>

Abs(n) == IF n < 0 THEN -n ELSE n
SameDefect(c, e, indexed) ==
  /\ Fingerprint(c, indexed) = Fingerprint(e, indexed)
  /\ IF Symbol(c, indexed) # NoFunction /\ Symbol(e, indexed) # NoFunction
     THEN Symbol(c, indexed) = Symbol(e, indexed)
     ELSE Abs(Line(c[1]) - Line(e[1])) <= Tolerance

(* The order of sort_candidates; the rank stands for the content hash. *)
Earlier(c, e) ==
  \/ Line(c[1]) < Line(e[1])
  \/ Line(c[1]) = Line(e[1]) /\ About[c[1]].rank < About[e[1]].rank
  \/ c[1] = e[1] /\ c[2] # e[2] /\ \E i, j \in DOMAIN Analyzers :
                                      i < j /\ Analyzers[i] = c[2] /\ Analyzers[j] = e[2]
Position(c, all) == 1 + Cardinality({e \in all : Earlier(e, c)})
SortCandidates(all) ==
  [i \in 1..Cardinality(all) |-> CHOOSE c \in all : Position(c, all) = i]

(* A greedy pass: a candidate joins the first cluster it agrees with, and  *)
(* a cluster stands where its first member does.                           *)
(* Mutant: a candidate joins a neighbour that joined another. *)
ChainLeads(s, indexed) ==
  {i \in DOMAIN s : \A j \in 1..(i - 1) : ~SameDefect(s[j], s[i], indexed)}

Leads(s, indexed) ==
  LET leads[i \in 0..Len(s)] ==
        IF i = 0 THEN {}
        ELSE IF \E j \in leads[i - 1] : SameDefect(s[j], s[i], indexed) THEN leads[i - 1]
        ELSE leads[i - 1] \cup {i}
  IN leads[Len(s)]

MergeCandidates(all, indexed) ==
  LET s == SortCandidates(all)
      leads == Leads(s, indexed)
      First(i) == Min({i} \cup {j \in leads : j <= i /\ SameDefect(s[j], s[i], indexed)})
  IN {[first |-> s[j], provenance |-> {s[i] : i \in {k \in DOMAIN s : First(k) = j}}] :
        j \in leads}

RunLimitations == {<<ended[w], w>> : w \in Failed}

Collect(indexed) ==
  /\ waiting = <<>> /\ running = {} /\ selected # <<>>
  /\ merged' = MergeCandidates(Citable, indexed)
  /\ told' = told \cup RunLimitations
               \cup (IF \E c \in Read : About[c[1]].fate = "outside"
                     THEN {<<"outside_repo">>} ELSE {})
  /\ UNCHANGED <<version, selected, waiting, running, ended, artifacts, mishaps>>

RanOn == {w \in DOMAIN ended : ProducedOutput(ended[w])}
=============================================================================
