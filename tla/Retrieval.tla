----------------------------- MODULE Retrieval -----------------------------
(***************************************************************************)
(* What a model is shown of one candidate: expand() collects the           *)
(* containing function, its types, macros and globals, callers and callees *)
(* hop by hop, error paths, the functions on the analyzer's path and the   *)
(* analyzer's message, keeps one unit per evidence id, and fits them into  *)
(* the budget.  Regions are named by what they hold.                       *)
(***************************************************************************)
EXTENDS Integers, FiniteSets, Sequences, ContextBudget

CONSTANTS
  Fns,            \* functions the repository may define or call
  Outside,        \* those the index holds no symbol of
  BodyLess,       \* those it knows without a definition
  TypeNames, MacroNames, GlobalNames,
  Unseen,         \* types and globals with neither definition nor declaration
  Releasing,      \* those whose name reads as giving a resource back
  Labelled,       \* functions with a goto to a cleanup label
  Situations,     \* an index (calls, types, globals, macros) and a diagnostic in it
  Losses,         \* regions that may not be readable as indexed
  CallerDepth, CalleeDepth, TypeDepth,
  Tokens,         \* tokens of a unit in each role
  Place,          \* a number for every region: its place in the tree
  Budget, MaxUnits,
  Unknown,        \* the callee of a call through a pointer
  None

VARIABLES
  index,          \* the index, as merged
  candidate,      \* the diagnostic's region, its enclosing function, its path
  lost,           \* regions not readable as indexed
  phase, hop,     \* the stage of expand and, in a walk, the distance
  seen, frontier, \* what a walk has met, and what it met last
  pending,        \* regions whose macros, or units whose place, is still to be found
  units,          \* what was built so far
  gaps,           \* regions UnitFactory could not supply
  missing,        \* what the closure could not turn into a unit
  notes,          \* limitations recorded
  context         \* the result

vars == <<index, candidate, lost, phase, hop, seen, frontier, pending, units, gaps,
          missing, notes, context>>
inputs == <<index, candidate, lost>>
walk == <<hop, seen, frontier>>

SiteOf(f) == <<"call of", f>>
LabelIn(f) == <<"label in", f>>
Window == <<"window">>

(* Every name of a function, a type, a macro or a global is a region of its *)
(* own, and no two regions have one place; what a diagnostic lies in was    *)
(* parsed.  Depths are those the policy allows.                             *)
CodeRegions == Fns \cup TypeNames \cup MacroNames \cup GlobalNames
Called == Fns \cup {Unknown}
AllRegions ==
  CodeRegions \cup {SiteOf(f) : f \in Called} \cup {LabelIn(f) : f \in Fns} \cup {Window}
    \cup {s.candidate.site : s \in Situations}
    \cup ({s.candidate.enclosing : s \in Situations} \ {None})
Finds(found) ==
  /\ found.calls \subseteq Fns \X Called
  /\ found.types \subseteq CodeRegions \X TypeNames
  /\ found.globals \subseteq Fns \X GlobalNames
  /\ found.macros \subseteq CodeRegions \X MacroNames

-----------------------------------------------------------------------------
(* Roles, their class, evidence kind and rank. *)
ClassOf ==
  [containing_function |-> 0, candidate_site |-> 0, flat_window |-> 0, flow_function |-> 0,
   type_decl |-> 0, macro_def |-> 0, caller |-> 1, callee |-> 1, cleanup_path |-> 1,
   global_decl |-> 1, analyzer_message |-> 2]
Primary(u) == ClassOf[u.role] = 0

KindOf ==
  [containing_function |-> "primary_code", candidate_site |-> "primary_code",
   flat_window |-> "primary_code", flow_function |-> "primary_code",
   type_decl |-> "type_decl", macro_def |-> "macro_def", caller |-> "supporting_code",
   callee |-> "supporting_code", cleanup_path |-> "supporting_code",
   global_decl |-> "supporting_code", analyzer_message |-> "analyzer_diagnostic"]
EvidenceId(u) == <<KindOf[u.role], u.region>>

Base ==
  [containing_function |-> 1000, candidate_site |-> 1000, flat_window |-> 1000,
   flow_function |-> 950, type_decl |-> 900, macro_def |-> 890, caller |-> 700,
   cleanup_path |-> 660, callee |-> 650, global_decl |-> 500, analyzer_message |-> 200]
ASSUME RetrievalAssumption ==
  /\ IsFiniteSet(CodeRegions) /\ None \notin AllRegions /\ Unknown \notin Fns
  /\ Fns \cap (TypeNames \cup MacroNames \cup GlobalNames) = {}
  /\ TypeNames \cap (MacroNames \cup GlobalNames) = {} /\ MacroNames \cap GlobalNames = {}
  /\ CodeRegions \cap ({SiteOf(f) : f \in Called} \cup {LabelIn(f) : f \in Fns}) = {}
  /\ \A r \in AllRegions : Place[r] \in Nat
  /\ \A r, q \in AllRegions : Place[r] = Place[q] => r = q
  /\ CallerDepth \in 0..8 /\ CalleeDepth \in 0..8 /\ TypeDepth \in 1..16
  /\ Budget \in Nat /\ MaxUnits \in Nat /\ \A role \in DOMAIN Base : Tokens[role] \in Nat
  /\ \A s \in Situations :
       /\ Finds(s.index) /\ s.candidate.flow \subseteq Fns
       /\ s.candidate.variant \in {"structural", "flat_window"}
       /\ s.candidate.function \in (Fns \ (Outside \cup BodyLess)) \cup {None}

Relevance(u) ==
  LET points == Base[u.role] - (IF u.depth > 1 THEN (u.depth - 1) * 100 ELSE 0)
                  + (IF u.onPath THEN 150 ELSE 0)
  IN IF points > 1000 THEN 1000 ELSE IF points < 0 THEN 0 ELSE points

OnFlowPath(r) == r \in candidate.flow
UnitOn(r, role, depth, path) == [region |-> r, role |-> role, depth |-> depth, onPath |-> path]
Unit(r, role, depth) == UnitOn(r, role, depth, OnFlowPath(r))
Readable(r) == r \notin lost

(* A set as a sequence in a strict order, and regions in that of the tree. *)
Sorted(S, less) ==
  [i \in 1..Cardinality(S) |-> CHOOSE x \in S : Cardinality({y \in S : <<y, x>> \in less}) = i - 1]
InTree(regions) ==
  Sorted(regions, {p \in regions \X regions : Place[p[1]] < Place[p[2]]})

(* Mutant: what cannot be read is noted, and presented all the same. *)
BuildUnread(us) ==
  /\ units' = units \cup us
  /\ gaps' = gaps \cup {u.region : u \in {v \in us : ~Readable(v.region)}}

(* Building a set of units: the readable ones, and a gap for every other.  *)
(* The tree stands still here; a region that goes between the factory's    *)
(* read and the bundle's ends the stage (AddRaises of Gate, ExpandRaises   *)
(* of SuiteRun).                                                           *)
Build(us) ==
  /\ units' = units \cup {u \in us : Readable(u.region)}
  /\ gaps' = gaps \cup {u.region : u \in {v \in us : ~Readable(v.region)}}

-----------------------------------------------------------------------------
(* What the index answers. *)
Known(f) == f \notin Outside
Callees(f) == {g \in Fns : <<f, g>> \in index.calls}

(* An unresolved call cannot be ruled out for any callee. *)
Callers(f) == {g \in Fns : <<g, f>> \in index.calls}
UnresolvedIn(f) == <<f, Unknown>> \in index.calls

(* Mutant: only calls that the walk passed count as unresolved. *)
UnresolvedOnTheWay == \E f \in seen : UnresolvedIn(f)

UnresolvedAnywhere == \E f \in Fns : UnresolvedIn(f)
TypesOf(s) == {t \in TypeNames : <<s, t>> \in index.types}
GlobalsOf(f) == {g \in GlobalNames : <<f, g>> \in index.globals}
MacrosIn(r) == {m \in MacroNames : <<r, m>> \in index.macros}

-----------------------------------------------------------------------------
Init ==
  /\ \E s \in Situations : index = s.index /\ candidate = s.candidate
  /\ lost \in SUBSET Losses
  /\ phase = "containing" /\ hop = 0 /\ seen = {} /\ frontier = {} /\ pending = <<>>
  /\ units = {} /\ gaps = {} /\ missing = {} /\ notes = {} /\ context = None

Here == candidate.function

(* The function around the diagnostic, whole, on the path by definition.   *)
Containing ==
  /\ phase = "containing" /\ Here # None /\ candidate.variant = "structural"
  /\ Build({UnitOn(Here, "containing_function", 0, TRUE)})
  /\ seen' = {Here} /\ frontier' = {Here} /\ hop' = 0 /\ pending' = <<Here>>
  /\ phase' = "types"
  /\ UNCHANGED inputs /\ UNCHANGED <<missing, notes, context>>

(* No function is known there: what can be proved of the place is shown,   *)
(* nothing around it, and that is said.                                    *)
NoFunction ==
  /\ phase = "containing" /\ Here = None /\ candidate.variant = "structural"
  /\ IF candidate.enclosing # None
     THEN Build({UnitOn(candidate.enclosing, "containing_function", 0, FALSE)})
     ELSE Build({UnitOn(candidate.site, "candidate_site", 0, FALSE)})
  /\ notes' = notes \cup {<<"no expansion">>} /\ phase' = "flow"
  /\ UNCHANGED inputs /\ UNCHANGED walk /\ UNCHANGED <<pending, missing, context>>

(* The control of the ablation: lines around the diagnostic, no index.     *)
FlatWindow ==
  /\ phase = "containing" /\ candidate.variant = "flat_window"
  /\ notes' = notes \cup {<<"no expansion">>}
  /\ IF candidate.site \in lost THEN UNCHANGED <<units, gaps>>
     ELSE Build({UnitOn(Window, "flat_window", 0, TRUE)})
  /\ phase' = "messages"
  /\ UNCHANGED inputs /\ UNCHANGED walk /\ UNCHANGED <<pending, missing, context>>

-----------------------------------------------------------------------------
(* The closure: types by distance, then macros to the end, then globals.   *)
NoRegion(ss) == {<<s, "no region">> : s \in ss \cap Unseen}
Unreadable(ss) == {<<s, "unreadable">> : s \in {t \in ss \ Unseen : ~Readable(t)}}

Types ==
  /\ phase = "types" /\ hop < TypeDepth /\ frontier # {}
  /\ LET next == (UNION {TypesOf(s) : s \in frontier}) \ seen
         supplied == {t \in next \ Unseen : Readable(t)}
     IN /\ Build({Unit(t, "type_decl", hop + 1) : t \in next \ Unseen})
        /\ missing' = missing \cup NoRegion(next) \cup Unreadable(next)
        /\ pending' = pending \o InTree(supplied)
        /\ seen' = seen \cup next /\ frontier' = next
  /\ hop' = hop + 1
  /\ UNCHANGED inputs /\ UNCHANGED <<phase, notes, context>>

TypesDone ==
  /\ phase = "types" /\ (hop = TypeDepth \/ frontier = {})
  /\ phase' = "macros" /\ seen' = {} /\ frontier' = {} /\ hop' = 0
  /\ UNCHANGED inputs /\ UNCHANGED <<pending, units, gaps, missing, notes, context>>

(* Mutant: a macro is closed over where code uses it, not where another    *)
(* macro does.                                                             *)
OneHop(found) == <<>>

(* Macros stand on macros: what a definition expands is looked at too.     *)
Behind(found) == InTree(found)

Macros ==
  /\ phase = "macros" /\ pending # <<>>
  /\ LET found == MacrosIn(Head(pending)) \ seen IN
       /\ Build({Unit(m, "macro_def", 1) : m \in found})
       /\ missing' = missing \cup {<<m, "unreadable">> : m \in {x \in found : ~Readable(x)}}
       /\ seen' = seen \cup found
       /\ pending' = Tail(pending) \o Behind({m \in found : Readable(m)})
  /\ UNCHANGED inputs /\ UNCHANGED <<phase, hop, frontier, notes, context>>

Globals ==
  /\ phase = "macros" /\ pending = <<>>
  /\ LET found == GlobalsOf(Here) IN
       /\ Build({Unit(g, "global_decl", 1) : g \in found \ Unseen})
       /\ missing' = missing \cup NoRegion(found) \cup Unreadable(found)
  /\ notes' = notes \cup (IF missing' = {} THEN {} ELSE {<<"closure incomplete">>})
  /\ phase' = "callers" /\ seen' = {Here} /\ frontier' = {Here} /\ hop' = 0
  /\ UNCHANGED inputs /\ UNCHANGED <<pending, context>>

-----------------------------------------------------------------------------
(* Callers and callees, one hop at a time so that each has its distance.   *)
Neighbours(f) == IF phase = "callers" THEN Callers(f) ELSE Callees(f)
DepthLimit == IF phase = "callers" THEN CallerDepth ELSE CalleeDepth
RoleOfWalk == IF phase = "callers" THEN "caller" ELSE "callee"

(* The callers of anything are a lower bound if any call in the index is   *)
(* unresolved; the callees if a function of this hop makes such a call.    *)
LowerBound ==
  IF phase = "callers" THEN UnresolvedAnywhere ELSE \E f \in frontier : UnresolvedIn(f)

(* Mutant: only the frontier is remembered, not all that was met.          *)
MeetsFrontier(next) == frontier \cup next

Meets(next) == seen \cup next

(* Mutant: a function without a body is left out like one of a library.    *)
NamedNowhere(next) == {}

NamedOnly(next) == {<<f, "no body">> : f \in next \cap BodyLess}

Walk ==
  /\ phase \in {"callers", "callees"} /\ hop < DepthLimit /\ frontier # {}
  /\ LET next == (UNION {Neighbours(f) : f \in frontier}) \ seen IN
       /\ Build({Unit(f, RoleOfWalk, hop + 1) : f \in (next \ Outside) \ BodyLess})
       /\ notes' = notes \cup NamedOnly(next)
                      \cup (IF LowerBound THEN {<<RoleOfWalk, "lower bound">>} ELSE {})
       /\ seen' = Meets(next) /\ frontier' = next
  /\ hop' = hop + 1
  /\ UNCHANGED inputs /\ UNCHANGED <<phase, pending, missing, context>>

WalkDone ==
  /\ phase \in {"callers", "callees"} /\ (hop = DepthLimit \/ frontier = {})
  /\ phase' = IF phase = "callers" THEN "callees" ELSE "cleanup"
  /\ seen' = {Here} /\ frontier' = {Here} /\ hop' = 0
  /\ UNCHANGED inputs /\ UNCHANGED <<pending, units, gaps, missing, notes, context>>

(* The labels are looked up in the function's text as it is now, which a   *)
(* function that is not as indexed may have or not.                        *)
LabelsIn(f) == IF Readable(f) THEN {{f} \cap Labelled} ELSE {{}, {f} \cap Labelled}

(* The error path: what the labels lead to, each release call, also one    *)
(* through a pointer whose name says it, and the body of what it calls.    *)
Cleanup ==
  /\ phase = "cleanup"
  /\ \E labels \in LabelsIn(Here) :
       LET released == {f \in Called \cap Releasing : <<Here, f>> \in index.calls}
           bodies == released \ (Outside \cup BodyLess \cup {Unknown})
       IN Build({Unit(LabelIn(f), "cleanup_path", 0) : f \in labels}
                  \cup {Unit(SiteOf(f), "cleanup_path", 0) : f \in released}
                  \cup {Unit(f, "cleanup_path", 1) : f \in bodies})
  /\ phase' = "flow"
  /\ UNCHANGED inputs /\ UNCHANGED walk /\ UNCHANGED <<pending, missing, notes, context>>

FlowUnits ==
  /\ phase = "flow"
  /\ Build({UnitOn(f, "flow_function", 1, TRUE) : f \in candidate.flow \ {Here}})
  /\ phase' = "messages"
  /\ UNCHANGED inputs /\ UNCHANGED walk /\ UNCHANGED <<pending, missing, notes, context>>

(* The messages of all analyzers at one place are one unit. *)
AnalyzerMessages ==
  /\ phase = "messages"
  /\ Build({UnitOn(candidate.site, "analyzer_message", 0, FALSE)})
  /\ phase' = "select"
  /\ UNCHANGED inputs /\ UNCHANGED walk /\ UNCHANGED <<pending, missing, notes, context>>

-----------------------------------------------------------------------------
(* The order in which expand collects the roles: the sort is stable, so it  *)
(* decides between two readings of one region that are worth the same.      *)
Collected ==
  [containing_function |-> 0, candidate_site |-> 1, flat_window |-> 2, type_decl |-> 3,
   macro_def |-> 4, global_decl |-> 5, caller |-> 6, callee |-> 7, cleanup_path |-> 8,
   flow_function |-> 9, analyzer_message |-> 10]

Before(u, v) ==
  \/ ClassOf[u.role] < ClassOf[v.role]
  \/ /\ ClassOf[u.role] = ClassOf[v.role]
     /\ \/ Relevance(u) > Relevance(v)
        \/ /\ Relevance(u) = Relevance(v)
           /\ \/ Place[u.region] < Place[v.region]
              \/ /\ Place[u.region] = Place[v.region]
                 /\ Collected[u.role] < Collected[v.role]

(* Mutant: of two units for the same evidence the later one is kept.       *)
DedupeLast(us) == {u \in us : \A v \in us : EvidenceId(v) = EvidenceId(u) => ~Before(u, v)}

Dedupe(us) == {u \in us : \A v \in us : EvidenceId(v) = EvidenceId(u) => ~Before(v, u)}
SortUnits(us) == Sorted(us, {p \in us \X us : Before(p[1], p[2])})

(* What units cost: each of their tokens is one.                           *)
Cost(us) == Cardinality(UNION {{u} \X (1..Tokens[u.role]) : u \in us})
PrimaryOf(us) == {u \in us : Primary(u)}

(* Mutant: the primaries are taken whatever they cost. *)
FitsAnyway(primary) == TRUE

Fits(primary) == Cost(primary) <= Budget

(* One unit per evidence id; the primaries go in together or nothing does. *)
SelectPrimary ==
  /\ phase = "select"
  /\ LET ordered == Dedupe(units)
         primary == PrimaryOf(ordered)
     IN /\ context' = IF Fits(primary)
                      THEN [kept |-> primary, dropped |-> {}, refused |-> FALSE]
                      ELSE [kept |-> {}, dropped |-> ordered, refused |-> TRUE]
        /\ pending' = IF Fits(primary) THEN SortUnits(ordered \ primary) ELSE <<>>
  /\ phase' = "fill"
  /\ UNCHANGED inputs /\ UNCHANGED walk /\ UNCHANGED <<units, gaps, missing, notes>>

(* Then the others in order, each whole or not at all. *)
FitOptional ==
  /\ phase = "fill" /\ pending # <<>>
  /\ LET u == Head(pending)
         sum == [units |-> Cardinality(context.kept), tokens |-> Cost(context.kept)]
     IN context' = IF Consider(sum, Tokens[u.role], Budget, MaxUnits) = sum
                   THEN [context EXCEPT !.dropped = @ \cup {u}]
                   ELSE [context EXCEPT !.kept = @ \cup {u}]
  /\ pending' = Tail(pending)
  /\ UNCHANGED inputs /\ UNCHANGED walk /\ UNCHANGED <<phase, units, gaps, missing, notes>>

Finish ==
  /\ phase = "fill" /\ pending = <<>>
  /\ phase' = "done"
  /\ UNCHANGED inputs /\ UNCHANGED walk
  /\ UNCHANGED <<pending, units, gaps, missing, notes, context>>

Next ==
  \/ Containing \/ NoFunction \/ FlatWindow \/ Types \/ TypesDone \/ Macros \/ Globals
  \/ Walk \/ WalkDone \/ Cleanup \/ FlowUnits \/ AnalyzerMessages \/ SelectPrimary
  \/ FitOptional \/ Finish
Spec == Init /\ [][Next]_vars

-----------------------------------------------------------------------------
Regions ==
  Fns \cup TypeNames \cup MacroNames \cup GlobalNames
    \cup {Window, candidate.site, candidate.enclosing}
    \cup {SiteOf(f) : f \in Called} \cup {LabelIn(f) : f \in Fns}
Expanded == phase = "done" /\ Here # None /\ candidate.variant = "structural"
As(role) == {u \in units : u.role = role}
RegionsOf(us) == {u.region : u \in us}
Presented == context.kept \cup context.dropped

(* Units, gaps and limitations are what their names say; the result holds  *)
(* one unit for each evidence id.                                          *)
TypeOK ==
  /\ LET regions == Regions IN
       \A u \in units : /\ u.region \in regions /\ u.role \in DOMAIN Base
                         /\ u.depth \in Nat /\ u.onPath \in BOOLEAN
  /\ gaps \subseteq lost /\ RegionsOf(units) \cap lost = {}
  /\ {x[1] : x \in missing} \subseteq TypeNames \cup MacroNames \cup GlobalNames
  /\ hop \in 0..16
  /\ phase = "done" => /\ context.kept \cap context.dropped = {}
                       /\ \A u, v \in Presented : EvidenceId(u) = EvidenceId(v) => u = v

(* What is at most n edges away, for every n up to the limit.              *)
Around(start, edges, among, limit) ==
  LET within[n \in 0..limit] ==
        IF n = 0 THEN {start}
        ELSE within[n - 1] \cup {g \in among : \E f \in within[n - 1] : <<f, g>> \in edges}
  IN within
Reversed == {<<e[2], e[1]>> : e \in index.calls}
CallersAround == Around(Here, Reversed, Fns, CallerDepth)
CalleesAround == Around(Here, index.calls, Fns, CalleeDepth)
TypesAround == Around(Here, index.types, TypeNames, TypeDepth)

AtDistance(role, around, limit) ==
  \A f \in Fns :
    LET reached == {n \in 1..limit : f \in around[n] \ around[n - 1]} IN
    {u.depth : u \in {v \in As(role) : v.region = f}} =
      IF f \notin Outside \cup BodyLess \cup lost THEN reached ELSE {}

(* Each caller and callee within the policy's depth is collected with the  *)
(* length of the shortest chain of calls, and nothing else is: distance    *)
(* decides what a tight budget keeps.                                      *)
DistanceExact ==
  Expanded =>
    /\ AtDistance("caller", CallersAround, CallerDepth)
    /\ AtDistance("callee", CalleesAround, CalleeDepth)

(* A closure not reported incomplete is one: every macro that the          *)
(* function, a type or a macro on the page expands is on the page, and so  *)
(* are the types up to the depth and the function's globals.               *)
ClosureOnPage ==
  Expanded /\ <<"closure incomplete">> \notin notes =>
    LET types == RegionsOf(As("type_decl"))
        macros == RegionsOf(As("macro_def"))
    IN /\ \A r \in {Here} \cup types \cup macros : MacrosIn(r) \subseteq macros
       /\ TypesAround[TypeDepth] \ {Here} = types
       /\ GlobalsOf(Here) = RegionsOf(As("global_decl"))

(* What the index names within the policy's reach is presented, dropped,   *)
(* unreadable or written down as missing: nothing goes without a word.     *)
NothingSilentlyMissing ==
  Expanded =>
    LET near == (CallersAround[CallerDepth] \cup CalleesAround[CalleeDepth]) \ Outside
        told == RegionsOf(Presented) \cup gaps \cup {x[1] : x \in missing}
                  \cup {x[1] : x \in notes \cap {<<f, "no body">> : f \in Fns}}
    IN near \cup TypesOf(Here) \cup MacrosIn(Here) \cup GlobalsOf(Here) \subseteq told

(* A call through a pointer anywhere may reach the function, one in a      *)
(* function whose callees were collected may leave it: either way the set  *)
(* that was shown is said to be a lower bound.                             *)
LowerBoundSaid ==
  Expanded =>
    /\ CallerDepth > 0 /\ (\E f \in Fns : <<f, Unknown>> \in index.calls) =>
         <<"caller", "lower bound">> \in notes
    /\ CalleeDepth > 0
         /\ (\E f \in CalleesAround[CalleeDepth - 1] : <<f, Unknown>> \in index.calls) =>
         <<"callee", "lower bound">> \in notes

(* Whatever was collected stands in the result in a role at least as       *)
(* strong, so a primary is never presented as something that may be        *)
(* dropped.                                                                *)
StrongestRoleStands ==
  phase = "done" =>
    \A u \in units : \E v \in Presented :
      EvidenceId(v) = EvidenceId(u) /\ ~Before(u, v)

(* The page fits the budget and has all the primary code or nothing.       *)
PageFitsBudget ==
  phase = "done" =>
    /\ Cost(context.kept) <= Budget
    /\ \/ PrimaryOf(context.dropped) = {}
       \/ context.kept = {} /\ context.refused

(* What is near the candidate is collected at its distance, or the context  *)
(* says that it is not all there (retrieval/service.py expand).             *)
ContextSaysWhatItLacks ==
  /\ DistanceExact
  /\ ClosureOnPage
  /\ NothingSilentlyMissing
  /\ LowerBoundSaid

(* Of everything collected the page holds the strongest reading that fits   *)
(* (service.py _dedupe, budget.py select).                                  *)
PageIsChosenWell ==
  /\ TypeOK
  /\ StrongestRoleStands
  /\ PageFitsBudget
=============================================================================
