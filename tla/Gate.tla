------------------------------- MODULE Gate -------------------------------
(***************************************************************************)
(* One candidate, from the code a model is shown to the section of the     *)
(* report it ends in: retrieval captures regions, a proposal arrives or a  *)
(* refusal, the gate checks the proposal against tree and index, and the   *)
(* report resolves every citation again.  The tree may change at any time  *)
(* before the report is written.                                           *)
(***************************************************************************)
EXTENDS Naturals, FiniteSets, Sequences
LOCAL INSTANCE FiniteSetsExt

CONSTANTS
  Plan,          \* the regions retrieval turns into units, in its order
  Steps,         \* regions of the analyzer's own path: captured, never issued
  ReportedAt,    \* the diagnostic's region, where the finding is reported
  Invented,      \* an id nobody issued
  Role,          \* the role of each unit
  Misplaced,     \* units whose symbol the index does not place there
  Barred,        \* regions an exclusion filter covers
  Telling,       \* regions whose bytes show what the weakness needs
  KnownFunctions,  \* functions in the index
  Calls,         \* the call edges it records
  UnitTools,     \* analyzers the candidate's provenance names
  Ran,           \* analyzers that ran
  InScope,       \* whether the analyzer's rule maps to a weakness family
  Edited,        \* what an edit may leave of a region
  Refusals,      \* reasons for which no proposal reaches the gate
  Proposals,     \* the answers a model may give
  MaxRewrites,   \* bound: edits of the tree during the run
  NoAnswer       \* no value yet

Planned == {Plan[i] : i \in DOMAIN Plan}
Captures == Planned \cup Steps
Ids == Captures \cup {Invented}

PrimaryRoles ==
  {"containing_function", "candidate_site", "flat_window", "flow_function", "type_decl",
   "macro_def"}
Roles ==
  PrimaryRoles \cup {"caller", "callee", "cleanup_path", "global_decl", "analyzer_message"}
ReachRank == [unknown |-> 0, argued |-> 1, demonstrated |-> 2]
ExploitRank == [unknown |-> 0, unlikely |-> 1, plausible |-> 2, demonstrated |-> 3]
Bytes == {"orig", "other", "short", "clipped", "huge", "gone"}

(* Reasons, in the order in which the gate reports them. *)
ReportOrder ==
  <<"citation_unresolved", "missing_file", "symbol_unresolved", "call_edge_unresolved",
    "hash_mismatch", "evidence_unavailable", "schema_violation", "schema_invalid_response",
    "cwe_mapping_rejected", "out_of_scope_family", "evidence_does_not_support_cwe",
    "impact_exceeds_evidence", "assumptions_unstated", "model_rejected",
    "model_inconclusive", "context_budget_exceeded", "provider_unavailable",
    "run_budget_exhausted", "analyzer_only", "all_citations_resolved">>
Reasons == {ReportOrder[i] : i \in DOMAIN ReportOrder}

(* What the schema of an answer enforces, before the gate sees it. *)
WellFormed(p) ==
  /\ p.verdict = "confirmed" => p.cited # {} /\ p.cwe # "none"
  /\ {q[1] : q \in p.quotes} \subseteq p.cited

GateAssumption ==
  /\ Plan \in Seq(Planned) /\ ReportedAt \in Planned /\ Invented \notin Captures
  /\ Role \in [Planned -> Roles] /\ Planned \cap Steps = {}
  /\ Edited \subseteq Bytes /\ Refusals \subseteq Reasons
  /\ \A p \in Proposals :
       /\ WellFormed(p)
       /\ p.verdict \in {"confirmed", "rejected", "review_required"}
       /\ p.cited \subseteq Ids
       /\ p.reach \in DOMAIN ReachRank /\ p.exploit \in DOMAIN ExploitRank
       /\ IsFiniteSet(p.edges)
  /\ MaxRewrites \in Nat
ASSUME GateAssumption

VARIABLES
  disk,          \* what each region holds; "orig" is what the index hashed
  rewrites,      \* history: how often each region was edited
  gateAt,        \* where the candidate is
  at,            \* the unit retrieval is at
  bundle,        \* region -> the bytes captured for it
  unread,        \* regions that could not be read as indexed
  selection,     \* units kept and dropped, and whether blind spots were recorded
  proposal,      \* the model's answer
  fallback,      \* the analyzer-only finding, made before anything is asked
  finding        \* what is reported, and in the end its section

gateVars == <<disk, rewrites, gateAt, at, bundle, unread, selection, proposal, fallback, finding>>
ledgerVars == <<bundle, unread, selection, proposal, fallback>>

NoContext == [kept |-> {}, dropped |-> {}, blind |-> FALSE]

-----------------------------------------------------------------------------
BlockingReasons == Reasons \ {"analyzer_only", "all_citations_resolved"}
DowngradeOnly == {"impact_exceeds_evidence"}

(* Resolving a region against the tree as it is now, in the resolver's    *)
(* order: excluded, missing, too large, lines, bytes, hash, symbol.       *)
StatusOfBytes ==
  [gone |-> "missing_file", huge |-> "file_too_large", short |-> "line_out_of_range",
   clipped |-> "byte_range_invalid", other |-> "hash_mismatch", orig |-> "ok"]
ReasonForStatus ==
  [missing_file |-> "missing_file", hash_mismatch |-> "hash_mismatch",
   line_out_of_range |-> "citation_unresolved", symbol_not_found |-> "symbol_unresolved",
   excluded_file |-> "evidence_unavailable", file_too_large |-> "evidence_unavailable",
   byte_range_invalid |-> "schema_violation"]

(* Mutant: the bytes are compared by their place only, not by their hash. *)
ResolvePlaceOnly(r) ==
  IF r \in Barred THEN "excluded_file"
  ELSE IF disk[r] = "other" THEN "ok" ELSE StatusOfBytes[disk[r]]

ResolveRegion(r) ==
  IF r \in Barred THEN "excluded_file" ELSE StatusOfBytes[disk[r]]

(* An evidence item names its symbol; the candidate's location does not.  *)
ResolveItem(r) ==
  IF ResolveRegion(r) = "ok" /\ r \in Misplaced THEN "symbol_not_found" ELSE ResolveRegion(r)

-----------------------------------------------------------------------------
(* The checks of the gate.  Each gives the set of reasons it found.       *)
Issued == selection.kept
InBundle(p) == p.cited \cap DOMAIN bundle

(* Mutant: the check is left to the attempt loop, which a cached answer   *)
(* does not pass through.                                                 *)
NoUnissuedFailures(p) == {}

UnissuedFailures(p) == {"citation_unresolved" : i \in p.cited \ Issued}

LocationFailures(p) ==
  {ReasonForStatus[s] :
     s \in ({ResolveRegion(ReportedAt)} \cup {ResolveItem(r) : r \in InBundle(p)}) \ {"ok"}}

FailedEdges(p) == p.edges \ Calls
EdgeFailures(p) ==
  {IF {e[1], e[2]} \subseteq KnownFunctions THEN "call_edge_unresolved" ELSE "symbol_unresolved" :
     e \in FailedEdges(p)}

QuotationFailures(p) ==
  {IF q[1] \notin DOMAIN bundle THEN "citation_unresolved" ELSE "hash_mismatch" :
     q \in {x \in p.quotes : x[1] \notin DOMAIN bundle \/ bundle[x[1]] # x[2]}}

ProvenanceFailures == {"schema_violation" : t \in UnitTools \ Ran}

AssumptionFailures(p) ==
  {"assumptions_unstated" :
     x \in {y \in {p} : ~p.assumptions /\ (selection.dropped # {} \/ selection.blind)}}

VerdictFailures(p) ==
  CASE p.verdict = "rejected" -> {"model_rejected"}
    [] p.verdict = "review_required" -> {"model_inconclusive"}
    [] OTHER -> {}

(* What the citations establish.  A cited unit counts even if it was      *)
(* dropped from the page: the bundle captured it.                         *)
CitedRoles(p) == {Role[r] : r \in p.cited \cap (selection.kept \cup selection.dropped)}

(* Mutant: every asserted edge counts, whether or not it resolved. *)
AllEdgesVerified(p) == Cardinality(p.edges)

VerifiedEdges(p) == Cardinality(p.edges) - Cardinality(FailedEdges(p))
ControlFlow(p) ==
  VerifiedEdges(p) > 0 \/ "flow_function" \in CitedRoles(p) \/ InBundle(p) \cap Steps # {}
Code(p) ==
  InBundle(p) \cap Steps # {} \/ CitedRoles(p) \ {"analyzer_message"} # {}
Upstream(p) ==
  VerifiedEdges(p) > 0 \/ CitedRoles(p) \cap {"caller", "flow_function"} # {}

ReachCeiling(p) ==
  IF ControlFlow(p) THEN "demonstrated" ELSE IF Code(p) THEN "argued" ELSE "unknown"
ExploitCeiling(p) ==
  IF ~Upstream(p) THEN "unlikely" ELSE IF ControlFlow(p) THEN "demonstrated" ELSE "plausible"
Weaker(claimed, ceiling, rank) == IF rank[claimed] <= rank[ceiling] THEN claimed ELSE ceiling
KeptReach(p) == Weaker(p.reach, ReachCeiling(p), ReachRank)
KeptExploit(p) == Weaker(p.exploit, ExploitCeiling(p), ExploitRank)
Downgraded(p) == KeptReach(p) # p.reach \/ KeptExploit(p) # p.exploit
ClaimFailures(p) == {"impact_exceeds_evidence" : x \in {y \in {p} : Downgraded(p)}}

(* Clause 2, asked of confirmations only. *)
StatusFailure(p) ==
  CASE p.cwe = "none" -> {"evidence_does_not_support_cwe"}
    [] p.cwe = "prohibited" -> {"cwe_mapping_rejected"}
    [] p.cwe = "out_of_scope" -> {"out_of_scope_family"}
    [] p.cwe = "discouraged" /\ ~p.argued -> {"cwe_mapping_rejected"}
    [] OTHER -> {}
Shows(r) == r \in Telling /\ bundle[r] = "orig"
WeaknessFailures(p) ==
  IF p.verdict # "confirmed" THEN {}
  ELSE IF StatusFailure(p) # {} THEN StatusFailure(p)
  ELSE {"evidence_does_not_support_cwe" :
          x \in {y \in {p} : InBundle(p) # {} /\ \A r \in InBundle(p) : ~Shows(r)}}

(* In the order in which verify runs them; no check stops another.        *)
Checks(p) ==
  <<UnissuedFailures(p), LocationFailures(p), EdgeFailures(p), QuotationFailures(p),
    ProvenanceFailures, AssumptionFailures(p), VerdictFailures(p), ClaimFailures(p),
    WeaknessFailures(p)>>
Failures(p) == UNION {Checks(p)[i] : i \in 1..9}
Blocking(p) == (Failures(p) \cap BlockingReasons) \ DowngradeOnly

(* Mutant: the reason is the first failure in the order of the checks. *)
FirstFailedCheck(p) ==
  LET first == CHOOSE i \in 1..9 : /\ Checks(p)[i] \cap Blocking(p) # {}
                                   /\ \A j \in 1..(i - 1) : Checks(p)[j] \cap Blocking(p) = {}
  IN CHOOSE r \in Checks(p)[first] \cap Blocking(p) : TRUE

First(S) ==
  CHOOSE i \in DOMAIN ReportOrder :
    ReportOrder[i] \in S /\ \A j \in 1..(i - 1) : ReportOrder[j] \notin S
PrimaryReason(p) == ReportOrder[First(Blocking(p))]

Accepted(p) == p.verdict = "confirmed" /\ Blocking(p) = {}

(* The candidate's own evidence stands in when nothing cited survives. *)
OwnEvidence == {r \in Planned : r = ReportedAt \/ Role[r] = "containing_function"} \cup Steps

Verified(p) ==
  [confidence |-> IF ~Accepted(p) THEN "review_required"
                  ELSE IF Downgraded(p) THEN "medium" ELSE "high",
   reason     |-> IF Accepted(p) THEN "all_citations_resolved" ELSE PrimaryReason(p),
   reach      |-> KeptReach(p),
   exploit    |-> KeptExploit(p),
   evidence   |-> IF InBundle(p) # {} THEN InBundle(p) ELSE OwnEvidence,
   lowered    |-> Downgraded(p),
   by         |-> "gate"]

-----------------------------------------------------------------------------
(* The analyzer's word alone. *)
Stale == disk[ReportedAt] # "orig"
Promoted ==
  [confidence |-> IF Stale \/ ~InScope THEN "review_required" ELSE "medium",
   reason     |-> IF Stale THEN "hash_mismatch"
                  ELSE IF ~InScope THEN "out_of_scope_family" ELSE "analyzer_only",
   reach |-> "unknown", exploit |-> "unknown", evidence |-> OwnEvidence,
   lowered |-> FALSE, by |-> "analyzer"]

(* A refusal keeps the analyzer's finding; a blocking reason sends it to  *)
(* review.                                                                *)
Refused(reason) ==
  IF reason \in BlockingReasons
  THEN [Promoted EXCEPT !.confidence = "review_required", !.reason = reason]
  ELSE Promoted

-----------------------------------------------------------------------------
GateInit ==
  /\ disk = [r \in Captures |-> "orig"] /\ rewrites = [r \in Captures |-> 0]
  /\ gateAt = "promote" /\ at = 1
  /\ bundle = [r \in {} |-> NoAnswer] /\ unread = {} /\ selection = NoContext
  /\ proposal = NoAnswer /\ fallback = NoAnswer /\ finding = NoAnswer

(* Somebody writes a file while the scan runs. *)
Rewrite(r) ==
  /\ gateAt # "done"
  /\ MapThenSumSet(LAMBDA x : rewrites[x], Captures) < MaxRewrites
  /\ \E b \in Edited \cup {"orig"} : b # disk[r] /\ disk' = [disk EXCEPT ![r] = b]
  /\ rewrites' = [rewrites EXCEPT ![r] = @ + 1]
  /\ UNCHANGED <<gateAt, at, finding>> /\ UNCHANGED ledgerVars

(* The finding the run falls back on is made before the model stages.     *)
PromoteFirst ==
  /\ gateAt = "promote"
  /\ fallback' = Promoted /\ gateAt' = "capture"
  /\ UNCHANGED <<disk, rewrites, at, bundle, unread, selection, proposal, finding>>

(* The candidate's own steps go into the bundle as they are, unhashed. *)
CaptureSteps ==
  /\ gateAt = "capture"
  /\ bundle' = [r \in {s \in Steps : disk[s] \in {"orig", "other"}} |-> disk[r]]
  /\ gateAt' = "read"
  /\ UNCHANGED <<disk, rewrites, at, unread, selection, proposal, fallback, finding>>

(* A unit is read and its hash compared with what the index recorded. *)
ReadUnit ==
  /\ gateAt = "read" /\ at <= Len(Plan)
  /\ IF disk[Plan[at]] = "orig"
     THEN gateAt' = "add" /\ UNCHANGED <<at, unread>>
     ELSE gateAt' = "read" /\ at' = at + 1 /\ unread' = unread \cup {Plan[at]}
  /\ UNCHANGED <<disk, rewrites, bundle, selection, proposal, fallback, finding>>

(* The bundle reads the region once more and keeps those bytes. *)
AddUnit ==
  /\ gateAt = "add" /\ disk[Plan[at]] \in {"orig", "other"}
  /\ bundle' = [r \in DOMAIN bundle \cup {Plan[at]} |->
                  IF r \in DOMAIN bundle THEN bundle[r] ELSE disk[r]]
  /\ at' = at + 1 /\ gateAt' = "read"
  /\ UNCHANGED <<disk, rewrites, unread, selection, proposal, fallback, finding>>

(* That second read is not guarded: its error ends the stage, and the run *)
(* keeps what it had.                                                     *)
AddRaises ==
  /\ gateAt = "add" /\ disk[Plan[at]] \notin {"orig", "other"}
  /\ finding' = fallback /\ gateAt' = "report"
  /\ UNCHANGED <<disk, rewrites, at>> /\ UNCHANGED ledgerVars

(* Mutant: a unit that could not be read is issued all the same. *)
BuiltAnyway == Planned

Built == Planned \ unread

(* Primaries stay and the budget decides which others are dropped; where  *)
(* the primaries alone exceed it, nothing is kept.                        *)
SelectUnits ==
  /\ gateAt = "read" /\ at > Len(Plan)
  /\ \E dropped \in (SUBSET {r \in Built : Role[r] \notin PrimaryRoles}) \cup {Built},
        blind \in BOOLEAN :
       /\ dropped # {} \/ unread # {} => blind
       /\ selection' = [kept |-> Built \ dropped, dropped |-> dropped, blind |-> blind]
  /\ gateAt' = "ask"
  /\ UNCHANGED <<disk, rewrites, at, bundle, unread, proposal, fallback, finding>>

(* An answer.  Redaction lets nothing through that shows a barred file.   *)
Propose ==
  /\ gateAt = "ask" /\ selection.kept # {} /\ selection.kept \cap Barred = {}
  /\ proposal' \in Proposals /\ gateAt' = "verify"
  /\ UNCHANGED <<disk, rewrites, at, bundle, unread, selection, fallback, finding>>

Refuse ==
  /\ gateAt = "ask"
  /\ \E reason \in Refusals : finding' = Refused(reason)
  /\ gateAt' = "report"
  /\ UNCHANGED <<disk, rewrites, at>> /\ UNCHANGED ledgerVars

Verify ==
  /\ gateAt = "verify"
  /\ finding' = Verified(proposal) /\ gateAt' = "report"
  /\ UNCHANGED <<disk, rewrites, at>> /\ UNCHANGED ledgerVars

(* Mutant: the report trusts what the gate found. *)
NoReportFailure(f) == {}

ReportFailures(f) ==
  ({ResolveRegion(ReportedAt)} \cup {ResolveItem(r) : r \in f.evidence}) \ {"ok"}

(* The report resolves every citation of the finding again.               *)
BuildSections ==
  /\ gateAt = "report"
  /\ finding' \in
       IF ReportFailures(finding) = {} THEN {finding}
       ELSE {[finding EXCEPT !.confidence = "review_required", !.reason = ReasonForStatus[s]] :
               s \in ReportFailures(finding)}
  /\ gateAt' = "done"
  /\ UNCHANGED <<disk, rewrites, at>> /\ UNCHANGED ledgerVars

Step ==
  \/ PromoteFirst \/ CaptureSteps \/ ReadUnit \/ AddUnit \/ AddRaises
  \/ SelectUnits \/ Propose \/ Refuse \/ Verify \/ BuildSections
GateNext == (\E r \in Captures : Rewrite(r)) \/ Step
GateSpec == GateInit /\ [][GateNext]_gateVars
-----------------------------------------------------------------------------
Captured == [DOMAIN bundle -> {"orig", "other"}]
Findings ==
  [confidence : {"review_required", "medium", "high"}, reason : Reasons,
   reach : DOMAIN ReachRank, exploit : DOMAIN ExploitRank, evidence : SUBSET Captures,
   lowered : BOOLEAN, by : {"gate", "analyzer"}]

(* Every variable has its type, and what is issued was captured: a unit    *)
(* retrieval has passed is in the bundle or in `unread`.                   *)
GateTypeOK ==
  /\ disk \in [Captures -> Bytes] /\ rewrites \in [Captures -> Nat]
  /\ gateAt \in {"promote", "capture", "read", "add", "ask", "verify", "report", "done"}
  /\ at \in 1..(Len(Plan) + 1)
  /\ DOMAIN bundle \subseteq Captures /\ bundle \in Captured
  /\ unread \subseteq Planned
  /\ gateAt \in {"read", "add"} => \A i \in 1..(at - 1) : Plan[i] \in unread \cup DOMAIN bundle
  /\ gateAt \in {"promote", "capture", "read", "add"} => selection = NoContext
  /\ gateAt \in {"promote", "capture"} => at = 1
  /\ gateAt = "add" => at <= Len(Plan)
  /\ selection.kept \cup selection.dropped \subseteq Planned \cap DOMAIN bundle
  /\ selection.kept \cap selection.dropped = {} /\ selection.blind \in BOOLEAN
  /\ gateAt = "verify" => proposal \in Proposals
  /\ gateAt # "promote" => fallback \in Findings /\ fallback.by = "analyzer"
  /\ gateAt \in {"report", "done"} => finding \in Findings

Concluded == gateAt \in {"report", "done"}
ConfirmedByGate ==
  Concluded /\ finding.by = "gate" /\ finding.confidence # "review_required"

(* What the gate confirms rests on the model's answer: it cited something *)
(* and only what was issued, every edge it asserts is in the index, every *)
(* quotation is what was captured, the tools its candidate names ran, and *)
(* a context with holes came with stated assumptions.                     *)
ConfirmedIsGrounded ==
  ConfirmedByGate =>
    /\ proposal.verdict = "confirmed"
    /\ proposal.cited # {} /\ proposal.cited \subseteq selection.kept
    /\ proposal.edges \subseteq Calls
    /\ \A q \in proposal.quotes : bundle[q[1]] = q[2]
    /\ UnitTools \subseteq Ran
    /\ selection.dropped # {} \/ selection.blind => proposal.assumptions

(* A finding the report shows as confirmed, by the gate or on the          *)
(* analyzer's word, had its location and all its evidence unchanged in the *)
(* tree when the report resolved them again.                               *)
ConfirmedStillThere ==
  gateAt = "done" /\ finding.confidence # "review_required" =>
    \A r \in finding.evidence \cup {ReportedAt} : disk[r] = "orig"

(* The model saw the code the finding is about as the index knows it: for  *)
(* cited bytes to have been others, somebody must have changed the file    *)
(* between the two reads and put it back before the gate.                  *)
ShownUnlessChangedTwice ==
  ConfirmedByGate => \A r \in proposal.cited : bundle[r] = "orig" \/ rewrites[r] >= 2

(* An answer that cites what was never issued goes to review for that,     *)
(* whatever else is wrong with it and whether or not the model declined.   *)
(* One that asserts a call the index does not record goes to review for a  *)
(* symbol or a call edge that does not resolve, whatever else is wrong     *)
(* with it: only where somebody edited what it cites, or the place it is   *)
(* about, a file or lines that are gone come first (reasons.py _RANK).     *)
InventionNamedFirst ==
  gateAt = "report" /\ finding.by = "gate" =>
    /\ ~(proposal.cited \subseteq selection.kept) => finding.reason = "citation_unresolved"
    /\ ~(proposal.edges \subseteq Calls) =>
         \/ finding.reason \in {"symbol_unresolved", "call_edge_unresolved"}
         \/ finding.reason = "citation_unresolved" /\ ~(proposal.cited \subseteq selection.kept)
         \/ /\ finding.reason \in {"citation_unresolved", "missing_file"}
            /\ \E r \in proposal.cited \cup {ReportedAt} : r \in Captures /\ rewrites[r] > 0

(* No finding claims more than its proposal did, and what it claims as     *)
(* demonstrated has a recorded call edge, a function on the analyzer's     *)
(* path or one of its steps behind it, also when it goes to review.        *)
ClaimsWithinEvidence ==
  Concluded /\ finding.by = "gate" =>
    /\ ReachRank[finding.reach] <= ReachRank[proposal.reach]
    /\ ExploitRank[finding.exploit] <= ExploitRank[proposal.exploit]
    /\ finding.reach = "demonstrated" \/ finding.exploit = "demonstrated" =>
         \/ proposal.edges \cap Calls # {}
         \/ proposal.cited \cap Steps # {}
         \/ \E r \in proposal.cited \cap Planned : Role[r] = "flow_function"
    /\ finding.exploit = "plausible" =>
         \/ proposal.edges \cap Calls # {}
         \/ \E r \in proposal.cited \cap Planned : Role[r] \in {"caller", "flow_function"}

(* What the gate confirms stands on evidence of the right kind that was     *)
(* really shown (claims.py, budget.py UnitFactory).                         *)
ConfirmedOnTheEvidence ==
  /\ GateTypeOK
  /\ ShownUnlessChangedTwice
  /\ ClaimsWithinEvidence
=============================================================================
