----------------------------- MODULE GateProofs -----------------------------
(***************************************************************************)
(* Theorems about Gate, for any candidate, units, answers and edits.  The  *)
(* obligations about an answer are settled first, as facts about Verified; *)
(* the invariants then follow action by action.                            *)
(***************************************************************************)
EXTENDS Gate, FiniteSetTheorems, WellFoundedInduction, TLAPS

(* A set of reasons that is not empty has a first one in the report order. *)
LEMMA FirstExists ==
  ASSUME NEW S, NEW r \in S, r \in Reasons
  PROVE  /\ First(S) \in DOMAIN ReportOrder /\ ReportOrder[First(S)] \in S
         /\ \A j \in 1..(First(S) - 1) : ReportOrder[j] \notin S
<1> DEFINE T == {i \in DOMAIN ReportOrder : ReportOrder[i] \in S}
<1>1. DOMAIN ReportOrder = 1..20
  BY DEF ReportOrder
<1>2. T \in SUBSET Nat /\ T # {}
  BY <1>1 DEF Reasons
<1>3. PICK i \in T : \A j \in T : i <= j
  <2> DEFINE R == OpToRel(<, Nat)
  <2>1. IsWellFoundedOn(R, Nat)
    BY NatLessThanWellFounded
  <2> HIDE DEF R, T
  <2>2. PICK x \in T : \A y \in T : <<y, x>> \notin R
    BY <1>2, <2>1, WFMin
  <2>3. \A y \in T : ~ (y < x)
    BY <1>2, <2>2 DEF R, OpToRel
  <2> QED
    BY <1>2, <2>3
<1>4. \A j \in 1..(i - 1) : ReportOrder[j] \notin S
  BY <1>1, <1>3
<1> HIDE DEF T
<1>5. i \in DOMAIN ReportOrder /\ ReportOrder[i] \in S
  BY <1>3 DEF T
<1> QED
  BY <1>4, <1>5 DEF First

-----------------------------------------------------------------------------
(* Facts about an answer.                                                  *)

(* A reason that blocks is a reason. *)
LEMMA BlockingAreReasons == \A p : Blocking(p) \subseteq Reasons
BY DEF Blocking, BlockingReasons

(* An answer the gate does not accept has something that blocks it.        *)
LEMMA SomethingBlocks ==
  ASSUME NEW p \in Proposals, p.verdict \in {"confirmed", "rejected", "review_required"},
         ~Accepted(p)
  PROVE  Blocking(p) # {}
<1>1. CASE p.verdict = "confirmed"
  BY <1>1 DEF Accepted
<1>2. CASE p.verdict # "confirmed"
  <2>1. Checks(p)[7] = VerdictFailures(p)
    BY DEF Checks
  <2>2. PICK r \in {"model_rejected", "model_inconclusive"} : r \in VerdictFailures(p)
    BY <1>2 DEF VerdictFailures
  <2>3. r \in Failures(p)
    BY <2>1, <2>2 DEF Failures
  <2>4. "model_rejected" \in Reasons /\ "model_inconclusive" \in Reasons
    <3>1. ReportOrder[14] = "model_rejected" /\ ReportOrder[15] = "model_inconclusive"
          /\ DOMAIN ReportOrder = 1..20
      BY DEF ReportOrder
    <3> QED
      BY <3>1 DEF Reasons
  <2> QED
    BY <2>2, <2>3, <2>4 DEF Blocking, BlockingReasons, DowngradeOnly
<1> QED
  BY <1>1, <1>2

(* What the gate reports has its type. *)
LEMMA VerifiedType ==
  ASSUME GateAssumption, NEW p \in Proposals, DOMAIN bundle \subseteq Captures
  PROVE  Verified(p) \in Findings
<1>1. Downgraded(p) \in BOOLEAN
  BY DEF Downgraded
<1>2. KeptReach(p) \in DOMAIN ReachRank
  BY DEF GateAssumption, KeptReach, Weaker, ReachCeiling, ReachRank
<1>3. KeptExploit(p) \in DOMAIN ExploitRank
  BY DEF GateAssumption, KeptExploit, Weaker, ExploitCeiling, ExploitRank
<1>4. InBundle(p) \subseteq Captures /\ OwnEvidence \subseteq Captures
  BY DEF InBundle, OwnEvidence, Captures
<1>5. (IF Accepted(p) THEN "all_citations_resolved" ELSE PrimaryReason(p)) \in Reasons
  <2>1. "all_citations_resolved" \in Reasons
    <3>1. ReportOrder[20] = "all_citations_resolved" /\ DOMAIN ReportOrder = 1..20
      BY DEF ReportOrder
    <3> QED
      BY <3>1 DEF Reasons
  <2>2. ASSUME ~Accepted(p) PROVE PrimaryReason(p) \in Reasons
    <3>1. PICK r \in Blocking(p) : TRUE
      BY <2>2, SomethingBlocks DEF GateAssumption
    <3>2. First(Blocking(p)) \in DOMAIN ReportOrder
      BY <3>1, FirstExists, BlockingAreReasons
    <3> QED
      BY <3>2 DEF PrimaryReason, Reasons
  <2> QED
    BY <2>1, <2>2
<1> QED
  BY <1>1, <1>2, <1>3, <1>4, <1>5 DEF Verified, Findings

(* What promotion and refusals report has its type. *)
LEMMA PromotedType ==
  ASSUME GateAssumption
  PROVE  /\ Promoted \in Findings /\ Promoted.by = "analyzer"
         /\ \A reason \in Refusals :
              Refused(reason) \in Findings /\ Refused(reason).by = "analyzer"
<1>1. OwnEvidence \subseteq Captures
  BY DEF OwnEvidence, Captures
<1>2. {"hash_mismatch", "out_of_scope_family", "analyzer_only"} \subseteq Reasons
  <2>1. ReportOrder[5] = "hash_mismatch" /\ ReportOrder[10] = "out_of_scope_family"
        /\ ReportOrder[19] = "analyzer_only" /\ DOMAIN ReportOrder = 1..20
    BY DEF ReportOrder
  <2> QED
    BY <2>1 DEF Reasons
<1>3. Promoted \in Findings /\ Promoted.by = "analyzer"
  BY <1>1, <1>2 DEF Promoted, Findings, ReachRank, ExploitRank
<1> QED
  BY <1>3 DEF Refused, GateAssumption, Findings

(* A failed resolution is one of the reasons. *)
LEMMA ReportFailuresType ==
  ASSUME GateAssumption, disk \in [Captures -> Bytes], NEW f, f.evidence \subseteq Captures,
         NEW s \in ReportFailures(f)
  PROVE  ReasonForStatus[s] \in Reasons
<1>1. {"missing_file", "hash_mismatch", "citation_unresolved", "symbol_unresolved",
       "evidence_unavailable", "schema_violation"} \subseteq Reasons
  <2>1. /\ ReportOrder[1] = "citation_unresolved" /\ ReportOrder[2] = "missing_file"
        /\ ReportOrder[3] = "symbol_unresolved" /\ ReportOrder[5] = "hash_mismatch"
        /\ ReportOrder[6] = "evidence_unavailable" /\ ReportOrder[7] = "schema_violation"
        /\ DOMAIN ReportOrder = 1..20
    BY DEF ReportOrder
  <2> QED
    BY <2>1 DEF Reasons
<1>2. ReportedAt \in Captures
  BY DEF GateAssumption, Captures
<1>3. \A r \in Captures : ResolveRegion(r) \in DOMAIN ReasonForStatus \cup {"ok"}
  BY DEF ResolveRegion, StatusOfBytes, Bytes, ReasonForStatus
<1>4. \A r \in Captures : ResolveItem(r) \in DOMAIN ReasonForStatus \cup {"ok"}
  BY <1>3 DEF ResolveItem, ReasonForStatus
<1>5. s \in DOMAIN ReasonForStatus
  BY <1>2, <1>3, <1>4 DEF ReportFailures
<1> QED
  BY <1>1, <1>5 DEF ReasonForStatus

-----------------------------------------------------------------------------
(* Every variable of the candidate's run keeps its type. *)
LEMMA GateTypeInit == GateAssumption /\ GateInit => GateTypeOK
BY DEF GateAssumption, GateInit, GateTypeOK, Captured, NoContext, Bytes

LEMMA GateTypeNext == GateAssumption /\ GateTypeOK /\ [GateNext]_gateVars => GateTypeOK'
<1> SUFFICES ASSUME GateAssumption, GateTypeOK, [GateNext]_gateVars PROVE GateTypeOK'
  OBVIOUS
<1> USE DEF ledgerVars
<1>0. DOMAIN Plan = 1..Len(Plan) /\ Len(Plan) \in Nat /\ \A i \in 1..Len(Plan) : Plan[i] \in Planned
  BY DEF GateAssumption
<1>1. ASSUME NEW r \in Captures, Rewrite(r) PROVE GateTypeOK'
  <2>1. disk' \in [Captures -> Bytes]
    BY <1>1 DEF Rewrite, GateTypeOK, GateAssumption, Bytes
  <2>2. rewrites' \in [Captures -> Nat]
    BY <1>1 DEF Rewrite, GateTypeOK
  <2> QED
    BY <1>1, <2>1, <2>2 DEF Rewrite, GateTypeOK, Captured
<1>2. CASE PromoteFirst
  BY <1>2, PromotedType DEF PromoteFirst, GateTypeOK, Captured
<1>3. CASE CaptureSteps
  <2>1. DOMAIN bundle' \subseteq Captures /\ bundle' \in Captured'
    BY <1>3 DEF CaptureSteps, GateTypeOK, Captured, Captures, Bytes
  <2> QED
    BY <1>3, <2>1 DEF CaptureSteps, GateTypeOK, NoContext
<1>4. CASE ReadUnit
  <2>1. /\ at' \in 1..(Len(Plan) + 1) /\ unread' \subseteq Planned
        /\ \A i \in 1..(at' - 1) : Plan[i] \in unread' \cup DOMAIN bundle
    BY <1>0, <1>4 DEF ReadUnit, GateTypeOK
  <2> QED
    BY <1>4, <2>1 DEF ReadUnit, GateTypeOK, Captured
<1>5. CASE AddUnit
  <2>1. Plan[at] \in Planned /\ at' \in 1..(Len(Plan) + 1)
    BY <1>0, <1>5 DEF AddUnit, GateTypeOK
  <2>2. DOMAIN bundle' = DOMAIN bundle \cup {Plan[at]}
    BY <1>5 DEF AddUnit
  <2>3. bundle' \in Captured'
    BY <1>5, <2>2 DEF AddUnit, GateTypeOK, Captured
  <2>4. \A i \in 1..(at' - 1) : Plan[i] \in unread' \cup DOMAIN bundle'
    BY <1>5, <2>1, <2>2 DEF AddUnit, GateTypeOK
  <2> QED
    BY <1>5, <2>1, <2>2, <2>3, <2>4 DEF AddUnit, GateTypeOK, Captures, NoContext
<1>6. CASE AddRaises
  BY <1>6 DEF AddRaises, GateTypeOK, Captured
<1>7. CASE SelectUnits
  <2>1. Built \subseteq Planned \cap DOMAIN bundle
    <3>1. at = Len(Plan) + 1
      BY <1>0, <1>7 DEF SelectUnits, GateTypeOK
    <3>2. \A i \in 1..Len(Plan) : Plan[i] \in unread \cup DOMAIN bundle
      BY <1>0, <1>7, <3>1 DEF SelectUnits, GateTypeOK
    <3> QED
      BY <1>0, <3>2 DEF Built, Planned
  <2>2. /\ selection'.kept \cup selection'.dropped \subseteq Built
        /\ selection'.kept \cap selection'.dropped = {} /\ selection'.blind \in BOOLEAN
    <3>1. PICK dropped \in (SUBSET {r \in Built : Role[r] \notin PrimaryRoles}) \cup {Built},
               blind \in BOOLEAN :
            selection' = [kept |-> Built \ dropped, dropped |-> dropped, blind |-> blind]
      BY <1>7, Zenon DEF SelectUnits
    <3>2. /\ selection'.kept = Built \ dropped /\ selection'.dropped = dropped
          /\ selection'.blind \in BOOLEAN
      BY <3>1, Zenon
    <3>3. dropped \subseteq Built
      OBVIOUS
    <3>4. /\ (Built \ dropped) \cup dropped \subseteq Built
          /\ (Built \ dropped) \cap dropped = {}
      BY <3>3
    <3> QED
      BY <3>2, <3>4, Zenon
  <2> QED
    BY <1>7, <2>1, <2>2 DEF SelectUnits, GateTypeOK, Captured
<1>8. CASE Propose
  BY <1>8 DEF Propose, GateTypeOK, Captured
<1>9. CASE Refuse
  BY <1>9, PromotedType DEF Refuse, GateTypeOK, Captured
<1>10. CASE Verify
  BY <1>10, VerifiedType DEF Verify, GateTypeOK, Captured
<1>11. CASE BuildSections
  <2>1. finding' \in Findings
    <3>1. finding \in Findings /\ finding.evidence \subseteq Captures
      BY <1>11 DEF BuildSections, GateTypeOK, Findings
    <3>2. \A s \in ReportFailures(finding) : ReasonForStatus[s] \in Reasons
      BY <3>1, ReportFailuresType DEF GateTypeOK
    <3>3. CASE finding' = finding
      BY <3>1, <3>3
    <3>4. ASSUME NEW s \in ReportFailures(finding),
                 finding' = [finding EXCEPT !.confidence = "review_required",
                                            !.reason = ReasonForStatus[s]]
          PROVE finding' \in Findings
      <4>1. ReasonForStatus[s] \in Reasons
        BY <3>2, <3>4
      <4> HIDE DEF ReasonForStatus, Reasons
      <4> QED
        BY <3>1, <3>4, <4>1 DEF Findings
    <3> QED
      BY <1>11, <3>3, <3>4 DEF BuildSections
  <2> QED
    BY <1>11, <2>1 DEF BuildSections, GateTypeOK, Captured
<1>12. CASE UNCHANGED gateVars
  BY <1>12 DEF gateVars, GateTypeOK, Captured
<1> QED
  BY <1>1, <1>2, <1>3, <1>4, <1>5, <1>6, <1>7, <1>8, <1>9, <1>10, <1>11, <1>12 DEF GateNext, Step

(* The candidate's variables have their types, and only captured units are *)
(* issued (Gate, GateTypeOK).                                              *)
THEOREM GateTypeCorrect ==
  ASSUME GateAssumption
  PROVE  GateSpec => []GateTypeOK
<1>1. GateInit => GateTypeOK
  BY GateTypeInit
<1>2. GateTypeOK /\ [GateNext]_gateVars => GateTypeOK'
  BY GateTypeNext
<1> QED
  BY <1>1, <1>2, PTL DEF GateSpec

-----------------------------------------------------------------------------
(* What a confirmation rests on. *)

(* Nothing that blocks is among the failures of an accepted answer. *)
LEMMA AcceptedFailures ==
  ASSUME NEW p, Accepted(p), NEW i \in 1..9, NEW r \in Checks(p)[i],
         r \in BlockingReasons, r \notin DowngradeOnly
  PROVE  FALSE
<1>1. r \in Failures(p)
  BY DEF Failures
<1>2. r \in Blocking(p)
  BY <1>1 DEF Blocking
<1> QED
  BY <1>2 DEF Accepted

(* An accepted answer is grounded: each of its facts passed its check. *)
LEMMA AcceptedGrounded ==
  ASSUME GateAssumption, GateTypeOK, NEW p \in Proposals, Accepted(p)
  PROVE  /\ p.verdict = "confirmed"
         /\ p.cited # {} /\ p.cited \subseteq selection.kept
         /\ p.edges \subseteq Calls
         /\ \A q \in p.quotes : bundle[q[1]] = q[2]
         /\ UnitTools \subseteq Ran
         /\ selection.dropped # {} \/ selection.blind => p.assumptions
<1>1. {"citation_unresolved", "symbol_unresolved", "call_edge_unresolved", "hash_mismatch",
       "schema_violation", "assumptions_unstated"} \subseteq BlockingReasons \ DowngradeOnly
  <2>1. /\ ReportOrder[1] = "citation_unresolved" /\ ReportOrder[3] = "symbol_unresolved"
        /\ ReportOrder[4] = "call_edge_unresolved" /\ ReportOrder[5] = "hash_mismatch"
        /\ ReportOrder[7] = "schema_violation" /\ ReportOrder[13] = "assumptions_unstated"
        /\ DOMAIN ReportOrder = 1..20
    BY DEF ReportOrder
  <2> QED
    BY <2>1 DEF Reasons, BlockingReasons, DowngradeOnly
<1>2. /\ Checks(p)[1] = UnissuedFailures(p) /\ Checks(p)[3] = EdgeFailures(p)
      /\ Checks(p)[4] = QuotationFailures(p) /\ Checks(p)[5] = ProvenanceFailures
      /\ Checks(p)[6] = AssumptionFailures(p)
  BY DEF Checks
<1>3. /\ UnissuedFailures(p) = {} /\ EdgeFailures(p) = {} /\ QuotationFailures(p) = {}
      /\ ProvenanceFailures = {} /\ AssumptionFailures(p) = {}
  <2>1. UnissuedFailures(p) = {}
    BY <1>1, <1>2, AcceptedFailures DEF UnissuedFailures
  <2>2. EdgeFailures(p) = {}
    BY <1>1, <1>2, AcceptedFailures DEF EdgeFailures
  <2>3. QuotationFailures(p) = {}
    BY <1>1, <1>2, AcceptedFailures DEF QuotationFailures
  <2>4. ProvenanceFailures = {}
    BY <1>1, <1>2, AcceptedFailures DEF ProvenanceFailures
  <2>5. AssumptionFailures(p) = {}
    BY <1>1, <1>2, AcceptedFailures DEF AssumptionFailures
  <2> QED
    BY <2>1, <2>2, <2>3, <2>4, <2>5
<1>4. p.verdict = "confirmed" /\ p.cited # {}
  BY DEF Accepted, GateAssumption, WellFormed
<1>5. p.cited \subseteq selection.kept
  BY <1>3 DEF UnissuedFailures, Issued
<1>6. p.edges \subseteq Calls
  BY <1>3 DEF EdgeFailures, FailedEdges
<1>7. \A q \in p.quotes : bundle[q[1]] = q[2]
  BY <1>3 DEF QuotationFailures
<1>8. UnitTools \subseteq Ran
  BY <1>3 DEF ProvenanceFailures
<1>9. selection.dropped # {} \/ selection.blind => p.assumptions
  BY <1>3 DEF AssumptionFailures
<1> QED
  BY <1>4, <1>5, <1>6, <1>7, <1>8, <1>9

(* A confirmation of the gate rests on a grounded answer                   *)
(* (Gate, ConfirmedIsGrounded).                                            *)
THEOREM OnlyGroundedConfirmed ==
  ASSUME GateAssumption
  PROVE  GateSpec => []ConfirmedIsGrounded
<1>1. ASSUME GateAssumption, GateInit PROVE ConfirmedIsGrounded
  BY <1>1 DEF GateInit, ConfirmedIsGrounded, ConfirmedByGate, Concluded
<1>2. ASSUME GateAssumption, GateTypeOK, ConfirmedIsGrounded, [GateNext]_gateVars
      PROVE  ConfirmedIsGrounded'
  <2> USE DEF ledgerVars
  <2>1. CASE Verify
    <3>1. /\ finding' = Verified(proposal) /\ proposal \in Proposals
          /\ UNCHANGED <<proposal, selection, bundle>>
      BY <2>1, <1>2 DEF Verify, GateTypeOK
    <3>2. ConfirmedByGate' => Accepted(proposal)
      BY <3>1 DEF ConfirmedByGate, Verified
    <3> QED
      BY <1>2, <3>1, <3>2, AcceptedGrounded DEF ConfirmedIsGrounded
  <2>2. CASE AddRaises \/ Refuse
    <3>1. finding'.by = "analyzer"
      BY <1>2, <2>2, PromotedType DEF AddRaises, Refuse, GateTypeOK
    <3> QED
      BY <3>1 DEF ConfirmedIsGrounded, ConfirmedByGate
  <2>3. CASE BuildSections
    <3>1. ConfirmedByGate' => ConfirmedByGate
      <4>1. finding \in Findings /\ gateAt = "report"
        BY <1>2, <2>3 DEF BuildSections, GateTypeOK
      <4>2. finding' = finding \/ finding'.confidence = "review_required"
        BY <2>3, <4>1 DEF BuildSections, Findings
      <4> QED
        BY <4>1, <4>2 DEF ConfirmedByGate, Concluded
    <3>2. ConfirmedByGate /\ UNCHANGED <<proposal, selection, bundle>>
            => (ConfirmedIsGrounded => ConfirmedIsGrounded')
      BY DEF ConfirmedIsGrounded
    <3> QED
      BY <1>2, <2>3, <3>1, <3>2 DEF BuildSections, ConfirmedIsGrounded
  <2>4. CASE PromoteFirst \/ CaptureSteps \/ ReadUnit \/ AddUnit \/ SelectUnits \/ Propose
    <3>1. ~ConfirmedByGate'
      BY <2>4 DEF PromoteFirst, CaptureSteps, ReadUnit, AddUnit, SelectUnits, Propose,
                  ConfirmedByGate, Concluded
    <3> QED
      BY <3>1 DEF ConfirmedIsGrounded
  <2>5. CASE UNCHANGED gateVars \/ \E r \in Captures : Rewrite(r)
    BY <1>2, <2>5 DEF Rewrite, gateVars, ConfirmedIsGrounded, ConfirmedByGate, Concluded
  <2> QED
    BY <1>2, <2>1, <2>2, <2>3, <2>4, <2>5 DEF GateNext, Step
<1>3. GateInit => ConfirmedIsGrounded
  BY <1>1
<1>4. GateTypeOK /\ ConfirmedIsGrounded /\ [GateNext]_gateVars => ConfirmedIsGrounded'
  BY <1>2
<1> QED
  BY <1>3, <1>4, GateTypeCorrect, PTL DEF GateSpec

(* What the report shows as confirmed is in the tree as it was when the    *)
(* report was made (Gate, ConfirmedStillThere).                            *)
THEOREM ConfirmedIsCurrent ==
  ASSUME GateAssumption
  PROVE  GateSpec => []ConfirmedStillThere
<1>1. ASSUME GateInit PROVE ConfirmedStillThere
  BY <1>1 DEF GateInit, ConfirmedStillThere
<1>2. ASSUME GateAssumption, GateTypeOK, ConfirmedStillThere, [GateNext]_gateVars
      PROVE  ConfirmedStillThere'
  <2> USE DEF ledgerVars
  <2>1. CASE BuildSections
    <3>1. finding \in Findings /\ gateAt = "report" /\ UNCHANGED disk
      BY <1>2, <2>1 DEF BuildSections, GateTypeOK
    <3>2. CASE ReportFailures(finding) = {}
      <4>1. finding' = finding
        BY <2>1, <3>2 DEF BuildSections
      <4>2. \A r \in Captures : ResolveRegion(r) = "ok" \/ ResolveItem(r) = "ok" => disk[r] = "orig"
        BY <1>2 DEF GateTypeOK, ResolveItem, ResolveRegion, StatusOfBytes, Bytes
      <4>3. ReportedAt \in Captures /\ finding.evidence \subseteq Captures
        BY <1>2, <3>1 DEF GateAssumption, Captures, Findings
      <4>4. \A r \in finding.evidence \cup {ReportedAt} : disk[r] = "orig"
        BY <3>2, <4>2, <4>3 DEF ReportFailures
      <4> QED
        BY <3>1, <4>1, <4>4 DEF ConfirmedStillThere
    <3>3. CASE ReportFailures(finding) # {}
      <4>1. finding'.confidence = "review_required"
        BY <2>1, <3>1, <3>3 DEF BuildSections, Findings
      <4> QED
        BY <4>1 DEF ConfirmedStillThere
    <3> QED
      BY <3>2, <3>3
  <2>2. CASE PromoteFirst \/ CaptureSteps \/ ReadUnit \/ AddUnit \/ SelectUnits \/ Propose
             \/ AddRaises \/ Refuse \/ Verify
    <3>1. gateAt' # "done"
      BY <2>2 DEF PromoteFirst, CaptureSteps, ReadUnit, AddUnit, SelectUnits, Propose,
                  AddRaises, Refuse, Verify
    <3> QED
      BY <3>1 DEF ConfirmedStillThere
  <2>3. CASE \E r \in Captures : Rewrite(r)
    BY <2>3 DEF Rewrite, ConfirmedStillThere
  <2>4. CASE UNCHANGED gateVars
    BY <1>2, <2>4 DEF gateVars, ConfirmedStillThere
  <2> QED
    BY <1>2, <2>1, <2>2, <2>3, <2>4 DEF GateNext, Step
<1>3. GateInit => ConfirmedStillThere
  BY <1>1
<1>4. GateTypeOK /\ ConfirmedStillThere /\ [GateNext]_gateVars => ConfirmedStillThere'
  BY <1>2
<1> QED
  BY <1>3, <1>4, GateTypeCorrect, PTL DEF GateSpec

-----------------------------------------------------------------------------
(* Every edit is counted: a region that is not as indexed was edited, and  *)
(* one that was captured otherwise and is as indexed now was edited twice. *)
EditsCounted ==
  /\ \A r \in Captures : disk[r] # "orig" => rewrites[r] >= 1
  /\ \A r \in DOMAIN bundle :
       bundle[r] # "orig" => rewrites[r] >= 1 /\ (disk[r] = "orig" => rewrites[r] >= 2)

(* Every step keeps count of the edits.                                    *)
LEMMA EditsCountedNext ==
  ASSUME GateAssumption, GateTypeOK, EditsCounted, [GateNext]_gateVars
  PROVE  EditsCounted'
<1> USE DEF ledgerVars
<1>1. ASSUME NEW x \in Captures, Rewrite(x) PROVE EditsCounted'
  <2>1. /\ \A r \in Captures : rewrites'[r] = IF r = x THEN rewrites[r] + 1 ELSE rewrites[r]
        /\ \A r \in Captures \ {x} : disk'[r] = disk[r]
        /\ bundle' = bundle /\ DOMAIN bundle \subseteq Captures
    BY <1>1 DEF Rewrite, GateTypeOK
  <2>2. \A r \in Captures : rewrites[r] \in Nat
    BY DEF GateTypeOK
  <2> QED
    BY <2>1, <2>2 DEF EditsCounted
<1>2. CASE CaptureSteps
  <2>1. /\ DOMAIN bundle' \subseteq Captures /\ \A r \in DOMAIN bundle' : bundle'[r] = disk[r]
        /\ UNCHANGED <<disk, rewrites>>
    BY <1>2 DEF CaptureSteps, Captures
  <2> QED
    BY <2>1 DEF EditsCounted
<1>3. CASE AddUnit
  <2>1. Plan[at] \in Captures
    BY <1>3 DEF AddUnit, GateTypeOK, GateAssumption, Captures
  <2>2. /\ DOMAIN bundle' = DOMAIN bundle \cup {Plan[at]}
        /\ \A r \in DOMAIN bundle' :
             bundle'[r] = IF r \in DOMAIN bundle THEN bundle[r] ELSE disk[r]
        /\ UNCHANGED <<disk, rewrites>>
    BY <1>3 DEF AddUnit
  <2> QED
    BY <2>1, <2>2 DEF EditsCounted
<1>4. CASE PromoteFirst \/ ReadUnit \/ AddRaises \/ SelectUnits \/ Propose \/ Refuse \/ Verify
           \/ BuildSections \/ UNCHANGED gateVars
  <2>1. UNCHANGED <<disk, rewrites, bundle>>
    BY <1>4 DEF PromoteFirst, ReadUnit, AddRaises, SelectUnits, Propose, Refuse, Verify,
                BuildSections, gateVars
  <2> QED
    BY <2>1 DEF EditsCounted
<1> QED
  BY <1>1, <1>2, <1>3, <1>4 DEF GateNext, Step

(* The reasons the report names before any other, in their order.          *)
LEMMA FirstReasons ==
  /\ ReportOrder[1] = "citation_unresolved" /\ ReportOrder[2] = "missing_file"
  /\ ReportOrder[3] = "symbol_unresolved" /\ ReportOrder[4] = "call_edge_unresolved"
  /\ DOMAIN ReportOrder = 1..20
BY DEF ReportOrder

(* The reason given is a reason found, and of the first four none before   *)
(* it was found.                                                           *)
LEMMA FirstBlocking ==
  ASSUME NEW p \in Proposals, NEW k \in 1..4, ReportOrder[k] \in Failures(p)
  PROVE  /\ ~Accepted(p) /\ PrimaryReason(p) \in Failures(p)
         /\ \E i \in 1..k : PrimaryReason(p) = ReportOrder[i]
<1> DEFINE r == ReportOrder[k]
<1>1. r \in Reasons /\ r \notin {"analyzer_only", "all_citations_resolved", "impact_exceeds_evidence"}
  BY FirstReasons DEF Reasons
<1>2. r \in Blocking(p)
  BY <1>1 DEF Blocking, BlockingReasons, DowngradeOnly
<1>3. /\ First(Blocking(p)) \in 1..20 /\ ReportOrder[First(Blocking(p))] \in Blocking(p)
      /\ \A j \in 1..(First(Blocking(p)) - 1) : ReportOrder[j] \notin Blocking(p)
  BY <1>1, <1>2, FirstExists, FirstReasons
<1>4. First(Blocking(p)) \in 1..k
  BY <1>2, <1>3
<1> QED
  BY <1>2, <1>3, <1>4 DEF Accepted, PrimaryReason, Blocking

(* Where everything cited was issued, a citation or a file that does not   *)
(* resolve is one the tree no longer holds as indexed.                     *)
LEMMA OnlyEditsBreak ==
  ASSUME GateAssumption, GateTypeOK, NEW p \in Proposals, p.cited \subseteq selection.kept,
         NEW r \in Failures(p), r \in {"citation_unresolved", "missing_file"}
  PROVE  \E x \in p.cited \cup {ReportedAt} : x \in Captures /\ disk[x] # "orig"
<1>1. UnissuedFailures(p) = {}
  BY DEF UnissuedFailures, Issued
<1>2. r \notin EdgeFailures(p) /\ r \notin ProvenanceFailures /\ r \notin AssumptionFailures(p)
  BY DEF EdgeFailures, ProvenanceFailures, AssumptionFailures
<1>3. r \notin VerdictFailures(p) /\ r \notin ClaimFailures(p)
  BY DEF VerdictFailures, ClaimFailures
<1>4. r \notin WeaknessFailures(p)
  BY DEF WeaknessFailures, StatusFailure
<1>5. r \notin QuotationFailures(p)
  <2>1. {q[1] : q \in p.quotes} \subseteq p.cited
    BY DEF GateAssumption, WellFormed
  <2>2. \A q \in p.quotes : q[1] \in DOMAIN bundle
    BY <2>1 DEF GateTypeOK
  <2> QED
    BY <2>2 DEF QuotationFailures
<1>6. r \in LocationFailures(p)
  <2>1. PICK i \in 1..9 : r \in Checks(p)[i]
    BY DEF Failures
  <2> QED
    BY <1>1, <1>2, <1>3, <1>4, <1>5, <2>1 DEF Checks
<1>7. PICK s \in ({ResolveRegion(ReportedAt)} \cup {ResolveItem(x) : x \in InBundle(p)}) \ {"ok"} :
        r = ReasonForStatus[s]
  BY <1>6 DEF LocationFailures
<1>8. s # "symbol_not_found"
  BY <1>7 DEF ReasonForStatus
<1>9. PICK x \in {ReportedAt} \cup InBundle(p) : s = ResolveRegion(x)
  BY <1>7, <1>8 DEF ResolveItem
<1>10. x \in p.cited \cup {ReportedAt} /\ x \in Captures
  BY <1>9 DEF InBundle, GateTypeOK, GateAssumption, Captures
<1>11. s # "excluded_file"
  BY <1>7 DEF ReasonForStatus
<1>12. disk[x] # "orig"
  BY <1>7, <1>9, <1>11 DEF ResolveRegion, StatusOfBytes
<1> QED
  BY <1>10, <1>12

(* An answer that invents goes to review for that (Gate,                   *)
(* InventionNamedFirst), as the gate finds the tree.                       *)
LEMMA InventionBlocksFirst ==
  ASSUME GateAssumption, GateTypeOK, NEW p \in Proposals
  PROVE  /\ ~(p.cited \subseteq selection.kept) =>
              ~Accepted(p) /\ PrimaryReason(p) = "citation_unresolved"
         /\ ~(p.edges \subseteq Calls) =>
              /\ ~Accepted(p)
              /\ \/ PrimaryReason(p) \in {"symbol_unresolved", "call_edge_unresolved"}
                 \/ PrimaryReason(p) = "citation_unresolved" /\ ~(p.cited \subseteq selection.kept)
                 \/ /\ PrimaryReason(p) \in {"citation_unresolved", "missing_file"}
                    /\ \E x \in p.cited \cup {ReportedAt} : x \in Captures /\ disk[x] # "orig"
<1>1. ASSUME ~(p.cited \subseteq selection.kept)
      PROVE  ~Accepted(p) /\ PrimaryReason(p) = "citation_unresolved"
  <2>1. "citation_unresolved" \in UnissuedFailures(p)
    BY <1>1 DEF UnissuedFailures, Issued
  <2>2. ReportOrder[1] \in Failures(p)
    BY <2>1, FirstReasons DEF Failures, Checks
  <2> QED
    BY <2>2, FirstBlocking, FirstReasons
<1>2. ASSUME ~(p.edges \subseteq Calls)
      PROVE  /\ ~Accepted(p) /\ PrimaryReason(p) \in Failures(p)
             /\ \E i \in 1..4 : PrimaryReason(p) = ReportOrder[i]
  <2>1. Checks(p)[3] = EdgeFailures(p)
    BY DEF Checks
  <2>2. PICK k \in 3..4 : ReportOrder[k] \in EdgeFailures(p)
    BY <1>2, FirstReasons DEF EdgeFailures, FailedEdges
  <2>3. k \in 1..4 /\ ReportOrder[k] \in Failures(p)
    BY <2>1, <2>2 DEF Failures
  <2> QED
    BY <2>3, FirstBlocking
<1>3. ASSUME ~(p.edges \subseteq Calls), p.cited \subseteq selection.kept
      PROVE  \/ PrimaryReason(p) \in {"symbol_unresolved", "call_edge_unresolved"}
             \/ /\ PrimaryReason(p) \in {"citation_unresolved", "missing_file"}
                /\ \E x \in p.cited \cup {ReportedAt} : x \in Captures /\ disk[x] # "orig"
  BY <1>2, <1>3, OnlyEditsBreak, FirstReasons
<1> QED
  BY <1>1, <1>2, <1>3

(* An answer that invents goes to review for that, and for nothing that is *)
(* wrong with it besides (Gate, InventionNamedFirst).                      *)
THEOREM InventionAlwaysNamed ==
  ASSUME GateAssumption
  PROVE  GateSpec => []InventionNamedFirst
<1>1. GateInit => EditsCounted /\ InventionNamedFirst
  BY DEF GateInit, EditsCounted, InventionNamedFirst
<1>2. GateTypeOK /\ EditsCounted /\ InventionNamedFirst /\ [GateNext]_gateVars
        => (EditsCounted /\ InventionNamedFirst)'
  <2> SUFFICES ASSUME GateTypeOK, EditsCounted, InventionNamedFirst, [GateNext]_gateVars
               PROVE  InventionNamedFirst'
    BY EditsCountedNext
  <2> USE DEF ledgerVars
  <2>1. CASE Verify
    <3>1. /\ finding' = Verified(proposal) /\ proposal \in Proposals
          /\ UNCHANGED <<proposal, selection, rewrites>>
      BY <2>1 DEF Verify, GateTypeOK
    <3>2. ~Accepted(proposal) => finding'.reason = PrimaryReason(proposal)
      BY <3>1 DEF Verified
    <3>3. \A r \in Captures : rewrites[r] \in Nat /\ (disk[r] # "orig" => rewrites[r] > 0)
      BY DEF EditsCounted, GateTypeOK
    <3> QED
      BY <3>1, <3>2, <3>3, InventionBlocksFirst DEF InventionNamedFirst
  <2>2. CASE AddRaises \/ Refuse
    <3>1. finding'.by = "analyzer"
      BY <2>2, PromotedType DEF AddRaises, Refuse, GateTypeOK
    <3> QED
      BY <3>1 DEF InventionNamedFirst
  <2>3. CASE PromoteFirst \/ CaptureSteps \/ ReadUnit \/ AddUnit \/ SelectUnits \/ Propose
             \/ BuildSections
    <3>1. gateAt' # "report"
      BY <2>3 DEF PromoteFirst, CaptureSteps, ReadUnit, AddUnit, SelectUnits, Propose, BuildSections
    <3> QED
      BY <3>1 DEF InventionNamedFirst
  <2>4. ASSUME NEW x \in Captures, Rewrite(x) PROVE InventionNamedFirst'
    <3>1. UNCHANGED <<gateAt, finding, proposal, selection>>
      BY <2>4 DEF Rewrite
    <3>2. \A r \in Captures : rewrites[r] > 0 => rewrites'[r] > 0
      BY <2>4 DEF Rewrite, GateTypeOK
    <3> QED
      BY <3>1, <3>2 DEF InventionNamedFirst
  <2>5. CASE UNCHANGED gateVars
    BY <2>5 DEF gateVars, InventionNamedFirst
  <2> QED
    BY <2>1, <2>2, <2>3, <2>4, <2>5 DEF GateNext, Step
<1> QED
  BY <1>1, <1>2, GateTypeCorrect, PTL DEF GateSpec
-----------------------------------------------------------------------------
(* What a finding claims, and what the model was shown.                    *)

(* A verified edge is one the index records. *)
LEMMA VerifiedIsRecorded ==
  ASSUME GateAssumption, NEW p \in Proposals, VerifiedEdges(p) > 0
  PROVE  p.edges \cap Calls # {}
<1>1. IsFiniteSet(p.edges)
  BY DEF GateAssumption
<1>2. Cardinality(p.edges) \in Nat
  BY <1>1, FS_CardinalityType
<1>3. p.edges \cap Calls = {} => FailedEdges(p) = p.edges
  BY DEF FailedEdges
<1> QED
  BY <1>2, <1>3 DEF VerifiedEdges

(* The gate lowers a claim to what the citations establish, and never      *)
(* raises one.                                                             *)
LEMMA VerifiedClaims ==
  ASSUME GateAssumption, GateTypeOK, NEW p \in Proposals
  PROVE  LET f == Verified(p) IN
         /\ ReachRank[f.reach] <= ReachRank[p.reach]
         /\ ExploitRank[f.exploit] <= ExploitRank[p.exploit]
         /\ f.reach = "demonstrated" \/ f.exploit = "demonstrated" =>
              \/ p.edges \cap Calls # {}
              \/ p.cited \cap Steps # {}
              \/ \E r \in p.cited \cap Planned : Role[r] = "flow_function"
         /\ f.exploit = "plausible" =>
              \/ p.edges \cap Calls # {}
              \/ \E r \in p.cited \cap Planned : Role[r] \in {"caller", "flow_function"}
<1> DEFINE Recorded == p.edges \cap Calls # {}
           Flow(roles) == \E r \in p.cited \cap Planned : Role[r] \in roles
<1>1. p.reach \in DOMAIN ReachRank /\ p.exploit \in DOMAIN ExploitRank
  BY DEF GateAssumption
<1>2. Verified(p).reach = KeptReach(p) /\ Verified(p).exploit = KeptExploit(p)
  BY DEF Verified
<1>3. ReachRank[KeptReach(p)] <= ReachRank[p.reach] /\ ReachRank[KeptReach(p)] <= ReachRank[ReachCeiling(p)]
  BY <1>1 DEF KeptReach, Weaker, ReachCeiling, ReachRank
<1>4. ExploitRank[KeptExploit(p)] <= ExploitRank[p.exploit]
        /\ ExploitRank[KeptExploit(p)] <= ExploitRank[ExploitCeiling(p)]
  BY <1>1 DEF KeptExploit, Weaker, ExploitCeiling, ExploitRank
<1>5. selection.kept \cup selection.dropped \subseteq Planned
  BY DEF GateTypeOK
<1>6. \A roles : CitedRoles(p) \cap roles # {} => Flow(roles)
  BY <1>5 DEF CitedRoles
<1>7. ControlFlow(p) => Recorded \/ p.cited \cap Steps # {} \/ Flow({"flow_function"})
  <2>1. "flow_function" \in CitedRoles(p) => Flow({"flow_function"})
    BY <1>6
  <2>2. InBundle(p) \cap Steps # {} => p.cited \cap Steps # {}
    BY DEF InBundle
  <2> QED
    BY <2>1, <2>2, VerifiedIsRecorded DEF ControlFlow
<1>8. Upstream(p) => Recorded \/ Flow({"caller", "flow_function"})
  BY <1>6, VerifiedIsRecorded DEF Upstream
<1>9. KeptReach(p) = "demonstrated" => ControlFlow(p)
  BY <1>3 DEF ReachCeiling, ReachRank
<1>10. KeptExploit(p) = "demonstrated" => ControlFlow(p)
  BY <1>4 DEF ExploitCeiling, ExploitRank
<1>11. KeptExploit(p) = "plausible" => Upstream(p)
  BY <1>4 DEF ExploitCeiling, ExploitRank
<1> HIDE DEF Recorded
<1>12. Flow({"flow_function"}) => \E r \in p.cited \cap Planned : Role[r] = "flow_function"
  OBVIOUS
<1>13. Recorded => p.edges \cap Calls # {}
  BY DEF Recorded
<1> QED
  BY <1>2, <1>3, <1>4, <1>7, <1>8, <1>9, <1>10, <1>11, <1>12, <1>13

(* No finding claims more than its evidence shows (Gate,                   *)
(* ClaimsWithinEvidence).                                                  *)
THEOREM ClaimsNeverExceed ==
  ASSUME GateAssumption
  PROVE  GateSpec => []ClaimsWithinEvidence
<1>1. GateInit => ClaimsWithinEvidence
  BY DEF GateInit, ClaimsWithinEvidence, Concluded
<1>2. GateTypeOK /\ ClaimsWithinEvidence /\ [GateNext]_gateVars => ClaimsWithinEvidence'
  <2> SUFFICES ASSUME GateTypeOK, ClaimsWithinEvidence, [GateNext]_gateVars PROVE ClaimsWithinEvidence'
    OBVIOUS
  <2> USE DEF ledgerVars
  <2>1. CASE Verify
    <3>1. finding' = Verified(proposal) /\ proposal \in Proposals /\ UNCHANGED proposal
      BY <2>1 DEF Verify, GateTypeOK
    <3> QED
      BY <3>1, VerifiedClaims DEF ClaimsWithinEvidence
  <2>2. CASE AddRaises \/ Refuse
    <3>1. finding'.by = "analyzer"
      BY <2>2, PromotedType DEF AddRaises, Refuse, GateTypeOK
    <3> QED
      BY <3>1 DEF ClaimsWithinEvidence
  <2>3. CASE BuildSections
    <3>1. finding \in Findings /\ Concluded /\ UNCHANGED proposal
      BY <2>3 DEF BuildSections, GateTypeOK, Concluded
    <3>2. /\ finding'.by = finding.by /\ finding'.reach = finding.reach
          /\ finding'.exploit = finding.exploit
      BY <2>3, <3>1 DEF BuildSections, Findings
    <3> QED
      BY <3>1, <3>2 DEF ClaimsWithinEvidence
  <2>4. CASE PromoteFirst \/ CaptureSteps \/ ReadUnit \/ AddUnit \/ SelectUnits \/ Propose
    <3>1. ~Concluded'
      BY <2>4 DEF PromoteFirst, CaptureSteps, ReadUnit, AddUnit, SelectUnits, Propose, Concluded
    <3> QED
      BY <3>1 DEF ClaimsWithinEvidence
  <2>5. CASE UNCHANGED gateVars \/ \E r \in Captures : Rewrite(r)
    BY <2>5 DEF Rewrite, gateVars, ClaimsWithinEvidence, Concluded
  <2> QED
    BY <2>1, <2>2, <2>3, <2>4, <2>5 DEF GateNext, Step
<1> QED
  BY <1>1, <1>2, GateTypeCorrect, PTL DEF GateSpec

(* What an accepted answer cites is in the tree as indexed. *)
LEMMA AcceptedResolves ==
  ASSUME GateAssumption, GateTypeOK, NEW p \in Proposals, Accepted(p), NEW r \in InBundle(p)
  PROVE  disk[r] = "orig"
<1>1. r \in Captures
  BY DEF InBundle, GateTypeOK
<1>2. ResolveItem(r) \in DOMAIN ReasonForStatus \cup {"ok"}
  BY <1>1 DEF GateTypeOK, ResolveItem, ResolveRegion, StatusOfBytes, Bytes, ReasonForStatus
<1>3. \A s \in DOMAIN ReasonForStatus : ReasonForStatus[s] \in BlockingReasons \ DowngradeOnly
  <2>1. /\ ReportOrder[1] = "citation_unresolved" /\ ReportOrder[2] = "missing_file"
        /\ ReportOrder[3] = "symbol_unresolved" /\ ReportOrder[5] = "hash_mismatch"
        /\ ReportOrder[6] = "evidence_unavailable" /\ ReportOrder[7] = "schema_violation"
        /\ DOMAIN ReportOrder = 1..20
    BY DEF ReportOrder
  <2>2. {"missing_file", "hash_mismatch", "citation_unresolved", "symbol_unresolved",
         "evidence_unavailable", "schema_violation"} \subseteq BlockingReasons \ DowngradeOnly
    BY <2>1 DEF Reasons, BlockingReasons, DowngradeOnly
  <2> QED
    BY <2>2 DEF ReasonForStatus
<1>4. Checks(p)[2] = LocationFailures(p)
  BY DEF Checks
<1>5. ResolveItem(r) = "ok"
  <2> SUFFICES ASSUME ResolveItem(r) # "ok" PROVE FALSE
    OBVIOUS
  <2>1. ReasonForStatus[ResolveItem(r)] \in LocationFailures(p)
    BY DEF LocationFailures
  <2> QED
    BY <1>2, <1>3, <1>4, <2>1, AcceptedFailures
<1> QED
  BY <1>1, <1>5 DEF GateTypeOK, ResolveItem, ResolveRegion, StatusOfBytes, Bytes

(* The model saw the code as indexed, unless somebody changed it and       *)
(* changed it back (Gate, ShownUnlessChangedTwice).                        *)
THEOREM ShownAsIndexed ==
  ASSUME GateAssumption
  PROVE  GateSpec => []ShownUnlessChangedTwice
<1>1. GateInit => EditsCounted /\ ShownUnlessChangedTwice
  BY DEF GateInit, EditsCounted, ShownUnlessChangedTwice, ConfirmedByGate, Concluded
<1>2. GateTypeOK /\ ConfirmedIsGrounded /\ EditsCounted /\ ShownUnlessChangedTwice /\ [GateNext]_gateVars
        => (EditsCounted /\ ShownUnlessChangedTwice)'
  <2> SUFFICES ASSUME GateTypeOK, ConfirmedIsGrounded, EditsCounted, ShownUnlessChangedTwice,
                      [GateNext]_gateVars
               PROVE  ShownUnlessChangedTwice'
    BY EditsCountedNext
  <2> USE DEF ledgerVars
  <2>1. CASE Verify
    <3>1. /\ finding' = Verified(proposal) /\ proposal \in Proposals
          /\ UNCHANGED <<proposal, bundle, rewrites>>
      BY <2>1 DEF Verify, GateTypeOK
    <3>2. ConfirmedByGate' => Accepted(proposal)
      BY <3>1 DEF ConfirmedByGate, Verified
    <3>3. Accepted(proposal) => proposal.cited \subseteq InBundle(proposal)
      BY <3>1, AcceptedGrounded DEF GateTypeOK, InBundle
    <3>4. Accepted(proposal) => \A r \in proposal.cited : disk[r] = "orig" /\ r \in DOMAIN bundle
      BY <3>1, <3>3, AcceptedResolves DEF InBundle
    <3> QED
      BY <3>1, <3>2, <3>4 DEF EditsCounted, ShownUnlessChangedTwice
  <2>2. CASE AddRaises \/ Refuse
    <3>1. finding'.by = "analyzer"
      BY <2>2, PromotedType DEF AddRaises, Refuse, GateTypeOK
    <3> QED
      BY <3>1 DEF ShownUnlessChangedTwice, ConfirmedByGate
  <2>3. CASE BuildSections
    <3>1. finding \in Findings /\ Concluded /\ UNCHANGED <<proposal, bundle, rewrites>>
      BY <2>3 DEF BuildSections, GateTypeOK, Concluded
    <3>2. finding' = finding \/ finding'.confidence = "review_required"
      BY <2>3, <3>1 DEF BuildSections, Findings
    <3> QED
      BY <3>1, <3>2 DEF ShownUnlessChangedTwice, ConfirmedByGate
  <2>4. CASE PromoteFirst \/ CaptureSteps \/ ReadUnit \/ AddUnit \/ SelectUnits \/ Propose
    <3>1. ~ConfirmedByGate'
      BY <2>4 DEF PromoteFirst, CaptureSteps, ReadUnit, AddUnit, SelectUnits, Propose,
                  ConfirmedByGate, Concluded
    <3> QED
      BY <3>1 DEF ShownUnlessChangedTwice
  <2>5. ASSUME NEW x \in Captures, Rewrite(x) PROVE ShownUnlessChangedTwice'
    <3>1. UNCHANGED <<gateAt, finding, proposal, bundle, selection>>
      BY <2>5 DEF Rewrite
    <3>2. \A r \in Captures : rewrites[r] \in Nat /\ rewrites'[r] \in Nat /\ rewrites'[r] >= rewrites[r]
      BY <2>5 DEF Rewrite, GateTypeOK
    <3>3. ConfirmedByGate => proposal.cited \subseteq Captures
      BY DEF ConfirmedIsGrounded, GateTypeOK
    <3> QED
      BY <3>1, <3>2, <3>3 DEF ShownUnlessChangedTwice, ConfirmedByGate, Concluded
  <2>6. CASE UNCHANGED gateVars
    BY <2>6 DEF gateVars, ShownUnlessChangedTwice, ConfirmedByGate, Concluded
  <2> QED
    BY <2>1, <2>2, <2>3, <2>4, <2>5, <2>6 DEF GateNext, Step
<1> QED
  BY <1>1, <1>2, GateTypeCorrect, OnlyGroundedConfirmed, PTL DEF GateSpec

(* What the gate confirms stands on evidence that was shown (Gate,         *)
(* ConfirmedOnTheEvidence).                                                *)
THEOREM AlwaysOnTheEvidence ==
  ASSUME GateAssumption
  PROVE  GateSpec => []ConfirmedOnTheEvidence
<1>1. GateTypeOK /\ ShownUnlessChangedTwice /\ ClaimsWithinEvidence => ConfirmedOnTheEvidence
  BY DEF ConfirmedOnTheEvidence
<1> QED
  BY <1>1, GateTypeCorrect, ShownAsIndexed, ClaimsNeverExceed, PTL
=============================================================================
