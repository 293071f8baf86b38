------------------------------ MODULE Adjudicate ------------------------------
(***************************************************************************)
(* One candidate put to the models (llm/service.py, llm/routing.py): the   *)
(* refusals that need no call, triage, the routing table, the chosen tier, *)
(* and the one escalation the first answer may earn.  A candidate is known *)
(* here by the question its retrieved context makes.                       *)
(***************************************************************************)
EXTENDS AttemptLoop

CONSTANTS
    Adjudicable,      \* questions whose context holds code (is_adjudicable)
    HasPrimary,       \* questions whose context holds a primary unit
    OutOfScope,       \* questions about candidates with no family in scope
    Excluded,         \* questions about candidates in a file exclude_globs names
    PerCandidate,     \* token_budget.per_candidate
    TriageEnabled,    \* llm.triage_enabled
    AllowEscalation   \* llm.allow_escalation

ASSUME AdjudicateAssumption ==
    /\ Adjudicable \subseteq Questions
    /\ HasPrimary \subseteq Questions
    /\ OutOfScope \subseteq Questions
    /\ Excluded \subseteq Questions
    /\ PerCandidate \in Nat \ {0}
    /\ TriageEnabled \in BOOLEAN
    /\ AllowEscalation \in BOOLEAN
    /\ \E peak \in Usages : \A usage \in Usages : usage <= peak

Reasons ==
    {"context_budget_exceeded", "run_budget_exhausted", "analyzer_only",
     "citation_unresolved", "provider_unavailable", "schema_invalid_response"}

Results == [tier : Tiers, proposal : Proposals \cup {None}, reason : Reasons \cup {None}]

VARIABLE cand   \* the candidate being adjudicated

adjudicateVars == <<account, cache, req, wire, cand>>

NoCandidate ==
    [phase |-> "idle", q |-> None, decided |-> None, first |-> None,
     attempts |-> <<>>, result |-> None]

AdjudicateInit == AttemptInit /\ cand = NoCandidate

-----------------------------------------------------------------------------
(* Mutant: without a triage answer the worst is assumed of the impact too.  *)
UntriagedSevere == [disposition |-> "adjudicate", ambiguous |-> TRUE, severe |-> TRUE]

(* What routing assumes when triage is off, failed or was turned back.      *)
Untriaged == [disposition |-> "adjudicate", ambiguous |-> TRUE, severe |-> FALSE]

(* The table over (ambiguity x impact), with the three clauses that keep    *)
(* the expensive tier for cases it can change.                              *)
Route(q, decided) ==
    IF decided.disposition = "dismiss" THEN "triage"
    ELSE IF /\ decided.ambiguous /\ decided.severe
            /\ AllowEscalation /\ q \in HasPrimary /\ q \notin OutOfScope
         THEN "escalation"
         ELSE "adjudication"

(* escalation_input() and TriageResult.from_verdict(): an adjudication read *)
(* as a triage result.                                                      *)
EscalationInput(proposal) ==
    [disposition |-> IF proposal.verdict = "rejected" THEN "dismiss" ELSE "adjudicate",
     ambiguous |-> proposal.verdict = "review_required",
     severe |-> proposal.severe]

Result(tier, proposal, reason) == [tier |-> tier, proposal |-> proposal, reason |-> reason]

-----------------------------------------------------------------------------
(* The head of adjudicate(): each test in the order the code makes it.      *)
Opened(q) == [NoCandidate EXCEPT !.phase = "done", !.q = q]

NextCandidate == wire' = [wire EXCEPT !.sent = 0, !.barred = 0, !.begun = @ + 1]

Stopped == StopReason(account) # "none"
Oversize(q) == Estimate[q] > PerCandidate

Refuse(q, reason) ==
    /\ cand' = [Opened(q) EXCEPT !.result = Result("adjudication", None, reason)]
    /\ NextCandidate
    /\ UNCHANGED <<cache, req>>

RefuseNoContext(q) ==
    /\ q \notin Adjudicable
    /\ Refuse(q, "context_budget_exceeded")
    /\ UNCHANGED account

RefuseStopped(q) ==
    /\ q \in Adjudicable
    /\ Stopped
    /\ Refuse(q, "run_budget_exhausted")
    /\ account' = RefusedOne(account)

(* assemble() will not put together a prompt about a candidate that lies in *)
(* an excluded file: its PrivacyError leaves adjudicate() and every caller. *)
Raise(q) ==
    /\ q \in Adjudicable \cap Excluded
    /\ ~Stopped
    /\ cand' = [Opened(q) EXCEPT !.phase = "raised"]
    /\ NextCandidate
    /\ UNCHANGED <<account, cache, req>>

RefuseOversize(q) ==
    /\ q \in Adjudicable \ Excluded
    /\ ~Stopped
    /\ Oversize(q)
    /\ Refuse(q, "context_budget_exceeded")
    /\ UNCHANGED account

(* Mutant: the run's ceilings are not looked at.                            *)
AdmittedAnyway(q) == q \in Adjudicable \ Excluded /\ ~Oversize(q)

Admitted(q) == q \in Adjudicable \ Excluded /\ ~Stopped /\ ~Oversize(q)

StartTriage(q) ==
    /\ Admitted(q)
    /\ TriageEnabled
    /\ Ask(q, "triage")
    /\ cand' = [Opened(q) EXCEPT !.phase = "triage"]
    /\ NextCandidate
    /\ UNCHANGED <<account, cache>>

StartUntriaged(q) ==
    /\ Admitted(q)
    /\ ~TriageEnabled
    /\ Ask(q, Route(q, Untriaged))
    /\ cand' = [Opened(q) EXCEPT !.phase = "adjudicate", !.decided = Untriaged]
    /\ NextCandidate
    /\ UNCHANGED <<account, cache>>

Present(q) ==
    \/ RefuseNoContext(q)
    \/ RefuseStopped(q)
    \/ Raise(q)
    \/ RefuseOversize(q)
    \/ StartTriage(q)
    \/ StartUntriaged(q)

-----------------------------------------------------------------------------
Returned(phase) == cand.phase = phase /\ req.phase = "done"

(* Mutant: the attempts of the earlier tiers are not prepended.             *)
RecordedLast == req.outcomes

Recorded == cand.attempts \o req.outcomes

Conclude(result) ==
    /\ cand' = [cand EXCEPT !.phase = "done", !.attempts = Recorded, !.result = result]
    /\ UNCHANGED attemptVars

TriageSaid == IF req.answer = None THEN Untriaged ELSE req.answer

(* The cheap tier dismissed the candidate: the analyzer's word stands.      *)
Dismiss ==
    /\ Returned("triage")
    /\ Route(cand.q, TriageSaid) = "triage"
    /\ Conclude(Result("triage", None, "analyzer_only"))

AskChosenTier ==
    /\ Returned("triage")
    /\ LET tier == Route(cand.q, TriageSaid)
       IN  /\ tier # "triage"
           /\ Ask(cand.q, tier)
    /\ cand' = [cand EXCEPT !.phase = "adjudicate", !.decided = TriageSaid,
                            !.attempts = Recorded]
    /\ UNCHANGED <<account, cache, wire>>

NoProposal ==
    /\ Returned("adjudicate")
    /\ req.answer = None
    /\ Conclude(Result(req.tier, None, ReasonFor(req.outcomes)))

(* Mutant: the ceilings are not looked at again before escalating.          *)
EarnedRegardless ==
    /\ req.tier = "adjudication"
    /\ Route(cand.q, EscalationInput(req.answer)) = "escalation"

(* _maybe_escalate(): the same table over the first answer, and the ceiling *)
(* looked at once more.                                                     *)
Earned ==
    /\ req.tier = "adjudication"
    /\ Route(cand.q, EscalationInput(req.answer)) = "escalation"
    /\ ~Stopped

TakeProposal ==
    /\ Returned("adjudicate")
    /\ req.answer # None
    /\ ~Earned
    /\ Conclude(Result(req.tier, req.answer, None))

Escalate ==
    /\ Returned("adjudicate")
    /\ req.answer # None
    /\ Earned
    /\ Ask(cand.q, "escalation")
    /\ cand' = [cand EXCEPT !.phase = "escalate", !.first = req.answer,
                            !.attempts = Recorded]
    /\ UNCHANGED <<account, cache, wire>>

(* Mutant: a failed escalation fails the candidate.                         *)
SettleEscalationFails ==
    /\ Returned("escalate")
    /\ Conclude(IF req.answer = None
                THEN Result("escalation", None, ReasonFor(req.outcomes))
                ELSE Result("escalation", req.answer, None))

(* The stronger tier answered, or could not and the first answer stands.    *)
SettleEscalation ==
    /\ Returned("escalate")
    /\ Conclude(IF req.answer = None
                THEN Result("adjudication", cand.first, None)
                ELSE Result("escalation", req.answer, None))

AdjudicateStep ==
    \/ AttemptStep /\ UNCHANGED cand
    \/ Dismiss
    \/ AskChosenTier
    \/ NoProposal
    \/ TakeProposal
    \/ Escalate
    \/ SettleEscalation

-----------------------------------------------------------------------------
(* Candidate after candidate on one account and one cache, in any order and *)
(* with repetition, until an exception ends it: the environment under which *)
(* the service is checked.                                                  *)
AdjudicateNext ==
    \/ /\ cand.phase \in {"idle", "done"}
       /\ wire.begun < MaxRequests
       /\ \E q \in Questions : Present(q)
    \/ AdjudicateStep

(* The caller blocks on its candidate, and a provider call returns or times *)
(* out within request_timeout_seconds: the service keeps taking steps.      *)
AdjudicateSpec ==
    /\ AdjudicateInit
    /\ [][AdjudicateNext]_adjudicateVars
    /\ WF_adjudicateVars(AdjudicateStep)

-----------------------------------------------------------------------------
(* The domains; a candidate under way has a question and its request is     *)
(* about that question.                                                     *)
AdjudicateTypeOK ==
    /\ AttemptTypeOK
    /\ cand \in [phase : {"idle", "triage", "adjudicate", "escalate", "done", "raised"},
                 q : Questions \cup {None},
                 decided : TriageResults \cup {None},
                 first : Proposals \cup {None},
                 attempts : Seq(Outcomes),
                 result : Results \cup {None}]
    /\ cand.phase \in {"triage", "adjudicate", "escalate"} =>
         req.q = cand.q /\ req.phase # "idle"

(* The expensive tier is only ever in use for a candidate with code on the  *)
(* page and a family in scope, and because an answer that was really given  *)
(* was both ambiguous and severe: never by default after a failed triage    *)
(* (route, _maybe_escalate).                                                *)
AnswerGiven(attempts) == \E i \in DOMAIN attempts : attempts[i] \in {"accepted", "cached"}

EscalationEarned ==
    (cand.phase \in {"adjudicate", "escalate"} /\ req.tier = "escalation") =>
        /\ AllowEscalation /\ cand.q \in HasPrimary \ OutOfScope
        /\ AnswerGiven(cand.attempts)
        /\ \/ cand.decided \in TriageReplies
              /\ cand.decided.ambiguous /\ cand.decided.severe
           \/ cand.first \in Proposals
              /\ cand.first.verdict = "review_required" /\ cand.first.severe

(* A candidate that got a proposal keeps one: an escalation that fails, is  *)
(* refused or is turned back by the quota never costs it the first answer.  *)
FirstAnswerStands ==
    (cand.phase = "done" /\ cand.first # None) => cand.result.proposal # None

(* Over all the tiers asked about a candidate - triage, first answer,       *)
(* escalation, answered or not - the outcome keeps one attempt for every    *)
(* request that left and one for every request the quota turned back, none  *)
(* lost and none twice (the _prepend calls).  That the field `calls` counts *)
(* the requests which reached a backend is not said here: it also counts    *)
(* those turned back, whose attempts are recorded as refused.               *)
AttemptsRecorded ==
    cand.phase = "done" => NotCached(cand.attempts) = wire.sent + wire.barred

(* How far reported usage can pass the run's token ceiling: the ceiling is  *)
(* looked at before a candidate and before an escalation, so at most two    *)
(* requests' worth of answers arrive after it was last seen unreached.      *)
PeakUsage == CHOOSE u \in Usages : \A v \in Usages : v <= u

OvershootBounded ==
    TotalTokens(account) <= PerRun - 1 + 2 * MaxAttempts * PeakUsage

(* A ceiling found reached between two candidates ends the asking for good: *)
(* no later candidate makes a request or lifts the stop.                    *)
StoppedRunStaysStopped ==
    [][ (cand.phase = "done" /\ Stopped) => Stopped' /\ UNCHANGED req ]_adjudicateVars

(* Every candidate put to the models is settled: no mixture of tiers, of    *)
(* schema and of transport retries keeps it going.                          *)
UnderWay == cand.phase \in {"triage", "adjudicate", "escalate"}

EveryCandidateEnds == UnderWay ~> (cand.phase = "done")

(* An escalation had to be earned and never costs the candidate what it     *)
(* already had (service.py _maybe_escalate, routing.py route).              *)
EscalationIsSafe ==
    /\ EscalationEarned
    /\ FirstAnswerStands

(* No request made for a candidate is missing from its attempts, and the    *)
(* ceiling is passed by no more than two requests with their retries.       *)
CostIsKnown ==
    /\ AdjudicateTypeOK
    /\ AttemptsRecorded
    /\ OvershootBounded
=============================================================================
