------------------------------ MODULE AttemptLoop ------------------------------
(***************************************************************************)
(* One question put to one model tier (llm/attempts.py, llm/cache.py):     *)
(* look in the response cache, otherwise reserve quota, send, and retry    *)
(* what a retry can fix.  A question is an assembled prompt; a reply is    *)
(* reduced to what routing and the citation check read from it.            *)
(***************************************************************************)
EXTENDS RunAccount, FiniteSets, Sequences

CONSTANTS
    Questions,        \* assembled contexts that may be sent
    Estimate,         \* prompt tokens of each question
    Headroom,         \* output plus thinking reserve of each tier
    TriageReplies,    \* triage answers the provider gives in this instance
    Proposals,        \* adjudications the provider gives in this instance
    Usages,           \* token totals the provider may report for an answer
    MaxAttempts,      \* llm.max_attempts
    MaxTransport,     \* llm.max_transport_attempts
    CacheEnabled,     \* llm.cache_enabled
    MaxRequests,      \* bound: candidates put to the service in a behaviour
    None, Torn        \* no value; a cache file cut off while being written

TriageResults ==
    [disposition : {"dismiss", "adjudicate"}, ambiguous : BOOLEAN, severe : BOOLEAN]

Adjudications ==
    [verdict : {"confirmed", "rejected", "review_required"},
     severe : BOOLEAN, grounded : BOOLEAN]

ASSUME AttemptAssumption ==
    /\ Estimate \in [Questions -> Nat]
    /\ Headroom \in [Tiers -> Nat]
    /\ TriageReplies \subseteq TriageResults
    /\ Proposals \subseteq Adjudications
    /\ Usages \subseteq Nat
    /\ MaxAttempts \in Nat \ {0}
    /\ MaxTransport \in Nat \ {0}
    /\ CacheEnabled \in BOOLEAN
    /\ MaxRequests \in Nat
    /\ None \notin TriageResults \cup Adjudications \cup Questions
    /\ Torn \notin TriageResults \cup Adjudications \cup {None}

Answers == TriageReplies \cup Proposals

(* The result model of a tier: what model_validate_json can return.         *)
Replies(tier) == IF tier = "triage" THEN TriageReplies ELSE Proposals

(* _unknown_citations(): triage results cite nothing; an adjudication is    *)
(* grounded when every evidence id it cites was issued with the question.   *)
Grounded(tier, answer) == tier # "triage" => answer.grounded

Outcomes ==
    {"accepted", "cached", "schema_invalid", "citation_unknown",
     "transport_error", "refused"}

VARIABLES
    account,  \* the run's ledger
    cache,    \* the response cache: a file per question and tier
    req,      \* the request being made
    wire      \* history: what really left for the provider

attemptVars == <<account, cache, req, wire>>

NoRequest ==
    [phase |-> "idle", q |-> None, tier |-> "triage", number |-> 1,
     transport |-> 1, hold |-> 0, outcomes |-> <<>>, answer |-> None]

(* History.  window counts the requests this process has sent, dropped those *)
(* of them its ledger no longer counts because a checkpoint was restored    *)
(* over it.  base is what the token ledger held when the process began or   *)
(* last restored a checkpoint, used and lost what was reported since and    *)
(* what calls that never reported usage still hold.  sent and barred count, *)
(* for the question at hand, the requests that left and those turned back   *)
(* by the quota, begun the questions asked.                                 *)
QuietWire ==
    [window |-> 0, dropped |-> 0, used |-> 0, lost |-> 0, base |-> 0,
     sent |-> 0, barred |-> 0, begun |-> 0]

Key == <<req.q, req.tier>>

AttemptInit ==
    /\ account = NewAccount
    /\ cache = [k \in Questions \X Tiers |-> None]
    /\ req = NoRequest
    /\ wire = QuietWire

-----------------------------------------------------------------------------
(* The start of _attempt_loop.                                              *)
Ask(q, tier) ==
    req' = [NoRequest EXCEPT !.phase = "lookup", !.q = q, !.tier = tier]

Hit == CacheEnabled /\ cache[Key] \notin {None, Torn}

(* A remembered answer ends the request at no cost.  Nothing re-checks its   *)
(* citations here.                                                           *)
CacheHit ==
    /\ req.phase = "lookup"
    /\ Hit
    /\ account' = ChargedCached(account)
    /\ req' = [req EXCEPT !.phase = "done", !.answer = cache[Key],
                          !.outcomes = Append(@, "cached")]
    /\ UNCHANGED <<cache, wire>>

(* No entry, caching disabled, or a file that will not parse.               *)
CacheMiss ==
    /\ req.phase = "lookup"
    /\ ~Hit
    /\ req' = [req EXCEPT !.phase = "send"]
    /\ UNCHANGED <<account, cache, wire>>

Tokens == Estimate[req.q] + Headroom[req.tier]

(* record_retry() counts every request but the first, before it is known    *)
(* whether the quota lets it go.                                            *)
Counted == IF req.number > 1 \/ req.transport > 1 THEN Retried(account) ELSE account

Fail(outcome) ==
    [req EXCEPT !.phase = "done", !.hold = 0, !.outcomes = Append(@, outcome)]

(* Mutant: a refused reservation is waited out instead of given up.         *)
TurnBackWaits ==
    /\ req.phase = "send"
    /\ QuotaStop(account, Tokens) # "none"
    /\ account' = Barred(account, Tokens)
    /\ UNCHANGED <<cache, req, wire>>

(* reserve() refuses: the request ends without reaching the provider.       *)
TurnBack ==
    /\ req.phase = "send"
    /\ QuotaStop(account, Tokens) # "none"
    /\ account' = Barred(Counted, Tokens)
    /\ req' = Fail("refused")
    /\ wire' = [wire EXCEPT !.barred = @ + 1]
    /\ UNCHANGED cache

Send ==
    /\ req.phase = "send"
    /\ QuotaStop(account, Tokens) = "none"
    /\ account' = Reserved(Counted, Tokens)
    /\ req' = [req EXCEPT !.phase = "wait", !.hold = Tokens]
    /\ wire' = [wire EXCEPT !.window = @ + 1, !.sent = @ + 1]
    /\ UNCHANGED cache

-----------------------------------------------------------------------------
(* What comes back.  Any response, valid or not, is charged for.            *)
Charge(usage) ==
    /\ account' = Charged(account, req.tier, usage, req.hold)
    /\ wire' = [wire EXCEPT !.used = @ + usage]

(* A response that does not satisfy the schema is asked again, with the     *)
(* error fed back and a fresh allowance of transport attempts.              *)
ReplyInvalid ==
    /\ req.phase = "wait"
    /\ \E usage \in Usages : Charge(usage)
    /\ req' = IF req.number < MaxAttempts
              THEN [req EXCEPT !.phase = "send", !.number = @ + 1, !.transport = 1,
                               !.hold = 0, !.outcomes = Append(@, "schema_invalid")]
              ELSE Fail("schema_invalid")
    /\ UNCHANGED cache

(* Mutant: the answer is remembered before its citations are checked.       *)
ReplyUngroundedRemembered ==
    /\ req.phase = "wait"
    /\ \E answer \in Replies(req.tier) :
        /\ ~Grounded(req.tier, answer)
        /\ cache' = [cache EXCEPT ![Key] = answer]
    /\ \E usage \in Usages : Charge(usage)
    /\ req' = Fail("citation_unknown")

(* Mutant: an unknown citation is retried like a schema error.              *)
ReplyUngroundedRetried ==
    /\ req.phase = "wait"
    /\ \E answer \in Replies(req.tier) : ~Grounded(req.tier, answer)
    /\ \E usage \in Usages : Charge(usage)
    /\ req' = IF req.number < MaxAttempts
              THEN [req EXCEPT !.phase = "send", !.number = @ + 1, !.transport = 1,
                               !.hold = 0, !.outcomes = Append(@, "citation_unknown")]
              ELSE Fail("citation_unknown")
    /\ UNCHANGED cache

(* A citation that was never issued is final.                               *)
ReplyUngrounded ==
    /\ req.phase = "wait"
    /\ \E answer \in Replies(req.tier) : ~Grounded(req.tier, answer)
    /\ \E usage \in Usages : Charge(usage)
    /\ req' = Fail("citation_unknown")
    /\ UNCHANGED cache

(* A usable answer.  The cache file is opened, and so truncated, first.     *)
ReplyValid ==
    /\ req.phase = "wait"
    /\ \E answer \in Replies(req.tier) :
        /\ Grounded(req.tier, answer)
        /\ req' = [req EXCEPT !.phase = IF CacheEnabled THEN "write" ELSE "done",
                              !.hold = 0, !.answer = answer,
                              !.outcomes = Append(@, "accepted")]
    /\ \E usage \in Usages : Charge(usage)
    /\ cache' = IF CacheEnabled THEN [cache EXCEPT ![Key] = Torn] ELSE cache

WriteEntry ==
    /\ req.phase = "write"
    /\ cache' = [cache EXCEPT ![Key] = req.answer]
    /\ req' = [req EXCEPT !.phase = "done"]
    /\ UNCHANGED <<account, wire>>

(* ProviderRefusedError: final.  The reservation is not given back.         *)
ReplyRefused ==
    /\ req.phase = "wait"
    /\ req' = Fail("refused")
    /\ wire' = [wire EXCEPT !.lost = @ + req.hold]
    /\ UNCHANGED <<account, cache>>

(* ProviderUnavailableError: retried while transport attempts remain; the   *)
(* reservation of the lost call is not given back either.                   *)
ReplyUnavailable ==
    /\ req.phase = "wait"
    /\ req' = IF req.transport < MaxTransport
              THEN [req EXCEPT !.phase = "send", !.transport = @ + 1, !.hold = 0,
                               !.outcomes = Append(@, "transport_error")]
              ELSE Fail("transport_error")
    /\ wire' = [wire EXCEPT !.lost = @ + req.hold]
    /\ UNCHANGED <<account, cache>>

Reply ==
    \/ ReplyInvalid
    \/ ReplyUngrounded
    \/ ReplyValid
    \/ ReplyRefused
    \/ ReplyUnavailable

AttemptStep ==
    \/ CacheHit
    \/ CacheMiss
    \/ TurnBack
    \/ Send
    \/ Reply
    \/ WriteEntry

-----------------------------------------------------------------------------
(* Mutant: the attempt's outcome is reported as if it were a review reason. *)
ReasonForRaw(outcomes) ==
    IF outcomes = <<>> THEN "provider_unavailable" ELSE outcomes[Len(outcomes)]

(* _reason_for(): the review reason of a request that produced no answer,   *)
(* from the last thing that went wrong.                                     *)
ReasonFor(outcomes) ==
    IF outcomes = <<>> THEN "provider_unavailable"
    ELSE LET last == outcomes[Len(outcomes)]
         IN  CASE last = "citation_unknown" -> "citation_unresolved"
               [] last \in {"transport_error", "refused"} -> "provider_unavailable"
               [] OTHER -> "schema_invalid_response"

(* How many attempts no cached answer settled (the sum in the property      *)
(* AdjudicationOutcome.calls): requests sent, and requests turned back.     *)
NotCached(outcomes) == Cardinality({i \in DOMAIN outcomes : outcomes[i] # "cached"})
-----------------------------------------------------------------------------
Phases == {"idle", "lookup", "send", "wait", "write", "done"}

(* The domains of the four variables.  Only an idle request has no          *)
(* question, only a call in flight holds a reservation.                     *)
AttemptTypeOK ==
    /\ account \in Account
    /\ cache \in [Questions \X Tiers -> Answers \cup {None, Torn}]
    /\ req \in [phase : Phases, q : Questions \cup {None}, tier : Tiers,
                number : 1..MaxAttempts, transport : 1..MaxTransport,
                hold : Nat, outcomes : Seq(Outcomes), answer : Answers \cup {None}]
    /\ req.phase # "idle" => req.q \in Questions
    /\ wire \in [window : Nat, dropped : Nat, used : Nat, lost : Nat, base : Nat,
                 sent : Nat, barred : Nat, begun : Nat]

(* The requests a process that restores no checkpoint sends never exceed a  *)
(* configured request quota, whatever mixture of schema and transport       *)
(* retries made them: every physical call takes its own reservation (_call, *)
(* reserve).                                                                *)
RequestQuotaKept ==
    \A r \in RequestQuotas : wire.window <= r

(* The token ledger balances: it holds what it began or was last restored   *)
(* with, the usage reported since, the reservations of calls that never     *)
(* reported usage and that of the call in flight.  charge() therefore never *)
(* finds less in the ledger than the reservation it takes back, and its     *)
(* clamp at zero never hides a loss (reserve, charge).                      *)
LedgerBalances ==
    account.quotaTokens = wire.base + wire.used + wire.lost + req.hold

(* An answer the loop hands out is grounded even when it came from the      *)
(* cache, whose hits skip the citation check: only checked answers are      *)
(* ever remembered (the order of the checks and cache.put).                 *)
AnswersGrounded ==
    /\ req.answer # None => Grounded(req.tier, req.answer)
    /\ \A k \in Questions \X Tiers :
        cache[k] \notin {None, Torn} =>
            cache[k] \in Replies(k[2]) /\ Grounded(k[2], cache[k])

(* After an answer that a retry cannot fix - a refusal, an unknown          *)
(* citation - or a usable one, the same question is not sent again.         *)
Final == {"accepted", "cached", "citation_unknown", "refused"}

FinalMeansFinal ==
    [][ (/\ req.outcomes # <<>>
         /\ req.outcomes[Len(req.outcomes)] \in Final)
        => wire'.sent <= wire.sent ]_attemptVars
=============================================================================
