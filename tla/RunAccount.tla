------------------------------ MODULE RunAccount ------------------------------
(***************************************************************************)
(* The ledger one run keeps of what it asked a model and what that cost    *)
(* (llm/accounting.py).  Reservations are taken before a request leaves    *)
(* and reconciled with the usage the provider reports afterwards; two      *)
(* kinds of ceiling stop the run, one on the reservations (the provider's  *)
(* quota window), one on the usage reported so far.                        *)
(*                                                                         *)
(* The account is a value, passed from operator to operator: the modules   *)
(* that extend this one hold it in a variable.                             *)
(***************************************************************************)
EXTENDS Integers

CONSTANTS
    RequestQuotas,  \* the configured requests-per-minute / per-day limits
    TokenQuotas,    \* the configured tokens-per-minute / per-day limits
    CostCeilings,   \* max_run_cost_usd, when one is configured
    Price,          \* what a token of each tier costs
    PerRun          \* token_budget.per_run

Tiers == {"triage", "adjudication", "escalation"}

ASSUME AccountAssumption ==
    /\ RequestQuotas \subseteq Nat \ {0}
    /\ TokenQuotas \subseteq Nat \ {0}
    /\ CostCeilings \subseteq Nat
    /\ Price \in [Tiers -> Nat]
    /\ PerRun \in Nat \ {0}

(* Calls, retries and refusals are kept as run totals: the split by tier    *)
(* only labels the report.  Tokens stay apart because tiers have prices.    *)
Account ==
    [calls : Nat, cached : Nat, retries : Nat, refused : Nat,
     tokens : [Tiers -> Nat],
     quotaTokens : Nat, quotaRequests : Nat,
     stop : {"none", "quota_requests", "quota_tokens"}]

NewAccount ==
    [calls |-> 0, cached |-> 0, retries |-> 0, refused |-> 0,
     tokens |-> [t \in Tiers |-> 0],
     quotaTokens |-> 0, quotaRequests |-> 0, stop |-> "none"]

TotalTokens(a) ==
    a.tokens["triage"] + a.tokens["adjudication"] + a.tokens["escalation"]

Cost(a) ==
      Price["triage"] * a.tokens["triage"]
    + Price["adjudication"] * a.tokens["adjudication"]
    + Price["escalation"] * a.tokens["escalation"]

-----------------------------------------------------------------------------
(* reserve(): the request quota is looked at first, then the token quota.   *)
(* With two limits of a kind the smaller one binds.                         *)

(* Mutant: the request quota is compared one too late.                      *)
QuotaStopLate(a, tokens) ==
    IF \E r \in RequestQuotas : a.quotaRequests > r THEN "quota_requests"
    ELSE IF \E t \in TokenQuotas : a.quotaTokens + tokens > t THEN "quota_tokens"
    ELSE "none"

QuotaStop(a, tokens) ==
    IF \E r \in RequestQuotas : a.quotaRequests >= r THEN "quota_requests"
    ELSE IF \E t \in TokenQuotas : a.quotaTokens + tokens > t THEN "quota_tokens"
    ELSE "none"

Reserved(a, tokens) ==
    [a EXCEPT !.quotaRequests = @ + 1, !.quotaTokens = @ + tokens, !.stop = "none"]

Barred(a, tokens) == [a EXCEPT !.stop = QuotaStop(a, tokens)]

(* Mutant: usage is added and the reservation never taken back.             *)
ChargedTwice(a, tier, usage, hold) ==
    [a EXCEPT !.calls = @ + 1, !.tokens[tier] = @ + usage, !.quotaTokens = @ + usage]

(* charge() of a live answer: the reservation is exchanged for the usage    *)
(* the provider reported.                                                   *)
Charged(a, tier, usage, hold) ==
    [a EXCEPT !.calls = @ + 1,
              !.tokens[tier] = @ + usage,
              !.quotaTokens = (IF @ > hold THEN @ - hold ELSE 0) + usage]

(* charge() of an answer served from the response cache costs nothing.      *)
ChargedCached(a) == [a EXCEPT !.cached = @ + 1]

Retried(a) == [a EXCEPT !.retries = @ + 1]

RefusedOne(a) == [a EXCEPT !.refused = @ + 1]

(* stop_reason(): a standing quota refusal, then cost, then tokens.         *)
StopReason(a) ==
    IF a.stop # "none" THEN a.stop
    ELSE IF \E c \in CostCeilings : Cost(a) >= c THEN "cost_ceiling"
    ELSE IF TotalTokens(a) >= PerRun THEN "token_ceiling"
    ELSE "none"

(* restore_account(): cumulative usage and the quota tokens come back from  *)
(* the checkpoint, the request quota starts again at zero.                  *)
Restored(saved) == [saved EXCEPT !.quotaRequests = 0, !.stop = "none"]
=============================================================================
