---------------------------- MODULE SuiteRunProofs ----------------------------
(***************************************************************************)
(* Proofs about AttemptLoop, for every quota, price, question and answer;  *)
(* about Adjudicate, which composes it, for every routing answer and       *)
(* ceiling; and about SuiteRun, which adjudicates one candidate after the  *)
(* other, for any suite, budgets and number of crashes.  The step lemmas   *)
(* of the first part are about AttemptStep and Ask, so that the parts after *)
(* it can cite them.                                                       *)
(***************************************************************************)
EXTENDS SuiteRun, DataInduction, FiniteSetTheorems, FunctionTheorems, TLAPS

(* What the loop knows between two steps: the ledger's request count is the *)
(* number of requests that left, only a call in flight holds tokens, and an *)
(* answer in hand is one its tier can give and will be remembered only if   *)
(* caching is on.                                                           *)
RequestConsistent ==
    /\ account.quotaRequests + wire.dropped = wire.window
    /\ req.hold # 0 => req.phase = "wait"
    /\ req.answer # None => req.answer \in Replies(req.tier)
    /\ req.phase = "write" => req.answer # None

(* The requests the ledger counts are within every request quota.           *)
QuotaHeld == \A r \in RequestQuotas : wire.window - wire.dropped <= r

(* The inductive invariant.                                                 *)
AttemptInv ==
    /\ AttemptTypeOK
    /\ RequestConsistent
    /\ QuotaHeld
    /\ LedgerBalances
    /\ AnswersGrounded

-----------------------------------------------------------------------------
(* Lemmas about the operators on the account.                               *)

(* A reservation keeps the account an account, adds one request and the     *)
(* tokens asked for, and is only made below every request quota.            *)
LEMMA ReservedAccount ==
  ASSUME NEW a \in Account, NEW tokens \in Nat
  PROVE  /\ Reserved(a, tokens) \in Account
         /\ Reserved(a, tokens).quotaRequests = a.quotaRequests + 1
         /\ Reserved(a, tokens).quotaTokens = a.quotaTokens + tokens
<1>1. a.quotaRequests + 1 \in Nat /\ a.quotaTokens + tokens \in Nat
  BY DEF Account
<1> DEFINE requests2 == a.quotaRequests + 1
           quota2    == a.quotaTokens + tokens
<1>2. Reserved(a, tokens)
        = [a EXCEPT !.quotaRequests = requests2, !.quotaTokens = quota2, !.stop = "none"]
  BY DEF Reserved, Account
<1>3. requests2 \in Nat /\ quota2 \in Nat
  BY <1>1
<1> HIDE DEF requests2, quota2
<1>4. /\ Reserved(a, tokens) \in Account
      /\ Reserved(a, tokens).quotaRequests = requests2
      /\ Reserved(a, tokens).quotaTokens = quota2
  BY <1>2, <1>3 DEF Account
<1>5. QED BY <1>4 DEF requests2, quota2

(* A reservation that is granted found the request quota with room left.    *)
LEMMA QuotaStopNone ==
  ASSUME NEW a \in Account, NEW tokens \in Nat, QuotaStop(a, tokens) = "none"
  PROVE  \A r \in RequestQuotas : a.quotaRequests + 1 <= r
<1> SUFFICES ASSUME NEW r \in RequestQuotas PROVE a.quotaRequests + 1 <= r
  OBVIOUS
<1>1. ~(a.quotaRequests >= r)
  BY DEF QuotaStop
<1>2. a.quotaRequests \in Nat
  BY DEF Account
<1>3. r \in Nat
  BY AccountAssumption
<1>4. QED BY <1>1, <1>2, <1>3

(* A refusal by the quota is remembered and changes no count.               *)
LEMMA BarredAccount ==
  ASSUME NEW a \in Account, NEW tokens \in Nat
  PROVE  /\ Barred(a, tokens) \in Account
         /\ Barred(a, tokens).quotaRequests = a.quotaRequests
         /\ Barred(a, tokens).quotaTokens = a.quotaTokens
<1>1. QuotaStop(a, tokens) \in {"none", "quota_requests", "quota_tokens"}
  BY DEF QuotaStop
<1>2. QED BY <1>1 DEF Barred, Account

(* A live answer's charge exchanges the reservation for the usage: when     *)
(* the ledger holds the reservation, the clamp at zero loses nothing.       *)
LEMMA ChargedAccount ==
  ASSUME NEW a \in Account, NEW tier \in Tiers, NEW usage \in Nat, NEW hold \in Nat,
         a.quotaTokens >= hold
  PROVE  /\ Charged(a, tier, usage, hold) \in Account
         /\ Charged(a, tier, usage, hold).quotaRequests = a.quotaRequests
         /\ Charged(a, tier, usage, hold).quotaTokens = a.quotaTokens - hold + usage
<1> DEFINE tokens2 == [a.tokens EXCEPT ![tier] = @ + usage]
           quota2  == (IF a.quotaTokens > hold THEN a.quotaTokens - hold ELSE 0) + usage
<1>1. tokens2 \in [Tiers -> Nat]
  BY DEF Account
<1>2. quota2 \in Nat /\ quota2 = a.quotaTokens - hold + usage
  BY DEF Account
<1>3. Charged(a, tier, usage, hold)
        = [a EXCEPT !.calls = @ + 1, !.tokens = tokens2, !.quotaTokens = quota2]
  BY DEF Charged, Account
<1> HIDE DEF tokens2, quota2
<1>4. a.calls + 1 \in Nat
  BY DEF Account
<1>5. /\ Charged(a, tier, usage, hold) \in Account
      /\ Charged(a, tier, usage, hold).quotaRequests = a.quotaRequests
      /\ Charged(a, tier, usage, hold).quotaTokens = quota2
  BY <1>1, <1>2, <1>3, <1>4 DEF Account
<1>6. QED BY <1>2, <1>5

(* The counters for the report leave the quota ledger alone.                *)
LEMMA CountersAccount ==
  ASSUME NEW a \in Account
  PROVE  /\ Retried(a) \in Account /\ ChargedCached(a) \in Account
         /\ Retried(a).quotaRequests = a.quotaRequests
         /\ Retried(a).quotaTokens = a.quotaTokens
         /\ ChargedCached(a).quotaRequests = a.quotaRequests
         /\ ChargedCached(a).quotaTokens = a.quotaTokens
  BY DEF Retried, ChargedCached, Account

(* No answer is mistaken for a missing entry or a torn file.                *)
LEMMA AnswersAreAnswers ==
  /\ None \notin Answers /\ Torn \notin Answers /\ Torn # None
  /\ \A tier \in Tiers : Replies(tier) \subseteq Answers
  BY AttemptAssumption DEF Answers, Replies

(* The key of the question being asked names a cache entry.                 *)
LEMMA KeyInDomain ==
  ASSUME AttemptTypeOK, req.phase # "idle"
  PROVE  Key \in Questions \X Tiers /\ Key[2] = req.tier /\ Tokens \in Nat
  BY AttemptAssumption DEF AttemptTypeOK, Key, Tokens

-----------------------------------------------------------------------------
(* The invariant holds initially, and each step of the loop keeps it.       *)
LEMMA AttemptInitInv == AttemptInit => AttemptInv
<1> SUFFICES ASSUME AttemptInit PROVE AttemptInv
  OBVIOUS
<1> USE DEF AttemptInit, NewAccount, NoRequest, QuietWire
<1>1. AttemptTypeOK
  <2>1. account \in Account
    BY DEF Account
  <2>2. req \in [phase : Phases, q : Questions \cup {None}, tier : Tiers,
                 number : 1..MaxAttempts, transport : 1..MaxTransport,
                 hold : Nat, outcomes : Seq(Outcomes), answer : Answers \cup {None}]
    <3>1. 1 \in 1..MaxAttempts /\ 1 \in 1..MaxTransport
      BY AttemptAssumption
    <3>2. <<>> \in Seq(Outcomes)
      OBVIOUS
    <3>3. "idle" \in Phases /\ "triage" \in Tiers
      BY DEF Phases, Tiers
    <3>4. QED BY <3>1, <3>2, <3>3
  <2>3. QED BY <2>1, <2>2 DEF AttemptTypeOK
<1>2. RequestConsistent
  BY DEF RequestConsistent
<1>3. QuotaHeld
  BY AccountAssumption DEF QuotaHeld
<1>4. LedgerBalances
  BY DEF LedgerBalances
<1>5. AnswersGrounded
  BY DEF AnswersGrounded
<1>6. QED BY <1>1, <1>2, <1>3, <1>4, <1>5 DEF AttemptInv

(* A new question starts a fresh request; the history of the window goes    *)
(* on.                                                                      *)
LEMMA AskInv ==
  ASSUME AttemptInv, NEW q \in Questions, NEW tier \in Tiers, Ask(q, tier),
         req.phase \in {"idle", "done"}, UNCHANGED <<account, cache>>,
         wire' \in [window : Nat, dropped : Nat, used : Nat, lost : Nat, base : Nat,
                    sent : Nat, barred : Nat, begun : Nat],
         wire'.window = wire.window, wire'.dropped = wire.dropped,
         wire'.used = wire.used,
         wire'.lost = wire.lost, wire'.base = wire.base
  PROVE  AttemptInv'
<1>1. req' = [phase |-> "lookup", q |-> q, tier |-> tier, number |-> 1,
              transport |-> 1, hold |-> 0, outcomes |-> <<>>, answer |-> None]
  BY DEF Ask, NoRequest
<1>2. req.hold = 0
  BY DEF AttemptInv, AttemptTypeOK, RequestConsistent
<1>3. AttemptTypeOK'
  <2>1. 1 \in 1..MaxAttempts /\ 1 \in 1..MaxTransport
    BY AttemptAssumption
  <2>2. <<>> \in Seq(Outcomes) /\ "lookup" \in Phases
    BY DEF Phases
  <2>3. QED BY <1>1, <2>1, <2>2 DEF AttemptInv, AttemptTypeOK
<1>4. RequestConsistent'
  BY <1>1 DEF AttemptInv, RequestConsistent
<1>5. QuotaHeld'
  BY DEF AttemptInv, QuotaHeld
<1>6. LedgerBalances'
  BY <1>1, <1>2 DEF AttemptInv, LedgerBalances
<1>7. AnswersGrounded'
  BY <1>1 DEF AttemptInv, AnswersGrounded
<1>8. QED BY <1>3, <1>4, <1>5, <1>6, <1>7 DEF AttemptInv

(* A cache hit hands out an answer that was remembered, and calls nothing.  *)
LEMMA CacheHitInv ==
  ASSUME AttemptInv, CacheHit
  PROVE  AttemptInv'
<1> USE DEF AttemptInv, AttemptTypeOK
<1>1. /\ account' \in Account
      /\ account'.quotaRequests = account.quotaRequests
      /\ account'.quotaTokens = account.quotaTokens
  BY CountersAccount DEF CacheHit
<1>2. /\ Key \in Questions \X Tiers /\ Key[2] = req.tier
      /\ cache[Key] \in Replies(req.tier) /\ Grounded(req.tier, cache[Key])
      /\ cache[Key] \in Answers
  BY KeyInDomain, AnswersAreAnswers DEF CacheHit, Hit, AnswersGrounded
<1>3. req' = [req EXCEPT !.phase = "done", !.answer = cache[Key],
                         !.outcomes = Append(req.outcomes, "cached")]
  BY DEF CacheHit
<1>4. Append(req.outcomes, "cached") \in Seq(Outcomes) /\ "done" \in Phases
  BY DEF Outcomes, Phases
<1>5. UNCHANGED <<cache, wire>>
  BY DEF CacheHit
<1>6. AttemptTypeOK'
  BY <1>1, <1>2, <1>3, <1>4, <1>5 DEF CacheHit
<1>7. RequestConsistent'
  BY <1>1, <1>2, <1>3, <1>5 DEF RequestConsistent, CacheHit
<1>8. QuotaHeld'
  BY <1>5 DEF QuotaHeld
<1>9. LedgerBalances'
  BY <1>1, <1>3, <1>5 DEF LedgerBalances
<1>10. AnswersGrounded'
  BY <1>2, <1>3, <1>5 DEF AnswersGrounded
<1>11. QED BY <1>6, <1>7, <1>8, <1>9, <1>10

(* A missing or torn entry leads on to the reservation.                     *)
LEMMA CacheMissInv ==
  ASSUME AttemptInv, CacheMiss
  PROVE  AttemptInv'
<1> USE DEF AttemptInv, AttemptTypeOK, CacheMiss
<1>1. AttemptTypeOK'
  BY DEF Phases
<1>2. RequestConsistent'
  BY DEF RequestConsistent
<1>3. QuotaHeld'
  BY DEF QuotaHeld
<1>4. LedgerBalances'
  BY DEF LedgerBalances
<1>5. AnswersGrounded'
  BY DEF AnswersGrounded
<1>6. QED BY <1>1, <1>2, <1>3, <1>4, <1>5

(* A refusal by the local quota ends the request with nothing reserved.     *)
LEMMA TurnBackInv ==
  ASSUME AttemptInv, TurnBack
  PROVE  AttemptInv'
<1> USE DEF AttemptInv, AttemptTypeOK
<1>1. req.phase = "send" /\ Tokens \in Nat /\ req.hold = 0
  BY KeyInDomain DEF TurnBack, RequestConsistent
<1>2. /\ Counted \in Account
      /\ Counted.quotaRequests = account.quotaRequests
      /\ Counted.quotaTokens = account.quotaTokens
  BY CountersAccount DEF Counted
<1>3. account' = Barred(Counted, Tokens)
  BY DEF TurnBack
<1>4. /\ account' \in Account
      /\ account'.quotaRequests = account.quotaRequests
      /\ account'.quotaTokens = account.quotaTokens
  BY <1>1, <1>2, <1>3, BarredAccount
<1>5. /\ req' = [req EXCEPT !.phase = "done", !.hold = 0,
                            !.outcomes = Append(req.outcomes, "refused")]
      /\ Append(req.outcomes, "refused") \in Seq(Outcomes) /\ "done" \in Phases
  BY DEF TurnBack, Fail, Outcomes, Phases
<1>6. /\ wire' = [wire EXCEPT !.barred = wire.barred + 1]
      /\ wire.barred + 1 \in Nat
      /\ UNCHANGED cache
  BY DEF TurnBack
<1>7. AttemptTypeOK'
  BY <1>1, <1>4, <1>5, <1>6
<1>8. RequestConsistent'
  BY <1>1, <1>4, <1>5, <1>6 DEF RequestConsistent
<1>9. QuotaHeld'
  BY <1>6 DEF QuotaHeld
<1>10. LedgerBalances'
  BY <1>1, <1>4, <1>5, <1>6 DEF LedgerBalances
<1>11. AnswersGrounded'
  BY <1>5, <1>6 DEF AnswersGrounded
<1>12. QED BY <1>7, <1>8, <1>9, <1>10, <1>11

(* A request that is sent holds exactly its own reservation.                *)
LEMMA SendInv ==
  ASSUME AttemptInv, Send
  PROVE  AttemptInv'
<1> USE DEF AttemptInv, AttemptTypeOK
<1>1. req.phase = "send" /\ Tokens \in Nat /\ req.hold = 0
  BY KeyInDomain DEF Send, RequestConsistent
<1>2. /\ Counted \in Account
      /\ Counted.quotaRequests = account.quotaRequests
      /\ Counted.quotaTokens = account.quotaTokens
  BY CountersAccount DEF Counted
<1>3. account' = Reserved(Counted, Tokens) /\ QuotaStop(account, Tokens) = "none"
  BY DEF Send
<1>4. /\ account' \in Account
      /\ account'.quotaRequests = account.quotaRequests + 1
      /\ account'.quotaTokens = account.quotaTokens + Tokens
  BY <1>1, <1>2, <1>3, ReservedAccount
<1>5. /\ req' = [req EXCEPT !.phase = "wait", !.hold = Tokens]
      /\ "wait" \in Phases
  BY DEF Send, Phases
<1>6. /\ wire' = [wire EXCEPT !.window = wire.window + 1, !.sent = wire.sent + 1]
      /\ wire.window + 1 \in Nat /\ wire.sent + 1 \in Nat /\ wire.dropped \in Nat
      /\ wire'.window = wire.window + 1 /\ wire'.dropped = wire.dropped
      /\ UNCHANGED cache
  BY DEF Send
<1>7. AttemptTypeOK'
  BY <1>1, <1>4, <1>5, <1>6
<1>8. account.quotaRequests \in Nat /\ wire.window \in Nat
  BY DEF Account
<1>9. account.quotaRequests + wire.dropped = wire.window
  BY DEF RequestConsistent
<1>10. account'.quotaRequests + wire'.dropped = wire'.window
  BY <1>4, <1>6, <1>8, <1>9
<1>11. RequestConsistent'
  BY <1>5, <1>10 DEF RequestConsistent
<1>12. QuotaHeld'
  <2>1. \A r \in RequestQuotas : account'.quotaRequests <= r
    BY <1>1, <1>3, <1>4, QuotaStopNone
  <2>2. account'.quotaRequests \in Nat /\ wire'.dropped \in Nat /\ wire'.window \in Nat
    BY <1>4, <1>6, <1>8
  <2>3. wire'.window - wire'.dropped = account'.quotaRequests
    <3> HIDE DEF AttemptInv, AttemptTypeOK
    <3>1. QED BY <1>10, <2>2
  <2>4. QED BY <2>1, <2>3 DEF QuotaHeld
<1>13. LedgerBalances'
  BY <1>1, <1>4, <1>5, <1>6 DEF LedgerBalances
<1>14. AnswersGrounded'
  BY <1>5, <1>6 DEF AnswersGrounded
<1>15. QED BY <1>7, <1>11, <1>12, <1>13, <1>14

(* What a live answer's charge does to the ledger while a call is out.      *)
LEMMA ChargeLedger ==
  ASSUME AttemptInv, req.phase = "wait", NEW usage \in Usages, Charge(usage)
  PROVE  /\ account' \in Account
         /\ account'.quotaRequests = account.quotaRequests
         /\ account'.quotaTokens = account.quotaTokens - req.hold + usage
         /\ wire' = [wire EXCEPT !.used = wire.used + usage]
         /\ usage \in Nat /\ wire.used + usage \in Nat
<1> USE DEF AttemptInv, AttemptTypeOK
<1>1. usage \in Nat /\ req.hold \in Nat /\ req.tier \in Tiers
  BY AttemptAssumption
<1>2. account.quotaTokens >= req.hold
  BY <1>1 DEF LedgerBalances
<1>3. account' = Charged(account, req.tier, usage, req.hold)
  BY DEF Charge
<1>4. /\ account' \in Account
      /\ account'.quotaRequests = account.quotaRequests
      /\ account'.quotaTokens = account.quotaTokens - req.hold + usage
  BY <1>1, <1>2, <1>3, ChargedAccount
<1>5. QED BY <1>1, <1>4 DEF Charge

(* The charge and the end of the reservation together keep the balance.     *)
LEMMA ChargeBalances ==
  ASSUME AttemptInv, req'.hold = 0, NEW usage \in Nat,
         account'.quotaTokens = account.quotaTokens - req.hold + usage,
         wire' = [wire EXCEPT !.used = wire.used + usage]
  PROVE  LedgerBalances'
<1>1. /\ wire.base \in Nat /\ wire.used \in Nat /\ wire.lost \in Nat /\ req.hold \in Nat
      /\ wire'.base = wire.base /\ wire'.lost = wire.lost
      /\ wire'.used = wire.used + usage
  BY DEF AttemptInv, AttemptTypeOK
<1>2. account.quotaTokens = wire.base + wire.used + wire.lost + req.hold
  BY DEF AttemptInv, LedgerBalances
<1>3. account'.quotaTokens = wire'.base + wire'.used + wire'.lost + 0
  BY <1>1, <1>2
<1>4. QED BY <1>3 DEF LedgerBalances

(* The shape every reply shares: the call is over, so it holds nothing.     *)
Answered(phase, outcome) ==
    /\ req'.phase = phase /\ req'.hold = 0
    /\ req'.q = req.q /\ req'.tier = req.tier
    /\ req'.outcomes = Append(req.outcomes, outcome)
    /\ req' \in [phase : Phases, q : Questions \cup {None}, tier : Tiers,
                 number : 1..MaxAttempts, transport : 1..MaxTransport,
                 hold : Nat, outcomes : Seq(Outcomes), answer : Answers \cup {None}]

(* The record of a request whose answer did not do stays a request.         *)
LEMMA FailAnswered ==
  ASSUME AttemptInv, NEW outcome \in Outcomes, req' = Fail(outcome)
  PROVE  Answered("done", outcome) /\ req'.answer = req.answer
<1> USE DEF AttemptInv, AttemptTypeOK
<1>1. Append(req.outcomes, outcome) \in Seq(Outcomes) /\ "done" \in Phases
  BY DEF Phases
<1>2. QED BY <1>1 DEF Fail, Answered

(* A charged reply that brings no answer keeps the invariant.               *)
LEMMA ChargedReplyInv ==
  ASSUME AttemptInv, req.phase = "wait",
         NEW phase \in {"send", "done"}, NEW outcome \in Outcomes,
         Answered(phase, outcome), req'.answer = req.answer,
         \E usage \in Usages : Charge(usage), UNCHANGED cache
  PROVE  AttemptInv'
<1> USE DEF AttemptInv, AttemptTypeOK
<1>1. PICK usage \in Usages : Charge(usage)
  OBVIOUS
<1>2. /\ account' \in Account
      /\ account'.quotaRequests = account.quotaRequests
      /\ account'.quotaTokens = account.quotaTokens - req.hold + usage
      /\ wire' = [wire EXCEPT !.used = wire.used + usage]
      /\ usage \in Nat /\ wire.used + usage \in Nat
  BY <1>1, ChargeLedger
<1>3. AttemptTypeOK'
  BY <1>2 DEF Answered
<1>4. RequestConsistent'
  BY <1>2 DEF RequestConsistent, Answered
<1>5. QuotaHeld'
  BY <1>2 DEF QuotaHeld
<1>6. LedgerBalances'
  <2>1. req'.hold = 0
    BY DEF Answered
  <2>2. QED BY <1>2, <2>1, ChargeBalances
<1>7. AnswersGrounded'
  BY <1>2 DEF AnswersGrounded, Answered
<1>8. QED BY <1>3, <1>4, <1>5, <1>6, <1>7

(* So does a call that never reported usage: its reservation is written off *)
(* as lost.                                                                 *)
LEMMA LostCallInv ==
  ASSUME AttemptInv, req.phase = "wait",
         NEW phase \in {"send", "done"}, NEW outcome \in Outcomes,
         Answered(phase, outcome), req'.answer = req.answer,
         wire' = [wire EXCEPT !.lost = @ + req.hold], UNCHANGED <<account, cache>>
  PROVE  AttemptInv'
<1> USE DEF AttemptInv, AttemptTypeOK
<1>1. /\ wire' = [wire EXCEPT !.lost = wire.lost + req.hold]
      /\ wire.lost + req.hold \in Nat
  OBVIOUS
<1>2. AttemptTypeOK'
  BY <1>1 DEF Answered
<1>3. RequestConsistent'
  BY <1>1 DEF RequestConsistent, Answered
<1>4. QuotaHeld'
  BY <1>1 DEF QuotaHeld
<1>5. LedgerBalances'
  <2>1. /\ wire.base \in Nat /\ wire.used \in Nat /\ wire.lost \in Nat /\ req.hold \in Nat
        /\ account.quotaTokens = wire.base + wire.used + wire.lost + req.hold
    BY DEF LedgerBalances
  <2>2. /\ wire'.base = wire.base /\ wire'.used = wire.used
        /\ wire'.lost = wire.lost + req.hold
    BY <1>1
  <2>3. req'.hold = 0 /\ account' = account
    BY DEF Answered
  <2> HIDE DEF AttemptInv, AttemptTypeOK
  <2>4. QED BY <2>1, <2>2, <2>3 DEF LedgerBalances
<1>6. AnswersGrounded'
  BY <1>1 DEF AnswersGrounded, Answered
<1>7. QED BY <1>2, <1>3, <1>4, <1>5, <1>6

(* A reply off the schema is charged, and asked again or given up.          *)
LEMMA ReplyInvalidInv ==
  ASSUME AttemptInv, ReplyInvalid
  PROVE  AttemptInv'
<1> USE DEF AttemptInv, AttemptTypeOK
<1>1. /\ req.phase = "wait" /\ "schema_invalid" \in Outcomes
      /\ \E usage \in Usages : Charge(usage)
      /\ UNCHANGED cache
  BY DEF ReplyInvalid, Outcomes
<1>2. CASE req.number < MaxAttempts
  <2>1. req' = [req EXCEPT !.phase = "send", !.number = req.number + 1, !.transport = 1,
                           !.hold = 0, !.outcomes = Append(req.outcomes, "schema_invalid")]
    BY <1>2 DEF ReplyInvalid
  <2>2. /\ req.number + 1 \in 1..MaxAttempts /\ 1 \in 1..MaxTransport
        /\ Append(req.outcomes, "schema_invalid") \in Seq(Outcomes)
        /\ "send" \in Phases
    <3>1. req.number \in Nat /\ req.number >= 1 /\ req.outcomes \in Seq(Outcomes)
      OBVIOUS
    <3> HIDE DEF AttemptInv, AttemptTypeOK
    <3>2. req.number + 1 \in 1..MaxAttempts /\ 1 \in 1..MaxTransport
      BY <1>2, <3>1, AttemptAssumption
    <3>3. Append(req.outcomes, "schema_invalid") \in Seq(Outcomes)
      BY <1>1, <3>1
    <3>4. QED BY <3>2, <3>3 DEF Phases
  <2>3. /\ req'.phase = "send" /\ req'.hold = 0 /\ req'.q = req.q /\ req'.tier = req.tier
        /\ req'.outcomes = Append(req.outcomes, "schema_invalid") /\ req'.answer = req.answer
    BY <2>1
  <2>4. req' \in [phase : Phases, q : Questions \cup {None}, tier : Tiers,
                 number : 1..MaxAttempts, transport : 1..MaxTransport,
                 hold : Nat, outcomes : Seq(Outcomes), answer : Answers \cup {None}]
    BY <2>1, <2>2
  <2>5. Answered("send", "schema_invalid")
    BY <2>3, <2>4 DEF Answered
  <2>6. QED BY <1>1, <2>3, <2>5, ChargedReplyInv
<1>3. CASE ~(req.number < MaxAttempts)
  <2>1. req' = Fail("schema_invalid")
    BY <1>3 DEF ReplyInvalid
  <2>2. Answered("done", "schema_invalid") /\ req'.answer = req.answer
    BY <1>1, <2>1, FailAnswered
  <2>3. QED BY <1>1, <2>2, ChargedReplyInv
<1>4. QED BY <1>2, <1>3

(* A reply that cites the unknown is charged and ends the request.          *)
LEMMA ReplyUngroundedInv ==
  ASSUME AttemptInv, ReplyUngrounded
  PROVE  AttemptInv'
<1>1. /\ req.phase = "wait" /\ "citation_unknown" \in Outcomes
      /\ req' = Fail("citation_unknown")
      /\ \E usage \in Usages : Charge(usage)
      /\ UNCHANGED cache
  BY DEF ReplyUngrounded, Outcomes
<1>2. Answered("done", "citation_unknown") /\ req'.answer = req.answer
  BY <1>1, FailAnswered
<1>3. QED BY <1>1, <1>2, ChargedReplyInv

(* A refusal by the provider loses its reservation and ends the request.    *)
LEMMA ReplyRefusedInv ==
  ASSUME AttemptInv, ReplyRefused
  PROVE  AttemptInv'
<1>1. /\ req.phase = "wait" /\ "refused" \in Outcomes
      /\ req' = Fail("refused")
      /\ wire' = [wire EXCEPT !.lost = @ + req.hold]
      /\ UNCHANGED <<account, cache>>
  BY DEF ReplyRefused, Outcomes
<1>2. Answered("done", "refused") /\ req'.answer = req.answer
  BY <1>1, FailAnswered
<1>3. QED BY <1>1, <1>2, LostCallInv

(* An unreachable provider loses the reservation; the call is repeated or   *)
(* given up.                                                                *)
LEMMA ReplyUnavailableInv ==
  ASSUME AttemptInv, ReplyUnavailable
  PROVE  AttemptInv'
<1> USE DEF AttemptInv, AttemptTypeOK
<1>1. /\ req.phase = "wait" /\ "transport_error" \in Outcomes
      /\ wire' = [wire EXCEPT !.lost = @ + req.hold]
      /\ UNCHANGED <<account, cache>>
  BY DEF ReplyUnavailable, Outcomes
<1>2. CASE req.transport < MaxTransport
  <2>1. req' = [req EXCEPT !.phase = "send", !.transport = req.transport + 1, !.hold = 0,
                           !.outcomes = Append(req.outcomes, "transport_error")]
    BY <1>2 DEF ReplyUnavailable
  <2>2. /\ req.transport + 1 \in 1..MaxTransport
        /\ Append(req.outcomes, "transport_error") \in Seq(Outcomes)
        /\ "send" \in Phases
    <3>1. req.transport \in Nat /\ req.transport >= 1 /\ MaxTransport \in Nat
      BY AttemptAssumption
    <3>2. req.transport + 1 \in 1..MaxTransport
      BY <3>1, <1>2
    <3>3. QED BY <1>1, <3>2 DEF Phases
  <2>3. /\ req'.phase = "send" /\ req'.hold = 0 /\ req'.q = req.q /\ req'.tier = req.tier
        /\ req'.outcomes = Append(req.outcomes, "transport_error") /\ req'.answer = req.answer
    BY <2>1
  <2>4. req' \in [phase : Phases, q : Questions \cup {None}, tier : Tiers,
                 number : 1..MaxAttempts, transport : 1..MaxTransport,
                 hold : Nat, outcomes : Seq(Outcomes), answer : Answers \cup {None}]
    BY <2>1, <2>2
  <2>5. Answered("send", "transport_error")
    BY <2>3, <2>4 DEF Answered
  <2>6. QED BY <1>1, <2>3, <2>5, LostCallInv
<1>3. CASE ~(req.transport < MaxTransport)
  <2>1. req' = Fail("transport_error")
    BY <1>3 DEF ReplyUnavailable
  <2>2. Answered("done", "transport_error") /\ req'.answer = req.answer
    BY <1>1, <2>1, FailAnswered
  <2>3. QED BY <1>1, <2>2, LostCallInv
<1>4. QED BY <1>2, <1>3

(* A valid reply is charged and becomes the answer.                         *)
LEMMA ReplyValidInv ==
  ASSUME AttemptInv, ReplyValid
  PROVE  AttemptInv'
<1> USE DEF AttemptInv, AttemptTypeOK
<1>1. req.phase = "wait"
  BY DEF ReplyValid
<1>2. PICK usage \in Usages : Charge(usage)
  BY DEF ReplyValid
<1>3. /\ account' \in Account
      /\ account'.quotaRequests = account.quotaRequests
      /\ account'.quotaTokens = account.quotaTokens - req.hold + usage
      /\ wire' = [wire EXCEPT !.used = wire.used + usage]
      /\ usage \in Nat /\ wire.used + usage \in Nat
  BY <1>1, <1>2, ChargeLedger
<1>4. PICK answer \in Replies(req.tier) :
        /\ Grounded(req.tier, answer)
        /\ req' = [req EXCEPT !.phase = IF CacheEnabled THEN "write" ELSE "done",
                              !.hold = 0, !.answer = answer,
                              !.outcomes = Append(req.outcomes, "accepted")]
  BY DEF ReplyValid
<1>5. /\ (IF CacheEnabled THEN "write" ELSE "done") \in {"write", "done"}
      /\ {"write", "done"} \subseteq Phases
      /\ Append(req.outcomes, "accepted") \in Seq(Outcomes)
      /\ answer \in Answers /\ answer # None
  BY <1>4, AnswersAreAnswers DEF Phases, Outcomes
<1>6. /\ cache' \in [Questions \X Tiers -> Answers \cup {None, Torn}]
      /\ \A k \in Questions \X Tiers : cache'[k] \in {cache[k], Torn}
  BY <1>1, KeyInDomain DEF ReplyValid
<1>7. AttemptTypeOK'
  BY <1>1, <1>3, <1>4, <1>5, <1>6
<1>8. RequestConsistent'
  BY <1>3, <1>4, <1>5 DEF RequestConsistent
<1>9. QuotaHeld'
  BY <1>3 DEF QuotaHeld
<1>10. LedgerBalances'
  <2>1. req'.hold = 0
    BY <1>4
  <2>2. QED BY <1>3, <2>1, ChargeBalances
<1>11. AnswersGrounded'
  BY <1>4, <1>6 DEF AnswersGrounded
<1>12. QED BY <1>7, <1>8, <1>9, <1>10, <1>11

(* Only the answer that was handed out is remembered, whole or torn.        *)
LEMMA WriteEntryInv ==
  ASSUME AttemptInv, WriteEntry
  PROVE  AttemptInv'
<1> USE DEF AttemptInv, AttemptTypeOK
<1>1. /\ req.phase = "write" /\ Key \in Questions \X Tiers /\ Key[2] = req.tier
      /\ req.answer \in Replies(req.tier) /\ Grounded(req.tier, req.answer)
      /\ req.answer \in Answers
  BY KeyInDomain, AnswersAreAnswers DEF WriteEntry, RequestConsistent, AnswersGrounded
<1>2. /\ cache' = [cache EXCEPT ![Key] = req.answer]
      /\ req' = [req EXCEPT !.phase = "done"] /\ "done" \in Phases
      /\ UNCHANGED <<account, wire>>
  BY DEF WriteEntry, Phases
<1>3. AttemptTypeOK'
  BY <1>1, <1>2
<1>4. RequestConsistent'
  BY <1>1, <1>2 DEF RequestConsistent
<1>5. QuotaHeld'
  BY <1>2 DEF QuotaHeld
<1>6. LedgerBalances'
  BY <1>2 DEF LedgerBalances
<1>7. AnswersGrounded'
  BY <1>1, <1>2 DEF AnswersGrounded
<1>8. QED BY <1>3, <1>4, <1>5, <1>6, <1>7

(* Every step of the loop keeps the invariant, whoever asked.               *)
LEMMA AttemptStepInv == AttemptInv /\ AttemptStep => AttemptInv'
<1>1. ASSUME AttemptInv, CacheHit PROVE AttemptInv'
  BY <1>1, CacheHitInv
<1>2. ASSUME AttemptInv, CacheMiss PROVE AttemptInv'
  BY <1>2, CacheMissInv
<1>3. ASSUME AttemptInv, TurnBack PROVE AttemptInv'
  BY <1>3, TurnBackInv
<1>4. ASSUME AttemptInv, Send PROVE AttemptInv'
  BY <1>4, SendInv
<1>5. ASSUME AttemptInv, Reply PROVE AttemptInv'
  BY <1>5, ReplyInvalidInv, ReplyUngroundedInv, ReplyValidInv, ReplyRefusedInv,
     ReplyUnavailableInv DEF Reply
<1>6. ASSUME AttemptInv, WriteEntry PROVE AttemptInv'
  BY <1>6, WriteEntryInv
<1>7. QED BY <1>1, <1>2, <1>3, <1>4, <1>5, <1>6 DEF AttemptStep

-----------------------------------------------------------------------------
(* A request that may still send has nothing final behind it.               *)
NothingFinalYet ==
    req.phase \in {"idle", "lookup", "send", "wait"} =>
        \/ req.outcomes = <<>>
        \/ req.outcomes[Len(req.outcomes)] \notin Final

(* Appending an outcome makes it the last one.                              *)
LEMMA LastOfAppend ==
  ASSUME NEW s \in Seq(Outcomes), NEW o \in Outcomes
  PROVE  Append(s, o)[Len(Append(s, o))] = o
  OBVIOUS

(* No step of the loop leaves something final behind a request that may     *)
(* still send.                                                              *)
LEMMA NothingFinalStep ==
  ASSUME AttemptTypeOK, NothingFinalYet, AttemptStep
  PROVE  NothingFinalYet'
<1> USE DEF NothingFinalYet
<1>2. CASE CacheHit \/ TurnBack \/ ReplyUngrounded \/ ReplyRefused \/ WriteEntry
  <2>1. req'.phase = "done"
    BY <1>2 DEF AttemptTypeOK, CacheHit, TurnBack, ReplyUngrounded, ReplyRefused, WriteEntry, Fail
  <2>2. QED BY <2>1
<1>3. CASE CacheMiss \/ Send
  <2>1. req'.outcomes = req.outcomes /\ req.phase \in {"lookup", "send"}
    BY <1>3 DEF AttemptTypeOK, CacheMiss, Send
  <2>2. QED BY <2>1
<1>4. CASE ReplyValid
  <2>1. req'.phase \in {"write", "done"}
    BY <1>4 DEF AttemptTypeOK, ReplyValid
  <2>2. QED BY <2>1
<1>5. CASE ReplyInvalid
  <2>1. req'.outcomes = Append(req.outcomes, "schema_invalid")
    BY <1>5 DEF AttemptTypeOK, ReplyInvalid, Fail
  <2>2. "schema_invalid" \in Outcomes /\ "schema_invalid" \notin Final
    BY DEF Outcomes, Final
  <2>3. req.outcomes \in Seq(Outcomes)
    BY DEF AttemptTypeOK
  <2>4. QED BY <2>1, <2>2, <2>3, LastOfAppend
<1>6. CASE ReplyUnavailable
  <2>1. req'.outcomes = Append(req.outcomes, "transport_error")
    BY <1>6 DEF AttemptTypeOK, ReplyUnavailable, Fail
  <2>2. "transport_error" \in Outcomes /\ "transport_error" \notin Final
    BY DEF Outcomes, Final
  <2>3. req.outcomes \in Seq(Outcomes)
    BY DEF AttemptTypeOK
  <2>4. QED BY <2>1, <2>2, <2>3, LastOfAppend
<1>7. QED BY <1>2, <1>3, <1>4, <1>5, <1>6 DEF AttemptStep, Reply

(* Behind a final outcome the loop sends nothing.                           *)
LEMMA NothingSentStep ==
  ASSUME AttemptTypeOK, NothingFinalYet, AttemptStep,
         req.outcomes # <<>>, req.outcomes[Len(req.outcomes)] \in Final
  PROVE  UNCHANGED wire
<1>1. req.phase \notin {"lookup", "send", "wait"}
  BY DEF NothingFinalYet
<1>2. WriteEntry
  BY <1>1 DEF AttemptStep, CacheHit, CacheMiss, TurnBack, Send, Reply, ReplyInvalid,
     ReplyUngrounded, ReplyValid, ReplyRefused, ReplyUnavailable
<1>3. QED BY <1>2 DEF WriteEntry

-----------------------------------------------------------------------------
(* The adjudication of a candidate. *)

Underway == {"triage", "adjudicate", "escalate"}

(* An answer in hand is one some attempt recorded.                          *)
AnswerRecorded == req.answer # None => AnswerGiven(req.outcomes)

(* The phase of the candidate tells which tier is being asked and what was  *)
(* answered before; only the phase after the first answer knows one, and a  *)
(* candidate that is done has a result.                                     *)
PhaseKnows ==
    /\ cand.phase \notin Underway => req.phase \in {"idle", "done"}
    /\ cand.phase \in Underway => cand.q \in Questions
    /\ cand.phase = "triage" => req.tier = "triage"
    /\ cand.phase = "adjudicate" => req.tier # "triage"
    /\ cand.phase = "escalate" => req.tier = "escalation" /\ cand.first \in Proposals
    /\ cand.phase \notin {"escalate", "done"} => cand.first = None
    /\ cand.phase = "done" => cand.result \in Results

AdjudicateInv ==
    /\ AttemptInv
    /\ AdjudicateTypeOK
    /\ AnswerRecorded
    /\ PhaseKnows
    /\ EscalationIsSafe

-----------------------------------------------------------------------------
(* Lemmas about attempts and routing.                                       *)

(* What earlier attempts recorded stays recorded when later ones follow.    *)
LEMMA GivenAppend ==
  ASSUME NEW s \in Seq(Outcomes), NEW o \in Outcomes
  PROVE  /\ AnswerGiven(s) => AnswerGiven(Append(s, o))
         /\ o \in {"accepted", "cached"} => AnswerGiven(Append(s, o))
<1>1. ASSUME NEW i \in DOMAIN s, s[i] \in {"accepted", "cached"}
      PROVE  AnswerGiven(Append(s, o))
  <2>1. i \in DOMAIN Append(s, o) /\ Append(s, o)[i] = s[i]
    BY <1>1
  <2>2. QED BY <1>1, <2>1 DEF AnswerGiven
<1>2. ASSUME o \in {"accepted", "cached"} PROVE AnswerGiven(Append(s, o))
  <2>1. Len(s) + 1 \in DOMAIN Append(s, o) /\ Append(s, o)[Len(s) + 1] = o
    OBVIOUS
  <2>2. QED BY <1>2, <2>1 DEF AnswerGiven
<1>3. QED BY <1>1, <1>2 DEF AnswerGiven

(* And so does what later tiers record after earlier ones.                  *)
LEMMA GivenConcat ==
  ASSUME NEW s \in Seq(Outcomes), NEW t \in Seq(Outcomes), AnswerGiven(t)
  PROVE  AnswerGiven(s \o t)
<1>1. PICK i \in DOMAIN t : t[i] \in {"accepted", "cached"}
  BY DEF AnswerGiven
<1>2. Len(s) + i \in DOMAIN (s \o t) /\ (s \o t)[Len(s) + i] = t[i]
  BY <1>1
<1>3. QED BY <1>1, <1>2 DEF AnswerGiven

(* The routing table sends nothing to the expensive tier but an ambiguous   *)
(* and severe case with code and a family in scope.                         *)
LEMMA RouteEarned ==
  ASSUME NEW q \in Questions, NEW decided \in TriageResults
  PROVE  /\ Route(q, decided) \in Tiers
         /\ Route(q, decided) = "escalation" =>
              /\ decided.ambiguous /\ decided.severe
              /\ AllowEscalation /\ q \in HasPrimary \ OutOfScope
  BY DEF Route, Tiers

(* Without a triage answer the ordinary tier is asked.                      *)
LEMMA UntriagedRoute ==
  /\ Untriaged \in TriageResults
  /\ \A q \in Questions : Route(q, Untriaged) = "adjudication"
  BY DEF Untriaged, TriageResults, Route

(* What a failed request is put down to is one of the review reasons.       *)
LEMMA ReasonForReasons ==
  ASSUME NEW s \in Seq(Outcomes)
  PROVE  ReasonFor(s) \in Reasons
<1>1. CASE s = <<>>
  BY <1>1 DEF ReasonFor, Reasons
<1>2. CASE s # <<>>
  <2> DEFINE last == s[Len(s)]
  <2>1. ReasonFor(s) = CASE last = "citation_unknown" -> "citation_unresolved"
                         [] last \in {"transport_error", "refused"} -> "provider_unavailable"
                         [] OTHER -> "schema_invalid_response"
    BY <1>2 DEF ReasonFor
  <2> HIDE DEF last
  <2>2. CASE last = "citation_unknown"
    BY <2>1, <2>2 DEF Reasons
  <2>3. CASE last \in {"transport_error", "refused"}
    BY <2>1, <2>3 DEF Reasons
  <2>4. CASE last \notin {"citation_unknown", "transport_error", "refused"}
    BY <2>1, <2>4 DEF Reasons
  <2>5. QED BY <2>2, <2>3, <2>4
<1>3. QED BY <1>1, <1>2

-----------------------------------------------------------------------------
(* A step of the loop stays with its question and its tier, and records the *)
(* answer it hands out.                                                     *)
LEMMA LoopStays ==
  ASSUME AttemptTypeOK, AnswerRecorded, AttemptStep
  PROVE  /\ req.phase \notin {"idle", "done"} /\ req'.phase # "idle"
         /\ req'.q = req.q /\ req'.tier = req.tier
         /\ AnswerRecorded'
<1> USE DEF AttemptTypeOK
<1>1. CASE CacheHit
  <2>1. /\ req.phase = "lookup"
        /\ req' = [req EXCEPT !.phase = "done", !.answer = cache[Key],
                              !.outcomes = Append(req.outcomes, "cached")]
    BY <1>1 DEF CacheHit
  <2>2. AnswerGiven(Append(req.outcomes, "cached"))
    BY GivenAppend DEF Outcomes
  <2>3. QED BY <2>1, <2>2 DEF AnswerRecorded
<1>2. CASE CacheMiss \/ Send \/ WriteEntry
  <2>1. /\ req.phase \in {"lookup", "send", "write"} /\ req'.phase # "idle"
        /\ req'.q = req.q /\ req'.tier = req.tier
        /\ req'.answer = req.answer /\ req'.outcomes = req.outcomes
    BY <1>2 DEF CacheMiss, Send, WriteEntry
  <2>2. QED BY <2>1 DEF AnswerRecorded
<1>3. CASE TurnBack \/ ReplyInvalid \/ ReplyUngrounded \/ ReplyRefused \/ ReplyUnavailable
  <2>1. req.phase \in {"send", "wait"}
    BY <1>3 DEF TurnBack, ReplyInvalid, ReplyUngrounded, ReplyRefused, ReplyUnavailable
  <2>2. PICK o \in Outcomes :
          /\ req'.outcomes = Append(req.outcomes, o) /\ req'.phase # "idle"
          /\ req'.q = req.q /\ req'.tier = req.tier /\ req'.answer = req.answer
    <3>1. CASE TurnBack \/ ReplyRefused
      <4>1. "refused" \in Outcomes
        BY DEF Outcomes
      <4>2. QED BY <3>1, <4>1 DEF TurnBack, ReplyRefused, Fail
    <3>2. CASE ReplyUngrounded
      <4>1. "citation_unknown" \in Outcomes
        BY DEF Outcomes
      <4>2. QED BY <3>2, <4>1 DEF ReplyUngrounded, Fail
    <3>3. CASE ReplyInvalid
      <4>1. "schema_invalid" \in Outcomes
        BY DEF Outcomes
      <4>2. QED BY <3>3, <4>1 DEF ReplyInvalid, Fail
    <3>4. CASE ReplyUnavailable
      <4>1. "transport_error" \in Outcomes
        BY DEF Outcomes
      <4>2. QED BY <3>4, <4>1 DEF ReplyUnavailable, Fail
    <3>5. QED BY <1>3, <3>1, <3>2, <3>3, <3>4
  <2>3. AnswerRecorded'
    BY <2>2, GivenAppend DEF AnswerRecorded
  <2>4. QED BY <2>1, <2>2, <2>3
<1>4. CASE ReplyValid
  <2>1. PICK answer \in Replies(req.tier) :
          req' = [req EXCEPT !.phase = IF CacheEnabled THEN "write" ELSE "done",
                             !.hold = 0, !.answer = answer,
                             !.outcomes = Append(req.outcomes, "accepted")]
    BY <1>4 DEF ReplyValid
  <2>2. AnswerGiven(Append(req.outcomes, "accepted"))
    BY GivenAppend DEF Outcomes
  <2>3. req.phase = "wait"
    BY <1>4 DEF ReplyValid
  <2>4. (IF CacheEnabled THEN "write" ELSE "done") # "idle"
    OBVIOUS
  <2>5. QED BY <2>1, <2>2, <2>3, <2>4 DEF AnswerRecorded
<1>5. QED BY <1>1, <1>2, <1>3, <1>4 DEF AttemptStep, Reply

(* A tier asked anew has recorded nothing and has no answer.                *)
LEMMA AskFresh ==
  ASSUME NEW q, NEW tier, Ask(q, tier)
  PROVE  /\ req'.phase = "lookup" /\ req'.q = q /\ req'.tier = tier
         /\ req'.answer = None /\ req'.outcomes = <<>>
  BY DEF Ask, NoRequest

(* Asking for a candidate keeps the loop's invariant.                       *)
LEMMA AskKeeps ==
  ASSUME AttemptInv, NEW q \in Questions, NEW tier \in Tiers, Ask(q, tier),
         req.phase \in {"idle", "done"}, UNCHANGED <<account, cache>>,
         NextCandidate \/ UNCHANGED wire
  PROVE  AttemptInv'
<1>1. /\ wire' \in [window : Nat, dropped : Nat, used : Nat, lost : Nat, base : Nat,
                    sent : Nat, barred : Nat, begun : Nat]
      /\ wire'.window = wire.window /\ wire'.dropped = wire.dropped
        /\ wire'.used = wire.used
      /\ wire'.lost = wire.lost /\ wire'.base = wire.base
  <2>1. CASE UNCHANGED wire
    BY <2>1 DEF AttemptInv, AttemptTypeOK
  <2>2. CASE NextCandidate
    <3>1. /\ wire' = [wire EXCEPT !.sent = 0, !.barred = 0, !.begun = wire.begun + 1]
          /\ wire.begun + 1 \in Nat
      BY <2>2 DEF NextCandidate, AttemptInv, AttemptTypeOK
    <3>2. QED BY <3>1 DEF AttemptInv, AttemptTypeOK
  <2>3. QED BY <2>1, <2>2
<1>2. QED BY <1>1, AskInv

-----------------------------------------------------------------------------
(* The invariant holds initially, and each step keeps it.                   *)
LEMMA AdjudicateInitInv == AdjudicateInit => AdjudicateInv
<1> SUFFICES ASSUME AdjudicateInit PROVE AdjudicateInv
  OBVIOUS
<1>1. AttemptInv
  BY AttemptInitInv DEF AdjudicateInit
<1>2. /\ req.phase = "idle" /\ req.answer = None
      /\ cand = [phase |-> "idle", q |-> None, decided |-> None, first |-> None,
                 attempts |-> <<>>, result |-> None]
  BY DEF AdjudicateInit, AttemptInit, NoRequest, NoCandidate
<1>3. <<>> \in Seq(Outcomes)
  OBVIOUS
<1>4. AdjudicateTypeOK
  BY <1>1, <1>2, <1>3 DEF AdjudicateTypeOK, AttemptInv
<1>5. QED
  BY <1>1, <1>2, <1>4 DEF AdjudicateInv, AnswerRecorded, PhaseKnows, Underway,
     EscalationIsSafe, EscalationEarned, FirstAnswerStands

(* A candidate that is refused, or whose prompt cannot be put together,     *)
(* leaves the request at rest.                                              *)
LEMMA RefuseInv ==
  ASSUME AdjudicateInv, NEW q \in Questions, NEW phase \in {"done", "raised"},
         NEW result \in Results \cup {None}, phase = "done" => result \in Results,
         cand' = [phase |-> phase, q |-> q, decided |-> None, first |-> None,
                  attempts |-> <<>>, result |-> result],
         NextCandidate, UNCHANGED <<cache, req>>,
         cand.phase \notin Underway,
         account' \in {account, RefusedOne(account)}
  PROVE  AdjudicateInv'
<1>1. wire' = [wire EXCEPT !.sent = 0, !.barred = 0, !.begun = wire.begun + 1]
  BY DEF NextCandidate
<1>2. /\ AttemptTypeOK /\ RequestConsistent /\ QuotaHeld /\ LedgerBalances
      /\ AnswersGrounded
  BY DEF AdjudicateInv, AttemptInv
<1>3. /\ account' \in Account
      /\ account'.quotaRequests = account.quotaRequests
      /\ account'.quotaTokens = account.quotaTokens
  <2>1. account \in Account
    BY <1>2 DEF AttemptTypeOK
  <2>2. QED BY <2>1 DEF RefusedOne, Account
<1>4. AttemptInv'
  <2>1. /\ wire'.window = wire.window /\ wire'.dropped = wire.dropped
        /\ wire'.used = wire.used
        /\ wire'.lost = wire.lost /\ wire'.base = wire.base
        /\ wire' \in [window : Nat, dropped : Nat, used : Nat, lost : Nat, base : Nat,
                      sent : Nat, barred : Nat, begun : Nat]
    <3>1. /\ wire \in [window : Nat, dropped : Nat, used : Nat, lost : Nat, base : Nat,
                       sent : Nat, barred : Nat, begun : Nat]
          /\ wire.begun + 1 \in Nat
      BY <1>2 DEF AttemptTypeOK
    <3>2. QED BY <1>1, <3>1
  <2>2. AttemptTypeOK'
    BY <1>1, <1>2, <1>3, <2>1 DEF AttemptTypeOK
  <2>3. RequestConsistent' /\ QuotaHeld' /\ LedgerBalances' /\ AnswersGrounded'
    BY <1>1, <1>2, <1>3, <2>1
       DEF RequestConsistent, QuotaHeld, LedgerBalances, AnswersGrounded
  <2>4. QED BY <2>2, <2>3 DEF AttemptInv
<1>6. <<>> \in Seq(Outcomes)
  OBVIOUS
<1>7. AdjudicateTypeOK'
  BY <1>1, <1>4, <1>6 DEF AdjudicateTypeOK, AttemptInv
<1>8. AnswerRecorded' /\ PhaseKnows' /\ EscalationIsSafe'
  BY <1>1 DEF AdjudicateInv, AnswerRecorded, PhaseKnows, Underway, EscalationIsSafe,
     EscalationEarned, FirstAnswerStands
<1>9. QED BY <1>4, <1>7, <1>8 DEF AdjudicateInv

(* A candidate presented is refused, or put to the tier that is asked first *)
(* and that is never the expensive one.                                     *)
LEMMA PresentInv ==
  ASSUME AdjudicateInv, NEW q \in Questions, Present(q), cand.phase \notin Underway
  PROVE  AdjudicateInv'
<1>1. CASE RefuseNoContext(q) \/ RefuseStopped(q) \/ RefuseOversize(q)
  <2>1. {"context_budget_exceeded", "run_budget_exhausted"} \subseteq Reasons
    BY DEF Reasons
  <2>2. PICK reason \in Reasons : Refuse(q, reason)
    BY <1>1, <2>1 DEF RefuseNoContext, RefuseStopped, RefuseOversize
  <2>3. account' \in {account, RefusedOne(account)}
    BY <1>1 DEF RefuseNoContext, RefuseStopped, RefuseOversize
  <2>4. /\ cand' = [phase |-> "done", q |-> q, decided |-> None, first |-> None,
                    attempts |-> <<>>, result |-> Result("adjudication", None, reason)]
        /\ UNCHANGED <<cache, req>> /\ NextCandidate
    BY <2>2 DEF Refuse, Opened, NoCandidate
  <2>5. Result("adjudication", None, reason) \in Results
    BY DEF Result, Results, Tiers
  <2>6. QED BY <2>3, <2>4, <2>5, RefuseInv
<1>2. CASE Raise(q)
  <2>1. /\ cand' = [phase |-> "raised", q |-> q, decided |-> None, first |-> None,
                    attempts |-> <<>>, result |-> None]
        /\ UNCHANGED <<account, cache, req>> /\ NextCandidate
    BY <1>2 DEF Raise, Opened, NoCandidate
  <2>2. QED BY <2>1, RefuseInv
<1>3. CASE StartTriage(q) \/ StartUntriaged(q)
  <2> DEFINE tier == IF TriageEnabled THEN "triage" ELSE "adjudication"
  <2>1. tier \in {"triage", "adjudication"} /\ tier \in Tiers
    BY DEF Tiers
  <2>2. /\ Ask(q, tier) /\ NextCandidate /\ UNCHANGED <<account, cache>>
        /\ cand' = [phase |-> IF TriageEnabled THEN "triage" ELSE "adjudicate", q |-> q,
                    decided |-> IF TriageEnabled THEN None ELSE Untriaged, first |-> None,
                    attempts |-> <<>>, result |-> None]
    BY <1>3, UntriagedRoute DEF StartTriage, StartUntriaged, Opened, NoCandidate
  <2>3. req.phase \in {"idle", "done"} /\ AttemptInv
    BY DEF AdjudicateInv, PhaseKnows, Underway
  <2>4. AttemptInv'
    BY <2>1, <2>2, <2>3, AskKeeps
  <2>5. /\ req'.phase = "lookup" /\ req'.q = q /\ req'.tier = tier /\ req'.answer = None
    BY <2>2, AskFresh
  <2>6. <<>> \in Seq(Outcomes)
    OBVIOUS
  <2>7. AdjudicateTypeOK'
    BY <2>2, <2>4, <2>5, <2>6, UntriagedRoute DEF AdjudicateTypeOK, AttemptInv
  <2>8. AnswerRecorded' /\ PhaseKnows' /\ EscalationIsSafe'
    BY <2>2, <2>5 DEF AnswerRecorded, PhaseKnows, Underway, EscalationIsSafe,
       EscalationEarned, FirstAnswerStands
  <2>9. QED BY <2>4, <2>7, <2>8 DEF AdjudicateInv
<1>4. QED BY <1>1, <1>2, <1>3 DEF Present

(* A step inside a request leaves the candidate as it is.                   *)
LEMMA LoopInv ==
  ASSUME AdjudicateInv, AttemptStep, UNCHANGED cand
  PROVE  AdjudicateInv'
<1>1. AttemptInv'
  BY AttemptStepInv DEF AdjudicateInv
<1>2. /\ req.phase \notin {"idle", "done"} /\ req'.phase # "idle"
      /\ req'.q = req.q /\ req'.tier = req.tier /\ AnswerRecorded'
  BY LoopStays DEF AdjudicateInv, AttemptInv
<1>3. AdjudicateTypeOK'
  BY <1>1, <1>2 DEF AdjudicateInv, AdjudicateTypeOK, AttemptInv
<1>4. PhaseKnows' /\ EscalationIsSafe'
  BY <1>2 DEF AdjudicateInv, PhaseKnows, Underway, EscalationIsSafe, EscalationEarned,
     FirstAnswerStands
<1>5. QED BY <1>1, <1>2, <1>3, <1>4 DEF AdjudicateInv

(* What is recorded of the tiers asked so far.                              *)
LEMMA RecordedSoFar ==
  ASSUME AdjudicateInv
  PROVE  /\ Recorded \in Seq(Outcomes)
         /\ req.answer # None => AnswerGiven(Recorded)
<1>1. cand.attempts \in Seq(Outcomes) /\ req.outcomes \in Seq(Outcomes)
  BY DEF AdjudicateInv, AdjudicateTypeOK, AttemptTypeOK
<1>2. QED BY <1>1, GivenConcat DEF Recorded, AdjudicateInv, AnswerRecorded

(* A candidate that is settled has a proposal if it ever had one.           *)
LEMMA ConcludeInv ==
  ASSUME AdjudicateInv, cand.phase \in Underway, req.phase = "done",
         NEW result \in Results, Conclude(result),
         cand.first # None => result.proposal # None
  PROVE  AdjudicateInv'
<1>1. /\ cand' = [cand EXCEPT !.phase = "done", !.attempts = Recorded, !.result = result]
      /\ UNCHANGED <<account, cache, req, wire>>
  BY DEF Conclude, attemptVars
<1>2. AttemptInv'
  BY <1>1 DEF AdjudicateInv, AttemptInv, AttemptTypeOK, RequestConsistent,
     QuotaHeld, LedgerBalances, AnswersGrounded
<1>3. AdjudicateTypeOK'
  BY <1>1, <1>2, RecordedSoFar DEF AdjudicateInv, AdjudicateTypeOK, AttemptInv
<1>4. cand'.phase = "done" /\ cand'.first = cand.first /\ cand'.result = result
  BY <1>1 DEF AdjudicateInv, AdjudicateTypeOK
<1>5. AnswerRecorded' /\ PhaseKnows' /\ EscalationIsSafe'
  BY <1>1, <1>4 DEF AdjudicateInv, AnswerRecorded, PhaseKnows, Underway, EscalationIsSafe,
     EscalationEarned, FirstAnswerStands
<1>6. QED BY <1>2, <1>3, <1>5 DEF AdjudicateInv

(* Every way a candidate is settled gives it a result of that kind.         *)
LEMMA SettledInv ==
  ASSUME AdjudicateInv, Dismiss \/ NoProposal \/ TakeProposal \/ SettleEscalation
  PROVE  AdjudicateInv'
<1>1. /\ req.outcomes \in Seq(Outcomes) /\ req.tier \in Tiers
      /\ cand.phase # "triage" /\ cand.phase \in Underway /\ req.answer # None
           => req.answer \in Proposals
      /\ cand.phase = "escalate" => cand.first \in Proposals
      /\ cand.phase \in {"triage", "adjudicate"} => cand.first = None
  BY DEF AdjudicateInv, AttemptInv, AttemptTypeOK, RequestConsistent, Replies,
     PhaseKnows, Underway
<1>2. /\ ReasonFor(req.outcomes) \in Reasons /\ "analyzer_only" \in Reasons
      /\ {"triage", "adjudication", "escalation"} \subseteq Tiers
  BY <1>1, ReasonForReasons DEF Reasons, Tiers
<1>3. None \notin Proposals
  BY AnswersAreAnswers DEF Answers
<1>4. PICK result \in Results :
        /\ Conclude(result) /\ cand.phase \in Underway /\ req.phase = "done"
        /\ cand.first # None => result.proposal # None
  <2>1. CASE Dismiss
    <3>1. Result("triage", None, "analyzer_only") \in Results
      BY <1>2 DEF Result, Results
    <3>2. QED BY <1>1, <2>1, <3>1 DEF Dismiss, Returned, Underway
  <2>2. CASE NoProposal
    <3>1. Result(req.tier, None, ReasonFor(req.outcomes)) \in Results
      BY <1>1, <1>2 DEF Result, Results
    <3>2. QED BY <1>1, <2>2, <3>1 DEF NoProposal, Returned, Underway
  <2>3. CASE TakeProposal
    <3>1. /\ cand.phase = "adjudicate" /\ req.phase = "done" /\ req.answer # None
          /\ Conclude(Result(req.tier, req.answer, None))
      BY <2>3 DEF TakeProposal, Returned
    <3>2. Result(req.tier, req.answer, None) \in Results
      BY <1>1, <3>1 DEF Result, Results, Underway
    <3>3. QED BY <1>1, <3>1, <3>2 DEF Underway
  <2>4. CASE SettleEscalation
    <3>1. /\ cand.phase = "escalate" /\ req.phase = "done"
          /\ Conclude(IF req.answer = None THEN Result("adjudication", cand.first, None)
                      ELSE Result("escalation", req.answer, None))
      BY <2>4 DEF SettleEscalation, Returned
    <3>2. CASE req.answer = None
      <4>1. /\ Result("adjudication", cand.first, None) \in Results
            /\ Result("adjudication", cand.first, None).proposal # None
        BY <1>1, <1>2, <1>3, <3>1 DEF Result, Results
      <4>2. QED BY <3>1, <3>2, <4>1 DEF Underway
    <3>3. CASE req.answer # None
      <4>1. /\ Result("escalation", req.answer, None) \in Results
            /\ Result("escalation", req.answer, None).proposal # None
        BY <1>1, <1>2, <3>1, <3>3 DEF Result, Results, Underway
      <4>2. QED BY <3>1, <3>3, <4>1 DEF Underway
    <3>4. QED BY <3>2, <3>3
  <2>5. QED BY <2>1, <2>2, <2>3, <2>4
<1>5. QED BY <1>4, ConcludeInv

(* The next tier is asked: the expensive one for an answer that was really  *)
(* given, ambiguous and severe.                                             *)
LEMMA NextTierInv ==
  ASSUME AdjudicateInv, cand.phase \in Underway, req.phase = "done",
         NEW tier \in {"adjudication", "escalation"}, Ask(cand.q, tier),
         NEW phase \in {"adjudicate", "escalate"},
         NEW decided \in TriageResults \cup {None}, NEW first \in Proposals \cup {None},
         UNCHANGED <<account, cache, wire>>,
         cand' = [cand EXCEPT !.phase = phase, !.decided = decided, !.first = first,
                              !.attempts = Recorded],
         phase = "escalate" => tier = "escalation" /\ first \in Proposals,
         phase = "adjudicate" => first = None,
         tier = "escalation" =>
            /\ AllowEscalation /\ cand.q \in HasPrimary \ OutOfScope
            /\ req.answer # None
            /\ \/ decided \in TriageReplies /\ decided.ambiguous /\ decided.severe
               \/ first \in Proposals /\ first.verdict = "review_required" /\ first.severe
  PROVE  AdjudicateInv'
<1>1. cand.q \in Questions /\ tier \in Tiers
  BY DEF AdjudicateInv, PhaseKnows, Tiers
<1>2. AttemptInv'
  BY <1>1, AskKeeps DEF AdjudicateInv
<1>3. /\ req'.phase = "lookup" /\ req'.q = cand.q /\ req'.tier = tier /\ req'.answer = None
  BY AskFresh
<1>4. Recorded \in Seq(Outcomes) /\ (req.answer # None => AnswerGiven(Recorded))
  BY RecordedSoFar
<1>5. AdjudicateTypeOK'
  BY <1>1, <1>2, <1>3, <1>4 DEF AdjudicateInv, AdjudicateTypeOK, AttemptInv
<1>6. /\ cand'.phase = phase /\ cand'.q = cand.q /\ cand'.decided = decided
      /\ cand'.first = first /\ cand'.attempts = Recorded
  BY DEF AdjudicateInv, AdjudicateTypeOK
<1>7. AnswerRecorded' /\ PhaseKnows'
  BY <1>1, <1>3, <1>6 DEF AnswerRecorded, PhaseKnows, Underway
<1>8. EscalationIsSafe'
  BY <1>3, <1>4, <1>6 DEF EscalationIsSafe, EscalationEarned, FirstAnswerStands
<1>9. QED BY <1>2, <1>5, <1>7, <1>8 DEF AdjudicateInv

(* After triage.                                                            *)
LEMMA AskChosenTierInv ==
  ASSUME AdjudicateInv, AskChosenTier
  PROVE  AdjudicateInv'
<1> DEFINE tier == Route(cand.q, TriageSaid)
<1>1. /\ cand.phase = "triage" /\ cand.phase \in Underway /\ req.phase = "done"
      /\ tier # "triage" /\ Ask(cand.q, tier)
      /\ UNCHANGED <<account, cache, wire>>
      /\ cand' = [cand EXCEPT !.phase = "adjudicate", !.decided = TriageSaid,
                              !.attempts = Recorded]
  BY DEF AskChosenTier, Returned, Underway
<1>2. /\ cand.q \in Questions /\ cand.first = None
      /\ req.answer # None => req.answer \in TriageReplies
  BY <1>1 DEF AdjudicateInv, AttemptInv, RequestConsistent, Replies, PhaseKnows
<1>3. TriageSaid \in TriageResults
  BY <1>2, UntriagedRoute, AttemptAssumption DEF TriageSaid
<1>4. tier \in {"adjudication", "escalation"}
  BY <1>1, <1>2, <1>3, RouteEarned DEF Tiers
<1>5. ASSUME tier = "escalation"
      PROVE  /\ AllowEscalation /\ cand.q \in HasPrimary \ OutOfScope
             /\ req.answer # None /\ TriageSaid \in TriageReplies
             /\ TriageSaid.ambiguous /\ TriageSaid.severe
  <2>1. req.answer # None
    BY <1>2, <1>5, UntriagedRoute DEF TriageSaid
  <2>2. QED BY <1>2, <1>3, <1>5, <2>1, RouteEarned DEF TriageSaid
<1>6. cand' = [cand EXCEPT !.phase = "adjudicate", !.decided = TriageSaid, !.first = None,
                           !.attempts = Recorded]
  BY <1>1, <1>2 DEF AdjudicateInv, AdjudicateTypeOK
<1> HIDE DEF tier
<1>7. QED BY <1>1, <1>3, <1>4, <1>5, <1>6, NextTierInv

(* After a first answer that was earned an escalation.                      *)
LEMMA EscalateInv ==
  ASSUME AdjudicateInv, Escalate
  PROVE  AdjudicateInv'
<1>1. /\ cand.phase = "adjudicate" /\ cand.phase \in Underway /\ req.phase = "done"
      /\ req.answer # None /\ Ask(cand.q, "escalation")
      /\ Route(cand.q, EscalationInput(req.answer)) = "escalation"
      /\ UNCHANGED <<account, cache, wire>>
      /\ cand' = [cand EXCEPT !.phase = "escalate", !.first = req.answer,
                              !.attempts = Recorded]
  BY DEF Escalate, Earned, Returned, Underway
<1>2. /\ cand.q \in Questions /\ req.answer \in Proposals
      /\ cand.decided \in TriageResults \cup {None}
  BY <1>1 DEF AdjudicateInv, AdjudicateTypeOK, AttemptInv, RequestConsistent, Replies,
     PhaseKnows
<1>3. /\ EscalationInput(req.answer) \in TriageResults
      /\ EscalationInput(req.answer).ambiguous => req.answer.verdict = "review_required"
      /\ EscalationInput(req.answer).severe = req.answer.severe
  <2>1. req.answer \in Adjudications
    BY <1>2, AttemptAssumption
  <2>2. QED BY <2>1 DEF EscalationInput, TriageResults, Adjudications
<1>4. /\ AllowEscalation /\ cand.q \in HasPrimary \ OutOfScope
      /\ req.answer.verdict = "review_required" /\ req.answer.severe
  BY <1>1, <1>2, <1>3, RouteEarned
<1>5. cand' = [cand EXCEPT !.phase = "escalate", !.decided = cand.decided,
                           !.first = req.answer, !.attempts = Recorded]
  BY <1>1 DEF AdjudicateInv, AdjudicateTypeOK
<1>6. QED BY <1>1, <1>2, <1>4, <1>5, NextTierInv

(* So every step of the service keeps the invariant.                        *)
LEMMA AdjudicateNextInv ==
  AdjudicateInv /\ [AdjudicateNext]_adjudicateVars => AdjudicateInv'
<1> SUFFICES ASSUME AdjudicateInv, [AdjudicateNext]_adjudicateVars PROVE AdjudicateInv'
  OBVIOUS
<1>1. ASSUME NEW q \in Questions, Present(q), cand.phase \in {"idle", "done"}
      PROVE  AdjudicateInv'
  <2>1. cand.phase \notin Underway
    BY <1>1 DEF Underway
  <2>2. QED BY <1>1, <2>1, PresentInv
<1>2. CASE AdjudicateStep
  BY <1>2, LoopInv, SettledInv, AskChosenTierInv, EscalateInv DEF AdjudicateStep
<1>3. CASE UNCHANGED adjudicateVars
  <2>1. UNCHANGED <<account, cache, req, wire, cand>>
    BY <1>3 DEF adjudicateVars
  <2>2. AttemptInv'
    BY <2>1 DEF AdjudicateInv, AttemptInv, AttemptTypeOK, RequestConsistent,
       QuotaHeld, LedgerBalances, AnswersGrounded
  <2>3. AdjudicateTypeOK'
    BY <2>1, <2>2 DEF AdjudicateInv, AdjudicateTypeOK, AttemptInv
  <2>4. QED
    BY <2>1, <2>2, <2>3 DEF AdjudicateInv, AnswerRecorded, PhaseKnows, EscalationIsSafe,
       EscalationEarned, FirstAnswerStands
<1>4. QED BY <1>1, <1>2, <1>3 DEF AdjudicateNext

-----------------------------------------------------------------------------
(* What a candidate costs.  Within a request every answer that is charged   *)
(* ends it or uses up one of its schema attempts, so that Rounds bounds the *)
(* answers charged since a ceiling was last seen unreached.                 *)
Waiting == IF req.phase = "wait" THEN 1 ELSE 0

CallsCounted ==
    cand.phase \in Underway =>
        wire.sent + wire.barred = NotCached(cand.attempts) + NotCached(req.outcomes) + Waiting

Paid == IF req.phase \in {"write", "done"} THEN req.number ELSE req.number - 1

Rounds ==
    IF cand.phase \notin Underway THEN 2 * MaxAttempts
    ELSE Paid + (IF cand.phase = "adjudicate" THEN MaxAttempts ELSE 0)

SpendBounded == TotalTokens(account) <= PerRun - 1 + Rounds * PeakUsage

CostInv == CallsCounted /\ AttemptsRecorded /\ SpendBounded

(* One attempt more is one call more, unless the cache answered it.         *)
LEMMA CallsAppend ==
  ASSUME NEW s \in Seq(Outcomes), NEW o \in Outcomes
  PROVE  /\ NotCached(s) \in Nat
         /\ NotCached(Append(s, o)) = NotCached(s) + (IF o = "cached" THEN 0 ELSE 1)
<1> DEFINE made(t) == {i \in DOMAIN t : t[i] # "cached"}
<1>1. IsFiniteSet(made(s)) /\ Len(s) + 1 \notin made(s)
  <2>1. IsFiniteSet(1..Len(s))
    BY FS_Interval
  <2>2. made(s) \in SUBSET (1..Len(s))
    OBVIOUS
  <2>3. QED BY <2>1, <2>2, FS_Subset
<1>2. made(Append(s, o)) = made(s) \cup (IF o = "cached" THEN {} ELSE {Len(s) + 1})
  OBVIOUS
<1> HIDE DEF made
<1>3. Cardinality(made(s)) \in Nat
  BY <1>1, FS_CardinalityType
<1>4. Cardinality(made(s) \cup {Len(s) + 1}) = Cardinality(made(s)) + 1
  BY <1>1, FS_AddElement
<1>5. /\ NotCached(s) = Cardinality(made(s))
      /\ NotCached(Append(s, o)) = Cardinality(made(Append(s, o)))
  BY DEF NotCached, made
<1>6. CASE o = "cached"
  <2>1. made(Append(s, o)) = made(s)
    BY <1>2, <1>6
  <2>2. QED BY <1>3, <1>5, <1>6, <2>1
<1>7. CASE o # "cached"
  <2>1. made(Append(s, o)) = made(s) \cup {Len(s) + 1}
    BY <1>2, <1>7
  <2>2. QED BY <1>3, <1>4, <1>5, <1>7, <2>1
<1>8. QED BY <1>6, <1>7

(* The calls of two requests of a candidate are those of both.              *)
LEMMA CallsConcat ==
  ASSUME NEW s \in Seq(Outcomes), NEW t \in Seq(Outcomes)
  PROVE  NotCached(s \o t) = NotCached(s) + NotCached(t)
<1> DEFINE made(u) == {i \in DOMAIN u : u[i] # "cached"}
           later == {i \in DOMAIN (s \o t) : i > Len(s) /\ (s \o t)[i] # "cached"}
           shift == [i \in made(t) |-> Len(s) + i]
<1>1. IsFiniteSet(made(s)) /\ IsFiniteSet(made(t))
  <2>1. IsFiniteSet(1..Len(s)) /\ IsFiniteSet(1..Len(t))
    BY FS_Interval
  <2>2. made(s) \in SUBSET (1..Len(s)) /\ made(t) \in SUBSET (1..Len(t))
    OBVIOUS
  <2>3. QED BY <2>1, <2>2, FS_Subset
<1>2. /\ DOMAIN (s \o t) = 1..(Len(s) + Len(t))
      /\ \A i \in 1..Len(s) : (s \o t)[i] = s[i]
      /\ \A i \in 1..Len(t) : (s \o t)[Len(s) + i] = t[i]
      /\ DOMAIN s = 1..Len(s) /\ DOMAIN t = 1..Len(t)
      /\ Len(s) \in Nat /\ Len(t) \in Nat
  OBVIOUS
<1>3. made(s \o t) = made(s) \cup later /\ made(s) \cap later = {}
  BY <1>2
<1>4. ASSUME NEW k \in later PROVE k - Len(s) \in made(t) /\ shift[k - Len(s)] = k
  <2>1. k \in (Len(s) + 1)..(Len(s) + Len(t)) /\ (s \o t)[k] # "cached"
    BY <1>2
  <2>2. k - Len(s) \in 1..Len(t) /\ Len(s) + (k - Len(s)) = k
    BY <1>2, <2>1
  <2>3. t[k - Len(s)] = (s \o t)[k]
    BY <1>2, <2>2
  <2>4. QED BY <1>2, <2>1, <2>2, <2>3
<1>5. shift \in Bijection(made(t), later)
  <2>1. \A i \in made(t) : shift[i] \in later
    BY <1>2
  <2>2. \A i, j \in made(t) : shift[i] = shift[j] => i = j
    BY <1>2
  <2>3. \A k \in later : \E i \in made(t) : shift[i] = k
    BY <1>4
  <2> HIDE DEF later, made
  <2>4. shift \in [made(t) -> later]
    BY <2>1
  <2>5. QED BY <2>2, <2>3, <2>4, Zenon DEF Bijection, Injection, Surjection, IsInjective
<1>6. IsFiniteSet(later) /\ Cardinality(later) = Cardinality(made(t))
  <2> HIDE DEF later, made, shift
  <2>1. ExistsBijection(made(t), later)
    BY <1>5 DEF ExistsBijection
  <2>2. QED BY <1>1, <2>1, FS_Bijection
<1>7. Cardinality(made(s \o t)) = Cardinality(made(s)) + Cardinality(made(t))
  <2> HIDE DEF later, made, shift
  <2>1. Cardinality(made(s)) \in Nat /\ Cardinality(later) \in Nat
    BY <1>1, <1>6, FS_CardinalityType
  <2>2. Cardinality(made(s) \cup later)
          = Cardinality(made(s)) + Cardinality(later) - Cardinality({})
    BY <1>1, <1>3, <1>6, FS_Union
  <2>3. Cardinality({}) = 0
    BY FS_EmptySet
  <2>4. QED BY <1>3, <1>6, <2>1, <2>2, <2>3
<1>8. QED BY <1>7 DEF NotCached

(* A larger number of answers costs at least as much.                       *)
LEMMA PeakBounds ==
  /\ PeakUsage \in Nat
  /\ \A usage \in Usages : usage \in Nat /\ usage <= PeakUsage
  /\ \A m, n \in Nat : m <= n => m * PeakUsage <= n * PeakUsage
  /\ \A n \in Nat : (n + 1) * PeakUsage = n * PeakUsage + PeakUsage
<1>1. PeakUsage \in Usages /\ \A usage \in Usages : usage <= PeakUsage
  BY AdjudicateAssumption DEF PeakUsage
<1>2. Usages \subseteq Nat
  BY AttemptAssumption
<1>3. ASSUME NEW peak \in Nat, NEW m \in Nat, NEW n \in Nat
      PROVE  /\ m <= n => m * peak <= n * peak
             /\ (n + 1) * peak = n * peak + peak
  BY <1>3
<1>4. QED BY <1>1, <1>2, <1>3

(* The account's total is the sum of the tiers', so that a charge adds its  *)
(* usage to it and nothing else changes it.                                 *)
LEMMA TotalsOf ==
  ASSUME NEW a \in Account
  PROVE  /\ TotalTokens(a) \in Nat
         /\ \A tier \in Tiers, usage, hold \in Nat :
              TotalTokens(Charged(a, tier, usage, hold)) = TotalTokens(a) + usage
         /\ TotalTokens(ChargedCached(a)) = TotalTokens(a)
         /\ TotalTokens(Retried(a)) = TotalTokens(a)
         /\ TotalTokens(RefusedOne(a)) = TotalTokens(a)
         /\ \A tokens \in Nat : TotalTokens(Reserved(a, tokens)) = TotalTokens(a)
         /\ \A tokens \in Nat : TotalTokens(Barred(a, tokens)) = TotalTokens(a)
<1>1. /\ a.tokens \in [Tiers -> Nat]
      /\ {"triage", "adjudication", "escalation"} = Tiers
  BY DEF Account, Tiers
<1>2. ASSUME NEW tier \in Tiers, NEW usage \in Nat, NEW hold \in Nat
      PROVE  TotalTokens(Charged(a, tier, usage, hold)) = TotalTokens(a) + usage
  <2> DEFINE tokens2 == [a.tokens EXCEPT ![tier] = @ + usage]
  <2>1. Charged(a, tier, usage, hold).tokens = tokens2
    BY DEF Charged, Account
  <2>2. tokens2["triage"] + tokens2["adjudication"] + tokens2["escalation"]
          = TotalTokens(a) + usage
    <3>1. CASE tier = "triage"
      BY <1>1, <3>1 DEF TotalTokens
    <3>2. CASE tier = "adjudication"
      BY <1>1, <3>2 DEF TotalTokens
    <3>3. CASE tier = "escalation"
      BY <1>1, <3>3 DEF TotalTokens
    <3>4. QED BY <3>1, <3>2, <3>3 DEF Tiers
  <2>3. QED BY <2>1, <2>2 DEF TotalTokens
<1>3. /\ ChargedCached(a).tokens = a.tokens /\ Retried(a).tokens = a.tokens
      /\ RefusedOne(a).tokens = a.tokens
      /\ \A tokens \in Nat : Reserved(a, tokens).tokens = a.tokens
      /\ \A tokens \in Nat : Barred(a, tokens).tokens = a.tokens
  BY DEF ChargedCached, Retried, RefusedOne, Reserved, Barred, Account
<1>4. TotalTokens(a) \in Nat
  BY <1>1 DEF TotalTokens
<1>5. QED BY <1>2, <1>3, <1>4 DEF TotalTokens

(* A run that is not stopped has not reached the ceiling.                   *)
LEMMA NotStopped ==
  ASSUME account \in Account, ~Stopped
  PROVE  TotalTokens(account) <= PerRun - 1
<1>1. TotalTokens(account) \in Nat /\ PerRun \in Nat
  BY TotalsOf, AccountAssumption
<1>2. ~(TotalTokens(account) >= PerRun)
  BY DEF Stopped, StopReason, Account
<1>3. QED BY <1>1, <1>2

(* A charge adds at most the largest usage an answer may report.            *)
LEMMA ChargeTotal ==
  ASSUME AttemptTypeOK, \E usage \in Usages : Charge(usage)
  PROVE  /\ TotalTokens(account') \in Nat
         /\ TotalTokens(account') <= TotalTokens(account) + PeakUsage
         /\ wire'.sent = wire.sent /\ wire'.barred = wire.barred
<1>1. PICK usage \in Usages : Charge(usage)
  OBVIOUS
<1>2. usage \in Nat /\ usage <= PeakUsage /\ PeakUsage \in Nat
  BY PeakBounds
<1>3. account \in Account /\ req.tier \in Tiers /\ req.hold \in Nat
  BY DEF AttemptTypeOK
<1>4. /\ TotalTokens(account') = TotalTokens(account) + usage
      /\ TotalTokens(account) \in Nat
  BY <1>1, <1>2, <1>3, TotalsOf DEF Charge
<1>5. wire'.sent = wire.sent /\ wire'.barred = wire.barred
  BY <1>1 DEF Charge, AttemptTypeOK
<1>6. QED BY <1>2, <1>4, <1>5

(* What a step of the loop spends and what it records: a call on its way is *)
(* recorded when it comes back, an answer that is charged uses up a round.  *)
LoopRecords ==
    wire'.sent + wire'.barred - NotCached(req.outcomes)' - Waiting'
      = wire.sent + wire.barred - NotCached(req.outcomes) - Waiting

LoopSpends ==
    \/ TotalTokens(account') = TotalTokens(account) /\ Paid' >= Paid
    \/ TotalTokens(account') <= TotalTokens(account) + PeakUsage /\ Paid' >= Paid + 1

LEMMA LoopCosts ==
  ASSUME AttemptTypeOK, AttemptStep
  PROVE  LoopRecords /\ LoopSpends
<1>1. /\ account \in Account /\ req.outcomes \in Seq(Outcomes)
      /\ req.number \in Nat /\ wire.sent \in Nat /\ wire.barred \in Nat
  BY AttemptAssumption DEF AttemptTypeOK
<1>2. /\ Counted \in Account /\ TotalTokens(Counted) = TotalTokens(account)
      /\ req.phase # "idle" => Tokens \in Nat
  BY <1>1, CountersAccount, TotalsOf, KeyInDomain DEF Counted
<1>3. /\ NotCached(req.outcomes) \in Nat
      /\ \A o \in Outcomes : NotCached(Append(req.outcomes, o))
                               = NotCached(req.outcomes) + (IF o = "cached" THEN 0 ELSE 1)
  <2>1. ASSUME NEW o \in Outcomes
        PROVE  /\ NotCached(req.outcomes) \in Nat
               /\ NotCached(Append(req.outcomes, o))
                    = NotCached(req.outcomes) + (IF o = "cached" THEN 0 ELSE 1)
    BY <1>1, CallsAppend
  <2>2. "refused" \in Outcomes
    BY DEF Outcomes
  <2>3. QED BY <2>1, <2>2
<1>4. wire.sent \in Nat /\ wire.barred \in Nat /\ NotCached(req.outcomes) \in Nat
  BY <1>1, <1>3
<1>5. CASE CacheHit
  <2>1. /\ req.phase = "lookup" /\ req'.phase = "done" /\ req'.number = req.number
        /\ req'.outcomes = Append(req.outcomes, "cached") /\ UNCHANGED wire
        /\ account' = ChargedCached(account)
    BY <1>5 DEF CacheHit, AttemptTypeOK
  <2>2. TotalTokens(account') = TotalTokens(account) /\ "cached" \in Outcomes
    BY <1>1, <2>1, TotalsOf DEF Outcomes
  <2>3. Waiting = 0 /\ Waiting' = 0 /\ NotCached(req'.outcomes) = NotCached(req.outcomes)
    BY <1>3, <2>1, <2>2 DEF Waiting
  <2>4. LoopRecords
    BY <1>4, <2>1, <2>3 DEF LoopRecords
  <2>5. Paid \in Int /\ Paid' \in Int /\ Paid' >= Paid
    BY <1>1, <2>1 DEF Paid
  <2>6. QED BY <2>2, <2>4, <2>5 DEF LoopSpends
<1>6. CASE CacheMiss \/ WriteEntry
  <2>1. /\ \/ req.phase = "lookup" /\ req'.phase = "send"
           \/ req.phase = "write" /\ req'.phase = "done"
        /\ req'.number = req.number /\ req'.outcomes = req.outcomes
        /\ UNCHANGED <<wire, account>>
    BY <1>6 DEF CacheMiss, WriteEntry, AttemptTypeOK
  <2>2. QED BY <1>1, <1>3, <2>1 DEF LoopRecords, LoopSpends, Waiting, Paid
<1>7. CASE TurnBack
  <2>1. /\ req.phase = "send" /\ req'.phase = "done" /\ req'.number = req.number
        /\ req'.outcomes = Append(req.outcomes, "refused")
        /\ wire'.sent = wire.sent /\ wire'.barred = wire.barred + 1
        /\ account' = Barred(Counted, Tokens)
    BY <1>7 DEF TurnBack, Fail, AttemptTypeOK
  <2>2. TotalTokens(account') = TotalTokens(account) /\ "refused" \in Outcomes
    BY <1>2, <2>1, TotalsOf DEF Outcomes
  <2>3. NotCached(req'.outcomes) = NotCached(req.outcomes) + 1
    BY <1>3, <2>1, <2>2
  <2>4. Waiting = 0 /\ Waiting' = 0 /\ Paid \in Int /\ Paid' \in Int /\ Paid' >= Paid
    BY <1>1, <2>1 DEF Waiting, Paid
  <2>5. LoopRecords
    BY <1>4, <2>1, <2>3, <2>4 DEF LoopRecords
  <2>6. QED BY <2>2, <2>4, <2>5 DEF LoopSpends
<1>8. CASE Send
  <2>1. /\ req.phase = "send" /\ req'.phase = "wait" /\ req'.number = req.number
        /\ req'.outcomes = req.outcomes
        /\ wire'.sent = wire.sent + 1 /\ wire'.barred = wire.barred
        /\ account' = Reserved(Counted, Tokens)
    BY <1>8 DEF Send, AttemptTypeOK
  <2>2. TotalTokens(account') = TotalTokens(account)
    BY <1>2, <2>1, TotalsOf
  <2>3. /\ Waiting = 0 /\ Waiting' = 1 /\ NotCached(req'.outcomes) = NotCached(req.outcomes)
        /\ Paid \in Int /\ Paid' \in Int /\ Paid' >= Paid
    BY <1>1, <2>1 DEF Waiting, Paid
  <2>4. LoopRecords
    BY <1>4, <2>1, <2>3 DEF LoopRecords
  <2>5. QED BY <2>2, <2>3, <2>4 DEF LoopSpends
<1>9. CASE ReplyInvalid \/ ReplyUngrounded \/ ReplyValid
  <2>1. /\ TotalTokens(account') <= TotalTokens(account) + PeakUsage
        /\ wire'.sent = wire.sent /\ wire'.barred = wire.barred
    BY <1>9, ChargeTotal DEF ReplyInvalid, ReplyUngrounded, ReplyValid
  <2>2. PICK o \in Outcomes \ {"cached"} : req'.outcomes = Append(req.outcomes, o)
    <3>1. {"schema_invalid", "citation_unknown", "accepted"} \subseteq Outcomes \ {"cached"}
      BY DEF Outcomes
    <3>2. QED BY <1>9, <3>1 DEF ReplyInvalid, ReplyUngrounded, ReplyValid, Fail, AttemptTypeOK
  <2>3. req.phase = "wait" /\ req'.phase # "wait" /\ Paid' = Paid + 1
    <3>1. CASE ReplyUngrounded
      <4>1. req.phase = "wait" /\ req'.phase = "done" /\ req'.number = req.number
        BY <3>1 DEF ReplyUngrounded, Fail, AttemptTypeOK
      <4>2. QED BY <1>1, <4>1 DEF Paid
    <3>2. CASE ReplyValid
      <4>1. req.phase = "wait" /\ req'.phase \in {"write", "done"} /\ req'.number = req.number
        BY <3>2 DEF ReplyValid, AttemptTypeOK
      <4>2. QED BY <1>1, <4>1 DEF Paid
    <3>3. CASE ReplyInvalid
      <4>1. /\ req.phase = "wait"
            /\ \/ req'.phase = "done" /\ req'.number = req.number
               \/ req'.phase = "send" /\ req'.number = req.number + 1
        BY <3>3 DEF ReplyInvalid, Fail, AttemptTypeOK
      <4>2. QED BY <1>1, <4>1 DEF Paid
    <3>4. QED BY <1>9, <3>1, <3>2, <3>3
  <2>4. Paid \in Int /\ Waiting = 1 /\ Waiting' = 0
    BY <1>1, <2>3 DEF Paid, Waiting
  <2>5. LoopRecords
    <3>1. NotCached(req'.outcomes) = NotCached(req.outcomes) + 1
      BY <1>3, <2>2
    <3>2. QED BY <1>4, <2>1, <2>3, <2>4, <3>1 DEF LoopRecords
  <2>6. LoopSpends
    <3>1. Paid' >= Paid + 1
      BY <2>3, <2>4
    <3>2. QED BY <2>1, <3>1 DEF LoopSpends
  <2>7. QED BY <2>5, <2>6
<1>10. CASE ReplyRefused \/ ReplyUnavailable
  <2>1. /\ req.phase = "wait" /\ req'.phase \in {"send", "done"}
        /\ req'.number = req.number /\ UNCHANGED account
        /\ wire'.sent = wire.sent /\ wire'.barred = wire.barred
    BY <1>10 DEF ReplyRefused, ReplyUnavailable, Fail, AttemptTypeOK
  <2>2. PICK o \in Outcomes \ {"cached"} : req'.outcomes = Append(req.outcomes, o)
    <3>1. {"refused", "transport_error"} \subseteq Outcomes \ {"cached"}
      BY DEF Outcomes
    <3>2. QED BY <1>10, <3>1 DEF ReplyRefused, ReplyUnavailable, Fail, AttemptTypeOK
  <2>3. /\ Waiting = 1 /\ Waiting' = 0 /\ Paid \in Int /\ Paid' \in Int /\ Paid' >= Paid
        /\ NotCached(req'.outcomes) = NotCached(req.outcomes) + 1
    BY <1>1, <1>3, <2>1, <2>2 DEF Waiting, Paid
  <2>4. LoopRecords
    BY <1>4, <2>1, <2>3 DEF LoopRecords
  <2>5. LoopSpends
    BY <2>1, <2>3 DEF LoopSpends
  <2>6. QED BY <2>4, <2>5
<1>11. QED BY <1>5, <1>6, <1>7, <1>8, <1>9, <1>10 DEF AttemptStep, Reply

(* Nothing asked is no call.                                                *)
LEMMA NoCalls == NotCached(<<>>) = 0
<1>1. {i \in DOMAIN <<>> : <<>>[i] # "cached"} = {}
  OBVIOUS
<1>2. QED BY <1>1, FS_EmptySet DEF NotCached

(* Fewer rounds than are allowed for cost less than is allowed for.         *)
LEMMA WithinRounds ==
  ASSUME NEW total \in Nat, NEW m \in Nat, NEW n \in Nat,
         total <= PerRun - 1 + m * PeakUsage, m <= n
  PROVE  total <= PerRun - 1 + n * PeakUsage
<1>1. m * PeakUsage <= n * PeakUsage
  BY PeakBounds
<1>2. m * PeakUsage \in Nat /\ n * PeakUsage \in Nat /\ PerRun \in Nat
  BY PeakBounds, AccountAssumption
<1>3. QED BY <1>1, <1>2

(* A candidate refused has cost nothing; one that is asked about is asked   *)
(* below the ceiling.                                                       *)
LEMMA PresentCost ==
  ASSUME AdjudicateInv, CostInv, NEW q \in Questions, Present(q),
         cand.phase \in {"idle", "done"}
  PROVE  CostInv'
<1>1. /\ account \in Account /\ cand.phase \notin Underway /\ MaxAttempts \in Nat
      /\ wire \in [window : Nat, dropped : Nat, used : Nat, lost : Nat, base : Nat,
                   sent : Nat, barred : Nat, begun : Nat]
      /\ TotalTokens(account) \in Nat
  BY AttemptAssumption, TotalsOf DEF AdjudicateInv, AttemptInv, AttemptTypeOK, Underway
<1>2. CASE RefuseNoContext(q) \/ RefuseStopped(q) \/ RefuseOversize(q)
  <2>1. /\ account' \in {account, RefusedOne(account)}
        /\ cand'.phase = "done" /\ cand'.attempts = <<>>
        /\ wire'.sent = 0 /\ wire'.barred = 0
    BY <1>1, <1>2 DEF RefuseNoContext, RefuseStopped, RefuseOversize, Refuse, Opened,
       NoCandidate, NextCandidate
  <2>2. TotalTokens(account') = TotalTokens(account)
    BY <1>1, <2>1, TotalsOf
  <2>3. Rounds = 2 * MaxAttempts /\ Rounds' = 2 * MaxAttempts /\ cand'.phase \notin Underway
    BY <1>1, <2>1 DEF Rounds, Underway
  <2>4. QED BY <2>1, <2>2, <2>3, NoCalls DEF CostInv, CallsCounted, AttemptsRecorded,
           SpendBounded
<1>3. CASE StartTriage(q) \/ StartUntriaged(q)
  <2>1. /\ ~Stopped /\ UNCHANGED account
        /\ req'.phase = "lookup" /\ req'.number = 1 /\ req'.outcomes = <<>>
        /\ cand'.phase \in {"triage", "adjudicate"} /\ cand'.attempts = <<>>
        /\ wire'.sent = 0 /\ wire'.barred = 0
    BY <1>1, <1>3 DEF StartTriage, StartUntriaged, Admitted, Ask, NoRequest, Opened,
       NoCandidate, NextCandidate
  <2>2. TotalTokens(account) <= PerRun - 1
    BY <1>1, <2>1, NotStopped
  <2>3. Rounds' \in Nat /\ cand'.phase # "done"
    BY <1>1, <2>1 DEF Rounds, Paid
  <2>4. TotalTokens(account') <= PerRun - 1 + Rounds' * PeakUsage
    <3>1. TotalTokens(account) <= PerRun - 1 + 0 * PeakUsage
      BY <2>2, PeakBounds, AccountAssumption
    <3>2. QED BY <1>1, <2>1, <2>3, <3>1, WithinRounds
  <2>5. QED BY <2>1, <2>3, <2>4, NoCalls DEF CostInv, CallsCounted, AttemptsRecorded,
           SpendBounded, Waiting
<1>4. CASE Raise(q)
  <2>1. /\ UNCHANGED account /\ cand'.phase = "raised"
    BY <1>1, <1>4 DEF Raise, Opened, NoCandidate
  <2>2. Rounds = 2 * MaxAttempts /\ Rounds' = 2 * MaxAttempts /\ cand'.phase \notin Underway
    BY <1>1, <2>1 DEF Rounds, Underway
  <2>3. TotalTokens(account') = TotalTokens(account)
    BY <2>1
  <2>4. QED BY <2>1, <2>2, <2>3 DEF CostInv, CallsCounted, AttemptsRecorded, SpendBounded
<1>5. QED BY <1>2, <1>3, <1>4 DEF Present

(* Inside a request.                                                        *)
LEMMA LoopCost ==
  ASSUME AdjudicateInv, CostInv, AttemptStep, UNCHANGED cand
  PROVE  CostInv'
<1>1. /\ AttemptTypeOK /\ req.phase \notin {"idle", "done"} /\ cand.phase \in Underway
      /\ cand'.phase = cand.phase /\ cand'.attempts = cand.attempts
  BY LoopStays DEF AdjudicateInv, AttemptInv, PhaseKnows
<1>2. AttemptInv'
  BY AttemptStepInv DEF AdjudicateInv
<1>3. LoopRecords /\ LoopSpends
  BY <1>1, LoopCosts
<1>4. /\ wire.sent \in Nat /\ wire.barred \in Nat /\ wire'.sent \in Nat /\ wire'.barred \in Nat
      /\ req.number \in Nat \ {0} /\ req'.number \in Nat \ {0}
      /\ account \in Account /\ account' \in Account /\ MaxAttempts \in Nat
      /\ req.outcomes \in Seq(Outcomes) /\ req'.outcomes \in Seq(Outcomes)
      /\ cand.attempts \in Seq(Outcomes)
  <2>1. MaxAttempts \in Nat /\ \A n \in 1..MaxAttempts : n \in Nat \ {0}
    BY AttemptAssumption
  <2>2. /\ wire.sent \in Nat /\ wire.barred \in Nat /\ req.number \in 1..MaxAttempts
        /\ account \in Account /\ req.outcomes \in Seq(Outcomes)
    BY <1>1 DEF AttemptTypeOK
  <2>3. /\ wire'.sent \in Nat /\ wire'.barred \in Nat /\ req'.number \in 1..MaxAttempts
        /\ account' \in Account /\ req'.outcomes \in Seq(Outcomes)
    BY <1>2 DEF AttemptInv, AttemptTypeOK
  <2>4. cand.attempts \in Seq(Outcomes)
    BY DEF AdjudicateInv, AdjudicateTypeOK
  <2>5. QED BY <2>1, <2>2, <2>3, <2>4
<1>5. CallsCounted'
  <2>1. /\ NotCached(req.outcomes) \in Nat /\ NotCached(req'.outcomes) \in Nat
        /\ NotCached(cand.attempts) \in Nat /\ "cached" \in Outcomes
    BY <1>4, CallsAppend DEF Outcomes
  <2>2. wire.sent + wire.barred = NotCached(cand.attempts) + NotCached(req.outcomes) + Waiting
    BY <1>1 DEF CostInv, CallsCounted
  <2>3. Waiting \in Nat /\ Waiting' \in Nat
    BY DEF Waiting
  <2>4. wire'.sent + wire'.barred - NotCached(req'.outcomes) - Waiting'
          = wire.sent + wire.barred - NotCached(req.outcomes) - Waiting
    BY <1>3 DEF LoopRecords
  <2>5. wire'.sent + wire'.barred = NotCached(cand.attempts) + NotCached(req'.outcomes) + Waiting'
    <3> DEFINE sent == wire.sent
               barred == wire.barred
               sent2 == wire'.sent
               barred2 == wire'.barred
               held == NotCached(cand.attempts)
               made == NotCached(req.outcomes)
               made2 == NotCached(req'.outcomes)
               due == Waiting
               due2 == Waiting'
    <3>1. /\ sent \in Nat /\ barred \in Nat /\ sent2 \in Nat /\ barred2 \in Nat
          /\ held \in Nat /\ made \in Nat /\ made2 \in Nat /\ due \in Nat /\ due2 \in Nat
          /\ sent + barred = held + made + due
          /\ sent2 + barred2 - made2 - due2 = sent + barred - made - due
      BY <1>4, <2>1, <2>2, <2>3, <2>4
    <3>2. sent2 + barred2 = held + made2 + due2
      <4> HIDE DEF sent, barred, sent2, barred2, held, made, made2, due, due2
      <4>1. QED BY <3>1
    <3>3. QED BY <3>2
  <2>6. QED BY <1>1, <2>5 DEF CallsCounted
<1>6. AttemptsRecorded'
  BY <1>1 DEF AttemptsRecorded, Underway
<1>7. SpendBounded'
  <2> DEFINE k == IF cand.phase = "adjudicate" THEN MaxAttempts ELSE 0
  <2>1. /\ Rounds = Paid + k /\ Rounds' = Paid' + k /\ k \in Nat
        /\ Paid \in Nat /\ Paid' \in Nat
    BY <1>1, <1>4 DEF Rounds, Paid
  <2>2. TotalTokens(account) \in Nat /\ TotalTokens(account') \in Nat /\ PerRun \in Nat
    BY <1>4, TotalsOf, AccountAssumption
  <2>3. TotalTokens(account) <= PerRun - 1 + Rounds * PeakUsage
    BY DEF CostInv, SpendBounded
  <2> HIDE DEF k
  <2>4. CASE TotalTokens(account') = TotalTokens(account) /\ Paid' >= Paid
    <3> DEFINE p == Paid
               pp == Paid'
    <3>1. /\ p \in Nat /\ pp \in Nat /\ k \in Nat /\ pp >= p
          /\ Rounds = p + k /\ Rounds' = pp + k
      BY <2>1, <2>4
    <3> HIDE DEF p, pp
    <3>2. Rounds \in Nat /\ Rounds' \in Nat /\ Rounds <= Rounds'
      BY <3>1
    <3>3. QED BY <2>2, <2>3, <2>4, <3>2, WithinRounds DEF SpendBounded
  <2>5. CASE TotalTokens(account') <= TotalTokens(account) + PeakUsage /\ Paid' >= Paid + 1
    <3> DEFINE p == Paid
               pp == Paid'
               more == Rounds + 1
    <3>1. /\ p \in Nat /\ pp \in Nat /\ k \in Nat /\ pp >= p + 1
          /\ Rounds = p + k /\ Rounds' = pp + k
      BY <2>1, <2>5
    <3> HIDE DEF p, pp
    <3>2. Rounds \in Nat /\ Rounds' \in Nat /\ more \in Nat /\ more <= Rounds'
      BY <3>1
    <3>3. /\ more * PeakUsage = Rounds * PeakUsage + PeakUsage
          /\ Rounds * PeakUsage \in Nat /\ PeakUsage \in Nat
      BY <3>2, PeakBounds
    <3> HIDE DEF more
    <3>4. TotalTokens(account') <= PerRun - 1 + more * PeakUsage
      BY <2>2, <2>3, <2>5, <3>3
    <3>5. QED BY <2>2, <3>2, <3>4, WithinRounds DEF SpendBounded
  <2>6. QED BY <1>3, <2>4, <2>5 DEF LoopSpends
<1>8. QED BY <1>5, <1>6, <1>7 DEF CostInv

(* Between two requests of a candidate what is recorded of the first is     *)
(* kept, and what it may have cost is at most MaxAttempts answers.          *)
LEMMA RequestOver ==
  ASSUME AdjudicateInv, CostInv, cand.phase \in Underway, req.phase = "done"
  PROVE  /\ NotCached(Recorded) = wire.sent + wire.barred
         /\ TotalTokens(account) <= PerRun - 1 + (2 * MaxAttempts) * PeakUsage
         /\ cand.phase = "triage" =>
              TotalTokens(account) <= PerRun - 1 + MaxAttempts * PeakUsage
<1>1. /\ account \in Account /\ MaxAttempts \in Nat /\ req.number \in 1..MaxAttempts
      /\ cand.attempts \in Seq(Outcomes) /\ req.outcomes \in Seq(Outcomes)
  BY AttemptAssumption DEF AdjudicateInv, AdjudicateTypeOK, AttemptTypeOK
<1>2. /\ NotCached(cand.attempts) \in Nat /\ NotCached(req.outcomes) \in Nat
      /\ NotCached(Recorded) = NotCached(cand.attempts) + NotCached(req.outcomes)
      /\ "cached" \in Outcomes
  BY <1>1, CallsAppend, CallsConcat DEF Recorded, Outcomes
<1>3. /\ Rounds \in Nat /\ Rounds <= 2 * MaxAttempts
      /\ cand.phase = "triage" => Rounds <= MaxAttempts
  BY <1>1 DEF Rounds, Paid
<1>4. TotalTokens(account) \in Nat
  BY <1>1, TotalsOf
<1>5. TotalTokens(account) <= PerRun - 1 + Rounds * PeakUsage
  BY DEF CostInv, SpendBounded
<1>6. 2 * MaxAttempts \in Nat
  BY <1>1
<1>7. QED BY <1>1, <1>2, <1>3, <1>4, <1>5, <1>6, WithinRounds DEF CostInv, CallsCounted, Waiting

(* Settling a candidate reports what was recorded.                          *)
LEMMA ConcludeCost ==
  ASSUME AdjudicateInv, CostInv, cand.phase \in Underway, req.phase = "done",
         NEW result, Conclude(result)
  PROVE  CostInv'
<1>1. /\ cand'.phase = "done" /\ cand'.attempts = Recorded
      /\ UNCHANGED <<account, wire, req>>
  BY DEF Conclude, attemptVars, AdjudicateInv, AdjudicateTypeOK
<1>2. Rounds' = 2 * MaxAttempts /\ cand'.phase \notin Underway
  BY <1>1 DEF Rounds, Underway
<1>3. QED BY <1>1, <1>2, RequestOver DEF CostInv, CallsCounted, AttemptsRecorded,
         SpendBounded

(* The next tier is asked, an escalation only below the ceiling.            *)
LEMMA NextTierCost ==
  ASSUME AdjudicateInv, CostInv, AskChosenTier \/ Escalate
  PROVE  CostInv'
<1>1. /\ cand.phase \in Underway /\ req.phase = "done" /\ UNCHANGED <<account, wire>>
      /\ req'.phase = "lookup" /\ req'.number = 1 /\ req'.outcomes = <<>>
      /\ cand'.attempts = Recorded /\ cand'.phase \in {"adjudicate", "escalate"}
      /\ cand'.phase = "adjudicate" => cand.phase = "triage"
      /\ cand'.phase = "escalate" => ~Stopped
  BY DEF AskChosenTier, Escalate, Earned, Returned, Ask, NoRequest, Underway,
     AdjudicateInv, AdjudicateTypeOK
<1>2. /\ account \in Account /\ MaxAttempts \in Nat /\ wire.sent \in Nat /\ wire.barred \in Nat
      /\ TotalTokens(account) \in Nat
  BY AttemptAssumption, TotalsOf DEF AdjudicateInv, AdjudicateTypeOK, AttemptTypeOK
<1>3. CallsCounted' /\ AttemptsRecorded'
  BY <1>1, <1>2, RequestOver, NoCalls DEF CallsCounted, AttemptsRecorded, Waiting
<1>4. SpendBounded'
  <2>1. CASE cand'.phase = "adjudicate"
    <3>1. Rounds' = MaxAttempts
      BY <1>1, <1>2, <2>1 DEF Rounds, Paid, Underway
    <3>2. QED BY <1>1, <2>1, <3>1, RequestOver DEF SpendBounded
  <2>2. CASE cand'.phase = "escalate"
    <3>1. Rounds' = 0
      BY <1>1, <2>2 DEF Rounds, Paid, Underway
    <3>2. TotalTokens(account) <= PerRun - 1
      BY <1>1, <1>2, <2>2, NotStopped
    <3>3. QED BY <1>1, <1>2, <3>1, <3>2, PeakBounds, AccountAssumption DEF SpendBounded
  <2>3. QED BY <1>1, <2>1, <2>2
<1>5. QED BY <1>3, <1>4 DEF CostInv

(* So every step of the service keeps the count and the bound.              *)
LEMMA CostNext ==
  AdjudicateInv /\ CostInv /\ [AdjudicateNext]_adjudicateVars => CostInv'
<1> SUFFICES ASSUME AdjudicateInv, CostInv, [AdjudicateNext]_adjudicateVars PROVE CostInv'
  OBVIOUS
<1>1. ASSUME Dismiss \/ NoProposal \/ TakeProposal \/ SettleEscalation PROVE CostInv'
  <2>1. /\ cand.phase \in Underway /\ req.phase = "done"
        /\ \E result : Conclude(result)
    BY <1>1 DEF Dismiss, NoProposal, TakeProposal, SettleEscalation, Returned, Underway
  <2>2. QED BY <2>1, ConcludeCost
<1>2. CASE UNCHANGED adjudicateVars
  BY <1>2 DEF adjudicateVars, CostInv, CallsCounted, AttemptsRecorded, SpendBounded,
     Rounds, Paid, Waiting, TotalTokens, NotCached
<1>3. QED BY <1>1, <1>2, PresentCost, LoopCost, NextTierCost DEF AdjudicateNext, AdjudicateStep

-----------------------------------------------------------------------------
(* The invariant holds in every state of the service.                       *)
LEMMA AdjudicateInvariant == AdjudicateSpec => []AdjudicateInv
  BY AdjudicateInitInv, AdjudicateNextInv, PTL DEF AdjudicateSpec

(* The expensive tier is asked only because of an answer that was really    *)
(* given and was both ambiguous and severe, and a candidate that got a      *)
(* proposal keeps one when its escalation fails (route, _maybe_escalate).   *)
THEOREM EscalationAlwaysSafe == AdjudicateSpec => []EscalationIsSafe
<1>1. AdjudicateInv => EscalationIsSafe
  BY DEF AdjudicateInv
<1>2. QED BY <1>1, AdjudicateInvariant, PTL

(* No mixture of tiers and of schema and transport retries, over any number *)
(* of candidates on one account, sends more requests than a configured      *)
(* request quota allows (reserve, _call).                                   *)
THEOREM QuotaNeverExceeded == AdjudicateSpec => []RequestQuotaKept
<1> DEFINE NothingDropped == wire.dropped = 0
<1>1. AdjudicateInit => NothingDropped
  BY DEF AdjudicateInit, AttemptInit, QuietWire
<1>2. AdjudicateInv /\ NothingDropped /\ [AdjudicateNext]_adjudicateVars => NothingDropped'
  <2> SUFFICES ASSUME AdjudicateInv, NothingDropped, [AdjudicateNext]_adjudicateVars
               PROVE  NothingDropped'
    OBVIOUS
  <2>1. wire \in [window : Nat, dropped : Nat, used : Nat, lost : Nat, base : Nat,
                  sent : Nat, barred : Nat, begun : Nat]
    BY DEF AdjudicateInv, AttemptInv, AttemptTypeOK
  <2>2. ASSUME NEW q \in Questions, Present(q) PROVE NothingDropped'
    BY <2>1, <2>2 DEF Present, RefuseNoContext, RefuseStopped, Raise, RefuseOversize, Refuse,
       StartTriage, StartUntriaged, NextCandidate
  <2>3. CASE AttemptStep
    BY <2>1, <2>3 DEF AttemptStep, CacheHit, CacheMiss, TurnBack, Send, Reply, ReplyInvalid,
       ReplyUngrounded, ReplyValid, ReplyRefused, ReplyUnavailable, WriteEntry, Charge
  <2>4. CASE Dismiss \/ AskChosenTier \/ NoProposal \/ TakeProposal \/ Escalate
               \/ SettleEscalation \/ UNCHANGED adjudicateVars
    BY <2>4 DEF Dismiss, AskChosenTier, NoProposal, TakeProposal, Escalate, SettleEscalation,
       Conclude, attemptVars, adjudicateVars
  <2>5. QED BY <2>2, <2>3, <2>4 DEF AdjudicateNext, AdjudicateStep
<1>3. AdjudicateInv /\ NothingDropped => RequestQuotaKept
  <2> SUFFICES ASSUME AdjudicateInv, NothingDropped, NEW r \in RequestQuotas
               PROVE  wire.window <= r
    BY DEF RequestQuotaKept
  <2>1. wire.window - wire.dropped <= r /\ wire.window \in Nat
    BY DEF AdjudicateInv, AttemptInv, AttemptTypeOK, QuotaHeld
  <2>2. QED BY <2>1
<1>4. QED BY <1>1, <1>2, <1>3, AdjudicateInvariant, PTL DEF AdjudicateSpec

(* The token ledger always equals the usage reported, plus what lost calls  *)
(* and the call in flight reserved: charge()'s clamp at zero is never what  *)
(* decides (reserve, charge).                                               *)
THEOREM LedgerAlwaysBalances == AdjudicateSpec => []LedgerBalances
<1>1. AdjudicateInv => LedgerBalances
  BY DEF AdjudicateInv, AttemptInv
<1>2. QED BY <1>1, AdjudicateInvariant, PTL

(* No answer with an unknown citation is handed out or remembered, though   *)
(* cache hits skip the citation check (_attempt_loop, ResponseCache.put).   *)
THEOREM OnlyGroundedAnswers == AdjudicateSpec => []AnswersGrounded
<1>1. AdjudicateInv => AnswersGrounded
  BY DEF AdjudicateInv, AttemptInv
<1>2. QED BY <1>1, AdjudicateInvariant, PTL

(* After a refusal, an unknown citation or a usable answer the same         *)
(* question is never sent again (the returns of _attempt_loop).             *)
THEOREM NothingSentAfterFinal == AdjudicateSpec => FinalMeansFinal
<1>1. AdjudicateInit => NothingFinalYet
  BY DEF AdjudicateInit, AttemptInit, NoRequest, NothingFinalYet
<1>2. ASSUME AdjudicateInv, NothingFinalYet, [AdjudicateNext]_adjudicateVars
      PROVE  /\ NothingFinalYet'
             /\ (/\ req.outcomes # <<>>
                 /\ req.outcomes[Len(req.outcomes)] \in Final)
                => wire'.sent <= wire.sent
  <2>1. AttemptTypeOK /\ wire.sent \in Nat
    BY <1>2 DEF AdjudicateInv, AttemptInv, AttemptTypeOK
  <2>2. ASSUME UNCHANGED req \/ \E q, tier : Ask(q, tier) PROVE NothingFinalYet'
    BY <1>2, <2>2 DEF NothingFinalYet, Ask, NoRequest
  <2>3. ASSUME NEW q \in Questions, Present(q)
        PROVE  wire'.sent = 0 /\ (UNCHANGED req \/ \E p, tier : Ask(p, tier))
    BY <2>1, <2>3 DEF Present, RefuseNoContext, RefuseStopped, Raise, RefuseOversize, Refuse,
       StartTriage, StartUntriaged, NextCandidate, AttemptTypeOK
  <2>4. CASE AttemptStep
    BY <1>2, <2>1, <2>4, NothingFinalStep, NothingSentStep
  <2>5. CASE Dismiss \/ AskChosenTier \/ NoProposal \/ TakeProposal \/ Escalate
               \/ SettleEscalation \/ UNCHANGED adjudicateVars
    <3>1. UNCHANGED wire /\ (UNCHANGED req \/ \E q, tier : Ask(q, tier))
      BY <2>5 DEF Dismiss, AskChosenTier, NoProposal, TakeProposal, Escalate, SettleEscalation,
         Conclude, attemptVars, adjudicateVars
    <3>2. QED BY <2>1, <2>2, <3>1
  <2>6. QED BY <1>2, <2>1, <2>2, <2>3, <2>4, <2>5 DEF AdjudicateNext, AdjudicateStep
<1>3. AdjudicateInv /\ NothingFinalYet /\ [AdjudicateNext]_adjudicateVars
        => NothingFinalYet'
  BY <1>2
<1>4. AdjudicateInv /\ NothingFinalYet /\ [AdjudicateNext]_adjudicateVars
        => [ (/\ req.outcomes # <<>>
              /\ req.outcomes[Len(req.outcomes)] \in Final)
             => wire'.sent <= wire.sent ]_attemptVars
  BY <1>2
<1>5. QED
  BY <1>1, <1>3, <1>4, AdjudicateInvariant, PTL DEF AdjudicateSpec, FinalMeansFinal

(* The attempts of a candidate are every request that left for it and every *)
(* one the quota turned back, over triage, first answer and escalation, and *)
(* none besides; and the token ceiling is passed by at most two requests  *)
(* with all their retries (adjudicate, stop_reason, AdjudicationOutcome).   *)
THEOREM CostAlwaysKnown == AdjudicateSpec => []CostIsKnown
<1>1. AdjudicateInit => CostInv
  <2> SUFFICES ASSUME AdjudicateInit PROVE CostInv
    OBVIOUS
  <2>1. /\ cand.phase = "idle" /\ account = NewAccount
    BY DEF AdjudicateInit, AttemptInit, NoCandidate
  <2>2. TotalTokens(account) = 0
    BY <2>1 DEF NewAccount, TotalTokens, Tiers
  <2>3. 0 <= PerRun - 1 + (2 * MaxAttempts) * PeakUsage
    BY PeakBounds, AccountAssumption, AttemptAssumption
  <2>4. QED BY <2>1, <2>2, <2>3 DEF CostInv, CallsCounted, AttemptsRecorded, SpendBounded,
           Rounds, Underway
<1>2. AdjudicateInv /\ CostInv => CostIsKnown
  <2> SUFFICES ASSUME AdjudicateInv, CostInv PROVE CostIsKnown
    OBVIOUS
  <2>1. /\ account \in Account /\ MaxAttempts \in Nat /\ req.number \in 1..MaxAttempts
    BY AttemptAssumption DEF AdjudicateInv, AdjudicateTypeOK, AttemptTypeOK
  <2>2. Rounds \in Nat /\ Rounds <= 2 * MaxAttempts /\ 2 * MaxAttempts \in Nat
    BY <2>1 DEF Rounds, Paid
  <2>3. TotalTokens(account) \in Nat
    BY <2>1, TotalsOf
  <2>4. OvershootBounded
    BY <2>2, <2>3, WithinRounds DEF CostInv, SpendBounded, OvershootBounded
  <2>5. QED BY <2>4 DEF CostIsKnown, AdjudicateInv, CostInv
<1>3. QED BY <1>1, <1>2, CostNext, AdjudicateInvariant, PTL DEF AdjudicateSpec

(* Once a ceiling is found reached between two candidates, no candidate     *)
(* makes a request again and nothing lifts the stop (adjudicate,            *)
(* stop_reason).                                                            *)
THEOREM StopIsForGood == AdjudicateSpec => StoppedRunStaysStopped
<1>1. ASSUME AdjudicateInv, [AdjudicateNext]_adjudicateVars, cand.phase = "done", Stopped
      PROVE  Stopped' /\ UNCHANGED req
  <2>1. account \in Account /\ req.phase \in {"idle", "done"}
    BY <1>1 DEF AdjudicateInv, AttemptInv, AttemptTypeOK, PhaseKnows, Underway
  <2>2. ASSUME NEW q \in Questions, Present(q)
        PROVE  Stopped' /\ UNCHANGED req
    <3>1. UNCHANGED req /\ account' \in {account, RefusedOne(account)}
      BY <1>1, <2>2 DEF Present, RefuseNoContext, RefuseStopped, Raise, RefuseOversize, Refuse,
         StartTriage, StartUntriaged, Admitted
    <3>2. account'.stop = account.stop /\ account'.tokens = account.tokens
      BY <2>1, <3>1 DEF RefusedOne, Account
    <3>3. QED BY <1>1, <3>1, <3>2 DEF Stopped, StopReason, Cost, TotalTokens
  <2>3. ~AdjudicateStep
    <3>1. ~AttemptStep
      BY <1>1, <2>1, LoopStays DEF AdjudicateInv, AttemptInv
    <3>2. QED BY <1>1, <3>1 DEF AdjudicateStep, Dismiss, AskChosenTier, NoProposal,
         TakeProposal, Escalate, SettleEscalation, Returned
  <2>4. CASE UNCHANGED adjudicateVars
    BY <1>1, <2>4 DEF adjudicateVars, Stopped, StopReason, Cost, TotalTokens
  <2>5. QED BY <1>1, <2>2, <2>3, <2>4 DEF AdjudicateNext
<1>2. AdjudicateInv /\ [AdjudicateNext]_adjudicateVars
        => [ (cand.phase = "done" /\ Stopped) => Stopped' /\ UNCHANGED req ]_adjudicateVars
  BY <1>1
<1>3. QED
  BY <1>2, AdjudicateInvariant, PTL DEF AdjudicateSpec, StoppedRunStaysStopped

-----------------------------------------------------------------------------
(* The suite run implements SuiteReport.                                    *)

InProgress == {"visit", "ask", "save"}
Checkpoints ==
    [entries : Seq(OutcomeSet), account : Account, spent : Nat, starved : SUBSET Names]

(* The domains, without the ceiling of the retrieval ledger.                *)
SuiteTypes ==
    /\ run \in [phase : {"case", "raised"} \cup InProgress, case : 1..(Cases + 1), at : Nat]
    /\ ledger \in [spent : Nat, starved : SUBSET Names]
    /\ outcomes \in Seq(OutcomeSet)
    /\ disk \in [1..Cases -> Checkpoints \cup {None}]
    /\ published \in [1..Cases -> Seq(OutcomeSet) \cup {None}]

(* The results are those of the first candidates of the case, in order.     *)
Prefix(results, c) ==
    /\ Len(results) <= Len(Order[c])
    /\ \A i \in 1..Len(results) : results[i].name = Order[c][i]

(* The results of the candidate at hand and of later ones, if there are     *)
(* any yet, were restored from the checkpoint.                              *)
RestoredAhead ==
    /\ run.at \in 1..(Len(outcomes) + 1)
    /\ \A i \in run.at..Len(outcomes) : outcomes[i].resumed

(* What is on disk is a beginning of what is in memory, and a proper one    *)
(* when there is something to save.                                         *)
Where ==
    /\ run.phase \in InProgress => run.case \in 1..Cases /\ Prefix(outcomes, run.case)
    /\ run.phase = "visit" => RestoredAhead
    /\ run.phase = "ask" => run.at = Len(outcomes) + 1 /\ run.at <= Len(Order[run.case])
    /\ run.phase = "save" => run.at = Len(outcomes) /\ run.at >= 1
    /\ run.phase \in InProgress /\ disk[run.case] # None =>
         /\ Len(disk[run.case].entries) <= Len(outcomes)
         /\ run.phase = "save" => Len(disk[run.case].entries) < Len(outcomes)
    /\ run.phase # "ask" => cand.phase \notin Underway

Reports ==
    /\ \A c \in 1..Cases : disk[c] # None => Prefix(disk[c].entries, c)
    /\ \A c \in 1..Cases : c < run.case <=> published[c] # None
    /\ \A c \in 1..Cases : published[c] # None => NamesOf(published[c]) = Order[c]

SuiteInv == AdjudicateInv /\ SuiteTypes /\ Where /\ Reports

-----------------------------------------------------------------------------
(* Lemmas about the results of a case.                                      *)
LEMMA OrderNames ==
  ASSUME NEW c \in 1..Cases
  PROVE  /\ Order[c] \in Seq(Names) /\ Order[c] # None
         /\ \A i \in 1..Len(Order[c]) : Order[c][i] \in Names
         /\ \A i, j \in 1..Len(Order[c]) : Order[c][i] = Order[c][j] => i = j
<1>1. /\ Order[c] \in Seq(Names) /\ None \notin Seq(Names)
      /\ \A i, j \in 1..Len(Order[c]) : Order[c][i] = Order[c][j] => i = j
  BY SuiteAssumption, NoneAssumption
<1>2. QED BY <1>1

(* The names of results that begin a case are a beginning of its order.     *)
LEMMA PrefixNames ==
  ASSUME NEW c \in 1..Cases, NEW results \in Seq(OutcomeSet), Prefix(results, c)
  PROVE  NamesOf(results) = SubSeq(Order[c], 1, Len(results))
<1>1. Order[c] \in Seq(Names)
  BY OrderNames
<1>2. SubSeq(Order[c], 1, Len(results)) = [i \in 1..Len(results) |-> Order[c][i]]
  BY <1>1 DEF Prefix
<1>3. DOMAIN results = 1..Len(results)
  OBVIOUS
<1>4. QED BY <1>2, <1>3 DEF Prefix, NamesOf

(* A beginning as long as the order is all of it.                           *)
LEMMA PrefixWhole ==
  ASSUME NEW c \in 1..Cases, NEW results \in Seq(OutcomeSet), Prefix(results, c),
         Len(results) >= Len(Order[c])
  PROVE  NamesOf(results) = Order[c]
<1>1. Order[c] \in Seq(Names)
  BY OrderNames
<1>2. Len(results) = Len(Order[c])
  BY <1>1 DEF Prefix
<1>3. SubSeq(Order[c], 1, Len(Order[c])) = Order[c]
  BY <1>1
<1>4. QED BY <1>2, <1>3, PrefixNames

(* The next candidate's result extends them.                                *)
LEMMA PrefixAppend ==
  ASSUME NEW c \in 1..Cases, NEW results \in Seq(OutcomeSet), Prefix(results, c),
         NEW o \in OutcomeSet, Len(results) < Len(Order[c]),
         o.name = Order[c][Len(results) + 1]
  PROVE  /\ Append(results, o) \in Seq(OutcomeSet) /\ Prefix(Append(results, o), c)
         /\ Len(Append(results, o)) = Len(results) + 1
<1>1. /\ Append(results, o) \in Seq(OutcomeSet)
      /\ Len(Append(results, o)) = Len(results) + 1
      /\ \A i \in 1..Len(results) : Append(results, o)[i] = results[i]
      /\ Append(results, o)[Len(results) + 1] = o
  OBVIOUS
<1>2. Len(Order[c]) \in Nat
  BY OrderNames
<1> DEFINE longer == Append(results, o)
<1>3. ASSUME NEW i \in 1..Len(longer) PROVE longer[i].name = Order[c][i]
  <2>1. CASE i = Len(results) + 1
    BY <1>1, <2>1
  <2>2. CASE i \in 1..Len(results)
    BY <1>1, <2>2 DEF Prefix
  <2>3. QED BY <1>1, <1>3, <2>1, <2>2
<1>4. QED BY <1>1, <1>2, <1>3 DEF Prefix

(* Marking results as resumed or not changes neither their number nor their *)
(* names.                                                                   *)
LEMMA MarkedResults ==
  ASSUME NEW results \in Seq(OutcomeSet), NEW mark \in BOOLEAN
  PROVE  LET marked == [i \in DOMAIN results |-> [results[i] EXCEPT !.resumed = mark]]
         IN  /\ marked \in Seq(OutcomeSet) /\ Len(marked) = Len(results)
             /\ \A i \in 1..Len(results) :
                  marked[i].name = results[i].name /\ marked[i].resumed = mark
             /\ \A c : Prefix(results, c) => Prefix(marked, c)
<1> DEFINE marked == [i \in DOMAIN results |-> [results[i] EXCEPT !.resumed = mark]]
<1>1. DOMAIN results = 1..Len(results) /\ Len(results) \in Nat
  OBVIOUS
<1>2. \A i \in 1..Len(results) : results[i] \in OutcomeSet
  BY <1>1
<1>3. \A i \in 1..Len(results) :
        /\ [results[i] EXCEPT !.resumed = mark] \in OutcomeSet
        /\ [results[i] EXCEPT !.resumed = mark].name = results[i].name
        /\ [results[i] EXCEPT !.resumed = mark].resumed = mark
  BY <1>2 DEF OutcomeSet
<1>4. marked \in [1..Len(results) -> OutcomeSet]
  BY <1>1, <1>3
<1>5. marked \in Seq(OutcomeSet) /\ Len(marked) = Len(results)
  BY <1>1, <1>4
<1>6. \A i \in 1..Len(results) : marked[i].name = results[i].name /\ marked[i].resumed = mark
  BY <1>1, <1>3
<1> HIDE DEF marked
<1>7. \A c : Prefix(results, c) => Prefix(marked, c)
  BY <1>5, <1>6 DEF Prefix
<1>8. QED BY <1>5, <1>6, <1>7 DEF marked

-----------------------------------------------------------------------------
(* The service's invariant outlives what the run does around it.            *)
LEMMA ServiceAtRest ==
  ASSUME AdjudicateInv, UNCHANGED <<account, cache, req, wire, cand>>
  PROVE  AdjudicateInv'
  BY AdjudicateNextInv DEF adjudicateVars

(* The ledger of the checkpoint, with the usage that one remembers: what    *)
(* the quota window had seen until then is dropped.                         *)
LEMMA ServiceResumed ==
  ASSUME AdjudicateInv, cand.phase \notin Underway, NEW saved \in Checkpoints,
         account' = Restored(saved.account),
         wire' = [wire EXCEPT !.dropped = wire.window, !.base = saved.account.quotaTokens,
                              !.used = 0, !.lost = 0],
         UNCHANGED <<cache, req, cand>>
  PROVE  AdjudicateInv'
<1>1. /\ AttemptTypeOK /\ RequestConsistent /\ AnswersGrounded
      /\ req.phase \in {"idle", "done"}
  BY DEF AdjudicateInv, AttemptInv, PhaseKnows
<1>2. saved.account \in Account /\ saved.account.quotaTokens \in Nat
  BY DEF Checkpoints, Account
<1>3. /\ account' \in Account /\ account'.quotaRequests = 0
      /\ account'.quotaTokens = saved.account.quotaTokens
  BY <1>2 DEF Restored, Account
<1>4. /\ wire' \in [window : Nat, dropped : Nat, used : Nat, lost : Nat, base : Nat,
                    sent : Nat, barred : Nat, begun : Nat]
      /\ wire'.window = wire.window /\ wire'.dropped = wire.window
      /\ wire'.used = 0 /\ wire'.lost = 0 /\ wire.window \in Nat
      /\ wire'.base = saved.account.quotaTokens
  BY <1>1, <1>2 DEF AttemptTypeOK
<1>5. req.hold = 0
  BY <1>1 DEF AttemptTypeOK, RequestConsistent
<1>6. AttemptTypeOK'
  BY <1>1, <1>3, <1>4 DEF AttemptTypeOK
<1>7. RequestConsistent' /\ AnswersGrounded'
  BY <1>1, <1>3, <1>4 DEF RequestConsistent, AnswersGrounded
<1>8. QuotaHeld'
  BY <1>4, AccountAssumption DEF QuotaHeld
<1>9. LedgerBalances'
  BY <1>2, <1>3, <1>4, <1>5 DEF LedgerBalances
<1>10. AttemptInv'
  BY <1>6, <1>7, <1>8, <1>9 DEF AttemptInv
<1>11. AdjudicateTypeOK'
  BY <1>6 DEF AdjudicateInv, AdjudicateTypeOK
<1>12. AnswerRecorded' /\ PhaseKnows' /\ EscalationIsSafe'
  BY DEF AdjudicateInv, AnswerRecorded, PhaseKnows, EscalationIsSafe, EscalationEarned,
     FirstAnswerStands
<1>13. QED BY <1>10, <1>11, <1>12 DEF AdjudicateInv

(* A process that starts again knows nothing and finds the response cache.  *)
LEMMA ServiceRestarted ==
  ASSUME AdjudicateInv, account' = NewAccount, req' = NoRequest, cand' = NoCandidate,
         wire' = QuietWire, UNCHANGED cache
  PROVE  AdjudicateInv'
<1> USE DEF NewAccount, NoRequest, NoCandidate, QuietWire
<1>1. AttemptTypeOK'
  <2>1. account' \in Account
    BY DEF Account
  <2>2. 1 \in 1..MaxAttempts /\ 1 \in 1..MaxTransport
    BY AttemptAssumption
  <2>3. <<>> \in Seq(Outcomes)
    OBVIOUS
  <2>4. "idle" \in Phases /\ "triage" \in Tiers
    BY DEF Phases, Tiers
  <2>5. req' \in [phase : Phases, q : Questions \cup {None}, tier : Tiers,
                 number : 1..MaxAttempts, transport : 1..MaxTransport,
                 hold : Nat, outcomes : Seq(Outcomes), answer : Answers \cup {None}]
    BY <2>2, <2>3, <2>4
  <2>6. cache' \in [Questions \X Tiers -> Answers \cup {None, Torn}]
    BY DEF AdjudicateInv, AttemptInv, AttemptTypeOK
  <2>7. QED BY <2>1, <2>5, <2>6 DEF AttemptTypeOK
<1>2. RequestConsistent' /\ LedgerBalances'
  BY DEF RequestConsistent, LedgerBalances
<1>3. QuotaHeld'
  BY AccountAssumption DEF QuotaHeld
<1>4. AnswersGrounded'
  BY DEF AdjudicateInv, AttemptInv, AnswersGrounded
<1>5. AdjudicateTypeOK'
  <2>1. <<>> \in Seq(Outcomes)
    OBVIOUS
  <2>2. QED BY <1>1, <2>1 DEF AdjudicateTypeOK
<1>6. AnswerRecorded' /\ PhaseKnows' /\ EscalationIsSafe'
  BY DEF AnswerRecorded, PhaseKnows, Underway, EscalationIsSafe, EscalationEarned,
     FirstAnswerStands
<1>7. QED BY <1>1, <1>2, <1>3, <1>4, <1>5, <1>6 DEF AdjudicateInv, AttemptInv

-----------------------------------------------------------------------------
(* Where the visit is.                                                      *)
LEMMA VisitedTypes ==
  ASSUME SuiteInv, Visiting
  PROVE  /\ run.case \in 1..Cases /\ run.phase = "visit"
         /\ run.at \in 1..Len(Order[run.case]) /\ Here \in Names
         /\ run.at \in 1..(Len(outcomes) + 1)
<1>1. /\ run.phase = "visit" /\ run.case \in 1..Cases /\ run.at <= Len(Order[run.case])
      /\ run.at \in 1..(Len(outcomes) + 1) /\ run.at \in Nat
  BY DEF SuiteInv, SuiteTypes, Where, Visiting, InProgress, RestoredAhead
<1>2. Len(Order[run.case]) \in Nat /\ Len(outcomes) \in Nat
  BY <1>1, OrderNames DEF SuiteInv, SuiteTypes
<1>3. QED BY <1>1, <1>2, OrderNames DEF Here

(* A candidate that is not skipped is the next without a result ...         *)
LEMMA NotCompleted ==
  ASSUME SuiteInv, Visiting, Here \notin Completed
  PROVE  run.at = Len(outcomes) + 1
<1>1. ASSUME run.at <= Len(outcomes) PROVE FALSE
  <2>1. run.at \in DOMAIN outcomes /\ outcomes[run.at].resumed
    BY <1>1, VisitedTypes DEF SuiteInv, SuiteTypes, Where, RestoredAhead
  <2>2. outcomes[run.at].name = Here
    BY <2>1, VisitedTypes DEF SuiteInv, SuiteTypes, Where, Prefix, Here, InProgress
  <2>3. QED BY <2>1, <2>2 DEF Completed
<1>2. QED BY <1>1, VisitedTypes DEF SuiteInv, SuiteTypes

(* ... and one that is skipped has its own, because no two candidates of a  *)
(* case have the same name.                                                 *)
LEMMA IsCompleted ==
  ASSUME SuiteInv, Visiting, Here \in Completed
  PROVE  run.at <= Len(outcomes)
<1>1. PICK j \in DOMAIN outcomes : outcomes[j].name = Here
  BY DEF Completed
<1>2. /\ j \in 1..Len(outcomes) /\ Len(outcomes) <= Len(Order[run.case])
      /\ Len(outcomes) \in Nat /\ outcomes[j].name = Order[run.case][j]
  BY <1>1, VisitedTypes DEF SuiteInv, SuiteTypes, Where, Prefix, InProgress
<1>3. Len(Order[run.case]) \in Nat
  BY VisitedTypes, OrderNames
<1>4. j \in 1..Len(Order[run.case])
  BY <1>2, <1>3
<1>5. j = run.at
  BY <1>1, <1>2, <1>4, VisitedTypes, OrderNames DEF Here
<1>6. QED BY <1>2, <1>5

(* What the run asks of a candidate is one of the questions.                *)
LEMMA AskedContext ==
  ASSUME SuiteInv, Visiting
  PROVE  Context(Here, Allowance) \in Questions /\ Context(Here, Allowance).tokens \in Nat
<1>1. ledger.spent \in Nat /\ PerRun \in Nat /\ PerCandidate \in Nat
  BY AccountAssumption, AdjudicateAssumption DEF SuiteInv, SuiteTypes
<1>2. Remaining \in Nat
  BY <1>1 DEF Remaining
<1>3. Allowance \in 0..PerCandidate
  BY <1>1, <1>2 DEF Allowance
<1>4. QED BY <1>3, VisitedTypes, SuiteAssumption

(* Nothing is reported or saved by a step that leaves both alone.           *)
LEMMA ReportsKept ==
  ASSUME SuiteInv, UNCHANGED <<disk, published>>, run'.case = run.case
  PROVE  Reports'
  BY DEF SuiteInv, Reports

-----------------------------------------------------------------------------
(* The invariant holds initially, and each step keeps it.                   *)
LEMMA SuiteInit == Init => SuiteInv
<1> SUFFICES ASSUME Init PROVE SuiteInv
  OBVIOUS
<1>1. AdjudicateInv
  BY AdjudicateInitInv DEF Init
<1>2. Cases \in Nat /\ <<>> \in Seq(OutcomeSet)
  BY SuiteAssumption
<1>3. SuiteTypes
  BY <1>2 DEF Init, SuiteTypes, FreshLedger
<1>4. Where
  BY DEF Init, Where, InProgress, AdjudicateInit, NoCandidate, Underway
<1>5. Reports
  BY DEF Init, Reports
<1>6. QED BY <1>1, <1>3, <1>4, <1>5 DEF SuiteInv

(* A case is reported with a result of each of its candidates.              *)
LEMMA ReportedCase ==
  ASSUME SuiteInv, run.case \in 1..Cases, NEW results \in Seq(OutcomeSet),
         NamesOf(results) = Order[run.case],
         published' = [published EXCEPT ![run.case] = results],
         run' = [run EXCEPT !.phase = "case", !.case = run.case + 1],
         UNCHANGED <<account, cache, req, wire, cand, disk>>,
         cand.phase \notin Underway,
         ledger' = ledger, outcomes' = outcomes
  PROVE  SuiteInv'
<1>1. AdjudicateInv'
  BY ServiceAtRest DEF SuiteInv
<1>2. run.case + 1 \in 1..(Cases + 1) /\ run.case \in Nat
  BY SuiteAssumption
<1>3. SuiteTypes'
  BY <1>2 DEF SuiteInv, SuiteTypes
<1>4. run'.phase = "case" /\ run'.case = run.case + 1
  BY DEF SuiteInv, SuiteTypes
<1>5. Where'
  BY <1>4 DEF Where, InProgress
<1>6. results # None
  BY NoneAssumption
<1>7. /\ published \in [1..Cases -> Seq(OutcomeSet) \cup {None}]
      /\ \A c \in 1..Cases : published'[c] = IF c = run.case THEN results ELSE published[c]
  BY DEF SuiteInv, SuiteTypes
<1>8. \A c \in 1..Cases : c < run'.case <=> c < run.case \/ c = run.case
  BY <1>2, <1>4, SuiteAssumption
<1>9. Reports'
  <2>1. \A c \in 1..Cases : disk'[c] # None => Prefix(disk'[c].entries, c)
    BY DEF SuiteInv, Reports
  <2>2. \A c \in 1..Cases : c < run'.case <=> published'[c] # None
    BY <1>6, <1>7, <1>8 DEF SuiteInv, Reports
  <2>3. \A c \in 1..Cases : published'[c] # None => NamesOf(published'[c]) = Order[c]
    BY <1>7 DEF SuiteInv, Reports
  <2>4. QED BY <2>1, <2>2, <2>3 DEF Reports
<1>10. QED BY <1>1, <1>3, <1>5, <1>9 DEF SuiteInv

(* Without an index every candidate is promoted on the analyzer's word.     *)
LEMMA PromotedNames ==
  ASSUME SuiteInv, PromoteCase
  PROVE  \E results \in Seq(OutcomeSet) :
           /\ published' = [published EXCEPT ![run.case] = results]
           /\ NamesOf(results) = Order[run.case] /\ run.case \in 1..Cases
<1> DEFINE order == Order[run.case]
           results == [i \in DOMAIN order |->
                         Outcome(order[i], None, order[i] \in Promotable, FALSE)]
<1>1. run.case \in 1..Cases
  BY SuiteAssumption DEF PromoteCase
<1>2. /\ order \in Seq(Names) /\ DOMAIN order = 1..Len(order) /\ Len(order) \in Nat
      /\ \A i \in 1..Len(order) : order[i] \in Names
  BY <1>1, OrderNames
<1>3. published' = [published EXCEPT ![run.case] = results]
  BY DEF PromoteCase
<1> HIDE DEF order
<1>4. \A i \in 1..Len(order) :
        /\ Outcome(order[i], None, order[i] \in Promotable, FALSE) \in OutcomeSet
        /\ Outcome(order[i], None, order[i] \in Promotable, FALSE).name = order[i]
  BY <1>2 DEF Outcome, OutcomeSet
<1>5. results \in [1..Len(order) -> OutcomeSet]
  BY <1>2, <1>4
<1> HIDE DEF results
<1>6. results \in Seq(OutcomeSet)
  BY <1>2, <1>5
<1>7. NamesOf(results) = order
  <2>1. DOMAIN results = 1..Len(order) /\ \A i \in 1..Len(order) : results[i].name = order[i]
    BY <1>2, <1>4 DEF results
  <2>2. order = [i \in 1..Len(order) |-> order[i]]
    BY <1>2
  <2>3. QED BY <2>1, <2>2 DEF NamesOf
<1>8. QED BY <1>1, <1>3, <1>6, <1>7 DEF order

(* Reporting an unindexed case keeps the invariant.                         *)
LEMMA PromoteCaseInv ==
  ASSUME SuiteInv, PromoteCase
  PROVE  SuiteInv'
<1>1. PICK results \in Seq(OutcomeSet) :
        /\ published' = [published EXCEPT ![run.case] = results]
        /\ NamesOf(results) = Order[run.case] /\ run.case \in 1..Cases
  BY PromotedNames
<1>2. /\ run.phase = "case" /\ run' = [run EXCEPT !.case = run.case + 1]
      /\ UNCHANGED <<account, cache, req, wire, cand, ledger, outcomes, disk>>
  BY DEF PromoteCase
<1>3. /\ run' = [run EXCEPT !.phase = "case", !.case = run.case + 1]
      /\ cand.phase \notin Underway
  BY <1>2 DEF SuiteInv, SuiteTypes, Where
<1>4. QED BY <1>1, <1>2, <1>3, ReportedCase

(* A case that is closed has a result of every candidate.                   *)
LEMMA ClosedNames ==
  ASSUME SuiteInv, CloseCase
  PROVE  /\ run.case \in 1..Cases /\ outcomes \in Seq(OutcomeSet)
         /\ NamesOf(outcomes) = Order[run.case]
<1>1. /\ run.phase = "visit" /\ run.case \in 1..Cases /\ Prefix(outcomes, run.case)
      /\ outcomes \in Seq(OutcomeSet) /\ run.at \in 1..(Len(outcomes) + 1)
      /\ run.at > Len(Order[run.case])
  BY DEF CloseCase, SuiteInv, SuiteTypes, Where, RestoredAhead, InProgress
<1>2. Len(outcomes) \in Nat /\ Len(Order[run.case]) \in Nat
  BY <1>1, OrderNames
<1>3. QED BY <1>1, <1>2, PrefixWhole

(* Reporting an adjudicated case keeps the invariant.                       *)
LEMMA CloseCaseInv ==
  ASSUME SuiteInv, CloseCase
  PROVE  SuiteInv'
<1>1. /\ published' = [published EXCEPT ![run.case] = outcomes]
      /\ run' = [run EXCEPT !.phase = "case", !.case = run.case + 1]
      /\ UNCHANGED <<account, cache, req, wire, cand, ledger, outcomes, disk>>
      /\ run.phase = "visit"
  BY DEF CloseCase
<1>2. cand.phase \notin Underway
  BY <1>1 DEF SuiteInv, Where
<1>3. QED BY <1>1, <1>2, ClosedNames, ReportedCase

(* A case that starts has results of none of its candidates.                *)
LEMMA StartCaseInv ==
  ASSUME SuiteInv, StartCase
  PROVE  SuiteInv'
<1>1. /\ run.phase = "case" /\ run.case \in 1..Cases /\ disk[run.case] = None
      /\ ledger' = FreshLedger /\ outcomes' = <<>>
      /\ run' = [run EXCEPT !.phase = "visit", !.at = 1]
      /\ UNCHANGED <<account, cache, req, wire, cand, disk, published>>
  BY DEF StartCase
<1>2. AdjudicateInv'
  BY <1>1, ServiceAtRest DEF SuiteInv
<1>3. <<>> \in Seq(OutcomeSet) /\ Len(<<>>) = 0 /\ Len(Order[run.case]) \in Nat
  BY <1>1, OrderNames
<1>4. SuiteTypes'
  BY <1>1, <1>3 DEF SuiteInv, SuiteTypes, FreshLedger, InProgress
<1>5. run'.phase = "visit" /\ run'.at = 1 /\ run'.case = run.case
  BY <1>1 DEF SuiteInv, SuiteTypes
<1>6. Where'
  BY <1>1, <1>3, <1>5 DEF SuiteInv, Where, InProgress, Prefix, RestoredAhead
<1>7. QED BY <1>1, <1>2, <1>4, <1>5, <1>6, ReportsKept DEF SuiteInv

(* A resumed case begins with what its checkpoint holds.                    *)
LEMMA ResumeCaseInv ==
  ASSUME SuiteInv, ResumeCase
  PROVE  SuiteInv'
<1> DEFINE saved == disk[run.case]
<1>1. /\ run.phase = "case" /\ run.case \in 1..Cases /\ saved # None
      /\ account' = Restored(saved.account)
      /\ ledger' = [spent |-> saved.spent, starved |-> saved.starved]
      /\ outcomes' = Resume(saved.entries)
      /\ wire' = [wire EXCEPT !.dropped = wire.window, !.base = saved.account.quotaTokens,
                              !.used = 0, !.lost = 0]
      /\ run' = [run EXCEPT !.phase = "visit", !.at = 1]
      /\ UNCHANGED <<cache, req, cand, disk, published>>
  BY DEF ResumeCase, RestoredLedger
<1>2. saved \in Checkpoints /\ Prefix(saved.entries, run.case)
  BY <1>1 DEF SuiteInv, SuiteTypes, Reports
<1>3. cand.phase \notin Underway
  BY <1>1 DEF SuiteInv, Where
<1>4. AdjudicateInv'
  BY <1>1, <1>2, <1>3, ServiceResumed DEF SuiteInv
<1>5. saved.entries \in Seq(OutcomeSet) /\ saved.spent \in Nat /\ saved.starved \in SUBSET Names
  BY <1>2 DEF Checkpoints
<1>6. /\ outcomes' \in Seq(OutcomeSet) /\ Len(outcomes') = Len(saved.entries)
      /\ \A i \in 1..Len(outcomes') : outcomes'[i].resumed
      /\ Prefix(outcomes', run.case)
  BY <1>1, <1>2, <1>5, MarkedResults DEF Resume
<1>7. SuiteTypes'
  BY <1>1, <1>5, <1>6 DEF SuiteInv, SuiteTypes, InProgress
<1>8. run'.phase = "visit" /\ run'.at = 1 /\ run'.case = run.case
  BY <1>1 DEF SuiteInv, SuiteTypes
<1>9. Len(outcomes') \in Nat
  BY <1>6
<1>10. Where'
  BY <1>1, <1>3, <1>6, <1>8, <1>9 DEF Where, InProgress, RestoredAhead
<1>11. QED BY <1>1, <1>4, <1>7, <1>8, <1>10, ReportsKept DEF SuiteInv

(* A skipped candidate is the one whose result comes next.                  *)
LEMMA SkipCompletedInv ==
  ASSUME SuiteInv, SkipCompleted
  PROVE  SuiteInv'
<1>1. /\ Visiting /\ Here \in Completed /\ run' = [run EXCEPT !.at = run.at + 1]
      /\ UNCHANGED <<account, cache, req, wire, cand, ledger, outcomes, disk, published>>
  BY DEF SkipCompleted
<1>2. AdjudicateInv'
  BY <1>1, ServiceAtRest DEF SuiteInv
<1>3. run.at \in 1..Len(outcomes) /\ Len(outcomes) \in Nat
  BY <1>1, IsCompleted, VisitedTypes DEF SuiteInv, SuiteTypes
<1>4. SuiteTypes'
  BY <1>1, <1>3 DEF SuiteInv, SuiteTypes
<1>5. run'.phase = "visit" /\ run'.at = run.at + 1 /\ run'.case = run.case /\ run.phase = "visit"
  BY <1>1 DEF SuiteInv, SuiteTypes, Visiting
<1>6. RestoredAhead'
  BY <1>1, <1>3, <1>5 DEF SuiteInv, Where, RestoredAhead
<1>7. Where'
  BY <1>1, <1>5, <1>6 DEF SuiteInv, Where, InProgress
<1>8. QED BY <1>1, <1>2, <1>4, <1>5, <1>7, ReportsKept DEF SuiteInv

(* A candidate whose source changed under the process ends it.              *)
LEMMA ExpandRaisesInv ==
  ASSUME SuiteInv, ExpandRaises
  PROVE  SuiteInv'
<1>1. /\ run' = [run EXCEPT !.phase = "raised"]
      /\ UNCHANGED <<account, cache, req, wire, cand, ledger, outcomes, disk, published>>
      /\ run.phase = "visit"
  BY DEF ExpandRaises, Visiting
<1>2. AdjudicateInv'
  BY <1>1, ServiceAtRest DEF SuiteInv
<1>3. run'.phase = "raised" /\ run'.at = run.at /\ run'.case = run.case
  BY <1>1 DEF SuiteInv, SuiteTypes
<1>4. SuiteTypes'
  BY <1>1, <1>3 DEF SuiteInv, SuiteTypes, InProgress
<1>5. Where'
  BY <1>1, <1>3 DEF SuiteInv, Where, InProgress, RestoredAhead
<1>6. QED BY <1>1, <1>2, <1>3, <1>4, <1>5, ReportsKept DEF SuiteInv

(* A candidate no budget was left for gets its result.                      *)
LEMMA StarveInv ==
  ASSUME SuiteInv, Starve
  PROVE  SuiteInv'
<1> DEFINE o == RefusedOutcome(Here, "run_budget_exhausted")
<1>1. /\ Visiting /\ Here \notin Completed /\ run' = [run EXCEPT !.at = run.at + 1]
      /\ ledger' = [ledger EXCEPT !.starved = ledger.starved \cup {Here}]
      /\ outcomes' = Append(outcomes, o)
      /\ UNCHANGED <<account, cache, req, wire, cand, disk, published>>
  BY DEF Starve
<1>2. AdjudicateInv'
  BY <1>1, ServiceAtRest DEF SuiteInv
<1>3. /\ run.case \in 1..Cases /\ run.phase = "visit" /\ Here \in Names
      /\ run.at = Len(outcomes) + 1 /\ run.at \in 1..Len(Order[run.case])
  BY <1>1, VisitedTypes, NotCompleted
<1>4. /\ outcomes \in Seq(OutcomeSet) /\ Len(outcomes) \in Nat /\ Prefix(outcomes, run.case)
      /\ Len(Order[run.case]) \in Nat
  BY <1>3, OrderNames DEF SuiteInv, SuiteTypes, Where, InProgress
<1>5. o \in OutcomeSet /\ o.name = Here
  BY <1>3 DEF RefusedOutcome, Outcome, OutcomeSet, Reasons
<1> HIDE DEF o
<1>6. /\ outcomes' \in Seq(OutcomeSet) /\ Prefix(outcomes', run.case)
      /\ Len(outcomes') = Len(outcomes) + 1
  <2>1. o.name = Order[run.case][Len(outcomes) + 1] /\ Len(outcomes) < Len(Order[run.case])
    BY <1>3, <1>4, <1>5 DEF Here
  <2>2. QED BY <1>1, <1>3, <1>4, <1>5, <2>1, PrefixAppend
<1>7. SuiteTypes'
  <2>1. run' \in [phase : {"case", "raised"} \cup InProgress, case : 1..(Cases + 1), at : Nat]
    BY <1>1 DEF SuiteInv, SuiteTypes
  <2>2. ledger' \in [spent : Nat, starved : SUBSET Names]
    <3>1. /\ ledger \in [spent : Nat, starved : SUBSET Names]
          /\ ledger.starved \cup {Here} \in SUBSET Names
      BY <1>3 DEF SuiteInv, SuiteTypes
    <3>2. QED BY <1>1, <3>1
  <2>3. QED BY <1>1, <1>6, <2>1, <2>2 DEF SuiteInv, SuiteTypes
<1>8. run'.phase = "visit" /\ run'.at = run.at + 1 /\ run'.case = run.case
  BY <1>1, <1>3 DEF SuiteInv, SuiteTypes
<1>9. disk[run.case] # None => Len(disk[run.case].entries) \in Nat
                                 /\ Len(disk[run.case].entries) <= Len(outcomes)
  BY <1>3 DEF SuiteInv, SuiteTypes, Where, InProgress, Checkpoints
<1>10. Where'
  BY <1>1, <1>3, <1>4, <1>6, <1>8, <1>9 DEF SuiteInv, Where, InProgress, RestoredAhead
<1>11. QED BY <1>1, <1>2, <1>7, <1>8, <1>10, ReportsKept DEF SuiteInv

(* The question asked is one of the candidate at hand.                      *)
LEMMA ExpandInv ==
  ASSUME SuiteInv, Expand
  PROVE  SuiteInv'
<1> DEFINE q == Context(Here, Allowance)
<1>1. /\ Visiting /\ Here \notin Completed /\ run' = [run EXCEPT !.phase = "ask"]
      /\ ledger' = [ledger EXCEPT !.spent = ledger.spent + q.tokens]
      /\ Present(q) /\ UNCHANGED <<outcomes, disk, published>>
  BY DEF Expand
<1>2. /\ run.case \in 1..Cases /\ run.phase = "visit"
      /\ run.at = Len(outcomes) + 1 /\ run.at \in 1..Len(Order[run.case])
      /\ q \in Questions /\ q.tokens \in Nat
  BY <1>1, VisitedTypes, NotCompleted, AskedContext
<1>3. Len(Order[run.case]) \in Nat
  BY <1>2, OrderNames
<1> HIDE DEF q
<1>4. cand.phase \notin Underway
  BY <1>2 DEF SuiteInv, Where
<1>5. AdjudicateInv'
  BY <1>1, <1>2, <1>4, PresentInv DEF SuiteInv
<1>6. SuiteTypes'
  <2>1. run' \in [phase : {"case", "raised"} \cup InProgress, case : 1..(Cases + 1), at : Nat]
    BY <1>1 DEF SuiteInv, SuiteTypes, InProgress
  <2>2. ledger' \in [spent : Nat, starved : SUBSET Names]
    <3>1. ledger \in [spent : Nat, starved : SUBSET Names] /\ ledger.spent + q.tokens \in Nat
      BY <1>2 DEF SuiteInv, SuiteTypes
    <3>2. QED BY <1>1, <3>1
  <2>3. QED BY <1>1, <2>1, <2>2 DEF SuiteInv, SuiteTypes
<1>7. run'.phase = "ask" /\ run'.at = run.at /\ run'.case = run.case
  BY <1>1 DEF SuiteInv, SuiteTypes
<1>8. Where'
  BY <1>1, <1>2, <1>3, <1>7 DEF SuiteInv, Where, InProgress
<1>9. QED BY <1>1, <1>5, <1>6, <1>7, <1>8, ReportsKept DEF SuiteInv

(* Asking a model leaves every result as it was.                            *)
LEMMA AdjudicateHereInv ==
  ASSUME SuiteInv, AdjudicateHere
  PROVE  SuiteInv'
<1>1. /\ run.phase = "ask" /\ AdjudicateStep
      /\ UNCHANGED <<run, ledger, outcomes, disk, published>>
  BY DEF AdjudicateHere
<1>2. AdjudicateInv'
  BY <1>1, AdjudicateNextInv DEF SuiteInv, AdjudicateNext
<1>3. SuiteTypes' /\ Where'
  BY <1>1 DEF SuiteInv, SuiteTypes, Where, RestoredAhead
<1>4. QED BY <1>1, <1>2, <1>3, ReportsKept DEF SuiteInv

(* The candidate at hand gets its one result.                               *)
LEMMA SettledCandidate ==
  ASSUME SuiteInv, Concluded, NEW o \in OutcomeSet, o.name = Here,
         outcomes' = Append(outcomes, o), NEW saving \in BOOLEAN,
         run' = IF saving THEN [run EXCEPT !.phase = "save"]
                ELSE [run EXCEPT !.phase = "visit", !.at = run.at + 1],
         UNCHANGED <<account, cache, req, wire, cand, ledger, disk, published>>
  PROVE  SuiteInv'
<1>1. /\ run.phase = "ask" /\ cand.phase = "done" /\ run.case \in 1..Cases
      /\ run.at = Len(outcomes) + 1 /\ run.at <= Len(Order[run.case])
      /\ outcomes \in Seq(OutcomeSet) /\ Prefix(outcomes, run.case)
  BY DEF Concluded, SuiteInv, SuiteTypes, Where, InProgress
<1>2. Len(outcomes) \in Nat /\ Len(Order[run.case]) \in Nat
  BY <1>1, OrderNames
<1>3. AdjudicateInv'
  BY ServiceAtRest DEF SuiteInv
<1>4. /\ outcomes' \in Seq(OutcomeSet) /\ Prefix(outcomes', run.case)
      /\ Len(outcomes') = Len(outcomes) + 1
  BY <1>1, <1>2, PrefixAppend DEF Here
<1>5. /\ run'.case = run.case
      /\ \/ run'.phase = "save" /\ run'.at = run.at
         \/ run'.phase = "visit" /\ run'.at = run.at + 1
  BY DEF SuiteInv, SuiteTypes
<1>6. SuiteTypes'
  <2>1. run.at + 1 \in Nat
    BY <1>1, <1>2
  <2>2. run' \in [phase : {"case", "raised"} \cup InProgress, case : 1..(Cases + 1), at : Nat]
    BY <2>1 DEF SuiteInv, SuiteTypes, InProgress
  <2>3. QED BY <1>4, <2>2 DEF SuiteInv, SuiteTypes
<1>7. disk[run.case] # None => Len(disk[run.case].entries) \in Nat
                                 /\ Len(disk[run.case].entries) <= Len(outcomes)
  BY <1>1 DEF SuiteInv, SuiteTypes, Where, InProgress, Checkpoints
<1>8. cand.phase \notin Underway
  BY <1>1 DEF Underway
<1>9. Where'
  BY <1>1, <1>2, <1>4, <1>5, <1>7, <1>8 DEF Where, InProgress, RestoredAhead
<1>10. QED BY <1>3, <1>5, <1>6, <1>9, ReportsKept DEF SuiteInv

(* A settled candidate's result extends those before it.                    *)
LEMMA SettleInv ==
  ASSUME SuiteInv, SettleRefused \/ SettleProposal
  PROVE  SuiteInv'
<1>1. Concluded
  BY DEF SettleRefused, SettleProposal
<1>2. Here \in Names /\ cand.result \in Results
  <2>1. /\ run.case \in 1..Cases /\ run.at = Len(outcomes) + 1
        /\ run.at <= Len(Order[run.case]) /\ Len(outcomes) \in Nat
    BY <1>1 DEF Concluded, SuiteInv, SuiteTypes, Where, InProgress
  <2>2. Here \in Names
    BY <2>1, OrderNames DEF Here
  <2>3. QED BY <1>1, <2>2 DEF Concluded, SuiteInv, AdjudicateInv, PhaseKnows
<1>3. CASE SettleRefused
  <2> DEFINE o == RefusedOutcome(Here, cand.result.reason)
  <2>1. o \in OutcomeSet /\ o.name = Here
    BY <1>2 DEF RefusedOutcome, Outcome, OutcomeSet, Results
  <2>2. /\ outcomes' = Append(outcomes, o)
        /\ run' = [run EXCEPT !.phase = "visit", !.at = run.at + 1]
        /\ UNCHANGED <<account, cache, req, wire, cand, ledger, disk, published>>
    BY <1>3 DEF SettleRefused
  <2> HIDE DEF o
  <2>3. run' = IF FALSE THEN [run EXCEPT !.phase = "save"]
               ELSE [run EXCEPT !.phase = "visit", !.at = run.at + 1]
    BY <2>2
  <2>4. QED BY <1>1, <2>1, <2>2, <2>3, SettledCandidate
<1>4. CASE SettleProposal
  <2>1. PICK confirmed \in Gate(Here, cand.result.proposal) :
          outcomes' = Append(outcomes, Outcome(Here, None, confirmed, TRUE))
    BY <1>4 DEF SettleProposal
  <2>2. confirmed \in BOOLEAN
    BY DEF Gate
  <2> DEFINE o == Outcome(Here, None, confirmed, TRUE)
  <2>3. o \in OutcomeSet /\ o.name = Here
    BY <1>2, <2>2 DEF Outcome, OutcomeSet
  <2>4. /\ outcomes' = Append(outcomes, o)
        /\ run' = [run EXCEPT !.phase = "save"]
        /\ UNCHANGED <<account, cache, req, wire, cand, ledger, disk, published>>
    BY <1>4, <2>1 DEF SettleProposal
  <2> HIDE DEF o
  <2>5. run' = IF TRUE THEN [run EXCEPT !.phase = "save"]
               ELSE [run EXCEPT !.phase = "visit", !.at = run.at + 1]
    BY <2>4
  <2>6. QED BY <1>1, <2>3, <2>4, <2>5, SettledCandidate
<1>5. QED BY <1>3, <1>4

(* What is saved is what is in memory.                                      *)
LEMMA SavedState ==
  ASSUME SuiteInv, Save
  PROVE  \E saved \in Checkpoints :
           /\ disk' = [disk EXCEPT ![run.case] = saved]
           /\ Len(saved.entries) = Len(outcomes) /\ Prefix(saved.entries, run.case)
           /\ saved # None
<1> DEFINE marked == [i \in DOMAIN outcomes |-> [outcomes[i] EXCEPT !.resumed = FALSE]]
           saved == [entries |-> marked,
                     account |-> [account EXCEPT !.quotaRequests = 0, !.stop = "none"],
                     spent |-> ledger.spent, starved |-> ledger.starved]
<1>1. /\ run.phase = "save" /\ disk' = [disk EXCEPT ![run.case] = saved]
  BY DEF Save
<1>2. outcomes \in Seq(OutcomeSet) /\ Prefix(outcomes, run.case)
  BY <1>1 DEF SuiteInv, SuiteTypes, Where, InProgress
<1>3. /\ marked \in Seq(OutcomeSet) /\ Len(marked) = Len(outcomes) /\ Prefix(marked, run.case)
  BY <1>2, MarkedResults
<1> HIDE DEF marked
<1>4. [account EXCEPT !.quotaRequests = 0, !.stop = "none"] \in Account
  <2>1. account \in Account
    BY DEF SuiteInv, AdjudicateInv, AttemptInv, AttemptTypeOK
  <2>2. QED BY <2>1 DEF Account
<1>5. ledger.spent \in Nat /\ ledger.starved \in SUBSET Names
  BY DEF SuiteInv, SuiteTypes
<1>6. saved \in Checkpoints /\ saved.entries = marked
  BY <1>3, <1>4, <1>5 DEF Checkpoints
<1> HIDE DEF saved
<1>7. saved # None
  BY <1>6, NoneAssumption DEF Checkpoints
<1>8. QED BY <1>1, <1>3, <1>6, <1>7

(* A save puts on disk what is in memory.                                   *)
LEMMA SaveInv ==
  ASSUME SuiteInv, Save
  PROVE  SuiteInv'
<1>1. PICK saved \in Checkpoints :
        /\ disk' = [disk EXCEPT ![run.case] = saved]
        /\ Len(saved.entries) = Len(outcomes) /\ Prefix(saved.entries, run.case)
        /\ saved # None
  BY SavedState
<1>2. /\ run.phase = "save" /\ run' = [run EXCEPT !.phase = "visit", !.at = run.at + 1]
      /\ UNCHANGED <<account, cache, req, wire, cand, ledger, outcomes, published>>
  BY DEF Save
<1>3. AdjudicateInv'
  BY <1>2, ServiceAtRest DEF SuiteInv
<1>4. /\ run.case \in 1..Cases /\ run.at = Len(outcomes) /\ Len(outcomes) \in Nat
      /\ cand.phase \notin Underway /\ Prefix(outcomes, run.case)
  BY <1>2 DEF SuiteInv, SuiteTypes, Where, InProgress
<1>5. SuiteTypes'
  <2>1. run' \in [phase : {"case", "raised"} \cup InProgress, case : 1..(Cases + 1), at : Nat]
    <3>1. /\ run \in [phase : {"case", "raised"} \cup InProgress, case : 1..(Cases + 1), at : Nat]
          /\ run.at + 1 \in Nat /\ "visit" \in InProgress
      BY DEF SuiteInv, SuiteTypes, InProgress
    <3>2. QED BY <1>2, <3>1
  <2>2. disk' \in [1..Cases -> Checkpoints \cup {None}]
    BY <1>1 DEF SuiteInv, SuiteTypes
  <2>3. QED BY <1>2, <2>1, <2>2 DEF SuiteInv, SuiteTypes
<1>6. run'.phase = "visit" /\ run'.at = run.at + 1 /\ run'.case = run.case
  BY <1>2 DEF SuiteInv, SuiteTypes
<1>7. \A c \in 1..Cases : disk'[c] = IF c = run.case THEN saved ELSE disk[c]
  BY <1>1 DEF SuiteInv, SuiteTypes
<1>8. Where'
  BY <1>1, <1>2, <1>4, <1>6, <1>7 DEF Where, InProgress, RestoredAhead
<1>9. Reports'
  BY <1>1, <1>2, <1>6, <1>7 DEF SuiteInv, Reports
<1>10. QED BY <1>3, <1>5, <1>8, <1>9 DEF SuiteInv

(* A kill forgets the memory and leaves disk and reports alone.             *)
LEMMA CrashInv ==
  ASSUME SuiteInv, Crash
  PROVE  SuiteInv'
<1>1. /\ run' = [phase |-> "case", case |-> 1, at |-> 1] /\ ledger' = FreshLedger
      /\ outcomes' = <<>> /\ published' = [c \in 1..Cases |-> None] /\ UNCHANGED disk
      /\ cand' = NoCandidate
  BY DEF Crash
<1>2. AdjudicateInv'
  BY ServiceRestarted DEF SuiteInv, Crash
<1>3. Cases \in Nat /\ <<>> \in Seq(OutcomeSet)
  BY SuiteAssumption
<1>4. SuiteTypes'
  BY <1>1, <1>3 DEF SuiteInv, SuiteTypes, FreshLedger
<1>5. Where'
  BY <1>1 DEF Where, InProgress, NoCandidate, Underway
<1>6. Reports'
  BY <1>1 DEF SuiteInv, Reports
<1>7. QED BY <1>2, <1>4, <1>5, <1>6 DEF SuiteInv

(* Every step keeps the invariant.                                          *)
LEMMA SuiteNext == SuiteInv /\ [Next]_vars => SuiteInv'
<1> SUFFICES ASSUME SuiteInv, [Next]_vars PROVE SuiteInv'
  OBVIOUS
<1>1. CASE Work
  BY <1>1, PromoteCaseInv, StartCaseInv, ResumeCaseInv, SkipCompletedInv, StarveInv, ExpandInv,
     ExpandRaisesInv, AdjudicateHereInv, SettleInv, SaveInv, CloseCaseInv DEF Work
<1>2. CASE Crash
  BY <1>2, CrashInv
<1>3. CASE UNCHANGED vars
  <2>1. UNCHANGED <<account, cache, req, wire, cand, run, ledger, outcomes, disk, published>>
    BY <1>3 DEF vars
  <2>2. AdjudicateInv'
    BY <2>1, ServiceAtRest DEF SuiteInv
  <2>3. QED BY <2>1, <2>2, ReportsKept DEF SuiteInv, SuiteTypes, Where, RestoredAhead
<1>4. QED BY <1>1, <1>2, <1>3 DEF Next

(* The invariant holds throughout.                                          *)
LEMMA SuiteInvariant == Spec => []SuiteInv
  BY SuiteInit, SuiteNext, PTL DEF Spec

-----------------------------------------------------------------------------
(* The retrieval ledger.  After every candidate it stands where it would    *)
(* have stood without any kill; so does the one on disk.                    *)
LedgerKept ==
    /\ ledger.spent \in 0..PerRun
    /\ run.phase \in {"visit", "save"} => ledger.spent = SpentOn(run.case)[Len(outcomes)]
    /\ run.phase = "ask" => ledger.spent = SpentOn(run.case)[run.at]

DiskKept ==
    \A c \in 1..Cases : disk[c] # None =>
      /\ disk[c].spent = SpentOn(c)[Len(disk[c].entries)]
      /\ \A i \in 1..Len(disk[c].entries) : ~disk[c].entries[i].resumed

ResumeInv ==
    SuiteInv /\ LedgerKept /\ DiskKept /\ SameQuestionAfterResume /\ crashes \in 0..MaxCrashes

(* A candidate costs no more than it is allowed, so that the ceiling holds. *)
LEMMA SpentAfterFits ==
  ASSUME NEW name \in Names, NEW spent \in 0..PerRun
  PROVE  /\ SpentAfter(name, spent) \in 0..PerRun
         /\ Allowed(spent) \in 0..PerCandidate
         /\ Context(name, Allowed(spent)).tokens \in 0..Allowed(spent)
<1>1. PerRun \in Nat /\ PerCandidate \in Nat
  BY AccountAssumption, AdjudicateAssumption
<1>2. Allowed(spent) \in Nat /\ Allowed(spent) <= PerCandidate /\ Allowed(spent) <= PerRun - spent
  BY <1>1 DEF Allowed
<1>3. Context(name, Allowed(spent)).tokens \in 0..Allowed(spent)
  <2>1. Primary[name] \in Seq(Nat) /\ Optional[name] \in Seq(Nat)
    BY SuiteAssumption
  <2>2. Select(Primary[name], Optional[name], Allowed(spent), MaxUnits).tokens
          \in 0..Allowed(spent)
    BY <1>2, <2>1, SelectFits
  <2>3. QED BY <2>2 DEF Context
<1>4. QED BY <1>1, <1>2, <1>3 DEF SpentAfter

(* What an uninterrupted run spends, candidate by candidate.                *)
LEMMA SpentOnIs ==
  ASSUME NEW c \in 1..Cases
  PROVE  /\ SpentOn(c)[0] = 0
         /\ \A i \in 0..Len(Order[c]) : SpentOn(c)[i] \in 0..PerRun
         /\ \A i \in 1..Len(Order[c]) :
              SpentOn(c)[i] = SpentAfter(Order[c][i], SpentOn(c)[i - 1])
<1> DEFINE n == Len(Order[c])
           V == 0..PerRun
           step == [ik \in (1..n) \X V |-> SpentAfter(Order[c][ik[1]], ik[2])]
           Is(f) == f = [i \in 0..n |-> IF i = 0 THEN 0 ELSE SpentAfter(Order[c][i], f[i - 1])]
           spent == CHOOSE f : Is(f)
<1>1. n \in Nat /\ \A i \in 1..n : Order[c][i] \in Names
  BY OrderNames
<1>2. 0 \in V /\ \A name \in Names, k \in V : SpentAfter(name, k) \in V
  BY SpentAfterFits, AccountAssumption
<1>3. /\ step \in Steps(n, V)
      /\ \A i \in 1..n, k \in V : step[<<i, k>>] = SpentAfter(Order[c][i], k)
  BY <1>1, <1>2 DEF Steps
<1>4. SpentOn(c) = spent
  BY DEF SpentOn
<1>5. /\ 0 \in 0..n
      /\ \A i \in 1..n : i \in 0..n /\ i - 1 \in 0..n /\ i # 0
  BY <1>1
<1> HIDE DEF n, V, step
<1>6. PICK g : IsRecursive(g, n, V, 0, step)
  <2>1. n \in Nat /\ 0 \in V
    BY <1>1, <1>2
  <2>2. QED BY <1>3, <2>1, ByRecursion
<1>7. Is(g)
  <2>1. ASSUME NEW i \in 1..n PROVE g[i] = SpentAfter(Order[c][i], g[i - 1])
    BY <1>3, <1>5, <1>6 DEF IsRecursive
  <2>2. QED BY <1>1, <1>6, <2>1 DEF IsRecursive
<1>8. Is(spent)
  BY <1>7
<1> HIDE DEF spent
<1>9. spent[0] = 0 /\ \A i \in 1..n : spent[i] = SpentAfter(Order[c][i], spent[i - 1])
  BY <1>5, <1>8
<1> DEFINE within == {i \in 0..n : spent[i] \in V}
<1>10. 0 \in within /\ \A i \in 1..n : i - 1 \in within => i \in within
  BY <1>1, <1>2, <1>5, <1>9
<1> HIDE DEF within
<1>11. \A i \in 0..n : i \in within
  <2>1. n \in Nat
    BY <1>1
  <2>2. QED BY <1>10, <2>1, UpTo, Zenon
<1>12. QED BY <1>4, <1>9, <1>11 DEF within, n, V

(* The candidate under way has the results before it behind it.             *)
LEMMA BehindIt ==
  ASSUME SuiteInv, run.phase \in InProgress
  PROVE  /\ run.case \in 1..Cases /\ Len(outcomes) \in 0..Len(Order[run.case])
         /\ Len(Order[run.case]) \in Nat
         /\ run.phase = "ask" => /\ run.at = Len(outcomes) + 1
                                 /\ run.at \in 1..Len(Order[run.case])
<1>1. /\ run.case \in 1..Cases /\ outcomes \in Seq(OutcomeSet) /\ Prefix(outcomes, run.case)
      /\ run.phase = "ask" => run.at = Len(outcomes) + 1 /\ run.at <= Len(Order[run.case])
  BY DEF SuiteInv, SuiteTypes, Where
<1>2. Len(Order[run.case]) \in Nat /\ Len(outcomes) \in Nat
  BY <1>1, OrderNames
<1>3. QED BY <1>1, <1>2 DEF Prefix

(* A step that leaves the ledger, the disk and the question alone leaves it *)
(* at the same candidate.                                                   *)
LEMMA LedgerStays ==
  ASSUME ResumeInv, UNCHANGED <<ledger, disk>>, crashes' \in 0..MaxCrashes,
         \/ run'.phase = "case"
         \/ /\ run.phase = "visit" /\ run'.phase = "visit"
            /\ run'.case = run.case /\ UNCHANGED outcomes
         \/ run.phase = "ask" /\ UNCHANGED <<run, outcomes>> /\ cand'.q = cand.q
  PROVE  LedgerKept' /\ DiskKept' /\ SameQuestionAfterResume' /\ crashes' \in 0..MaxCrashes
<1>1. DiskKept'
  BY DEF ResumeInv, DiskKept
<1>2. LedgerKept'
  BY DEF ResumeInv, LedgerKept
<1>3. SameQuestionAfterResume'
  BY DEF ResumeInv, SameQuestionAfterResume, Here
<1>4. QED BY <1>1, <1>2, <1>3

(* A case begins with nothing spent, or with what its checkpoint holds.     *)
LEMMA BeginLedger ==
  ASSUME ResumeInv, StartCase \/ ResumeCase
  PROVE  LedgerKept' /\ DiskKept' /\ SameQuestionAfterResume' /\ crashes' \in 0..MaxCrashes
<1>1. /\ run'.phase = "visit" /\ run'.case = run.case /\ run.case \in 1..Cases
      /\ UNCHANGED <<disk, crashes>>
  BY DEF StartCase, ResumeCase, ResumeInv, SuiteInv, SuiteTypes
<1>2. DiskKept' /\ SameQuestionAfterResume' /\ crashes' \in 0..MaxCrashes
  BY <1>1 DEF ResumeInv, DiskKept, SameQuestionAfterResume
<1>3. ledger'.spent = SpentOn(run.case)[Len(outcomes')]
       /\ Len(outcomes') \in 0..Len(Order[run.case])
  <2>1. CASE StartCase
    <3>1. ledger'.spent = 0 /\ outcomes' = <<>> /\ Len(Order[run.case]) \in Nat
      BY <1>1, <2>1, OrderNames DEF StartCase, FreshLedger
    <3>2. QED BY <1>1, <3>1, SpentOnIs
  <2>2. CASE ResumeCase
    <3> DEFINE saved == disk[run.case]
    <3>1. /\ saved # None /\ ledger' = [spent |-> saved.spent, starved |-> saved.starved]
          /\ outcomes' = Resume(saved.entries)
      BY <2>2 DEF ResumeCase, RestoredLedger
    <3>2. /\ saved.spent = SpentOn(run.case)[Len(saved.entries)]
          /\ saved.entries \in Seq(OutcomeSet) /\ Prefix(saved.entries, run.case)
      BY <1>1, <3>1 DEF ResumeInv, DiskKept, SuiteInv, SuiteTypes, Reports, Checkpoints
    <3> HIDE DEF saved
    <3>3. Len(outcomes') = Len(saved.entries) /\ Len(saved.entries) \in Nat
      BY <3>1, <3>2, MarkedResults DEF Resume
    <3>4. Len(Order[run.case]) \in Nat
      BY <1>1, OrderNames
    <3>5. QED BY <3>1, <3>2, <3>3, <3>4 DEF Prefix
  <2>3. QED BY <2>1, <2>2
<1>4. LedgerKept'
  BY <1>1, <1>3, SpentOnIs DEF LedgerKept
<1>5. QED BY <1>2, <1>4

(* A candidate there is no budget left for costs nothing.                   *)
LEMMA StarveLedger ==
  ASSUME ResumeInv, Starve
  PROVE  LedgerKept' /\ DiskKept' /\ SameQuestionAfterResume' /\ crashes' \in 0..MaxCrashes
<1> DEFINE c == run.case
           n == Len(outcomes)
<1>1. /\ Visiting /\ Here \notin Completed /\ Exhausted /\ run.phase = "visit"
      /\ ledger' = [ledger EXCEPT !.starved = ledger.starved \cup {Here}]
      /\ run'.phase = "visit" /\ run'.case = c
      /\ UNCHANGED <<disk, crashes>>
  BY DEF Starve, Visiting, ResumeInv, SuiteInv, SuiteTypes
<1>2. c \in 1..Cases /\ run.at = n + 1 /\ run.at \in 1..Len(Order[c]) /\ Here = Order[c][run.at]
  BY <1>1, VisitedTypes, NotCompleted DEF ResumeInv, Here
<1>3. Len(outcomes') = n + 1
  <2>1. outcomes \in Seq(OutcomeSet)
    BY DEF ResumeInv, SuiteInv, SuiteTypes
  <2>2. outcomes' = Append(outcomes, RefusedOutcome(Here, "run_budget_exhausted"))
    BY DEF Starve
  <2>3. QED BY <2>1, <2>2
<1>4. ledger.spent = SpentOn(c)[n] /\ ledger.spent \in 0..PerRun /\ ledger'.spent = ledger.spent
  BY <1>1 DEF ResumeInv, LedgerKept, SuiteInv, SuiteTypes
<1>5. ledger.spent = PerRun
  BY <1>1, <1>4, AccountAssumption DEF Exhausted, Remaining
<1> HIDE DEF c, n
<1>6. SpentOn(c)[run.at] = SpentAfter(Order[c][run.at], SpentOn(c)[run.at - 1])
  BY <1>2, SpentOnIs
<1>7. run.at - 1 = n
  <2>1. n \in Nat
    BY DEF n, ResumeInv, SuiteInv, SuiteTypes
  <2>2. QED BY <1>2, <2>1
<1>8. SpentOn(c)[n + 1] = PerRun
  BY <1>2, <1>4, <1>5, <1>6, <1>7 DEF SpentAfter
<1>9. LedgerKept'
  BY <1>1, <1>3, <1>4, <1>5, <1>8 DEF LedgerKept
<1>10. DiskKept' /\ SameQuestionAfterResume' /\ crashes' \in 0..MaxCrashes
  BY <1>1 DEF ResumeInv, DiskKept, SameQuestionAfterResume
<1>11. QED BY <1>9, <1>10

(* A candidate is asked about with what an uninterrupted run leaves it.     *)
LEMMA ExpandLedger ==
  ASSUME ResumeInv, Expand
  PROVE  LedgerKept' /\ DiskKept' /\ SameQuestionAfterResume' /\ crashes' \in 0..MaxCrashes
<1> DEFINE c == run.case
           n == Len(outcomes)
           q == Context(Here, Allowance)
<1>1. /\ Visiting /\ Here \notin Completed /\ ~Exhausted /\ run.phase = "visit"
      /\ ledger' = [ledger EXCEPT !.spent = ledger.spent + q.tokens] /\ Present(q)
      /\ run'.phase = "ask" /\ run'.case = c /\ run'.at = run.at
      /\ UNCHANGED <<disk, crashes>>
  BY DEF Expand, Visiting, ResumeInv, SuiteInv, SuiteTypes
<1>2. /\ c \in 1..Cases /\ run.at = n + 1 /\ run.at \in 1..Len(Order[c]) /\ Here = Order[c][run.at]
      /\ Here \in Names /\ n \in Nat
  BY <1>1, VisitedTypes, NotCompleted DEF ResumeInv, Here, SuiteInv, SuiteTypes
<1>3. ledger.spent = SpentOn(c)[n] /\ ledger.spent \in 0..PerRun
  BY <1>1 DEF ResumeInv, LedgerKept
<1>4. ledger.spent # PerRun /\ Allowance = Allowed(ledger.spent)
  BY <1>1, <1>3, AccountAssumption DEF Exhausted, Remaining, Allowance, Allowed
<1>5. ledger'.spent = SpentAfter(Here, ledger.spent)
  <2>1. ledger'.spent = ledger.spent + q.tokens
    BY <1>1 DEF ResumeInv, SuiteInv, SuiteTypes
  <2>2. QED BY <1>4, <2>1 DEF SpentAfter
<1>6. cand'.q = Context(Here, Allowed(ledger.spent))
  <2>1. cand'.q = q
    <3> HIDE DEF q
    <3>1. QED BY <1>1 DEF Present, RefuseNoContext, RefuseStopped, RefuseOversize, Raise, Refuse,
             StartTriage, StartUntriaged, Opened, NoCandidate
  <2>2. QED BY <1>4, <2>1
<1>7. Here' = Here
  BY <1>1 DEF Here
<1> HIDE DEF c, n, q
<1>8. n = run.at - 1
  BY <1>2
<1>9. SpentOn(c)[run.at] = SpentAfter(Order[c][run.at], SpentOn(c)[run.at - 1])
  BY <1>2, SpentOnIs
<1>10. ledger'.spent = SpentOn(c)[run.at]
  BY <1>2, <1>3, <1>5, <1>8, <1>9
<1>11. LedgerKept'
  <2>1. ledger'.spent \in 0..PerRun
    BY <1>2, <1>3, <1>5, SpentAfterFits
  <2>2. QED BY <1>1, <1>10, <2>1 DEF LedgerKept
<1>12. SameQuestionAfterResume'
  <2>1. Context(Here, Allowed(ledger.spent)) = Context(Here', Allowed(SpentOn(run'.case)[run'.at - 1]))
    BY <1>1, <1>3, <1>7, <1>8
  <2>2. QED BY <1>6, <2>1 DEF SameQuestionAfterResume
<1>13. DiskKept' /\ crashes' \in 0..MaxCrashes
  BY <1>1 DEF ResumeInv, DiskKept
<1>14. QED BY <1>11, <1>12, <1>13

(* A settled candidate has been paid for already.                           *)
LEMMA SettleLedger ==
  ASSUME ResumeInv, SettleRefused \/ SettleProposal
  PROVE  LedgerKept' /\ DiskKept' /\ SameQuestionAfterResume' /\ crashes' \in 0..MaxCrashes
<1>1. /\ run.phase = "ask" /\ run'.phase \in {"visit", "save"} /\ run'.case = run.case
      /\ UNCHANGED <<ledger, disk, crashes>> /\ \E o : outcomes' = Append(outcomes, o)
  BY DEF SettleRefused, SettleProposal, Concluded, ResumeInv, SuiteInv, SuiteTypes
<1>2. run.at = Len(outcomes) + 1
  BY <1>1, BehindIt DEF ResumeInv, InProgress
<1>3. Len(outcomes') = Len(outcomes) + 1
  BY <1>1 DEF ResumeInv, SuiteInv, SuiteTypes
<1>4. LedgerKept'
  BY <1>1, <1>2, <1>3 DEF ResumeInv, LedgerKept
<1>5. DiskKept' /\ SameQuestionAfterResume' /\ crashes' \in 0..MaxCrashes
  BY <1>1 DEF ResumeInv, DiskKept, SameQuestionAfterResume
<1>6. QED BY <1>4, <1>5

(* What is saved with the results is what has been spent on them.           *)
LEMMA SaveLedger ==
  ASSUME ResumeInv, Save
  PROVE  LedgerKept' /\ DiskKept' /\ SameQuestionAfterResume' /\ crashes' \in 0..MaxCrashes
<1> DEFINE marked == [i \in DOMAIN outcomes |-> [outcomes[i] EXCEPT !.resumed = FALSE]]
           saved == [entries |-> marked,
                     account |-> [account EXCEPT !.quotaRequests = 0, !.stop = "none"],
                     spent |-> ledger.spent, starved |-> ledger.starved]
<1>1. /\ run.phase = "save" /\ run'.phase = "visit" /\ run'.case = run.case
      /\ disk' = [disk EXCEPT ![run.case] = saved]
      /\ UNCHANGED <<ledger, outcomes, crashes>>
  BY DEF Save, ResumeInv, SuiteInv, SuiteTypes
<1>2. /\ run.case \in 1..Cases /\ outcomes \in Seq(OutcomeSet)
      /\ disk \in [1..Cases -> Checkpoints \cup {None}]
  BY <1>1, BehindIt DEF ResumeInv, SuiteInv, SuiteTypes, InProgress
<1>3. /\ saved.entries = marked /\ saved.spent = ledger.spent
      /\ Len(marked) = Len(outcomes) /\ \A i \in 1..Len(marked) : ~marked[i].resumed
  BY <1>2, MarkedResults
<1> HIDE DEF marked, saved
<1>4. ledger.spent = SpentOn(run.case)[Len(outcomes)]
  BY <1>1 DEF ResumeInv, LedgerKept
<1>5. DiskKept'
  BY <1>1, <1>2, <1>3, <1>4 DEF ResumeInv, DiskKept
<1>6. LedgerKept' /\ SameQuestionAfterResume' /\ crashes' \in 0..MaxCrashes
  BY <1>1 DEF ResumeInv, LedgerKept, SameQuestionAfterResume
<1>7. QED BY <1>5, <1>6

(* Every step keeps both ledgers.                                           *)
LEMMA ResumeNext == ResumeInv /\ [Next]_vars => ResumeInv'
<1> SUFFICES ASSUME ResumeInv, [Next]_vars
             PROVE  /\ LedgerKept' /\ DiskKept' /\ SameQuestionAfterResume'
                    /\ crashes' \in 0..MaxCrashes
  BY SuiteNext DEF ResumeInv
<1>1. CASE PromoteCase \/ CloseCase
  <2>1. /\ run'.phase = "case" /\ UNCHANGED <<ledger, disk, crashes>>
    BY <1>1 DEF PromoteCase, CloseCase, ResumeInv, SuiteInv, SuiteTypes
  <2>2. QED BY <2>1, LedgerStays DEF ResumeInv
<1>2. CASE SkipCompleted
  <2>1. /\ run.phase = "visit" /\ run'.phase = "visit" /\ run'.case = run.case
        /\ UNCHANGED <<ledger, disk, crashes, outcomes>>
    BY <1>2 DEF SkipCompleted, Visiting, ResumeInv, SuiteInv, SuiteTypes
  <2>2. QED BY <2>1, LedgerStays DEF ResumeInv
<1>3. CASE AdjudicateHere
  <2>1. run.phase = "ask" /\ AdjudicateStep /\ UNCHANGED <<run, ledger, disk, crashes, outcomes>>
    BY <1>3 DEF AdjudicateHere
  <2>2. cand'.q = cand.q
    BY <2>1 DEF AdjudicateStep, Dismiss, AskChosenTier, NoProposal, TakeProposal, Escalate,
       SettleEscalation, Conclude, ResumeInv, SuiteInv, AdjudicateInv, AdjudicateTypeOK
  <2>3. QED BY <2>1, <2>2, LedgerStays DEF ResumeInv
<1>4. CASE Crash
  <2>1. /\ ledger' = FreshLedger /\ run'.phase = "case" /\ UNCHANGED disk
        /\ crashes' = crashes + 1 /\ crashes < MaxCrashes
    BY <1>4 DEF Crash
  <2>2. crashes' \in 0..MaxCrashes
    BY <2>1, SuiteAssumption DEF ResumeInv
  <2>3. ledger'.spent \in 0..PerRun
    BY <2>1, AccountAssumption DEF FreshLedger
  <2>4. DiskKept'
    BY <2>1 DEF ResumeInv, DiskKept
  <2>5. QED BY <2>1, <2>2, <2>3, <2>4 DEF LedgerKept, SameQuestionAfterResume
<1>5. CASE UNCHANGED vars
  <2>1. UNCHANGED <<run, ledger, disk, crashes, outcomes, cand>>
    BY <1>5 DEF vars
  <2>2. QED BY <2>1 DEF ResumeInv, LedgerKept, DiskKept, SameQuestionAfterResume, Here
<1>6. CASE ExpandRaises
  <2>1. run'.phase = "raised" /\ UNCHANGED <<ledger, disk, crashes>>
    BY <1>6 DEF ExpandRaises, ResumeInv, SuiteInv, SuiteTypes
  <2>2. QED BY <2>1 DEF ResumeInv, LedgerKept, DiskKept, SameQuestionAfterResume
<1>7. QED
  BY <1>1, <1>2, <1>3, <1>4, <1>5, <1>6, BeginLedger, StarveLedger, ExpandLedger, SettleLedger,
     SaveLedger DEF Next, Work

-----------------------------------------------------------------------------
(* The run implements SuiteReport.                                          *)
Durable == [c \in 1..Cases |-> IF disk[c] = None THEN <<>> ELSE NamesOf(disk[c].entries)]
Reported == [c \in 1..Cases |-> IF published[c] = None THEN None ELSE NamesOf(published[c])]

(* The case under way is the one that is open.                              *)
LEMMA OpenCase ==
  ASSUME SuiteInv, run.case \in 1..Cases
  PROVE  Reported[run.case] = None /\ \A d \in 1..(run.case - 1) : Reported[d] # None
<1>1. \A c \in 1..Cases : /\ c < run.case <=> published[c] # None
                          /\ published[c] # None => NamesOf(published[c]) = Order[c]
  BY DEF SuiteInv, Reports
<1>2. \A c \in 1..Cases : Reported[c] # None <=> c < run.case
  BY <1>1, OrderNames DEF Reported
<1>3. run.case \in Nat /\ ~(run.case < run.case) /\ 1..(run.case - 1) \subseteq 1..Cases
  BY SuiteAssumption
<1>4. QED BY <1>2, <1>3

(* A step that reports a case is the abstract Publish.                      *)
LEMMA PublishStep ==
  ASSUME SuiteInv, run.case \in 1..Cases, NEW results \in Seq(OutcomeSet),
         NamesOf(results) = Order[run.case],
         published' = [published EXCEPT ![run.case] = results], UNCHANGED disk
  PROVE  Report!Next
<1>1. results # None /\ published \in [1..Cases -> Seq(OutcomeSet) \cup {None}]
  BY NoneAssumption DEF SuiteInv, SuiteTypes
<1>2. Reported' = [Reported EXCEPT ![run.case] = Order[run.case]]
  BY <1>1 DEF Reported
<1>3. UNCHANGED Durable
  BY DEF Durable
<1>4. PICK c \in 1..Cases : c = run.case
  OBVIOUS
<1>5. Report!Open(c)
  BY <1>4, OpenCase DEF Report!Open, Reported
<1>6. Report!Publish(c)
  BY <1>2, <1>3, <1>4, <1>5 DEF Report!Publish, Reported, Durable
<1>7. QED BY <1>6 DEF Report!Next

(* A step that saves is the abstract Persist.                               *)
LEMMA PersistStep ==
  ASSUME SuiteInv, Save
  PROVE  Report!Next
<1>1. PICK saved \in Checkpoints :
        /\ disk' = [disk EXCEPT ![run.case] = saved]
        /\ Len(saved.entries) = Len(outcomes) /\ Prefix(saved.entries, run.case)
        /\ saved # None
  BY SavedState
<1>2. /\ run.phase = "save" /\ run.case \in 1..Cases /\ UNCHANGED published
      /\ disk \in [1..Cases -> Checkpoints \cup {None}]
  BY DEF Save, SuiteInv, SuiteTypes, Where, InProgress
<1>3. saved.entries \in Seq(OutcomeSet)
  BY DEF Checkpoints
<1> DEFINE n == Len(saved.entries)
<1>4. NamesOf(saved.entries) = SubSeq(Order[run.case], 1, n)
  BY <1>1, <1>2, <1>3, PrefixNames
<1>5. n \in (Len(Durable[run.case]) + 1)..Len(Order[run.case])
  <2>1. n \in Nat /\ n <= Len(Order[run.case]) /\ Len(Order[run.case]) \in Nat /\ n >= 1
    <3>1. /\ n \in Nat /\ n <= Len(Order[run.case]) /\ Len(Order[run.case]) \in Nat
      BY <1>1, <1>2, <1>3, OrderNames DEF Prefix
    <3>2. run.at = Len(outcomes) /\ run.at >= 1
      BY <1>2 DEF SuiteInv, Where
    <3>3. QED BY <1>1, <3>1, <3>2
  <2>2. CASE disk[run.case] = None
    <3>1. Durable[run.case] = <<>>
      BY <1>2, <2>2 DEF Durable
    <3>2. QED BY <2>1, <3>1
  <2>3. CASE disk[run.case] # None
    <3> DEFINE old == disk[run.case].entries
    <3>1. old \in Seq(OutcomeSet) /\ Prefix(old, run.case) /\ Len(old) < Len(outcomes)
      BY <1>2, <2>3 DEF SuiteInv, Where, InProgress, Reports, Checkpoints
    <3>2. Durable[run.case] = NamesOf(old)
      BY <1>2, <2>3 DEF Durable
    <3> HIDE DEF old
    <3>3. NamesOf(old) \in [1..Len(old) -> Names] /\ Len(old) \in Nat
      <4>1. /\ DOMAIN old = 1..Len(old) /\ Len(old) \in Nat
            /\ \A i \in 1..Len(old) : old[i] \in OutcomeSet
        BY <3>1
      <4>2. QED BY <4>1 DEF NamesOf, OutcomeSet
    <3>4. Len(NamesOf(old)) = Len(old)
      BY <3>3
    <3>5. QED BY <1>1, <2>1, <3>1, <3>2, <3>3, <3>4
  <2>4. QED BY <2>2, <2>3
<1>6. Durable' = [Durable EXCEPT ![run.case] = SubSeq(Order[run.case], 1, n)]
  BY <1>1, <1>2, <1>4 DEF Durable
<1>7. UNCHANGED Reported
  BY <1>2 DEF Reported
<1>8. PICK c \in 1..Cases : c = run.case
  BY <1>2
<1>9. Report!Open(c)
  BY <1>8, OpenCase DEF Report!Open, Reported
<1> HIDE DEF n
<1>10. Report!Persist(c)
  BY <1>5, <1>6, <1>7, <1>8, <1>9 DEF Report!Persist, Reported, Durable
<1>11. QED BY <1>10 DEF Report!Next

(* Every step is a step of the abstract run or changes nothing it sees.     *)
LEMMA ReportStep == SuiteInv /\ [Next]_vars => [Report!Next]_Report!reportVars
<1> SUFFICES ASSUME SuiteInv, [Next]_vars PROVE [Report!Next]_Report!reportVars
  OBVIOUS
<1>1. ASSUME UNCHANGED <<disk, published>> PROVE UNCHANGED Report!reportVars
  BY <1>1 DEF Report!reportVars
<1>2. CASE StartCase \/ ResumeCase \/ SkipCompleted \/ Starve \/ Expand \/ ExpandRaises
             \/ AdjudicateHere \/ SettleRefused \/ SettleProposal \/ UNCHANGED vars
  BY <1>1, <1>2 DEF StartCase, ResumeCase, SkipCompleted, Starve, Expand, ExpandRaises,
     AdjudicateHere, SettleRefused, SettleProposal, vars
<1>3. CASE PromoteCase
  <2>1. UNCHANGED disk
    BY <1>3 DEF PromoteCase
  <2>2. QED BY <1>3, <2>1, PromotedNames, PublishStep
<1>4. CASE CloseCase
  <2>1. published' = [published EXCEPT ![run.case] = outcomes] /\ UNCHANGED disk
    BY <1>4 DEF CloseCase
  <2>2. QED BY <1>4, <2>1, ClosedNames, PublishStep
<1>5. CASE Save
  BY <1>5, PersistStep
<1>6. CASE Crash
  <2>1. published' = [c \in 1..Cases |-> None] /\ UNCHANGED disk
    BY <1>6 DEF Crash
  <2>2. Report!Interrupt
    BY <2>1 DEF Report!Interrupt
  <2>3. QED BY <2>2 DEF Report!Next
<1>7. QED BY <1>2, <1>3, <1>4, <1>5, <1>6 DEF Next, Work

(* Whatever is asked, answered, refused, starved, killed and resumed, the   *)
(* results become durable in the order the candidates are visited, none is  *)
(* taken back, and a case is reported with exactly one result of each of    *)
(* its candidates (adjudicate_candidates, run_suite, CheckpointStore).      *)
THEOREM RunImplementsReport == Spec => ImplementsReport
<1>1. Init => Report!Init
  BY DEF Init, Report!Init
<1>2. QED
  BY <1>1, ReportStep, SuiteInvariant, PTL DEF Spec, ImplementsReport, Report!Spec

(* A candidate with a checkpointed result is never put to a model again     *)
(* (adjudicate_candidates, SuiteRun SavedNotAskedAgain).                    *)
THEOREM SavedNeverAsked == Spec => []SavedNotAskedAgain
<1>1. ASSUME SuiteInv, run.phase = "ask", disk[run.case] # None,
             NEW i \in DOMAIN disk[run.case].entries
      PROVE  disk[run.case].entries[i].name # Here
  <2> DEFINE saved == disk[run.case].entries
  <2>1. /\ run.case \in 1..Cases /\ run.at = Len(outcomes) + 1 /\ Len(outcomes) \in Nat
        /\ run.at <= Len(Order[run.case]) /\ saved \in Seq(OutcomeSet)
        /\ Len(saved) <= Len(outcomes) /\ Prefix(saved, run.case)
    BY <1>1 DEF SuiteInv, SuiteTypes, Where, InProgress, Reports, Checkpoints
  <2> HIDE DEF saved
  <2>2. i \in 1..Len(saved) /\ Len(saved) \in Nat
    BY <1>1, <2>1 DEF saved
  <2>3. Len(Order[run.case]) \in Nat /\ saved[i].name = Order[run.case][i]
    BY <2>1, <2>2, OrderNames DEF Prefix
  <2>4. i # run.at /\ i \in 1..Len(Order[run.case]) /\ run.at \in 1..Len(Order[run.case])
    BY <2>1, <2>2, <2>3
  <2>5. QED BY <2>1, <2>3, <2>4, OrderNames DEF Here, saved
<1>2. SuiteInv => SavedNotAskedAgain
  BY <1>1 DEF SavedNotAskedAgain
<1>3. QED BY <1>2, SuiteInvariant, PTL

(* A run that was killed, however often and wherever, asks of every         *)
(* candidate what a run that never was would have asked, and nothing of one *)
(* it had saved (load, restore, RunLedger, SuiteRun ResumeContinues).       *)
THEOREM ResumeAlwaysContinues == Spec => []ResumeContinues
<1>1. Init => ResumeInv
  <2> SUFFICES ASSUME Init PROVE ResumeInv
    OBVIOUS
  <2>1. /\ ledger = FreshLedger /\ run.phase = "case" /\ crashes = 0
        /\ disk = [c \in 1..Cases |-> None]
    BY DEF Init
  <2>2. LedgerKept /\ crashes \in 0..MaxCrashes
    BY <2>1, AccountAssumption, SuiteAssumption DEF LedgerKept, FreshLedger
  <2>3. DiskKept /\ SameQuestionAfterResume
    BY <2>1 DEF DiskKept, SameQuestionAfterResume
  <2>4. QED BY <2>2, <2>3, SuiteInit DEF ResumeInv
<1>2. ResumeInv => TypeOK /\ SameQuestionAfterResume
  <2> SUFFICES ASSUME ResumeInv PROVE TypeOK /\ SameQuestionAfterResume
    OBVIOUS
  <2>1. AdjudicateTypeOK
    BY DEF ResumeInv, SuiteInv, AdjudicateInv
  <2>2. /\ ledger \in [spent : 0..PerRun, starved : SUBSET Names]
        /\ outcomes \in Seq(OutcomeSet) /\ crashes \in 0..MaxCrashes
        /\ published \in [1..Cases -> Seq(OutcomeSet) \cup {None}]
        /\ run \in [phase : {"case", "visit", "ask", "save", "raised"},
                   case : 1..(Cases + 1), at : Nat]
    BY DEF ResumeInv, LedgerKept, SuiteInv, SuiteTypes, InProgress
  <2>3. ASSUME NEW c \in 1..Cases, disk[c] # None PROVE disk[c] \in Checkpoint
    <3> DEFINE entries == disk[c].entries
               Entry == [name : Names, reason : Reasons \cup {None}, confirmed : BOOLEAN,
                         answered : BOOLEAN, resumed : {FALSE}]
    <3>1. /\ disk[c] \in Checkpoints /\ disk[c].spent = SpentOn(c)[Len(entries)]
          /\ entries \in Seq(OutcomeSet) /\ Prefix(entries, c)
          /\ \A i \in 1..Len(entries) : ~entries[i].resumed
      BY <2>3 DEF ResumeInv, DiskKept, SuiteInv, SuiteTypes, Reports, Checkpoints
    <3> HIDE DEF entries
    <3>2. Len(entries) \in Nat /\ Len(entries) \in 0..Len(Order[c])
      BY <3>1, OrderNames DEF Prefix
    <3>3. disk[c].spent \in 0..PerRun
      BY <3>1, <3>2, SpentOnIs
    <3>4. ASSUME NEW i \in 1..Len(entries) PROVE entries[i] \in Entry
      <4>1. entries[i] \in OutcomeSet /\ ~entries[i].resumed
        BY <3>1, <3>4
      <4>2. QED BY <4>1 DEF OutcomeSet
    <3>5. entries \in Seq(Entry)
      <4> HIDE DEF Entry
      <4>1. DOMAIN entries = 1..Len(entries)
        BY <3>1
      <4>2. entries = [i \in 1..Len(entries) |-> entries[i]]
        BY <3>1
      <4>3. entries \in [1..Len(entries) -> Entry]
        BY <3>4, <4>2
      <4>4. QED BY <3>2, <4>3
    <3>6. QED BY <3>1, <3>3, <3>5 DEF Checkpoint, Checkpoints, entries
  <2>4. disk \in [1..Cases -> Checkpoint \cup {None}]
    <3>1. disk \in [1..Cases -> Checkpoints \cup {None}]
      BY DEF ResumeInv, SuiteInv, SuiteTypes
    <3>2. QED BY <2>3, <3>1
  <2>5. SameQuestionAfterResume
    BY DEF ResumeInv
  <2>6. QED BY <2>1, <2>2, <2>4, <2>5 DEF TypeOK
<1>3. QED
  BY <1>1, <1>2, ResumeNext, SavedNeverAsked, PTL DEF Spec, ResumeContinues

(* Killed and resumed wherever it is, a run keeps three of the service's     *)
(* promises: since the last restore the account of the suite is the usage   *)
(* of its replies and the reservations of the lost ones, every remembered   *)
(* answer is grounded, and an escalation never costs a proposal.  The       *)
(* request quota is not among them: a restored account has forgotten the    *)
(* requests of its window (SuiteRun ResumeCase, wire.dropped).              *)
THEOREM RunKeepsTheService ==
  Spec => [](LedgerBalances /\ AnswersGrounded /\ EscalationIsSafe)
<1>1. SuiteInv => LedgerBalances /\ AnswersGrounded /\ EscalationIsSafe
  BY DEF SuiteInv, AdjudicateInv, AttemptInv
<1>2. QED BY <1>1, SuiteInvariant, PTL
=============================================================================
