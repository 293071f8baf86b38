------------------------------- MODULE MCGate -------------------------------
(* One candidate with three units and one analyzer step, and answers that  *)
(* vary in what they cite, quote, claim or name, and in their verdict.     *)
EXTENDS Gate, TLC

CONSTANTS body, caller, text, step, ghost

ThePlan == <<body, caller, text>>
TheRole ==
  body :> "containing_function" @@ caller :> "caller" @@ text :> "analyzer_message"

TheKnown == {"f", "g"}
TheCalls == {<<"g", "f">>}
Edges == {{}, {<<"g", "f">>}, {<<"f", "g">>}, {<<"g", "f">>, <<"h", "f">>}}

Sound ==
  [verdict |-> "confirmed", cited |-> {body}, quotes |-> {}, edges |-> {},
   cwe |-> "allowed", argued |-> TRUE, reach |-> "argued", exploit |-> "unknown",
   assumptions |-> TRUE]

Citing ==
  {[Sound EXCEPT !.cited = c, !.edges = e, !.assumptions = a] :
     c \in {{ghost}, {body, caller}},
     e \in Edges, a \in BOOLEAN}
Quoting == {[Sound EXCEPT !.quotes = {<<body, b>>}] : b \in {"orig", "other"}}
Claiming ==
  {[Sound EXCEPT !.cited = c, !.edges = e, !.reach = k, !.exploit = k] :
     c \in {{body}, {step}},
     e \in {{}, {<<"g", "f">>}, {<<"f", "g">>}}, k \in {"demonstrated", "unknown"}}
    \cup {[Sound EXCEPT !.cited = {c}, !.exploit = "plausible"] : c \in {body, caller, text}}
Naming ==
  {[Sound EXCEPT !.cwe = w, !.argued = g] :
     w \in {"discouraged", "prohibited", "out_of_scope"}, g \in BOOLEAN}
Declining ==
  {[Sound EXCEPT !.verdict = v, !.cited = c, !.cwe = "none"] :
     v \in {"rejected", "review_required"}, c \in {{}, {body}, {ghost}}}

TheProposals == Citing \cup Quoting \cup Claiming \cup Naming \cup Declining
TheRefusals == {"provider_unavailable", "run_budget_exhausted", "schema_invalid_response"}
=============================================================================
