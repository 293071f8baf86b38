---------------------------- MODULE MCRetrieval ----------------------------
(* Every call graph on six possible calls and every closure on seven      *)
(* possible references, around one function.                               *)
EXTENDS Prompt, TLC

CONSTANTS h, a, b, c, d, x, t1, t2, t3, m1, m2, g1, site, around, message, main, inc, src, priv

SixCalls ==
  {<<a, h>>, <<b, a>>, <<c, b>>, <<b, h>>, <<h, b>>, <<a, Unknown>>}
SomeCalls == {<<h, a>>, <<a, b>>, <<h, d>>, <<h, x>>}
Refs == {<<h, t1>>, <<t1, t2>>, <<t2, t1>>, <<h, t3>>}
Uses == {<<t2, m1>>, <<m1, m2>>, <<m2, m1>>}

TheIndexes ==
  {[calls |-> cs \cup {<<h, d>>, <<h, x>>}, types |-> {}, globals |-> {}, macros |-> {}] :
     cs \in SUBSET SixCalls}
    \cup {[calls |-> SomeCalls, types |-> ts, globals |-> {<<h, g1>>}, macros |-> ms] :
            ts \in SUBSET Refs, ms \in SUBSET Uses}

Structural(f, e, path) ==
  [variant |-> "structural", function |-> f, enclosing |-> e, site |-> site, flow |-> path]
OfFunction == {Structural(h, None, {}), Structural(h, None, {b, h})}
OfNone ==
  {Structural(None, around, {b}), Structural(None, None, {}),
   [variant |-> "flat_window", function |-> h, enclosing |-> None, site |-> site, flow |-> {b}]}
TheSituations ==
  {[index |-> i, candidate |-> k] : i \in TheIndexes, k \in OfFunction}
    \cup {[index |-> i, candidate |-> k] :
            i \in {j \in TheIndexes : j.calls = SomeCalls /\ j.macros = {}}, k \in OfNone}

Everything ==
  <<h, a, b, c, d, x, t1, t2, t3, m1, m2, g1, site, around, message, main, inc, src, priv, Window>>
    \o [i \in 1..7 |-> SiteOf(<<h, a, b, c, d, x, Unknown>>[i])]
    \o [i \in 1..6 |-> LabelIn(<<h, a, b, c, d, x>>[i])]
TheTokens == [r \in DOMAIN Base |-> IF r \in {"caller", "cleanup_path"} THEN 2 ELSE 1]
ThePlace == [r \in {Everything[i] : i \in DOMAIN Everything} |->
               CHOOSE i \in DOMAIN Everything : Everything[i] = r]

(* The function's own file, two headers, one of them in the root of the    *)
(* tree, and the file of a callee.                                         *)
Texts == {Everything[i] : i \in DOMAIN Everything} \cup {message}
TheFileOf ==
  [r \in Texts \ {message} |->
     CASE r \in {t1, t2, t3} -> inc [] r \in {m1, m2} -> priv [] r = b -> src [] OTHER -> main]
Holding(what) == [t \in Texts |-> IF t \in DOMAIN what THEN what[t] ELSE "nothing"]
TheContents ==
  {Holding(h :> "named_token"), Holding(b :> "token" @@ t1 :> "key" @@ site :> "buried"),
   Holding(message :> "named_token" @@ h :> "opens" @@ b :> "closes" @@ m1 :> "named"),
   Holding(h :> "opens" @@ t1 :> "closes" @@ m1 :> "opens" @@ t2 :> "closes")}
TheExclusions == {{}, {src}, {inc, priv}, {main}}
=============================================================================
