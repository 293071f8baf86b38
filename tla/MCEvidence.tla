----------------------------- MODULE MCEvidence -----------------------------
(* What a judgement rests on, one part of it per behaviour: the cached index  *)
(* of the tree, the context and the prompt made from an index, or the gate    *)
(* that checks what a model made of it.  `part` says which, and the state of  *)
(* the others stays as it began.                                              *)
EXTENDS MCRetrieval, MCGate, MCIndexCache

VARIABLE part

contextVars == <<vars, promptVars>>
evidenceVars == <<part, cacheVars, contextVars, gateVars>>

NoIndex ==
  /\ tree = [f \in Files |-> CHOOSE v \in Broken : TRUE] /\ dir = [u \in UnitSet |-> da]
  /\ entries = [u \in UnitSet |-> NoEntry] /\ scanAt = "idle" /\ pos = 1 /\ toParse = {}
  /\ parses = [u \in UnitSet |-> NoEntry] /\ results = [u \in UnitSet |-> NoEntry]
  /\ settled = {} /\ edits = 0 /\ aborts = 0
NoCandidate ==
  /\ index = [calls |-> {}, types |-> {}, globals |-> {}, macros |-> {}]
  /\ candidate = Structural(None, None, {}) /\ lost = {}
  /\ phase = "containing" /\ hop = 0 /\ seen = {} /\ frontier = {} /\ pending = <<>>
  /\ units = {} /\ gaps = {} /\ missing = {} /\ notes = {} /\ context = None
  /\ hidden = {} /\ holds = [t \in {} |-> "nothing"] /\ prompt = None

EvidenceInit ==
  \/ part = "index" /\ CacheInit /\ NoCandidate /\ GateInit
  \/ part = "context" /\ PromptInit /\ NoIndex /\ GateInit
  \/ part = "gate" /\ GateInit /\ NoIndex /\ NoCandidate

EvidenceNext ==
  \/ part = "index" /\ CacheNext /\ UNCHANGED <<part, contextVars, gateVars>>
  \/ part = "context" /\ PromptNext /\ UNCHANGED <<part, cacheVars, gateVars>>
  \/ part = "gate" /\ GateNext /\ UNCHANGED <<part, cacheVars, contextVars>>

EvidenceSpec == EvidenceInit /\ [][EvidenceNext]_evidenceVars
=============================================================================
