------------------------------ MODULE Prompt ------------------------------
(***************************************************************************)
(* What of a candidate's context leaves the process: assemble()            *)
(* (llm/prompts/__init__.py) withholds units of excluded files, replaces   *)
(* credentials, masks excluded paths in the prose it writes itself, and    *)
(* looks a second time before it hands the text over (llm/redaction.py).   *)
(* A text is what it holds; a file is a name.                              *)
(***************************************************************************)
EXTENDS Retrieval

CONSTANTS
  FileOf,         \* the file of every region
  Nested,         \* files with a directory in their path: only these read as one in prose
  Exclusions,     \* what the user may have excluded
  Contents,       \* what each text may hold: see below
  Message         \* the analyzer's message, as a text

VARIABLES
  hidden,         \* the excluded files
  holds,          \* what each text holds
  prompt          \* None, or what was assembled

promptVars == <<hidden, holds, prompt>>

(* A credential by its own shape, a literal assigned to a name that says   *)
(* it is one, one that is both, one with a credential further inside, a    *)
(* private key; or the line that opens or the line that closes one, as     *)
(* code that reads keys has them.                                          *)
Held == {"nothing", "token", "named", "named_token", "buried", "key", "opens", "closes"}

FilesOf(regions) == {FileOf[r] : r \in regions}
Site == candidate.site
Text(u) == IF u.role = "analyzer_message" THEN Message ELSE u.region

Adjudicable == context.kept # {} /\ ~context.refused

Sendable == {u \in context.kept : FileOf[u.region] \notin hidden}
Withheld == context.kept \ Sendable

-----------------------------------------------------------------------------
(* Mutant: a literal that a rule has replaced is replaced, and counted,    *)
(* again.                                                                  *)
HitsOfEveryRule(held) ==
  CASE held \in {"named_token", "buried"} -> 2
    [] held \in {"token", "named", "key"} -> 1
    [] OTHER -> 0

(* What one scrub of a text replaces: the rules are tried one after the    *)
(* other, and a literal that begins with a placeholder is left alone; one  *)
(* that holds it further inside is replaced once more.                     *)
Hits(held) ==
  CASE held = "buried" -> 2
    [] held \in {"token", "named", "named_token", "key"} -> 1
    [] OTHER -> 0

(* The assembled text is scrubbed once more: a key that opens in one unit  *)
(* and closes in a later one is a key as well.                             *)
Opens(u) == holds[Text(u)] = "opens"
Closes(u) == holds[Text(u)] = "closes"
Swallowed ==
  {u \in Sendable :
     \E b, e \in Sendable :
       /\ Opens(b) /\ Closes(e) /\ ~Before(u, b) /\ ~Before(e, u)
       /\ ~\E k \in Sendable : Closes(k) /\ Before(b, k) /\ Before(k, u)}
Blocks == {u \in Swallowed : Closes(u)}

TailHits == Hits(holds[Message]) + Cardinality(Blocks)

(* The places in the units where the first scrub replaced something.        *)
Replaced == UNION {{u} \X (1..Hits(holds[Text(u)])) : u \in Sendable}

(* Mutant: only the containing function counts as the code in question.    *)
RedactedBody ==
  {u.region : u \in {v \in Sendable : v.role = "containing_function"
                                        /\ Hits(holds[Text(v)]) > 0}}

(* A redaction inside primary code is a limitation of its own. *)
RedactedPrimaries ==
  {u.region : u \in {v \in Sendable : Primary(v) /\ Hits(holds[Text(v)]) > 0}}

-----------------------------------------------------------------------------
(* What the prose names: the candidate and its message, the units that may *)
(* be cited, and everything that limits the context.                       *)
CandidateNames(mentioned) == {FileOf[Site]} \cup mentioned
EvidenceNames == FilesOf({u.region : u \in Sendable})
LimitationNames ==
  FilesOf(gaps \cup {x[1] : x \in missing} \cup {u.region : u \in context.dropped \cup Withheld})

(* Mutant: the limitations are about files that were left out, and are     *)
(* written as they are.                                                    *)
MaskedCandidateOnly(mentioned) ==
  (CandidateNames(mentioned) \ (hidden \cap Nested)) \cup EvidenceNames \cup LimitationNames

Masked(mentioned) ==
  (CandidateNames(mentioned) \cup EvidenceNames \cup LimitationNames) \ (hidden \cap Nested)

(* The second check: what is quoted, where the candidate is, what is named. *)
Offends(named) ==
  \/ (EvidenceNames \cup {FileOf[Site]}) \cap hidden # {}
  \/ named \cap hidden \cap Nested # {}

Assemble ==
  /\ phase = "done" /\ Adjudicable
  /\ hidden' \in Exclusions /\ holds' \in Contents
  /\ phase' = "assembling"
  /\ UNCHANGED inputs /\ UNCHANGED walk
  /\ UNCHANGED <<pending, units, gaps, missing, notes, context, prompt>>

(* What fails the second check never leaves: a PrivacyError is raised.      *)
HandOver ==
  /\ phase = "assembling"
  /\ \E mentioned \in {{}, hidden} :
       IF Offends(Masked(mentioned))
       THEN phase' = "stopped" /\ UNCHANGED prompt
       ELSE /\ phase' = "assembled"
            /\ prompt' = [cited |-> Sendable, quoted |-> Sendable \ Swallowed,
                          named |-> Masked(mentioned),
                          limitations |-> {u.region : u \in Withheld} \cup RedactedPrimaries,
                          redactions |-> Cardinality(Replaced) + TailHits]
  /\ UNCHANGED inputs /\ UNCHANGED walk
  /\ UNCHANGED <<pending, units, gaps, missing, notes, context, hidden, holds>>

PromptInit == Init /\ hidden = {} /\ holds = [t \in {} |-> "nothing"] /\ prompt = None
PromptNext == (Next /\ UNCHANGED promptVars) \/ Assemble \/ HandOver
PromptSpec == PromptInit /\ [][PromptNext]_<<vars, promptVars>>

-----------------------------------------------------------------------------
Prompted == phase = "assembled"

(* No line of an excluded file is quoted, and no excluded file that lies   *)
(* in a directory is named.  One in the root of the tree may be: in prose  *)
(* its name reads as no path, to the mask and to the second check alike    *)
(* (_PATH_LIKE), although exclusion is meant to be absolute.               *)
ExcludedWithheld ==
  Prompted =>
    /\ FilesOf({u.region : u \in prompt.quoted}) \cap hidden = {}
    /\ prompt.named \cap hidden \cap Nested = {}

(* The second check is met by every candidate that lies in an excluded     *)
(* file and by no other: for those the first was enough.                   *)
StopsAtExcludedSite ==
  /\ phase = "stopped" => FileOf[Site] \in hidden
  /\ Prompted => FileOf[Site] \notin hidden


(* Of what was kept for the model, primary code is quoted as it was        *)
(* captured, or the limitations say that it is not: withheld, or           *)
(* rewritten.  A key whose markers stand in two units is left out: the     *)
(* second scrub takes what lies between them, and says nothing.            *)
NotAsWrittenIsTold ==
  Prompted =>
    \A u \in {v \in context.kept : Primary(v)} :
      \/ u \in prompt.quoted /\ Hits(holds[Text(u)]) = 0
      \/ u.region \in prompt.limitations
      \/ \E b, e \in prompt.cited : Opens(b) /\ Closes(e) /\ ~Before(u, b) /\ ~Before(e, u)

(* However many rules match it and however often it is looked at, a        *)
(* credential is counted once for each place in the text it stood in, and  *)
(* a key that straddles units once: where it closes.  Only a literal with  *)
(* another credential further inside counts twice.                         *)
Credential(t) == holds[t] \in {"token", "named", "named_token", "buried", "key"}
Buried(t) == holds[t] = "buried"

ReplacedCountedOnce ==
  Prompted =>
    prompt.redactions =
      Cardinality({u \in prompt.cited : Credential(Text(u))})
        + Cardinality({u \in prompt.cited : Buried(Text(u))})
        + (IF Credential(Message) THEN 1 ELSE 0) + (IF Buried(Message) THEN 1 ELSE 0)
        + Cardinality({u \in prompt.cited \ prompt.quoted : Closes(u)})

(* The text that leaves holds nothing of an excluded file, and says what it *)
(* withheld or rewrote (llm/prompts/__init__.py assemble).                  *)
PromptIsTruthful ==
  /\ ExcludedWithheld
  /\ StopsAtExcludedSite
  /\ NotAsWrittenIsTold
  /\ ReplacedCountedOnce
=============================================================================
