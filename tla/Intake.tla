------------------------------- MODULE Intake -------------------------------
(***************************************************************************)
(* What a scan will look at: the compilation database is read entry by     *)
(* entry, the last entry for a file wins, every file gets one reason to be *)
(* left out or is selected, and the plan is refused when the database      *)
(* describes too little of the tree.  Files are model values; what the     *)
(* code reads from a name, a flag or the first lines of a file is a set.   *)
(***************************************************************************)
EXTENDS Integers, FiniteSetsExt, Sequences

CONSTANTS
  Paths,                  \* files a database may name or the tree may hold
  Elsewhere,              \* those outside the repository
  Headers,                \* those with a header's suffix
  NamedGenerated, Bannered, Vendored,
  Flags,                  \* what each file's command says: [language, std]
  Missing,                \* named by the database, not on disk
  TooLarge,
  FloorOf, Floor,         \* the coverage floor, as the fraction Floor / FloorOf
  None

VARIABLES
  options,                \* targets, opt-ins and the rest of the command line
  database,               \* the files its entries compile, in order
  unread,                 \* positions of the entries not yet looked at
  chosen,                 \* the entry kept for each file, 0 for none
  discarded,              \* entries that lost to another for the same file
  outside,                \* entries outside the repository
  plan                    \* the plan, or why there is none

intakeVars == <<options, database, unread, chosen, discarded, outside, plan>>

Reading(choice, files) ==
  /\ options' = choice /\ database' = files
  /\ unread' = DOMAIN files /\ chosen' = [p \in Paths |-> 0]
  /\ discarded' = {} /\ outside' = {} /\ plan' = None

(* One entry.  The position decides between two entries for a file, so     *)
(* that they may be taken in any order.                                    *)
(* Mutant: the entry that arrives later wins, whatever its position.       *)
ArrivalWins(i, previous) == TRUE

Wins(i, previous) == i >= previous

ReadEntry ==
  \E i \in unread :
    LET file == database[i]
        previous == chosen[file] IN
    /\ unread' = unread \ {i}
    /\ IF file \in Elsewhere
       THEN outside' = outside \cup {i} /\ UNCHANGED <<chosen, discarded>>
       ELSE /\ UNCHANGED outside
            /\ chosen' = IF Wins(i, previous) THEN [chosen EXCEPT ![file] = i] ELSE chosen
            /\ discarded' = discarded \cup (IF previous = 0 THEN {}
                                            ELSE IF Wins(i, previous) THEN {previous} ELSE {i})
    /\ UNCHANGED <<options, database, plan>>

-----------------------------------------------------------------------------
Described == {p \in Paths : chosen[p] # 0}

(* A target names a file or a directory above it. *)
Selects(p) == options.targets = {} \/ \E t \in options.targets : p \in t
Unmatched == {t \in options.targets : t \cap Described = {}}

(* A standard as it is written: [cxx, number, draft], two or four digits,   *)
(* or one digit and a letter, which stands for the start of its decade.     *)
Year(std) ==
  IF std.draft THEN std.number * 10
  ELSE IF std.number > 999 THEN std.number % 100 ELSE std.number

(* Mutant: two digits of the last century are compared as they stand.      *)
YearAsWritten(std) == Year(std) >= (IF std.cxx THEN 17 ELSE 11)

(* Two digits are of the last century from 80 for C and from 90 for C++.   *)
StandardIsSupported(std) ==
  IF std.cxx THEN Year(std) \in 17..89 ELSE Year(std) \in 11..79

(* A language by the flag or the suffix, in a standard the tool reads; a    *)
(* standard that is not recognized is not judged.                          *)
Supported(p) ==
  /\ Flags[p].language # None
  /\ Flags[p].std = None \/ StandardIsSupported(Flags[p].std)

(* Generated by its name, or by a banner among its first lines. *)
GeneratedName(p) == p \in NamedGenerated
GeneratedBanner(p) == p \in Bannered

(* The rules in the order of the code: the first that applies is the       *)
(* reason given.                                                           *)
Rules(p) ==
  <<<<"unsupported_language", p \in Headers>>,
    <<"not_selected", ~Selects(p)>>,
    <<"generated", ~options.generated /\ GeneratedName(p)>>,
    <<"third_party", ~options.thirdParty /\ p \in Vendored>>,
    <<"unsupported_language", ~Supported(p)>>,
    <<"missing_source", p \in Missing>>,
    <<"too_large", p \in TooLarge>>,
    <<"generated", ~options.generated /\ GeneratedBanner(p)>>>>
Applying(p) == {i \in DOMAIN Rules(p) : Rules(p)[i][2]}
ReasonFor(p) == IF Applying(p) = {} THEN None ELSE Rules(p)[Min(Applying(p))][1]

(* Implementation files the tree holds, without what is left out of the    *)
(* denominator as well.                                                    *)
InTree == (Paths \ Elsewhere) \ (Missing \cup Headers)
Present ==
  {p \in InTree : /\ options.thirdParty \/ p \notin Vendored
                  /\ options.generated \/ ~(GeneratedName(p) \/ GeneratedBanner(p))}
Covered == Present \cap Described
BelowFloor == Cardinality(Covered) * FloorOf < Floor * Cardinality(Present)

(* Mutant: a gap above the floor is not worth a line. *)
OnlyBelowFloor == IF BelowFloor THEN {<<"gap">>} ELSE {}

Gap == IF Covered = Present THEN {} ELSE {<<"gap">>}

(* Mutant: reasons are counted and not written down. *)
CountedOnly(excluded) == {}

ExclusionLimitations(excluded) == {<<ReasonFor(p)>> : p \in excluded}

IntakeLimitations(excluded) ==
  {<<"ambiguous", database[i]>> : i \in discarded} \cup {<<"outside">> : i \in outside}
    \cup ExclusionLimitations(excluded) \cup Gap

(* A database that is missing, malformed or empty ends intake at once. *)
RejectDatabase ==
  /\ unread = DOMAIN database /\ plan = None
  /\ plan' = [error |-> "database"]
  /\ UNCHANGED <<options, database, unread, chosen, discarded, outside>>

MakePlan ==
  /\ unread = {} /\ plan = None
  /\ LET excluded == {p \in Described : ReasonFor(p) # None} IN
     plan' = IF Unmatched # {} THEN [error |-> "target"]
             ELSE IF BelowFloor /\ ~options.partial THEN [error |-> "coverage"]
             ELSE [units |-> Described \ excluded, excluded |-> excluded,
                   limitations |-> IntakeLimitations(excluded)]
  /\ UNCHANGED <<options, database, unread, chosen, discarded, outside>>

Planned == plan # None /\ "units" \in DOMAIN plan

-----------------------------------------------------------------------------
(* A file compiled more than once is analysed as its last entry says.      *)
LastEntryWins ==
  unread = {} =>
    \A p \in Paths \ Elsewhere :
      chosen[p] = (LET named == {i \in DOMAIN database : database[i] = p}
                   IN IF named = {} THEN 0 ELSE Max(named))

(* The year a standard is of, written with two digits, four or as a draft. *)
SinceInFull(std) ==
  IF std.draft THEN 2000 + std.number * 10
  ELSE IF std.number > 999 THEN std.number
  ELSE IF std.number >= 80 THEN 1900 + std.number ELSE 2000 + std.number

(* The first standards are of 1989 for C and 1998 for C++; a value that is  *)
(* left open is no reason to leave a file out.                             *)
Reasons ==
  {"unsupported_language", "not_selected", "generated", "third_party", "missing_source",
   "too_large"}
StandardOK(std) ==
  /\ std.cxx \in BOOLEAN /\ std.draft \in BOOLEAN /\ std.number \in Nat
  /\ SinceInFull(std) >= (IF std.cxx THEN 1998 ELSE 1989)
ASSUME FlagsOK ==
  /\ None \notin Reasons
  /\ \A p \in Paths : Flags[p].std # None => StandardOK(Flags[p].std)

(* No file is analysed that its command compiles as C before C11 or as C++  *)
(* before C++17, whether the year is written with two digits, with four or  *)
(* as a draft (compdb.parse_std, standard_is_supported).                    *)
OldStandardsLeftOut ==
  Planned =>
    \A p \in plan.units :
      LET std == Flags[p].std
      IN  std # None => SinceInFull(std) >= (IF std.cxx THEN 2017 ELSE 2011)

(* Selected, excluded, outside and discarded entries are all there are:    *)
(* the plan's own validators never fire, and each entry that is not        *)
(* analysed is named in a limitation.                                      *)
EveryEntryAccounted ==
  Planned =>
    /\ plan.units \cap plan.excluded = {}
    /\ Len(database) = Cardinality(plan.units) + Cardinality(plan.excluded)
                         + Cardinality(outside) + Cardinality(discarded)
    /\ \A i \in DOMAIN database :
         \/ i \in outside /\ <<"outside">> \in plan.limitations
         \/ i \in discarded /\ <<"ambiguous", database[i]>> \in plan.limitations
         \/ database[i] \in plan.excluded /\ <<ReasonFor(database[i])>> \in plan.limitations
         \/ database[i] \in plan.units
=============================================================================
