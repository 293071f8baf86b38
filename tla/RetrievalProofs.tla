--------------------------- MODULE RetrievalProofs ---------------------------
(***************************************************************************)
(* A context says what it lacks, and the page is chosen well, for every    *)
(* index, every diagnostic in it and every policy (Retrieval); the text    *)
(* that is made of it is truthful (Prompt).                                *)
(***************************************************************************)
EXTENDS Prompt, DataInduction, FiniteSetTheorems, TLAPS

-----------------------------------------------------------------------------
(* Sequences of the members of sets. *)

(* Two sequences in a row hold what each of them holds.                    *)
LEMMA JoinedHolds ==
  ASSUME NEW X, NEW s \in Seq(X), NEW t \in Seq(X)
  PROVE  s \o t \in Seq(X) /\ Elements(s \o t) = Elements(s) \cup Elements(t)
<1> DEFINE j == s \o t
<1>1. /\ j \in Seq(X) /\ Len(s) \in Nat /\ Len(t) \in Nat
      /\ DOMAIN s = 1..Len(s) /\ DOMAIN t = 1..Len(t) /\ DOMAIN j = 1..(Len(s) + Len(t))
      /\ \A i \in 1..(Len(s) + Len(t)) : j[i] = IF i <= Len(s) THEN s[i] ELSE t[i - Len(s)]
  OBVIOUS
<1> HIDE DEF j
<1>2. ASSUME NEW i \in DOMAIN j PROVE j[i] \in Elements(s) \cup Elements(t)
  <2>1. CASE i <= Len(s)
    <3>1. i \in DOMAIN s /\ j[i] = s[i]
      BY <1>1, <2>1
    <3>2. QED BY <3>1 DEF Elements
  <2>2. CASE ~(i <= Len(s))
    <3>1. i - Len(s) \in DOMAIN t /\ j[i] = t[i - Len(s)]
      BY <1>1, <2>2
    <3>2. QED BY <3>1 DEF Elements
  <2>3. QED BY <2>1, <2>2
<1>3. ASSUME NEW i \in DOMAIN s PROVE s[i] \in Elements(j)
  <2>1. i \in DOMAIN j /\ j[i] = s[i]
    BY <1>1
  <2>2. QED BY <2>1 DEF Elements
<1>4. ASSUME NEW i \in DOMAIN t PROVE t[i] \in Elements(j)
  <2>1. Len(s) + i \in DOMAIN j /\ j[Len(s) + i] = t[i]
    BY <1>1
  <2>2. QED BY <2>1 DEF Elements
<1>5. Elements(j) \subseteq Elements(s) \cup Elements(t)
  BY <1>2 DEF Elements
<1>6. Elements(s) \cup Elements(t) \subseteq Elements(j)
  BY <1>3, <1>4 DEF Elements
<1>7. QED BY <1>1, <1>5, <1>6 DEF j

(* A set sorted holds every member of the set once.                        *)
LEMMA SortedHolds ==
  ASSUME NEW S, IsFiniteSet(S), NEW less, StrictlyOrders(less, S)
  PROVE  /\ Sorted(S, less) \in Seq(S) /\ Elements(Sorted(S, less)) = S
         /\ Distinct(Sorted(S, less))
<1> DEFINE before(x) == {y \in S : <<y, x>> \in less}
           n == Cardinality(S)
           at == [x \in S |-> Cardinality(before(x)) + 1]
           sorted == Sorted(S, less)
<1>1. /\ at \in [S -> 1..n] /\ n \in Nat
      /\ \A x, y \in S : at[x] = at[y] => x = y
      /\ \A i \in 1..n : \E x \in S : at[x] = i
      /\ \A x \in S : Cardinality(before(x)) \in Nat /\ at[x] = Cardinality(before(x)) + 1
  <2>1. at = [x \in S |-> Cardinality({y \in S : <<y, x>> \in less}) + 1]
    OBVIOUS
  <2> HIDE DEF at
  <2>2. QED BY <2>1, OrderedPlaces
<1> HIDE DEF at
<1>2. /\ DOMAIN sorted = 1..n
      /\ \A i \in 1..n : sorted[i] = CHOOSE x \in S : Cardinality(before(x)) = i - 1
  BY DEF Sorted
<1> HIDE DEF sorted
<1>3. ASSUME NEW i \in 1..n PROVE sorted[i] \in S /\ at[sorted[i]] = i
  <2>1. PICK x \in S : at[x] = i
    BY <1>1
  <2>2. Cardinality(before(x)) = i - 1
    <3> HIDE DEF before, n
    <3>1. QED BY <1>1, <2>1
  <2>3. sorted[i] \in S /\ Cardinality(before(sorted[i])) = i - 1
    BY <1>2, <2>2
  <2> HIDE DEF before, n
  <2>4. QED BY <1>1, <2>3
<1> HIDE DEF n
<1>4. sorted \in Seq(S)
  <2>1. sorted = [i \in 1..n |-> CHOOSE x \in S : Cardinality(before(x)) = i - 1]
    BY DEF sorted, Sorted, n
  <2>2. \A i \in 1..n : sorted[i] \in S
    BY <1>3
  <2>3. sorted \in [1..n -> S]
    <3> HIDE DEF before
    <3>1. QED BY <1>2, <2>1, <2>2
  <2>4. QED BY <1>1, <2>3
<1>5. Elements(sorted) = S
  <2>1. \A x \in S : at[x] \in 1..n /\ sorted[at[x]] = x
    BY <1>1, <1>3
  <2>2. QED BY <1>2, <1>3, <2>1 DEF Elements
<1>6. Distinct(sorted)
  <2>1. \A i, j \in 1..n : sorted[i] = sorted[j] => i = j
    BY <1>3
  <2>2. QED BY <1>2, <2>1 DEF Distinct
<1>7. QED BY <1>4, <1>5, <1>6 DEF sorted

-----------------------------------------------------------------------------
(* Walks. *)

NextTo(S, edges, among) == {g \in among : \E f \in S : <<f, g>> \in edges}

IsAround(k, start, edges, among, limit) ==
  /\ k[0] = {start}
  /\ \A n \in 1..limit : k[n] = k[n - 1] \cup NextTo(k[n - 1], edges, among)

(* The recursive definition has a solution.                                *)
LEMMA AroundIs ==
  ASSUME NEW start, NEW edges, NEW among, NEW limit \in Nat
  PROVE  IsAround(Around(start, edges, among, limit), start, edges, among, limit)
<1> DEFINE V == SUBSET ({start} \cup among)
           More(S) == S \cup {g \in among : \E f \in S : <<f, g>> \in edges}
           step == [p \in (1..limit) \X V |-> More(p[2])]
           within[n \in 0..limit] == IF n = 0 THEN {start} ELSE More(within[n - 1])
           Is(k) == k = [n \in 0..limit |-> IF n = 0 THEN {start} ELSE More(k[n - 1])]
<1>1. within = CHOOSE k : Is(k)
  BY DEF within
<1>2. Around(start, edges, among, limit) = within
  BY DEF Around
<1>3. {start} \in V /\ step \in Steps(limit, V)
  BY DEF Steps
<1>4. \A n \in 1..limit, S \in V : step[<<n, S>>] = More(S)
  OBVIOUS
<1>5. /\ 0 \in 0..limit
      /\ \A n \in 1..limit : n \in 0..limit /\ n - 1 \in 0..limit /\ n # 0
      /\ \A n \in 0..limit : n = 0 \/ n \in 1..limit
  OBVIOUS
<1> HIDE DEF V, step, More, within
<1>6. PICK g : IsRecursive(g, limit, V, {start}, step)
  BY <1>3, ByRecursion
<1>7. Is(g)
  <2>1. ASSUME NEW n \in 1..limit PROVE g[n] = More(g[n - 1])
    BY <1>4, <1>5, <1>6 DEF IsRecursive
  <2>2. g[0] = {start} /\ g = [n \in 0..limit |-> g[n]]
    BY <1>6 DEF IsRecursive
  <2>3. QED BY <1>5, <2>1, <2>2
<1>8. Is(within)
  BY <1>1, <1>7
<1> HIDE DEF Is
<1>9. within[0] = {start} /\ \A n \in 1..limit : within[n] = More(within[n - 1])
  BY <1>5, <1>8 DEF Is
<1>10. QED BY <1>2, <1>9 DEF IsAround, More, NextTo

(* One step of the recursion.                                              *)
LEMMA AroundAt ==
  ASSUME NEW k, NEW start, NEW edges, NEW among, NEW limit \in Nat, IsAround(k, start, edges, among, limit),
         NEW i \in 1..limit, NEW j, j = i - 1
  PROVE  k[i] = k[j] \cup NextTo(k[j], edges, among)
  BY DEF IsAround

(* A walk only grows, among what it may meet, and meets everything once.   *)
LEMMA AroundGrows ==
  ASSUME NEW k, NEW start, NEW edges, NEW among, NEW limit \in Nat,
         IsAround(k, start, edges, among, limit)
  PROVE  \A m \in 0..limit : k[m] \subseteq {start} \cup among /\ start \in k[m]
                               /\ \A n \in 0..m : k[n] \subseteq k[m]
<1> DEFINE fine == {m \in 0..limit : /\ k[m] \subseteq {start} \cup among /\ start \in k[m]
                                     /\ \A n \in 0..m : k[n] \subseteq k[m]}
<1>1. 0 \in fine
  BY DEF IsAround
<1>2. ASSUME NEW m \in 1..limit, m - 1 \in fine PROVE m \in fine
  <2>1. k[m] = k[m - 1] \cup NextTo(k[m - 1], edges, among)
    BY AroundAt
  <2>2. /\ k[m - 1] \subseteq {start} \cup among /\ start \in k[m - 1]
        /\ \A n \in 0..(m - 1) : k[n] \subseteq k[m - 1]
    BY <1>2
  <2>3. k[m] \subseteq {start} \cup among /\ start \in k[m]
    BY <2>1, <2>2 DEF NextTo
  <2>4. ASSUME NEW n \in 0..m PROVE k[n] \subseteq k[m]
    <3>1. n = m \/ n \in 0..(m - 1)
      OBVIOUS
    <3>2. QED BY <2>1, <2>2, <3>1
  <2>5. QED BY <2>3, <2>4
<1> HIDE DEF fine
<1>3. \A m \in 0..limit : m \in fine
  BY <1>1, <1>2, UpTo
<1>4. QED BY <1>3 DEF fine

(* A walk that remembers all that it met, and goes on from what it met     *)
(* last, has met what is at most as many edges away as it took hops.       *)
Last(k, n) == IF n = 0 THEN k[0] ELSE k[n] \ k[n - 1]

(* One hop of such a walk.                                                 *)
LEMMA AroundStep ==
  ASSUME NEW k, NEW start, NEW edges, NEW among, NEW limit \in Nat, IsAround(k, start, edges, among, limit),
         NEW n \in Nat, n < limit
  PROVE  LET next == NextTo(Last(k, n), edges, among) \ k[n]
         IN k[n] \cup next = k[n + 1] /\ next = Last(k, n + 1)
<1>1. n + 1 \in 1..limit /\ n + 1 - 1 = n /\ n + 1 # 0
  OBVIOUS
<1>2. k[n + 1] = k[n] \cup NextTo(k[n], edges, among)
  <2>1. k[n + 1] = k[(n + 1) - 1] \cup NextTo(k[(n + 1) - 1], edges, among)
    BY <1>1 DEF IsAround
  <2>2. QED BY <1>1, <2>1
<1>3. NextTo(k[n], edges, among) \subseteq k[n] \cup NextTo(Last(k, n), edges, among)
  <2>1. CASE n = 0
    BY <2>1 DEF Last, IsAround
  <2>2. CASE n # 0
    <3>1. n \in 1..limit
      BY <2>2
    <3>2. k[n] = k[n - 1] \cup NextTo(k[n - 1], edges, among)
      BY <3>1, AroundAt
    <3>3. NextTo(k[n - 1], edges, among) \subseteq k[n] /\ Last(k, n) = k[n] \ k[n - 1]
      BY <2>2, <3>2 DEF Last
    <3>4. QED BY <3>3 DEF NextTo
  <2>3. QED BY <2>1, <2>2
<1>4. Last(k, n) \subseteq k[n]
  BY DEF Last, IsAround
<1>5. Last(k, n + 1) = k[n + 1] \ k[n]
  BY <1>1 DEF Last
<1>6. NextTo(Last(k, n), edges, among) \subseteq NextTo(k[n], edges, among)
  BY <1>4 DEF NextTo
<1>7. QED BY <1>2, <1>3, <1>5, <1>6

(* Nothing is met last twice.                                              *)
LEMMA LastOnce ==
  ASSUME NEW k, NEW start, NEW edges, NEW among, NEW limit \in Nat,
         IsAround(k, start, edges, among, limit),
         NEW n \in 0..limit, NEW m \in 0..limit, NEW x, x \in Last(k, n), x \in Last(k, m)
  PROVE  n = m
<1>1. ASSUME NEW i \in 0..limit, NEW j \in 0..limit, i < j, x \in Last(k, i), x \in Last(k, j)
      PROVE  FALSE
  <2>1. j - 1 \in 0..limit /\ i \in 0..(j - 1) /\ j # 0
    BY <1>1
  <2>2. k[i] \subseteq k[j - 1]
    BY <2>1, AroundGrows
  <2>3. x \in k[i] /\ x \notin k[j - 1]
    BY <1>1, <2>1 DEF Last
  <2>4. QED BY <2>2, <2>3
<1>2. n < m \/ m < n \/ n = m
  OBVIOUS
<1>3. QED BY <1>1, <1>2

(* What it meets after the start is not the start, and stays met.          *)
LEMMA LastWithin ==
  ASSUME NEW k, NEW start, NEW edges, NEW among, NEW limit \in Nat,
         IsAround(k, start, edges, among, limit), NEW n \in 1..limit, NEW x \in Last(k, n)
  PROVE  x \in k[limit] \ {start}
<1>1. n # 0 /\ n \in 0..limit /\ limit \in 0..limit /\ n \in 0..limit
  OBVIOUS
<1> DEFINE m == n - 1
<1>2. m \in 0..limit
  OBVIOUS
<1>3. x \in k[n] \ k[m]
  BY <1>1 DEF Last
<1> HIDE DEF m
<1>4. start \in k[m] /\ k[n] \subseteq k[limit]
  BY <1>1, <1>2, AroundGrows
<1>5. QED BY <1>3, <1>4

(* Once it meets nothing new it has met everything.                        *)
LEMMA AroundStops ==
  ASSUME NEW k, NEW start, NEW edges, NEW among, NEW limit \in Nat, IsAround(k, start, edges, among, limit),
         NEW n \in 0..limit, Last(k, n) = {}
  PROVE  \A m \in n..limit : k[m] = k[n] /\ Last(k, m) = {}
<1>1. n \in 1..limit /\ n - 1 \in Nat /\ k[n] \ k[n - 1] = {}
  BY DEF Last, IsAround
<1>2. k[n] = k[n - 1]
  BY <1>1 DEF IsAround
<1> DEFINE same == {i \in 0..(limit - n) : k[n + i] = k[n] /\ k[n + i - 1] = k[n]}
<1>3. 0 \in same
  BY <1>1, <1>2
<1>4. ASSUME NEW i \in 1..(limit - n), i - 1 \in same PROVE i \in same
  <2>1. n + (i - 1) = n + i - 1 /\ n + i \in 1..limit /\ n + i - 1 \in 1..limit
        /\ n + (i - 1) - 1 = n + i - 1 - 1 /\ i \in 0..(limit - n)
    BY <1>1
  <2>2. k[n + i - 1] = k[n] /\ k[n + i - 1 - 1] = k[n]
    BY <1>4, <2>1
  <2>3. k[n + i] = k[n + i - 1]
    <3> DEFINE x == n + i
               y == n + i - 1
               z == n + i - 1 - 1
    <3>1. x \in 1..limit /\ y = x - 1 /\ y \in 1..limit /\ z = y - 1
      BY <1>1, <2>1
    <3>2. k[y] = k[z]
      BY <2>2
    <3> HIDE DEF x, y, z
    <3>3. /\ k[x] = k[y] \cup NextTo(k[y], edges, among)
          /\ k[y] = k[z] \cup NextTo(k[z], edges, among)
      BY <3>1, AroundAt
    <3>4. k[x] = k[y]
      BY <3>2, <3>3
    <3>5. QED BY <3>4 DEF x, y
  <2>4. QED BY <2>1, <2>2, <2>3
<1> HIDE DEF same
<1>5. limit - n \in Nat
  BY <1>1
<1>6. \A i \in 0..(limit - n) : i \in same
  <2> DEFINE rest == limit - n
  <2>1. rest \in Nat /\ \A i \in 1..rest : i - 1 \in same => i \in same
    BY <1>4, <1>5
  <2> HIDE DEF rest
  <2>2. \A i \in 0..rest : i \in same
    BY <1>3, <2>1, UpTo
  <2>3. QED BY <2>2 DEF rest
<1>7. ASSUME NEW m \in n..limit PROVE k[m] = k[n] /\ Last(k, m) = {}
  <2>1. m - n \in 0..(limit - n) /\ n + (m - n) = m /\ m # 0
    BY <1>1
  <2> DEFINE i == m - n
  <2>2. i \in 0..(limit - n) /\ n + i = m /\ n + i - 1 = m - 1
    BY <2>1
  <2> HIDE DEF i
  <2>3. k[n + i] = k[n] /\ k[n + i - 1] = k[n]
    BY <1>6, <2>2 DEF same
  <2>4. k[m] = k[n] /\ k[m - 1] = k[n]
    BY <2>2, <2>3
  <2>5. QED BY <2>1, <2>4 DEF Last
<1>8. QED BY <1>7

-----------------------------------------------------------------------------
(* The inductive invariant. *)

Phases ==
  {"containing", "types", "macros", "callers", "callees", "cleanup", "flow", "messages",
   "select", "fill", "done"}
PastCallees == {"cleanup", "flow", "messages", "select", "fill", "done"}
PastMacros == PastCallees \cup {"callers", "callees"}
Structured == Here # None /\ candidate.variant = "structural"

(* How far each walk has come. *)
Hops(phases, at, limit) ==
  IF ~Structured \/ phase \in phases THEN 0 ELSE IF phase = at THEN hop ELSE limit
TypesHop == Hops({"containing"}, "types", TypeDepth)
CallersHop == Hops({"containing", "types", "macros"}, "callers", CallerDepth)
CalleesHop == Hops({"containing", "types", "macros", "callers"}, "callees", CalleeDepth)

(* What one reading of a region is, in the roles that have no distance.    *)
Walked == {"type_decl", "caller", "callee"}
Reading(role, r) ==
  IF role \in {"macro_def", "global_decl", "cleanup_path"}
  THEN Unit(r, role, IF role = "cleanup_path" /\ r \notin Fns THEN 0 ELSE 1)
  ELSE UnitOn(r, role, IF role = "flow_function" THEN 1 ELSE 0,
              IF \/ role = "containing_function" /\ Here # None
                 \/ role \in {"flat_window", "flow_function"} THEN TRUE ELSE FALSE)

(* A unit is of a region that could be read, and says of it what its role  *)
(* says.                                                                   *)
UnitKnown(u) ==
  /\ u \in [region : Regions, role : DOMAIN Base, depth : 0..16, onPath : BOOLEAN]
  /\ u.region # None /\ u.region \notin lost
  /\ u = IF u.role \in Walked THEN Unit(u.region, u.role, u.depth) ELSE Reading(u.role, u.region)

CollectedKnown ==
  /\ \E s \in Situations : index = s.index /\ candidate = s.candidate
  /\ phase \in Phases /\ hop \in 0..16
  /\ phase \in {"types", "macros", "callers", "callees", "cleanup"} => Structured
  /\ gaps \subseteq lost
  /\ \A x \in missing : x[1] \in TypeNames \cup MacroNames \cup GlobalNames
  /\ IsFiniteSet(units) /\ \A u \in units : UnitKnown(u)

(* A walk has collected what is at most so many hops away, each with its   *)
(* distance, and nothing else.                                             *)
Exactly(us, role, k, h, out) ==
  /\ \A u \in us : u.role = role => u.depth \in 1..h /\ u.region \in Last(k, u.depth) \ out
  /\ \A n \in 1..h : \A x \in Last(k, n) \ out :
       \E u \in us : u.role = role /\ u.region = x /\ u.depth = n
AtHop(k, limit) == hop \in 0..limit /\ seen = k[hop] /\ frontier = Last(k, hop)

WalksKnown ==
  /\ Exactly(units, "type_decl", TypesAround, TypesHop, Unseen \cup lost)
  /\ Exactly(units, "caller", CallersAround, CallersHop, Outside \cup BodyLess \cup lost)
  /\ Exactly(units, "callee", CalleesAround, CalleesHop, Outside \cup BodyLess \cup lost)
  /\ phase = "types" => AtHop(TypesAround, TypeDepth)
  /\ phase = "callers" => AtHop(CallersAround, CallerDepth)
  /\ phase = "callees" => AtHop(CalleesAround, CalleeDepth)

(* What the closure still has to look at, and what it could not find.      *)
Of(us, role) == {u.region : u \in {v \in us : v.role = role}}
Names(pairs) == {x[1] : x \in pairs}
Followed(us) == {Here} \cup Of(us, "type_decl") \cup Of(us, "macro_def")
MacrosFound(us, pairs) == Of(us, "macro_def") \cup Names(pairs)

ClosureKnown ==
  /\ \A t \in TypesAround[TypesHop] :
       t = Here \/ t \in Of(units, "type_decl") \/ t \in Names(missing)
  /\ phase \in {"containing", "types"} => Of(units, "macro_def") = {}
  /\ phase \in {"containing", "types", "macros"} => Of(units, "global_decl") = {}
  /\ phase = "types" => pending \in Seq(CodeRegions) /\ Followed(units) \subseteq Elements(pending)
  /\ phase = "macros" =>
       /\ pending \in Seq(CodeRegions) /\ seen \subseteq MacrosFound(units, missing)
       /\ \A r \in Followed(units) : r \in Elements(pending) \/ MacrosIn(r) \subseteq seen
  /\ Structured /\ phase \in PastMacros =>
       /\ \A r \in Followed(units) : MacrosIn(r) \subseteq MacrosFound(units, missing)
       /\ Of(units, "global_decl") \subseteq GlobalsOf(Here)
       /\ GlobalsOf(Here) \subseteq Of(units, "global_decl") \cup Names(missing)
       /\ missing = {} \/ <<"closure incomplete">> \in notes

(* What is known of the calls around the function, or said not to be.      *)
Told(us, gs, ns, f) ==
  (\E u \in us : u.region = f) \/ f \in gs \/ <<f, "no body">> \in ns
CallsKnown ==
  /\ Structured /\ phase # "containing" => Told(units, gaps, notes, Here)
  /\ \A f \in CallersAround[CallersHop] : f \in Outside \cup {Here} \/ Told(units, gaps, notes, f)
  /\ \A f \in CalleesAround[CalleesHop] : f \in Outside \cup {Here} \/ Told(units, gaps, notes, f)
  /\ CallersHop > 0 /\ UnresolvedAnywhere => <<"caller", "lower bound">> \in notes
  /\ CalleesHop > 0 =>
       \A f \in CalleesAround[CalleesHop - 1] :
         UnresolvedIn(f) => <<"callee", "lower bound">> \in notes

(* The page and what is still to be fitted are one reading of each id.     *)
PageKnown ==
  phase \in {"fill", "done"} =>
    /\ context = [kept |-> context.kept, dropped |-> context.dropped, refused |-> context.refused]
    /\ context.kept \cup context.dropped \cup Elements(pending) = Dedupe(units)
    /\ context.kept \cap context.dropped = {} /\ Presented \cap Elements(pending) = {}
    /\ pending \in Seq(units) /\ Distinct(pending)
    /\ Cost(context.kept) <= Budget
    /\ \/ PrimaryOf(Dedupe(units)) \subseteq context.kept
       \/ context.kept = {} /\ context.refused /\ pending = <<>>
    /\ phase = "done" => pending = <<>>

RetrievalInv ==
  /\ CollectedKnown
  /\ WalksKnown
  /\ ClosureKnown
  /\ CallsKnown
  /\ PageKnown

-----------------------------------------------------------------------------
(* What a scan was given does not change while it collects.                *)
LEMMA GivenKept ==
  ASSUME UNCHANGED inputs
  PROVE  /\ Here' = Here /\ Structured' = Structured /\ lost' = lost
         /\ TypesAround' = TypesAround /\ CallersAround' = CallersAround
         /\ CalleesAround' = CalleesAround /\ Regions' = Regions
         /\ \A r, role, d : Unit(r, role, d)' = Unit(r, role, d)
         /\ \A r, role : Reading(role, r)' = Reading(role, r)
         /\ \A u : UnitKnown(u)' = UnitKnown(u)
         /\ \A r : MacrosIn(r)' = MacrosIn(r)
         /\ GlobalsOf(Here)' = GlobalsOf(Here)
         /\ UnresolvedAnywhere' = UnresolvedAnywhere
         /\ \A f : UnresolvedIn(f)' = UnresolvedIn(f)
<1>1. index' = index /\ candidate' = candidate /\ lost' = lost
  BY DEF inputs
<1>2. Here' = Here /\ Structured' = Structured
  BY <1>1 DEF Here, Structured
<1>3. Reversed' = Reversed
  BY <1>1 DEF Reversed
<1>4. /\ TypesAround' = TypesAround /\ CallersAround' = CallersAround
      /\ CalleesAround' = CalleesAround
  BY <1>1, <1>2, <1>3 DEF TypesAround, CallersAround, CalleesAround
<1>5. Regions' = Regions
  BY <1>1 DEF Regions
<1>6. \A r, role, d : Unit(r, role, d)' = Unit(r, role, d)
  BY <1>1 DEF Unit, UnitOn, OnFlowPath
<1>7. \A r, role : Reading(role, r)' = Reading(role, r)
  BY <1>1, <1>2 DEF Reading, Unit, UnitOn, OnFlowPath
<1>8. \A u : UnitKnown(u)' = UnitKnown(u)
  BY <1>1, <1>5, <1>6, <1>7 DEF UnitKnown
<1>9. /\ \A r : MacrosIn(r)' = MacrosIn(r)
      /\ GlobalsOf(Here)' = GlobalsOf(Here)
      /\ UnresolvedAnywhere' = UnresolvedAnywhere
      /\ \A f : UnresolvedIn(f)' = UnresolvedIn(f)
  BY <1>1, <1>2 DEF MacrosIn, GlobalsOf, UnresolvedAnywhere, UnresolvedIn
<1>10. QED BY <1>1, <1>2, <1>4, <1>5, <1>6, <1>7, <1>8, <1>9

(* What building a set of units adds.                                      *)
LEMMA Built ==
  ASSUME CollectedKnown, UNCHANGED inputs, NEW us, Build(us), IsFiniteSet(us),
         \A u \in us : u.region \notin lost => UnitKnown(u)
  PROVE  /\ \A u : u \in units' <=> u \in units \/ (u \in us /\ u.region \notin lost)
         /\ \A r : r \in gaps' <=> r \in gaps \/ \E u \in us : u.region = r /\ r \in lost
         /\ gaps' \subseteq lost' /\ IsFiniteSet(units') /\ \A u \in units' : UnitKnown(u)'
<1>1. /\ units' = units \cup {u \in us : u.region \notin lost}
      /\ gaps' = gaps \cup {u.region : u \in {v \in us : v.region \in lost}}
  BY DEF Build, Readable
<1>2. /\ IsFiniteSet(units) /\ \A u \in units : UnitKnown(u)
      /\ gaps \subseteq lost /\ lost' = lost
  BY DEF CollectedKnown, inputs
<1>3. IsFiniteSet({u \in us : u.region \notin lost})
  BY FS_Subset
<1>4. IsFiniteSet(units')
  BY <1>1, <1>2, <1>3, FS_Union
<1>5. \A u \in units' : UnitKnown(u)'
  BY <1>1, <1>2, GivenKept
<1>6. QED BY <1>1, <1>2, <1>4, <1>5

(* What is assumed of the inputs, of those that were given.                *)
LEMMA GivenFacts ==
  ASSUME CollectedKnown
  PROVE  /\ Finds(index) /\ candidate.flow \subseteq Fns
         /\ candidate.variant \in {"structural", "flat_window"}
         /\ Here \in (Fns \ (Outside \cup BodyLess)) \cup {None}
         /\ candidate.site \in AllRegions /\ candidate.enclosing \in AllRegions \cup {None}
         /\ Regions \subseteq AllRegions \cup {None}
         /\ None \notin AllRegions /\ Unknown \notin Fns
         /\ IsFiniteSet(Fns) /\ IsFiniteSet(TypeNames) /\ IsFiniteSet(MacroNames)
         /\ IsFiniteSet(GlobalNames)
<1>1. PICK s \in Situations : index = s.index /\ candidate = s.candidate
  BY DEF CollectedKnown
<1>2. /\ Finds(index) /\ candidate.flow \subseteq Fns
      /\ candidate.variant \in {"structural", "flat_window"}
      /\ Here \in (Fns \ (Outside \cup BodyLess)) \cup {None}
  BY <1>1, RetrievalAssumption DEF Here
<1>3. candidate.site \in AllRegions /\ candidate.enclosing \in AllRegions \cup {None}
  BY <1>1 DEF AllRegions
<1>4. None \notin AllRegions /\ Unknown \notin Fns
  BY RetrievalAssumption
<1>5. Regions \subseteq AllRegions \cup {None}
  BY <1>3 DEF Regions, AllRegions, CodeRegions
<1>6. /\ IsFiniteSet(CodeRegions) /\ Fns \subseteq CodeRegions /\ TypeNames \subseteq CodeRegions
      /\ MacroNames \subseteq CodeRegions /\ GlobalNames \subseteq CodeRegions
  BY RetrievalAssumption DEF CodeRegions
<1>7. /\ IsFiniteSet(Fns) /\ IsFiniteSet(TypeNames) /\ IsFiniteSet(MacroNames)
      /\ IsFiniteSet(GlobalNames)
  BY <1>6, FS_Subset
<1>8. QED BY <1>2, <1>3, <1>4, <1>5, <1>7

(* A unit of a region in a role that its role allows.                      *)
LEMMA OneUnit ==
  ASSUME NEW r \in Regions, r # None, r \notin lost, NEW role \in DOMAIN Base, NEW d \in 0..16
  PROVE  /\ role \in Walked => UnitKnown(Unit(r, role, d))
         /\ role \notin Walked => UnitKnown(Reading(role, r))
<1>1. Unit(r, role, d) \in [region : Regions, role : DOMAIN Base, depth : 0..16, onPath : BOOLEAN]
  BY DEF Unit, UnitOn, OnFlowPath
<1>2. ASSUME role \in Walked PROVE UnitKnown(Unit(r, role, d))
  <2>1. /\ Unit(r, role, d).region = r /\ Unit(r, role, d).role = role
        /\ Unit(r, role, d).depth = d
    BY DEF Unit, UnitOn
  <2>2. QED BY <1>1, <1>2, <2>1 DEF UnitKnown
<1>3. /\ Reading(role, r).region = r /\ Reading(role, r).role = role
      /\ Reading(role, r) \in [region : Regions, role : DOMAIN Base, depth : 0..16,
                               onPath : BOOLEAN]
  BY DEF Reading, Unit, UnitOn, OnFlowPath
<1>4. ASSUME role \notin Walked PROVE UnitKnown(Reading(role, r))
  BY <1>3, <1>4 DEF UnitKnown
<1>5. QED BY <1>2, <1>4

(* Finitely many regions make finitely many units.                         *)
LEMMA UnitsFinite ==
  ASSUME NEW S, IsFiniteSet(S)
  PROVE  /\ \A role, d : IsFiniteSet({Unit(f, role, d) : f \in S})
         /\ \A role : IsFiniteSet({Reading(role, f) : f \in S})
<1>1. ASSUME NEW role, NEW d PROVE IsFiniteSet({Unit(f, role, d) : f \in S})
  <2> DEFINE T == {Unit(f, role, d) : f \in S}
             g == [f \in S |-> Unit(f, role, d)]
  <2>1. g \in [S -> T] /\ \A z \in T : \E x \in S : g[x] = z
    OBVIOUS
  <2> HIDE DEF g, T
  <2>2. IsFiniteSet(T)
    BY <2>1, CountImage
  <2>3. QED BY <2>2 DEF T
<1>2. ASSUME NEW role PROVE IsFiniteSet({Reading(role, f) : f \in S})
  <2> DEFINE T == {Reading(role, f) : f \in S}
             g == [f \in S |-> Reading(role, f)]
  <2>1. g \in [S -> T] /\ \A z \in T : \E x \in S : g[x] = z
    OBVIOUS
  <2> HIDE DEF g, T
  <2>2. IsFiniteSet(T)
    BY <2>1, CountImage
  <2>3. QED BY <2>2 DEF T
<1>3. QED BY <1>1, <1>2

(* What is written down as missing names what is missing.                  *)
LEMMA Lacking ==
  ASSUME NEW S
  PROVE  /\ \A x \in NoRegion(S) \cup Unreadable(S) : x[1] \in S
         /\ \A t \in S : t \in Unseen => \E x \in NoRegion(S) : x[1] = t
         /\ \A t \in S \ Unseen : t \in lost => \E x \in Unreadable(S) : x[1] = t
<1>1. \A t : <<t, "no region">>[1] = t /\ <<t, "unreadable">>[1] = t
  OBVIOUS
<1>2. /\ \A x \in NoRegion(S) : \E t \in S : x = <<t, "no region">>
      /\ \A x \in Unreadable(S) : \E t \in S : x = <<t, "unreadable">>
  BY DEF NoRegion, Unreadable
<1>3. \A t \in S : t \in Unseen => <<t, "no region">> \in NoRegion(S)
  BY DEF NoRegion
<1>4. \A t \in S \ Unseen : t \in lost => <<t, "unreadable">> \in Unreadable(S)
  BY DEF Unreadable, Readable
<1>5. QED BY <1>1, <1>2, <1>3, <1>4

(* Each step collects finitely many units that are what their role says.   *)
LEMMA CollectedStep ==
  ASSUME CollectedKnown, [Next]_vars
  PROVE  CollectedKnown'
<1> DEFINE Still(us) == /\ IsFiniteSet(us) /\ \A u \in us : u.region \notin lost => UnitKnown(u)
           Same == UNCHANGED inputs
           Rest == /\ phase' \in Phases /\ hop' \in 0..16
                   /\ phase' \in {"types", "macros", "callers", "callees", "cleanup"} => Structured
                   /\ \A x \in missing' : x[1] \in TypeNames \cup MacroNames \cup GlobalNames
<1>0. /\ phase \in Phases /\ hop \in 0..16
      /\ phase \in {"types", "macros", "callers", "callees", "cleanup"} => Structured
      /\ \A x \in missing : x[1] \in TypeNames \cup MacroNames \cup GlobalNames
      /\ gaps \subseteq lost /\ IsFiniteSet(units) /\ \A u \in units : UnitKnown(u)
      /\ \E s \in Situations : index = s.index /\ candidate = s.candidate
  BY DEF CollectedKnown
<1>1. /\ Here \in Fns \cup {None} /\ candidate.flow \subseteq Fns
      /\ candidate.site \in AllRegions /\ candidate.enclosing \in AllRegions \cup {None}
      /\ None \notin AllRegions /\ None \notin Fns
      /\ CallerDepth \in 0..8 /\ CalleeDepth \in 0..8 /\ TypeDepth \in 1..16
  BY GivenFacts, RetrievalAssumption DEF AllRegions, CodeRegions
<1>2. ASSUME Same, Rest, NEW us, Build(us), Still(us) PROVE CollectedKnown'
  <2>1. gaps' \subseteq lost' /\ IsFiniteSet(units') /\ \A u \in units' : UnitKnown(u)'
    BY <1>2, Built
  <2>2. \E s \in Situations : index' = s.index /\ candidate' = s.candidate
    BY <1>0, <1>2 DEF inputs
  <2>3. Structured' = Structured
    BY <1>2, GivenKept
  <2>4. QED BY <1>2, <2>1, <2>2, <2>3 DEF CollectedKnown
<1>3. ASSUME Same, Rest, UNCHANGED <<units, gaps>> PROVE CollectedKnown'
  <2>1. \A u \in units' : UnitKnown(u)'
    BY <1>0, <1>3, GivenKept
  <2>2. \E s \in Situations : index' = s.index /\ candidate' = s.candidate
    BY <1>0, <1>3 DEF inputs
  <2>3. Structured' = Structured /\ lost' = lost
    BY <1>3, GivenKept
  <2>4. QED BY <1>0, <1>3, <2>1, <2>2, <2>3 DEF CollectedKnown
<1>4. ASSUME NEW r \in Regions, r # None, NEW role \in DOMAIN Base, role \notin Walked
      PROVE  Still({Reading(role, r)})
  <2>1. Reading(role, r).region = r
    BY DEF Reading, Unit, UnitOn
  <2>2. r \notin lost => UnitKnown(Reading(role, r))
    BY <1>4, OneUnit
  <2>3. QED BY <2>1, <2>2, FS_Singleton
<1>5. ASSUME NEW S, IsFiniteSet(S), S \subseteq Regions \ {None},
             NEW role \in DOMAIN Base, role \notin Walked
      PROVE  Still({Reading(role, f) : f \in S})
  <2>1. ASSUME NEW f \in S
        PROVE  /\ Reading(role, f).region = f
               /\ f \notin lost => UnitKnown(Reading(role, f))
    <3>1. Reading(role, f).region = f
      BY DEF Reading, Unit, UnitOn
    <3>2. f \notin lost => UnitKnown(Reading(role, f))
      BY <1>5, OneUnit
    <3>3. QED BY <3>1, <3>2
  <2>2. IsFiniteSet({Reading(role, f) : f \in S})
    BY <1>5, UnitsFinite
  <2>3. QED BY <2>1, <2>2
<1>6. ASSUME NEW S, IsFiniteSet(S), S \subseteq Regions \ {None},
             NEW role \in Walked, NEW d \in 0..16
      PROVE  Still({Unit(f, role, d) : f \in S})
  <2>1. role \in DOMAIN Base
    BY DEF Walked, Base
  <2>2. \A f \in S : /\ Unit(f, role, d).region = f
                     /\ f \notin lost => UnitKnown(Unit(f, role, d))
    BY <1>6, <2>1, OneUnit DEF Unit, UnitOn
  <2>3. IsFiniteSet({Unit(f, role, d) : f \in S})
    BY <1>6, UnitsFinite
  <2>4. QED BY <2>2, <2>3
<1> HIDE DEF Still
<1>7. /\ Fns \subseteq Regions \ {None} /\ TypeNames \subseteq Regions \ {None}
      /\ MacroNames \subseteq Regions \ {None} /\ GlobalNames \subseteq Regions \ {None}
      /\ IsFiniteSet(Fns) /\ IsFiniteSet(TypeNames) /\ IsFiniteSet(MacroNames)
      /\ IsFiniteSet(GlobalNames) /\ candidate.site \in Regions \ {None}
      /\ candidate.enclosing \in Regions /\ Window \in Regions \ {None}
      /\ \A f \in Fns : LabelIn(f) \in Regions \ {None}
      /\ \A f \in Called : SiteOf(f) \in Regions \ {None}
  <2>1. Regions \subseteq AllRegions \cup {None} /\ None \notin AllRegions
    BY GivenFacts
  <2>2. /\ Fns \subseteq AllRegions /\ TypeNames \subseteq AllRegions
        /\ MacroNames \subseteq AllRegions /\ GlobalNames \subseteq AllRegions
        /\ Window \in AllRegions
        /\ \A f \in Fns : LabelIn(f) \in AllRegions
        /\ \A f \in Called : SiteOf(f) \in AllRegions
    BY DEF AllRegions, CodeRegions
  <2>3. QED BY <1>1, <2>1, <2>2, GivenFacts DEF Regions
<1>8. ASSUME NEW S, NEW T, IsFiniteSet(T), S \subseteq T PROVE IsFiniteSet(S)
  BY <1>8, FS_Subset
<1>9. CASE Containing
  <2>1. UnitOn(Here, "containing_function", 0, TRUE)
           = Reading("containing_function", Here)
    BY <1>9 DEF Containing, Unit, UnitOn, Reading
  <2>2. Still({Reading("containing_function", Here)})
    BY <1>1, <1>4, <1>7, <1>9 DEF Containing, Base, Walked
  <2>3. Same /\ Rest
    BY <1>0, <1>9 DEF Containing, Phases, Structured
  <2>4. Build({Reading("containing_function", Here)})
    BY <1>9, <2>1 DEF Containing
  <2>5. QED BY <1>2, <2>2, <2>3, <2>4
<1>10. CASE NoFunction
  <2>1. Same /\ Rest
    BY <1>0, <1>10 DEF NoFunction, Phases, walk
  <2>2. /\ UnitOn(candidate.enclosing, "containing_function", 0, FALSE)
             = Reading("containing_function", candidate.enclosing)
        /\ UnitOn(candidate.site, "candidate_site", 0, FALSE)
             = Reading("candidate_site", candidate.site)
    BY <1>10 DEF NoFunction, Unit, UnitOn, Reading
  <2>3. CASE candidate.enclosing # None
    <3>1. Still({Reading("containing_function", candidate.enclosing)})
      BY <1>4, <1>7, <2>3 DEF Base, Walked
    <3>2. Build({Reading("containing_function", candidate.enclosing)})
      BY <1>10, <2>2, <2>3 DEF NoFunction
    <3>3. QED BY <1>2, <2>1, <3>1, <3>2
  <2>4. CASE candidate.enclosing = None
    <3>1. Still({Reading("candidate_site", candidate.site)})
      BY <1>4, <1>7 DEF Base, Walked
    <3>2. Build({Reading("candidate_site", candidate.site)})
      BY <1>10, <2>2, <2>4 DEF NoFunction
    <3>3. QED BY <1>2, <2>1, <3>1, <3>2
  <2>5. QED BY <2>3, <2>4
<1>11. CASE FlatWindow
  <2>1. Same /\ Rest
    BY <1>0, <1>11 DEF FlatWindow, Phases, walk
  <2>2. UnitOn(Window, "flat_window", 0, TRUE) = Reading("flat_window", Window)
    BY DEF Unit, UnitOn, Reading
  <2>3. Still({Reading("flat_window", Window)})
    BY <1>4, <1>7 DEF Base, Walked
  <2>4. UNCHANGED <<units, gaps>> \/ Build({Reading("flat_window", Window)})
    BY <1>11, <2>2 DEF FlatWindow
  <2>5. QED BY <1>2, <1>3, <2>1, <2>3, <2>4
<1>12. CASE Types
  <2> DEFINE next == (UNION {TypesOf(s) : s \in frontier}) \ seen
  <2>1. next \subseteq TypeNames
    BY DEF TypesOf
  <2>2. IsFiniteSet(next \ Unseen) /\ next \ Unseen \subseteq Regions \ {None}
    BY <1>7, <1>8, <2>1
  <2>3. hop + 1 \in 0..16 /\ hop' = hop + 1 /\ phase' = phase
    BY <1>0, <1>1, <1>12 DEF Types
  <2>4. Build({Unit(t, "type_decl", hop + 1) : t \in next \ Unseen})
    BY <1>12 DEF Types
  <2>5. \A x \in missing' : x[1] \in TypeNames \cup MacroNames \cup GlobalNames
    <3>1. missing' = missing \cup NoRegion(next) \cup Unreadable(next)
      BY <1>12 DEF Types
    <3> HIDE DEF next
    <3>2. QED BY <1>0, <2>1, <3>1, Lacking
  <2>6. Same /\ Rest
    <3>1. Same
      BY <1>12 DEF Types
    <3> HIDE DEF next
    <3>2. QED BY <1>0, <2>3, <2>5, <3>1
  <2> HIDE DEF next
  <2>7. Still({Unit(t, "type_decl", hop + 1) : t \in next \ Unseen})
    BY <1>6, <2>2, <2>3 DEF Walked
  <2>8. QED BY <1>2, <2>4, <2>6, <2>7
<1>13. CASE TypesDone
  <2>1. Same /\ Rest /\ UNCHANGED <<units, gaps>>
    BY <1>0, <1>13 DEF TypesDone, Phases
  <2>2. QED BY <1>3, <2>1
<1>14. CASE Macros
  <2> DEFINE more == MacrosIn(Head(pending)) \ seen
  <2>1. more \subseteq MacroNames
    BY DEF MacrosIn
  <2>2. IsFiniteSet(more) /\ more \subseteq Regions \ {None}
    BY <1>7, <1>8, <2>1
  <2>3. Build({Unit(m, "macro_def", 1) : m \in more})
    BY <1>14 DEF Macros
  <2>4. \A m : Unit(m, "macro_def", 1) = Reading("macro_def", m)
    BY DEF Unit, UnitOn, Reading
  <2>5. missing' = missing \cup {<<m, "unreadable">> : m \in {x \in more : ~Readable(x)}}
    BY <1>14 DEF Macros
  <2>6. Same /\ UNCHANGED <<phase, hop>>
    BY <1>14 DEF Macros
  <2> HIDE DEF more
  <2>7. Build({Reading("macro_def", m) : m \in more})
    BY <2>3, <2>4
  <2>8. Still({Reading("macro_def", m) : m \in more})
    BY <1>5, <2>2 DEF Walked, Base
  <2>9. Rest
    BY <1>0, <2>1, <2>5, <2>6
  <2>10. QED BY <1>2, <2>6, <2>7, <2>8, <2>9
<1>15. CASE Globals
  <2> DEFINE more == GlobalsOf(Here)
  <2>1. more \subseteq GlobalNames
    BY DEF GlobalsOf
  <2>2. IsFiniteSet(more \ Unseen) /\ more \ Unseen \subseteq Regions \ {None}
    BY <1>7, <1>8, <2>1
  <2>3. Build({Unit(g, "global_decl", 1) : g \in more \ Unseen})
    BY <1>15 DEF Globals
  <2>4. \A g : Unit(g, "global_decl", 1) = Reading("global_decl", g)
    BY DEF Unit, UnitOn, Reading
  <2>5. missing' = missing \cup NoRegion(more) \cup Unreadable(more)
    BY <1>15 DEF Globals
  <2>6. Same /\ phase = "macros" /\ phase' = "callers" /\ hop' = 0
    BY <1>15 DEF Globals
  <2> HIDE DEF more
  <2>7. Build({Reading("global_decl", g) : g \in more \ Unseen})
    BY <2>3, <2>4
  <2>8. Still({Reading("global_decl", g) : g \in more \ Unseen})
    BY <1>5, <2>2 DEF Walked, Base
  <2>9. Rest
    <3>1. \A x \in missing' : x[1] \in TypeNames \cup MacroNames \cup GlobalNames
      BY <1>0, <2>1, <2>5, Lacking
    <3>2. QED BY <1>0, <2>6, <3>1 DEF Phases
  <2>10. QED BY <1>2, <2>6, <2>7, <2>8, <2>9
<1>16. CASE Walk
  <2> DEFINE next == (UNION {Neighbours(f) : f \in frontier}) \ seen
             new == (next \ Outside) \ BodyLess
  <2>1. next \subseteq Fns
    BY DEF Neighbours, Callers, Callees
  <2>2. IsFiniteSet(new) /\ new \subseteq Regions \ {None}
    BY <1>7, <1>8, <2>1
  <2>3. hop + 1 \in 0..16 /\ hop' = hop + 1 /\ phase' = phase /\ UNCHANGED missing
    <3>1. /\ phase \in {"callers", "callees"} /\ hop < DepthLimit
          /\ hop' = hop + 1 /\ phase' = phase /\ UNCHANGED missing
      BY <1>16 DEF Walk
    <3>2. DepthLimit \in 0..8
      BY <1>1 DEF DepthLimit
    <3>3. QED BY <1>0, <3>1, <3>2
  <2>4. Build({Unit(f, RoleOfWalk, hop + 1) : f \in new})
    BY <1>16 DEF Walk
  <2>5. Same
    BY <1>16 DEF Walk
  <2> HIDE DEF next, new
  <2>6. Still({Unit(f, RoleOfWalk, hop + 1) : f \in new})
    <3>1. RoleOfWalk \in Walked
      BY DEF Walked, RoleOfWalk
    <3>2. QED BY <1>6, <2>2, <2>3, <3>1
  <2>7. QED BY <1>0, <1>2, <2>3, <2>4, <2>5, <2>6
<1>17. CASE WalkDone
  <2>1. Same /\ Rest /\ UNCHANGED <<units, gaps>>
    BY <1>0, <1>17 DEF WalkDone, Phases
  <2>2. QED BY <1>3, <2>1
<1>18. CASE Cleanup
  <2> DEFINE released == {f \in Called \cap Releasing : <<Here, f>> \in index.calls}
             bodies == released \ (Outside \cup BodyLess \cup {Unknown})
             sites == {SiteOf(f) : f \in released}
  <2>0. PICK where \in LabelsIn(Here) :
           Build({Unit(LabelIn(f), "cleanup_path", 0) : f \in where}
                   \cup {Unit(SiteOf(f), "cleanup_path", 0) : f \in released}
                   \cup {Unit(f, "cleanup_path", 1) : f \in bodies})
    BY <1>18 DEF Cleanup
  <2> DEFINE labels == {LabelIn(f) : f \in where}
  <2>1. /\ Structured /\ Here \in Fns /\ where \subseteq {Here}
        /\ released \subseteq Called /\ bodies \subseteq Fns
    BY <1>0, <1>1, <1>18, <2>0 DEF Cleanup, Structured, Called, LabelsIn
  <2>2. /\ labels \subseteq Regions \ {None} /\ sites \subseteq Regions \ {None}
        /\ bodies \subseteq Regions \ {None}
    BY <1>7, <2>1
  <2>3. IsFiniteSet(labels) /\ IsFiniteSet(sites) /\ IsFiniteSet(bodies)
    <3>1. IsFiniteSet(released) /\ IsFiniteSet(bodies)
      <4>1. IsFiniteSet(Called)
        BY <1>7, FS_Singleton, FS_Union DEF Called
      <4>2. QED BY <1>8, <2>1, <4>1, <1>7
    <3>2. IsFiniteSet(labels)
      <4>1. labels \subseteq {LabelIn(Here)}
        BY <2>1
      <4>2. QED BY <1>8, <4>1, FS_Singleton
    <3>3. IsFiniteSet(sites)
      <4> DEFINE g == [f \in released |-> SiteOf(f)]
      <4>1. g \in [released -> sites] /\ \A z \in sites : \E f \in released : g[f] = z
        OBVIOUS
      <4> HIDE DEF g, released, sites
      <4>2. QED BY <3>1, <4>1, CountImage
    <3>4. QED BY <3>1, <3>2, <3>3
  <2>5. /\ {Unit(LabelIn(f), "cleanup_path", 0) : f \in where}
             = {Reading("cleanup_path", r) : r \in labels}
        /\ {Unit(SiteOf(f), "cleanup_path", 0) : f \in released}
             = {Reading("cleanup_path", r) : r \in sites}
        /\ {Unit(f, "cleanup_path", 1) : f \in bodies}
             = {Reading("cleanup_path", r) : r \in bodies}
    <3>1. /\ \A f \in Fns : LabelIn(f) \notin Fns
          /\ \A f \in Called : SiteOf(f) \notin Fns
      BY RetrievalAssumption DEF CodeRegions
    <3>2. /\ \A f \in Fns :
               /\ Unit(LabelIn(f), "cleanup_path", 0) = Reading("cleanup_path", LabelIn(f))
               /\ Unit(f, "cleanup_path", 1) = Reading("cleanup_path", f)
          /\ \A f \in Called :
               Unit(SiteOf(f), "cleanup_path", 0) = Reading("cleanup_path", SiteOf(f))
      BY <3>1 DEF Unit, UnitOn, Reading
    <3>3. {Unit(LabelIn(f), "cleanup_path", 0) : f \in where}
            = {Reading("cleanup_path", r) : r \in labels}
      <4>1. \A f \in where : Unit(LabelIn(f), "cleanup_path", 0)
                               = Reading("cleanup_path", LabelIn(f))
        BY <2>1, <3>2
      <4>2. QED BY <4>1
    <3>4. {Unit(SiteOf(f), "cleanup_path", 0) : f \in released}
            = {Reading("cleanup_path", r) : r \in sites}
      <4>1. \A f \in released : Unit(SiteOf(f), "cleanup_path", 0)
                                  = Reading("cleanup_path", SiteOf(f))
        BY <2>1, <3>2
      <4> HIDE DEF released
      <4>2. QED BY <4>1
    <3>5. {Unit(f, "cleanup_path", 1) : f \in bodies}
            = {Reading("cleanup_path", r) : r \in bodies}
      <4>1. \A f \in bodies : Unit(f, "cleanup_path", 1) = Reading("cleanup_path", f)
        BY <2>1, <3>2
      <4> HIDE DEF bodies
      <4>2. QED BY <4>1
    <3>6. QED BY <3>3, <3>4, <3>5
  <2>6. Same /\ Rest
    BY <1>0, <1>18 DEF Cleanup, Phases, walk
  <2> HIDE DEF released, labels, sites, bodies
  <2>7. Still({Reading("cleanup_path", r) : r \in labels \cup sites \cup bodies})
    <3>1. IsFiniteSet(labels \cup sites \cup bodies)
      <4>1. IsFiniteSet(labels \cup sites)
        BY <2>3, FS_Union
      <4>2. QED BY <2>3, <4>1, FS_Union
    <3>2. QED BY <1>5, <2>2, <3>1 DEF Walked, Base
  <2>8. Build({Reading("cleanup_path", r) : r \in labels \cup sites \cup bodies})
    <3>1. {Reading("cleanup_path", r) : r \in labels \cup sites \cup bodies}
            = {Reading("cleanup_path", r) : r \in labels} \cup {Reading("cleanup_path", r) : r \in sites}
                \cup {Reading("cleanup_path", r) : r \in bodies}
      OBVIOUS
    <3>2. QED BY <2>0, <2>5, <3>1
  <2>9. QED BY <1>2, <2>6, <2>7, <2>8
<1>19. CASE FlowUnits
  <2>1. Build({UnitOn(f, "flow_function", 1, TRUE) : f \in candidate.flow \ {Here}})
    BY <1>19 DEF FlowUnits
  <2>2. \A f : UnitOn(f, "flow_function", 1, TRUE) = Reading("flow_function", f)
    BY DEF Unit, UnitOn, Reading
  <2> DEFINE others == candidate.flow \ {Here}
  <2>3. IsFiniteSet(others) /\ others \subseteq Regions \ {None}
    BY <1>1, <1>7, <1>8
  <2>4. Same /\ Rest
    BY <1>0, <1>19 DEF FlowUnits, Phases, walk
  <2> HIDE DEF others
  <2>5. Still({Reading("flow_function", f) : f \in others})
    BY <1>5, <2>3 DEF Walked, Base
  <2>6. Build({Reading("flow_function", f) : f \in others})
    BY <2>1, <2>2 DEF others
  <2>7. QED BY <1>2, <2>4, <2>5, <2>6
<1>20. CASE AnalyzerMessages
  <2>1. Same /\ Rest
    BY <1>0, <1>20 DEF AnalyzerMessages, Phases, walk
  <2>2. UnitOn(candidate.site, "analyzer_message", 0, FALSE)
          = Reading("analyzer_message", candidate.site)
    BY DEF Unit, UnitOn, Reading
  <2>3. Still({Reading("analyzer_message", candidate.site)})
    BY <1>4, <1>7 DEF Base, Walked
  <2>4. Build({Reading("analyzer_message", candidate.site)})
    BY <1>20, <2>2 DEF AnalyzerMessages
  <2>5. QED BY <1>2, <2>1, <2>3, <2>4
<1>21. CASE SelectPrimary \/ FitOptional \/ Finish \/ UNCHANGED vars
  <2>1. Same /\ Rest /\ UNCHANGED <<units, gaps>>
    BY <1>0, <1>21 DEF SelectPrimary, FitOptional, Finish, vars, walk, Phases, inputs
  <2>2. QED BY <1>3, <2>1
<1>22. QED
  BY <1>9, <1>10, <1>11, <1>12, <1>13, <1>14, <1>15, <1>16, <1>17, <1>18, <1>19, <1>20, <1>21
     DEF Next

-----------------------------------------------------------------------------
(* What a walk has collected: kept by what collects other roles, more by a *)
(* hop, and all there is at the end.                                       *)
LEMMA ExactlyKept ==
  ASSUME NEW us, NEW vs, NEW role, NEW k, NEW h, NEW out, Exactly(us, role, k, h, out),
         us \subseteq vs, \A u \in vs : u.role = role => u \in us
  PROVE  Exactly(vs, role, k, h, out)
  BY DEF Exactly

(* One hop more.                                                           *)
LEMMA ExactlyHop ==
  ASSUME NEW us, NEW vs, NEW role, NEW k, NEW h \in Nat, NEW out, Exactly(us, role, k, h, out),
         us \subseteq vs,
         \A u \in vs \ us : u.role = role => u.depth = h + 1 /\ u.region \in Last(k, h + 1) \ out,
         \A x \in Last(k, h + 1) \ out : \E u \in vs : u.role = role /\ u.region = x
                                                         /\ u.depth = h + 1
  PROVE  Exactly(vs, role, k, h + 1, out)
<1> DEFINE g == h + 1
<1>1. /\ g \in Nat /\ g \in 1..g /\ 1..h \subseteq 1..g
      /\ \A n \in 1..g : n \in 1..h \/ n = g
  OBVIOUS
<1> HIDE DEF g
<1>2. ASSUME NEW u \in vs, u.role = role
      PROVE  u.depth \in 1..g /\ u.region \in Last(k, u.depth) \ out
  <2>1. CASE u \in us
    BY <1>1, <1>2, <2>1 DEF Exactly
  <2>2. CASE u \notin us
    BY <1>1, <1>2, <2>2 DEF g
  <2>3. QED BY <2>1, <2>2
<1>3. ASSUME NEW n \in 1..g, NEW x \in Last(k, n) \ out
      PROVE  \E u \in vs : u.role = role /\ u.region = x /\ u.depth = n
  <2>1. CASE n \in 1..h
    BY <1>3, <2>1 DEF Exactly
  <2>2. CASE n = g
    BY <1>3, <2>2 DEF g
  <2>3. QED BY <1>1, <2>1, <2>2
<1>4. Exactly(vs, role, k, g, out)
  BY <1>2, <1>3 DEF Exactly
<1>5. QED BY <1>4 DEF g

(* The end of the walk, be it the limit or nothing new.                    *)
LEMMA ExactlyEnd ==
  ASSUME NEW us, NEW role, NEW k, NEW start, NEW edges, NEW among, NEW limit \in Nat,
         IsAround(k, start, edges, among, limit), NEW h \in 0..limit, NEW out,
         Exactly(us, role, k, h, out), h = limit \/ Last(k, h) = {}
  PROVE  Exactly(us, role, k, limit, out)
<1>1. CASE h = limit
  BY <1>1
<1>2. CASE Last(k, h) = {}
  <2>1. \A m \in h..limit : Last(k, m) = {}
    BY <1>2, AroundStops
  <2>2. 1..h \subseteq 1..limit /\ \A n \in 1..limit : n \in 1..h \/ n \in h..limit
    OBVIOUS
  <2>3. QED BY <2>1, <2>2 DEF Exactly
<1>3. QED BY <1>1, <1>2

(* The three walks, and one hop of each.                                   *)
LEMMA Arounds ==
  /\ IsAround(TypesAround, Here, index.types, TypeNames, TypeDepth)
  /\ IsAround(CallersAround, Here, Reversed, Fns, CallerDepth)
  /\ IsAround(CalleesAround, Here, index.calls, Fns, CalleeDepth)
  /\ TypeDepth \in Nat /\ CallerDepth \in Nat /\ CalleeDepth \in Nat
<1>1. TypeDepth \in Nat /\ CallerDepth \in Nat /\ CalleeDepth \in Nat
  BY RetrievalAssumption
<1>2. QED BY <1>1, AroundIs DEF TypesAround, CallersAround, CalleesAround

(* One hop of the closure over types.                                      *)
LEMMA TypesHops ==
  ASSUME WalksKnown, phase = "types", hop < TypeDepth
  PROVE  LET next == (UNION {TypesOf(s) : s \in frontier}) \ seen
         IN seen \cup next = TypesAround[hop + 1] /\ next = Last(TypesAround, hop + 1)
<1>1. hop \in Nat /\ seen = TypesAround[hop] /\ frontier = Last(TypesAround, hop)
  BY DEF WalksKnown, AtHop
<1>2. UNION {TypesOf(s) : s \in frontier} = NextTo(frontier, index.types, TypeNames)
  <2>1. \A t : t \in UNION {TypesOf(s) : s \in frontier} <=> \E s \in frontier : t \in TypesOf(s)
    OBVIOUS
  <2>2. QED BY <2>1 DEF TypesOf, NextTo
<1> DEFINE next == NextTo(frontier, index.types, TypeNames) \ seen
<1>3. seen \cup next = TypesAround[hop + 1] /\ next = Last(TypesAround, hop + 1)
  BY <1>1, Arounds, AroundStep
<1>4. QED BY <1>2, <1>3

WalkAround == IF phase = "callers" THEN CallersAround ELSE CalleesAround

(* One hop of callers or of callees.                                       *)
LEMMA WalkHops ==
  ASSUME CollectedKnown, WalksKnown, phase \in {"callers", "callees"}, hop < DepthLimit
  PROVE  /\ hop \in Nat /\ seen = WalkAround[hop] /\ frontier = Last(WalkAround, hop)
         /\ LET next == (UNION {Neighbours(f) : f \in frontier}) \ seen
            IN seen \cup next = WalkAround[hop + 1] /\ next = Last(WalkAround, hop + 1)
<1> DEFINE edges == IF phase = "callers" THEN Reversed ELSE index.calls
<1>1. /\ IsAround(WalkAround, Here, edges, Fns, DepthLimit) /\ DepthLimit \in Nat
  BY Arounds DEF WalkAround, DepthLimit
<1>2. hop \in Nat /\ seen = WalkAround[hop] /\ frontier = Last(WalkAround, hop)
  BY DEF WalksKnown, AtHop, WalkAround
<1>0. \A g : g \in UNION {Neighbours(f) : f \in frontier}
              <=> \E f \in frontier : g \in Neighbours(f)
  OBVIOUS
<1>3. UNION {Neighbours(f) : f \in frontier} = NextTo(frontier, edges, Fns)
  <2>1. CASE phase = "callers"
    <3>1. \A f, g : <<f, g>> \in Reversed <=> <<g, f>> \in index.calls
      <4>1. index.calls \subseteq Fns \X (Fns \cup {Unknown})
        BY GivenFacts DEF Finds, Called
      <4>2. ASSUME NEW f, NEW g, <<f, g>> \in Reversed PROVE <<g, f>> \in index.calls
        <5>1. PICK e \in index.calls : <<f, g>> = <<e[2], e[1]>>
          BY <4>2 DEF Reversed
        <5>2. e = <<e[1], e[2]>>
          BY <4>1
        <5>3. QED BY <5>1, <5>2
      <4>3. ASSUME NEW f, NEW g, <<g, f>> \in index.calls PROVE <<f, g>> \in Reversed
        <5>1. <<g, f>>[2] = f /\ <<g, f>>[1] = g
          OBVIOUS
        <5>2. QED BY <4>3, <5>1 DEF Reversed
      <4>4. QED BY <4>2, <4>3
    <3>2. \A f : Neighbours(f) = {g \in Fns : <<f, g>> \in Reversed}
      BY <2>1, <3>1 DEF Neighbours, Callers
    <3>3. QED BY <1>0, <2>1, <3>2 DEF NextTo
  <2>2. CASE phase = "callees"
    <3>1. \A f : Neighbours(f) = {g \in Fns : <<f, g>> \in index.calls}
      BY <2>2 DEF Neighbours, Callees
    <3>2. QED BY <1>0, <2>2, <3>1 DEF NextTo
  <2>3. QED BY <2>1, <2>2
<1> DEFINE next == NextTo(frontier, edges, Fns) \ seen
<1> HIDE DEF edges
<1>4. seen \cup next = WalkAround[hop + 1] /\ next = Last(WalkAround, hop + 1)
  BY <1>1, <1>2, AroundStep
<1>5. QED BY <1>2, <1>3, <1>4

(* What a step means for the three walks.                                  *)
LEMMA WalksOf ==
  ASSUME CollectedKnown, UNCHANGED inputs,
         Exactly(units', "type_decl", TypesAround, TypesHop', Unseen \cup lost),
         Exactly(units', "caller", CallersAround, CallersHop', Outside \cup BodyLess \cup lost),
         Exactly(units', "callee", CalleesAround, CalleesHop', Outside \cup BodyLess \cup lost),
         phase' = "types" => /\ hop' \in 0..TypeDepth /\ seen' = TypesAround[hop']
                             /\ frontier' = Last(TypesAround, hop'),
         phase' = "callers" => /\ hop' \in 0..CallerDepth /\ seen' = CallersAround[hop']
                               /\ frontier' = Last(CallersAround, hop'),
         phase' = "callees" => /\ hop' \in 0..CalleeDepth /\ seen' = CalleesAround[hop']
                               /\ frontier' = Last(CalleesAround, hop')
  PROVE  WalksKnown'
<1>1. /\ lost' = lost /\ TypesAround' = TypesAround /\ CallersAround' = CallersAround
      /\ CalleesAround' = CalleesAround
  BY GivenKept
<1>2. /\ Exactly(units, "type_decl", TypesAround, TypesHop, Unseen \cup lost)'
      /\ Exactly(units, "caller", CallersAround, CallersHop, Outside \cup BodyLess \cup lost)'
      /\ Exactly(units, "callee", CalleesAround, CalleesHop, Outside \cup BodyLess \cup lost)'
  BY <1>1
<1>3. /\ phase' = "types" => AtHop(TypesAround, TypeDepth)'
      /\ phase' = "callers" => AtHop(CallersAround, CallerDepth)'
      /\ phase' = "callees" => AtHop(CalleesAround, CalleeDepth)'
  BY <1>1 DEF AtHop
<1>4. QED BY <1>2, <1>3 DEF WalksKnown

(* Most steps collect nothing on a walk.                                   *)
LEMMA WalksStay ==
  ASSUME CollectedKnown, WalksKnown, UNCHANGED inputs,
         units \subseteq units', \A u \in units' \ units : u.role \notin Walked,
         TypesHop' = TypesHop, CallersHop' = CallersHop, CalleesHop' = CalleesHop
  PROVE  /\ Exactly(units', "type_decl", TypesAround, TypesHop', Unseen \cup lost)
         /\ Exactly(units', "caller", CallersAround, CallersHop', Outside \cup BodyLess \cup lost)
         /\ Exactly(units', "callee", CalleesAround, CalleesHop', Outside \cup BodyLess \cup lost)
<1>1. \A role \in Walked : \A u \in units' : u.role = role => u \in units
  OBVIOUS
<1>2. "type_decl" \in Walked /\ "caller" \in Walked /\ "callee" \in Walked
  BY DEF Walked
<1>3. /\ Exactly(units, "type_decl", TypesAround, TypesHop, Unseen \cup lost)
      /\ Exactly(units, "caller", CallersAround, CallersHop, Outside \cup BodyLess \cup lost)
      /\ Exactly(units, "callee", CalleesAround, CalleesHop, Outside \cup BodyLess \cup lost)
  BY DEF WalksKnown
<1>4. QED BY <1>1, <1>2, <1>3, ExactlyKept

(* Building adds units of a role.                                          *)
LEMMA BuiltRoles ==
  ASSUME NEW us, Build(us), NEW role, \A u \in us : u.role = role
  PROVE  units \subseteq units' /\ \A u \in units' \ units : u.role = role
  BY DEF Build

(* What a unit is of.                                                      *)
LEMMA UnitIs ==
  \A r, role, d : /\ Unit(r, role, d).role = role /\ Unit(r, role, d).region = r
                  /\ Unit(r, role, d).depth = d
  BY DEF Unit, UnitOn

(* What is built of a set of regions in one role.                          *)
UnitsAt(S, role, d) == {Unit(r, role, d) : r \in S}

LEMMA UnitsOf ==
  ASSUME NEW S, NEW role, NEW d
  PROVE  /\ \A u \in UnitsAt(S, role, d) : u.role = role /\ u.depth = d /\ u.region \in S
         /\ \A r \in S : \E u \in UnitsAt(S, role, d) :
              u.role = role /\ u.depth = d /\ u.region = r
<1>1. ASSUME NEW r \in S
      PROVE  \E u \in UnitsAt(S, role, d) : u.role = role /\ u.depth = d /\ u.region = r
  <2>1. Unit(r, role, d) \in UnitsAt(S, role, d)
    BY DEF UnitsAt
  <2>2. QED BY <2>1, UnitIs
<1>2. QED BY <1>1, UnitIs DEF UnitsAt

(* Where a walk begins.                                                    *)
LEMMA WalkBegins ==
  ASSUME NEW k, NEW start, NEW edges, NEW among, NEW limit \in Nat,
         IsAround(k, start, edges, among, limit)
  PROVE  0 \in 0..limit /\ k[0] = {start} /\ Last(k, 0) = {start}
  BY DEF IsAround, Last

(* What the last stages collect.                                           *)
LEMMA LateUnits ==
  ASSUME Cleanup \/ FlowUnits \/ AnalyzerMessages \/ SelectPrimary \/ FitOptional \/ Finish
  PROVE  /\ units \subseteq units'
         /\ \A u \in units' \ units :
              u.role \in {"cleanup_path", "flow_function", "analyzer_message"}
<1>1. CASE Cleanup
  <2> DEFINE released == {f \in Called \cap Releasing : <<Here, f>> \in index.calls}
             bodies == released \ (Outside \cup BodyLess \cup {Unknown})
             rest == {Unit(SiteOf(f), "cleanup_path", 0) : f \in released}
                       \cup {Unit(f, "cleanup_path", 1) : f \in bodies}
  <2>0. PICK where \in LabelsIn(Here) :
           Build({Unit(LabelIn(f), "cleanup_path", 0) : f \in where}
                   \cup {Unit(SiteOf(f), "cleanup_path", 0) : f \in released}
                   \cup {Unit(f, "cleanup_path", 1) : f \in bodies})
    BY <1>1 DEF Cleanup
  <2> DEFINE us == {Unit(LabelIn(f), "cleanup_path", 0) : f \in where} \cup rest
  <2>1. Build(us)
    BY <2>0
  <2>2. \A u \in us : u.role = "cleanup_path"
    <3>1. \A f, n : Unit(f, "cleanup_path", n).role = "cleanup_path"
      BY UnitIs
    <3> HIDE DEF released, bodies
    <3>2. QED BY <3>1
  <2> HIDE DEF us
  <2>3. QED BY <2>1, <2>2, BuiltRoles
<1>2. CASE FlowUnits
  <2> DEFINE us == {UnitOn(f, "flow_function", 1, TRUE) : f \in candidate.flow \ {Here}}
  <2>1. Build(us)
    BY <1>2 DEF FlowUnits
  <2>2. \A u \in us : u.role = "flow_function"
    BY DEF UnitOn
  <2> HIDE DEF us
  <2>3. QED BY <2>1, <2>2, BuiltRoles
<1>3. CASE AnalyzerMessages
  <2> DEFINE us == {UnitOn(candidate.site, "analyzer_message", 0, FALSE)}
  <2>1. Build(us) /\ \A u \in us : u.role = "analyzer_message"
    BY <1>3 DEF AnalyzerMessages, UnitOn
  <2> HIDE DEF us
  <2>2. QED BY <2>1, BuiltRoles
<1>4. CASE SelectPrimary \/ FitOptional \/ Finish
  BY <1>4 DEF SelectPrimary, FitOptional, Finish
<1>5. QED BY <1>1, <1>2, <1>3, <1>4

(* Each step leaves the three walks exact.                                 *)
LEMMA WalksStep ==
  ASSUME CollectedKnown, WalksKnown, [Next]_vars
  PROVE  WalksKnown'
<1>1. /\ phase \in Phases /\ hop \in 0..16
      /\ phase \in {"types", "macros", "callers", "callees", "cleanup"} => Structured
      /\ phase = "types" => AtHop(TypesAround, TypeDepth)
      /\ phase = "callers" => AtHop(CallersAround, CallerDepth)
      /\ phase = "callees" => AtHop(CalleesAround, CalleeDepth)
  BY DEF CollectedKnown, WalksKnown
<1>2. /\ Exactly(units, "type_decl", TypesAround, TypesHop, Unseen \cup lost)
      /\ Exactly(units, "caller", CallersAround, CallersHop, Outside \cup BodyLess \cup lost)
      /\ Exactly(units, "callee", CalleesAround, CalleesHop, Outside \cup BodyLess \cup lost)
  BY DEF WalksKnown
<1>3. /\ "containing_function" \notin Walked /\ "candidate_site" \notin Walked
      /\ "flat_window" \notin Walked /\ "flow_function" \notin Walked
      /\ "macro_def" \notin Walked /\ "global_decl" \notin Walked
      /\ "cleanup_path" \notin Walked /\ "analyzer_message" \notin Walked
  BY DEF Walked
<1>4. UNCHANGED inputs => Structured' = Structured
  BY GivenKept
<1>5. CASE Containing
  <2>1. units \subseteq units' /\ \A u \in units' \ units : u.role = "containing_function"
    <3> DEFINE one == {UnitOn(Here, "containing_function", 0, TRUE)}
    <3>1. (\A u \in one : u.role = "containing_function") /\ Build(one)
      BY <1>5 DEF Containing, UnitOn
    <3> HIDE DEF one
    <3>2. QED BY <3>1, BuiltRoles
  <2>2. UNCHANGED inputs
    BY <1>5 DEF Containing
  <2>3. TypesHop' = TypesHop /\ CallersHop' = CallersHop /\ CalleesHop' = CalleesHop
    BY <1>4, <1>5, <2>2 DEF Containing, TypesHop, CallersHop, CalleesHop, Hops
  <2>4. phase' = "types" /\ hop' = 0 /\ seen' = {Here} /\ frontier' = {Here}
    BY <1>5 DEF Containing
  <2>5. QED BY <1>3, <2>1, <2>2, <2>3, <2>4, WalksStay, WalksOf, Arounds, WalkBegins
<1>6. CASE NoFunction
  <2>1. /\ units \subseteq units'
        /\ \A u \in units' \ units : u.role = "containing_function" \/ u.role = "candidate_site"
    <3> DEFINE one == {UnitOn(candidate.enclosing, "containing_function", 0, FALSE)}
               other == {UnitOn(candidate.site, "candidate_site", 0, FALSE)}
    <3>1. /\ \A u \in one : u.role = "containing_function"
          /\ \A u \in other : u.role = "candidate_site"
      BY DEF UnitOn
    <3>2. Build(one) \/ Build(other)
      BY <1>6 DEF NoFunction
    <3> HIDE DEF one, other
    <3>3. QED BY <3>1, <3>2, BuiltRoles
  <2>2. UNCHANGED inputs /\ phase' = "flow"
    BY <1>6 DEF NoFunction
  <2>3. ~Structured
    BY <1>6 DEF NoFunction, Structured
  <2>4. TypesHop' = TypesHop /\ CallersHop' = CallersHop /\ CalleesHop' = CalleesHop
    BY <1>4, <2>2, <2>3 DEF TypesHop, CallersHop, CalleesHop, Hops
  <2>5. QED BY <1>3, <2>1, <2>2, <2>4, WalksStay, WalksOf
<1>7. CASE FlatWindow
  <2>1. units \subseteq units' /\ \A u \in units' \ units : u.role = "flat_window"
    <3> DEFINE one == {UnitOn(Window, "flat_window", 0, TRUE)}
    <3>1. units' = units \/ Build(one)
      BY <1>7 DEF FlatWindow
    <3>2. \A u \in one : u.role = "flat_window"
      BY DEF UnitOn
    <3> HIDE DEF one
    <3>3. QED BY <3>1, <3>2, BuiltRoles
  <2>2. UNCHANGED inputs /\ phase' = "messages"
    BY <1>7 DEF FlatWindow
  <2>3. ~Structured
    BY <1>7 DEF FlatWindow, Structured
  <2>4. TypesHop' = TypesHop /\ CallersHop' = CallersHop /\ CalleesHop' = CalleesHop
    BY <1>4, <2>2, <2>3 DEF TypesHop, CallersHop, CalleesHop, Hops
  <2>5. QED BY <1>3, <2>1, <2>2, <2>4, WalksStay, WalksOf
<1>8. CASE Types
  <2> DEFINE next == (UNION {TypesOf(s) : s \in frontier}) \ seen
             new == {Unit(t, "type_decl", hop + 1) : t \in next \ Unseen}
  <2>1. /\ phase = "types" /\ phase' = "types" /\ hop < TypeDepth /\ hop' = hop + 1
        /\ seen' = seen \cup next /\ frontier' = next /\ Build(new) /\ UNCHANGED inputs
    BY <1>8 DEF Types
  <2>2. seen' = TypesAround[hop + 1] /\ frontier' = Last(TypesAround, hop + 1)
        /\ next = Last(TypesAround, hop + 1)
    BY <2>1, TypesHops
  <2>3. /\ \A u \in new : u.role = "type_decl" /\ u.depth = hop + 1 /\ u.region \in next \ Unseen
        /\ \A t \in next \ Unseen : \E u \in new : u.role = "type_decl" /\ u.depth = hop + 1
                                                     /\ u.region = t
    <3> DEFINE S == next \ Unseen
    <3> HIDE DEF next
    <3>1. new = UnitsAt(S, "type_decl", hop + 1)
      BY DEF UnitsAt
    <3> HIDE DEF S, new
    <3>2. /\ \A u \in new : u.role = "type_decl" /\ u.depth = hop + 1 /\ u.region \in S
          /\ \A t \in S : \E u \in new : u.role = "type_decl" /\ u.depth = hop + 1 /\ u.region = t
      BY <3>1, UnitsOf
    <3>3. QED BY <3>2 DEF S
  <2> HIDE DEF next, new
  <2>4. /\ units \subseteq units'
        /\ \A u \in units' \ units : u \in new /\ u.region \notin lost
        /\ \A u \in new : u.region \notin lost => u \in units'
    BY <2>1 DEF Build, Readable
  <2>5. Structured /\ hop \in Nat
    BY <1>1, <2>1
  <2>6. TypesHop = hop /\ TypesHop' = hop + 1 /\ CallersHop' = 0 /\ CalleesHop' = 0
        /\ CallersHop = 0 /\ CalleesHop = 0
    BY <1>4, <2>1, <2>5 DEF TypesHop, CallersHop, CalleesHop, Hops
  <2>7. Exactly(units', "type_decl", TypesAround, hop + 1, Unseen \cup lost)
    <3>1. \A u \in units' \ units : u.role = "type_decl" =>
            u.depth = hop + 1 /\ u.region \in Last(TypesAround, hop + 1) \ (Unseen \cup lost)
      BY <2>2, <2>3, <2>4
    <3>2. ASSUME NEW x \in Last(TypesAround, hop + 1) \ (Unseen \cup lost)
          PROVE  \E u \in units' : u.role = "type_decl" /\ u.region = x /\ u.depth = hop + 1
      BY <2>2, <2>3, <2>4
    <3>3. QED BY <1>2, <2>4, <2>5, <2>6, <3>1, <3>2, ExactlyHop
  <2>8. /\ Exactly(units', "caller", CallersAround, 0, Outside \cup BodyLess \cup lost)
        /\ Exactly(units', "callee", CalleesAround, 0, Outside \cup BodyLess \cup lost)
    <3>1. \A u \in units' : u.role \in {"caller", "callee"} => u \in units
      BY <2>3, <2>4
    <3>2. QED BY <1>2, <2>4, <2>6, <3>1, ExactlyKept
  <2>9. hop' \in 0..TypeDepth
    BY <2>1, <2>5, RetrievalAssumption
  <2>10. QED BY <2>1, <2>2, <2>6, <2>7, <2>8, <2>9, WalksOf
<1>9. CASE TypesDone
  <2>1. /\ phase = "types" /\ phase' = "macros" /\ units' = units /\ UNCHANGED inputs
        /\ (hop = TypeDepth \/ frontier = {})
    BY <1>9 DEF TypesDone
  <2>2. Structured /\ hop \in 0..TypeDepth /\ frontier = Last(TypesAround, hop)
    BY <1>1, <2>1 DEF AtHop
  <2>3. TypesHop = hop /\ TypesHop' = TypeDepth /\ CallersHop' = CallersHop /\ CalleesHop' = CalleesHop
    BY <1>4, <2>1, <2>2 DEF TypesHop, CallersHop, CalleesHop, Hops
  <2>4. Exactly(units, "type_decl", TypesAround, TypeDepth, Unseen \cup lost)
    BY <1>2, <2>1, <2>2, <2>3, ExactlyEnd, Arounds
  <2>5. QED BY <1>2, <2>1, <2>3, <2>4, WalksOf
<1>10. CASE Macros
  <2>1. units \subseteq units' /\ \A u \in units' \ units : u.role = "macro_def"
    <3> DEFINE S == MacrosIn(Head(pending)) \ seen
               us == {Unit(m, "macro_def", 1) : m \in S}
    <3>1. Build(us)
      BY <1>10 DEF Macros
    <3>2. \A u \in us : u.role = "macro_def"
      BY UnitIs
    <3> HIDE DEF us
    <3>3. QED BY <3>1, <3>2, BuiltRoles
  <2>2. UNCHANGED inputs /\ UNCHANGED <<phase, hop>> /\ phase = "macros"
    BY <1>10 DEF Macros
  <2>3. TypesHop' = TypesHop /\ CallersHop' = CallersHop /\ CalleesHop' = CalleesHop
    BY <1>4, <2>2 DEF TypesHop, CallersHop, CalleesHop, Hops
  <2>4. QED BY <1>3, <2>1, <2>2, <2>3, WalksStay, WalksOf
<1>11. CASE Globals
  <2>1. units \subseteq units' /\ \A u \in units' \ units : u.role = "global_decl"
    <3> DEFINE us == {Unit(g, "global_decl", 1) : g \in GlobalsOf(Here) \ Unseen}
    <3>1. Build(us)
      BY <1>11 DEF Globals
    <3>2. \A u \in us : u.role = "global_decl"
      BY UnitIs
    <3> HIDE DEF us
    <3>3. QED BY <3>1, <3>2, BuiltRoles
  <2>2. /\ UNCHANGED inputs /\ phase = "macros" /\ phase' = "callers" /\ hop' = 0
        /\ seen' = {Here} /\ frontier' = {Here}
    BY <1>11 DEF Globals
  <2>3. TypesHop' = TypesHop /\ CallersHop' = CallersHop /\ CalleesHop' = CalleesHop
    BY <1>4, <2>2 DEF TypesHop, CallersHop, CalleesHop, Hops
  <2>4. QED BY <1>3, <2>1, <2>2, <2>3, WalksStay, WalksOf, Arounds, WalkBegins
<1>12. CASE Walk
  <2> DEFINE next == (UNION {Neighbours(f) : f \in frontier}) \ seen
             new == {Unit(f, RoleOfWalk, hop + 1) : f \in (next \ Outside) \ BodyLess}
  <2>1. /\ phase \in {"callers", "callees"} /\ phase' = phase /\ hop < DepthLimit /\ hop' = hop + 1
        /\ seen' = seen \cup next /\ frontier' = next /\ Build(new) /\ UNCHANGED inputs
    BY <1>12 DEF Walk, Meets
  <2>2. /\ seen' = WalkAround[hop + 1] /\ frontier' = Last(WalkAround, hop + 1)
        /\ next = Last(WalkAround, hop + 1) /\ hop \in Nat
    BY <2>1, WalkHops
  <2>3. /\ \A u \in new : u.role = RoleOfWalk /\ u.depth = hop + 1
                            /\ u.region \in (next \ Outside) \ BodyLess
        /\ \A f \in (next \ Outside) \ BodyLess :
             \E u \in new : u.role = RoleOfWalk /\ u.depth = hop + 1 /\ u.region = f
    <3> DEFINE S == (next \ Outside) \ BodyLess
    <3> HIDE DEF next
    <3>1. new = UnitsAt(S, RoleOfWalk, hop + 1)
      BY DEF UnitsAt
    <3> HIDE DEF S, new
    <3>2. /\ \A u \in new : u.role = RoleOfWalk /\ u.depth = hop + 1 /\ u.region \in S
          /\ \A f \in S : \E u \in new : u.role = RoleOfWalk /\ u.depth = hop + 1 /\ u.region = f
      BY <3>1, UnitsOf
    <3>3. QED BY <3>2 DEF S
  <2> HIDE DEF next, new
  <2>4. /\ units \subseteq units'
        /\ \A u \in units' \ units : u \in new /\ u.region \notin lost
        /\ \A u \in new : u.region \notin lost => u \in units'
    BY <2>1 DEF Build, Readable
  <2>5. Structured
    BY <1>1, <2>1
  <2>6. /\ \A u \in units' \ units : u.role = RoleOfWalk =>
             /\ u.depth = hop + 1
             /\ u.region \in Last(WalkAround, hop + 1) \ (Outside \cup BodyLess \cup lost)
        /\ \A x \in Last(WalkAround, hop + 1) \ (Outside \cup BodyLess \cup lost) :
             \E u \in units' : u.role = RoleOfWalk /\ u.region = x /\ u.depth = hop + 1
    BY <2>2, <2>3, <2>4
  <2>7. hop' \in 0..DepthLimit
    BY <2>1, <2>2, RetrievalAssumption DEF DepthLimit
  <2>8. CASE phase = "callers"
    <3>1. WalkAround = CallersAround /\ RoleOfWalk = "caller" /\ DepthLimit = CallerDepth
      BY <2>8 DEF WalkAround, RoleOfWalk, DepthLimit
    <3>2. /\ CallersHop = hop /\ CallersHop' = hop + 1 /\ TypesHop' = TypesHop
          /\ CalleesHop' = CalleesHop
      BY <1>4, <2>1, <2>5, <2>8 DEF TypesHop, CallersHop, CalleesHop, Hops
    <3>3. Exactly(units', "caller", CallersAround, hop + 1, Outside \cup BodyLess \cup lost)
      BY <1>2, <2>2, <2>4, <2>6, <3>1, <3>2, ExactlyHop
    <3>4. \A u \in units' : u.role \in {"type_decl", "callee"} => u \in units
      BY <2>3, <2>4, <3>1
    <3>5. /\ Exactly(units', "type_decl", TypesAround, TypesHop', Unseen \cup lost)
          /\ Exactly(units', "callee", CalleesAround, CalleesHop', Outside \cup BodyLess \cup lost)
      BY <1>2, <2>4, <3>2, <3>4, ExactlyKept
    <3>6. QED BY <2>1, <2>2, <2>7, <2>8, <3>1, <3>2, <3>3, <3>5, WalksOf
  <2>9. CASE phase = "callees"
    <3>1. WalkAround = CalleesAround /\ RoleOfWalk = "callee" /\ DepthLimit = CalleeDepth
      BY <2>9 DEF WalkAround, RoleOfWalk, DepthLimit
    <3>2. /\ CalleesHop = hop /\ CalleesHop' = hop + 1 /\ TypesHop' = TypesHop
          /\ CallersHop' = CallersHop
      BY <1>4, <2>1, <2>5, <2>9 DEF TypesHop, CallersHop, CalleesHop, Hops
    <3>3. Exactly(units', "callee", CalleesAround, hop + 1, Outside \cup BodyLess \cup lost)
      BY <1>2, <2>2, <2>4, <2>6, <3>1, <3>2, ExactlyHop
    <3>4. \A u \in units' : u.role \in {"type_decl", "caller"} => u \in units
      BY <2>3, <2>4, <3>1
    <3>5. /\ Exactly(units', "type_decl", TypesAround, TypesHop', Unseen \cup lost)
          /\ Exactly(units', "caller", CallersAround, CallersHop', Outside \cup BodyLess \cup lost)
      BY <1>2, <2>4, <3>2, <3>4, ExactlyKept
    <3>6. QED BY <2>1, <2>2, <2>7, <2>9, <3>1, <3>2, <3>3, <3>5, WalksOf
  <2>10. QED BY <2>1, <2>8, <2>9
<1>13. CASE WalkDone
  <2>1. /\ phase \in {"callers", "callees"} /\ (hop = DepthLimit \/ frontier = {})
        /\ phase' = IF phase = "callers" THEN "callees" ELSE "cleanup"
        /\ units' = units /\ UNCHANGED inputs /\ hop' = 0 /\ seen' = {Here} /\ frontier' = {Here}
    BY <1>13 DEF WalkDone
  <2>2. Structured
    BY <1>1, <2>1
  <2>3. CASE phase = "callers"
    <3>1. hop \in 0..CallerDepth /\ (hop = CallerDepth \/ Last(CallersAround, hop) = {})
      BY <1>1, <2>1, <2>3 DEF AtHop, DepthLimit
    <3>2. /\ CallersHop = hop /\ CallersHop' = CallerDepth /\ TypesHop' = TypesHop
          /\ CalleesHop' = CalleesHop
      BY <1>4, <2>1, <2>2, <2>3 DEF TypesHop, CallersHop, CalleesHop, Hops
    <3>3. Exactly(units, "caller", CallersAround, CallerDepth, Outside \cup BodyLess \cup lost)
      BY <1>1, <1>2, <2>3, <3>1, <3>2, ExactlyEnd, Arounds DEF AtHop
    <3>4. QED BY <1>2, <2>1, <2>3, <3>2, <3>3, WalksOf, Arounds, WalkBegins
  <2>4. CASE phase = "callees"
    <3>1. hop \in 0..CalleeDepth /\ (hop = CalleeDepth \/ Last(CalleesAround, hop) = {})
      BY <1>1, <2>1, <2>4 DEF AtHop, DepthLimit
    <3>2. /\ CalleesHop = hop /\ CalleesHop' = CalleeDepth /\ TypesHop' = TypesHop
          /\ CallersHop' = CallersHop
      BY <1>4, <2>1, <2>2, <2>4 DEF TypesHop, CallersHop, CalleesHop, Hops
    <3>3. Exactly(units, "callee", CalleesAround, CalleeDepth, Outside \cup BodyLess \cup lost)
      BY <1>1, <1>2, <2>4, <3>1, <3>2, ExactlyEnd, Arounds DEF AtHop
    <3>4. QED BY <1>2, <2>1, <2>4, <3>2, <3>3, WalksOf
  <2>5. QED BY <2>1, <2>3, <2>4
<1>14. CASE Cleanup \/ FlowUnits \/ AnalyzerMessages \/ SelectPrimary \/ FitOptional \/ Finish
  <2>1. /\ units \subseteq units'
        /\ \A u \in units' \ units : u.role \in {"cleanup_path", "flow_function", "analyzer_message"}
    BY <1>14, LateUnits
  <2>2. /\ UNCHANGED inputs /\ phase \in PastCallees /\ phase' \in PastCallees
    BY <1>14 DEF Cleanup, FlowUnits, AnalyzerMessages, SelectPrimary, FitOptional, Finish, PastCallees
  <2>3. TypesHop' = TypesHop /\ CallersHop' = CallersHop /\ CalleesHop' = CalleesHop
    BY <1>4, <2>2 DEF TypesHop, CallersHop, CalleesHop, Hops, PastCallees
  <2>4. phase' \notin {"types", "callers", "callees"}
    BY <2>2 DEF PastCallees
  <2>5. QED BY <1>3, <2>1, <2>2, <2>3, <2>4, WalksStay, WalksOf
<1>15. CASE UNCHANGED vars
  <2>1. /\ UNCHANGED inputs /\ UNCHANGED <<phase, hop, seen, frontier, units>>
    BY <1>15 DEF vars, inputs
  <2>2. TypesHop' = TypesHop /\ CallersHop' = CallersHop /\ CalleesHop' = CalleesHop
    BY <1>4, <2>1 DEF TypesHop, CallersHop, CalleesHop, Hops
  <2>3. QED BY <1>1, <1>2, <2>1, <2>2, WalksOf DEF AtHop
<1>16. QED
  BY <1>5, <1>6, <1>7, <1>8, <1>9, <1>10, <1>11, <1>12, <1>13, <1>14, <1>15 DEF Next

-----------------------------------------------------------------------------
(* The closure: what is added to it, and what stays.                       *)
LEMMA OfKept ==
  ASSUME NEW us, NEW vs, us \subseteq vs, NEW role, \A u \in vs \ us : u.role # role
  PROVE  Of(vs, role) = Of(us, role)
  BY DEF Of

(* Building the units of a set of regions in one role.                     *)
LEMMA BuiltAt ==
  ASSUME NEW S, NEW role, NEW d, Build(UnitsAt(S, role, d))
  PROVE  /\ Of(units', role) = Of(units, role) \cup (S \ lost)
         /\ \A other : other # role => Of(units', other) = Of(units, other)
         /\ gaps' = gaps \cup (S \cap lost) /\ units \subseteq units'
<1> DEFINE us == UnitsAt(S, role, d)
<1>1. /\ \A u \in us : u.role = role /\ u.region \in S
      /\ \A r \in S : \E u \in us : u.role = role /\ u.region = r
  BY UnitsOf
<1>2. /\ units' = units \cup {u \in us : u.region \notin lost}
      /\ gaps' = gaps \cup {u.region : u \in {v \in us : v.region \in lost}}
  BY DEF Build, Readable
<1> HIDE DEF us
<1>3. Of(units', role) = Of(units, role) \cup (S \ lost)
  <2>1. ASSUME NEW r \in Of(units', role) PROVE r \in Of(units, role) \cup (S \ lost)
    <3>1. PICK u \in units' : u.role = role /\ u.region = r
      BY DEF Of
    <3>2. QED BY <1>1, <1>2, <3>1 DEF Of
  <2>2. ASSUME NEW r \in S \ lost PROVE r \in Of(units', role)
    <3>1. PICK u \in us : u.role = role /\ u.region = r
      BY <1>1
    <3>2. u \in units'
      BY <1>2, <3>1
    <3>3. QED BY <3>1, <3>2 DEF Of
  <2>3. Of(units, role) \subseteq Of(units', role)
    BY <1>2 DEF Of
  <2>4. QED BY <2>1, <2>2, <2>3
<1>4. ASSUME NEW other, other # role PROVE Of(units', other) = Of(units, other)
  <2>1. units \subseteq units' /\ \A u \in units' \ units : u.role # other
    BY <1>1, <1>2, <1>4
  <2>2. QED BY <2>1, OfKept
<1>5. gaps' = gaps \cup (S \cap lost)
  BY <1>1, <1>2
<1>6. QED BY <1>2, <1>3, <1>4, <1>5

(* A set of regions in the order of the tree.                              *)
LEMMA InTreeHolds ==
  ASSUME NEW S, S \subseteq CodeRegions
  PROVE  InTree(S) \in Seq(CodeRegions) /\ Elements(InTree(S)) = S
<1> DEFINE less == {p \in S \X S : Place[p[1]] < Place[p[2]]}
<1>1. IsFiniteSet(S)
  BY FS_Subset, RetrievalAssumption
<1>2. \A r \in S : Place[r] \in Nat
  BY RetrievalAssumption DEF AllRegions
<1>3. \A r, q \in S : Place[r] = Place[q] => r = q
  BY RetrievalAssumption DEF AllRegions
<1>4. \A r, q : <<r, q>> \in less <=> r \in S /\ q \in S /\ Place[r] < Place[q]
  OBVIOUS
<1>5. InTree(S) = Sorted(S, less)
  BY DEF InTree
<1> HIDE DEF less
<1>6. StrictlyOrders(less, S)
  BY <1>2, <1>3, <1>4 DEF StrictlyOrders
<1>7. Sorted(S, less) \in Seq(S) /\ Elements(Sorted(S, less)) = S
  BY <1>1, <1>6, SortedHolds
<1>8. Seq(S) \subseteq Seq(CodeRegions)
  OBVIOUS
<1>9. QED BY <1>5, <1>7, <1>8

(* Steps that collect no types, macros or globals leave the closure as it  *)
(* is.                                                                     *)
LEMMA ClosureKept ==
  ASSUME CollectedKnown, ClosureKnown, UNCHANGED inputs, units \subseteq units',
         \A u \in units' \ units : u.role \notin {"type_decl", "macro_def", "global_decl"},
         missing' = missing, notes \subseteq notes', TypesHop' = TypesHop,
         phase' \in PastMacros, Structured => phase \in PastMacros
  PROVE  ClosureKnown'
<1>1. /\ Of(units', "type_decl") = Of(units, "type_decl")
      /\ Of(units', "macro_def") = Of(units, "macro_def")
      /\ Of(units', "global_decl") = Of(units, "global_decl")
  BY OfKept
<1>2. /\ Here' = Here /\ Structured' = Structured /\ TypesAround' = TypesAround
      /\ \A r : MacrosIn(r)' = MacrosIn(r)
      /\ GlobalsOf(Here)' = GlobalsOf(Here)
  BY GivenKept
<1>3. Followed(units)' = Followed(units) /\ MacrosFound(units, missing)' = MacrosFound(units, missing)
  BY <1>1, <1>2 DEF Followed, MacrosFound
<1>4. phase' \notin {"containing", "types", "macros"}
  BY DEF PastMacros, PastCallees
<1>5. ASSUME Structured' /\ phase' \in PastMacros
      PROVE  /\ \A r \in Followed(units)' : MacrosIn(r)' \subseteq MacrosFound(units, missing)'
             /\ Of(units', "global_decl") \subseteq GlobalsOf(Here)'
             /\ GlobalsOf(Here)' \subseteq Of(units', "global_decl") \cup Names(missing')
             /\ missing' = {} \/ <<"closure incomplete">> \in notes'
  BY <1>1, <1>2, <1>3, <1>5 DEF ClosureKnown
<1>6. \A t \in TypesAround'[TypesHop'] :
        t = Here' \/ t \in Of(units', "type_decl") \/ t \in Names(missing')
  BY <1>1, <1>2 DEF ClosureKnown
<1>7. QED BY <1>4, <1>5, <1>6 DEF ClosureKnown

(* What cannot be supplied is named as missing.                            *)
LEMMA LackingNames ==
  ASSUME NEW S
  PROVE  /\ S \cap Unseen \subseteq Names(NoRegion(S))
         /\ (S \ Unseen) \cap lost \subseteq Names(Unreadable(S))
  BY Lacking DEF Names

(* Each step keeps what the closure knows.                                 *)
LEMMA ClosureStep ==
  ASSUME CollectedKnown, WalksKnown, ClosureKnown, [Next]_vars
  PROVE  ClosureKnown'
<1>1. /\ phase \in {"types", "macros", "callers", "callees", "cleanup"} => Structured
      /\ TypeNames \subseteq CodeRegions /\ MacroNames \subseteq CodeRegions
      /\ Here \in CodeRegions \cup {None}
  BY GivenFacts DEF CollectedKnown, CodeRegions
<1>2. ASSUME UNCHANGED inputs
      PROVE  /\ Here' = Here /\ Structured' = Structured /\ TypesAround' = TypesAround
             /\ \A r : MacrosIn(r)' = MacrosIn(r)
             /\ GlobalsOf(Here)' = GlobalsOf(Here)
  BY <1>2, GivenKept
<1>3. TypesAround[0] = {Here}
  BY Arounds DEF IsAround
<1>4. CASE Containing
  <2> DEFINE one == UnitOn(Here, "containing_function", 0, TRUE)
  <2>1. Build({one}) /\ UNCHANGED inputs /\ UNCHANGED <<missing, notes>>
    BY <1>4 DEF Containing
  <2>2. phase = "containing" /\ phase' = "types" /\ hop' = 0 /\ pending' = <<Here>> /\ Structured
    BY <1>4 DEF Containing, Structured
  <2>3. one.role = "containing_function"
    BY DEF UnitOn
  <2> HIDE DEF one
  <2>4. units \subseteq units' /\ \A u \in units' \ units : u.role = "containing_function"
    BY <2>1, <2>3 DEF Build
  <2>5. /\ Of(units', "type_decl") = Of(units, "type_decl")
        /\ Of(units', "macro_def") = Of(units, "macro_def")
        /\ Of(units', "global_decl") = Of(units, "global_decl")
    BY <2>4, OfKept
  <2>6. Of(units, "macro_def") = {} /\ Of(units, "global_decl") = {}
    BY <2>2 DEF ClosureKnown
  <2>7. Of(units, "type_decl") = {}
    <3>1. TypesHop = 0
      BY <2>2 DEF TypesHop, Hops
    <3>2. \A u \in units : u.role # "type_decl"
      BY <3>1 DEF WalksKnown, Exactly
    <3>3. QED BY <3>2 DEF Of
  <2>8. pending' \in Seq(CodeRegions) /\ Elements(pending') = {Here}
    BY <1>1, <2>2 DEF Structured, Elements
  <2>9. Followed(units)' = {Here}
    BY <1>2, <2>1, <2>5, <2>6, <2>7 DEF Followed
  <2>10. TypesHop' = 0
    BY <1>2, <2>1, <2>2 DEF TypesHop, Hops
  <2>11. /\ \A t \in TypesAround'[TypesHop'] :
              t = Here' \/ t \in Of(units', "type_decl") \/ t \in Names(missing')
    BY <1>2, <1>3, <2>1, <2>10
  <2>12. QED
    BY <2>2, <2>5, <2>6, <2>8, <2>9, <2>11 DEF ClosureKnown, PastMacros, PastCallees
<1>5. CASE NoFunction \/ FlatWindow
  <2>1. ~Structured /\ UNCHANGED inputs /\ phase' \in {"flow", "messages"}
    BY <1>5 DEF NoFunction, FlatWindow, Structured
  <2>2. TypesHop' = 0
    BY <1>2, <2>1 DEF TypesHop, Hops
  <2>3. \A t \in TypesAround'[TypesHop'] : t = Here'
    BY <1>2, <1>3, <2>1, <2>2
  <2>4. ~Structured' /\ phase' \notin {"containing", "types", "macros"}
    BY <1>2, <2>1
  <2>5. QED BY <2>3, <2>4 DEF ClosureKnown
<1>6. CASE Types
  <2> DEFINE next == (UNION {TypesOf(s) : s \in frontier}) \ seen
             supplied == {t \in next \ Unseen : Readable(t)}
             S == next \ Unseen
  <2>1. /\ phase = "types" /\ phase' = "types" /\ hop < TypeDepth /\ hop' = hop + 1
        /\ UNCHANGED inputs /\ UNCHANGED notes
    BY <1>6 DEF Types
  <2>2. /\ Build(UnitsAt(S, "type_decl", hop + 1))
        /\ missing' = missing \cup NoRegion(next) \cup Unreadable(next)
        /\ pending' = pending \o InTree(supplied)
    BY <1>6 DEF Types, UnitsAt
  <2>3. /\ next \subseteq TypeNames /\ supplied = S \ lost
    BY DEF TypesOf, Readable
  <2>4. seen \cup next = TypesAround[hop + 1]
    BY <2>1, TypesHops
  <2>5. seen = TypesAround[hop] /\ hop \in Nat
    BY <2>1 DEF WalksKnown, AtHop
  <2> HIDE DEF next, supplied
  <2>6. /\ Of(units', "type_decl") = Of(units, "type_decl") \cup supplied
        /\ Of(units', "macro_def") = Of(units, "macro_def")
        /\ Of(units', "global_decl") = Of(units, "global_decl")
    <3> HIDE DEF S
    <3>1. QED BY <2>2, <2>3, BuiltAt
  <2>7. Structured /\ Structured'
    BY <1>1, <1>2, <2>1
  <2>8. TypesHop = hop /\ TypesHop' = hop + 1
    BY <2>1, <2>7 DEF TypesHop, Hops
  <2>9. Names(missing) \subseteq Names(missing') /\ next \ supplied \subseteq Names(missing')
    <3>1. Names(missing') = Names(missing) \cup Names(NoRegion(next)) \cup Names(Unreadable(next))
      <4> DEFINE A == NoRegion(next)
                 B == Unreadable(next)
      <4>1. missing' = missing \cup A \cup B
        BY <2>2
      <4> HIDE DEF A, B
      <4>2. Names(missing') = Names(missing) \cup Names(A) \cup Names(B)
        BY <4>1 DEF Names
      <4>3. QED BY <4>2 DEF A, B
    <3>2. next \ supplied \subseteq (next \cap Unseen) \cup ((next \ Unseen) \cap lost)
      BY <2>3
    <3>3. QED BY <3>1, <3>2, LackingNames
  <2>10. \A t \in TypesAround'[TypesHop'] :
           t = Here' \/ t \in Of(units', "type_decl") \/ t \in Names(missing')
    <3>1. ASSUME NEW t \in seen PROVE t = Here \/ t \in Of(units, "type_decl") \/ t \in Names(missing)
      BY <2>5, <2>8, <3>1 DEF ClosureKnown
    <3>2. QED BY <1>2, <2>1, <2>4, <2>6, <2>8, <2>9, <3>1
  <2>11. pending \in Seq(CodeRegions) /\ Followed(units) \subseteq Elements(pending)
         /\ Of(units, "macro_def") = {} /\ Of(units, "global_decl") = {}
    BY <2>1 DEF ClosureKnown
  <2>12. pending' \in Seq(CodeRegions) /\ Elements(pending') = Elements(pending) \cup supplied
    <3>1. InTree(supplied) \in Seq(CodeRegions) /\ Elements(InTree(supplied)) = supplied
      BY <1>1, <2>3, InTreeHolds
    <3>2. QED BY <2>2, <2>11, <3>1, JoinedHolds
  <2>13. Followed(units)' = Followed(units) \cup supplied
    BY <1>2, <2>1, <2>6 DEF Followed
  <2>14. QED
    BY <2>1, <2>6, <2>10, <2>11, <2>12, <2>13 DEF ClosureKnown, PastMacros, PastCallees
<1>7. CASE TypesDone
  <2>1. /\ phase = "types" /\ phase' = "macros" /\ seen' = {} /\ UNCHANGED inputs
        /\ UNCHANGED <<pending, units, missing, notes>>
    BY <1>7 DEF TypesDone
  <2>2. hop = TypeDepth \/ frontier = {}
    BY <1>7 DEF TypesDone
  <2>3. hop \in 0..TypeDepth /\ frontier = Last(TypesAround, hop)
    BY <2>1 DEF WalksKnown, AtHop
  <2>4. Structured /\ Structured' /\ TypesHop = hop /\ TypesHop' = TypeDepth
    <3>1. Structured /\ Structured'
      BY <1>1, <1>2, <2>1
    <3>2. QED BY <2>1, <3>1 DEF TypesHop, Hops
  <2>5. TypesAround[TypeDepth] = TypesAround[hop]
    <3>1. CASE hop = TypeDepth
      BY <3>1
    <3>2. CASE frontier = {}
      <4>0. Last(TypesAround, hop) = {} /\ TypeDepth \in Nat
        BY <2>3, <3>2, Arounds
      <4>1. \A m \in hop..TypeDepth : TypesAround[m] = TypesAround[hop]
        BY <2>3, <4>0, Arounds, AroundStops
      <4>2. TypeDepth \in hop..TypeDepth
        BY <2>3, <4>0
      <4>3. QED BY <4>1, <4>2
    <3>3. QED BY <2>2, <3>1, <3>2
  <2>6. \A t \in TypesAround'[TypesHop'] :
           t = Here' \/ t \in Of(units', "type_decl") \/ t \in Names(missing')
    BY <1>2, <2>1, <2>4, <2>5 DEF ClosureKnown
  <2>7. Followed(units)' = Followed(units)
    BY <1>2, <2>1 DEF Followed
  <2>8. /\ pending \in Seq(CodeRegions) /\ Followed(units) \subseteq Elements(pending)
        /\ Of(units, "global_decl") = {}
    BY <2>1 DEF ClosureKnown
  <2>9. QED
    BY <1>2, <2>1, <2>6, <2>7, <2>8 DEF ClosureKnown, PastMacros, PastCallees
<1>8. CASE Macros
  <2> DEFINE first == Head(pending)
             more == MacrosIn(first) \ seen
             supplied == {m \in more : Readable(m)}
             lacking == {x \in more : ~Readable(x)}
  <2>1. /\ phase = "macros" /\ phase' = "macros" /\ pending # <<>> /\ UNCHANGED inputs
        /\ UNCHANGED <<hop, notes>>
    BY <1>8 DEF Macros
  <2>2. /\ Build(UnitsAt(more, "macro_def", 1))
        /\ missing' = missing \cup {<<m, "unreadable">> : m \in lacking}
        /\ seen' = seen \cup more /\ pending' = Tail(pending) \o InTree(supplied)
    BY <1>8 DEF Macros, UnitsAt, Behind
  <2>3. more \subseteq MacroNames /\ supplied = more \ lost /\ lacking = more \cap lost
    BY DEF MacrosIn, Readable
  <2>4. MacrosIn(first) \subseteq seen'
    BY <2>2
  <2> HIDE DEF more, supplied, lacking, first
  <2>5. /\ Of(units', "macro_def") = Of(units, "macro_def") \cup supplied
        /\ Of(units', "type_decl") = Of(units, "type_decl")
        /\ Of(units', "global_decl") = Of(units, "global_decl")
    BY <2>2, <2>3, BuiltAt
  <2>6. Names(missing') = Names(missing) \cup lacking
    <3> DEFINE A == {<<m, "unreadable">> : m \in lacking}
    <3>1. Names(A) = lacking
      <4>1. \A m : <<m, "unreadable">>[1] = m
        OBVIOUS
      <4>2. QED BY <4>1 DEF Names
    <3>2. missing' = missing \cup A
      BY <2>2
    <3> HIDE DEF A
    <3>3. QED BY <3>1, <3>2 DEF Names
  <2>7. /\ pending \in Seq(CodeRegions) /\ seen \subseteq MacrosFound(units, missing)
        /\ \A r \in Followed(units) : r \in Elements(pending) \/ MacrosIn(r) \subseteq seen
        /\ Of(units, "global_decl") = {}
    BY <2>1 DEF ClosureKnown
  <2>8. /\ Tail(pending) \in Seq(CodeRegions)
        /\ Elements(pending) = {first} \cup Elements(Tail(pending))
    BY <2>1, <2>7, FirstAndRest DEF first
  <2>9. pending' \in Seq(CodeRegions) /\ Elements(pending') = Elements(Tail(pending)) \cup supplied
    <3>1. InTree(supplied) \in Seq(CodeRegions) /\ Elements(InTree(supplied)) = supplied
      BY <1>1, <2>3, InTreeHolds
    <3> DEFINE rest == Tail(pending)
    <3>2. rest \in Seq(CodeRegions) /\ pending' = rest \o InTree(supplied)
      BY <2>2, <2>8
    <3> HIDE DEF rest
    <3>3. pending' \in Seq(CodeRegions) /\ Elements(pending') = Elements(rest) \cup supplied
      BY <3>1, <3>2, JoinedHolds
    <3>4. QED BY <3>3 DEF rest
  <2>10. Followed(units)' = Followed(units) \cup supplied
    BY <1>2, <2>1, <2>5 DEF Followed
  <2>11. seen' \subseteq MacrosFound(units, missing)'
    BY <2>2, <2>3, <2>5, <2>6, <2>7 DEF MacrosFound
  <2>12. \A r \in Followed(units)' : r \in Elements(pending') \/ MacrosIn(r)' \subseteq seen'
    <3>1. ASSUME NEW r \in Followed(units)
          PROVE  r \in Elements(pending') \/ MacrosIn(r) \subseteq seen'
      BY <2>2, <2>4, <2>7, <2>8, <2>9, <3>1
    <3>2. QED BY <1>2, <2>1, <2>9, <2>10, <3>1
  <2>13. \A t \in TypesAround'[TypesHop'] :
           t = Here' \/ t \in Of(units', "type_decl") \/ t \in Names(missing')
    <3>1. TypesHop' = TypesHop
      BY <1>2, <2>1 DEF TypesHop, Hops
    <3>2. QED BY <1>2, <2>1, <2>5, <2>6, <3>1 DEF ClosureKnown
  <2>14. QED
    BY <2>1, <2>5, <2>7, <2>9, <2>11, <2>12, <2>13 DEF ClosureKnown, PastMacros, PastCallees
<1>9. CASE Globals
  <2> DEFINE more == GlobalsOf(Here)
             S == more \ Unseen
  <2>1. /\ phase = "macros" /\ phase' = "callers" /\ pending = <<>> /\ UNCHANGED inputs
    BY <1>9 DEF Globals
  <2>2. /\ Build(UnitsAt(S, "global_decl", 1))
        /\ missing' = missing \cup NoRegion(more) \cup Unreadable(more)
    BY <1>9 DEF Globals, UnitsAt
  <2>3. missing' = {} \/ <<"closure incomplete">> \in notes'
    BY <1>9 DEF Globals
  <2> HIDE DEF more
  <2>4. /\ Of(units', "global_decl") = Of(units, "global_decl") \cup (S \ lost)
        /\ Of(units', "type_decl") = Of(units, "type_decl")
        /\ Of(units', "macro_def") = Of(units, "macro_def")
    <3> HIDE DEF S
    <3>1. QED BY <2>2, BuiltAt
  <2>5. Names(missing) \subseteq Names(missing') /\ more \ (S \ lost) \subseteq Names(missing')
    <3>1. Names(missing') = Names(missing) \cup Names(NoRegion(more)) \cup Names(Unreadable(more))
      <4> DEFINE A == NoRegion(more)
                 B == Unreadable(more)
      <4>1. missing' = missing \cup A \cup B
        BY <2>2
      <4> HIDE DEF A, B
      <4>2. Names(missing') = Names(missing) \cup Names(A) \cup Names(B)
        BY <4>1 DEF Names
      <4>3. QED BY <4>2 DEF A, B
    <3>2. more \ (S \ lost) \subseteq (more \cap Unseen) \cup ((more \ Unseen) \cap lost)
      OBVIOUS
    <3>3. QED BY <3>1, <3>2, LackingNames
  <2>6. /\ pending \in Seq(CodeRegions) /\ seen \subseteq MacrosFound(units, missing)
        /\ \A r \in Followed(units) : r \in Elements(pending) \/ MacrosIn(r) \subseteq seen
        /\ Of(units, "global_decl") = {}
    BY <2>1 DEF ClosureKnown
  <2>7. Elements(pending) = {}
    BY <2>1, <2>6, HoldsNothing
  <2>8. Followed(units)' = Followed(units)
    BY <1>2, <2>1, <2>4 DEF Followed
  <2>9. MacrosFound(units, missing) \subseteq MacrosFound(units, missing)'
    BY <2>4, <2>5 DEF MacrosFound
  <2>10. \A r \in Followed(units)' : MacrosIn(r)' \subseteq MacrosFound(units, missing)'
    BY <1>2, <2>1, <2>6, <2>7, <2>8, <2>9
  <2>11. /\ Of(units', "global_decl") \subseteq GlobalsOf(Here)'
         /\ GlobalsOf(Here)' \subseteq Of(units', "global_decl") \cup Names(missing')
    BY <1>2, <2>1, <2>4, <2>5, <2>6 DEF more
  <2>12. \A t \in TypesAround'[TypesHop'] :
           t = Here' \/ t \in Of(units', "type_decl") \/ t \in Names(missing')
    <3>1. TypesHop' = TypesHop
      BY <1>2, <2>1 DEF TypesHop, Hops
    <3>2. QED BY <1>2, <2>1, <2>4, <2>5, <3>1 DEF ClosureKnown
  <2>13. QED
    BY <2>1, <2>3, <2>10, <2>11, <2>12 DEF ClosureKnown, PastMacros, PastCallees
<1>10. CASE Walk
  <2> DEFINE next == (UNION {Neighbours(f) : f \in frontier}) \ seen
             S == (next \ Outside) \ BodyLess
  <2>1. /\ phase \in {"callers", "callees"} /\ phase' = phase /\ UNCHANGED inputs
        /\ missing' = missing /\ notes \subseteq notes' /\ Build(UnitsAt(S, RoleOfWalk, hop + 1))
    BY <1>10 DEF Walk, UnitsAt
  <2>2. units \subseteq units' /\ \A u \in units' \ units : u.role = RoleOfWalk
    <3> HIDE DEF S
    <3> DEFINE us == UnitsAt(S, RoleOfWalk, hop + 1)
    <3>1. \A u \in us : u.role = RoleOfWalk
      BY UnitsOf
    <3> HIDE DEF us
    <3>2. QED BY <2>1, <3>1, BuiltRoles DEF us
  <2>3. RoleOfWalk \in {"caller", "callee"}
    BY DEF RoleOfWalk
  <2>4. phase \in PastMacros /\ phase' \in PastMacros /\ TypesHop' = TypesHop
    BY <1>2, <2>1 DEF PastMacros, TypesHop, Hops
  <2>5. QED BY <2>1, <2>2, <2>3, <2>4, ClosureKept
<1>11. CASE WalkDone
  <2>1. /\ phase \in {"callers", "callees"} /\ phase' \in {"callees", "cleanup"} /\ UNCHANGED inputs
        /\ UNCHANGED <<units, missing, notes>>
    BY <1>11 DEF WalkDone
  <2>2. phase \in PastMacros /\ phase' \in PastMacros /\ TypesHop' = TypesHop
    BY <1>2, <2>1 DEF PastMacros, PastCallees, TypesHop, Hops
  <2>3. QED BY <2>1, <2>2, ClosureKept
<1>12. CASE Cleanup \/ FlowUnits \/ AnalyzerMessages \/ SelectPrimary \/ FitOptional \/ Finish
  <2>1. /\ units \subseteq units'
        /\ \A u \in units' \ units : u.role \in {"cleanup_path", "flow_function", "analyzer_message"}
    BY <1>12, LateUnits
  <2>2. /\ UNCHANGED inputs /\ phase \in PastCallees /\ phase' \in PastCallees
        /\ missing' = missing /\ notes' = notes
    BY <1>12 DEF Cleanup, FlowUnits, AnalyzerMessages, SelectPrimary, FitOptional, Finish, PastCallees
  <2>3. TypesHop' = TypesHop
    BY <1>2, <2>2 DEF TypesHop, Hops, PastCallees
  <2>4. phase \in PastMacros /\ phase' \in PastMacros
    BY <2>2 DEF PastMacros
  <2>5. QED BY <2>1, <2>2, <2>3, <2>4, ClosureKept
<1>13. CASE UNCHANGED vars
  <2>1. /\ UNCHANGED inputs /\ UNCHANGED <<phase, hop, seen, frontier, pending, units, missing, notes>>
    BY <1>13 DEF vars, inputs
  <2>2. TypesHop' = TypesHop /\ Followed(units)' = Followed(units)
    BY <1>2, <2>1 DEF TypesHop, Hops, Followed
  <2>3. /\ Here' = Here /\ Structured' = Structured /\ TypesAround' = TypesAround
        /\ \A r : MacrosIn(r)' = MacrosIn(r)
        /\ GlobalsOf(Here)' = GlobalsOf(Here)
    BY <1>2, <2>1
  <2>4. \A t \in TypesAround'[TypesHop'] :
          t = Here' \/ t \in Of(units', "type_decl") \/ t \in Names(missing')
    BY <2>1, <2>2, <2>3 DEF ClosureKnown
  <2>5. phase' = "macros" => \A r \in Followed(units)' : r \in Elements(pending') \/ MacrosIn(r)' \subseteq seen'
    BY <2>1, <2>2, <2>3 DEF ClosureKnown
  <2>6. Structured' /\ phase' \in PastMacros =>
          /\ \A r \in Followed(units)' : MacrosIn(r)' \subseteq MacrosFound(units, missing)'
          /\ Of(units', "global_decl") \subseteq GlobalsOf(Here)'
          /\ GlobalsOf(Here)' \subseteq Of(units', "global_decl") \cup Names(missing')
    BY <2>1, <2>2, <2>3 DEF ClosureKnown
  <2>7. QED BY <2>1, <2>2, <2>3, <2>4, <2>5, <2>6 DEF ClosureKnown
<1>14. QED
  BY <1>4, <1>5, <1>6, <1>7, <1>8, <1>9, <1>10, <1>11, <1>12, <1>13 DEF Next

-----------------------------------------------------------------------------
(* The calls: what has been told stays told.                               *)
LEMMA Grows ==
  ASSUME [Next]_vars
  PROVE  /\ units \subseteq units' /\ gaps \subseteq gaps' /\ notes \subseteq notes'
         /\ UNCHANGED inputs
<1>1. ASSUME NEW us, Build(us) PROVE units \subseteq units' /\ gaps \subseteq gaps'
  BY <1>1 DEF Build
<1>2. CASE Containing
  <2>1. units \subseteq units' /\ gaps \subseteq gaps'
    BY <1>1, <1>2 DEF Containing
  <2>2. QED BY <1>2, <2>1 DEF Containing
<1>3. CASE NoFunction
  <2>1. units \subseteq units' /\ gaps \subseteq gaps'
    BY <1>1, <1>3 DEF NoFunction
  <2>2. QED BY <1>3, <2>1 DEF NoFunction
<1>4. CASE FlatWindow
  <2>1. units \subseteq units' /\ gaps \subseteq gaps'
    BY <1>1, <1>4 DEF FlatWindow
  <2>2. QED BY <1>4, <2>1 DEF FlatWindow
<1>5. CASE Types
  <2>1. units \subseteq units' /\ gaps \subseteq gaps'
    BY <1>1, <1>5 DEF Types
  <2>2. QED BY <1>5, <2>1 DEF Types
<1>6. CASE Macros
  <2>1. units \subseteq units' /\ gaps \subseteq gaps'
    BY <1>1, <1>6 DEF Macros
  <2>2. QED BY <1>6, <2>1 DEF Macros
<1>7. CASE Globals
  <2>1. units \subseteq units' /\ gaps \subseteq gaps'
    BY <1>1, <1>7 DEF Globals
  <2>2. QED BY <1>7, <2>1 DEF Globals
<1>8. CASE Walk
  <2>1. units \subseteq units' /\ gaps \subseteq gaps'
    BY <1>1, <1>8 DEF Walk
  <2>2. QED BY <1>8, <2>1 DEF Walk
<1>9. CASE Cleanup
  <2>1. units \subseteq units' /\ gaps \subseteq gaps'
    BY <1>1, <1>9 DEF Cleanup
  <2>2. QED BY <1>9, <2>1 DEF Cleanup
<1>10. CASE FlowUnits
  <2>1. units \subseteq units' /\ gaps \subseteq gaps'
    BY <1>1, <1>10 DEF FlowUnits
  <2>2. QED BY <1>10, <2>1 DEF FlowUnits
<1>11. CASE AnalyzerMessages
  <2>1. units \subseteq units' /\ gaps \subseteq gaps'
    BY <1>1, <1>11 DEF AnalyzerMessages
  <2>2. QED BY <1>11, <2>1 DEF AnalyzerMessages
<1>12. CASE TypesDone \/ WalkDone \/ SelectPrimary \/ FitOptional \/ Finish \/ UNCHANGED vars
  BY <1>12 DEF TypesDone, WalkDone, SelectPrimary, FitOptional, Finish, vars, inputs
<1>13. QED
  BY <1>2, <1>3, <1>4, <1>5, <1>6, <1>7, <1>8, <1>9, <1>10, <1>11, <1>12 DEF Next

LEMMA ToldStays ==
  ASSUME [Next]_vars
  PROVE  \A f : Told(units, gaps, notes, f) => Told(units', gaps', notes', f)
  BY Grows DEF Told

(* What a walk is to have told of, once it has come so far.                *)
Spoken(us, gs, ns, k, n, here) ==
  \A f \in k[n] : f \in Outside \cup {here} \/ Told(us, gs, ns, f)

(* What a step means for the calls.                                        *)
LEMMA CallsOf ==
  ASSUME [Next]_vars, CallsKnown,
         Structured /\ phase' # "containing" => Told(units', gaps', notes', Here),
         Spoken(units', gaps', notes', CallersAround, CallersHop', Here),
         Spoken(units', gaps', notes', CalleesAround, CalleesHop', Here),
         CallersHop' > 0 /\ UnresolvedAnywhere => <<"caller", "lower bound">> \in notes',
         CalleesHop' > 0 =>
           \A f \in CalleesAround[CalleesHop' - 1] :
             UnresolvedIn(f) => <<"callee", "lower bound">> \in notes'
  PROVE  CallsKnown'
<1>1. /\ Here' = Here /\ Structured' = Structured /\ CallersAround' = CallersAround
      /\ CalleesAround' = CalleesAround /\ UnresolvedAnywhere' = UnresolvedAnywhere
      /\ \A f : UnresolvedIn(f)' = UnresolvedIn(f)
  BY Grows, GivenKept
<1>2. Structured' /\ phase' # "containing" => Told(units', gaps', notes', Here')
  BY <1>1
<1>3. /\ \A f \in CallersAround'[CallersHop'] :
           f \in Outside \cup {Here'} \/ Told(units', gaps', notes', f)
      /\ \A f \in CalleesAround'[CalleesHop'] :
           f \in Outside \cup {Here'} \/ Told(units', gaps', notes', f)
  BY <1>1 DEF Spoken
<1>4. CallersHop' > 0 /\ UnresolvedAnywhere' => <<"caller", "lower bound">> \in notes'
  BY <1>1
<1>5. CalleesHop' > 0 =>
        \A f \in CalleesAround'[CalleesHop' - 1] :
          UnresolvedIn(f)' => <<"callee", "lower bound">> \in notes'
  BY <1>1
<1>6. QED BY <1>2, <1>3, <1>4, <1>5 DEF CallsKnown

(* A step of no walk keeps what was told of the calls.                     *)
LEMMA CallsKept ==
  ASSUME [Next]_vars, CallsKnown, CallersHop' = CallersHop, CalleesHop' = CalleesHop
  PROVE  /\ Spoken(units', gaps', notes', CallersAround, CallersHop', Here)
         /\ Spoken(units', gaps', notes', CalleesAround, CalleesHop', Here)
         /\ CallersHop' > 0 /\ UnresolvedAnywhere => <<"caller", "lower bound">> \in notes'
         /\ CalleesHop' > 0 =>
              \A f \in CalleesAround[CalleesHop' - 1] :
                UnresolvedIn(f) => <<"callee", "lower bound">> \in notes'
         /\ phase # "containing" /\ Structured => Told(units', gaps', notes', Here)
<1>1. notes \subseteq notes'
  BY Grows
<1>2. /\ Spoken(units', gaps', notes', CallersAround, CallersHop', Here)
      /\ Spoken(units', gaps', notes', CalleesAround, CalleesHop', Here)
  BY ToldStays DEF CallsKnown, Spoken
<1>3. CallersHop' > 0 /\ UnresolvedAnywhere => <<"caller", "lower bound">> \in notes'
  BY <1>1 DEF CallsKnown
<1>4. CalleesHop' > 0 =>
        \A f \in CalleesAround[CalleesHop' - 1] :
          UnresolvedIn(f) => <<"callee", "lower bound">> \in notes'
  BY <1>1 DEF CallsKnown
<1>5. phase # "containing" /\ Structured => Told(units', gaps', notes', Here)
  BY ToldStays DEF CallsKnown
<1>6. QED BY <1>2, <1>3, <1>4, <1>5

(* A walk that is over has met all it is to meet; one hop before the end   *)
(* it had nothing that it had not before its last.                         *)
LEMMA WalkEnds ==
  ASSUME NEW k, NEW start, NEW edges, NEW among, NEW limit \in Nat,
         IsAround(k, start, edges, among, limit), NEW h \in 0..limit,
         h = limit \/ Last(k, h) = {}
  PROVE  /\ k[limit] = k[h]
         /\ limit > 0 => h > 0 /\ k[limit - 1] \subseteq k[h - 1]
<1>1. CASE h = limit
  BY <1>1
<1>2. CASE h # limit
  <2>1. Last(k, h) = {} /\ h \in 0..(limit - 1) /\ limit \in h..limit
    BY <1>2
  <2>2. \A m \in h..limit : k[m] = k[h] /\ Last(k, m) = {}
    BY <2>1, AroundStops
  <2>3. h # 0
    BY <2>1 DEF Last, IsAround
  <2>4. k[h] = k[h - 1]
    <3>1. h \in 1..limit /\ k[h] \ k[h - 1] = {}
      BY <2>1, <2>3 DEF Last
    <3>2. QED BY <3>1 DEF IsAround
  <2>5. limit - 1 \in h..limit
    BY <2>1
  <2>6. QED BY <2>1, <2>2, <2>3, <2>4, <2>5
<1>3. QED BY <1>1, <1>2

(* Each step keeps what is told of the calls.                              *)
LEMMA CallsStep ==
  ASSUME CollectedKnown, WalksKnown, CallsKnown, [Next]_vars
  PROVE  CallsKnown'
<1>1. /\ phase \in {"types", "macros", "callers", "callees", "cleanup"} => Structured
      /\ phase \in Phases
  BY DEF CollectedKnown
<1>2. Structured' = Structured /\ Here' = Here
  BY Grows, GivenKept
<1>3. CallersAround[0] = {Here} /\ CalleesAround[0] = {Here}
  BY Arounds DEF IsAround
<1>4. CASE Containing
  <2> DEFINE one == UnitOn(Here, "containing_function", 0, TRUE)
  <2>1. Build({one}) /\ phase = "containing" /\ phase' = "types"
    BY <1>4 DEF Containing
  <2>2. one.region = Here
    BY DEF UnitOn
  <2> HIDE DEF one
  <2>3. Told(units', gaps', notes', Here)
    <3>1. CASE Here \in lost
      <4>1. Here \in {u.region : u \in {v \in {one} : ~Readable(v.region)}}
        BY <2>2, <3>1 DEF Readable
      <4>2. Here \in gaps'
        BY <2>1, <4>1 DEF Build
      <4>3. QED BY <4>2 DEF Told
    <3>2. CASE Here \notin lost
      <4>1. one \in units'
        BY <2>1, <2>2, <3>2 DEF Build, Readable
      <4>2. QED BY <2>2, <4>1 DEF Told
    <3>3. QED BY <3>1, <3>2
  <2>4. CallersHop' = 0 /\ CalleesHop' = 0 /\ CallersHop = 0 /\ CalleesHop = 0
    BY <1>2, <2>1 DEF CallersHop, CalleesHop, Hops
  <2>5. QED BY <2>3, <2>4, CallsKept, CallsOf
<1>5. CASE NoFunction \/ FlatWindow
  <2>1. ~Structured
    BY <1>5 DEF NoFunction, FlatWindow, Structured
  <2>2. CallersHop' = CallersHop /\ CalleesHop' = CalleesHop
    BY <1>2, <2>1 DEF CallersHop, CalleesHop, Hops
  <2>3. QED BY <2>1, <2>2, CallsKept, CallsOf
<1>6. CASE Types \/ TypesDone \/ Macros \/ Globals \/ Cleanup \/ FlowUnits \/ AnalyzerMessages
           \/ SelectPrimary \/ FitOptional \/ Finish \/ UNCHANGED vars
  <2>1. CallersHop' = CallersHop /\ CalleesHop' = CalleesHop
    <3>1. CASE Types \/ TypesDone \/ Macros
      <4>1. phase \in {"types", "macros"} /\ phase' \in {"types", "macros"}
        BY <3>1 DEF Types, TypesDone, Macros
      <4>2. QED BY <1>2, <4>1 DEF CallersHop, CalleesHop, Hops
    <3>2. CASE Globals
      <4>1. phase = "macros" /\ phase' = "callers" /\ hop' = 0
        BY <3>2 DEF Globals
      <4>2. QED BY <1>2, <4>1 DEF CallersHop, CalleesHop, Hops
    <3>3. CASE Cleanup \/ FlowUnits \/ AnalyzerMessages \/ SelectPrimary \/ FitOptional \/ Finish
      <4>1. phase \in PastCallees /\ phase' \in PastCallees
        BY <3>3 DEF Cleanup, FlowUnits, AnalyzerMessages, SelectPrimary, FitOptional, Finish, PastCallees
      <4>2. QED BY <1>2, <4>1 DEF CallersHop, CalleesHop, Hops, PastCallees
    <3>4. CASE UNCHANGED vars
      <4>1. UNCHANGED <<phase, hop>>
        BY <3>4 DEF vars
      <4>2. QED BY <1>2, <4>1 DEF CallersHop, CalleesHop, Hops
    <3>5. QED BY <1>6, <3>1, <3>2, <3>3, <3>4
  <2>2. phase' # "containing" => phase # "containing"
    BY <1>6 DEF Types, TypesDone, Macros, Globals, Cleanup, FlowUnits, AnalyzerMessages,
                SelectPrimary, FitOptional, Finish, vars
  <2>3. QED BY <2>1, <2>2, CallsKept, CallsOf
<1>7. CASE Walk
  <2> DEFINE next == (UNION {Neighbours(f) : f \in frontier}) \ seen
             S == (next \ Outside) \ BodyLess
  <2>1. /\ phase \in {"callers", "callees"} /\ phase' = phase /\ hop' = hop + 1 /\ hop < DepthLimit
        /\ Build(UnitsAt(S, RoleOfWalk, hop + 1))
    BY <1>7 DEF Walk, UnitsAt
  <2>2. notes' = notes \cup NamedOnly(next)
                    \cup (IF LowerBound THEN {<<RoleOfWalk, "lower bound">>} ELSE {})
    BY <1>7 DEF Walk
  <2>3. /\ hop \in Nat /\ seen = WalkAround[hop] /\ frontier = Last(WalkAround, hop)
        /\ seen \cup next = WalkAround[hop + 1]
    BY <2>1, WalkHops
  <2> HIDE DEF next
  <2>4. ASSUME NEW f \in next PROVE f \in Outside \/ Told(units', gaps', notes', f)
    <3>1. CASE f \in BodyLess
      <4>1. <<f, "no body">> \in NamedOnly(next)
        BY <2>4, <3>1 DEF NamedOnly
      <4>2. <<f, "no body">> \in notes'
        BY <2>2, <4>1
      <4>3. QED BY <4>2 DEF Told
    <3>2. CASE f \in S
      <4> HIDE DEF S
      <4>1. gaps' = gaps \cup (S \cap lost) /\ Of(units', RoleOfWalk) = Of(units, RoleOfWalk) \cup (S \ lost)
        BY <2>1, BuiltAt
      <4>2. CASE f \in lost
        BY <3>2, <4>1, <4>2 DEF Told
      <4>3. CASE f \notin lost
        <5>1. f \in Of(units', RoleOfWalk)
          BY <3>2, <4>1, <4>3
        <5>2. QED BY <5>1 DEF Of, Told
      <4>4. QED BY <4>2, <4>3
    <3>3. QED BY <2>4, <3>1, <3>2
  <2>5. Structured /\ phase # "containing"
    BY <1>1, <2>1
  <2>6. CASE phase = "callers"
    <3>1. /\ CallersHop = hop /\ CallersHop' = hop + 1 /\ CalleesHop' = 0 /\ CalleesHop = 0
          /\ WalkAround = CallersAround /\ RoleOfWalk = "caller"
      BY <1>2, <2>1, <2>5, <2>6 DEF CallersHop, CalleesHop, Hops, WalkAround, RoleOfWalk
    <3>2. Spoken(units', gaps', notes', CallersAround, CallersHop', Here)
      <4>1. \A f \in seen : f \in Outside \cup {Here} \/ Told(units', gaps', notes', f)
        BY <2>3, <3>1, ToldStays DEF CallsKnown
      <4>2. QED BY <2>3, <2>4, <3>1, <4>1 DEF Spoken
    <3>3. Spoken(units', gaps', notes', CalleesAround, CalleesHop', Here)
      BY <1>3, <3>1 DEF Spoken
    <3>4. UnresolvedAnywhere => <<"caller", "lower bound">> \in notes'
      BY <2>2, <2>6, <3>1 DEF LowerBound
    <3>5. Told(units', gaps', notes', Here)
      BY <2>5, ToldStays DEF CallsKnown
    <3>6. ~(CalleesHop' > 0)
      BY <3>1
    <3>7. QED BY <3>2, <3>3, <3>4, <3>5, <3>6, CallsOf
  <2>7. CASE phase = "callees"
    <3>1. /\ CalleesHop = hop /\ CalleesHop' = hop + 1 /\ CallersHop' = CallersHop
          /\ WalkAround = CalleesAround /\ RoleOfWalk = "callee"
      BY <1>2, <2>1, <2>5, <2>7 DEF CallersHop, CalleesHop, Hops, WalkAround, RoleOfWalk
    <3>2. Spoken(units', gaps', notes', CalleesAround, CalleesHop', Here)
      <4>1. \A f \in seen : f \in Outside \cup {Here} \/ Told(units', gaps', notes', f)
        BY <2>3, <3>1, ToldStays DEF CallsKnown
      <4>2. QED BY <2>3, <2>4, <3>1, <4>1 DEF Spoken
    <3>3. Spoken(units', gaps', notes', CallersAround, CallersHop', Here)
      BY <3>1, ToldStays DEF CallsKnown, Spoken
    <3>4. CallersHop' > 0 /\ UnresolvedAnywhere => <<"caller", "lower bound">> \in notes'
      BY <3>1, Grows DEF CallsKnown
    <3>5. ASSUME NEW f \in CalleesAround[hop], UnresolvedIn(f)
          PROVE  <<"callee", "lower bound">> \in notes'
      <4>1. CASE f \in frontier
        BY <2>2, <2>7, <3>1, <3>5, <4>1 DEF LowerBound
      <4>2. CASE f \notin frontier
        <5>1. hop # 0 /\ f \in CalleesAround[hop - 1]
          BY <1>3, <2>3, <3>1, <3>5, <4>2 DEF Last
        <5>2. CalleesHop > 0 /\ f \in CalleesAround[CalleesHop - 1]
          BY <2>3, <3>1, <5>1
        <5>3. <<"callee", "lower bound">> \in notes
          BY <3>5, <5>2 DEF CallsKnown
        <5>4. QED BY <5>3, Grows
      <4>3. QED BY <4>1, <4>2
    <3>6. \A f \in CalleesAround[CalleesHop' - 1] :
            UnresolvedIn(f) => <<"callee", "lower bound">> \in notes'
      <4>1. CalleesHop' - 1 = hop
        BY <2>3, <3>1
      <4>2. QED BY <3>5, <4>1
    <3>7. Told(units', gaps', notes', Here)
      BY <2>5, ToldStays DEF CallsKnown
    <3>8. QED BY <3>2, <3>3, <3>4, <3>6, <3>7, CallsOf
  <2>8. QED BY <2>1, <2>6, <2>7
<1>8. CASE WalkDone
  <2>1. /\ phase \in {"callers", "callees"}
        /\ (hop = DepthLimit \/ frontier = {})
        /\ phase' = IF phase = "callers" THEN "callees" ELSE "cleanup"
        /\ UNCHANGED <<units, gaps, notes>> /\ hop' = 0
    BY <1>8 DEF WalkDone
  <2>2. Structured /\ Told(units', gaps', notes', Here)
    BY <1>1, <2>1 DEF CallsKnown
  <2>3. CASE phase = "callers"
    <3>1. /\ CallersHop = hop /\ CallersHop' = CallerDepth /\ CalleesHop' = 0 /\ CalleesHop = 0
          /\ DepthLimit = CallerDepth
      BY <1>2, <2>1, <2>2, <2>3 DEF CallersHop, CalleesHop, Hops, DepthLimit
    <3>2. /\ hop \in 0..CallerDepth /\ frontier = Last(CallersAround, hop)
          /\ CallerDepth \in Nat
      BY <2>3, Arounds DEF WalksKnown, AtHop
    <3>3. CallersAround[CallerDepth] = CallersAround[hop] /\ (CallerDepth > 0 => hop > 0)
      BY <2>1, <3>1, <3>2, Arounds, WalkEnds
    <3>4. Spoken(units', gaps', notes', CallersAround, CallersHop', Here)
      BY <2>1, <3>1, <3>3 DEF CallsKnown, Spoken
    <3>5. Spoken(units', gaps', notes', CalleesAround, CalleesHop', Here)
      BY <1>3, <3>1 DEF Spoken
    <3>6. CallersHop' > 0 /\ UnresolvedAnywhere => <<"caller", "lower bound">> \in notes'
      BY <2>1, <3>1, <3>3 DEF CallsKnown
    <3>7. ~(CalleesHop' > 0)
      BY <3>1
    <3>8. QED BY <2>2, <3>4, <3>5, <3>6, <3>7, CallsOf
  <2>4. CASE phase = "callees"
    <3>1. /\ CalleesHop = hop /\ CalleesHop' = CalleeDepth /\ CallersHop' = CallersHop
          /\ DepthLimit = CalleeDepth
      BY <1>2, <2>1, <2>2, <2>4 DEF CallersHop, CalleesHop, Hops, DepthLimit
    <3>2. /\ hop \in 0..CalleeDepth /\ frontier = Last(CalleesAround, hop)
          /\ CalleeDepth \in Nat
      BY <2>4, Arounds DEF WalksKnown, AtHop
    <3>3. /\ CalleesAround[CalleeDepth] = CalleesAround[hop]
          /\ CalleeDepth > 0 => hop > 0 /\ CalleesAround[CalleeDepth - 1] \subseteq CalleesAround[hop - 1]
      BY <2>1, <3>1, <3>2, Arounds, WalkEnds
    <3>4. Spoken(units', gaps', notes', CalleesAround, CalleesHop', Here)
      BY <2>1, <3>1, <3>3 DEF CallsKnown, Spoken
    <3>5. Spoken(units', gaps', notes', CallersAround, CallersHop', Here)
      BY <2>1, <3>1 DEF CallsKnown, Spoken
    <3>6. CallersHop' > 0 /\ UnresolvedAnywhere => <<"caller", "lower bound">> \in notes'
      BY <2>1, <3>1 DEF CallsKnown
    <3>7. CalleesHop' > 0 =>
            \A f \in CalleesAround[CalleesHop' - 1] :
              UnresolvedIn(f) => <<"callee", "lower bound">> \in notes'
      BY <2>1, <3>1, <3>3 DEF CallsKnown
    <3>8. QED BY <2>2, <3>4, <3>5, <3>6, <3>7, CallsOf
  <2>5. QED BY <2>1, <2>3, <2>4
<1>9. QED
  BY <1>4, <1>5, <1>6, <1>7, <1>8 DEF Next

-----------------------------------------------------------------------------
(* The page: no two units are the same reading of one region, so that they *)
(* stand in one order.                                                     *)
LEMMA RolesApart ==
  ASSUME NEW r \in DOMAIN Base, NEW q \in DOMAIN Base, Collected[r] = Collected[q]
  PROVE  r = q
<1> DEFINE names == {"containing_function", "candidate_site", "flat_window", "flow_function",
                     "type_decl", "macro_def", "caller", "cleanup_path", "callee", "global_decl",
                     "analyzer_message"}
<1>1. r \in names /\ q \in names
  BY DEF Base
<1>2. QED BY <1>1 DEF Collected

(* What the order compares are numbers.                                    *)
LEMMA Worth ==
  ASSUME CollectedKnown, NEW u \in units
  PROVE  /\ u.role \in DOMAIN Base /\ u.region \in AllRegions
         /\ ClassOf[u.role] \in Nat /\ Relevance(u) \in Int /\ Place[u.region] \in Nat
         /\ Collected[u.role] \in Nat /\ Tokens[u.role] \in Nat
<1>1. /\ u.role \in DOMAIN Base /\ u.region \in Regions \ {None} /\ u.depth \in Nat
      /\ UnitKnown(u)
  BY DEF CollectedKnown, UnitKnown
<1>2. u.region \in AllRegions
  BY <1>1, GivenFacts
<1>3. Place[u.region] \in Nat /\ Tokens[u.role] \in Nat
  BY <1>1, <1>2, RetrievalAssumption
<1>4. ClassOf[u.role] \in Nat /\ Collected[u.role] \in Nat /\ Base[u.role] \in Nat
  BY <1>1 DEF Base, ClassOf, Collected
<1>5. Relevance(u) \in Int
  BY <1>1, <1>4 DEF Relevance
<1>6. QED BY <1>1, <1>2, <1>3, <1>4, <1>5

(* One region has one unit in each role.                                   *)
LEMMA OneReading ==
  ASSUME CollectedKnown, WalksKnown, NEW u \in units, NEW v \in units,
         u.role = v.role, u.region = v.region
  PROVE  u = v
<1>1. /\ u = IF u.role \in Walked THEN Unit(u.region, u.role, u.depth) ELSE Reading(u.role, u.region)
      /\ v = IF v.role \in Walked THEN Unit(v.region, v.role, v.depth) ELSE Reading(v.role, v.region)
  BY DEF CollectedKnown, UnitKnown
<1>2. CASE u.role \notin Walked
  BY <1>1, <1>2
<1>3. ASSUME u.role \in Walked PROVE u.depth = v.depth
  <2>1. ASSUME NEW k, NEW start, NEW edges, NEW among, NEW limit \in Nat,
               IsAround(k, start, edges, among, limit), NEW h \in 0..limit, NEW out,
               Exactly(units, u.role, k, h, out)
        PROVE  u.depth = v.depth
    <3>1. /\ u.depth \in 1..h /\ u.region \in Last(k, u.depth)
          /\ v.depth \in 1..h /\ v.region \in Last(k, v.depth)
      BY <2>1 DEF Exactly
    <3>2. u.depth \in 0..limit /\ v.depth \in 0..limit
      BY <3>1
    <3>3. QED BY <2>1, <3>1, <3>2, LastOnce
  <2>2. TypesHop \in 0..TypeDepth /\ CallersHop \in 0..CallerDepth /\ CalleesHop \in 0..CalleeDepth
    BY Arounds DEF WalksKnown, AtHop, TypesHop, CallersHop, CalleesHop, Hops
  <2>3. CASE u.role = "type_decl"
    BY <2>1, <2>2, <2>3, Arounds DEF WalksKnown
  <2>4. CASE u.role = "caller"
    BY <2>1, <2>2, <2>4, Arounds DEF WalksKnown
  <2>5. CASE u.role = "callee"
    BY <2>1, <2>2, <2>5, Arounds DEF WalksKnown
  <2>6. QED BY <1>3, <2>3, <2>4, <2>5 DEF Walked
<1>4. QED BY <1>1, <1>2, <1>3

(* The order of the page is strict and total.                              *)
LEMMA BeforeOrders ==
  ASSUME CollectedKnown, WalksKnown
  PROVE  /\ \A u \in units : ~Before(u, u)
         /\ \A u, v, w \in units : Before(u, v) /\ Before(v, w) => Before(u, w)
         /\ \A u, v \in units : u # v => Before(u, v) \/ Before(v, u)
<1>1. \A u \in units : /\ ClassOf[u.role] \in Int /\ Relevance(u) \in Int /\ Place[u.region] \in Int
                       /\ Collected[u.role] \in Int
  BY Worth
<1>2. ASSUME NEW u \in units PROVE ~Before(u, u)
  BY <1>1 DEF Before
<1>3. ASSUME NEW u \in units, NEW v \in units, NEW w \in units, Before(u, v), Before(v, w)
      PROVE  Before(u, w)
  BY <1>1, <1>3 DEF Before
<1>4. ASSUME NEW u \in units, NEW v \in units, u # v PROVE Before(u, v) \/ Before(v, u)
  <2>1. ASSUME ~Before(u, v), ~Before(v, u)
        PROVE  Place[u.region] = Place[v.region] /\ Collected[u.role] = Collected[v.role]
    BY <1>1, <2>1 DEF Before
  <2>2. Place[u.region] = Place[v.region] => u.region = v.region
    BY Worth, RetrievalAssumption
  <2>3. Collected[u.role] = Collected[v.role] => u.role = v.role
    BY Worth, RolesApart
  <2>4. QED BY <1>4, <2>1, <2>2, <2>3, OneReading
<1>5. QED BY <1>2, <1>3, <1>4

(* Of finitely many in an order one has none before it.                    *)
LEMMA OneIsFirst ==
  ASSUME NEW S, IsFiniteSet(S), S # {}, NEW less,
         \A x \in S : <<x, x>> \notin less,
         \A x, y, z \in S : <<x, y>> \in less /\ <<y, z>> \in less => <<x, z>> \in less
  PROVE  \E v \in S : \A w \in S : <<w, v>> \notin less
<1> DEFINE before(x) == {y \in S : <<y, x>> \in less}
           counts == {n \in Nat : \E x \in S : Cardinality(before(x)) = n}
<1>1. ASSUME NEW x \in S PROVE IsFiniteSet(before(x)) /\ Cardinality(before(x)) \in Nat
  <2>1. before(x) \subseteq S
    OBVIOUS
  <2> HIDE DEF before
  <2>2. QED BY <2>1, CountRest
<1>2. ASSUME NEW x \in S, NEW y \in S, <<x, y>> \in less
      PROVE  Cardinality(before(x)) < Cardinality(before(y))
  <2>1. before(x) \subseteq before(y) /\ x \in before(y) \ before(x)
    BY <1>2
  <2>2. IsFiniteSet(before(y)) /\ Cardinality(before(x)) \in Nat /\ Cardinality(before(y)) \in Nat
    BY <1>1
  <2> DEFINE A == before(x)
             B == before(y)
  <2> HIDE DEF A, B
  <2>3. A \subseteq B /\ x \in B \ A /\ IsFiniteSet(B)
    BY <2>1, <2>2 DEF A, B
  <2>4. /\ Cardinality(B) = Cardinality(A) + Cardinality(B \ A) /\ IsFiniteSet(B \ A)
        /\ Cardinality(B \ A) \in Nat /\ Cardinality(A) \in Nat
    BY <2>3, CountRest
  <2>5. Cardinality(B \ A) # 0
    BY <2>3, <2>4, FS_EmptySet
  <2>6. Cardinality(A) < Cardinality(B)
    BY <2>4, <2>5
  <2>7. QED BY <2>6 DEF A, B
<1>3. counts \in SUBSET Nat /\ counts # {}
  <2>1. PICK x \in S : TRUE
    OBVIOUS
  <2>2. Cardinality(before(x)) \in counts
    BY <1>1
  <2>3. QED BY <2>2
<1>4. PICK n \in counts : \A m \in counts : n <= m
  <2> HIDE DEF counts
  <2>1. QED BY <1>3, LeastNumber
<1>5. PICK v \in S : Cardinality(before(v)) = n
  BY <1>4
<1>6. ASSUME NEW w \in S, <<w, v>> \in less PROVE FALSE
  <2>1. Cardinality(before(w)) < n
    BY <1>2, <1>5, <1>6
  <2>2. Cardinality(before(w)) \in counts
    BY <1>1
  <2> HIDE DEF counts, before
  <2>3. n <= Cardinality(before(w)) /\ n \in Nat /\ Cardinality(before(w)) \in Nat
    BY <1>1, <1>3, <1>4, <2>2
  <2>4. QED BY <2>1, <2>3
<1>7. QED BY <1>6

(* What units cost, and one more.                                          *)
TokensIn(us) == UNION {{u} \X (1..Tokens[u.role]) : u \in us}

LEMMA TokensOfOne ==
  ASSUME NEW u, Tokens[u.role] \in Nat
  PROVE  /\ IsFiniteSet({u} \X (1..Tokens[u.role]))
         /\ Cardinality({u} \X (1..Tokens[u.role])) = Tokens[u.role]
<1> DEFINE n == Tokens[u.role]
           A == {u}
           B == 1..n
<1>1. n \in Nat
  OBVIOUS
<1>2. IsFiniteSet(A) /\ Cardinality(A) = 1
  BY FS_Singleton
<1> HIDE DEF n
<1>3. IsFiniteSet(B) /\ Cardinality(B) = n
  BY <1>1, CountUpTo
<1> HIDE DEF A, B
<1>4. IsFiniteSet(A \X B) /\ Cardinality(A \X B) = Cardinality(A) * Cardinality(B)
  BY <1>2, <1>3, FS_Product
<1>5. Cardinality(A \X B) = n
  BY <1>1, <1>2, <1>3, <1>4
<1>6. QED BY <1>4, <1>5 DEF A, B, n

(* Finitely many units have finitely many tokens.                          *)
LEMMA TokensFinite ==
  ASSUME NEW us, IsFiniteSet(us), \A u \in us : Tokens[u.role] \in Nat
  PROVE  IsFiniteSet(TokensIn(us)) /\ Cost(us) = Cardinality(TokensIn(us)) /\ Cost(us) \in Nat
<1> DEFINE part(u) == {u} \X (1..Tokens[u.role])
           parts == {part(u) : u \in us}
           f == [u \in us |-> part(u)]
<1>1. \A u \in us : IsFiniteSet(part(u))
  BY TokensOfOne
<1> HIDE DEF part
<1>2. f \in [us -> parts] /\ \A z \in parts : \E u \in us : f[u] = z
  OBVIOUS
<1>3. \A z \in parts : IsFiniteSet(z)
  BY <1>1
<1> HIDE DEF f, parts
<1>4. IsFiniteSet(parts)
  BY <1>2, CountImage
<1>5. IsFiniteSet(UNION parts)
  BY <1>3, <1>4, FS_UNION
<1>6. UNION parts = TokensIn(us)
  BY DEF parts, part, TokensIn
<1>7. Cost(us) = Cardinality(TokensIn(us))
  BY DEF Cost, TokensIn
<1>8. QED BY <1>5, <1>6, <1>7, FS_CardinalityType

(* One more unit costs its tokens.                                         *)
LEMMA CostMore ==
  ASSUME NEW us, IsFiniteSet(us), \A u \in us : Tokens[u.role] \in Nat,
         NEW v, v \notin us, Tokens[v.role] \in Nat
  PROVE  Cost(us \cup {v}) = Cost(us) + Tokens[v.role]
<1> DEFINE more == us \cup {v}
           A == TokensIn(us)
           B == {v} \X (1..Tokens[v.role])
<1>1. IsFiniteSet(more) /\ \A u \in more : Tokens[u.role] \in Nat
  <2>1. IsFiniteSet(us \cup {v})
    BY FS_AddElement
  <2>2. QED BY <2>1
<1>2. IsFiniteSet(B) /\ Cardinality(B) = Tokens[v.role]
  BY TokensOfOne
<1>3. IsFiniteSet(A) /\ Cost(us) = Cardinality(A) /\ Cost(us) \in Nat
  BY TokensFinite
<1>4. TokensIn(more) = A \cup B
  BY DEF TokensIn
<1>5. A \cap B = {}
  <2>1. \A x \in A : \E u \in us : x \in {u} \X (1..Tokens[u.role])
    BY DEF TokensIn
  <2>2. QED BY <2>1
<1> HIDE DEF A, B, more
<1>6. Cost(more) = Cardinality(A \cup B)
  BY <1>1, <1>4, TokensFinite
<1>7. Cardinality(A \cup B) = Cardinality(A) + Cardinality(B) - Cardinality(A \cap B)
  BY <1>2, <1>3, FS_Union
<1>8. Cardinality(A \cap B) = 0
  BY <1>5, FS_EmptySet
<1>9. Cost(more) = Cost(us) + Tokens[v.role]
  BY <1>2, <1>3, <1>6, <1>7, <1>8
<1>10. QED BY <1>9 DEF more

LEMMA CostOfNothing == Cost({}) = 0
<1>1. UNION {{u} \X (1..Tokens[u.role]) : u \in {}} = {}
  OBVIOUS
<1>2. Cardinality({}) = 0
  BY FS_EmptySet
<1>3. QED BY <1>1, <1>2 DEF Cost

(* Each step keeps what is known of the page.                              *)
LEMMA PageStep ==
  ASSUME CollectedKnown, WalksKnown, PageKnown, [Next]_vars
  PROVE  PageKnown'
<1>1. IsFiniteSet(units) /\ \A u \in units : Tokens[u.role] \in Nat
  BY Worth DEF CollectedKnown
<1>2. Budget \in Nat
  BY RetrievalAssumption
<1>3. CASE phase' \notin {"fill", "done"}
  BY <1>3 DEF PageKnown
<1>5. CASE SelectPrimary
  <2> DEFINE ordered == Dedupe(units)
             primary == PrimaryOf(ordered)
             less == {p \in (ordered \ primary) \X (ordered \ primary) : Before(p[1], p[2])}
             rest == ordered \ primary
  <2>1. /\ phase' = "fill" /\ units' = units
        /\ context' = IF Fits(primary) THEN [kept |-> primary, dropped |-> {}, refused |-> FALSE]
                      ELSE [kept |-> {}, dropped |-> ordered, refused |-> TRUE]
        /\ pending' = IF Fits(primary) THEN SortUnits(rest) ELSE <<>>
    BY <1>5 DEF SelectPrimary
  <2>2. /\ ordered \subseteq units /\ primary \subseteq ordered
    BY DEF Dedupe, PrimaryOf
  <2>3. CASE Fits(primary)
    <3>1. /\ context'.kept = primary /\ context'.dropped = {}
          /\ context' = [kept |-> context'.kept, dropped |-> context'.dropped,
                         refused |-> context'.refused]
      <4> HIDE DEF primary, ordered
      <4>1. QED BY <2>1, <2>3
    <3>2. StrictlyOrders(less, rest)
      <4>1. \A x, y : <<x, y>> \in less <=> x \in rest /\ y \in rest /\ Before(x, y)
        OBVIOUS
      <4>2. rest \subseteq units
        BY <2>2
      <4> HIDE DEF less, rest, ordered
      <4>3. QED BY <4>1, <4>2, BeforeOrders DEF StrictlyOrders
    <3>3. IsFiniteSet(rest)
      <4>1. rest \subseteq units
        BY <2>2
      <4> HIDE DEF rest
      <4>2. QED BY <1>1, <4>1, FS_Subset
    <3>4. pending' = Sorted(rest, less)
      BY <2>1, <2>3 DEF SortUnits
    <3> HIDE DEF less, rest
    <3>5. pending' \in Seq(rest) /\ Elements(pending') = rest /\ Distinct(pending')
      BY <3>2, <3>3, <3>4, SortedHolds
    <3>6. Cost(context'.kept) <= Budget
      BY <2>3, <3>1 DEF Fits
    <3>7. rest = ordered \ primary
      BY DEF rest
    <3> HIDE DEF ordered, primary
    <3>8. pending' \in Seq(units)
      <4>1. rest \subseteq units
        BY <2>2, <3>7
      <4>2. Seq(rest) \subseteq Seq(units)
        BY <4>1
      <4>3. QED BY <3>5, <4>2
    <3>9. /\ context'.kept \cup context'.dropped \cup Elements(pending') = ordered
          /\ context'.kept \cap context'.dropped = {}
          /\ (context'.kept \cup context'.dropped) \cap Elements(pending') = {}
          /\ primary \subseteq context'.kept
      BY <2>2, <3>1, <3>5, <3>7
    <3>10. Dedupe(units)' = ordered /\ PrimaryOf(Dedupe(units))' = primary
      BY <2>1 DEF ordered, primary
    <3>11. QED BY <2>1, <3>1, <3>5, <3>6, <3>8, <3>9, <3>10 DEF PageKnown, Presented
  <2>4. CASE ~Fits(primary)
    <3>1. /\ context'.kept = {} /\ context'.dropped = ordered /\ context'.refused
          /\ context' = [kept |-> context'.kept, dropped |-> context'.dropped,
                         refused |-> context'.refused]
          /\ pending' = <<>>
      <4> HIDE DEF primary, ordered
      <4>1. QED BY <2>1, <2>4
    <3>2. Cost(context'.kept) <= Budget
      BY <1>2, <3>1, CostOfNothing
    <3>3. pending' \in Seq(units) /\ Elements(pending') = {} /\ Distinct(pending')
      BY <3>1 DEF Elements, Distinct
    <3>4. Dedupe(units)' = ordered
      BY <2>1
    <3> HIDE DEF ordered, primary
    <3>5. QED BY <2>1, <3>1, <3>2, <3>3, <3>4 DEF PageKnown, Presented
  <2>5. QED BY <2>3, <2>4
<1>6. CASE FitOptional
  <2> DEFINE u == Head(pending)
             rest == Tail(pending)
             sum == [units |-> Cardinality(context.kept), tokens |-> Cost(context.kept)]
             full == Consider(sum, Tokens[u.role], Budget, MaxUnits) = sum
  <2>1. /\ phase = "fill" /\ phase' = "fill" /\ pending # <<>> /\ units' = units /\ pending' = rest
        /\ context' = IF full THEN [context EXCEPT !.dropped = @ \cup {u}]
                      ELSE [context EXCEPT !.kept = @ \cup {u}]
    BY <1>6 DEF FitOptional
  <2>2. /\ context = [kept |-> context.kept, dropped |-> context.dropped, refused |-> context.refused]
        /\ context.kept \cup context.dropped \cup Elements(pending) = Dedupe(units)
        /\ context.kept \cap context.dropped = {}
        /\ (context.kept \cup context.dropped) \cap Elements(pending) = {}
        /\ pending \in Seq(units) /\ Distinct(pending) /\ Cost(context.kept) <= Budget
        /\ PrimaryOf(Dedupe(units)) \subseteq context.kept
    BY <2>1 DEF PageKnown, Presented
  <2>3. /\ u \in units /\ rest \in Seq(units) /\ Elements(pending) = {u} \cup Elements(rest)
        /\ Distinct(rest) /\ u \notin Elements(rest)
    BY <2>1, <2>2, FirstAndRest
  <2>4. context.kept \subseteq units /\ u \notin context.kept /\ u \notin context.dropped
    BY <2>2, <2>3 DEF Dedupe
  <2>5. IsFiniteSet(context.kept)
    BY <1>1, <2>4, FS_Subset
  <2>6. ~full => Cost(context.kept) + Tokens[u.role] <= Budget
    <3> DEFINE n == Tokens[u.role]
    <3>1. sum.tokens = Cost(context.kept) /\ n \in Nat /\ Cost(context.kept) \in Nat
      BY <1>1, <2>3, <2>4, <2>5, TokensFinite
    <3>2. ~full => ~(sum.tokens + n > Budget)
      <4> HIDE DEF sum, n
      <4>1. QED BY DEF Consider, n
    <3> HIDE DEF sum, n, full
    <3>3. QED BY <1>2, <3>1, <3>2 DEF n
  <2>7. ~full => Cost(context.kept \cup {u}) <= Budget
    BY <1>1, <2>3, <2>4, <2>5, <2>6, CostMore
  <2>8. Dedupe(units)' = Dedupe(units) /\ PrimaryOf(Dedupe(units))' = PrimaryOf(Dedupe(units))
    BY <2>1
  <2> HIDE DEF full, u, rest
  <2>9. CASE full
    <3>1. /\ context'.kept = context.kept /\ context'.dropped = context.dropped \cup {u}
          /\ context' = [kept |-> context'.kept, dropped |-> context'.dropped,
                         refused |-> context'.refused]
      BY <2>1, <2>2, <2>9
    <3>2. QED BY <2>1, <2>2, <2>3, <2>4, <2>8, <3>1 DEF PageKnown, Presented
  <2>10. CASE ~full
    <3>1. /\ context'.kept = context.kept \cup {u} /\ context'.dropped = context.dropped
          /\ context' = [kept |-> context'.kept, dropped |-> context'.dropped,
                         refused |-> context'.refused]
      BY <2>1, <2>2, <2>10
    <3>2. QED BY <2>1, <2>2, <2>3, <2>4, <2>7, <2>8, <2>10, <3>1 DEF PageKnown, Presented
  <2>11. QED BY <2>9, <2>10
<1>7. CASE Finish
  <2>1. phase = "fill" /\ phase' = "done" /\ pending = <<>> /\ UNCHANGED <<pending, units, context>>
    BY <1>7 DEF Finish
  <2>2. Dedupe(units)' = Dedupe(units) /\ PrimaryOf(Dedupe(units))' = PrimaryOf(Dedupe(units))
    BY <2>1
  <2>3. QED BY <2>1, <2>2 DEF PageKnown, Presented
<1>8. CASE UNCHANGED vars
  <2>1. UNCHANGED <<phase, pending, units, context>>
    BY <1>8 DEF vars
  <2>2. Dedupe(units)' = Dedupe(units) /\ PrimaryOf(Dedupe(units))' = PrimaryOf(Dedupe(units))
    BY <2>1
  <2>3. QED BY <2>1, <2>2 DEF PageKnown, Presented
<1>9. CASE Containing \/ NoFunction \/ FlatWindow \/ Types \/ TypesDone \/ Macros \/ Globals
           \/ Walk \/ WalkDone \/ Cleanup \/ FlowUnits \/ AnalyzerMessages
  <2>1. phase' \notin {"fill", "done"}
    BY <1>9 DEF Containing, NoFunction, FlatWindow, Types, TypesDone, Macros, Globals, Walk,
                WalkDone, Cleanup, FlowUnits, AnalyzerMessages
  <2>2. QED BY <1>3, <2>1
<1>10. QED
  BY <1>5, <1>6, <1>7, <1>8, <1>9 DEF Next

-----------------------------------------------------------------------------
(* The invariant, from the beginning.                                      *)
LEMMA RetrievalBegins ==
  ASSUME Init
  PROVE  RetrievalInv
<1>1. /\ \E s \in Situations : index = s.index /\ candidate = s.candidate
      /\ phase = "containing" /\ hop = 0 /\ pending = <<>> /\ units = {} /\ gaps = {}
      /\ missing = {} /\ notes = {}
  BY DEF Init
<1>2. CollectedKnown
  BY <1>1, FS_EmptySet DEF CollectedKnown, Phases
<1>3. TypesHop = 0 /\ CallersHop = 0 /\ CalleesHop = 0
  BY <1>1 DEF TypesHop, CallersHop, CalleesHop, Hops
<1>4. WalksKnown
  BY <1>1, <1>3 DEF WalksKnown, Exactly
<1>5. TypesAround[0] = {Here} /\ CallersAround[0] = {Here} /\ CalleesAround[0] = {Here}
  BY Arounds DEF IsAround
<1>6. \A role : Of(units, role) = {}
  BY <1>1 DEF Of
<1>7. ClosureKnown
  BY <1>1, <1>3, <1>5, <1>6 DEF ClosureKnown, PastMacros, PastCallees
<1>8. CallsKnown
  BY <1>1, <1>3, <1>5 DEF CallsKnown
<1>9. PageKnown
  BY <1>1 DEF PageKnown
<1>10. QED BY <1>2, <1>4, <1>7, <1>8, <1>9 DEF RetrievalInv

(* Each step keeps the invariant.                                          *)
LEMMA RetrievalGoesOn ==
  ASSUME RetrievalInv, [Next]_vars
  PROVE  RetrievalInv'
<1>1. CollectedKnown' /\ WalksKnown'
  BY CollectedStep, WalksStep DEF RetrievalInv
<1>2. ClosureKnown' /\ CallsKnown' /\ PageKnown'
  BY ClosureStep, CallsStep, PageStep DEF RetrievalInv
<1>3. QED BY <1>1, <1>2 DEF RetrievalInv

(* What was collected, what is still to be looked at and what was said     *)
(* agree with the index at every step (retrieval/service.py expand).       *)
THEOREM RetrievalKeepsItsBooks == Spec => []RetrievalInv
<1>1. Init => RetrievalInv
  BY RetrievalBegins
<1>2. RetrievalInv /\ [Next]_vars => RetrievalInv'
  BY RetrievalGoesOn
<1>3. QED BY <1>1, <1>2, PTL DEF Spec

-----------------------------------------------------------------------------
(* What the invariant says of a finished context.                          *)
LEMMA AllIsRead ==
  ASSUME RetrievalInv, phase = "done"
  PROVE  /\ Presented = Dedupe(units)
         /\ \A u \in units : \E v \in Presented : EvidenceId(v) = EvidenceId(u) /\ ~Before(u, v)
<1>1. Presented = Dedupe(units)
  <2>1. pending = <<>> /\ context.kept \cup context.dropped \cup Elements(pending) = Dedupe(units)
    BY DEF RetrievalInv, PageKnown
  <2>2. Elements(pending) = {}
    BY <2>1 DEF Elements
  <2>3. QED BY <2>1, <2>2 DEF Presented
<1>2. ASSUME NEW u \in units
      PROVE  \E v \in Presented : EvidenceId(v) = EvidenceId(u) /\ ~Before(u, v)
  <2> DEFINE S == {w \in units : EvidenceId(w) = EvidenceId(u)}
             less == {p \in units \X units : Before(p[1], p[2])}
  <2>1. IsFiniteSet(S) /\ S # {} /\ S \subseteq units
    <3>1. IsFiniteSet(units) /\ S \subseteq units
      BY DEF RetrievalInv, CollectedKnown
    <3>2. u \in S
      OBVIOUS
    <3> HIDE DEF S
    <3>3. QED BY <3>1, <3>2, FS_Subset
  <2>2. \A x, y : <<x, y>> \in less <=> x \in units /\ y \in units /\ Before(x, y)
    OBVIOUS
  <2>3. /\ \A x \in units : ~Before(x, x)
        /\ \A x, y, z \in units : Before(x, y) /\ Before(y, z) => Before(x, z)
    BY BeforeOrders DEF RetrievalInv
  <2>4. \A w \in units : w \in S <=> EvidenceId(w) = EvidenceId(u)
    OBVIOUS
  <2> HIDE DEF S, less
  <2>5. /\ \A x \in S : <<x, x>> \notin less
        /\ \A x, y, z \in S : <<x, y>> \in less /\ <<y, z>> \in less => <<x, z>> \in less
    BY <2>1, <2>2, <2>3
  <2>6. PICK v \in S : \A w \in S : <<w, v>> \notin less
    BY <2>1, <2>5, OneIsFirst
  <2>7. v \in units /\ EvidenceId(v) = EvidenceId(u) /\ u \in S
    BY <2>1, <2>4, <2>6
  <2>8. \A w \in units : EvidenceId(w) = EvidenceId(v) => ~Before(w, v)
    BY <2>1, <2>2, <2>4, <2>6, <2>7
  <2>9. v \in Dedupe(units) /\ ~Before(u, v)
    BY <2>7, <2>8 DEF Dedupe
  <2>10. QED BY <1>1, <2>7, <2>9
<1>3. QED BY <1>1, <1>2

(* The page is chosen well.                                                *)
LEMMA PageFollows ==
  ASSUME RetrievalInv
  PROVE  PageIsChosenWell
<1>1. CollectedKnown /\ WalksKnown /\ PageKnown
  BY DEF RetrievalInv
<1>2. StrongestRoleStands
  BY AllIsRead DEF StrongestRoleStands
<1>3. PageFitsBudget
  <2>1. ASSUME phase = "done", ~(context.kept = {} /\ context.refused)
        PROVE  PrimaryOf(context.dropped) = {}
    <3>1. /\ PrimaryOf(Dedupe(units)) \subseteq context.kept
          /\ context.dropped \subseteq Dedupe(units) /\ context.kept \cap context.dropped = {}
      BY <1>1, <2>1 DEF PageKnown
    <3>2. QED BY <3>1 DEF PrimaryOf
  <2>2. phase = "done" => Cost(context.kept) <= Budget
    BY <1>1 DEF PageKnown
  <2>3. QED BY <2>1, <2>2 DEF PageFitsBudget
<1>4. TypeOK
  <2>1. /\ \A u \in units : u.region \in Regions /\ u.role \in DOMAIN Base /\ u.depth \in Nat
                            /\ u.onPath \in BOOLEAN
        /\ gaps \subseteq lost /\ RegionsOf(units) \cap lost = {} /\ hop \in 0..16
        /\ {x[1] : x \in missing} \subseteq TypeNames \cup MacroNames \cup GlobalNames
    <3>1. \A u \in units : /\ u.region \in Regions /\ u.role \in DOMAIN Base /\ u.depth \in Nat
                           /\ u.onPath \in BOOLEAN /\ u.region \notin lost
      BY <1>1 DEF CollectedKnown, UnitKnown
    <3>2. RegionsOf(units) \cap lost = {}
      BY <3>1 DEF RegionsOf
    <3>3. QED BY <1>1, <3>1, <3>2 DEF CollectedKnown
  <2>2. ASSUME phase = "done"
        PROVE  /\ context.kept \cap context.dropped = {}
               /\ \A u, v \in Presented : EvidenceId(u) = EvidenceId(v) => u = v
    <3>1. context.kept \cap context.dropped = {} /\ Presented = Dedupe(units)
      BY <1>1, <2>2, AllIsRead DEF PageKnown
    <3>2. ASSUME NEW u \in Presented, NEW v \in Presented, EvidenceId(u) = EvidenceId(v)
          PROVE  u = v
      <4>1. u \in units /\ v \in units /\ ~Before(u, v) /\ ~Before(v, u)
        BY <3>1, <3>2 DEF Dedupe
      <4>2. QED BY <1>1, <4>1, BeforeOrders
    <3>3. QED BY <3>1, <3>2
  <2>3. QED BY <2>1, <2>2 DEF TypeOK
<1>5. QED BY <1>2, <1>3, <1>4 DEF PageIsChosenWell

(* An exact walk has the distances.                                        *)
LEMMA ExactDistance ==
  ASSUME NEW role, NEW k, NEW limit \in Nat,
         Exactly(units, role, k, limit, Outside \cup BodyLess \cup lost)
  PROVE  AtDistance(role, k, limit)
<1> SUFFICES ASSUME NEW f \in Fns
             PROVE  LET reached == {n \in 1..limit : f \in k[n] \ k[n - 1]} IN
                    {u.depth : u \in {v \in As(role) : v.region = f}} =
                      IF f \notin Outside \cup BodyLess \cup lost THEN reached ELSE {}
  BY DEF AtDistance
<1> DEFINE out == Outside \cup BodyLess \cup lost
           reached == {n \in 1..limit : f \in k[n] \ k[n - 1]}
           depths == {u.depth : u \in {v \in As(role) : v.region = f}}
<1>1. \A n \in 1..limit : Last(k, n) = k[n] \ k[n - 1]
  BY DEF Last
<1>2. ASSUME NEW d \in depths PROVE f \notin out /\ d \in reached
  <2>1. PICK u \in units : u.role = role /\ u.region = f /\ u.depth = d
    BY <1>2 DEF As
  <2>2. d \in 1..limit /\ f \in Last(k, d) \ out
    BY <2>1 DEF Exactly
  <2>3. QED BY <1>1, <2>2
<1>3. ASSUME f \notin out, NEW d \in reached PROVE d \in depths
  <2>1. f \in Last(k, d) \ out
    BY <1>1, <1>3
  <2>2. PICK u \in units : u.role = role /\ u.region = f /\ u.depth = d
    BY <1>3, <2>1 DEF Exactly
  <2>3. QED BY <2>2 DEF As
<1>4. depths = IF f \notin out THEN reached ELSE {}
  <2> HIDE DEF depths, reached, out
  <2>1. CASE f \notin out
    BY <1>2, <1>3, <2>1
  <2>2. CASE f \in out
    BY <1>2, <2>2
  <2>3. QED BY <2>1, <2>2
<1>5. QED BY <1>4

(* The context says what it lacks.                                         *)
LEMMA ContextFollows ==
  ASSUME RetrievalInv
  PROVE  ContextSaysWhatItLacks
<1>1. CollectedKnown /\ WalksKnown /\ ClosureKnown /\ CallsKnown
  BY DEF RetrievalInv
<1>2. ASSUME Expanded
      PROVE  /\ TypesHop = TypeDepth /\ CallersHop = CallerDepth /\ CalleesHop = CalleeDepth
             /\ phase = "done" /\ Structured /\ Here \in Fns
  <2>1. phase = "done" /\ Structured
    BY <1>2 DEF Expanded, Structured
  <2>2. TypesHop = TypeDepth /\ CallersHop = CallerDepth /\ CalleesHop = CalleeDepth
    BY <2>1 DEF TypesHop, CallersHop, CalleesHop, Hops
  <2>3. QED BY <1>1, <2>1, <2>2, GivenFacts DEF Structured
<1>3. \A role : RegionsOf(As(role)) = Of(units, role)
  BY DEF RegionsOf, As, Of
<1>4. DistanceExact
  <2>1. ASSUME Expanded
        PROVE  /\ Exactly(units, "caller", CallersAround, CallerDepth, Outside \cup BodyLess \cup lost)
               /\ Exactly(units, "callee", CalleesAround, CalleeDepth, Outside \cup BodyLess \cup lost)
    BY <1>1, <1>2, <2>1 DEF WalksKnown
  <2>2. QED BY <2>1, ExactDistance, Arounds DEF DistanceExact
<1>5. ClosureOnPage
  <2> SUFFICES ASSUME Expanded, <<"closure incomplete">> \notin notes
               PROVE  /\ \A r \in {Here} \cup Of(units, "type_decl") \cup Of(units, "macro_def") :
                           MacrosIn(r) \subseteq Of(units, "macro_def")
                      /\ TypesAround[TypeDepth] \ {Here} = Of(units, "type_decl")
                      /\ GlobalsOf(Here) = Of(units, "global_decl")
    BY <1>3 DEF ClosureOnPage
  <2>1. phase \in PastMacros /\ Structured /\ TypesHop = TypeDepth
    BY <1>2 DEF PastMacros, PastCallees
  <2>2. missing = {} /\ Names(missing) = {}
    BY <1>1, <2>1 DEF ClosureKnown, Names
  <2>3. \A r \in {Here} \cup Of(units, "type_decl") \cup Of(units, "macro_def") :
          MacrosIn(r) \subseteq Of(units, "macro_def")
    BY <1>1, <2>1, <2>2 DEF ClosureKnown, Followed, MacrosFound
  <2>4. GlobalsOf(Here) = Of(units, "global_decl")
    BY <1>1, <2>1, <2>2 DEF ClosureKnown
  <2>5. TypesAround[TypeDepth] \ {Here} \subseteq Of(units, "type_decl")
    BY <1>1, <2>1, <2>2 DEF ClosureKnown
  <2>6. ASSUME NEW t \in Of(units, "type_decl") PROVE t \in TypesAround[TypeDepth] \ {Here}
    <3>1. PICK u \in units : u.role = "type_decl" /\ u.region = t
      BY <2>6 DEF Of
    <3> DEFINE d == u.depth
    <3>2. d \in 1..TypeDepth /\ t \in Last(TypesAround, d)
      BY <1>1, <2>1, <3>1 DEF WalksKnown, Exactly
    <3> HIDE DEF d
    <3>3. QED BY <3>2, Arounds, LastWithin
  <2>7. QED BY <2>3, <2>4, <2>5, <2>6
<1>6. NothingSilentlyMissing
  <2> SUFFICES ASSUME Expanded
               PROVE  LET near == (CallersAround[CallerDepth] \cup CalleesAround[CalleeDepth]) \ Outside
                          told == RegionsOf(Presented) \cup gaps \cup {x[1] : x \in missing}
                                    \cup {x[1] : x \in notes \cap {<<f, "no body">> : f \in Fns}}
                      IN near \cup TypesOf(Here) \cup MacrosIn(Here) \cup GlobalsOf(Here) \subseteq told
    BY DEF NothingSilentlyMissing
  <2> DEFINE told == RegionsOf(Presented) \cup gaps \cup {x[1] : x \in missing}
                       \cup {x[1] : x \in notes \cap {<<f, "no body">> : f \in Fns}}
  <2>1. phase \in PastMacros /\ Structured /\ TypesHop = TypeDepth /\ Here \in Fns
    BY <1>2 DEF PastMacros, PastCallees
  <2>2. \A u \in units : u.region \in told
    <3>1. ASSUME NEW u \in units PROVE u.region \in told
      <4>1. PICK v \in Presented : EvidenceId(v) = EvidenceId(u)
        BY <1>2, AllIsRead
      <4>2. v.region = u.region
        BY <4>1 DEF EvidenceId
      <4>3. QED BY <4>1, <4>2 DEF RegionsOf
    <3>2. QED BY <3>1
  <2>3. gaps \subseteq told /\ Names(missing) \subseteq told
    BY DEF Names
  <2>4. \A f \in Fns : <<f, "no body">> \in notes => f \in told
    <3>1. ASSUME NEW f \in Fns, <<f, "no body">> \in notes PROVE f \in told
      <4>1. <<f, "no body">> \in notes \cap {<<g, "no body">> : g \in Fns}
        BY <3>1
      <4>2. <<f, "no body">>[1] = f
        OBVIOUS
      <4>3. QED BY <4>1, <4>2
    <3>2. QED BY <3>1
  <2> HIDE DEF told
  <2>5. \A role : Of(units, role) \subseteq told
    BY <2>2 DEF Of
  <2>6. \A f \in Fns : Told(units, gaps, notes, f) => f \in told
    BY <2>2, <2>3, <2>4 DEF Told
  <2>7. CallersAround[CallerDepth] \subseteq Fns /\ CalleesAround[CalleeDepth] \subseteq Fns
    <3>1. /\ CallersAround[CallerDepth] \subseteq {Here} \cup Fns
          /\ CalleesAround[CalleeDepth] \subseteq {Here} \cup Fns
      <4>1. CallerDepth \in 0..CallerDepth /\ CalleeDepth \in 0..CalleeDepth
        BY Arounds
      <4>2. QED BY <4>1, Arounds, AroundGrows
    <3>2. QED BY <2>1, <3>1
  <2>8. (CallersAround[CallerDepth] \cup CalleesAround[CalleeDepth]) \ Outside \subseteq told
    <3>1. Told(units, gaps, notes, Here)
      BY <1>1, <1>2 DEF CallsKnown
    <3>2. \A f \in CallersAround[CallerDepth] \cup CalleesAround[CalleeDepth] :
            f \in Outside \cup {Here} \/ Told(units, gaps, notes, f)
      BY <1>1, <1>2 DEF CallsKnown
    <3>3. QED BY <2>1, <2>6, <2>7, <3>1, <3>2
  <2>9. TypesOf(Here) \subseteq told
    <3>1. TypesOf(Here) \subseteq TypesAround[1]
      <4>1. TypesAround[1] = TypesAround[0] \cup NextTo(TypesAround[0], index.types, TypeNames)
        <5>1. 1 \in 1..TypeDepth /\ 0 = 1 - 1
          BY RetrievalAssumption
        <5>2. QED BY <5>1, Arounds, AroundAt
      <4>2. Here \in TypesAround[0]
        BY Arounds DEF IsAround
      <4>3. QED BY <4>1, <4>2 DEF TypesOf, NextTo
    <3>2. TypesAround[1] \subseteq TypesAround[TypeDepth]
      <4>1. 1 \in 0..TypeDepth /\ TypeDepth \in 0..TypeDepth
        BY RetrievalAssumption
      <4>2. QED BY <4>1, Arounds, AroundGrows
    <3>3. Here \notin TypesOf(Here)
      BY <2>1, RetrievalAssumption DEF TypesOf
    <3>4. QED BY <1>1, <2>1, <2>3, <2>5, <3>1, <3>2, <3>3 DEF ClosureKnown
  <2>10. MacrosIn(Here) \subseteq told /\ GlobalsOf(Here) \subseteq told
    BY <1>1, <2>1, <2>3, <2>5 DEF ClosureKnown, Followed, MacrosFound
  <2>11. QED BY <2>8, <2>9, <2>10 DEF told
<1>7. LowerBoundSaid
  <2> SUFFICES ASSUME Expanded
               PROVE  /\ CallerDepth > 0 /\ (\E f \in Fns : UnresolvedIn(f)) =>
                           <<"caller", "lower bound">> \in notes
                      /\ CalleeDepth > 0
                           /\ (\E f \in CalleesAround[CalleeDepth - 1] : UnresolvedIn(f)) =>
                           <<"callee", "lower bound">> \in notes
    BY DEF LowerBoundSaid, UnresolvedIn
  <2>1. CallersHop = CallerDepth /\ CalleesHop = CalleeDepth
    BY <1>2
  <2>2. QED BY <1>1, <2>1 DEF CallsKnown, UnresolvedAnywhere
<1>8. QED BY <1>4, <1>5, <1>6, <1>7 DEF ContextSaysWhatItLacks

(* What is near the candidate is collected at its distance, or the context *)
(* says that it is not all there (retrieval/service.py expand).            *)
THEOREM ContextAlwaysSaysWhatItLacks == Spec => []ContextSaysWhatItLacks
<1>1. RetrievalInv => ContextSaysWhatItLacks
  BY ContextFollows
<1>2. QED BY <1>1, RetrievalKeepsItsBooks, PTL

(* Of everything collected the page holds the strongest reading that fits  *)
(* (service.py _dedupe, budget.py select).                                 *)
THEOREM PageIsAlwaysChosenWell == Spec => []PageIsChosenWell
<1>1. RetrievalInv => PageIsChosenWell
  BY PageFollows
<1>2. QED BY <1>1, RetrievalKeepsItsBooks, PTL

-----------------------------------------------------------------------------
(* What leaves the process (Prompt): the context it is made of is finished *)
(* when its assembly begins and is not touched by it.                      *)
PromptPhases == {"assembling", "stopped", "assembled"}
Assembled(mentioned) ==
  [cited |-> Sendable, quoted |-> Sendable \ Swallowed, named |-> Masked(mentioned),
   limitations |-> {u.region : u \in Withheld} \cup RedactedPrimaries,
   redactions |-> Cardinality(Replaced) + TailHits]

PromptInv ==
  /\ phase \notin PromptPhases => RetrievalInv
  /\ phase \in PromptPhases => IsFiniteSet(context.kept)
  /\ phase = "stopped" => \E mentioned \in {{}, hidden} : Offends(Masked(mentioned))
  /\ Prompted => \E mentioned \in {{}, hidden} :
                   ~Offends(Masked(mentioned)) /\ prompt = Assembled(mentioned)

(* Only units of files that were not excluded are named, and what names    *)
(* an excluded file with a directory in its path is masked.                *)
LEMMA NothingExcludedNamed ==
  ASSUME NEW mentioned
  PROVE  /\ EvidenceNames \cap hidden = {}
         /\ Masked(mentioned) \cap hidden \cap Nested = {}
         /\ Offends(Masked(mentioned)) => FileOf[Site] \in hidden
<1>1. EvidenceNames \cap hidden = {}
  BY DEF EvidenceNames, FilesOf, Sendable
<1>2. Masked(mentioned) \cap hidden \cap Nested = {}
  BY DEF Masked
<1>3. QED BY <1>1, <1>2 DEF Offends

(* The places where a scrub replaced something are the first places, as    *)
(* many as the units that hold a credential, and the second places, as     *)
(* many as those that hold one inside another.                             *)
LEMMA PlacesAreUnits ==
  ASSUME IsFiniteSet(Sendable), NEW k \in 1..2
  PROVE  LET S == {u \in Sendable : Hits(holds[Text(u)]) >= k}
             P == {<<u, k>> : u \in S}
         IN  IsFiniteSet(P) /\ Cardinality(P) = Cardinality(S) /\ Cardinality(S) \in Nat
<1> DEFINE S == {u \in Sendable : Hits(holds[Text(u)]) >= k}
           P == {<<u, k>> : u \in S}
           g == [u \in S |-> <<u, k>>]
<1>1. IsFiniteSet(S)
  BY FS_Subset
<1>2. /\ g \in [S -> P] /\ \A x, y \in S : g[x] = g[y] => x = y
      /\ \A z \in P : \E x \in S : g[x] = z
  OBVIOUS
<1> HIDE DEF S, P, g
<1>3. IsFiniteSet(P) /\ Cardinality(P) = Cardinality(S)
  BY <1>1, <1>2, CountSame
<1>4. QED BY <1>1, <1>3, FS_CardinalityType DEF S, P

(* Together they are all.                                                  *)
LEMMA PlacesAreCounted ==
  ASSUME IsFiniteSet(Sendable)
  PROVE  Cardinality(Replaced) = Cardinality({u \in Sendable : Hits(holds[Text(u)]) >= 1})
                                   + Cardinality({u \in Sendable : Hits(holds[Text(u)]) >= 2})
<1> DEFINE S(k) == {u \in Sendable : Hits(holds[Text(u)]) >= k}
           P(k) == {<<u, k>> : u \in S(k)}
<1>1. \A u : Hits(holds[Text(u)]) \in 0..2
  BY DEF Hits
<1>2. Replaced = P(1) \cup P(2)
  <2>1. ASSUME NEW x \in Replaced PROVE x \in P(1) \cup P(2)
    <3>1. PICK u \in Sendable : x \in {u} \X (1..Hits(holds[Text(u)]))
      BY <2>1 DEF Replaced
    <3>2. PICK n \in 1..Hits(holds[Text(u)]) : x = <<u, n>>
      BY <3>1
    <3>3. n \in 1..2 /\ u \in S(n)
      BY <1>1, <3>2
    <3>4. QED BY <3>2, <3>3
  <2>2. ASSUME NEW k \in 1..2, NEW u \in S(k) PROVE <<u, k>> \in Replaced
    <3>1. k \in 1..Hits(holds[Text(u)])
      BY <1>1
    <3>2. <<u, k>> \in {u} \X (1..Hits(holds[Text(u)]))
      BY <3>1
    <3>3. QED BY <3>2 DEF Replaced
  <2>3. QED BY <2>1, <2>2
<1>3. P(1) \cap P(2) = {}
  OBVIOUS
<1>4. /\ IsFiniteSet(P(1)) /\ Cardinality(P(1)) = Cardinality(S(1)) /\ Cardinality(S(1)) \in Nat
      /\ IsFiniteSet(P(2)) /\ Cardinality(P(2)) = Cardinality(S(2)) /\ Cardinality(S(2)) \in Nat
  BY PlacesAreUnits
<1> HIDE DEF S, P
<1>5. Cardinality(P(1) \cup P(2)) = Cardinality(P(1)) + Cardinality(P(2)) - Cardinality(P(1) \cap P(2))
  BY <1>4, FS_Union
<1>6. Cardinality(P(1) \cap P(2)) = 0
  BY <1>3, FS_EmptySet
<1>7. Cardinality(Replaced) = Cardinality(S(1)) + Cardinality(S(2))
  BY <1>2, <1>4, <1>5, <1>6
<1>8. QED BY <1>7 DEF S

(* What was handed over is truthful.                                       *)
LEMMA AssembledIsTruthful ==
  ASSUME Prompted, IsFiniteSet(context.kept), NEW mentioned, prompt = Assembled(mentioned),
         ~Offends(Masked(mentioned))
  PROVE  /\ ExcludedWithheld /\ FileOf[Site] \notin hidden
         /\ NotAsWrittenIsTold /\ ReplacedCountedOnce
<1>1. /\ prompt.cited = Sendable /\ prompt.quoted = Sendable \ Swallowed
      /\ prompt.named = Masked(mentioned)
      /\ prompt.limitations = {u.region : u \in Withheld} \cup RedactedPrimaries
      /\ prompt.redactions = Cardinality(Replaced) + TailHits
  BY DEF Assembled
<1>2. ExcludedWithheld /\ FileOf[Site] \notin hidden
  <2>1. FilesOf({u.region : u \in prompt.quoted}) \subseteq EvidenceNames
    BY <1>1 DEF FilesOf, EvidenceNames
  <2>2. FileOf[Site] \notin hidden
    BY DEF Offends
  <2>3. QED BY <1>1, <2>1, <2>2, NothingExcludedNamed DEF ExcludedWithheld
<1>3. ASSUME NEW u \in context.kept, Primary(u)
      PROVE  \/ u \in prompt.quoted /\ Hits(holds[Text(u)]) = 0
             \/ u.region \in prompt.limitations
             \/ \E b, e \in prompt.cited :
                  Opens(b) /\ Closes(e) /\ ~Before(u, b) /\ ~Before(e, u)
  <2>1. CASE u \notin Sendable
    BY <1>1, <2>1 DEF Withheld
  <2>2. CASE u \in Sendable /\ Hits(holds[Text(u)]) # 0
    <3>1. Hits(holds[Text(u)]) > 0
      BY <2>2 DEF Hits
    <3>2. u.region \in RedactedPrimaries
      BY <1>3, <2>2, <3>1 DEF RedactedPrimaries
    <3>3. QED BY <1>1, <3>2
  <2>3. CASE u \in Swallowed
    BY <1>1, <2>3 DEF Swallowed
  <2>4. QED BY <1>1, <2>1, <2>2, <2>3
<1>4. IsFiniteSet(Sendable) /\ Sendable \subseteq context.kept
  <2>1. Sendable \subseteq context.kept
    BY DEF Sendable
  <2>2. QED BY <2>1, FS_Subset
<1>5. ReplacedCountedOnce
  <2> DEFINE held == {u \in prompt.cited : Credential(Text(u))}
             twice == {u \in prompt.cited : Buried(Text(u))}
             keys == {u \in prompt.cited \ prompt.quoted : Closes(u)}
  <2>1. \A t : /\ Hits(holds[t]) >= 1 <=> Credential(t)
               /\ Hits(holds[t]) >= 2 <=> Buried(t)
    BY DEF Hits, Credential, Buried
  <2>2. /\ held = {u \in Sendable : Hits(holds[Text(u)]) >= 1}
        /\ twice = {u \in Sendable : Hits(holds[Text(u)]) >= 2}
    BY <1>1, <2>1
  <2>3. keys = Blocks
    BY <1>1 DEF Swallowed, Blocks
  <2>4. Cardinality(Replaced) = Cardinality(held) + Cardinality(twice)
    BY <1>4, <2>2, PlacesAreCounted
  <2>5. Cardinality(held) \in Nat /\ Cardinality(twice) \in Nat
    <3>1. held \subseteq Sendable /\ twice \subseteq Sendable
      BY <1>1
    <3>2. IsFiniteSet(held) /\ IsFiniteSet(twice)
      BY <1>4, <3>1, FS_Subset
    <3>3. QED BY <3>2, FS_CardinalityType
  <2>6. Cardinality(keys) = Cardinality(Blocks) /\ Cardinality(Blocks) \in Nat
    <3>1. IsFiniteSet(Blocks)
      <4>1. Blocks \subseteq Sendable
        BY DEF Blocks, Swallowed
      <4>2. QED BY <1>4, <4>1, FS_Subset
    <3>2. QED BY <2>3, <3>1, FS_CardinalityType
  <2>7. Hits(holds[Message]) =
          (IF Credential(Message) THEN 1 ELSE 0) + (IF Buried(Message) THEN 1 ELSE 0)
    BY DEF Hits, Credential, Buried
  <2> HIDE DEF held, twice, keys
  <2>8. prompt.redactions =
          Cardinality(held) + Cardinality(twice)
            + (IF Credential(Message) THEN 1 ELSE 0) + (IF Buried(Message) THEN 1 ELSE 0)
            + Cardinality(keys)
    <3>1. Hits(holds[Message]) \in Nat
      BY DEF Hits
    <3> HIDE DEF Credential, Buried
    <3>2. QED BY <1>1, <2>4, <2>5, <2>6, <2>7, <3>1 DEF TailHits
  <2>9. QED BY <2>8 DEF held, twice, keys, ReplacedCountedOnce
<1>6. QED BY <1>2, <1>3, <1>5 DEF NotAsWrittenIsTold

(* A finished context holds finitely many units.                           *)
LEMMA KeptIsFinite ==
  ASSUME RetrievalInv, phase = "done"
  PROVE  IsFiniteSet(context.kept)
<1>1. context.kept \subseteq units
  BY DEF RetrievalInv, PageKnown, Dedupe
<1>2. QED BY <1>1, FS_Subset DEF RetrievalInv, CollectedKnown

(* While a prompt is assembled, retrieval takes no step.                   *)
LEMMA RetrievalRests ==
  ASSUME phase \in PromptPhases
  PROVE  ~Next
<1>1. phase \notin Phases
  BY DEF PromptPhases, Phases
<1>2. ASSUME Next PROVE phase \in Phases
  <2>1. /\ Containing \/ NoFunction \/ FlatWindow => phase = "containing"
        /\ Types \/ TypesDone => phase = "types"
        /\ Macros \/ Globals => phase = "macros"
        /\ Walk \/ WalkDone => phase \in {"callers", "callees"}
    BY Zenon DEF Containing, NoFunction, FlatWindow, Types, TypesDone, Macros, Globals, Walk,
                 WalkDone
  <2>2. /\ Cleanup => phase = "cleanup"
        /\ FlowUnits => phase = "flow"
        /\ AnalyzerMessages => phase = "messages"
        /\ SelectPrimary => phase = "select"
        /\ FitOptional \/ Finish => phase = "fill"
    BY Zenon DEF Cleanup, FlowUnits, AnalyzerMessages, SelectPrimary, FitOptional, Finish
  <2>3. QED BY <1>2, <2>1, <2>2 DEF Next, Phases
<1>3. QED BY <1>1, <1>2

(* What was handed over stays what it was as long as nothing moves.        *)
LEMMA PromptStands ==
  ASSUME hidden' = hidden, holds' = holds, context' = context,
         candidate' = candidate, gaps' = gaps, missing' = missing, NEW mentioned
  PROVE  /\ Masked(mentioned)' = Masked(mentioned)
         /\ Offends(Masked(mentioned))' = Offends(Masked(mentioned))
         /\ Assembled(mentioned)' = Assembled(mentioned)
<1>1. Sendable' = Sendable /\ Withheld' = Withheld
  BY DEF Sendable, Withheld
<1>2. EvidenceNames' = EvidenceNames
  BY <1>1 DEF EvidenceNames
<1>3. Masked(mentioned)' = Masked(mentioned)
  BY <1>1, <1>2 DEF Masked, CandidateNames, LimitationNames, Site
<1>4. (\A u : Closes(u)' = Closes(u)) /\ (\A u : Opens(u)' = Opens(u))
  BY DEF Closes, Opens
<1>5. Swallowed' = Swallowed
  BY <1>1, <1>4 DEF Swallowed
<1>6. TailHits' = TailHits
  BY <1>4, <1>5 DEF TailHits, Blocks
<1>7. Replaced' = Replaced /\ RedactedPrimaries' = RedactedPrimaries
  BY <1>1 DEF Replaced, RedactedPrimaries
<1>8. Assembled(mentioned)' = Assembled(mentioned)
  BY <1>1, <1>3, <1>5, <1>6, <1>7 DEF Assembled
<1>9. Offends(Masked(mentioned))' = Offends(Masked(mentioned))
  BY <1>2, <1>3 DEF Offends, Site
<1>10. QED BY <1>3, <1>8, <1>9

LEMMA PromptStep ==
  ASSUME PromptInv, [PromptNext]_<<vars, promptVars>>
  PROVE  PromptInv'
<1>1. CASE phase \notin PromptPhases /\ [Next]_vars /\ UNCHANGED promptVars
  <2>1. RetrievalInv'
    BY <1>1, RetrievalGoesOn DEF PromptInv
  <2>2. phase' \notin PromptPhases
    BY <2>1 DEF RetrievalInv, CollectedKnown, Phases, PromptPhases
  <2>3. QED BY <2>1, <2>2 DEF PromptInv, PromptPhases, Prompted
<1>2. CASE phase \in PromptPhases /\ UNCHANGED vars /\ UNCHANGED promptVars
  <2>1. /\ hidden' = hidden /\ holds' = holds /\ context' = context /\ phase' = phase
        /\ candidate' = candidate /\ gaps' = gaps /\ missing' = missing /\ prompt' = prompt
    BY <1>2 DEF vars, promptVars
  <2>2. \A mentioned : /\ Offends(Masked(mentioned))' = Offends(Masked(mentioned))
                       /\ Assembled(mentioned)' = Assembled(mentioned)
    BY <2>1, PromptStands
  <2>3. phase' \in PromptPhases /\ IsFiniteSet(context'.kept)
    BY <1>2, <2>1 DEF PromptInv
  <2>4. phase' = "stopped" => \E mentioned \in {{}, hidden'} : Offends(Masked(mentioned))'
    BY <2>1, <2>2 DEF PromptInv
  <2>5. Prompted' => \E mentioned \in {{}, hidden'} :
                       ~Offends(Masked(mentioned))' /\ prompt' = Assembled(mentioned)'
    BY <2>1, <2>2 DEF PromptInv, Prompted
  <2>6. QED BY <2>3, <2>4, <2>5 DEF PromptInv
<1>3. CASE Assemble
  <2>1. phase = "done" /\ phase' = "assembling" /\ context' = context
    BY <1>3 DEF Assemble
  <2>2. RetrievalInv
    BY <2>1 DEF PromptInv, PromptPhases
  <2>3. IsFiniteSet(context.kept)
    BY <2>1, <2>2, KeptIsFinite
  <2>4. QED BY <2>1, <2>3 DEF PromptInv, PromptPhases, Prompted
<1>4. CASE HandOver
  <2>1. /\ hidden' = hidden /\ holds' = holds /\ context' = context
        /\ candidate' = candidate /\ gaps' = gaps /\ missing' = missing
    BY <1>4 DEF HandOver, inputs
  <2>2. \A mentioned : /\ Offends(Masked(mentioned))' = Offends(Masked(mentioned))
                       /\ Assembled(mentioned)' = Assembled(mentioned)
    BY <2>1, PromptStands
  <2>3. phase = "assembling" /\ IsFiniteSet(context'.kept)
    BY <1>4, <2>1 DEF HandOver, PromptInv, PromptPhases
  <2>4. PICK said \in {{}, hidden} :
          IF Offends(Masked(said)) THEN phase' = "stopped" /\ prompt' = prompt
          ELSE phase' = "assembled" /\ prompt' = Assembled(said)
    BY <1>4 DEF HandOver, Assembled
  <2>5. CASE Offends(Masked(said))
    <3>1. phase' = "stopped" /\ said \in {{}, hidden'} /\ Offends(Masked(said))'
      BY <2>1, <2>2, <2>4, <2>5
    <3>2. QED BY <2>3, <3>1 DEF PromptInv, PromptPhases, Prompted
  <2>6. CASE ~Offends(Masked(said))
    <3>1. /\ phase' = "assembled" /\ said \in {{}, hidden'} /\ ~Offends(Masked(said))'
          /\ prompt' = Assembled(said)'
      BY <2>1, <2>2, <2>4, <2>6
    <3>2. QED BY <2>3, <3>1 DEF PromptInv, PromptPhases, Prompted
  <2>7. QED BY <2>5, <2>6
<1>5. phase \in PromptPhases => ~Next
  BY RetrievalRests
<1>6. QED BY <1>1, <1>2, <1>3, <1>4, <1>5 DEF PromptNext, promptVars

(* The text that leaves quotes nothing of an excluded file, names none that *)
(* lies in a directory, is not made at all for a candidate in such a file,  *)
(* and says what of the primary code it withheld or rewrote                 *)
(* (llm/prompts/__init__.py assemble), for all contents and exclusions.     *)
THEOREM PromptIsAlwaysTruthful == PromptSpec => []PromptIsTruthful
<1>1. PromptInit => PromptInv
  <2>1. PromptInit => phase = "containing" /\ Init
    BY DEF PromptInit, Init
  <2>2. QED BY <2>1, RetrievalBegins DEF PromptInv, PromptPhases, Prompted
<1>2. PromptInv /\ [PromptNext]_<<vars, promptVars>> => PromptInv'
  BY PromptStep
<1>3. PromptInv => PromptIsTruthful
  <2>1. SUFFICES ASSUME PromptInv PROVE PromptIsTruthful
    OBVIOUS
  <2>2. phase = "stopped" => FileOf[Site] \in hidden
    BY <2>1, NothingExcludedNamed DEF PromptInv
  <2>3. CASE Prompted
    <3>1. IsFiniteSet(context.kept)
      BY <2>1, <2>3 DEF PromptInv, Prompted, PromptPhases
    <3>2. PICK mentioned : ~Offends(Masked(mentioned)) /\ prompt = Assembled(mentioned)
      BY <2>1, <2>3 DEF PromptInv
    <3>3. QED BY <2>2, <2>3, <3>1, <3>2, AssembledIsTruthful
              DEF PromptIsTruthful, StopsAtExcludedSite
  <2>4. CASE ~Prompted
    BY <2>2, <2>4 DEF PromptIsTruthful, ExcludedWithheld, StopsAtExcludedSite,
                      NotAsWrittenIsTold, ReplacedCountedOnce
  <2>5. QED BY <2>3, <2>4
<1>4. QED BY <1>1, <1>2, <1>3, PTL DEF PromptSpec
=============================================================================
