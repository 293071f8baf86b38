----------------------------- MODULE DataInduction -----------------------------
(***************************************************************************)
(* What the proofs about sequences, counts and recursive functions rest    *)
(* on, stated with sets: the least number of a set, induction up to a      *)
(* bound, the existence of a function that is defined by recursion, and    *)
(* how the parts and the image of a finite set are counted.                *)
(***************************************************************************)
EXTENDS Integers, Sequences, FiniteSetTheorems, ContextBudget, TLAPS

(* Every set of numbers that is not empty has a least one.                  *)
LEMMA LeastNumber ==
  ASSUME NEW S \in SUBSET Nat, S # {}
  PROVE  \E n \in S : \A m \in S : n <= m
<1> DEFINE R == {ss \in Nat \X Nat : ss[1] < ss[2]}
<1>1. IsWellFoundedOn(OpToRel(<, Nat), Nat)
  BY NatLessThanWellFounded
<1>2. IsWellFoundedOn(R, Nat)
  BY <1>1 DEF OpToRel
<1>3. PICK x \in S : \A y \in S : ~(<<y, x>> \in R)
  <2> HIDE DEF R
  <2>1. S \subseteq Nat
    OBVIOUS
  <2>2. QED BY <1>2, <2>1, WFMin
<1>4. ASSUME NEW m \in S PROVE x <= m
  <2>1. ~(<<m, x>> \in R) /\ <<m, x>> \in Nat \X Nat
    BY <1>3
  <2>2. ~(m < x)
    BY <2>1
  <2>3. QED BY <2>2
<1>5. QED BY <1>4

(* Induction up to a bound.                                                 *)
LEMMA UpTo ==
  ASSUME NEW n \in Nat, NEW S, 0 \in S, \A i \in 1..n : i - 1 \in S => i \in S
  PROVE  \A i \in 0..n : i \in S
<1> DEFINE missing == {i \in 0..n : i \notin S}
<1>1. ASSUME missing # {} PROVE FALSE
  <2>1. missing \in SUBSET Nat
    OBVIOUS
  <2> HIDE DEF missing
  <2>2. PICK k \in missing : \A m \in missing : k <= m
    BY <1>1, <2>1, LeastNumber
  <2>3. k \in 0..n /\ k \notin S /\ k # 0
    BY <2>2 DEF missing
  <2>4. k \in 1..n /\ k - 1 \in 0..n /\ k - 1 \notin S
    BY <2>3
  <2>5. k - 1 \in missing
    BY <2>4 DEF missing
  <2>6. k <= k - 1
    BY <2>2, <2>5
  <2>7. QED BY <2>4, <2>6
<1>2. QED BY <1>1

(* A first value and a step give a function.                                *)
Steps(n, V) == [(1..n) \X V -> V]

IsRecursive(f, n, V, first, step) ==
    /\ f \in [0..n -> V]
    /\ f[0] = first
    /\ \A i \in 1..n : f[i] = step[<<i, f[i - 1]>>]

LEMMA ByRecursion ==
  ASSUME NEW n \in Nat, NEW V, NEW first \in V, NEW step \in Steps(n, V)
  PROVE  \E f : IsRecursive(f, n, V, first, step)
<1> USE DEF Steps, IsRecursive
<1> DEFINE Is(f, m) == f[0] = first /\ \A i \in 1..m : f[i] = step[<<i, f[i - 1]>>]
           reached == {m \in 0..n : \E f \in [0..m -> V] : Is(f, m)}
<1>1. 0 \in reached
  <2> DEFINE g == [i \in 0..0 |-> first]
  <2>1. g \in [0..0 -> V] /\ Is(g, 0)
    OBVIOUS
  <2> HIDE DEF g, Is
  <2>2. \E f \in [0..0 -> V] : Is(f, 0)
    BY <2>1
  <2>3. QED BY <2>2
<1>2. ASSUME NEW m \in 1..n, m - 1 \in reached PROVE m \in reached
  <2>1. PICK f \in [0..(m - 1) -> V] : Is(f, m - 1)
    BY <1>2
  <2> DEFINE g == [i \in 0..m |-> IF i = m THEN step[<<m, f[m - 1]>>] ELSE f[i]]
  <2>2. m \in 0..n /\ m - 1 \in 0..(m - 1) /\ f[m - 1] \in V
    BY <2>1
  <2>3. step[<<m, f[m - 1]>>] \in V
    BY <2>2
  <2>4. g \in [0..m -> V]
    BY <2>1, <2>3
  <2>5. ASSUME NEW i \in 1..m PROVE g[i] = step[<<i, g[i - 1]>>]
    <3>1. g[i - 1] = f[i - 1]
      OBVIOUS
    <3>2. CASE i = m
      <4>1. m \in 0..m
        OBVIOUS
      <4>2. g[m] = step[<<m, f[m - 1]>>]
        BY <4>1
      <4>3. QED BY <3>1, <3>2, <4>2
    <3>3. CASE i \in 1..(m - 1)
      <4>1. g[i] = f[i] /\ i # m
        BY <3>3
      <4>2. QED BY <2>1, <3>1, <3>3, <4>1
    <3>4. i = m \/ i \in 1..(m - 1)
      OBVIOUS
    <3>5. QED BY <3>2, <3>3, <3>4
  <2>6. g[0] = first
    BY <2>1
  <2>7. QED BY <2>2, <2>4, <2>5, <2>6
<1> HIDE DEF reached
<1>3. \A m \in 0..n : m \in reached
  BY <1>1, <1>2, UpTo
<1>4. n \in reached
  BY <1>3
<1>5. QED BY <1>4 DEF reached

(* Parents come before their children.                                      *)
Parents(n, up) == up \in [1..n -> Nat] /\ \A i \in 1..n : up[i] \in 0..(i - 1)

(* Induction down a tree.                                                   *)
LEMMA DownTheTree ==
  ASSUME NEW n \in Nat, NEW up, Parents(n, up), NEW S, 0 \in S,
         \A i \in 1..n : up[i] \in S => i \in S
  PROVE  \A i \in 0..n : i \in S
<1> DEFINE missing == {i \in 0..n : i \notin S}
<1>1. ASSUME missing # {} PROVE FALSE
  <2>1. missing \in SUBSET Nat
    OBVIOUS
  <2> HIDE DEF missing
  <2>2. PICK k \in missing : \A m \in missing : k <= m
    BY <1>1, <2>1, LeastNumber
  <2>3. k \in 1..n /\ k \notin S
    BY <2>2 DEF missing
  <2>4. up[k] \in 0..(k - 1) /\ up[k] \in 0..n /\ up[k] \notin S
    BY <2>3 DEF Parents
  <2>5. up[k] \in missing
    BY <2>4 DEF missing
  <2>6. k <= up[k]
    BY <2>2, <2>5
  <2>7. QED BY <2>3, <2>4, <2>6
<1>2. QED BY <1>1

(* A function that is defined from the parent's value exists.               *)
IsInherited(f, n, up, V, first, step) ==
    /\ f \in [0..n -> V]
    /\ f[0] = first
    /\ \A i \in 1..n : f[i] = step[<<i, f[up[i]]>>]

LEMMA ByParents ==
  ASSUME NEW n \in Nat, NEW up, Parents(n, up), NEW V, NEW first \in V, NEW step \in Steps(n, V)
  PROVE  \E f : IsInherited(f, n, up, V, first, step)
<1> USE DEF Steps, Parents, IsInherited
<1> DEFINE Is(f, m) == f[0] = first /\ \A i \in 1..m : f[i] = step[<<i, f[up[i]]>>]
           reached == {m \in 0..n : \E f \in [0..m -> V] : Is(f, m)}
<1>1. 0 \in reached
  <2> DEFINE g == [i \in 0..0 |-> first]
  <2>1. g \in [0..0 -> V] /\ Is(g, 0)
    OBVIOUS
  <2> HIDE DEF g, Is
  <2>2. \E f \in [0..0 -> V] : Is(f, 0)
    BY <2>1
  <2>3. QED BY <2>2
<1>2. ASSUME NEW m \in 1..n, m - 1 \in reached PROVE m \in reached
  <2>1. PICK f \in [0..(m - 1) -> V] : Is(f, m - 1)
    BY <1>2
  <2> DEFINE g == [i \in 0..m |-> IF i = m THEN step[<<m, f[up[m]]>>] ELSE f[i]]
  <2>2. m \in 0..n /\ up[m] \in 0..(m - 1) /\ f[up[m]] \in V
    BY <2>1
  <2>3. step[<<m, f[up[m]]>>] \in V
    BY <2>2
  <2>4. g \in [0..m -> V]
    BY <2>1, <2>3
  <2>5. ASSUME NEW i \in 1..m PROVE g[i] = step[<<i, g[up[i]]>>]
    <3>1. up[i] \in 0..(m - 1) /\ up[i] # m /\ up[i] \in 0..m
      OBVIOUS
    <3>2. g[up[i]] = f[up[i]]
      BY <3>1
    <3>3. CASE i = m
      <4>1. m \in 0..m
        OBVIOUS
      <4>2. g[m] = step[<<m, f[up[m]]>>]
        BY <4>1
      <4>3. QED BY <3>2, <3>3, <4>2
    <3>4. CASE i \in 1..(m - 1)
      <4>1. g[i] = f[i] /\ i # m
        BY <3>4
      <4>2. QED BY <2>1, <3>2, <3>4, <4>1
    <3>5. i = m \/ i \in 1..(m - 1)
      OBVIOUS
    <3>6. QED BY <3>3, <3>4, <3>5
  <2>6. g[0] = first
    BY <2>1
  <2> HIDE DEF g
  <2>7. QED BY <2>2, <2>4, <2>5, <2>6
<1> HIDE DEF reached
<1>3. \A m \in 0..n : m \in reached
  BY <1>1, <1>2, UpTo
<1>4. n \in reached
  BY <1>3
<1>5. QED BY <1>4 DEF reached

(* How the elements of a set in parts are counted.                          *)
LEMMA CountUpTo ==
  ASSUME NEW n \in Nat
  PROVE  IsFiniteSet(1..n) /\ Cardinality(1..n) = n
  BY FS_Interval

LEMMA CountRest ==
  ASSUME NEW S, IsFiniteSet(S), NEW T, T \subseteq S
  PROVE  /\ IsFiniteSet(T) /\ IsFiniteSet(S \ T)
         /\ Cardinality(S) \in Nat /\ Cardinality(T) \in Nat /\ Cardinality(S \ T) \in Nat
         /\ Cardinality(S) = Cardinality(T) + Cardinality(S \ T)
<1>1. T \in SUBSET S /\ S \ T \in SUBSET S /\ S \cap T = T
  OBVIOUS
<1>2. IsFiniteSet(T) /\ IsFiniteSet(S \ T)
  BY <1>1, FS_Subset
<1>3. /\ Cardinality(S) \in Nat /\ Cardinality(T) \in Nat /\ Cardinality(S \ T) \in Nat
  BY <1>2, FS_CardinalityType
<1>4. Cardinality(S \ T) = Cardinality(S) - Cardinality(S \cap T)
  BY FS_Difference
<1>5. QED BY <1>1, <1>2, <1>3, <1>4

LEMMA CountSame ==
  ASSUME NEW S, NEW T, IsFiniteSet(S), NEW f \in [S -> T],
         \A x, y \in S : f[x] = f[y] => x = y, \A z \in T : \E x \in S : f[x] = z
  PROVE  IsFiniteSet(T) /\ Cardinality(T) = Cardinality(S)
<1>1. f \in Bijection(S, T)
  BY DEF Bijection, Injection, Surjection, IsInjective
<1>2. ExistsBijection(S, T)
  BY <1>1 DEF ExistsBijection
<1>3. QED BY <1>2, FS_Bijection

LEMMA CountImage ==
  ASSUME NEW S, NEW T, IsFiniteSet(S), NEW f \in [S -> T], \A z \in T : \E x \in S : f[x] = z
  PROVE  IsFiniteSet(T) /\ Cardinality(T) <= Cardinality(S)
<1>1. f \in Surjection(S, T)
  BY DEF Surjection
<1>2. QED BY <1>1, FS_Surjection

LEMMA CountInto ==
  ASSUME NEW S, NEW T, IsFiniteSet(S), IsFiniteSet(T), Cardinality(S) = Cardinality(T),
         NEW f \in [S -> T], \A x, y \in S : f[x] = f[y] => x = y
  PROVE  \A z \in T : \E x \in S : f[x] = z
<1>1. f \in Injection(S, T)
  BY DEF Injection, IsInjective
<1>2. f \in Surjection(S, T)
  BY <1>1, FS_Injection
<1>3. QED BY <1>2 DEF Surjection

(* A strict order on a set, given as its pairs.                            *)
StrictlyOrders(less, S) ==
  /\ \A x \in S : <<x, x>> \notin less
  /\ \A x, y, z \in S : <<x, y>> \in less /\ <<y, z>> \in less => <<x, z>> \in less
  /\ \A x, y \in S : x # y => <<x, y>> \in less \/ <<y, x>> \in less

(* The places of the members of a finite set in a strict order: each has    *)
(* its own, one after all that are before it, and none is left empty.       *)
LEMMA OrderedPlaces ==
  ASSUME NEW S, IsFiniteSet(S), NEW less, StrictlyOrders(less, S), NEW at,
         at = [x \in S |-> Cardinality({y \in S : <<y, x>> \in less}) + 1]
  PROVE  /\ at \in [S -> 1..Cardinality(S)] /\ Cardinality(S) \in Nat
         /\ \A x, y \in S : <<x, y>> \in less => at[x] < at[y]
         /\ \A x, y \in S : at[x] = at[y] => x = y
         /\ \A i \in 1..Cardinality(S) : \E x \in S : at[x] = i
         /\ \A x \in S : /\ Cardinality({y \in S : <<y, x>> \in less}) \in Nat
                          /\ at[x] = Cardinality({y \in S : <<y, x>> \in less}) + 1
<1> DEFINE before(x) == {y \in S : <<y, x>> \in less}
           n == Cardinality(S)
<1>1. n \in Nat /\ IsFiniteSet(1..n) /\ Cardinality(1..n) = n
  BY FS_CardinalityType, CountUpTo
<1>2. ASSUME NEW x \in S
      PROVE  /\ IsFiniteSet(before(x)) /\ Cardinality(before(x)) \in Nat
             /\ at[x] = Cardinality(before(x)) + 1 /\ at[x] \in 1..n
  <2>1. before(x) \subseteq S /\ S \ before(x) # {}
    BY DEF StrictlyOrders
  <2>2. /\ IsFiniteSet(before(x)) /\ IsFiniteSet(S \ before(x)) /\ Cardinality(before(x)) \in Nat
        /\ Cardinality(S \ before(x)) \in Nat
        /\ n = Cardinality(before(x)) + Cardinality(S \ before(x))
    BY <2>1, CountRest
  <2>3. Cardinality(S \ before(x)) # 0
    BY <2>1, <2>2, FS_EmptySet
  <2>4. at[x] = Cardinality(before(x)) + 1
    OBVIOUS
  <2> HIDE DEF n, before
  <2>5. QED BY <1>1, <2>2, <2>3, <2>4
<1>3. ASSUME NEW x \in S, NEW y \in S, <<x, y>> \in less PROVE at[x] < at[y]
  <2>1. before(x) \subseteq before(y) /\ x \in before(y) \ before(x)
    BY <1>3 DEF StrictlyOrders
  <2>2. IsFiniteSet(before(y))
    BY <1>2
  <2>3. /\ Cardinality(before(y)) = Cardinality(before(x)) + Cardinality(before(y) \ before(x))
        /\ Cardinality(before(y) \ before(x)) \in Nat /\ IsFiniteSet(before(y) \ before(x))
    BY <2>1, <2>2, CountRest
  <2>4. Cardinality(before(y) \ before(x)) # 0
    BY <2>1, <2>3, FS_EmptySet
  <2> HIDE DEF n, before
  <2>5. QED BY <1>2, <2>3, <2>4
<1>4. \A x, y \in S : at[x] = at[y] => x = y
  <2>1. SUFFICES ASSUME NEW x \in S, NEW y \in S, x # y PROVE at[x] # at[y]
    OBVIOUS
  <2>2. at[x] < at[y] \/ at[y] < at[x]
    BY <1>3, <2>1 DEF StrictlyOrders
  <2>3. at[x] \in Int /\ at[y] \in Int
    <3>1. at[x] \in 1..n /\ at[y] \in 1..n
      BY <1>2
    <3> HIDE DEF before, n
    <3>2. QED BY <1>1, <3>1
  <2> HIDE DEF before, n
  <2>4. QED BY <2>2, <2>3
<1>5. at \in [S -> 1..n]
  BY <1>2
<1>6. \A i \in 1..n : \E x \in S : at[x] = i
  <2> HIDE DEF n
  <2>1. Cardinality(S) = Cardinality(1..n) /\ IsFiniteSet(1..n)
    BY <1>1 DEF n
  <2> DEFINE T == 1..n
  <2>2. IsFiniteSet(T) /\ Cardinality(S) = Cardinality(T) /\ at \in [S -> T]
    BY <1>5, <2>1
  <2> HIDE DEF T
  <2>3. \A z \in T : \E x \in S : at[x] = z
    BY <1>4, <2>2, CountInto
  <2>4. QED BY <2>3 DEF T
<1>7. QED BY <1>1, <1>2, <1>3, <1>4, <1>5, <1>6

(* What a sequence holds, and one that holds nothing twice.                 *)
Elements(s) == {s[i] : i \in DOMAIN s}
Distinct(s) == \A i, j \in DOMAIN s : s[i] = s[j] => i = j

(* The first of a sequence, and what is left after it.                      *)
LEMMA FirstAndRest ==
  ASSUME NEW X, NEW s \in Seq(X), s # <<>>
  PROVE  /\ Head(s) \in X /\ Tail(s) \in Seq(X)
         /\ Elements(s) = {Head(s)} \cup Elements(Tail(s))
         /\ Distinct(s) => Distinct(Tail(s)) /\ Head(s) \notin Elements(Tail(s))
<1> DEFINE h == Head(s)
           t == Tail(s)
<1>1. /\ h \in X /\ t \in Seq(X) /\ Len(s) \in Nat /\ Len(s) > 0
      /\ DOMAIN s = 1..Len(s) /\ DOMAIN t = 1..(Len(s) - 1) /\ h = s[1]
      /\ \A i \in 1..(Len(s) - 1) : t[i] = s[i + 1]
  OBVIOUS
<1> HIDE DEF h, t
<1>2. \A i \in DOMAIN t : i + 1 \in DOMAIN s /\ i + 1 # 1 /\ t[i] = s[i + 1]
  BY <1>1
<1>3. \A i \in DOMAIN s : i = 1 \/ (i - 1 \in DOMAIN t /\ t[i - 1] = s[i])
  BY <1>1
<1>4. 1 \in DOMAIN s
  BY <1>1
<1>5. Elements(s) = {h} \cup Elements(t)
  <2>1. Elements(s) \subseteq {h} \cup Elements(t)
    BY <1>1, <1>3 DEF Elements
  <2>2. {h} \cup Elements(t) \subseteq Elements(s)
    BY <1>1, <1>2, <1>4 DEF Elements
  <2>3. QED BY <2>1, <2>2
<1>6. ASSUME Distinct(s) PROVE Distinct(t) /\ h \notin Elements(t)
  <2>1. \A i, j \in DOMAIN t : t[i] = t[j] => i + 1 = j + 1
    BY <1>2, <1>6 DEF Distinct
  <2>2. \A i, j \in DOMAIN t : t[i] = t[j] => i = j
    BY <1>1, <2>1
  <2>3. \A i \in DOMAIN t : t[i] # h
    BY <1>1, <1>2, <1>4, <1>6 DEF Distinct
  <2>4. QED BY <2>2, <2>3 DEF Distinct, Elements
<1>7. QED BY <1>1, <1>5, <1>6 DEF h, t

(* The empty sequence holds nothing, and only it does.                      *)
LEMMA HoldsNothing ==
  ASSUME NEW X, NEW s \in Seq(X)
  PROVE  s = <<>> <=> Elements(s) = {}
<1>1. s = <<>> <=> DOMAIN s = {}
  OBVIOUS
<1>2. QED BY <1>1 DEF Elements

(* A sequence holds finitely many.                                          *)
LEMMA ElementsFinite ==
  ASSUME NEW X, NEW s \in Seq(X)
  PROVE  IsFiniteSet(Elements(s))
<1>1. DOMAIN s = 1..Len(s) /\ Len(s) \in Nat
  OBVIOUS
<1>2. IsFiniteSet(DOMAIN s)
  BY <1>1, CountUpTo
<1> DEFINE f == [i \in DOMAIN s |-> s[i]]
<1>3. f \in [DOMAIN s -> Elements(s)] /\ \A z \in Elements(s) : \E i \in DOMAIN s : f[i] = z
  BY DEF Elements
<1> HIDE DEF f
<1>4. QED BY <1>2, <1>3, CountImage

(* One more element. *)
LEMMA OneMore ==
  ASSUME NEW X, NEW s \in Seq(X), NEW x \in X
  PROVE  /\ Append(s, x) \in Seq(X) /\ Elements(Append(s, x)) = Elements(s) \cup {x}
         /\ Len(s) \in Nat /\ Len(Append(s, x)) = Len(s) + 1
         /\ \A i \in 1..Len(s) : Append(s, x)[i] = s[i]
         /\ Append(s, x)[Len(s) + 1] = x
<1> DEFINE t == Append(s, x)
<1>1. /\ t \in Seq(X) /\ Len(t) = Len(s) + 1 /\ Len(s) \in Nat
      /\ DOMAIN t = 1..(Len(s) + 1) /\ DOMAIN s = 1..Len(s)
      /\ \A i \in 1..Len(s) : t[i] = s[i]
      /\ t[Len(s) + 1] = x
  OBVIOUS
<1> HIDE DEF t
<1>2. \A i \in DOMAIN t : i \in DOMAIN s \/ i = Len(s) + 1
  BY <1>1
<1>3. DOMAIN s \subseteq DOMAIN t /\ Len(s) + 1 \in DOMAIN t
  BY <1>1
<1>4. Elements(t) = Elements(s) \cup {x}
  BY <1>1, <1>2, <1>3 DEF Elements
<1>5. QED BY <1>1, <1>4 DEF t

(* The same for a sequence of whatever its elements are.                    *)
LEMMA OneMoreOfAny ==
  ASSUME NEW s, s \in Seq(Elements(s)), NEW x
  PROVE  /\ Append(s, x) \in Seq(Elements(Append(s, x)))
         /\ Len(s) \in Nat /\ Len(Append(s, x)) = Len(s) + 1
         /\ \A i \in 1..Len(s) : Append(s, x)[i] = s[i]
         /\ Append(s, x)[Len(s) + 1] = x
<1> DEFINE X == Elements(s) \cup {x}
<1>1. s \in Seq(X) /\ x \in X
  <2>1. \A i \in DOMAIN s : s[i] \in X
    BY DEF Elements
  <2>2. QED BY <2>1
<1> HIDE DEF X
<1>2. /\ Append(s, x) \in Seq(X) /\ Elements(Append(s, x)) = Elements(s) \cup {x}
      /\ Len(s) \in Nat /\ Len(Append(s, x)) = Len(s) + 1
      /\ \A i \in 1..Len(s) : Append(s, x)[i] = s[i]
      /\ Append(s, x)[Len(s) + 1] = x
  BY <1>1, OneMore
<1>3. QED BY <1>2 DEF X

(* A function takes one value on a set that is not empty just when any two  *)
(* of its values are equal.                                                 *)
LEMMA OneValue ==
  ASSUME NEW S, IsFiniteSet(S), S # {}, NEW f
  PROVE  Cardinality({f[x] : x \in S}) = 1 <=> \A x, y \in S : f[x] = f[y]
<1> DEFINE T == {f[x] : x \in S}
           g == [x \in S |-> f[x]]
<1>1. g \in [S -> T] /\ \A z \in T : \E x \in S : g[x] = z
  OBVIOUS
<1>2. \A x \in S : f[x] \in T
  OBVIOUS
<1>3. \A z \in T : \E x \in S : f[x] = z
  OBVIOUS
<1> HIDE DEF T, g
<1>4. IsFiniteSet(T)
  BY <1>1, CountImage
<1>5. Cardinality(T) = 1 <=> \E z : T = {z}
  BY <1>4, FS_Singleton
<1>6. (\E z : T = {z}) <=> \A x, y \in S : f[x] = f[y]
  <2>1. ASSUME NEW z, T = {z} PROVE \A x, y \in S : f[x] = f[y]
    BY <1>2, <2>1
  <2>2. ASSUME \A x, y \in S : f[x] = f[y] PROVE \E z : T = {z}
    <3>1. PICK x \in S : TRUE
      OBVIOUS
    <3>2. T = {f[x]}
      BY <1>2, <1>3, <2>2, <3>1
    <3>3. QED BY <3>2
  <2>3. QED BY <2>1, <2>2
<1>7. QED BY <1>5, <1>6 DEF T
(* How many numbers of a set there are up to one of them.                   *)
Below(E, i) == Cardinality({j \in E : j <= i})

(* One number more counts for one if it is of the set.                      *)
LEMMA NextBelow ==
  ASSUME NEW L \in Nat, NEW E \in SUBSET (1..L)
  PROVE  /\ IsFiniteSet(E) /\ Cardinality(E) \in Nat
         /\ Below(E, 0) = 0 /\ Below(E, L) = Cardinality(E)
         /\ \A i \in 1..L : /\ Below(E, i) \in Nat /\ Below(E, i - 1) \in Nat
                            /\ i \in E => Below(E, i) = Below(E, i - 1) + 1
                            /\ i \notin E => Below(E, i) = Below(E, i - 1)
<1>1. IsFiniteSet(1..L)
  BY CountUpTo
<1>2. IsFiniteSet(E) /\ Cardinality(E) \in Nat
  BY <1>1, FS_Subset, FS_CardinalityType
<1>3. {j \in E : j <= 0} = {} /\ {j \in E : j <= L} = E
  <2>1. \A j \in E : j \in Nat /\ ~ (j <= 0) /\ j <= L
    OBVIOUS
  <2>2. QED BY <2>1
<1>4. Below(E, 0) = 0 /\ Below(E, L) = Cardinality(E)
  BY <1>3, FS_EmptySet DEF Below
<1>5. ASSUME NEW i \in 1..L
      PROVE  /\ Below(E, i) \in Nat /\ Below(E, i - 1) \in Nat
             /\ i \in E => Below(E, i) = Below(E, i - 1) + 1
             /\ i \notin E => Below(E, i) = Below(E, i - 1)
  <2> DEFINE upto == {j \in E : j <= i}
             before == {j \in E : j <= i - 1}
  <2>1. upto \in SUBSET E /\ before \in SUBSET E
    OBVIOUS
  <2>2. /\ i \notin before
        /\ i \in E => upto = before \cup {i}
        /\ i \notin E => upto = before
    <3>1. \A j \in E : j \in Nat /\ (j <= i <=> j <= i - 1 \/ j = i)
      OBVIOUS
    <3>2. ~ (i <= i - 1) /\ i <= i
      OBVIOUS
    <3>3. QED BY <3>1, <3>2
  <2>3. Below(E, i) = Cardinality(upto) /\ Below(E, i - 1) = Cardinality(before)
    BY DEF Below
  <2> HIDE DEF upto, before
  <2>4. IsFiniteSet(upto) /\ IsFiniteSet(before)
    BY <1>2, <2>1, FS_Subset
  <2>5. Cardinality(upto) \in Nat /\ Cardinality(before) \in Nat
    BY <2>4, FS_CardinalityType
  <2>6. Cardinality(before \cup {i}) = Cardinality(before) + 1
    BY <2>2, <2>4, FS_AddElement
  <2>7. QED BY <2>2, <2>3, <2>5, <2>6
<1>6. QED BY <1>2, <1>4, <1>5

(* The number that makes the count what it is to be.                        *)
LEMMA NthOf ==
  ASSUME NEW L \in Nat, NEW E \in SUBSET (1..L), NEW k \in 1..Cardinality(E)
  PROVE  \E i \in E : Below(E, i) = k
<1> DEFINE W == {i \in 0..L : Below(E, i) >= k}
<1>1. Below(E, 0) = 0 /\ Below(E, L) = Cardinality(E) /\ Cardinality(E) \in Nat
  BY NextBelow
<1>2. W \in SUBSET Nat /\ L \in W /\ 0 \notin W
  BY <1>1
<1>3. \A i \in 0..L : i \in W <=> Below(E, i) >= k
  OBVIOUS
<1>4. W \subseteq 0..L
  OBVIOUS
<1> HIDE DEF W
<1>5. PICK i \in W : \A m \in W : i <= m
  BY <1>2, LeastNumber
<1>6. i \in 1..L
  BY <1>2, <1>4, <1>5
<1>7. i - 1 \notin W /\ i - 1 \in 0..L
  BY <1>5, <1>6
<1>8. Below(E, i) >= k /\ ~ (Below(E, i - 1) >= k)
  BY <1>3, <1>4, <1>5, <1>7
<1>9. /\ Below(E, i) \in Nat /\ Below(E, i - 1) \in Nat
      /\ i \in E => Below(E, i) = Below(E, i - 1) + 1
      /\ i \notin E => Below(E, i) = Below(E, i - 1)
  BY <1>6, NextBelow
<1>10. i \in E /\ Below(E, i) = k
  BY <1>8, <1>9
<1>11. QED BY <1>10

-----------------------------------------------------------------------------
(* The context budget, which more than one command runs under. *)

(* The size of some units is a number.                                      *)
LEMMA SizeIsNat ==
  ASSUME NEW units \in Seq(Nat)
  PROVE  Size(units) \in Nat
<1> DEFINE n == Len(units)
           add == [ik \in (1..n) \X Nat |-> ik[2] + units[ik[1]]]
           Is(f) == f = [i \in 0..n |-> IF i = 0 THEN 0 ELSE f[i - 1] + units[i]]
           sum == CHOOSE f : Is(f)
<1>1. n \in Nat
  OBVIOUS
<1>2. /\ add \in Steps(n, Nat)
      /\ \A i \in 1..n, k \in Nat : add[<<i, k>>] = k + units[i] /\ k + units[i] \in Nat
  BY DEF Steps
<1>3. Size(units) = sum[n]
  BY DEF Size
<1> HIDE DEF n, add
<1>4. /\ n \in 0..n /\ 0 \in 0..n
      /\ \A i \in 1..n : i \in 0..n /\ i - 1 \in 0..n /\ i # 0
  BY <1>1
<1>5. PICK g : IsRecursive(g, n, Nat, 0, add)
  BY <1>1, <1>2, ByRecursion
<1>6. Is(g)
  <2>1. ASSUME NEW i \in 1..n PROVE g[i] = g[i - 1] + units[i]
    BY <1>2, <1>4, <1>5 DEF IsRecursive
  <2>2. QED BY <1>1, <1>5, <2>1 DEF IsRecursive
<1>7. Is(sum)
  BY <1>6
<1> HIDE DEF sum
<1> DEFINE counted == {i \in 0..n : sum[i] \in Nat}
<1>8. 0 \in counted
  BY <1>4, <1>7
<1>9. \A i \in 1..n : i - 1 \in counted => i \in counted
  BY <1>2, <1>4, <1>7
<1> HIDE DEF counted
<1>10. \A i \in 0..n : i \in counted
  BY <1>1, <1>8, <1>9, UpTo, Zenon
<1>11. QED BY <1>3, <1>4, <1>10 DEF counted

(* What is selected fits in the budget it is selected for.                  *)
LEMMA SelectFits ==
  ASSUME NEW primary \in Seq(Nat), NEW optional \in Seq(Nat), NEW budget \in Nat,
         NEW maxUnits
  PROVE  Select(primary, optional, budget, maxUnits).tokens \in 0..budget
<1> DEFINE n == Len(optional)
           V == [units : Nat, tokens : 0..budget]
           first == [units |-> Len(primary), tokens |-> Size(primary)]
           Next1(k, i) == Consider(k, optional[i], budget, maxUnits)
           step == [ik \in (1..n) \X V |-> Next1(ik[2], ik[1])]
           Is(f) == f = [i \in 0..n |-> IF i = 0 THEN first ELSE Next1(f[i - 1], i)]
           kept == CHOOSE f : Is(f)
<1>1. n \in Nat /\ Size(primary) \in Nat /\ Len(primary) \in Nat
  BY SizeIsNat
<1>2. Select(primary, optional, budget, maxUnits)
        = IF Size(primary) > budget THEN [units |-> 0, tokens |-> 0] ELSE kept[n]
  BY DEF Select
<1>3. CASE Size(primary) > budget
  BY <1>2, <1>3
<1>4. CASE ~(Size(primary) > budget)
  <2>1. first \in V
    BY <1>1, <1>4
  <2>2. ASSUME NEW k \in V, NEW i \in 1..n PROVE Next1(k, i) \in V
    <3>1. optional[i] \in Nat
      OBVIOUS
    <3>2. QED BY <3>1 DEF Consider
  <2>3. step \in Steps(n, V) /\ \A i \in 1..n, k \in V : step[<<i, k>>] = Next1(k, i)
    BY <2>2 DEF Steps
  <2>4. /\ n \in 0..n /\ 0 \in 0..n
        /\ \A i \in 1..n : i \in 0..n /\ i - 1 \in 0..n /\ i # 0
    BY <1>1
  <2> HIDE DEF n, V, first, step, Next1
  <2>5. PICK g : IsRecursive(g, n, V, first, step)
    BY <1>1, <2>1, <2>3, ByRecursion
  <2>6. Is(g)
    <3>1. ASSUME NEW i \in 1..n PROVE g[i] = Next1(g[i - 1], i)
      BY <2>3, <2>4, <2>5 DEF IsRecursive
    <3>2. QED BY <1>1, <2>5, <3>1 DEF IsRecursive
  <2>7. Is(kept)
    BY <2>6
  <2> HIDE DEF kept
  <2> DEFINE fits == {i \in 0..n : kept[i] \in V}
  <2>8. 0 \in fits
    BY <2>1, <2>4, <2>7
  <2>9. \A i \in 1..n : i - 1 \in fits => i \in fits
    BY <2>2, <2>4, <2>7
  <2> HIDE DEF fits
  <2>10. \A i \in 0..n : i \in fits
    BY <1>1, <2>8, <2>9, UpTo, Zenon
  <2>11. kept[n] \in V
    BY <2>4, <2>10 DEF fits
  <2>12. QED BY <1>2, <1>4, <2>11 DEF V
<1>5. QED BY <1>3, <1>4
=============================================================================
