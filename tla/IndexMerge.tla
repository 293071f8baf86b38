------------------------------ MODULE IndexMerge ------------------------------
(***************************************************************************)
(* The index built from the pool's results: what one unit contributes when *)
(* Clang parsed it (index/parser.py, traversal.py), how the results are    *)
(* merged (store.py, symbols.py, limits.py) and what the merged index      *)
(* answers about callers, bodies and citations (graphs.py, resolver.py).   *)
(*                                                                         *)
(* A unit is Clang's cursors in pre-order.  Names are atoms, a region is   *)
(* whole lines, and every answer that is a sorted list in the code is a    *)
(* set here.                                                               *)
(***************************************************************************)
EXTENDS ParsePool, KeyedData

CONSTANTS
    Programs,    \* what the units may hold: functions from positions to units
    Repository,  \* the files of the tree, numbered in the order of their paths
    Oversized,   \* those above index.max_file_bytes
    Basename,    \* per file, its name without the directory
    Local,       \* the scope of a file-local entity
    Global       \* the scope of any other entity that is no member of a class

VARIABLES
    program,     \* what Clang sees in the units
    index,       \* the merged index
    absorbed     \* how many results it holds

indexVars == <<program, index, absorbed>>

Callable == {"function", "method"}

SymbolKinds == Callable \cup {"type", "variable", "field"}

(* A file above the cap gives no region: SourceStore.load refuses it.        *)
Readable(file) == file \in Repository \ Oversized

RegionOf(c) == [file |-> c.file, first |-> c.lines[1], last |-> c.lines[2]]

-----------------------------------------------------------------------------
(* What Clang gives.                                                         *)

Entity(c) == IF c.scope = Local THEN <<c.file, c.name>> ELSE <<c.scope, c.name>>

(* A local variable is no symbol.                                            *)
Declares(c) == c.kind \in SymbolKinds /\ (c.kind = "variable" => ~c.local)

(* The body something is in, per cursor it is right below: the nearest       *)
(* cursor above that has one.                                                *)
BodyOf(cursors) ==
    LET body[i \in 0..Len(cursors)] ==
            IF i = 0 THEN None
            ELSE IF Declares(cursors[i]) /\ cursors[i].body THEN cursors[i]
            ELSE body[cursors[i].parent]
    IN body

(* The cursors from one up to its unit.                                      *)
Above(cursors) ==
    LET above[i \in 0..Len(cursors)] ==
            IF i = 0 THEN {} ELSE {i} \cup above[cursors[i].parent]
    IN above

(* What is below a cursor is in the same file, and whoever calls is in a     *)
(* body, not in a declaration (the default arguments of C++ are left out).   *)
CursorOK(cursors, i) ==
    LET c == cursors[i]
    IN /\ c.parent \in 0..(i - 1)
       /\ c.parent # 0 => c.file = cursors[c.parent].file
       /\ c.lines \in Nat \X Nat /\ c.lines[1] <= c.lines[2]
       /\ {c.body, c.virtual, c.local} \subseteq BOOLEAN
       /\ None \notin {c, RegionOf(c), Entity(c)}
       /\ c.target # None => Entity(c.target) # None
       /\ c.kind = "call" =>
            \A j \in Above(cursors)[c.parent] : Declares(cursors[j]) => cursors[j].body

(* A class has its full name, whatever it is declared in.                    *)
IsClass(c) == c.kind = "type" /\ c.scope = Global

(* A base is a base of the class whose body it is right below, and a method  *)
(* that is called has been declared.                                         *)
ClassesOK(cursors, i) ==
    LET c == cursors[i]
    IN /\ c.kind = "base" =>
            /\ c.parent # 0 /\ IsClass(cursors[c.parent]) /\ cursors[c.parent].body
            /\ c.target # None /\ IsClass(c.target)
       /\ c.kind = "method" => c.scope # Local
       /\ c.target # None /\ c.target.kind = "method" =>
            /\ c.target.scope # Local
            /\ c.target.virtual /\ Readable(c.target.file) =>
                 \E j \in DOMAIN cursors :
                    /\ cursors[j].kind = "method" /\ cursors[j].virtual
                    /\ Readable(cursors[j].file) /\ Entity(cursors[j]) = Entity(c.target)

UnitOK(unit) ==
    /\ unit.cursors \in Seq({unit.cursors[i] : i \in DOMAIN unit.cursors})
    /\ \A i \in DOMAIN unit.cursors : CursorOK(unit.cursors, i) /\ ClassesOK(unit.cursors, i)

(* Everything a program names.                                               *)
Mentioned(units) ==
    LET cursors == UNION {{units[p].cursors[i] : i \in DOMAIN units[p].cursors} : p \in Positions}
    IN {c \in cursors \cup ({c.target : c \in cursors} \ {None}) :
          c.kind \in SymbolKinds \cup {"macro"}}

(* What one name stands for is of one kind.                                  *)
EntitiesOK(units) ==
    \A c, d \in Mentioned(units) : Entity(c) = Entity(d) => c.kind = d.kind /\ c.scope = d.scope

ShareALine(c, d) == c.file = d.file /\ c.lines[1] <= d.lines[2] /\ d.lines[1] <= c.lines[2]

Span(c) == c.lines[2] - c.lines[1]

HasBody(c) == c.kind \in Callable /\ c.body /\ Readable(c.file)

(* Two functions that share a line are one in the other, and a unit that     *)
(* reads the outer one reads what the inner one is written in.               *)
LayoutOK(units) ==
    \A p, q \in Positions :
        \A i \in DOMAIN units[p].cursors, j \in DOMAIN units[q].cursors :
            LET c == units[p].cursors[i]
                d == units[q].cursors[j]
            IN HasBody(c) /\ HasBody(d) /\ ShareALine(c, d) /\ c.lines # d.lines =>
                 \/ Span(c) < Span(d)
                 \/ \E k \in DOMAIN units[p].cursors :
                       LET s == units[p].cursors[k]
                       IN /\ s.kind \in SymbolKinds /\ s.file = c.file
                          /\ BodyOf(units[p].cursors)[s.parent] = c
                          /\ s.lines[1] <= d.lines[1] /\ d.lines[2] <= s.lines[2]

ASSUME IndexAssumption ==
    /\ Repository \subseteq Nat
    /\ Local # Global
    /\ None \notin Programs
    /\ \A units \in Programs :
          /\ \A p \in Positions : UnitOK(units[p])
          /\ EntitiesOK(units)
          /\ LayoutOK(units)

-----------------------------------------------------------------------------
(* One unit.                                                                 *)

(* Mutant: file-local names keep the basename Clang gives them.              *)
UsrByBasename(c) ==
    <<IF c.scope = Local /\ c.file \in Repository THEN Basename[c.file] ELSE c.scope, c.name>>

(* normalize_usr: a file-local entity is named by its path.                  *)
Usr(c) == <<IF c.scope = Local THEN c.file ELSE c.scope, c.name>>

(* A local variable is no symbol; nor is anything without a region.          *)
IsSymbol(c) ==
    /\ c.kind \in SymbolKinds \cup {"macro"}
    /\ Readable(c.file)
    /\ c.kind = "variable" => ~c.local

(* A cursor outside the tree is skipped with its children.                   *)
InsideTree(cursors) ==
    LET inside[i \in 0..Len(cursors)] ==
            i = 0 \/ (cursors[i].file \in Repository /\ inside[cursors[i].parent])
    IN inside

(* Path, then first line, then last line.                                    *)
Before(r, s) ==
    \/ r.file < s.file
    \/ r.file = s.file /\ r.first < s.first
    \/ r.file = s.file /\ r.first = s.first /\ r.last <= s.last

(* A macro is always its own definition.                                     *)
Defines(c) == c.body \/ c.kind = "macro"

AsSymbol(c) ==
    [name |-> c.name,
     callable |-> c.kind \in Callable,
     definition |-> IF Defines(c) THEN RegionOf(c) ELSE None,
     declarations |-> IF Defines(c) THEN {} ELSE {RegionOf(c)}]

(* Mutant: the later sighting decides, body or not.                          *)
MergedWithLatest(symbol, other) ==
    [name |-> symbol.name, callable |-> symbol.callable, definition |-> other.definition,
     declarations |-> (symbol.declarations \cup other.declarations) \ {other.definition}]

(* Two sightings of one USR: the body that comes first in region order, the  *)
(* other one forgotten.                                                      *)
MergedWith(symbol, other) ==
    LET bodies == {symbol.definition, other.definition} \ {None}
        body == IF bodies = {} THEN None
                ELSE CHOOSE r \in bodies : \A s \in bodies : Before(r, s)
    IN [name |-> symbol.name, callable |-> symbol.callable, definition |-> body,
        declarations |-> (symbol.declarations \cup other.declarations) \ {body}]

(* One more sighting in the symbols of a unit.                               *)
Recorded(table, c) ==
    Put(table, Usr(c), IF Usr(c) \in DOMAIN table THEN MergedWith(table[Usr(c)], AsSymbol(c))
                       ELSE AsSymbol(c))

Sighted(cursors, i) == InsideTree(cursors)[i] /\ IsSymbol(cursors[i])

(* The symbols after so many cursors, in pre-order.                          *)
SymbolsIn(cursors) ==
    LET table[i \in 0..Len(cursors)] ==
            IF i = 0 THEN << >>
            ELSE LET known == table[i - 1]
                 IN IF Sighted(cursors, i) THEN Recorded(known, cursors[i]) ELSE known
    IN table

(* What a visited cursor is to its children: a symbol that has a body, as    *)
(* far as this unit has been read, encloses them.                            *)
Around(cursors) ==
    LET symbols == SymbolsIn(cursors)
        around[i \in 0..Len(cursors)] ==
            IF i = 0 THEN None
            ELSE LET c == cursors[i]
                 IN IF /\ Sighted(cursors, i) /\ c.kind # "macro"
                       /\ symbols[i][Usr(c)].definition # None
                    THEN Usr(c) ELSE around[c.parent]
    IN around

(* The walk.                                                                 *)
Walked(cursors) ==
    LET inside == InsideTree(cursors)
        around == Around(cursors)
    IN {[cursor |-> cursors[i], enclosing |-> around[cursors[i].parent]] :
          i \in {j \in DOMAIN cursors : inside[j]}}

OfKind(visits, kind) == {v \in visits : v.cursor.kind = kind}

Edge(v, callee, kind, inferred) ==
    [caller |-> v.enclosing, callee |-> callee, site |-> RegionOf(v.cursor), kind |-> kind,
     inferred |-> inferred]

(* Calls outside a body are not recorded.                                    *)
CallSites(visits) ==
    {v \in OfKind(visits, "call") : v.enclosing # None /\ Readable(v.cursor.file)}

Unresolved(v) == v.cursor.target = None \/ v.cursor.target.kind \notin Callable

Dispatched(v) == ~Unresolved(v) /\ v.cursor.target.kind = "method" /\ v.cursor.target.virtual

(* Only a direct call is reclassified.  The extent of an expansion is exact, *)
(* while a call has its lines whole, up to the start of the next one.        *)
FromMacro(visits, v) ==
    \E m \in OfKind(visits, "macro_use") :
        /\ m.cursor.file = v.cursor.file
        /\ \/ m.cursor.lines[1] < v.cursor.lines[1]
           \/ m.cursor.lines[1] = v.cursor.lines[1] /\ m.cursor.column = 1
        /\ v.cursor.lines[2] < m.cursor.lines[2]

Bases(visits) ==
    {<<v.enclosing, Usr(v.cursor.target)>> : v \in {b \in OfKind(visits, "base") :
                                                      b.enclosing # None}}

VirtualMethods(visits) ==
    {Usr(v.cursor) : v \in {m \in OfKind(visits, "method") :
                              m.cursor.virtual /\ Readable(m.cursor.file)}}

ClassOf(method) == <<Global, method[1]>>

DerivedFrom(bases, class) ==
    LET within[n \in 0..Cardinality(bases)] ==
            IF n = 0 THEN {class}
            ELSE within[n - 1] \cup {b[1] : b \in {x \in bases : x[2] \in within[n - 1]}}
    IN within[Cardinality(bases)] \ {class}

(* The overrides this unit sees of the method a virtual call names.          *)
Overrides(visits, v) ==
    LET method == Usr(v.cursor.target)
    IN {m \in VirtualMethods(visits) :
          /\ m[2] = method[2]
          /\ ClassOf(m) \in DerivedFrom(Bases(visits), ClassOf(method))}

(* A class is known when this unit declares a virtual method of it in the    *)
(* tree, derives from it or derives it.                                      *)
KnownClass(visits, class) ==
    \/ \E m \in VirtualMethods(visits) : ClassOf(m) = class
    \/ \E b \in Bases(visits) : class \in {b[1], b[2]}

CallsIn(visits) ==
    UNION {IF Unresolved(v) THEN {Edge(v, None, "function_pointer", FALSE)}
           ELSE IF Dispatched(v)
           THEN {Edge(v, Usr(v.cursor.target), "virtual", FALSE)}
                \cup {Edge(v, m, "virtual", TRUE) : m \in Overrides(visits, v)}
           ELSE {Edge(v, Usr(v.cursor.target),
                      IF FromMacro(visits, v) THEN "macro_expanded" ELSE "direct", FALSE)}
           : v \in CallSites(visits)}

Limit(kind, file, line) == [kind |-> kind, file |-> file, line |-> line]

(* Mutant: a virtual call is mentioned only when an override was seen.       *)
IndirectWhenOverridden(visits) ==
    {Limit("unresolved_indirect_call", v.cursor.file, v.cursor.lines[1]) :
       v \in {c \in CallSites(visits) :
                Unresolved(c) \/ (Dispatched(c) /\ Overrides(visits, c) # {})}}

(* Every call whose target is unknown, and every virtual call whose class is *)
(* known: the overrides seen may not be all.                                 *)
Indirect(visits) ==
    {Limit("unresolved_indirect_call", v.cursor.file, v.cursor.lines[1]) :
       v \in {c \in CallSites(visits) :
                \/ Unresolved(c)
                \/ Dispatched(c) /\ KnownClass(visits, ClassOf(Usr(c.cursor.target)))}}

MacroUses(visits) == {v \in OfKind(visits, "macro_use") : Readable(v.cursor.file)}

Citable(v) == v.cursor.target # None /\ v.cursor.target.file \in Repository

Expansions(visits) ==
    {[usr |-> Usr(v.cursor.target), definition |-> RegionOf(v.cursor.target),
      expansion |-> RegionOf(v.cursor)] : v \in {m \in MacroUses(visits) : Citable(m)}}

Opaque(visits) ==
    {Limit("macro_expansion_unavailable", v.cursor.file, 0) :
       v \in {m \in MacroUses(visits) : ~Citable(m)}}
    \cup {Limit("inline_assembly", v.cursor.file, v.cursor.lines[1]) : v \in OfKind(visits, "asm")}

References(visits, kind) ==
    {<<v.enclosing, Usr(v.cursor.target)>> :
       v \in {r \in OfKind(visits, kind) :
                /\ r.enclosing # None /\ r.cursor.target # None
                /\ Usr(r.cursor.target) # r.enclosing
                /\ kind = "var_ref" => /\ r.cursor.target.kind = "variable"
                                       /\ ~r.cursor.target.local}}

(* An #include of a file the tree holds, or of one it does not.              *)
Inclusions(unit) == {i \in unit.includes : Readable(i.includer)}

Nothing(limitations) ==
    [ok |-> FALSE, symbols |-> << >>, calls |-> {}, macros |-> {}, includes |-> {},
     types |-> {}, globals |-> {}, limitations |-> limitations]

(* parse_failed, or missing_header; a header of Clang's own has a second one.*)
FailureLimitations(file, error) ==
    {Limit("parse_failed", file, 0)}
    \cup (IF error = "builtin_header" THEN {Limit("toolchain_unavailable", file, 0)} ELSE {})

(* parse_request and Collector.collect: an error leaves a limitation and     *)
(* nothing else.                                                             *)
ParseRequest(file, unit) ==
    LET visits == Walked(unit.cursors)
    IN IF unit.error # None THEN Nothing(FailureLimitations(file, unit.error))
       ELSE [ok |-> TRUE, symbols |-> SymbolsIn(unit.cursors)[Len(unit.cursors)],
             calls |-> CallsIn(visits), macros |-> Expansions(visits),
             includes |-> Inclusions(unit),
             types |-> References(visits, "type_ref"),
             globals |-> References(visits, "var_ref"),
             limitations |-> Indirect(visits) \cup Opaque(visits)]

-----------------------------------------------------------------------------
(* The merge.                                                                *)

EmptyIndex ==
    [units |-> << >>, symbols |-> << >>, calls |-> {}, macros |-> {}, includes |-> {},
     types |-> {}, globals |-> {}, limitations |-> {}]

MergedTables(table, other) ==
    [usr \in DOMAIN table \cup DOMAIN other |->
       IF usr \notin DOMAIN table THEN other[usr]
       ELSE IF usr \notin DOMAIN other THEN table[usr]
       ELSE MergedWith(table[usr], other[usr])]

(* A unit's place in the index: what the pool says of it, or what Clang did. *)
UnitStatus(outcome, result) ==
    IF outcome # "parsed" THEN outcome ELSE IF result.ok THEN "indexed" ELSE "failed"

(* What the parent has for a unit: the child's result, or for a unit that    *)
(* crashed or was stopped a limitation made up for it.                       *)
ResultFor(outcome, p, unit) ==
    IF outcome = "parsed" THEN ParseRequest(p, unit) ELSE Nothing({Limit("parse_failed", p, 0)})

(* The index with one more unit and what it adds to the tables.              *)
Extended(known, status, result, limitations) ==
    [units |-> Append(known.units, status),
     symbols |-> MergedTables(known.symbols, result.symbols),
     calls |-> known.calls \cup result.calls,
     macros |-> known.macros \cup result.macros,
     includes |-> known.includes \cup result.includes,
     types |-> known.types \cup result.types,
     globals |-> known.globals \cup result.globals,
     limitations |-> known.limitations \cup limitations]

(* Mutant: the early return comes before the limitations are kept.           *)
AbsorbTellsIndexed(known, status, result) ==
    IF ~result.ok THEN [known EXCEPT !.units = Append(@, status)]
    ELSE Extended(known, status, result, result.limitations)

(* _absorb: the record and the limitations always, the rest only of a unit   *)
(* that parsed.                                                              *)
Absorb(known, status, result) ==
    IF ~result.ok
    THEN [[known EXCEPT !.units = Append(@, status)]
             EXCEPT !.limitations = @ \cup result.limitations]
    ELSE Extended(known, status, result, result.limitations)

IndexInit ==
    /\ Init
    /\ program = None
    /\ index = EmptyIndex
    /\ absorbed = 0

(* run_parallel returns.  shutdown() has ended the workers and nothing but   *)
(* the results is left of the pool; as nothing of it depended on what the    *)
(* units hold, the program is chosen here.                                   *)
ReturnResults ==
    /\ ~Running
    /\ program = None
    /\ program' \in Programs
    /\ child' = [w \in Workers |-> "dead"]
    /\ jobs' = [w \in Workers |-> None]
    /\ work' = [w \in Workers |-> None]
    /\ results' = [w \in Workers |-> None]
    /\ late' = [w \in Workers |-> FALSE]
    /\ idleDeaths' = 0
    /\ events' = [p \in Positions |-> {collected[p]}]
    /\ UNCHANGED <<parent, parentVars, index, absorbed>>

(* from_results: one result after another, in the order of their files.      *)
AbsorbNext ==
    /\ program # None
    /\ absorbed < Units
    /\ absorbed' = absorbed + 1
    /\ LET p == absorbed + 1
           result == ResultFor(collected[p], p, program[p])
       IN index' = Absorb(index, UnitStatus(collected[p], result), result)
    /\ UNCHANGED <<vars, program>>

IndexNext ==
    \/ Next /\ UNCHANGED indexVars
    \/ ReturnResults
    \/ AbsorbNext

IndexSpec ==
    /\ IndexInit
    /\ [][IndexNext]_<<vars, indexVars>>
    /\ WF_vars(ParentStep)
    /\ \A w \in Workers : WF_vars(Overrun(w))
    /\ WF_indexVars(ReturnResults \/ AbsorbNext)

Built == program # None /\ absorbed = Units

-----------------------------------------------------------------------------
(* What the index answers.                                                   *)

Callers == [e \in index.calls |-> e.caller]
Callees == [e \in index.calls |-> e.callee]

(* _walk: breadth first, each node once, the unresolved sites kept apart.    *)
Walk(usr, depth, from, to) ==
    LET hop[n \in 0..depth] ==
            IF n = 0 THEN [seen |-> {usr}, frontier |-> {usr}, edges |-> {}]
            ELSE LET last == hop[n - 1]
                     edges == {e \in index.calls : from[e] \in last.frontier}
                     next == {to[e] : e \in edges} \ (last.seen \cup {None})
                 IN [seen |-> last.seen \cup next, frontier |-> next,
                     edges |-> last.edges \cup edges]
    IN hop[depth].edges

Resolved(edges) == {e \in edges : e.callee # None}

(* callers_of: every unresolved site of the index comes with the answer.     *)
CallersOf(usr, depth) ==
    [edges |-> Resolved(Walk(usr, depth, Callees, Callers)),
     unresolved |-> index.calls \ Resolved(index.calls)]

(* callees_of: the unresolved sites that were met.                           *)
CalleesOf(usr, depth) ==
    LET met == Walk(usr, depth, Callers, Callees)
    IN [edges |-> Resolved(met), unresolved |-> met \ Resolved(met)]

IsComplete(query) == query.unresolved = {}

Holds(region, file, line) ==
    region # None /\ region.file = file /\ region.first <= line /\ line <= region.last

(* The innermost body around a line.                                         *)
EnclosingFunction(file, line) ==
    LET found == {usr \in DOMAIN index.symbols :
                    /\ index.symbols[usr].callable
                    /\ Holds(index.symbols[usr].definition, file, line)}
        span(usr) == index.symbols[usr].definition.last - index.symbols[usr].definition.first
    IN IF found = {} THEN None
       ELSE CHOOSE usr \in found : \A other \in found : span(usr) <= span(other)

(* By name; a qualified name or a USR would find fewer.                      *)
Named(name) == {usr \in DOMAIN index.symbols : index.symbols[usr].name = name}

Places(usr) == ({index.symbols[usr].definition} \ {None}) \cup index.symbols[usr].declarations

Covers(file) ==
    \/ file \in DOMAIN index.units /\ index.units[file] = "indexed"
    \/ \E usr \in DOMAIN index.symbols : \E r \in Places(usr) : r.file = file

(* A symbol is verified at a region one of its places overlaps.              *)
SymbolThere(name, region) ==
    /\ Covers(region.file)
    /\ \E usr \in Named(name) : \E r \in Places(usr) :
         r.file = region.file /\ r.first <= region.last /\ region.first <= r.last

(* An edge is verified when it is recorded between two symbols so named.     *)
EdgeThere(caller, callee) ==
    \E f \in Named(caller), g \in Named(callee) :
        \E e \in index.calls : e.caller = f /\ e.callee = g

-----------------------------------------------------------------------------
(* What the units say, whoever parsed them.                                  *)

Indexed(p) == index.units[p] = "indexed"

Cursors(p) == program[p].cursors

(* The cursors of the indexed units that lie in readable files of the tree.  *)
Written ==
    UNION {{<<p, i>> : i \in {j \in DOMAIN Cursors(p) : Readable(Cursors(p)[j].file)}} :
             p \in {q \in Positions : Indexed(q)}}

CursorAt(w) == Cursors(w[1])[w[2]]

BodyAround(w) == BodyOf(Cursors(w[1]))[CursorAt(w).parent]

(* The classes of the whole program, parsed or not.                          *)
TrueBases ==
    UNION {{<<Cursors(p)[Cursors(p)[i].parent].name, Cursors(p)[i].target.name>> :
              i \in {j \in DOMAIN Cursors(p) : Cursors(p)[j].kind = "base"}} : p \in Positions}

(* Whatever holds the base and what is derived from what it holds has it.    *)
Inherits(class, base) ==
    \A family \in SUBSET ({base} \cup {b[1] : b \in TrueBases}) :
        base \in family /\ (\A b \in TrueBases : b[2] \in family => b[1] \in family)
            => class \in family

(* What a call may reach: its target; for a virtual one any override; for    *)
(* an indirect one any function.                                             *)
MayCall(c, function) ==
    IF c.target = None \/ c.target.kind \notin Callable THEN TRUE
    ELSE \/ Entity(c.target) = Entity(function)
         \/ /\ c.target.kind = "method" /\ c.target.virtual
            /\ function.kind = "method" /\ function.name = c.target.name
            /\ Inherits(function.scope, c.target.scope)

WrittenCalls == {w \in Written : CursorAt(w).kind = "call" /\ BodyAround(w) # None}

WrittenFunctions == {CursorAt(w) : w \in {x \in Written : CursorAt(x).kind \in Callable}}

(* A class whose declaration is not read: outside the tree, or in a file     *)
(* above the cap.                                                            *)
ThroughOutsideClass(c) == c.target # None /\ ~Readable(c.target.file)

Sites(edges) == {e.site : e \in edges}

Told(w) == \E l \in index.limitations :
              l.file = CursorAt(w).file /\ l.line = CursorAt(w).lines[1]

-----------------------------------------------------------------------------
(* Every unit handed to the pool is in the index or has a limitation that    *)
(* names it, however its worker ended; and nothing of a unit that is not     *)
(* there is cited: each body and each call of the index was read in a unit   *)
(* that is (Index._absorb).                                                  *)
UnitsAccounted ==
    Built =>
        /\ \A p \in Positions :
             Indexed(p) \/ Limit("parse_failed", p, 0) \in index.limitations
        /\ \A usr \in DOMAIN index.symbols : \A r \in Places(usr) :
             \E w \in Written : RegionOf(CursorAt(w)) = r /\ CursorAt(w).name = usr[2]
        /\ \A e \in index.calls : \E w \in WrittenCalls : RegionOf(CursorAt(w)) = e.site

(* A line inside the body of a function that some indexed unit holds is      *)
(* attributed to that function, across units, headers they share and static  *)
(* functions that share a name; the exception is a second body of the same   *)
(* external name, of which the index keeps one (enclosing_function).         *)
BodyFound ==
    Built =>
        \A w \in Written :
            LET c == CursorAt(w)
                inner == {CursorAt(x) : x \in {y \in Written : /\ BodyAround(y) = c
                                                               /\ CursorAt(y).kind \in SymbolKinds}}
                twice == \E f \in WrittenFunctions : /\ f.body /\ Entity(f) = Entity(c)
                                                     /\ RegionOf(f) # RegionOf(c)
            IN c.kind \in Callable /\ c.body /\ ~twice =>
                 \A line \in c.lines[1]..c.lines[2] :
                   (\A d \in inner : line \notin d.lines[1]..d.lines[2]) =>
                      LET found == EnclosingFunction(c.file, line)
                      IN found # None /\ index.symbols[found].definition = RegionOf(c)

(* "Unresolved is not absent": a call that may reach a function is among its *)
(* callers, or the answer says it is not complete, or a limitation names the *)
(* site; also for the overrides of a class that another unit, parsed or not, *)
(* derives.  Calls through a class declared in a file that is not read are   *)
(* the exception (callers_of, _resolve_virtual_calls).                       *)
MissedIsTold ==
    Built =>
        \A f \in WrittenFunctions, w \in WrittenCalls :
            LET found == CallersOf(Usr(f), 1)
            IN MayCall(CursorAt(w), f) /\ ~ThroughOutsideClass(CursorAt(w)) =>
                 \/ RegionOf(CursorAt(w)) \in Sites(found.edges)
                 \/ ~IsComplete(found)
                 \/ Told(w)

(* Whatever the index says is written: the callers and callees it lists, a   *)
(* second hop away too, are calls that may reach the function asked about or *)
(* be reached from it, and a call edge or a symbol the citation resolver     *)
(* accepts is in a unit that parsed (CallGraph._walk, IndexResolver).        *)
VerifiedIsWritten ==
    Built =>
        /\ \A f \in WrittenFunctions : \A site \in Sites(CallersOf(Usr(f), 1).edges) :
             \E w \in WrittenCalls : RegionOf(CursorAt(w)) = site /\ MayCall(CursorAt(w), f)
        /\ \A f \in WrittenFunctions : \A site \in Sites(CalleesOf(Usr(f), 2).edges) :
             \E w \in WrittenCalls :
               /\ RegionOf(CursorAt(w)) = site
               /\ \/ Entity(BodyAround(w)) = Entity(f)
                  \/ \E v \in WrittenCalls : /\ Entity(BodyAround(v)) = Entity(f)
                                             /\ MayCall(CursorAt(v), BodyAround(w))
        /\ \A f, g \in WrittenFunctions :
             EdgeThere(f.name, g.name) =>
                \E w \in WrittenCalls : /\ BodyAround(w).name = f.name
                                        /\ CursorAt(w).target # None
                                        /\ \E h \in WrittenFunctions :
                                             h.name = g.name /\ MayCall(CursorAt(w), h)
        /\ \A f, g \in WrittenFunctions :
             SymbolThere(f.name, RegionOf(g)) =>
                \E w \in Written : /\ CursorAt(w).name = f.name
                                   /\ CursorAt(w).file = g.file

(* The merged index holds what was written, with the body where there is one, *)
(* and nothing else (store.py Index.from_results).                          *)
IndexIsOfTheSource ==
    /\ UnitsAccounted
    /\ BodyFound
    /\ VerifiedIsWritten
=============================================================================
