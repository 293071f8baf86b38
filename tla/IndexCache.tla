------------------------------- MODULE IndexCache -------------------------------
(***************************************************************************)
(* The on-disk cache of parsed translation units (index/store.py,          *)
(* IndexCache and build_index) under a working tree that is edited between *)
(* scans, or while one runs.  A scan looks every unit up, has the others   *)
(* parsed in child processes, and stores what parsed.  A unit reads its    *)
(* source and, for its one include directive, the first header present on  *)
(* its search path.  Which pool slot parses a unit, and when, is the       *)
(* subject of ParsePool; here a unit parses at any moment, or the pool     *)
(* gives up on it.                                                         *)
(***************************************************************************)
EXTENDS Integers, Sequences

CONSTANTS
    Units,            \* how many translation units; unit u is also its source file
    Headers,          \* in-repository headers
    Dirs,             \* working directories a compile command may name
    Search,           \* per unit and directory, where its include may be found, in order
    Versions,         \* contents a file may have
    Broken,           \* the contents that do not compile
    Oversized,        \* headers above max_file_bytes
    EditsDuringScan,  \* whether the tree may change while a scan runs
    MaxEdits, MaxAborts,  \* bounds: changes from outside, scans cut short
    Absent, Unread, Damaged, NoEntry

UnitSet == 1..Units
Files == UnitSet \union Headers

(* What is on disk, and what a process has seen of it.  A unit whose source  *)
(* is gone is not in the scan's plan.                                        *)
Trees == {t \in [Files -> Versions \union {Absent}] : \A u \in UnitSet : t[u] # Absent}
Views == [Files -> Versions \union {Unread}]

Statuses == {"parsed", "reused", "failed"}
Results == [status : Statuses, seen : Views, hashes : Views]
Entries == [status : {"parsed"}, seen : Views, hashes : Views]

ASSUME CacheAssumption ==
    /\ Units \in Nat
    /\ Headers \intersect UnitSet = {}
    /\ Search \in [UnitSet -> [Dirs -> Seq(Headers)]]
    /\ Broken \subseteq Versions /\ Oversized \subseteq Headers
    /\ EditsDuringScan \in BOOLEAN
    /\ MaxEdits \in Nat /\ MaxAborts \in Nat
    /\ Absent \notin Versions /\ Unread \notin Versions \union {Absent}
    /\ NoEntry \notin Results /\ Damaged \notin Results \union {NoEntry}
    /\ NoEntry \notin [ok : BOOLEAN, seen : Views]

VARIABLES
    tree,     \* the files on disk
    dir,      \* per unit, the directory its compile command runs in
    entries,  \* per unit, its cache entry: NoEntry, Damaged or a result
    scanAt,   \* "idle", "lookup", "parse", "put" or "built"
    pos,      \* the unit the lookup or put loop is at
    toParse,  \* units no entry could be reused for
    parses,   \* per unit, what libclang read, before its inputs are hashed
    results,  \* per unit, its result in this scan
    settled,  \* history: units of the last full scan nothing has touched since
    edits,    \* bound counter
    aborts    \* bound counter

cacheVars == <<tree, dir, entries, scanAt, pos, toParse, parses, results, settled, edits, aborts>>

outside == <<tree, dir, settled, edits>>
Blank == [f \in Files |-> Unread]

CacheInit ==
    /\ tree \in Trees
    /\ dir \in [UnitSet -> Dirs]
    /\ entries = [u \in UnitSet |-> NoEntry]
    /\ scanAt = "idle"
    /\ pos = 1
    /\ toParse = {}
    /\ parses = [u \in UnitSet |-> NoEntry]
    /\ results = [u \in UnitSet |-> NoEntry]
    /\ settled = {}
    /\ edits = 0 /\ aborts = 0

-----------------------------------------------------------------------------
(* What a parse of a unit reads.                                             *)

Present(u) == {i \in DOMAIN Search[u][dir[u]] : tree[Search[u][dir[u]][i]] # Absent}
Found(u) == {Search[u][dir[u]][i] : i \in {i \in Present(u) : \A j \in Present(u) : i <= j}}
Reads(u) == {u} \union Found(u)

Seen(u) == [f \in Files |-> IF f \in Reads(u) THEN tree[f] ELSE Unread]

(* An include directive nothing answers, or a file that does not compile.    *)
Fails(u) ==
    \/ DOMAIN Search[u][dir[u]] # {} /\ Found(u) = {}
    \/ \E f \in Reads(u) : tree[f] \in Broken

(* Mutant: only the unit's own source is hashed.                             *)
HashedSource(seen) ==
    [f \in Files |-> IF seen[f] # Unread /\ f \in UnitSet THEN tree[f] ELSE Unread]

(* The digests recorded after the parse, of the files as they are by then.   *)
Hashed(seen) ==
    [f \in Files |->
        IF seen[f] # Unread /\ f \notin Oversized /\ tree[f] # Absent
        THEN tree[f] ELSE Unread]

(* Mutant: a file that cannot be read any more is passed over.               *)
InputsMatchIfThere(hashes) ==
    /\ \E f \in Files : hashes[f] # Unread
    /\ \A f \in Files : hashes[f] # Unread => tree[f] \in {hashes[f], Absent}

(* get() checks every digest it finds, and refuses an entry without any.     *)
InputsMatch(hashes) ==
    /\ \E f \in Files : hashes[f] # Unread
    /\ \A f \in Files : hashes[f] # Unread => tree[f] = hashes[f]

(* Mutant: failed units are stored too.                                      *)
StoresAll(result) == TRUE

(* Only what parsed is stored; a failed or timed-out unit is tried again.    *)
Stores(result) == result.status = "parsed"

-----------------------------------------------------------------------------
(* The world outside the scan.                                               *)

MayChange == (scanAt = "idle" \/ EditsDuringScan) /\ edits < MaxEdits

(* A file is written, created or removed.  The sources themselves stay.      *)
Edit(f, v) ==
    /\ MayChange
    /\ f \in UnitSet => v # Absent
    /\ v # tree[f]
    /\ tree' = [tree EXCEPT ![f] = v]
    /\ settled' = {u \in settled : results[u] # NoEntry /\ results[u].seen[f] = Unread}
    /\ edits' = edits + 1
    /\ UNCHANGED <<dir, entries, scanAt, pos, toParse, parses, results, aborts>>

(* The compilation database is made again, from another build directory.     *)
Reconfigure(u, d) ==
    /\ scanAt = "idle" /\ edits < MaxEdits
    /\ d # dir[u]
    /\ dir' = [dir EXCEPT ![u] = d]
    /\ edits' = edits + 1
    /\ UNCHANGED <<tree, entries, scanAt, pos, toParse, parses, results, settled, aborts>>

(* An entry on disk is damaged.                                              *)
Damage(u) ==
    /\ scanAt = "idle" /\ edits < MaxEdits
    /\ entries[u] \notin {NoEntry, Damaged}
    /\ entries' = [entries EXCEPT ![u] = Damaged]
    /\ settled' = settled \ {u}
    /\ edits' = edits + 1
    /\ UNCHANGED <<tree, dir, scanAt, pos, toParse, parses, results, aborts>>

(* The scan dies: killed, or an error that is not one of the program's own.  *)
(* An entry that is not even UTF-8 raises such an error (get reads it, and   *)
(* does not expect it).                                                      *)
Abort ==
    /\ scanAt # "idle"
    /\ \/ aborts < MaxAborts /\ aborts' = aborts + 1
       \/ scanAt = "lookup" /\ pos \in UnitSet /\ entries[pos] = Damaged /\ UNCHANGED aborts
    /\ scanAt' = "idle"
    /\ toParse' = {}
    /\ parses' = [u \in UnitSet |-> NoEntry]
    /\ UNCHANGED <<tree, dir, entries, pos, results, settled, edits>>

-----------------------------------------------------------------------------
(* build_index                                                               *)

StartScan ==
    /\ scanAt = "idle"
    /\ scanAt' = "lookup"
    /\ pos' = 1
    /\ results' = [u \in UnitSet |-> NoEntry]
    /\ UNCHANGED <<entries, toParse, parses, outside, aborts>>

Usable(u) == entries[u] \notin {NoEntry, Damaged}

LookupHit ==
    /\ scanAt = "lookup" /\ pos \in UnitSet
    /\ Usable(pos) /\ InputsMatch(entries[pos].hashes)
    /\ results' = [results EXCEPT ![pos] = [entries[pos] EXCEPT !.status = "reused"]]
    /\ pos' = pos + 1
    /\ UNCHANGED <<entries, scanAt, toParse, parses, outside, aborts>>

(* No entry, one that cannot be read, or one with a digest that differs.     *)
LookupMiss ==
    /\ scanAt = "lookup" /\ pos \in UnitSet
    /\ Usable(pos) => ~InputsMatch(entries[pos].hashes)
    /\ toParse' = toParse \union {pos}
    /\ pos' = pos + 1
    /\ UNCHANGED <<entries, scanAt, parses, results, outside, aborts>>

LookupDone ==
    /\ scanAt = "lookup" /\ pos \notin UnitSet
    /\ scanAt' = "parse"
    /\ UNCHANGED <<entries, pos, toParse, parses, results, outside, aborts>>

(* libclang reads the unit's files.                                          *)
Parse(u) ==
    /\ scanAt = "parse" /\ u \in toParse
    /\ parses[u] = NoEntry /\ results[u] = NoEntry
    /\ parses' = [parses EXCEPT ![u] = [ok |-> ~Fails(u), seen |-> Seen(u)]]
    /\ UNCHANGED <<entries, scanAt, pos, toParse, results, outside, aborts>>

(* _record_inputs reads them again and hashes them.                          *)
RecordInputs(u) ==
    /\ scanAt = "parse" /\ parses[u] # NoEntry /\ results[u] = NoEntry
    /\ results' = [results EXCEPT ![u] =
                     [status |-> IF parses[u].ok THEN "parsed" ELSE "failed",
                      seen |-> parses[u].seen, hashes |-> Hashed(parses[u].seen)]]
    /\ UNCHANGED <<entries, scanAt, pos, toParse, parses, outside, aborts>>

(* libclang refuses the unit, or its worker crashed or ran out of time.      *)
GiveUp(u) ==
    /\ scanAt = "parse" /\ u \in toParse /\ results[u] = NoEntry
    /\ results' = [results EXCEPT ![u] = [status |-> "failed", seen |-> Blank, hashes |-> Blank]]
    /\ UNCHANGED <<entries, scanAt, pos, toParse, parses, outside, aborts>>

ParsesDone ==
    /\ scanAt = "parse"
    /\ \A u \in toParse : results[u] # NoEntry
    /\ scanAt' = "put"
    /\ pos' = 1
    /\ UNCHANGED <<entries, toParse, parses, results, outside, aborts>>

(* Mutant: an entry that is already there is not replaced.                   *)
PutOnlyNew ==
    /\ scanAt = "put" /\ pos \in UnitSet
    /\ pos' = pos + 1
    /\ entries' = IF pos \in toParse /\ Stores(results[pos]) /\ entries[pos] = NoEntry
                  THEN [entries EXCEPT ![pos] = results[pos]] ELSE entries
    /\ UNCHANGED <<scanAt, toParse, parses, results, outside, aborts>>

(* The loop over pending: the entry is replaced whole, or left as it was.    *)
Put ==
    /\ scanAt = "put" /\ pos \in UnitSet
    /\ pos' = pos + 1
    /\ entries' = IF pos \in toParse /\ Stores(results[pos])
                  THEN [entries EXCEPT ![pos] = results[pos]] ELSE entries
    /\ UNCHANGED <<scanAt, toParse, parses, results, outside, aborts>>

PutsDone ==
    /\ scanAt = "put" /\ pos \notin UnitSet
    /\ scanAt' = "built"
    /\ UNCHANGED <<entries, pos, toParse, parses, results, outside, aborts>>

(* The index is handed to the scan; what is on disk stays for the next one.  *)
Return ==
    /\ scanAt = "built"
    /\ scanAt' = "idle"
    /\ toParse' = {}
    /\ parses' = [u \in UnitSet |-> NoEntry]
    /\ settled' = {u \in UnitSet : results[u].status # "failed"}
    /\ UNCHANGED <<tree, dir, entries, pos, results, edits, aborts>>

-----------------------------------------------------------------------------

BuildIndex ==
    \/ StartScan \/ LookupHit \/ LookupMiss \/ LookupDone
    \/ \E u \in UnitSet : Parse(u) \/ RecordInputs(u) \/ GiveUp(u)
    \/ ParsesDone \/ Put \/ PutsDone \/ Return

WorldMoves ==
    \/ \E f \in Files : \E v \in Versions \union {Absent} : Edit(f, v)
    \/ \E u \in UnitSet : \E d \in Dirs : Reconfigure(u, d)
    \/ \E u \in UnitSet : Damage(u)
    \/ Abort

CacheNext == BuildIndex \/ WorldMoves

CacheSpec == CacheInit /\ [][CacheNext]_cacheVars

-----------------------------------------------------------------------------

(* Every variable keeps its shape; in particular what the cache holds is     *)
(* always a unit that parsed, as build_index only puts those.                *)
CacheTypeOK ==
    /\ tree \in Trees
    /\ dir \in [UnitSet -> Dirs]
    /\ entries \in [UnitSet -> Entries \union {NoEntry, Damaged}]
    /\ scanAt \in {"idle", "lookup", "parse", "put", "built"}
    /\ pos \in 1..(Units + 1)
    /\ toParse \subseteq UnitSet
    /\ parses \in [UnitSet -> [ok : BOOLEAN, seen : Views] \union {NoEntry}]
    /\ results \in [UnitSet -> Results \union {NoEntry}]
    /\ settled \subseteq UnitSet
    /\ edits \in 0..MaxEdits /\ aborts \in 0..MaxAborts

Parsed(u) == results[u] # NoEntry /\ results[u].status = "parsed"
Reused(u) == results[u] # NoEntry /\ results[u].status = "reused"

(* An entry is reused only when every in-repository file the unit read is    *)
(* as it was then (IndexCache), as far as those files are hashed at all.     *)
(* Claimed of trees that stand still while they are scanned.                 *)
ReusedOnlyIfUnchanged ==
    scanAt # "idle" =>
        \A u \in UnitSet : Reused(u) =>
            \A f \in Files \ Oversized :
                results[u].seen[f] # Unread => tree[f] = results[u].seen[f]

(* Units whose digests cover all that their parse depends on: one place to   *)
(* look for the header, the same from every directory, and no header too     *)
(* large to hash.                                                            *)
Covered ==
    {u \in UnitSet : \A d \in Dirs :
        /\ \A e \in Dirs : Search[u][d] = Search[u][e]
        /\ DOMAIN Search[u][d] \subseteq {1}
        /\ \A i \in DOMAIN Search[u][d] : Search[u][d][i] \notin Oversized}

Fresh(u) == results[u].seen = Seen(u) /\ ~Fails(u)

(* For a covered unit, what the cache serves is what parsing the tree again  *)
(* would give: the cache changes nothing in the index (IndexCache.get).      *)
(* After any edits, header removals, failed parses and scans cut short.      *)
ReusedIsFresh ==
    scanAt = "built" => \A u \in Covered : Reused(u) => Fresh(u)

(* A unit that was indexed by a full scan, and of which no file was touched  *)
(* since, is not parsed again, whatever happened to the scans in between     *)
(* (build_index: a second run over an unchanged tree parses nothing).        *)
UnchangedReused == toParse \intersect settled = {}

(* Stated in the code and not kept: see the findings.                        *)

(* The cache never changes what is reported (IndexCache.get), for any unit.  *)
NeverChangesReport ==
    scanAt = "built" => \A u \in UnitSet : Reused(u) => Fresh(u)

(* An entry is reused only for what is unchanged, and then it is what parsing *)
(* again would give (store.py IndexCache.get).                              *)
CacheIsSafe ==
    /\ CacheTypeOK
    /\ ReusedOnlyIfUnchanged
    /\ ReusedIsFresh
=============================================================================
