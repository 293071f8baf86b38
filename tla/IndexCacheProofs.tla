---------------------------- MODULE IndexCacheProofs ----------------------------
(***************************************************************************)
(* Proofs about IndexCache, for any units, headers, search paths and       *)
(* contents, any number of edits and of scans cut short, on a tree that    *)
(* stands still while it is scanned.                                       *)
(***************************************************************************)
EXTENDS IndexCache, TLAPS

(* The digests of a result are of the contents its parse read.              *)
Tells(result) ==
    /\ \A f \in Files \ Oversized :
          result.seen[f] # Unread => result.hashes[f] = result.seen[f]
    /\ \A f \in Files : result.hashes[f] # Unread => result.seen[f] # Unread

(* The digests still hold of the tree.                                      *)
Current(hashes) == \A f \in Files : hashes[f] # Unread => tree[f] = hashes[f]

(* A covered unit that parsed has read its source and its one header, if it *)
(* has one, and nothing else, and all of it compiled.                       *)
Whole(u, seen) ==
    u \in Covered =>
        /\ \A d \in Dirs : \A f \in Files :
              seen[f] # Unread <=>
                 f = u \/ \E i \in DOMAIN Search[u][d] : f = Search[u][d][i]
        /\ \A f \in Files : seen[f] \notin Broken

IsEntry(u) == entries[u] \notin {NoEntry, Damaged}

(* Nothing is put before every pending unit has a result.                   *)
AllAnswered == scanAt \in {"put", "built"} => \A u \in toParse : results[u] # NoEntry

(* The cache holds units that parsed, with the digests of what they read.   *)
EntriesTrue ==
    \A u \in UnitSet : IsEntry(u) => Tells(entries[u]) /\ Whole(u, entries[u].seen)

(* So are the results of the scan, parsed or reused.                        *)
ResultsTrue ==
    \A u \in UnitSet : Parsed(u) \/ Reused(u) => Tells(results[u]) /\ Whole(u, results[u].seen)

(* On a tree that stands still, what a parse has read is what is there.     *)
ParsesTrue ==
    \A u \in UnitSet : parses[u] # NoEntry =>
        /\ scanAt # "idle"
        /\ Current(parses[u].seen)
        /\ parses[u].ok => Whole(u, parses[u].seen)

(* And so are the digests of every result.                                  *)
ResultsCurrent ==
    scanAt # "idle" => \A u \in UnitSet : Reused(u) \/ Parsed(u) => Current(results[u].hashes)

(* What the cache and the scan know of the tree is true of it.              *)
CacheInv ==
    /\ CacheTypeOK
    /\ AllAnswered
    /\ EntriesTrue
    /\ ResultsTrue
    /\ ParsesTrue
    /\ ResultsCurrent

(* A reused result is its entry, which still matches.                       *)
ReusedHeld ==
    scanAt # "idle" => \A u \in UnitSet : Reused(u) =>
        /\ u \notin toParse
        /\ IsEntry(u)
        /\ entries[u].hashes = results[u].hashes
        /\ InputsMatch(entries[u].hashes)

(* How far the scan is: each unit is still to be looked up, pending or      *)
(* reused, and what parsed is in the cache when the scan ends.              *)
Progress ==
    /\ scanAt = "idle" => toParse = {}
    /\ scanAt = "lookup" => \A u \in UnitSet :
          IF u < pos THEN u \in toParse \/ Reused(u) ELSE u \notin toParse /\ results[u] = NoEntry
    /\ scanAt \in {"parse", "put", "built"} => \A u \in UnitSet : u \in toParse \/ Reused(u)
    /\ scanAt = "put" => \A u \in toParse : u < pos /\ Parsed(u) => entries[u] = results[u]
    /\ scanAt = "built" => \A u \in toParse : Parsed(u) => entries[u] = results[u]

(* Every parse has read the unit's source, and its digest is recorded.      *)
SourceRead ==
    \A u \in UnitSet :
        /\ parses[u] # NoEntry => parses[u].seen[u] # Unread
        /\ scanAt # "idle" /\ Parsed(u) => results[u].hashes[u] # Unread

(* What the last full scan indexed and nothing touched is in the cache.     *)
SettledHeld ==
    \A u \in settled :
        /\ u \notin toParse
        /\ IsEntry(u)
        /\ InputsMatch(entries[u].hashes)
        /\ results[u] # NoEntry =>
              \A f \in Files : entries[u].hashes[f] # Unread => results[u].seen[f] # Unread

ScanInv == CacheInv /\ ReusedHeld /\ Progress /\ SourceRead /\ SettledHeld

-----------------------------------------------------------------------------

(* A covered unit has at most one header, the same from every directory.    *)
LEMMA CoveredAnywhere ==
  ASSUME NEW u \in Covered, NEW d \in Dirs, NEW e \in Dirs
  PROVE  /\ Search[u][d] = Search[u][e]
         /\ DOMAIN Search[u][d] \subseteq {1}
         /\ \A i \in DOMAIN Search[u][d] : Search[u][d][i] \in Headers \ Oversized
<1>1. Search[u][d] \in Seq(Headers)
  BY CacheAssumption DEF Covered
<1>2. QED BY <1>1 DEF Covered

(* A parse that succeeds has seen the whole of a covered unit.              *)
LEMMA ParseWhole ==
  ASSUME CacheTypeOK, NEW u \in UnitSet, ~Fails(u)
  PROVE  Whole(u, Seen(u))
<1> DEFINE s == Search[u][dir[u]]
<1> SUFFICES ASSUME u \in Covered
             PROVE  /\ \A f \in Files :
                         Seen(u)[f] # Unread <=> f = u \/ \E i \in DOMAIN s : f = s[i]
                    /\ \A f \in Files : Seen(u)[f] \notin Broken
  BY CoveredAnywhere DEF Whole, CacheTypeOK
<1>1. dir[u] \in Dirs
  BY DEF CacheTypeOK
<1>2. DOMAIN s \subseteq {1} /\ \A i \in DOMAIN s : s[i] \in Headers
  BY <1>1, CoveredAnywhere
<1>3. Found(u) = {s[i] : i \in DOMAIN s}
  <2>1. CASE DOMAIN s = {}
    BY <2>1 DEF Found, Present
  <2>2. CASE DOMAIN s # {}
    <3>1. DOMAIN s = {1}
      BY <1>2, <2>2
    <3>2. Present(u) = {1}
      <4>1. Found(u) # {}
        BY <2>2 DEF Fails
      <4>2. QED BY <3>1, <4>1 DEF Found, Present
    <3>3. QED BY <3>1, <3>2 DEF Found
  <2>3. QED BY <2>1, <2>2
<1>4. \A f \in Reads(u) : tree[f] # Unread /\ tree[f] \notin Broken
  <2>1. Reads(u) \subseteq Files
    BY <1>2, <1>3 DEF Reads, Files
  <2>2. QED BY <2>1, CacheAssumption DEF Fails, CacheTypeOK, Trees
<1>5. Unread \notin Broken
  BY CacheAssumption
<1>6. QED BY <1>3, <1>4, <1>5 DEF Seen, Reads

-----------------------------------------------------------------------------
(* What is known of the tree stays true.                                    *)

(* The invariant holds before the first scan.                               *)
LEMMA CacheInitInv == CacheInit => CacheInv
<1> SUFFICES ASSUME CacheInit PROVE CacheInv
  OBVIOUS
<1>1. CacheTypeOK
  BY CacheAssumption DEF CacheInit, CacheTypeOK, Trees
<1>2. QED
  BY <1>1 DEF CacheInit, CacheInv, AllAnswered, EntriesTrue, ResultsTrue, ParsesTrue,
       ResultsCurrent, IsEntry, Parsed, Reused

(* Types are kept by each step.                                             *)
LEMMA TypeStep ==
  ASSUME CacheTypeOK, AllAnswered, CacheNext
  PROVE  CacheTypeOK'
<1> USE CacheAssumption DEF CacheTypeOK
<1>1. ASSUME NEW f \in Files, NEW v \in Versions \union {Absent}, Edit(f, v) PROVE CacheTypeOK'
  <2>1. tree' \in Trees
    <3>1. tree \in [Files -> Versions \union {Absent}]
      BY DEF Trees
    <3>2. tree' \in [Files -> Versions \union {Absent}]
      BY <1>1, <3>1 DEF Edit
    <3>3. ASSUME NEW u \in UnitSet PROVE tree'[u] # Absent
      <4>1. tree[u] # Absent /\ u \in Files
        BY DEF Trees, Files
      <4>2. QED BY <1>1, <3>1, <4>1 DEF Edit
    <3>4. QED BY <3>2, <3>3 DEF Trees
  <2>2. edits' \in 0..MaxEdits
    BY <1>1 DEF Edit, MayChange
  <2>3. QED BY <1>1, <2>1, <2>2 DEF Edit
<1>2. ASSUME NEW u \in UnitSet, NEW d \in Dirs, Reconfigure(u, d) PROVE CacheTypeOK'
  BY <1>2 DEF Reconfigure
<1>3. ASSUME NEW u \in UnitSet, Damage(u) PROVE CacheTypeOK'
  BY <1>3 DEF Damage
<1>4. CASE Abort
  BY <1>4 DEF Abort
<1>5. CASE StartScan
  BY <1>5 DEF StartScan, outside, UnitSet
<1>6. CASE LookupHit
  <2>1. entries[pos] \in Entries
    BY <1>6 DEF LookupHit, Usable
  <2>2. [entries[pos] EXCEPT !.status = "reused"] \in Results
    BY <2>1 DEF Entries, Results, Statuses
  <2>3. pos + 1 \in 1..(Units + 1)
    BY <1>6 DEF LookupHit, UnitSet
  <2>4. QED BY <1>6, <2>2, <2>3 DEF LookupHit, outside
<1>7. CASE LookupMiss
  BY <1>7 DEF LookupMiss, outside, UnitSet
<1>8. CASE LookupDone \/ ParsesDone \/ PutsDone
  <2>1. pos' \in 1..(Units + 1)
    BY <1>8 DEF LookupDone, ParsesDone, PutsDone
  <2>2. QED BY <1>8, <2>1 DEF LookupDone, ParsesDone, PutsDone, outside
<1>8a. CASE Return
  BY <1>8a DEF Return, outside
<1>9. ASSUME NEW u \in UnitSet, Parse(u) PROVE CacheTypeOK'
  <2>1. Seen(u) \in Views
    <3>1. ASSUME NEW f \in Reads(u), f \in Files PROVE tree[f] \in Versions
      BY <3>1 DEF Reads, Found, Present, Trees
    <3>2. QED BY <3>1 DEF Seen, Views
  <2>2. QED BY <1>9, <2>1 DEF Parse, outside
<1>10. ASSUME NEW u \in UnitSet, RecordInputs(u) PROVE CacheTypeOK'
  <2>1. parses[u].seen \in Views
    BY <1>10 DEF RecordInputs
  <2>2. Hashed(parses[u].seen) \in Views
    BY <2>1 DEF Hashed, Views, Trees
  <2>3. QED BY <1>10, <2>1, <2>2 DEF RecordInputs, outside, Results, Statuses
<1>11. ASSUME NEW u \in UnitSet, GiveUp(u) PROVE CacheTypeOK'
  BY <1>11 DEF GiveUp, outside, Results, Statuses, Blank, Views
<1>12. CASE Put
  <2>1. pos \in toParse => results[pos] \in Results
    BY <1>12 DEF Put, AllAnswered
  <2>2. pos \in toParse /\ Stores(results[pos]) => results[pos] \in Entries
    BY <2>1 DEF Stores, Results, Entries
  <2>3. entries' \in [UnitSet -> Entries \union {NoEntry, Damaged}]
    BY <1>12, <2>2 DEF Put
  <2>4. QED BY <1>12, <2>3 DEF Put, outside, UnitSet
<1>13. QED
  BY <1>1, <1>2, <1>3, <1>4, <1>5, <1>6, <1>7, <1>8, <1>8a, <1>9, <1>10, <1>11, <1>12
     DEF CacheNext, BuildIndex, WorldMoves

(* On a tree that stands still during a scan, each step keeps it all.       *)
LEMMA CacheStep ==
  ASSUME ~EditsDuringScan, CacheInv, CacheNext
  PROVE  CacheInv'
<1>1. CacheTypeOK /\ CacheTypeOK'
  BY TypeStep DEF CacheInv
<1> USE DEF CacheInv
<1>2. AllAnswered'
  <2>1. CASE UNCHANGED <<scanAt, toParse, results>>
    BY <2>1 DEF AllAnswered
  <2>2. CASE ParsesDone
    BY <2>2 DEF ParsesDone, AllAnswered
  <2>3. CASE scanAt' \notin {"put", "built"}
    BY <2>3 DEF AllAnswered
  <2>4. CASE PutsDone
    BY <2>4 DEF PutsDone, AllAnswered
  <2>5. QED
    BY <2>1, <2>2, <2>3, <2>4
       DEF CacheNext, BuildIndex, WorldMoves, Edit, Reconfigure, Damage, Abort, StartScan, LookupHit,
           LookupMiss, LookupDone, Parse, RecordInputs, GiveUp, Put, Return
<1>3. EntriesTrue'
  <2>1. CASE UNCHANGED entries
    BY <2>1 DEF EntriesTrue, IsEntry
  <2>2. ASSUME NEW u \in UnitSet, Damage(u) PROVE EntriesTrue'
    BY <2>2 DEF Damage, EntriesTrue, IsEntry, CacheTypeOK
  <2>3. CASE Put
    <3>1. pos \in toParse /\ Stores(results[pos]) => Parsed(pos)
      BY <2>3 DEF Put, AllAnswered, Stores, Parsed
    <3>2. QED BY <2>3, <3>1 DEF Put, EntriesTrue, ResultsTrue, IsEntry, CacheTypeOK
  <2>4. QED
    BY <2>1, <2>2, <2>3
       DEF CacheNext, BuildIndex, WorldMoves, Edit, Reconfigure, Abort, StartScan, LookupHit,
           LookupMiss, LookupDone, Parse, RecordInputs, GiveUp, ParsesDone, PutsDone, Return
<1>4. ResultsTrue'
  <2>1. CASE UNCHANGED results
    BY <2>1 DEF ResultsTrue, Parsed, Reused
  <2>2. CASE StartScan
    BY <2>2 DEF StartScan, ResultsTrue, Parsed, Reused
  <2>3. CASE LookupHit
    <3>1. /\ entries[pos] \in Entries /\ pos \in UnitSet
          /\ Tells(entries[pos]) /\ Whole(pos, entries[pos].seen)
      BY <2>3 DEF LookupHit, Usable, EntriesTrue, IsEntry, CacheTypeOK
    <3>2. /\ [entries[pos] EXCEPT !.status = "reused"].seen = entries[pos].seen
          /\ [entries[pos] EXCEPT !.status = "reused"].hashes = entries[pos].hashes
      BY <3>1 DEF Entries
    <3>3. Tells([entries[pos] EXCEPT !.status = "reused"])
      BY <3>1, <3>2 DEF Tells
    <3>4. QED
      BY <2>3, <3>1, <3>2, <3>3 DEF LookupHit, ResultsTrue, Parsed, Reused, CacheTypeOK
  <2>4. ASSUME NEW u \in UnitSet, RecordInputs(u) PROVE ResultsTrue'
    <3> DEFINE r == [status |-> IF parses[u].ok THEN "parsed" ELSE "failed",
                     seen |-> parses[u].seen, hashes |-> Hashed(parses[u].seen)]
    <3>1. parses[u] \in [ok : BOOLEAN, seen : Views] /\ Current(parses[u].seen)
      BY <2>4 DEF RecordInputs, ParsesTrue, CacheTypeOK
    <3>2. \A f \in Files : parses[u].seen[f] # Unread => tree[f] # Absent
      BY <3>1, CacheAssumption DEF Current, Views
    <3>3. Tells(r)
      BY <3>1, <3>2 DEF Tells, Current, Hashed
    <3>4. r.status = "parsed" => Whole(u, r.seen)
      BY <2>4, <3>1 DEF RecordInputs, ParsesTrue
    <3>5. r.status # "reused"
      OBVIOUS
    <3>6. results' = [results EXCEPT ![u] = r]
      BY <2>4 DEF RecordInputs
    <3> HIDE DEF r
    <3>7. QED
      BY <3>3, <3>4, <3>5, <3>6 DEF ResultsTrue, Parsed, Reused, CacheTypeOK
  <2>5. ASSUME NEW u \in UnitSet, GiveUp(u) PROVE ResultsTrue'
    BY <2>5 DEF GiveUp, ResultsTrue, Parsed, Reused, CacheTypeOK
  <2>6. QED
    BY <2>1, <2>2, <2>3, <2>4, <2>5
       DEF CacheNext, BuildIndex, WorldMoves, Edit, Reconfigure, Damage, Abort, LookupMiss,
           LookupDone, Parse, ParsesDone, Put, PutsDone, Return
<1>5. ParsesTrue'
  <2>1. CASE UNCHANGED <<tree, parses>> /\ (scanAt' = "idle" => scanAt = "idle")
    BY <2>1 DEF ParsesTrue, Current
  <2>2. ASSUME NEW f \in Files, NEW v \in Versions \union {Absent}, Edit(f, v)
        PROVE  ParsesTrue'
    BY <2>2 DEF Edit, MayChange, ParsesTrue
  <2>3. CASE Abort \/ Return
    BY <2>3 DEF Abort, Return, ParsesTrue
  <2>4. ASSUME NEW u \in UnitSet, Parse(u) PROVE ParsesTrue'
    <3>1. Current(Seen(u))
      BY DEF Current, Seen
    <3>2. ~Fails(u) => Whole(u, Seen(u))
      BY ParseWhole
    <3>3. UNCHANGED tree /\ scanAt' = "parse"
      BY <2>4 DEF Parse, outside
    <3>4. parses'[u].seen = Seen(u) /\ (parses'[u].ok <=> ~Fails(u))
      BY <2>4 DEF Parse, CacheTypeOK
    <3>5. Current(parses'[u].seen)
      BY <3>1, <3>4
    <3>6. \A w \in UnitSet : w # u => parses'[w] = parses[w]
      BY <2>4 DEF Parse, CacheTypeOK
    <3>7. QED BY <3>2, <3>3, <3>4, <3>5, <3>6 DEF ParsesTrue, Current
  <2>5. QED
    BY <2>1, <2>2, <2>3, <2>4
       DEF CacheNext, BuildIndex, WorldMoves, Reconfigure, Damage, StartScan, LookupHit, LookupMiss,
           LookupDone, RecordInputs, GiveUp, ParsesDone, Put, PutsDone, outside
<1>6. ResultsCurrent'
  <2>1. CASE UNCHANGED <<tree, results>> /\ (scanAt = "idle" => scanAt' = "idle")
    BY <2>1 DEF ResultsCurrent, Parsed, Reused, Current
  <2>2. CASE scanAt' = "idle"
    BY <2>2 DEF ResultsCurrent
  <2>3. CASE StartScan
    BY <2>3 DEF StartScan, ResultsCurrent, Parsed, Reused
  <2>4. CASE LookupHit
    <3>1. [entries[pos] EXCEPT !.status = "reused"].hashes = entries[pos].hashes
      BY <2>4 DEF LookupHit, Usable, CacheTypeOK, Entries
    <3>2. QED
      BY <2>4, <3>1 DEF LookupHit, InputsMatch, outside, ResultsCurrent, Parsed, Reused,
           Current, CacheTypeOK
  <2>5. ASSUME NEW u \in UnitSet, RecordInputs(u) PROVE ResultsCurrent'
    <3>1. Current(Hashed(parses[u].seen))
      BY DEF Current, Hashed
    <3>2. QED
      BY <2>5, <3>1 DEF RecordInputs, outside, ResultsCurrent, Parsed, Reused, Current, CacheTypeOK
  <2>6. ASSUME NEW u \in UnitSet, GiveUp(u) PROVE ResultsCurrent'
    BY <2>6 DEF GiveUp, outside, ResultsCurrent, Parsed, Reused, Current, CacheTypeOK
  <2>7. QED
    BY <2>1, <2>2, <2>3, <2>4, <2>5, <2>6
       DEF CacheNext, BuildIndex, WorldMoves, Edit, MayChange, Reconfigure, Damage, Abort,
           LookupMiss, LookupDone, Parse, ParsesDone, Put, PutsDone, Return, outside
<1>7. QED
  BY <1>1, <1>2, <1>3, <1>4, <1>5, <1>6

(* The invariant holds of every scan of a tree that stands still meanwhile. *)
THEOREM CacheInvariant ==
  ASSUME ~EditsDuringScan
  PROVE  CacheSpec => []CacheInv
<1>1. CacheInv /\ UNCHANGED cacheVars => CacheInv'
  BY DEF CacheInv, cacheVars, CacheTypeOK, AllAnswered, EntriesTrue, ResultsTrue, ParsesTrue,
         ResultsCurrent, IsEntry, Parsed, Reused, Current
<1>2. CacheInv /\ [CacheNext]_cacheVars => CacheInv'
  BY <1>1, CacheStep
<1>3. QED BY <1>2, CacheInitInv, PTL DEF CacheSpec

(* Type correctness of the cache; what is stored always parsed.             *)
THEOREM CacheTypeCorrect ==
  ASSUME ~EditsDuringScan
  PROVE  CacheSpec => []CacheTypeOK
<1>1. CacheInv => CacheTypeOK
  BY DEF CacheInv
<1>2. QED BY <1>1, CacheInvariant, PTL

(* An entry is reused only when every file the unit read, and that is       *)
(* hashed, is as it was then (IndexCache.get): after any edits, removals    *)
(* and restorations of files, failed parses and scans cut short.            *)
THEOREM ReuseIsSafe ==
  ASSUME ~EditsDuringScan
  PROVE  CacheSpec => []ReusedOnlyIfUnchanged
<1>1. CacheInv => ReusedOnlyIfUnchanged
  <2> SUFFICES ASSUME CacheInv, scanAt # "idle", NEW u \in UnitSet, Reused(u),
                      NEW f \in Files \ Oversized, results[u].seen[f] # Unread
               PROVE  tree[f] = results[u].seen[f]
    BY DEF ReusedOnlyIfUnchanged, Reused
  <2>1. results[u].hashes[f] = results[u].seen[f]
    BY DEF CacheInv, ResultsTrue, Tells
  <2>2. QED BY <2>1 DEF CacheInv, ResultsCurrent, Current
<1>2. QED BY <1>1, CacheInvariant, PTL

(* For a unit whose digests cover what it depends on, the cache serves what *)
(* parsing the tree again would give: it changes nothing in the index.      *)
THEOREM ReuseIsInvisible ==
  ASSUME ~EditsDuringScan
  PROVE  CacheSpec => []ReusedIsFresh
<1>1. CacheInv => ReusedIsFresh
  <2> SUFFICES ASSUME CacheInv, scanAt = "built", NEW u \in Covered, Reused(u)
               PROVE  Fresh(u)
    BY DEF ReusedIsFresh
  <2> DEFINE s    == Search[u][dir[u]]
             seen == results[u].seen
  <2>1. u \in UnitSet /\ dir[u] \in Dirs /\ seen \in Views
    BY DEF Covered, CacheInv, CacheTypeOK, Reused, Results
  <2>2. DOMAIN s \subseteq {1} /\ \A i \in DOMAIN s : s[i] \in Headers \ Oversized
    BY <2>1, CoveredAnywhere
  <2>3. \A f \in Files : seen[f] # Unread <=> f = u \/ \E i \in DOMAIN s : f = s[i]
    BY <2>1 DEF CacheInv, ResultsTrue, Whole
  <2>4. \A f \in Files : seen[f] \notin Broken
    BY <2>1 DEF CacheInv, ResultsTrue, Whole
  <2>5. \A f \in Files : seen[f] # Unread => tree[f] = seen[f] /\ tree[f] # Absent
    <3> SUFFICES ASSUME NEW f \in Files, seen[f] # Unread
                 PROVE  tree[f] = seen[f] /\ tree[f] # Absent
      OBVIOUS
    <3>1. f \notin Oversized
      BY <2>1, <2>2, <2>3, CacheAssumption
    <3>2. results[u].hashes[f] = seen[f]
      BY <2>1, <3>1 DEF CacheInv, ResultsTrue, Tells
    <3>3. tree[f] = seen[f]
      BY <2>1, <3>2 DEF CacheInv, ResultsCurrent, Current
    <3>4. QED BY <2>1, <3>3, CacheAssumption DEF Views
  <2>6. \A i \in DOMAIN s : s[i] \in Files /\ tree[s[i]] # Absent
    BY <2>2, <2>3, <2>5 DEF Files
  <2>7. Present(u) = DOMAIN s
    BY <2>6 DEF Present
  <2>8. Found(u) = {s[i] : i \in DOMAIN s}
    BY <2>2, <2>7 DEF Found
  <2>9. \A f \in Files : f \in Reads(u) <=> seen[f] # Unread
    BY <2>3, <2>8 DEF Reads
  <2>10. Seen(u) = [f \in Files |-> seen[f]]
    BY <2>5, <2>9 DEF Seen
  <2>11. seen = Seen(u)
    BY <2>1, <2>10 DEF Views
  <2>12. ~Fails(u)
    <3>1. Reads(u) \subseteq Files
      BY <2>1, <2>6, <2>8 DEF Reads, Files
    <3>2. \A f \in Reads(u) : tree[f] \notin Broken
      BY <2>4, <2>5, <2>9, <3>1
    <3>3. DOMAIN s # {} => Found(u) # {}
      BY <2>8
    <3>4. QED BY <3>2, <3>3 DEF Fails
  <2>13. QED
    BY <2>11, <2>12 DEF Fresh
<1>2. QED BY <1>1, CacheInvariant, PTL

(* The three together: reuse is safe and cannot be seen (IndexCache.get).   *)
THEOREM CacheAlwaysSafe ==
  ASSUME ~EditsDuringScan
  PROVE  CacheSpec => []CacheIsSafe
<1>1. CacheTypeOK /\ ReusedOnlyIfUnchanged /\ ReusedIsFresh => CacheIsSafe
  BY DEF CacheIsSafe
<1>2. QED BY <1>1, CacheTypeCorrect, ReuseIsSafe, ReuseIsInvisible, PTL

-----------------------------------------------------------------------------
(* What a scan indexed is found again.                                      *)

(* The invariant of the scan holds before the first one.                    *)
LEMMA ScanInitInv == CacheInit => ScanInv
<1>1. CacheInit => CacheInv
  BY CacheInitInv
<1>2. QED
  BY <1>1 DEF CacheInit, ScanInv, ReusedHeld, Progress, SourceRead, SettledHeld, Reused, Parsed

(* On a tree that stands still during a scan, each step keeps it.           *)
LEMMA ScanStep ==
  ASSUME ~EditsDuringScan, ScanInv, CacheNext
  PROVE  ScanInv'
<1>1. CacheInv /\ CacheInv' /\ CacheTypeOK /\ CacheTypeOK'
  BY CacheStep DEF ScanInv, CacheInv
<1> USE <1>1
<1>2. ReusedHeld'
  <2> USE DEF ScanInv
  <2>1. CASE scanAt' = "idle"
    BY <2>1 DEF ReusedHeld
  <2>2. CASE scanAt # "idle" /\ UNCHANGED <<tree, entries, toParse, results>>
    BY <2>2 DEF ReusedHeld, Reused, IsEntry, InputsMatch
  <2>3. CASE StartScan
    BY <2>3 DEF StartScan, ReusedHeld, Reused
  <2>4. CASE LookupHit
    <3>1. /\ pos \in UnitSet /\ IsEntry(pos) /\ entries[pos] \in Entries
          /\ InputsMatch(entries[pos].hashes) /\ pos \notin toParse
      BY <2>4 DEF LookupHit, Usable, IsEntry, Progress, CacheTypeOK, UnitSet
    <3>2. results'[pos].hashes = entries[pos].hashes
      BY <2>4, <3>1 DEF LookupHit, Entries, CacheTypeOK
    <3>3. \A u \in UnitSet : u # pos => results'[u] = results[u]
      BY <2>4 DEF LookupHit, CacheTypeOK
    <3>4. UNCHANGED <<tree, entries, toParse>> /\ scanAt = "lookup"
      BY <2>4 DEF LookupHit, outside
    <3>5. QED BY <3>1, <3>2, <3>3, <3>4 DEF ReusedHeld, Reused, IsEntry, InputsMatch
  <2>5. CASE LookupMiss
    <3>1. results[pos] = NoEntry
      BY <2>5 DEF LookupMiss, Progress, UnitSet
    <3>2. QED
      BY <2>5, <3>1 DEF LookupMiss, outside, ReusedHeld, Reused, IsEntry, InputsMatch
  <2>6. ASSUME NEW u \in UnitSet, RecordInputs(u) \/ GiveUp(u) PROVE ReusedHeld'
    <3>1. results'[u].status # "reused"
      BY <2>6 DEF RecordInputs, GiveUp, CacheTypeOK
    <3>2. \A w \in UnitSet : w # u => results'[w] = results[w]
      BY <2>6 DEF RecordInputs, GiveUp, CacheTypeOK
    <3>3. UNCHANGED <<tree, entries, toParse>> /\ scanAt = "parse"
      BY <2>6 DEF RecordInputs, GiveUp, outside
    <3>4. QED BY <3>1, <3>2, <3>3 DEF ReusedHeld, Reused, IsEntry, InputsMatch
  <2>7. CASE Put
    <3>1. \A u \in UnitSet : u \notin toParse => entries'[u] = entries[u]
      BY <2>7 DEF Put, CacheTypeOK
    <3>2. UNCHANGED <<tree, toParse, results>> /\ scanAt = "put"
      BY <2>7 DEF Put, outside
    <3>3. QED BY <3>1, <3>2 DEF ReusedHeld, Reused, IsEntry, InputsMatch
  <2>8. QED
    BY <2>1, <2>2, <2>3, <2>4, <2>5, <2>6, <2>7
       DEF CacheNext, BuildIndex, WorldMoves, Edit, MayChange, Reconfigure, Damage, Abort,
           LookupDone, Parse, ParsesDone, PutsDone, Return, outside
<1>3. Progress'
  <2> USE DEF ScanInv
  <2>1. CASE scanAt' = "idle"
    BY <2>1 DEF Progress, CacheNext, BuildIndex, WorldMoves, Edit, MayChange, Reconfigure, Damage,
         Abort, StartScan, LookupHit, LookupMiss, LookupDone, Parse, RecordInputs, GiveUp,
         ParsesDone, Put, PutsDone, Return
  <2>2. CASE StartScan
    BY <2>2 DEF StartScan, Progress, UnitSet
  <2>3. CASE LookupHit
    <3>1. results'[pos] # NoEntry /\ results'[pos].status = "reused"
      <4>1. entries[pos] \in Entries /\ pos \in UnitSet
        BY <2>3 DEF LookupHit, Usable, CacheTypeOK
      <4>2. [entries[pos] EXCEPT !.status = "reused"] \in Results
        BY <4>1 DEF Entries, Results, Statuses
      <4>3. [entries[pos] EXCEPT !.status = "reused"].status = "reused"
        BY <4>1 DEF Entries
      <4>4. results'[pos] = [entries[pos] EXCEPT !.status = "reused"]
        BY <2>3, <4>1 DEF LookupHit, CacheTypeOK
      <4>5. QED BY <4>2, <4>3, <4>4, CacheAssumption
    <3>2. \A u \in UnitSet : u # pos => results'[u] = results[u]
      BY <2>3 DEF LookupHit, CacheTypeOK
    <3>3. /\ scanAt = "lookup" /\ scanAt' = "lookup" /\ pos' = pos + 1
          /\ toParse' = toParse /\ pos \in Nat
      BY <2>3 DEF LookupHit, UnitSet
    <3>4. QED BY <3>1, <3>2, <3>3 DEF Progress, Reused, UnitSet
  <2>4. CASE LookupMiss
    <3>1. /\ scanAt = "lookup" /\ scanAt' = "lookup" /\ pos' = pos + 1 /\ pos \in Nat
          /\ toParse' = toParse \union {pos} /\ results' = results
      BY <2>4 DEF LookupMiss, UnitSet
    <3>2. QED BY <3>1 DEF Progress, Reused, UnitSet
  <2>5. CASE LookupDone
    <3>1. \A u \in UnitSet : u < pos
      BY <2>5, CacheAssumption DEF LookupDone, CacheTypeOK, UnitSet
    <3>2. QED BY <2>5, <3>1 DEF LookupDone, Progress, Reused
  <2>6. ASSUME NEW u \in UnitSet, Parse(u) PROVE Progress'
    BY <2>6 DEF Parse, Progress, Reused
  <2>7. ASSUME NEW u \in UnitSet, RecordInputs(u) \/ GiveUp(u) PROVE Progress'
    <3>1. results[u] = NoEntry
      BY <2>7 DEF RecordInputs, GiveUp
    <3>2. \A w \in UnitSet : w # u => results'[w] = results[w]
      BY <2>7 DEF RecordInputs, GiveUp, CacheTypeOK
    <3>3. scanAt = "parse" /\ scanAt' = "parse" /\ toParse' = toParse
      BY <2>7 DEF RecordInputs, GiveUp
    <3>4. QED BY <3>1, <3>2, <3>3 DEF Progress, Reused
  <2>8. CASE ParsesDone
    BY <2>8 DEF ParsesDone, Progress, Reused, CacheTypeOK, UnitSet
  <2>9. CASE Put
    <3>1. /\ scanAt = "put" /\ scanAt' = "put" /\ pos' = pos + 1 /\ pos \in Nat
          /\ toParse' = toParse /\ results' = results
      BY <2>9 DEF Put, UnitSet
    <3>2. \A u \in UnitSet : u # pos => entries'[u] = entries[u]
      BY <2>9 DEF Put, CacheTypeOK
    <3>3. pos \in toParse /\ Parsed(pos) => entries'[pos] = results[pos]
      BY <2>9 DEF Put, CacheTypeOK, Stores, Parsed
    <3>4. toParse \subseteq UnitSet /\ \A u \in toParse : u < pos + 1 => u < pos \/ u = pos
      BY <3>1 DEF CacheTypeOK, UnitSet
    <3>5. QED BY <3>1, <3>2, <3>3, <3>4 DEF Progress, Reused, Parsed
  <2>10. CASE PutsDone
    <3>1. \A u \in UnitSet : u < pos
      BY <2>10, CacheAssumption DEF PutsDone, CacheTypeOK, UnitSet
    <3>2. QED BY <2>10, <3>1 DEF PutsDone, Progress, Reused, Parsed, CacheTypeOK
  <2>11. QED
    BY <2>1, <2>2, <2>3, <2>4, <2>5, <2>6, <2>7, <2>8, <2>9, <2>10
       DEF CacheNext, BuildIndex, WorldMoves, Edit, MayChange, Reconfigure, Damage, Abort, Return
<1>4. SourceRead'
  <2> USE DEF ScanInv
  <2>1. CASE UNCHANGED <<parses, results>> /\ (scanAt = "idle" => scanAt' = "idle")
    BY <2>1 DEF SourceRead, Parsed
  <2>2. CASE Abort \/ Return
    BY <2>2 DEF Abort, Return, SourceRead
  <2>3. CASE StartScan
    BY <2>3 DEF StartScan, SourceRead, Parsed
  <2>4. CASE LookupHit
    <3>1. results'[pos].status # "parsed"
      BY <2>4 DEF LookupHit, Usable, CacheTypeOK, Entries
    <3>2. \A u \in UnitSet : u # pos => results'[u] = results[u]
      BY <2>4 DEF LookupHit, CacheTypeOK
    <3>3. UNCHANGED <<parses, scanAt>>
      BY <2>4 DEF LookupHit
    <3>4. QED BY <3>1, <3>2, <3>3 DEF SourceRead, Parsed
  <2>5. ASSUME NEW u \in UnitSet, Parse(u) PROVE SourceRead'
    <3>1. Seen(u)[u] # Unread
      <4>1. u \in Files /\ u \in Reads(u) /\ tree[u] # Absent
        BY DEF Files, Reads, CacheTypeOK, Trees
      <4>2. QED BY <4>1, CacheAssumption DEF Seen, CacheTypeOK, Trees
    <3>2. parses'[u].seen = Seen(u)
      BY <2>5 DEF Parse, CacheTypeOK
    <3>3. \A w \in UnitSet : w # u => parses'[w] = parses[w]
      BY <2>5 DEF Parse, CacheTypeOK
    <3>4. UNCHANGED <<results, scanAt>>
      BY <2>5 DEF Parse
    <3>5. QED BY <3>1, <3>2, <3>3, <3>4 DEF SourceRead, Parsed
  <2>6. ASSUME NEW u \in UnitSet, RecordInputs(u) PROVE SourceRead'
    <3>1. /\ parses[u].seen[u] # Unread /\ u \in Files /\ u \notin Oversized
          /\ tree[u] \in Versions
      BY <2>6, CacheAssumption DEF RecordInputs, SourceRead, Files, CacheTypeOK, Trees
    <3>2. Hashed(parses[u].seen)[u] # Unread
      BY <3>1, CacheAssumption DEF Hashed
    <3>3. results'[u].hashes = Hashed(parses[u].seen)
      BY <2>6 DEF RecordInputs, CacheTypeOK
    <3>4. \A w \in UnitSet : w # u => results'[w] = results[w]
      BY <2>6 DEF RecordInputs, CacheTypeOK
    <3>5. UNCHANGED <<parses, scanAt>>
      BY <2>6 DEF RecordInputs
    <3>6. QED BY <3>2, <3>3, <3>4, <3>5 DEF SourceRead, Parsed
  <2>7. ASSUME NEW u \in UnitSet, GiveUp(u) PROVE SourceRead'
    BY <2>7 DEF GiveUp, SourceRead, Parsed, CacheTypeOK
  <2>8. QED
    BY <2>1, <2>2, <2>3, <2>4, <2>5, <2>6, <2>7
       DEF CacheNext, BuildIndex, WorldMoves, Edit, Reconfigure, Damage, LookupMiss, LookupDone,
           ParsesDone, Put, PutsDone
<1>5. SettledHeld'
  <2> USE DEF ScanInv
  <2>1. CASE UNCHANGED <<tree, entries, toParse, results, settled>>
    BY <2>1 DEF SettledHeld, IsEntry, InputsMatch
  <2>2. ASSUME NEW f \in Files, NEW v \in Versions \union {Absent}, Edit(f, v)
        PROVE  SettledHeld'
    <3>1. \A u \in settled' : u \in settled /\ entries[u].hashes[f] = Unread
      BY <2>2 DEF Edit, SettledHeld
    <3>2. \A g \in Files : g # f => tree'[g] = tree[g]
      BY <2>2 DEF Edit, CacheTypeOK, Trees
    <3>3. UNCHANGED <<entries, toParse, results>>
      BY <2>2 DEF Edit
    <3>4. QED BY <3>1, <3>2, <3>3 DEF SettledHeld, IsEntry, InputsMatch
  <2>3. ASSUME NEW u \in UnitSet, Damage(u) PROVE SettledHeld'
    BY <2>3 DEF Damage, SettledHeld, IsEntry, InputsMatch, CacheTypeOK
  <2>4. CASE Abort
    BY <2>4 DEF Abort, SettledHeld, IsEntry, InputsMatch
  <2>5. CASE StartScan
    BY <2>5 DEF StartScan, outside, SettledHeld, IsEntry, InputsMatch, CacheTypeOK
  <2>6. CASE LookupHit
    <3>1. /\ pos \in UnitSet /\ entries[pos] \in Entries /\ Tells(entries[pos])
      BY <2>6 DEF LookupHit, Usable, CacheInv, EntriesTrue, IsEntry, CacheTypeOK
    <3>2. results'[pos].seen = entries[pos].seen
      BY <2>6, <3>1 DEF LookupHit, Entries, CacheTypeOK
    <3>3. \A u \in UnitSet : u # pos => results'[u] = results[u]
      BY <2>6 DEF LookupHit, CacheTypeOK
    <3>4. UNCHANGED <<tree, entries, toParse, settled>>
      BY <2>6 DEF LookupHit, outside
    <3>5. settled \subseteq UnitSet
      BY DEF CacheTypeOK
    <3>6. QED
      BY <3>1, <3>2, <3>3, <3>4, <3>5 DEF SettledHeld, IsEntry, InputsMatch, Tells
  <2>7. CASE LookupMiss
    <3>1. pos \notin settled
      BY <2>7 DEF LookupMiss, SettledHeld, IsEntry, Usable
    <3>2. QED BY <2>7, <3>1 DEF LookupMiss, outside, SettledHeld, IsEntry, InputsMatch
  <2>8. ASSUME NEW u \in UnitSet, RecordInputs(u) \/ GiveUp(u) PROVE SettledHeld'
    <3>1. u \notin settled
      <4>1. u \in toParse
        BY <2>8 DEF RecordInputs, GiveUp, Progress, Reused
      <4>2. QED BY <4>1 DEF SettledHeld
    <3>2. \A w \in UnitSet : w # u => results'[w] = results[w]
      BY <2>8 DEF RecordInputs, GiveUp, CacheTypeOK
    <3>3. UNCHANGED <<tree, entries, toParse, settled>> /\ settled \subseteq UnitSet
      BY <2>8 DEF RecordInputs, GiveUp, outside, CacheTypeOK
    <3>4. QED BY <3>1, <3>2, <3>3 DEF SettledHeld, IsEntry, InputsMatch
  <2>9. CASE Put
    <3>1. \A u \in UnitSet : u \notin toParse => entries'[u] = entries[u]
      BY <2>9 DEF Put, CacheTypeOK
    <3>2. UNCHANGED <<tree, results, toParse, settled>> /\ settled \subseteq UnitSet
      BY <2>9 DEF Put, outside, CacheTypeOK
    <3>3. QED BY <3>1, <3>2 DEF SettledHeld, IsEntry, InputsMatch
  <2>10. CASE Return
    <3> SUFFICES ASSUME NEW u \in settled'
                 PROVE  /\ IsEntry(u)
                        /\ InputsMatch(entries[u].hashes)
                        /\ \A f \in Files :
                              entries[u].hashes[f] # Unread => results[u].seen[f] # Unread
      BY <2>10 DEF Return, SettledHeld, IsEntry, InputsMatch
    <3>1. scanAt = "built" /\ u \in UnitSet /\ results[u].status # "failed"
      BY <2>10 DEF Return
    <3>2. CASE Reused(u)
      <4>1. Tells(results[u])
        BY <3>1, <3>2 DEF CacheInv, ResultsTrue
      <4>2. QED BY <3>1, <3>2, <4>1 DEF ReusedHeld, Tells
    <3>3. CASE ~Reused(u)
      <4>1. u \in toParse
        BY <3>1, <3>3 DEF Progress
      <4>2. results[u] # NoEntry
        BY <3>1, <4>1 DEF CacheInv, AllAnswered
      <4>3. results[u] \in Results
        BY <3>1, <4>2 DEF CacheTypeOK
      <4>4. Parsed(u)
        BY <3>1, <3>3, <4>2, <4>3 DEF Parsed, Reused, Results, Statuses
      <4>5. entries[u] = results[u] /\ IsEntry(u)
        BY <3>1, <4>1, <4>3, <4>4, CacheAssumption DEF Progress, IsEntry
      <4>6. Current(results[u].hashes) /\ Tells(results[u])
        BY <3>1, <4>4 DEF CacheInv, ResultsCurrent, ResultsTrue
      <4>7. results[u].hashes[u] # Unread /\ u \in Files
        BY <3>1, <4>4 DEF SourceRead, Files
      <4>8. QED BY <4>5, <4>6, <4>7 DEF InputsMatch, Current, Tells
    <3>4. QED BY <3>2, <3>3
  <2>11. QED
    BY <2>1, <2>2, <2>3, <2>4, <2>5, <2>6, <2>7, <2>8, <2>9, <2>10
       DEF CacheNext, BuildIndex, WorldMoves, Reconfigure, LookupDone, Parse, ParsesDone, PutsDone,
           outside
<1>6. QED
  BY <1>1, <1>2, <1>3, <1>4, <1>5 DEF ScanInv

(* What a full scan indexed is not parsed again while its files are         *)
(* untouched (build_index), whatever happened to the scans in between.      *)
THEOREM NothingParsedTwice ==
  ASSUME ~EditsDuringScan
  PROVE  CacheSpec => []UnchangedReused
<1>1. ScanInv /\ UNCHANGED cacheVars => ScanInv'
  BY DEF ScanInv, CacheInv, cacheVars, CacheTypeOK, AllAnswered, EntriesTrue, ResultsTrue, ParsesTrue,
         ResultsCurrent, ReusedHeld, Progress, SourceRead, SettledHeld, IsEntry, Parsed,
         Reused, Current, InputsMatch
<1>2. ScanInv /\ [CacheNext]_cacheVars => ScanInv'
  BY <1>1, ScanStep
<1>3. ScanInv => UnchangedReused
  BY DEF ScanInv, SettledHeld, UnchangedReused
<1>4. QED BY <1>2, <1>3, ScanInitInv, PTL DEF CacheSpec
=============================================================================
