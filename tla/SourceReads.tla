---------------------------- MODULE SourceReads ----------------------------
(* How regions of one file are made and read again (evidence/store.py          *)
(* SourceStore) while somebody edits it.  Every load looks at the file's       *)
(* status first, and reads its bytes unless it has them for that status;       *)
(* making a region loads twice, once for the span of its lines and once for    *)
(* its bytes.                                                                  *)
EXTENDS Integers, Sequences, FiniteSets

CONSTANTS
    Contents,     \* what the file may hold: sequences of bytes, Break among them
    Asked,        \* requests: [op, first, last], [op, line, around], [op]
    MaxFileBytes,
    MaxEdits,
    Nothing

ASSUME SourceReadsAssumption ==
    /\ Contents \subseteq Seq(Nat)
    /\ \A r \in Asked :
           \/ r.op = "region" /\ r.first \in Nat /\ r.last \in Nat
           \/ r.op = "around" /\ r.line \in Nat /\ r.around \in Nat
           \/ r.op = "again"
    /\ MaxFileBytes \in Nat /\ MaxEdits \in Nat

Break == 0

VARIABLES
    bytes,    \* the file, or Nothing
    mtime,    \* may stand still over an edit
    ctime,    \* moves on every edit
    cached,   \* [status, data] or Nothing
    asked,    \* the request under way, or Nothing
    turn,     \* which of its loads is under way
    status,   \* what this load saw of the file before it reads it, or Nothing
    span,     \* the byte range the first load gave
    loaded,   \* history: what the last load returned
    region,   \* the last region made
    answer,   \* "none", "made", "same", "changed", "region error", "os error"
    tooLarge, \* was a limitation recorded
    during,   \* history: what the file held since this load began
    quiet     \* history: nothing was edited since the request

storeVars == <<bytes, mtime, ctime, cached, asked, turn, status, span, loaded, region, answer,
               tooLarge, during, quiet>>

-----------------------------------------------------------------------------
(* Mutant: a trailing newline starts one more line. *)
PhantomLine(data) ==
    [n \in 1..Cardinality({i \in 1..Len(data) : data[i] = Break}) + 1 |->
        IF n = 1 THEN 0
        ELSE CHOOSE i \in 1..Len(data) :
                 data[i] = Break /\ Cardinality({j \in 1..i : data[j] = Break}) = n - 1]

(* The offset at which every line starts; an empty file has one line.          *)
LineStarts(data) ==
    LET ends == {i \in 1..Len(data) - 1 : data[i] = Break}
    IN  [n \in 1..Cardinality(ends) + 1 |->
            IF n = 1 THEN 0 ELSE CHOOSE i \in ends : Cardinality({j \in ends : j <= i}) = n - 1]
LineCount(data) == Len(LineStarts(data))

SpanIn(data, first, last) ==
    [from |-> LineStarts(data)[first],
     to   |-> IF last < LineCount(data) THEN LineStarts(data)[last + 1] ELSE Len(data)]

Slice(data, from, to) == SubSeq(data, from + 1, IF to < Len(data) THEN to ELSE Len(data))

StatusNow == [size |-> Len(bytes), mtime |-> mtime, ctime |-> ctime]

(* Mutant: the time of the last status change is not part of the key. *)
SameSizeAndTime(seen) ==
    cached # Nothing /\ cached.status.size = seen.size /\ cached.status.mtime = seen.mtime

StillCached(seen) == cached # Nothing /\ cached.status = seen

-----------------------------------------------------------------------------
Ask ==
    /\ asked = Nothing
    /\ \E request \in Asked :
           /\ request.op = "again" => region # Nothing
           /\ asked' = request
    /\ turn' = 1 /\ answer' = "none" /\ quiet' = TRUE /\ span' = Nothing /\ during' = {}
    /\ UNCHANGED <<bytes, mtime, ctime, cached, status, loaded, region, tooLarge>>

Ends(what) == answer' = what /\ asked' = Nothing
Goes(request, next) == asked' = request /\ turn' = next /\ UNCHANGED <<answer, region>>

(* What the request does with the bytes of its load.                           *)
AroundLine(data) ==
    IF asked.line > LineCount(data)
    THEN Ends("region error") /\ UNCHANGED <<turn, span, region>>
    ELSE LET first == IF asked.line > asked.around THEN asked.line - asked.around ELSE 1
             end   == asked.line + asked.around
             last  == IF end < LineCount(data) THEN end ELSE LineCount(data)
         IN  Goes([op |-> "region", first |-> first, last |-> last], 1) /\ UNCHANGED span

SpanOfLines(data) ==
    IF asked.first < 1 \/ asked.last < asked.first \/ asked.last > LineCount(data)
    THEN Ends("region error") /\ UNCHANGED <<turn, span, region>>
    ELSE Goes(asked, 2) /\ span' = SpanIn(data, asked.first, asked.last)

BytesOfSpan(data) ==
    /\ region' = [first |-> asked.first, last |-> asked.last, from |-> span.from, to |-> span.to,
                  holds |-> Slice(data, span.from, span.to)]
    /\ Ends("made") /\ UNCHANGED <<turn, span>>

ReadAgain(data) ==
    /\ Ends(IF region.to > Len(data) THEN "region error"
            ELSE IF Slice(data, region.from, region.to) = region.holds
            THEN "same" ELSE "changed")
    /\ UNCHANGED <<turn, span, region>>

With(data) ==
    /\ loaded' = data
    /\ CASE asked.op = "around"               -> AroundLine(data)
         [] asked.op = "region" /\ turn = 1   -> SpanOfLines(data)
         [] asked.op = "region" /\ turn = 2   -> BytesOfSpan(data)
         [] asked.op = "again"                -> ReadAgain(data)

(* The status is looked at, and the bytes are had already, or too many.        *)
Look ==
    /\ asked # Nothing /\ status = Nothing
    /\ during' = {bytes}
    /\ IF bytes = Nothing
       THEN /\ Ends("region error")
            /\ UNCHANGED <<turn, status, span, loaded, region, tooLarge>>
       ELSE IF StillCached(StatusNow)
       THEN With(cached.data) /\ UNCHANGED <<status, tooLarge>>
       ELSE IF Len(bytes) > MaxFileBytes
       THEN /\ Ends("region error") /\ tooLarge' = TRUE
            /\ UNCHANGED <<turn, status, span, loaded, region>>
       ELSE /\ status' = StatusNow
            /\ UNCHANGED <<asked, turn, span, loaded, region, answer, tooLarge>>
    /\ UNCHANGED <<bytes, mtime, ctime, cached, quiet>>

(* Then the bytes are read, as they are by now.                                *)
ReadBytes ==
    /\ status # Nothing /\ status' = Nothing
    /\ IF bytes = Nothing
       THEN Ends("os error") /\ UNCHANGED <<cached, turn, span, loaded, region>>
       ELSE cached' = [status |-> status, data |-> bytes] /\ With(bytes)
    /\ UNCHANGED <<bytes, mtime, ctime, tooLarge, during, quiet>>

EditFile ==
    /\ ctime < MaxEdits /\ ctime' = ctime + 1
    /\ bytes' \in Contents \cup {Nothing} /\ mtime' \in {mtime, ctime + 1}
    /\ during' = during \cup {bytes'} /\ quiet' = FALSE
    /\ UNCHANGED <<cached, asked, turn, status, span, loaded, region, answer, tooLarge>>

StoreInit ==
    /\ bytes \in Contents /\ mtime = 0 /\ ctime = 0 /\ cached = Nothing /\ asked = Nothing
    /\ turn = 1 /\ status = Nothing /\ span = Nothing /\ loaded = Nothing /\ region = Nothing
    /\ answer = "none" /\ tooLarge = FALSE /\ during = {} /\ quiet = TRUE
StoreNext == Ask \/ Look \/ ReadBytes \/ EditFile
StoreSpec == StoreInit /\ [][StoreNext]_storeVars

-----------------------------------------------------------------------------
(* What a load returns the file held at some time since the load began         *)
(* (store.py load): bytes from before an edit are never served again after it, *)
(* not even when the edit kept the size and fell into one tick of the clock,   *)
(* or fell between the status and the read.                                    *)
LoadIsCurrent ==
    [][asked # Nothing /\ (asked' # asked \/ turn' # turn)
          /\ answer' \notin {"region error", "os error"} => loaded' \in during']_storeVars

(* A region made while nobody edits is exactly its lines, newline included     *)
(* (store.py make_region, _index_lines): an empty file, a last line without a  *)
(* newline and a trailing newline included.                                    *)
RegionIsItsLines ==
    answer = "made" /\ quiet =>
        LET Breaks(from, to) == Cardinality({i \in from..to : bytes[i] = Break})
            before == Breaks(1, region.from)
            within == Breaks(region.from + 1, region.to)
        IN  /\ region.holds = Slice(bytes, region.from, region.to)
            /\ before = region.first - 1 /\ (before > 0 => bytes[region.from] = Break)
            /\ IF region.to > 0 /\ bytes[region.to] = Break
               THEN within = region.last - region.first + 1
               ELSE within = region.last - region.first /\ region.to = Len(bytes)
            /\ bytes # <<>> => region.holds # <<>>

(* Every read is of the file as it is, up to an edit that keeps its size and *)
(* times, and a region is its lines (evidence/store.py).                    *)
ReadsAreCurrent ==
    /\ []RegionIsItsLines
    /\ LoadIsCurrent
=============================================================================
