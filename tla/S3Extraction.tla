---------------------------- MODULE S3Extraction ----------------------------
(***************************************************************************)
(* One window of S3JsonSource.extract(), sources/s3_json.py: a generator   *)
(* that walks folders named in local time, lists each, reads objects ahead *)
(* in a pool of threads, decodes them one at a time in listing order, and  *)
(* hands rows over in batches.  While it runs producers overwrite objects, *)
(* the workers of the pool finish in any order, and any call may fail.     *)
(*                                                                         *)
(* Which window a run covers, and what earlier runs covered, is            *)
(* S3JsonLanding's.  Time is in ticks of half an hour.                     *)
(***************************************************************************)
EXTENDS Integers, Sequences, FiniteSets, JsonDecode

CONSTANTS
    Feeds,         \* what a run may meet, see below
    LastInstant,   \* last instant of which the feeds know the UTC offset
    Hour,          \* ticks in an hour
    Lookahead,     \* lookahead_hours, in ticks
    Prefetch,      \* discovery.prefetch: workers, and reads submitted ahead
    FetchSize,     \* rows in a batch
    BatchBytes,    \* document.batch_bytes
    MaxRowBytes,   \* _MAX_ROW_BYTES, what Athena can read of one row
    MaxOverwrites, \* bound on the objects' versions
    MaxErrors      \* bound on calls that fail

ASSUME ExtractionConstants ==
    /\ {Hour, Prefetch, FetchSize, BatchBytes, MaxRowBytes} \subseteq Nat \ {0}
    /\ {Lookahead, MaxOverwrites, MaxErrors, LastInstant} \subseteq Nat
    /\ Hour > 1

(* A feed is a record of                                                    *)
(*   kind       the adapter, "s3_json" here                                 *)
(*   discovery  "time_partitioned" or "full_prefix"                         *)
(*   zone       offset of the folders' timezone from UTC, at each instant   *)
(*   walkFrom, low, inclusive, high    the window, as extract() computes it *)
(*   document   see JsonDecode                                              *)
(*   objects    what is in the bucket, in the order of its keys: each with  *)
(*              the local hour that names its folder, LastModified, its     *)
(*              body and the size of its rows                               *)
Instants == 0..LastInstant

Sequential(s) == Len(s) \in Nat /\ DOMAIN s = 1..Len(s)

(* The offsets are known from before the walk, by more than they differ     *)
(* among themselves, to the hour after its end: what datetime looks up for  *)
(* a full hour near the walk is within them.                                *)
ASSUME FeedsAssumption ==
    \A f \in Feeds :
        /\ f.kind \in {"s3_json", "snowflake"}
        /\ f.discovery \in {"time_partitioned", "full_prefix"}
        /\ {f.walkFrom, f.low, f.high} \subseteq Int
        /\ f.zone \in [Instants -> Int]
        /\ 2 * Hour <= f.walkFrom /\ f.walkFrom <= LastInstant
        /\ \A t, u \in Instants : f.zone[t] - f.zone[u] <= f.walkFrom - Hour
        /\ {f.high + Lookahead, f.high + Lookahead + Hour} \subseteq Instants
        /\ Sequential(f.objects)
        /\ \A o \in DOMAIN f.objects :
              /\ {f.objects[o].folder, f.objects[o].modified} \subseteq Int
              /\ f.objects[o].bytes \in Nat
              /\ Sequential(f.objects[o].body.records)

VARIABLES
    feed,
    version,  \* current ETag of each object
    errors,   \* calls that have failed so far
    pc,       \* "extract", "decode", "done", "failed"
    cursor,   \* _prefixes(): the next instant to name a folder for
    previous, \* ... the folder named last
    phase,    \* ... "hours", or "over" once the end point is named too
    listed,   \* folders listed so far
    page,     \* items of the current listing not submitted yet
    pending,  \* reads submitted and not taken, oldest first
    current,  \* the object being decoded
    held,     \* extract()'s loop variable has the body last taken, decoded or not
    batch,    \* rows not handed over yet
    out       \* the batch handed over, until the consumer asks for another

walk == <<cursor, previous, phase, listed>>
pool == <<page, pending>>
decoding == <<current, held, batch>>
extractionVars == <<feed, version, errors, pc, walk, pool, decoding, out>>

NoFolder == -1
NoObject == [key |-> 0, etag |-> 0, content |-> 0, next |-> 1]

Waiting == 0  \* content of a read that has not finished
Refused == -1 \* ... of one that raised

Keys == DOMAIN feed.objects

-----------------------------------------------------------------------------
(* Local time.  datetime.replace() keeps the fold: a repeated wall clock    *)
(* means the later instant if the window's own start was in the later pass; *)
(* one that was skipped is read with the offset before the shift (PEP 495). *)
HourOf(t) == t - (t % Hour)

LocalTime(t) == t + feed.zone[t]

Path(t) == HourOf(LocalTime(t))

Earliest(S) == CHOOSE t \in S : \A u \in S : t <= u
Latest(S) == CHOOSE t \in S : \A u \in S : u <= t

OffsetBeforeShift(t) ==
    feed.zone[Latest({u \in Instants : u < t /\ feed.zone[u] # feed.zone[t]})]

FirstCursor(low) ==
    LET wall == HourOf(LocalTime(low))
        instants == {t \in Instants : LocalTime(t) = wall}
        secondPass == \E t \in Instants : t < low /\ LocalTime(t) = LocalTime(low)
    IN  IF instants = {} THEN wall - OffsetBeforeShift(low)
        ELSE IF secondPass THEN Latest(instants)
        ELSE Earliest(instants)

Horizon == feed.high + Lookahead

(* Every hour of the wall clock that the walk is for. *)
LocalHours == {Path(t) : t \in feed.walkFrom..Horizon}

-----------------------------------------------------------------------------
InitExtraction ==
    /\ feed \in Feeds
    /\ version = [o \in Keys |-> 1]
    /\ errors = 0
    /\ pc = "extract"
    /\ cursor = FirstCursor(feed.walkFrom)
    /\ previous = NoFolder
    /\ phase = IF feed.kind = "s3_json" /\ feed.low <= feed.high THEN "hours" ELSE "over"
    /\ listed = <<>>
    /\ page = <<>>
    /\ pending = <<>>
    /\ current = NoObject
    /\ held = FALSE
    /\ batch = <<>>
    /\ out = <<>>

(* A producer publishes an object again: new content, ETag and timestamp,   *)
(* which is after the window's bound since the bound trails the clock.      *)
Overwrite(o) ==
    /\ version[o] <= MaxOverwrites
    /\ version' = [version EXCEPT ![o] = @ + 1]
    /\ UNCHANGED <<feed, errors, pc, walk, pool, decoding, out>>

-----------------------------------------------------------------------------
(* The generator runs when its consumer has asked for a batch. *)
Running(step) == pc = step /\ out = <<>>

(* It raises.  Reads in the pool are cancelled or left to finish unread.    *)
Abort ==
    /\ pc' = "failed"
    /\ page' = <<>>
    /\ pending' = <<>>
    /\ current' = NoObject
    /\ held' = FALSE
    /\ batch' = <<>>
    /\ out' = <<>>
    /\ UNCHANGED <<feed, version, walk>>

Exhausted == phase = "over" /\ page = <<>>

SubmitAll == TRUE

CanSubmit == Len(pending) < Prefetch

InFolder(o, folder) ==
    feed.discovery = "full_prefix" \/ feed.objects[o].folder = folder

(* A version written after the first is past the window. *)
InWindow(o) ==
    LET modified == feed.objects[o].modified
    IN  /\ version[o] = 1
        /\ modified <= feed.high
        /\ modified > feed.low \/ (feed.inclusive /\ modified = feed.low)

(* list_objects_v2 returns keys in order. *)
Ascending(S) ==
    [i \in 1..Cardinality(S) |-> CHOOSE o \in S : Cardinality({p \in S : p < o}) = i - 1]

(* One listing: the folder's items in the window, by key, as of now. *)
Listing(folder) ==
    LET key == Ascending({o \in Keys : InFolder(o, folder) /\ InWindow(o)})
    IN  [i \in DOMAIN key |-> [key |-> key[i], etag |-> version[key[i]], content |-> Waiting]]

(* Fall-back repeats a local hour; its folder is listed once. *)
Repeats(folder) == folder = previous

ListFolder(folder) ==
    /\ previous' = folder
    /\ IF Repeats(folder)
         THEN UNCHANGED <<listed, page>>
         ELSE /\ listed' = Append(listed, folder)
              /\ page' = Listing(folder)

(* The next item of _objects() is asked for only when a read can start. *)
WantsItem == Running("extract") /\ phase = "hours" /\ page = <<>> /\ CanSubmit

NextHour ==
    /\ WantsItem
    /\ feed.discovery = "time_partitioned"
    /\ cursor <= Horizon
    /\ ListFolder(Path(cursor))
    /\ cursor' = cursor + Hour
    /\ UNCHANGED <<feed, version, errors, pc, phase, pending, decoding, out>>

(* A shift of half an hour can leave the last local hour between two steps. *)
NoEndpoint == previous

EndpointFolder == Path(Horizon)

EndPoint ==
    /\ WantsItem
    /\ feed.discovery = "time_partitioned"
    /\ cursor > Horizon
    /\ ListFolder(EndpointFolder)
    /\ phase' = "over"
    /\ UNCHANGED <<feed, version, errors, pc, cursor, pending, decoding, out>>

WholeLocation ==
    /\ WantsItem
    /\ feed.discovery = "full_prefix"
    /\ ListFolder(0)
    /\ phase' = "over"
    /\ UNCHANGED <<feed, version, errors, pc, cursor, pending, decoding, out>>

-----------------------------------------------------------------------------
(* _prefetched(): reads run ahead of decoding, and are taken in order. *)
Submit ==
    /\ Running("extract")
    /\ page # <<>>
    /\ CanSubmit
    /\ pending' = Append(pending, Head(page))
    /\ page' = Tail(page)
    /\ UNCHANGED <<feed, version, errors, pc, walk, decoding, out>>

(* GET with IfMatch: what was listed, or an error. *)
WithoutIfMatch(item) == version[item.key]

RetriedForever(item) == IF version[item.key] = item.etag THEN item.etag ELSE Waiting

Content(item) == IF version[item.key] = item.etag THEN item.etag ELSE Refused

Read(i) ==
    /\ i \in DOMAIN pending
    /\ pending[i].content = Waiting
    /\ pending' = [pending EXCEPT ![i].content = Content(pending[i])]
    /\ UNCHANGED <<feed, version, errors, pc, walk, page, decoding, out>>

(* An SDK error, or an object larger than max_object_bytes. *)
ReadFails(i) ==
    /\ i \in DOMAIN pending
    /\ pending[i].content = Waiting
    /\ errors < MaxErrors
    /\ errors' = errors + 1
    /\ pending' = [pending EXCEPT ![i].content = Refused]
    /\ UNCHANGED <<feed, version, pc, walk, page, decoding, out>>

ListingFails ==
    /\ WantsItem
    /\ errors < MaxErrors
    /\ errors' = errors + 1
    /\ Abort

(* The consumer waits for the oldest read, whichever has finished. *)
AnyFinished ==
    LET finished == {i \in DOMAIN pending : pending[i].content # Waiting}
    IN  IF finished = {} THEN 1 ELSE Latest(finished)

Oldest == 1

Due(i) == i \in DOMAIN pending /\ (~CanSubmit \/ Exhausted) /\ pending[i].content # Waiting

Take(i) ==
    /\ Running("extract")
    /\ Due(i)
    /\ pending[i].content # Refused
    /\ current' = [key |-> pending[i].key, etag |-> pending[i].etag,
                   content |-> pending[i].content, next |-> 1]
    /\ held' = TRUE
    /\ pending' = SubSeq(pending, 1, i - 1) \o SubSeq(pending, i + 1, Len(pending))
    /\ pc' = "decode"
    /\ UNCHANGED <<feed, version, errors, walk, page, batch, out>>

TakeRefused(i) ==
    /\ Running("extract")
    /\ Due(i)
    /\ pending[i].content = Refused
    /\ Abort
    /\ UNCHANGED errors

-----------------------------------------------------------------------------
(* _rows() and the batching of extract(). *)
Records == Decode(feed.objects[current.key].body, feed.document)

Row == [id |-> [key |-> current.key, etag |-> current.etag, content |-> current.content,
                ordinal |-> Records.rows[current.next]],
        value |-> <<"text", current.content>>, bytes |-> feed.objects[current.key].bytes]

BytesIn(b) == LET sum[i \in 0..Len(b)] == IF i = 0 THEN 0 ELSE sum[i - 1] + b[i].bytes
              IN  sum[Len(b)]

MustFlushAfterwards ==
    batch # <<>> /\ (Len(batch) > FetchSize \/ BytesIn(batch) > BatchBytes)

MustFlush ==
    batch # <<>> /\ (Len(batch) >= FetchSize \/ BytesIn(batch) + Row.bytes > BatchBytes)

NextRow ==
    /\ Running("decode")
    /\ current.next <= Len(Records.rows)
    /\ Row.bytes <= MaxRowBytes
    /\ IF MustFlush
         THEN out' = batch /\ batch' = <<Row>>
         ELSE batch' = Append(batch, Row) /\ UNCHANGED out
    /\ current' = [current EXCEPT !.next = @ + 1]
    /\ UNCHANGED <<feed, version, errors, pc, walk, pool, held>>

RowTooLarge ==
    /\ Running("decode")
    /\ current.next <= Len(Records.rows)
    /\ Row.bytes > MaxRowBytes
    /\ Abort
    /\ UNCHANGED errors

ObjectDecoded ==
    /\ Running("decode")
    /\ current.next > Len(Records.rows)
    /\ ~Records.raises
    /\ current' = NoObject
    /\ pc' = "extract"
    /\ UNCHANGED <<feed, version, errors, walk, pool, held, batch, out>>

(* A malformed record fails the run; the rows before it may be written. *)
ObjectRefused ==
    /\ Running("decode")
    /\ current.next > Len(Records.rows)
    /\ Records.raises
    /\ Abort
    /\ UNCHANGED errors

(* The last batch goes out and the generator returns. *)
Finish ==
    /\ Running("extract")
    /\ feed.kind = "s3_json"
    /\ Exhausted
    /\ pending = <<>>
    /\ out' = batch
    /\ batch' = <<>>
    /\ held' = FALSE
    /\ pc' = "done"
    /\ UNCHANGED <<feed, version, errors, walk, pool, current>>

-----------------------------------------------------------------------------
Walk == NextHour \/ EndPoint \/ WholeLocation

Consume ==
    \/ Walk
    \/ Submit
    \/ Take(Oldest) \/ TakeRefused(Oldest)
    \/ NextRow \/ RowTooLarge \/ ObjectDecoded \/ ObjectRefused
    \/ Finish

Mishap ==
    \/ \E o \in Keys : Overwrite(o)
    \/ \E i \in DOMAIN pending : ReadFails(i)
    \/ ListingFails

-----------------------------------------------------------------------------
(* What the walk takes for granted of a timezone: its shifts are on full    *)
(* hours of the wall clock, of an hour at most, more than two hours apart,  *)
(* and one of less than an hour is the only one that the walk meets.        *)
ShiftsOf(zone) == {u \in 1..LastInstant : zone[u] # zone[u - 1]}

Change(zone, u) == zone[u] - zone[u - 1]

OrdinaryZone(zone) ==
    /\ \A u \in ShiftsOf(zone) :
          /\ (u + zone[u - 1]) % Hour = 0
          /\ Change(zone, u) \in (-Hour)..Hour
    /\ \A u, v \in ShiftsOf(zone) : u < v => v - u > 2 * Hour
    /\ \/ \A u \in ShiftsOf(zone) : Change(zone, u) \in {-Hour, Hour}
       \/ \A u, v \in ShiftsOf(zone) : u = v

ExtractionTypeOK ==
    /\ version \in [Keys -> 1..(MaxOverwrites + 1)]
    /\ errors \in 0..MaxErrors
    /\ pc \in {"extract", "decode", "done", "failed"}
    /\ cursor \in Int
    /\ previous \in Int
    /\ phase \in {"hours", "over"}
    /\ \A s \in {page, pending} : \A i \in DOMAIN s : s[i].key \in Keys
    /\ pc = "decode" <=> current # NoObject
    /\ held \in BOOLEAN

(* _prefixes(), comments: the walk "handles fractional UTC offsets and      *)
(* skips nonexistent daylight-saving hours", and where "fall-back repeats a *)
(* local hour", its prefix is listed only once.  A walk that is over has    *)
(* listed every hour of the wall clock in its range, and none twice.        *)
HoursListedOnce ==
    feed.kind = "s3_json" /\ feed.discovery = "time_partitioned" =>
        /\ \A i, j \in DOMAIN listed : listed[i] = listed[j] => i = j
        /\ pc = "done" /\ feed.low <= feed.high =>
             LocalHours \subseteq {listed[i] : i \in DOMAIN listed}

(* _prefetched(), "a sliding window": however far reading could run ahead   *)
(* of decoding, the reads submitted and the body the consumer has are at    *)
(* most `prefetch` while it decodes, and one more while it asks for another *)
(* and still has the last one.                                              *)
Bodies == Len(pending) + (IF held THEN 1 ELSE 0)

BodiesBounded ==
    /\ Bodies <= Prefetch + 1
    /\ pc = "decode" => Bodies <= Prefetch
=============================================================================
