--------------------------- MODULE TableRun_proofs ---------------------------
(***************************************************************************)
(* Proofs about TableRun.  BasicInv (types) carries all the others:        *)
(*   WriterInv  the manifest's numbers are those of the parts              *)
(*   BoundInv   what the batch, the batch handed over and the parts hold   *)
(*   CellsInv   the cells fetched so far are landed or handed over         *)
(*   WalkInv    the hours listed so far are those up to the cursor's       *)
(*   OrderInv   rows landed, handed over, in the batch; the object being   *)
(*              decoded; reads under way; objects ahead: in listing order  *)
(*   WholeInv   an object that is behind has all its rows or none          *)
(* NextCases splits a step: the run goes on (Pulls), it fails (Aborts), or *)
(* the pool, a producer or the failed run's report moves (Aside).          *)
(***************************************************************************)
EXTENDS TableRun, S3Extraction_proofs

-----------------------------------------------------------------------------
(* Types.  A row of a document names the content its object was listed      *)
(* with, and carries it: reads that find another are refused.               *)
Ids == {r \in [key : Keys, etag : ETags, content : ETags, ordinal : Nat \ {0}] :
          r.content = r.etag}

RowIds == IF feed.kind = "s3_json" THEN Ids ELSE Nat \ {0}

RowType == [id : RowIds, value : Values, bytes : Nat]

PartType == [type : Types, rows : Seq(RowType)]

Decoded == {x \in [key : Keys, etag : ETags, content : ETags, next : Nat \ {0}] :
              x.content = x.etag}

TypeInv ==
    /\ feed \in Feeds
    /\ version \in [Keys -> ETags]
    /\ errors \in 0..MaxErrors
    /\ pc \in {"extract", "decode", "done", "failed"}
    /\ cursor \in Nat
    /\ previous \in Int
    /\ phase \in {"hours", "over"}
    /\ listed \in Seq(Int)
    /\ page \in Seq(Items)
    /\ pending \in Seq(Items)
    /\ IF pc = "decode" THEN current \in Decoded ELSE current = NoObject
    /\ held \in BOOLEAN
    /\ batch \in Seq(RowType)
    /\ out \in Seq(RowType)
    /\ schema \in (Types \ {"null"}) \cup {NoSchema}
    /\ drift \in BOOLEAN
    /\ parts \in Seq(PartType)
    /\ rowCount \in Nat
    /\ fileCount = Len(parts)
    /\ fetched \in 0..(IF feed.kind = "s3_json" THEN 0 ELSE Len(feed.cells))
    /\ status \in {"running", "failed", "landed"}

(* Each adapter leaves the other's state alone. *)
KindInv ==
    feed.kind # "s3_json" =>
        /\ phase = "over"
        /\ page = <<>> /\ pending = <<>> /\ batch = <<>>
        /\ pc # "decode"

(* What a run that is over has left. *)
EndInv ==
    /\ pc = "failed" => page = <<>> /\ pending = <<>> /\ batch = <<>> /\ out = <<>>
    /\ pc = "done" => phase = "over" /\ page = <<>> /\ pending = <<>> /\ batch = <<>>
    /\ status = "landed" => pc = "done" /\ out = <<>>

-----------------------------------------------------------------------------
WriterInv ==
    /\ \A i \in DOMAIN parts : Fits(parts[i].rows, parts[i].type)
    /\ rowCount = RowsIn(parts)
    /\ parts = <<>> <=> schema = NoSchema
    /\ ~drift => \A i \in DOMAIN parts : parts[i].type = schema
    /\ drift => \E i \in DOMAIN parts : parts[i].type # schema
    /\ status # "landed" => manifest = NoSchema
    /\ manifest # NoSchema =>
         manifest = [rows |-> rowCount, files |-> fileCount,
                     schema |-> SchemaManifest, drift |-> drift]

-----------------------------------------------------------------------------
Small(rows) ==
    /\ Len(rows) <= FetchSize
    /\ feed.kind = "s3_json" /\ Len(rows) > 1 => BytesIn(rows) <= BatchBytes

BoundInv ==
    /\ \A i \in DOMAIN parts : parts[i].rows # <<>> /\ Small(parts[i].rows)
    /\ Small(out)
    /\ Small(batch)

-----------------------------------------------------------------------------
RowsOfFiles(files) == UNION {Range(files[i].rows) : i \in DOMAIN files}

LandedRows == RowsOfFiles(parts)

CellsInv ==
    feed.kind # "s3_json" =>
        /\ \A r \in LandedRows \cup Range(out) :
              r.id \in 1..fetched /\ r.value = feed.cells[r.id]
        /\ pc # "failed" => \A k \in 1..fetched : \E r \in LandedRows \cup Range(out) : r.id = k
        /\ pc = "done" => fetched = Len(feed.cells)

-----------------------------------------------------------------------------
LocalPath == [t \in Instants |-> Path(t)]

WalkInv ==
    /\ feed.kind = "s3_json" /\ phase = "hours" =>
         /\ feed.low <= feed.high
         /\ feed.discovery = "full_prefix" => previous = NoFolder
    /\ feed.kind = "s3_json" /\ feed.discovery = "time_partitioned" =>
         /\ \A i, j \in DOMAIN listed : i < j => listed[i] < listed[j]
         /\ previous = IF listed = <<>> THEN NoFolder ELSE listed[Len(listed)]
         /\ \A i \in DOMAIN listed : WholeHour(listed[i])
         /\ phase = "hours" =>
              /\ cursor \in Instants
              /\ InStep(cursor)
              /\ \A i \in DOMAIN listed :
                    listed[i] <= LocalPath[cursor] /\ listed[i] <= LocalPath[Horizon]
              /\ \A t \in feed.walkFrom..Horizon :
                    t <= cursor => LocalPath[t] \in Range(listed) \cup {LocalPath[cursor]}
         /\ phase = "over" /\ feed.low <= feed.high => LocalHours \subseteq Range(listed)

-----------------------------------------------------------------------------
(* The order of objects, by folder and key, and of their rows. *)
FolderOf == [o \in Keys |->
               IF feed.discovery = "full_prefix" THEN 0 ELSE feed.objects[o].folder]

(* Objects of the folders listed so far. *)
Reached ==
    {o \in Keys : IF feed.discovery = "full_prefix" THEN phase = "over" /\ feed.low <= feed.high
                  ELSE feed.objects[o].folder \in Range(listed)}

ObjectLess(folder, o, p) == folder[o] < folder[p] \/ (folder[o] = folder[p] /\ o < p)

RowLess(folder, r, s) ==
    \/ ObjectLess(folder, r.id.key, s.id.key)
    \/ r.id.key = s.id.key /\ r.id.ordinal < s.id.ordinal

Sorted(folder, rows) == \A i, j \in DOMAIN rows : i < j => RowLess(folder, rows[i], rows[j])

FilesSorted(folder, files) ==
    \A i, j \in DOMAIN files : \A k \in DOMAIN files[i].rows, l \in DOMAIN files[j].rows :
        i < j \/ (i = j /\ k < l) => RowLess(folder, files[i].rows[k], files[j].rows[l])

AllLess(folder, R, S) == \A r \in R, s \in S : RowLess(folder, r, s)

Ascends(folder, items) ==
    \A i, j \in DOMAIN items : i < j => ObjectLess(folder, items[i].key, items[j].key)

KeysIn(items) == {items[i].key : i \in DOMAIN items}

KeysLess(folder, K, L) == \A o \in K, p \in L : ObjectLess(folder, o, p)

(* Rows decoded so far, and objects listed and not decoded yet. *)
Seen == LandedRows \cup Range(out) \cup Range(batch)

SeenKeys == {r.id.key : r \in Seen}

Ahead == KeysIn(page) \cup KeysIn(pending)

RowsOrder ==
    /\ FilesSorted(FolderOf, parts) /\ Sorted(FolderOf, out) /\ Sorted(FolderOf, batch)
    /\ AllLess(FolderOf, LandedRows, Range(out) \cup Range(batch))
    /\ AllLess(FolderOf, Range(out), Range(batch))

ReadsOrder ==
    /\ Ascends(FolderOf, page) /\ Ascends(FolderOf, pending)
    /\ KeysLess(FolderOf, KeysIn(pending), KeysIn(page))

SeenOrder ==
    /\ SeenKeys \cup Ahead \subseteq Reached
    /\ KeysLess(FolderOf, SeenKeys, Ahead)

CurrentOrder ==
    pc = "decode" =>
        /\ current.key \in Reached
        /\ \A r \in Seen : \/ ObjectLess(FolderOf, r.id.key, current.key)
                           \/ r.id.key = current.key /\ r.id.ordinal < current.next
        /\ KeysLess(FolderOf, {current.key}, Ahead)

OrderInv ==
    feed.kind = "s3_json" => RowsOrder /\ ReadsOrder /\ SeenOrder /\ CurrentOrder

-----------------------------------------------------------------------------
(* Which records of an object have rows. *)
OrdinalsIn(rows, o) == {r.id.ordinal : r \in {s \in rows : s.id.key = o}}

RecordsOf == [o \in Keys |-> DOMAIN feed.objects[o].body.records]

Accepted == {o \in Keys : WellFormed(o)}

Windowed == {o \in Keys : InWindow(o)}

WholeInv ==
    feed.kind = "s3_json" =>
        /\ pc = "decode" =>
             /\ OrdinalsIn(Seen, current.key) = 1..(current.next - 1)
             /\ current.next = 1 \/ current.next <= Len(Records.rows) + 1
        /\ pc # "failed" =>
             \A o \in Keys \ {current.key} :
                /\ OrdinalsIn(Seen, o) \in {{}, RecordsOf[o]}
                /\ OrdinalsIn(Seen, o) # {} => o \in Accepted
                /\ o \in Reached \cap Windowed => o \in Ahead \/ OrdinalsIn(Seen, o) = RecordsOf[o]

-----------------------------------------------------------------------------
(* The steps of a run, and what each kind of them leaves alone. *)
Pulls ==
    \/ NextHour /\ extractionStill
    \/ EndPoint /\ extractionStill
    \/ WholeLocation /\ extractionStill
    \/ Submit /\ extractionStill
    \/ Take(Oldest) /\ extractionStill
    \/ NextRow /\ extractionStill
    \/ ObjectDecoded /\ extractionStill
    \/ Finish /\ extractionStill
    \/ Fetch
    \/ ResultSetDrained
    \/ WritePart
    \/ CloseRun

Aborts ==
    /\ Abort
    /\ pc # "done" \/ status = "running"
    /\ extractionStill
    /\ errors' \in {errors, errors + 1}
    /\ errors < MaxErrors \/ errors' = errors

Aside ==
    \/ \E o \in Keys : Overwrite(o) /\ extractionStill
    \/ \E i \in DOMAIN pending : Read(i) /\ extractionStill
    \/ \E i \in DOMAIN pending : ReadFails(i) /\ extractionStill
    \/ RunFails
    \/ UNCHANGED vars

LEMMA NextCases ==
    ASSUME [Next]_vars
    PROVE  Pulls \/ Aborts \/ Aside
<1>1. CASE Consume /\ extractionStill
  <2>1. CASE Walk
    BY <1>1, <2>1 DEF Walk, Pulls
  <2>2. CASE TakeRefused(Oldest) \/ RowTooLarge \/ ObjectRefused
    BY <1>1, <2>2 DEF TakeRefused, RowTooLarge, ObjectRefused, Running, Aborts
  <2>3. CASE Submit \/ Take(Oldest) \/ NextRow \/ ObjectDecoded \/ Finish
    BY <1>1, <2>3 DEF Pulls
  <2> QED
    BY <1>1, <2>1, <2>2, <2>3 DEF Consume
<1>2. CASE Mishap /\ extractionStill
  <2>1. CASE ListingFails
    BY <1>2, <2>1 DEF ListingFails, WantsItem, Running, Aborts
  <2> QED
    BY <1>2, <2>1 DEF Mishap, Aside
<1>3. CASE FetchFails \/ WriteFails
  BY <1>3 DEF FetchFails, WriteFails, Running, Aborts
<1>4. CASE Fetch \/ ResultSetDrained \/ WritePart \/ CloseRun
  BY <1>4 DEF Pulls
<1>5. CASE \/ RunFails \/ Terminated \/ UNCHANGED vars
           \/ \E i \in DOMAIN pending : ReadAhead(i)
  BY <1>5 DEF Terminated, ReadAhead, Aside
<1> QED
  BY <1>1, <1>2, <1>3, <1>4, <1>5 DEF Next, Pull

-----------------------------------------------------------------------------
(* Types. *)
LEMMA Constants ==
    /\ Hour \in Nat /\ Prefetch \in Nat \ {0} /\ FetchSize \in Nat \ {0} /\ BatchBytes \in Nat
    /\ MaxRowBytes \in Nat /\ MaxOverwrites \in Nat /\ MaxErrors \in Nat /\ Lookahead \in Nat
    /\ NoSchema \notin Types
  BY ExtractionConstants, WriterConstants DEF ExtractionConstants, WriterConstants

LEMMA FeedTypes ==
    ASSUME feed \in Feeds
    PROVE  /\ feed.kind \in {"s3_json", "snowflake"}
           /\ feed.discovery \in {"time_partitioned", "full_prefix"}
           /\ feed.cells \in Seq(Values)
           /\ feed.declared \in (Types \ {"null"}) \cup {NoSchema}
           /\ \A o \in Keys : /\ feed.objects[o].folder \in Int
                              /\ feed.objects[o].modified \in Int
                              /\ feed.objects[o].bytes \in Nat
                              /\ Sequential(feed.objects[o].body.records)
  BY FeedsAssumption, CursorsAssumption DEF FeedsAssumption, CursorsAssumption, Keys

LEMMA SameFeed ==
    ASSUME feed' = feed
    PROVE  /\ Keys' = Keys /\ Items' = Items /\ RowIds' = RowIds /\ RowType' = RowType
           /\ PartType' = PartType /\ Decoded' = Decoded
  BY DEF Keys, Items, Ids, RowIds, RowType, PartType, Decoded

LEMMA RecordsFacts ==
    ASSUME TypeInv, pc = "decode"
    PROVE  /\ Records.rows \in Seq(Nat) /\ Records.raises \in BOOLEAN
           /\ Len(feed.objects[current.key].body.records) \in Nat
           /\ Len(Records.rows) <= Len(feed.objects[current.key].body.records)
           /\ \A i \in 1..Len(Records.rows) : Records.rows[i] = i
           /\ ~Records.raises =>
                 /\ Len(Records.rows) = Len(feed.objects[current.key].body.records)
                 /\ WellFormed(current.key)
<1>1. current.key \in Keys /\ feed \in Feeds
  BY DEF TypeInv, Decoded
<1>2. Sequential(feed.objects[current.key].body.records)
  BY <1>1, FeedTypes
<1> QED
  BY <1>2, DecodeFacts DEF Records, WellFormed

LEMMA RowFacts ==
    ASSUME TypeInv, KindInv, pc = "decode", current.next <= Len(Records.rows)
    PROVE  /\ Row \in RowType
           /\ Row.id.key = current.key
           /\ Row.id.ordinal = current.next
<1>1. feed.kind = "s3_json" /\ feed \in Feeds
  BY DEF TypeInv, KindInv
<1>2. /\ current \in Decoded /\ current.key \in Keys /\ current.etag \in ETags
      /\ current.content = current.etag /\ current.next \in Nat \ {0}
  BY DEF TypeInv, Decoded
<1>3. Records.rows[current.next] = current.next
  BY <1>2, RecordsFacts
<1>4. /\ Row.id = [key |-> current.key, etag |-> current.etag, content |-> current.content,
                   ordinal |-> current.next]
      /\ Row.value = <<"text", current.content>>
      /\ Row.bytes = feed.objects[current.key].bytes
  BY <1>3 DEF Row
<1>5. Row.id \in Ids
  BY <1>2, <1>4 DEF Ids
<1>6. Row.value \in Values
  <2>1. current.content \in Int
    BY <1>2, Constants DEF ETags
  <2> QED
    BY <1>4, <2>1 DEF Values
<1>7. Row.bytes \in Nat
  BY <1>1, <1>2, <1>4, FeedTypes
<1>8. Row \in RowType
  <2>1. Row = [id |-> Row.id, value |-> Row.value, bytes |-> Row.bytes]
    BY DEF Row
  <2> QED
    BY <1>1, <1>5, <1>6, <1>7, <2>1 DEF RowType, RowIds
<1> QED
  BY <1>4, <1>8

LEMMA InferredFacts ==
    ASSUME NEW rows
    PROVE  /\ Inferred(rows) \in Types
           /\ Fits(rows, Inferred(rows))
<1> DEFINE F == {i \in DOMAIN Narrowest : Fits(rows, Narrowest[i])}
<1>1. DOMAIN Narrowest = 1..5 /\ \A i \in 1..5 : Narrowest[i] \in Types
  BY DEF Narrowest, Types
<1>2. 5 \in F
  BY <1>1 DEF Narrowest, Fits, Holds
<1>3. F \in SUBSET Nat /\ F # {}
  BY <1>1, <1>2
<1>4. PICK x \in F : \A y \in F : x <= y
  <2> HIDE DEF F
  <2> QED
    BY <1>3, LeastNatural
<1>5. \E i \in DOMAIN Narrowest :
         Fits(rows, Narrowest[i]) /\ \A j \in 1..(i - 1) : ~Fits(rows, Narrowest[j])
  BY <1>1, <1>4
<1>6. PICK i \in DOMAIN Narrowest : Fits(rows, Narrowest[i]) /\ Inferred(rows) = Narrowest[i]
  BY <1>5 DEF Inferred
<1> QED
  BY <1>1, <1>6

LEMMA PinnedType ==
    ASSUME feed \in Feeds, schema \in (Types \ {"null"}) \cup {NoSchema}, NEW rows
    PROVE  Pinned(rows, feed.declared) \in Types \ {"null"}
  BY FeedTypes, InferredFacts DEF Pinned, Promoted, Types

BasicInv == TypeInv /\ KindInv /\ EndInv

LEMMA BasicInit == Init => BasicInv
<1> SUFFICES ASSUME Init PROVE BasicInv
  OBVIOUS
<1> USE DEF Init, InitExtraction, InitWriter
<1>1. feed \in Feeds /\ feed.kind \in {"s3_json", "snowflake"}
  BY FeedTypes
<1>2. version \in [Keys -> ETags] /\ errors \in 0..MaxErrors
  BY Constants DEF ETags
<1>3. cursor \in Nat /\ previous \in Int
  BY <1>1, FirstCursorType DEF NoFolder
<1>4. fetched \in 0..(IF feed.kind = "s3_json" THEN 0 ELSE Len(feed.cells))
  BY <1>1, FeedTypes
<1>6. /\ phase \in {"hours", "over"} /\ listed \in Seq(Int)
      /\ page \in Seq(Items) /\ pending \in Seq(Items)
      /\ batch \in Seq(RowType) /\ out \in Seq(RowType) /\ parts \in Seq(PartType)
  OBVIOUS
<1>7. drift \in BOOLEAN /\ held \in BOOLEAN /\ fileCount = Len(parts) /\ rowCount \in Nat
  OBVIOUS
<1>5. TypeInv
  BY <1>1, <1>2, <1>3, <1>4, <1>6, <1>7 DEF TypeInv
<1> QED
  BY <1>1, <1>5 DEF BasicInv, KindInv, EndInv

LEMMA BasicWalk ==
    ASSUME BasicInv, extractionStill, NextHour \/ EndPoint \/ WholeLocation
    PROVE  BasicInv'
<1> USE DEF extractionStill, writerVars, walk, pool, decoding
<1>1. feed \in Feeds /\ feed' = feed /\ version \in [Keys -> ETags] /\ pc = "extract" /\ phase = "hours"
      /\ out = <<>> /\ feed.kind = "s3_json"
  BY DEF BasicInv, TypeInv, KindInv, NextHour, EndPoint, WholeLocation, WantsItem, Running
<1>2. PICK folder \in Int : ListFolder(folder)
  <2>1. CASE NextHour
    <3>1. cursor \in Instants
      BY <2>1, FeedFacts, OffsetsBounded DEF BasicInv, TypeInv, NextHour, Instants
    <3> QED
      BY <1>1, <2>1, <3>1, LocalTimes DEF NextHour
  <2>2. CASE EndPoint
    BY <1>1, <2>2, OffsetsBounded, LocalTimes DEF EndPoint, EndpointFolder
  <2>3. CASE WholeLocation
    BY <2>3 DEF WholeLocation
  <2> QED
    BY <2>1, <2>2, <2>3
<1>3. previous' \in Int /\ listed' \in Seq(Int) /\ page' \in Seq(Items)
  <2>1. Listing(folder) \in Seq(Items)
    BY <1>1, ListingFacts
  <2>2. listed \in Seq(Int) /\ page \in Seq(Items)
    BY DEF BasicInv, TypeInv
  <2>3. Append(listed, folder) \in Seq(Int)
    BY <1>2, <2>2
  <2> QED
    BY <1>2, <2>1, <2>2, <2>3 DEF ListFolder
<1>4. cursor' \in Nat /\ phase' \in {"hours", "over"}
  BY <1>1, Constants DEF BasicInv, TypeInv, NextHour, EndPoint, WholeLocation
<1>5. TypeInv'
  BY <1>1, <1>3, <1>4, SameFeed DEF BasicInv, TypeInv, NextHour, EndPoint, WholeLocation
<1> QED
  BY <1>1, <1>5 DEF BasicInv, KindInv, EndInv, NextHour, EndPoint, WholeLocation

LEMMA OldestTaken ==
    ASSUME NEW S, NEW s \in Seq(S), s # <<>>
    PROVE  SubSeq(s, 1, 1 - 1) \o SubSeq(s, 1 + 1, Len(s)) = Tail(s)
  OBVIOUS

LEMMA BasicSubmit ==
    ASSUME BasicInv, extractionStill, Submit
    PROVE  BasicInv'
<1> USE DEF extractionStill, writerVars, walk, pool, decoding
<1>1. feed' = feed /\ page \in Seq(Items) /\ page # <<>> /\ pending \in Seq(Items)
  BY DEF BasicInv, TypeInv, Submit
<1>2. page' \in Seq(Items) /\ pending' \in Seq(Items)
  BY <1>1 DEF Submit
<1>3. TypeInv'
  BY <1>1, <1>2, SameFeed DEF BasicInv, TypeInv, Submit
<1> QED
  BY <1>1, <1>3 DEF BasicInv, KindInv, EndInv, Submit, Running

LEMMA BasicTake ==
    ASSUME BasicInv, extractionStill, Take(Oldest)
    PROVE  /\ BasicInv'
           /\ pending # <<>>
           /\ pending' = Tail(pending)
           /\ current' = [key |-> pending[1].key, etag |-> pending[1].etag,
                          content |-> pending[1].content, next |-> 1]
           /\ pending[1].key \in Keys
<1> USE DEF extractionStill, writerVars, walk, pool, decoding
<1>1. feed' = feed /\ pending \in Seq(Items) /\ pending # <<>> /\ pc = "extract" /\ pc' = "decode"
  BY DEF BasicInv, TypeInv, Take, Oldest, Due, Running
<1>2. pending' = Tail(pending) /\ pending' \in Seq(Items)
  BY <1>1, OldestTaken DEF Take, Oldest
<1>3. /\ pending[1] \in Items
      /\ pending[1].key \in Keys /\ pending[1].etag \in ETags
      /\ pending[1].content = pending[1].etag
  <2>1. pending[1] \in Items
    BY <1>1
  <2>2. pending[1].content \notin {Refused, Waiting}
    BY DEF Take, Oldest, Due
  <2> QED
    BY <2>1, <2>2 DEF Items
<1>4. current' = [key |-> pending[1].key, etag |-> pending[1].etag,
                  content |-> pending[1].content, next |-> 1]
  BY DEF Take, Oldest
<1>5. current' \in Decoded
  BY <1>3, <1>4 DEF Decoded
<1>6. TypeInv'
  BY <1>1, <1>2, <1>5, SameFeed DEF BasicInv, TypeInv, Take
<1>7. KindInv' /\ EndInv'
  BY <1>1, <1>2 DEF BasicInv, KindInv, EndInv, Take
<1> QED
  BY <1>1, <1>2, <1>3, <1>4, <1>6, <1>7 DEF BasicInv

LEMMA BasicRow ==
    ASSUME BasicInv, extractionStill, NextRow
    PROVE  BasicInv'
<1> USE DEF extractionStill, writerVars, walk, pool, decoding
<1>1. feed' = feed /\ pc = "decode" /\ pc' = pc /\ current \in Decoded /\ Row \in RowType
  BY RowFacts DEF BasicInv, TypeInv, NextRow, Running
<1>2. batch' \in Seq(RowType) /\ out' \in Seq(RowType)
  <2>1. batch \in Seq(RowType) /\ out \in Seq(RowType)
    BY DEF BasicInv, TypeInv
  <2>2. <<Row>> \in Seq(RowType) /\ Append(batch, Row) \in Seq(RowType)
    BY <1>1, <2>1
  <2> QED
    BY <2>1, <2>2 DEF NextRow
<1>3. current' \in Decoded
  <2>1. current' = [current EXCEPT !.next = current.next + 1] /\ current.next + 1 \in Nat \ {0}
    BY <1>1 DEF NextRow, Decoded
  <2> QED
    BY <1>1, <2>1 DEF Decoded
<1>4. TypeInv'
  BY <1>1, <1>2, <1>3, SameFeed DEF BasicInv, TypeInv, NextRow
<1> QED
  BY <1>1, <1>4 DEF BasicInv, KindInv, EndInv, NextRow

LEMMA BasicDecoded ==
    ASSUME BasicInv, extractionStill, ObjectDecoded \/ Finish
    PROVE  BasicInv'
<1> USE DEF extractionStill, writerVars, walk, pool, decoding
<1>1. feed' = feed
  BY DEF ObjectDecoded, Finish
<1>2. TypeInv'
  BY <1>1, SameFeed DEF BasicInv, TypeInv, ObjectDecoded, Finish, Running
<1> QED
  BY <1>1, <1>2 DEF BasicInv, KindInv, EndInv, ObjectDecoded, Finish, Running, Exhausted

LEMMA BasicCursor ==
    ASSUME BasicInv, Fetch \/ ResultSetDrained
    PROVE  BasicInv'
<1> USE DEF writerVars, walk, pool, decoding
<1>1. feed' = feed /\ feed \in Feeds /\ feed.kind # "s3_json" /\ pc = "extract" /\ out = <<>>
  BY DEF BasicInv, TypeInv, Fetch, ResultSetDrained, Running
<1>2. CASE ResultSetDrained
  <2>1. TypeInv'
    BY <1>1, <1>2, SameFeed DEF BasicInv, TypeInv, ResultSetDrained
  <2> QED
    BY <1>1, <1>2, <2>1 DEF BasicInv, KindInv, EndInv, ResultSetDrained
<1>3. CASE Fetch
  <2> DEFINE remaining == SubSeq(feed.cells, fetched + 1, Len(feed.cells))
             cells == SubSeq(remaining, 1, IF Len(remaining) < FetchSize THEN Len(remaining) ELSE FetchSize)
  <2>1. feed.cells \in Seq(Values) /\ fetched \in 0..Len(feed.cells)
    BY <1>1, FeedTypes DEF BasicInv, TypeInv
  <2>2. remaining \in Seq(Values) /\ Len(remaining) = Len(feed.cells) - fetched
    BY <2>1
  <2>3. cells \in Seq(Values) /\ Len(cells) <= Len(remaining)
    <3> HIDE DEF remaining
    <3> QED
      BY <2>1, <2>2, Constants
  <2>4. out' = DataFrame(fetched, cells) /\ fetched' = fetched + Len(cells)
    BY <1>3 DEF Fetch
  <2> HIDE DEF remaining, cells
  <2>5. fetched' \in 0..Len(feed.cells)
    BY <2>1, <2>2, <2>3, <2>4
  <2>6. ASSUME NEW i \in DOMAIN cells
        PROVE  DataFrame(fetched, cells)[i] \in RowType
    <3>1. cells[i] \in Values /\ AsDouble(cells[i]) \in Values /\ fetched + i \in Nat \ {0}
      <4>1. cells[i] \in Values
        BY <2>3
      <4>2. ASSUME cells[i][1] = "number" PROVE <<"number", cells[i][2] - (cells[i][2] % 2)>> \in Values
        <5>1. cells[i][2] \in Int
          BY <4>1 DEF Values
        <5>2. cells[i][2] - (cells[i][2] % 2) \in Int
          BY <5>1
        <5> QED
          BY <5>2 DEF Values
      <4>3. fetched + i \in Nat \ {0}
        BY <2>1, <2>3
      <4> QED
        BY <4>1, <4>2, <4>3 DEF AsDouble
    <3>2. DataFrame(fetched, cells)[i] =
            [id |-> fetched + i, bytes |-> 1,
             value |-> IF Rounds(cells) THEN AsDouble(cells[i]) ELSE cells[i]]
      BY DEF DataFrame
    <3> QED
      BY <1>1, <3>1, <3>2 DEF RowType, RowIds
  <2>7. out' \in Seq(RowType)
    <3>1. DOMAIN DataFrame(fetched, cells) = 1..Len(cells) /\ Len(cells) \in Nat
      BY <2>3 DEF DataFrame
    <3>2. DataFrame(fetched, cells) = [i \in 1..Len(cells) |-> DataFrame(fetched, cells)[i]]
      BY <2>3 DEF DataFrame
    <3> HIDE DEF cells
    <3> QED
      BY <2>3, <2>4, <2>6, <3>1, <3>2
  <2>8. TypeInv'
    BY <1>1, <1>3, <2>5, <2>7, SameFeed DEF BasicInv, TypeInv, Fetch
  <2> QED
    BY <1>1, <1>3, <2>8 DEF BasicInv, KindInv, EndInv, Fetch, Running
<1> QED
  BY <1>2, <1>3

LEMMA BasicPart ==
    ASSUME BasicInv, WritePart
    PROVE  BasicInv'
<1> DEFINE pinned == Pinned(out, feed.declared)
           type == IF Conforms(out, pinned) THEN pinned ELSE Inferred(out)
<1> USE DEF writerVars, walk, pool, decoding
<1>1. feed' = feed /\ feed \in Feeds /\ out \in Seq(RowType) /\ parts \in Seq(PartType)
  BY DEF BasicInv, TypeInv, WritePart
<1>2. /\ schema' = pinned
      /\ parts' = Append(parts, [type |-> type, rows |-> out])
      /\ rowCount' = rowCount + Len(out)
      /\ fileCount' = fileCount + 1
  BY DEF WritePart, WriteBatch
<1>3. pinned \in Types \ {"null"}
  BY <1>1, PinnedType DEF BasicInv, TypeInv
<1>4. type \in Types
  BY <1>3, InferredFacts
<1> HIDE DEF pinned, type
<1>5. [type |-> type, rows |-> out] \in PartType
  BY <1>1, <1>4 DEF PartType
<1>6. parts' \in Seq(PartType) /\ Len(parts') = Len(parts) + 1
  BY <1>1, <1>2, <1>5
<1>7. rowCount' \in Nat /\ fileCount' = Len(parts')
  BY <1>1, <1>2, <1>6 DEF BasicInv, TypeInv
<1>8. drift' \in BOOLEAN
  BY DEF WritePart, WriteBatch
<1>9. TypeInv'
  BY <1>1, <1>2, <1>3, <1>6, <1>7, <1>8, SameFeed DEF BasicInv, TypeInv, WritePart
<1> QED
  BY <1>1, <1>9 DEF BasicInv, KindInv, EndInv, WritePart

LEMMA BasicClose ==
    ASSUME BasicInv, CloseRun
    PROVE  BasicInv'
<1> USE DEF extractionVars, walk, pool, decoding
<1>1. feed' = feed
  BY DEF CloseRun
<1>2. TypeInv'
  BY <1>1, SameFeed DEF BasicInv, TypeInv, CloseRun, WriteManifest
<1> QED
  <2>1. KindInv'
    BY <1>1 DEF BasicInv, KindInv, CloseRun
  <2>2. EndInv'
    BY <1>1 DEF BasicInv, EndInv, CloseRun, SourceDrained
  <2> QED
    BY <1>2, <2>1, <2>2 DEF BasicInv

LEMMA BasicAbort ==
    ASSUME BasicInv, Aborts
    PROVE  BasicInv'
<1> USE DEF extractionStill, writerVars, walk, pool, decoding
<1>1. feed' = feed
  BY DEF Aborts, Abort
<1>2. errors' \in 0..MaxErrors
  BY Constants DEF BasicInv, TypeInv, Aborts
<1>3. TypeInv'
  <2>1. /\ page' = <<>> /\ pending' = <<>> /\ batch' = <<>> /\ out' = <<>>
        /\ pc' = "failed" /\ current' = NoObject /\ held' = FALSE
    BY DEF Aborts, Abort
  <2>2. UNCHANGED <<version, walk, writerVars, fetched, status>>
    BY DEF Aborts, Abort
  <2>3. page' \in Seq(Items)' /\ pending' \in Seq(Items)' /\ batch' \in Seq(RowType)' /\ out' \in Seq(RowType)'
    BY <2>1
  <2> HIDE DEF extractionStill
  <2> QED
    BY <1>1, <1>2, <2>1, <2>2, <2>3, SameFeed DEF BasicInv, TypeInv
<1> QED
  BY <1>1, <1>3 DEF BasicInv, KindInv, EndInv, Aborts, Abort

(* Beside the run: an object is overwritten, a read returns. *)
LEMMA AsideFacts ==
    ASSUME BasicInv, Aside
    PROVE  /\ UNCHANGED <<feed, pc, walk, page, decoding, out, schema, drift, parts, rowCount,
                          fileCount, manifest, fetched>>
           /\ status' \in {status, "failed"}
           /\ status' # status => status = "running" /\ pc = "failed"
           /\ pending' \in Seq(Items) /\ Len(pending') = Len(pending)
           /\ \A i \in DOMAIN pending : pending'[i].key = pending[i].key
           /\ version' \in [Keys -> ETags]
           /\ \A o \in Keys : version'[o] = version[o] \/ version'[o] # 1
           /\ errors' \in 0..MaxErrors
<1> USE DEF extractionStill, writerVars, extractionVars, vars, walk, pool, decoding
<1>1. /\ feed \in Feeds /\ pending \in Seq(Items) /\ version \in [Keys -> ETags]
      /\ errors \in 0..MaxErrors
  BY DEF BasicInv, TypeInv
<1>2. CASE \E o \in Keys : Overwrite(o) /\ extractionStill
  <2>1. PICK o \in Keys : Overwrite(o)
    BY <1>2
  <2>2. version[o] \in ETags /\ version[o] + 1 \in ETags /\ version[o] + 1 # 1
    BY <1>1, <2>1, Constants DEF Overwrite, ETags
  <2>3. version' = [version EXCEPT ![o] = version[o] + 1]
    BY <2>1 DEF Overwrite
  <2> QED
    BY <1>1, <1>2, <2>1, <2>2, <2>3 DEF Overwrite
<1>3. ASSUME NEW i \in DOMAIN pending, NEW c, pending[i].content = Waiting,
             c \in {Refused, pending[i].etag},
             pending' = [pending EXCEPT ![i].content = c]
      PROVE  /\ pending' \in Seq(Items) /\ Len(pending') = Len(pending)
             /\ \A j \in DOMAIN pending : pending'[j].key = pending[j].key
  <2>1. pending[i] \in Items
    BY <1>1
  <2>2. [pending[i] EXCEPT !.content = c] \in Items
    BY <1>3, <2>1 DEF Items
  <2>3. [pending[i] EXCEPT !.content = c].key = pending[i].key
    BY <2>1 DEF Items
  <2>4. pending' = [pending EXCEPT ![i] = [pending[i] EXCEPT !.content = c]]
    BY <1>3
  <2> QED
    BY <1>1, <2>2, <2>3, <2>4
<1>4. CASE \E i \in DOMAIN pending : Read(i) /\ extractionStill
  <2>1. PICK i \in DOMAIN pending : Read(i)
    BY <1>4
  <2>2. Content(pending[i]) \in {Refused, pending[i].etag}
    BY DEF Content
  <2> QED
    BY <1>1, <1>3, <1>4, <2>1, <2>2 DEF Read
<1>5. CASE \E i \in DOMAIN pending : ReadFails(i) /\ extractionStill
  <2>1. PICK i \in DOMAIN pending : ReadFails(i)
    BY <1>5
  <2>2. errors' \in 0..MaxErrors
    BY <1>1, <2>1, Constants DEF ReadFails
  <2> QED
    BY <1>1, <1>3, <1>5, <2>1, <2>2 DEF ReadFails
<1>6. CASE RunFails
  BY <1>1, <1>6 DEF RunFails
<1>7. CASE UNCHANGED vars
  BY <1>1, <1>7
<1> QED
  BY <1>2, <1>4, <1>5, <1>6, <1>7 DEF Aside

LEMMA BasicAside ==
    ASSUME BasicInv, Aside
    PROVE  BasicInv'
<1> USE DEF walk, decoding
<1>1. feed' = feed /\ status' \in {"running", "failed", "landed"}
  BY AsideFacts DEF BasicInv, TypeInv
<1>2. TypeInv'
  BY <1>1, AsideFacts, SameFeed DEF BasicInv, TypeInv
<1>3. pending = <<>> => pending' = <<>>
  BY AsideFacts DEF BasicInv, TypeInv
<1> QED
  BY <1>1, <1>2, <1>3, AsideFacts DEF BasicInv, KindInv, EndInv

LEMMA BasicNext == BasicInv /\ [Next]_vars => BasicInv'
<1> SUFFICES ASSUME BasicInv, [Next]_vars PROVE BasicInv'
  OBVIOUS
<1>1. CASE Pulls
  BY <1>1, BasicWalk, BasicSubmit, BasicTake, BasicRow, BasicDecoded, BasicCursor, BasicPart,
     BasicClose DEF Pulls
<1> QED
  BY <1>1, NextCases, BasicAbort, BasicAside

LEMMA BasicInvariant == Spec => []BasicInv
  BY BasicInit, BasicNext, PTL DEF Spec

(* Every variable of a run has its type, for every feed: the walk's cursor  *)
(* is an instant in any timezone, whatever order reads and writes take.     *)
THEOREM TypeCorrect == Spec => []TypeOK
<1>1. BasicInv => TypeOK
  <2> SUFFICES ASSUME BasicInv PROVE TypeOK
    OBVIOUS
  <2>1. ASSUME NEW s \in Seq(Items), NEW i \in DOMAIN s PROVE s[i].key \in Keys
    BY DEF Items
  <2>2. pc = "decode" <=> current # NoObject
    <3>1. ASSUME current \in Decoded PROVE current # NoObject
      <4>1. current.key \in Keys /\ NoObject.key = 0
        BY <3>1 DEF Decoded, NoObject
      <4>2. 0 \notin Keys
        BY KeysFacts DEF BasicInv, TypeInv
      <4> QED
        BY <4>1, <4>2
    <3> QED
      BY <3>1 DEF BasicInv, TypeInv
  <2>3. ExtractionTypeOK
    BY <2>1, <2>2 DEF BasicInv, TypeInv, ExtractionTypeOK, ETags
  <2>4. WriterTypeOK
    <3>1. ASSUME NEW i \in DOMAIN parts PROVE parts[i].type \in Types
      <4>1. parts[i] \in PartType
        BY DEF BasicInv, TypeInv
      <4> QED
        BY <4>1 DEF PartType
    <3> QED
      BY <3>1 DEF BasicInv, TypeInv, WriterTypeOK
  <2> QED
    BY <2>3, <2>4 DEF BasicInv, TypeInv, TypeOK
<1> QED
  BY <1>1, BasicInvariant, PTL

-----------------------------------------------------------------------------
(* Never more bodies than reads may be ahead and the one that extract()     *)
(* still has: a read is submitted only into a free place, and none while    *)
(* an object is decoded, whose place in the pool stays free.                *)
PoolInv ==
    /\ Len(pending) <= Prefetch
    /\ pc = "decode" => Len(pending) < Prefetch

THEOREM PrefetchBounded == Spec => []BodiesBounded
<1>1. Init => PoolInv
  <2> SUFFICES ASSUME Init PROVE PoolInv
    OBVIOUS
  <2>1. Len(pending) = 0 /\ pc = "extract"
    BY DEF Init, InitExtraction
  <2> QED
    BY <2>1, Constants DEF PoolInv
<1>2. BasicInv /\ PoolInv /\ [Next]_vars => PoolInv'
  <2> SUFFICES ASSUME BasicInv, PoolInv, [Next]_vars PROVE PoolInv'
    OBVIOUS
  <2> USE DEF PoolInv
  <2>0. Len(pending) \in Nat /\ Prefetch \in Nat
    BY Constants DEF BasicInv, TypeInv
  <2>1. CASE Aside
    <3>1. pc' = pc /\ Len(pending') = Len(pending)
      BY <2>1, AsideFacts
    <3> QED
      BY <3>1
  <2>2. CASE Aborts
    <3>1. pc' = "failed" /\ Len(pending') = 0
      BY <2>2 DEF Aborts, Abort
    <3> QED
      BY <3>1, Constants
  <2>3. CASE Submit /\ extractionStill
    <3>1. Len(pending') = Len(pending) + 1 /\ pc = "extract" /\ pc' = pc /\ Len(pending) < Prefetch
      BY <2>3 DEF BasicInv, TypeInv, Submit, Running, CanSubmit
    <3> QED
      BY <2>0, <3>1
  <2>4. CASE Take(Oldest) /\ extractionStill
    <3>1. pending # <<>> /\ pending' = Tail(pending) /\ pc' = "decode" /\ pc = "extract"
      BY <2>4, BasicTake DEF Take, Running
    <3>2. Len(pending') = Len(pending) - 1
      BY <3>1 DEF BasicInv, TypeInv
    <3> QED
      BY <2>0, <3>1, <3>2
  <2>5. CASE (NextHour \/ EndPoint \/ WholeLocation \/ NextRow) /\ extractionStill
    BY <2>5 DEF NextHour, EndPoint, WholeLocation, NextRow, pool
  <2>6. CASE (ObjectDecoded \/ Finish) /\ extractionStill
    BY <2>0, <2>6 DEF ObjectDecoded, Finish, Running, pool
  <2>7. CASE Fetch \/ ResultSetDrained \/ WritePart \/ CloseRun
    BY <2>7 DEF Fetch, ResultSetDrained, Running, WritePart, CloseRun, extractionVars, pool
  <2> QED
    BY <2>1, <2>2, <2>3, <2>4, <2>5, <2>6, <2>7, NextCases DEF Pulls
<1>3. BasicInv /\ PoolInv => BodiesBounded
  <2> SUFFICES ASSUME BasicInv, PoolInv PROVE BodiesBounded
    OBVIOUS
  <2>1. Len(pending) \in Nat /\ Prefetch \in Nat
    BY Constants DEF BasicInv, TypeInv
  <2> QED
    BY <2>1 DEF PoolInv, BodiesBounded, Bodies
<1> QED
  BY <1>1, <1>2, <1>3, BasicInvariant, PTL DEF Spec

-----------------------------------------------------------------------------
(* The writer. *)
LEMMA RowsInSums ==
    ASSUME NEW files, Len(files) \in Nat, \A i \in 1..Len(files) : Len(files[i].rows) \in Nat
    PROVE  \E f : /\ Sums(f, [i \in 1..Len(files) |-> Len(files[i].rows)], Len(files))
                  /\ RowsIn(files) = f[Len(files)]
<1> DEFINE n == Len(files)
           a == [i \in 1..n |-> Len(files[i].rows)]
           sum[i \in 0..n] == IF i = 0 THEN 0 ELSE sum[i - 1] + Len(files[i].rows)
<1>1. PICK f : Sums(f, a, n)
  BY SumsExist
<1>2. f = [i \in 0..n |-> IF i = 0 THEN 0 ELSE f[i - 1] + Len(files[i].rows)]
  <2>1. f = [i \in 0..n |-> f[i]]
    BY <1>1 DEF Sums
  <2>2. \A i \in 0..n : f[i] = IF i = 0 THEN 0 ELSE f[i - 1] + Len(files[i].rows)
    BY <1>1 DEF Sums
  <2> QED
    BY <2>1, <2>2
<1>3. sum = [i \in 0..n |-> IF i = 0 THEN 0 ELSE sum[i - 1] + Len(files[i].rows)]
  BY <1>2
<1>4. RowsIn(files) = sum[n]
  BY DEF RowsIn
<1> HIDE DEF sum
<1>5. sum = [i \in 0..n |-> IF i = 0 THEN 0 ELSE sum[i - 1] + a[i]]
  BY <1>3
<1>6. Sums(sum, a, n)
  BY <1>5, FunctionAsSums
<1> QED
  BY <1>4, <1>6

LEMMA RowsAppend ==
    ASSUME NEW S, NEW files \in Seq(S), \A x \in S : Len(x.rows) \in Nat, NEW r \in S
    PROVE  RowsIn(Append(files, r)) = RowsIn(files) + Len(r.rows)
<1> DEFINE n == Len(files)
           c == Append(files, r)
           a == [i \in 1..n |-> Len(files[i].rows)]
           d == [i \in 1..(n + 1) |-> Len(c[i].rows)]
<1>1. n \in Nat /\ c \in Seq(S) /\ Len(c) = n + 1 /\ c[n + 1] = r /\ \A i \in 1..n : c[i] = files[i]
  OBVIOUS
<1>2. (\A i \in 1..n : Len(files[i].rows) \in Nat) /\ (\A i \in 1..(n + 1) : Len(c[i].rows) \in Nat)
  BY <1>1
<1>3. PICK f : Sums(f, a, n) /\ RowsIn(files) = f[n]
  BY <1>1, <1>2, RowsInSums
<1>4. PICK g : Sums(g, d, n + 1) /\ RowsIn(c) = g[n + 1]
  <2> HIDE DEF c
  <2>1. Len(c) \in Nat /\ \A i \in 1..Len(c) : Len(c[i].rows) \in Nat
    BY <1>1, <1>2
  <2>2. \E g : Sums(g, [i \in 1..Len(c) |-> Len(c[i].rows)], Len(c)) /\ RowsIn(c) = g[Len(c)]
    BY <2>1, RowsInSums
  <2> QED
    BY <1>1, <2>2
<1>5. (\A i \in 1..n : a[i] = d[i]) /\ d[n + 1] = Len(r.rows)
  BY <1>1
<1> HIDE DEF a, d, c
<1>6. g[n + 1] = f[n] + d[n + 1]
  BY <1>1, <1>3, <1>4, <1>5, SumsAppend
<1> QED
  BY <1>3, <1>4, <1>5, <1>6 DEF c

LEMMA RowsInNothing == RowsIn(<<>>) = 0
<1>1. Len(<<>>) = 0 /\ \A i \in 1..0 : Len(<<>>[i].rows) \in Nat
  OBVIOUS
<1>2. \E f : Sums(f, [i \in 1..0 |-> Len(<<>>[i].rows)], 0) /\ RowsIn(<<>>) = f[0]
  BY <1>1, RowsInSums
<1> QED
  BY <1>2 DEF Sums

LEMMA WriterInit == Init => WriterInv
  BY RowsInNothing DEF Init, InitWriter, WriterInv

(* What WriteBatch() appends, and with what effect. *)
LEMMA PartWritten ==
    ASSUME BasicInv, WritePart
    PROVE  \E type \in Types :
             /\ parts' = Append(parts, [type |-> type, rows |-> out])
             /\ [type |-> type, rows |-> out] \in PartType
             /\ Fits(out, type)
             /\ schema' \in Types /\ (schema # NoSchema => schema' = schema)
             /\ IF type = schema' THEN drift' = drift ELSE drift'
<1> DEFINE pinned == Pinned(out, feed.declared)
           type == IF Conforms(out, pinned) THEN pinned ELSE Inferred(out)
<1>1. feed \in Feeds /\ out \in Seq(RowType) /\ drift \in BOOLEAN
  BY DEF BasicInv, TypeInv
<1>2. /\ schema' = pinned
      /\ parts' = Append(parts, [type |-> type, rows |-> out])
      /\ drift' = (drift \/ ~Conforms(out, pinned))
  BY DEF WritePart, WriteBatch
<1>3. pinned \in Types /\ (schema # NoSchema => pinned = schema)
  BY <1>1, PinnedType DEF BasicInv, TypeInv, Pinned
<1>4. type \in Types /\ Fits(out, type)
  BY <1>3, InferredFacts DEF Conforms
<1>5. Conforms(out, pinned) <=> type = pinned
  BY InferredFacts DEF Conforms
<1> HIDE DEF type, pinned
<1>6. [type |-> type, rows |-> out] \in PartType
  BY <1>1, <1>4 DEF PartType
<1>7. IF type = schema' THEN drift' = drift ELSE drift'
  BY <1>1, <1>2, <1>5
<1> QED
  BY <1>2, <1>3, <1>4, <1>6, <1>7

LEMMA WriterPart ==
    ASSUME BasicInv, WriterInv, WritePart
    PROVE  WriterInv'
<1>1. PICK type \in Types :
        /\ parts' = Append(parts, [type |-> type, rows |-> out])
        /\ [type |-> type, rows |-> out] \in PartType
        /\ Fits(out, type)
        /\ schema' \in Types /\ (schema # NoSchema => schema' = schema)
        /\ IF type = schema' THEN drift' = drift ELSE drift'
  BY PartWritten
<1> DEFINE part == [type |-> type, rows |-> out]
<1>2. /\ part.type = type /\ part.rows = out /\ part \in PartType
      /\ parts \in Seq(PartType) /\ out \in Seq(RowType) /\ rowCount' = rowCount + Len(out)
      /\ status = "running" /\ status' = status /\ manifest' = manifest
      /\ drift \in BOOLEAN
  BY <1>1 DEF BasicInv, TypeInv, WritePart, WriteBatch
<1>3. parts' = Append(parts, part)
  BY <1>1
<1> HIDE DEF part
<1>4. /\ DOMAIN parts' = 1..(Len(parts) + 1) /\ Len(parts) \in Nat /\ DOMAIN parts = 1..Len(parts)
      /\ parts'[Len(parts) + 1] = part
      /\ \A i \in DOMAIN parts : parts'[i] = parts[i]
  BY <1>2, <1>3
<1>5. RowsIn(parts') = RowsIn(parts) + Len(out)
  <2>1. \A x \in PartType : Len(x.rows) \in Nat
    BY DEF PartType
  <2> QED
    BY <1>2, <1>3, <2>1, RowsAppend
<1>6. \A i \in DOMAIN parts' : Fits(parts'[i].rows, parts'[i].type)
  BY <1>1, <1>2, <1>4 DEF WriterInv
<1>7. rowCount' = RowsIn(parts')
  BY <1>2, <1>5 DEF WriterInv
<1>8. parts' # <<>> /\ schema' # NoSchema
  BY <1>1, <1>2, <1>3, Constants
<1>9. ~drift' => \A i \in DOMAIN parts' : parts'[i].type = schema'
  <2> SUFFICES ASSUME ~drift', NEW i \in DOMAIN parts' PROVE parts'[i].type = schema'
    OBVIOUS
  <2>1. type = schema' /\ ~drift
    BY <1>1
  <2>2. CASE i = Len(parts) + 1
    BY <1>2, <1>4, <2>1, <2>2
  <2>3. CASE i # Len(parts) + 1
    <3>1. i \in DOMAIN parts /\ parts # <<>>
      BY <1>4, <2>3
    <3>2. schema # NoSchema /\ parts[i].type = schema
      BY <2>1, <3>1 DEF WriterInv
    <3> QED
      BY <1>1, <1>4, <3>1, <3>2
  <2> QED
    BY <2>2, <2>3
<1>10. drift' => \E i \in DOMAIN parts' : parts'[i].type # schema'
  <2>1. CASE type # schema'
    BY <1>2, <1>4, <2>1
  <2>2. CASE type = schema' /\ drift
    <3>1. PICK i \in DOMAIN parts : parts[i].type # schema
      BY <2>2 DEF WriterInv
    <3>2. schema # NoSchema
      BY <3>1 DEF WriterInv
    <3>3. i \in DOMAIN parts' /\ parts'[i].type # schema'
      BY <1>1, <1>4, <3>1, <3>2
    <3> QED
      BY <3>3
  <2> QED
    BY <1>1, <2>1, <2>2
<1>11. manifest' = NoSchema
  BY <1>2 DEF WriterInv
<1> QED
  BY <1>6, <1>7, <1>8, <1>9, <1>10, <1>11 DEF WriterInv

LEMMA WriterNext == BasicInv /\ WriterInv /\ [Next]_vars => WriterInv'
<1> SUFFICES ASSUME BasicInv, WriterInv, [Next]_vars PROVE WriterInv'
  OBVIOUS
<1>1. CASE CloseRun
  <2>1. /\ schema' = schema /\ drift' = drift /\ parts' = parts /\ rowCount' = rowCount
        /\ fileCount' = fileCount /\ status' = "landed"
        /\ manifest' = [rows |-> rowCount, files |-> fileCount,
                        schema |-> SchemaManifest, drift |-> drift]
    BY <1>1 DEF CloseRun, WriteManifest
  <2>2. SchemaManifest' = SchemaManifest
    BY <2>1 DEF SchemaManifest
  <2> QED
    BY <2>1, <2>2 DEF WriterInv
<1>2. ASSUME writerVars' = writerVars,
             status' # "landed" => status # "landed"
      PROVE  WriterInv'
  <2>1. /\ schema' = schema /\ drift' = drift /\ parts' = parts /\ rowCount' = rowCount
        /\ fileCount' = fileCount /\ manifest' = manifest
    BY <1>2 DEF writerVars
  <2>2. SchemaManifest' = SchemaManifest /\ RowsIn(parts)' = RowsIn(parts)
    BY <2>1 DEF SchemaManifest
  <2>3. status' # "landed" => manifest' = NoSchema
    BY <1>2, <2>1 DEF WriterInv
  <2>4. manifest' # NoSchema =>
          manifest' = [rows |-> rowCount', files |-> fileCount',
                       schema |-> SchemaManifest', drift |-> drift']
    BY <2>1, <2>2 DEF WriterInv
  <2> QED
    BY <2>1, <2>2, <2>3, <2>4 DEF WriterInv
<1>3. CASE Aside
  BY <1>2, <1>3, AsideFacts DEF writerVars
<1>4. CASE Aborts
  BY <1>2, <1>4 DEF Aborts, extractionStill
<1>5. CASE /\ NextHour \/ EndPoint \/ WholeLocation \/ Submit \/ Take(Oldest) \/ NextRow
              \/ ObjectDecoded \/ Finish
           /\ extractionStill
  BY <1>2, <1>5 DEF extractionStill
<1>6. CASE Fetch \/ ResultSetDrained
  BY <1>2, <1>6 DEF Fetch, ResultSetDrained
<1> QED
  BY <1>1, <1>3, <1>4, <1>5, <1>6, NextCases, WriterPart DEF Pulls

(* The manifest of a landed run: it claims a schema only if every part file *)
(* has it and holds its values, its counts are those of the files, and it   *)
(* says whether it claims none for want of rows or for drift.               *)
THEOREM ManifestSound == Spec => []ManifestDescribesParts
<1>1. BasicInv /\ WriterInv => ManifestDescribesParts
  <2> SUFFICES ASSUME BasicInv, WriterInv PROVE ManifestDescribesParts
    OBVIOUS
  <2>1. ASSUME manifest # NoSchema
        PROVE  /\ manifest.files = fileCount /\ manifest.rows = rowCount
               /\ manifest.schema = SchemaManifest /\ manifest.drift = drift
    BY <2>1 DEF WriterInv
  <2>2. fileCount = Len(parts) /\ rowCount = RowsIn(parts) /\ drift \in BOOLEAN
    BY DEF BasicInv, TypeInv, WriterInv
  <2> QED
    BY <2>1, <2>2 DEF WriterInv, SchemaManifest, ManifestDescribesParts
<1> QED
  BY <1>1, BasicInvariant, WriterInit, WriterNext, PTL DEF Spec

-----------------------------------------------------------------------------
(* The size of parts. *)
LEMMA BoundInit == Init => BoundInv
  BY Constants DEF Init, InitExtraction, InitWriter, BoundInv, Small

LEMMA SmallAppend ==
    ASSUME BasicInv, BoundInv, pc = "decode", current.next <= Len(Records.rows), ~MustFlush
    PROVE  Small(Append(batch, Row))
<1>1. batch \in Seq(RowType) /\ Row \in RowType /\ \A x \in RowType : x.bytes \in Nat
  BY RowFacts DEF BasicInv, TypeInv, RowType
<1>2. Len(Append(batch, Row)) = Len(batch) + 1 /\ Len(batch) \in Nat
  BY <1>1
<1>3. CASE batch = <<>>
  BY <1>2, <1>3, Constants DEF Small
<1>4. CASE batch # <<>>
  <2>1. Len(batch) < FetchSize /\ ~(BytesIn(batch) + Row.bytes > BatchBytes)
    BY <1>2, <1>4, Constants DEF MustFlush
  <2>2. BytesIn(batch) \in Nat /\ BytesIn(Append(batch, Row)) = BytesIn(batch) + Row.bytes
    BY <1>1, BytesAppend
  <2>3. BytesIn(batch) + Row.bytes <= BatchBytes
    <3>1. Row.bytes \in Nat
      BY <1>1
    <3> QED
      BY <2>1, <2>2, <3>1, Constants
  <2> QED
    BY <1>2, <2>1, <2>2, <2>3, Constants DEF Small
<1> QED
  BY <1>3, <1>4

LEMMA BoundNext == BasicInv /\ BoundInv /\ [Next]_vars => BoundInv'
<1> SUFFICES ASSUME BasicInv, BoundInv, [Next]_vars PROVE BoundInv'
  OBVIOUS
<1>0. Small(<<>>) /\ Len(<<>>) = 0 /\ FetchSize \in Nat \ {0}
  BY Constants DEF Small
<1>1. ASSUME feed' = feed, parts' = parts,
             out' = out \/ out' = batch \/ out' = <<>>,
             batch' = batch \/ batch' = <<>> \/ Small(batch')
      PROVE  BoundInv'
  <2>1. ASSUME NEW i \in DOMAIN parts' PROVE parts'[i].rows # <<>> /\ Small(parts'[i].rows)
    BY <1>1 DEF BoundInv
  <2>2. Small(out') /\ Small(batch')
    BY <1>0, <1>1 DEF BoundInv
  <2> QED
    BY <1>1, <2>1, <2>2 DEF BoundInv, Small, BytesIn
<1>2. CASE Aside
  BY <1>1, <1>2, AsideFacts DEF decoding
<1>3. CASE Aborts
  BY <1>1, <1>3 DEF Aborts, Abort, extractionStill, writerVars
<1>4. CASE /\ NextHour \/ EndPoint \/ WholeLocation \/ Submit \/ Take(Oldest) \/ ObjectDecoded
           /\ extractionStill
  BY <1>1, <1>4 DEF NextHour, EndPoint, WholeLocation, Submit, Take, ObjectDecoded, decoding,
     extractionStill, writerVars
<1>5. CASE Finish /\ extractionStill
  BY <1>1, <1>5 DEF Finish, extractionStill, writerVars
<1>6. CASE NextRow /\ extractionStill
  <2>1. CASE MustFlush
    <3>1. out' = batch /\ batch' = <<Row>> /\ Len(<<Row>>) = 1
      BY <1>6, <2>1 DEF NextRow
    <3>2. Small(batch')
      BY <1>0, <3>1 DEF Small
    <3> QED
      BY <1>1, <1>6, <3>1, <3>2 DEF NextRow, extractionStill, writerVars
  <2>2. CASE ~MustFlush
    <3>1. out' = out /\ batch' = Append(batch, Row)
      BY <1>6, <2>2 DEF NextRow
    <3>2. Small(batch')
      BY <1>6, <2>2, <3>1, SmallAppend DEF NextRow, Running
    <3> QED
      BY <1>1, <1>6, <3>1, <3>2 DEF NextRow, extractionStill, writerVars
  <2> QED
    BY <2>1, <2>2
<1>7. CASE ResultSetDrained \/ CloseRun
  BY <1>1, <1>7 DEF ResultSetDrained, CloseRun, WriteManifest, decoding, writerVars, extractionVars
<1>8. CASE Fetch
  <2> DEFINE remaining == SubSeq(feed.cells, fetched + 1, Len(feed.cells))
             cells == SubSeq(remaining, 1, IF Len(remaining) < FetchSize THEN Len(remaining) ELSE FetchSize)
  <2>1. /\ feed.cells \in Seq(Values) /\ fetched \in 0..Len(feed.cells) /\ feed.kind # "s3_json"
        /\ feed' = feed /\ parts' = parts /\ batch' = batch
    BY <1>8, FeedTypes DEF BasicInv, TypeInv, Fetch, decoding, writerVars
  <2>2. remaining \in Seq(Values)
    BY <2>1
  <2>3. cells \in Seq(Values) /\ Len(cells) <= FetchSize
    <3> HIDE DEF remaining
    <3> QED
      BY <2>2, <1>0
  <2>4. out' = DataFrame(fetched, cells)
    BY <1>8 DEF Fetch
  <2> HIDE DEF remaining, cells
  <2>5. Len(out') = Len(cells)
    BY <2>3, <2>4 DEF DataFrame
  <2> QED
    BY <2>1, <2>3, <2>5 DEF BoundInv, Small
<1>9. CASE WritePart
  <2>1. PICK type \in Types :
          /\ parts' = Append(parts, [type |-> type, rows |-> out])
          /\ [type |-> type, rows |-> out] \in PartType
    BY <1>9, PartWritten
  <2> DEFINE part == [type |-> type, rows |-> out]
  <2>2. /\ part.rows = out /\ part \in PartType /\ parts \in Seq(PartType) /\ parts' = Append(parts, part)
        /\ feed' = feed /\ out # <<>> /\ out' = <<>> /\ batch' = batch
    BY <1>9, <2>1 DEF BasicInv, TypeInv, WritePart, WriteBatch, decoding
  <2> HIDE DEF part
  <2>3. \A i \in DOMAIN parts' : parts'[i] = part \/ (i \in DOMAIN parts /\ parts'[i] = parts[i])
    BY <2>2
  <2>4. \A i \in DOMAIN parts' : parts'[i].rows # <<>> /\ Small(parts'[i].rows)
    BY <2>2, <2>3 DEF BoundInv
  <2>5. Small(out') /\ Small(batch')
    BY <1>0, <2>2 DEF BoundInv
  <2> QED
    BY <2>2, <2>4, <2>5 DEF BoundInv, Small, BytesIn
<1> QED
  BY <1>2, <1>3, <1>4, <1>5, <1>6, <1>7, <1>8, <1>9, NextCases DEF Pulls

(* Part files keep within the batch: never empty, never more rows than a    *)
(* fetch, and more bytes than a batch only where one row has them.          *)
THEOREM PartsSmall == Spec => []PartsBounded
<1>1. BasicInv /\ BoundInv => PartsBounded
  <2> SUFFICES ASSUME BasicInv, BoundInv, NEW i \in DOMAIN parts
               PROVE  /\ Len(parts[i].rows) \in 1..FetchSize
                      /\ feed.kind = "s3_json" /\ Len(parts[i].rows) > 1 =>
                           BytesIn(parts[i].rows) <= BatchBytes
    BY DEF PartsBounded
  <2>1. parts[i].rows \in Seq(RowType)
    <3>1. parts[i] \in PartType
      BY DEF BasicInv, TypeInv
    <3> QED
      BY <3>1 DEF PartType
  <2> QED
    BY <2>1, Constants DEF BoundInv, Small
<1> QED
  BY <1>1, BasicInvariant, BoundInit, BoundNext, PTL DEF Spec

-----------------------------------------------------------------------------
(* Rows in part files. *)
LEMMA PlacesAre ==
    ASSUME NEW p
    PROVE  p \in Places <=> \E i \in DOMAIN parts : \E j \in DOMAIN parts[i].rows : p = <<i, j>>
  BY DEF Places

LEMMA RowsOfFilesAre ==
    ASSUME NEW files, NEW r
    PROVE  r \in RowsOfFiles(files) <=>
             \E i \in DOMAIN files : \E j \in DOMAIN files[i].rows : r = files[i].rows[j]
<1>1. r \in RowsOfFiles(files) <=> \E i \in DOMAIN files : r \in Range(files[i].rows)
  BY DEF RowsOfFiles
<1>2. ASSUME NEW i \in DOMAIN files
      PROVE  r \in Range(files[i].rows) <=> \E j \in DOMAIN files[i].rows : r = files[i].rows[j]
  BY DEF Range
<1> QED
  BY <1>1, <1>2

LEMMA LandedAre ==
    /\ \A p \in Places : At(p) \in LandedRows
    /\ \A r \in LandedRows : \E p \in Places : r = At(p)
<1>1. ASSUME NEW p \in Places
      PROVE  At(p) \in LandedRows
  <2>1. PICK i \in DOMAIN parts : \E j \in DOMAIN parts[i].rows : p = <<i, j>>
    BY PlacesAre
  <2>2. PICK j \in DOMAIN parts[i].rows : p = <<i, j>>
    BY <2>1
  <2>3. At(p) = parts[i].rows[j]
    BY <2>2 DEF At
  <2> QED
    BY <2>3, RowsOfFilesAre DEF LandedRows
<1>2. ASSUME NEW r \in LandedRows
      PROVE  \E p \in Places : r = At(p)
  <2>1. PICK i \in DOMAIN parts : \E j \in DOMAIN parts[i].rows : r = parts[i].rows[j]
    BY RowsOfFilesAre DEF LandedRows
  <2>2. PICK j \in DOMAIN parts[i].rows : r = parts[i].rows[j]
    BY <2>1
  <2>3. <<i, j>> \in Places
    BY PlacesAre
  <2>4. At(<<i, j>>) = r
    BY <2>2 DEF At
  <2> QED
    BY <2>3, <2>4
<1> QED
  BY <1>1, <1>2

LEMMA SameParts ==
    ASSUME parts' = parts
    PROVE  LandedRows' = LandedRows /\ Places' = Places
  BY DEF LandedRows, RowsOfFiles, Places

LEMMA LandedTypes ==
    ASSUME BasicInv
    PROVE  LandedRows \subseteq RowType
<1> SUFFICES ASSUME NEW i \in DOMAIN parts, NEW j \in DOMAIN parts[i].rows
             PROVE  parts[i].rows[j] \in RowType
  BY RowsOfFilesAre DEF LandedRows
<1>1. parts[i] \in PartType
  BY DEF BasicInv, TypeInv
<1>2. parts[i].rows \in Seq(RowType)
  BY <1>1 DEF PartType
<1> QED
  BY <1>2

LEMMA PartPlaces ==
    ASSUME BasicInv, WritePart
    PROVE  /\ Len(parts) \in Nat
           /\ \A i \in DOMAIN parts : i \in DOMAIN parts' /\ i <= Len(parts) /\ i \in Nat
                                      /\ parts'[i].rows = parts[i].rows
           /\ Len(parts) + 1 \in DOMAIN parts' /\ parts'[Len(parts) + 1].rows = out
           /\ \A i \in DOMAIN parts' : i = Len(parts) + 1 \/ i \in DOMAIN parts
<1>1. PICK type \in Types :
        /\ parts' = Append(parts, [type |-> type, rows |-> out])
        /\ [type |-> type, rows |-> out] \in PartType
  BY PartWritten
<1> DEFINE part == [type |-> type, rows |-> out]
<1>2. part.rows = out /\ part \in PartType /\ parts \in Seq(PartType) /\ parts' = Append(parts, part)
  BY <1>1 DEF BasicInv, TypeInv
<1> HIDE DEF part
<1> QED
  BY <1>2

LEMMA PartLands ==
    ASSUME BasicInv, WritePart
    PROVE  LandedRows' = LandedRows \cup Range(out)
<1>1. \A r \in LandedRows : r \in LandedRows'
  BY RowsOfFilesAre, PartPlaces DEF LandedRows
<1>2. \A r \in Range(out) : r \in LandedRows'
  BY RowsOfFilesAre, PartPlaces DEF LandedRows, Range
<1>3. \A r \in LandedRows' : r \in LandedRows \cup Range(out)
  BY RowsOfFilesAre, PartPlaces DEF LandedRows, Range
<1> QED
  BY <1>1, <1>2, <1>3

-----------------------------------------------------------------------------
(* Cells.  Doubles are exact if a source has no integer beyond FloatExact.  *)
NoWideIntegers ==
    \A f \in Feeds : \A i \in DOMAIN f.cells :
        f.cells[i][1] = "number" => f.cells[i][2] <= FloatExact

LEMMA CellsInit == Init => CellsInv
<1> SUFFICES ASSUME Init, feed.kind # "s3_json" PROVE CellsInv
  BY DEF CellsInv
<1>1. LandedRows = {} /\ Range(out) = {} /\ fetched = 0 /\ pc = "extract"
  BY DEF Init, InitExtraction, InitWriter, LandedRows, RowsOfFiles, Range
<1>2. 1..fetched = {}
  BY <1>1
<1> QED
  BY <1>1, <1>2 DEF CellsInv

LEMMA NotGreater ==
    ASSUME NEW x \in Int, NEW y \in Int, x <= y
    PROVE  ~(x > y)
  OBVIOUS

(* A fetch continues where the one before ended. *)
LEMMA FetchedRows ==
    ASSUME BasicInv, Fetch, NoWideIntegers
    PROVE  /\ fetched \in Nat /\ fetched' \in Nat /\ fetched <= fetched'
           /\ \A r \in Range(out') : /\ r.id \in (fetched + 1)..fetched'
                                     /\ r.value = feed.cells[r.id]
           /\ \A k \in (fetched + 1)..fetched' : \E r \in Range(out') : r.id = k
<1> DEFINE remaining == SubSeq(feed.cells, fetched + 1, Len(feed.cells))
           n == IF Len(remaining) < FetchSize THEN Len(remaining) ELSE FetchSize
           cells == SubSeq(remaining, 1, n)
<1>1. /\ feed \in Feeds /\ feed.cells \in Seq(Values) /\ fetched \in 0..Len(feed.cells)
      /\ out' = DataFrame(fetched, cells) /\ fetched' = fetched + Len(cells)
  BY FeedTypes DEF BasicInv, TypeInv, Fetch
<1>2. /\ remaining \in Seq(Values) /\ Len(remaining) = Len(feed.cells) - fetched
      /\ \A i \in 1..Len(remaining) : remaining[i] = feed.cells[fetched + i]
  BY <1>1
<1> HIDE DEF remaining
<1>3. n \in Nat /\ n <= Len(remaining)
  BY <1>2, Constants
<1> HIDE DEF n
<1>4. /\ cells \in Seq(Values) /\ Len(cells) = n /\ DOMAIN cells = 1..n
      /\ \A i \in 1..n : cells[i] = remaining[i]
  BY <1>2, <1>3
<1> HIDE DEF cells
<1>5. ASSUME NEW i \in 1..n
      PROVE  /\ fetched + i \in DOMAIN feed.cells
             /\ cells[i] = feed.cells[fetched + i]
             /\ AsDouble(cells[i]) = cells[i]
  <2>1. fetched + i \in DOMAIN feed.cells /\ i \in 1..Len(remaining)
    BY <1>1, <1>2, <1>3
  <2>2. cells[i] = feed.cells[fetched + i]
    BY <1>2, <1>4, <2>1
  <2>3. feed.cells[fetched + i] \in Values
    BY <1>1, <2>1
  <2>4. cells[i][1] = "number" => cells[i][2] <= FloatExact
    BY <1>1, <2>1, <2>2 DEF NoWideIntegers
  <2>5. cells[i][2] \in Int
    BY <2>2, <2>3 DEF Values
  <2>6. ~(cells[i][1] = "number" /\ cells[i][2] > FloatExact)
    <3> SUFFICES ASSUME cells[i][1] = "number" PROVE ~(cells[i][2] > FloatExact)
      OBVIOUS
    <3>1. FloatExact \in Int /\ cells[i][2] <= FloatExact
      BY <2>4, FloatExactNat DEF FloatExactNat
    <3> QED
      BY <2>5, <3>1, NotGreater
  <2> QED
    BY <2>1, <2>2, <2>6 DEF AsDouble
<1>6. /\ DOMAIN out' = 1..n
      /\ \A i \in 1..n : out'[i].id = fetched + i /\ out'[i].value = cells[i]
  BY <1>1, <1>4, <1>5 DEF DataFrame
<1>7. \A i \in 1..n : fetched + i \in (fetched + 1)..fetched'
  BY <1>1, <1>3, <1>4
<1>8. ASSUME NEW k \in (fetched + 1)..fetched'
      PROVE  \E r \in Range(out') : r.id = k
  <2>1. k - fetched \in 1..n /\ fetched + (k - fetched) = k
    BY <1>1, <1>3, <1>4
  <2>2. out'[k - fetched].id = k /\ k - fetched \in DOMAIN out'
    BY <1>6, <2>1
  <2> QED
    BY <2>2 DEF Range
<1>9. ASSUME NEW r \in Range(out')
      PROVE  r.id \in (fetched + 1)..fetched' /\ r.value = feed.cells[r.id]
  <2>1. PICK i \in 1..n : r = out'[i]
    BY <1>6 DEF Range
  <2> QED
    BY <1>5, <1>6, <1>7, <2>1
<1>10. fetched \in Nat /\ fetched' \in Nat /\ fetched <= fetched'
  BY <1>1, <1>3, <1>4
<1> QED
  BY <1>8, <1>9, <1>10

LEMMA CellsNext ==
    ASSUME NoWideIntegers, BasicInv, CellsInv, [Next]_vars
    PROVE  CellsInv'
<1> USE DEF walk, pool, decoding, writerVars, extractionVars, extractionStill
<1> SUFFICES ASSUME feed'.kind # "s3_json" PROVE CellsInv'
  BY DEF CellsInv
<1>1. ASSUME feed' = feed, fetched' = fetched,
             LandedRows' \cup Range(out') = LandedRows \cup Range(out),
             pc' \in {pc, "failed"} \/ (pc' = "done" /\ pc # "failed" /\ fetched = Len(feed.cells))
      PROVE  CellsInv'
  BY <1>1 DEF CellsInv
<1>2. CASE Aside
  <2>1. parts' = parts /\ out' = out /\ feed' = feed /\ fetched' = fetched /\ pc' = pc
    BY <1>2, AsideFacts
  <2> QED
    BY <1>1, <2>1, SameParts
<1>3. CASE Aborts
  <2>1. parts' = parts /\ out' = <<>> /\ feed' = feed /\ fetched' = fetched /\ pc' = "failed"
    BY <1>3 DEF Aborts, Abort
  <2>2. Range(out') = {}
    BY <2>1 DEF Range
  <2> QED
    BY <2>1, <2>2, SameParts DEF CellsInv
<1>4. CASE /\ NextHour \/ EndPoint \/ WholeLocation \/ Submit \/ Take(Oldest) \/ NextRow
              \/ ObjectDecoded \/ Finish
           /\ extractionStill
  BY <1>4 DEF BasicInv, KindInv, NextHour, EndPoint, WholeLocation, WantsItem, Submit, Take,
     Oldest, Due, NextRow, ObjectDecoded, Finish, Running
<1>5. CASE ResultSetDrained
  <2>1. parts' = parts /\ out' = out /\ feed' = feed /\ fetched' = fetched /\ pc' = "done"
        /\ pc # "failed" /\ fetched = Len(feed.cells)
    BY <1>5 DEF ResultSetDrained, Running
  <2> QED
    BY <1>1, <2>1, SameParts
<1>6. CASE CloseRun
  <2>1. parts' = parts /\ out' = out /\ feed' = feed /\ fetched' = fetched /\ pc' = pc
    BY <1>6 DEF CloseRun, WriteManifest
  <2> QED
    BY <1>1, <2>1, SameParts
<1>7. CASE WritePart
  <2>1. out' = <<>> /\ feed' = feed /\ fetched' = fetched /\ pc' = pc
    BY <1>7 DEF WritePart
  <2>2. Range(out') = {}
    BY <2>1 DEF Range
  <2> QED
    BY <1>1, <1>7, <2>1, <2>2, PartLands
<1>8. CASE Fetch
  <2>1. feed' = feed /\ parts' = parts /\ pc' = pc /\ pc = "extract" /\ out = <<>>
    BY <1>8 DEF Fetch, Running
  <2>2. Range(out) = {} /\ LandedRows' = LandedRows
    BY <2>1, SameParts DEF Range
  <2>3. /\ \A r \in LandedRows : r.id \in 1..fetched /\ r.value = feed.cells[r.id]
        /\ \A k \in 1..fetched : \E r \in LandedRows : r.id = k
    BY <2>1, <2>2 DEF CellsInv
  <2>4. /\ \A k \in 1..fetched : k \in 1..fetched'
        /\ \A k \in (fetched + 1)..fetched' : k \in 1..fetched'
        /\ \A k \in 1..fetched' : k \in 1..fetched \/ k \in (fetched + 1)..fetched'
    BY <1>8, FetchedRows
  <2>5. \A r \in LandedRows' \cup Range(out') : r.id \in 1..fetched' /\ r.value = feed'.cells[r.id]
    BY <1>8, <2>1, <2>2, <2>3, <2>4, FetchedRows
  <2>6. \A k \in 1..fetched' : \E r \in LandedRows' \cup Range(out') : r.id = k
    BY <1>8, <2>2, <2>3, <2>4, FetchedRows
  <2> QED
    BY <2>1, <2>5, <2>6 DEF CellsInv
<1> QED
  BY <1>2, <1>3, <1>4, <1>5, <1>6, <1>7, <1>8, NextCases DEF Pulls

(* A Snowflake run lands every row of the result set with the source's own  *)
(* value, whatever the batches, as long as the source has no integer that a *)
(* double cannot hold: DataFrame() puts a batch with a NULL into doubles.   *)
THEOREM CellsLandExactly ==
    ASSUME NoWideIntegers
    PROVE  Spec => []ValuesLandExactly
<1>1. BasicInv /\ CellsInv => ValuesLandExactly
  <2> SUFFICES ASSUME BasicInv, CellsInv, feed.kind # "s3_json"
               PROVE  /\ \A p \in Places : At(p).value = feed.cells[At(p).id]
                      /\ status = "landed" => {At(p).id : p \in Places} = DOMAIN feed.cells
    BY DEF ValuesLandExactly
  <2>1. \A p \in Places : At(p).value = feed.cells[At(p).id] /\ At(p).id \in 1..fetched
    BY LandedAre DEF CellsInv
  <2>2. ASSUME status = "landed"
        PROVE  {At(p).id : p \in Places} = DOMAIN feed.cells
    <3>1. pc = "done" /\ Range(out) = {}
      BY <2>2 DEF BasicInv, EndInv, Range
    <3>2. 1..fetched = DOMAIN feed.cells
      BY <3>1, FeedTypes DEF CellsInv, BasicInv, TypeInv
    <3>3. ASSUME NEW k \in 1..fetched
          PROVE  \E p \in Places : At(p).id = k
      <4>1. PICK r \in LandedRows : r.id = k
        BY <3>1 DEF CellsInv
      <4> QED
        BY <4>1, LandedAre
    <3>4. \A p \in Places : At(p).id \in DOMAIN feed.cells
      BY <2>1, <3>2
    <3>5. \A k \in DOMAIN feed.cells : \E p \in Places : At(p).id = k
      BY <3>2, <3>3
    <3> QED
      BY <3>4, <3>5
  <2> QED
    BY <2>1, <2>2
<1>2. BasicInv /\ CellsInv /\ [Next]_vars => CellsInv'
  BY CellsNext
<1> QED
  BY <1>1, <1>2, BasicInvariant, CellsInit, PTL DEF Spec

-----------------------------------------------------------------------------
(* The walk, in timezones whose shifts it can follow. *)
OrdinaryZones == \A f \in Feeds : OrdinaryZone(f.zone)

LEMMA SameWalk ==
    ASSUME feed' = feed
    PROVE  /\ LocalPath' = LocalPath /\ Horizon' = Horizon /\ LocalHours' = LocalHours
           /\ InStep(cursor') => InStep(cursor)'
  BY DEF LocalPath, Horizon, LocalHours, InStep, Path, LocalTime, HourOf, ShiftsOf, Change

LEMMA PathsAre ==
    ASSUME feed \in Feeds, OrdinaryZones
    PROVE  /\ Instants \subseteq Int /\ Horizon \in Instants
           /\ \A t \in feed.walkFrom..Horizon : t \in Instants
           /\ \A t \in Instants : /\ LocalPath[t] = Path(t)
                                  /\ LocalPath[t] \in Int
                                  /\ WholeHour(LocalPath[t])
           /\ \A t, u \in Instants : t <= u => LocalPath[t] <= LocalPath[u]
           /\ \A h \in LocalHours : \E t \in feed.walkFrom..Horizon : h = LocalPath[t]
<1>1. OrdinaryZone(feed.zone)
  BY DEF OrdinaryZones
<1>2. Instants \subseteq Int /\ Horizon \in Instants
  BY OffsetsBounded DEF Instants
<1>3. \A t \in feed.walkFrom..Horizon : t \in Instants
  BY <1>2, FeedFacts, Constants DEF Instants
<1>4. \A t \in Instants : LocalPath[t] = Path(t)
  BY DEF LocalPath
<1>5. \A t \in Instants : LocalPath[t] \in Int /\ WholeHour(LocalPath[t])
  BY <1>4, LocalTimes
<1>6. \A t, u \in Instants : t <= u => LocalPath[t] <= LocalPath[u]
  BY <1>1, <1>4, PathMonotone
<1>7. \A h \in LocalHours : \E t \in feed.walkFrom..Horizon : h = LocalPath[t]
  BY <1>3, <1>4 DEF LocalHours
<1> QED
  BY <1>2, <1>3, <1>4, <1>5, <1>6, <1>7

(* No folder is named by the value that stands for none. *)
LEMMA NoFolderNamed ==
    ASSUME NEW m \in Int, WholeHour(m)
    PROVE  m # NoFolder
<1>1. SUFFICES ASSUME m = -1 PROVE FALSE
  BY DEF NoFolder
<1>2. WholeHour(0) /\ -1 < 0 /\ 0 \in Int /\ -1 \in Int
  BY HourType DEF WholeHour
<1>3. -1 + Hour <= 0
  BY <1>1, <1>2, WholeApart
<1> QED
  BY <1>3, HourType

LEMMA FolderAdded ==
    ASSUME listed \in Seq(Int), NEW folder \in Int, WholeHour(folder), ListFolder(folder),
           \A i, j \in DOMAIN listed : i < j => listed[i] < listed[j],
           previous = IF listed = <<>> THEN NoFolder ELSE listed[Len(listed)],
           \A i \in DOMAIN listed : WholeHour(listed[i]) /\ listed[i] <= folder
    PROVE  /\ \A i, j \in DOMAIN listed' : i < j => listed'[i] < listed'[j]
           /\ previous' = IF listed' = <<>> THEN NoFolder ELSE listed'[Len(listed')]
           /\ \A i \in DOMAIN listed' : WholeHour(listed'[i])
           /\ Range(listed') = Range(listed) \cup {folder}
<1>1. CASE Repeats(folder)
  <2>1. listed' = listed /\ previous' = folder /\ previous = folder
    BY <1>1 DEF ListFolder, Repeats
  <2>2. listed # <<>>
    BY <2>1, NoFolderNamed
  <2>3. folder \in Range(listed)
    <3>1. folder = listed[Len(listed)] /\ Len(listed) \in DOMAIN listed
      BY <2>1, <2>2
    <3> QED
      BY <3>1 DEF Range
  <2> QED
    BY <2>1, <2>3
<1>2. CASE ~Repeats(folder)
  <2>1. listed' = Append(listed, folder) /\ previous' = folder /\ previous # folder
    BY <1>2 DEF ListFolder, Repeats
  <2>2. /\ Len(listed) \in Nat /\ DOMAIN listed = 1..Len(listed)
        /\ DOMAIN listed' = 1..(Len(listed) + 1) /\ Len(listed') = Len(listed) + 1
        /\ listed'[Len(listed) + 1] = folder
        /\ \A i \in DOMAIN listed : listed'[i] = listed[i]
    BY <2>1
  <2>3. ASSUME NEW i \in DOMAIN listed
        PROVE  listed[i] < folder
    <3>1. /\ Len(listed) \in DOMAIN listed /\ listed[Len(listed)] # folder
          /\ listed[i] \in Int /\ listed[Len(listed)] \in Int
      BY <2>1, <2>2
    <3>2. listed[Len(listed)] < folder
      BY <3>1
    <3>3. i = Len(listed) \/ i < Len(listed)
      BY <2>2
    <3>4. i = Len(listed) \/ listed[i] < listed[Len(listed)]
      BY <3>1, <3>3
    <3> QED
      BY <3>1, <3>2, <3>4
  <2>4. ASSUME NEW i \in DOMAIN listed', NEW j \in DOMAIN listed', i < j
        PROVE  listed'[i] < listed'[j]
    <3>1. i \in DOMAIN listed
      BY <2>2, <2>4
    <3>2. CASE j = Len(listed) + 1
      BY <2>2, <2>3, <3>1, <3>2
    <3>3. CASE j # Len(listed) + 1
      <4>1. j \in DOMAIN listed
        BY <2>2, <3>3
      <4> QED
        BY <2>2, <2>4, <3>1, <4>1
    <3> QED
      BY <3>2, <3>3
  <2>5. \A i \in DOMAIN listed' : i = Len(listed) + 1 \/ i \in DOMAIN listed
    BY <2>2
  <2>6. \A i \in DOMAIN listed' : WholeHour(listed'[i])
    BY <2>2, <2>5
  <2>7. Range(listed') = Range(listed) \cup {folder}
    <3>1. \A x \in Range(listed') : x \in Range(listed) \cup {folder}
      BY <2>2, <2>5 DEF Range
    <3>2. \A x \in Range(listed) : x \in Range(listed')
      BY <2>2 DEF Range
    <3>3. folder \in Range(listed')
      BY <2>2 DEF Range
    <3> QED
      BY <3>1, <3>2, <3>3
  <2>8. previous' = IF listed' = <<>> THEN NoFolder ELSE listed'[Len(listed')]
    BY <2>1, <2>2
  <2> QED
    BY <2>4, <2>6, <2>7, <2>8
<1> QED
  BY <1>1, <1>2

LEMMA WalkInit ==
    ASSUME OrdinaryZones, Init
    PROVE  WalkInv
<1>0. feed.kind = "s3_json" /\ phase = "hours" => feed.low <= feed.high /\ previous = NoFolder
  BY DEF Init, InitExtraction
<1> SUFFICES ASSUME feed.kind = "s3_json", feed.discovery = "time_partitioned" PROVE WalkInv
  BY <1>0 DEF WalkInv
<1>1. feed \in Feeds /\ OrdinaryZone(feed.zone)
  BY DEF Init, InitExtraction, OrdinaryZones
<1>2. listed = <<>> /\ previous = NoFolder /\ cursor = FirstCursor(feed.walkFrom)
      /\ phase = IF feed.low <= feed.high THEN "hours" ELSE "over"
  BY DEF Init, InitExtraction
<1>3. cursor \in Instants /\ Path(cursor) = Path(feed.walkFrom) /\ InStep(cursor)
  BY <1>1, <1>2, FirstCursorCovers
<1>4. ASSUME NEW t \in feed.walkFrom..Horizon, t <= cursor
      PROVE  LocalPath[t] = LocalPath[cursor]
  <2>1. feed.walkFrom \in Instants /\ feed.walkFrom <= t /\ t \in Instants
    BY <1>1, FeedFacts, PathsAre, Constants DEF Instants
  <2>2. LocalPath[feed.walkFrom] <= LocalPath[t] /\ LocalPath[t] <= LocalPath[cursor]
    BY <1>1, <1>3, <1>4, <2>1, PathsAre
  <2>3. LocalPath[feed.walkFrom] = LocalPath[cursor]
    BY <1>1, <1>3, <2>1, PathsAre
  <2>4. LocalPath[t] \in Int /\ LocalPath[cursor] \in Int
    BY <1>1, <1>3, <2>1, PathsAre
  <2> QED
    BY <2>2, <2>3, <2>4
<1> QED
  BY <1>0, <1>2, <1>3, <1>4 DEF WalkInv

LEMMA WalkOn ==
    ASSUME OrdinaryZones, BasicInv, WalkInv, NextHour
    PROVE  WalkInv'
<1>1. /\ feed' = feed /\ feed \in Feeds /\ OrdinaryZone(feed.zone)
      /\ feed.kind = "s3_json" /\ feed.discovery = "time_partitioned"
      /\ phase = "hours" /\ phase' = "hours" /\ listed \in Seq(Int)
      /\ cursor <= Horizon /\ cursor' = cursor + Hour /\ ListFolder(Path(cursor))
  BY DEF BasicInv, TypeInv, KindInv, OrdinaryZones, NextHour, WantsItem, Running
<1>2. cursor \in Instants /\ InStep(cursor) /\ feed.low <= feed.high
  BY <1>1 DEF WalkInv
<1>3. cursor' \in Instants /\ cursor <= cursor'
  <2>1. /\ LastInstant \in Nat /\ Horizon \in Int /\ Hour \in Nat
        /\ Horizon + Hour \in 0..LastInstant
    BY <1>1, FeedFacts, HourType DEF Instants
  <2>2. cursor \in 0..LastInstant
    BY <1>2 DEF Instants
  <2> QED
    BY <1>1, <2>1, <2>2 DEF Instants
<1>4. InStep(cursor') /\ \A t \in cursor..cursor' : Path(t) \in {Path(cursor), Path(cursor')}
  BY <1>1, <1>2, <1>3, StepCovers
<1>5. LocalPath[cursor] = Path(cursor) /\ LocalPath[cursor] \in Int /\ WholeHour(LocalPath[cursor])
  BY <1>1, <1>2, PathsAre
<1>6. \A i \in DOMAIN listed : WholeHour(listed[i]) /\ listed[i] <= LocalPath[cursor]
  BY <1>1 DEF WalkInv
<1>7. /\ \A i, j \in DOMAIN listed' : i < j => listed'[i] < listed'[j]
      /\ previous' = IF listed' = <<>> THEN NoFolder ELSE listed'[Len(listed')]
      /\ \A i \in DOMAIN listed' : WholeHour(listed'[i])
      /\ Range(listed') = Range(listed) \cup {LocalPath[cursor]}
  BY <1>1, <1>5, <1>6, FolderAdded DEF WalkInv
<1>8. LocalPath[cursor] <= LocalPath[cursor'] /\ LocalPath[cursor] <= LocalPath[Horizon]
  BY <1>1, <1>2, <1>3, PathsAre
<1>9. LocalPath[cursor'] \in Int /\ LocalPath[Horizon] \in Int
  BY <1>1, <1>3, PathsAre
<1>10. ASSUME NEW i \in DOMAIN listed'
       PROVE  listed'[i] <= LocalPath[cursor'] /\ listed'[i] <= LocalPath[Horizon]
  <2>1. listed'[i] \in Range(listed) \cup {LocalPath[cursor]}
    BY <1>7 DEF Range
  <2>2. CASE listed'[i] = LocalPath[cursor]
    BY <1>8, <2>2
  <2>3. CASE listed'[i] \in Range(listed)
    <3>1. PICK j \in DOMAIN listed : listed'[i] = listed[j]
      BY <2>3 DEF Range
    <3>2. listed[j] <= LocalPath[cursor] /\ listed[j] <= LocalPath[Horizon] /\ listed[j] \in Int
      BY <1>1 DEF WalkInv
    <3> QED
      BY <1>5, <1>8, <1>9, <3>1, <3>2
  <2> QED
    BY <2>1, <2>2, <2>3
<1>11. ASSUME NEW t \in feed.walkFrom..Horizon, t <= cursor'
       PROVE  LocalPath[t] \in Range(listed') \cup {LocalPath[cursor']}
  <2>0. t \in Instants /\ t \in Int /\ cursor \in Int /\ cursor' \in Int
    BY <1>1, <1>2, <1>3, PathsAre
  <2>1. CASE t <= cursor
    <3>1. LocalPath[t] \in Range(listed) \cup {LocalPath[cursor]}
      BY <1>1, <2>1 DEF WalkInv
    <3> QED
      BY <1>7, <3>1
  <2>2. CASE ~(t <= cursor)
    <3>1. t \in cursor..cursor'
      BY <1>11, <2>0, <2>2
    <3>2. LocalPath[t] \in {LocalPath[cursor], LocalPath[cursor']}
      BY <1>1, <1>2, <1>3, <1>4, <2>0, <3>1, PathsAre
    <3> QED
      BY <1>7, <3>2
  <2> QED
    BY <2>1, <2>2
<1> QED
  BY <1>1, <1>2, <1>3, <1>4, <1>7, <1>10, <1>11, SameWalk DEF WalkInv

LEMMA WalkEnds ==
    ASSUME OrdinaryZones, BasicInv, WalkInv, EndPoint
    PROVE  WalkInv'
<1>1. /\ feed' = feed /\ feed \in Feeds
      /\ feed.kind = "s3_json" /\ feed.discovery = "time_partitioned"
      /\ phase = "hours" /\ phase' = "over" /\ listed \in Seq(Int)
      /\ cursor > Horizon /\ ListFolder(Path(Horizon))
  BY DEF BasicInv, TypeInv, KindInv, EndPoint, EndpointFolder, WantsItem, Running
<1>2. cursor \in Instants /\ feed.low <= feed.high
  BY <1>1 DEF WalkInv
<1>3. Horizon \in Instants /\ Horizon <= cursor
  BY <1>1, <1>2, PathsAre
<1>4. LocalPath[Horizon] = Path(Horizon) /\ LocalPath[Horizon] \in Int /\ WholeHour(LocalPath[Horizon])
  BY <1>1, <1>3, PathsAre
<1>5. \A i \in DOMAIN listed : WholeHour(listed[i]) /\ listed[i] <= LocalPath[Horizon]
  BY <1>1 DEF WalkInv
<1>6. /\ \A i, j \in DOMAIN listed' : i < j => listed'[i] < listed'[j]
      /\ previous' = IF listed' = <<>> THEN NoFolder ELSE listed'[Len(listed')]
      /\ \A i \in DOMAIN listed' : WholeHour(listed'[i])
      /\ Range(listed') = Range(listed) \cup {LocalPath[Horizon]}
  BY <1>1, <1>4, <1>5, FolderAdded DEF WalkInv
<1>7. ASSUME NEW t \in feed.walkFrom..Horizon
      PROVE  LocalPath[t] \in Range(listed')
  <2>1. t \in Instants /\ t <= Horizon /\ t <= cursor
    BY <1>1, <1>2, <1>3, PathsAre
  <2>2. LocalPath[t] \in Range(listed) \cup {LocalPath[cursor]}
    BY <1>1, <2>1 DEF WalkInv
  <2>3. CASE LocalPath[t] = LocalPath[cursor]
    <3>1. LocalPath[t] <= LocalPath[Horizon] /\ LocalPath[Horizon] <= LocalPath[cursor]
      BY <1>1, <1>2, <1>3, <2>1, PathsAre
    <3>2. LocalPath[t] \in Int /\ LocalPath[Horizon] \in Int
      BY <1>1, <1>4, <2>1, PathsAre
    <3>3. LocalPath[t] = LocalPath[Horizon]
      BY <2>3, <3>1, <3>2
    <3> QED
      BY <1>6, <3>3
  <2> QED
    BY <1>6, <2>2, <2>3
<1>8. LocalHours \subseteq Range(listed')
  BY <1>1, <1>7, PathsAre
<1> QED
  BY <1>1, <1>6, <1>8, SameWalk DEF WalkInv

LEMMA WalkNext ==
    ASSUME OrdinaryZones, BasicInv, WalkInv, [Next]_vars
    PROVE  WalkInv'
<1>1. ASSUME feed' = feed, walk' = walk
      PROVE  WalkInv'
  BY <1>1, SameWalk DEF walk, WalkInv
<1>2. CASE Aside
  BY <1>1, <1>2, AsideFacts
<1>3. CASE Aborts
  BY <1>1, <1>3 DEF Aborts, Abort, walk
<1>4. CASE WholeLocation
  BY <1>4 DEF WholeLocation, WalkInv
<1>5. CASE Submit \/ Take(Oldest) \/ NextRow \/ ObjectDecoded \/ Finish
  BY <1>1, <1>5 DEF Submit, Take, NextRow, ObjectDecoded, Finish
<1>6. CASE Fetch \/ ResultSetDrained \/ WritePart \/ CloseRun
  BY <1>1, <1>6 DEF Fetch, ResultSetDrained, WritePart, CloseRun, extractionVars
<1> QED
  BY <1>2, <1>3, <1>4, <1>5, <1>6, WalkOn, WalkEnds, NextCases DEF Pulls

(* In every timezone whose shifts are of full hours and hours apart, or     *)
(* that has one shift only, a walk that is over has listed each hour of the *)
(* wall clock in its window, and none twice.                                *)
THEOREM HoursWalked ==
    ASSUME OrdinaryZones
    PROVE  Spec => []HoursListedOnce
<1>1. BasicInv /\ WalkInv => HoursListedOnce
  <2> SUFFICES ASSUME BasicInv, WalkInv, feed.kind = "s3_json", feed.discovery = "time_partitioned"
               PROVE  /\ \A i, j \in DOMAIN listed : listed[i] = listed[j] => i = j
                      /\ pc = "done" /\ feed.low <= feed.high =>
                           LocalHours \subseteq {listed[i] : i \in DOMAIN listed}
    BY DEF HoursListedOnce
  <2>1. ASSUME NEW i \in DOMAIN listed, NEW j \in DOMAIN listed, listed[i] = listed[j], i # j
        PROVE  FALSE
    <3>1. i \in Int /\ j \in Int /\ listed[i] \in Int /\ listed[j] \in Int
      BY DEF BasicInv, TypeInv
    <3>2. i < j \/ j < i
      BY <2>1, <3>1
    <3>3. listed[i] < listed[j] \/ listed[j] < listed[i]
      BY <3>2 DEF WalkInv
    <3> QED
      BY <2>1, <3>1, <3>3
  <2>2. ASSUME pc = "done", feed.low <= feed.high
        PROVE  LocalHours \subseteq {listed[i] : i \in DOMAIN listed}
    <3>1. phase = "over"
      BY <2>2 DEF BasicInv, EndInv
    <3> QED
      BY <2>2, <3>1 DEF WalkInv, Range
  <2> QED
    BY <2>1, <2>2
<1>2. Init => WalkInv
  BY WalkInit
<1>3. BasicInv /\ WalkInv /\ [Next]_vars => WalkInv'
  BY WalkNext
<1> QED
  BY <1>1, <1>2, <1>3, BasicInvariant, PTL DEF Spec

-----------------------------------------------------------------------------
(* The order of rows. *)
LEMMA SameFolders ==
    ASSUME feed' = feed
    PROVE  /\ FolderOf' = FolderOf /\ RecordsOf' = RecordsOf /\ Accepted' = Accepted
           /\ version' = version => Windowed' = Windowed
           /\ listed' = listed /\ phase' = phase => Reached' = Reached
  BY DEF FolderOf, RecordsOf, Accepted, WellFormed, Windowed, InWindow, Reached, Keys

LEMMA SameSeen ==
    ASSUME parts' = parts, out' = out, batch' = batch
    PROVE  Seen' = Seen /\ SeenKeys' = SeenKeys /\ (feed' = feed /\ RowsOrder => RowsOrder')
  BY SameParts, SameFolders DEF Seen, SeenKeys, RowsOrder

LEMMA SeenTypes ==
    ASSUME BasicInv, feed.kind = "s3_json"
    PROVE  /\ Seen \subseteq RowType
           /\ \A r \in Seen : r.id.key \in Keys /\ r.id.ordinal \in Nat \ {0}
<1>1. Range(out) \subseteq RowType /\ Range(batch) \subseteq RowType
  BY DEF BasicInv, TypeInv, Range
<1>2. Seen \subseteq RowType
  BY <1>1, LandedTypes DEF Seen
<1>3. \A r \in RowType : r.id \in Ids
  BY DEF RowType, RowIds
<1> QED
  BY <1>2, <1>3 DEF Ids

LEMMA FolderTypes ==
    ASSUME BasicInv
    PROVE  \A o \in Keys : FolderOf[o] \in Int /\ o \in Int
  BY FeedTypes, KeysFacts DEF BasicInv, TypeInv, FolderOf

(* A step of the walk lists a folder after all those listed before, or      *)
(* finds that it was the last one listed.                                   *)
LEMMA FolderStep ==
    ASSUME OrdinaryZones, BasicInv, WalkInv, NextHour \/ EndPoint \/ WholeLocation
    PROVE  /\ feed' = feed /\ feed \in Feeds /\ feed.kind = "s3_json" /\ page = <<>>
           /\ pending' = pending /\ pc = "extract" /\ pc' = pc /\ version' = version
           /\ out' = out /\ batch' = batch /\ current' = current
           /\ \/ page' = page /\ Reached' = Reached
              \/ \E folder : /\ page' = Listing(folder)
                             /\ Reached \subseteq Reached'
                             /\ Found(folder) \subseteq Reached'
                             /\ \A o \in Found(folder), p \in Found(folder) : FolderOf[o] = FolderOf[p]
                             /\ \A o \in Found(folder), p \in Reached : FolderOf[p] < FolderOf[o]
                             /\ \A o \in Reached' : o \in Reached \/ InFolder(o, folder)
<1>1. /\ feed' = feed /\ feed \in Feeds /\ feed.kind = "s3_json" /\ page = <<>>
      /\ pending' = pending /\ pc = "extract" /\ pc' = pc /\ version' = version
      /\ out' = out /\ batch' = batch /\ current' = current /\ phase = "hours"
      /\ listed \in Seq(Int)
  BY DEF BasicInv, TypeInv, KindInv, NextHour, EndPoint, WholeLocation, WantsItem, Running, decoding
<1>2. Keys' = Keys
  BY <1>1 DEF Keys
<1>3. CASE WholeLocation
  <2>1. /\ feed.discovery = "full_prefix" /\ phase' = "over" /\ ListFolder(0)
        /\ feed.low <= feed.high /\ previous = NoFolder
    BY <1>1, <1>3 DEF WholeLocation, WalkInv
  <2>2. page' = Listing(0)
    BY <2>1 DEF ListFolder, Repeats, NoFolder
  <2>3. Reached = {} /\ Reached' = Keys
    BY <1>1, <1>2, <2>1 DEF Reached
  <2>4. Found(0) \subseteq Keys /\ \A o \in Keys : FolderOf[o] = 0 /\ InFolder(o, 0)
    BY <2>1 DEF Found, FolderOf, InFolder
  <2> QED
    BY <1>1, <2>2, <2>3, <2>4
<1>4. CASE NextHour \/ EndPoint
  <2>1. feed.discovery = "time_partitioned"
    BY <1>4 DEF NextHour, EndPoint
  <2>2. /\ cursor \in Instants /\ Horizon \in Instants
        /\ LocalPath[cursor] = Path(cursor) /\ LocalPath[Horizon] = Path(Horizon)
    BY <1>1, <2>1, PathsAre DEF WalkInv
  <2>3. PICK folder \in Int : /\ ListFolder(folder) /\ WholeHour(folder)
                              /\ \A i \in DOMAIN listed : listed[i] <= folder
    <3>1. CASE NextHour
      <4>1. ListFolder(Path(cursor))
        BY <3>1 DEF NextHour
      <4>2. Path(cursor) \in Int /\ WholeHour(Path(cursor))
        BY <1>1, <2>2, LocalTimes
      <4>3. \A i \in DOMAIN listed : listed[i] <= Path(cursor)
        BY <1>1, <2>1, <2>2 DEF WalkInv
      <4> QED
        BY <4>1, <4>2, <4>3
    <3>2. CASE EndPoint
      <4>1. ListFolder(Path(Horizon))
        BY <3>2 DEF EndPoint, EndpointFolder
      <4>2. Path(Horizon) \in Int /\ WholeHour(Path(Horizon))
        BY <1>1, <2>2, LocalTimes
      <4>3. \A i \in DOMAIN listed : listed[i] <= Path(Horizon)
        BY <1>1, <2>1, <2>2 DEF WalkInv
      <4> QED
        BY <4>1, <4>2, <4>3
    <3> QED
      BY <1>4, <3>1, <3>2
  <2>4. CASE Repeats(folder)
    <3>1. page' = page /\ listed' = listed
      BY <2>3, <2>4 DEF ListFolder
    <3>2. Reached' = Reached
      BY <1>1, <1>2, <2>1, <3>1 DEF Reached
    <3> QED
      BY <1>1, <3>1, <3>2
  <2>5. CASE ~Repeats(folder)
    <3>1. page' = Listing(folder) /\ listed' = Append(listed, folder)
      BY <2>3, <2>5 DEF ListFolder
    <3>2. /\ \A i, j \in DOMAIN listed' : i < j => listed'[i] < listed'[j]
          /\ Range(listed') = Range(listed) \cup {folder}
      BY <1>1, <2>1, <2>3, FolderAdded DEF WalkInv
    <3>3. \A i \in DOMAIN listed : listed[i] < folder
      <4>1. /\ Len(listed) + 1 \in DOMAIN listed' /\ listed'[Len(listed) + 1] = folder
            /\ \A i \in DOMAIN listed : /\ i \in DOMAIN listed' /\ listed'[i] = listed[i]
                                        /\ i < Len(listed) + 1
        BY <1>1, <3>1
      <4> QED
        BY <3>2, <4>1
    <3>4. \A h \in Range(listed) : h < folder
      BY <3>3 DEF Range
    <3>5. /\ \A o \in Reached : o \in Keys /\ FolderOf[o] \in Range(listed)
          /\ \A o \in Keys : o \in Reached' <=> o \in Reached \/ feed.objects[o].folder = folder
      BY <1>1, <1>2, <2>1, <3>2 DEF Reached, FolderOf
    <3>6. \A o \in Found(folder) : o \in Keys /\ feed.objects[o].folder = folder /\ FolderOf[o] = folder
      BY <2>1 DEF Found, InFolder, FolderOf
    <3>7. Reached' \subseteq Keys
      BY <1>2 DEF Reached
    <3>8. \A o \in Reached' : o \in Reached \/ InFolder(o, folder)
      BY <3>5, <3>7 DEF InFolder
    <3> QED
      BY <1>1, <3>1, <3>4, <3>5, <3>6, <3>8
  <2> QED
    BY <2>4, <2>5
<1> QED
  BY <1>3, <1>4

LEMMA OrderInit == Init => OrderInv
<1> SUFFICES ASSUME Init PROVE OrderInv
  OBVIOUS
<1>1. /\ parts = <<>> /\ out = <<>> /\ batch = <<>> /\ page = <<>> /\ pending = <<>>
      /\ pc = "extract"
  BY DEF Init, InitExtraction, InitWriter
<1>2. Seen = {} /\ LandedRows = {} /\ Range(out) = {} /\ Range(batch) = {}
  BY <1>1 DEF Seen, LandedRows, RowsOfFiles, Range
<1>3. KeysIn(page) = {} /\ KeysIn(pending) = {} /\ Ahead = {} /\ SeenKeys = {}
  BY <1>1, <1>2 DEF KeysIn, Ahead, SeenKeys
<1>4. RowsOrder
  BY <1>1, <1>2 DEF RowsOrder, FilesSorted, Sorted, AllLess
<1>5. ReadsOrder
  BY <1>1, <1>3 DEF ReadsOrder, Ascends, KeysLess
<1>6. SeenOrder /\ CurrentOrder
  BY <1>1, <1>3 DEF SeenOrder, CurrentOrder, KeysLess
<1> QED
  BY <1>4, <1>5, <1>6 DEF OrderInv

LEMMA OrderFolder ==
    ASSUME OrdinaryZones, BasicInv, WalkInv, OrderInv, extractionStill,
           NextHour \/ EndPoint \/ WholeLocation
    PROVE  OrderInv'
<1>1. /\ feed' = feed /\ feed \in Feeds /\ feed.kind = "s3_json" /\ page = <<>>
      /\ pending' = pending /\ pc' # "decode" /\ parts' = parts
      /\ out' = out /\ batch' = batch
  BY FolderStep DEF extractionStill, writerVars
<1>2. RowsOrder /\ ReadsOrder /\ SeenOrder
  BY <1>1 DEF OrderInv
<1>3. RowsOrder' /\ CurrentOrder' /\ SeenKeys' = SeenKeys /\ FolderOf' = FolderOf
  BY <1>1, <1>2, SameSeen, SameFolders DEF CurrentOrder
<1>4. CASE page' = page /\ Reached' = Reached
  BY <1>1, <1>2, <1>3, <1>4 DEF OrderInv, ReadsOrder, SeenOrder, Ahead
<1>5. ASSUME NEW folder, page' = Listing(folder),
             Reached \subseteq Reached', Found(folder) \subseteq Reached',
             \A o \in Found(folder), p \in Found(folder) : FolderOf[o] = FolderOf[p],
             \A o \in Found(folder), p \in Reached : FolderOf[p] < FolderOf[o]
      PROVE  OrderInv'
  <2>1. /\ page' \in Seq(Items)
        /\ \A i \in 1..Len(page') : page'[i].key \in Found(folder)
        /\ \A i, j \in 1..Len(page') : i < j => page'[i].key < page'[j].key
    BY <1>1, <1>5, ListingFacts DEF BasicInv, TypeInv
  <2>2. DOMAIN page' = 1..Len(page')
    BY <2>1
  <2>3. KeysIn(page') \subseteq Found(folder)
    BY <2>1, <2>2 DEF KeysIn
  <2>4. Ascends(FolderOf, page')
    BY <1>5, <2>1, <2>2 DEF Ascends, ObjectLess
  <2>5. KeysIn(page) = {} /\ Ahead = KeysIn(pending) /\ Ahead' = KeysIn(page') \cup KeysIn(pending)
    BY <1>1 DEF KeysIn, Ahead
  <2>6. SeenKeys \cup KeysIn(pending) \subseteq Reached
    BY <1>2, <2>5 DEF SeenOrder
  <2>7. KeysLess(FolderOf, Reached, KeysIn(page'))
    BY <1>5, <2>3 DEF KeysLess, ObjectLess
  <2>8. KeysLess(FolderOf, KeysIn(pending), KeysIn(page'))
    BY <2>6, <2>7 DEF KeysLess
  <2>9. ReadsOrder'
    BY <1>1, <1>2, <1>3, <2>4, <2>8 DEF ReadsOrder
  <2>10. KeysLess(FolderOf, SeenKeys, Ahead')
    BY <1>2, <2>5, <2>6, <2>7 DEF KeysLess, SeenOrder
  <2>11. SeenKeys \cup Ahead' \subseteq Reached'
    BY <1>5, <2>3, <2>5, <2>6
  <2>12. SeenOrder'
    BY <1>3, <2>10, <2>11 DEF SeenOrder
  <2> QED
    BY <1>3, <2>9, <2>12 DEF OrderInv
<1> QED
  BY <1>4, <1>5, FolderStep

(* Taking the first item of a queue. *)
LEMMA QueueHead ==
    ASSUME NEW S, NEW s \in Seq(S), s # <<>>, NEW folder, Ascends(folder, s)
    PROVE  /\ Head(s) \in S /\ Head(s) = s[1] /\ s[1].key \in KeysIn(s)
           /\ Ascends(folder, Tail(s))
           /\ KeysIn(s) = {s[1].key} \cup KeysIn(Tail(s))
           /\ KeysLess(folder, {s[1].key}, KeysIn(Tail(s)))
<1>1. /\ Head(s) \in S /\ Head(s) = s[1] /\ 1 \in DOMAIN s /\ Tail(s) \in Seq(S)
      /\ \A i \in DOMAIN Tail(s) : i + 1 \in DOMAIN s /\ Tail(s)[i] = s[i + 1] /\ 1 < i + 1
      /\ \A i \in DOMAIN s : i = 1 \/ (i - 1 \in DOMAIN Tail(s) /\ Tail(s)[i - 1] = s[i])
      /\ \A i, j \in DOMAIN Tail(s) : i < j => i + 1 < j + 1
  OBVIOUS
<1>2. Ascends(folder, Tail(s))
  BY <1>1 DEF Ascends
<1>3. KeysIn(s) = {s[1].key} \cup KeysIn(Tail(s))
  <2>1. ASSUME NEW i \in DOMAIN s
        PROVE  s[i].key \in {s[1].key} \cup KeysIn(Tail(s))
    <3>1. CASE i = 1
      BY <3>1
    <3>2. CASE i - 1 \in DOMAIN Tail(s) /\ Tail(s)[i - 1] = s[i]
      BY <3>2 DEF KeysIn
    <3> QED
      BY <1>1, <3>1, <3>2
  <2>2. \A o \in KeysIn(Tail(s)) : o \in KeysIn(s)
    BY <1>1 DEF KeysIn
  <2>3. s[1].key \in KeysIn(s)
    BY <1>1 DEF KeysIn
  <2>4. \A o \in KeysIn(s) : o \in {s[1].key} \cup KeysIn(Tail(s))
    BY <2>1 DEF KeysIn
  <2> QED
    BY <2>2, <2>3, <2>4
<1>4. KeysLess(folder, {s[1].key}, KeysIn(Tail(s)))
  BY <1>1 DEF KeysLess, KeysIn, Ascends
<1> QED
  BY <1>1, <1>2, <1>3, <1>4

LEMMA OrderSubmit ==
    ASSUME BasicInv, OrderInv, extractionStill, Submit
    PROVE  OrderInv' /\ Ahead' = Ahead
<1>1. /\ feed' = feed /\ feed.kind = "s3_json" /\ page \in Seq(Items) /\ pending \in Seq(Items)
      /\ page # <<>> /\ pending' = Append(pending, Head(page)) /\ page' = Tail(page)
      /\ pc' = pc /\ pc = "extract" /\ parts' = parts /\ out' = out /\ batch' = batch
      /\ listed' = listed /\ phase' = phase
  BY DEF BasicInv, TypeInv, KindInv, Submit, Running, extractionStill, writerVars, walk, decoding
<1>2. RowsOrder /\ ReadsOrder /\ SeenOrder
  BY <1>1 DEF OrderInv
<1>3. RowsOrder' /\ CurrentOrder' /\ SeenKeys' = SeenKeys /\ FolderOf' = FolderOf /\ Reached' = Reached
  BY <1>1, <1>2, SameSeen, SameFolders DEF CurrentOrder
<1>4. /\ Head(page) = page[1] /\ Ascends(FolderOf, page')
      /\ KeysIn(page) = {page[1].key} \cup KeysIn(page')
      /\ KeysLess(FolderOf, {page[1].key}, KeysIn(page'))
  BY <1>1, <1>2, QueueHead DEF ReadsOrder
<1>5. /\ DOMAIN pending' = 1..(Len(pending) + 1) /\ Len(pending) \in Nat
      /\ DOMAIN pending = 1..Len(pending)
      /\ pending'[Len(pending) + 1] = page[1]
      /\ \A i \in DOMAIN pending : pending'[i] = pending[i]
  BY <1>1, <1>4
<1>6. KeysIn(pending') = KeysIn(pending) \cup {page[1].key}
  <2>1. \A i \in DOMAIN pending' : i = Len(pending) + 1 \/ i \in DOMAIN pending
    BY <1>5
  <2>2. \A o \in KeysIn(pending') : o \in KeysIn(pending) \cup {page[1].key}
    BY <1>5, <2>1 DEF KeysIn
  <2>3. \A o \in KeysIn(pending) : o \in KeysIn(pending')
    BY <1>5 DEF KeysIn
  <2>4. page[1].key \in KeysIn(pending')
    BY <1>5 DEF KeysIn
  <2> QED
    BY <2>2, <2>3, <2>4
<1>7. Ahead' = Ahead
  BY <1>4, <1>6 DEF Ahead
<1>8. KeysLess(FolderOf, KeysIn(pending), KeysIn(page))
  BY <1>2 DEF ReadsOrder
<1>9. KeysLess(FolderOf, KeysIn(pending'), KeysIn(page'))
  BY <1>4, <1>6, <1>8 DEF KeysLess
<1>10. Ascends(FolderOf, pending')
  <2> SUFFICES ASSUME NEW i \in DOMAIN pending', NEW j \in DOMAIN pending', i < j
               PROVE  ObjectLess(FolderOf, pending'[i].key, pending'[j].key)
    BY DEF Ascends
  <2>1. i \in DOMAIN pending
    BY <1>5
  <2>2. CASE j = Len(pending) + 1
    <3>1. pending[i].key \in KeysIn(pending) /\ page[1].key \in KeysIn(page)
      BY <1>4, <2>1 DEF KeysIn
    <3> QED
      BY <1>5, <1>8, <2>1, <2>2, <3>1 DEF KeysLess
  <2>3. CASE j # Len(pending) + 1
    <3>1. j \in DOMAIN pending
      BY <1>5, <2>3
    <3> QED
      BY <1>2, <1>5, <2>1, <3>1 DEF ReadsOrder, Ascends
  <2> QED
    BY <2>2, <2>3
<1>11. ReadsOrder'
  BY <1>3, <1>4, <1>9, <1>10 DEF ReadsOrder
<1>12. SeenOrder'
  BY <1>2, <1>3, <1>7 DEF SeenOrder
<1> QED
  BY <1>3, <1>7, <1>11, <1>12 DEF OrderInv

LEMMA OrderTake ==
    ASSUME BasicInv, OrderInv, extractionStill, Take(Oldest)
    PROVE  OrderInv'
<1>1. /\ feed' = feed /\ pending \in Seq(Items)
      /\ pending # <<>> /\ pending' = Tail(pending) /\ page' = page
      /\ current'.key = pending[1].key
      /\ parts' = parts /\ out' = out /\ batch' = batch
      /\ listed' = listed /\ phase' = phase
  BY BasicTake DEF BasicInv, TypeInv, Take, extractionStill, writerVars, walk
<1>0. feed.kind = "s3_json"
  BY <1>1 DEF BasicInv, KindInv
<1>2. RowsOrder /\ ReadsOrder /\ SeenOrder
  BY <1>0 DEF OrderInv
<1>3. /\ RowsOrder' /\ SeenKeys' = SeenKeys /\ Seen' = Seen /\ FolderOf' = FolderOf
      /\ Reached' = Reached
  BY <1>1, <1>2, SameSeen, SameFolders
<1>4. /\ Ascends(FolderOf, pending') /\ pending[1].key \in KeysIn(pending)
      /\ KeysIn(pending) = {pending[1].key} \cup KeysIn(pending')
      /\ KeysLess(FolderOf, {pending[1].key}, KeysIn(pending'))
  BY <1>1, <1>2, QueueHead DEF ReadsOrder
<1>5. KeysLess(FolderOf, KeysIn(pending), KeysIn(page))
  BY <1>2 DEF ReadsOrder
<1>6. ReadsOrder'
  BY <1>1, <1>2, <1>3, <1>4, <1>5 DEF ReadsOrder, KeysLess
<1>7. Ahead' \subseteq Ahead /\ pending[1].key \in Ahead
  BY <1>1, <1>4 DEF Ahead
<1>8. SeenOrder'
  BY <1>2, <1>3, <1>7 DEF SeenOrder, KeysLess
<1>9. CurrentOrder'
  <2>1. pending[1].key \in Reached
    BY <1>2, <1>7 DEF SeenOrder
  <2>2. \A r \in Seen : ObjectLess(FolderOf, r.id.key, pending[1].key)
    BY <1>2, <1>7 DEF SeenOrder, KeysLess, SeenKeys
  <2>3. KeysLess(FolderOf, {pending[1].key}, Ahead')
    BY <1>1, <1>4, <1>5 DEF KeysLess, Ahead
  <2> QED
    BY <1>1, <1>3, <2>1, <2>2, <2>3 DEF CurrentOrder
<1> QED
  BY <1>3, <1>6, <1>8, <1>9 DEF OrderInv

LEMMA SortedAppend ==
    ASSUME NEW S, NEW s \in Seq(S), NEW r \in S, NEW folder, Sorted(folder, s),
           \A x \in Range(s) : RowLess(folder, x, r)
    PROVE  Sorted(folder, Append(s, r)) /\ Range(Append(s, r)) = Range(s) \cup {r}
<1>1. /\ DOMAIN Append(s, r) = 1..(Len(s) + 1) /\ Len(s) \in Nat /\ DOMAIN s = 1..Len(s)
      /\ Append(s, r)[Len(s) + 1] = r
      /\ \A i \in DOMAIN s : Append(s, r)[i] = s[i]
  OBVIOUS
<1> DEFINE a == Append(s, r)
<1> HIDE DEF a
<1>2. ASSUME NEW i \in DOMAIN a, NEW j \in DOMAIN a, i < j
      PROVE  RowLess(folder, a[i], a[j])
  <2>1. i \in DOMAIN s
    BY <1>1, <1>2 DEF a
  <2>2. CASE j = Len(s) + 1
    BY <1>1, <2>1, <2>2 DEF a, Range
  <2>3. CASE j # Len(s) + 1
    <3>1. j \in DOMAIN s
      BY <1>1, <2>3 DEF a
    <3> QED
      BY <1>1, <1>2, <2>1, <3>1 DEF a, Sorted
  <2> QED
    BY <2>2, <2>3
<1>3. Range(a) = Range(s) \cup {r}
  <2>1. \A i \in DOMAIN a : i = Len(s) + 1 \/ i \in DOMAIN s
    BY <1>1 DEF a
  <2>2. \A x \in Range(a) : x \in Range(s) \cup {r}
    BY <1>1, <2>1 DEF a, Range
  <2>3. \A x \in Range(s) \cup {r} : x \in Range(a)
    BY <1>1 DEF a, Range
  <2> QED
    BY <2>2, <2>3
<1> QED
  BY <1>2, <1>3 DEF a, Sorted

(* What a decoded row adds to what has been seen. *)
LEMMA RowSeen ==
    ASSUME BasicInv, NextRow, extractionStill
    PROVE  /\ feed' = feed /\ pc = "decode" /\ pc' = pc /\ parts' = parts /\ out = <<>>
           /\ page' = page /\ pending' = pending /\ listed' = listed /\ phase' = phase
           /\ version' = version
           /\ current' = [current EXCEPT !.next = @ + 1]
           /\ current \in Decoded
           /\ current'.key = current.key /\ current'.next = current.next + 1
           /\ current.next <= Len(Records.rows)
           /\ Row \in RowType /\ Row.id.key = current.key /\ Row.id.ordinal = current.next
           /\ batch \in Seq(RowType)
           /\ \/ out' = batch /\ batch' = <<Row>>
              \/ out' = out /\ batch' = Append(batch, Row)
           /\ Seen' = Seen \cup {Row}
           /\ SeenKeys' = SeenKeys \cup {current.key}
<1>1. /\ feed' = feed /\ pc = "decode" /\ pc' = pc /\ parts' = parts /\ out = <<>>
      /\ page' = page /\ pending' = pending /\ listed' = listed /\ phase' = phase
      /\ version' = version
      /\ current' = [current EXCEPT !.next = @ + 1] /\ current \in Decoded
      /\ current.next <= Len(Records.rows)
      /\ batch \in Seq(RowType)
  BY DEF BasicInv, TypeInv, NextRow, Running, extractionStill, writerVars, pool, walk
<1>2. current'.key = current.key /\ current'.next = current.next + 1
  BY <1>1 DEF Decoded
<1>3. Row \in RowType /\ Row.id.key = current.key /\ Row.id.ordinal = current.next
  BY <1>1, RowFacts DEF BasicInv
<1>4. \/ out' = batch /\ batch' = <<Row>>
      \/ out' = out /\ batch' = Append(batch, Row)
  BY DEF NextRow
<1>5. LandedRows' = LandedRows /\ Range(out) = {}
  BY <1>1, SameParts DEF Range
<1>6. Range(out') \cup Range(batch') = Range(batch) \cup {Row}
  <2>1. CASE out' = batch /\ batch' = <<Row>>
    <3>1. Range(<<Row>>) = {Row}
      BY DEF Range
    <3> QED
      BY <2>1, <3>1
  <2>2. CASE out' = out /\ batch' = Append(batch, Row)
    <3>1. /\ DOMAIN batch' = 1..(Len(batch) + 1) /\ Len(batch) \in Nat /\ DOMAIN batch = 1..Len(batch)
          /\ batch'[Len(batch) + 1] = Row
          /\ \A i \in DOMAIN batch : batch'[i] = batch[i]
      BY <1>1, <1>3, <2>2
    <3>2. \A i \in DOMAIN batch' : i = Len(batch) + 1 \/ i \in DOMAIN batch
      BY <3>1
    <3>3. \A x \in Range(batch') : x \in Range(batch) \cup {Row}
      BY <3>1, <3>2 DEF Range
    <3>4. \A x \in Range(batch) \cup {Row} : x \in Range(batch')
      BY <3>1 DEF Range
    <3> QED
      BY <1>5, <2>2, <3>3, <3>4
  <2> QED
    BY <1>4, <2>1, <2>2
<1>7. Seen' = Seen \cup {Row}
  BY <1>5, <1>6 DEF Seen
<1>8. SeenKeys' = SeenKeys \cup {current.key}
  BY <1>3, <1>7 DEF SeenKeys
<1> QED
  BY <1>1, <1>2, <1>3, <1>4, <1>7, <1>8

LEMMA OrderRow ==
    ASSUME BasicInv, OrderInv, extractionStill, NextRow
    PROVE  OrderInv'
<1>0. feed.kind = "s3_json"
  BY RowSeen DEF BasicInv, KindInv
<1>1. RowsOrder /\ ReadsOrder /\ SeenOrder /\ CurrentOrder
  BY <1>0 DEF OrderInv
<1>2. FolderOf' = FolderOf /\ Reached' = Reached /\ Ahead' = Ahead /\ LandedRows' = LandedRows
  BY RowSeen, SameFolders, SameParts DEF Ahead
<1>3. /\ current.key \in Reached
      /\ \A r \in Seen : RowLess(FolderOf, r, Row)
      /\ KeysLess(FolderOf, {current.key}, Ahead)
  BY <1>1, RowSeen DEF CurrentOrder, RowLess
<1>4. RowsOrder'
  <2>1. /\ FilesSorted(FolderOf, parts') /\ Sorted(FolderOf, batch)
        /\ AllLess(FolderOf, LandedRows, Range(batch))
    BY <1>1, RowSeen DEF RowsOrder, AllLess
  <2>2. AllLess(FolderOf, LandedRows, {Row}) /\ AllLess(FolderOf, Range(batch), {Row})
    BY <1>3 DEF AllLess, Seen
  <2>3. CASE out' = batch /\ batch' = <<Row>>
    <3>1. Range(<<Row>>) = {Row} /\ Sorted(FolderOf, <<Row>>)
      BY DEF Range, Sorted
    <3> QED
      BY <1>2, <2>1, <2>2, <2>3, <3>1 DEF RowsOrder, AllLess
  <2>4. CASE out' = out /\ batch' = Append(batch, Row)
    <3>1. Sorted(FolderOf, batch') /\ Range(batch') = Range(batch) \cup {Row}
      BY <2>1, <2>2, <2>4, RowSeen, SortedAppend DEF AllLess
    <3>2. Range(out') = {} /\ Sorted(FolderOf, out')
      BY <1>1, <2>4, RowSeen DEF Range, RowsOrder
    <3> QED
      BY <1>2, <2>1, <2>2, <3>1, <3>2 DEF RowsOrder, AllLess
  <2> QED
    BY <2>3, <2>4, RowSeen
<1>5. ReadsOrder'
  BY <1>1, <1>2, RowSeen DEF ReadsOrder
<1>6. SeenOrder'
  BY <1>1, <1>2, <1>3, RowSeen DEF SeenOrder, KeysLess
<1>7. CurrentOrder'
  <2>1. ASSUME NEW r \in Seen'
        PROVE  \/ ObjectLess(FolderOf, r.id.key, current.key)
               \/ r.id.key = current.key /\ r.id.ordinal < current.next + 1
    <3>0. current.next \in Nat
      BY RowSeen DEF Decoded
    <3>1. CASE r = Row
      BY <3>0, <3>1, RowSeen
    <3>2. CASE r \in Seen /\ ~ObjectLess(FolderOf, r.id.key, current.key)
      <4>1. r.id.key = current.key /\ r.id.ordinal < current.next
        BY <1>1, <3>2, RowSeen DEF CurrentOrder
      <4>2. r.id.ordinal \in Nat
        BY <1>0, <3>2, SeenTypes
      <4> QED
        BY <3>0, <4>1, <4>2
    <3> QED
      BY <3>1, <3>2, RowSeen
  <2> QED
    BY <1>2, <1>3, <2>1, RowSeen DEF CurrentOrder
<1> QED
  BY <1>4, <1>5, <1>6, <1>7 DEF OrderInv

LEMMA OrderPart ==
    ASSUME BasicInv, OrderInv, WritePart
    PROVE  OrderInv'
<1> SUFFICES ASSUME feed'.kind = "s3_json" PROVE OrderInv'
  BY DEF OrderInv
<1>1. /\ feed' = feed /\ pc' = pc /\ page' = page /\ pending' = pending /\ current' = current
      /\ batch' = batch /\ out' = <<>> /\ listed' = listed /\ phase' = phase
  BY DEF WritePart, pool, decoding, walk
<1>2. RowsOrder /\ ReadsOrder /\ SeenOrder /\ CurrentOrder
  BY <1>1 DEF OrderInv
<1>3. LandedRows' = LandedRows \cup Range(out) /\ Range(out') = {}
  BY <1>1, PartLands DEF Range
<1>4. Seen' = Seen /\ SeenKeys' = SeenKeys
  BY <1>1, <1>3 DEF Seen, SeenKeys
<1>5. FolderOf' = FolderOf /\ Reached' = Reached /\ Ahead' = Ahead
  BY <1>1, SameFolders DEF Ahead
<1>6. FilesSorted(FolderOf, parts')
  <2> SUFFICES ASSUME NEW i \in DOMAIN parts', NEW j \in DOMAIN parts',
                      NEW k \in DOMAIN parts'[i].rows, NEW l \in DOMAIN parts'[j].rows,
                      i < j \/ (i = j /\ k < l)
               PROVE  RowLess(FolderOf, parts'[i].rows[k], parts'[j].rows[l])
    BY DEF FilesSorted
  <2> DEFINE n == Len(parts) + 1
  <2>1. n \in Nat /\ \A m \in DOMAIN parts : m \in Nat /\ m < n /\ parts'[m].rows = parts[m].rows
    BY PartPlaces
  <2>2. (i = n \/ i \in DOMAIN parts) /\ (j = n \/ j \in DOMAIN parts) /\ parts'[n].rows = out
    BY PartPlaces
  <2> HIDE DEF n
  <2>3. CASE i = n
    <3>1. j = n
      BY <2>1, <2>2, <2>3
    <3>2. k < l
      BY <2>1, <2>3, <3>1
    <3> QED
      BY <1>2, <2>2, <2>3, <3>1, <3>2 DEF RowsOrder, Sorted
  <2>4. CASE i \in DOMAIN parts /\ j = n
    <3>1. parts[i].rows[k] \in LandedRows
      BY <2>1, <2>4, RowsOfFilesAre DEF LandedRows
    <3>2. out[l] \in Range(out)
      BY <2>2, <2>4 DEF Range
    <3> QED
      BY <1>2, <2>1, <2>2, <2>4, <3>1, <3>2 DEF RowsOrder, AllLess
  <2>5. CASE i \in DOMAIN parts /\ j \in DOMAIN parts
    BY <1>2, <2>1, <2>5 DEF RowsOrder, FilesSorted
  <2> QED
    BY <2>2, <2>3, <2>4, <2>5
<1>7. RowsOrder'
  <2>1. Sorted(FolderOf, <<>>)
    BY DEF Sorted
  <2> QED
    BY <1>1, <1>2, <1>3, <1>5, <1>6, <2>1 DEF RowsOrder, AllLess
<1>8. ReadsOrder' /\ SeenOrder' /\ CurrentOrder'
  BY <1>1, <1>2, <1>4, <1>5 DEF ReadsOrder, SeenOrder, CurrentOrder
<1> QED
  BY <1>7, <1>8 DEF OrderInv

LEMMA OrderFinish ==
    ASSUME BasicInv, OrderInv, extractionStill, Finish
    PROVE  OrderInv' /\ Seen' = Seen
<1>1. /\ feed' = feed /\ feed.kind = "s3_json" /\ pc' = "done" /\ page' = page
      /\ pending' = pending /\ out = <<>> /\ out' = batch /\ batch' = <<>> /\ parts' = parts
      /\ listed' = listed /\ phase' = phase
  BY DEF Finish, Running, extractionStill, writerVars, pool, walk
<1>2. RowsOrder /\ ReadsOrder /\ SeenOrder
  BY <1>1 DEF OrderInv
<1>3. Range(<<>>) = {} /\ LandedRows' = LandedRows
  BY <1>1, SameParts DEF Range
<1>4. Seen' = Seen /\ SeenKeys' = SeenKeys
  BY <1>1, <1>3 DEF Seen, SeenKeys
<1>5. FolderOf' = FolderOf /\ Reached' = Reached /\ Ahead' = Ahead
  BY <1>1, SameFolders DEF Ahead
<1>6. RowsOrder'
  <2>1. Sorted(FolderOf, <<>>)
    BY DEF Sorted
  <2> QED
    BY <1>1, <1>2, <1>3, <1>5, <2>1 DEF RowsOrder, AllLess
<1>7. ReadsOrder' /\ SeenOrder' /\ CurrentOrder'
  BY <1>1, <1>2, <1>4, <1>5 DEF ReadsOrder, SeenOrder, CurrentOrder
<1> QED
  BY <1>4, <1>6, <1>7 DEF OrderInv

LEMMA OrderAbort ==
    ASSUME BasicInv, OrderInv, Aborts
    PROVE  OrderInv'
<1>1. /\ feed' = feed /\ pc' = "failed" /\ page' = <<>> /\ pending' = <<>>
      /\ out' = <<>> /\ batch' = <<>> /\ parts' = parts /\ listed' = listed /\ phase' = phase
  BY DEF Aborts, Abort, extractionStill, writerVars, walk
<1>2. Range(<<>>) = {} /\ KeysIn(<<>>) = {} /\ Sorted(FolderOf, <<>>) /\ Ascends(FolderOf, <<>>)
  BY DEF Range, KeysIn, Sorted, Ascends
<1>3. FolderOf' = FolderOf /\ Reached' = Reached /\ LandedRows' = LandedRows
  BY <1>1, SameFolders, SameParts
<1>4. Seen' \subseteq Seen /\ Ahead' = {}
  BY <1>1, <1>2, <1>3 DEF Seen, Ahead
<1>5. SeenKeys' \subseteq SeenKeys
  BY <1>4 DEF SeenKeys
<1>6. feed.kind = "s3_json" => RowsOrder'
  BY <1>1, <1>2, <1>3 DEF OrderInv, RowsOrder, AllLess
<1>7. feed.kind = "s3_json" => ReadsOrder' /\ SeenOrder' /\ CurrentOrder'
  BY <1>1, <1>2, <1>3, <1>4, <1>5 DEF OrderInv, ReadsOrder, SeenOrder, CurrentOrder, KeysLess
<1> QED
  BY <1>1, <1>6, <1>7 DEF OrderInv

LEMMA OrderAside ==
    ASSUME BasicInv, OrderInv, Aside
    PROVE  OrderInv' /\ Seen' = Seen /\ Ahead' = Ahead /\ Reached' = Reached
<1>1. /\ feed' = feed /\ pc' = pc /\ page' = page /\ current' = current
      /\ out' = out /\ batch' = batch /\ parts' = parts /\ listed' = listed /\ phase' = phase
      /\ pending \in Seq(Items) /\ pending' \in Seq(Items) /\ Len(pending') = Len(pending)
      /\ \A i \in DOMAIN pending : pending'[i].key = pending[i].key
  BY AsideFacts DEF BasicInv, TypeInv, walk, decoding
<1>2. DOMAIN pending' = DOMAIN pending
  BY <1>1
<1>3. /\ KeysIn(pending') = KeysIn(pending)
      /\ Ascends(FolderOf, pending) => Ascends(FolderOf, pending')
  BY <1>1, <1>2 DEF KeysIn, Ascends
<1>4. FolderOf' = FolderOf /\ Reached' = Reached /\ Seen' = Seen /\ SeenKeys' = SeenKeys /\ Ahead' = Ahead
  BY <1>1, <1>3, SameFolders, SameSeen DEF Ahead
<1>5. RowsOrder => RowsOrder'
  BY <1>1, SameSeen
<1> QED
  BY <1>1, <1>3, <1>4, <1>5 DEF OrderInv, ReadsOrder, SeenOrder, CurrentOrder

LEMMA OrderNext ==
    ASSUME OrdinaryZones, BasicInv, WalkInv, OrderInv, [Next]_vars
    PROVE  OrderInv'
<1>1. CASE ObjectDecoded /\ extractionStill
  <2>1. /\ feed' = feed /\ pc' = "extract" /\ page' = page /\ pending' = pending
        /\ out' = out /\ batch' = batch /\ parts' = parts /\ listed' = listed /\ phase' = phase
    BY <1>1 DEF ObjectDecoded, extractionStill, writerVars, pool, walk
  <2> QED
    BY <2>1, SameSeen, SameFolders DEF OrderInv, ReadsOrder, SeenOrder, CurrentOrder, Ahead
<1>2. CASE CloseRun
  <2>1. /\ feed' = feed /\ pc' = pc /\ page' = page /\ pending' = pending /\ current' = current
        /\ out' = out /\ batch' = batch /\ parts' = parts /\ listed' = listed /\ phase' = phase
    BY <1>2 DEF CloseRun, WriteManifest, extractionVars, pool, walk, decoding
  <2> QED
    BY <2>1, SameSeen, SameFolders DEF OrderInv, ReadsOrder, SeenOrder, CurrentOrder, Ahead
<1>3. CASE Fetch \/ ResultSetDrained
  BY <1>3 DEF Fetch, ResultSetDrained, OrderInv
<1> QED
  BY <1>1, <1>2, <1>3, NextCases, OrderFolder, OrderSubmit, OrderTake, OrderRow, OrderFinish,
     OrderPart, OrderAbort, OrderAside DEF Pulls

(* An object is not before itself. *)
LEMMA OrderStrict ==
    ASSUME BasicInv, NEW o \in Keys
    PROVE  ~ObjectLess(FolderOf, o, o)
  BY FolderTypes DEF ObjectLess

LEMMA PlacesInOrder ==
    ASSUME BasicInv, FilesSorted(FolderOf, parts), NEW p \in Places, NEW q \in Places, Before(p, q)
    PROVE  RowLess(FolderOf, At(p), At(q))
<1>1. PICK i \in DOMAIN parts : \E k \in DOMAIN parts[i].rows : p = <<i, k>>
  BY PlacesAre
<1>2. PICK k \in DOMAIN parts[i].rows : p = <<i, k>>
  BY <1>1
<1>3. PICK j \in DOMAIN parts : \E l \in DOMAIN parts[j].rows : q = <<j, l>>
  BY PlacesAre
<1>4. PICK l \in DOMAIN parts[j].rows : q = <<j, l>>
  BY <1>3
<1>5. i < j \/ (i = j /\ k < l)
  BY <1>2, <1>4 DEF Before
<1>6. At(p) = parts[i].rows[k] /\ At(q) = parts[j].rows[l]
  BY <1>2, <1>4 DEF At
<1> QED
  BY <1>5, <1>6 DEF FilesSorted

(* Rows land in the order of the folders walked, of the keys in a folder    *)
(* and of the records in an object, however the reads of the pool finish.   *)
THEOREM RowsInListingOrder ==
    ASSUME OrdinaryZones
    PROVE  Spec => []ListingOrder
<1>1. BasicInv /\ WalkInv /\ OrderInv => ListingOrder
  <2> SUFFICES ASSUME BasicInv, WalkInv, OrderInv, feed.kind = "s3_json",
                      NEW p \in Places, NEW q \in Places, Before(p, q)
               PROVE  LET a == At(p).id  b == At(q).id
                      IN  \/ Rank(a.key) < Rank(b.key)
                          \/ Rank(a.key) = Rank(b.key) /\ a.key < b.key
                          \/ a.key = b.key /\ a.ordinal < b.ordinal
    BY DEF ListingOrder
  <2> DEFINE o == At(p).id.key
             r == At(q).id.key
  <2>1. RowLess(FolderOf, At(p), At(q))
    BY PlacesInOrder DEF OrderInv, RowsOrder
  <2>2. o \in Reached /\ r \in Reached /\ o \in Keys /\ r \in Keys
    <3>1. At(p) \in Seen /\ At(q) \in Seen
      BY LandedAre DEF Seen
    <3> QED
      BY <3>1, SeenTypes DEF OrderInv, SeenOrder, SeenKeys
  <2>3. \/ FolderOf[o] < FolderOf[r]
        \/ FolderOf[o] = FolderOf[r] /\ o < r
        \/ o = r /\ At(p).id.ordinal < At(q).id.ordinal
    BY <2>1 DEF RowLess, ObjectLess
  <2> HIDE DEF o, r
  <2>4. CASE feed.discovery = "full_prefix"
    <3>1. Rank(o) = 0 /\ Rank(r) = 0 /\ FolderOf[o] = 0 /\ FolderOf[r] = 0
      BY <2>2, <2>4 DEF Rank, FolderOf
    <3> QED
      BY <2>3, <3>1 DEF o, r
  <2>5. CASE feed.discovery = "time_partitioned"
    <3>1. /\ \A i, j \in DOMAIN listed : i < j => listed[i] < listed[j]
          /\ \A i \in DOMAIN listed : i \in Int /\ listed[i] \in Int
      BY <2>5 DEF WalkInv, BasicInv, TypeInv
    <3>2. ASSUME NEW x \in Reached
          PROVE  Rank(x) \in DOMAIN listed /\ listed[Rank(x)] = FolderOf[x]
      <4>1. x \in Keys /\ FolderOf[x] = feed.objects[x].folder /\ FolderOf[x] \in Range(listed)
        BY <2>5 DEF Reached, FolderOf
      <4>2. \E i \in DOMAIN listed : listed[i] = feed.objects[x].folder
        BY <4>1 DEF Range
      <4> QED
        BY <2>5, <4>1, <4>2 DEF Rank
    <3>3. /\ Rank(o) \in DOMAIN listed /\ listed[Rank(o)] = FolderOf[o]
          /\ Rank(r) \in DOMAIN listed /\ listed[Rank(r)] = FolderOf[r]
      BY <2>2, <3>2
    <3>4. FolderOf[o] < FolderOf[r] => Rank(o) < Rank(r)
      BY <3>1, <3>3
    <3>5. FolderOf[o] = FolderOf[r] => Rank(o) = Rank(r)
      BY <3>1, <3>3
    <3> QED
      BY <2>3, <3>4, <3>5 DEF o, r
  <2> QED
    BY <2>4, <2>5, FeedTypes DEF BasicInv, TypeInv
<1>2. Init => WalkInv
  BY WalkInit
<1>3. BasicInv /\ WalkInv /\ [Next]_vars => WalkInv'
  BY WalkNext
<1>4. BasicInv /\ WalkInv /\ OrderInv /\ [Next]_vars => OrderInv'
  BY OrderNext
<1> QED
  BY <1>1, <1>2, <1>3, <1>4, BasicInvariant, OrderInit, PTL DEF Spec

-----------------------------------------------------------------------------
(* Whole objects. *)
LEMMA OrdinalsAre ==
    ASSUME NEW S, NEW o, NEW r
    PROVE  /\ (\A s \in S : s.id.key # o) => OrdinalsIn(S, o) = {}
           /\ OrdinalsIn(S \cup {r}, o) =
                OrdinalsIn(S, o) \cup (IF r.id.key = o THEN {r.id.ordinal} ELSE {})
  BY DEF OrdinalsIn

LEMMA WholeInit == Init => WholeInv
<1> SUFFICES ASSUME Init, feed.kind = "s3_json" PROVE WholeInv
  BY DEF WholeInv
<1>1. /\ parts = <<>> /\ out = <<>> /\ batch = <<>> /\ pc = "extract" /\ listed = <<>>
      /\ phase = IF feed.low <= feed.high THEN "hours" ELSE "over"
  BY DEF Init, InitExtraction, InitWriter
<1>2. Seen = {}
  BY <1>1 DEF Seen, LandedRows, RowsOfFiles, Range
<1>3. \A o : OrdinalsIn(Seen, o) = {}
  BY <1>2, OrdinalsAre
<1>4. Reached = {}
  BY <1>1 DEF Reached, Range
<1> QED
  BY <1>1, <1>3, <1>4 DEF WholeInv

LEMMA WholeSame ==
    ASSUME WholeInv, feed' = feed, Seen' = Seen, current' = current, Reached' = Reached,
           Ahead' = Ahead, Windowed' \subseteq Windowed,
           pc' = "decode" => pc = "decode", pc' # "failed" => pc # "failed"
    PROVE  WholeInv'
<1>1. RecordsOf' = RecordsOf /\ Accepted' = Accepted /\ Keys' = Keys /\ Records' = Records
  BY SameFolders DEF Keys, Records
<1> QED
  BY <1>1 DEF WholeInv

LEMMA WholeFolder ==
    ASSUME OrdinaryZones, BasicInv, WalkInv, WholeInv, extractionStill,
           NextHour \/ EndPoint \/ WholeLocation
    PROVE  WholeInv'
<1>1. /\ feed' = feed /\ feed \in Feeds /\ feed.kind = "s3_json" /\ page = <<>>
      /\ pending' = pending /\ pc' = pc /\ pc = "extract" /\ version' = version
      /\ out' = out /\ batch' = batch /\ current' = current /\ parts' = parts
  BY FolderStep DEF extractionStill, writerVars
<1>2. /\ RecordsOf' = RecordsOf /\ Accepted' = Accepted /\ Keys' = Keys /\ Windowed' = Windowed
      /\ Seen' = Seen
  BY <1>1, SameFolders, SameSeen DEF Keys
<1>3. CASE page' = page /\ Reached' = Reached
  BY <1>1, <1>2, <1>3, WholeSame DEF Ahead
<1>4. ASSUME NEW folder, page' = Listing(folder),
             \A o \in Reached' : o \in Reached \/ InFolder(o, folder)
      PROVE  WholeInv'
  <2>1. \A o \in Found(folder) : o \in KeysIn(page')
    <3>1. /\ page' \in Seq(Items)
          /\ \A o \in Found(folder) : \E i \in 1..Len(page') : page'[i].key = o
      BY <1>1, <1>4, ListingFacts DEF BasicInv, TypeInv
    <3> QED
      BY <3>1 DEF KeysIn
  <2>2. KeysIn(page) = {} /\ Ahead \subseteq Ahead' /\ KeysIn(page') \subseteq Ahead'
    BY <1>1 DEF KeysIn, Ahead
  <2>3. \A o \in Windowed : InFolder(o, folder) => o \in Ahead'
    BY <2>1, <2>2 DEF Windowed, Found
  <2>4. ASSUME NEW o \in Keys \ {current.key}
        PROVE  /\ OrdinalsIn(Seen, o) \in {{}, RecordsOf[o]}
               /\ OrdinalsIn(Seen, o) # {} => o \in Accepted
               /\ o \in Reached' \cap Windowed => o \in Ahead' \/ OrdinalsIn(Seen, o) = RecordsOf[o]
    BY <1>1, <1>4, <2>2, <2>3 DEF WholeInv
  <2> QED
    BY <1>1, <1>2, <2>4 DEF WholeInv
<1> QED
  BY <1>3, <1>4, FolderStep

LEMMA NoKeyZero ==
    ASSUME BasicInv, pc # "decode"
    PROVE  current = NoObject /\ Keys \ {current.key} = Keys
<1>1. current = NoObject /\ NoObject.key = 0
  BY DEF BasicInv, TypeInv, NoObject
<1>2. 0 \notin Keys
  BY KeysFacts DEF BasicInv, TypeInv
<1> QED
  BY <1>1, <1>2

LEMMA WholeTake ==
    ASSUME BasicInv, OrderInv, WholeInv, extractionStill, Take(Oldest)
    PROVE  WholeInv'
<1>1. /\ feed' = feed /\ pending \in Seq(Items) /\ version' = version
      /\ pending # <<>> /\ pending' = Tail(pending) /\ page' = page
      /\ current'.key = pending[1].key /\ current'.next = 1
      /\ parts' = parts /\ out' = out /\ batch' = batch
      /\ listed' = listed /\ phase' = phase /\ pc = "extract"
  BY BasicTake DEF BasicInv, TypeInv, Take, Running, extractionStill, writerVars, walk
<1>2. feed.kind = "s3_json"
  BY <1>1 DEF BasicInv, KindInv
<1>3. /\ RecordsOf' = RecordsOf /\ Accepted' = Accepted /\ Keys' = Keys /\ Windowed' = Windowed
      /\ Seen' = Seen /\ Reached' = Reached
  BY <1>1, SameFolders, SameSeen DEF Keys
<1>4. /\ pending[1].key \in KeysIn(pending)
      /\ KeysIn(pending) = {pending[1].key} \cup KeysIn(pending')
  BY <1>1, <1>2, QueueHead DEF OrderInv, ReadsOrder
<1>5. pending[1].key \in Ahead /\ Ahead = {pending[1].key} \cup Ahead'
  BY <1>1, <1>4 DEF Ahead
<1>6. OrdinalsIn(Seen, pending[1].key) = {}
  <2>1. pending[1].key \in Keys
    BY BasicTake
  <2>2. \A r \in Seen : ObjectLess(FolderOf, r.id.key, pending[1].key)
    BY <1>2, <1>5 DEF OrderInv, SeenOrder, KeysLess, SeenKeys
  <2>3. \A r \in Seen : r.id.key # pending[1].key
    BY <2>1, <2>2, OrderStrict
  <2> QED
    BY <2>3, OrdinalsAre
<1>7. 1..(1 - 1) = {}
  OBVIOUS
<1>8. ASSUME NEW o \in Keys, o # pending[1].key
      PROVE  /\ OrdinalsIn(Seen, o) \in {{}, RecordsOf[o]}
             /\ OrdinalsIn(Seen, o) # {} => o \in Accepted
             /\ o \in Reached \cap Windowed => o \in Ahead' \/ OrdinalsIn(Seen, o) = RecordsOf[o]
  <2>1. o \in Keys \ {current.key}
    BY <1>1, NoKeyZero
  <2> QED
    BY <1>1, <1>2, <1>5, <1>8, <2>1 DEF WholeInv
<1> QED
  BY <1>1, <1>3, <1>6, <1>7, <1>8 DEF WholeInv

LEMMA WholeRow ==
    ASSUME BasicInv, WholeInv, extractionStill, NextRow
    PROVE  WholeInv'
<1>1. feed.kind = "s3_json" /\ feed' = feed /\ pc = "decode" /\ pc' = "decode"
  BY RowSeen DEF BasicInv, KindInv
<1>2. /\ RecordsOf' = RecordsOf /\ Accepted' = Accepted /\ Keys' = Keys /\ Windowed' = Windowed
      /\ Reached' = Reached /\ Ahead' = Ahead /\ Records' = Records
  BY RowSeen, SameFolders DEF Keys, Ahead, Records
<1>3. current.next \in Nat \ {0} /\ Len(Records.rows) \in Nat
  BY <1>1, RowSeen, RecordsFacts DEF BasicInv, Decoded
<1>4. /\ Seen' = Seen \cup {Row} /\ Row.id.key = current.key /\ Row.id.ordinal = current.next
      /\ current'.key = current.key /\ current'.next = current.next + 1
      /\ current.next <= Len(Records.rows)
  BY RowSeen
<1>5. \A o : OrdinalsIn(Seen', o) =
               OrdinalsIn(Seen, o) \cup (IF current.key = o THEN {current.next} ELSE {})
  <2>1. \A o : OrdinalsIn(Seen \cup {Row}, o) =
                 OrdinalsIn(Seen, o) \cup (IF Row.id.key = o THEN {Row.id.ordinal} ELSE {})
    BY OrdinalsAre
  <2> QED
    BY <1>4, <2>1
<1>6. OrdinalsIn(Seen', current'.key) = 1..(current'.next - 1)
  <2>1. OrdinalsIn(Seen', current.key) = 1..(current.next - 1) \cup {current.next}
    BY <1>1, <1>5 DEF WholeInv
  <2>2. 1..(current.next - 1) \cup {current.next} = 1..current.next
    BY <1>3
  <2>3. current'.next - 1 = current.next
    BY <1>3, <1>4
  <2> QED
    BY <1>4, <2>1, <2>2, <2>3
<1>7. current'.next <= Len(Records.rows) + 1
  BY <1>3, <1>4
<1>8. ASSUME NEW o \in Keys \ {current.key}
      PROVE  /\ OrdinalsIn(Seen', o) \in {{}, RecordsOf[o]}
             /\ OrdinalsIn(Seen', o) # {} => o \in Accepted
             /\ o \in Reached \cap Windowed =>
                  o \in Ahead \/ OrdinalsIn(Seen', o) = RecordsOf[o]
  <2>1. OrdinalsIn(Seen', o) = OrdinalsIn(Seen, o)
    BY <1>5
  <2> QED
    BY <1>1, <2>1 DEF WholeInv
<1> QED
  BY <1>1, <1>2, <1>4, <1>6, <1>7, <1>8 DEF WholeInv

LEMMA WholeDecoded ==
    ASSUME BasicInv, WholeInv, extractionStill, ObjectDecoded
    PROVE  WholeInv'
<1>1. /\ feed' = feed /\ version' = version /\ pc = "decode" /\ pc' = "extract"
      /\ page' = page /\ pending' = pending /\ out' = out /\ batch' = batch /\ parts' = parts
      /\ listed' = listed /\ phase' = phase /\ current' = NoObject
      /\ current.next > Len(Records.rows) /\ ~Records.raises /\ current \in Decoded
  BY DEF BasicInv, TypeInv, ObjectDecoded, Running, extractionStill, writerVars, pool, walk
<1>2. feed.kind = "s3_json"
  BY <1>1 DEF BasicInv, KindInv
<1>3. /\ RecordsOf' = RecordsOf /\ Accepted' = Accepted /\ Keys' = Keys /\ Windowed' = Windowed
      /\ Seen' = Seen /\ Reached' = Reached /\ Ahead' = Ahead
  BY <1>1, SameFolders, SameSeen DEF Keys, Ahead
<1>4. /\ current.key \in Keys /\ current.next \in Nat \ {0}
      /\ Len(feed.objects[current.key].body.records) = Len(Records.rows)
      /\ Len(Records.rows) \in Nat
      /\ current.key \in Accepted
      /\ RecordsOf[current.key] = 1..Len(Records.rows)
  <2>1. current.key \in Keys /\ current.next \in Nat \ {0} /\ feed \in Feeds
    BY <1>1 DEF BasicInv, TypeInv, Decoded
  <2>2. Sequential(feed.objects[current.key].body.records)
    BY <2>1, FeedTypes
  <2>3. /\ Len(feed.objects[current.key].body.records) = Len(Records.rows)
        /\ Len(feed.objects[current.key].body.records) \in Nat /\ WellFormed(current.key)
    BY <1>1, RecordsFacts DEF BasicInv
  <2> QED
    BY <2>1, <2>2, <2>3 DEF RecordsOf, Accepted, Sequential
<1>5. OrdinalsIn(Seen, current.key) = RecordsOf[current.key]
  <2>1. current.next = 1 \/ current.next <= Len(Records.rows) + 1
    BY <1>1, <1>2 DEF WholeInv
  <2>2. current.next - 1 = Len(Records.rows)
    BY <1>1, <1>4, <2>1
  <2>3. OrdinalsIn(Seen, current.key) = 1..(current.next - 1)
    BY <1>1, <1>2 DEF WholeInv
  <2> QED
    BY <1>4, <2>2, <2>3
<1>6. ASSUME NEW o \in Keys
      PROVE  /\ OrdinalsIn(Seen, o) \in {{}, RecordsOf[o]}
             /\ OrdinalsIn(Seen, o) # {} => o \in Accepted
             /\ o \in Reached \cap Windowed => o \in Ahead \/ OrdinalsIn(Seen, o) = RecordsOf[o]
  <2>1. CASE o = current.key
    BY <1>4, <1>5, <2>1
  <2>2. CASE o # current.key
    BY <1>1, <1>2, <2>2 DEF WholeInv
  <2> QED
    BY <2>1, <2>2
<1> QED
  BY <1>1, <1>3, <1>6 DEF WholeInv

LEMMA WholeNext ==
    ASSUME OrdinaryZones, BasicInv, WalkInv, OrderInv, WholeInv, [Next]_vars
    PROVE  WholeInv'
<1>1. CASE Submit /\ extractionStill
  <2>1. /\ feed' = feed /\ version' = version /\ pc' = pc /\ current' = current /\ out' = out
        /\ batch' = batch /\ parts' = parts /\ listed' = listed /\ phase' = phase
    BY <1>1 DEF Submit, extractionStill, writerVars, walk, decoding
  <2> QED
    BY <1>1, <2>1, SameFolders, SameSeen, OrderSubmit, WholeSame
<1>2. CASE Finish /\ extractionStill
  <2>1. /\ feed' = feed /\ version' = version /\ pc' = "done" /\ pc = "extract" /\ current' = current
        /\ page' = page /\ pending' = pending /\ listed' = listed /\ phase' = phase
    BY <1>2 DEF Finish, Running, pool, walk
  <2> QED
    BY <1>2, <2>1, SameFolders, OrderFinish, WholeSame DEF Ahead
<1>3. CASE WritePart
  <2>1. /\ feed' = feed /\ version' = version /\ pc' = pc /\ current' = current /\ batch' = batch
        /\ out' = <<>> /\ page' = page /\ pending' = pending /\ listed' = listed /\ phase' = phase
    BY <1>3 DEF WritePart, pool, decoding, walk
  <2>2. LandedRows' = LandedRows \cup Range(out) /\ Range(out') = {}
    BY <1>3, <2>1, PartLands DEF Range
  <2>3. Seen' = Seen
    BY <2>1, <2>2 DEF Seen
  <2> QED
    BY <2>1, <2>3, SameFolders, WholeSame DEF Ahead
<1>4. CASE CloseRun
  <2>1. /\ feed' = feed /\ version' = version /\ pc' = pc /\ page' = page /\ pending' = pending
        /\ current' = current /\ out' = out /\ batch' = batch /\ parts' = parts
        /\ listed' = listed /\ phase' = phase
    BY <1>4 DEF CloseRun, WriteManifest, extractionVars, pool, walk, decoding
  <2> QED
    BY <2>1, SameSeen, SameFolders, WholeSame DEF Ahead
<1>5. CASE Fetch \/ ResultSetDrained
  BY <1>5 DEF Fetch, ResultSetDrained, WholeInv
<1>6. CASE Aborts
  BY <1>6 DEF Aborts, Abort, WholeInv
<1>7. CASE Aside
  <2>1. /\ feed' = feed /\ pc' = pc /\ current' = current
        /\ \A o \in Keys : version'[o] = version[o] \/ version'[o] # 1
    BY <1>7, AsideFacts DEF decoding
  <2>2. Windowed' \subseteq Windowed
    BY <2>1 DEF Windowed, InWindow, Keys
  <2> QED
    BY <1>7, <2>1, <2>2, OrderAside, WholeSame
<1> QED
  BY <1>1, <1>2, <1>3, <1>4, <1>5, <1>6, <1>7, NextCases, WholeFolder, WholeTake, WholeRow,
     WholeDecoded DEF Pulls

(* No two places have the same record of the same object. *)
LEMMA OnceEach ==
    ASSUME BasicInv, OrderInv, feed.kind = "s3_json", NEW o \in Keys,
           IsFiniteSet({At(p).id.ordinal : p \in RowsOf(o)})
    PROVE  Cardinality(RowsOf(o)) = Cardinality({At(p).id.ordinal : p \in RowsOf(o)})
<1> DEFINE T == {At(p).id.ordinal : p \in RowsOf(o)}
           place == [k \in T |-> CHOOSE p \in RowsOf(o) : At(p).id.ordinal = k]
<1>1. ASSUME NEW p \in RowsOf(o), NEW q \in RowsOf(o), Before(p, q)
      PROVE  At(p).id.ordinal # At(q).id.ordinal
  <2>1. p \in Places /\ q \in Places /\ At(p).id.key = o /\ At(q).id.key = o
    BY DEF RowsOf
  <2>2. RowLess(FolderOf, At(p), At(q))
    BY <1>1, <2>1, PlacesInOrder DEF OrderInv, RowsOrder
  <2>3. At(p).id.ordinal < At(q).id.ordinal
    BY <2>1, <2>2, OrderStrict DEF RowLess
  <2>4. At(p).id.ordinal \in Nat
    BY <2>1, LandedAre, SeenTypes DEF Seen
  <2> QED
    BY <2>3, <2>4
<1>2. ASSUME NEW p \in RowsOf(o), NEW q \in RowsOf(o), p # q
      PROVE  Before(p, q) \/ Before(q, p)
  <2>1. p \in Places /\ q \in Places
    BY DEF RowsOf
  <2>0. PICK i \in DOMAIN parts : \E k \in DOMAIN parts[i].rows : p = <<i, k>>
    BY <2>1, PlacesAre
  <2>2. PICK k \in DOMAIN parts[i].rows : p = <<i, k>>
    BY <2>0
  <2>7. PICK j \in DOMAIN parts : \E l \in DOMAIN parts[j].rows : q = <<j, l>>
    BY <2>1, PlacesAre
  <2>3. PICK l \in DOMAIN parts[j].rows : q = <<j, l>>
    BY <2>7
  <2>4. i \in Int /\ j \in Int /\ k \in Int /\ l \in Int
    <3>1. parts[i] \in PartType /\ parts[j] \in PartType /\ i \in Int /\ j \in Int
      BY DEF BasicInv, TypeInv
    <3>2. parts[i].rows \in Seq(RowType) /\ parts[j].rows \in Seq(RowType)
      BY <3>1 DEF PartType
    <3> QED
      BY <3>1, <3>2
  <2>5. i # j \/ k # l
    BY <1>2, <2>2, <2>3
  <2>6. i < j \/ j < i \/ (i = j /\ (k < l \/ l < k))
    BY <2>4, <2>5
  <2> QED
    BY <2>2, <2>3, <2>6 DEF Before
<1>3. ASSUME NEW k \in T
      PROVE  place[k] \in RowsOf(o) /\ At(place[k]).id.ordinal = k
  <2>1. \E p \in RowsOf(o) : At(p).id.ordinal = k
    OBVIOUS
  <2> QED
    BY <2>1
<1>4. ASSUME NEW p \in RowsOf(o)
      PROVE  At(p).id.ordinal \in T /\ place[At(p).id.ordinal] = p
  <2>1. At(p).id.ordinal \in T
    OBVIOUS
  <2> HIDE DEF T, place
  <2>2. /\ place[At(p).id.ordinal] \in RowsOf(o)
        /\ At(place[At(p).id.ordinal]).id.ordinal = At(p).id.ordinal
    BY <1>3, <2>1
  <2> QED
    BY <1>1, <1>2, <2>1, <2>2
<1>5. DOMAIN place = T /\ place = [k \in T |-> place[k]]
  OBVIOUS
<1> HIDE DEF T, place
<1>6. place \in [T -> RowsOf(o)]
  BY <1>3, <1>5
<1>7. place \in Bijection(T, RowsOf(o))
  BY <1>3, <1>4, <1>6 DEF Bijection, Injection, Surjection, IsInjective
<1>8. IsFiniteSet(T)
  BY DEF T
<1>9. Cardinality(RowsOf(o)) = Cardinality(T)
  BY <1>7, <1>8, FS_Bijection DEF ExistsBijection
<1> QED
  BY <1>9 DEF T

(* A landed S3 JSON run has every object of its window whole and once, each *)
(* row with the content that its identity names, whatever the feed and its  *)
(* timezone, and whichever way reads, overwrites and listings interleave.   *)
THEOREM WholeWindowLanded ==
    ASSUME OrdinaryZones
    PROVE  Spec => []WindowLanded
<1>1. BasicInv /\ WalkInv /\ OrderInv /\ WholeInv => WindowLanded
  <2> SUFFICES ASSUME BasicInv, WalkInv, OrderInv, WholeInv, feed.kind = "s3_json"
               PROVE  /\ \A p \in Places : At(p).id.content = At(p).id.etag
                      /\ status = "landed" =>
                           \A o \in Keys :
                              LET ordinals == {At(p).id.ordinal : p \in RowsOf(o)}
                              IN  /\ Cardinality(RowsOf(o)) = Cardinality(ordinals)
                                  /\ ordinals \in {{}, DOMAIN feed.objects[o].body.records}
                                  /\ ordinals # {} => WellFormed(o)
                                  /\ InReach(o) /\ version[o] = 1 =>
                                       ordinals = DOMAIN feed.objects[o].body.records
    BY DEF WindowLanded
  <2>1. ASSUME NEW p \in Places
        PROVE  At(p).id.content = At(p).id.etag
    <3>1. At(p) \in RowType
      BY LandedAre, LandedTypes
    <3>2. At(p).id \in Ids
      BY <3>1 DEF RowType, RowIds
    <3> QED
      BY <3>2 DEF Ids
  <2>2. ASSUME status = "landed", NEW o \in Keys
        PROVE  LET ordinals == {At(p).id.ordinal : p \in RowsOf(o)}
               IN  /\ Cardinality(RowsOf(o)) = Cardinality(ordinals)
                   /\ ordinals \in {{}, DOMAIN feed.objects[o].body.records}
                   /\ ordinals # {} => WellFormed(o)
                   /\ InReach(o) /\ version[o] = 1 =>
                        ordinals = DOMAIN feed.objects[o].body.records
    <3> DEFINE ordinals == {At(p).id.ordinal : p \in RowsOf(o)}
    <3>1. /\ pc = "done" /\ out = <<>> /\ phase = "over" /\ page = <<>> /\ pending = <<>>
          /\ batch = <<>>
      BY <2>2 DEF BasicInv, EndInv
    <3>2. Seen = LandedRows /\ Ahead = {}
      BY <3>1 DEF Seen, Ahead, KeysIn, Range
    <3>3. ordinals = OrdinalsIn(Seen, o)
      <4>1. ASSUME NEW p \in RowsOf(o)
            PROVE  At(p).id.ordinal \in OrdinalsIn(Seen, o)
        BY <3>2, LandedAre DEF RowsOf, OrdinalsIn
      <4>2. ASSUME NEW r \in Seen, r.id.key = o
            PROVE  r.id.ordinal \in ordinals
        <5>1. PICK p \in Places : r = At(p)
          BY <3>2, LandedAre
        <5> QED
          BY <4>2, <5>1 DEF RowsOf
      <4>3. \A k \in ordinals : k \in OrdinalsIn(Seen, o)
        BY <4>1
      <4>4. \A k \in OrdinalsIn(Seen, o) : k \in ordinals
        BY <4>2 DEF OrdinalsIn
      <4> QED
        BY <4>3, <4>4
    <3> HIDE DEF ordinals
    <3>4. o \in Keys \ {current.key}
      BY <3>1, NoKeyZero
    <3>5. /\ ordinals \in {{}, RecordsOf[o]}
          /\ ordinals # {} => o \in Accepted
          /\ o \in Reached \cap Windowed => ordinals = RecordsOf[o]
      BY <3>1, <3>2, <3>3, <3>4 DEF WholeInv
    <3>6. RecordsOf[o] = DOMAIN feed.objects[o].body.records
      BY DEF RecordsOf
    <3>7. ASSUME InReach(o), version[o] = 1
          PROVE  o \in Reached \cap Windowed
      <4>1. o \in Windowed
        BY <3>7 DEF InReach, Windowed, InWindow
      <4>2. feed.low <= feed.high
        BY <3>7 DEF InReach
      <4>3. CASE feed.discovery = "full_prefix"
        BY <3>1, <4>1, <4>2, <4>3 DEF Reached
      <4>4. CASE feed.discovery # "full_prefix"
        <5>1. feed.objects[o].folder \in LocalHours
          BY <3>7, <4>4 DEF InReach
        <5>2. feed.discovery = "time_partitioned"
          BY <4>4, FeedTypes DEF BasicInv, TypeInv
        <5> QED
          BY <3>1, <4>1, <4>2, <5>1, <5>2 DEF Reached, WalkInv
      <4> QED
        BY <4>3, <4>4
    <3>8. IsFiniteSet(ordinals)
      <4>1. Sequential(feed.objects[o].body.records)
        BY FeedTypes DEF BasicInv, TypeInv
      <4>2. IsFiniteSet(RecordsOf[o])
        BY <3>6, <4>1, FS_Interval DEF Sequential
      <4> QED
        BY <3>5, <4>2, FS_EmptySet
    <3>9. Cardinality(RowsOf(o)) = Cardinality(ordinals)
      BY <3>8, OnceEach DEF ordinals
    <3>10. ordinals # {} => WellFormed(o)
      BY <3>5 DEF Accepted
    <3> QED
      BY <3>5, <3>6, <3>7, <3>9, <3>10 DEF ordinals
  <2> QED
    BY <2>1, <2>2
<1>2. Init => WalkInv
  BY WalkInit
<1>3. BasicInv /\ WalkInv /\ [Next]_vars => WalkInv'
  BY WalkNext
<1>4. BasicInv /\ WalkInv /\ OrderInv /\ [Next]_vars => OrderInv'
  BY OrderNext
<1>5. BasicInv /\ WalkInv /\ OrderInv /\ WholeInv /\ [Next]_vars => WholeInv'
  BY WholeNext
<1> QED
  BY <1>1, <1>2, <1>3, <1>4, <1>5, BasicInvariant, OrderInit, WholeInit, PTL DEF Spec
=============================================================================
