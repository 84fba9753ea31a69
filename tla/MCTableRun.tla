----------------------------- MODULE MCTableRun -----------------------------
(***************************************************************************)
(* TLC instances of TableRun.  A run meets one feed; the sets below vary   *)
(* one concern at a time: the timezone, the pool, the documents, the types *)
(* of a result set.                                                        *)
(***************************************************************************)
EXTENDS TableRun

-----------------------------------------------------------------------------
(* Documents and bodies. *)
Plain == [wire |-> "plain", state |-> "whole", size |-> 1]
Gzip == [Plain EXCEPT !.wire = "gzip"]
Zlib == [Plain EXCEPT !.wire = "zlib"]
Streams == {Plain, Gzip, Zlib, [Gzip EXCEPT !.state = "truncated"],
            [Gzip EXCEPT !.state = "trailing"], [Gzip EXCEPT !.size = 9]}

NoPayload == [kind |-> "absent", base64 |-> FALSE, inner |-> Plain, json |-> "none"]
Inline == [NoPayload EXCEPT !.kind = "object"]
Quoted == [kind |-> "string", base64 |-> FALSE, inner |-> Plain, json |-> "object"]
Base64(stream) == [Quoted EXCEPT !.base64 = TRUE, !.inner = stream]
Payloads == {NoPayload, Inline, Quoted, [Quoted EXCEPT !.json = "scalar"],
             [Inline EXCEPT !.inner.size = 9], [Inline EXCEPT !.kind = "scalar"]}
              \cup {Base64(stream) : stream \in Streams}

Record(payload) == [object |-> TRUE, payload |-> payload]
NotAnObject == [object |-> FALSE, payload |-> NoPayload]

Document(compression, records) ==
    [compression |-> compression, records |-> records, path |-> FALSE, encoding |-> "none",
     compressed |-> "none", outerLimit |-> 4, payloadLimit |-> 4]
CloudEvents(encoding, compressed) ==
    [Document("gzip", "auto") EXCEPT !.path = TRUE, !.encoding = encoding, !.compressed = compressed]

Body(outer, form, records) == [outer |-> outer, form |-> form, records |-> records]
SoundRecords(n) == [i \in 1..n |-> Record(NoPayload)]

Object(folder, modified, body, bytes) ==
    [folder |-> folder, modified |-> modified, body |-> body, bytes |-> bytes]

-----------------------------------------------------------------------------
(* Timezones, in half hours: constant, one shift of an hour or of half an   *)
(* hour.  A shift falls on a full hour of the wall clock, as Sydney's,      *)
(* New York's and Lord Howe's do.                                           *)
Shift(at, before, after) == [t \in Instants |-> IF t < at THEN before ELSE after]
Utc == Shift(0, 0, 0)
WinterBetween == [t \in Instants |-> IF t \in 8..13 THEN 0 ELSE 2]
Zones == {Utc, Shift(0, 1, 1), Shift(8, 0, 2), Shift(8, 2, 0), Shift(8, 0, 1), Shift(9, 1, 0),
          WinterBetween}

ASSUME ZonesOrdinary == \A zone \in Zones : OrdinaryZone(zone)

(* Lord Howe from one autumn to the spring after it. *)
TwoShifts == [t \in Instants |-> IF t \in 9..13 THEN 0 ELSE 1]

ASSUME NoOrdinaryZone == ~OrdinaryZone(TwoShifts)

Feed(discovery, zone, from, high, document, objects) ==
    [kind |-> "s3_json", discovery |-> discovery, zone |-> zone, walkFrom |-> from,
     low |-> from, inclusive |-> TRUE, high |-> high, document |-> document,
     objects |-> objects, cells |-> <<>>, declared |-> "string"]

WallHours(zone, from, to) == {((t + zone[t]) \div 2) * 2 : t \in from..to}

Lone(folder, modified) == <<Object(folder, modified, Body(Gzip, "array", SoundRecords(1)), 1)>>

WalkFeeds ==
    UNION {{Feed("time_partitioned", zone, from, high, Document("gzip", "auto"), Lone(folder, from + 1)) :
               folder \in WallHours(zone, from, high + 2)} :
             zone \in Zones, from \in 5..10, high \in 11..12}

TwoShiftFeeds ==
    {Feed("time_partitioned", TwoShifts, from, 16, Document("gzip", "auto"), <<>>) : from \in 4..8}

-----------------------------------------------------------------------------
(* The pool: four objects in two folders, of one or two rows, of rows that  *)
(* fill a part, exceed one and exceed what a row may be.                    *)
FourObjects(sizes) ==
    <<Object(4, 5, Body(Gzip, "array", SoundRecords(1)), sizes[1]),
      Object(4, 4, Body(Gzip, "array", SoundRecords(2)), sizes[2]),
      Object(6, 6, Body(Gzip, "lines", SoundRecords(3)), 1),
      Object(4, 6, Body(Gzip, "object", SoundRecords(1)), 2)>>

PoolFeeds ==
    {[Feed(discovery, Utc, 4, 6, Document("gzip", "auto"), FourObjects(sizes)) EXCEPT !.inclusive = first] :
       discovery \in {"time_partitioned", "full_prefix"}, first \in BOOLEAN,
       sizes \in {<<1, 1>>, <<3, 2>>, <<4, 1>>, <<1, 5>>}}

(* Nothing but an empty window: a bound before start_at. *)
EmptyFeeds == {Feed("time_partitioned", Utc, 8, 6, Document("gzip", "auto"), Lone(8, 8))}

-----------------------------------------------------------------------------
(* Decoding: an object whose second record varies, before a sound one. *)
Sound(document) ==
    IF ~document.path THEN NoPayload
    ELSE IF document.encoding = "none" THEN Inline
    ELSE Base64(IF document.compressed = "none" THEN Plain ELSE Gzip)

OneOf(document, body) ==
    Feed("full_prefix", Utc, 4, 6, document,
         <<Object(0, 5, body, 1),
           Object(0, 5, Body(Gzip, "array", <<Record(Sound(document))>>), 1)>>)

PayloadFeeds ==
    UNION {{OneOf(document, Body(Gzip, "array", <<Record(Sound(document)), record>>)) :
               record \in {Record(payload) : payload \in Payloads} \cup {NotAnObject}} :
             document \in {Document("gzip", "auto"), CloudEvents("none", "none"),
                           CloudEvents("base64", "none"), CloudEvents("base64", "auto"),
                           CloudEvents("none", "gzip")}}

FramingFeeds ==
    {OneOf(Document(compression, framing), Body(outer, form, SoundRecords(IF form = "object" THEN 1 ELSE 2))) :
       compression \in {"none", "gzip", "auto"}, framing \in {"auto", "array", "object", "jsonl"},
       outer \in Streams, form \in {"array", "object", "lines", "garbled"}}

-----------------------------------------------------------------------------
(* Result sets of one column: identifiers, or instants near and far. *)
Cells(values) == UNION {[1..n -> values] : n \in 0..5}

ResultSet(kind, declared, cells) ==
    [Feed("full_prefix", Utc, 4, 6, Document("none", "auto"), <<>>)
       EXCEPT !.kind = kind, !.declared = declared, !.cells = cells]

CursorFeeds ==
    {ResultSet("snowflake", declared, cells) :
       declared \in {"integer", NoSchema}, cells \in Cells({Null, <<"number", 1>>, <<"number", 3>>})}
    \cup
    {ResultSet("snowflake", declared, cells) :
       declared \in {"timestamp_ns", NoSchema}, cells \in Cells({Null, <<"time", 1>>, <<"time", 3>>})}

WideFeeds == {ResultSet("snowflake", "integer", cells) : cells \in Cells({Null, <<"number", 1>>, <<"number", 3>>})}

AllFeeds == WalkFeeds \cup PoolFeeds \cup EmptyFeeds \cup PayloadFeeds \cup FramingFeeds \cup CursorFeeds
=============================================================================
