------------------------------ MODULE TableRun ------------------------------
(***************************************************************************)
(* What run_table() does between opening a landing run and committing its  *)
(* checkpoint: it asks the source's generator for a batch, lets the writer *)
(* put it into S3, asks for the next, and writes the manifest when there   *)
(* is none left.  The S3 adapter is S3Extraction; the Snowflake adapter is *)
(* a cursor whose fetches become DataFrames.  Both go on, or fail, beside  *)
(* the writer.                                                             *)
(***************************************************************************)
EXTENDS S3Extraction, LandingWriter

CONSTANT
    FloatExact  \* the last integer up to which a double holds every one

ASSUME FloatExactNat == FloatExact \in Nat

Values == {"null", "number", "time", "text"} \X Int

(* A feed also has the cells of a result set, and the type it declares.     *)
ASSUME CursorsAssumption ==
    \A f \in Feeds :
        /\ f.cells \in Seq(Values)
        /\ f.declared \in (Types \ {"null"}) \cup {NoSchema}

VARIABLES
    fetched,    \* rows fetched from the cursor so far
    status      \* "running", "failed" or "landed"

vars == <<extractionVars, writerVars, fetched, status>>

extractionStill == UNCHANGED <<writerVars, fetched, status>>

Init ==
    /\ InitExtraction
    /\ InitWriter
    /\ fetched = 0
    /\ status = "running"

-----------------------------------------------------------------------------
(* SnowflakeSource.extract(): fetchmany() and pd.DataFrame().  The driver   *)
(* gives Python integers; pandas has no NULL for them, so one NULL makes    *)
(* its batch's column a column of doubles.                                  *)
AsDouble(v) ==
    IF v[1] = "number" /\ v[2] > FloatExact
      THEN <<"number", v[2] - (v[2] % 2)>> ELSE v

Rounds(cells) ==
    /\ \E i \in DOMAIN cells : cells[i] = Null
    /\ \E i \in DOMAIN cells : cells[i][1] = "number"

DataFrame(first, cells) ==
    [i \in DOMAIN cells |->
       [id |-> first + i, bytes |-> 1,
        value |-> IF Rounds(cells) THEN AsDouble(cells[i]) ELSE cells[i]]]

Fetch ==
    LET remaining == SubSeq(feed.cells, fetched + 1, Len(feed.cells))
        cells == SubSeq(remaining, 1, IF Len(remaining) < FetchSize THEN Len(remaining) ELSE FetchSize)
    IN  /\ Running("extract")
        /\ feed.kind # "s3_json"
        /\ cells # <<>>
        /\ out' = DataFrame(fetched, cells)
        /\ fetched' = fetched + Len(cells)
        /\ UNCHANGED <<feed, version, errors, pc, walk, pool, decoding, writerVars, status>>

ResultSetDrained ==
    /\ Running("extract")
    /\ feed.kind # "s3_json"
    /\ fetched = Len(feed.cells)
    /\ pc' = "done"
    /\ UNCHANGED <<feed, version, errors, walk, pool, decoding, out, writerVars, fetched, status>>

FetchFails ==
    /\ Running("extract")
    /\ feed.kind # "s3_json"
    /\ errors < MaxErrors
    /\ errors' = errors + 1
    /\ Abort
    /\ extractionStill

-----------------------------------------------------------------------------
(* The pull loop of run_table(). *)
WritePart ==
    /\ status = "running"
    /\ WriteBatch(out, feed.declared)
    /\ out' = <<>>
    /\ UNCHANGED <<feed, version, errors, pc, walk, pool, decoding, fetched, status>>

(* An upload fails, or the batch carries a reserved lineage column. *)
WriteFails ==
    /\ status = "running"
    /\ out # <<>>
    /\ errors < MaxErrors
    /\ errors' = errors + 1
    /\ Abort
    /\ extractionStill

(* Whatever was raised leaves run_table(): no manifest is ever written. *)
RunFails ==
    /\ status = "running"
    /\ pc = "failed"
    /\ status' = "failed"
    /\ UNCHANGED <<extractionVars, writerVars, fetched>>

ManifestOnFirstPause == pc \in {"extract", "done"}

SourceDrained == pc = "done"

CloseRun ==
    /\ status = "running"
    /\ SourceDrained
    /\ out = <<>>
    /\ WriteManifest
    /\ status' = "landed"
    /\ UNCHANGED <<extractionVars, fetched>>

-----------------------------------------------------------------------------
Pull ==
    \/ Consume /\ extractionStill
    \/ Fetch \/ ResultSetDrained
    \/ WritePart \/ RunFails \/ CloseRun

ReadAhead(i) == Read(i) /\ extractionStill

Terminated == status # "running" /\ UNCHANGED vars

Next ==
    \/ Pull
    \/ \E i \in DOMAIN pending : ReadAhead(i)
    \/ Mishap /\ extractionStill
    \/ FetchFails \/ WriteFails
    \/ Terminated

Spec == Init /\ [][Next]_vars

(* The process runs, and every read of the pool returns or raises.          *)
FairSpec ==
    /\ Spec
    /\ WF_vars(Pull)
    /\ \A i \in 1..Prefetch : WF_vars(ReadAhead(i))
-----------------------------------------------------------------------------
TypeOK ==
    /\ ExtractionTypeOK
    /\ WriterTypeOK
    /\ fetched \in 0..(IF feed.kind = "s3_json" THEN 0 ELSE Len(feed.cells))
    /\ status \in {"running", "failed", "landed"}

(* Where rows are in the run: <<part, row>>, and what is there. *)
Places == UNION {{<<i, j>> : j \in DOMAIN parts[i].rows} : i \in DOMAIN parts}
At(p) == parts[p[1]].rows[p[2]]
Before(p, q) == p[1] < q[1] \/ (p[1] = q[1] /\ p[2] < q[2])

(* An object the walk is for: stamped in the window, in a folder of one of  *)
(* its hours.                                                               *)
InReach(o) ==
    LET object == feed.objects[o]
    IN  /\ feed.discovery = "full_prefix" \/ object.folder \in LocalHours
        /\ feed.low <= feed.high
        /\ object.modified <= feed.high
        /\ object.modified > feed.low \/ (feed.inclusive /\ object.modified = feed.low)

WellFormed(o) == \A i \in DOMAIN feed.objects[o].body.records :
                    Accepts(feed.objects[o].body.records[i], feed.document)

RowsOf(o) == {p \in Places : At(p).id.key = o}

(* README, S3 JSON: a landed run has every object of its window whole and   *)
(* once, each record decoded or the run failed, and every row the content   *)
(* its identity names -- whichever way reads, overwrites and listings       *)
(* interleave, in any timezone.  An object overwritten meanwhile belongs to *)
(* a later window and may be absent, but is never mixed or partial.         *)
WindowLanded ==
    feed.kind = "s3_json" =>
        /\ \A p \in Places : At(p).id.content = At(p).id.etag
        /\ status = "landed" =>
             \A o \in Keys :
                LET ordinals == {At(p).id.ordinal : p \in RowsOf(o)}
                IN  /\ Cardinality(RowsOf(o)) = Cardinality(ordinals)
                    /\ ordinals \in {{}, DOMAIN feed.objects[o].body.records}
                    /\ ordinals # {} => WellFormed(o)
                    /\ InReach(o) /\ version[o] = 1 =>
                         ordinals = DOMAIN feed.objects[o].body.records

(* _prefetched(): "(item, compressed bytes) in listing order, with reads    *)
(* running ahead".  Rows land folder by folder and key by key, although     *)
(* reads finish in any order; so a failed run's parts are a prefix.         *)
Rank(o) == IF feed.discovery = "full_prefix" THEN 0 ELSE
           CHOOSE i \in DOMAIN listed : listed[i] = feed.objects[o].folder

ListingOrder ==
    feed.kind = "s3_json" =>
        \A p, q \in Places : Before(p, q) =>
            LET a == At(p).id  b == At(q).id
            IN  \/ Rank(a.key) < Rank(b.key)
                \/ Rank(a.key) = Rank(b.key) /\ a.key < b.key
                \/ a.key = b.key /\ a.ordinal < b.ordinal

(* extract(), document.batch_bytes: a part has at most FetchSize rows and,  *)
(* if it is of documents and not a single row, at most BatchBytes of data;  *)
(* no part is empty.                                                        *)
PartsBounded ==
    \A i \in DOMAIN parts :
        /\ Len(parts[i].rows) \in 1..FetchSize
        /\ feed.kind = "s3_json" /\ Len(parts[i].rows) > 1 =>
             BytesIn(parts[i].rows) <= BatchBytes

(* _coerce_to_declared(): "Adapting the data rather than loosening the      *)
(* declaration keeps the source's precision, which matters for IDs wider    *)
(* than int64".  Every value in a part file is the one the source has, and  *)
(* a landed run has all of them.                                            *)
ValuesLandExactly ==
    feed.kind # "s3_json" =>
        /\ \A p \in Places : At(p).value = feed.cells[At(p).id]
        /\ status = "landed" => {At(p).id : p \in Places} = DOMAIN feed.cells

(* A run ends: consumer, pool and writer never wait for one another. *)
RunEnds == <>(status # "running")
=============================================================================
