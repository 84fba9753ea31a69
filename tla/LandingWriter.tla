---------------------------- MODULE LandingWriter ----------------------------
(***************************************************************************)
(* landing.py: the part files and the manifest of one landing run, and how *)
(* a batch is conformed to the schema the run has pinned.                  *)
(*                                                                         *)
(* A row has one column of interest, `value`: <<"number", n>>,             *)
(* <<"time", n>>, <<"text", n>> or Null.  Arrow types are told apart by    *)
(* what they hold: the safe cast of a value to a type that does not hold   *)
(* it raises.                                                              *)
(***************************************************************************)
EXTENDS Integers, Sequences

CONSTANTS
    NoSchema,
    NanosMax    \* the last instant a timestamp in nanoseconds can hold

VARIABLES
    schema,     \* type pinned by the first batch, or NoSchema
    drift,      \* schema_drift
    parts,      \* the part files in S3: their own type and their rows
    rowCount,
    fileCount,
    manifest    \* _manifest.json, or NoSchema while there is none

writerVars == <<schema, drift, parts, rowCount, fileCount, manifest>>

Null == <<"null", 0>>

Types == {"null", "integer", "timestamp_ns", "timestamp_us", "string"}

ASSUME WriterConstants == NanosMax \in Nat /\ NoSchema \notin Types

Holds(type, v) ==
    \/ v = Null
    \/ type = "string"
    \/ type = "integer" /\ v[1] = "number"
    \/ type = "timestamp_us" /\ v[1] = "time"
    \/ type = "timestamp_ns" /\ v[1] = "time" /\ v[2] <= NanosMax

Fits(rows, type) == \A i \in DOMAIN rows : Holds(type, rows[i].value)

(* What from_pandas() infers: the narrowest type that holds the batch. *)
Narrowest == <<"null", "integer", "timestamp_ns", "timestamp_us", "string">>

Inferred(rows) ==
    Narrowest[CHOOSE i \in DOMAIN Narrowest :
                 /\ Fits(rows, Narrowest[i])
                 /\ \A j \in 1..(i - 1) : ~Fits(rows, Narrowest[j])]

(* A column of nothing but NULL is pinned as text, which holds whatever     *)
(* comes later.                                                             *)
NotPromoted(type) == type

Promoted(type) == IF type = "null" THEN "string" ELSE type

InitWriter ==
    /\ schema = NoSchema
    /\ drift = FALSE
    /\ parts = <<>>
    /\ rowCount = 0
    /\ fileCount = 0
    /\ manifest = NoSchema

(* _to_arrow(): the schema of the run is the source's declaration or, for   *)
(* want of one, what the first batch shows.                                 *)
Pinned(rows, declared) ==
    IF schema # NoSchema THEN schema
    ELSE IF declared # NoSchema THEN declared
    ELSE Promoted(Inferred(rows))

(* Converted directly, or inferred and safely cast, a batch that the pinned *)
(* type holds lands as that type.  One that it does not hold lands as its   *)
(* own and marks the run.                                                   *)
Conforms(rows, type) == Fits(rows, type)

WriteBatch(rows, declared) ==
    LET pinned == Pinned(rows, declared)
        type == IF Conforms(rows, pinned) THEN pinned ELSE Inferred(rows)
    IN  /\ rows # <<>>
        /\ schema' = pinned
        /\ drift' = (drift \/ ~Conforms(rows, pinned))
        /\ parts' = Append(parts, [type |-> type, rows |-> rows])
        /\ rowCount' = rowCount + Len(rows)
        /\ fileCount' = fileCount + 1
        /\ UNCHANGED manifest

(* _schema_manifest(): nothing for a run without rows or with drift. *)
PinnedWhateverDrifted == schema

SchemaManifest == IF drift THEN NoSchema ELSE schema

WriteManifest ==
    /\ manifest' = [rows |-> rowCount, files |-> fileCount,
                    schema |-> SchemaManifest, drift |-> drift]
    /\ UNCHANGED <<schema, drift, parts, rowCount, fileCount>>

-----------------------------------------------------------------------------
WriterTypeOK ==
    /\ schema \in (Types \ {"null"}) \cup {NoSchema}
    /\ drift \in BOOLEAN
    /\ \A i \in DOMAIN parts : parts[i].type \in Types
    /\ rowCount \in Nat
    /\ fileCount = Len(parts)

RowsIn(files) ==
    LET sum[i \in 0..Len(files)] == IF i = 0 THEN 0 ELSE sum[i - 1] + Len(files[i].rows)
    IN  sum[Len(files)]

(* _schema_manifest() and _cast_to_schema(), docstrings: a manifest claims  *)
(* a schema only if every part file of the run has it and holds its values  *)
(* untruncated; without a schema it says whether that is for want of rows   *)
(* or for drift; and its counts are those of the files.                     *)
ManifestDescribesParts ==
    /\ \A i \in DOMAIN parts : Fits(parts[i].rows, parts[i].type)
    /\ manifest # NoSchema =>
         /\ manifest.files = Len(parts)
         /\ manifest.rows = RowsIn(parts)
         /\ manifest.schema # NoSchema => \A i \in DOMAIN parts : parts[i].type = manifest.schema
         /\ manifest.schema = NoSchema => (parts = <<>> \/ manifest.drift)
         /\ manifest.drift => \E i \in DOMAIN parts : parts[i].type # schema
=============================================================================
