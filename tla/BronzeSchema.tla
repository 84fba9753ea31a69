----------------------------- MODULE BronzeSchema -----------------------------
(***************************************************************************)
(* One Bronze table's schema: _ensure_tables(), evolve_table() and         *)
(* apply_catalog_overrides() around the merges of load_table_runs().       *)
(*                                                                         *)
(* A pass defines the landing table and the Bronze table from the union of *)
(* the runs' schemas, gives consumer-facing columns their catalog types,   *)
(* merges run by run and gives the types again after every merge, because  *)
(* each Athena commit rewrites the catalog entry.  The entry also holds    *)
(* the pointer to the current Iceberg metadata.  A pass may die between    *)
(* any two steps and leave a MERGE that commits later; passes do not       *)
(* overlap here (BronzeLoader is about those that do).                     *)
(***************************************************************************)
EXTENDS Integers, FiniteSets

CONSTANTS
    Runs,         \* landing runs, oldest first
    Columns,      \* column names
    Match,        \* the primary key and watermark columns, as one
    Types,        \* Athena column types
    Overridden,   \* columns with an entry in catalog_column_types
    CatalogType,  \* the type that consumers are to see for them
    Absent,       \* no such column
    MaxFailures,  \* bound on passes that die or hit an AWS error
    MaxOperations \* bound on what operators do to the Bronze table

ASSUME SchemaConstants ==
    /\ Runs \subseteq Int
    /\ Match \in Columns \ Overridden
    /\ Overridden \subseteq Columns
    /\ CatalogType \notin Types
    /\ Absent \notin Types \cup {CatalogType}
    /\ MaxFailures \in Nat
    /\ MaxOperations \in Nat

(* Runs are listed, so any of them have a newest. *)
ASSUME NewestExists ==
    \A set \in SUBSET Runs : set # {} => \E newest \in set : \A m \in set : m <= newest

VARIABLES
    schema,     \* manifests: the columns each run landed, none when it is empty
    committed,  \* runs whose manifest is in the landing bucket
    external,   \* columns of the landing external table
    iceberg,    \* columns in the Iceberg metadata
    snapshot,   \* the metadata file the last Athena commit wrote
    cleared,    \* the Bronze prefix has been deleted from S3
    entry,      \* Glue catalog entry: columns, metadata_location, VersionId
    held,       \* runs whose rows are in Bronze
    processed,  \* DynamoDB: runs recorded as merged
    orphans,    \* runs whose MERGE outlived its pass
    failures,   \* passes that have died so far
    operations, \* operations on the Bronze table so far
    pc,         \* the next step of the pass
    listed,     \* runs, as discover_runs() returned them
    todo,       \* runs the loop has still to deal with
    seen        \* the entry as apply_catalog_overrides() read it

landing == <<schema, committed>>
bronze == <<iceberg, snapshot, cleared, entry, held>>
bounds == <<failures, operations>>
locals == <<pc, listed, todo, seen>>
vars == <<landing, external, bronze, processed, orphans, bounds, locals>>

Steps == {"idle", "landing", "metadata", "bronze", "read", "update", "next", "await", "mark"}

Schemas == [Columns -> Types \cup {Absent}]
NoColumns == [c \in Columns |-> Absent]
NoEntry == [columns |-> NoColumns, pointer |-> 0, version |-> 0]

Init ==
    /\ schema = [n \in Runs |-> NoColumns]
    /\ committed = {}
    /\ external = NoColumns
    /\ iceberg = NoColumns
    /\ snapshot = 0
    /\ cleared = FALSE
    /\ entry = NoEntry
    /\ held = {}
    /\ processed = {}
    /\ orphans = {}
    /\ failures = 0
    /\ operations = 0
    /\ pc = "idle"
    /\ listed = {}
    /\ todo = {}
    /\ seen = NoEntry

-----------------------------------------------------------------------------
(* Landing commits runs of whatever shape the source has, and an operator   *)
(* deletes the ones that cannot be merged.  Run ids are never reused.       *)
CommitRun(n, s) ==
    /\ n \notin committed
    /\ schema[n] = NoColumns
    /\ schema' = [schema EXCEPT ![n] = s]
    /\ committed' = committed \cup {n}
    /\ UNCHANGED <<external, bronze, processed, orphans, bounds, locals>>

DeleteRun(n) ==
    /\ n \in committed
    /\ schema[n] # NoColumns
    /\ committed' = committed \ {n}
    /\ UNCHANGED <<schema, external, bronze, processed, orphans, bounds, locals>>

-----------------------------------------------------------------------------
Goto(step) == pc' = step

(* load_table_runs() returns or raises: its locals are gone. *)
Return ==
    /\ Goto("idle")
    /\ listed' = {}
    /\ todo' = {}
    /\ seen' = NoEntry

(* union_manifest_schemas(): the newest run that has the column decides.    *)
Having(set, c) == {n \in set : schema[n][c] # Absent}

Newest(set) == CHOOSE n \in set : \A m \in set : m <= n

NewestRunOnly(set) == schema[Newest(set)]

Union(set) ==
    [c \in Columns |-> IF Having(set, c) = {} THEN Absent ELSE schema[Newest(Having(set, c))][c]]

Disagree(set) ==
    \E c \in Columns : \E n, m \in Having(set, c) : schema[n][c] # schema[m][c]

(* diff_columns(): columns that have another type already.  One that carries *)
(* its override is a match.                                                 *)
Changed(existing, desired) ==
    {c \in Columns : Absent \notin {existing[c], desired[c]} /\ existing[c] # desired[c]}

NoneCarrying(existing) == {}

Carrying(existing) == {c \in Overridden : existing[c] = CatalogType}

(* CREATE from the union, or ALTER TABLE ADD COLUMNS with what is missing.  *)
Extended(existing, desired) ==
    [c \in Columns |-> IF existing[c] = Absent THEN desired[c] ELSE existing[c]]

IsCurrent(n) == n \in todo /\ \A m \in todo : n <= m

(* Without any run the pass is over, and has succeeded.                     *)
Discover ==
    /\ pc = "idle"
    /\ listed' = committed
    /\ Goto(IF committed = {} THEN "idle" ELSE "landing")
    /\ UNCHANGED <<landing, external, bronze, processed, orphans, bounds, todo, seen>>

(* What a pass refuses: runs that disagree or record no schema, a type      *)
(* change in either table, metadata that is gone, a run without its keys.   *)
MetadataGone == cleared

Refused ==
    \/ /\ pc = "landing"
       /\ \/ Disagree(listed)
          \/ Union(listed) = NoColumns
          \/ Changed(external, Union(listed)) # {}
    \/ pc = "metadata" /\ MetadataGone
    \/ pc = "bronze" /\ Changed(entry.columns, Union(listed)) \ Carrying(entry.columns) # {}
    \/ pc = "next" /\ \E n \in Runs :
          IsCurrent(n) /\ schema[n] # NoColumns /\ schema[n][Match] = Absent

Refuse ==
    /\ Refused
    /\ Return
    /\ UNCHANGED <<landing, external, bronze, processed, orphans, bounds>>

DefineLanding ==
    /\ pc = "landing"
    /\ ~Refused
    /\ external' = Extended(external, Union(listed))
    /\ Goto("metadata")
    /\ UNCHANGED <<landing, bronze, processed, orphans, bounds, listed, todo, seen>>

CheckMetadata ==
    /\ pc = "metadata"
    /\ ~Refused
    /\ Goto("bronze")
    /\ UNCHANGED <<landing, external, bronze, processed, orphans, bounds, listed, todo, seen>>

(* Athena commits to the Iceberg table: a new metadata file, and a catalog  *)
(* entry that points to it and has the Iceberg columns again.               *)
AthenaCommit(columns) ==
    /\ iceberg' = columns
    /\ snapshot' = snapshot + 1
    /\ entry' = [columns |-> columns, pointer |-> snapshot + 1, version |-> entry.version + 1]

(* Such a commit resets the overrides, so applying them is the next step.   *)
NotApplied == "next"

AfterCommit == "read"

(* The columns are compared with the catalog's; a table created here is     *)
(* empty, so all runs are merged again.  Only this pass records runs.       *)
NeedsAlter == \E c \in Columns : entry.columns[c] = Absent /\ Union(listed)[c] # Absent

DefineBronze ==
    /\ pc = "bronze"
    /\ ~Refused
    /\ IF NeedsAlter THEN AthenaCommit(Extended(iceberg, Union(listed)))
                     ELSE UNCHANGED <<iceberg, snapshot, entry>>
    /\ todo' = IF entry.columns = NoColumns THEN listed ELSE listed \ processed
    /\ Goto(AfterCommit)
    /\ UNCHANGED <<landing, external, cleared, held, processed, orphans, bounds, listed, seen>>

-----------------------------------------------------------------------------
(* apply_catalog_overrides(): GetTable, then UpdateTable under the version  *)
(* that was read, with everything but the column types as it was read.      *)
OverridesAddColumns(columns) == [c \in Columns |-> IF c \in Overridden THEN CatalogType ELSE columns[c]]

WithOverrides(columns) ==
    [c \in Columns |-> IF c \in Overridden /\ columns[c] # Absent THEN CatalogType ELSE columns[c]]

ReadEntry ==
    /\ pc = "read"
    /\ seen' = entry
    /\ Goto(IF WithOverrides(entry.columns) = entry.columns THEN "next" ELSE "update")
    /\ UNCHANGED <<landing, external, bronze, processed, orphans, bounds, listed, todo>>

AnyVersion == TRUE

VersionUnchanged == entry.version = seen.version

UpdateEntry ==
    /\ pc = "update"
    /\ VersionUnchanged
    /\ entry' = [columns |-> WithOverrides(seen.columns), pointer |-> seen.pointer,
                 version |-> entry.version + 1]
    /\ Goto("next")
    /\ UNCHANGED <<landing, external, iceberg, snapshot, cleared, held, processed, orphans, bounds,
                   listed, todo, seen>>

UpdateConflict ==
    /\ pc = "update"
    /\ ~VersionUnchanged
    /\ Return
    /\ UNCHANGED <<landing, external, bronze, processed, orphans, bounds>>

-----------------------------------------------------------------------------
(* The loop over the runs, oldest first. *)
RecordEmpty(n) ==
    /\ pc = "next"
    /\ IsCurrent(n)
    /\ schema[n] = NoColumns
    /\ processed' = processed \cup {n}
    /\ todo' = todo \ {n}
    /\ UNCHANGED <<landing, external, bronze, orphans, bounds, pc, listed, seen>>

SubmitMerge(n) ==
    /\ pc = "next"
    /\ IsCurrent(n)
    /\ schema[n] # NoColumns
    /\ ~Refused
    /\ Goto("await")
    /\ UNCHANGED <<landing, external, bronze, processed, orphans, bounds, listed, todo, seen>>

(* The statement names the run's columns: each must be declared, with the   *)
(* type that was landed, by the table it reads and the one it writes.       *)
Resolves(n) ==
    \A c \in Columns : schema[n][c] # Absent => schema[n][c] = external[c] /\ schema[n][c] = iceberg[c]

(* The rows of a run that is in Bronze or deleted insert nothing, and       *)
(* leave the snapshot and the catalog entry as they are.                    *)
Merge(n) ==
    /\ ~cleared
    /\ Resolves(n)
    /\ IF n \in held \/ n \notin committed
       THEN UNCHANGED bronze
       ELSE /\ AthenaCommit(iceberg)
            /\ held' = held \cup {n}
            /\ UNCHANGED cleared

MergeCommits ==
    /\ pc = "await"
    /\ \E n \in Runs : IsCurrent(n) /\ Merge(n)
    /\ Goto("mark")
    /\ UNCHANGED <<landing, external, processed, orphans, bounds, listed, todo, seen>>

OrphanCommits(n) ==
    /\ n \in orphans
    /\ Merge(n)
    /\ orphans' = orphans \ {n}
    /\ UNCHANGED <<landing, external, processed, bounds, locals>>

RecordMerged(n) ==
    /\ pc = "mark"
    /\ IsCurrent(n)
    /\ processed' = processed \cup {n}
    /\ todo' = todo \ {n}
    /\ Goto(AfterCommit)
    /\ UNCHANGED <<landing, external, bronze, orphans, bounds, listed, seen>>

ReportSuccess ==
    /\ pc = "next"
    /\ todo = {}
    /\ Return
    /\ UNCHANGED <<landing, external, bronze, processed, orphans, bounds>>

(* The pass dies or an AWS call raises; its MERGE may go on.                *)
Fail ==
    /\ pc # "idle"
    /\ failures < MaxFailures
    /\ failures' = failures + 1
    /\ \/ UNCHANGED orphans
       \/ pc = "await" /\ orphans' = orphans \cup {n \in Runs : IsCurrent(n)}
    /\ Return
    /\ UNCHANGED <<landing, external, bronze, processed, operations>>

-----------------------------------------------------------------------------
(* Operators, between passes: clearing the prefix in S3 leaves the catalog  *)
(* entry behind, delete-table removes it.  Here its bookkeeping goes with   *)
(* the table (BronzeLoader is about the operator who leaves it behind).     *)
Operate ==
    /\ pc = "idle"
    /\ entry.columns # NoColumns
    /\ operations < MaxOperations
    /\ operations' = operations + 1

ClearPrefix ==
    /\ Operate
    /\ ~cleared
    /\ cleared' = TRUE
    /\ UNCHANGED <<landing, external, iceberg, snapshot, entry, held, processed, orphans, failures, locals>>

DeleteTable ==
    /\ Operate
    /\ cleared' = FALSE
    /\ iceberg' = NoColumns
    /\ entry' = [NoEntry EXCEPT !.pointer = snapshot, !.version = entry.version]
    /\ held' = {}
    /\ processed' = {}
    /\ orphans' = {}
    /\ UNCHANGED <<landing, external, snapshot, failures, locals>>

-----------------------------------------------------------------------------
Load ==
    \/ Discover
    \/ Refuse
    \/ DefineLanding
    \/ CheckMetadata
    \/ DefineBronze
    \/ ReadEntry
    \/ UpdateEntry
    \/ UpdateConflict
    \/ \E n \in Runs : RecordEmpty(n) \/ SubmitMerge(n) \/ RecordMerged(n)
    \/ MergeCommits
    \/ ReportSuccess

Next ==
    \/ \E n \in Runs, s \in Schemas : CommitRun(n, s)
    \/ \E n \in Runs : DeleteRun(n)
    \/ Load
    \/ \E n \in Runs : OrphanCommits(n)
    \/ Fail
    \/ ClearPrefix
    \/ DeleteTable

Spec == Init /\ [][Next]_vars

(* The schedule keeps starting passes, and a pass and its MERGE go on.      *)
FairSpec == Spec /\ WF_vars(Load)
-----------------------------------------------------------------------------
TypeOK ==
    /\ schema \in [Runs -> Schemas]
    /\ committed \subseteq Runs
    /\ external \in Schemas
    /\ iceberg \in Schemas
    /\ snapshot \in Nat
    /\ cleared \in BOOLEAN
    /\ {entry, seen} \subseteq
         [columns : [Columns -> Types \cup {CatalogType, Absent}], pointer : Nat, version : Nat]
    /\ held \subseteq Runs
    /\ processed \subseteq Runs
    /\ orphans \subseteq Runs
    /\ failures \in Nat
    /\ operations \in Nat
    /\ pc \in Steps
    /\ listed \subseteq Runs
    /\ todo \subseteq listed
    /\ \A c \in Columns : entry.columns[c] = Absent <=> iceberg[c] = Absent

(* union_manifest_schemas(): a MERGE always finds every column its run      *)
(* landed, as it was landed, in both tables, whatever order the runs gained *)
(* and lost columns in and wherever an earlier pass died: Athena never      *)
(* answers "cannot find source column", HIVE_BAD_DATA or missing metadata.  *)
MergesResolve == pc = "await" => ~cleared /\ \A n \in Runs : IsCurrent(n) => Resolves(n)

(* apply_catalog_overrides(): the optimistic lock keeps a stale UpdateTable *)
(* from rewinding the pointer to the Iceberg metadata.                      *)
PointerNeverRewound == entry.pointer = snapshot

(* Consumers see the declared catalog types whenever a pass reports SUCCESS, *)
(* although every Athena commit, one of an orphaned MERGE included, resets  *)
(* them.                                                                    *)
SuccessLeavesOverrides ==
    pc = "next" /\ todo = {} => WithOverrides(entry.columns) = entry.columns

(* What blocks a table until a person acts. *)
Blocked ==
    \/ cleared
    \/ Disagree(committed)
    \/ Changed(external, Union(committed)) # {}
    \/ Changed(iceberg, Union(committed)) # {}
    \/ \E n \in committed : schema[n] # NoColumns /\ schema[n][Match] = Absent

(* A run with new columns is merged in the end, wherever passes die between *)
(* the two tables' evolution, the merge and the catalog update.             *)
EventuallyMerged ==
    \A n \in Runs :
        n \in committed /\ schema[n] # NoColumns ~> n \in processed \/ n \notin committed \/ Blocked
=============================================================================
