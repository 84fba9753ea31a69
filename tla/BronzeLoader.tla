----------------------------- MODULE BronzeLoader -----------------------------
(***************************************************************************)
(* One table's Bronze load: load_table_runs() of bronze/loader.py over the *)
(* landing manifests, the processed-runs table in DynamoDB and Athena.     *)
(*                                                                         *)
(* A pass lists the committed runs, creates the Bronze table if the        *)
(* catalog has none, reads which runs are already recorded, and then, run  *)
(* by run and oldest first, registers the run's partition, waits for its   *)
(* MERGE and records it.  Runs commit while a pass is under way, a pass    *)
(* may die anywhere and leave its MERGE running, two passes may overlap,   *)
(* and an operator may drop the table between passes.                      *)
(***************************************************************************)
EXTENDS Integers, FiniteSets

CONSTANTS
    Loaders,        \* passes that may be under way at once
    Runs,           \* landing runs, numbered in (ingest_date, run_id) order
    Keys,           \* primary key + watermark pairs
    UseBookkeeping, \* FALSE: NullProcessedRunStore, nothing is recorded
    MaxFailures,    \* bound on passes that die or hit an AWS error
    MaxDrops,       \* bound on drops of the Bronze table
    Nobody          \* owner of a statement whose pass is gone

ASSUME LoaderConstants ==
    /\ Runs \subseteq Int
    /\ UseBookkeeping \in BOOLEAN
    /\ MaxFailures \in Nat
    /\ MaxDrops \in Nat
    /\ Nobody \notin Loaders

VARIABLES
    manifest,   \* landing: the state of each run's _manifest.json
    rows,       \* landing: keys of the rows each run landed
    exists,     \* the Bronze table is in the catalog
    copies,     \* how many Bronze rows carry each key
    processed,  \* DynamoDB: run ids recorded as merged
    partitions, \* run partitions registered on the landing table
    statements, \* MERGE statements Athena is running
    failures,   \* passes that have died so far
    drops,      \* times the table has been dropped
    pc,         \* per pass: the next step of load_table_runs()
    listed,     \* runs, as discover_runs() returned them
    created,    \* bronze_created
    todo        \* runs the loop has still to deal with

landing == <<manifest, rows>>
bronze == <<exists, copies>>
bounds == <<failures, drops>>
locals == <<pc, listed, created, todo>>
vars == <<landing, bronze, processed, partitions, statements, bounds, locals>>

Steps == {"idle", "refuse", "columns", "create", "bookkeeping", "loop", "submit", "await", "mark"}
Merges == [owner : Loaders \cup {Nobody}, rows : SUBSET Keys, stale : BOOLEAN]

Committed == {n \in Runs : manifest[n] \in {"clean", "drifted"}}
Drifted == {n \in Runs : manifest[n] = "drifted"}
Content == {k \in Keys : copies[k] > 0}

Init ==
    /\ manifest = [n \in Runs |-> "none"]
    /\ rows = [n \in Runs |-> {}]
    /\ exists = FALSE
    /\ copies = [k \in Keys |-> 0]
    /\ processed = {}
    /\ partitions = {}
    /\ statements = {}
    /\ failures = 0
    /\ drops = 0
    /\ pc = [l \in Loaders |-> "idle"]
    /\ listed = [l \in Loaders |-> {}]
    /\ created = [l \in Loaders |-> FALSE]
    /\ todo = [l \in Loaders |-> {}]

-----------------------------------------------------------------------------
(* Landing.  Runs commit in any order; lookback and retried windows land    *)
(* the same keys again; a window without changes commits an empty run.      *)
CommitRun(n, keys) ==
    /\ manifest[n] = "none"
    /\ \/ manifest' = [manifest EXCEPT ![n] = "clean"]
       \/ keys # {} /\ manifest' = [manifest EXCEPT ![n] = "drifted"]
    /\ rows' = [rows EXCEPT ![n] = keys]
    /\ UNCHANGED <<bronze, processed, partitions, statements, bounds, locals>>

(* An operator deletes a drifted prefix, as the refusal asks for. *)
DeleteDrifted(n) ==
    /\ manifest[n] = "drifted"
    /\ manifest' = [manifest EXCEPT ![n] = "deleted"]
    /\ UNCHANGED <<rows, bronze, processed, partitions, statements, bounds, locals>>

(* delete_empty_landing_runs.py sweeps the runs that landed nothing. *)
SweepEmpty(n) ==
    /\ manifest[n] = "clean"
    /\ rows[n] = {}
    /\ manifest' = [manifest EXCEPT ![n] = "deleted"]
    /\ UNCHANGED <<rows, bronze, processed, partitions, statements, bounds, locals>>

-----------------------------------------------------------------------------
Goto(l, step) == pc' = [pc EXCEPT ![l] = step]

(* load_table_runs() returns or raises: its locals are gone. *)
ReturnKeepingCreated(l) ==
    /\ Goto(l, "idle")
    /\ listed' = [listed EXCEPT ![l] = {}]
    /\ todo' = [todo EXCEPT ![l] = {}]
    /\ UNCHANGED created

Return(l) ==
    /\ Goto(l, "idle")
    /\ listed' = [listed EXCEPT ![l] = {}]
    /\ created' = [created EXCEPT ![l] = FALSE]
    /\ todo' = [todo EXCEPT ![l] = {}]

Discover(l) ==
    /\ pc[l] = "idle"
    /\ Goto(l, IF Drifted = {} THEN "columns" ELSE "refuse")
    /\ listed' = [listed EXCEPT ![l] = Committed]
    /\ UNCHANGED <<landing, bronze, processed, partitions, statements, bounds, created, todo>>

RefuseDrifted(l) ==
    /\ pc[l] = "refuse"
    /\ Return(l)
    /\ UNCHANGED <<landing, bronze, processed, partitions, statements, bounds>>

(* The union of the manifests' schemas; an empty run's manifest has none. *)
HasColumns(l) == \E n \in listed[l] : rows[n] # {}

RefuseNoColumns(l) ==
    /\ pc[l] = "columns"
    /\ listed[l] # {}
    /\ ~HasColumns(l)
    /\ Return(l)
    /\ UNCHANGED <<landing, bronze, processed, partitions, statements, bounds>>

(* evolve_table() looks the Bronze table up; the CREATE is a later step.    *)
FindTable(l) ==
    /\ pc[l] = "columns"
    /\ HasColumns(l)
    /\ Goto(l, IF exists THEN "bookkeeping" ELSE "create")
    /\ created' = [created EXCEPT ![l] = ~exists]
    /\ UNCHANGED <<landing, bronze, processed, partitions, statements, bounds, listed, todo>>

(* CREATE TABLE IF NOT EXISTS: an overlapping pass may have been first. *)
CreateTable(l) ==
    /\ pc[l] = "create"
    /\ exists' = TRUE
    /\ Goto(l, "bookkeeping")
    /\ UNCHANGED <<landing, copies, processed, partitions, statements, bounds, listed, created, todo>>

(* A table created a moment ago is empty, whatever the bookkeeping says.    *)
TrustAlways(l) == processed

AlreadyProcessed(l) == IF created[l] THEN {} ELSE processed

ReadProcessed(l) ==
    /\ pc[l] = "bookkeeping"
    /\ todo' = [todo EXCEPT ![l] = listed[l] \ AlreadyProcessed(l)]
    /\ Goto(l, "loop")
    /\ UNCHANGED <<landing, bronze, processed, partitions, statements, bounds, listed, created>>

-----------------------------------------------------------------------------
(* The loop over the runs, oldest first. *)
IsCurrent(l, n) == n \in todo[l] /\ \A m \in todo[l] : n <= m

MarkProcessed(l, n) ==
    /\ processed' = IF UseBookkeeping THEN processed \cup {n} ELSE processed
    /\ todo' = [todo EXCEPT ![l] = @ \ {n}]

RecordEmpty(l, n) ==
    /\ pc[l] = "loop"
    /\ IsCurrent(l, n)
    /\ rows[n] = {}
    /\ MarkProcessed(l, n)
    /\ UNCHANGED <<landing, bronze, partitions, statements, bounds, pc, listed, created>>

AddPartition(l, n) ==
    /\ pc[l] = "loop"
    /\ IsCurrent(l, n)
    /\ rows[n] # {}
    /\ partitions' = partitions \cup {n}
    /\ Goto(l, "submit")
    /\ UNCHANGED <<landing, bronze, processed, statements, bounds, listed, created, todo>>

PartitionNotAwaited(l) == pc[l] \in {"loop", "submit"}

PartitionAdded(l) == pc[l] = "submit"

(* The statement reads the partitions the landing table has: a run that is  *)
(* not registered merges nothing and succeeds.                              *)
SubmitMerge(l, n) ==
    /\ PartitionAdded(l)
    /\ IsCurrent(l, n)
    /\ statements' = statements \cup
         {[owner |-> l, rows |-> IF n \in partitions THEN rows[n] ELSE {}, stale |-> FALSE]}
    /\ Goto(l, "await")
    /\ UNCHANGED <<landing, bronze, processed, partitions, bounds, listed, created, todo>>

MergeNotAwaited(l) == pc[l] \in {"await", "mark"}

MergeSucceeded(l) == pc[l] = "mark"

RecordMerged(l, n) ==
    /\ MergeSucceeded(l)
    /\ IsCurrent(l, n)
    /\ MarkProcessed(l, n)
    /\ Goto(l, "loop")
    /\ UNCHANGED <<landing, bronze, partitions, statements, bounds, listed, created>>

Succeeds(l) ==
    \/ pc[l] = "columns" /\ listed[l] = {}
    \/ pc[l] = "loop" /\ todo[l] = {}

ReportSuccess(l) ==
    /\ Succeeds(l)
    /\ Return(l)
    /\ UNCHANGED <<landing, bronze, processed, partitions, statements, bounds>>

-----------------------------------------------------------------------------
(* Athena and Iceberg: a MERGE commits against the snapshot it read, or     *)
(* fails; one that inserts nothing leaves the snapshot as it is.            *)
InsertedUnmatched(s) == s.rows

Inserted(s) == s.rows \ Content

Stale(set) == {[s EXCEPT !.stale = TRUE] : s \in set}

MergeCommits(s) ==
    /\ ~s.stale
    /\ copies' = [k \in Keys |-> IF k \in Inserted(s) THEN copies[k] + 1 ELSE copies[k]]
    /\ statements' = IF Inserted(s) = {} THEN statements \ {s} ELSE Stale(statements \ {s})
    /\ pc' = [l \in Loaders |-> IF l = s.owner THEN "mark" ELSE pc[l]]
    /\ UNCHANGED <<landing, exists, processed, partitions, bounds, listed, created, todo>>

(* The pass that waits for it gets FAILED and raises. *)
MergeConflicts(s) ==
    /\ s.stale
    /\ statements' = statements \ {s}
    /\ IF s.owner = Nobody THEN UNCHANGED locals ELSE Return(s.owner)
    /\ UNCHANGED <<landing, bronze, processed, partitions, bounds>>

(* A pass dies, an AWS call raises, or the wait for a statement times out.  *)
(* Its MERGE is cancelled, or goes on without anybody waiting for it.       *)
Orphaned(l) == {[s EXCEPT !.owner = IF @ = l THEN Nobody ELSE @] : s \in statements}

Cancelled(l) == {s \in statements : s.owner # l}

Fail(l) ==
    /\ pc[l] # "idle"
    /\ failures < MaxFailures
    /\ failures' = failures + 1
    /\ statements' \in {Orphaned(l), Cancelled(l)}
    /\ Return(l)
    /\ UNCHANGED <<landing, bronze, processed, partitions, drops>>

(* An operator drops the table, to relocate it or to change its layout.     *)
DropTable ==
    /\ exists
    /\ drops < MaxDrops
    /\ \A l \in Loaders : pc[l] = "idle"
    /\ drops' = drops + 1
    /\ exists' = FALSE
    /\ copies' = [k \in Keys |-> 0]
    /\ statements' = Stale(statements)
    /\ UNCHANGED <<landing, processed, partitions, failures, locals>>

-----------------------------------------------------------------------------
Load(l) ==
    \/ Discover(l)
    \/ RefuseDrifted(l)
    \/ RefuseNoColumns(l)
    \/ FindTable(l)
    \/ CreateTable(l)
    \/ ReadProcessed(l)
    \/ \E n \in Runs : RecordEmpty(l, n)
    \/ \E n \in Runs : AddPartition(l, n)
    \/ \E n \in Runs : SubmitMerge(l, n)
    \/ \E n \in Runs : RecordMerged(l, n)
    \/ ReportSuccess(l)

Athena == \E s \in statements : MergeCommits(s) \/ MergeConflicts(s)

Next ==
    \/ \E n \in Runs, keys \in SUBSET Keys : CommitRun(n, keys)
    \/ \E n \in Runs : DeleteDrifted(n) \/ SweepEmpty(n)
    \/ \E l \in Loaders : Load(l) \/ Fail(l)
    \/ Athena
    \/ DropTable

Spec == Init /\ [][Next]_vars

(* The schedule keeps starting passes, a pass keeps taking steps, and       *)
(* Athena finishes every statement.  Nothing makes landing commit a run.    *)
Fairness == (\A l \in Loaders : WF_vars(Load(l))) /\ WF_vars(Athena)

FairSpec == Spec /\ Fairness
-----------------------------------------------------------------------------
(* Between passes nothing of a pass is left. *)
LocalsGone ==
    \A l \in Loaders : pc[l] = "idle" => listed[l] = {} /\ todo[l] = {} /\ ~created[l]

TypeOK ==
    /\ manifest \in [Runs -> {"none", "clean", "drifted", "deleted"}]
    /\ rows \in [Runs -> SUBSET Keys]
    /\ exists \in BOOLEAN
    /\ copies \in [Keys -> Nat]
    /\ processed \subseteq Runs
    /\ partitions \subseteq Runs
    /\ statements \subseteq Merges
    /\ failures \in Nat
    /\ drops \in Nat
    /\ pc \in [Loaders -> Steps]
    /\ listed \in [Loaders -> SUBSET Runs]
    /\ created \in [Loaders -> BOOLEAN]
    /\ todo \in [Loaders -> SUBSET Runs]
    /\ LocalsGone

(* merge_sql(): a row that lookback or a retry landed again, an orphaned    *)
(* statement, an overlapping pass or a re-merge after a crash never puts    *)
(* the same primary key + watermark into Bronze twice.                      *)
NoDuplicates == \A k \in Keys : copies[k] <= 1

(* A pass that is about to report SUCCESS has every row of every run it     *)
(* listed in Bronze: those it skipped because of the bookkeeping too.       *)
SuccessIsComplete ==
    \A l \in Loaders : Succeeds(l) => \A n \in listed[l] : rows[n] \subseteq Content

(* Every run that landed rows reaches Bronze, whatever passes fail, unless  *)
(* a drifted run that nobody deletes is blocking the table.                 *)
EventuallyMerged ==
    \A n \in Runs :
        (n \in Committed /\ rows[n] # {}) ~> (rows[n] \subseteq Content \/ Drifted # {})

(* loader.py, on a committed run that landed zero rows: "Record it so it is *)
(* not reconsidered, but skip the merge".                                   *)
EmptyRunsRecorded ==
    \A n \in Runs :
        (n \in Committed /\ rows[n] = {}) ~> (n \in processed \/ n \notin Committed \/ Drifted # {})

-----------------------------------------------------------------------------
(* What the proofs need beside TypeOK: the inductive invariant.             *)

Written(n) == manifest[n] # "none"

(* Rows are fixed by the manifest, and passes and statements only ever      *)
(* concern runs whose manifest has been written.                            *)
RowsFixed ==
    /\ \A n \in Runs : Written(n) \/ rows[n] = {}
    /\ \A l \in Loaders : \A n \in listed[l] \cup todo[l] : Written(n)
    /\ \A s \in statements : \E n \in Runs : Written(n) /\ s.rows = rows[n]

(* The one statement a pass waits for reads the whole of its current run.   *)
PartitionReady(l) ==
    pc[l] = "submit" => \A n \in Runs : IsCurrent(l, n) => n \in partitions

OwnStatement(l) ==
    \A s \in statements : s.owner = l =>
        /\ pc[l] = "await"
        /\ \A n \in Runs : IsCurrent(l, n) => s.rows = rows[n]
        /\ \A t \in statements : t.owner = l => t = s

(* Once it has succeeded, the current run is in Bronze. *)
CurrentMerged(l) ==
    pc[l] = "mark" => \A n \in Runs : IsCurrent(l, n) => rows[n] \subseteq Content

IInv ==
    /\ TypeOK
    /\ RowsFixed
    /\ \A l \in Loaders : PartitionReady(l) /\ OwnStatement(l) /\ CurrentMerged(l)

(* Where no table can be dropped under its bookkeeping: what is recorded,   *)
(* and what a pass has dealt with, is in Bronze.                            *)
InBronze(n) == rows[n] \subseteq Content

RecordedMerged ==
    /\ UseBookkeeping \/ processed = {}
    /\ \A n \in processed : Written(n) /\ InBronze(n)

DealtWith(l) ==
    pc[l] \in {"loop", "submit", "await", "mark"} =>
        \A n \in listed[l] \ todo[l] : InBronze(n)

BooksInv == RecordedMerged /\ \A l \in Loaders : DealtWith(l)

-----------------------------------------------------------------------------
(* The loader implements what Bronze promises its readers. *)
Promise == INSTANCE BronzeTable WITH content <- Content, recorded <- processed

ImplementsBronzeTable == Promise!Spec
=============================================================================
