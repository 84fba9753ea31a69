# Verification of data-ingest-aws in TLA+

data-ingest-aws loads tables incrementally into an S3 *landing* area (from
Snowflake, or from S3 prefixes full of JSON) and merges the landed runs into
Iceberg *Bronze* tables with Athena. Its correctness rests on the order of a
few writes to systems that share no transaction: Parquet parts, a manifest, a
DynamoDB checkpoint, Athena statements, a Glue catalog entry and a second
DynamoDB table. Jobs die between any two of those writes, two of them may run
at once, and the source changes all the while. These modules model that, TLC
checks them on small instances, and TLAPS proves the main results for every
value of the constants.

Paths below are relative to the repository root (`src/data_ingest/...` is the
package).

## 1. Inventory

| Component | State it keeps | Operations | Hard part |
|---|---|---|---|
| Landing transaction, `pipeline.py: run_table` | locals of one run | read checkpoint, capture MAX, query, write parts, manifest, commit | order of the six steps, death at each, concurrent executions |
| Snowflake source, `sources/snowflake.py` | a connection, a codec | MAX(watermark), window query, `fetchmany` | rows change between MAX and query; late rows; ties |
| S3 JSON source, `sources/s3_json.py` | `_cap_bound_last_run`; the generator's locals; a pool of reads | clock bound, folder walk, object window, read-ahead, batching | late and early folders, daylight saving, visibility, clock skew, overwrites, reads out of order |
| Checkpoint store, `state.py` | DynamoDB record: checkpoint, version | consistent get, conditional put | lost race, versionless records, lost answers |
| Landing writer, `landing.py`, `manifest.py` | parts and manifest of a run | `write_batch`, `write_manifest` | partial runs, schema pinned by batch 0, drift |
| Landing job, `pipeline.py: run_job` | results per table | start-up checks, window loop, loop over tables | termination, `fail_fast`, what exit 0 promises |
| Bronze job, `bronze/job.py`, `loader.py: load_bronze` | results per table | start-up, opt-out, loop over tables | a renamed table set, kills between tables |
| Configuration, `config.py`, `config_s3_json.py` | none; read anew by each run | accept, select tables, resolve a setting | edited between runs; arguments override it |
| JSON decoding, `sources/json_decode.py` | none | inflate, frame, payload | streams cut short, records refused halfway |
| Bronze loader, `bronze/loader.py` | locals of one pass | discover, ensure tables, add partition, MERGE, record | overlap, death between MERGE and record, recreated tables |
| Discovery, `bronze/discovery.py` | none | list committed runs | a run without manifest is not a run |
| Processed runs, `bronze/state.py` | run ids per table | query, put | may outlive its table |
| Schema evolution, `bronze/schema.py` | Glue entry (columns, `metadata_location`, VersionId) | diff, ALTER, apply overrides | read-modify-write against Athena's own commits |
| Athena client, `bronze/athena.py` | none | submit, poll, cancel at the deadline | statements that outlive their pass |
| DDL and MERGE text, `bronze/ddl.py` | none | build statements | what MERGE matches on |
| Empty-run sweeper, `scripts/delete_empty_landing_runs.py` | none | delete empty runs | runs against a live Bronze pass |
| Registry, logging, entry points, feed reports | none | set-up and reports | none |

How they interact: `run_job` calls `run_table` per table (and per window);
`run_table` calls the source, the writer and the store. Landing and Bronze
share only the landing bucket: a manifest is the message from one to the
other. Bronze reads manifests, drives Athena, and shares the Glue entry with
Athena, which rewrites it at every commit.

What makes each component correct:

* landing: the checkpoint never passes a row that was not delivered; windows
  of committed checkpoints chain; it does not move back; what stays in the
  source is delivered in the end;
* S3 landing: the same for objects, nothing fetched twice, and the window
  loop ends; inside one run every folder is listed once, every object of the
  window lands whole, once and in order, and memory is bounded;
* writer: a manifest describes its part files, and values land as they are;
* jobs: exit 0 leaves nothing behind, whatever the configuration said, and a
  failing table does not hold up healthy ones longer than `fail_fast` asks;
* Bronze: no duplicates however passes fail and overlap; SUCCESS means every
  listed run is in Bronze; every run gets there in the end;
* schema: a submitted MERGE resolves; the Iceberg pointer is not rewound; the
  consumer-facing types are in place at SUCCESS.

`PROJECT.json` lists every component and, under `hazards`, each situation of
this code that a test hardly reaches, with the properties about it.

## 2. Modules

```
IncrementalLoad  <--- implements ---  LandingPipeline  <- LandingPipeline_proofs
                 <--- implements ---  S3JsonLanding    <- S3JsonLanding_proofs
BronzeTable      <--- implements ---  BronzeLoader     <- BronzeLoader_proofs
                                      BronzeSchema     <- BronzeSchema_proofs
TableRun  --- extends --->  S3Extraction --- extends ---> JsonDecode
          --- extends --->  LandingWriter
TableRun_proofs  --- extends --->  S3Extraction_proofs  ->  Recursion_proofs
IngestionJobs                                          <- IngestionJobs_proofs
MC<module>: the TLC instances
```

**IncrementalLoad** (abstract). A mutable source, delivered row versions and
one checkpoint. The checkpoint may advance to `c` only if what the source
holds at or below `c`, less the lookback, is delivered.

**LandingPipeline.** `run_table()` over the Snowflake adapter, the writer and
the store. One action per step or early return, `pc[e]` being execution `e`'s
next step:

| Action | Code |
|---|---|
| `ReadState` | `state_store.get`, pipeline.py 173-180 |
| `SkipEmpty`, `SkipUnchanged`, `SkipRegressed`, `OpenRun` | `get_current_checkpoint` and the returns of 187-225 |
| `Extract`, `WriteBatch` | `_build_query`, `execute`, one `fetchmany` and `write_batch` |
| `WriteManifest` | `write_manifest`: from here the rows are `delivered` |
| `Commit`, `CommitConflict` | the conditional `put_item` of state.py 178-218 |
| `Fail` | an exception or a death at any step |
| `InsertRow`, `DeleteRow` | the source, at any moment |

The query runs once, so its rows are those of one moment after the ceiling
was captured; which rows a batch holds is left open. A new row's watermark is
above the newest one less the lookback: what the lookback is configured for.
A part file without a manifest is visible to nobody, so `landed` is a local.
Initial records include hand-seeded ones without a version, with or without a
checkpoint (state.py 179-185).

**S3JsonLanding.** The wall-clock bound, the cap, the folder walk and the
window filter, under the loop of `run_job`. `Tick`, `PutObject` and the
visibility delay are the world's; each run's host clock is off S3's by up to
`MaxSkew`. `Folders` is the walk of `_prefixes` (lookback at the low end,
lookahead and its own folder at the high end); folders are listed one by one
while objects keep arriving. One execution at a time: what concurrent ones do
to the checkpoint is LandingPipeline's, with the same `run_table`. An object
the feed owes is stamped from `start_at` on and lies in a folder from
`start_at`'s own hour on, since the walk never goes before it.

**BronzeTable** (abstract). Bronze only changes by gaining whole committed
runs, each row once, or by being dropped; a run is recorded only while its
rows are in Bronze.

**BronzeLoader.** `load_table_runs()` with several passes, Athena's running
statements and operators. `FindTable`/`CreateTable` are apart, so another pass
can come between; `created` is `bronze_created`; `SubmitMerge` starts a
statement and `RecordMerged` needs its success. A MERGE commits against the
snapshot it read or fails, as Iceberg's commit protocol has it; a dying or
timed-out pass cancels its statement or leaves it running under owner
`Nobody`. `SweepEmpty`, `DeleteDrifted` and `DropTable` are the operators'.
Rows are sets of keys (primary key + watermark), all a MERGE tells apart.

**BronzeSchema.** The same pass seen from its schemas, one pass at a time:
the union of manifest schemas, evolution of the landing table and then of
Bronze, the metadata check, the read-modify-write of the catalog entry, and
MERGEs (one orphaned at worst) that rewrite the entry when they commit. Types
are opaque: equal or not. `DeleteTable` takes its bookkeeping with it here;
the operator who leaves it behind is BronzeLoader's, where the consequence is
finding 1.

**TableRun** is what happens between `OpenRun` and `Commit` of one landing run,
composed of a source's generator and the writer. The generator runs only when
its consumer asks for a batch (`Running`), as Python has it.

* **S3Extraction** is `S3JsonSource.extract()`: `NextHour`/`EndPoint` are the
  steps of `_prefixes` over a timezone given as an offset per half hour;
  `Submit`, `Read`, `Take` the pool of `_prefetched`, whose reads finish in any
  order; `NextRow`, `ObjectDecoded`, `Finish` the rows and batches. Producers
  overwrite objects throughout (`Overwrite`), and any listing or read may fail.
  A folder's listing is one step: its pages differ only in when later objects
  show, which the safety delay keeps out of the window. `held` is that
  `extract()`'s loop variable has a body, from `Take` to the next `Take`: while
  an object is decoded, and after that while the next reads are submitted and
  waited for. `BodiesBounded` counts it with the reads submitted: one body more
  than README.md:773 says (section 4).
* **JsonDecode** is `decode_records()` as operators: which objects open, which
  records are accepted, and that records come out until one is refused. Which
  record is well formed is defined here once, for the decoder and for
  `WindowLanded`: the property is about what becomes of a record that is or is
  not, and does not check the definition.
* **LandingWriter** is `LandingRun`: pinning a schema, conforming batches,
  drift, part files, manifest. What pandas and pyarrow do (inference, safe
  casts, integers beside NULL becoming doubles) is external and stated over one
  column; the declared type `"integer"` stands for `decimal128(38,0)`.
* The Snowflake side is `Fetch`: one `fetchmany` and its `DataFrame`.

The window a run covers is an input here; which windows runs cover, and that
they miss nothing between them, is S3JsonLanding's and LandingPipeline's.

**IngestionJobs** is the system as its operator sees it: `run_job()` and
`run_bronze_job()` on their schedules, over several tables, sharing landing
runs, the bookkeeping and the Glue database, under a configuration that is
replaced between runs. `StartLanding`/`StartBronze` are everything up to the
loop over the tables: `parse_config` (`Accepted`), `resolve_tables` (`Known`,
`Selected`), the precedence of arguments (`Resolve`) and the checks before the
loop (`Runnable`). `LandWindow`, `LandNothing`, `LandFails` are one `run_table`
or its except clause; a window may be without a row, as those of an S3 feed
are whenever nothing was published (a site's `emptyRuns` bounds them). `Refused` is
what fails a table before its first run, such as having empty runs only
(finding 2); `BeginTable`, `MergeRun`, `MarkProcessed`, `TableDone`,
`BronzeFails` one `load_table_runs`. `Stranded` is `_check_not_stranded`. A
landing run and a MERGE are one step each, as LandingPipeline and BronzeLoader
allow; each job runs at most once at a time, as the README's
`MaxConcurrentRuns: 1` has it (overlaps are the lower modules'). An operator
drops a table between Bronze runs and clears its bookkeeping with it, as the
message of loader.py:220-230 says. The first configuration is one that works.

Conventions: `None`, `Nobody`, `Absent` are model values. Each module has one
`Return`, which forgets the locals. Definitions whose name says what has been
left out (`AboveLowNoWiden`, `NotYetDrained`, `ConditionAlways`, ...) stand
just before the definition they deform; nothing of the model uses them. They
are the deformations under which each property is seen to fail.

## 3. Runs

| Run | Bounds | States | What it shows |
|---|---|---|---|
| `landing_exact` | 2 executions, 2 rows, watermarks 1..3, version at most 4, 1 failure, batches of 1, no lookback | 304,917 | `NoGap`, `WindowsChain`, `CommitsBackedByManifests`, `NoDoubleDelivery`, `CheckpointNeverMovesBack` |
| `landing_live` | 1 execution, 2 rows, lookback 1, 3 commits, 1 failure | 109,924 | implements IncrementalLoad; `EventuallyDelivered`, `CheckpointCatchesUp`, by the second commit |
| `bronze_overlap` | 2 passes, 2 runs, 2 keys, 1 failure | 86,698 | `NoDuplicates`, `SuccessIsComplete`; implements BronzeTable; `EventuallyMerged` |
| `bronze_recreated` | 1 pass, 3 runs, 2 drops, no failure | 173,444 | `SuccessIsComplete` over recreated tables |
| `bronze_stalebook` | 1 drop and 1 failure | violation | finding 1 |
| `bronze_onlyempty` | 2 runs, no failure | violation | finding 2 |
| `s3_capped` | 2 objects, hours of 2 ticks, clock 4..7, `start_at` 2, cap 2, safety 2, lookback 1, lookahead 2, delay 1, skew 1, 1 failure | 376,432 | `NoObjectMissed`, `NothingFetchedTwice`, `LoopsOnFullWindows`, `JobEnds`; implements IncrementalLoad |
| `schema_evolve` | 2 runs, key + 1 column that is overridden, 2 types, 1 failure, 1 operation | 375,839 | `MergesResolve`, `PointerNeverRewound`, `SuccessLeavesOverrides`, `EventuallyMerged` |
| `table_run` | one run over each of 2,143 feeds (below); batches of 2 rows, 3 bytes a batch, 4 a row, 2 reads ahead, 1 overwrite, 1 error | 160,738 | `HoursListedOnce`, `BodiesBounded`, `WindowLanded`, `ListingOrder`, `PartsBounded`, `ManifestDescribesParts`, `ValuesLandExactly`, `RunEnds` |
| `table_lordhowe` | a window over two half-hour shifts | violation | finding 3 |
| `table_wideids` | doubles exact to 2, values 1 and 3 | violation | finding 4 |
| `jobs` | 2 tables of 2 and 1 rows, 4 configurations, 4 sites, 1 argument list, 2 disturbances | 750,042 | `NothingStranded`, `GreenLandingIsComplete`, `GreenBronzeIsComplete`, `HealthyTablesDelivered` |

Why the bounds are enough to be of interest. Two executions and two commits
beyond the seeded record give every order of a race, including one that
starts from what the other committed. Two rows give a row inside and one
outside a window and a tie; three watermarks give a window, its predecessor
and a late row. Batches of one row put the source's steps and a death between
the parts of one run. Two keys and two runs give runs that overlap in part,
runs that are equal (a retried window) and empty ones; the third run of
`bronze_recreated` lets a run commit after two recreations. The clock of
`s3_capped` spans two hours: a closed hour's late folder, the current one and
the one ahead of it, a window cut by the cap and one cut by the clock; a skewed
host takes its first bound before `start_at`. One
failure at any step is the interesting number.

The feeds of `table_run` vary one concern at a time: walks of up to seven
hours in seven timezones (constant, half an hour off, shifted by an hour or half
an hour either way, a winter between two shifts of an hour) with an object in each folder; pools of four objects in two
folders with two reads at a time, whose rows fill a part, exceed it or exceed
what a row may be; each document configuration against each stream and payload
in an object of its own; every sequence of up to five cells for a cursor, with
and without declared types. `HoursListedOnce` holds in an `OrdinaryZone`: its
shifts are on full hours of the wall clock and more than two hours apart, and
they are whole hours, however many, or there is one of less than an hour. The
constants' assumptions state that the seven are ordinary and that the timezone
of `table_lordhowe` (finding 3) is not.

The configurations of `jobs` are the ordinary one, one that changes
`table_prefix` and turns `fail_fast` off, one that opts out of Bronze and has a
fetch size of zero, and one that names a table twice; the argument list names
one table twice and overrides both settings. Two disturbances (an edit, a kill,
a failing step, a drop, a run by hand) make the sequences that strand tables or
leave a MERGE unrecorded. A site says how many rows the tables have and what is
wrong with the first of them: nothing (two rows), a window without a row
(before its first row, after it, or alone), or a failure of one of the two jobs
on that table that never goes away. `table_prefix` back and forth takes two edits.

The counters (`MaxVersion`, `MaxFailures`,
`MaxDrops`, `MaxOperations`, `MaxOverwrites`, `MaxErrors`,
`MaxDisturbances`, `LastTick`) bound the model only. `LastInstant` is how far
a feed knows its timezone; `FeedsAssumption` has every walk end within it. Symmetry is
used in the safety runs alone, over executions, passes, rows and keys, which
no action tells apart; runs and objects are not permuted.

Deadlock is checked everywhere but in `landing_live`, where the bound on the
version makes the schedule stop. That bound is kept out of what the liveness
properties conclude: it decides only which rows are owed. A row is owed while
the record is two commits short of `MaxVersion` (`TwoCommitsLeft`), and then it
must be *delivered*, and the checkpoint must reach it, with the commits that
are left. Two, because the next commit may be of an execution that took its
ceiling before the row was there. A window without its lookback, a commit that
stores the checkpoint it started from, a schedule that skips for ever and a
record that refuses every commit all fail one of the two. With three commits
and a row that is inserted at any time, rows are owed from the seeded record
and from one that the model has written. In `landing_exact` three watermarks
allow three commits at most, so its bound never binds.

### Fairness

* LandingPipeline: weak fairness of `ReadState(e)` and `RunTable(e)`: the
  schedule keeps firing and a started Glue job keeps running. None on the
  source or on `Fail`. `EventuallyDelivered` excepts a source whose MAX is
  below the checkpoint (`Stalled`): the code skips such a table on purpose
  until a person acts. `CheckpointCatchesUp` needs no such exception: a stalled
  table's checkpoint is past every row it has.
* BronzeLoader: weak fairness of `Load(l)` and of `Athena`, whose statements
  all end. None on landing, operators or failures. A drifted run that nobody
  deletes blocks its table, so `EventuallyMerged` excepts it.
* S3JsonLanding: weak fairness of the running execution alone. `JobEnds`
  holds although nothing makes the clock move, a job start or an object come.
* BronzeSchema: weak fairness of the pass. `Blocked` names what the code
  refuses until a person acts.
* TableRun: weak fairness of the run's own process (`Pull`) and of each read
  of the pool, which botocore's timeouts make return or raise.
* IngestionJobs: weak fairness of a run in progress and of each job's
  schedule. None on the source, the operator or failures; a table is owed
  delivery only while the configuration stays one under which it is `Healthy`.
  A table with empty runs only holds up those after it under `fail_fast`
  (`OnlyEmpty`, finding 2), but not itself: its first row must get through.

Failures are finite by their bound: a job that dies every time delivers
nothing.

## 4. Findings

1. `bronze_stalebook` — `bronze_created` lasts one pass (loader.py:392). Drop
   the table, let the pass that recreates it die before it has merged
   everything again: the next one trusts the stale bookkeeping and reports
   SUCCESS without those rows, the outcome README.md:217-224 says is checked
   for.
2. `bronze_onlyempty` — only empty committed runs: no manifest has a schema,
   `_ensure_tables` raises on every pass (loader.py:254), and the runs are
   never recorded as loader.py:425-428 says. With `fail_fast` on, the default,
   such a table holds up every table after it, so an S3 feed that has not
   published anything yet does (`OnlyEmpty` in IngestionJobs).
3. `table_lordhowe` — the walk rounds once in local time and then steps whole
   hours of UTC (s3_json.py:230). After a half-hour shift it looks at half
   hours of the wall clock, and the next shift can step over an hour. In
   Australia/Lord_Howe one window from 2026-03-01 to 2026-11-01 (an uncapped
   backfill) never lists `2026/10/04/02`. A run that begins after the first
   shift is not affected.
4. `table_wideids` — one NULL makes pandas hold a batch's integers as doubles;
   wider than 2^53 they are rounded before `_coerce_to_declared` makes decimals
   of them (landing.py:199), and land without drift.

Also met, without a run of their own:

* The docstring of s3_json.py (15-16) says "The configured lookback replays
  recent files; bronze deduplicates source-record identities". The code replays
  nothing: `lookback_minutes` widens the folders that are walked (line 379),
  and line 274 skips an object at or before the previous checkpoint. README.md:749
  ("Nothing is fetched twice") and the docstring of `_objects` (258-261) say
  what the code does. `NothingFetchedTwice` is this second account, lookback
  included; that a lookback above zero lists folders again and fetches nothing
  again is what `s3_capped` shows.
* README.md:773 bounds memory in flight at `prefetch` × `max_object_bytes`.
  `_prefetched` submits the next read (s3_json.py:343) while the loop variable
  of `extract()` (392) still has the last body, and it keeps it until the
  oldest read returns: `prefetch + 1` bodies, the bound `BodiesBounded` states.

* `_checkpoint_regressed` fails open for types it cannot order
  (pipeline.py:150), so a text watermark can move back; README.md:104 states
  the guarantee for every table, the function's docstring calls it deliberate.
* `union_manifest_schemas` covers runs merged long ago (loader.py:364), not
  only those "about to be merged" (loader.py:141): a type change stays refused
  for the sake of a run that will not be merged again.
* Antarctica/Troll falls back by two hours, and there the walk lists two
  folders twice: `previous` remembers one. `OrdinaryZone` leaves such shifts
  out.
* `_duplicates` compares table names with their case, Glue and Athena without.

## 5. Proofs

`LandingPipeline_proofs` proves, for any sets of executions and rows and any
`MaxWm`, `MaxVersion`, `MaxFailures`, `Lookback`, `FetchSize` satisfying
`LandingConstants`: `TypeCorrect`, `NoGapAlways`, `WindowsChainAlways`,
`CommitsBackedAlways`, `NoDoubleDeliveryAlways`, and, for an orderable
watermark, `NeverMovesBack` and `Implementation` (of IncrementalLoad).

The argument: `NoGap` alone is not inductive, since a commit says nothing
about the state the execution read long before. `IInv` adds what each
execution carries with it. `LockOK(e)`: if the commit's condition would hold
now, the record is still the one `e` read; versions only grow, and a
versionless record counts as version 0. `WindowCovered(e)`: every present row
of `e`'s window that no later window reaches back to is in its unfetched or
landed rows while it writes, and delivered when it commits. `BelowNewest` and
`CeilingOK` keep rows that arrive after the ceiling was taken out of what `e`
owes: they are above it less the lookback. A commit then extends a covered
window from the very checkpoint that `NoGap` already speaks of. One lemma per
action preserves the parts it can disturb.

`NoDoubleDelivery` needs an invariant of its own, `OnceInv`: committed rows lie
at or below the newest watermark ever seen and, those still present, at or
below the checkpoint, so an execution whose commit would be accepted holds no
committed row. It holds whether or not the watermark can be ordered.

`S3JsonLanding_proofs` proves, for any objects, length of the clock, hour,
lookback, lookahead, cap, start and number of failures satisfying
`DiscoveryConstants`: `TypeCorrect`, `NoObjectMissedAlways`,
`NothingFetchedTwiceAlways`, `LoopsOnFullWindowsAlways` and `Implementation`
(of IncrementalLoad). The assumption that carries it is
`MaxDelay + MaxSkew <= Safety`: the safety delay covers what S3 shows late and
what the host's clock is off by.

`Bounds` keeps every bound far enough behind S3's clock that what is stamped
at or below it is listed already; `Window` says of each object the window
owes that it has been read or lies in a folder of `walk`. That `walk` starts
out with all such folders (`WalkCovers`) is arithmetic on hours: the
producers' contract (`Produced`) bounds how far a folder's hour is from an
object's stamp, and the walk widens the window by as much on either side.
`Fetched` puts every committed object at or below the checkpoint, hence below
every later window.

`BronzeLoader_proofs` proves, for any sets of passes, integer runs and keys
satisfying `LoaderConstants`: `TypeCorrect`, `NoDuplicatesAlways`,
`Implementation` (of BronzeTable, recreated tables included), and
`SuccessIsCompleteAlways` under `BooksKept`: no table is dropped, or no
bookkeeping is kept. Without that assumption the property is false (finding
1), and `bronze_recreated` shows where it still holds.

Here `IInv` says that a pass between submitting and recording owns at most
one statement, which reads the whole of its current run, and that once it has
succeeded the run's rows are in Bronze; it survives other passes and orphaned
statements because Bronze only grows between drops, and nothing is dropped
while a pass is under way. `BooksInv` adds that whatever is recorded or dealt
with is in Bronze.

`BronzeSchema_proofs` proves, for any integer runs, columns, types, overrides
and bounds satisfying `SchemaConstants` and `NewestExists` (a nonempty set of
runs has a newest, as a listing does): `TypeCorrect`, `MergesResolveAlways`,
`PointerNeverRewoundAlways` and `SuccessLeavesOverridesAlways`.

The invariant follows the order of a pass. `ExternalInv`: a column reaches the
Iceberg table only after the landing table, with the same type; so although
the pass compares Bronze with the *catalog*, whose overridden types it must
overlook, what it merges is `Declared` in Iceberg as it was landed. `SeenInv`:
versions only grow, so an entry read under the version it still has is the
entry, and writing it back moves no pointer. The hard part is the orphaned
MERGE that resets the catalog between applying the overrides and SUCCESS:
`PassInv` says that a committed orphan is among the runs of the pass, and that
a listed run with nothing left to do changes nothing (`Settled`), so an orphan
that does commit is still to be merged by the pass, which applies the
overrides once more after it.

`IngestionJobs_proofs` proves, for any tables, sites, configurations, argument
lists and number of disturbances satisfying the module's
assumptions (which only say that tables named are tables and settings are of
their enumerated values): `TypeCorrect`, `NothingStrandedAlways`,
`GreenLanding` and `GreenBronze`.

Exit code 0 is a statement about the past of a run, so `IInv` keeps its
account at every step. `LandingOwes` and `BronzeOwes`: what was due when the
run began is in its tables, or the table is still in the queue, or the run is
already known to have failed. That is preserved only because of what the
other parts say: `Landed`, that the rows up to the checkpoint are in some
committed run (false with `fetch_size` 0, which a run that started has
refused); `Pass`, that the table being loaded exists, and has what the pass
owes apart from its pending runs. When a pass leaves recorded runs out of its
pending set, `Books`, `OneTable` and `CatalogRows` together (lemma
`KnownIsMerged`) put them into this table and not into one under the other
name; it is `_check_not_stranded()` that keeps `OneTable`, and the order "drop
the table with its bookkeeping" that keeps `Books`.

`TableRun_proofs` proves, for any feeds, sizes of batches, rows and pools,
numbers of overwrites and errors, and precision of doubles satisfying
`ExtractionConstants`, `FeedsAssumption`, `CursorsAssumption`,
`WriterConstants` and `FloatExactNat`: `TypeCorrect`, `PrefetchBounded`,
`ManifestSound`, `PartsSmall`; under `OrdinaryZones`, `HoursWalked`,
`RowsInListingOrder` and `WholeWindowLanded`; under `NoWideIntegers`,
`CellsLandExactly`. The two hypotheses are about the source and not the code,
and neither can go: `table_lordhowe` and `table_wideids` are the runs where they
fail, and with them the properties. `FeedsAssumption` asks that a feed's
timezone is known from before its walk, by more than its offsets differ, to an
hour after it, whatever its shifts: the extent of a function, not a limit of the
code.

* `BasicInv` is what the rest needs of types: every body and row carries the
  content its object was listed with, since `if_match` refuses another; a
  Snowflake run never touches the extraction's state; a run that is over holds
  nothing.
* `WriterInv`: the counters are the sums over `parts` (the sums are
  `BytesIn`'s and `RowsIn`'s, both recursive functions); `drift` is false
  exactly while all parts have the pinned type; and every part `Fits` its own,
  which makes `ManifestDescribesParts` true at the moment of the manifest.
* `PoolInv`: the pool has a free place while an object is decoded, so the body
  that `held` stands for is one more only between objects.
* `BoundInv` bounds the batch being filled, the one handed over and the parts
  together: a batch is closed before the row that would exceed it.
* `CellsInv`: what was landed or handed over are the cells up to `fetched`, each
  of them with its own value.
* `WalkInv` is the loop of `_prefixes`. The cursor is `InStep` with the wall
  clock; `listed` ascends strictly and its last is `previous`; every hour of the
  wall clock up to the cursor is listed or is the cursor's. It rests on three
  lemmas about the timezone: the local hour of an instant never decreases
  (`PathMonotone`: a clock set back by an hour on the full hour repeats an hour
  and does not visit an earlier one), a step skips no hour that exists
  (`StepCovers`), and nor does rounding the first cursor (`FirstCursorCovers`).
* `OrderInv`: the rows of `parts`, of `out`, of the batch, of the object being
  decoded, the reads under way and the objects still to be read are in this
  order, each in order, and all lie in folders listed already; so a later folder
  sorts after them. With `WalkInv` that is `ListingOrder`.
* `WholeInv`: apart from the object being decoded, whose rows are those before
  `next`, each object has no rows or one for each of its records, and one of the
  window in a listed folder is either still ahead or has its rows. Since
  `listed` covers the window when the walk is over, that is `WindowLanded`.

`S3Extraction_proofs` holds the lemmas about its operators: that arithmetic of
hours, that a listing enumerates a folder's window in order (`ListingFacts`,
over `Ascending`), which records a stream yields (`DecodeFacts`).
`Recursion_proofs` has what recursive functions need. The library's induction
theorems take an operator as a parameter, so induction is over *sets* of
numbers: a nonempty set of naturals has a least element, from the library's
`NatLessThanWellFounded`. That gives the existence and uniqueness of sums, and
what appending an element adds to them.

Every safety property that a passing run checks is stated by a theorem. Only
model-checked are the liveness properties (`EventuallyDelivered`,
`CheckpointCatchesUp`, both `EventuallyMerged`, `JobEnds`, `RunEnds`,
`HealthyTablesDelivered`), since the prover reasons about neither fairness nor
`ENABLED`; and the findings, which are counterexamples.

## 6. Not modelled

* Which YAML documents are well formed: keys, types and bounds of
  `config.py` and `config_s3_json.py` are text. The models' assumptions on
  constants are what they enforce (fetch size at least 1, lookback only for
  temporal watermarks) or what the settings rely on (the safety delay covers
  visibility and skew). Of the arguments, `--tables`, `--fetch-size` and
  `--fail-fast` are modelled, the names of buckets, databases and tables not.
* `path_format`s that repeat from day to day, which the configuration lets
  through (config_s3_json.py:264).
* Athena's polling loop: its outcomes are modelled, not its clock.
* NULL keys and keys repeated within one run, which MERGE does not collapse.
* Objects filed late into a folder before `start_at`'s own hour.
* The projection of envelope fields to columns, and JSON text.
* The round trip of a checkpoint through DynamoDB and its order per Snowflake
  type: a watermark is a number here, orderable or not.
* SQL text, quoting, logging, Secrets Manager, read-only scripts.

## 7. Plan

Left, in this order: the watermark codecs and their order as operators; the
polling of `AthenaClient` against its deadline, composed with the loader's
statements; landing and Bronze composed at the grain of their lower modules.
