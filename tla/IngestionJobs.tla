---------------------------- MODULE IngestionJobs ----------------------------
(***************************************************************************)
(* The two scheduled jobs of one source and the operator around them:      *)
(* run_job() lands every selected table window by window, run_bronze_job() *)
(* merges what is committed, each at most once at a time.  They share the  *)
(* landing prefix, the processed-runs table and the Glue database, and a   *)
(* configuration that is edited between runs.  A landing run and a MERGE   *)
(* are one step here: LandingPipeline and BronzeLoader show why they may   *)
(* be.                                                                     *)
(***************************************************************************)
EXTENDS Naturals, Sequences, FiniteSets, SequencesExt

CONSTANTS
    Tables,         \* names of the tables the source has
    Configs,        \* what the operator writes to the config's S3 key
    Launches,       \* argument lists of the runs an operator starts by hand
    Sites,          \* what the tables may be like, see below
    MaxDisturbances \* bound on edits, drops, failures and runs by hand

(* A site is a record of                                                    *)
(*   supply      supply[t]: rows t ever has                                 *)
(*   emptyRuns   bound on the windows of t that are committed without a row *)
(*   unreadable, unmergeable   tables that either job can never finish      *)
ASSUME SitesType ==
    \A s \in Sites :
        /\ s.supply \in [Tables -> Nat] /\ s.emptyRuns \in [Tables -> Nat]
        /\ s.unreadable \subseteq Tables /\ s.unmergeable \subseteq Tables

ASSUME MaxDisturbancesNat == MaxDisturbances \in Nat

TablePrefixes == {"source_key", "none"}

Absent == [exists |-> FALSE, rows |-> {}]

VARIABLES
    config,       \* the document load_config() reads
    site,         \* what the tables are like
    produced,     \* produced[t]: rows 1..produced[t] are in the source
    checkpoint,   \* checkpoint[t]: the last row a committed window reaches
    runs,         \* runs[t]: the rows of each committed landing run, in order
    book,         \* book[t]: runs recorded in the processed-runs table
    catalog,      \* catalog[<<prefix, t>>]: the Bronze table of that name
    landing,      \* the run of the landing job, while there is one
    bronze,       \* the run of the Bronze job, while there is one
    disturbances

vars == <<config, site, produced, checkpoint, runs, book, catalog, landing, bronze, disturbances>>
landed == <<produced, checkpoint, runs>>
merged == <<book, catalog>>
world == <<config, site>>

(* No run in progress, and how the last one exited. *)
NothingDue == [t \in Tables |-> {}]
NoLanding(status) ==
    [status |-> status, queue |-> <<>>, failFast |-> TRUE, failed |-> FALSE, due |-> NothingDue,
     fetchSize |-> 1]
NoBronze(status) ==
    [status |-> status, queue |-> <<>>, failFast |-> TRUE, failed |-> FALSE, due |-> NothingDue,
     prefix |-> "source_key", phase |-> "table", pending |-> {}]

Disturb ==
    /\ disturbances < MaxDisturbances
    /\ disturbances' = disturbances + 1

-----------------------------------------------------------------------------
(* Configuration: what parse_config() accepts, what a --tables selector and *)
(* a setting resolve to.                                                    *)
Accepted(c) ==
    /\ c.wellFormed
    /\ c.tables # <<>>
    /\ IsInjective(c.tables)

Known(c, launch) == launch.all \/ ToSet(launch.names) \subseteq ToSet(c.tables)
Selected(c, launch) == IF launch.all THEN c.tables ELSE launch.names

Resolve(cli, configured, default) ==
    IF cli # "unset" THEN cli ELSE IF configured # "unset" THEN configured ELSE default

FailFast(c, launch) == Resolve(launch.failFast, c.failFast, "on") = "on"

SizeOf == [default |-> 10, some |-> 10, zero |-> 0]
Sizes == {"unset", "default", "some", "zero"}
FetchSize(c, launch) == SizeOf[Resolve(launch.fetchSize, c.fetchSize, "default")]

FetchSizeUnchecked(c, launch) == c.type = "expected"

Runnable(c, launch) ==
    /\ FetchSize(c, launch) >= 1
    /\ c.type = "expected"

Scheduled == [all |-> TRUE, names |-> <<>>, failFast |-> "unset", fetchSize |-> "unset"]

ASSUME ConfigsType ==
    \A c \in Configs :
        /\ c.tables \in Seq(Tables)
        /\ c.fetchSize \in Sizes
        /\ c.bronze \in TablePrefixes \cup {"absent"}

ASSUME LaunchesType ==
    \A launch \in Launches : launch.names \in Seq(Tables) /\ launch.fetchSize \in Sizes

(* A configuration that works comes first; any may follow it. *)
Init ==
    /\ config \in {c \in Configs : Accepted(c) /\ Runnable(c, Scheduled) /\ c.bronze # "absent"}
    /\ site \in Sites
    /\ produced = [t \in Tables |-> 0]
    /\ checkpoint = [t \in Tables |-> 0]
    /\ runs = [t \in Tables |-> <<>>]
    /\ book = [t \in Tables |-> {}]
    /\ catalog = [name \in TablePrefixes \X Tables |-> Absent]
    /\ landing = NoLanding("green")
    /\ bronze = NoBronze("green")
    /\ disturbances = 0

(* What a run that starts now owes: the rows there are of its tables. *)
Due(launch, rows) == [t \in Tables |-> IF t \in ToSet(Selected(config, launch)) THEN rows[t] ELSE {}]

-----------------------------------------------------------------------------
(* run_job() *)
StartLanding(launch) ==
    /\ landing.status # "running"
    /\ landing' =
         IF Accepted(config) /\ Known(config, launch) /\ Runnable(config, launch)
           THEN [status |-> "running", queue |-> Selected(config, launch),
                 failFast |-> FailFast(config, launch), failed |-> FALSE,
                 due |-> Due(launch, [t \in Tables |-> 1..produced[t]]),
                 fetchSize |-> FetchSize(config, launch)]
           ELSE NoLanding("red")
    /\ UNCHANGED <<world, landed, merged, bronze>>

At(job, t) ==
    /\ job.status = "running"
    /\ job.queue # <<>>
    /\ t = Head(job.queue)

(* The window committed is all there is, so far: the source is asked again  *)
(* only if it capped the window.                                            *)
StopAfterOneWindow(t, upTo) == TRUE

CaughtUp(t, upTo) == upTo = produced[t]

EmptyRuns(t) == {i \in DOMAIN runs[t] : runs[t][i] = {}}

(* A source that caps its windows lands one row at a time, one that does not *)
(* everything there is; S3's bound is of the clock, and a window without an  *)
(* object is committed too.  fetchmany(0) reads nothing, whatever there is.  *)
LandWindow(t) ==
    \E upTo \in {checkpoint[t] + 1, produced[t]} :
        /\ At(landing, t)
        /\ t \notin site.unreadable
        /\ upTo <= produced[t]
        /\ checkpoint[t] < produced[t] \/ Cardinality(EmptyRuns(t)) < site.emptyRuns[t]
        /\ runs' = [runs EXCEPT ![t] = Append(@,
                       IF landing.fetchSize = 0 THEN {} ELSE checkpoint[t] + 1 .. upTo)]
        /\ checkpoint' = [checkpoint EXCEPT ![t] = upTo]
        /\ landing' = IF CaughtUp(t, upTo) THEN [landing EXCEPT !.queue = Tail(@)] ELSE landing
        /\ UNCHANGED <<world, produced, merged, bronze, disturbances>>

LandNothing(t) ==
    /\ At(landing, t)
    /\ t \notin site.unreadable
    /\ checkpoint[t] = produced[t]
    /\ landing' = [landing EXCEPT !.queue = Tail(@)]
    /\ UNCHANGED <<world, landed, merged, bronze, disturbances>>

(* The except clauses of either loop over the tables: the failure is kept    *)
(* for the exit code, and the rest is left alone if fail_fast says so.       *)
FailureForgotten(job) == [job EXCEPT !.queue = IF job.failFast THEN <<>> ELSE Tail(@)]
AlwaysStops(job) == [job EXCEPT !.failed = TRUE, !.queue = <<>>]

TableFailed(job) ==
    [job EXCEPT !.failed = TRUE, !.queue = IF job.failFast THEN <<>> ELSE Tail(@)]

LandFails(t) ==
    /\ At(landing, t)
    /\ \/ t \in site.unreadable /\ UNCHANGED disturbances
       \/ t \notin site.unreadable /\ Disturb
    /\ landing' = TableFailed(landing)
    /\ UNCHANGED <<world, landed, merged, bronze>>

LandExit ==
    /\ landing.status = "running"
    /\ landing.queue = <<>>
    /\ landing' = NoLanding(IF landing.failed THEN "red" ELSE "green")
    /\ UNCHANGED <<world, landed, merged, bronze, disturbances>>

LandStep ==
    \/ \E t \in Tables : LandWindow(t) \/ LandNothing(t) \/ LandFails(t)
    \/ LandExit

-----------------------------------------------------------------------------
(* run_bronze_job() and load_bronze() *)
StartBronze(launch) ==
    /\ bronze.status # "running"
    /\ bronze' =
         CASE ~Accepted(config) \/ ~Known(config, launch) -> NoBronze("red")
           [] Accepted(config) /\ Known(config, launch) /\ config.bronze = "absent" -> NoBronze("skipped")
           [] OTHER ->
                [status |-> "running", queue |-> Selected(config, launch),
                 failFast |-> FailFast(config, launch), failed |-> FALSE,
                 due |-> Due(launch, [t \in Tables |-> UNION ToSet(runs[t])]),
                 prefix |-> config.bronze, phase |-> "table", pending |-> {}]
    /\ UNCHANGED <<world, landed, merged, landing>>

(* _check_not_stranded(): the name in use does not exist, the other does. *)
NeverStranded(prefix, t) == FALSE

Stranded(prefix, t) ==
    /\ ~catalog[<<prefix, t>>].exists
    /\ \E other \in TablePrefixes \ {prefix} : catalog[<<other, t>>].exists

SomeEmpty(t) == EmptyRuns(t) # {}

(* No manifest has a schema to create or evolve a table from. *)
OnlyEmpty(t) == runs[t] # <<>> /\ EmptyRuns(t) = DOMAIN runs[t]

(* Why a table is given up before its first run: its files disagree with    *)
(* each other, say, its name is not the one it was created under, or none   *)
(* of its runs has a row.                                                   *)
Refused(t) ==
    /\ runs[t] # <<>>
    /\ t \in site.unmergeable \/ Stranded(bronze.prefix, t) \/ OnlyEmpty(t)

PendingKept(job) == [job EXCEPT !.phase = "table"]

TableLeft(job) == [job EXCEPT !.phase = "table", !.pending = {}]

(* load_table_runs() up to its loop: the runs committed by now, both tables, *)
(* and the recorded runs unless the Bronze table is new.                     *)
BeginTable(t) ==
    LET name == <<bronze.prefix, t>>
        known == IF catalog[name].exists THEN book[t] ELSE {}
    IN  /\ At(bronze, t)
        /\ bronze.phase = "table"
        /\ ~Refused(t)
        /\ IF runs[t] = <<>>
             THEN /\ bronze' = [bronze EXCEPT !.queue = Tail(@)]
                  /\ UNCHANGED catalog
             ELSE /\ bronze' = [bronze EXCEPT !.phase = "merge", !.pending = DOMAIN runs[t] \ known]
                  /\ catalog' = [catalog EXCEPT ![name].exists = TRUE]
        /\ UNCHANGED <<world, landed, book, landing, disturbances>>

NextRun(t, r) ==
    /\ At(bronze, t)
    /\ r \in bronze.pending
    /\ \A other \in bronze.pending : r <= other

MergeRun(t, r) ==
    /\ NextRun(t, r)
    /\ bronze.phase = "merge"
    /\ runs[t][r] # {}
    /\ catalog' = [catalog EXCEPT ![<<bronze.prefix, t>>].rows = @ \cup runs[t][r]]
    /\ bronze' = [bronze EXCEPT !.phase = "record"]
    /\ UNCHANGED <<world, landed, book, landing, disturbances>>

(* After its MERGE; at once, if the run is empty. *)
MarkProcessed(t, r) ==
    /\ NextRun(t, r)
    /\ bronze.phase = "record" \/ (bronze.phase = "merge" /\ runs[t][r] = {})
    /\ book' = [book EXCEPT ![t] = @ \cup {r}]
    /\ bronze' = [bronze EXCEPT !.phase = "merge", !.pending = @ \ {r}]
    /\ UNCHANGED <<world, landed, catalog, landing, disturbances>>

TableDone(t) ==
    /\ At(bronze, t)
    /\ bronze.phase = "merge"
    /\ bronze.pending = {}
    /\ bronze' = [TableLeft(bronze) EXCEPT !.queue = Tail(@)]
    /\ UNCHANGED <<world, landed, merged, landing, disturbances>>

BronzeFails(t) ==
    /\ At(bronze, t)
    /\ \/ bronze.phase = "table" /\ Refused(t) /\ UNCHANGED disturbances
       \/ ~(bronze.phase = "table" /\ Refused(t)) /\ Disturb
    /\ bronze' = TableLeft(TableFailed(bronze))
    /\ UNCHANGED <<world, landed, merged, landing>>

ExitsZeroAlways ==
    /\ bronze.status = "running"
    /\ bronze.queue = <<>>
    /\ bronze' = NoBronze("green")
    /\ UNCHANGED <<world, landed, merged, landing, disturbances>>

BronzeExit ==
    /\ bronze.status = "running"
    /\ bronze.queue = <<>>
    /\ bronze' = NoBronze(IF bronze.failed THEN "red" ELSE "green")
    /\ UNCHANGED <<world, landed, merged, landing, disturbances>>

BronzeStep ==
    \/ \E t \in Tables :
          \/ BeginTable(t) \/ TableDone(t) \/ BronzeFails(t)
          \/ \E r \in bronze.pending : MergeRun(t, r) \/ MarkProcessed(t, r)
    \/ BronzeExit

-----------------------------------------------------------------------------
(* The source, the scheduler and the operator. *)
Produce(t) ==
    /\ produced[t] < site.supply[t]
    /\ produced' = [produced EXCEPT ![t] = @ + 1]
    /\ UNCHANGED <<world, checkpoint, runs, merged, landing, bronze, disturbances>>

ScheduledLanding == StartLanding(Scheduled) /\ UNCHANGED disturbances
ScheduledBronze == StartBronze(Scheduled) /\ UNCHANGED disturbances

ByHand ==
    /\ Disturb
    /\ \E launch \in Launches : StartLanding(launch) \/ StartBronze(launch)

EditConfig ==
    /\ Disturb
    /\ \E c \in Configs \ {config} : config' = c
    /\ UNCHANGED <<site, landed, merged, landing, bronze>>

(* What _check_not_stranded() asks for: drop the table, clear its rows from *)
(* the processed-runs table, run again.                                     *)
DropTable ==
    /\ bronze.status # "running"
    /\ Disturb
    /\ \E name \in DOMAIN catalog :
          /\ catalog[name].exists
          /\ catalog' = [catalog EXCEPT ![name] = Absent]
          /\ book' = [book EXCEPT ![name[2]] = {}]
    /\ UNCHANGED <<world, landed, landing, bronze>>

(* Glue stops a run: its timeout, a worker lost. *)
KillLanding ==
    /\ landing.status = "running"
    /\ Disturb
    /\ landing' = NoLanding("red")
    /\ UNCHANGED <<world, landed, merged, bronze>>

KillBronze ==
    /\ bronze.status = "running"
    /\ Disturb
    /\ bronze' = NoBronze("red")
    /\ UNCHANGED <<world, landed, merged, landing>>

Next ==
    \/ LandStep \/ BronzeStep
    \/ ScheduledLanding \/ ScheduledBronze \/ ByHand
    \/ EditConfig \/ DropTable \/ KillLanding \/ KillBronze
    \/ \E t \in Tables : Produce(t)

Spec == Init /\ [][Next]_vars

(* The schedule comes round for either job once its last run is over, and a *)
(* run in progress goes on.                                                 *)
FairSpec ==
    /\ Spec
    /\ WF_vars(LandStep) /\ WF_vars(BronzeStep)
    /\ WF_vars(ScheduledLanding) /\ WF_vars(ScheduledBronze)

-----------------------------------------------------------------------------
TypeOK ==
    /\ config \in Configs
    /\ site \in Sites
    /\ \A t \in Tables :
          /\ produced[t] \in 0..site.supply[t]
          /\ checkpoint[t] \in 0..produced[t]
          /\ \A i \in DOMAIN runs[t] : runs[t][i] \subseteq 1..checkpoint[t]
          /\ book[t] \subseteq DOMAIN runs[t]
    /\ \A name \in TablePrefixes \X Tables :
          catalog[name].rows \subseteq IF catalog[name].exists THEN 1..produced[name[2]] ELSE {}
    /\ landing.status \in {"running", "green", "red"}
    /\ bronze.status \in {"running", "green", "red", "skipped"}
    /\ ToSet(landing.queue) \cup ToSet(bronze.queue) \subseteq Tables
    /\ \A t \in Tables : At(bronze, t) => bronze.pending \subseteq DOMAIN runs[t]
    /\ disturbances \in 0..MaxDisturbances

(* run_job(): "callers must not treat a partial failure as success".  A run *)
(* of the landing job that exits 0 leaves every row its tables had when it  *)
(* began in a committed landing run: whatever failed, whatever fail_fast    *)
(* left alone, however many windows it took, whatever fetch_size said.      *)
GreenLandingIsComplete ==
    [][landing.status = "running" /\ landing'.status = "green" =>
          \A t \in Tables : landing.due[t] \subseteq UNION ToSet(runs[t])]_vars

(* load_bronze() raises if any table failed: a run of the Bronze job that   *)
(* exits 0 leaves every row its tables' runs had when it began in the table *)
(* its configuration names, though the configuration is edited, tables are  *)
(* dropped and earlier runs were killed between a MERGE and its record.     *)
GreenBronzeIsComplete ==
    [][bronze.status = "running" /\ bronze'.status = "green" =>
          \A t \in Tables : bronze.due[t] \subseteq catalog[<<bronze.prefix, t>>].rows]_vars

(* _check_not_stranded(): "a second table beside the first" would "strand    *)
(* everything already merged under a name nothing queries".  A table has one *)
(* Bronze table at a time, and what is recorded as merged is in it.          *)
NothingStranded ==
    \A t \in Tables :
        LET existing == {name \in TablePrefixes \X {t} : catalog[name].exists}
        IN  /\ Cardinality(existing) <= 1
            /\ \A r \in book[t] : runs[t][r] \subseteq UNION {catalog[name].rows : name \in existing}

(* With nothing more to disturb it, what the source has of a table reaches   *)
(* its Bronze table, through both jobs, although other tables fail for ever: *)
(* all of them with fail_fast off, those after the table with it on.  A      *)
(* table that only has empty runs fails too, until its first row lands.      *)
Blocked(t) ==
    \/ t \in site.unreadable \cup site.unmergeable
    \/ Stranded(config.bronze, t)

Healthy(t) ==
    LET tables == config.tables
    IN  /\ Accepted(config) /\ Runnable(config, Scheduled)
        /\ config.bronze # "absent"
        /\ ~Blocked(t)
        /\ \E i \in DOMAIN tables :
              /\ tables[i] = t
              /\ FailFast(config, Scheduled) =>
                   \A j \in 1..(i - 1) : ~Blocked(tables[j]) /\ ~OnlyEmpty(tables[j])

HealthyTablesDelivered ==
    \A t \in Tables :
        <>[]Healthy(t) =>
        <>[](config.bronze # "absent" /\ catalog[<<config.bronze, t>>].rows = 1..produced[t])
=============================================================================
