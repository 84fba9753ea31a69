--------------------------- MODULE LandingPipeline ---------------------------
(***************************************************************************)
(* One table's landing transaction: run_table() of pipeline.py over the    *)
(* Snowflake adapter, the landing writer and the DynamoDB state store.     *)
(*                                                                         *)
(* Several executions of the job may run at once (a Glue schedule firing   *)
(* while a manual run is still going).  Each reads the committed           *)
(* checkpoint, captures MAX(watermark) as its ceiling, runs its query,     *)
(* lands the result batch by batch, writes the manifest and only then      *)
(* commits the checkpoint under the version it read.  The source changes   *)
(* between any two of those steps, and an execution may die at each.       *)
(***************************************************************************)
EXTENDS Integers, FiniteSets, Sequences

CONSTANTS
    Executions,  \* concurrent executions of the job
    Rows,        \* primary keys of the source table
    MaxWm,       \* bound on watermark values
    MaxVersion,  \* bound on the state record's version
    MaxFailures, \* bound on executions that die or raise
    Lookback,    \* lookback_minutes, in units of the watermark
    FetchSize,   \* rows per fetchmany()
    Orderable,   \* FALSE for a TEXT watermark: no regression check
    None         \* Python's None: no value, no record

ASSUME LandingConstants ==
    /\ MaxWm \in Nat
    /\ MaxVersion \in Nat
    /\ MaxFailures \in Nat
    /\ Lookback \in Nat
    /\ FetchSize \in Nat \ {0}
    /\ Orderable \in BOOLEAN
    /\ None \notin Int

VARIABLES
    wm,         \* source: watermark of each row, 0 while the row is absent
    newest,     \* source: highest watermark it has ever held
    item,       \* DynamoDB record: exists, value, version
    delivered,  \* landing: rows in part files of runs that have a manifest
    history,    \* the windows the committed checkpoints advanced over
    failures,   \* executions that have died so far
    pc,         \* per execution: the next step of run_table()
    previous,   \* previous_checkpoint.value
    expected,   \* expected_version
    high,       \* current_checkpoint.value
    pending,    \* rows of the result set not fetched yet
    landed      \* rows in part files under this run's prefix

source == <<wm, newest>>
locals == <<pc, previous, expected, high, pending, landed>>
vars == <<source, item, delivered, history, failures, locals>>

Watermarks == 1..MaxWm
RowVersions == Rows \X Watermarks
Steps == {"idle", "high", "extract", "write", "commit"}
Windows == [low : Watermarks \cup {None}, high : Watermarks, rows : SUBSET RowVersions]

Present == {r \in Rows : wm[r] # 0}
(* MAX(watermark) over the table as it is now: c is the ceiling a run takes. *)
IsHigh(c) == \E r \in Present : wm[r] = c /\ \A q \in Present : wm[q] <= c

(* The rows _build_query() selects: everything up to the ceiling on a full  *)
(* load, otherwise what lies above the previous checkpoint less lookback.   *)
AboveLowInclusive(w, low) == low # None => w >= low - Lookback

AboveLowNoWiden(w, low) == low # None => w > low

AboveLow(w, low) == low # None => w > low - Lookback

ResultSet(low, hi) ==
    {<<r, wm[r]>> : r \in {q \in Present : AboveLow(wm[q], low) /\ wm[q] <= hi}}

-----------------------------------------------------------------------------
(* No prior state, or a record seeded by hand or migrated: such a record    *)
(* has no version attribute, which get() reads as version 0, and may lack   *)
(* a checkpoint.  A seeded checkpoint answers for rows landed elsewhere.    *)
NoItem == [exists |-> FALSE, value |-> None, version |-> 0]

Seeded(v) == [exists |-> TRUE, value |-> v, version |-> 0]

Init ==
    /\ item \in {NoItem} \cup {Seeded(v) : v \in Watermarks \cup {None}}
    /\ wm = [r \in Rows |-> 0]
    /\ newest = IF item.value = None THEN 0 ELSE item.value
    /\ delivered = {}
    /\ history = <<>>
    /\ failures = 0
    /\ pc = [e \in Executions |-> "idle"]
    /\ previous = [e \in Executions |-> None]
    /\ expected = [e \in Executions |-> None]
    /\ high = [e \in Executions |-> None]
    /\ pending = [e \in Executions |-> {}]
    /\ landed = [e \in Executions |-> {}]

-----------------------------------------------------------------------------
(* The source.  A row may be written behind the newest watermark by less    *)
(* than the lookback (late commit, backdating, clock skew); with lookback 0 *)
(* every write moves the watermark strictly forward.                        *)
InsertRow(r, w) ==
    /\ wm[r] = 0
    /\ w > newest - Lookback
    /\ wm' = [wm EXCEPT ![r] = w]
    /\ newest' = IF w > newest THEN w ELSE newest
    /\ UNCHANGED <<item, delivered, history, failures, locals>>

(* A hard delete, also the first half of an update that moves the row.      *)
DeleteRow(r) ==
    /\ wm[r] # 0
    /\ wm' = [wm EXCEPT ![r] = 0]
    /\ UNCHANGED <<newest, item, delivered, history, failures, locals>>

-----------------------------------------------------------------------------
Goto(e, step) == pc' = [pc EXCEPT ![e] = step]

(* run_table() returns or raises: its locals are gone. *)
Return(e) ==
    /\ Goto(e, "idle")
    /\ previous' = [previous EXCEPT ![e] = None]
    /\ expected' = [expected EXCEPT ![e] = None]
    /\ high' = [high EXCEPT ![e] = None]
    /\ pending' = [pending EXCEPT ![e] = {}]
    /\ landed' = [landed EXCEPT ![e] = {}]

(* Step 1: the consistent read of the state record. *)
ReadState(e) ==
    /\ pc[e] = "idle"
    /\ item.version < MaxVersion
    /\ previous' = [previous EXCEPT ![e] = item.value]
    /\ expected' = [expected EXCEPT ![e] = IF item.exists THEN item.version ELSE None]
    /\ Goto(e, "high")
    /\ UNCHANGED <<source, item, delivered, history, failures, high, pending, landed>>

(* Step 2: the ceiling, and the three ways it ends the run as SKIPPED. *)
SkipEmpty(e) ==
    /\ pc[e] = "high"
    /\ Present = {}
    /\ Return(e)
    /\ UNCHANGED <<source, item, delivered, history, failures>>

UnchangedIgnoringLookback(e, c) == previous[e] = c

Unchanged(e, c) == previous[e] = c /\ Lookback = 0

SkipUnchanged(e, c) ==
    /\ pc[e] = "high"
    /\ IsHigh(c)
    /\ Unchanged(e, c)
    /\ Return(e)
    /\ UNCHANGED <<source, item, delivered, history, failures>>

(* _checkpoint_regressed() answers False for values it cannot order. *)
NeverRegressed(e, c) == FALSE

Regressed(e, c) == Orderable /\ previous[e] # None /\ c < previous[e]

SkipRegressed(e, c) ==
    /\ pc[e] = "high"
    /\ IsHigh(c)
    /\ Regressed(e, c)
    /\ Return(e)
    /\ UNCHANGED <<source, item, delivered, history, failures>>

OpenRun(e, c) ==
    /\ pc[e] = "high"
    /\ IsHigh(c)
    /\ ~Unchanged(e, c)
    /\ ~Regressed(e, c)
    /\ high' = [high EXCEPT ![e] = c]
    /\ Goto(e, "extract")
    /\ UNCHANGED <<source, item, delivered, history, failures, previous, expected, pending, landed>>

(* Step 4: the query runs once, on the source as it is at that moment... *)
Extract(e) ==
    /\ pc[e] = "extract"
    /\ pending' = [pending EXCEPT ![e] = ResultSet(previous[e], high[e])]
    /\ Goto(e, "write")
    /\ UNCHANGED <<source, item, delivered, history, failures, previous, expected, high, landed>>

(* ... and its rows are fetched and uploaded FetchSize at a time. *)
IsBatch(batch, rows) ==
    /\ batch # {}
    /\ IF batch = rows THEN Cardinality(rows) <= FetchSize
                       ELSE Cardinality(batch) = FetchSize

WriteBatch(e) ==
    /\ pc[e] = "write"
    /\ \E batch \in SUBSET pending[e] :
        /\ IsBatch(batch, pending[e])
        /\ pending' = [pending EXCEPT ![e] = @ \ batch]
        /\ landed' = [landed EXCEPT ![e] = @ \cup batch]
    /\ UNCHANGED <<source, item, delivered, history, failures, pc, previous, expected, high>>

(* Step 5: the commit marker makes the run's files visible downstream. *)
NotYetDrained(e) == TRUE

Drained(e) == pending[e] = {}

WriteManifest(e) ==
    /\ pc[e] = "write"
    /\ Drained(e)
    /\ delivered' = delivered \cup landed[e]
    /\ Goto(e, "commit")
    /\ UNCHANGED <<source, item, history, failures, previous, expected, high, pending, landed>>

(* Step 6: the conditional put.  Version 0 also stands for a record with no *)
(* version attribute, which the condition for expected 0 accepts.           *)
ConditionAlways(e) == TRUE

ConditionOnTruthiness(e) ==
    IF expected[e] \in {None, 0} THEN ~item.exists ELSE item.version = expected[e]

ConditionHolds(e) ==
    IF expected[e] = None THEN ~item.exists ELSE item.version = expected[e]

VersionAsRead(e) == expected[e]

CheckpointAsRead(e) == previous[e]

NextCheckpoint(e) == high[e]

NextVersion(e) == (IF expected[e] = None THEN 0 ELSE expected[e]) + 1

ManifestNotAwaited(e) == pc[e] \in {"write", "commit"} /\ Drained(e)

ManifestWritten(e) == pc[e] = "commit"

Window(e) == [low |-> previous[e], high |-> high[e], rows |-> landed[e]]

(* Whether the caller learns that the put was applied changes only the      *)
(* execution's exit status: a lost answer, or the conflict a blind retry of *)
(* an applied put reports, ends here too.                                   *)
Commit(e) ==
    /\ ManifestWritten(e)
    /\ ConditionHolds(e)
    /\ item' = [exists |-> TRUE, value |-> NextCheckpoint(e), version |-> NextVersion(e)]
    /\ history' = Append(history, Window(e))
    /\ Return(e)
    /\ UNCHANGED <<source, delivered, failures>>

CommitConflict(e) ==
    /\ pc[e] = "commit"
    /\ ~ConditionHolds(e)
    /\ Return(e)
    /\ UNCHANGED <<source, item, delivered, history, failures>>

(* An exception or the death of the process anywhere in the run. *)
Fail(e) ==
    /\ pc[e] # "idle"
    /\ failures < MaxFailures
    /\ failures' = failures + 1
    /\ Return(e)
    /\ UNCHANGED <<source, item, delivered, history>>

-----------------------------------------------------------------------------
RunTable(e) ==
    \/ SkipEmpty(e)
    \/ \E c \in Watermarks : SkipUnchanged(e, c)
    \/ \E c \in Watermarks : SkipRegressed(e, c)
    \/ \E c \in Watermarks : OpenRun(e, c)
    \/ Extract(e)
    \/ WriteBatch(e)
    \/ WriteManifest(e)
    \/ Commit(e)
    \/ CommitConflict(e)

Next ==
    \/ \E r \in Rows, w \in Watermarks : InsertRow(r, w)
    \/ \E r \in Rows : DeleteRow(r)
    \/ \E e \in Executions : ReadState(e) \/ RunTable(e) \/ Fail(e)

Spec == Init /\ [][Next]_vars

(* The schedule keeps starting executions and a started execution keeps     *)
(* taking steps; nothing makes the source write, or an execution fail.      *)
Fairness == \A e \in Executions : WF_vars(ReadState(e)) /\ WF_vars(RunTable(e))

FairSpec == Spec /\ Fairness
-----------------------------------------------------------------------------
TypeOK ==
    /\ wm \in [Rows -> 0..MaxWm]
    /\ newest \in 0..MaxWm
    /\ item \in [exists : BOOLEAN, value : Watermarks \cup {None}, version : Nat]
    /\ delivered \subseteq RowVersions
    /\ history \in Seq(Windows)
    /\ failures \in Nat
    /\ pc \in [Executions -> Steps]
    /\ previous \in [Executions -> Watermarks \cup {None}]
    /\ expected \in [Executions -> Nat \cup {None}]
    /\ high \in [Executions -> Watermarks \cup {None}]
    /\ pending \in [Executions -> SUBSET RowVersions]
    /\ landed \in [Executions -> SUBSET RowVersions]
    /\ \A e \in Executions : pc[e] \in {"extract", "write", "commit"} => high[e] # None

(* Core semantics: once the checkpoint has passed a row (less the lookback) *)
(* that row is in a run a downstream reader accepts.  It relates commits of *)
(* concurrent executions, failures between any two steps of run_table(),    *)
(* and rows written or deleted while a query's result is being landed.      *)
NoGap ==
    item.value # None =>
        \A r \in Present : wm[r] <= item.value - Lookback => <<r, wm[r]>> \in delivered

(* Each committed window starts at the checkpoint the previous commit set,  *)
(* and the record holds the last of them: the optimistic lock lets no two   *)
(* executions extend the same checkpoint.                                   *)
WindowsChain ==
    /\ \A i \in 1..(Len(history) - 1) : history[i + 1].low = history[i].high
    /\ history # <<>> => item.value = history[Len(history)].high

(* The checkpoint is never ahead of landing: every window it advanced over  *)
(* had its manifest written first.                                          *)
CommitsBackedByManifests == \A i \in 1..Len(history) : history[i].rows \subseteq delivered

(* Without lookback the windows that advanced the checkpoint never overlap, *)
(* so only retries and conflicting runs land a row version twice.           *)
NoDoubleDelivery ==
    Lookback = 0 =>
        \A i, j \in 1..Len(history) : i # j => history[i].rows \cap history[j].rows = {}

(* README, Core semantics: "The checkpoint never moves backwards."          *)
CheckpointNeverMovesBack ==
    [][item.value # None => item'.value # None /\ item'.value >= item.value]_item

(* The source's MAX is below the committed checkpoint. *)
Stalled ==
    /\ item.value # None
    /\ \A r \in Present : wm[r] < item.value

(* A row is owed delivery if two commits are still possible when it is      *)
(* there: the next one may be of an execution that took its ceiling before, *)
(* the one after that is not.  The bound ends the schedule at MaxVersion,   *)
(* so it limits which rows are owed and helps to deliver none.              *)
TwoCommitsLeft == item.version + 2 <= MaxVersion

(* A row that stays in the source is delivered, late or not, whatever       *)
(* executions die, as long as the schedule keeps firing and failures are    *)
(* finite, unless the regression guard is holding the table back; and no    *)
(* later than by the second commit.                                         *)
EventuallyDelivered ==
    \A r \in Rows : \A w \in Watermarks :
        (wm[r] = w /\ TwoCommitsLeft) ~> (wm[r] # w \/ <<r, w>> \in delivered \/ Stalled)

(* The checkpoint follows the source, so that delivered rows stop being     *)
(* delivered again: no record, seeded, versionless or contended, keeps      *)
(* commits from being applied, and two of them bring it up to a row.        *)
CheckpointCatchesUp ==
    \A r \in Rows : \A w \in Watermarks :
        (wm[r] = w /\ TwoCommitsLeft) ~> (wm[r] # w \/ (item.value # None /\ item.value >= w))

-----------------------------------------------------------------------------
(* What the proofs need beside TypeOK: the inductive invariant.             *)

(* Nothing committed or captured is above what the source has held.         *)
BelowNewest ==
    /\ \A r \in Rows : wm[r] <= newest
    /\ item.value # None => item.value <= newest
    /\ ~item.exists => item.value = None

(* A ceiling is one the source has reached, and not below the checkpoint.   *)
CeilingOK(e) ==
    pc[e] \in {"extract", "write", "commit"} =>
        /\ high[e] <= newest
        /\ Orderable /\ previous[e] # None => previous[e] <= high[e]

(* If the commit's condition would hold, the record is the one that was read. *)
LockOK(e) ==
    pc[e] # "idle" =>
        /\ expected[e] # None => item.exists /\ expected[e] <= item.version
        /\ ConditionHolds(e) => previous[e] = item.value

(* The rows of e's window that no later window reaches back to. *)
Owed(e) == {r \in Present : AboveLow(wm[r], previous[e]) /\ wm[r] <= high[e] - Lookback}

(* What e owes is in its hands while it writes, and visible once it commits. *)
WindowCovered(e) ==
    /\ pc[e] = "write" =>
        \A r \in Owed(e) : <<r, wm[r]>> \in pending[e] \cup landed[e]
    /\ pc[e] = "commit" =>
        /\ \A r \in Owed(e) : <<r, wm[r]>> \in delivered
        /\ landed[e] \subseteq delivered

(* The invariant's part about the shared state and about one execution.     *)
SharedInv == BelowNewest /\ NoGap /\ WindowsChain /\ CommitsBackedByManifests

LocalInv(e) == CeilingOK(e) /\ LockOK(e) /\ WindowCovered(e)

IInv == TypeOK /\ SharedInv /\ \A e \in Executions : LocalInv(e)

-----------------------------------------------------------------------------
(* The landing transaction implements the incremental load it is meant to be. *)
Load == INSTANCE IncrementalLoad WITH checkpoint <- item.value

ImplementsIncrementalLoad == Load!Spec
=============================================================================
