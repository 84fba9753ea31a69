---------------------------- MODULE S3JsonLanding ----------------------------
(***************************************************************************)
(* Landing one S3 JSON table: the wall-clock checkpoints and the folder    *)
(* walk of sources/s3_json.py under the window loop of run_job().          *)
(*                                                                         *)
(* Producers write immutable objects into hourly folders, a little late or *)
(* a little ahead of S3's clock, and an object may be stamped before it    *)
(* can be listed.  A run covers the objects stamped after the committed    *)
(* checkpoint and up to a bound captured when it starts: the clock less a  *)
(* safety delay, or the checkpoint plus the window cap.  It lists folder   *)
(* by folder while the clock moves and objects keep arriving.  The         *)
(* conditional commit against other executions is LandingPipeline's.       *)
(***************************************************************************)
EXTENDS Integers, FiniteSets

CONSTANTS
    Objects,     \* objects the producers write
    FullPrefix,  \* discovery.type: full_prefix rather than time_partitioned
    Hour,        \* ticks in an hour
    Lookback,    \* lookback_minutes, in ticks
    Lookahead,   \* lookahead_hours, in ticks
    Safety,      \* safety_delay_seconds, in ticks
    Cap,         \* max_window_hours, in ticks, or None
    Start,       \* start_at
    MaxDelay,    \* how long after its timestamp an object may become visible
    MaxSkew,     \* how far a job host's clock may be off S3's
    FirstTick,   \* the clock when the model starts
    LastTick,    \* bound on the clock
    MaxFailures, \* bound on executions that die or raise
    None

(* What the discovery settings rely on: the safety delay covers what S3     *)
(* shows late and what a fast clock shows early.                            *)
ASSUME DiscoveryConstants ==
    /\ FullPrefix \in BOOLEAN
    /\ Hour \in Nat \ {0}
    /\ {Lookback, Lookahead, Safety, Start, MaxDelay, MaxSkew, FirstTick, LastTick, MaxFailures} \subseteq Nat
    /\ Cap \in Nat \ {0} \/ Cap = None
    /\ None \notin Int
    /\ MaxDelay + MaxSkew <= Safety
    /\ MaxSkew < Safety
    /\ Safety + MaxSkew < FirstTick /\ FirstTick <= LastTick

VARIABLES
    now,        \* S3's clock
    modified,   \* LastModified of each object, 0 before it is written
    folder,     \* start of the hour that names the object's folder
    visible,    \* from when on a listing returns the object
    checkpoint, \* the committed high, or None
    delivered,  \* objects in runs that have a manifest
    fetches,    \* committed runs that contain each object
    failures,   \* executions that have died so far
    pc,         \* the next step of the execution
    previous,   \* previous_checkpoint.value
    high,       \* current_checkpoint.value
    capBound,   \* _cap_bound_last_run
    walk,       \* folders of the run not listed yet
    found       \* objects listed and read so far

producer == <<modified, folder, visible>>
committed == <<checkpoint, delivered, fetches>>
locals == <<pc, previous, high, capBound, walk, found>>
vars == <<now, producer, committed, failures, locals>>

Ticks == 0..LastTick
Steps == {"idle", "state", "high", "extract", "walk", "commit"}

HourOf(t) == t - (t % Hour)

Written == {o \in Objects : modified[o] # 0}

Init ==
    /\ now = FirstTick
    /\ modified = [o \in Objects |-> 0]
    /\ folder = [o \in Objects |-> 0]
    /\ visible = [o \in Objects |-> 0]
    /\ checkpoint = None
    /\ delivered = {}
    /\ fetches = [o \in Objects |-> 0]
    /\ failures = 0
    /\ pc = "idle"
    /\ previous = None
    /\ high = None
    /\ capBound = FALSE
    /\ walk = {}
    /\ found = {}

-----------------------------------------------------------------------------
Tick ==
    /\ now < LastTick
    /\ now' = now + 1
    /\ UNCHANGED <<producer, committed, failures, locals>>

(* The producer contract: the folder is named for an hour that closed at    *)
(* most Lookback ago or starts within Lookahead.  A full_prefix location    *)
(* has no folders to be late for.                                           *)
OnTime(h) == h <= now + Lookahead /\ now <= h + Hour + Lookback

PutObject(o, h, delay) ==
    /\ modified[o] = 0
    /\ IF FullPrefix THEN h = 0 ELSE OnTime(h)
    /\ modified' = [modified EXCEPT ![o] = now]
    /\ folder' = [folder EXCEPT ![o] = h]
    /\ visible' = [visible EXCEPT ![o] = now + delay]
    /\ UNCHANGED <<now, committed, failures, locals>>

-----------------------------------------------------------------------------
(* The execution ends: run_job() has returned or raised. *)
End ==
    /\ pc' = "idle"
    /\ previous' = None
    /\ high' = None
    /\ capBound' = FALSE
    /\ walk' = {}
    /\ found' = {}

StartJob ==
    /\ pc = "idle"
    /\ pc' = "state"
    /\ UNCHANGED <<now, producer, committed, failures, previous, high, capBound, walk, found>>

ReadState ==
    /\ pc = "state"
    /\ previous' = checkpoint
    /\ pc' = "high"
    /\ UNCHANGED <<now, producer, committed, failures, high, capBound, walk, found>>

(* get_current_checkpoint(): the clock is the host's, the cap counts from   *)
(* where the last run stopped.                                              *)
Resume == IF previous = None THEN Start ELSE previous

CapBinds(clock) == Cap # None /\ Resume + Cap < clock - Safety

UncappedBound(clock) == clock - Safety

BoundIgnoringClock(clock) == IF Cap # None THEN Resume + Cap ELSE clock - Safety

Bound(clock) == IF CapBinds(clock) THEN Resume + Cap ELSE clock - Safety

Unchanged(bound) == previous = bound /\ Lookback = 0

NeverRegressed(bound) == FALSE

Regressed(bound) == previous # None /\ bound < previous

(* run_table() returns SKIPPED and the window loop ends. *)
SkipWindow(clock) ==
    /\ pc = "high"
    /\ Unchanged(Bound(clock)) \/ Regressed(Bound(clock))
    /\ End
    /\ UNCHANGED <<now, producer, committed, failures>>

OpenWindow(clock) ==
    /\ pc = "high"
    /\ ~Unchanged(Bound(clock))
    /\ ~Regressed(Bound(clock))
    /\ high' = Bound(clock)
    /\ capBound' = CapBinds(clock)
    /\ pc' = "extract"
    /\ UNCHANGED <<now, producer, committed, failures, previous, walk, found>>

(* The folders of one run: from the checkpoint less the lookback, floored   *)
(* to the hour and never before start_at, through the bound plus the        *)
(* lookahead, whose own folder is listed even when the walk starts after    *)
(* it.  A full_prefix location is listed whole: one folder, 0.              *)
WalkWithoutLookback == IF previous = None \/ Start > previous THEN Start ELSE previous

WalkFrom ==
    IF previous = None \/ Start > previous - Lookback THEN Start ELSE previous - Lookback

Folders ==
    IF FullPrefix THEN {0}
    ELSE {h \in HourOf(WalkFrom)..(high + Lookahead) : HourOf(h) = h}
           \cup {HourOf(high + Lookahead)}

(* A bound before start_at yields nothing and is committed all the same.    *)
BeginWalk ==
    /\ pc = "extract"
    /\ walk' = IF high < Resume THEN {} ELSE Folders
    /\ pc' = "walk"
    /\ UNCHANGED <<now, producer, committed, failures, previous, high, capBound, found>>

InFolder(o, h) == FullPrefix \/ folder[o] = h

InWindowInclusive(m) == m <= high /\ m >= Resume

InWindow(m) == m <= high /\ (IF previous = None THEN m >= Start ELSE m > previous)

(* One folder is listed and its objects read; nothing is on disk yet that a *)
(* reader accepts.                                                          *)
ListFolder(h) ==
    /\ pc = "walk"
    /\ h \in walk /\ \A g \in walk : h <= g
    /\ found' = found \cup
         {o \in Written : visible[o] <= now /\ InFolder(o, h) /\ InWindow(modified[o])}
    /\ walk' = walk \ {h}
    /\ UNCHANGED <<now, producer, committed, failures, pc, previous, high, capBound>>

WriteManifest ==
    /\ pc = "walk"
    /\ walk = {}
    /\ delivered' = delivered \cup found
    /\ pc' = "commit"
    /\ UNCHANGED <<now, producer, checkpoint, fetches, failures, previous, high, capBound, walk, found>>

(* is_caught_up(): whether the loop of run_job() ends here. *)
CaughtUpByTheClock == high >= now - Safety

NeverCaughtUp == FALSE

CaughtUp == ~capBound

(* The next window of the same execution starts from scratch. *)
NextWindow ==
    /\ pc' = "state"
    /\ previous' = None
    /\ high' = None
    /\ walk' = {}
    /\ found' = {}
    /\ UNCHANGED capBound

Commit ==
    /\ pc = "commit"
    /\ checkpoint' = high
    /\ fetches' = [o \in Objects |-> IF o \in found THEN fetches[o] + 1 ELSE fetches[o]]
    /\ IF CaughtUp THEN End ELSE NextWindow
    /\ UNCHANGED <<now, producer, delivered, failures>>

(* An AWS error, a corrupt record, or the death of the process. *)
Fail ==
    /\ pc # "idle"
    /\ failures < MaxFailures
    /\ failures' = failures + 1
    /\ End
    /\ UNCHANGED <<now, producer, committed>>

-----------------------------------------------------------------------------
RunWindow ==
    \/ ReadState
    \/ \E skew \in -MaxSkew..MaxSkew : SkipWindow(now + skew) \/ OpenWindow(now + skew)
    \/ BeginWalk
    \/ \E h \in walk : ListFolder(h)
    \/ WriteManifest
    \/ Commit

Next ==
    \/ Tick
    \/ \E o \in Objects, delay \in 0..MaxDelay : \E h \in {t \in 0..(now + Lookahead) : HourOf(t) = t} :
           PutObject(o, h, delay)
    \/ StartJob
    \/ RunWindow
    \/ Fail

Spec == Init /\ [][Next]_vars

(* A started execution keeps taking steps; nothing makes one start. *)
FairSpec == Spec /\ WF_vars(RunWindow)
-----------------------------------------------------------------------------
(* No bound is ever nearer the clock than the safety delay allows. *)
Settled(bound) == bound \in 0..(now + MaxSkew - Safety)

TypeOK ==
    /\ now \in Ticks
    /\ modified \in [Objects -> Ticks]
    /\ folder \in [Objects -> 0..(LastTick + Lookahead)]
    /\ visible \in [Objects -> 0..(LastTick + MaxDelay)]
    /\ \A bound \in {checkpoint, previous, high} : bound = None \/ Settled(bound)
    /\ delivered \subseteq Objects
    /\ fetches \in [Objects -> Nat]
    /\ failures \in 0..MaxFailures
    /\ pc \in Steps
    /\ capBound \in BOOLEAN
    /\ found \subseteq Objects
    /\ \A h \in walk : HourOf(h) = h

(* Objects the feed owes: stamped from start_at on, in a folder that is not *)
(* before start_at's own hour, where the walk never goes.                   *)
Owed == {o \in Written : modified[o] >= Start /\ (FullPrefix \/ folder[o] >= HourOf(Start))}

(* README, Discovery and replay: the checkpoint never passes an object that *)
(* was not landed, however late into a closed hour or ahead of the clock    *)
(* its folder is, while it becomes visible, the clock moves during the walk *)
(* and executions die between manifest and commit.                          *)
NoObjectMissed ==
    checkpoint # None => \A o \in Owed : modified[o] <= checkpoint => o \in delivered

(* README, Discovery and replay: "Nothing is fetched twice."  Of the runs   *)
(* whose checkpoint was committed no two contain the same object, lookback  *)
(* and lookahead or not.  "The configured lookback replays recent files",    *)
(* says the docstring of s3_json.py (15-16): it replays folders, and the    *)
(* filter on LastModified leaves out of them what has been read.            *)
NothingFetchedTwice == \A o \in Objects : fetches[o] <= 1

(* README, Backfills and backlogs: no landing run advances the checkpoint   *)
(* by more than the cap, and the loop goes on to another window only after  *)
(* one as wide as the cap: it never cycles through slivers of the clock.    *)
LoopsOnFullWindows ==
    [][pc = "commit" =>
         /\ Cap # None => high - Resume <= Cap
         /\ pc' = "state" => high - Resume = Cap]_vars

(* The window loop of one execution ends, whatever is written meanwhile.    *)
JobEnds == pc # "idle" ~> pc = "idle"

-----------------------------------------------------------------------------
(* The same contract as the Snowflake pipeline's, for the objects the feed  *)
(* owes and with nothing to look back for: no object is ever stamped at or  *)
(* below a committed checkpoint.                                            *)
Load == INSTANCE IncrementalLoad
          WITH Rows <- Objects, MaxWm <- LastTick, Lookback <- 0,
               wm <- [o \in Objects |-> IF o \in Owed THEN modified[o] ELSE 0],
               delivered <- {<<o, modified[o]>> : o \in delivered}

ImplementsIncrementalLoad == Load!Init /\ [][Load!Next]_Load!vars
=============================================================================
