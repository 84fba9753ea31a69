------------------------ MODULE IngestionJobs_proofs ------------------------
(***************************************************************************)
(* The two jobs are safe for any tables, configurations, argument lists    *)
(* and number of disturbances: nothing merged is stranded, and a run that  *)
(* exits 0 has left nothing behind.                                        *)
(***************************************************************************)
EXTENDS IngestionJobs, SequenceTheorems, FiniteSetTheorems, TLAPS

-----------------------------------------------------------------------------
(* The inductive invariant. *)
LandingRun ==
    [status : {"running", "green", "red"}, queue : Seq(Tables), failFast : BOOLEAN,
     failed : BOOLEAN, due : [Tables -> SUBSET Nat], fetchSize : Nat]

BronzeRun ==
    [status : {"running", "green", "red", "skipped"}, queue : Seq(Tables), failFast : BOOLEAN,
     failed : BOOLEAN, due : [Tables -> SUBSET Nat], prefix : TablePrefixes,
     phase : {"table", "merge", "record"}, pending : SUBSET Nat]

Entries == [exists : BOOLEAN, rows : SUBSET Nat]

Types ==
    /\ config \in Configs
    /\ site \in Sites
    /\ produced \in [Tables -> Nat]
    /\ checkpoint \in [Tables -> Nat]
    /\ runs \in [Tables -> Seq(SUBSET Nat)]
    /\ book \in [Tables -> SUBSET Nat]
    /\ catalog \in [TablePrefixes \X Tables -> Entries]
    /\ landing \in LandingRun
    /\ bronze \in BronzeRun
    /\ disturbances \in 0..MaxDisturbances

Rows(t) == UNION ToSet(runs[t])

(* What the checkpoint is past has been landed, and nothing beyond it. *)
Landed ==
    \A t \in Tables :
        /\ produced[t] <= site.supply[t]
        /\ checkpoint[t] <= produced[t]
        /\ 1..checkpoint[t] \subseteq Rows(t)
        /\ \A i \in DOMAIN runs[t] : runs[t][i] \subseteq 1..checkpoint[t]

(* A table's debt is paid once it has left the queue, unless one failed. *)
LandingOwes ==
    landing.status = "running" =>
        /\ landing.fetchSize # 0
        /\ \A t \in Tables :
              /\ landing.due[t] \subseteq 1..produced[t]
              /\ \/ landing.failed
                 \/ t \in ToSet(landing.queue)
                 \/ landing.due[t] \subseteq 1..checkpoint[t]

(* One Bronze table at a time, and what is recorded is in it. *)
OneTable ==
    \A t \in Tables : ~(catalog[<<"source_key", t>>].exists /\ catalog[<<"none", t>>].exists)

CatalogRows ==
    \A name \in TablePrefixes \X Tables :
        catalog[name].rows \subseteq IF catalog[name].exists THEN 1..produced[name[2]] ELSE {}

Books ==
    \A t \in Tables : \A r \in book[t] :
        /\ r \in DOMAIN runs[t]
        /\ runs[t][r] \subseteq catalog[<<"source_key", t>>].rows \cup catalog[<<"none", t>>].rows

(* The table a pass is at exists from its first run on, what is merged but  *)
(* not recorded is in it, and so is what the pass owes but for its pending  *)
(* runs.                                                                    *)
Table(t) == catalog[<<bronze.prefix, t>>]

Oldest(r) == r \in bronze.pending /\ \A other \in bronze.pending : r <= other

Pass ==
    /\ bronze.phase = "table" => bronze.pending = {}
    /\ bronze.status # "running" => bronze.phase = "table"
    /\ bronze.phase # "table" => bronze.queue # <<>>
    /\ \A t \in Tables : bronze.phase # "table" /\ At(bronze, t) =>
          /\ Table(t).exists
          /\ bronze.pending \subseteq DOMAIN runs[t]
          /\ bronze.phase = "record" =>
                \A r \in bronze.pending : Oldest(r) => runs[t][r] \subseteq Table(t).rows
          /\ bronze.due[t] \subseteq Table(t).rows \cup UNION {runs[t][r] : r \in bronze.pending}

BronzeOwes ==
    bronze.status = "running" =>
        \A t \in Tables :
            /\ bronze.due[t] \subseteq Rows(t)
            /\ \/ bronze.failed
               \/ t \in ToSet(bronze.queue)
               \/ bronze.due[t] \subseteq Table(t).rows

IInv == Types /\ Landed /\ LandingOwes /\ OneTable /\ CatalogRows /\ Books /\ Pass /\ BronzeOwes

-----------------------------------------------------------------------------
(* Sequences. *)
LEMMA TailSet ==
    ASSUME NEW S, NEW s \in Seq(S), s # <<>>
    PROVE  /\ Head(s) \in S
           /\ Tail(s) \in Seq(S)
           /\ ToSet(s) \subseteq {Head(s)} \cup ToSet(Tail(s))
<1>1. Head(s) \in S /\ Tail(s) \in Seq(S) /\ Len(Tail(s)) = Len(s) - 1
  BY HeadTailProperties
<1>2. \A i \in 1..Len(Tail(s)) : Tail(s)[i] = s[i + 1]
  BY HeadTailProperties
<1>3. ASSUME NEW i \in DOMAIN s PROVE s[i] \in {Head(s)} \cup ToSet(Tail(s))
  <2>1. i \in 1..Len(s) /\ Len(s) \in Nat
    OBVIOUS
  <2>2. CASE i = 1
    BY <2>2
  <2>3. CASE i # 1
    <3>1. i - 1 \in 1..Len(Tail(s))
      BY <1>1, <2>1, <2>3
    <3>2. s[i] = Tail(s)[i - 1]
      BY <1>2, <3>1, <2>1
    <3> QED
      BY <1>1, <3>1, <3>2 DEF ToSet
  <2> QED
    BY <2>2, <2>3
<1> QED
  BY <1>1, <1>3 DEF ToSet

LEMMA AppendSet ==
    ASSUME NEW S, NEW s \in Seq(S), NEW e \in S
    PROVE  /\ Append(s, e) \in Seq(S)
           /\ DOMAIN Append(s, e) = DOMAIN s \cup {Len(s) + 1}
           /\ \A i \in DOMAIN s : Append(s, e)[i] = s[i]
           /\ Append(s, e)[Len(s) + 1] = e
           /\ ToSet(Append(s, e)) = ToSet(s) \cup {e}
<1>1. /\ Append(s, e) \in Seq(S)
      /\ Len(Append(s, e)) = Len(s) + 1
      /\ \A i \in 1..Len(s) : Append(s, e)[i] = s[i]
      /\ Append(s, e)[Len(s) + 1] = e
  BY AppendProperties
<1>2. DOMAIN Append(s, e) = 1..(Len(s) + 1) /\ DOMAIN s = 1..Len(s) /\ Len(s) \in Nat
  BY <1>1
<1>3. DOMAIN Append(s, e) = DOMAIN s \cup {Len(s) + 1}
  BY <1>2
<1>4. ToSet(Append(s, e)) = ToSet(s) \cup {e}
  BY <1>1, <1>2, <1>3 DEF ToSet
<1> QED
  BY <1>1, <1>2, <1>3, <1>4

-----------------------------------------------------------------------------
(* Types. *)
LEMMA SettingTypes ==
    ASSUME config \in Configs, NEW launch \in Launches \cup {Scheduled}
    PROVE  /\ Selected(config, launch) \in Seq(Tables)
           /\ FetchSize(config, launch) \in Nat
           /\ FailFast(config, launch) \in BOOLEAN
           /\ config.bronze # "absent" => config.bronze \in TablePrefixes
<1>1. launch.names \in Seq(Tables) /\ launch.fetchSize \in Sizes
  <2>1. CASE launch \in Launches
    BY <2>1, LaunchesType
  <2>2. CASE launch = Scheduled
    <3>1. <<>> \in Seq(Tables)
      OBVIOUS
    <3> QED
      BY <2>2, <3>1 DEF Scheduled, Sizes
  <2> QED
    BY <2>1, <2>2
<1>2. config.tables \in Seq(Tables) /\ config.fetchSize \in Sizes
  BY ConfigsType
<1>3. Resolve(launch.fetchSize, config.fetchSize, "default") \in {"default", "some", "zero"}
  BY <1>1, <1>2 DEF Resolve, Sizes
<1>4. FetchSize(config, launch) \in Nat
  BY <1>3 DEF FetchSize, SizeOf
<1> QED
  BY <1>1, <1>2, <1>4, ConfigsType DEF Selected, FailFast

LEMMA FailedType ==
    ASSUME NEW job \in LandingRun, job.queue # <<>>
    PROVE  TableFailed(job) \in LandingRun
<1>1. Tail(job.queue) \in Seq(Tables) /\ <<>> \in Seq(Tables)
  BY HeadTailProperties DEF LandingRun
<1> QED
  BY <1>1 DEF TableFailed, LandingRun

LEMMA FailedTypeBronze ==
    ASSUME NEW job \in BronzeRun, job.queue # <<>>
    PROVE  TableFailed(job) \in BronzeRun
<1>1. Tail(job.queue) \in Seq(Tables) /\ <<>> \in Seq(Tables)
  BY HeadTailProperties DEF BronzeRun
<1> QED
  BY <1>1 DEF TableFailed, BronzeRun

LEMMA NoRunTypes ==
    /\ \A status \in {"green", "red"} : NoLanding(status) \in LandingRun
    /\ \A status \in {"green", "red", "skipped"} : NoBronze(status) \in BronzeRun
  BY DEF NoLanding, NoBronze, NothingDue, LandingRun, BronzeRun, TablePrefixes

LEMMA DueType ==
    ASSUME NEW launch, NEW rows \in [Tables -> SUBSET Nat]
    PROVE  Due(launch, rows) \in [Tables -> SUBSET Nat]
  BY DEF Due

LEMMA LandingType ==
    ASSUME Types, NEW launch \in Launches \cup {Scheduled}, StartLanding(launch)
    PROVE  landing' \in LandingRun
<1>1. [t \in Tables |-> 1..produced[t]] \in [Tables -> SUBSET Nat]
  BY DEF Types
<1>2. Due(launch, [t \in Tables |-> 1..produced[t]]) \in [Tables -> SUBSET Nat]
  BY <1>1, DueType
<1> QED
  BY <1>2, SettingTypes, NoRunTypes DEF Types, StartLanding, LandingRun

LEMMA BronzeType ==
    ASSUME Types, NEW launch \in Launches \cup {Scheduled}, StartBronze(launch)
    PROVE  bronze' \in BronzeRun
<1>1. [t \in Tables |-> UNION ToSet(runs[t])] \in [Tables -> SUBSET Nat]
  BY DEF Types, ToSet
<1>2. Due(launch, [t \in Tables |-> UNION ToSet(runs[t])]) \in [Tables -> SUBSET Nat]
  BY <1>1, DueType
<1>3. CASE Accepted(config) /\ Known(config, launch) /\ config.bronze # "absent"
  BY <1>2, <1>3, SettingTypes DEF Types, StartBronze, BronzeRun
<1>4. CASE ~(Accepted(config) /\ Known(config, launch) /\ config.bronze # "absent")
  BY <1>4, NoRunTypes DEF StartBronze
<1> QED
  BY <1>3, <1>4

LEMMA LandStepTypes ==
    ASSUME Types, LandStep
    PROVE  Types'
<1>0. landing \in LandingRun
  BY DEF Types
<1>1. ASSUME NEW t \in Tables, LandWindow(t) PROVE Types'
  <2>1. PICK upTo \in {checkpoint[t] + 1, produced[t]} :
          /\ At(landing, t)
          /\ runs' = [runs EXCEPT ![t] = Append(@,
                         IF landing.fetchSize = 0 THEN {} ELSE checkpoint[t] + 1 .. upTo)]
          /\ checkpoint' = [checkpoint EXCEPT ![t] = upTo]
          /\ landing' = IF CaughtUp(t, upTo) THEN [landing EXCEPT !.queue = Tail(@)] ELSE landing
          /\ UNCHANGED <<world, produced, merged, bronze, disturbances>>
    BY <1>1 DEF LandWindow
  <2>2. upTo \in Nat /\ checkpoint[t] \in Nat /\ runs[t] \in Seq(SUBSET Nat)
    BY <2>1 DEF Types
  <2>3. (IF landing.fetchSize = 0 THEN {} ELSE checkpoint[t] + 1 .. upTo) \in SUBSET Nat
    BY <2>2
  <2>4. Append(runs[t], IF landing.fetchSize = 0 THEN {} ELSE checkpoint[t] + 1 .. upTo) \in Seq(SUBSET Nat)
    BY <2>2, <2>3, AppendSet
  <2>5. runs' \in [Tables -> Seq(SUBSET Nat)]
    BY <2>1, <2>4 DEF Types
  <2>6. checkpoint' \in [Tables -> Nat]
    BY <2>1, <2>2 DEF Types
  <2>7. landing' \in LandingRun
    BY <2>1, <1>0, HeadTailProperties DEF At, LandingRun
  <2> QED
    BY <2>1, <2>5, <2>6, <2>7 DEF Types, world, merged
<1>2. ASSUME NEW t \in Tables, LandNothing(t) PROVE Types'
  <2>1. landing' \in LandingRun
    BY <1>0, <1>2, HeadTailProperties DEF LandNothing, At, LandingRun
  <2> QED
    BY <1>2, <2>1 DEF LandNothing, Types, world, landed, merged
<1>3. ASSUME NEW t \in Tables, LandFails(t) PROVE Types'
  <2>1. landing' \in LandingRun
    BY <1>0, <1>3, FailedType DEF LandFails, At
  <2>2. disturbances' \in 0..MaxDisturbances
    BY <1>3, MaxDisturbancesNat DEF LandFails, Disturb, Types
  <2> QED
    BY <1>3, <2>1, <2>2 DEF LandFails, Types, world, landed, merged
<1>4. CASE LandExit
  <2>1. landing' \in LandingRun
    BY <1>4, NoRunTypes DEF LandExit
  <2> QED
    BY <1>4, <2>1 DEF LandExit, Types, world, landed, merged
<1> QED
  BY <1>1, <1>2, <1>3, <1>4 DEF LandStep

LEMMA BronzeStepTypes ==
    ASSUME Types, Pass, BronzeStep
    PROVE  Types'
<1>0. bronze \in BronzeRun
  BY DEF Types
<1>1. ASSUME NEW t \in Tables, BeginTable(t) PROVE Types'
  <2>1. CASE runs[t] = <<>>
    <3>1. bronze.queue # <<>> /\ bronze' = [bronze EXCEPT !.queue = Tail(@)]
      BY <1>1, <2>1 DEF BeginTable, At
    <3>2. bronze' \in BronzeRun
      BY <1>0, <3>1, HeadTailProperties DEF BronzeRun
    <3> QED
      BY <1>1, <2>1, <3>2 DEF BeginTable, Types, world, landed
  <2>2. CASE runs[t] # <<>>
    <3> DEFINE name == <<bronze.prefix, t>>
               known == IF catalog[name].exists THEN book[t] ELSE {}
    <3>1. /\ bronze' = [bronze EXCEPT !.phase = "merge", !.pending = DOMAIN runs[t] \ known]
          /\ catalog' = [catalog EXCEPT ![name].exists = TRUE]
      BY <1>1, <2>2 DEF BeginTable
    <3>2. DOMAIN runs[t] \subseteq Nat
      BY DEF Types
    <3>3. bronze' \in BronzeRun
      BY <1>0, <3>1, <3>2 DEF BronzeRun
    <3>4. catalog' \in [TablePrefixes \X Tables -> Entries]
      BY <3>1 DEF Types, Entries
    <3> QED
      BY <1>1, <3>3, <3>4 DEF BeginTable, Types, world, landed
  <2> QED
    BY <2>1, <2>2
<1>2. ASSUME NEW t \in Tables, NEW r \in bronze.pending, MergeRun(t, r) PROVE Types'
  <2>1. r \in DOMAIN runs[t]
    BY <1>2 DEF MergeRun, NextRun, Pass
  <2>4. runs[t][r] \in SUBSET Nat
    BY <2>1 DEF Types
  <2>5. <<bronze.prefix, t>> \in TablePrefixes \X Tables
    BY <1>0 DEF BronzeRun
  <2>2. bronze' \in BronzeRun
    BY <1>0, <1>2 DEF MergeRun, BronzeRun
  <2>3. catalog' \in [TablePrefixes \X Tables -> Entries]
    BY <1>2, <2>4, <2>5 DEF MergeRun, Types, Entries
  <2> QED
    BY <1>2, <2>2, <2>3 DEF MergeRun, Types, world, landed
<1>3. ASSUME NEW t \in Tables, NEW r \in bronze.pending, MarkProcessed(t, r) PROVE Types'
  <2>1. r \in Nat
    BY <1>0 DEF BronzeRun
  <2>2. bronze' \in BronzeRun
    BY <1>0, <1>3 DEF MarkProcessed, BronzeRun
  <2>3. book' \in [Tables -> SUBSET Nat]
    BY <1>3, <2>1 DEF MarkProcessed, Types
  <2> QED
    BY <1>3, <2>2, <2>3 DEF MarkProcessed, Types, world, landed
<1>4. ASSUME NEW t \in Tables, TableDone(t) PROVE Types'
  <2>1. bronze' \in BronzeRun
    BY <1>0, <1>4, HeadTailProperties DEF TableDone, TableLeft, At, BronzeRun
  <2> QED
    BY <1>4, <2>1 DEF TableDone, Types, world, landed, merged
<1>5. ASSUME NEW t \in Tables, BronzeFails(t) PROVE Types'
  <2>1. TableFailed(bronze) \in BronzeRun
    BY <1>0, <1>5, FailedTypeBronze DEF BronzeFails, At
  <2>2. bronze' \in BronzeRun
    BY <1>5, <2>1 DEF BronzeFails, TableLeft, BronzeRun
  <2>3. disturbances' \in 0..MaxDisturbances
    BY <1>5, MaxDisturbancesNat DEF BronzeFails, Disturb, Types
  <2> QED
    BY <1>5, <2>2, <2>3 DEF BronzeFails, Types, world, landed, merged
<1>6. CASE BronzeExit
  <2>1. bronze' \in BronzeRun
    BY <1>6, NoRunTypes DEF BronzeExit
  <2> QED
    BY <1>6, <2>1 DEF BronzeExit, Types, world, landed, merged
<1> QED
  BY <1>1, <1>2, <1>3, <1>4, <1>5, <1>6 DEF BronzeStep

LEMMA TypesInit == Init => Types
<1> SUFFICES ASSUME Init PROVE Types
  OBVIOUS
<1>1. config \in Configs /\ site \in Sites /\ disturbances \in 0..MaxDisturbances
  BY MaxDisturbancesNat DEF Init
<1>2. /\ produced \in [Tables -> Nat]
      /\ checkpoint \in [Tables -> Nat]
      /\ book \in [Tables -> SUBSET Nat]
  BY DEF Init
<1>3. runs \in [Tables -> Seq(SUBSET Nat)]
  BY DEF Init
<1>4. catalog \in [TablePrefixes \X Tables -> Entries]
  BY DEF Init, Absent, Entries
<1> QED
  BY <1>1, <1>2, <1>3, <1>4, NoRunTypes DEF Init, Types

LEMMA TypesStep ==
    ASSUME Types, Pass, [Next]_vars
    PROVE  Types'
<1>1. ASSUME NEW launch \in Launches \cup {Scheduled}, StartLanding(launch),
             disturbances' \in 0..MaxDisturbances
      PROVE  Types'
  BY <1>1, LandingType DEF StartLanding, Types, world, landed, merged
<1>2. ASSUME NEW launch \in Launches \cup {Scheduled}, StartBronze(launch),
             disturbances' \in 0..MaxDisturbances
      PROVE  Types'
  BY <1>2, BronzeType DEF StartBronze, Types, world, landed, merged
<1>3. ASSUME Disturb PROVE disturbances' \in 0..MaxDisturbances
  BY <1>3, MaxDisturbancesNat DEF Disturb, Types
<1>4. CASE ScheduledLanding \/ ScheduledBronze
  BY <1>4, <1>1, <1>2 DEF ScheduledLanding, ScheduledBronze, Types
<1>5. CASE ByHand
  BY <1>5, <1>1, <1>2, <1>3 DEF ByHand
<1>6. CASE EditConfig
  BY <1>6, <1>3 DEF EditConfig, Types, landed, merged
<1>7. CASE DropTable
  <2>1. PICK name \in DOMAIN catalog :
          /\ catalog' = [catalog EXCEPT ![name] = Absent]
          /\ book' = [book EXCEPT ![name[2]] = {}]
    BY <1>7 DEF DropTable
  <2>2. catalog' \in [TablePrefixes \X Tables -> Entries] /\ book' \in [Tables -> SUBSET Nat]
    BY <2>1 DEF Types, Absent, Entries
  <2> QED
    BY <1>7, <1>3, <2>2 DEF DropTable, Types, world, landed
<1>8. CASE KillLanding \/ KillBronze
  BY <1>8, <1>3, NoRunTypes DEF KillLanding, KillBronze, Types, world, landed, merged
<1>9. ASSUME NEW t \in Tables, Produce(t) PROVE Types'
  BY <1>9 DEF Produce, Types, world, merged
<1>10. CASE UNCHANGED vars
  BY <1>10 DEF vars, Types
<1> QED
  BY <1>4, <1>5, <1>6, <1>7, <1>8, <1>9, <1>10, LandStepTypes, BronzeStepTypes DEF Next

-----------------------------------------------------------------------------
(* The landing job. *)
LEMMA WindowStep ==
    ASSUME Types, Landed, LandingOwes, NEW t \in Tables, LandWindow(t)
    PROVE  \E upTo \in checkpoint[t] .. produced[t] :
              /\ checkpoint' = [checkpoint EXCEPT ![t] = upTo]
              /\ runs' = [runs EXCEPT ![t] = Append(@, checkpoint[t] + 1 .. upTo)]
              /\ landing' = IF upTo = produced[t]
                              THEN [landing EXCEPT !.queue = Tail(@)] ELSE landing
<1>1. PICK upTo \in {checkpoint[t] + 1, produced[t]} :
        /\ At(landing, t)
        /\ upTo <= produced[t]
        /\ runs' = [runs EXCEPT ![t] = Append(@,
                       IF landing.fetchSize = 0 THEN {} ELSE checkpoint[t] + 1 .. upTo)]
        /\ checkpoint' = [checkpoint EXCEPT ![t] = upTo]
        /\ landing' = IF upTo = produced[t] THEN [landing EXCEPT !.queue = Tail(@)] ELSE landing
  BY DEF LandWindow, CaughtUp
<1>2. landing.fetchSize # 0
  BY <1>1 DEF At, LandingOwes
<1>3. upTo \in checkpoint[t] .. produced[t]
  BY <1>1 DEF Types, Landed
<1> QED
  BY <1>1, <1>2, <1>3

LEMMA SupplyTypes ==
    ASSUME site \in Sites
    PROVE  site.supply \in [Tables -> Nat]
  BY SitesType

LEMMA SameSite ==
    ASSUME [Next]_vars
    PROVE  site' = site
<1>1. LandStep \/ BronzeStep => site' = site
  BY DEF LandStep, LandWindow, LandNothing, LandFails, LandExit, BronzeStep, BeginTable, TableDone,
         BronzeFails, MergeRun, MarkProcessed, BronzeExit, world
<1>2. ScheduledLanding \/ ScheduledBronze \/ ByHand => site' = site
  BY DEF ScheduledLanding, ScheduledBronze, ByHand, StartLanding, StartBronze, world
<1>3. EditConfig \/ DropTable \/ KillLanding \/ KillBronze \/ (\E t \in Tables : Produce(t)) => site' = site
  BY DEF EditConfig, DropTable, KillLanding, KillBronze, Produce, world
<1> QED
  BY <1>1, <1>2, <1>3 DEF Next, vars

LEMMA LandedStep ==
    ASSUME Types, Landed, LandingOwes, [Next]_vars
    PROVE  Landed'
<1>0. site' = site
  BY SameSite
<1>1. ASSUME NEW t \in Tables, LandWindow(t) PROVE Landed'
  <2>1. PICK upTo \in checkpoint[t] .. produced[t] :
          /\ checkpoint' = [checkpoint EXCEPT ![t] = upTo]
          /\ runs' = [runs EXCEPT ![t] = Append(@, checkpoint[t] + 1 .. upTo)]
    BY <1>1, WindowStep
  <2>2. produced' = produced
    BY <1>1 DEF LandWindow
  <2>3. /\ checkpoint[t] \in Nat /\ produced[t] \in Nat /\ upTo \in Nat
        /\ runs[t] \in Seq(SUBSET Nat)
        /\ checkpoint[t] + 1 .. upTo \in SUBSET Nat
    BY <2>1 DEF Types
  <2>4. runs'[t] = Append(runs[t], checkpoint[t] + 1 .. upTo) /\ checkpoint'[t] = upTo
    BY <2>1 DEF Types
  <2>5. 1..upTo \subseteq Rows(t)'
    <3> DEFINE new == checkpoint[t] + 1 .. upTo
    <3>0. ToSet(Append(runs[t], new)) = ToSet(runs[t]) \cup {new}
      BY <2>3, AppendSet
    <3>1. Rows(t)' = Rows(t) \cup new
      BY <2>4, <3>0 DEF Rows
    <3>2. 1..checkpoint[t] \subseteq Rows(t)
      BY DEF Landed
    <3>3. ASSUME NEW n \in 1..upTo PROVE n \in 1..checkpoint[t] \/ n \in checkpoint[t] + 1 .. upTo
      BY <2>3
    <3> QED
      BY <3>1, <3>2, <3>3
  <2>6. ASSUME NEW i \in DOMAIN runs'[t] PROVE runs'[t][i] \subseteq 1..upTo
    <3>1. CASE i \in DOMAIN runs[t]
      <4>1. runs'[t][i] = runs[t][i] /\ runs[t][i] \subseteq 1..checkpoint[t]
        BY <2>3, <2>4, <3>1, AppendSet DEF Landed
      <4>2. 1..checkpoint[t] \subseteq 1..upTo
        BY <2>1, <2>3
      <4> QED
        BY <4>1, <4>2
    <3>2. CASE i = Len(runs[t]) + 1
      <4>1. runs'[t][i] = checkpoint[t] + 1 .. upTo
        BY <2>3, <2>4, <3>2, AppendSet
      <4> QED
        BY <4>1, <2>3
    <3> QED
      BY <2>3, <2>4, <2>6, <3>1, <3>2, AppendSet
  <2>7. ASSUME NEW u \in Tables, u # t
        PROVE  runs'[u] = runs[u] /\ checkpoint'[u] = checkpoint[u] /\ Rows(u)' = Rows(u)
    BY <2>1, <2>7 DEF Types, Rows
  <2> QED
    BY <1>0, <2>1, <2>2, <2>3, <2>4, <2>5, <2>6, <2>7 DEF Landed
<1>2. ASSUME NEW t \in Tables, Produce(t) PROVE Landed'
  <2>1. checkpoint' = checkpoint /\ runs' = runs
    BY <1>2 DEF Produce
  <2>2. ASSUME NEW u \in Tables
        PROVE  produced'[u] <= site.supply[u] /\ checkpoint[u] <= produced'[u]
    <3>1. /\ produced' = [produced EXCEPT ![t] = @ + 1]
          /\ produced[t] < site.supply[t]
          /\ produced[u] <= site.supply[u] /\ checkpoint[u] <= produced[u]
          /\ produced[u] \in Nat /\ checkpoint[u] \in Nat /\ site.supply[u] \in Nat
      BY <1>2, SupplyTypes DEF Produce, Types, Landed
    <3> QED
      BY <3>1 DEF Types
  <2>3. \A u \in Tables : Rows(u)' = Rows(u)
    BY <2>1 DEF Rows
  <2> QED
    BY <1>0, <2>1, <2>2, <2>3 DEF Landed
<1>3. CASE UNCHANGED landed
  BY <1>0, <1>3 DEF landed, Landed, Rows
<1>4. LandStep => UNCHANGED landed \/ \E t \in Tables : LandWindow(t)
  BY DEF LandStep, LandNothing, LandFails, LandExit
<1>5. BronzeStep => UNCHANGED landed
  BY DEF BronzeStep, BeginTable, MergeRun, MarkProcessed, TableDone, BronzeFails, BronzeExit
<1>6. ScheduledLanding \/ ScheduledBronze \/ ByHand => UNCHANGED landed
  BY DEF ScheduledLanding, ScheduledBronze, ByHand, StartLanding, StartBronze
<1>7. EditConfig \/ DropTable \/ KillLanding \/ KillBronze => UNCHANGED landed
  BY DEF EditConfig, DropTable, KillLanding, KillBronze
<1>8. UNCHANGED vars => UNCHANGED landed
  BY DEF vars, landed
<1> QED
  BY <1>1, <1>2, <1>3, <1>4, <1>5, <1>6, <1>7, <1>8 DEF Next

LEMMA LandingOwesStart ==
    ASSUME Types, NEW launch \in Launches \cup {Scheduled}, StartLanding(launch)
    PROVE  LandingOwes'
<1>1. CASE Accepted(config) /\ Known(config, launch) /\ Runnable(config, launch)
  <2>1. /\ landing'.queue = Selected(config, launch)
        /\ landing'.due = Due(launch, [t \in Tables |-> 1..produced[t]])
        /\ landing'.fetchSize = FetchSize(config, launch)
        /\ produced' = produced
    BY <1>1 DEF StartLanding, landed
  <2>2. landing'.fetchSize # 0
    BY <1>1, <2>1, SettingTypes DEF Runnable, Types
  <2>3. ASSUME NEW t \in Tables
        PROVE  /\ landing'.due[t] \subseteq 1..produced[t]
               /\ t \in ToSet(landing'.queue) \/ landing'.due[t] = {}
    BY <2>1 DEF Due
  <2> QED
    BY <2>1, <2>2, <2>3 DEF LandingOwes
<1>2. CASE ~(Accepted(config) /\ Known(config, launch) /\ Runnable(config, launch))
  BY <1>2 DEF StartLanding, NoLanding, LandingOwes
<1> QED
  BY <1>1, <1>2

LEMMA LandingOwesStep ==
    ASSUME Types, Landed, LandingOwes, [Next]_vars
    PROVE  LandingOwes'
<1>0. landing \in LandingRun
  BY DEF Types
<1>1. ASSUME NEW t \in Tables, LandWindow(t) PROVE LandingOwes'
  <2>1. PICK upTo \in checkpoint[t] .. produced[t] :
          /\ checkpoint' = [checkpoint EXCEPT ![t] = upTo]
          /\ landing' = IF upTo = produced[t] THEN [landing EXCEPT !.queue = Tail(@)] ELSE landing
    BY <1>1, WindowStep
  <2>2. /\ produced' = produced
        /\ landing.status = "running" /\ landing.queue # <<>> /\ t = Head(landing.queue)
    BY <1>1 DEF LandWindow, At
  <2>3. landing'.fetchSize = landing.fetchSize /\ landing'.due = landing.due /\ landing'.failed = landing.failed
    BY <1>0, <2>1 DEF LandingRun
  <2>4. ASSUME NEW u \in Tables, ~landing.failed
        PROVE  u \in ToSet(landing'.queue) \/ landing.due[u] \subseteq 1..checkpoint'[u]
    <3>1. checkpoint[u] \in Nat /\ checkpoint'[u] \in Nat /\ checkpoint[u] <= checkpoint'[u]
      BY <2>1 DEF Types
    <3>2. 1..checkpoint[u] \subseteq 1..checkpoint'[u]
      BY <3>1
    <3>3. u \in ToSet(landing.queue) \/ landing.due[u] \subseteq 1..checkpoint'[u]
      BY <2>2, <2>4, <3>2 DEF LandingOwes
    <3>4. CASE upTo # produced[t]
      BY <2>1, <3>3, <3>4
    <3>5. CASE upTo = produced[t]
      <4>1. landing'.queue = Tail(landing.queue)
        BY <1>0, <2>1, <3>5 DEF LandingRun
      <4>2. ToSet(landing.queue) \subseteq {t} \cup ToSet(Tail(landing.queue))
        BY <1>0, <2>2, TailSet DEF LandingRun
      <4>3. landing.due[t] \subseteq 1..checkpoint'[t]
        BY <2>1, <2>2, <3>5 DEF LandingOwes, Types
      <4> QED
        BY <3>3, <4>1, <4>2, <4>3
    <3> QED
      BY <3>4, <3>5
  <2> QED
    BY <2>2, <2>3, <2>4 DEF LandingOwes
<1>2. ASSUME NEW t \in Tables, LandNothing(t) PROVE LandingOwes'
  <2>1. /\ landing.status = "running" /\ landing.queue # <<>> /\ t = Head(landing.queue)
        /\ checkpoint[t] = produced[t]
        /\ landing' = [landing EXCEPT !.queue = Tail(@)]
        /\ produced' = produced /\ checkpoint' = checkpoint
    BY <1>2 DEF LandNothing, At, landed
  <2>2. /\ landing'.queue = Tail(landing.queue)
        /\ landing'.fetchSize = landing.fetchSize /\ landing'.due = landing.due /\ landing'.failed = landing.failed
    BY <1>0, <2>1 DEF LandingRun
  <2>3. ToSet(landing.queue) \subseteq {t} \cup ToSet(landing'.queue)
    BY <1>0, <2>1, <2>2, TailSet DEF LandingRun
  <2>4. landing.due[t] \subseteq 1..checkpoint[t]
    BY <2>1 DEF LandingOwes
  <2> QED
    BY <2>1, <2>2, <2>3, <2>4 DEF LandingOwes
<1>3. ASSUME NEW t \in Tables, LandFails(t) PROVE LandingOwes'
  <2>1. /\ landing.status = "running"
        /\ landing'.failed = TRUE /\ landing'.fetchSize = landing.fetchSize /\ landing'.due = landing.due
        /\ produced' = produced
    BY <1>0, <1>3 DEF LandFails, At, TableFailed, LandingRun, landed
  <2> QED
    BY <2>1 DEF LandingOwes
<1>4. CASE LandExit \/ KillLanding
  BY <1>4 DEF LandExit, KillLanding, NoLanding, LandingOwes
<1>5. ASSUME NEW t \in Tables, Produce(t) PROVE LandingOwes'
  <2>1. landing' = landing /\ checkpoint' = checkpoint /\ produced' = [produced EXCEPT ![t] = @ + 1]
    BY <1>5 DEF Produce
  <2>2. ASSUME NEW u \in Tables PROVE 1..produced[u] \subseteq 1..produced'[u]
    BY <2>1 DEF Types
  <2> QED
    BY <2>1, <2>2 DEF LandingOwes
<1>6. CASE landing' = landing /\ UNCHANGED landed
  BY <1>6 DEF landed, LandingOwes
<1>7. LandStep => LandExit \/ \E t \in Tables : LandWindow(t) \/ LandNothing(t) \/ LandFails(t)
  BY DEF LandStep
<1>8. BronzeStep => landing' = landing /\ UNCHANGED landed
  BY DEF BronzeStep, BeginTable, MergeRun, MarkProcessed, TableDone, BronzeFails, BronzeExit
<1>9. ScheduledLanding \/ ScheduledBronze \/ ByHand => LandingOwes'
  BY <1>6, LandingOwesStart DEF ScheduledLanding, ScheduledBronze, ByHand, StartBronze
<1>10. EditConfig \/ DropTable \/ KillBronze => landing' = landing /\ UNCHANGED landed
  BY DEF EditConfig, DropTable, KillBronze
<1>11. UNCHANGED vars => landing' = landing /\ UNCHANGED landed
  BY DEF vars, landed
<1> QED
  BY <1>1, <1>2, <1>3, <1>4, <1>5, <1>6, <1>7, <1>8, <1>9, <1>10, <1>11 DEF Next

-----------------------------------------------------------------------------
(* The Bronze job: what every step preserves of landing runs and tables.    *)
RunsGrow ==
    \A t \in Tables :
        /\ produced[t] <= produced'[t]
        /\ \A i \in DOMAIN runs[t] : i \in DOMAIN runs'[t] /\ runs'[t][i] = runs[t][i]
        /\ Rows(t) \subseteq Rows(t)'

CatalogGrows ==
    \A name \in TablePrefixes \X Tables :
        /\ catalog[name].exists => catalog'[name].exists
        /\ catalog[name].rows \subseteq catalog'[name].rows

LEMMA RunsGrowStep ==
    ASSUME Types, Landed, LandingOwes, [Next]_vars
    PROVE  RunsGrow
<1>1. ASSUME NEW t \in Tables, LandWindow(t) PROVE RunsGrow
  <2>1. PICK upTo \in checkpoint[t] .. produced[t] :
          runs' = [runs EXCEPT ![t] = Append(@, checkpoint[t] + 1 .. upTo)]
    BY <1>1, WindowStep
  <2>2. /\ checkpoint[t] \in Nat /\ runs[t] \in Seq(SUBSET Nat)
        /\ checkpoint[t] + 1 .. upTo \in SUBSET Nat
    BY <2>1 DEF Types
  <2>3. /\ runs'[t] = Append(runs[t], checkpoint[t] + 1 .. upTo)
        /\ \A u \in Tables \ {t} : runs'[u] = runs[u] /\ Rows(u)' = Rows(u)
    BY <2>1 DEF Types, Rows
  <2>4. ToSet(Append(runs[t], checkpoint[t] + 1 .. upTo)) = ToSet(runs[t]) \cup {checkpoint[t] + 1 .. upTo}
    BY <2>2, AppendSet
  <2>5. Rows(t) \subseteq Rows(t)'
    BY <2>3, <2>4 DEF Rows
  <2>6. \A i \in DOMAIN runs[t] : i \in DOMAIN runs'[t] /\ runs'[t][i] = runs[t][i]
    BY <2>2, <2>3, AppendSet
  <2>7. produced' = produced /\ \A u \in Tables : produced[u] <= produced'[u]
    BY <1>1 DEF LandWindow, Types
  <2> QED
    BY <2>3, <2>5, <2>6, <2>7 DEF RunsGrow
<1>2. ASSUME runs' = runs, \A t \in Tables : produced[t] <= produced'[t] PROVE RunsGrow
  BY <1>2 DEF RunsGrow, Rows
<1>3. ASSUME NEW t \in Tables, Produce(t) PROVE RunsGrow
  BY <1>2, <1>3 DEF Produce, Types
<1>4. CASE UNCHANGED landed
  BY <1>2, <1>4 DEF landed, Types
<1>5. LandStep => UNCHANGED landed \/ \E t \in Tables : LandWindow(t)
  BY DEF LandStep, LandNothing, LandFails, LandExit
<1>6. BronzeStep => UNCHANGED landed
  BY DEF BronzeStep, BeginTable, MergeRun, MarkProcessed, TableDone, BronzeFails, BronzeExit
<1>7. ScheduledLanding \/ ScheduledBronze \/ ByHand => UNCHANGED landed
  BY DEF ScheduledLanding, ScheduledBronze, ByHand, StartLanding, StartBronze
<1>8. EditConfig \/ DropTable \/ KillLanding \/ KillBronze => UNCHANGED landed
  BY DEF EditConfig, DropTable, KillLanding, KillBronze
<1>9. UNCHANGED vars => UNCHANGED landed
  BY DEF vars, landed
<1> QED
  BY <1>1, <1>3, <1>4, <1>5, <1>6, <1>7, <1>8, <1>9 DEF Next

LEMMA BeginCreates ==
    ASSUME Types, NEW t \in Tables, BeginTable(t), runs[t] # <<>>
    PROVE  LET name == <<bronze.prefix, t>>
           IN  /\ name \in TablePrefixes \X Tables
               /\ ~Stranded(bronze.prefix, t)
               /\ catalog'[name].exists
               /\ catalog'[name].rows = catalog[name].rows
               /\ \A other \in (TablePrefixes \X Tables) \ {name} : catalog'[other] = catalog[other]
<1> DEFINE name == <<bronze.prefix, t>>
<1>1. name \in TablePrefixes \X Tables
  BY DEF Types, BronzeRun
<1>2. catalog' = [catalog EXCEPT ![name].exists = TRUE] /\ ~Stranded(bronze.prefix, t)
  BY DEF BeginTable, Refused
<1>3. catalog[name] \in Entries
  BY <1>1 DEF Types
<1> QED
  BY <1>1, <1>2, <1>3 DEF Types, Entries

LEMMA MergeAdds ==
    ASSUME Types, Pass, NEW t \in Tables, NEW r \in bronze.pending, MergeRun(t, r)
    PROVE  LET name == <<bronze.prefix, t>>
           IN  /\ name \in TablePrefixes \X Tables
               /\ catalog[name].exists
               /\ r \in DOMAIN runs[t]
               /\ catalog'[name].exists = catalog[name].exists
               /\ catalog'[name].rows = catalog[name].rows \cup runs[t][r]
               /\ \A other \in (TablePrefixes \X Tables) \ {name} : catalog'[other] = catalog[other]
<1> DEFINE name == <<bronze.prefix, t>>
<1>1. name \in TablePrefixes \X Tables
  BY DEF Types, BronzeRun
<1>2. catalog' = [catalog EXCEPT ![name].rows = @ \cup runs[t][r]]
  BY DEF MergeRun
<1>3. catalog[name] \in Entries
  BY <1>1 DEF Types
<1>4. catalog[name].exists /\ r \in DOMAIN runs[t]
  BY DEF MergeRun, NextRun, Pass, Table
<1> QED
  BY <1>1, <1>2, <1>3, <1>4 DEF Types, Entries

(* Who writes the catalog: a pass that creates or fills its table, or the   *)
(* operator who drops one.                                                  *)
LEMMA CatalogWriters ==
    ASSUME [Next]_vars
    PROVE  \/ catalog' = catalog
           \/ DropTable
           \/ \E t \in Tables : BeginTable(t) /\ runs[t] # <<>>
           \/ \E t \in Tables : \E r \in bronze.pending : MergeRun(t, r)
<1>1. LandStep => catalog' = catalog
  BY DEF LandStep, LandWindow, LandNothing, LandFails, LandExit, merged
<1>2. ASSUME NEW t \in Tables, BeginTable(t), runs[t] = <<>> PROVE catalog' = catalog
  BY <1>2 DEF BeginTable
<1>3. BronzeStep => \/ catalog' = catalog
                    \/ \E t \in Tables : BeginTable(t) \/ \E r \in bronze.pending : MergeRun(t, r)
  BY DEF BronzeStep, MarkProcessed, TableDone, BronzeFails, BronzeExit, merged
<1>4. ScheduledLanding \/ ScheduledBronze \/ ByHand => catalog' = catalog
  BY DEF ScheduledLanding, ScheduledBronze, ByHand, StartLanding, StartBronze, merged
<1>5. EditConfig \/ KillLanding \/ KillBronze \/ (\E t \in Tables : Produce(t)) => catalog' = catalog
  BY DEF EditConfig, KillLanding, KillBronze, Produce, merged
<1>6. UNCHANGED vars => catalog' = catalog
  BY DEF vars
<1> QED
  BY <1>1, <1>2, <1>3, <1>4, <1>5, <1>6 DEF Next

LEMMA CatalogStep ==
    ASSUME Types, Pass, [Next]_vars, ~DropTable
    PROVE  CatalogGrows
<1>1. ASSUME NEW t \in Tables, BeginTable(t), runs[t] # <<>> PROVE CatalogGrows
  BY <1>1, BeginCreates DEF CatalogGrows
<1>2. ASSUME NEW t \in Tables, NEW r \in bronze.pending, MergeRun(t, r) PROVE CatalogGrows
  BY <1>2, MergeAdds DEF CatalogGrows
<1>3. CASE catalog' = catalog
  BY <1>3 DEF CatalogGrows
<1> QED
  BY <1>1, <1>2, <1>3, CatalogWriters

LEMMA DropEmpties ==
    ASSUME Types, DropTable
    PROVE  \E name \in TablePrefixes \X Tables :
              /\ catalog' = [catalog EXCEPT ![name] = Absent]
              /\ catalog'[name] = Absent
              /\ \A other \in (TablePrefixes \X Tables) \ {name} : catalog'[other] = catalog[other]
              /\ book'[name[2]] = {}
              /\ \A u \in Tables \ {name[2]} : book'[u] = book[u]
              /\ bronze' = bronze /\ bronze.status # "running"
              /\ UNCHANGED landed
<1>1. DOMAIN catalog = TablePrefixes \X Tables /\ DOMAIN book = Tables
  BY DEF Types
<1>2. PICK name \in TablePrefixes \X Tables :
        /\ catalog' = [catalog EXCEPT ![name] = Absent]
        /\ book' = [book EXCEPT ![name[2]] = {}]
  BY <1>1 DEF DropTable
<1>3. name[2] \in Tables
  BY <1>2
<1> QED
  BY <1>1, <1>2, <1>3 DEF DropTable

LEMMA OneTableStep ==
    ASSUME Types, Pass, OneTable, [Next]_vars
    PROVE  OneTable'
<1>1. ASSUME NEW t \in Tables, BeginTable(t), runs[t] # <<>> PROVE OneTable'
  <2> DEFINE name == <<bronze.prefix, t>>
  <2>1. /\ name \in TablePrefixes \X Tables /\ bronze.prefix \in TablePrefixes
        /\ ~Stranded(bronze.prefix, t)
        /\ \A other \in (TablePrefixes \X Tables) \ {name} : catalog'[other] = catalog[other]
    BY <1>1, BeginCreates
  <2>2. ASSUME NEW u \in Tables, u # t
        PROVE  ~(catalog'[<<"source_key", u>>].exists /\ catalog'[<<"none", u>>].exists)
    BY <2>1, <2>2 DEF OneTable, TablePrefixes
  <2>3. ASSUME NEW prefix \in TablePrefixes \ {bronze.prefix} PROVE ~catalog'[<<prefix, t>>].exists
    <3>1. <<prefix, t>> \in (TablePrefixes \X Tables) \ {name}
      BY <2>3
    <3>2. catalog[name].exists => ~catalog[<<prefix, t>>].exists
      BY <2>1, <2>3 DEF OneTable, TablePrefixes
    <3>3. ~catalog[name].exists => ~catalog[<<prefix, t>>].exists
      BY <2>1, <2>3 DEF Stranded
    <3> QED
      BY <2>1, <3>1, <3>2, <3>3
  <2>4. ~(catalog'[<<"source_key", t>>].exists /\ catalog'[<<"none", t>>].exists)
    BY <2>1, <2>3 DEF TablePrefixes
  <2> QED
    BY <2>2, <2>4 DEF OneTable
<1>2. ASSUME NEW t \in Tables, NEW r \in bronze.pending, MergeRun(t, r) PROVE OneTable'
  <2>1. \A name \in TablePrefixes \X Tables : catalog'[name].exists = catalog[name].exists
    BY <1>2, MergeAdds
  <2> QED
    BY <2>1 DEF OneTable, TablePrefixes
<1>3. CASE DropTable
  <2>1. \A name \in TablePrefixes \X Tables : catalog'[name].exists => catalog[name].exists
    BY <1>3, DropEmpties DEF Absent
  <2> QED
    BY <2>1 DEF OneTable, TablePrefixes
<1>4. CASE catalog' = catalog
  BY <1>4 DEF OneTable
<1> QED
  BY <1>1, <1>2, <1>3, <1>4, CatalogWriters

LEMMA CatalogRowsStep ==
    ASSUME Types, Landed, Pass, CatalogRows, RunsGrow, [Next]_vars
    PROVE  CatalogRows'
<1>0. ASSUME NEW name \in TablePrefixes \X Tables
      PROVE  1..produced[name[2]] \subseteq 1..produced'[name[2]]
  <2>1. name[2] \in Tables
    BY <1>0
  <2>2. produced[name[2]] \in Nat /\ produced[name[2]] <= produced'[name[2]]
    BY <2>1 DEF Types, RunsGrow
  <2>3. produced'[name[2]] \in Nat
    BY TypesStep, <2>1 DEF Types
  <2> QED
    BY <2>2, <2>3
<1>1. ASSUME NEW t \in Tables, BeginTable(t), runs[t] # <<>> PROVE CatalogRows'
  BY <1>0, <1>1, BeginCreates DEF CatalogRows
<1>2. ASSUME NEW t \in Tables, NEW r \in bronze.pending, MergeRun(t, r) PROVE CatalogRows'
  <2> DEFINE name == <<bronze.prefix, t>>
  <2>1. /\ name \in TablePrefixes \X Tables
        /\ catalog[name].exists
        /\ r \in DOMAIN runs[t]
        /\ catalog'[name].exists = catalog[name].exists
        /\ catalog'[name].rows = catalog[name].rows \cup runs[t][r]
        /\ \A other \in (TablePrefixes \X Tables) \ {name} : catalog'[other] = catalog[other]
    BY <1>2, MergeAdds
  <2>2. /\ runs[t][r] \subseteq 1..checkpoint[t] /\ checkpoint[t] <= produced[t]
        /\ checkpoint[t] \in Nat /\ produced[t] \in Nat
    BY <2>1 DEF Landed, Types
  <2>3. runs[t][r] \subseteq 1..produced[t]
    BY <2>2
  <2>4. catalog'[name].rows \subseteq 1..produced[t] /\ name[2] = t
    BY <2>1, <2>3 DEF CatalogRows
  <2>5. ASSUME NEW other \in TablePrefixes \X Tables
        PROVE  catalog'[other].rows \subseteq IF catalog'[other].exists THEN 1..produced[other[2]] ELSE {}
    BY <2>1, <2>4 DEF CatalogRows
  <2> QED
    BY <1>0, <2>5 DEF CatalogRows
<1>3. CASE DropTable
  <2>1. PICK name \in TablePrefixes \X Tables :
          /\ catalog'[name] = Absent
          /\ \A other \in (TablePrefixes \X Tables) \ {name} : catalog'[other] = catalog[other]
    BY <1>3, DropEmpties
  <2> QED
    BY <1>0, <2>1 DEF CatalogRows, Absent
<1>4. CASE catalog' = catalog
  BY <1>0, <1>4 DEF CatalogRows
<1> QED
  BY <1>1, <1>2, <1>3, <1>4, CatalogWriters

LEMMA BooksStep ==
    ASSUME Types, Pass, Books, RunsGrow, ~DropTable => CatalogGrows, [Next]_vars
    PROVE  Books'
<1> DEFINE Both(t) == catalog[<<"source_key", t>>].rows \cup catalog[<<"none", t>>].rows
<1>0. ASSUME NEW t \in Tables, CatalogGrows PROVE Both(t) \subseteq Both(t)'
  BY <1>0 DEF CatalogGrows, TablePrefixes
<1>1. ASSUME NEW t \in Tables, NEW r \in bronze.pending, MarkProcessed(t, r) PROVE Books'
  <2>1. /\ runs' = runs /\ catalog' = catalog
        /\ book' = [book EXCEPT ![t] = @ \cup {r}]
        /\ At(bronze, t) /\ Oldest(r)
        /\ bronze.phase = "record" \/ (bronze.phase = "merge" /\ runs[t][r] = {})
    BY <1>1 DEF MarkProcessed, NextRun, Oldest, landed
  <2>2. r \in DOMAIN runs[t] /\ runs[t][r] \subseteq Table(t).rows
    BY <2>1 DEF Pass
  <2>3. bronze.prefix \in TablePrefixes
    BY DEF Types, BronzeRun
  <2>4. runs[t][r] \subseteq Both(t)
    BY <2>2, <2>3 DEF Table, TablePrefixes
  <2>5. \A u \in Tables : book'[u] \subseteq book[u] \cup (IF u = t THEN {r} ELSE {})
    BY <2>1 DEF Types
  <2> QED
    BY <2>1, <2>2, <2>4, <2>5 DEF Books
<1>2. CASE DropTable
  <2>1. PICK name \in TablePrefixes \X Tables :
          /\ \A other \in (TablePrefixes \X Tables) \ {name} : catalog'[other] = catalog[other]
          /\ book'[name[2]] = {}
          /\ \A u \in Tables \ {name[2]} : book'[u] = book[u]
          /\ UNCHANGED landed
    BY <1>2, DropEmpties
  <2>2. runs' = runs
    BY <2>1 DEF landed
  <2>3. ASSUME NEW u \in Tables, u # name[2] PROVE Both(u)' = Both(u) /\ book'[u] = book[u]
    <3>1. \A prefix \in TablePrefixes : <<prefix, u>> \in (TablePrefixes \X Tables) \ {name}
      BY <2>3
    <3> QED
      BY <2>1, <2>3, <3>1 DEF TablePrefixes
  <2> QED
    BY <2>1, <2>2, <2>3 DEF Books
<1>3. CASE book' = book /\ ~DropTable
  BY <1>0, <1>3 DEF Books, RunsGrow
<1>4. LandStep => book' = book
  BY DEF LandStep, LandWindow, LandNothing, LandFails, LandExit, merged
<1>5. BronzeStep => \/ book' = book
                    \/ \E t \in Tables : \E r \in bronze.pending : MarkProcessed(t, r)
  BY DEF BronzeStep, BeginTable, MergeRun, TableDone, BronzeFails, BronzeExit, merged
<1>6. ScheduledLanding \/ ScheduledBronze \/ ByHand => book' = book
  BY DEF ScheduledLanding, ScheduledBronze, ByHand, StartLanding, StartBronze, merged
<1>7. EditConfig \/ KillLanding \/ KillBronze \/ (\E t \in Tables : Produce(t)) => book' = book
  BY DEF EditConfig, KillLanding, KillBronze, Produce, merged
<1>8. UNCHANGED vars => book' = book
  BY DEF vars
<1> QED
  BY <1>1, <1>2, <1>3, <1>4, <1>5, <1>6, <1>7, <1>8 DEF Next

-----------------------------------------------------------------------------
(* The pass over a table, and what the Bronze job owes.                     *)
LEMMA NoPass ==
    ASSUME bronze'.status # "running", bronze'.phase = "table", bronze'.pending = {}
    PROVE  Pass' /\ BronzeOwes'
  BY DEF Pass, BronzeOwes, At

LEMMA PassFrame ==
    ASSUME Types, Pass, BronzeOwes, RunsGrow, CatalogGrows, bronze' = bronze
    PROVE  Pass' /\ BronzeOwes'
<1>0. \A t \in Tables : <<bronze.prefix, t>> \in TablePrefixes \X Tables
  BY DEF Types, BronzeRun
<1>1. \A t \in Tables : /\ Table(t).exists => Table(t)'.exists
                        /\ Table(t).rows \subseteq Table(t)'.rows
                        /\ Rows(t) \subseteq Rows(t)'
                        /\ \A r \in DOMAIN runs[t] : r \in DOMAIN runs'[t] /\ runs'[t][r] = runs[t][r]
  BY <1>0 DEF Table, RunsGrow, CatalogGrows
<1>2. \A r : Oldest(r)' = Oldest(r)
  BY DEF Oldest
<1>3. ASSUME NEW t \in Tables, bronze.phase # "table", At(bronze, t)
      PROVE  /\ Table(t)'.exists
             /\ bronze.pending \subseteq DOMAIN runs'[t]
             /\ bronze.phase = "record" =>
                   \A r \in bronze.pending : Oldest(r)' => runs'[t][r] \subseteq Table(t)'.rows
             /\ bronze.due[t] \subseteq Table(t)'.rows \cup UNION {runs'[t][r] : r \in bronze.pending}
  <2>1. /\ Table(t).exists
        /\ bronze.pending \subseteq DOMAIN runs[t]
        /\ bronze.phase = "record" =>
              \A r \in bronze.pending : Oldest(r) => runs[t][r] \subseteq Table(t).rows
        /\ bronze.due[t] \subseteq Table(t).rows \cup UNION {runs[t][r] : r \in bronze.pending}
    BY <1>3 DEF Pass
  <2>2. {runs'[t][r] : r \in bronze.pending} = {runs[t][r] : r \in bronze.pending}
    BY <1>1, <2>1
  <2> QED
    BY <1>1, <1>2, <2>1, <2>2
<1>4. Pass'
  BY <1>3 DEF Pass, At
<1>5. BronzeOwes'
  BY <1>1 DEF BronzeOwes
<1> QED
  BY <1>4, <1>5

LEMMA PassStart ==
    ASSUME Types, Pass, BronzeOwes, NEW launch \in Launches \cup {Scheduled}, StartBronze(launch)
    PROVE  Pass' /\ BronzeOwes'
<1>0. runs' = runs /\ catalog' = catalog
  BY DEF StartBronze, landed, merged
<1>1. CASE Accepted(config) /\ Known(config, launch) /\ config.bronze # "absent"
  <2>1. /\ bronze'.phase = "table" /\ bronze'.pending = {} /\ bronze'.status = "running"
        /\ bronze'.queue = Selected(config, launch)
        /\ bronze'.due = Due(launch, [t \in Tables |-> UNION ToSet(runs[t])])
    BY <1>1 DEF StartBronze
  <2>2. \A t \in Tables : /\ bronze'.due[t] \subseteq Rows(t)
                          /\ t \in ToSet(bronze'.queue) \/ bronze'.due[t] = {}
    BY <2>1 DEF Due, Rows
  <2>3. \A t \in Tables : Rows(t)' = Rows(t)
    BY <1>0 DEF Rows
  <2>4. Pass'
    BY <2>1 DEF Pass
  <2>5. BronzeOwes'
    BY <2>2, <2>3 DEF BronzeOwes
  <2> QED
    BY <2>4, <2>5
<1>2. CASE ~(Accepted(config) /\ Known(config, launch) /\ config.bronze # "absent")
  <2>1. bronze' \in {NoBronze("red"), NoBronze("skipped")}
    BY <1>2 DEF StartBronze
  <2> QED
    BY <2>1, NoPass DEF NoBronze
<1> QED
  BY <1>1, <1>2

(* What a pass does not find pending is in its table: it is recorded, and    *)
(* there is no other table for it to be in.                                 *)
LEMMA KnownIsMerged ==
    ASSUME Types, OneTable, CatalogRows, Books, NEW t \in Tables, Table(t).exists, NEW r \in book[t]
    PROVE  runs[t][r] \subseteq Table(t).rows
<1>1. bronze.prefix \in TablePrefixes
  BY DEF Types, BronzeRun
<1>2. ASSUME NEW prefix \in TablePrefixes \ {bronze.prefix} PROVE catalog[<<prefix, t>>].rows = {}
  <2>1. ~catalog[<<prefix, t>>].exists
    BY <1>1, <1>2 DEF OneTable, Table, TablePrefixes
  <2>2. <<prefix, t>> \in TablePrefixes \X Tables
    BY <1>2
  <2> QED
    BY <2>1, <2>2 DEF CatalogRows
<1>3. runs[t][r] \subseteq catalog[<<"source_key", t>>].rows \cup catalog[<<"none", t>>].rows
  BY DEF Books
<1> QED
  BY <1>1, <1>2, <1>3 DEF Table, TablePrefixes

LEMMA PassBegin ==
    ASSUME Types, OneTable, CatalogRows, Books, Pass, BronzeOwes,
           NEW t \in Tables, BeginTable(t)
    PROVE  Pass' /\ BronzeOwes'
<1>0. /\ bronze \in BronzeRun /\ bronze.status = "running" /\ bronze.phase = "table"
      /\ bronze.queue # <<>> /\ t = Head(bronze.queue)
      /\ runs' = runs /\ \A u \in Tables : Rows(u)' = Rows(u)
  BY DEF BeginTable, At, landed, Types, Rows
<1>1. CASE runs[t] = <<>>
  <2>1. bronze' = [bronze EXCEPT !.queue = Tail(@)] /\ catalog' = catalog
    BY <1>1 DEF BeginTable
  <2>2. /\ bronze'.queue = Tail(bronze.queue) /\ bronze'.phase = "table" /\ bronze'.pending = {}
        /\ bronze'.due = bronze.due /\ bronze'.failed = bronze.failed
        /\ bronze'.prefix = bronze.prefix /\ bronze'.status = "running"
    BY <1>0, <2>1 DEF BronzeRun, Pass
  <2>3. ToSet(bronze.queue) \subseteq {t} \cup ToSet(bronze'.queue)
    BY <1>0, <2>2, TailSet DEF BronzeRun
  <2>4. bronze.due[t] = {}
    <3>1. Rows(t) = {}
      BY <1>1 DEF Rows, ToSet
    <3> QED
      BY <1>0, <3>1 DEF BronzeOwes
  <2>5. Pass'
    BY <2>2 DEF Pass
  <2>6. \A u \in Tables : Table(u)' = Table(u)
    BY <2>1, <2>2 DEF Table
  <2>7. BronzeOwes'
    BY <1>0, <2>2, <2>3, <2>4, <2>6 DEF BronzeOwes
  <2> QED
    BY <2>5, <2>7
<1>2. CASE runs[t] # <<>>
  <2> DEFINE name == <<bronze.prefix, t>>
             known == IF catalog[name].exists THEN book[t] ELSE {}
  <2>1. bronze' = [bronze EXCEPT !.phase = "merge", !.pending = DOMAIN runs[t] \ known]
    BY <1>2 DEF BeginTable
  <2>2. /\ bronze'.queue = bronze.queue /\ bronze'.phase = "merge"
        /\ bronze'.pending = DOMAIN runs[t] \ known
        /\ bronze'.due = bronze.due /\ bronze'.failed = bronze.failed
        /\ bronze'.prefix = bronze.prefix /\ bronze'.status = "running"
    BY <1>0, <2>1 DEF BronzeRun
  <2>3. /\ Table(t)'.exists
        /\ \A u \in Tables : Table(u)'.rows = Table(u).rows
    <3>1. /\ catalog'[name].exists
          /\ catalog'[name].rows = catalog[name].rows
          /\ \A other \in (TablePrefixes \X Tables) \ {name} : catalog'[other] = catalog[other]
          /\ name \in TablePrefixes \X Tables
      BY <1>2, BeginCreates
    <3>2. \A u \in Tables : <<bronze.prefix, u>> \in TablePrefixes \X Tables
      BY <3>1
    <3>3. \A other \in TablePrefixes \X Tables : catalog'[other].rows = catalog[other].rows
      BY <3>1
    <3> QED
      BY <2>2, <3>1, <3>2, <3>3 DEF Table
  <2>4. bronze.due[t] \subseteq Table(t).rows \cup UNION {runs[t][r] : r \in bronze'.pending}
    <3>1. ASSUME NEW n \in bronze.due[t], n \notin Table(t).rows
          PROVE  n \in UNION {runs[t][r] : r \in bronze'.pending}
      <4>1. n \in Rows(t)
        BY <1>0, <3>1 DEF BronzeOwes
      <4>2. PICK r \in DOMAIN runs[t] : n \in runs[t][r]
        BY <4>1 DEF Rows, ToSet
      <4>3. r \notin known
        BY <3>1, <4>2, KnownIsMerged DEF Table
      <4> QED
        BY <2>2, <4>2, <4>3
    <3> QED
      BY <3>1
  <2>5. Pass'
    <3>1. ASSUME NEW u \in Tables, At(bronze', u) PROVE u = t
      BY <1>0, <2>2, <3>1 DEF At
    <3>2. /\ Table(t)'.exists
          /\ bronze'.pending \subseteq DOMAIN runs'[t]
          /\ bronze'.due[t] \subseteq Table(t)'.rows \cup UNION {runs'[t][r] : r \in bronze'.pending}
      BY <1>0, <2>2, <2>3, <2>4
    <3> QED
      BY <1>0, <2>2, <3>1, <3>2 DEF Pass
  <2>6. BronzeOwes'
    BY <1>0, <2>2, <2>3 DEF BronzeOwes
  <2> QED
    BY <2>5, <2>6
<1> QED
  BY <1>1, <1>2

LEMMA PassMerge ==
    ASSUME Types, Pass, BronzeOwes, NEW t \in Tables, NEW r \in bronze.pending, MergeRun(t, r)
    PROVE  Pass' /\ BronzeOwes'
<1>0. /\ bronze \in BronzeRun /\ bronze.status = "running" /\ bronze.phase = "merge"
      /\ bronze.queue # <<>> /\ t = Head(bronze.queue) /\ At(bronze, t) /\ Oldest(r)
      /\ runs' = runs /\ \A u \in Tables : Rows(u)' = Rows(u)
  BY DEF MergeRun, NextRun, Oldest, At, landed, Types, Rows
<1>1. /\ bronze'.queue = bronze.queue /\ bronze'.phase = "record"
      /\ bronze'.pending = bronze.pending
      /\ bronze'.due = bronze.due /\ bronze'.failed = bronze.failed
      /\ bronze'.prefix = bronze.prefix /\ bronze'.status = "running"
  BY <1>0 DEF MergeRun, BronzeRun
<1>2. /\ Table(t)'.exists
      /\ Table(t)'.rows = Table(t).rows \cup runs[t][r]
      /\ \A u \in Tables : Table(u).rows \subseteq Table(u)'.rows
  <2> DEFINE name == <<bronze.prefix, t>>
  <2>1. /\ name \in TablePrefixes \X Tables
        /\ catalog'[name].exists
        /\ catalog'[name].rows = catalog[name].rows \cup runs[t][r]
        /\ \A other \in (TablePrefixes \X Tables) \ {name} : catalog'[other] = catalog[other]
    BY MergeAdds
  <2>2. \A other \in TablePrefixes \X Tables : catalog[other].rows \subseteq catalog'[other].rows
    BY <2>1
  <2>3. \A u \in Tables : <<bronze.prefix, u>> \in TablePrefixes \X Tables
    BY <2>1
  <2> QED
    BY <1>1, <2>1, <2>2, <2>3 DEF Table
<1>3. ASSUME NEW other \in bronze.pending, Oldest(other)' PROVE other = r
  <2>1. other \in Nat /\ r \in Nat /\ other <= r /\ r <= other
    BY <1>0, <1>1, <1>3 DEF Oldest, BronzeRun
  <2> QED
    BY <2>1
<1>4. bronze.pending \subseteq DOMAIN runs[t]
  BY <1>0 DEF Pass
<1>5. bronze.due[t] \subseteq Table(t)'.rows \cup UNION {runs[t][q] : q \in bronze.pending}
  BY <1>0, <1>2 DEF Pass
<1>6. Pass'
  <2>1. ASSUME NEW u \in Tables, At(bronze', u) PROVE u = t
    BY <1>0, <1>1, <2>1 DEF At
  <2>2. /\ bronze'.pending \subseteq DOMAIN runs'[t]
        /\ \A other \in bronze'.pending : Oldest(other)' => runs'[t][other] \subseteq Table(t)'.rows
        /\ bronze'.due[t] \subseteq Table(t)'.rows \cup UNION {runs'[t][q] : q \in bronze'.pending}
    BY <1>0, <1>1, <1>2, <1>3, <1>4, <1>5
  <2> QED
    BY <1>0, <1>1, <1>2, <2>1, <2>2 DEF Pass
<1>7. BronzeOwes'
  BY <1>0, <1>1, <1>2 DEF BronzeOwes
<1> QED
  BY <1>6, <1>7

LEMMA PassMark ==
    ASSUME Types, Pass, BronzeOwes, NEW t \in Tables, NEW r \in bronze.pending, MarkProcessed(t, r)
    PROVE  Pass' /\ BronzeOwes'
<1>0. /\ bronze \in BronzeRun /\ bronze.status = "running" /\ bronze.phase # "table"
      /\ bronze.queue # <<>> /\ t = Head(bronze.queue) /\ At(bronze, t) /\ Oldest(r)
      /\ bronze.phase = "record" \/ runs[t][r] = {}
      /\ runs' = runs /\ catalog' = catalog /\ \A u \in Tables : Rows(u)' = Rows(u)
  BY DEF MarkProcessed, NextRun, Oldest, At, landed, Types, Rows
<1>1. /\ bronze'.queue = bronze.queue /\ bronze'.phase = "merge"
      /\ bronze'.pending = bronze.pending \ {r}
      /\ bronze'.due = bronze.due /\ bronze'.failed = bronze.failed
      /\ bronze'.prefix = bronze.prefix /\ bronze'.status = "running"
  BY <1>0 DEF MarkProcessed, BronzeRun
<1>2. \A u \in Tables : Table(u)' = Table(u)
  BY <1>0, <1>1 DEF Table
<1>3. /\ Table(t).exists
      /\ bronze.pending \subseteq DOMAIN runs[t]
      /\ runs[t][r] \subseteq Table(t).rows
      /\ bronze.due[t] \subseteq Table(t).rows \cup UNION {runs[t][q] : q \in bronze.pending}
  BY <1>0 DEF Pass
<1>4. bronze.due[t] \subseteq Table(t).rows \cup UNION {runs[t][q] : q \in bronze'.pending}
  BY <1>1, <1>3
<1>5. Pass'
  <2>1. ASSUME NEW u \in Tables, At(bronze', u) PROVE u = t
    BY <1>0, <1>1, <2>1 DEF At
  <2> QED
    BY <1>0, <1>1, <1>2, <1>3, <1>4, <2>1 DEF Pass
<1>6. BronzeOwes'
  BY <1>0, <1>1, <1>2 DEF BronzeOwes
<1> QED
  BY <1>5, <1>6

LEMMA PassDone ==
    ASSUME Types, Pass, BronzeOwes, NEW t \in Tables, TableDone(t)
    PROVE  Pass' /\ BronzeOwes'
<1>0. /\ bronze \in BronzeRun /\ bronze.status = "running" /\ bronze.phase # "table"
      /\ bronze.pending = {}
      /\ bronze.queue # <<>> /\ t = Head(bronze.queue) /\ At(bronze, t)
      /\ runs' = runs /\ catalog' = catalog /\ \A u \in Tables : Rows(u)' = Rows(u)
  BY DEF TableDone, At, landed, merged, Types, Rows
<1>1. /\ bronze'.queue = Tail(bronze.queue) /\ bronze'.phase = "table" /\ bronze'.pending = {}
      /\ bronze'.due = bronze.due /\ bronze'.failed = bronze.failed
      /\ bronze'.prefix = bronze.prefix /\ bronze'.status = "running"
  BY <1>0 DEF TableDone, TableLeft, BronzeRun
<1>2. \A u \in Tables : Table(u)' = Table(u)
  BY <1>0, <1>1 DEF Table
<1>3. ToSet(bronze.queue) \subseteq {t} \cup ToSet(bronze'.queue)
  BY <1>0, <1>1, TailSet DEF BronzeRun
<1>4. bronze.due[t] \subseteq Table(t).rows
  BY <1>0 DEF Pass
<1>5. Pass'
  BY <1>1 DEF Pass
<1>6. BronzeOwes'
  BY <1>0, <1>1, <1>2, <1>3, <1>4 DEF BronzeOwes
<1> QED
  BY <1>5, <1>6

LEMMA PassFails ==
    ASSUME Types, Pass, BronzeOwes, NEW t \in Tables, BronzeFails(t)
    PROVE  Pass' /\ BronzeOwes'
<1>0. /\ bronze \in BronzeRun /\ bronze.status = "running" /\ bronze.queue # <<>>
      /\ runs' = runs /\ \A u \in Tables : Rows(u)' = Rows(u)
  BY DEF BronzeFails, At, landed, Types, Rows
<1>1. TableFailed(bronze) \in BronzeRun
  BY <1>0, FailedTypeBronze
<1>2. /\ bronze'.phase = "table" /\ bronze'.pending = {} /\ bronze'.failed = TRUE
      /\ bronze'.due = bronze.due /\ bronze'.status = "running"
  BY <1>0, <1>1 DEF BronzeFails, TableLeft, TableFailed, BronzeRun
<1>3. Pass'
  BY <1>2 DEF Pass
<1>4. BronzeOwes'
  BY <1>0, <1>2 DEF BronzeOwes
<1> QED
  BY <1>3, <1>4

LEMMA PassStep ==
    ASSUME Types, OneTable, CatalogRows, Books, Pass, BronzeOwes, RunsGrow,
           ~DropTable => CatalogGrows, [Next]_vars
    PROVE  Pass' /\ BronzeOwes'
<1>1. ASSUME BronzeStep PROVE Pass' /\ BronzeOwes'
  <2>1. CASE BronzeExit
    BY <2>1, NoPass DEF BronzeExit, NoBronze
  <2> QED
    BY <1>1, <2>1, PassBegin, PassMerge, PassMark, PassDone, PassFails DEF BronzeStep
<1>2. CASE KillBronze
  BY <1>2, NoPass DEF KillBronze, NoBronze
<1>3. CASE DropTable
  <2>1. bronze' = bronze /\ bronze.status # "running"
    BY <1>3, DropEmpties
  <2> QED
    BY <2>1, NoPass DEF Pass
<1>4. CASE bronze' = bronze /\ ~DropTable
  BY <1>4, PassFrame
<1>5. LandStep => bronze' = bronze
  BY DEF LandStep, LandWindow, LandNothing, LandFails, LandExit
<1>6. ScheduledLanding \/ ScheduledBronze \/ ByHand =>
          \/ bronze' = bronze
          \/ \E launch \in Launches \cup {Scheduled} : StartBronze(launch)
  BY DEF ScheduledLanding, ScheduledBronze, ByHand, StartLanding
<1>7. EditConfig \/ KillLanding \/ (\E t \in Tables : Produce(t)) => bronze' = bronze
  BY DEF EditConfig, KillLanding, Produce
<1>8. UNCHANGED vars => bronze' = bronze
  BY DEF vars
<1> QED
  BY <1>1, <1>2, <1>3, <1>4, <1>5, <1>6, <1>7, <1>8, PassStart DEF Next

-----------------------------------------------------------------------------
(* The theorems. *)
LEMMA InvInit == Init => IInv
<1> SUFFICES ASSUME Init PROVE IInv
  OBVIOUS
<1>1. Types
  BY TypesInit
<1>2. /\ \A t \in Tables : /\ produced[t] = 0 /\ checkpoint[t] = 0 /\ runs[t] = <<>> /\ book[t] = {}
      /\ \A name \in TablePrefixes \X Tables : catalog[name] = Absent
      /\ landing = NoLanding("green") /\ bronze = NoBronze("green")
  BY DEF Init
<1>3. Landed
  BY <1>1, <1>2, SupplyTypes DEF Landed, Types
<1>4. LandingOwes
  BY <1>2 DEF LandingOwes, NoLanding
<1>5. OneTable /\ CatalogRows
  BY <1>2 DEF OneTable, CatalogRows, Absent, TablePrefixes
<1>6. Books
  BY <1>2 DEF Books
<1>7. Pass /\ BronzeOwes
  BY <1>2 DEF Pass, BronzeOwes, NoBronze, At
<1> QED
  BY <1>1, <1>3, <1>4, <1>5, <1>6, <1>7 DEF IInv

LEMMA InvStep == IInv /\ [Next]_vars => IInv'
<1> SUFFICES ASSUME IInv, [Next]_vars PROVE IInv'
  OBVIOUS
<1>0. Types /\ Landed /\ LandingOwes /\ OneTable /\ CatalogRows /\ Books /\ Pass /\ BronzeOwes
  BY DEF IInv
<1>1. RunsGrow /\ (~DropTable => CatalogGrows)
  BY <1>0, RunsGrowStep, CatalogStep
<1>2. Types' /\ Landed' /\ LandingOwes'
  BY <1>0, TypesStep, LandedStep, LandingOwesStep
<1>3. OneTable' /\ CatalogRows' /\ Books'
  BY <1>0, <1>1, OneTableStep, CatalogRowsStep, BooksStep
<1>4. Pass' /\ BronzeOwes'
  BY <1>0, <1>1, PassStep
<1> QED
  BY <1>2, <1>3, <1>4 DEF IInv

(* The invariant holds throughout: every job's debt is accounted for, and   *)
(* every table has one Bronze table with what is recorded in it.            *)
THEOREM Invariance == Spec => []IInv
  BY InvInit, InvStep, PTL DEF Spec

(* The types the runs check: a run lands only rows its checkpoint is past,  *)
(* a Bronze table holds only rows the source has, a recorded run exists.    *)
THEOREM TypeCorrect == Spec => []TypeOK
<1>1. IInv => TypeOK
  <2> SUFFICES ASSUME IInv PROVE TypeOK
    OBVIOUS
  <2>1. ASSUME NEW t \in Tables
        PROVE  /\ produced[t] \in 0..site.supply[t]
               /\ checkpoint[t] \in 0..produced[t]
               /\ \A i \in DOMAIN runs[t] : runs[t][i] \subseteq 1..checkpoint[t]
               /\ book[t] \subseteq DOMAIN runs[t]
    <3>1. /\ produced[t] \in Nat /\ checkpoint[t] \in Nat /\ site.supply[t] \in Nat
          /\ produced[t] <= site.supply[t] /\ checkpoint[t] <= produced[t]
      BY SupplyTypes DEF IInv, Types, Landed
    <3>2. \A i \in DOMAIN runs[t] : runs[t][i] \subseteq 1..checkpoint[t]
      BY DEF IInv, Landed
    <3>3. book[t] \subseteq DOMAIN runs[t]
      BY DEF IInv, Books
    <3> QED
      BY <3>1, <3>2, <3>3
  <2>2. /\ landing.status \in {"running", "green", "red"}
        /\ bronze.status \in {"running", "green", "red", "skipped"}
        /\ landing.queue \in Seq(Tables) /\ bronze.queue \in Seq(Tables)
    BY DEF IInv, Types, LandingRun, BronzeRun
  <2>3. ToSet(landing.queue) \cup ToSet(bronze.queue) \subseteq Tables
    BY <2>2 DEF ToSet
  <2>4. \A t \in Tables : At(bronze, t) => bronze.pending \subseteq DOMAIN runs[t]
    BY DEF IInv, Pass
  <2> QED
    BY <2>1, <2>2, <2>3, <2>4 DEF TypeOK, IInv, Types, CatalogRows
<1> QED
  BY <1>1, Invariance, PTL

(* A table has at most one Bronze table, and every recorded run is in it:   *)
(* an edited table_prefix, a dropped table and a killed run strand nothing. *)
THEOREM NothingStrandedAlways == Spec => []NothingStranded
<1>1. IInv => NothingStranded
  <2> SUFFICES ASSUME IInv, NEW t \in Tables
               PROVE  LET existing == {name \in TablePrefixes \X {t} : catalog[name].exists}
                      IN  /\ Cardinality(existing) <= 1
                          /\ \A r \in book[t] :
                                runs[t][r] \subseteq UNION {catalog[name].rows : name \in existing}
    BY DEF NothingStranded
  <2> DEFINE existing == {name \in TablePrefixes \X {t} : catalog[name].exists}
  <2>0. OneTable /\ CatalogRows /\ Books
    BY DEF IInv
  <2>1. existing = {} \/ \E name : existing = {name}
    BY <2>0 DEF OneTable, TablePrefixes
  <2>2. Cardinality(existing) <= 1
    <3>1. CASE existing = {}
      BY <3>1, FS_EmptySet
    <3>2. CASE \E name : existing = {name}
      BY <3>2, FS_Singleton
    <3> QED
      BY <2>1, <3>1, <3>2
  <2>3. ASSUME NEW prefix \in TablePrefixes
        PROVE  catalog[<<prefix, t>>].rows \subseteq UNION {catalog[name].rows : name \in existing}
    <3>1. CASE catalog[<<prefix, t>>].exists
      BY <3>1
    <3>2. CASE ~catalog[<<prefix, t>>].exists
      BY <2>0, <3>2 DEF CatalogRows
    <3> QED
      BY <3>1, <3>2
  <2>4. ASSUME NEW r \in book[t]
        PROVE  runs[t][r] \subseteq UNION {catalog[name].rows : name \in existing}
    <3>1. runs[t][r] \subseteq catalog[<<"source_key", t>>].rows \cup catalog[<<"none", t>>].rows
      BY <2>0 DEF Books
    <3> QED
      BY <2>3, <3>1 DEF TablePrefixes
  <2> QED
    BY <2>2, <2>4
<1> QED
  BY <1>1, Invariance, PTL

(* A landing run that exits 0 leaves nothing behind that its tables had     *)
(* when it began, for any tables, windows, failures and settings.           *)
THEOREM GreenLanding == Spec => GreenLandingIsComplete
<1>1. ASSUME IInv, [Next]_vars, landing.status = "running", landing'.status = "green"
      PROVE  \A t \in Tables : landing.due[t] \subseteq Rows(t)
  <2>0. Landed /\ LandingOwes
    BY <1>1 DEF IInv
  <2>1. LandExit
    <3>0. landing \in LandingRun
      BY <1>1 DEF IInv, Types
    <3>1. ASSUME LandStep, ~LandExit PROVE landing'.status = landing.status
      BY <3>0, <3>1 DEF LandStep, LandWindow, LandNothing, LandFails, TableFailed, LandingRun
    <3>2. BronzeStep \/ EditConfig \/ DropTable \/ KillBronze \/ (\E t \in Tables : Produce(t))
             \/ (UNCHANGED vars) => landing' = landing
      BY DEF BronzeStep, BeginTable, MergeRun, MarkProcessed, TableDone, BronzeFails, BronzeExit,
         EditConfig, DropTable, KillBronze, Produce, vars
    <3>3. ScheduledLanding \/ ScheduledBronze \/ ByHand => landing' = landing
      BY <1>1 DEF ScheduledLanding, ScheduledBronze, ByHand, StartLanding, StartBronze
    <3>4. KillLanding => landing'.status = "red"
      BY DEF KillLanding, NoLanding
    <3> QED
      BY <1>1, <3>1, <3>2, <3>3, <3>4 DEF Next
  <2>2. landing.queue = <<>> /\ ~landing.failed
    BY <1>1, <2>1 DEF LandExit, NoLanding, IInv, Types, LandingRun
  <2>3. ToSet(landing.queue) = {}
    BY <2>2 DEF ToSet
  <2> QED
    BY <1>1, <2>0, <2>2, <2>3 DEF Landed, LandingOwes
<1>2. IInv /\ [Next]_vars =>
        [landing.status = "running" /\ landing'.status = "green" =>
            \A t \in Tables : landing.due[t] \subseteq UNION ToSet(runs[t])]_vars
  BY <1>1 DEF Rows
<1> QED
  BY <1>2, Invariance, PTL DEF Spec, GreenLandingIsComplete

(* A Bronze run that exits 0 leaves what its tables' runs had when it began *)
(* in the table its configuration named.                                    *)
THEOREM GreenBronze == Spec => GreenBronzeIsComplete
<1>1. ASSUME IInv, [Next]_vars, bronze.status = "running", bronze'.status = "green"
      PROVE  \A t \in Tables : bronze.due[t] \subseteq Table(t).rows
  <2>0. BronzeOwes
    BY <1>1 DEF IInv
  <2>1. BronzeExit
    <3>0. bronze \in BronzeRun
      BY <1>1 DEF IInv, Types
    <3>1. ASSUME BronzeStep, ~BronzeExit PROVE bronze'.status = bronze.status
      <4>1. ASSUME NEW t \in Tables, BronzeFails(t) PROVE bronze'.status = bronze.status
        <5>1. TableFailed(bronze) \in BronzeRun /\ TableFailed(bronze).status = bronze.status
          BY <3>0, <4>1, FailedTypeBronze DEF BronzeFails, At, TableFailed, BronzeRun
        <5> QED
          BY <4>1, <5>1 DEF BronzeFails, TableLeft, BronzeRun
      <4> QED
        BY <3>0, <3>1, <4>1
           DEF BronzeStep, BeginTable, MergeRun, MarkProcessed, TableDone, TableLeft, BronzeRun
    <3>2. LandStep \/ EditConfig \/ DropTable \/ KillLanding \/ (\E t \in Tables : Produce(t))
             \/ (UNCHANGED vars) => bronze' = bronze
      BY DEF LandStep, LandWindow, LandNothing, LandFails, LandExit,
         EditConfig, DropTable, KillLanding, Produce, vars
    <3>3. ScheduledLanding \/ ScheduledBronze \/ ByHand => bronze' = bronze
      BY <1>1 DEF ScheduledLanding, ScheduledBronze, ByHand, StartLanding, StartBronze
    <3>4. KillBronze => bronze'.status = "red"
      BY DEF KillBronze, NoBronze
    <3> QED
      BY <1>1, <3>1, <3>2, <3>3, <3>4 DEF Next
  <2>2. bronze.queue = <<>> /\ ~bronze.failed
    BY <1>1, <2>1 DEF BronzeExit, NoBronze, IInv, Types, BronzeRun
  <2>3. ToSet(bronze.queue) = {}
    BY <2>2 DEF ToSet
  <2> QED
    BY <1>1, <2>0, <2>2, <2>3 DEF BronzeOwes
<1>2. IInv /\ [Next]_vars =>
        [bronze.status = "running" /\ bronze'.status = "green" =>
            \A t \in Tables : bronze.due[t] \subseteq catalog[<<bronze.prefix, t>>].rows]_vars
  BY <1>1 DEF Table
<1> QED
  BY <1>2, Invariance, PTL DEF Spec, GreenBronzeIsComplete
=============================================================================
