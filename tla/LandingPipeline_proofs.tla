------------------------ MODULE LandingPipeline_proofs ------------------------
(***************************************************************************)
(* The landing transaction is safe for every number of executions, rows,   *)
(* watermarks and failures, and for every lookback.                        *)
(***************************************************************************)
EXTENDS LandingPipeline, TLAPS

(* Returning from run_table() leaves the locals typed. *)
LEMMA ReturnType ==
    ASSUME TypeOK, NEW e \in Executions, Return(e)
    PROVE  /\ pc' \in [Executions -> Steps]
           /\ previous' \in [Executions -> Watermarks \cup {None}]
           /\ expected' \in [Executions -> Nat \cup {None}]
           /\ high' \in [Executions -> Watermarks \cup {None}]
           /\ pending' \in [Executions -> SUBSET RowVersions]
           /\ landed' \in [Executions -> SUBSET RowVersions]
           /\ \A x \in Executions : pc'[x] \in {"extract", "write", "commit"} => high'[x] # None
  BY DEF TypeOK, Return, Goto, Steps

LEMMA TypeInit == Init => TypeOK
<1> SUFFICES ASSUME Init PROVE TypeOK
  OBVIOUS
<1>1. item \in [exists : BOOLEAN, value : Watermarks \cup {None}, version : Nat]
  <2>1. CASE item = NoItem
    BY <2>1 DEF NoItem
  <2>2. ASSUME NEW v \in Watermarks \cup {None}, item = Seeded(v)
        PROVE  item \in [exists : BOOLEAN, value : Watermarks \cup {None}, version : Nat]
    BY <2>2 DEF Seeded
  <2> QED
    BY <2>1, <2>2 DEF Init
<1>2. newest \in 0..MaxWm
  BY <1>1, LandingConstants DEF Init, Watermarks
<1>3. history \in Seq(Windows)
  BY DEF Init
<1> QED
  BY <1>1, <1>2, <1>3, LandingConstants DEF Init, TypeOK, Steps

LEMMA TypeStep == TypeOK /\ [Next]_vars => TypeOK'
<1> SUFFICES ASSUME TypeOK, [Next]_vars PROVE TypeOK'
  OBVIOUS
<1> USE LandingConstants
<1>1. ASSUME NEW r \in Rows, NEW w \in Watermarks, InsertRow(r, w) PROVE TypeOK'
  BY <1>1 DEF TypeOK, InsertRow, locals, Watermarks
<1>2. ASSUME NEW r \in Rows, DeleteRow(r) PROVE TypeOK'
  BY <1>2 DEF TypeOK, DeleteRow, locals
<1>3. ASSUME NEW e \in Executions, ReadState(e) PROVE TypeOK'
  BY <1>3 DEF TypeOK, ReadState, Goto, source, Steps
<1>4. ASSUME NEW e \in Executions, SkipEmpty(e) PROVE TypeOK'
  BY <1>4, ReturnType DEF TypeOK, SkipEmpty, source
<1>5. ASSUME NEW e \in Executions, NEW c \in Watermarks, SkipUnchanged(e, c) PROVE TypeOK'
  BY <1>5, ReturnType DEF TypeOK, SkipUnchanged, source
<1>6. ASSUME NEW e \in Executions, NEW c \in Watermarks, SkipRegressed(e, c) PROVE TypeOK'
  BY <1>6, ReturnType DEF TypeOK, SkipRegressed, source
<1>7. ASSUME NEW e \in Executions, NEW c \in Watermarks, OpenRun(e, c) PROVE TypeOK'
  <2>1. c # None
    BY DEF Watermarks
  <2> QED
    BY <1>7, <2>1 DEF TypeOK, OpenRun, Goto, source, Steps
<1>8. ASSUME NEW e \in Executions, Extract(e) PROVE TypeOK'
  <2>1. ResultSet(previous[e], high[e]) \in SUBSET RowVersions
    BY DEF ResultSet, RowVersions, Present, TypeOK, Watermarks
  <2> QED
    BY <1>8, <2>1 DEF TypeOK, Extract, Goto, source, Steps
<1>9. ASSUME NEW e \in Executions, WriteBatch(e) PROVE TypeOK'
  BY <1>9 DEF TypeOK, WriteBatch, source
<1>10. ASSUME NEW e \in Executions, WriteManifest(e) PROVE TypeOK'
  BY <1>10 DEF TypeOK, WriteManifest, Goto, source, Steps
<1>11. ASSUME NEW e \in Executions, Commit(e) PROVE TypeOK'
  <2>1. high[e] \in Watermarks /\ Window(e) \in Windows
    BY <1>11 DEF TypeOK, Commit, ManifestWritten, Window, Windows
  <2> QED
    BY <1>11, <2>1, ReturnType DEF TypeOK, Commit, NextCheckpoint, NextVersion, source
<1>12. ASSUME NEW e \in Executions, CommitConflict(e) PROVE TypeOK'
  BY <1>12, ReturnType DEF TypeOK, CommitConflict, source
<1>13. ASSUME NEW e \in Executions, Fail(e) PROVE TypeOK'
  BY <1>13, ReturnType DEF TypeOK, Fail, source
<1>14. CASE UNCHANGED vars
  BY <1>14 DEF TypeOK, vars, source, locals
<1> QED
  BY <1>1, <1>2, <1>3, <1>4, <1>5, <1>6, <1>7, <1>8, <1>9, <1>10, <1>11, <1>12, <1>13, <1>14
  DEF Next, RunTable

(* Every variable keeps its type: in particular the version written by a    *)
(* commit is a number, whatever the record it replaces looked like.         *)
THEOREM TypeCorrect == Spec => []TypeOK
  BY TypeInit, TypeStep, PTL DEF Spec

-----------------------------------------------------------------------------
LEMMA SharedUntouched ==
    ASSUME SharedInv, UNCHANGED <<wm, newest, item, delivered, history>>
    PROVE  SharedInv'
  BY DEF SharedInv, BelowNewest, NoGap, WindowsChain, CommitsBackedByManifests, Present

LEMMA LocalUntouched ==
    ASSUME NEW e \in Executions, LocalInv(e), UNCHANGED <<wm, newest, item, delivered>>,
           pc'[e] = pc[e], previous'[e] = previous[e], expected'[e] = expected[e],
           high'[e] = high[e], pending'[e] = pending[e], landed'[e] = landed[e]
    PROVE  LocalInv(e)'
  BY DEF LocalInv, CeilingOK, LockOK, ConditionHolds, WindowCovered, Owed, Present, AboveLow

LEMMA LocalIdle ==
    ASSUME NEW e \in Executions, pc'[e] = "idle"
    PROVE  LocalInv(e)'
  BY DEF LocalInv, CeilingOK, LockOK, WindowCovered

(* An execution that returns without committing disturbs nothing. *)
LEMMA ReturnInv ==
    ASSUME IInv, TypeOK', NEW e \in Executions, Return(e),
           UNCHANGED <<wm, newest, item, delivered, history>>
    PROVE  IInv'
<1>1. SharedInv'
  BY SharedUntouched DEF IInv
<1>2. ASSUME NEW x \in Executions, x # e PROVE LocalInv(x)'
  BY <1>2, LocalUntouched DEF IInv, TypeOK, Return, Goto
<1>3. LocalInv(e)'
  BY LocalIdle DEF IInv, TypeOK, Return, Goto
<1> QED
  BY <1>1, <1>2, <1>3 DEF IInv

(* A row inserted in time lies above every ceiling captured before it, less *)
(* the lookback, so no window that is under way owes it.                    *)
LEMMA InsertInv ==
    ASSUME IInv, TypeOK', NEW r \in Rows, NEW w \in Watermarks, InsertRow(r, w)
    PROVE  IInv'
<1> USE LandingConstants
<1>1. /\ newest \in Int /\ newest' \in Int /\ newest <= newest' /\ w <= newest'
      /\ w \in Int /\ w > newest - Lookback /\ Lookback \in Int
      /\ \A q \in Rows : wm[q] \in Int /\ wm'[q] = IF q = r THEN w ELSE wm[q]
      /\ UNCHANGED <<item, delivered, history, locals>>
  BY DEF IInv, TypeOK, InsertRow, Watermarks
<1>2. SharedInv'
  <2>1. item.value # None => item.value \in Int /\ item.value <= newest
    BY DEF IInv, SharedInv, BelowNewest, TypeOK, Watermarks
  <2>2. BelowNewest'
    BY <1>1, <2>1 DEF IInv, SharedInv, BelowNewest
  <2>3. NoGap'
    BY <1>1, <2>1 DEF IInv, SharedInv, NoGap, Present
  <2> QED
    BY <1>1, <2>2, <2>3 DEF IInv, SharedInv, WindowsChain, CommitsBackedByManifests
<1>3. ASSUME NEW e \in Executions PROVE LocalInv(e)'
  <2>1. LocalInv(e) /\ pc'[e] = pc[e] /\ high'[e] = high[e]
    BY <1>1 DEF IInv, locals
  <2>2. CeilingOK(e)'
    BY <1>1, <2>1 DEF LocalInv, CeilingOK, IInv, TypeOK, Watermarks, locals
  <2>3. LockOK(e)'
    BY <1>1, <2>1 DEF LocalInv, LockOK, ConditionHolds, locals
  <2>4. pc[e] \in {"extract", "write", "commit"} => ~(w <= high[e] - Lookback)
    BY <1>1, <2>1 DEF LocalInv, CeilingOK, IInv, TypeOK, Watermarks
  <2>5. ASSUME pc[e] \in {"write", "commit"}, NEW q \in Owed(e)'
        PROVE  q \in Owed(e) /\ wm'[q] = wm[q]
    <3>1. q \in Rows /\ wm'[q] <= high[e] - Lookback
      BY <2>1, <2>5 DEF Owed, Present
    <3>2. q # r
      BY <1>1, <2>4, <2>5, <3>1
    <3>3. wm'[q] = wm[q] /\ previous'[e] = previous[e]
      BY <1>1, <3>1, <3>2 DEF locals
    <3> QED
      BY <2>1, <2>5, <3>1, <3>3 DEF Owed, Present, AboveLow
  <2>7. WindowCovered(e)'
    BY <1>1, <2>1, <2>5 DEF LocalInv, WindowCovered, locals
  <2> QED
    BY <2>2, <2>3, <2>7 DEF LocalInv
<1> QED
  BY <1>2, <1>3 DEF IInv

LEMMA DeleteInv ==
    ASSUME IInv, TypeOK', NEW r \in Rows, DeleteRow(r)
    PROVE  IInv'
<1>1. /\ newest \in Nat
      /\ \A q \in Rows : wm'[q] = IF q = r THEN 0 ELSE wm[q]
      /\ UNCHANGED <<newest, item, delivered, history, locals>>
  BY LandingConstants DEF IInv, TypeOK, DeleteRow
<1>2. SharedInv'
  <2>1. BelowNewest'
    BY <1>1 DEF IInv, SharedInv, BelowNewest
  <2>2. NoGap'
    BY <1>1 DEF IInv, SharedInv, NoGap, Present
  <2> QED
    BY <1>1, <2>1, <2>2 DEF IInv, SharedInv, WindowsChain, CommitsBackedByManifests
<1>3. ASSUME NEW e \in Executions PROVE LocalInv(e)'
  <2>1. LocalInv(e)
    BY DEF IInv
  <2>2. CeilingOK(e)' /\ LockOK(e)'
    BY <1>1, <2>1 DEF LocalInv, CeilingOK, LockOK, ConditionHolds, locals
  <2>3. \A q \in Owed(e)' : q \in Owed(e) /\ wm'[q] = wm[q]
    BY <1>1 DEF Owed, Present, AboveLow, locals
  <2>4. WindowCovered(e)'
    BY <1>1, <2>1, <2>3 DEF LocalInv, WindowCovered, locals
  <2> QED
    BY <2>2, <2>4 DEF LocalInv
<1> QED
  BY <1>2, <1>3 DEF IInv

(* Steps of run_table() before the manifest touch one execution's locals.   *)
LEMMA ReadStateInv ==
    ASSUME IInv, TypeOK', NEW e \in Executions, ReadState(e)
    PROVE  IInv'
<1>1. SharedInv'
  BY SharedUntouched DEF IInv, ReadState, source
<1>2. ASSUME NEW x \in Executions, x # e PROVE LocalInv(x)'
  BY <1>2, LocalUntouched DEF IInv, TypeOK, ReadState, Goto, source
<1>3. LocalInv(e)'
  <2>1. /\ pc'[e] = "high" /\ previous'[e] = item.value /\ item' = item
        /\ expected'[e] = IF item.exists THEN item.version ELSE None
    BY DEF IInv, TypeOK, ReadState, Goto
  <2>2. item.version \in Nat /\ None \notin Nat
    BY LandingConstants DEF IInv, TypeOK
  <2> QED
    BY <2>1, <2>2 DEF LocalInv, CeilingOK, LockOK, WindowCovered
<1> QED
  BY <1>1, <1>2, <1>3 DEF IInv

LEMMA OpenRunInv ==
    ASSUME IInv, TypeOK', NEW e \in Executions, NEW c \in Watermarks, OpenRun(e, c)
    PROVE  IInv'
<1>1. SharedInv'
  BY SharedUntouched DEF IInv, OpenRun, source
<1>2. ASSUME NEW x \in Executions, x # e PROVE LocalInv(x)'
  BY <1>2, LocalUntouched DEF IInv, TypeOK, OpenRun, Goto, source
<1>3. LocalInv(e)'
  <2>1. /\ pc[e] = "high" /\ pc'[e] = "extract" /\ high'[e] = c /\ item' = item
        /\ previous'[e] = previous[e] /\ expected'[e] = expected[e] /\ newest' = newest
    BY DEF IInv, TypeOK, OpenRun, Goto, source
  <2>2. c <= newest
    BY DEF OpenRun, IsHigh, Present, IInv, SharedInv, BelowNewest
  <2>3. Orderable /\ previous[e] # None => previous[e] <= c
    BY LandingConstants DEF OpenRun, Regressed, IInv, TypeOK, Watermarks
  <2>4. CeilingOK(e)'
    BY <2>1, <2>2, <2>3 DEF CeilingOK
  <2>5. LockOK(e)'
    BY <2>1 DEF IInv, LocalInv, LockOK, ConditionHolds
  <2> QED
    BY <2>1, <2>4, <2>5 DEF LocalInv, WindowCovered
<1> QED
  BY <1>1, <1>2, <1>3 DEF IInv

(* The query sees every row the window owes, whatever was written since the *)
(* ceiling was captured.                                                    *)
LEMMA ExtractInv ==
    ASSUME IInv, TypeOK', NEW e \in Executions, Extract(e)
    PROVE  IInv'
<1>1. SharedInv'
  BY SharedUntouched DEF IInv, Extract, source
<1>2. ASSUME NEW x \in Executions, x # e PROVE LocalInv(x)'
  BY <1>2, LocalUntouched DEF IInv, TypeOK, Extract, Goto, source
<1>3. LocalInv(e)'
  <2>1. /\ pc[e] = "extract" /\ pc'[e] = "write" /\ high'[e] = high[e] /\ item' = item
        /\ previous'[e] = previous[e] /\ expected'[e] = expected[e] /\ newest' = newest
        /\ pending'[e] = ResultSet(previous[e], high[e]) /\ wm' = wm
    BY DEF IInv, TypeOK, Extract, Goto, source
  <2>2. CeilingOK(e)' /\ LockOK(e)'
    BY <2>1 DEF IInv, LocalInv, LockOK, ConditionHolds, CeilingOK
  <2>3. ASSUME NEW r \in Owed(e)' PROVE <<r, wm'[r]>> \in pending'[e]
    <3>1. /\ r \in Present /\ AboveLow(wm[r], previous[e])
          /\ wm[r] <= high[e] - Lookback /\ wm'[r] = wm[r]
      BY <2>1 DEF Owed, Present, AboveLow
    <3>2. wm[r] <= high[e]
      BY <2>1, <3>1, LandingConstants DEF IInv, TypeOK, Present, Watermarks
    <3> QED
      BY <2>1, <3>1, <3>2 DEF ResultSet
  <2>4. WindowCovered(e)'
    BY <2>1, <2>3 DEF WindowCovered
  <2> QED
    BY <2>2, <2>4 DEF LocalInv
<1> QED
  BY <1>1, <1>2, <1>3 DEF IInv

LEMMA WriteBatchInv ==
    ASSUME IInv, TypeOK', NEW e \in Executions, WriteBatch(e)
    PROVE  IInv'
<1>1. SharedInv'
  BY SharedUntouched DEF IInv, WriteBatch, source
<1>2. ASSUME NEW x \in Executions, x # e PROVE LocalInv(x)'
  BY <1>2, LocalUntouched DEF IInv, TypeOK, WriteBatch, source
<1>3. LocalInv(e)'
  <2>1. /\ pc[e] = "write" /\ pc' = pc /\ high' = high /\ item' = item
        /\ previous' = previous /\ expected' = expected /\ newest' = newest /\ wm' = wm
    BY DEF WriteBatch, source
  <2>2. pending[e] \cup landed[e] \subseteq pending'[e] \cup landed'[e]
    BY DEF IInv, TypeOK, WriteBatch
  <2>3. CeilingOK(e)' /\ LockOK(e)'
    BY <2>1 DEF IInv, LocalInv, LockOK, ConditionHolds, CeilingOK
  <2>4. WindowCovered(e)'
    BY <2>1, <2>2 DEF IInv, LocalInv, WindowCovered, Owed, Present, AboveLow
  <2> QED
    BY <2>3, <2>4 DEF LocalInv
<1> QED
  BY <1>1, <1>2, <1>3 DEF IInv

(* The manifest makes a drained window visible; nothing visible is lost.    *)
LEMMA WriteManifestInv ==
    ASSUME IInv, TypeOK', NEW e \in Executions, WriteManifest(e)
    PROVE  IInv'
<1>1. /\ delivered' = delivered \cup landed[e] /\ UNCHANGED <<wm, newest, item, history>>
      /\ UNCHANGED <<previous, expected, high, pending, landed>>
  BY DEF WriteManifest, source
<1>2. SharedInv'
  BY <1>1 DEF IInv, SharedInv, BelowNewest, NoGap, WindowsChain, CommitsBackedByManifests, Present
<1>3. ASSUME NEW x \in Executions, x # e PROVE LocalInv(x)'
  <2>1. pc'[x] = pc[x] /\ LocalInv(x)
    BY <1>3 DEF IInv, TypeOK, WriteManifest, Goto
  <2> QED
    BY <1>1, <2>1 DEF LocalInv, CeilingOK, LockOK, ConditionHolds, WindowCovered, Owed,
                      Present, AboveLow
<1>4. LocalInv(e)'
  <2>1. pc[e] = "write" /\ pc'[e] = "commit" /\ pending[e] = {} /\ LocalInv(e)
    BY DEF IInv, TypeOK, WriteManifest, Goto, Drained
  <2>2. CeilingOK(e)' /\ LockOK(e)'
    BY <1>1, <2>1 DEF LocalInv, CeilingOK, LockOK, ConditionHolds
  <2>3. WindowCovered(e)'
    BY <1>1, <2>1 DEF LocalInv, WindowCovered, Owed, Present, AboveLow
  <2> QED
    BY <2>2, <2>3 DEF LocalInv
<1> QED
  BY <1>2, <1>3, <1>4 DEF IInv

(* The commit: what e owed is visible, and what lies further down was       *)
(* covered by the checkpoint e read, which the condition says still stands. *)
LEMMA CommitInv ==
    ASSUME IInv, TypeOK', NEW e \in Executions, Commit(e)
    PROVE  IInv'
<1> USE LandingConstants
<1>1. /\ pc[e] = "commit" /\ LocalInv(e) /\ ConditionHolds(e)
      /\ UNCHANGED <<wm, newest, delivered>> /\ history' = Append(history, Window(e))
      /\ item'.exists = TRUE /\ item'.value = high[e] /\ item'.version = NextVersion(e)
  BY DEF IInv, Commit, NextCheckpoint, source, ManifestWritten
<1>2. previous[e] = item.value
  BY <1>1 DEF LocalInv, LockOK
<1>3. /\ high[e] \in Int /\ high[e] <= newest /\ high[e] # None
      /\ previous[e] # None => previous[e] \in Int
      /\ \A r \in Rows : wm[r] \in Int
  BY <1>1 DEF LocalInv, CeilingOK, IInv, TypeOK, Watermarks
<1>4. BelowNewest'
  BY <1>1, <1>3 DEF IInv, SharedInv, BelowNewest
<1>5. NoGap'
  <2> SUFFICES ASSUME NEW r \in Present, wm[r] <= high[e] - Lookback
               PROVE  <<r, wm[r]>> \in delivered
    BY <1>1 DEF NoGap, Present
  <2>1. CASE AboveLow(wm[r], previous[e])
    BY <1>1, <2>1 DEF Owed, LocalInv, WindowCovered
  <2>2. CASE ~AboveLow(wm[r], previous[e])
    <3>1. previous[e] # None /\ wm[r] <= previous[e] - Lookback
      BY <1>3, <2>2 DEF AboveLow, Present
    <3> QED
      BY <1>2, <3>1 DEF IInv, SharedInv, NoGap
  <2> QED
    BY <2>1, <2>2
<1>6. WindowsChain'
  <2>1. history \in Seq(Windows) /\ Len(history) \in Nat
    BY DEF IInv, TypeOK
  <2>2. Window(e).low = previous[e] /\ Window(e).high = high[e] /\ Window(e) \in Windows
    BY <1>3 DEF Window, Windows, IInv, TypeOK
  <2>3. /\ Len(history') = Len(history) + 1
        /\ history'[Len(history) + 1] = Window(e)
        /\ \A k \in 1..Len(history) : history'[k] = history[k]
    BY <1>1, <2>1, <2>2
  <2>4. history # <<>> => history[Len(history)].high = previous[e]
    BY <1>2 DEF IInv, SharedInv, WindowsChain
  <2>5. ASSUME NEW k \in 1..(Len(history') - 1) PROVE history'[k + 1].low = history'[k].high
    <3>1. CASE k = Len(history)
      BY <2>1, <2>2, <2>3, <2>4, <2>5, <3>1
    <3>2. CASE k # Len(history)
      <4>1. k \in 1..(Len(history) - 1)
        BY <2>1, <2>3, <2>5, <3>2
      <4> QED
        BY <2>1, <2>3, <4>1 DEF IInv, SharedInv, WindowsChain
    <3> QED
      BY <3>1, <3>2
  <2> QED
    BY <1>1, <2>1, <2>2, <2>3, <2>5 DEF WindowsChain
<1>7. CommitsBackedByManifests'
  <2>1. history \in Seq(Windows) /\ Len(history) \in Nat
    BY DEF IInv, TypeOK
  <2>2. Window(e).rows \subseteq delivered /\ Window(e) \in Windows
    BY <1>1, <1>3 DEF Window, Windows, IInv, TypeOK, LocalInv, WindowCovered
  <2>3. \A k \in 1..Len(history') :
            history'[k] = IF k = Len(history) + 1 THEN Window(e) ELSE history[k]
    BY <1>1, <2>1, <2>2
  <2>4. Len(history') = Len(history) + 1
    BY <1>1, <2>1, <2>2
  <2> QED
    BY <1>1, <2>1, <2>2, <2>3, <2>4 DEF IInv, SharedInv, CommitsBackedByManifests
<1>8. ASSUME NEW x \in Executions PROVE LocalInv(x)'
  <2>1. CASE x = e
    BY <2>1, LocalIdle DEF IInv, TypeOK, Commit, Return, Goto
  <2>2. CASE x # e
    <3>1. /\ LocalInv(x) /\ pc'[x] = pc[x] /\ previous'[x] = previous[x]
          /\ expected'[x] = expected[x] /\ high'[x] = high[x]
          /\ pending'[x] = pending[x] /\ landed'[x] = landed[x]
      BY <2>2 DEF IInv, TypeOK, Commit, Return, Goto
    <3>2. CeilingOK(x)' /\ WindowCovered(x)'
      BY <1>1, <3>1 DEF LocalInv, CeilingOK, WindowCovered, Owed, Present, AboveLow
    <3>3. LockOK(x)'
      <4>1. /\ expected[x] # None => expected[x] \in Nat
            /\ expected[e] # None => expected[e] \in Nat /\ item.version = expected[e]
            /\ expected[e] = None => ~item.exists
            /\ item'.version = IF expected[e] = None THEN 1 ELSE expected[e] + 1
        BY <1>1 DEF IInv, TypeOK, ConditionHolds, NextVersion
      <4> QED
        BY <1>1, <3>1, <4>1 DEF LocalInv, LockOK, ConditionHolds
    <3> QED
      BY <3>2, <3>3 DEF LocalInv
  <2> QED
    BY <2>1, <2>2
<1> QED
  BY <1>4, <1>5, <1>6, <1>7, <1>8 DEF IInv, SharedInv

-----------------------------------------------------------------------------
LEMMA InitInv == Init => IInv
<1> SUFFICES ASSUME Init PROVE IInv
  OBVIOUS
<1>1. TypeOK
  BY TypeInit
<1>2. item = NoItem \/ \E v \in Watermarks \cup {None} : item = Seeded(v)
  BY DEF Init
<1>3. BelowNewest
  <2>1. ~item.exists => item.value = None
    BY <1>2 DEF NoItem, Seeded
  <2>2. item.value # None => item.value \in Nat /\ item.value = newest
    BY <1>1, LandingConstants DEF Init, TypeOK, Watermarks
  <2> QED
    BY <1>1, <2>1, <2>2 DEF Init, BelowNewest, TypeOK
<1>4. NoGap /\ WindowsChain /\ CommitsBackedByManifests
  BY DEF Init, NoGap, WindowsChain, CommitsBackedByManifests, Present
<1>5. \A e \in Executions : LocalInv(e)
  BY DEF Init, LocalInv, CeilingOK, LockOK, WindowCovered
<1> QED
  BY <1>1, <1>3, <1>4, <1>5 DEF IInv, SharedInv

LEMMA StepInv == IInv /\ [Next]_vars => IInv'
<1> SUFFICES ASSUME IInv, [Next]_vars PROVE IInv'
  OBVIOUS
<1>1. TypeOK'
  BY TypeStep DEF IInv
<1>2. ASSUME NEW r \in Rows, NEW w \in Watermarks, InsertRow(r, w) PROVE IInv'
  BY <1>1, <1>2, InsertInv
<1>3. ASSUME NEW r \in Rows, DeleteRow(r) PROVE IInv'
  BY <1>1, <1>3, DeleteInv
<1>4. ASSUME NEW e \in Executions, ReadState(e) PROVE IInv'
  BY <1>1, <1>4, ReadStateInv
<1>5. ASSUME NEW e \in Executions, NEW c \in Watermarks,
             SkipUnchanged(e, c) \/ SkipRegressed(e, c)
      PROVE  IInv'
  BY <1>1, <1>5, ReturnInv DEF SkipUnchanged, SkipRegressed, source
<1>6. ASSUME NEW e \in Executions, SkipEmpty(e) PROVE IInv'
  BY <1>1, <1>6, ReturnInv DEF SkipEmpty, source
<1>7. ASSUME NEW e \in Executions, NEW c \in Watermarks, OpenRun(e, c) PROVE IInv'
  BY <1>1, <1>7, OpenRunInv
<1>8. ASSUME NEW e \in Executions, Extract(e) PROVE IInv'
  BY <1>1, <1>8, ExtractInv
<1>9. ASSUME NEW e \in Executions, WriteBatch(e) PROVE IInv'
  BY <1>1, <1>9, WriteBatchInv
<1>10. ASSUME NEW e \in Executions, WriteManifest(e) PROVE IInv'
  BY <1>1, <1>10, WriteManifestInv
<1>11. ASSUME NEW e \in Executions, Commit(e) PROVE IInv'
  BY <1>1, <1>11, CommitInv
<1>12. ASSUME NEW e \in Executions, CommitConflict(e) \/ Fail(e) PROVE IInv'
  BY <1>1, <1>12, ReturnInv DEF CommitConflict, Fail, source
<1>13. CASE UNCHANGED vars
  <2>1. SharedInv'
    BY <1>13, SharedUntouched DEF IInv, vars, source
  <2>2. ASSUME NEW x \in Executions PROVE LocalInv(x)'
    BY <1>13, LocalUntouched DEF IInv, vars, source, locals
  <2> QED
    BY <1>1, <2>1, <2>2 DEF IInv
<1> QED
  BY <1>2, <1>3, <1>4, <1>5, <1>6, <1>7, <1>8, <1>9, <1>10, <1>11, <1>12, <1>13
  DEF Next, RunTable

THEOREM Invariance == Spec => []IInv
  BY InitInv, StepInv, PTL DEF Spec

(* No row the checkpoint has passed is missing from landing. *)
THEOREM NoGapAlways == Spec => []NoGap
<1>1. IInv => NoGap
  BY DEF IInv, SharedInv
<1> QED
  BY <1>1, Invariance, PTL

(* Committed windows extend one another and never lose an advance. *)
THEOREM WindowsChainAlways == Spec => []WindowsChain
<1>1. IInv => WindowsChain
  BY DEF IInv, SharedInv
<1> QED
  BY <1>1, Invariance, PTL

(* No checkpoint is committed ahead of the data it stands for. *)
THEOREM CommitsBackedAlways == Spec => []CommitsBackedByManifests
<1>1. IInv => CommitsBackedByManifests
  BY DEF IInv, SharedInv
<1> QED
  BY <1>1, Invariance, PTL

(* With an orderable watermark no step lowers the checkpoint. *)
THEOREM NeverMovesBack ==
    ASSUME Orderable PROVE Spec => CheckpointNeverMovesBack
<1>1. ASSUME IInv, [Next]_vars
      PROVE  [item.value # None => item'.value # None /\ item'.value >= item.value]_item
  <2>1. ASSUME NEW e \in Executions, Commit(e)
        PROVE  item.value # None => item'.value # None /\ item'.value >= item.value
    <3>1. /\ pc[e] = "commit" /\ LocalInv(e) /\ ConditionHolds(e) /\ item'.value = high[e]
      BY <2>1, <1>1 DEF IInv, Commit, NextCheckpoint, ManifestWritten
    <3>2. previous[e] = item.value /\ (previous[e] # None => previous[e] <= high[e])
      BY <3>1 DEF LocalInv, LockOK, CeilingOK
    <3>3. high[e] # None /\ high[e] \in Int /\ (item.value # None => item.value \in Int)
      BY <3>1, <1>1, LandingConstants DEF IInv, TypeOK, Watermarks
    <3> QED
      BY <3>1, <3>2, <3>3
  <2>2. (\E e \in Executions : Commit(e)) \/ item' = item
    BY <1>1 DEF Next, RunTable, vars, InsertRow, DeleteRow, ReadState, SkipEmpty, SkipUnchanged,
                SkipRegressed, OpenRun, Extract, WriteBatch, WriteManifest, CommitConflict, Fail
  <2> QED
    BY <2>1, <2>2
<1> QED
  BY <1>1, Invariance, PTL DEF Spec, CheckpointNeverMovesBack

(* run_table() implements the incremental load: a manifest delivers, a      *)
(* commit advances a checkpoint that has been paid for, and every other     *)
(* step of the job is invisible to the reader of landing.                   *)
THEOREM Implementation ==
    ASSUME Orderable PROVE Spec => ImplementsIncrementalLoad
<1>1. Init => Load!Init
  <2> SUFFICES ASSUME Init PROVE Load!Init
    OBVIOUS
  <2>1. item.value \in Watermarks \cup {None}
    BY TypeInit DEF TypeOK
  <2> QED
    BY <2>1 DEF Init, Load!Init, Watermarks
<1>2. ASSUME IInv, IInv', [Next]_vars PROVE [Load!Next]_(Load!vars)
  <2>1. ASSUME NEW r \in Rows, NEW w \in Watermarks, InsertRow(r, w) PROVE Load!Next
    <3>1. item.value # None => w > item.value - Lookback
      BY <1>2, <2>1, LandingConstants
      DEF InsertRow, IInv, TypeOK, SharedInv, BelowNewest, Watermarks
    <3>2. Load!InsertRow(r, w)
      BY <2>1, <3>1 DEF InsertRow, Load!InsertRow
    <3> QED
      BY <3>2 DEF Load!Next, Watermarks
  <2>2. ASSUME NEW r \in Rows, DeleteRow(r) PROVE Load!Next
    BY <2>2 DEF DeleteRow, Load!DeleteRow, Load!Next
  <2>3. ASSUME NEW e \in Executions, WriteManifest(e) PROVE Load!Next
    <3>1. delivered' \in SUBSET Load!Versions
      BY <1>2 DEF IInv, TypeOK, RowVersions, Load!Versions, Watermarks
    <3>2. Load!Deliver
      BY <2>3, <3>1 DEF WriteManifest, Load!Deliver, source
    <3> QED
      BY <3>2 DEF Load!Next
  <2>4. ASSUME NEW e \in Executions, Commit(e) PROVE Load!Next
    <3>1. /\ pc[e] = "commit" /\ LocalInv(e) /\ ConditionHolds(e) /\ item'.value = high[e]
          /\ UNCHANGED <<wm, delivered>>
      BY <1>2, <2>4 DEF IInv, Commit, NextCheckpoint, ManifestWritten, source
    <3>2. high[e] \in 1..MaxWm
      BY <1>2, <3>1 DEF IInv, TypeOK, Watermarks
    <3>3. previous[e] = item.value /\ (item.value # None => item.value <= high[e])
      BY <3>1 DEF LocalInv, LockOK, CeilingOK
    <3>4. \A r \in Load!Below(high[e]) : <<r, wm[r]>> \in delivered
      <4>1. NoGap' /\ item'.value # None
        BY <1>2, <3>1, <3>2, LandingConstants DEF IInv, SharedInv
      <4> QED
        BY <3>1, <4>1 DEF NoGap, Load!Below, Present
    <3>5. Load!Advance(high[e])
      BY <3>1, <3>3, <3>4 DEF Load!Advance
    <3> QED
      BY <3>2, <3>5 DEF Load!Next
  <2>5. \/ \E r \in Rows, w \in Watermarks : InsertRow(r, w)
        \/ \E r \in Rows : DeleteRow(r)
        \/ \E e \in Executions : WriteManifest(e) \/ Commit(e)
        \/ UNCHANGED <<wm, delivered, item>>
    BY <1>2 DEF Next, RunTable, vars, source, ReadState, SkipEmpty, SkipUnchanged, SkipRegressed,
                OpenRun, Extract, WriteBatch, CommitConflict, Fail
  <2> QED
    BY <2>1, <2>2, <2>3, <2>4, <2>5 DEF Load!vars
<1> QED
  BY <1>1, <1>2, Invariance, PTL DEF Spec, Load!Spec, ImplementsIncrementalLoad

-----------------------------------------------------------------------------
(* Without lookback a row version belongs to one committed window.  For     *)
(* this the windows need more than their ends: what they landed lies below  *)
(* everything the source may still write, and what of it is still in the    *)
(* source lies at or below the checkpoint.  No order of watermarks is       *)
(* needed: a ceiling that falls behind the checkpoint does so because the   *)
(* rows between the two are gone.                                           *)
CommittedRows == UNION {history[i].rows : i \in 1..Len(history)}

HistoryInv ==
    \A r \in Rows, w \in Watermarks : <<r, w>> \in CommittedRows =>
        /\ w <= newest
        /\ wm[r] = w => item.value # None /\ w <= item.value

InHand(e) == pending[e] \cup landed[e]

(* An execution whose commit would be accepted holds nothing a committed    *)
(* window has, and its ceiling is not below what they left in the source.   *)
ClaimInv(e) ==
    /\ pc[e] \notin {"write", "commit"} => InHand(e) = {}
    /\ pc[e] \in {"write", "commit"} =>
          \A r \in Rows, w \in Watermarks : <<r, w>> \in InHand(e) => w <= high[e]
    /\ pc[e] # "idle" /\ ConditionHolds(e) =>
          /\ InHand(e) \cap CommittedRows = {}
          /\ pc[e] \in {"extract", "write", "commit"} =>
                \A r \in Rows, w \in Watermarks :
                    <<r, w>> \in CommittedRows /\ wm[r] = w => w <= high[e]

OnceInv == NoDoubleDelivery /\ HistoryInv /\ \A e \in Executions : ClaimInv(e)

LEMMA HistoryUntouched ==
    ASSUME NoDoubleDelivery, HistoryInv, UNCHANGED <<wm, newest, item, history>>
    PROVE  NoDoubleDelivery' /\ HistoryInv'
  BY DEF NoDoubleDelivery, HistoryInv, CommittedRows

LEMMA ClaimUntouched ==
    ASSUME NEW e \in Executions, ClaimInv(e), UNCHANGED <<wm, item, history>>,
           pc'[e] = pc[e], expected'[e] = expected[e],
           high'[e] = high[e], pending'[e] = pending[e], landed'[e] = landed[e]
    PROVE  ClaimInv(e)'
<1>1. CommittedRows' = CommittedRows /\ InHand(e)' = InHand(e) /\ ConditionHolds(e)' = ConditionHolds(e)
  BY DEF CommittedRows, InHand, ConditionHolds
<1> QED
  BY <1>1 DEF ClaimInv

LEMMA ReturnOnce ==
    ASSUME TypeOK, OnceInv, NEW e \in Executions, Return(e),
           UNCHANGED <<wm, newest, item, delivered, history>>
    PROVE  OnceInv'
<1>1. ASSUME NEW x \in Executions, x # e PROVE ClaimInv(x)'
  BY <1>1, ClaimUntouched DEF OnceInv, TypeOK, Return, Goto
<1>2. ClaimInv(e)'
  BY DEF ClaimInv, InHand, TypeOK, Return, Goto
<1> QED
  BY <1>1, <1>2, HistoryUntouched DEF OnceInv

(* The source writes above all that was ever committed, so it brings none   *)
(* of it back.                                                              *)
LEMMA SourceOnce ==
    ASSUME Lookback = 0, IInv, OnceInv,
           (\E r \in Rows, w \in Watermarks : InsertRow(r, w)) \/ (\E r \in Rows : DeleteRow(r))
    PROVE  OnceInv'
<1>1. UNCHANGED <<item, history, pc, expected, high, pending, landed>>
  BY DEF InsertRow, DeleteRow, locals
<1>2. newest <= newest' /\ newest' \in Int /\ newest \in Int
  BY LandingConstants DEF InsertRow, DeleteRow, IInv, TypeOK, Watermarks
<1>3. CommittedRows' = CommittedRows
  BY <1>1 DEF CommittedRows
<1>4. ASSUME NEW q \in Rows, NEW v \in Watermarks, <<q, v>> \in CommittedRows, wm'[q] = v
      PROVE  wm[q] = v
  <2>1. v \in Int /\ v >= 1 /\ v <= newest
    BY <1>4, LandingConstants DEF OnceInv, HistoryInv, Watermarks
  <2>2. ASSUME NEW r \in Rows, NEW w \in Watermarks, InsertRow(r, w) PROVE wm[q] = v
    <3>1. w > newest /\ wm' = [wm EXCEPT ![r] = w] /\ w \in Int
      BY <1>2, <2>2, LandingConstants DEF InsertRow, Watermarks
    <3>2. w # v
      BY <1>2, <2>1, <3>1
    <3> QED
      BY <1>4, <3>1, <3>2 DEF IInv, TypeOK
  <2>3. ASSUME NEW r \in Rows, DeleteRow(r) PROVE wm[q] = v
    BY <1>4, <2>1, <2>3 DEF DeleteRow, IInv, TypeOK
  <2> QED
    BY <2>2, <2>3
<1>5. NoDoubleDelivery'
  BY <1>1 DEF OnceInv, NoDoubleDelivery
<1>6. HistoryInv'
  <2> SUFFICES ASSUME NEW r \in Rows, NEW w \in Watermarks, <<r, w>> \in CommittedRows
               PROVE  w <= newest' /\ (wm'[r] = w => item.value # None /\ w <= item.value)
    BY <1>1, <1>3 DEF HistoryInv
  <2>1. w <= newest /\ w \in Int
    BY LandingConstants DEF OnceInv, HistoryInv, Watermarks
  <2> QED
    BY <1>2, <1>4, <2>1 DEF OnceInv, HistoryInv
<1>7. ASSUME NEW e \in Executions PROVE ClaimInv(e)'
  <2>1. ClaimInv(e) /\ InHand(e)' = InHand(e) /\ ConditionHolds(e)' = ConditionHolds(e)
    BY <1>1 DEF OnceInv, InHand, ConditionHolds
  <2> QED
    BY <1>1, <1>3, <1>4, <2>1 DEF ClaimInv
<1> QED
  BY <1>5, <1>6, <1>7 DEF OnceInv

LEMMA ReadStateOnce ==
    ASSUME TypeOK, OnceInv, NEW e \in Executions, ReadState(e)
    PROVE  OnceInv'
<1>1. UNCHANGED <<wm, newest, item, history, high, pending, landed>>
  BY DEF ReadState, source
<1>2. ASSUME NEW x \in Executions, x # e PROVE ClaimInv(x)'
  BY <1>1, <1>2, ClaimUntouched DEF OnceInv, TypeOK, ReadState, Goto
<1>3. ClaimInv(e)'
  <2>1. pc[e] = "idle" /\ pc'[e] = "high"
    BY DEF ReadState, Goto, TypeOK
  <2>2. InHand(e)' = {}
    BY <1>1, <2>1 DEF OnceInv, ClaimInv, InHand
  <2> QED
    BY <2>1, <2>2 DEF ClaimInv
<1> QED
  BY <1>1, <1>2, <1>3, HistoryUntouched DEF OnceInv

(* Every row in the source is at or below the ceiling just taken. *)
LEMMA OpenRunOnce ==
    ASSUME TypeOK, OnceInv, NEW e \in Executions, NEW c \in Watermarks, OpenRun(e, c)
    PROVE  OnceInv'
<1>1. UNCHANGED <<wm, newest, item, history, expected, pending, landed>>
  BY DEF OpenRun, source
<1>2. ASSUME NEW x \in Executions, x # e PROVE ClaimInv(x)'
  BY <1>1, <1>2, ClaimUntouched DEF OnceInv, TypeOK, OpenRun, Goto
<1>3. ClaimInv(e)'
  <2>1. pc[e] = "high" /\ pc'[e] = "extract" /\ high'[e] = c
    BY DEF OpenRun, Goto, TypeOK
  <2>2. InHand(e)' = {}
    BY <1>1, <2>1 DEF OnceInv, ClaimInv, InHand
  <2>3. ASSUME NEW r \in Rows, NEW w \in Watermarks, wm[r] = w PROVE w <= c
    <3>1. r \in Present
      BY <2>3, LandingConstants DEF Present, Watermarks
    <3> QED
      BY <2>3, <3>1 DEF OpenRun, IsHigh
  <2> QED
    BY <1>1, <2>1, <2>2, <2>3 DEF ClaimInv
<1> QED
  BY <1>1, <1>2, <1>3, HistoryUntouched DEF OnceInv

(* The query reads only what lies above the checkpoint it was started from, *)
(* where the source has nothing that a committed window has.                *)
LEMMA ExtractOnce ==
    ASSUME Lookback = 0, IInv, OnceInv, NEW e \in Executions, Extract(e)
    PROVE  OnceInv'
<1>1. UNCHANGED <<wm, newest, item, history, expected, high, landed>>
  BY DEF Extract, source
<1>2. ASSUME NEW x \in Executions, x # e PROVE ClaimInv(x)'
  BY <1>1, <1>2, ClaimUntouched DEF OnceInv, IInv, TypeOK, Extract, Goto
<1>3. ClaimInv(e)'
  <2>1. /\ pc[e] = "extract" /\ pc'[e] = "write"
        /\ pending'[e] = ResultSet(previous[e], high[e])
        /\ ClaimInv(e) /\ LocalInv(e)
    BY DEF Extract, Goto, IInv, TypeOK, OnceInv
  <2>2. landed[e] = {}
    BY <2>1 DEF ClaimInv, InHand
  <2>3. InHand(e)' = ResultSet(previous[e], high[e])
    BY <1>1, <2>1, <2>2 DEF InHand
  <2>4. CommittedRows' = CommittedRows /\ ConditionHolds(e)' = ConditionHolds(e)
    BY <1>1 DEF CommittedRows, ConditionHolds
  <2>5. ASSUME NEW r \in Rows, NEW w \in Watermarks, <<r, w>> \in ResultSet(previous[e], high[e])
        PROVE  wm[r] = w /\ w <= high[e] /\ AboveLow(w, previous[e])
    BY <2>5 DEF ResultSet
  <2>6. ASSUME ConditionHolds(e), NEW r \in Rows, NEW w \in Watermarks,
               <<r, w>> \in ResultSet(previous[e], high[e]), <<r, w>> \in CommittedRows
        PROVE  FALSE
    <3>1. previous[e] = item.value
      BY <2>1, <2>6 DEF LocalInv, LockOK
    <3>2. item.value # None /\ w <= item.value
      BY <2>5, <2>6 DEF OnceInv, HistoryInv
    <3>3. w > item.value - Lookback
      BY <2>5, <2>6, <3>1, <3>2 DEF AboveLow
    <3>4. w \in Int /\ item.value \in Int
      BY <3>2, LandingConstants DEF IInv, TypeOK, Watermarks
    <3> QED
      BY <3>2, <3>3, <3>4
  <2>7. ResultSet(previous[e], high[e]) \subseteq Rows \X Watermarks
    BY DEF IInv, TypeOK, ResultSet, Present, Watermarks
  <2>8. ConditionHolds(e) => ResultSet(previous[e], high[e]) \cap CommittedRows = {}
    BY <2>6, <2>7
  <2> QED
    BY <1>1, <2>1, <2>3, <2>4, <2>5, <2>8 DEF ClaimInv
<1> QED
  BY <1>1, <1>2, <1>3, HistoryUntouched DEF OnceInv

LEMMA WriteOnce ==
    ASSUME TypeOK, OnceInv, NEW e \in Executions, WriteBatch(e) \/ WriteManifest(e)
    PROVE  OnceInv'
<1>1. UNCHANGED <<wm, newest, item, history, expected, high>>
  BY DEF WriteBatch, WriteManifest, source
<1>2. ASSUME NEW x \in Executions, x # e PROVE ClaimInv(x)'
  BY <1>1, <1>2, ClaimUntouched DEF OnceInv, TypeOK, WriteBatch, WriteManifest, Goto
<1>3. ClaimInv(e)'
  <2>1. InHand(e)' \subseteq InHand(e)
    <3>1. CASE WriteBatch(e)
      <4>1. PICK batch \in SUBSET pending[e] :
              /\ pending' = [pending EXCEPT ![e] = @ \ batch]
              /\ landed' = [landed EXCEPT ![e] = @ \cup batch]
        BY <3>1 DEF WriteBatch
      <4> QED
        BY <4>1 DEF InHand, TypeOK
    <3>2. CASE WriteManifest(e)
      BY <3>2 DEF WriteManifest, InHand
    <3> QED
      BY <3>1, <3>2
  <2>2. pc[e] = "write" /\ pc'[e] \in {"write", "commit"}
    BY DEF WriteBatch, WriteManifest, Goto, TypeOK
  <2>3. CommittedRows' = CommittedRows /\ ConditionHolds(e)' = ConditionHolds(e)
    BY <1>1 DEF CommittedRows, ConditionHolds
  <2>4. ClaimInv(e)
    BY DEF OnceInv
  <2> QED
    BY <1>1, <2>1, <2>2, <2>3, <2>4 DEF ClaimInv
<1> QED
  BY <1>1, <1>2, <1>3, HistoryUntouched DEF OnceInv

(* The window committed is disjoint from all before it, and the condition   *)
(* of every other execution under way fails from then on.                   *)
LEMMA CommitOnce ==
    ASSUME IInv, OnceInv, NEW e \in Executions, Commit(e)
    PROVE  OnceInv'
<1> USE LandingConstants
<1>1. /\ pc[e] = "commit" /\ ClaimInv(e) /\ LocalInv(e) /\ ConditionHolds(e)
      /\ UNCHANGED <<wm, newest>> /\ history' = Append(history, Window(e))
      /\ item'.exists = TRUE /\ item'.value = high[e] /\ item'.version = NextVersion(e)
      /\ history \in Seq(Windows) /\ Len(history) \in Nat
  BY DEF IInv, OnceInv, TypeOK, Commit, NextCheckpoint, source, ManifestWritten
<1>2. /\ high[e] \in Int /\ high[e] <= newest /\ high[e] # None /\ newest \in Int
      /\ landed[e] \subseteq RowVersions
  BY <1>1 DEF LocalInv, CeilingOK, IInv, TypeOK, Watermarks
<1>3. Window(e) \in Windows /\ Window(e).rows = landed[e]
  BY <1>2 DEF Window, Windows, IInv, TypeOK
<1>4. /\ Len(history') = Len(history) + 1
      /\ history'[Len(history) + 1] = Window(e)
      /\ \A k \in 1..Len(history) : history'[k] = history[k]
  BY <1>1, <1>3
<1>5. \A k \in 1..Len(history') : k = Len(history) + 1 \/ k \in 1..Len(history)
  BY <1>1, <1>4
<1>6. CommittedRows' = CommittedRows \cup landed[e]
  <2>1. ASSUME NEW v \in CommittedRows' PROVE v \in CommittedRows \cup landed[e]
    BY <1>3, <1>4, <1>5, <2>1 DEF CommittedRows
  <2>2. ASSUME NEW v \in CommittedRows PROVE v \in CommittedRows'
    <3>1. PICK k \in 1..Len(history) : v \in history[k].rows
      BY <2>2 DEF CommittedRows
    <3>2. k \in 1..Len(history') /\ v \in history'[k].rows
      BY <1>1, <1>4, <3>1
    <3> QED
      BY <3>2 DEF CommittedRows
  <2>3. ASSUME NEW v \in landed[e] PROVE v \in CommittedRows'
    <3>1. Len(history) + 1 \in 1..Len(history') /\ v \in history'[Len(history) + 1].rows
      BY <1>1, <1>3, <1>4, <2>3
    <3> QED
      BY <3>1 DEF CommittedRows
  <2> QED
    BY <2>1, <2>2, <2>3
<1>7. landed[e] \cap CommittedRows = {}
  BY <1>1 DEF ClaimInv, InHand
<1>8. NoDoubleDelivery'
  <2> SUFFICES ASSUME Lookback = 0, NEW i \in 1..Len(history'), NEW j \in 1..Len(history'), i # j
               PROVE  history'[i].rows \cap history'[j].rows = {}
    BY DEF NoDoubleDelivery
  <2>1. \A k \in 1..Len(history) : history[k].rows \cap landed[e] = {}
    BY <1>7 DEF CommittedRows
  <2>2. CASE i \in 1..Len(history) /\ j \in 1..Len(history)
    BY <1>4, <2>2 DEF OnceInv, NoDoubleDelivery
  <2>3. CASE i = Len(history) + 1 \/ j = Len(history) + 1
    BY <1>3, <1>4, <1>5, <2>1, <2>3
  <2> QED
    BY <1>5, <2>2, <2>3
<1>9. HistoryInv'
  <2> SUFFICES ASSUME NEW r \in Rows, NEW w \in Watermarks, <<r, w>> \in CommittedRows \cup landed[e]
               PROVE  w <= newest /\ (wm[r] = w => w <= high[e])
    BY <1>1, <1>2, <1>6 DEF HistoryInv
  <2>1. w \in Int
    BY DEF Watermarks
  <2>2. CASE <<r, w>> \in CommittedRows
    BY <1>1, <2>2 DEF OnceInv, HistoryInv, ClaimInv
  <2>3. CASE <<r, w>> \in landed[e]
    BY <1>1, <1>2, <2>1, <2>3 DEF ClaimInv, InHand
  <2> QED
    BY <2>2, <2>3
<1>10. ASSUME NEW x \in Executions PROVE ClaimInv(x)'
  <2>1. CASE x = e
    BY <2>1 DEF IInv, TypeOK, Commit, Return, Goto, ClaimInv, InHand
  <2>2. CASE x # e
    <3>1. /\ ClaimInv(x) /\ LocalInv(x) /\ pc'[x] = pc[x] /\ expected'[x] = expected[x]
          /\ high'[x] = high[x] /\ pending'[x] = pending[x] /\ landed'[x] = landed[x]
      BY <2>2 DEF IInv, OnceInv, TypeOK, Commit, Return, Goto
    <3>2. pc[x] # "idle" => ~ConditionHolds(x)'
      <4>1. /\ expected[x] # None => expected[x] \in Nat
            /\ expected[e] # None => expected[e] \in Nat /\ item.version = expected[e]
            /\ expected[e] = None => ~item.exists
            /\ item'.version = IF expected[e] = None THEN 1 ELSE expected[e] + 1
        BY <1>1 DEF IInv, TypeOK, ConditionHolds, NextVersion
      <4> QED
        BY <1>1, <3>1, <4>1 DEF LocalInv, LockOK, ConditionHolds
    <3>3. InHand(x)' = InHand(x)
      BY <3>1 DEF InHand
    <3> QED
      BY <3>1, <3>2, <3>3 DEF ClaimInv
  <2> QED
    BY <2>1, <2>2
<1> QED
  BY <1>8, <1>9, <1>10 DEF OnceInv

LEMMA OnceInit == Init => OnceInv
<1> SUFFICES ASSUME Init PROVE OnceInv
  OBVIOUS
<1>1. history = <<>> /\ CommittedRows = {}
  BY DEF Init, CommittedRows
<1>2. \A e \in Executions : pc[e] = "idle" /\ InHand(e) = {}
  BY DEF Init, InHand
<1> QED
  BY <1>1, <1>2 DEF OnceInv, NoDoubleDelivery, HistoryInv, ClaimInv

LEMMA OnceStep == Lookback = 0 /\ IInv /\ OnceInv /\ [Next]_vars => OnceInv'
<1> SUFFICES ASSUME Lookback = 0, IInv, OnceInv, [Next]_vars PROVE OnceInv'
  OBVIOUS
<1>1. TypeOK
  BY DEF IInv
<1>2. ASSUME NEW e \in Executions, ReadState(e) PROVE OnceInv'
  BY <1>1, <1>2, ReadStateOnce
<1>3. ASSUME NEW e \in Executions, NEW c \in Watermarks, OpenRun(e, c) PROVE OnceInv'
  BY <1>1, <1>3, OpenRunOnce
<1>4. ASSUME NEW e \in Executions, Extract(e) PROVE OnceInv'
  BY <1>4, ExtractOnce
<1>5. ASSUME NEW e \in Executions, WriteBatch(e) \/ WriteManifest(e) PROVE OnceInv'
  BY <1>1, <1>5, WriteOnce
<1>6. ASSUME NEW e \in Executions, Commit(e) PROVE OnceInv'
  BY <1>6, CommitOnce
<1>7. ASSUME NEW e \in Executions, NEW c \in Watermarks,
             SkipUnchanged(e, c) \/ SkipRegressed(e, c)
      PROVE  OnceInv'
  BY <1>1, <1>7, ReturnOnce DEF SkipUnchanged, SkipRegressed, source
<1>8. ASSUME NEW e \in Executions, SkipEmpty(e) \/ CommitConflict(e) \/ Fail(e) PROVE OnceInv'
  BY <1>1, <1>8, ReturnOnce DEF SkipEmpty, CommitConflict, Fail, source
<1>9. CASE UNCHANGED vars
  <2>1. NoDoubleDelivery' /\ HistoryInv'
    BY <1>9, HistoryUntouched DEF OnceInv, vars, source
  <2>2. ASSUME NEW e \in Executions PROVE ClaimInv(e)'
    BY <1>9, ClaimUntouched DEF OnceInv, vars, source, locals
  <2> QED
    BY <2>1, <2>2 DEF OnceInv
<1> QED
  BY <1>2, <1>3, <1>4, <1>5, <1>6, <1>7, <1>8, <1>9, SourceOnce DEF Next, RunTable

(* Without lookback no row version is in two committed windows, whatever    *)
(* executions race or die, whether or not the watermark can be ordered.     *)
THEOREM NoDoubleDeliveryAlways == Spec => []NoDoubleDelivery
<1>1. CASE Lookback = 0
  <2>1. Spec => []OnceInv
    BY <1>1, OnceInit, OnceStep, Invariance, PTL DEF Spec
  <2>2. OnceInv => NoDoubleDelivery
    BY DEF OnceInv
  <2> QED
    BY <2>1, <2>2, PTL
<1>2. CASE Lookback # 0
  <2>1. NoDoubleDelivery
    BY <1>2 DEF NoDoubleDelivery
  <2> QED
    BY <2>1, PTL
<1> QED
  BY <1>1, <1>2
=============================================================================
