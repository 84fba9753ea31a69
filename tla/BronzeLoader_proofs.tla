-------------------------- MODULE BronzeLoader_proofs --------------------------
(***************************************************************************)
(* The Bronze load is safe for every number of passes, runs, keys, drops   *)
(* and failures.                                                           *)
(***************************************************************************)
EXTENDS BronzeLoader, TLAPS

LEMMA ReturnType ==
    ASSUME TypeOK, NEW l \in Loaders, Return(l)
    PROVE  /\ pc' \in [Loaders -> Steps]
           /\ listed' \in [Loaders -> SUBSET Runs]
           /\ created' \in [Loaders -> BOOLEAN]
           /\ todo' \in [Loaders -> SUBSET Runs]
  BY DEF TypeOK, Return, Goto, Steps

LEMMA MarkType ==
    ASSUME TypeOK, NEW l \in Loaders, NEW n \in Runs, MarkProcessed(l, n)
    PROVE  /\ processed' \subseteq Runs
           /\ todo' \in [Loaders -> SUBSET Runs]
  BY DEF TypeOK, MarkProcessed

LEMMA StaleType ==
    ASSUME NEW set \in SUBSET Merges
    PROVE  Stale(set) \subseteq Merges
  BY DEF Stale, Merges

LEMMA TypeInit == Init => TypeOK
<1> SUFFICES ASSUME Init PROVE TypeOK
  OBVIOUS
<1>1. manifest \in [Runs -> {"none", "clean", "drifted", "deleted"}] /\ rows \in [Runs -> SUBSET Keys]
  BY DEF Init
<1>2. exists \in BOOLEAN /\ copies \in [Keys -> Nat] /\ failures \in Nat /\ drops \in Nat
  BY DEF Init
<1>3. processed \subseteq Runs /\ partitions \subseteq Runs /\ statements \subseteq Merges
  BY DEF Init
<1>4. /\ pc \in [Loaders -> Steps]
      /\ listed \in [Loaders -> SUBSET Runs]
      /\ created \in [Loaders -> BOOLEAN]
      /\ todo \in [Loaders -> SUBSET Runs]
  BY DEF Init, Steps
<1>5. LocalsGone
  BY DEF Init, LocalsGone
<1> QED
  BY <1>1, <1>2, <1>3, <1>4, <1>5 DEF TypeOK

(* Whoever is idle after a step was idle before it or has just returned.    *)
LEMMA LocalsStep == TypeOK /\ [Next]_vars => LocalsGone'
<1> SUFFICES ASSUME TypeOK, [Next]_vars PROVE LocalsGone'
  OBVIOUS
<1>0. LocalsGone
  BY DEF TypeOK
<1>1. ASSUME NEW l \in Loaders, Return(l) PROVE LocalsGone'
  BY <1>0, <1>1 DEF TypeOK, Return, Goto, LocalsGone
<1>2. CASE UNCHANGED locals
  BY <1>0, <1>2 DEF locals, LocalsGone
<1>3. ASSUME NEW l \in Loaders, Discover(l) PROVE LocalsGone'
  BY <1>0, <1>3 DEF TypeOK, Discover, Goto, LocalsGone
<1>4. ASSUME NEW l \in Loaders, FindTable(l) \/ CreateTable(l) PROVE LocalsGone'
  BY <1>0, <1>4 DEF TypeOK, FindTable, CreateTable, Goto, LocalsGone
<1>5. ASSUME NEW l \in Loaders, ReadProcessed(l) PROVE LocalsGone'
  BY <1>0, <1>5 DEF TypeOK, ReadProcessed, Goto, LocalsGone
<1>6. ASSUME NEW l \in Loaders, NEW n \in Runs, RecordEmpty(l, n) \/ RecordMerged(l, n)
      PROVE LocalsGone'
  BY <1>0, <1>6 DEF TypeOK, RecordEmpty, RecordMerged, MergeSucceeded, MarkProcessed, Goto, LocalsGone
<1>7. ASSUME NEW l \in Loaders, NEW n \in Runs, AddPartition(l, n) \/ SubmitMerge(l, n)
      PROVE LocalsGone'
  BY <1>0, <1>7 DEF TypeOK, AddPartition, SubmitMerge, Goto, LocalsGone
<1>8. ASSUME NEW s \in statements, MergeCommits(s) PROVE LocalsGone'
  BY <1>0, <1>8 DEF TypeOK, MergeCommits, LocalsGone
<1> QED
  <2>1. ASSUME NEW l \in Loaders, Load(l) PROVE LocalsGone'
    BY <2>1, <1>1, <1>3, <1>4, <1>5, <1>6, <1>7
       DEF Load, RefuseDrifted, RefuseNoColumns, ReportSuccess
  <2>2. ASSUME NEW s \in statements, MergeConflicts(s) PROVE LocalsGone'
    BY <2>2, <1>1, <1>2 DEF MergeConflicts, TypeOK, Merges
  <2>3. ASSUME NEW l \in Loaders, Fail(l) PROVE LocalsGone'
    BY <2>3, <1>1 DEF Fail
  <2>4. CASE (\E n \in Runs, keys \in SUBSET Keys : CommitRun(n, keys))
             \/ (\E n \in Runs : DeleteDrifted(n) \/ SweepEmpty(n)) \/ DropTable
    BY <2>4, <1>2 DEF CommitRun, DeleteDrifted, SweepEmpty, DropTable
  <2>5. CASE UNCHANGED vars
    BY <2>5, <1>2 DEF vars
  <2> QED
    BY <2>1, <2>2, <2>3, <2>4, <2>5, <1>8 DEF Next, Athena

LEMMA TypeStep == TypeOK /\ [Next]_vars => TypeOK'
<1> SUFFICES ASSUME TypeOK, [Next]_vars PROVE TypeOK'
  OBVIOUS
<1>0. LocalsGone'
  BY LocalsStep
<1> USE LoaderConstants, <1>0
<1>1. ASSUME NEW n \in Runs, NEW keys \in SUBSET Keys, CommitRun(n, keys) PROVE TypeOK'
  BY <1>1 DEF TypeOK, CommitRun, bronze, bounds, locals
<1>2. ASSUME NEW n \in Runs, DeleteDrifted(n) PROVE TypeOK'
  BY <1>2 DEF TypeOK, DeleteDrifted, bronze, bounds, locals
<1>3. ASSUME NEW n \in Runs, SweepEmpty(n) PROVE TypeOK'
  BY <1>3 DEF TypeOK, SweepEmpty, bronze, bounds, locals
<1>4. ASSUME NEW l \in Loaders, Discover(l) PROVE TypeOK'
  <2>1. pc' \in [Loaders -> Steps] /\ listed' \in [Loaders -> SUBSET Runs]
    BY <1>4 DEF TypeOK, Discover, Goto, Steps, Committed
  <2> QED
    BY <1>4, <2>1 DEF TypeOK, Discover, landing, bronze, bounds
<1>5. ASSUME NEW l \in Loaders, RefuseDrifted(l) PROVE TypeOK'
  BY <1>5, ReturnType DEF TypeOK, RefuseDrifted, landing, bronze, bounds
<1>6. ASSUME NEW l \in Loaders, RefuseNoColumns(l) PROVE TypeOK'
  BY <1>6, ReturnType DEF TypeOK, RefuseNoColumns, landing, bronze, bounds
<1>7. ASSUME NEW l \in Loaders, FindTable(l) PROVE TypeOK'
  BY <1>7 DEF TypeOK, FindTable, Goto, Steps, landing, bronze, bounds
<1>8. ASSUME NEW l \in Loaders, CreateTable(l) PROVE TypeOK'
  BY <1>8 DEF TypeOK, CreateTable, Goto, Steps, landing, bounds
<1>9. ASSUME NEW l \in Loaders, ReadProcessed(l) PROVE TypeOK'
  BY <1>9 DEF TypeOK, ReadProcessed, Goto, Steps, landing, bronze, bounds
<1>10. ASSUME NEW l \in Loaders, NEW n \in Runs, RecordEmpty(l, n) PROVE TypeOK'
  BY <1>10, MarkType DEF TypeOK, RecordEmpty, landing, bronze, bounds
<1>11. ASSUME NEW l \in Loaders, NEW n \in Runs, AddPartition(l, n) PROVE TypeOK'
  BY <1>11 DEF TypeOK, AddPartition, Goto, Steps, landing, bronze, bounds
<1>12. ASSUME NEW l \in Loaders, NEW n \in Runs, SubmitMerge(l, n) PROVE TypeOK'
  <2>1. (IF n \in partitions THEN rows[n] ELSE {}) \in SUBSET Keys
    BY DEF TypeOK
  <2>2. [owner |-> l, rows |-> IF n \in partitions THEN rows[n] ELSE {}, stale |-> FALSE] \in Merges
    BY <2>1 DEF Merges
  <2>3. statements' \subseteq Merges
    BY <1>12, <2>2 DEF TypeOK, SubmitMerge
  <2> QED
    BY <1>12, <2>3 DEF TypeOK, SubmitMerge, Goto, Steps, landing, bronze, bounds
<1>13. ASSUME NEW l \in Loaders, NEW n \in Runs, RecordMerged(l, n) PROVE TypeOK'
  BY <1>13, MarkType DEF TypeOK, RecordMerged, Goto, Steps, landing, bronze, bounds
<1>14. ASSUME NEW l \in Loaders, ReportSuccess(l) PROVE TypeOK'
  BY <1>14, ReturnType DEF TypeOK, ReportSuccess, landing, bronze, bounds
<1>15. ASSUME NEW s \in statements, MergeCommits(s) PROVE TypeOK'
  <2>1. statements' \subseteq Merges
    BY <1>15, StaleType DEF TypeOK, MergeCommits
  <2>2. copies' \in [Keys -> Nat]
    BY <1>15 DEF TypeOK, MergeCommits
  <2>3. pc' \in [Loaders -> Steps]
    BY <1>15 DEF TypeOK, MergeCommits, Steps
  <2> QED
    BY <1>15, <2>1, <2>2, <2>3 DEF TypeOK, MergeCommits, landing, bounds
<1>16. ASSUME NEW s \in statements, MergeConflicts(s) PROVE TypeOK'
  <2>1. s.owner \in Loaders \cup {Nobody}
    BY DEF TypeOK, Merges
  <2>2. CASE s.owner = Nobody
    BY <1>16, <2>2 DEF TypeOK, MergeConflicts, landing, bronze, bounds, locals
  <2>3. CASE s.owner \in Loaders
    BY <1>16, <2>3, ReturnType DEF TypeOK, MergeConflicts, landing, bronze, bounds
  <2> QED
    BY <2>1, <2>2, <2>3
<1>17. ASSUME NEW l \in Loaders, Fail(l) PROVE TypeOK'
  <2>1. Orphaned(l) \subseteq Merges /\ Cancelled(l) \subseteq Merges
    BY DEF TypeOK, Orphaned, Cancelled, Merges
  <2> QED
    BY <1>17, <2>1, ReturnType DEF TypeOK, Fail, landing, bronze
<1>18. CASE DropTable
  <2>1. statements' \subseteq Merges
    BY <1>18, StaleType DEF TypeOK, DropTable
  <2>2. exists' \in BOOLEAN
    BY <1>18 DEF DropTable
  <2>5. drops' \in Nat
    BY <1>18 DEF TypeOK, DropTable
  <2>4. copies' \in [Keys -> Nat]
    BY <1>18 DEF DropTable
  <2>3. UNCHANGED <<manifest, rows, processed, partitions, failures, pc, listed, created, todo>>
    BY <1>18 DEF DropTable, landing, locals
  <2> QED
    BY <2>1, <2>2, <2>3, <2>4, <2>5 DEF TypeOK
<1>19. CASE UNCHANGED vars
  BY <1>19 DEF TypeOK, vars, landing, bronze, bounds, locals
<1> QED
  BY <1>1, <1>2, <1>3, <1>4, <1>5, <1>6, <1>7, <1>8, <1>9, <1>10, <1>11, <1>12, <1>13,
     <1>14, <1>15, <1>16, <1>17, <1>18, <1>19
     DEF Next, Load, Athena

(* Every state of the loader, its statements and its tables is well typed.  *)
THEOREM TypeCorrect == Spec => []TypeOK
<1>1. TypeOK /\ [Next]_vars => TypeOK'
  BY TypeStep
<1> QED
  BY <1>1, TypeInit, PTL DEF Spec

-------------------------------------------------------------------------------
(* Only a committing MERGE and a drop touch the rows of the table. *)
LEMMA CopiesStep ==
    ASSUME TypeOK, [Next]_vars
    PROVE  \/ copies' = copies
           \/ \E s \in statements : MergeCommits(s)
           \/ DropTable
  BY DEF Next, Load, Athena, vars, bronze, CommitRun, DeleteDrifted, SweepEmpty, Discover,
         RefuseDrifted, RefuseNoColumns, FindTable, CreateTable, ReadProcessed, RecordEmpty,
         AddPartition, SubmitMerge, RecordMerged, ReportSuccess, MergeConflicts, Fail

(* merge_sql(): no key is ever in Bronze twice, whatever overlaps or dies.  *)
THEOREM NoDuplicatesAlways == Spec => []NoDuplicates
<1>1. Init => NoDuplicates
  BY DEF Init, NoDuplicates
<1>2. TypeOK /\ NoDuplicates /\ [Next]_vars => NoDuplicates'
  <2> SUFFICES ASSUME TypeOK, NoDuplicates, [Next]_vars PROVE NoDuplicates'
    OBVIOUS
  <2>1. CASE copies' = copies
    BY <2>1 DEF NoDuplicates
  <2>2. ASSUME NEW s \in statements, MergeCommits(s) PROVE NoDuplicates'
    BY <2>2 DEF MergeCommits, Inserted, Content, NoDuplicates, TypeOK
  <2>3. CASE DropTable
    BY <2>3 DEF DropTable, NoDuplicates
  <2> QED
    BY <2>1, <2>2, <2>3, CopiesStep
<1> QED
  BY <1>1, <1>2, TypeCorrect, PTL DEF Spec
-------------------------------------------------------------------------------
(* The inductive invariant.  An action of a pass or of landing leaves what  *)
(* the other passes rely on alone.                                          *)
LEMMA ReturnKeeps ==
    ASSUME IInv, NEW l \in Loaders, Return(l), UNCHANGED <<landing, copies>>,
           partitions \subseteq partitions',
           \A s \in statements' :
               /\ s.owner # l
               /\ \/ s \in statements
                  \/ s.owner = Nobody /\ \E t \in statements : t.rows = s.rows
    PROVE  RowsFixed' /\ \A x \in Loaders : (PartitionReady(x) /\ OwnStatement(x) /\ CurrentMerged(x))'
<1>1. RowsFixed'
  BY DEF IInv, RowsFixed, Return, landing, Written, TypeOK
<1>2. ASSUME NEW x \in Loaders PROVE (PartitionReady(x) /\ OwnStatement(x) /\ CurrentMerged(x))'
  <2>1. CASE x = l
    BY <2>1 DEF IInv, Return, Goto, TypeOK, PartitionReady, OwnStatement, CurrentMerged
  <2>2. CASE x # l
    <3>1. pc'[x] = pc[x] /\ todo'[x] = todo[x]
      BY <2>2 DEF IInv, TypeOK, Return, Goto
    <3>2. \A n \in Runs : IsCurrent(x, n)' <=> IsCurrent(x, n)
      BY <3>1 DEF IsCurrent
    <3> QED
      BY <3>1, <3>2, <2>2, LoaderConstants DEF IInv, landing, PartitionReady, OwnStatement, CurrentMerged, Content
  <2> QED
    BY <2>1, <2>2
<1> QED
  BY <1>1, <1>2

(* The same for a step of pass l that leaves its current run in place or    *)
(* moves on: what is left to prove is l's own part.                         *)
LEMMA OthersKeep ==
    ASSUME IInv, NEW l \in Loaders,
           UNCHANGED <<rows, copies>>, partitions \subseteq partitions',
           \A x \in Loaders \ {l} : pc'[x] = pc[x] /\ todo'[x] = todo[x],
           \A s \in statements' : s \in statements \/ s.owner = l
    PROVE  \A x \in Loaders \ {l} : (PartitionReady(x) /\ OwnStatement(x) /\ CurrentMerged(x))'
<1> SUFFICES ASSUME NEW x \in Loaders \ {l}
             PROVE  (PartitionReady(x) /\ OwnStatement(x) /\ CurrentMerged(x))'
  OBVIOUS
<1>1. \A n \in Runs : IsCurrent(x, n)' <=> IsCurrent(x, n)
  BY DEF IsCurrent
<1> QED
  BY <1>1 DEF IInv, PartitionReady, OwnStatement, CurrentMerged, Content

(* A pass that is not waiting has no statement of its own. *)
LEMMA NoStatement ==
    ASSUME IInv, NEW l \in Loaders, pc[l] # "await"
    PROVE  \A s \in statements : s.owner # l
  BY DEF IInv, OwnStatement

(* The loop has one current run. *)
LEMMA CurrentUnique ==
    ASSUME NEW l \in Loaders, NEW m \in Runs, NEW n \in Runs, IsCurrent(l, m), IsCurrent(l, n)
    PROVE  m = n
  BY LoaderConstants DEF IsCurrent

(* A step that leaves the passes, the statements and the tables alone.      *)
LEMMA FrameKeeps ==
    ASSUME IInv, UNCHANGED <<rows, copies, partitions, statements, pc, listed, todo>>,
           \A n \in Runs : Written(n)' <=> Written(n)
    PROVE  RowsFixed' /\ \A x \in Loaders : (PartitionReady(x) /\ OwnStatement(x) /\ CurrentMerged(x))'
<1>1. RowsFixed'
  BY DEF IInv, TypeOK, RowsFixed
<1>2. ASSUME NEW x \in Loaders PROVE (PartitionReady(x) /\ OwnStatement(x) /\ CurrentMerged(x))'
  BY DEF IInv, IsCurrent, PartitionReady, OwnStatement, CurrentMerged, Content
<1> QED
  BY <1>1, <1>2

LEMMA InvInit == Init => IInv
<1> SUFFICES ASSUME Init PROVE IInv
  OBVIOUS
<1>1. TypeOK
  BY TypeInit
<1>2. RowsFixed
  BY DEF Init, RowsFixed
<1>3. \A l \in Loaders : PartitionReady(l) /\ OwnStatement(l) /\ CurrentMerged(l)
  BY DEF Init, PartitionReady, OwnStatement, CurrentMerged
<1> QED
  BY <1>1, <1>2, <1>3 DEF IInv

LEMMA InvStep == IInv /\ [Next]_vars => IInv'
<1> SUFFICES ASSUME IInv, [Next]_vars PROVE IInv'
  OBVIOUS
<1> DEFINE Kept == RowsFixed /\ \A x \in Loaders : PartitionReady(x) /\ OwnStatement(x) /\ CurrentMerged(x)
<1> TypeOK /\ TypeOK'
  BY TypeStep DEF IInv
<1> USE LoaderConstants
<1>1. ASSUME NEW n \in Runs, NEW keys \in SUBSET Keys, CommitRun(n, keys) PROVE Kept'
  <2>1. \A m \in Runs : Written(m) => Written(m)' /\ rows'[m] = rows[m]
    BY <1>1 DEF TypeOK, CommitRun, Written
  <2>2. Written(n)' /\ \A m \in Runs \ {n} : rows'[m] = rows[m] /\ (Written(m)' <=> Written(m))
    BY <1>1 DEF TypeOK, CommitRun, Written
  <2>3. UNCHANGED <<copies, partitions, statements, pc, listed, todo>>
    BY <1>1 DEF CommitRun, bronze, locals
  <2>4. RowsFixed'
    BY <2>1, <2>2, <2>3 DEF IInv, RowsFixed, TypeOK
  <2>5. ASSUME NEW x \in Loaders PROVE (PartitionReady(x) /\ OwnStatement(x) /\ CurrentMerged(x))'
    <3>1. \A m \in Runs : (IsCurrent(x, m)' <=> IsCurrent(x, m)) /\ (IsCurrent(x, m) => rows'[m] = rows[m])
      BY <2>1, <2>3 DEF IInv, RowsFixed, IsCurrent
    <3> QED
      BY <2>3, <3>1 DEF IInv, PartitionReady, OwnStatement, CurrentMerged, Content
  <2> QED
    BY <2>4, <2>5
<1>2. ASSUME NEW n \in Runs, DeleteDrifted(n) \/ SweepEmpty(n) PROVE Kept'
  <2>1. \A m \in Runs : Written(m)' <=> Written(m)
    BY <1>2 DEF TypeOK, DeleteDrifted, SweepEmpty, Written
  <2>2. UNCHANGED <<rows, copies, partitions, statements, pc, listed, todo>>
    BY <1>2 DEF DeleteDrifted, SweepEmpty, bronze, locals
  <2> QED
    BY <2>1, <2>2, FrameKeeps
<1>3. ASSUME NEW l \in Loaders,
             RefuseDrifted(l) \/ RefuseNoColumns(l) \/ ReportSuccess(l)
      PROVE  Kept'
  <2>1. pc[l] # "await" /\ Return(l) /\ UNCHANGED <<landing, copies, partitions, statements>>
    BY <1>3 DEF RefuseDrifted, RefuseNoColumns, ReportSuccess, Succeeds, bronze
  <2> QED
    BY <2>1, NoStatement, ReturnKeeps
<1>4. ASSUME NEW l \in Loaders, Discover(l) PROVE Kept'
  <2>1. RowsFixed'
    BY <1>4 DEF IInv, TypeOK, RowsFixed, Discover, Committed, Written, landing
  <2>2. /\ UNCHANGED <<rows, copies, partitions, statements, todo>>
        /\ pc[l] = "idle" /\ pc'[l] \in {"columns", "refuse"}
        /\ \A x \in Loaders \ {l} : pc'[x] = pc[x]
    BY <1>4 DEF TypeOK, Discover, Goto, landing, bronze
  <2>3. (PartitionReady(l) /\ OwnStatement(l) /\ CurrentMerged(l))'
    BY <2>2, NoStatement DEF PartitionReady, OwnStatement, CurrentMerged
  <2> QED
    BY <2>1, <2>2, <2>3, OthersKeep
<1>5. ASSUME NEW l \in Loaders, FindTable(l) \/ CreateTable(l) PROVE Kept'
  <2>1. /\ UNCHANGED <<manifest, rows, copies, partitions, statements, listed, todo>>
        /\ pc[l] # "await" /\ pc'[l] \in {"create", "bookkeeping"}
        /\ \A x \in Loaders \ {l} : pc'[x] = pc[x]
    BY <1>5 DEF TypeOK, FindTable, CreateTable, Goto, landing, bronze
  <2>2. RowsFixed'
    BY <2>1 DEF IInv, RowsFixed, Written
  <2>3. (PartitionReady(l) /\ OwnStatement(l) /\ CurrentMerged(l))'
    BY <2>1, NoStatement DEF PartitionReady, OwnStatement, CurrentMerged
  <2> QED
    BY <2>1, <2>2, <2>3, OthersKeep
<1>6. ASSUME NEW l \in Loaders, ReadProcessed(l) PROVE Kept'
  <2>1. /\ UNCHANGED <<manifest, rows, copies, partitions, statements, listed>>
        /\ pc[l] = "bookkeeping" /\ pc'[l] = "loop" /\ todo'[l] \subseteq listed[l]
        /\ \A x \in Loaders \ {l} : pc'[x] = pc[x] /\ todo'[x] = todo[x]
    BY <1>6 DEF TypeOK, ReadProcessed, Goto, landing, bronze
  <2>2. RowsFixed'
    BY <2>1 DEF IInv, RowsFixed, Written
  <2>3. (PartitionReady(l) /\ OwnStatement(l) /\ CurrentMerged(l))'
    BY <2>1, NoStatement DEF PartitionReady, OwnStatement, CurrentMerged
  <2> QED
    BY <2>1, <2>2, <2>3, OthersKeep
<1>7. ASSUME NEW l \in Loaders, NEW n \in Runs, RecordEmpty(l, n) \/ RecordMerged(l, n) PROVE Kept'
  <2>1. /\ UNCHANGED <<manifest, rows, copies, partitions, statements, listed>>
        /\ pc[l] \in {"loop", "mark"} /\ pc'[l] = "loop" /\ todo'[l] \subseteq todo[l]
        /\ \A x \in Loaders \ {l} : pc'[x] = pc[x] /\ todo'[x] = todo[x]
    BY <1>7 DEF TypeOK, RecordEmpty, RecordMerged, MergeSucceeded, MarkProcessed, Goto, landing, bronze
  <2>2. RowsFixed'
    BY <2>1 DEF IInv, RowsFixed, Written
  <2>3. (PartitionReady(l) /\ OwnStatement(l) /\ CurrentMerged(l))'
    BY <2>1, NoStatement DEF PartitionReady, OwnStatement, CurrentMerged
  <2> QED
    BY <2>1, <2>2, <2>3, OthersKeep
<1>8. ASSUME NEW l \in Loaders, NEW n \in Runs, AddPartition(l, n) PROVE Kept'
  <2>1. /\ UNCHANGED <<manifest, rows, copies, statements, listed, todo>>
        /\ partitions' = partitions \cup {n}
        /\ pc[l] = "loop" /\ pc'[l] = "submit" /\ IsCurrent(l, n)
        /\ \A x \in Loaders \ {l} : pc'[x] = pc[x]
    BY <1>8 DEF TypeOK, AddPartition, Goto, landing, bronze
  <2>2. \A m \in Runs : IsCurrent(l, m)' => m = n
    BY <2>1, CurrentUnique DEF IsCurrent
  <2>3. RowsFixed'
    BY <2>1 DEF IInv, RowsFixed, Written
  <2>4. (PartitionReady(l) /\ OwnStatement(l) /\ CurrentMerged(l))'
    BY <2>1, <2>2, NoStatement DEF PartitionReady, OwnStatement, CurrentMerged
  <2> QED
    BY <2>1, <2>3, <2>4, OthersKeep
<1>9. ASSUME NEW l \in Loaders, NEW n \in Runs, SubmitMerge(l, n) PROVE Kept'
  <2> DEFINE merge == [owner |-> l, rows |-> IF n \in partitions THEN rows[n] ELSE {}, stale |-> FALSE]
  <2>1. /\ UNCHANGED <<manifest, rows, copies, partitions, listed, todo>>
        /\ statements' = statements \cup {merge}
        /\ pc[l] = "submit" /\ pc'[l] = "await" /\ IsCurrent(l, n)
        /\ \A x \in Loaders \ {l} : pc'[x] = pc[x]
    BY <1>9 DEF TypeOK, SubmitMerge, PartitionAdded, Goto, landing, bronze
  <2>2. merge.rows = rows[n] /\ merge.owner = l /\ Written(n)
    BY <2>1 DEF IInv, PartitionReady, RowsFixed, IsCurrent
  <2>3. \A m \in Runs : IsCurrent(l, m)' => m = n
    BY <2>1, CurrentUnique DEF IsCurrent
  <2>4. RowsFixed'
    <3>1. \A s \in statements' : \E m \in Runs : Written(m)' /\ s.rows = rows'[m]
      BY <2>1, <2>2 DEF IInv, RowsFixed, Written
    <3> QED
      BY <2>1, <3>1 DEF IInv, RowsFixed, Written
  <2>5. OwnStatement(l)'
    <3>1. \A s \in statements : s.owner # l
      BY <2>1, NoStatement
    <3> QED
      BY <2>1, <2>2, <2>3, <3>1 DEF OwnStatement
  <2>6. PartitionReady(l)' /\ CurrentMerged(l)'
    BY <2>1 DEF PartitionReady, CurrentMerged
  <2>7. \A s \in statements' : s \in statements \/ s.owner = l
    BY <2>1, <2>2
  <2> QED
    BY <2>1, <2>4, <2>5, <2>6, <2>7, OthersKeep
<1>10. ASSUME NEW s \in statements, MergeCommits(s) PROVE Kept'
  <2>1. /\ UNCHANGED <<manifest, rows, partitions, listed, todo>>
        /\ \A x \in Loaders : pc'[x] = IF x = s.owner THEN "mark" ELSE pc[x]
    BY <1>10 DEF MergeCommits, landing
  <2>2. Content' = Content \cup s.rows
    BY <1>10 DEF MergeCommits, Inserted, Content, TypeOK, Merges
  <2>3. /\ \A t \in statements' : \E u \in statements \ {s} : t.owner = u.owner /\ t.rows = u.rows
        /\ \A t, u \in statements' : t.owner = u.owner /\ t # u =>
               \E v, w \in statements \ {s} : v.owner = t.owner /\ w.owner = t.owner /\ v # w
    <3>1. CASE statements' = statements \ {s}
      BY <3>1
    <3>2. CASE statements' = Stale(statements \ {s})
      <4>1. \A t \in statements' : \E u \in statements \ {s} :
                t = [u EXCEPT !.stale = TRUE] /\ t.owner = u.owner /\ t.rows = u.rows
        <5>1. \A u \in statements \ {s} : /\ [u EXCEPT !.stale = TRUE].owner = u.owner
                                        /\ [u EXCEPT !.stale = TRUE].rows = u.rows
          <6>1. \A u \in statements \ {s} : u \in Merges
            BY DEF TypeOK
          <6> QED
            BY <6>1 DEF Merges
        <5>2. statements' = {[u EXCEPT !.stale = TRUE] : u \in statements \ {s}}
          BY <3>2 DEF Stale
        <5> QED
          BY <5>1, <5>2
      <4>2. ASSUME NEW t \in statements', NEW u \in statements', t.owner = u.owner, t # u
            PROVE  \E v, w \in statements \ {s} : v.owner = t.owner /\ w.owner = t.owner /\ v # w
        <5>1. PICK v \in statements \ {s} : t = [v EXCEPT !.stale = TRUE] /\ t.owner = v.owner
          BY <4>1
        <5>2. PICK w \in statements \ {s} : u = [w EXCEPT !.stale = TRUE] /\ u.owner = w.owner
          BY <4>1
        <5> QED
          BY <5>1, <5>2, <4>2
      <4> QED
        BY <4>1, <4>2
    <3> QED
      BY <1>10, <3>1, <3>2 DEF MergeCommits
  <2>4. RowsFixed'
    <3>1. \A t \in statements' : \E m \in Runs : Written(m)' /\ t.rows = rows'[m]
      BY <2>1, <2>3 DEF IInv, RowsFixed, Written
    <3> QED
      BY <2>1, <3>1 DEF IInv, RowsFixed, Written
  <2>5. ASSUME NEW x \in Loaders PROVE (PartitionReady(x) /\ OwnStatement(x) /\ CurrentMerged(x))'
    <3>1. \A n \in Runs : IsCurrent(x, n)' <=> IsCurrent(x, n)
      BY <2>1 DEF IsCurrent
    <3>2. CASE x # s.owner
      BY <2>1, <2>2, <2>3, <3>1, <3>2 DEF IInv, PartitionReady, OwnStatement, CurrentMerged
    <3>3. CASE x = s.owner
      <4>1. CurrentMerged(x)' /\ PartitionReady(x)'
        BY <2>1, <2>2, <3>1, <3>3 DEF IInv, OwnStatement, PartitionReady, CurrentMerged
      <4>2. \A t \in statements' : t.owner # x
        BY <2>3, <3>3 DEF IInv, OwnStatement
      <4>3. OwnStatement(x)'
        BY <4>2 DEF OwnStatement
      <4> QED
        BY <4>1, <4>3
    <3> QED
      BY <3>2, <3>3
  <2> QED
    BY <2>4, <2>5
<1>11. ASSUME NEW s \in statements, MergeConflicts(s) PROVE Kept'
  <2>1. UNCHANGED <<landing, copies, partitions>> /\ statements' = statements \ {s}
    BY <1>11 DEF MergeConflicts, bronze
  <2>2. CASE s.owner = Nobody
    <3>1. UNCHANGED <<pc, listed, todo>>
      BY <1>11, <2>2 DEF MergeConflicts, locals
    <3> QED
      BY <2>1, <3>1 DEF IInv, RowsFixed, Written, landing, IsCurrent, PartitionReady, OwnStatement, CurrentMerged, Content
  <2>3. CASE s.owner # Nobody
    <3>1. s.owner \in Loaders /\ Return(s.owner)
      BY <1>11, <2>3 DEF MergeConflicts, TypeOK, Merges
    <3>2. \A t \in statements' : t.owner # s.owner /\ t \in statements
      BY <2>1, <3>1 DEF IInv, OwnStatement
    <3> QED
      BY <2>1, <3>1, <3>2, ReturnKeeps
  <2> QED
    BY <2>2, <2>3
<1>12. ASSUME NEW l \in Loaders, Fail(l) PROVE Kept'
  <2>1. UNCHANGED <<landing, copies, partitions>> /\ Return(l) /\ statements' \in {Orphaned(l), Cancelled(l)}
    BY <1>12 DEF Fail, bronze
  <2>2. ASSUME NEW s \in statements'
        PROVE  s.owner # l /\ (s \in statements \/ (s.owner = Nobody /\ \E t \in statements : t.rows = s.rows))
    <3>1. CASE statements' = Cancelled(l)
      BY <3>1 DEF Cancelled
    <3>2. CASE statements' = Orphaned(l)
      <4>1. PICK t \in statements : s = [t EXCEPT !.owner = IF @ = l THEN Nobody ELSE @]
        BY <3>2 DEF Orphaned
      <4>2. t \in Merges
        BY DEF TypeOK
      <4>3. CASE t.owner = l
        BY <4>1, <4>2, <4>3 DEF Merges
      <4>4. CASE t.owner # l
        BY <4>1, <4>2, <4>4 DEF Merges
      <4> QED
        BY <4>3, <4>4
    <3> QED
      BY <2>1, <3>1, <3>2
  <2> QED
    BY <2>1, <2>2, ReturnKeeps
<1>13. ASSUME DropTable PROVE Kept'
  <2>1. UNCHANGED <<manifest, rows, partitions, pc, listed, todo>> /\ statements' = Stale(statements)
    BY <1>13 DEF DropTable, landing, locals
  <2>2. \A x \in Loaders : pc[x] = "idle"
    BY <1>13 DEF DropTable
  <2>3. \A t \in statements' : \E u \in statements : t.owner = u.owner /\ t.rows = u.rows
    BY <2>1 DEF Stale, TypeOK, Merges
  <2>4. \A t \in statements', x \in Loaders : t.owner # x
    BY <2>2, <2>3, NoStatement
  <2>5. RowsFixed'
    <3>1. \A t \in statements' : \E m \in Runs : Written(m)' /\ t.rows = rows'[m]
      BY <2>1, <2>3 DEF IInv, RowsFixed, Written
    <3> QED
      BY <2>1, <3>1 DEF IInv, RowsFixed, Written
  <2>6. ASSUME NEW x \in Loaders PROVE (PartitionReady(x) /\ OwnStatement(x) /\ CurrentMerged(x))'
    <3>1. pc'[x] = "idle"
      BY <2>1, <2>2
    <3> QED
      BY <3>1, <2>4 DEF PartitionReady, OwnStatement, CurrentMerged
  <2> QED
    BY <2>5, <2>6
<1>14. ASSUME UNCHANGED vars PROVE Kept'
  <2>1. UNCHANGED <<manifest, rows, copies, partitions, statements, pc, listed, todo>>
    BY <1>14 DEF vars, landing, bronze, locals
  <2> QED
    BY <2>1, FrameKeeps DEF Written
<1>15. ASSUME NEW l \in Loaders, Load(l) PROVE Kept'
  BY <1>3, <1>4, <1>5, <1>6, <1>7, <1>8, <1>9, <1>15 DEF Load
<1>16. ASSUME Athena PROVE Kept'
  BY <1>10, <1>11, <1>16 DEF Athena
<1>17. Kept'
  BY <1>1, <1>2, <1>12, <1>13, <1>14, <1>15, <1>16 DEF Next
<1> QED
  BY <1>17 DEF IInv

THEOREM Invariance == Spec => []IInv
<1> QED
  BY InvInit, InvStep, PTL DEF Spec

-------------------------------------------------------------------------------
(* What is in Bronze stays there, unless the table is dropped.              *)
LEMMA BronzeGrows ==
    ASSUME IInv, [Next]_vars, ~DropTable
    PROVE  \A n \in Runs : Written(n) => Written(n)' /\ rows'[n] = rows[n] /\ (InBronze(n) => InBronze(n)')
<1>1. Content \subseteq Content'
  <2>1. CASE copies' = copies
    BY <2>1 DEF Content
  <2>2. ASSUME NEW s \in statements, MergeCommits(s) PROVE Content \subseteq Content'
    BY <2>2 DEF MergeCommits, Content, Inserted, IInv, TypeOK
  <2> QED
    BY <2>1, <2>2, CopiesStep DEF IInv
<1>2. \A n \in Runs : Written(n) => Written(n)' /\ rows'[n] = rows[n]
  <2>1. CASE UNCHANGED landing
    BY <2>1 DEF landing, Written
  <2>2. ASSUME NEW n \in Runs, NEW keys \in SUBSET Keys, CommitRun(n, keys)
        PROVE  \A m \in Runs : Written(m) => Written(m)' /\ rows'[m] = rows[m]
    BY <2>2 DEF CommitRun, Written, IInv, TypeOK
  <2>3. ASSUME NEW n \in Runs, DeleteDrifted(n) \/ SweepEmpty(n)
        PROVE  \A m \in Runs : Written(m) => Written(m)' /\ rows'[m] = rows[m]
    BY <2>3 DEF DeleteDrifted, SweepEmpty, Written, IInv, TypeOK
  <2> QED
    BY <2>1, <2>2, <2>3
       DEF Next, Load, Athena, vars, Discover, RefuseDrifted, RefuseNoColumns, FindTable, CreateTable,
           ReadProcessed, RecordEmpty, AddPartition, SubmitMerge, RecordMerged, ReportSuccess,
           MergeCommits, MergeConflicts, Fail
<1> QED
  BY <1>1, <1>2 DEF InBronze

(* The books cannot be about a table that is gone. *)
BooksKept == MaxDrops = 0 \/ ~UseBookkeeping

(* A step of pass l, on what the other passes have dealt with. *)
LEMMA OthersDealtWith ==
    ASSUME IInv, BooksInv, [Next]_vars, ~DropTable, NEW l \in Loaders,
           \A x \in Loaders \ {l} : pc'[x] = pc[x] /\ listed'[x] = listed[x] /\ todo'[x] = todo[x]
    PROVE  \A x \in Loaders \ {l} : DealtWith(x)'
  BY BronzeGrows DEF IInv, TypeOK, RowsFixed, BooksInv, DealtWith

LEMMA ReturnDealtWith ==
    ASSUME IInv, BooksInv, [Next]_vars, ~DropTable, NEW l \in Loaders, Return(l)
    PROVE  \A x \in Loaders : DealtWith(x)'
<1>1. DealtWith(l)'
  BY DEF Return, Goto, DealtWith, IInv, TypeOK
<1>2. \A x \in Loaders \ {l} : pc'[x] = pc[x] /\ listed'[x] = listed[x] /\ todo'[x] = todo[x]
  BY DEF Return, Goto, IInv, TypeOK
<1> QED
  BY <1>1, <1>2, OthersDealtWith

LEMMA BooksStep ==
    ASSUME BooksKept, IInv, BooksInv, [Next]_vars
    PROVE  BooksInv'
<1> USE LoaderConstants
<1> TypeOK /\ TypeOK'
  BY TypeStep DEF IInv
<1>1. ASSUME DropTable PROVE BooksInv'
  <2>1. ~UseBookkeeping
    BY <1>1 DEF BooksKept, DropTable, TypeOK
  <2>2. processed' = {}
    BY <1>1, <2>1 DEF DropTable, BooksInv, RecordedMerged
  <2>3. \A x \in Loaders : pc'[x] = "idle"
    BY <1>1 DEF DropTable, locals
  <2> QED
    BY <2>2, <2>3 DEF BooksInv, RecordedMerged, DealtWith
<1>2. ASSUME ~DropTable PROVE BooksInv'
  <2> USE <1>2
  <2>1. ASSUME processed' = processed PROVE RecordedMerged'
    BY <2>1, BronzeGrows DEF BooksInv, RecordedMerged, TypeOK
  <2>2. ASSUME NEW l \in Loaders, NEW n \in Runs, RecordEmpty(l, n) \/ RecordMerged(l, n)
        PROVE  BooksInv'
    <3>1. /\ processed' = IF UseBookkeeping THEN processed \cup {n} ELSE processed
          /\ IsCurrent(l, n) /\ pc[l] \in {"loop", "mark"}
          /\ listed' = listed /\ todo'[l] = todo[l] \ {n}
          /\ \A x \in Loaders \ {l} : pc'[x] = pc[x] /\ todo'[x] = todo[x]
      BY <2>2 DEF RecordEmpty, RecordMerged, MergeSucceeded, MarkProcessed, Goto, TypeOK
    <3>2. InBronze(n)
      BY <2>2, <3>1 DEF RecordEmpty, RecordMerged, MergeSucceeded, InBronze, IInv, CurrentMerged
    <3>3. Written(n)
      BY <3>1 DEF IInv, RowsFixed, IsCurrent
    <3>4. RecordedMerged'
      BY <3>1, <3>2, <3>3, BronzeGrows DEF BooksInv, RecordedMerged, TypeOK
    <3>5. DealtWith(l)'
      <4>1. \A m \in listed[l] \ todo[l] : InBronze(m)
        BY <3>1 DEF BooksInv, DealtWith
      <4>2. \A m \in listed[l] : m \in Runs /\ Written(m)
        BY DEF IInv, RowsFixed, TypeOK
      <4> QED
        BY <3>1, <3>2, <3>3, <4>1, <4>2, BronzeGrows DEF DealtWith
    <3> QED
      BY <3>1, <3>4, <3>5, OthersDealtWith DEF BooksInv
  <2>3. ASSUME NEW l \in Loaders,
               \/ RefuseDrifted(l) \/ RefuseNoColumns(l) \/ ReportSuccess(l) \/ Fail(l)
        PROVE  BooksInv'
    <3>1. Return(l) /\ processed' = processed
      BY <2>3 DEF RefuseDrifted, RefuseNoColumns, ReportSuccess, Fail
    <3> QED
      BY <2>1, <3>1, ReturnDealtWith DEF BooksInv
  <2>4. ASSUME NEW l \in Loaders, Discover(l) \/ FindTable(l) \/ CreateTable(l) PROVE BooksInv'
    <3>1. /\ processed' = processed
          /\ pc'[l] \in {"columns", "refuse", "create", "bookkeeping"}
          /\ \A x \in Loaders \ {l} : pc'[x] = pc[x] /\ listed'[x] = listed[x] /\ todo'[x] = todo[x]
      BY <2>4 DEF Discover, FindTable, CreateTable, Goto, TypeOK
    <3>2. DealtWith(l)'
      BY <3>1 DEF DealtWith
    <3> QED
      BY <2>1, <3>1, <3>2, OthersDealtWith DEF BooksInv
  <2>5. ASSUME NEW l \in Loaders, ReadProcessed(l) PROVE BooksInv'
    <3>1. /\ processed' = processed /\ listed' = listed
          /\ todo'[l] = listed[l] \ AlreadyProcessed(l)
          /\ \A x \in Loaders \ {l} : pc'[x] = pc[x] /\ todo'[x] = todo[x]
      BY <2>5 DEF ReadProcessed, Goto, TypeOK
    <3>2. \A n \in listed[l] \ todo'[l] : n \in processed
      BY <3>1 DEF AlreadyProcessed
    <3>3. DealtWith(l)'
      BY <2>1, <3>1, <3>2 DEF DealtWith, RecordedMerged
    <3> QED
      BY <2>1, <3>1, <3>3, OthersDealtWith DEF BooksInv
  <2>6. ASSUME NEW l \in Loaders, NEW n \in Runs, AddPartition(l, n) \/ SubmitMerge(l, n) PROVE BooksInv'
    <3>1. /\ processed' = processed /\ listed' = listed /\ todo' = todo
          /\ pc[l] \in {"loop", "submit"}
          /\ \A x \in Loaders \ {l} : pc'[x] = pc[x]
      BY <2>6 DEF AddPartition, SubmitMerge, PartitionAdded, Goto, TypeOK
    <3>2. DealtWith(l)'
      BY <3>1, BronzeGrows DEF BooksInv, DealtWith, IInv, RowsFixed, TypeOK
    <3> QED
      BY <2>1, <3>1, <3>2, OthersDealtWith DEF BooksInv
  <2>7. ASSUME NEW s \in statements, MergeCommits(s) PROVE BooksInv'
    <3>1. /\ processed' = processed /\ listed' = listed /\ todo' = todo
          /\ \A x \in Loaders : pc'[x] = pc[x] \/ x = s.owner
      BY <2>7 DEF MergeCommits
    <3>2. \A x \in Loaders : x = s.owner => pc[x] = "await"
      BY DEF IInv, OwnStatement
    <3>3. ASSUME NEW x \in Loaders PROVE DealtWith(x)'
      BY <3>1, <3>2, BronzeGrows DEF BooksInv, DealtWith, IInv, RowsFixed, TypeOK
    <3> QED
      BY <2>1, <3>1, <3>3 DEF BooksInv
  <2>8. ASSUME NEW s \in statements, MergeConflicts(s) PROVE BooksInv'
    <3>1. processed' = processed
      BY <2>8 DEF MergeConflicts
    <3>2. CASE s.owner = Nobody
      <4>1. UNCHANGED <<pc, listed, todo>>
        BY <2>8, <3>2 DEF MergeConflicts, locals
      <4>2. ASSUME NEW x \in Loaders PROVE DealtWith(x)'
        BY <4>1, BronzeGrows DEF BooksInv, DealtWith, IInv, RowsFixed, TypeOK
      <4> QED
        BY <2>1, <3>1, <4>2 DEF BooksInv
    <3>3. CASE s.owner \in Loaders
      BY <2>1, <2>8, <3>1, <3>3, ReturnDealtWith DEF MergeConflicts, BooksInv
    <3> QED
      BY <3>2, <3>3 DEF TypeOK, Merges
  <2>9. ASSUME UNCHANGED <<processed, pc, listed, todo>> PROVE BooksInv'
    <3>1. ASSUME NEW x \in Loaders PROVE DealtWith(x)'
      BY <2>9, BronzeGrows DEF BooksInv, DealtWith, IInv, RowsFixed, TypeOK
    <3> QED
      BY <2>1, <2>9, <3>1 DEF BooksInv
  <2>10. ASSUME NEW n \in Runs,
                \/ \E keys \in SUBSET Keys : CommitRun(n, keys)
                \/ DeleteDrifted(n) \/ SweepEmpty(n)
         PROVE  BooksInv'
    BY <2>9, <2>10 DEF CommitRun, DeleteDrifted, SweepEmpty, locals
  <2>11. ASSUME UNCHANGED vars PROVE BooksInv'
    BY <2>9, <2>11 DEF vars, locals
  <2>12. ASSUME NEW l \in Loaders, Load(l) PROVE BooksInv'
    BY <2>2, <2>3, <2>4, <2>5, <2>6, <2>12 DEF Load
  <2>13. ASSUME Athena PROVE BooksInv'
    BY <2>7, <2>8, <2>13 DEF Athena
  <2> QED
    BY <2>3, <2>10, <2>11, <2>12, <2>13 DEF Next
<1> QED
  BY <1>1, <1>2

(* A pass that reports SUCCESS has every listed run in Bronze, as long as   *)
(* no table is dropped under its bookkeeping.                               *)
THEOREM SuccessIsCompleteAlways ==
    ASSUME BooksKept
    PROVE  Spec => []SuccessIsComplete
<1>1. Init => BooksInv
  BY DEF Init, BooksInv, RecordedMerged, DealtWith
<1>2. IInv /\ BooksInv /\ [Next]_vars => BooksInv'
  BY BooksStep
<1>3. BooksInv => SuccessIsComplete
  BY DEF BooksInv, DealtWith, InBronze, Succeeds, SuccessIsComplete
<1> QED
  BY <1>1, <1>2, <1>3, Invariance, PTL DEF Spec

-------------------------------------------------------------------------------
(* The loader changes Bronze by whole committed runs, and records a run     *)
(* only while its rows are there: it implements BronzeTable.                *)
THEOREM Implementation == Spec => ImplementsBronzeTable
<1>1. Init => Promise!Init
  BY DEF Init, Promise!Init, Content
<1>2. IInv /\ [Next]_vars => [Promise!Next]_Promise!vars
  <2> SUFFICES ASSUME IInv, [Next]_vars PROVE [Promise!Next]_Promise!vars
    OBVIOUS
  <2> USE DEF Promise!Next, Promise!vars
  <2>1. ASSUME UNCHANGED <<rows, copies, processed>> PROVE UNCHANGED Promise!vars
    BY <2>1 DEF Content
  <2>2. ASSUME NEW n \in Runs, NEW keys \in SUBSET Keys, CommitRun(n, keys) PROVE Promise!Next
    <3>1. Promise!CommitRun(n, keys)
      BY <2>2 DEF CommitRun, Promise!CommitRun, bronze, Content, IInv, RowsFixed, Written
    <3> QED
      BY <3>1
  <2>3. ASSUME NEW s \in statements, MergeCommits(s) PROVE Promise!Next
    <3>1. PICK n \in Runs : s.rows = rows[n]
      BY DEF IInv, RowsFixed
    <3>2. Content' = Content \cup s.rows
      BY <2>3 DEF MergeCommits, Inserted, Content, IInv, TypeOK, Merges
    <3>3. Promise!Merge(n)
      BY <2>3, <3>1, <3>2 DEF MergeCommits, Promise!Merge, landing
    <3> QED
      BY <3>3
  <2>4. ASSUME NEW l \in Loaders, NEW n \in Runs, RecordEmpty(l, n) \/ RecordMerged(l, n)
        PROVE  [Promise!Next]_Promise!vars
    <3>1. UNCHANGED <<rows, copies>> /\ rows[n] \subseteq Content
      BY <2>4 DEF RecordEmpty, RecordMerged, MergeSucceeded, IInv, CurrentMerged, landing, bronze
    <3>2. processed' = processed \/ processed' = processed \cup {n}
      BY <2>4 DEF RecordEmpty, RecordMerged, MarkProcessed
    <3>3. CASE processed' = processed
      BY <2>1, <3>1, <3>3
    <3>4. CASE processed' = processed \cup {n}
      <4>1. Promise!Record(n)
        BY <3>1, <3>4 DEF Promise!Record, Content
      <4> QED
        BY <4>1
    <3> QED
      BY <3>2, <3>3, <3>4
  <2>5. ASSUME DropTable PROVE Promise!Drop
    BY <2>5 DEF DropTable, Promise!Drop, Content, landing
  <2>6. \/ UNCHANGED <<rows, copies, processed>>
        \/ \E n \in Runs, keys \in SUBSET Keys : CommitRun(n, keys)
        \/ \E s \in statements : MergeCommits(s)
        \/ \E l \in Loaders, n \in Runs : RecordEmpty(l, n) \/ RecordMerged(l, n)
        \/ DropTable
    BY DEF Next, Load, Athena, vars, landing, bronze, DeleteDrifted, SweepEmpty, Discover, RefuseDrifted,
           RefuseNoColumns, FindTable, CreateTable, ReadProcessed, AddPartition, SubmitMerge,
           ReportSuccess, MergeConflicts, Fail
  <2> QED
    BY <2>1, <2>2, <2>3, <2>4, <2>5, <2>6
<1> QED
  BY <1>1, <1>2, Invariance, PTL DEF Spec, ImplementsBronzeTable, Promise!Spec
===============================================================================
