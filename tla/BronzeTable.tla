----------------------------- MODULE BronzeTable -----------------------------
(***************************************************************************)
(* What the Bronze loader promises for one table, with nothing about       *)
(* statements, passes or bookkeeping order: Bronze only ever changes by    *)
(* gaining a whole committed run, each row once, or by being dropped; and  *)
(* a run is recorded as processed only while its rows are in Bronze.       *)
(*                                                                         *)
(* BronzeLoader implements this specification.                             *)
(***************************************************************************)
CONSTANTS
    Runs,  \* landing runs of the table
    Keys   \* primary key + watermark pairs

VARIABLES
    rows,     \* keys of each run's rows, {} until its manifest is written
    content,  \* keys in the Bronze table
    recorded  \* runs recorded as processed

vars == <<rows, content, recorded>>

Init ==
    /\ rows = [n \in Runs |-> {}]
    /\ content = {}
    /\ recorded = {}

CommitRun(n, keys) ==
    /\ rows[n] = {}
    /\ rows' = [rows EXCEPT ![n] = keys]
    /\ UNCHANGED <<content, recorded>>

Merge(n) ==
    /\ content' = content \cup rows[n]
    /\ UNCHANGED <<rows, recorded>>

Record(n) ==
    /\ rows[n] \subseteq content
    /\ recorded' = recorded \cup {n}
    /\ UNCHANGED <<rows, content>>

Drop ==
    /\ content' = {}
    /\ UNCHANGED <<rows, recorded>>

Next ==
    \/ \E n \in Runs, keys \in SUBSET Keys : CommitRun(n, keys)
    \/ \E n \in Runs : Merge(n) \/ Record(n)
    \/ Drop

Spec == Init /\ [][Next]_vars
=============================================================================
