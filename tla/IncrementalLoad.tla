--------------------------- MODULE IncrementalLoad ---------------------------
(***************************************************************************)
(* What an incremental load of one table promises, with nothing about how  *)
(* it is done: a mutable source, a set of row versions that have been      *)
(* delivered to landing, and one checkpoint.  The checkpoint may advance   *)
(* to c only when every row the source holds at or below c, less the       *)
(* lookback, has been delivered.                                           *)
(*                                                                         *)
(* LandingPipeline and S3JsonLanding implement this specification.         *)
(***************************************************************************)
EXTENDS Integers

CONSTANTS
    Rows,       \* identities (primary keys) of the source's rows
    MaxWm,      \* bound on watermark values
    Lookback,   \* lookback_minutes, in units of the watermark
    None        \* no checkpoint committed yet

VARIABLES
    wm,         \* wm[r] is row r's watermark, 0 while r is not in the source
    delivered,  \* row versions <<r, w>> a downstream reader can see
    checkpoint  \* the committed high watermark, or None

vars == <<wm, delivered, checkpoint>>

Versions == Rows \X (1..MaxWm)

(* Rows the checkpoint c answers for: the next window starts above them. *)
Below(c) == {r \in Rows : wm[r] # 0 /\ wm[r] <= c - Lookback}

Init ==
    /\ wm = [r \in Rows |-> 0]
    /\ delivered = {}
    /\ checkpoint \in (1..MaxWm) \cup {None}

(* The source may write behind the checkpoint by less than the lookback. *)
InsertRow(r, w) ==
    /\ wm[r] = 0
    /\ checkpoint # None => w > checkpoint - Lookback
    /\ wm' = [wm EXCEPT ![r] = w]
    /\ UNCHANGED <<delivered, checkpoint>>

DeleteRow(r) ==
    /\ wm[r] # 0
    /\ wm' = [wm EXCEPT ![r] = 0]
    /\ UNCHANGED <<delivered, checkpoint>>

Deliver ==
    /\ delivered' \in SUBSET Versions
    /\ delivered \subseteq delivered'
    /\ UNCHANGED <<wm, checkpoint>>

Advance(c) ==
    /\ checkpoint # None => checkpoint <= c
    /\ \A r \in Below(c) : <<r, wm[r]>> \in delivered
    /\ checkpoint' = c
    /\ UNCHANGED <<wm, delivered>>

Next ==
    \/ \E r \in Rows, w \in 1..MaxWm : InsertRow(r, w)
    \/ \E r \in Rows : DeleteRow(r)
    \/ Deliver
    \/ \E c \in 1..MaxWm : Advance(c)

Spec == Init /\ [][Next]_vars
=============================================================================
