-------------------------- MODULE MCIngestionJobs --------------------------
(* TLC instance of IngestionJobs: two tables, an ordinary configuration and *)
(* the edits of it that change what the jobs do.                            *)
EXTENDS IngestionJobs

CONSTANTS Orders, Stores

TwoTables == {Orders, Stores}

Ordinary ==
    [wellFormed |-> TRUE, tables |-> <<Orders, Stores>>, type |-> "expected",
     fetchSize |-> "unset", failFast |-> "unset", bronze |-> "source_key"]

Edits ==
    {Ordinary,
     [Ordinary EXCEPT !.bronze = "none", !.failFast = "off"],
     [Ordinary EXCEPT !.bronze = "absent", !.fetchSize = "zero"],
     [Ordinary EXCEPT !.tables = <<Orders, Orders>>]}

(* The first table cannot be read, or its files cannot be described, or it *)
(* has a window without a row, before its first row, after it or alone.     *)
Site(rows, empty) ==
    [supply |-> Orders :> rows @@ Stores :> 1, emptyRuns |-> Orders :> empty @@ Stores :> 0,
     unreadable |-> {}, unmergeable |-> {}]

FirstTableDiffers ==
    {Site(2, 0),
     Site(1, 1),
     [Site(1, 0) EXCEPT !.unreadable = {Orders}],
     [Site(1, 0) EXCEPT !.unmergeable = {Orders}]}

(* One table, named twice, to the end whatever happens. *)
Retry ==
    {[all |-> FALSE, names |-> <<Stores, Stores>>, failFast |-> "off", fetchSize |-> "some"]}
=============================================================================
