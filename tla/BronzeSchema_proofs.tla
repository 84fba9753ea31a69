------------------------- MODULE BronzeSchema_proofs --------------------------
(***************************************************************************)
(* Evolving one Bronze table is safe for every set of runs, columns, types *)
(* and overrides, wherever passes die: MERGEs find their columns, the      *)
(* catalog entry keeps its pointer, consumers see the declared types.      *)
(***************************************************************************)
EXTENDS BronzeSchema, TLAPS

-----------------------------------------------------------------------------
(* The inductive invariant. *)

(* The catalog entry names the current metadata and its columns, but for    *)
(* the overridden ones.                                                     *)
EntryInv ==
    /\ entry.pointer = snapshot
    /\ \A c \in Columns : entry.columns[c] \in Types => entry.columns[c] = iceberg[c]

(* A column of the Iceberg table was in the landing table before. *)
ExternalInv == \A c \in Columns : iceberg[c] # Absent => external[c] = iceberg[c]

(* A run once listed, recorded or submitted is not committed a second time. *)
KnownInv == \A n \in listed \cup processed \cup orphans : n \in committed \/ schema[n] # NoColumns

(* A run with nothing left to merge. *)
Settled(n) == n \in held \/ n \notin committed \/ schema[n] = NoColumns

RecordInv ==
    /\ \A n \in processed : Settled(n)
    /\ \A n \in orphans : schema[n] # NoColumns

(* An entry read under the version it still has is the entry. *)
SeenInv ==
    pc = "update" =>
        /\ seen.version <= entry.version
        /\ seen.version = entry.version => seen = entry

(* Every column of the runs listed is in the table as it was landed. *)
Declared(table) == \A n \in listed, c \in Columns : schema[n][c] # Absent => table[c] = schema[n][c]

Loop == {"read", "update", "next", "await", "mark"}

PassInv ==
    /\ pc = "idle" => listed = {}
    /\ pc # "idle" => orphans \cap committed \subseteq listed
    /\ pc \in {"metadata", "bronze"} \cup Loop => Declared(external)
    /\ pc \in {"bronze"} \cup Loop => ~cleared
    /\ pc \in Loop => Declared(iceberg) /\ \A n \in listed \ todo : Settled(n)
    /\ pc = "mark" => \A n \in Runs : IsCurrent(n) => Settled(n)
    /\ pc = "await" => \A n \in Runs : IsCurrent(n) => schema[n] # NoColumns
    /\ pc = "next" => \/ WithOverrides(entry.columns) = entry.columns
                      \/ \E n \in todo : schema[n] # NoColumns

IInv == TypeOK /\ EntryInv /\ ExternalInv /\ KnownInv /\ RecordInv /\ SeenInv /\ PassInv

-----------------------------------------------------------------------------
(* Union: every column of the runs, with the type of the newest that has it. *)
LEMMA UnionColumn ==
    ASSUME TypeOK, NEW set \in SUBSET Runs, NEW c \in Columns
    PROVE  /\ Having(set, c) = {} => Union(set)[c] = Absent
           /\ Having(set, c) # {} =>
                 \E n \in set : schema[n][c] # Absent /\ Union(set)[c] = schema[n][c]
<1>1. CASE Having(set, c) = {}
  BY <1>1 DEF Union
<1>2. ASSUME Having(set, c) # {}
      PROVE  \E n \in set : schema[n][c] # Absent /\ Union(set)[c] = schema[n][c]
  <2>1. Having(set, c) \in SUBSET Runs
    BY DEF Having
  <2>2. PICK newest \in Having(set, c) : \A m \in Having(set, c) : m <= newest
    BY <1>2, <2>1, NewestExists
  <2>3. Newest(Having(set, c)) \in Having(set, c)
    BY <2>2 DEF Newest
  <2>4. Union(set)[c] = schema[Newest(Having(set, c))][c]
    BY <1>2 DEF Union
  <2> QED
    BY <2>3, <2>4 DEF Having
<1> QED
  BY <1>1, <1>2

LEMMA UnionType ==
    ASSUME TypeOK, NEW set \in SUBSET Runs
    PROVE  Union(set) \in Schemas
<1>1. ASSUME NEW c \in Columns PROVE Union(set)[c] \in Types \cup {Absent}
  BY UnionColumn DEF TypeOK, Schemas
<1>2. Union(set) = [c \in Columns |-> Union(set)[c]]
  BY DEF Union
<1> QED
  BY <1>1, <1>2 DEF Schemas

LEMMA ExtendedType ==
    ASSUME NEW existing \in Schemas, NEW desired \in Schemas
    PROVE  Extended(existing, desired) \in Schemas
  BY DEF Extended, Schemas

LEMMA OverridesTwice ==
    ASSUME NEW columns \in [Columns -> Types \cup {CatalogType, Absent}]
    PROVE  /\ WithOverrides(columns) \in [Columns -> Types \cup {CatalogType, Absent}]
           /\ WithOverrides(WithOverrides(columns)) = WithOverrides(columns)
           /\ \A c \in Columns : /\ WithOverrides(columns)[c] = Absent <=> columns[c] = Absent
                                 /\ WithOverrides(columns)[c] \in Types =>
                                       WithOverrides(columns)[c] = columns[c]
  BY SchemaConstants DEF WithOverrides

-----------------------------------------------------------------------------
LEMMA InitInv == Init => IInv
<1> SUFFICES ASSUME Init PROVE IInv
  OBVIOUS
<1>1. NoColumns \in Schemas /\ NoColumns \in [Columns -> Types \cup {CatalogType, Absent}]
  BY DEF NoColumns, Schemas
<1>2. NoEntry \in [columns : [Columns -> Types \cup {CatalogType, Absent}], pointer : Nat, version : Nat]
  BY <1>1 DEF NoEntry
<1>3. \A c \in Columns : NoColumns[c] = Absent
  BY DEF NoColumns
<1>4. TypeOK
  BY <1>1, <1>2, <1>3 DEF Init, TypeOK, Steps, NoEntry
<1>5. EntryInv /\ ExternalInv
  BY <1>3, SchemaConstants DEF Init, EntryInv, ExternalInv, NoEntry
<1>6. KnownInv /\ RecordInv /\ SeenInv /\ PassInv
  BY DEF Init, KnownInv, RecordInv, SeenInv, PassInv, Loop
<1> QED
  BY <1>4, <1>5, <1>6 DEF IInv

(* A pass that is over carries nothing on, but for the MERGE it may leave.  *)
LEMMA ReturnInv ==
    ASSUME IInv, Return, UNCHANGED <<landing, external, bronze, processed>>,
           failures' \in Nat, operations' = operations,
           orphans' \subseteq Runs,
           \A n \in orphans' : n \in orphans \/ (n \in listed /\ schema[n] # NoColumns)
    PROVE  IInv'
<1>0. /\ UNCHANGED <<schema, committed, external, iceberg, snapshot, cleared, entry, held, processed>>
      /\ pc' = "idle" /\ listed' = {} /\ todo' = {} /\ seen' = NoEntry
  BY DEF Return, Goto, landing, bronze
<1>1. NoEntry \in [columns : [Columns -> Types \cup {CatalogType, Absent}], pointer : Nat, version : Nat]
  BY DEF NoEntry, NoColumns
<1>2. TypeOK'
  BY <1>0, <1>1 DEF IInv, TypeOK, Steps
<1>3. EntryInv' /\ ExternalInv'
  BY <1>0 DEF IInv, EntryInv, ExternalInv
<1>4. KnownInv' /\ RecordInv'
  BY <1>0 DEF IInv, KnownInv, RecordInv, Settled
<1>5. SeenInv' /\ PassInv'
  BY <1>0 DEF SeenInv, PassInv, Loop
<1> QED
  BY <1>2, <1>3, <1>4, <1>5 DEF IInv

(* A run that is committed is new to every pass and record. *)
LEMMA CommitRunInv ==
    ASSUME IInv, NEW n \in Runs, NEW s \in Schemas, CommitRun(n, s)
    PROVE  IInv'
<1>0. /\ UNCHANGED <<external, iceberg, snapshot, cleared, entry, held, processed, orphans>>
      /\ UNCHANGED <<failures, operations, pc, listed, todo, seen>>
      /\ n \notin committed /\ schema[n] = NoColumns
      /\ committed' = committed \cup {n} /\ schema' = [schema EXCEPT ![n] = s]
  BY DEF CommitRun, bronze, bounds, locals
<1>1. n \notin listed \cup processed \cup orphans
  BY <1>0 DEF IInv, KnownInv
<1>2. \A m \in Runs \ {n} : schema'[m] = schema[m] /\ (m \in committed' <=> m \in committed)
  BY <1>0 DEF IInv, TypeOK
<1>3. \A m \in listed \cup processed \cup orphans :
          m \in Runs /\ schema'[m] = schema[m] /\ (m \in committed' <=> m \in committed)
  BY <1>1, <1>2 DEF IInv, TypeOK
<1>4. TypeOK'
  BY <1>0 DEF IInv, TypeOK
<1>5. EntryInv' /\ ExternalInv' /\ SeenInv'
  BY <1>0 DEF IInv, EntryInv, ExternalInv, SeenInv
<1>6. KnownInv'
  BY <1>0, <1>3 DEF IInv, KnownInv
<1>7. \A m \in listed \cup processed : Settled(m) => Settled(m)'
  BY <1>0, <1>3 DEF Settled
<1>8. RecordInv'
  BY <1>0, <1>3, <1>7 DEF IInv, RecordInv
<1>9. todo \subseteq listed /\ \A m : IsCurrent(m)' => IsCurrent(m) /\ m \in listed
  BY <1>0 DEF IInv, TypeOK, IsCurrent
<1>10. (Declared(external) => Declared(external)') /\ (Declared(iceberg) => Declared(iceberg)')
  BY <1>0, <1>3 DEF Declared
<1>11. PassInv'
  BY <1>0, <1>1, <1>3, <1>7, <1>9, <1>10 DEF IInv, PassInv, Loop, NoColumns
<1> QED
  BY <1>4, <1>5, <1>6, <1>8, <1>11 DEF IInv

LEMMA DeleteRunInv ==
    ASSUME IInv, NEW n \in Runs, DeleteRun(n)
    PROVE  IInv'
<1>0. /\ UNCHANGED <<schema, external, iceberg, snapshot, cleared, entry, held, processed, orphans>>
      /\ UNCHANGED <<failures, operations, pc, listed, todo, seen>>
      /\ schema[n] # NoColumns /\ committed' = committed \ {n}
  BY DEF DeleteRun, bronze, bounds, locals
<1>1. TypeOK'
  BY <1>0 DEF IInv, TypeOK
<1>2. EntryInv' /\ ExternalInv' /\ SeenInv'
  BY <1>0 DEF IInv, EntryInv, ExternalInv, SeenInv
<1>3. \A m : Settled(m) => Settled(m)'
  BY <1>0 DEF Settled, NoColumns
<1>4. KnownInv' /\ RecordInv'
  BY <1>0, <1>3 DEF IInv, KnownInv, RecordInv, NoColumns
<1>5. \A m : IsCurrent(m)' = IsCurrent(m)
  BY <1>0 DEF IsCurrent
<1>6. Declared(external)' = Declared(external) /\ Declared(iceberg)' = Declared(iceberg)
  BY <1>0 DEF Declared
<1>7. WithOverrides(entry.columns)' = WithOverrides(entry.columns)
  BY <1>0 DEF WithOverrides
<1>8. PassInv'
  BY <1>0, <1>3, <1>5, <1>6, <1>7 DEF IInv, PassInv, Loop, NoColumns
<1> QED
  BY <1>1, <1>2, <1>4, <1>8 DEF IInv

-----------------------------------------------------------------------------
(* The steps of a pass. *)
LEMMA DiscoverInv ==
    ASSUME IInv, Discover
    PROVE  IInv'
<1>0. /\ UNCHANGED <<schema, committed, external, iceberg, snapshot, cleared, entry, held, processed>>
      /\ UNCHANGED <<orphans, failures, operations, todo, seen>>
      /\ pc = "idle" /\ listed' = committed
      /\ pc' = IF committed = {} THEN "idle" ELSE "landing"
  BY DEF Discover, landing, bronze, bounds, Goto
<1>1. todo = {}
  BY <1>0 DEF IInv, TypeOK, PassInv
<1>2. TypeOK'
  BY <1>0, <1>1 DEF IInv, TypeOK, Steps
<1>3. EntryInv' /\ ExternalInv' /\ SeenInv'
  BY <1>0 DEF IInv, EntryInv, ExternalInv, SeenInv
<1>4. KnownInv' /\ RecordInv'
  BY <1>0 DEF IInv, KnownInv, RecordInv, Settled
<1>5. PassInv'
  BY <1>0 DEF PassInv, Loop
<1> QED
  BY <1>2, <1>3, <1>4, <1>5 DEF IInv

LEMMA RefuseInv ==
    ASSUME IInv, Refuse \/ UpdateConflict \/ ReportSuccess
    PROVE  IInv'
<1>1. Return /\ UNCHANGED <<landing, external, bronze, processed, orphans, bounds>>
  BY DEF Refuse, UpdateConflict, ReportSuccess
<1>2. failures' \in Nat /\ operations' = operations /\ orphans' = orphans /\ orphans \subseteq Runs
  BY <1>1 DEF bounds, IInv, TypeOK
<1> QED
  BY <1>1, <1>2, ReturnInv

LEMMA FailInv ==
    ASSUME IInv, Fail
    PROVE  IInv'
<1>1. /\ Return /\ UNCHANGED <<landing, external, bronze, processed>>
      /\ failures' \in Nat /\ operations' = operations
  BY DEF Fail, IInv, TypeOK
<1>2. orphans \subseteq Runs /\ todo \subseteq listed
  BY DEF IInv, TypeOK
<1>3. orphans' \subseteq Runs
  BY <1>2 DEF Fail
<1>4. \A n \in orphans' : n \in orphans \/ (n \in listed /\ schema[n] # NoColumns)
  <2>1. ASSUME pc = "await", NEW n \in Runs, IsCurrent(n)
        PROVE  n \in listed /\ schema[n] # NoColumns
    BY <1>2, <2>1 DEF IInv, PassInv, IsCurrent
  <2> QED
    BY <2>1 DEF Fail
<1> QED
  BY <1>1, <1>3, <1>4, ReturnInv

(* No column of the runs listed has another type in any of them, nor in the *)
(* landing table as it was.                                                 *)
LEMMA DefineLandingInv ==
    ASSUME IInv, DefineLanding
    PROVE  IInv'
<1>0. /\ UNCHANGED <<schema, committed, iceberg, snapshot, cleared, entry, held, processed>>
      /\ UNCHANGED <<orphans, failures, operations, listed, todo, seen>>
      /\ pc = "landing" /\ pc' = "metadata"
      /\ external' = Extended(external, Union(listed))
  BY DEF DefineLanding, landing, bronze, bounds, Goto
<1>1. ~Disagree(listed) /\ Changed(external, Union(listed)) = {}
  BY DEF DefineLanding, Refused
<1>2. TypeOK /\ listed \in SUBSET Runs /\ external \in Schemas /\ Union(listed) \in Schemas
  BY UnionType DEF IInv, TypeOK
<1>3. TypeOK'
  BY <1>0, <1>2, ExtendedType DEF TypeOK, Steps
<1>4. \A c \in Columns : external[c] # Absent => external'[c] = external[c]
  BY <1>0 DEF Extended
<1>5. EntryInv' /\ ExternalInv' /\ SeenInv'
  BY <1>0, <1>4 DEF IInv, EntryInv, ExternalInv, SeenInv
<1>6. KnownInv' /\ RecordInv'
  BY <1>0 DEF IInv, KnownInv, RecordInv, Settled
<1>7. ASSUME NEW n \in listed, NEW c \in Columns, schema[n][c] # Absent
      PROVE  external'[c] = schema[n][c]
  <2>1. n \in Having(listed, c)
    BY <1>7 DEF Having
  <2>2. PICK m \in listed : schema[m][c] # Absent /\ Union(listed)[c] = schema[m][c]
    BY <1>2, <2>1, UnionColumn
  <2>3. m \in Having(listed, c)
    BY <2>2 DEF Having
  <2>4. Union(listed)[c] = schema[n][c]
    BY <1>1, <2>1, <2>2, <2>3 DEF Disagree
  <2>5. external[c] # Absent => external[c] = Union(listed)[c]
    BY <1>1, <1>7, <2>4 DEF Changed
  <2> QED
    BY <1>0, <2>4, <2>5 DEF Extended
<1>8. PassInv'
  BY <1>0, <1>7 DEF IInv, PassInv, Declared, Loop
<1> QED
  BY <1>3, <1>5, <1>6, <1>8 DEF IInv

LEMMA CheckMetadataInv ==
    ASSUME IInv, CheckMetadata
    PROVE  IInv'
<1>0. /\ UNCHANGED <<schema, committed, external, iceberg, snapshot, cleared, entry, held, processed>>
      /\ UNCHANGED <<orphans, failures, operations, listed, todo, seen>>
      /\ pc = "metadata" /\ pc' = "bronze" /\ ~cleared
  BY DEF CheckMetadata, Refused, MetadataGone, landing, bronze, bounds, Goto
<1>1. TypeOK'
  BY <1>0 DEF IInv, TypeOK, Steps
<1>2. EntryInv' /\ ExternalInv' /\ SeenInv'
  BY <1>0 DEF IInv, EntryInv, ExternalInv, SeenInv
<1>3. KnownInv' /\ RecordInv'
  BY <1>0 DEF IInv, KnownInv, RecordInv, Settled
<1>4. PassInv'
  BY <1>0 DEF IInv, PassInv, Declared, Loop
<1> QED
  BY <1>1, <1>2, <1>3, <1>4 DEF IInv

(* What the catalog shows no column for, Iceberg has none for; what the     *)
(* union adds is in the landing table already.                              *)
LEMMA DefineBronzeInv ==
    ASSUME IInv, DefineBronze
    PROVE  IInv'
<1> DEFINE altered == Extended(iceberg, Union(listed))
<1>0. /\ UNCHANGED <<schema, committed, external, cleared, held, processed, orphans>>
      /\ UNCHANGED <<failures, operations, listed, seen>>
      /\ pc = "bronze" /\ pc' = "read"
      /\ todo' = IF entry.columns = NoColumns THEN listed ELSE listed \ processed
  BY DEF DefineBronze, landing, bounds, Goto, AfterCommit
<1>1. \/ NeedsAlter /\ AthenaCommit(altered)
      \/ ~NeedsAlter /\ UNCHANGED <<iceberg, snapshot, entry>>
  BY DEF DefineBronze
<1>2. TypeOK /\ ExternalInv /\ listed \in SUBSET Runs /\ Declared(external)
  BY <1>0 DEF IInv, TypeOK, PassInv, Loop
<1>3. altered \in Schemas
  BY <1>2, UnionType, ExtendedType DEF TypeOK
<1>4. ASSUME NEW c \in Columns, Union(listed)[c] # Absent
      PROVE  Union(listed)[c] = external[c]
  BY <1>2, <1>4, UnionColumn DEF Declared
<1>5. \A n \in listed, c \in Columns : schema[n][c] # Absent => Union(listed)[c] = schema[n][c]
  <2>1. SUFFICES ASSUME NEW n \in listed, NEW c \in Columns, schema[n][c] # Absent
                 PROVE  Union(listed)[c] = schema[n][c]
    OBVIOUS
  <2>2. Having(listed, c) # {}
    BY <2>1 DEF Having
  <2>3. Union(listed)[c] # Absent
    BY <1>2, <2>2, UnionColumn
  <2> QED
    BY <1>2, <1>4, <2>1, <2>3 DEF Declared
<1>6. \A c \in Columns : altered[c] = IF iceberg[c] = Absent THEN Union(listed)[c] ELSE iceberg[c]
  BY DEF Extended
<1>7. ASSUME NeedsAlter, AthenaCommit(altered)
      PROVE  TypeOK' /\ EntryInv' /\ ExternalInv' /\ Declared(iceberg)'
  <2>0. /\ iceberg' = altered /\ snapshot' = snapshot + 1
        /\ entry' = [columns |-> altered, pointer |-> snapshot + 1, version |-> entry.version + 1]
    BY <1>7 DEF AthenaCommit
  <2>1. TypeOK'
    <3>1. altered \in [Columns -> Types \cup {CatalogType, Absent}]
      BY <1>3 DEF Schemas
    <3>2. entry' \in [columns : [Columns -> Types \cup {CatalogType, Absent}], pointer : Nat, version : Nat]
      BY <1>2, <2>0, <3>1 DEF TypeOK
    <3>3. \A c \in Columns : entry'.columns[c] = Absent <=> iceberg'[c] = Absent
      BY <2>0
    <3> QED
      BY <1>0, <1>2, <1>3, <2>0, <3>2, <3>3 DEF TypeOK, Steps
  <2>2. EntryInv'
    BY <2>0 DEF EntryInv
  <2>3. ExternalInv'
    BY <1>0, <1>2, <1>4, <1>6, <2>0 DEF ExternalInv
  <2>4. Declared(iceberg)'
    BY <1>0, <1>2, <1>5, <1>6, <2>0 DEF Declared, ExternalInv
  <2> QED
    BY <2>1, <2>2, <2>3, <2>4
<1>8. ASSUME ~NeedsAlter, UNCHANGED <<iceberg, snapshot, entry>>
      PROVE  TypeOK' /\ EntryInv' /\ ExternalInv' /\ Declared(iceberg)'
  <2>1. TypeOK'
    BY <1>0, <1>2, <1>8 DEF TypeOK, Steps
  <2>2. EntryInv' /\ ExternalInv'
    BY <1>0, <1>8 DEF IInv, EntryInv, ExternalInv
  <2>3. \A c \in Columns : Union(listed)[c] # Absent => iceberg[c] # Absent
    BY <1>2, <1>8 DEF NeedsAlter, TypeOK
  <2>4. Declared(iceberg)'
    BY <1>0, <1>2, <1>5, <1>8, <2>3 DEF Declared, ExternalInv
  <2> QED
    BY <2>1, <2>2, <2>4
<1>9. KnownInv' /\ RecordInv' /\ SeenInv'
  BY <1>0 DEF IInv, KnownInv, RecordInv, Settled, SeenInv
<1>10. \A n \in listed' \ todo' : Settled(n)'
  BY <1>0 DEF IInv, RecordInv, Settled
<1>11. PassInv'
  BY <1>0, <1>1, <1>7, <1>8, <1>10 DEF IInv, PassInv, Declared, Loop
<1> QED
  BY <1>1, <1>7, <1>8, <1>9, <1>11 DEF IInv

-----------------------------------------------------------------------------
(* Applying the overrides. *)
LEMMA ReadEntryInv ==
    ASSUME IInv, ReadEntry
    PROVE  IInv'
<1>0. /\ UNCHANGED <<schema, committed, external, iceberg, snapshot, cleared, entry, held, processed>>
      /\ UNCHANGED <<orphans, failures, operations, listed, todo>>
      /\ pc = "read" /\ seen' = entry
      /\ pc' = IF WithOverrides(entry.columns) = entry.columns THEN "next" ELSE "update"
  BY DEF ReadEntry, landing, bronze, bounds, Goto
<1>1. TypeOK'
  BY <1>0 DEF IInv, TypeOK, Steps
<1>2. EntryInv' /\ ExternalInv'
  BY <1>0 DEF IInv, EntryInv, ExternalInv
<1>3. SeenInv'
  BY <1>0 DEF IInv, TypeOK, SeenInv
<1>4. KnownInv' /\ RecordInv'
  BY <1>0 DEF IInv, KnownInv, RecordInv, Settled
<1>5. WithOverrides(entry.columns)' = WithOverrides(entry.columns)
  BY <1>0 DEF WithOverrides
<1>6. PassInv'
  BY <1>0, <1>5 DEF IInv, PassInv, Declared, Settled, Loop
<1> QED
  BY <1>1, <1>2, <1>3, <1>4, <1>6 DEF IInv

(* Under an unchanged version the entry written back is the current one, so *)
(* its pointer is too.                                                      *)
LEMMA UpdateEntryInv ==
    ASSUME IInv, UpdateEntry
    PROVE  IInv'
<1>0. /\ UNCHANGED <<schema, committed, external, iceberg, snapshot, cleared, held, processed>>
      /\ UNCHANGED <<orphans, failures, operations, listed, todo, seen>>
      /\ pc = "update" /\ pc' = "next"
      /\ entry' = [columns |-> WithOverrides(seen.columns), pointer |-> seen.pointer,
                   version |-> entry.version + 1]
  BY DEF UpdateEntry, landing, bounds, Goto
<1>1. seen = entry
  BY <1>0 DEF UpdateEntry, VersionUnchanged, IInv, SeenInv
<1>2. TypeOK /\ EntryInv /\ entry.columns \in [Columns -> Types \cup {CatalogType, Absent}]
  BY DEF IInv, TypeOK
<1>3. /\ entry'.columns = WithOverrides(entry.columns)
      /\ entry'.pointer = entry.pointer /\ entry'.version = entry.version + 1
  BY <1>0, <1>1
<1>4. TypeOK'
  <2>1. entry' \in [columns : [Columns -> Types \cup {CatalogType, Absent}], pointer : Nat, version : Nat]
    BY <1>0, <1>1, <1>2, OverridesTwice DEF TypeOK
  <2>2. \A c \in Columns : entry'.columns[c] = Absent <=> iceberg'[c] = Absent
    BY <1>0, <1>2, <1>3, OverridesTwice DEF TypeOK
  <2> QED
    BY <1>0, <1>2, <2>1, <2>2 DEF TypeOK, Steps
<1>5. EntryInv'
  BY <1>0, <1>2, <1>3, OverridesTwice DEF EntryInv
<1>6. ExternalInv' /\ KnownInv' /\ RecordInv' /\ SeenInv'
  BY <1>0 DEF IInv, ExternalInv, KnownInv, RecordInv, Settled, SeenInv
<1>7. (WithOverrides(entry.columns) = entry.columns)'
  <2>1. WithOverrides(entry'.columns) = entry'.columns
    BY <1>2, <1>3, OverridesTwice
  <2> QED
    BY <2>1 DEF WithOverrides
<1>8. PassInv'
  BY <1>0, <1>7 DEF IInv, PassInv, Declared, Settled, Loop
<1> QED
  BY <1>4, <1>5, <1>6, <1>8 DEF IInv

-----------------------------------------------------------------------------
(* Merging. *)
LEMMA OneCurrent ==
    ASSUME TypeOK, NEW n \in Runs, NEW m \in Runs, IsCurrent(n), IsCurrent(m)
    PROVE  n = m
<1>1. n \in Int /\ m \in Int /\ n <= m /\ m <= n
  BY SchemaConstants DEF IsCurrent
<1> QED
  BY <1>1

(* What every MERGE leaves as it is. *)
LEMMA MergeKeeps ==
    ASSUME TypeOK, EntryInv, NEW n \in Runs, Merge(n), UNCHANGED <<schema, committed>>
    PROVE  /\ ~cleared /\ cleared' = cleared /\ iceberg' = iceberg
           /\ held \subseteq held' /\ held' \subseteq Runs /\ (n \in held' \/ n \notin committed)
           /\ snapshot' \in Nat /\ EntryInv'
           /\ entry' \in [columns : [Columns -> Types \cup {CatalogType, Absent}], pointer : Nat, version : Nat]
           /\ \A c \in Columns : entry'.columns[c] = Absent <=> iceberg[c] = Absent
           /\ \/ entry' = entry
              \/ /\ entry'.version = entry.version + 1
                 /\ n \in committed /\ n \notin held
<1>1. ~cleared
  BY DEF Merge
<1>2. CASE n \in held \/ n \notin committed
  BY <1>1, <1>2 DEF Merge, bronze, TypeOK, EntryInv
<1>3. CASE ~(n \in held \/ n \notin committed)
  <2>1. /\ iceberg' = iceberg /\ snapshot' = snapshot + 1 /\ cleared' = cleared
        /\ entry' = [columns |-> iceberg, pointer |-> snapshot + 1, version |-> entry.version + 1]
        /\ held' = held \cup {n}
    BY <1>3 DEF Merge, AthenaCommit
  <2>2. iceberg \in [Columns -> Types \cup {CatalogType, Absent}]
    BY DEF TypeOK, Schemas
  <2>3. entry' \in [columns : [Columns -> Types \cup {CatalogType, Absent}], pointer : Nat, version : Nat]
    BY <2>1, <2>2 DEF TypeOK
  <2>4. EntryInv'
    BY <2>1 DEF EntryInv
  <2> QED
    BY <1>1, <1>3, <2>1, <2>3, <2>4 DEF TypeOK
<1> QED
  BY <1>2, <1>3

LEMMA MergeCommitsInv ==
    ASSUME IInv, MergeCommits
    PROVE  IInv'
<1>0. /\ UNCHANGED <<schema, committed, external, processed>>
      /\ UNCHANGED <<orphans, failures, operations, listed, todo, seen>>
      /\ pc = "await" /\ pc' = "mark"
  BY DEF MergeCommits, landing, bounds, Goto
<1>1. PICK n \in Runs : IsCurrent(n) /\ Merge(n)
  BY DEF MergeCommits
<1>2. TypeOK /\ EntryInv
  BY DEF IInv
<1>3. /\ ~cleared /\ cleared' = cleared /\ iceberg' = iceberg
      /\ held \subseteq held' /\ held' \subseteq Runs /\ (n \in held' \/ n \notin committed)
      /\ snapshot' \in Nat /\ EntryInv'
      /\ entry' \in [columns : [Columns -> Types \cup {CatalogType, Absent}], pointer : Nat, version : Nat]
      /\ \A c \in Columns : entry'.columns[c] = Absent <=> iceberg[c] = Absent
  BY <1>0, <1>1, <1>2, MergeKeeps
<1>4. TypeOK'
  BY <1>0, <1>2, <1>3 DEF TypeOK, Steps
<1>5. ExternalInv' /\ KnownInv' /\ SeenInv'
  BY <1>0, <1>3 DEF IInv, ExternalInv, KnownInv, SeenInv
<1>6. \A m : Settled(m) => Settled(m)'
  BY <1>0, <1>3 DEF Settled
<1>7. RecordInv'
  BY <1>0, <1>6 DEF IInv, RecordInv
<1>8. Settled(n)'
  BY <1>0, <1>3 DEF Settled
<1>9. \A m \in Runs : IsCurrent(m)' => Settled(m)'
  <2>1. \A m \in Runs : IsCurrent(m)' => m = n
    BY <1>0, <1>1, <1>2, OneCurrent DEF IsCurrent
  <2> QED
    BY <1>8, <2>1
<1>10. PassInv'
  BY <1>0, <1>3, <1>6, <1>9 DEF IInv, PassInv, Declared, Loop
<1> QED
  BY <1>3, <1>4, <1>5, <1>7, <1>10 DEF IInv

(* An orphan that still has rows to insert is among the runs of the pass,   *)
(* which has it to do: its overrides are applied again after that.          *)
LEMMA OrphanCommitsInv ==
    ASSUME IInv, NEW n \in Runs, OrphanCommits(n)
    PROVE  IInv'
<1>0. /\ UNCHANGED <<schema, committed, external, processed>>
      /\ UNCHANGED <<failures, operations, pc, listed, todo, seen>>
      /\ n \in orphans /\ orphans' = orphans \ {n} /\ Merge(n)
  BY DEF OrphanCommits, landing, bounds, locals
<1>1. TypeOK /\ EntryInv /\ schema[n] # NoColumns
  BY <1>0 DEF IInv, RecordInv
<1>2. /\ ~cleared /\ cleared' = cleared /\ iceberg' = iceberg
      /\ held \subseteq held' /\ held' \subseteq Runs
      /\ snapshot' \in Nat /\ EntryInv'
      /\ entry' \in [columns : [Columns -> Types \cup {CatalogType, Absent}], pointer : Nat, version : Nat]
      /\ \A c \in Columns : entry'.columns[c] = Absent <=> iceberg[c] = Absent
      /\ \/ entry' = entry
         \/ entry'.version = entry.version + 1 /\ n \in committed /\ n \notin held
  BY <1>0, <1>1, MergeKeeps
<1>3. TypeOK'
  BY <1>0, <1>1, <1>2 DEF TypeOK
<1>4. ExternalInv' /\ KnownInv'
  BY <1>0, <1>2 DEF IInv, ExternalInv, KnownInv
<1>5. entry.version \in Nat /\ seen.version \in Nat
  BY <1>1 DEF TypeOK
<1>6. SeenInv'
  BY <1>0, <1>2, <1>5 DEF IInv, SeenInv
<1>7. \A m : Settled(m) => Settled(m)'
  BY <1>0, <1>2 DEF Settled
<1>8. RecordInv'
  BY <1>0, <1>7 DEF IInv, RecordInv
<1>9. pc = "next" => \/ (WithOverrides(entry.columns) = entry.columns)'
                    \/ \E m \in todo : schema[m] # NoColumns
  <2>1. CASE entry' = entry
    BY <1>0, <2>1 DEF IInv, PassInv, WithOverrides
  <2>2. CASE n \in committed /\ n \notin held
    <3>1. ~Settled(n)
      BY <1>1, <2>2 DEF Settled
    <3>2. pc = "next" => n \in todo
      BY <1>0, <2>2, <3>1 DEF IInv, PassInv, Loop
    <3> QED
      BY <1>1, <3>2
  <2> QED
    BY <1>2, <2>1, <2>2
<1>10. \A m : IsCurrent(m)' = IsCurrent(m)
  BY <1>0 DEF IsCurrent
<1>11. PassInv'
  BY <1>0, <1>2, <1>7, <1>9, <1>10 DEF IInv, PassInv, Declared, Loop
<1> QED
  BY <1>2, <1>3, <1>4, <1>6, <1>8, <1>11 DEF IInv

LEMMA RecordEmptyInv ==
    ASSUME IInv, NEW n \in Runs, RecordEmpty(n)
    PROVE  IInv'
<1>0. /\ UNCHANGED <<schema, committed, external, iceberg, snapshot, cleared, entry, held>>
      /\ UNCHANGED <<orphans, failures, operations, pc, listed, seen>>
      /\ pc = "next" /\ n \in todo /\ schema[n] = NoColumns
      /\ processed' = processed \cup {n} /\ todo' = todo \ {n}
  BY DEF RecordEmpty, IsCurrent, landing, bronze, bounds
<1>1. TypeOK'
  BY <1>0 DEF IInv, TypeOK
<1>2. EntryInv' /\ ExternalInv' /\ SeenInv'
  BY <1>0 DEF IInv, EntryInv, ExternalInv, SeenInv
<1>3. KnownInv'
  BY <1>0 DEF IInv, KnownInv, TypeOK
<1>4. Settled(n)' /\ \A m : Settled(m) => Settled(m)'
  BY <1>0 DEF Settled, NoColumns
<1>5. RecordInv'
  BY <1>0, <1>4 DEF IInv, RecordInv, NoColumns
<1>6. (WithOverrides(entry.columns) = entry.columns)' = (WithOverrides(entry.columns) = entry.columns)
  BY <1>0 DEF WithOverrides
<1>7. (\E m \in todo : schema[m] # NoColumns) => (\E m \in todo : schema[m] # NoColumns)'
  BY <1>0 DEF NoColumns
<1>8. PassInv'
  BY <1>0, <1>4, <1>6, <1>7 DEF IInv, PassInv, Declared, Loop
<1> QED
  BY <1>1, <1>2, <1>3, <1>5, <1>8 DEF IInv

LEMMA SubmitMergeInv ==
    ASSUME IInv, NEW n \in Runs, SubmitMerge(n)
    PROVE  IInv'
<1>0. /\ UNCHANGED <<schema, committed, external, iceberg, snapshot, cleared, entry, held, processed>>
      /\ UNCHANGED <<orphans, failures, operations, listed, todo, seen>>
      /\ pc = "next" /\ pc' = "await" /\ IsCurrent(n) /\ schema[n] # NoColumns
  BY DEF SubmitMerge, landing, bronze, bounds, Goto
<1>1. TypeOK'
  BY <1>0 DEF IInv, TypeOK, Steps
<1>2. EntryInv' /\ ExternalInv' /\ SeenInv'
  BY <1>0 DEF IInv, EntryInv, ExternalInv, SeenInv
<1>3. KnownInv' /\ RecordInv'
  BY <1>0 DEF IInv, KnownInv, RecordInv, Settled
<1>4. \A m \in Runs : IsCurrent(m)' => (schema[m] # NoColumns)'
  <2>1. \A m \in Runs : IsCurrent(m)' => m = n
    BY <1>0, OneCurrent DEF IInv, IsCurrent
  <2> QED
    BY <1>0, <2>1 DEF NoColumns
<1>5. PassInv'
  BY <1>0, <1>4 DEF IInv, PassInv, Declared, Settled, Loop
<1> QED
  BY <1>1, <1>2, <1>3, <1>5 DEF IInv

LEMMA RecordMergedInv ==
    ASSUME IInv, NEW n \in Runs, RecordMerged(n)
    PROVE  IInv'
<1>0. /\ UNCHANGED <<schema, committed, external, iceberg, snapshot, cleared, entry, held>>
      /\ UNCHANGED <<orphans, failures, operations, listed, seen>>
      /\ pc = "mark" /\ pc' = "read" /\ IsCurrent(n) /\ n \in todo
      /\ processed' = processed \cup {n} /\ todo' = todo \ {n}
  BY DEF RecordMerged, IsCurrent, AfterCommit, Goto, landing, bronze, bounds
<1>1. TypeOK'
  BY <1>0 DEF IInv, TypeOK, Steps
<1>2. EntryInv' /\ ExternalInv' /\ SeenInv'
  BY <1>0 DEF IInv, EntryInv, ExternalInv, SeenInv
<1>3. KnownInv'
  BY <1>0 DEF IInv, KnownInv, TypeOK
<1>4. Settled(n)' /\ \A m : Settled(m) => Settled(m)'
  BY <1>0 DEF IInv, PassInv, Settled
<1>5. RecordInv'
  BY <1>0, <1>4 DEF IInv, RecordInv
<1>6. PassInv'
  BY <1>0, <1>4 DEF IInv, PassInv, Declared, Loop
<1> QED
  BY <1>1, <1>2, <1>3, <1>5, <1>6 DEF IInv

-----------------------------------------------------------------------------
(* Operators act between passes only. *)
LEMMA ClearPrefixInv ==
    ASSUME IInv, ClearPrefix
    PROVE  IInv'
<1>0. /\ UNCHANGED <<schema, committed, external, iceberg, snapshot, entry, held, processed>>
      /\ UNCHANGED <<orphans, failures, pc, listed, todo, seen>>
      /\ pc = "idle" /\ cleared' = TRUE /\ operations' = operations + 1
  BY DEF ClearPrefix, Operate, landing, locals
<1>1. TypeOK'
  BY <1>0 DEF IInv, TypeOK
<1>2. EntryInv' /\ ExternalInv' /\ SeenInv'
  BY <1>0 DEF IInv, EntryInv, ExternalInv, SeenInv
<1>3. KnownInv' /\ RecordInv'
  BY <1>0 DEF IInv, KnownInv, RecordInv, Settled
<1>4. PassInv'
  BY <1>0 DEF IInv, PassInv, Loop
<1> QED
  BY <1>1, <1>2, <1>3, <1>4 DEF IInv

LEMMA DeleteTableInv ==
    ASSUME IInv, DeleteTable
    PROVE  IInv'
<1>0. /\ UNCHANGED <<schema, committed, external, snapshot, failures, pc, listed, todo, seen>>
      /\ pc = "idle" /\ cleared' = FALSE /\ operations' = operations + 1
      /\ held' = {} /\ processed' = {} /\ orphans' = {} /\ iceberg' = NoColumns
      /\ entry' = [columns |-> NoColumns, pointer |-> snapshot, version |-> entry.version]
  BY DEF DeleteTable, Operate, landing, locals, NoEntry
<1>1. /\ NoColumns \in Schemas /\ NoColumns \in [Columns -> Types \cup {CatalogType, Absent}]
      /\ \A c \in Columns : NoColumns[c] = Absent
  BY DEF NoColumns, Schemas
<1>2. entry' \in [columns : [Columns -> Types \cup {CatalogType, Absent}], pointer : Nat, version : Nat]
  BY <1>0, <1>1 DEF IInv, TypeOK
<1>3. TypeOK'
  <2>1. entry'.columns = iceberg'
    BY <1>0
  <2>2. operations' \in Nat
    BY <1>0 DEF IInv, TypeOK
  <2> QED
    BY <1>0, <1>1, <1>2, <2>1, <2>2 DEF IInv, TypeOK
<1>4. EntryInv' /\ ExternalInv' /\ SeenInv'
  BY <1>0, <1>1, SchemaConstants DEF EntryInv, ExternalInv, SeenInv
<1>5. KnownInv' /\ RecordInv'
  BY <1>0 DEF IInv, KnownInv, RecordInv, PassInv
<1>6. PassInv'
  BY <1>0 DEF IInv, PassInv, Loop
<1> QED
  BY <1>3, <1>4, <1>5, <1>6 DEF IInv

LEMMA StepInv == IInv /\ [Next]_vars => IInv'
<1> SUFFICES ASSUME IInv, [Next]_vars PROVE IInv'
  OBVIOUS
<1>1. ASSUME NEW n \in Runs, NEW s \in Schemas, CommitRun(n, s) PROVE IInv'
  BY <1>1, CommitRunInv
<1>2. ASSUME NEW n \in Runs, DeleteRun(n) \/ OrphanCommits(n) PROVE IInv'
  BY <1>2, DeleteRunInv, OrphanCommitsInv
<1>3. CASE Load
  <2>1. CASE Discover
    BY <2>1, DiscoverInv
  <2>2. CASE Refuse \/ UpdateConflict \/ ReportSuccess
    BY <2>2, RefuseInv
  <2>3. CASE DefineLanding \/ CheckMetadata \/ DefineBronze
    BY <2>3, DefineLandingInv, CheckMetadataInv, DefineBronzeInv
  <2>4. CASE ReadEntry \/ UpdateEntry
    BY <2>4, ReadEntryInv, UpdateEntryInv
  <2>5. ASSUME NEW n \in Runs, RecordEmpty(n) \/ SubmitMerge(n) \/ RecordMerged(n) PROVE IInv'
    BY <2>5, RecordEmptyInv, SubmitMergeInv, RecordMergedInv
  <2>6. CASE MergeCommits
    BY <2>6, MergeCommitsInv
  <2> QED
    BY <1>3, <2>1, <2>2, <2>3, <2>4, <2>5, <2>6 DEF Load
<1>4. CASE Fail
  BY <1>4, FailInv
<1>5. CASE ClearPrefix \/ DeleteTable
  BY <1>5, ClearPrefixInv, DeleteTableInv
<1>6. CASE UNCHANGED vars
  <2>1. /\ UNCHANGED <<schema, committed, external, iceberg, snapshot, cleared, entry, held, processed>>
        /\ UNCHANGED <<orphans, failures, operations, pc, listed, todo, seen>>
    BY <1>6 DEF vars, landing, bronze, bounds, locals
  <2>2. TypeOK'
    BY <2>1 DEF IInv, TypeOK
  <2>3. EntryInv' /\ ExternalInv' /\ KnownInv' /\ RecordInv' /\ SeenInv'
    BY <2>1 DEF IInv, EntryInv, ExternalInv, KnownInv, RecordInv, SeenInv, Settled
  <2>4. PassInv'
    BY <2>1 DEF IInv, PassInv, Declared, Settled, IsCurrent, Loop, WithOverrides
  <2> QED
    BY <2>2, <2>3, <2>4 DEF IInv
<1> QED
  BY <1>1, <1>2, <1>3, <1>4, <1>5, <1>6 DEF Next

-----------------------------------------------------------------------------
(* The inductive invariant holds in every reachable state. *)
THEOREM Invariance == Spec => []IInv
<1>1. Init => IInv
  BY InitInv
<1>2. IInv /\ [Next]_vars => IInv'
  BY StepInv
<1> QED
  BY <1>1, <1>2, PTL DEF Spec

(* Every reachable state is well typed, and the catalog has exactly the     *)
(* columns Iceberg has.                                                     *)
THEOREM TypeCorrect == Spec => []TypeOK
<1>1. IInv => TypeOK
  BY DEF IInv
<1> QED
  BY <1>1, Invariance, PTL

(* _update_override_columns(): for any number of passes, orphaned MERGEs    *)
(* and failures, no UpdateTable rewinds the pointer to the metadata.        *)
THEOREM PointerNeverRewoundAlways == Spec => []PointerNeverRewound
<1>1. IInv => PointerNeverRewound
  BY DEF IInv, EntryInv, PointerNeverRewound
<1> QED
  BY <1>1, Invariance, PTL

(* evolve_table(): whatever columns runs gain and lose, in any order, each  *)
(* MERGE that a pass submits finds every column it names in both tables.    *)
THEOREM MergesResolveAlways == Spec => []MergesResolve
<1>1. IInv => MergesResolve
  <2> SUFFICES ASSUME IInv, pc = "await"
               PROVE  ~cleared /\ \A n \in Runs : IsCurrent(n) => Resolves(n)
    BY DEF MergesResolve
  <2>1. ~cleared /\ Declared(external) /\ Declared(iceberg)
    BY DEF IInv, PassInv, Loop
  <2>2. todo \subseteq listed
    BY DEF IInv, TypeOK
  <2> QED
    BY <2>1, <2>2 DEF Declared, Resolves, IsCurrent
<1> QED
  BY <1>1, Invariance, PTL

(* apply_catalog_overrides() after every merge: a pass that is about to     *)
(* report SUCCESS leaves the declared types in the catalog, even if MERGEs  *)
(* of dead passes committed in the meantime.                                *)
THEOREM SuccessLeavesOverridesAlways == Spec => []SuccessLeavesOverrides
<1>1. IInv => SuccessLeavesOverrides
  BY DEF IInv, PassInv, SuccessLeavesOverrides
<1> QED
  BY <1>1, Invariance, PTL
=============================================================================
