----------------------------- MODULE TableInfo -----------------------------
(***************************************************************************)
(* Loading a table's schema and deciding its cacheability                 *)
(* (src/unnamed/part_000: NewTableInfo, loadTableInfo, fetchColumns,       *)
(* fetchIndexes, initRowCache, SetPK).                                     *)
(*                                                                         *)
(* The MySQL side is the table's current definition `db`; fetchColumns     *)
(* reads it with `describe`, fetchIndexes with `show index` in a second,   *)
(* separate statement, and a DDL may change it in between.  Column names,  *)
(* SQL type strings and index names are drawn from small constant sets.    *)
(* Positions are 0-based as in the code; -1 is FindColumn's "not found".   *)
(***************************************************************************)
EXTENDS Integers, Sequences, SequencesExt, FiniteSets

CONSTANTS
    ColNames,     \* column names a table may have
    Unknown,      \* a column name no table has (for SetPK's error path)
    SecName,      \* the name of the secondary index
    DDLRace,      \* TRUE iff a DDL may run between describe and show index
    SetPKCalls    \* TRUE iff SetPK is called on the loaded TableInfo

ASSUME Unknown \notin ColNames /\ DDLRace \in BOOLEAN /\ SetPKCalls \in BOOLEAN

Primary == "PRIMARY"
SqlTypes == {"int", "varchar", "datetime"}
Cats == {"number", "varbinary", "other"}

\* schema.Table.AddColumn's mapping of the SQL type to a category.
Category(sqlType) ==
    CASE sqlType = "int" -> "number"
      [] sqlType = "varchar" -> "varbinary"
      [] OTHER -> "other"

\* Sequences of distinct elements of S, of length 1 to Cardinality(S).
DistinctSeqs(S) ==
    UNION {{f \in [1..n -> S] : \A i, j \in 1..n : i # j => f[i] # f[j]} :
           n \in 1..Cardinality(S)}

\* The table as MySQL has it: its columns with SQL types, its primary key
\* (<<>> if none) and the columns of its one secondary index (<<>> if none).
Schemas ==
    UNION {
      LET names == ToSet(ns) IN
      {[cols |-> [i \in DOMAIN ns |-> [name |-> ns[i], type |-> ts[i]]],
        pk |-> k, sec |-> s] :
          ts \in [DOMAIN ns -> SqlTypes],
          k \in {<<>>} \cup DistinctSeqs(names),
          s \in {<<>>} \cup {<<c>> : c \in names}}
      : ns \in DistinctSeqs(ColNames)}

\* The rows of `show index`: grouped by index, primary first.
IndexRows(db) ==
    [i \in DOMAIN db.pk |-> [key |-> Primary, col |-> db.pk[i]]]
    \o [i \in DOMAIN db.sec |-> [key |-> SecName, col |-> db.sec[i]]]

Index == [name : {Primary, SecName}, columns : Seq(ColNames),
          data : Seq(ColNames)]

VARIABLES
    db,         \* the table's definition in MySQL
    step,       \* where NewTableInfo is: init, cols, idx, done, failed, panic
    columns,    \* ti.Columns: <<[name, cat]>>
    indexes,    \* ti.Indexes
    pkCols,     \* ti.PKColumns
    pkNil,      \* ti.PKColumns == nil
    cacheType,  \* ti.CacheType
    hasCache    \* ti.Cache != nil

vars == <<db, step, columns, indexes, pkCols, pkNil, cacheType, hasCache>>

TypeOK ==
    /\ step \in {"init", "cols", "idx", "done", "failed", "panic"}
    /\ columns \in Seq([name : ColNames, cat : Cats])
    /\ indexes \in Seq(Index)
    /\ pkCols \in Seq(-1..Cardinality(ColNames) - 1)
    /\ pkNil \in BOOLEAN
    /\ cacheType \in {"none", "rw"}
    /\ hasCache \in BOOLEAN

Init ==
    /\ db \in Schemas
    /\ step = "init"
    /\ columns = <<>> /\ indexes = <<>> /\ pkCols = <<>> /\ pkNil = TRUE
    /\ cacheType = "none" /\ hasCache = FALSE

-----------------------------------------------------------------------------
(* Helpers *)

\* schema.Table.FindColumn: the 0-based position of `name`, or -1.
FindColumn(cols, name) ==
    IF \E i \in DOMAIN cols : cols[i].name = name
    THEN (CHOOSE i \in DOMAIN cols : cols[i].name = name) - 1
    ELSE -1

ColumnNames(cols) == [i \in DOMAIN cols |-> cols[i].name]

\* fetchIndexes' loop: a new index (AddIndex) whenever the name changes,
\* the row's column appended to the current one (AddColumn).
RECURSIVE GroupRows(_, _, _)
GroupRows(rows, idx, currentName) ==
    IF rows = <<>> THEN idx
    ELSE LET r == Head(rows) IN
         IF r.key # currentName
         THEN GroupRows(Tail(rows),
                        Append(idx, [name |-> r.key, columns |-> <<r.col>>,
                                     data |-> <<>>]), r.key)
         ELSE GroupRows(Tail(rows),
                        [idx EXCEPT ![Len(idx)].columns = Append(@, r.col)],
                        currentName)

\* A secondary index's DataColumns: its own columns, then every primary key
\* column that is not already there.
SecondaryData(sec, pkIndex) ==
    sec.columns \o SelectSeq(pkIndex.columns,
                             LAMBDA c : ~Contains(sec.columns, c))

-----------------------------------------------------------------------------
(* NewTableInfo = loadTableInfo (fetchColumns, fetchIndexes) + initRowCache *)

\* Variant of fetchColumns that keeps the SQL type string as the category.
FetchColumnsRawType ==
    /\ step = "init"
    /\ \/ /\ columns' = [i \in DOMAIN db.cols |->
                            [name |-> db.cols[i].name, cat |-> db.cols[i].type]]
          /\ step' = "cols"
       \/ /\ step' = "failed"
          /\ UNCHANGED columns
    /\ UNCHANGED <<db, indexes, pkCols, pkNil, cacheType, hasCache>>

\* fetchColumns: `describe` the table, AddColumn for every row. An error of
\* the query makes loadTableInfo, hence NewTableInfo, return it.
FetchColumns ==
    /\ step = "init"
    /\ \/ /\ columns' = [i \in DOMAIN db.cols |->
                            [name |-> db.cols[i].name,
                             cat |-> Category(db.cols[i].type)]]
          /\ step' = "cols"
       \/ /\ step' = "failed"
          /\ UNCHANGED columns
    /\ UNCHANGED <<db, indexes, pkCols, pkNil, cacheType, hasCache>>

\* A DDL statement of another session between the two queries: a column is
\* added or dropped, or the primary key is redefined.
DDL ==
    /\ DDLRace /\ step = "cols"
    /\ \E new \in Schemas :
          /\ new # db
          /\ \/ new.pk = db.pk /\ new.sec = db.sec
             \/ new.cols = db.cols
          /\ db' = new
    /\ UNCHANGED <<step, columns, indexes, pkCols, pkNil, cacheType, hasCache>>

\* fetchIndexes: `show index`, grouped into indexes; if the first is
\* PRIMARY, PKColumns are its columns' positions, its DataColumns every
\* column, and each secondary's DataColumns its columns plus the PK's.
FetchIndexes ==
    /\ step = "cols"
    /\ \/ LET idx == GroupRows(IndexRows(db), <<>>, "") IN
          /\ IF idx # <<>> /\ idx[1].name = Primary
             THEN LET pk == idx[1] IN
                  /\ pkCols' = [i \in DOMAIN pk.columns |->
                                   FindColumn(columns, pk.columns[i])]
                  /\ pkNil' = FALSE
                  /\ indexes' =
                       [i \in DOMAIN idx |->
                          IF i = 1 THEN [pk EXCEPT !.data = ColumnNames(columns)]
                          ELSE [idx[i] EXCEPT !.data = SecondaryData(idx[i], pk)]]
             ELSE /\ indexes' = idx
                  /\ UNCHANGED <<pkCols, pkNil>>
          /\ step' = "idx"
       \/ /\ step' = "failed"
          /\ UNCHANGED <<indexes, pkCols, pkNil>>
    /\ UNCHANGED <<db, columns, cacheType, hasCache>>

\* Variant of initRowCache without the loop over the PK columns' categories.
InitRowCacheNoCategoryCheck ==
    /\ step = "idx"
    /\ \E poolClosed, nocache \in BOOLEAN, tableType \in {"BASE TABLE", "VIEW"} :
         IF poolClosed \/ nocache \/ tableType = "VIEW" \/ pkNil
         THEN /\ step' = "done" /\ UNCHANGED <<cacheType, hasCache>>
         ELSE /\ step' = "done" /\ cacheType' = "rw" /\ hasCache' = TRUE
    /\ UNCHANGED <<db, columns, indexes, pkCols, pkNil>>

\* initRowCache: not cached if the pool is closed, the comment says
\* vtocc_nocache, the table is a view, it has no primary key or a PK column
\* of category other; else CACHE_RW with a RowCache. `ti.Columns[col]` with
\* col = -1 is an index out of range: a panic.
InitRowCache ==
    /\ step = "idx"
    /\ \E poolClosed, nocache \in BOOLEAN, tableType \in {"BASE TABLE", "VIEW"} :
         LET skip == poolClosed \/ nocache \/ tableType = "VIEW" \/ pkNil
             \* PK positions at which the loop over PKColumns stops
             stop == {i \in DOMAIN pkCols :
                        pkCols[i] < 0 \/ columns[pkCols[i] + 1].cat = "other"}
         IN  \/ /\ skip
                /\ step' = "done" /\ UNCHANGED <<cacheType, hasCache>>
             \/ /\ ~skip /\ stop # {}
                /\ step' = IF pkCols[Min(stop)] < 0 THEN "panic" ELSE "done"
                /\ UNCHANGED <<cacheType, hasCache>>
             \/ /\ ~skip /\ stop = {}
                /\ step' = "done" /\ cacheType' = "rw" /\ hasCache' = TRUE
    /\ UNCHANGED <<db, columns, indexes, pkCols, pkNil>>

-----------------------------------------------------------------------------
(* SetPK, the explicit primary key override *)

\* Variant of SetPK that adds the columns to the existing PRIMARY index.
SetPKReusesPrimary(colnames) ==
    LET colnums == [i \in DOMAIN colnames |-> FindColumn(columns, colnames[i])]
    IN
    /\ SetPKCalls /\ step = "done"
    /\ \A i \in DOMAIN colnums : colnums[i] # -1
    /\ indexes' = IF indexes # <<>> /\ indexes[1].name = Primary
                  THEN [indexes EXCEPT ![1].columns = @ \o colnames,
                                       ![1].data = ColumnNames(columns)]
                  ELSE <<[name |-> Primary, columns |-> colnames,
                          data |-> ColumnNames(columns)]>> \o indexes
    /\ pkCols' = colnums
    /\ pkNil' = FALSE
    /\ UNCHANGED <<db, step, columns, cacheType, hasCache>>

\* Variant of SetPK that always overwrites Indexes[0].
SetPKAlwaysReplacesFirst(colnames) ==
    LET colnums == [i \in DOMAIN colnames |-> FindColumn(columns, colnames[i])]
        pkIndex == [name |-> Primary, columns |-> colnames,
                    data |-> ColumnNames(columns)]
    IN
    /\ SetPKCalls /\ step = "done"
    /\ \A i \in DOMAIN colnums : colnums[i] # -1
    /\ indexes' = IF indexes # <<>> THEN [indexes EXCEPT ![1] = pkIndex]
                  ELSE <<pkIndex>>
    /\ pkCols' = colnums
    /\ pkNil' = FALSE
    /\ UNCHANGED <<db, step, columns, cacheType, hasCache>>

\* A new PRIMARY index over `colnames` (error if a name is not a column)
\* with every column as DataColumns, put at position 0: replacing the
\* current PRIMARY, else shifting the other indexes down; PKColumns set.
SetPK(colnames) ==
    LET colnums == [i \in DOMAIN colnames |-> FindColumn(columns, colnames[i])]
        pkIndex == [name |-> Primary, columns |-> colnames,
                    data |-> ColumnNames(columns)]
    IN
    /\ SetPKCalls /\ step = "done"
    /\ \A i \in DOMAIN colnums : colnums[i] # -1
    /\ indexes' = IF indexes # <<>> /\ indexes[1].name = Primary
                  THEN [indexes EXCEPT ![1] = pkIndex]
                  ELSE <<pkIndex>> \o indexes
    /\ pkCols' = colnums
    /\ pkNil' = FALSE
    /\ UNCHANGED <<db, step, columns, cacheType, hasCache>>

\* SetPK's arguments: any list of at most two distinct names.
SetPKArgs == {<<>>} \cup {s \in DistinctSeqs(ColNames \cup {Unknown}) : Len(s) <= 2}

Next ==
    \/ FetchColumns \/ DDL \/ FetchIndexes \/ InitRowCache
    \/ \E colnames \in SetPKArgs : SetPK(colnames)

Spec == Init /\ [][Next]_vars

-----------------------------------------------------------------------------
(* Properties *)

Loaded == step \in {"idx", "done"}
SecondaryNames == SelectSeq(ColumnNames(indexes), LAMBDA n : n # Primary)

(* If the first index is PRIMARY, PKColumns name exactly its columns, in   *)
(* order, as positions into ti.Columns, and its DataColumns are all the    *)
(* table's columns (spec: "PK covers all").  Checked after fetchIndexes    *)
(* and after every SetPK.                                                  *)
PrimaryConsistent ==
    Loaded /\ indexes # <<>> /\ indexes[1].name = Primary =>
        /\ ~pkNil
        /\ Len(pkCols) = Len(indexes[1].columns)
        /\ \A i \in DOMAIN pkCols :
              pkCols[i] \in 0..Len(columns) - 1
              /\ columns[pkCols[i] + 1].name = indexes[1].columns[i]
        /\ ToSet(indexes[1].data) = ToSet(ColumnNames(columns))

(* A table cached read-write has a non-empty primary key whose columns all *)
(* exist and are of category number or varbinary.                          *)
CacheRWImpliesUsablePK ==
    cacheType = "rw" =>
        /\ hasCache /\ ~pkNil /\ pkCols # <<>>
        /\ \A i \in DOMAIN pkCols :
              pkCols[i] \in 0..Len(columns) - 1
              /\ columns[pkCols[i] + 1].cat \in {"number", "varbinary"}

(* SetPK never loses, duplicates or reorders a secondary index.           *)
SecondaryIndexesPreserved ==
    [][step = "done" => SecondaryNames' = SecondaryNames]_vars

(* NewTableInfo never panics on a table MySQL describes.                   *)
LoadNeverPanics == step # "panic"

=============================================================================
