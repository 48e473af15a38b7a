---------------------------- MODULE PlanBuilder ----------------------------
(***************************************************************************)
(* The query analyser and rewriter (src/unnamed/part_002): GetExecPlan     *)
(* dispatches on the statement kind (analyzeSQL) and the analysers build   *)
(* an ExecPlan whose queries come from the Generate* rewriters.            *)
(*                                                                         *)
(* A query is a sequence of tokens (keywords, names, literals, bind        *)
(* variables, "," and parentheses); whitespace is left out. Statements     *)
(* are records with the parts the analysers look at. The analysers         *)
(* (analyzeSelect, analyzeUpdate, ...) and the parser's Format are not in  *)
(* this repository and are written from the specification (section 4.3).   *)
(***************************************************************************)
EXTENDS Integers, Sequences, SequencesExt, FiniteSets

CONSTANTS
    Tables,      \* the schema TableGetter sees: [name, columns, indexes]
    Statements   \* parsed statements a caller may submit

Primary == "PRIMARY"

\* A parsed statement; the parts a kind does not have are empty.
Stmt(kind, table, exprs, where, hints, join, limit, set, cols, onDup) ==
    [kind |-> kind, table |-> table, exprs |-> exprs, where |-> where,
     hints |-> hints, join |-> join, limit |-> limit, set |-> set,
     cols |-> cols, onDup |-> onDup]

Eq(c, v) == [col |-> c, op |-> "=", vals |-> <<v>>]
In(c, vs) == [col |-> c, op |-> "in", vals |-> vs]
NoQuery == <<>>     \* a nil *ParsedQuery
NoValues == <<>>    \* nil PKValues / SecondaryPKValues

\* execLimit: the implicit row cap.
execLimit == <<"limit", ":#maxLimit">>

BindVars == {":v", ":#pk", ":#values", ":#maxLimit"}

\* The table named n, as TableGetter returns it.
Known(n) == \E t \in Tables : t.name = n
TableNamed(n) == CHOOSE t \in Tables : t.name = n

\* The PRIMARY index's columns, empty without one.
PKColumns(t) ==
    IF t.indexes # <<>> /\ t.indexes[1].name = Primary
    THEN t.indexes[1].columns ELSE <<>>

-----------------------------------------------------------------------------
(* Format: how sqlparser prints the parts of a statement *)

RECURSIVE JoinWith(_, _)
JoinWith(seqs, sep) ==
    IF seqs = <<>> THEN <<>>
    ELSE IF Len(seqs) = 1 THEN Head(seqs)
    ELSE Head(seqs) \o sep \o JoinWith(Tail(seqs), sep)

CondTokens(c) ==
    IF c.op = "="
    THEN <<c.col, "=", c.vals[1]>>
    ELSE <<c.col, "in", "(">>
         \o JoinWith([i \in DOMAIN c.vals |-> <<c.vals[i]>>], <<",">>)
         \o <<")">>

WhereTokens(w) ==
    IF w = <<>> THEN <<>>
    ELSE <<"where">> \o JoinWith([i \in DOMAIN w |-> CondTokens(w[i])], <<"and">>)

HintTokens(idx) == <<"use", "index", "(", idx, ")">>

\* The FROM list: the table, its index hint, a joined table.
FromTokens(s) ==
    <<s.table>> \o (IF s.hints THEN HintTokens("idx") ELSE <<>>)
    \o (IF s.join = "none" THEN <<>>
        ELSE <<s.join, "j2", "on", "j2.a", "=", "a">>)

SetTokens(set) ==
    JoinWith([i \in DOMAIN set |-> <<set[i].col, "=", set[i].val>>], <<",">>)

Format(s) ==
    CASE s.kind = "select" ->
            <<"select">> \o s.exprs \o <<"from">> \o FromTokens(s)
            \o WhereTokens(s.where) \o s.limit
      [] s.kind = "union" -> <<"select", "a", "from", s.table, "union",
                               "select", "a", "from", "j2">>
      [] s.kind = "update" ->
            <<"update", s.table, "set">> \o SetTokens(s.set)
            \o WhereTokens(s.where)
      [] s.kind = "delete" -> <<"delete", "from", s.table>> \o WhereTokens(s.where)
      [] s.kind = "insert" ->
            <<"insert", "into", s.table, "(">> \o JoinWith([i \in DOMAIN s.cols |-> <<s.cols[i]>>], <<",">>)
            \o <<")", "values", "(", "1", ",", "x", ")">>
            \o IF s.onDup THEN <<"on", "duplicate", "key", "update", "a", "=", "1">> ELSE <<>>
      [] OTHER -> <<s.kind>>

-----------------------------------------------------------------------------
(* The rewriters *)

GenerateFullQuery(s) == Format(s)

HasBindVars(q) == \E i \in DOMAIN q : q[i] \in BindVars

\* FormatImpossible: selects get `where 1 != 1` (their limit is dropped
\* with the WHERE), a LEFT or RIGHT join `on 1 != 1`, another join no ON.
FormatImpossible(s) ==
    LET sel(exprs, tbl) == <<"select">> \o exprs \o <<"from">> \o tbl
                           \o <<"where", "1", "!=", "1">>
    IN  CASE s.kind = "select" ->
               sel(s.exprs, <<s.table>> \o (IF s.hints THEN HintTokens("idx") ELSE <<>>)
                   \o CASE s.join = "none" -> <<>>
                        [] s.join \in {"left join", "right join"} ->
                              <<s.join, "j2", "on", "1", "!=", "1">>
                        [] OTHER -> <<s.join, "j2">>)
          [] s.kind = "union" ->
               sel(<<"a">>, <<s.table>>) \o <<"union">> \o sel(<<"a">>, <<"j2">>)
          [] OTHER -> Format(s)

GenerateFieldQuery(s) ==
    LET q == FormatImpossible(s) IN IF HasBindVars(q) THEN NoQuery ELSE q

\* Mutant: the limit is replaced even when the select has one.
GenerateSelectLimitQueryAlways(s) ==
    Format(IF s.kind = "select" THEN [s EXCEPT !.limit = execLimit] ELSE s)

\* The select as written, with execLimit while it has no limit (the
\* deferred reset leaves the statement as it was).
GenerateSelectLimitQuery(s) ==
    Format(IF s.kind = "select" /\ s.limit = <<>> THEN [s EXCEPT !.limit = execLimit]
                                                  ELSE s)

\* writeColumnList and GenerateSubquery's column loop: `columns[i]` after
\* the loop indexes an empty list, which panics.
WriteColumnsPanics(cols) == cols = <<>>

ColumnList(cols) ==
    JoinWith([i \in DOMAIN cols |-> <<cols[i]>>], <<",">>)

\* Mutant: the statement's select list instead of every column of the table.
GenerateSelectOuterQueryExprs(s, t) ==
    <<"select">> \o s.exprs \o <<"from">> \o FromTokens(s) \o <<"where", ":#pk">>

GenerateSelectOuterQuery(s, t) ==
    <<"select">> \o ColumnList(t.columns)
    \o <<"from">> \o FromTokens(s) \o <<"where", ":#pk">>

GenerateInsertOuterQuery(s) ==
    <<"insert", "into", s.table, "(">> \o ColumnList(s.cols)
    \o <<")", "values", ":#values">>
    \o IF s.onDup THEN <<"on", "duplicate", "key", "update", "a", "=", "1">> ELSE <<>>

GenerateUpdateOuterQuery(s) ==
    <<"update", s.table, "set">> \o SetTokens(s.set) \o <<"where", ":#pk">>

GenerateDeleteOuterQuery(s) == <<"delete", "from", s.table, "where", ":#pk">>

\* Mutant: the limit is not defaulted to execLimit.
GenerateSubqueryNoDefault(columns, table, where, limit, forUpdate) ==
    <<"select">> \o ColumnList(columns) \o <<"from">> \o table
    \o WhereTokens(where) \o limit
    \o IF forUpdate THEN <<"for", "update">> ELSE <<>>

\* `select c1, ..., cn from <table><where><limit>[ for update]`, the limit
\* defaulting to execLimit.
GenerateSubquery(columns, table, where, limit, forUpdate) ==
    <<"select">> \o ColumnList(columns) \o <<"from">> \o table
    \o WhereTokens(where) \o (IF limit = <<>> THEN execLimit ELSE limit)
    \o IF forUpdate THEN <<"for", "update">> ELSE <<>>

\* Mutant: the columns of the index chosen instead of Indexes[0]'s.
GenerateSelectSubqueryIndexCols(s, t, index) ==
    GenerateSubquery((CHOOSE x \in ToSet(t.indexes) : x.name = index).columns,
                     <<s.table>> \o HintTokens(index), s.where, s.limit, FALSE)

\* The select's table with its hint replaced by `use index (index)`; the
\* columns are those of tableInfo.Indexes[0].
GenerateSelectSubquery(s, t, index) ==
    GenerateSubquery(t.indexes[1].columns, <<s.table>> \o HintTokens(index),
                     s.where, s.limit, FALSE)

\* The pre-read of an UPDATE or DELETE: Indexes[0]'s columns, its WHERE and
\* LIMIT, FOR UPDATE (statements carry no ORDER BY in this model).
GenerateUpdateSubquery(s, t) ==
    GenerateSubquery(t.indexes[1].columns, <<s.table>>, s.where, s.limit, TRUE)

GenerateDeleteSubquery(s, t) ==
    GenerateSubquery(t.indexes[1].columns, <<s.table>>, s.where, s.limit, TRUE)

\* Indexes[0] of a table without indexes, or an empty column list, panics.
SubqueryPanics(t) ==
    t.indexes = <<>> \/ WriteColumnsPanics(t.indexes[1].columns)

-----------------------------------------------------------------------------
(* The analysers (specification, section 4.3) *)

PlanIds == {"pass-select", "pass-dml", "pk-equal", "pk-in", "select-subquery",
            "dml-pk", "dml-subquery", "insert-pk", "set", "ddl", "other"}

\* An ExecPlan with only PlanId and Reason set.
NewPlan(id, reason, s) ==
    [st |-> "ok", planId |-> id, reason |-> reason, table |-> s.table,
     fullQuery |-> NoQuery, fieldQuery |-> NoQuery, outerQuery |-> NoQuery,
     subquery |-> NoQuery, indexUsed |-> "", pkValues |-> NoValues,
     secondaryPKValues |-> NoValues]

Failed(why) == [st |-> why]

EqCols(w) == {w[i].col : i \in {j \in DOMAIN w : w[j].op = "="}}

\* The WHERE is a conjunction of equalities covering exactly the PK.
WhereIsPK(w, t) ==
    LET pk == PKColumns(t) IN
    /\ pk # <<>> /\ Len(w) = Len(pk)
    /\ \A i \in DOMAIN w : w[i].op = "="
    /\ EqCols(w) = ToSet(pk)

\* The one PK tuple: the value compared with each PK column.
PKTuple(w, t) ==
    LET pk == PKColumns(t) IN
    [i \in DOMAIN pk |->
        w[CHOOSE j \in DOMAIN w : w[j].col = pk[i]].vals[1]]

\* Secondary indexes whose leading column the WHERE compares for equality.
UsableIndexes(w, t) ==
    {i \in DOMAIN t.indexes :
        /\ t.indexes[i].name # Primary
        /\ t.indexes[i].columns # <<>>
        /\ t.indexes[i].columns[1] \in EqCols(w)}

AnalyzeSelect(s) ==
    IF ~Known(s.table) THEN Failed("err") ELSE
    LET t == TableNamed(s.table)
        base == [NewPlan("pass-select", "none", s) EXCEPT
                    !.fullQuery = GenerateSelectLimitQuery(s),
                    !.fieldQuery = GenerateFieldQuery(s)]
        usable == UsableIndexes(s.where, t)
    IN  CASE s.join # "none" -> [base EXCEPT !.reason = "table"]
          [] s.hints -> [base EXCEPT !.reason = "has-hints"]
          [] WhereIsPK(s.where, t) ->
                [base EXCEPT !.planId = "pk-equal",
                   !.outerQuery = GenerateSelectOuterQuery(s, t),
                   !.pkValues = PKTuple(s.where, t)]
          [] Len(s.where) = 1 /\ s.where[1].op = "in"
             /\ PKColumns(t) = <<s.where[1].col>> ->
                [base EXCEPT !.planId = "pk-in",
                   !.outerQuery = GenerateSelectOuterQuery(s, t),
                   !.pkValues = s.where[1].vals]
          [] usable # {} ->
                LET idx == t.indexes[Min(usable)].name IN
                IF SubqueryPanics(t) THEN Failed("panic")
                ELSE [base EXCEPT !.planId = "select-subquery",
                        !.outerQuery = GenerateSelectOuterQuery(s, t),
                        !.subquery = GenerateSelectSubquery(s, t, idx),
                        !.indexUsed = idx]
          [] OTHER -> [base EXCEPT !.reason = "table-noindex"]

\* The new PK tuple of an UPDATE that assigns a PK column, else nil.
NewPKTuple(s, t) ==
    LET pk == PKColumns(t)
        old == PKTuple(s.where, t)
        setCols == {s.set[i].col : i \in DOMAIN s.set}
        newVal(c) == s.set[CHOOSE i \in DOMAIN s.set : s.set[i].col = c].val
    IN  IF setCols \cap ToSet(pk) = {} THEN NoValues
        ELSE <<[i \in DOMAIN pk |-> IF pk[i] \in setCols THEN newVal(pk[i])
                                    ELSE old[i]]>>

\* analyzeUpdate and analyzeDelete: an unknown table, no WHERE, or a table
\* whose rows a PK pre-read cannot bound (no Indexes[0] to select) falls
\* back to pass-dml.
AnalyzeDML(s) ==
    LET base == [NewPlan("pass-dml", "none", s) EXCEPT
                    !.fullQuery = GenerateFullQuery(s)]
    IN
    IF ~Known(s.table) \/ s.where = <<>> THEN base ELSE
    LET t == TableNamed(s.table)
        outer == IF s.kind = "update" THEN GenerateUpdateOuterQuery(s)
                 ELSE GenerateDeleteOuterQuery(s)
    IN  IF WhereIsPK(s.where, t)
        THEN LET spk == IF s.kind = "update" THEN NewPKTuple(s, t) ELSE NoValues
             IN  [base EXCEPT !.planId = "dml-pk", !.outerQuery = outer,
                    !.pkValues = PKTuple(s.where, t),
                    !.secondaryPKValues = spk,
                    !.reason = IF spk # NoValues THEN "pk-change" ELSE "none"]
        ELSE IF SubqueryPanics(t) THEN base
        ELSE [base EXCEPT !.planId = "dml-subquery", !.outerQuery = outer,
                !.subquery = IF s.kind = "update"
                             THEN GenerateUpdateSubquery(s, t)
                             ELSE GenerateDeleteSubquery(s, t)]

\* analyzeInsert: a row literal per row, the PK values taken from it.
AnalyzeInsert(s) ==
    LET base == [NewPlan("pass-dml", "none", s) EXCEPT
                    !.fullQuery = GenerateFullQuery(s)]
        row == <<"1", "x">>
        pos(c) == CHOOSE i \in DOMAIN s.cols : s.cols[i] = c
    IN  CASE ~Known(s.table) -> base
          [] s.onDup -> [base EXCEPT !.reason = "upsert"]
          [] OTHER ->
               LET pk == PKColumns(TableNamed(s.table)) IN
               [base EXCEPT !.planId = "insert-pk",
                  !.outerQuery = GenerateInsertOuterQuery(s),
                  !.pkValues = <<[i \in DOMAIN pk |-> row[pos(pk[i])]]>>]

-----------------------------------------------------------------------------
(* analyzeSQL and GetExecPlan *)

\* Variant of analyzeSQL that returns a nil plan and no error for an
\* unclassified statement.
analyzeSQLOtherNil(s) ==
    CASE s.kind = "union" ->
            [NewPlan("pass-select", "select", s) EXCEPT
                !.fieldQuery = GenerateFieldQuery(s),
                !.fullQuery = GenerateFullQuery(s)]
      [] s.kind = "select" -> AnalyzeSelect(s)
      [] s.kind = "insert" -> AnalyzeInsert(s)
      [] s.kind \in {"update", "delete"} -> AnalyzeDML(s)
      [] s.kind = "set" -> NewPlan("set", "none", s)
      [] s.kind = "ddl" -> NewPlan("ddl", "none", s)
      [] s.kind = "other" -> Failed("nil")
      [] OTHER -> Failed("err")

\* The type switch of analyzeSQL; a statement of a type it has no case for
\* (a *sqlparser.Replace among them) is "invalid SQL".
analyzeSQL(s) ==
    CASE s.kind = "union" ->
            [NewPlan("pass-select", "select", s) EXCEPT
                !.fieldQuery = GenerateFieldQuery(s),
                !.fullQuery = GenerateFullQuery(s)]
      [] s.kind = "select" -> AnalyzeSelect(s)
      [] s.kind = "insert" -> AnalyzeInsert(s)
      [] s.kind \in {"update", "delete"} -> AnalyzeDML(s)
      [] s.kind = "set" -> NewPlan("set", "none", s)
      [] s.kind = "ddl" -> NewPlan("ddl", "none", s)
      [] s.kind = "other" -> NewPlan("other", "none", s)
      [] OTHER -> Failed("err")

VARIABLES
    stmt,    \* the statement submitted (a "garbage" one does not parse)
    plan,    \* what GetExecPlan returned
    phase    \* "submitted" or "done"

vars == <<stmt, plan, phase>>

Init == stmt \in Statements /\ plan = Failed("none") /\ phase = "submitted"

\* sqlparser.Parse, then analyzeSQL; a parse or analysis error is returned.
GetExecPlan ==
    /\ phase = "submitted"
    /\ plan' = IF stmt.kind = "garbage" THEN Failed("err") ELSE analyzeSQL(stmt)
    /\ phase' = "done"
    /\ UNCHANGED stmt

Next == GetExecPlan

Spec == Init /\ [][Next]_vars

-----------------------------------------------------------------------------
(* Properties *)

Queries == Seq(STRING)

TypeOK ==
    /\ stmt \in Statements
    /\ phase \in {"submitted", "done"}
    /\ plan.st \in {"none", "ok", "err", "panic"}
    /\ phase = "done" => plan.st # "none"
    /\ plan.st = "ok" =>
         /\ plan.planId \in PlanIds
         /\ {plan.fullQuery, plan.fieldQuery, plan.outerQuery, plan.subquery}
              \subseteq Queries

Done == phase = "done" /\ plan.st = "ok"

\* Positions of token x in query q.
Occurrences(q, x) == {i \in DOMAIN q : q[i] = x}

(* A pre-read Subquery returns the primary key: the rows it selects are   *)
(* fetched again by the OuterQuery `where :#pk`, so the columns listed     *)
(* after `select` must be the table's PK columns in PK order. The          *)
(* rewriter takes them from tableInfo.Indexes[0], whatever that index is.  *)
SubqueryReturnsPK ==
    Done /\ plan.subquery # NoQuery =>
        LET pk == PKColumns(TableNamed(plan.table))
            cl == ColumnList(pk)
        IN  /\ pk # <<>>
            /\ SubSeq(plan.subquery, 2, Len(cl) + 1) = cl
            /\ plan.subquery[Len(cl) + 2] = "from"

(* Every pre-read is bounded: a Subquery carries exactly one LIMIT (the    *)
(* statement's, else :#maxLimit) and ends with FOR UPDATE exactly when it  *)
(* serves a DML.                                                           *)
PreReadBounded ==
    Done /\ plan.subquery # NoQuery =>
        /\ Cardinality(Occurrences(plan.subquery, "limit")) = 1
        /\ IsSuffix(<<"for", "update">>, plan.subquery)
             <=> plan.planId = "dml-subquery"

(* Every SELECT's FullQuery is capped: it ends with the statement's own    *)
(* LIMIT if it has one, with `limit :#maxLimit` otherwise, and has no      *)
(* other LIMIT.                                                            *)
SelectsCapped ==
    Done /\ stmt.kind = "select" =>
        /\ IsSuffix(IF stmt.limit = <<>> THEN execLimit ELSE stmt.limit,
                    plan.fullQuery)
        /\ Cardinality(Occurrences(plan.fullQuery, "limit")) = 1

(* The end-to-end scenarios of the specification (section 8) on table    *)
(* t(pk PRIMARY, a, b) with secondary index idx(a) (the scenarios'        *)
(* idx_col is a): each statement gets the plan and the queries listed.     *)
Sel(where) == Stmt("select", "t", <<"a">>, where, FALSE, "none", <<>>, <<>>, <<>>, FALSE)
Scenario1 == Stmt("select", "t", <<"a", ",", "b">>, <<Eq("pk", "5")>>, FALSE,
                  "none", <<>>, <<>>, <<>>, FALSE)
Scenario2 == Sel(<<In("pk", <<"1", "2", "3">>)>>)
Scenario3 == Sel(<<Eq("a", "7")>>)
Upd(col, v) == Stmt("update", "t", <<>>, <<Eq("pk", "5")>>, FALSE, "none", <<>>,
                    <<[col |-> col, val |-> v]>>, <<>>, FALSE)
Scenario6 == Stmt("insert", "t", <<>>, <<>>, FALSE, "none", <<>>, <<>>,
                  <<"pk", "a">>, TRUE)

SpecScenarios ==
    Done =>
      /\ stmt = Scenario1 =>
           /\ plan.planId = "pk-equal" /\ plan.pkValues = <<"5">>
           /\ plan.outerQuery = <<"select", "pk", ",", "a", ",", "b", "from",
                                  "t", "where", ":#pk">>
      /\ stmt = Scenario2 =>
           plan.planId = "pk-in" /\ plan.pkValues = <<"1", "2", "3">>
      /\ stmt = Scenario3 =>
           /\ plan.planId = "select-subquery" /\ plan.indexUsed = "idx"
           /\ plan.subquery = <<"select", "pk", "from", "t", "use", "index",
                                "(", "idx", ")", "where", "a", "=", "7",
                                "limit", ":#maxLimit">>
      /\ stmt = Upd("a", "1") =>
           plan.planId = "dml-pk" /\ plan.secondaryPKValues = NoValues
      /\ stmt = Upd("pk", "6") =>
           /\ plan.planId = "dml-pk" /\ plan.reason = "pk-change"
           /\ plan.secondaryPKValues = <<<<"6">>>>
      /\ stmt = Scenario6 => plan.planId = "pass-dml" /\ plan.reason = "upsert"

(* Every statement the parser accepts gets a plan of the kind the spec's  *)
(* dispatch table (section 4.3) gives it, a select on an unknown table     *)
(* being the one error: a union is a pass-select, an INSERT or a REPLACE   *)
(* is an insert-pk or falls back to pass-dml, an UPDATE or DELETE is a     *)
(* DML plan, and SET, DDL and the others get their own plan. In           *)
(* particular GetExecPlan never panics on a statement that parses.         *)
SpecDispatch ==
    phase = "done" /\ stmt.kind # "garbage" =>
        /\ plan.st = "ok" \/ (stmt.kind = "select" /\ ~Known(stmt.table))
        /\ stmt.kind = "union" => plan.planId = "pass-select"
        /\ stmt.kind \in {"insert", "replace"} =>
              plan.planId \in {"pass-dml", "insert-pk"}
        /\ stmt.kind \in {"update", "delete"} =>
              plan.planId \in {"pass-dml", "dml-pk", "dml-subquery"}
        /\ stmt.kind \in {"set", "ddl", "other"} => plan.planId = stmt.kind

====
