-------------------------- MODULE MC_PlanBuilder --------------------------
EXTENDS PlanBuilder

Idx(name, cols) == [name |-> name, columns |-> cols]

\* t(pk PRIMARY, a, b) with idx(a); w with the composite key (pk, a) and
\* idx(b); u without a primary key; v without any index.
TableT == [name |-> "t", columns |-> <<"pk", "a", "b">>,
           indexes |-> <<Idx(Primary, <<"pk">>), Idx("idx", <<"a">>)>>]
TableW == [name |-> "w", columns |-> <<"a", "pk", "b">>,
           indexes |-> <<Idx(Primary, <<"pk", "a">>), Idx("idx", <<"b">>)>>]
TableU == [name |-> "u", columns |-> <<"a", "b">>,
           indexes |-> <<Idx("idx", <<"a">>)>>]
TableV == [name |-> "v", columns |-> <<"a", "b">>, indexes |-> <<>>]

MC_KeyedTables == {TableT, TableW}
MC_AllTables == {TableT, TableW, TableU, TableV}

TableNames == {"t", "w", "u", "v", "nosuch"}

Wheres == {<<>>, <<Eq("pk", "5")>>, <<Eq("a", "7")>>, <<Eq("b", "1")>>,
           <<Eq("pk", "5"), Eq("a", "7")>>, <<Eq("pk", ":v")>>,
           <<In("pk", <<"1", "2", "3">>)>>, <<Eq("a", "7"), Eq("b", "1")>>}

MC_Statements ==
    {Stmt("select", tb, <<"a">>, w, h, j, l, <<>>, <<>>, FALSE) :
        tb \in TableNames, w \in Wheres, h \in BOOLEAN,
        j \in {"none", "join", "left join"}, l \in {<<>>, <<"limit", "10">>}}
    \cup {Stmt(k, tb, <<>>, w, FALSE, "none", <<>>,
               IF k = "update" THEN st ELSE <<>>, <<>>, FALSE) :
            k \in {"update", "delete"}, tb \in TableNames, w \in Wheres,
            st \in {<<[col |-> "a", val |-> "1"]>>, <<[col |-> "pk", val |-> "6"]>>}}
    \cup {Stmt(k, tb, <<>>, <<>>, FALSE, "none", <<>>, <<>>,
               <<"pk", "a">>, od) : k \in {"insert", "replace"},
                                    tb \in TableNames, od \in BOOLEAN}
    \cup {Stmt(k, "t", <<>>, <<>>, FALSE, "none", <<>>, <<>>, <<>>, FALSE) :
            k \in {"union", "set", "ddl", "other", "garbage"}}
    \cup {Scenario1}

====
