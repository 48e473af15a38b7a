--------------------------- MODULE MC_TableInfo ---------------------------
(* Model-checking instance of TableInfo: tables over two column names.     *)
EXTENDS TableInfo
=============================================================================
