\* NewTableInfo, with a DDL possible between describe and show index.
CONSTANTS
    ColNames = {a, b}
    Unknown = x
    SecName = "idx"
    DDLRace = TRUE
    SetPKCalls = FALSE
SPECIFICATION Spec
\* NewTableInfo returns (or fails) and nothing further happens.
CHECK_DEADLOCK FALSE
INVARIANT LoadNeverPanics
