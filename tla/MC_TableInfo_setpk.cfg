\* NewTableInfo, then any number of SetPK calls.
CONSTANTS
    ColNames = {a, b}
    Unknown = x
    SecName = "idx"
    DDLRace = FALSE
    SetPKCalls = TRUE
SPECIFICATION Spec
CHECK_DEADLOCK FALSE
INVARIANT PrimaryConsistent
PROPERTY SecondaryIndexesPreserved
