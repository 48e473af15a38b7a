CONSTANTS
    Tables <- MC_AllTables
    Statements <- MC_Statements
SPECIFICATION Spec
INVARIANT SpecDispatch
CHECK_DEADLOCK FALSE
