CONSTANTS
    Tables <- MC_KeyedTables
    Statements <- MC_Statements
SPECIFICATION Spec
INVARIANT TypeOK
INVARIANT SubqueryReturnsPK
INVARIANT PreReadBounded
INVARIANT SelectsCapped
INVARIANT SpecScenarios
CHECK_DEADLOCK FALSE
