CONSTANTS
    Fields <- MC_Fields
    FromProxy = TRUE
    Malformed = FALSE
SPECIFICATION Spec
INVARIANT DumpParsesBack
CHECK_DEADLOCK FALSE
