CONSTANTS
    Fields <- MC_Fields
    FromProxy = TRUE
    Malformed = TRUE
SPECIFICATION Spec
INVARIANT TypeOK
INVARIANT ParseRecoversServerField
CHECK_DEADLOCK FALSE
