SPECIFICATION FairSpec
CONSTANTS
    Width = 3
    Cancellable = TRUE
    MaxTx = 10
    MaxRecorded = 11
INVARIANTS
    TypeOK
    SuccessesRecordedOnce
    NeverOverReported
PROPERTIES
    SuccessesRecorded
CHECK_DEADLOCK FALSE
