SPECIFICATION Spec
CONSTANTS
    Width = 4
    Cancellable = TRUE
    MaxTx = 6
    MaxRecorded = 7
INVARIANTS
    FailuresRecordedOnce
