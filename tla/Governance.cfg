SPECIFICATION FairSpec
CONSTANTS
    Ids = {1, 2}
    Periods = {1, 2}
    MinDeposit = 2
    MaxDepositPeriod = 1
    KeeperWired = TRUE
    Absent = absent
    MaxDeposit = 3
    LastSubmission = 2
    MaxGap = 2
    MaxTime = 7
INVARIANTS
    TypeOK
    QueueConsistent
    DepositsAccountedFor
    NeverHalts
PROPERTIES
    DecidedOnce
    RegistrationPeriod
    Resolved
