SPECIFICATION FairBarSpec
CONSTANTS
    MaxSession = 4
    MaxRun = 3
    MaxRestart = 1
    MaxField = 2
    Prebuffer = TRUE
INVARIANTS
    
    TransactionOwned
    FinishedWillCommit
PROPERTIES
    KeyboardComesBack
CHECK_DEADLOCK FALSE
