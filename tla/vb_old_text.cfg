SPECIFICATION BarSpec
CONSTANTS
    MaxSession = 3
    MaxRun = 2
    MaxRestart = 1
    MaxField = 2
    Prebuffer = TRUE
INVARIANTS
    OwnTransaction
CHECK_DEADLOCK FALSE
