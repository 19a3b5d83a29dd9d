SPECIFICATION FairSpec
CONSTANTS
    MaxSession = 2
    MaxMic = 2
    MaxRun = 2
    MaxRestart = 1
    Passes = 2
    Groq = "single"
INVARIANTS
    TypeOK
    
    
PROPERTIES
    EveryFinishAnswered
CHECK_DEADLOCK FALSE
