SPECIFICATION Spec
CONSTANTS
    MaxSession = 3
    MaxMic = 3
    MaxRun = 1
    MaxRestart = 1
    Passes = 1
    Groq = "two"
INVARIANTS
    MicExclusive
    
    RecordingIsLive
    
    

    
CHECK_DEADLOCK FALSE
