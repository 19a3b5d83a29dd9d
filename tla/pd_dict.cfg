SPECIFICATION Spec
CONSTANTS
    Insts = {i1, i2}
    MaxChanges = 2
    MaxUpdates = 2
    MaxQueue = 2
    MaxFaults = 1
    MaxKills = 1
    None = None
    Torn = Torn
INVARIANTS
    PersonalTypeOK
    SavedOnDisk
    FreshUnlessMissed
    ReloadingHasTask
PROPERTIES
    UsableInTheEnd
CHECK_DEADLOCK FALSE
