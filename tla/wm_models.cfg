SPECIFICATION Spec
CONSTANTS
    Keys = {k1, k2}
    Engines = {e1, e2}
    Jobs = {j1, j2}
    CleanUps = {c1, c2}
    None = None
INVARIANTS WhisperTypeOK InfersOnOpenEngine FaultsNeedOverlap
PROPERTY WorkEnds
CHECK_DEADLOCK FALSE
