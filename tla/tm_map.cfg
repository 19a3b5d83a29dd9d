SPECIFICATION Spec
CONSTANTS
    Keys <- MCKeys
    Values <- MCValues
    NotValid = 0
    Depth = 2
    NGrams <- MCNGrams
    VALUE_MASK = 2
    MaxEntries = 20
    MaxOps = 4
INVARIANTS TrieMapTypeOK TablesDisjoint IterationComplete
PROPERTY Implements
CHECK_DEADLOCK FALSE
