SPECIFICATION Spec
CONSTANTS
    MaxWord = 3
    MaxSeq = 2
    Bigram = FALSE
    None = None
INVARIANTS SameHoweverFast
CHECK_DEADLOCK FALSE
