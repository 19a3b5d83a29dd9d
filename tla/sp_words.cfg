SPECIFICATION FairSpec
CONSTANTS
    MaxWord = 3
    MaxSeq = 3
    Bigram = TRUE
    None = None
INVARIANTS SuggestTypeOK CommitsOwnWord
PROPERTIES StripCatchesUp
CHECK_DEADLOCK FALSE
