SPECIFICATION Spec
CONSTANTS
    Words <- MCWords
    Pairs <- MCPairs
    SizeLimit = 4
    MaxOld = 1
    None = None
INVARIANTS DictTypeOK IdsLeadBack TreeOK
PROPERTY ImplementsStore
