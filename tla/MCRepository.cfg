CONSTANTS
    v1 = v1
    Null = Null
    NoEntry = NoEntry
    Forever = Forever
    Keys <- MCKeys
    Values = {v1}
    Groups <- MCGroups
    NoGroup <- NoText
    Specials <- MCSpecials
    PrefixOf <- MCPrefixOf
    OccursIn <- MCOccursIn
    Stemmed <- MCStemmed
    Timeouts = {0, 1, 2}
    MaxTime = 2
    TimeMod = 8
SPECIFICATION Spec
INVARIANTS
    TypeOK
    HeadTimeBound
    NothingDueSwept
    KeysListed
PROPERTY AbstractSpec
