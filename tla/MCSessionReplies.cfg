CONSTANTS
    c1 = c1
    c2 = c2
    p1 = p1
    p2 = p2
    pw = pw
    cmd = cmd
    user = user
    none = none
    Null = Null
    None = None
    NoEntry = NoEntry
    Root = Root
    Keys <- MCKeys
    Values = {pw, Null}
    Groups = {none}
    NoGroup = none
    Specials = {}
    PrefixOf = {}
    OccursIn = {}
    Stemmed = {}
    TimeMod = 8
    Conns <- MCConns
    Foreign = {}
    ConnFds = {6, 7}
    Pids = {p1}
    NormalPriority = 50
    SchedNormal = 0
    PipeRead = 1
    MaxTime = 0
    Requests <- MCOneHasPassword
    MaxRequests <- MCUnequal
    Pipelining = {c2}
    OneJob = TRUE
    Terminated = TRUE
SPECIFICATION Spec
CHECK_DEADLOCK FALSE
INVARIANTS
    RepliesMatch
    ExitIsOfLastCommand
PROPERTY CommandsReturn
