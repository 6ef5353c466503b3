CONSTANTS
    c1 = c1
    c2 = c2
    p1 = p1
    pw = pw
    cmd = cmd
    user = user
    env = env
    none = none
    group = group
    text = text
    name = name
    host = host
    Null = Null
    None = None
    NoEntry = NoEntry
    Root = Root
    Keys <- MCKeys
    Values = {pw, env, Null}
    Groups <- MCGroups
    NoGroup = none
    Specials <- MCSpecials
    PrefixOf <- MCPrefixOf
    OccursIn <- MCOccursIn
    Stemmed = {}
    TimeMod = 8
    Conns <- MCConns
    Foreign = {c2}
    ConnFds = {6}
    Pids = {p1}
    NormalPriority = 50
    SchedNormal = 0
    PipeRead = 1
    MaxTime = 2
    Requests <- MCRequests
    MaxRequests <- MCMaxRequests
    Pipelining = {}
    OneJob = FALSE
    Terminated = FALSE
SPECIFICATION Safe
CHECK_DEADLOCK FALSE
INVARIANTS
    FreshStore
    EnvironmentChecked
PROPERTY DelForgetsOwn
