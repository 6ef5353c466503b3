\* Three starts, any of which may overlap, fail, be killed or run commands.
SPECIFICATION Spec
CHECK_DEADLOCK FALSE
CONSTANTS
    p1 = p1
    p2 = p2
    p3 = p3
    NoFile = NoFile
    Link = Link
    None = None
    Procs <- ThreeStarts
    SystemErrors = TRUE
    ChildSignals = TRUE
INVARIANTS
    TypeOK
    ServerReachable
    StaleOnlyAfterCrash
PROPERTY
    StartEnds
