\* Two starts at the same time; nothing fails and nothing is killed.
SPECIFICATION Spec
CHECK_DEADLOCK FALSE
CONSTANTS
    p1 = p1
    p2 = p2
    p3 = p3
    NoFile = NoFile
    Link = Link
    None = None
    Procs <- TwoStarts
    SystemErrors = FALSE
    ChildSignals = FALSE
INVARIANT
    OneDaemon
