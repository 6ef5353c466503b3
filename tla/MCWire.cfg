CONSTANTS
    IntMax = 12
    Programs = {"client", "pipeline", "stranger"}
    ClientCalls <- MCCalls
    RawLines <- MCRawLines
    KeyLists <- MCKeyLists
    ExitCodes = {0, 12}
    Window = 2
    MaxCalls <- MCMaxCalls
    BufSize = 21
SPECIFICATION Spec
CHECK_DEADLOCK FALSE
INVARIANTS
    TypeOK
    LexerStaysInside
    ClosedForCause
PROPERTIES
    CallsReturn
    CallsAsMade
