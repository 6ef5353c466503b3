\* Every method and every check; a program may print a line before it asks,
\* and ssh may turn the echo off after it asked.
SPECIFICATION Spec
CHECK_DEADLOCK FALSE
CONSTANTS
    Methods <- AllMethods
    Params <- NamePlusThree
    Environments <- UpToTwoVariables
    MaxTries = 3
    Notices = {"text"}
    LateEcho = {"ssh"}
    Killed = Killed
    Status = Status
    Again = Again
    None = None
INVARIANTS
    TypeOK
    ValuesMatch
    PasswordStaysWithProgram
    ResultIsSo
PROPERTIES
    PasswordNotDiscarded
    ExecReturns
