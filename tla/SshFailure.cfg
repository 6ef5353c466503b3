\* The stub on the other host makes a request that converseStub() does not know.
SPECIFICATION Spec
CHECK_DEADLOCK FALSE
CONSTANTS
    Methods <- OnlySsh
    Params <- NamePlusThree
    Environments <- UpToTwoVariables
    MaxTries = 3
    Notices = {"text"}
    LateEcho = {"ssh"}
    Killed = Killed
    Status = Status
    Again = Again
    None = None
INVARIANT FailureShows
