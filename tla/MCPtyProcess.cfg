CONSTANTS
    Tearing = {TRUE, FALSE}
    Commands <- MCCommands
    Variables <- MCVariables
    Notices <- MCNotices
    Outputs <- MCOutputs
    MaxOutputs = 2
    ExitString <- MCExitString
    Header <- MCHeader
    AskCommand <- MCAskCommand
    AskEnvironment <- MCAskEnvironment
    End <- MCEnd
    None = None
SPECIFICATION Spec
CHECK_DEADLOCK FALSE
INVARIANTS
    TypeOK
    StubGetsStrings
    SignalledForLine
    NothingDropped
PROPERTY WaitEnds
