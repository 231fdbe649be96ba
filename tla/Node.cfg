\* The node ends, so deadlock is not checked.
SPECIFICATION FairSpec
CONSTANTS
    Parameters <- Robots
    Commands <- SomeCommands
    Depth = 1
    Regs <- NodeRegs
    Vals = {0, 1, 65535}
    InitialFile <- Apart
    NoRequest = NoRequest
    NoCommand = NoCommand
    NoVals = NoVals
INVARIANTS
    JointsNamedRight
    LatestCommand
    MotorsOffAtExit
PROPERTIES
    SuccessMeansAll
    RequestsAnswered
CHECK_DEADLOCK FALSE
