\* Two threads control monitoring, and the callback may call the driver: it can end in std::terminate or block, so deadlock is not checked.
SPECIFICATION FairSpec
CONSTANTS
    main = main
    other = other
    Users = {main, other}
    Ops <- TwoControllers
    Callbacks = {cb1, cb2}
    IdLists <- Lists
    MaxStarts = 3
    Reentrant = TRUE
    NoCallback = NoCallback
    NoThread = NoThread
INVARIANTS
    QuietAfterStop
    NeverTerminates
    LatestCallback
PROPERTIES
    IdsStable
    StopReturns
CHECK_DEADLOCK FALSE
