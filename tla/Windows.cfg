\* One thread owns the interface and sends; the other sends and receives.
SPECIFICATION FairSpec
CONSTANTS
    main = main
    other = other
    Users = {main, other}
    Ops <- OneOwner
    Reopen = FALSE
    Period = 2
    MaxInits = 2
    MaxSends = 3
    MaxFrames = 2
    NoThread = NoThread
INVARIANTS
    AnswerRate
    QueueAgrees
    NothingLeaked
    SimulationStaysHome
PROPERTIES
    CloseReturns
