\* Two threads, a motor each, answers within the timeout.
SPECIFICATION Spec
CONSTANTS
    m1 = m1
    m2 = m2
    t1 = t1
    t2 = t2
    Motors = {m1, m2}
    Threads = {t1, t2}
    Regs <- TargetRegs
    Vals = {0, 1}
    Sensors = {}
    InitialFiles <- ZeroFile
    Calls <- ExclusiveCalls
    InitialRetries = 2
    RetryCounts = {2}
    MaxRetries = 2
    MaxInFlight = 1
    OneCall = FALSE
    Timely = TRUE
    NoFrame = NoFrame
    NoVals = NoVals
INVARIANTS
    AckMeansApplied
    PrefixApplied
PROPERTIES
    FreshRead
    NoWriteAfterReturn
    ServiceSpec
