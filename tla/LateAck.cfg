\* One thread, one call, answers later than the timeout.
SPECIFICATION Spec
CONSTANTS
    m1 = m1
    m2 = m2
    t1 = t1
    t2 = t2
    Motors = {m1}
    Threads = {t1}
    Regs <- TargetRegs
    Vals = {0, 1}
    Sensors = {}
    InitialFiles <- ZeroFile
    Calls <- SharedCalls
    InitialRetries = 2
    RetryCounts = {2}
    MaxRetries = 2
    MaxInFlight = 2
    OneCall = TRUE
    Timely = FALSE
    NoFrame = NoFrame
    NoVals = NoVals
INVARIANTS
    AckMeansApplied
