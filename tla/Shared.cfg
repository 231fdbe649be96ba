\* Two threads on one motor, late answers, fair scheduling.
SPECIFICATION FairSpec
CONSTANTS
    m1 = m1
    m2 = m2
    t1 = t1
    t2 = t2
    Motors = {m1}
    Threads = {t1, t2}
    Regs <- BlockRegs
    Vals = {0, 65535}
    Sensors <- PositionHigh
    InitialFiles <- TwoValuedFile
    Calls <- SharedStateCalls
    InitialRetries = 1
    RetryCounts = {0, 1}
    MaxRetries = 1
    MaxInFlight = 1
    OneCall = TRUE
    Timely = FALSE
    NoFrame = NoFrame
    NoVals = NoVals
INVARIANTS
    ReadProvenance
    ResultsTrue
PROPERTIES
    EveryCallReturns
