\* The status block of a joint state.
SPECIFICATION Spec
CONSTANTS
    m1 = m1
    m2 = m2
    t1 = t1
    t2 = t2
    Motors = {m1}
    Threads = {t1}
    Regs <- BlockRegs
    Vals = {0, 1, 80}
    Sensors = {}
    InitialFiles <- HealthyFile
    Calls <- SharedStateCalls
    InitialRetries = 2
    RetryCounts = {2}
    MaxRetries = 2
    MaxInFlight = 1
    OneCall = TRUE
    Timely = TRUE
    NoFrame = NoFrame
    NoVals = NoVals
INVARIANTS
    StatusTrue
