\* Every public call, made once; it ends there, so deadlock is not checked.
SPECIFICATION Spec
CONSTANTS
    Motors = {1, 17, 33}
    Regs <- BlockRegs
    Vals = {0, 1, 65535}
    InitialFiles <- MixedFiles
    MotorCalls <- ToMotors
    SimulatedCalls <- InSimulation
    RetryCounts = {0, 2, 3}
    Period = 10
    NoFrame = NoFrame
    NoVals = NoVals
INVARIANTS
    FailsForAReason
    SettingsReadBack
    BuildersAgree
    SimulationLimits
PROPERTIES
    WireImplementsService
CHECK_DEADLOCK FALSE
