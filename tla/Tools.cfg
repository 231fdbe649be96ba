\* Moves that reach the maximum velocity or not, and the recovery of the motor; they
\* share the adapter.  Another thread may call stop in a move.
SPECIFICATION ToolsSpec
CONSTANTS
    VMax = 6
    AMax = 2
    DMax = 2
    ShortCruise = 2
    Positions <- Moves
    MinTimeout = 27
    MaxGap = 3
    Stoppable = TRUE
    Angles <- TwoAngles
    Codes = {0, 64, 16384, 32768}
    MaxLate = 1
    None = None
    Nobody = Nobody
INVARIANTS
    WithinMove
    NeverTimesOut
    SuccessIsReal
    ZeroForAReason
PROPERTIES
    RateLimited
    MoveReturns
    HoldsStill
