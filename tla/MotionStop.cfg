\* Another thread calls stop.
SPECIFICATION Spec
CONSTANTS
    VMax = 6
    AMax = 2
    DMax = 2
    ShortCruise = 1
    Positions <- LongMoves
    MinTimeout = 27
    MaxGap = 3
    Stoppable = TRUE
PROPERTIES
    StopStops
