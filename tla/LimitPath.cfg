\* A plan that pauses or asks for more than the charger takes, with every
\* disturbance of socket, call and charger until the surroundings settle.
SPECIFICATION LimitSpec
CONSTANTS
    Values = {0, 8, 10}
    NoValue = none
    MinInterval = 2
    Targets = {0, 16}
    MaxA = 10
    DeadbandA = 1
    BootA = 6
    MaxCalls = 2
INVARIANT ReassertedAfterReconnect
PROPERTY AtMostTwoWritesPerInterval
PROPERTY TickCompletes
PROPERTY WrittenLimitIsEnforced
