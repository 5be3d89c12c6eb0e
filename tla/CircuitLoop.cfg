\* Two loadpoints of 5 and 4 A on a fuse of 8 A, a 3 A minimum: beside the larger
\* load there is room for one charger, beside the smaller for two at the minimum;
\* a car wants nothing or as much as it can get.
SPECIFICATION LoopSpec
CONSTANTS
    N = 2
    MinA = 3
    Hysteresis = 1
    Deadband = 1
    NoValue = none
    MaxA <- MCMaxA
    BreakerA = 8
    ReserveA = 1
    Loads = {0, 4}
    Demands = {0, 5}
    Asks = {"disabled", "smart", "fast"}
    Worsts <- MCWorsts
    Statics = {5}
    CalmTicks = 3
INVARIANT SplitWithinBudget
INVARIANT LoopComesToRest
INVARIANT RestsBelowFuse
