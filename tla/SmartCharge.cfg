\* Prices by planner slot (elprisetjustnu): the current price slot is none of the
\* planned ones.  Plans of four kinds beside the ad-hoc target; a ready-by may fall
\* inside a slot, targets are met with nothing, some or no time to spare.
SPECIFICATION ChargeSpec
CONSTANTS
    Slots = 6
    PerPrice = 1
    PerHour = 2
    Curves <- MCQuarters
    Capacity = 10
    MinSoc = 1
    Ids = {p1}
    Plans <- MCPlans
    NoPlan = noplan
    Socs = {8}
    Times = {12}
    Kwhs = {4}
    Unset = unset
    History <- MCHistory
    Night = {0}
INVARIANT PromiseKept
INVARIANT CheapestChosen
CHECK_DEADLOCK FALSE
