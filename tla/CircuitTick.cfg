\* Two loadpoints of 5 and 4 A on a budget of 6 A, a 3 A minimum: both at the
\* minimum or one at its ceiling, never both.  The first reverts its boosts.
SPECIFICATION TickSpec
CONSTANTS
    N = 2
    MinA = 3
    Hysteresis = 1
    Deadband = 1
    NoValue = none
    MaxA <- MCMaxA
    BudgetA = 6
    AutoRevert = {1}
    Grace = 0
    Ticks = {t1, t2}
INVARIANT QuietIsCurrent
INVARIANT QuietWithinBudget
PROPERTY SettledIsApplied
PROPERTY BoostEnds
