\* The thresholds keep the order of the code's 60 s, 90 s and 180 s.  An app car on
\* a charger that can do everything, with every disturbance until it settles.
SPECIFICATION SessionSpec
CONSTANTS
    None = none
    GraceUnits = 2
    CooldownUnits = 3
    MaxActions = 3
    SettleUnits = 1
    Levers = {"remote-start", "resume", "wake-car", "clear-profile", "reset"}
    HasVehicle = TRUE
    LosesStops = FALSE
PROPERTY RecoveryIsBudgeted
PROPERTY BudgetRenewedOnEvidence
PROPERTY FullCarLeftAlone
PROPERTY FreshStallIsCured
