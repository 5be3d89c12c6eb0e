\* The station: two sockets (one live, one not yet seen to close), three transactions and two
\* plug-ins, enough for a stale row of the first car to meet the second; a charger that is not
\* plugged in again stops.  The configuration: two slow reloads at once, and a value create()
\* throws on.
SPECIFICATION ServicesSpec
CONSTANTS
    Sockets = {s1, s2}
    None = none
    Starting = starting
    MaxTx = 3
    MaxPlugs = 2
    MaxInbox = 1
    SupportsTrigger = TRUE
    Slow = {"tariff"}
    Quick = {"meter"}
    Values = {"zone3", "zone4", "noBroker"}
    Broken = {"noBroker"}
    File <- MCFile
    Requests = {r1, r2}
INVARIANT LiveSocketRegistered
INVARIANT RunningTransactionHeld
INVARIANT RunsItsConfig
PROPERTY AutoStartOncePerConnection
PROPERTY NextCarIsAutoStarted
PROPERTY MarkedWhenWhole
CHECK_DEADLOCK FALSE
