SPECIFICATION VehicleSpec
CONSTANTS
    Ttl = 1
    MaxLogins = 2
    Lock = 2
    Interval = 2
    MaxBackoff = 1
    MaxAttempts = 1
INVARIANT AnchorIsActive
PROPERTY OutageIsOver
PROPERTY CarIsIdentified
