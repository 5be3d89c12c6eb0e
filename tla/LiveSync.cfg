\* The page and the backend: two turns (mode changes here or elsewhere, configuration writes,
\* health changes, breaks of the stream, in any mix) with at most two events on their way.
SPECIFICATION Spec
CONSTANTS
    MaxTurns = 2
    MaxQueue = 1
INVARIANT EchoReconciles
PROPERTY ChargingIsShown
PROPERTY HealthCatchesUp
