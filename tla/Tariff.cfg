\* Units of four hours: the window at noon, "20 h" is five, retries after
\* one and then two units.  Two chains: a refresh during a fetch.
SPECIFICATION TariffSpec
CONSTANTS
    Chains = {c1, c2}
    NoTimer = off
    MarketDay = 6
    Window = 3
    PublishBy = 4
    Lead = 5
    BaseRetry = 1
    MaxRetry = 2
    Shifts <- MCShifts
INVARIANT FetchIsDue
INVARIANT HealthHonest
PROPERTY PricesHold
