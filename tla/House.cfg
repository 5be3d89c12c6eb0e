\* The meter reader with its rollup, the MQTT bridge, the chargers, and the transfer of the
\* configuration, each with its faults.
SPECIFICATION HouseSpec
CONSTANTS
    Phases = {1, 2}
    Loads = {0, 1, 2}
    historicalDays = 2
    MaxRows = 2
    Modes = {"smart", "fast"}
    NewMode = "smart"
    Names = {"garage", "street"}
    Stations = {"CP1", "CP2"}
    Amps = {10, 16}
    Tariffs = {"spot", "fixed"}
    ImportedTariffs = {"spot"}
    Vehicles = {"car"}
    Accounts = {"mine", "yours"}
    LiveFields = {"mainBreakerA"}
    BootFields = {"port"}
    Breakers = {10, 16}
    ChargeModes = {"smart", "fast"}
    defaultMode = "smart"
    Secrets = {"old", "new"}
    UserModes = {"smart", "off"}
    DefaultDays = 3
    Days = {3, 9}
INVARIANT WorstCaseRemembers
INVARIANT BridgeKeepsUp
INVARIANT LoadpointIsWired
INVARIANT RestartChangesWhatIsOwed
PROPERTY RoundTripKeeps
PROPERTY DegradesWhenSilent
PROPERTY PulseStreams
