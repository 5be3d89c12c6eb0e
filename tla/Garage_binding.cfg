\* A loadpoint is bound to another tariff, and its circuit goes on with the one before.
SPECIFICATION GarageSpec
CONSTANTS
    Names = {"garage", "street"}
    Stations = {"CP1", "CP2"}
    Amps = {10, 16}
    Tariffs = {"spot", "fixed"}
    ImportedTariffs = {"spot"}
    Vehicles = {"car"}
    Accounts = {"mine", "yours"}
    ChargeModes = {"smart", "fast"}
    defaultMode = "smart"
INVARIANT BindingIsLive
