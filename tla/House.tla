------------------------------- MODULE House -------------------------------
(***************************************************************************)
(* Five parts of the process that share no state: the reader of the house  *)
(* meter, the bridge to MQTT (each has a broker of its own, and either may *)
(* be left out of the configuration), the chargers that are claimed,       *)
(* edited and removed, the settings there is one of, and the transfer of   *)
(* the configuration.  What holds of each alone holds of their product, so *)
(* the houses looked at have one of the five.                              *)
(***************************************************************************)
EXTENDS Meter, MqttBridge, Garage, Settings, ConfigTransfer

houseVars == <<meterVars, bridgeVars, garageVars, settingsVars, transferVars>>

NoMeter ==
    /\ kind = "none"
    /\ latest = NoSnapshot
    /\ rows = {}
    /\ sample = NoSample
    /\ due = TRUE
    /\ connected = FALSE
    /\ fresh = FALSE
    /\ batched = FALSE
    /\ pruned = FALSE

NoBridge ==
    /\ session = "off"
    /\ loadpoint = NewMode
    /\ retained = Cleared
    /\ waiting = Nothing
    /\ ghost = FALSE
    /\ entity = FALSE
    /\ hourly = NoTimers

NoGarage ==
    /\ running = "off"
    /\ overrides = NoRows
    /\ saved = Empty
    /\ site = Nowhere

NoSettings ==
    /\ process = "off"
    /\ stored = [k \in Settable |-> FALSE]
    /\ breaker = {}
    /\ balancer = {}
    /\ settings = [k \in Reloaded |-> FALSE]
    /\ captured = [k \in BootOnly |-> FALSE]
    /\ owed = {}

NoTransfer ==
    /\ place = "nowhere"
    /\ row = "absent"
    /\ memory = "absent"
    /\ savedMode = CHOOSE m \in UserModes : TRUE
    /\ liveMode = savedMode
    /\ retention = DefaultDays
    /\ document = NoDocument

HouseInit ==
    \/ MeterInit /\ NoBridge /\ NoGarage /\ NoSettings /\ NoTransfer
    \/ NoMeter /\ BridgeInit /\ NoGarage /\ NoSettings /\ NoTransfer
    \/ NoMeter /\ NoBridge /\ GarageInit /\ NoSettings /\ NoTransfer
    \/ NoMeter /\ NoBridge /\ NoGarage /\ SettingsInit /\ NoTransfer
    \/ NoMeter /\ NoBridge /\ NoGarage /\ NoSettings /\ TransferInit

HouseNext ==
    \/ MeterNext /\ UNCHANGED <<bridgeVars, garageVars, settingsVars, transferVars>>
    \/ BridgeNext /\ UNCHANGED <<meterVars, garageVars, settingsVars, transferVars>>
    \/ GarageNext /\ UNCHANGED <<meterVars, bridgeVars, settingsVars, transferVars>>
    \/ SettingsNext /\ UNCHANGED <<meterVars, bridgeVars, garageVars, transferVars>>
    \/ TransferNext /\ UNCHANGED <<meterVars, bridgeVars, garageVars, settingsVars>>

HouseSpec == HouseInit /\ [][HouseNext]_houseVars /\ MeterFairness

\* A restart changes nothing but what the answers since the start have said waits for one
\* ("live changes need no restart", docs/architecture.md:52; "port is captured at boot (HTTP
\* listen); it persists but only takes effect on restart", api.ts:277): neither the chargers and the
\* vehicles nor the settings there is one of.
RestartChangesWhatIsOwed == RestartRebuildsTheSame /\ NoneOtherIsOwed
=============================================================================
