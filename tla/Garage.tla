------------------------------- MODULE Garage -------------------------------
(***************************************************************************)
(* Chargers, their loadpoints and vehicles while OSC runs: the handlers    *)
(* that claim, edit, bind and remove them (server/api.ts), the rows they   *)
(* write (core/config-overrides.ts, core/loadpoint.ts) and what the        *)
(* reconciler rebuilds in memory from them (core/reconcile.ts,             *)
(* wireChargerStatus and rebuildCircuits of core/lifecycle.ts).            *)
(* A claimed charger and its loadpoint have one name.  A station may be    *)
(* claimed twice under two names, which nothing prevents.  Nothing in      *)
(* these handlers awaits more than a promise that is settled, so a request *)
(* is one step; a crash may come between two of its writes.                *)
(***************************************************************************)
EXTENDS Naturals, FiniteSets

CONSTANTS Names,        \* names of chargers
          Stations,     \* ids of stations
          Amps,         \* what maxA may be
          Tariffs,      \* tariffs a loadpoint may be bound to
          ImportedTariffs, \* and those of an imported one (a bound)
          Vehicles,     \* vehicles that may be added
          Accounts,     \* credentials a vehicle may have
          ChargeModes,  \* modes of a loadpoint
          defaultMode   \* the one it starts with

ASSUME GarageAssumption ==
    /\ Amps \subseteq Nat /\ defaultMode \in ChargeModes
    /\ "none" \notin Vehicles /\ ImportedTariffs \subseteq Tariffs

VARIABLES overrides, \* config_overrides
          saved,     \* loadpoint_state: the modes
          site,      \* what the process has built of them
          running    \* "off" (no such site), "down" or "up"
garageVars == <<overrides, saved, site, running>>

Empty == [n \in {} |-> 0]
With(f, n, v) == [m \in DOMAIN f \cup {n} |-> IF m = n THEN v ELSE f[m]]
Without(f, n) == [m \in DOMAIN f \ {n} |-> f[m]]

\* A charger's configuration, and its handle.
Handles == [amps : Amps, station : Stations]
Bindings == [tariff : Tariffs, vehicle : Vehicles \cup {"none"}]

NoRows == [chargers |-> Empty, loadpoints |-> Empty, vehicles |-> Empty]
Nowhere == [chargers   |-> Empty,  \* config.chargers and their handles
            loadpoints |-> Empty,  \* config.loadpoints
            vehicles   |-> Empty,  \* config.vehicles and their handles: the account
            states     |-> Empty,  \* loadpointStates
            limits     |-> Empty,  \* chargerLimitMap: the handle
            subs       |-> [n \in Names |-> 0],  \* status listeners of the loadpoint
            circuits   |-> Empty,  \* the loadpoints of the circuits, by their tariff
            registered |-> {},     \* stations the OCPP server takes for claimed
            named      |-> Empty,  \* the loadpoint each of them knows
            shared     |-> {}]     \* stations two chargers have had together (history)

GarageInit ==
    /\ overrides = NoRows
    /\ saved = Empty
    /\ site = Nowhere
    /\ running = "down"

----------------------------------------------------------------------------
(***************************************************************************)
(* The reconciler: each takes what is in memory and gives what is there    *)
(* after it; r are the rows by then.                                       *)
(***************************************************************************)

rebuildCircuits(s) ==
    [s EXCEPT !.circuits = [n \in DOMAIN s.loadpoints |-> s.loadpoints[n].tariff]]

\* The listener the loadpoint had is dropped first.
wireChargerStatus(s, n) == [s EXCEPT !.subs[n] = 1]

\* INSERT OR IGNORE: a mode saved before wins over the default.
Saved(n) == IF n \in DOMAIN saved THEN saved[n] ELSE defaultMode

configToLoadpointInits(s) == [n \in DOMAIN s.loadpoints |-> s.chargers[n]]

loadLoadpointStates(s) ==
    LET inits == configToLoadpointInits(s)
    IN [n \in DOMAIN inits |-> [mode |-> Saved(n), maxA |-> inits[n].amps]]

\* OcppServer: a station is registered, given the name of its loadpoint, or forgotten.
registerStation(s, station) == [s EXCEPT !.registered = @ \cup {station}]
setLoadpointName(s, station, n) == [s EXCEPT !.named = With(@, station, n)]
unregisterStation(s, station) ==
    [s EXCEPT !.registered = @ \ {station}, !.named = Without(@, station)]

StationsOf(s) == {s.chargers[n].station : n \in DOMAIN s.chargers}

\* create() of the charger module.
createCharger(s, r, n) ==
    registerStation([s EXCEPT !.chargers = With(@, n, r.chargers[n])], r.chargers[n].station)

addCharger(s, r, n) == createCharger(s, r, n)

\* The history of shared stations: one comes in with its second charger, and leaves with its last.
Shared(s, station) == [s EXCEPT !.shared = @ \cup ({station} \cap StationsOf(s))]
NoLongerShared(s) == [s EXCEPT !.shared = @ \cap StationsOf(s)]

addLoadpoint(s, r, n) ==
    LET bound == [s EXCEPT !.loadpoints = With(@, n, r.loadpoints[n]),
                           !.limits = With(@, n, s.chargers[n])]
        seeded == [bound EXCEPT !.states = With(@, n, loadLoadpointStates(bound)[n])]
    IN rebuildCircuits(wireChargerStatus(seeded, n))

\* Slip: the ceiling the loadpoint captured stays
reloadChargerUncaptured(s, r, n) ==
    LET swapped == createCharger(s, r, n)
    IN IF n \notin DOMAIN s.loadpoints THEN swapped
       ELSE wireChargerStatus([swapped EXCEPT !.limits[n] = r.chargers[n]], n)

\* A new handle; the loadpoint is pointed to it, and its ceiling captured again.
reloadCharger(s, r, n) ==
    LET swapped == createCharger(s, r, n)
    IN IF n \notin DOMAIN s.loadpoints THEN swapped
       ELSE wireChargerStatus([swapped EXCEPT !.limits[n] = r.chargers[n],
                                              !.states[n].maxA = r.chargers[n].amps], n)

\* The configuration is replaced; the circuits keep the one they were built from.
reloadLoadpoint(s, r, n) == [s EXCEPT !.loadpoints[n] = r.loadpoints[n]]

\* Slip: the circuits are not built again
removeLoadpointTicking(s, n) ==
    IF n \notin DOMAIN s.loadpoints THEN s
    ELSE [s EXCEPT !.loadpoints = Without(@, n), !.subs[n] = 0,
                   !.limits = Without(@, n), !.states = Without(@, n)]

removeLoadpoint(s, n) ==
    IF n \notin DOMAIN s.loadpoints THEN s
    ELSE rebuildCircuits([s EXCEPT !.loadpoints = Without(@, n), !.subs[n] = 0,
                                   !.limits = Without(@, n), !.states = Without(@, n)])

removeCharger(s, n) == [s EXCEPT !.chargers = Without(@, n)]

addVehicle(s, r, v) == [s EXCEPT !.vehicles = With(@, v, r.vehicles[v])]

\* A new handle that logs in anew; the binding is by name and stays.
reloadVehicle(s, r, v) == [s EXCEPT !.vehicles[v] = r.vehicles[v]]

\* The bindings to it are dropped in memory only.
removeVehicle(s, v) ==
    [s EXCEPT !.vehicles = Without(@, v),
              !.loadpoints = [n \in DOMAIN @ |->
                  IF @[n].vehicle = v THEN [@[n] EXCEPT !.vehicle = "none"] ELSE @[n]]]

----------------------------------------------------------------------------
(***************************************************************************)
(* The handlers.                                                           *)
(***************************************************************************)

\* POST /api/chargers: the name must be free; any station will do.
ClaimCharger(n, h, b) ==
    /\ running = "up"
    /\ n \notin DOMAIN site.chargers /\ n \notin DOMAIN site.states
    /\ overrides' = [overrides EXCEPT !.chargers = With(@, n, h), !.loadpoints = With(@, n, b)]
    /\ saved' = With(saved, n, Saved(n))
    /\ site' = setLoadpointName(
                   addLoadpoint(addCharger(Shared(site, h.station), overrides', n), overrides', n),
                   h.station, n)
    /\ UNCHANGED running

\* PUT /api/chargers/:name.
EditCharger(n, a) ==
    /\ running = "up" /\ n \in DOMAIN site.chargers
    /\ overrides' = [overrides EXCEPT !.chargers[n].amps = a]
    /\ site' = reloadCharger(site, overrides', n)
    /\ UNCHANGED <<saved, running>>

\* DELETE /api/chargers/:name, of one that does not charge, or forced: the loadpoint goes first,
\* and its station is forgotten, whoever else has it.  Its saved state stays.
RemoveCharger(n) ==
    /\ running = "up" /\ n \in DOMAIN site.chargers
    /\ overrides' = [overrides EXCEPT !.chargers = Without(@, n), !.loadpoints = Without(@, n)]
    /\ site' = NoLongerShared(unregisterStation(removeCharger(removeLoadpoint(site, n), n),
                                                site.chargers[n].station))
    /\ UNCHANGED <<saved, running>>

\* PUT /api/loadpoints/:name: what it binds must exist.
BindTariff(n, t) ==
    /\ running = "up" /\ n \in DOMAIN site.states
    /\ overrides' = [overrides EXCEPT !.loadpoints[n].tariff = t]
    /\ site' = reloadLoadpoint(site, overrides', n)
    /\ UNCHANGED <<saved, running>>

BindVehicle(n, v) ==
    /\ running = "up" /\ n \in DOMAIN site.states /\ v \in DOMAIN site.vehicles
    /\ overrides' = [overrides EXCEPT !.loadpoints[n].vehicle = v]
    /\ site' = reloadLoadpoint(site, overrides', n)
    /\ UNCHANGED <<saved, running>>

\* POST /api/vehicles.
AddVehicle(v, account) ==
    /\ running = "up" /\ v \notin DOMAIN site.vehicles
    /\ overrides' = [overrides EXCEPT !.vehicles = With(@, v, account)]
    /\ site' = addVehicle(site, overrides', v)
    /\ UNCHANGED <<saved, running>>

\* PUT /api/vehicles/:name: a blank field keeps what is stored.
EditVehicle(v, account) ==
    /\ running = "up" /\ v \in DOMAIN site.vehicles
    /\ overrides' = [overrides EXCEPT !.vehicles[v] = account]
    /\ site' = reloadVehicle(site, overrides', v)
    /\ UNCHANGED <<saved, running>>

\* DELETE /api/vehicles/:name: out of memory first.
RemoveVehicle(v) ==
    /\ running = "up" /\ v \in DOMAIN site.vehicles
    /\ site' = removeVehicle(site, v)
    /\ overrides' = [overrides EXCEPT !.vehicles = Without(@, v)]
    /\ UNCHANGED <<saved, running>>

\* setLoadpointMode, with every change of the mode in memory.
SetMode(n, m) ==
    /\ running = "up" /\ n \in DOMAIN site.states
    /\ saved' = [saved EXCEPT ![n] = m]
    /\ site' = [site EXCEPT !.states[n].mode = m]
    /\ UNCHANGED <<overrides, running>>

----------------------------------------------------------------------------
(***************************************************************************)
(* What a start makes of the rows, in its order.                           *)
(***************************************************************************)

SharedBy(chargers) ==
    {station \in Stations : \E n, m \in DOMAIN chargers :
        n # m /\ chargers[n].station = station /\ chargers[m].station = station}

createModules ==
    [Nowhere EXCEPT !.chargers = overrides.chargers,
                    !.registered = StationsOf(overrides),
                    !.shared = SharedBy(overrides.chargers),
                    !.loadpoints = overrides.loadpoints,
                    !.vehicles = overrides.vehicles]

seedStates(s) == rebuildCircuits([s EXCEPT !.states = loadLoadpointStates(s)])

wireChargers(s) ==
    [s EXCEPT !.subs = [n \in Names |-> IF n \in DOMAIN s.loadpoints THEN 1 ELSE 0]]

chargerLimitMap(s) == [s EXCEPT !.limits = [n \in DOMAIN s.loadpoints |-> s.chargers[n]]]

\* Each station the name of a loadpoint of it; of two, one's.
nameStations(s) ==
    [s EXCEPT !.named = [station \in {s.chargers[n].station : n \in DOMAIN s.loadpoints} |->
                            CHOOSE n \in DOMAIN s.loadpoints : s.chargers[n].station = station]]

Booted == nameStations(chargerLimitMap(wireChargers(seedStates(createModules))))

GarageBoots ==
    /\ running = "down"
    /\ running' = "up"
    /\ site' = Booted
    /\ saved' = [n \in DOMAIN saved \cup DOMAIN overrides.loadpoints |-> Saved(n)]
    /\ UNCHANGED overrides

\* A claim that has written the charger and not the loadpoint, or a removal the other way round.
CutShort ==
    {[overrides EXCEPT !.chargers = With(@, n, h)] :
        n \in Names \ DOMAIN site.chargers, h \in Handles}
    \cup {[overrides EXCEPT !.loadpoints = Without(@, n)] : n \in DOMAIN site.chargers}

GarageCrashes ==
    /\ running = "up"
    /\ running' = "down"
    /\ site' = Nowhere
    /\ overrides' \in {overrides} \cup CutShort
    /\ UNCHANGED saved

\* POST /api/config/import, and the restart its answer asks for, as it writes rows only: a charger
\* and its loadpoint, with its mode, beside the rows there are or instead of all of them.
ImportAndRestart(replace, n, h, b) ==
    LET rest == IF replace THEN NoRows ELSE overrides
        modes == IF replace THEN Empty ELSE saved
    IN /\ running = "up"
       /\ running' = "down"
       /\ overrides' = [rest EXCEPT !.chargers = With(@, n, h), !.loadpoints = With(@, n, b)]
       /\ saved' = With(modes, n, defaultMode)
       /\ site' = Nowhere

GarageNext ==
    \/ \E n \in Names :
         \/ \E a \in Amps : EditCharger(n, a)
         \/ \E h \in Handles, t \in Tariffs :
               ClaimCharger(n, h, [tariff |-> t, vehicle |-> "none"])
         \/ \E replace \in BOOLEAN, h \in Handles, t \in ImportedTariffs :
               ImportAndRestart(replace, n, h, [tariff |-> t, vehicle |-> "none"])
         \/ RemoveCharger(n)
         \/ \E t \in Tariffs : BindTariff(n, t)
         \/ \E v \in Vehicles : BindVehicle(n, v)
         \/ \E m \in ChargeModes : SetMode(n, m)
    \/ \E v \in Vehicles :
         \/ \E account \in Accounts : AddVehicle(v, account) \/ EditVehicle(v, account)
         \/ RemoveVehicle(v)
    \/ GarageBoots
    \/ GarageCrashes

GarageSpec == GarageInit /\ [][GarageNext]_garageVars

----------------------------------------------------------------------------
\* Shape of the state.
GarageTypeOK ==
    /\ running \in {"off", "down", "up"}
    /\ \E ns \in SUBSET Names : saved \in [ns -> ChargeModes]
    /\ \E cs \in SUBSET Names, ls \in SUBSET Names :
          /\ ls \subseteq cs
          /\ overrides.chargers \in [cs -> Handles]
          /\ overrides.loadpoints \in [ls -> Bindings]
    /\ \E vs \in SUBSET Vehicles : overrides.vehicles \in [vs -> Accounts]

\* Every loadpoint that is configured, and no other, is ticked by a circuit, has a state, one
\* status listener and the handle of its charger, whatever was claimed, edited and removed before
\* ("so reconcile can re-wire or drop a charger without leaking or double-firing listeners",
\* lifecycle.ts:318-320).  The station of a charger is registered and knows the charger's
\* loadpoint, and no station is registered, or knows a loadpoint, that is not configured; a station
\* that two chargers have had together is aside of the first, as the removal of either forgets it.
LoadpointIsWired ==
    LET lps == DOMAIN site.loadpoints
        alone(n) == site.chargers[n].station \notin site.shared
    IN /\ DOMAIN site.circuits = lps
       /\ DOMAIN site.states = lps
       /\ site.limits = [n \in lps |-> site.chargers[n]]
       /\ site.subs = [n \in Names |-> IF n \in lps THEN 1 ELSE 0]
       /\ site.registered \subseteq StationsOf(site)
       /\ \A n \in DOMAIN site.chargers : alone(n) => site.chargers[n].station \in site.registered
       /\ \A n \in lps : alone(n) =>
             /\ site.chargers[n].station \in DOMAIN site.named
             /\ site.named[site.chargers[n].station] = n
       /\ \A station \in DOMAIN site.named :
             /\ site.named[station] \in lps
             /\ site.chargers[site.named[station]].station = station

\* A restart changes nothing of these: chargers, vehicles, modes and ceilings in memory
\* are what the rows make of them ("live changes need no restart", docs/architecture.md:52).
\* Two things are aside: the tariff the circuits hold (BindingIsLive) and a vehicle binding,
\* which the removal of the vehicle drops in memory only.
RestartRebuildsTheSame ==
    running = "up" =>
        /\ <<site.chargers, site.vehicles, site.states, site.limits>> =
              <<Booted.chargers, Booted.vehicles, Booted.states, Booted.limits>>
        /\ Booted.circuits = [n \in DOMAIN site.loadpoints |-> site.loadpoints[n].tariff]

\* "resolveLoadpoint reads the binding live, so no module rebuild is needed" (api.ts:750-751):
\* the tariff a loadpoint is bound to is the one its circuit goes by.
BindingIsLive == \A n \in DOMAIN site.circuits : site.circuits[n] = site.loadpoints[n].tariff
=============================================================================
