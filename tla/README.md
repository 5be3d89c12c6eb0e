# OpenSmartCharge: verification project

OpenSmartCharge (OSC) is a home EV-charging controller: one Node.js process that speaks OCPP 1.6 to
chargers, reads meters, tariffs and cars, and decides every 30 s how many amps each charger may
offer. This directory holds TLA+ models of its control core and of what surrounds it, the TLC runs
that check them, and theorems about them that TLAPS proves. `PROJECT.json` lists components, runs,
mutants, findings, hazards and theorems, and maps every definition to the source lines it stands for.

## 1. Inventory

### Components, their state and how they interact

| Component | State | Operations | Talks to |
|---|---|---|---|
| OCPP server (`charger-ocpp16/server.ts`, `status.ts`, `persistence.ts`) | per station: the live socket, `activeTransactionId`, `hasAutoStarted`; `lastLimitByStation`; open rows in SQLite | `attachClient`, disconnect, `onConnect`, Boot/Status/MeterValues/Start/StopTransaction handlers, `setLimit`, `remoteStart/Stop`, `reset`, `clearChargingProfile` | the charger (calls and messages), the loadpoint (status callbacks) |
| Charger handle (`index.ts`, `debounce.ts`) | `lastWritten`, `lastWriteAt`, `pendingValue`, a trailing timer | `setCurrentLimit`: clamp, drop duplicates, coalesce | control loop -> server |
| Control loop (`core/lifecycle.ts`, `control-loop.ts`, `smart-charging/decide.ts`) | `tickSlots`, `lastCommandedA`, `availableSince`, `zeroDrawSince`, `sessionStates`, loadpoint states | `circuitTick` every 30 s and after each mode/target/plan change; soft start, deadband, fast expiry | everything |
| Session reconciler (`core/session-reconciler.ts`) and session completion | per loadpoint: stall anchor, last action, phase, attempts; settle anchor; `deliveredKWh` | `decideSession`, `executeSessionAction`, `resolveSessionComplete` | charger, car |
| Loadpoint state (`core/loadpoint.ts`) | live fields, mode, target; a row in SQLite | `foldChargerStatus`, load, save | server -> loop |
| Plans, planner, energy and price ladders (`core/plans.ts`, `planner.ts`, `smart-charging/*.ts`) | rows of `charge_plans`; else pure | `selectActivePlan`, `resolveTarget`, `resolvePriceCurve`, `plan`, `decideShouldCharge` | called by the tick |
| Tariffs (`sdk/nordpool-tariff.ts`, `tariff-*`) | cached slots, a timer chain, failures, health | fetch, retry, refresh, stop | Internet, tick |
| Vehicles (`vehicle-skoda`, `vehicle-manual`, identification and polling in `lifecycle.ts`) | tokens, lockout, cached readings, poll gate, anchor, active car | poll, boot hook, identify, override | cloud, tick |
| Meters and load rollup (`meter-*`, `smart-charging/rollup.ts`) | last snapshot, hourly maxima in SQLite | frames, health, prune, look-back | brokers, budget |
| Reconfiguration (`core/reconcile.ts`, `config*.ts`, `cli/apply-config.ts`), shutdown | maps of live modules, effective configuration, override rows | reload/add/remove, export, import, first boot, drain | API |
| API and SSE, MQTT bridge, web UI | retained topics, timers; a client-side store | handlers, mirror, live sync | user, broker |

The hard behaviours are those between these parts: a socket that the charger replaces before the
server sees the old one close; a trailing timer that fires among newer `set()` calls; a tick that
awaits calls on a socket that dies; sticky telemetry that outlives its session; recovery levers
whose own effects look like new stalls; a chain of timers restarted while a fetch is in flight;
rotating tokens refreshed twice at once; reloads that overlap; rows written one after the other
before a crash; a stream that loses events while reads overtake it. `PROJECT.json` lists each hazard
at the line where it bites.

### What makes each part correct

* Limit path: bounded write rate; the charger ends up at the limit the loop wrote last, whatever
  sockets did; ticks end.
* Server: the live socket stays registered; the transaction held and the charger's agree; one
  auto-start per plug-in and connection, none beside a running transaction, and one for every next
  car.
* Reconciler: rationed actions, a budget renewed on evidence or on a connector that looks free, hands
  off a full car, a fresh stall cured.
* Loop and tick: a split within the budget, a circuit that comes to rest, and rests below its fuse;
  between ticks nothing is out of date or mixed; what settled is applied; a boost ends with its car.
* Tariff: a fetch is always due in time; prices hold; health is honest.
* Smart charging: what could be met is met; cheaper slots are not passed over.
* Vehicles: the car on the charger is the one identified; estimates go on from its own readings;
  outages end by themselves.
* Reconfiguration: what runs is what is configured, and what a restart would build, but for the
  fields answered as waiting for one; wiring survives claims and removals; a half first boot is
  repeated; round trips keep secrets.
* Meters, bridge, UI: silent meters are not trusted and past peaks not forgotten; mirrors, timers and
  screens agree with the process in the end.

## 2. Plan

Order: what moves current first, then what decides it, then what feeds and configures it. All
modules of the plan exist: `Debounce`, `LimitPath`, `OcppStation`, `RecoveryBudget`,
`SessionReconciler`, `Planning`, `CircuitLoop`, `CircuitTick` (first round), `Tariff`, `SmartCharge`,
`VehicleAuth`, `Vehicle`, `Reconfigure`, `LiveSync`, `Meter`, `MqttBridge`, `Garage`, `Settings`,
`ConfigTransfer`, `House`, `Services` (second round). Every safety and action property of the runs but one has
its theorem (third round, section 5). What is left: how many calm ticks `LoopComesToRest` takes at
most where a balancer splits the budget, as a function of the constants.

Composition: `LimitPath` extends `Debounce`; `CircuitLoop` and `CircuitTick` extend `Planning`;
`SessionReconciler` refines `RecoveryBudget`; `Vehicle` extends `VehicleAuth`; `House` puts `Meter`,
`MqttBridge`, `Garage`, `Settings` and `ConfigTransfer` side by side, `Services` does so with
`OcppStation` and `Reconfigure`. The `MC` modules give the configurations
values that a `.cfg` cannot write.

## 3. Modules

### `Debounce` and `LimitPath`: from the tick to the charger, one loadpoint

`Debounce` is `createDebouncedSetter`. `lastWritten`, `pendingValue`, `pendingScheduled` are the
closure's variables. Time is relative: `sinceWrite` is `now() - lastWriteAt`, saturated at
`MinInterval`, and `timerLeft` what remains of the `setTimeout`. A timer that is due may fire late: any
number of `set()` calls and time units may come first.

`LimitPath` extends it. `TickWrites`, `TickHolds`: the tick up to the write (deadband, soft start,
`setCurrentLimit`, `lastCommandedA` after the await). `SessionIdle`, `SessionClear`,
`ReassertAfterClear`: the reconciler's turn. `TrailingTimer`: the debouncer's own write. `setLimit`:
remember, then call if connected. `Connect`, `OnConnect`, `Disconnect`, `BootNotification`: the
server. `CallSucceeds`, `CallFails`, `Reboot`: the charger; a failed call may have been carried out.
ocpp-rpc keeps one call outstanding per client, so the calls of a socket are a queue.
`offLimit` records that a failed call, the boot default or a clear came last: the code does not
promise the limit in those cases. Not in it: the API's one-shot profile and clear.

### `OcppStation`: one station, its rows, its charger

The charger (`cable`, `status`, `ctx`, `backlog`) sends messages in order on `cur`; what is under
way is lost with the socket, except that a `StopTransaction` may be kept for the next socket and an
unanswered `StartTransaction` is sent again. The server keeps `open` (sockets it has not seen
close), `registered`, `activeTx`, `hasAutoStarted`; the database keeps `rows`. `attachClient`
rehydrates, `evict` guards the disconnect, each handler is one action with everything it changes,
and `Restart` is a crash of OSC. `autoStarted` is history: the plug-ins this connection has started;
that a connection forgets them is the code's (`server.ts:328` re-arms `hasAutoStarted`, section 6, 17).
Assumptions on the charger: a single connector; auto-start enabled; it sends in order, a kept stop
first; meter values are sent when nothing else is under way. Not in it: `getHealth`, energies, diagnostics.

### `RecoveryBudget` and `SessionReconciler`

`RecoveryBudget` is the promise of the reconciler's header comment: per episode a cap of actions,
the first after a grace, the others a cooldown apart, and a renewal that starts all over.
`SessionReconciler` is the session half of `circuitTick`: `Tick` runs the per-plug-in reset, the
peak hold, `resolveSessionComplete` and `decideSession`; `Execute` pulls the lever the tick awaits.
Car and charger: a car charges, tapers, fills up or is stuck until the lever in `cure` is pulled.
A charger may also show `Available` with a car plugged in: because it forgets the car (`ForgetsCar`,
`docs/known-issues.md` 6 and 7), or because it does not answer the trigger of `onConnect`, whose
fallback then reports it free and connected (`Unanswered`).
Each timer is the time since its anchor, saturated at the one threshold it is compared with, so the
model has no clock to bound; ticks may also follow API calls, so any number may run per time unit.
`climateActive` is taken as false; whether a full car meets its target is the tick's choice `met`.

### `Planning` and `CircuitLoop`: budget, split and the closed loop

`Planning` holds the pure functions under their own names. Amps are integers, and what a loadpoint
asks for (`ask`) stands for its mode, its smart decision and its reached target together. `Remaining`
is the loop over the fast loadpoints. `CircuitLoop` closes the loop: `Tick` is `circuitTick` from
`resolveCircuitBudget` to the writes, in one step; a write may fail, and is recorded all the same.
Cars follow what they are offered up to what they want, `MeterFrame` and `MeterValues` bring
readings at different moments, the feed may be lost (then the ladder goes to the historical and the
static rung), and OSC may restart. The circuit has a balancer, or is one bare loadpoint. `calm` counts
ticks on fresh readings since anything else changed. Not in it: the climate cap, fractions of an
ampere, three phases (the code takes the worst).

### `CircuitTick`: the same tick between its awaits

Each action is what runs between two awaits: `Begin` (the guard's other side, and boost expiry),
`Resolve` (one loadpoint's decision, in any order), `Plan`, one `Write` per charger in declaration
order, `Written`, `Finally`. `Call` is the guard, met by the interval and by `handleModeChange`.
Ticks have identities, so that a missing guard is a behaviour of the model and not impossible. An
exception in a tick is caught by nobody and ends the process, so it is a `Restart`: modes are in their
rows, chargers keep their limits, all else is lost. The budget is constant here.

### `Tariff`: the scheduler of a day-ahead tariff

A chain is one run of `runOnce -> scheduleNext -> timer`; a `refresh()` during a fetch starts a second,
whose timer overwrites the handle of the first (`handle`, `Cleared`). Both providers are modelled by
what their answers do: Elering asks for a range and takes an answer without records for a zone that
does not exist; elprisetjustnu takes a file per day and loses today's when tomorrow's fails. A
scheduled fetch goes through `jitterFetch` (`jittered`) and may be aborted before it is sent, because
its 15 s abort is made first (`inTime`); the first fetch of a start and a `refresh()` are not delayed. `ahead` is
how far `tariff_slots` reaches. `ClockAssumption` says what the code's times (a window at 13:00, retries
of at most an hour, a shift of an hour) satisfy and the scheduler depends on. `stuck` is the connection left inside a transaction by a row that
throws (`nordpool-tariff.ts:47`). `Shifts` makes a timer over a night of a clock change an hour off.

### `SmartCharge`: resolveLoadpoint over a day

Plans (`Candidates`, `selectActivePlan`, `PostPlan`, `PutPlan`, `DeletePlan`), ad-hoc targets, the
energy rungs (`resolveTarget`), the price rungs (`resolvePriceCurve`), the slots (`generateSlots`,
`slotsNeeded`, `cheapestSlotsPlan`), `decideShouldCharge` and `forceMinSoc`. Time is counted in halves
of a slot, so ticks fall on a boundary or inside a slot. `Tick` is one pass; `promise` is history: a
target that could be met when it began to govern (`Feasible`: in the time left, and with room in the
battery). The state of charge is taken as estimated right.

### `VehicleAuth` and `Vehicle`

`VehicleAuth`: two calls (a poll and the boot hook) pass `token()`: `access` and `saved` are the
tokens, `sent` says whether the refresh token a call sent is the one the server still expects;
`logins` and `lockAge` are the lockout. The redirects and forms of a login are one step with its
outcome. `Vehicle`: a tick polls when `shouldPollVehicle`, then identifies (`Identify`) from the cached
plug view, the override and the latch, and keeps the anchor. `Boot` is `runPostStartup`.

### `Reconfigure` and `Services`: rows, memory and modules

One tariff, whose start awaits the network, and one meter, whose does not. `stored` are the rows,
`live` the configuration in memory, `running` the modules in the maps, by the configuration they were
built from, and `orphans` the modules that run on in no map. A reload keeps whether the module it will
stop, looked up before its await (`reconcile.ts:89`), is still the one in the map (`owned`); of two that
overlap the second stops what the first replaced, and nobody the first (`Started`; `overlapped` is
history). A `partial` row lacks its type: the schema refuses it. A `Broken` value passes the schema and
`create()` throws (a meter without broker, `api.ts:351`, or a vehicle without password after a redacted
import, `config-io.ts:319`): the reload fails, the row stays, and the next boot dies, which `Boot`
shows. `CutShort` is a crash in the middle of an import, `Crash` any end of the process. `Services` is
the product of `OcppStation` and `Reconfigure`, which share no state; each system looked at moves one.

### `Garage`: chargers, loadpoints, vehicles

The handlers that claim, edit, bind and remove, as functions of what is in memory (`site`) and the
rows (`overrides`, `saved`), under the reconciler's names. A claim checks the charger's name only, so
any station will do, one that another charger has included; `registered` and `named` are what the OCPP
server knows of the stations, and `shared` is history: stations two chargers have had together. Nothing
in these handlers awaits more than a settled promise, so a request is one step; `CutShort` is a crash
between two of its rows. `ImportAndRestart` is an import, which writes rows only, with the restart its
answer asks for in one step: requests between the two are not looked at. A binding's balancer goes the
same way as its tariff; the guard against deleting a charging charger is left out because `force`
overrides it.

### `Settings`: site, smartCharging, bridge, balancer

Of these there is one each. The fields of site and smartCharging are assigned whole from the rows, and
read by every tick, but `port` and `controlIntervalSec` are captured at boot (`captured`), and the
bridge is not reloaded at all. `owed` is history: the `restartFields` answered since the start. An
import or a crash ends the process with any rows (`EndSettings`).

### `ConfigTransfer`: export, redaction, import

One credential at one of four places (bridge, meter, vehicle, balancer), one loadpoint's mode and the
log retention. A document is exported from memory, redacted or not, kept, edited, and imported, maybe
after a restart. `known` is what `deRedact` looks up in memory; `overlaid` is the field-wise merge of
`setOverride`.

### `LiveSync`: the page and the backend

One loadpoint and the health of one module. Backend: `handleModeChange`, charger frames, ticks,
configuration writes, `setHealth` and the sweep, a reload that bypasses the change detection. Page:
probe, first read, subscription, the five events it handles, optimistic mode changes, re-reads that
answer late (`asks`, `answers`), the poll. `lost` is history: what the page has missed since the last
mode it heard, so that `EchoReconciles` names exactly the cases in which the page may be wrong. A mode
changed over MQTT is `ModeElsewhere`.

### `Meter`, `MqttBridge`, `House`

`Meter`: the phase reader and the Tibber Pulse, with staleness, batching and restarts, and the rollup
with its prune and look-back, whose dates may slip by a day around a clock change (`DateSlips`).
`MqttBridge`: one loadpoint's retained topics over a connection that is up, down or dead unnoticed,
and the hourly schedule. Its health, balancer, vehicle and price topics and the target command are
left out. `House` is the product of five parts that share no state; since what holds of each alone
holds of the product, each house looked at has one of them.

Definitions commented as slips are plausible mistakes, one beside each definition they would
replace; they are used only to show that the properties notice them (the mutants of `PROJECT.json`).
The type invariants (`...TypeOK`) document the shape of each state; where a theorem proves one, it is
in section 5.

## 4. Runs

| Run | Bounds | Shows |
|---|---|---|
| `LimitPath` | limits 0, 8, 10 A, targets 0 and 16, an interval of 2 units, 2 calls per socket; 387,539 states | the charger is re-asserted to the limit written last and ends there; no three writes in an interval; ticks end |
| `Services` | 2 sockets, 3 transactions, 2 plug-ins, 1 message under way; a tariff, a meter, 3 values (one of which cannot be built), 2 requests; 385,866 states | the live socket stays registered; server and charger hold the same transaction; one auto-start per plug-in and connection, and one for the next car; what runs is what is configured; a half first boot is repeated |
| `SessionReconciler` | grace 2, cooldown 3, settle 1, 3 actions; 545,068 states | refines `RecoveryBudget`; the budget is renewed on evidence or on a connector taken for free, a full car is left alone, a fresh stall is cured |
| `CircuitLoop` | 2 loadpoints of 5 and 4 A, fuse 8 A, calm after 3 ticks; 1,255,579 states | the split keeps the budget; the loop comes to rest, and rests below its fuse |
| `CircuitTick` | 2 loadpoints of 5 and 4 A, budget 6 A, 2 ticks; 174,228 states | between ticks nothing is out of date or above the budget; what settled is applied; a boost ends with its car |
| `Tariff` | a day of 6 units of 4 h, window at 12:00, retries 1 and 2, 2 chains, timers off by -1..1; 453,600 states | a fetch is due in time; prices come back, and hold where no jitter aborts; health is what the prices say |
| `Tariff_jitter` | as `Tariff` | expected to fail, see section 6: `NeverStranded` |
| `SmartCharge` | 6 planner slots (3 hours), 3 price curves, one row of 4 kinds of plan; 552,365 states | a target that could be met is met; no cheaper slot is passed over |
| `Vehicle` | token of 1, 2 logins, lockout 2, cadence 2, backoff 1, 1 retry of the hook; 528,363 states | the anchor is the active car's; an outage ends; a car that can be told is told |
| `LiveSync` | 2 turns, at most 2 events under way; 410,650 states | mode, status and health on the page come back to the backend's |
| `House` | 2 phases, loads 0..2, 2 days of look-back, 2 rows; 2 names, 2 stations, 2 ceilings, 2 tariffs, 1 vehicle; one field read live, one captured; 2 passwords, 2 modes; 231,558 states | peaks are remembered, silent meters not trusted, a Pulse streams; mirror, wiring and rows agree; a restart changes what is owed; round trips keep |
| `Garage_binding` | the garage of `House` alone | expected to fail, see section 6: `BindingIsLive` |

Why the bounds suffice. `LimitPath`: 16 clamps to 10 and soft-starts at 8, so clamp and soft start
both show; 0 is the pause; two calls are what one socket can hold while a third sender waits; an
interval of two units puts a `set()` at its start, inside and at its end. `Services`: one live and
one stale socket, a row of the first car left open when the second starts, and one row more for an
unanswered start; two slow reloads at once, and a value `create()` throws on. `SessionReconciler`: the thresholds keep the order of the code's 60 s, 90 s and
180 s, and three actions let the ladder climb, flip phase and reach the cap. `CircuitLoop` and
`CircuitTick`: amps are scaled, with a minimum of 3 A and a hysteresis of 1 A (twice the hysteresis
stays below the minimum, as in the code), so that a share can be below, at and above the minimum,
and a soft start differs from its target; beside the larger load there is room for one charger,
without it for two. `Tariff`: units of four hours, fine enough for the publish window, the "20 h"
of `hasTomorrow` and a doubled retry to differ; two chains are a refresh during a fetch.
`SmartCharge`: six slots with cheap ones at either end and in the middle, plans of every kind, targets
with no, some and much time to spare. `Vehicle`: two overlapping calls, a lockout, a backoff shorter
than the cadence.
`LiveSync`: two turns of users, network or modules in any mix, up to two events on their way; one
turn to go wrong and one to hide it. `House`: two phases, two days of look-back and two rows; two
chargers and two stations, so that what is done to one could touch the other and both may have one; documents of any content. Every bound
is a CONSTANT or a guard that names it.

Fairness. The control interval, timers and calls (which time out) keep going: weak fairness of ticks,
`TimePasses`, `CallSucceeds`, handlers, `Execute`; in `Tariff`, of `UnitPasses`, `Fire`, `Answer` and `Publish`; in
`Vehicle`, of each call's next step. Strongly fair in `Tariff` is `Answer` in time: a jitter is drawn
anew for each request, and below 15 of 120 s it lets the request through, for Elering one scheduled
fetch in eight, for elprisetjustnu one in eight for each of its files; so with probability one it does
again and again. Nothing in `Reconfigure` has to end. A charger left alone reconnects and reports its meter. `CircuitTick` takes the
steps of a tick as weakly fair: each of its awaits is an OCPP or cloud call with a timeout, or a
cached read. `LiveSync`: the sweep, the poll and the event loop of the page; a strongly fair meter
frame of a charger that draws, because the bound `MaxQueue` would otherwise silence it; the stream
breaks finitely often. `Meter`: `mqtt.js` reconnects and time passes; a Pulse told over and over hears
it in the end (strong fairness of `Told`). Nothing else has to happen: no user action, plug-in,
failure or settling is fair. `TrailingTimer` is strongly fair only because the bound `MaxCalls`, which
`setTimeout` does not know, can disable it. Liveness is stated for surroundings that have settled
(`settled`): they may settle at any time, or never. `Services` turns deadlock checking off because a
settled, quiet station has nothing left to do, and `SmartCharge` because its day ends.

## 5. Theorems

TLAPS proves, for all values of the constants that satisfy the named assumptions:

* `LimitPathProofs`: `DebounceInv` is inductive. `AtMostTwoWritesPerInterval` needs
  `TimerCoversInterval`: the timer's remaining delay covers the interval, unless the previous gap
  was a full interval already. From it too: what is pending is the latest value asked for, and no write
  repeats the last. `LimitInv` says that the server remembers exactly what the debouncer wrote
  (`RemembersWritten`), and that a re-asserted socket either has that limit as the last limit in its
  queue or has drained to it (`HeadedForLimit`). `ReassertedAfterReconnect` follows when the queue
  is empty. `PathStepsDebounce` shows that each step of the path is a step of the debouncer or
  leaves it alone, which carries the debouncer's spacing over to the path (`PathWritesAreSpaced`).
* `OcppStationProofs`: one inductive invariant, `OcppInv`, for any number of sockets, transactions and
  plug-ins. That the transaction held is the one that runs is not inductive: it depends on what each
  message under way will do when it is handled, and what a kept `StopTransaction` or a repeated
  `StartTransaction` of an earlier socket still may. The invariant therefore says in which order
  starts, stops and statuses can stand in the inbox and the backlog, and which rows may still be
  open. The four properties of the station follow from it; `NextCarGetsStarted` also covers a car
  swapped in while the charger was offline.
* `SessionReconcilerProofs`: `GuardInvariant`; `RecoveryBudgetTheorem`, the refinement, where the
  budget's rest is the larger of what is left of grace and cooldown; `RenewalTheorem`, from a world
  invariant that ties status to car and transaction, but for an `Available` that hides a car;
  `FullCarTheorem`, from an invariant that keeps the stall timer of a steady full car from passing
  what its settle timer leaves of the grace, and from `SettleBelowGrace`; `FedTheorem`, that no session is complete before energy flowed, which assumes
  that no `StopTransaction` is lost.
* `PlanningProofs`: what `allocate` gives. `Sum` and `Remaining` are recursive functions; that they
  are defined, and what holds along them, follows by least counterexamples over 0..N (`Upwards`).
  `AllocateLegal` takes any earlier commands, above the present ceiling too, since `reloadCharger`
  (`reconcile.ts:184`) and the climate cap (`lifecycle.ts:1114`) lower it while `lastCommandedA` stays:
  then what was commanded may be kept, by a hysteresis above the ceiling at most, and
  `setCurrentLimit` clamps it. `AllocateWithinCeilings` is the case without. `AllocateWithinBudget`, where what is left after the fast loadpoints is never below
  minus one hysteresis, and the smart ones get their share and a hysteresis each, or nothing when
  nothing is left; `UnwrittenIsHeld`: what the deadband holds back is what the charger was told.
* `CircuitLoopProofs`: `LoopInv` (types and legal commands) is inductive, because a failed write
  leaves a limit that an earlier tick commanded. `SplitTheorem` then needs only that commands are
  naturals, so it holds whatever was read or lost. `RestTheorem`: at rest, commands, limits and split
  agree up to what the deadband holds back, so the meter's load less the credit is the house alone,
  and the split's bound is the circuit's. It assumes `Deadband <= Hysteresis + 1`, and uses that a
  loadpoint outside the circuit is never switched on (`OutsideIsOff`). `BareRestTheorem`: on fresh
  readings the next target of a bare loadpoint depends on its limit and last command only (`Target`),
  and, where these are equal, never falls when they rise (`TargetMonotone`). So after one calm tick
  the targets go one way (`BareInv`), an ampere a tick at least, and `MaxA - MinA + 3` calm ticks are
  more than there is room for. The theorem is for every `CalmTicks` from that number on.
* `CircuitTickProofs`: `TickInv` has the guard (`OneTick`) and that a charger holds what was commanded
  (`HeldIsCommanded`). `CurrentInv` adds that, while no rerun is due, what a tick resolved agrees with
  the modes, and what it planned sends every loadpoint that should not charge to 0 A: a change either
  marks a rerun or begins a new tick. `BudgetInv` adds up what is held with what is still to be
  written. `QuietCurrentTheorem` assumes `Deadband <= MinA` and `QuietBudgetTheorem`
  `Deadband <= Hysteresis + 1`. The code's defaults (1, 6 and 1 A) satisfy both, but `deadbandA` has no
  upper limit in `config.ts`: above the minimum a pause would not be written.
* `HouseProofs`: one inductive invariant for each part. `BridgeInv`: only a client that knows
  it is unconnected holds something back, and of a loadpoint that is gone it holds the clearing
  (`Undelivered`); that decides the mirror at the next connection (`BridgeTheorem`). `TransferInv`: an
  own document says what the rows have, and the placeholder in it stands for a secret memory knows
  (`OwnIsCurrent`, `NoPlaceholder`; `TransferTheorem`). `GarageInv`: while the process is up,
  everything in memory is a function of the rows (`FollowsRows`), a loadpoint's listener, state,
  circuit and handle come and go together (`IsWired`), and a station no two chargers have had together
  is registered and knows the loadpoint of its one charger (`Stationed`, `StationsKnown`). `SettingsInv`:
  what was captured and is not owed is in the rows. `WiringTheorem` and `RestartTheorem` follow.
  `MeterInv`: what was once measured in the hour is covered by the row of its own day, which
  pruning keeps longer than any query looks back (`Remembered`; `WorstCaseTheorem`). The parts share no variable, so a step of
  one leaves the other invariants alone. `AnchorTheorem` is of `Vehicle`: each step that turns the
  active car drops the anchor of the one before. `LoginsTheorem` is of `VehicleAuth`: the invariant
  `Rationed` counts the call that passed `token()`'s look at the lockout, and has not logged in yet,
  with the logins made (`VehicleInv`).
* `ServiceProofs`, on four modules that share no variable. `Tariff`: the timer that `clearTimeout`
  knows is set in time for the day as it looks now (`InTime`), and each chain computes the health
  again before the slots run out (`Relooks`), which `FetchTheorem` and `HealthTheorem` read off.
  `Reconfigure`: `RunsItsConfig` needs that every reload under way carries a value that can be built
  (`OnlyBuilt`), and that a reload no other has overlapped still holds the module it is to stop
  (`HoldsItsModule`). `LiveSync`: for `EchoTheorem` the last mode event under way tells the mode the backend
  holds (`LastModeIsTrue`), and from the first read on the page's mode agrees with the backend's unless a
  post or a mode event is under way or one was lost (`Reconciled`). The status is only said to be the one
  the page derives from its own flags; that stale flags do not last is `ChargingIsShown`, by TLC.
  `SmartCharge`: a decision in force is the one the state as it is would give (`Decided`), and a promise
  governs until its time and fits into the time left and into the battery (`PromiseInv`).
  `PromiseTheorem` rests on `WaitingIsSafe`: a tick that waits has left out the slot that is to come, so
  the rest of the slots were enough (`CheapestFirst`, by counting what comes before a slot in price
  order). `FetchedTheorem` holds of price slots of any length, `CheapestTheorem` of a quarter-hour,
  because of an hourly tariff the slot in progress is not fetched (section 6, 7).

The assumptions are the named ones of the modules: of `PlanningAssumption` the proofs use that twice
the hysteresis is below the minimum, of `LoopAssumption` and `TickAssumption` that no ceiling is below
the minimum. `HouseProofs` uses `BridgeAssumption`, `TransferAssumption` and `GarageAssumption`: the
sets of modes and settings are not empty, and the markers (gone, cleared, none) are not among them;
`SettingsAssumption`, that no field is both live and captured; `MeterAssumption`, that there is a phase
and a largest load; and `AuthAssumption` and
`VehicleAssumption`, that the vehicle's times and counts are at least 1. `OcppAssumption`: there is
a transaction, a plug-in and room for a message, and the markers are none of these. `ClockAssumption`: the
clocks change by no more than the longest retry, not before the window has come, and by less than
what is left of the day after it. `ChargeAssumption`: prices are numbers, plans and
ad-hoc targets are records, and the marker for no plan is none of them.

Model-checked only: every liveness property (fairness and ENABLED are beyond the prover) and
`LoopComesToRest` of `CircuitLoop` for a balancer's circuit. There the allocator's hysteresis makes the next
command not monotone in the last one (1 A above the candidate it is kept, 2 A above it is not), so
the argument for a bare loadpoint does not carry over. The reconciler's choice of a lever uses `SelectSeq`, a recursive operator the
prover does not take; the theorems about the reconciler do not depend on which lever it is.

## 6. What the models say about the code

Two runs are expected to fail. `Garage_binding`: `PUT /api/loadpoints/:name` replaces the loadpoint in
the configuration; the circuits keep the object they were built from, so a new tariff or balancer takes
effect only when something rebuilds them, against `api.ts:750`, `reconcile.ts:271` and
`docs/config.md:298`. `Tariff_jitter`: the 15 s abort of a scheduled fetch is made before
`jitterFetch` sleeps up to 120 s (`tariff-elering/api.ts:25`, `tariff-elprisetjustnu/api.ts:40`,
`lifecycle.ts:135`), so most of the fetches abort before they are sent, retries end at midnight, and
prices run out with a provider that is up, against `nordpool-tariff.ts:24`.

Also seen while modelling, and excluded by the properties where the code does not do what a reader
would expect:

1. `debounce.ts:26`: after write 6, set 16 (suppressed), set 6, the timer writes 16.
2. `session-reconciler.ts:297`: the re-assert after `ClearChargingProfile` equals `lastWritten`, so
   the debouncer drops it and the charger stays without a profile.
3. `server.ts:446`: an `Available` of connector 0 closes connector 1's running transaction.
4. `lifecycle.ts:1023` and `1032`: `deliveredKWh` is zeroed and in the same pass raised to the sticky
   `sessionEnergyKWh` of a session whose stop was lost, so a new car may be complete at once.
5. `allocator.ts:45`: 1 A of hysteresis uses up the 1 A of `reserveA`, so the circuit may rest at the
   fuse itself; `lifecycle.ts:1154`: a write that failed is recorded as made, and a lowering is then
   never repeated.
6. `server.ts:303`: `onConnect`'s fallback may push `connected: true` after the disconnect handler
   dropped the station; `server.ts:384`: the boot default goes past the debouncer and races the
   re-assert.
7. `lifecycle.ts:827` and `nordpool-tariff.ts:65`: the price slot in progress is never fetched, so with
   hourly prices the rest of the hour has no price and is not chosen; the bridge's "now" price
   (`mqtt-bridge.ts:226`) is the next slot's for the same reason.
8. `nordpool-tariff.ts:47`: an insert that throws leaves the connection inside a transaction, and no
   later `BEGIN` is accepted; `nordpool-tariff.ts:241`: a `refresh()` during a fetch doubles the chain,
   and a `stop()` during one does not end it; `tariff-elering/api.ts:36`: an empty answer ends it;
   a retry that still fails after midnight waits for the window although
   `nordpool-tariff.ts:143-146` speaks against stranding.
9. `api.ts:351` and `config-io.ts:319`: a meter without broker, or a redacted import whose secret is not
   known, is stored, and the next boot dies in `create()`.
10. `config-io.ts:78` redacts every `password`, but `deRedact` restores those of bridge, meters and
    vehicles only: a redacted round trip stores the placeholder in a balancer, charger or tariff,
    though placeholders are "never persisted" (`config-io.ts:233`). `GET /api/site` shows the bridge's
    placeholder for the client to send back (`api.ts:1369`), and `PUT /api/mqtt-bridge` stores it.
    `deRedact` reads memory, which a bridge edit or an earlier import does not change: a redacted import
    before the restart brings the old password back.
11. `config-io.ts:324-328`: an import is no transaction, and a half one is not repeated.
    `loadpoint.ts:178`: merging a loadpoint without `defaultMode` resets its mode to smart.
12. Read in the source, not in a model: by `shutdown.ts:73` "a second signal is ignored", but
    `process.once` has removed the listener: the second signal of a kind ends the process in the middle
    of the drain. `shutdown.ts:57`: a `stop()` that throws outright rejects the drain. `lifecycle.ts:1426`: `postStartupTimer` is passed by value before
    it is ever set.
13. `reconcile.ts:91`: of two slow reloads the one that started first may win, until the next start;
    and the module that is swapped in first is stopped by neither (`old` is looked up at line 89, before
    the await, and stopped at 95), so its timers go on until the process ends.
    `reconcile.ts:266`: removing a vehicle drops its bindings in memory only. `api.ts:154` names chargers
    by charger where `lifecycle.ts:1264` keys them by loadpoint.
14. `mqtt-bridge.ts:187`: a clearing lost on a dead connection leaves the topics; `mqtt-bridge.ts:70`:
    module health is mirrored on connect only.
15. `parse.ts:31`: a phase not heard yet counts as zero, and a silent one as fresh; `control-loop.ts:148`:
    a telegram of power alone gives a live load of 0 A.
16. `control-loop.ts:104`: a boost chosen while the connector is Available is measured against the unplug
    before it. `session-complete.ts:85`: the settle timer may pre-empt the resume of a car that was fed,
    paused and latched. A resume takes the ladder back to its first rung, so `clear-profile` and `reset`
    may stay out of reach before the cap. A link that breaks just after a car fills up forgets the
    settle timer but not the stall, and a taper between 0.5 and 1 A may use up the grace before the
    settle timer starts: without telemetry such a car is resumed although it is full, or only filling
    up (hence `steady` in `FullCarLeftAlone`).
17. `server.ts:328`: every connect re-arms `hasAutoStarted`, so a plugged car without a transaction is
    started again after each reconnect, against "fires ONCE per plug-in" (`server.ts:70`) and "any
    legitimate re-start after the first is the reconciler's job" (`status.ts:19-24`). A car that came
    while the charger was offline is not started while a rehydrated id is held and no `Available` is seen.
18. `server.ts:303`: a charger that leaves the trigger unanswered is reported free, so without telemetry
    `decideSession` ends the episode of a car that is still stuck and renews its budget at each
    reconnect, the one after its own reset included, against `session-reconciler.ts:57` on the cap that
    no disconnect should reset (`TakenForFree` in `BudgetRenewedOnEvidence`; the fresh-stall cure is
    stated for connectors that do not look free).
19. `api.ts:534`: a claim checks the name only. Two chargers may have one station; the OCPP server then
    knows one of the loadpoints, and deleting either charger unregisters the station of both
    (`api.ts:631`), until the other is edited or the process restarts.
20. `api.ts:601`: "a charger defined in osc.yaml returns on the next reboot", but `osc.yaml` is copied into
    the rows once and inert from then on (`docs/architecture.md:130`).
21. `api.ts:595`: an edit of a charger that a replacing import has removed from the rows, before the
    restart, writes a row without a type, which no later boot accepts. A crash between the two rows of a
    claim or a removal leaves a charger without a loadpoint, whose name is taken until it is deleted.

## 7. Not modelled, and why

Arithmetic over floating point (`estimator.ts`, efficiencies, `power-history.ts`), date arithmetic by
time zone (its effects are in `Tariff` and `Meter`), weekdays of recurring plans, the climate cap, car
charge commands beyond the reconciler's levers, parsing of telegrams and configuration schemas beyond
"parses" and "can be built". Read-only API views, OCPP diagnostics, the log ring, plugin discovery and
migrations keep no state that a property here is about. The shutdown: its one promise is a watchdog
timer, and a model would restate that timer's fairness. Requests made between an import and the restart
it asks for. The user's guest override through a replacing import, which deletes it
(`config-io.ts:326`). The web UI's components, onboarding and
simulated backend are presentation. Scripts and test doubles are no part of the running system.
