------------------------------- MODULE Meter -------------------------------
(***************************************************************************)
(* The house meter and the memory of its load: a reader that listens to    *)
(* the phase currents over MQTT, either raw, one phase to a message, or as *)
(* the telegrams of a Tibber Pulse, which falls back to sending batches    *)
(* nobody here can read unless it is told again and again not to           *)
(* (modules/meter-mqtt-phase, modules/meter-tibber-pulse); and the rollup  *)
(* of the hourly maxima the circuit budget falls back to when the reader   *)
(* is not fresh (smart-charging/rollup.ts and the meter.snapshot handler   *)
(* and resolveCircuitBudget of core/lifecycle.ts).                         *)
(* One hour of the day is followed, with its rows of the last days.        *)
(***************************************************************************)
EXTENDS Integers, FiniteSets, FiniteSetsExt

CONSTANTS Phases,          \* the phases of the house
          Loads,           \* the currents a phase may carry, in A; 0 is one of them
          historicalDays,  \* smartCharging.historicalDays
          MaxRows          \* bound: days with a row of the hour

ASSUME MeterAssumption ==
    /\ Loads \subseteq Nat /\ 0 \in Loads /\ \E most \in Loads : \A a \in Loads : a <= most
    /\ Phases # {}
    /\ historicalDays \in Nat \ {0, 1} /\ MaxRows \in Nat

VARIABLES kind,      \* the reader configured: "none", "phases" or "pulse"
          connected, \* is it connected to its broker?
          latest,    \* its last snapshot, or NoSnapshot
          fresh,     \* is that younger than staleAfterSec?
          batched,   \* does the Pulse send batches?
          due,       \* has disableIntervalSec passed since it was last told not to?
          rows,      \* household_load_hourly: the maxima of the hour, by the age of their day
          pruned,    \* has this process pruned the rows today?
          sample     \* one load once measured in that hour, as it happened, or NoSample
meterVars == <<kind, connected, latest, fresh, batched, due, rows, pruned, sample>>

NoSnapshot == <<>>
NoSample == [age |-> -1, amps |-> 0]
Zeros == [p \in Phases |-> 0]

\* The days the rows are kept.
keepDays == historicalDays + 4
\* Rows this old are in no query and in every pruning.
Oldest == keepDays + 2
\* Days are counted back in steps of 24 hours: around a change of the clocks the date that
\* gives may be a day early or late.
DateSlips == {-1, 0, 1}

maxPhaseA(s) == Max({s[p] : p \in Phases})

----------------------------------------------------------------------------
(***************************************************************************)
(* The rollup.                                                             *)
(***************************************************************************)

recordHouseholdLoad(rs, a) ==
    LET before == {r.amps : r \in {x \in rs : x.age = 0}}
    IN {r \in rs : r.age # 0} \cup {[age |-> 0, amps |-> Max(before \cup {a})]}

\* Slip: no day is kept beyond the look-back
pruneShort(rs, slip) == {r \in rs : r.age <= historicalDays - 1 + slip}

pruneHouseholdLoad(rs, slip) == {r \in rs : r.age <= keepDays + slip}

\* The rows worstCaseLoadA asks for; it answers null when there are none.
LookBack(slip) == {r \in rows : r.age <= historicalDays - 1 + slip}

worstCaseLoadA(slip) == Max({r.amps : r \in LookBack(slip)})

\* The meter.snapshot handler: a load is recorded, and the first of a day prunes.
OnSnapshot(s) ==
    IF maxPhaseA(s) = 0
    THEN UNCHANGED <<rows, pruned, sample>>
    ELSE \E inHour \in BOOLEAN, slip \in DateSlips :
           LET folded == IF inHour THEN recordHouseholdLoad(rows, maxPhaseA(s)) ELSE rows
           IN /\ Cardinality(folded) <= MaxRows
              /\ rows' = IF pruned THEN folded ELSE pruneHouseholdLoad(folded, slip)
              /\ pruned' = TRUE
              /\ sample' \in {sample} \cup
                     (IF inHour THEN {[age |-> 0, amps |-> maxPhaseA(s)]} ELSE {})

----------------------------------------------------------------------------
(***************************************************************************)
(* The readers.                                                            *)
(***************************************************************************)

\* Slip: the age of the snapshot is not looked at
healthAgeless == IF latest = NoSnapshot THEN "unavailable" ELSE "ok"

health == IF latest = NoSnapshot THEN "unavailable" ELSE IF fresh THEN "ok" ELSE "degraded"

\* circuitLiveMaxPhaseA has a load to go by: the sole reader is there and fresh.
Live == kind # "none" /\ health = "ok"

\* The rung of resolveCurrentBudget that a circuit with a known fuse stands on.
rung(slip) ==
    CASE Live -> "live-meter"
      [] ~Live /\ LookBack(slip) # {} -> "historical-worstcase"
      [] ~Live /\ LookBack(slip) = {} -> "static-tod"

MeterInit ==
    /\ kind \in {"phases", "pulse"}
    /\ connected = FALSE
    /\ latest = NoSnapshot
    /\ fresh = FALSE
    /\ batched = (kind = "pulse")
    /\ due = TRUE
    /\ rows = {}
    /\ pruned = FALSE
    /\ sample = NoSample

\* Tells the Pulse not to batch, once an interval; whether it hears is up to the network.
disableBatching(may, heard) ==
    /\ batched' = (batched /\ ~(may /\ heard))
    /\ due' = FALSE

MeterConnects(heard) ==
    /\ kind # "none" /\ ~connected
    /\ connected' = TRUE
    /\ IF kind = "pulse" THEN disableBatching(TRUE, heard) ELSE UNCHANGED <<batched, due>>
    /\ UNCHANGED <<kind, latest, fresh, rows, pruned, sample>>

MeterDisconnects ==
    /\ connected
    /\ connected' = FALSE
    /\ UNCHANGED <<kind, latest, fresh, batched, due, rows, pruned, sample>>

Snapshot(s) == latest' = s /\ fresh' = TRUE /\ OnSnapshot(s)

\* applyPhaseMessage: the other phases keep what they last had, 0 at first.
PhaseMessage(p, a) ==
    /\ kind = "phases" /\ connected
    /\ Snapshot([(IF latest = NoSnapshot THEN Zeros ELSE latest) EXCEPT ![p] = a])
    /\ UNCHANGED <<kind, connected, batched, due>>

\* Slip: a message that is no telegram is dropped before the Pulse is told
BatchDropped(heard) ==
    /\ kind = "pulse" /\ connected
    /\ UNCHANGED meterVars

\* A batch, or a status report in JSON: only a reason to tell the Pulse again.
Batch(heard) ==
    /\ kind = "pulse" /\ connected
    /\ due
    /\ disableBatching(due, heard)
    /\ UNCHANGED <<kind, connected, latest, fresh, rows, pruned, sample>>

\* A telegram: a phase it does not name counts 0, and it may name the power alone.
Telegram(s, heard) ==
    /\ kind = "pulse" /\ connected
    /\ ~batched
    /\ disableBatching(due, heard)
    /\ Snapshot(s)
    /\ UNCHANGED <<kind, connected>>

----------------------------------------------------------------------------
(***************************************************************************)
(* Time, the Pulse and the process.                                        *)
(***************************************************************************)

GoesStale ==
    /\ fresh
    /\ fresh' = FALSE
    /\ UNCHANGED <<kind, connected, latest, batched, due, rows, pruned, sample>>

IntervalPasses ==
    /\ kind = "pulse" /\ ~due
    /\ due' = TRUE
    /\ UNCHANGED <<kind, connected, latest, fresh, batched, rows, pruned, sample>>

Older(r) == IF r.age = Oldest THEN r ELSE [r EXCEPT !.age = @ + 1]

\* Midnight: every row is a day older, and a sample that is in no look-back is let go.
NextDay ==
    /\ kind # "none"
    /\ rows' = {Older(r) : r \in rows}
    /\ pruned' = FALSE
    /\ sample' = IF sample = NoSample \/ sample.age >= historicalDays THEN NoSample
                 ELSE Older(sample)
    /\ UNCHANGED <<kind, connected, latest, fresh, batched, due>>

\* The Pulse loses power, and with it what it was told.
PulseRestarts ==
    /\ kind = "pulse" /\ ~batched
    /\ batched' = TRUE
    /\ UNCHANGED <<kind, connected, latest, fresh, due, rows, pruned, sample>>

\* The process restarts: the rows are in the database, the rest is not.
MeterRestarts ==
    /\ kind # "none"
    /\ connected' = FALSE
    /\ latest' = NoSnapshot
    /\ fresh' = FALSE
    /\ due' = TRUE
    /\ pruned' = FALSE
    /\ UNCHANGED <<kind, batched, rows, sample>>

Heard == \/ \E p \in Phases, a \in Loads : PhaseMessage(p, a)
         \/ \E s \in [Phases -> Loads], heard \in BOOLEAN : Telegram(s, heard)

MeterNext ==
    \/ \E heard \in BOOLEAN : MeterConnects(heard) \/ Batch(heard)
    \/ Heard
    \/ MeterDisconnects
    \/ GoesStale
    \/ IntervalPasses
    \/ NextDay
    \/ PulseRestarts
    \/ MeterRestarts

\* The Pulse is told, and hears it.
Told == /\ kind = "pulse" /\ batched
        /\ MeterConnects(TRUE) \/ Batch(TRUE)

\* mqtt.js connects again, time passes, and a Pulse that is told over and over hears in the end.
MeterFairness ==
    /\ WF_meterVars(\E heard \in BOOLEAN : MeterConnects(heard))
    /\ WF_meterVars(GoesStale)
    /\ WF_meterVars(IntervalPasses)
    /\ SF_meterVars(Told)

----------------------------------------------------------------------------
\* Shape of the state.
MeterTypeOK ==
    /\ kind \in {"none", "phases", "pulse"}
    /\ {connected, fresh, batched, due, pruned} \subseteq BOOLEAN
    /\ latest \in [Phases -> Loads] \cup {NoSnapshot}
    /\ rows \subseteq [age : 0..Oldest, amps : Loads \ {0}]
    /\ sample = NoSample \/ sample \in [age : 0..historicalDays, amps : Loads \ {0}]

\* "Worst-case (max) household load observed in [the hour] across the last historicalDays
\* calendar days" (rollup.ts:24-26): whatever was once measured in the hour is covered by the
\* answer for as long as the look-back reaches, over restarts, prunings and smaller loads.
WorstCaseRemembers ==
    \A slip \in DateSlips :
        sample # NoSample /\ sample.age <= historicalDays - 1 + slip =>
            LookBack(slip) # {} /\ worstCaseLoadA(slip) >= sample.amps

\* A meter that falls silent stops steering the chargers: the budget leaves the live rung
\* again and again unless snapshots keep coming (the staleness gate of control-loop.ts:130-149).
DegradesWhenSilent ==
    \/ []<>(\A slip \in DateSlips : rung(slip) # "live-meter")
    \/ []<><<Heard>>_meterVars

\* A Pulse that falls back to batching is told again and streams again, even though its
\* batches carry nothing the reader can use (client.ts:55-57).
PulseStreams == batched ~> ~batched
=============================================================================
