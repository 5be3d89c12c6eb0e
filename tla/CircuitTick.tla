---------------------------- MODULE CircuitTick ----------------------------
(***************************************************************************)
(* circuitTick (core/lifecycle.ts) of one balancer's circuit as the code   *)
(* that runs between its awaits: a tick resolves the loadpoints, plans,    *)
(* writes charger by charger, reconciles the sessions and, in its finally, *)
(* runs again if it was called meanwhile.  The user changes modes, prices  *)
(* change, cars come and go, and OSC may crash between any two steps.      *)
(*                                                                         *)
(* The budget is constant (CircuitLoop varies it) and writes arrive        *)
(* (CircuitLoop and LimitPath let them fail).  Ticks past the guard have   *)
(* identities, so that two at once are a state the model can be in.        *)
(***************************************************************************)
EXTENDS Planning

CONSTANTS MaxA,       \* maxCurrentA of each loadpoint
          BudgetA,    \* the circuit's budget
          AutoRevert, \* loadpoints with autoRevertToSmart
          Grace,      \* FAST_BOOST_UNPLUG_GRACE_MS
          Ticks       \* bound: ticks past their guard at once

ASSUME TickAssumption ==
    /\ MaxA \in [Loadpoints -> Nat] /\ \A i \in Loadpoints : MaxA[i] >= MinA
    /\ BudgetA \in Nat /\ BudgetA >= MinA
    /\ AutoRevert \subseteq Loadpoints /\ Grace \in Nat
    /\ Ticks # {} /\ NoValue \notin {"charge", "wait"}

VARIABLES
    mode,       \* mode of each loadpoint, in memory and in its row
    cheap,      \* the planner would charge in this slot
    since,      \* age of availableSince, NoValue when not set
    running,    \* tickSlots: running
    rerun,      \* tickSlots: rerun
    phase,      \* where each tick is, "none" when there is no such tick
    should,     \* tick: shouldChargeNow of the loadpoints resolved so far
    writes,     \* tick: the amps planned and not yet written
    resolve,    \* loadpoint: shouldChargeNow as published
    commanded,  \* lastCommandedA
    limit,      \* charger: the limit it holds
    booting,    \* history: no tick has ended since OSC started
    settled     \* the surroundings have stopped changing

slot == <<running, rerun, phase>>
plan == <<should, writes>>
world == <<cheap, settled>>
vars == <<mode, since, slot, plan, resolve, commanded, limit, booting, world>>

Modes == {"disabled", "smart", "fast"}
Decisions == {"charge", "wait", NoValue}   \* NoValue: not asked of this mode
Amps(i) == {0} \union MinA..MaxA[i]
Offers == UNION {Amps(i) : i \in Loadpoints}
OfSome(S) == UNION {[I -> S] : I \in SUBSET Loadpoints}
Nothing == [i \in {} |-> 0]

TickTypeOK ==
    /\ mode \in [Loadpoints -> Modes] /\ cheap \in BOOLEAN
    /\ since \in [AutoRevert -> 0..Grace + 1 \union {NoValue}]
    /\ running \in BOOLEAN /\ rerun \in BOOLEAN
    /\ phase \in [Ticks -> {"none", "resolving", "writing", "session"}]
    /\ should \in [Ticks -> OfSome(Decisions)] /\ writes \in [Ticks -> OfSome(Offers)]
    /\ \A t \in Ticks, i \in Loadpoints : i \in DOMAIN writes[t] => writes[t][i] \in Amps(i)
    /\ resolve \in [Loadpoints -> Decisions]
    /\ commanded \in [Loadpoints -> Nat \union {NoValue}] /\ limit \in [Loadpoints -> Nat]
    /\ \A i \in Loadpoints : commanded[i] \in Amps(i) \union {NoValue} /\ limit[i] \in Amps(i)
    /\ booting \in BOOLEAN /\ settled \in BOOLEAN

TickInit ==
    /\ mode \in [Loadpoints -> Modes] /\ cheap \in BOOLEAN
    /\ since = [i \in AutoRevert |-> NoValue]
    /\ running = FALSE /\ rerun = FALSE
    /\ phase = [t \in Ticks |-> "none"]
    /\ should = [t \in Ticks |-> Nothing] /\ writes = should
    /\ resolve = [i \in Loadpoints |-> NoValue]
    /\ commanded = [i \in Loadpoints |-> NoValue]
    /\ limit = [i \in Loadpoints |-> 0]
    /\ booting = TRUE /\ settled = FALSE

-----------------------------------------------------------------------------
(* shouldExpireFastToSmart of a loadpoint in mode m.                       *)
shouldExpireFastToSmart(i, m) ==
    i \in AutoRevert /\ m = "fast" /\ since[i] # NoValue /\ since[i] > Grace

(* The head of circuitTick, as tick t, while the modes are m: revert the   *)
(* boosts whose car is gone, and start resolving.                          *)
Begin(t, m) ==
    LET expired == {i \in Loadpoints : shouldExpireFastToSmart(i, m[i])}
    IN  /\ mode' = [i \in Loadpoints |-> IF i \in expired THEN "smart" ELSE m[i]]
        /\ since' = [i \in AutoRevert |-> IF i \in expired THEN NoValue ELSE since[i]]
        /\ running' = TRUE
        /\ phase' = [phase EXCEPT ![t] = "resolving"]
        /\ should' = [should EXCEPT ![t] = Nothing]

NewTick == CHOOSE t \in Ticks : phase[t] = "none"

(* A call of circuitTick while the modes are m; a running tick is marked   *)
(* for a rerun instead.  Slips: it is not marked; there is no guard.       *)
CallUnmarked(m) ==
    /\ IF running THEN mode' = m /\ UNCHANGED <<since, running, phase, should>>
                  ELSE Begin(NewTick, m)
    /\ UNCHANGED <<rerun, writes, resolve, commanded, limit, booting>>

CallUnguarded(m) ==
    /\ \E t \in Ticks : phase[t] = "none" /\ Begin(t, m)
    /\ UNCHANGED <<rerun, writes, resolve, commanded, limit, booting>>

Call(m) ==
    /\ IF running
         THEN rerun' = TRUE /\ mode' = m /\ UNCHANGED <<since, running, phase, should>>
         ELSE Begin(NewTick, m) /\ UNCHANGED rerun
    /\ UNCHANGED <<writes, resolve, commanded, limit, booting>>

(* runAllCircuits, at once after the start and then on the interval.       *)
Interval == Call(mode) /\ UNCHANGED world

(* handleModeChange: memory, row and a tick, all in one go.                *)
ModeChange(i) ==
    /\ ~settled
    /\ \E m \in Modes \ {mode[i]} : Call([mode EXCEPT ![i] = m])
    /\ UNCHANGED world

(* resolveLoadpoint past its awaits, one loadpoint at a time: a decision   *)
(* is asked only for a loadpoint that is smart by then.                    *)
Resolve(t, i) ==
    /\ phase[t] = "resolving" /\ i \notin DOMAIN should[t]
    /\ LET decision == IF mode[i] # "smart" THEN NoValue
                       ELSE IF cheap THEN "charge" ELSE "wait"
       IN  should' = [should EXCEPT ![t] = [j \in DOMAIN @ \union {i} |->
                                              IF j = i THEN decision ELSE @[j]]]
    /\ UNCHANGED <<mode, since, slot, writes, resolve, commanded, limit, booting, world>>

(* buildSnapshot: the mode of now with the decision of then.               *)
AskOf(m, decision) == IF m = "smart" /\ decision = "wait" THEN "wait" ELSE m

(* All are resolved: publish, allocate, planCircuit.                       *)
Plan(t) ==
    /\ phase[t] = "resolving" /\ DOMAIN should[t] = Loadpoints
    /\ resolve' = should[t]
    /\ LET amps == allocate(BudgetA, [i \in Loadpoints |-> AskOf(mode[i], should[t][i])],
                            MaxA, commanded)
           writing == {i \in Loadpoints : shouldWrite(amps[i], commanded[i])}
       IN  writes' = [writes EXCEPT ![t] = [i \in writing |-> amps[i]]]
    /\ should' = [should EXCEPT ![t] = Nothing]
    /\ phase' = [phase EXCEPT ![t] = "writing"]
    /\ UNCHANGED <<mode, since, running, rerun, commanded, limit, booting, world>>

(* The awaited write of the first loadpoint left is answered.              *)
Write(t) ==
    /\ phase[t] = "writing" /\ DOMAIN writes[t] # {}
    /\ LET left == DOMAIN writes[t]
           i == CHOOSE j \in left : \A k \in left : j <= k
           sent == softStartLimit(writes[t][i], OrZero(commanded[i]))
       IN  /\ commanded' = [commanded EXCEPT ![i] = sent]
           /\ limit' = [limit EXCEPT ![i] = sent]
           /\ writes' = [writes EXCEPT ![t] = [j \in left \ {i} |-> @[j]]]
    /\ UNCHANGED <<mode, since, slot, should, resolve, booting, world>>

(* All are written: on to the session reconciler and what it awaits.       *)
Written(t) ==
    /\ phase[t] = "writing" /\ DOMAIN writes[t] = {}
    /\ phase' = [phase EXCEPT ![t] = "session"]
    /\ UNCHANGED <<mode, since, running, rerun, plan, resolve, commanded, limit, booting, world>>

(* The finally: release the slot, and run again if called meanwhile.       *)
(* Slip: it calls before it releases, and so only marks itself again.      *)
FinallyCallsFirst(t) ==
    /\ phase[t] = "session"
    /\ phase' = [phase EXCEPT ![t] = "none"]
    /\ running' = rerun /\ booting' = FALSE
    /\ UNCHANGED <<rerun, mode, since, plan, resolve, commanded, limit, world>>

Finally(t) ==
    /\ phase[t] = "session"
    /\ IF rerun
         THEN Begin(t, mode)
         ELSE /\ running' = FALSE /\ phase' = [phase EXCEPT ![t] = "none"]
              /\ UNCHANGED <<mode, since, should>>
    /\ rerun' = FALSE /\ booting' = FALSE
    /\ UNCHANGED <<writes, resolve, commanded, limit, world>>

TickStep(t) == (\E i \in Loadpoints : Resolve(t, i)) \/ Plan(t) \/ Write(t) \/ Written(t) \/ Finally(t)

-----------------------------------------------------------------------------
(* A status frame: the time the connector has been Available starts with   *)
(* the first such frame and ends with any other.  Frames that say nothing  *)
(* new keep coming.  Slip: each Available frame starts it over.            *)
StatusRestarts(i) ==
    /\ \E available \in BOOLEAN :
          /\ settled => available = (since[i] # NoValue)
          /\ since' = [since EXCEPT ![i] = IF available THEN 0 ELSE NoValue]
    /\ UNCHANGED <<mode, slot, plan, resolve, commanded, limit, booting, world>>

Status(i) ==
    /\ \E available \in BOOLEAN :
          /\ settled => available = (since[i] # NoValue)
          /\ since' = [since EXCEPT ![i] = IF ~available THEN NoValue
                                           ELSE IF @ = NoValue THEN 0 ELSE @]
    /\ UNCHANGED <<mode, slot, plan, resolve, commanded, limit, booting, world>>

TimePasses ==
    /\ since' = [i \in AutoRevert |->
                   IF since[i] = NoValue THEN NoValue ELSE Lower(since[i] + 1, Grace + 1)]
    /\ UNCHANGED <<mode, slot, plan, resolve, commanded, limit, booting, world>>

PriceChanges ==
    /\ ~settled /\ cheap' = ~cheap
    /\ UNCHANGED <<mode, since, slot, plan, resolve, commanded, limit, booting, settled>>

(* OSC ends anywhere, an exception in a tick included (nothing catches it) *)
(* and is started again: the modes are in their rows and the chargers keep *)
(* their limits, all else is lost.                                         *)
Restart ==
    /\ ~settled
    /\ running' = FALSE /\ rerun' = FALSE
    /\ phase' = [t \in Ticks |-> "none"]
    /\ should' = [t \in Ticks |-> Nothing] /\ writes' = should'
    /\ since' = [i \in AutoRevert |-> NoValue]
    /\ resolve' = [i \in Loadpoints |-> NoValue]
    /\ commanded' = [i \in Loadpoints |-> NoValue]
    /\ booting' = TRUE
    /\ UNCHANGED <<mode, limit, world>>

Settle == ~settled /\ settled' = TRUE
          /\ UNCHANGED <<mode, since, slot, plan, resolve, commanded, limit, booting, cheap>>

TickNext ==
    \/ Interval
    \/ \E i \in Loadpoints : ModeChange(i)
    \/ \E t \in Ticks : TickStep(t)
    \/ \E i \in AutoRevert : Status(i)
    \/ TimePasses \/ PriceChanges
    \/ Restart
    \/ Settle

(* The interval timer fires, every await of a tick ends (the OCPP calls    *)
(* and the vehicle's HTTP calls have timeouts), and time passes.           *)
TickFairness == WF_vars(Interval) /\ WF_vars(TimePasses) /\ \A t \in Ticks : WF_vars(TickStep(t))

TickSpec == TickInit /\ [][TickNext]_vars /\ TickFairness

-----------------------------------------------------------------------------
Charging(i) == mode[i] = "fast" \/ (mode[i] = "smart" /\ resolve[i] = "charge")

(* Between ticks nothing is out of date: what is published is a decision   *)
(* made for the mode the loadpoint is in, and a loadpoint that is off or   *)
(* waits for a price is at 0 A, whatever was changed while the tick ran.   *)
QuietIsCurrent ==
    ~running /\ ~booting
      => \A i \in Loadpoints : /\ (resolve[i] # NoValue) <=> (mode[i] = "smart")
                              /\ ~Charging(i) => limit[i] = 0

(* Between ticks the limits the chargers hold are within the budget, but   *)
(* for the hysteresis of each: the writes of one plan, made one after the  *)
(* other, never stay mixed with those of another (tickSlots).              *)
QuietWithinBudget ==
    ~running /\ ~booting => Sum(limit) <= BudgetA + N * Hysteresis

(* Once nothing changes any more, every loadpoint comes to what its mode   *)
(* and the price say: off or waiting ones to 0 A and, if any wants to      *)
(* charge, some charger to a current.  No rerun or boost keeps a circuit   *)
(* from it, and no crash did.                                              *)
Wants(i) == mode[i] = "fast" \/ (mode[i] = "smart" /\ cheap)
SettledIsApplied ==
    <>settled => <>[](/\ \A i \in Loadpoints : ~Wants(i) => limit[i] = 0
                      /\ (\E i \in Loadpoints : Wants(i)) => \E i \in Loadpoints : limit[i] > 0)

(* A boost whose car is gone ends, however many frames repeat that the     *)
(* connector is Available (docs/config.md:276, "a boost that ends at       *)
(* unplug").                                                               *)
BoostEnds ==
    \A i \in AutoRevert :
        (settled /\ mode[i] = "fast" /\ since[i] # NoValue) ~> (mode[i] # "fast")
=============================================================================
