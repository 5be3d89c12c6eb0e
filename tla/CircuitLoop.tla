---------------------------- MODULE CircuitLoop ----------------------------
(***************************************************************************)
(* The control loop as a loop: a circuit tick reads the house meter and    *)
(* the chargers' currents, resolves the budget, splits it and commands the *)
(* chargers; the cars follow the commands, and the meter sees them do so.  *)
(*                                                                         *)
(* Readings are as old as they happen to be: the meter frame and each      *)
(* charger's MeterValues are taken at different moments, and ticks follow  *)
(* API calls as well as the interval.  What the loop promises of calm      *)
(* surroundings it promises of ticks that find fresh readings, as those of *)
(* the interval do: a car follows and reports within 30 s.                 *)
(***************************************************************************)
EXTENDS Planning

CONSTANTS MaxA,      \* maxCurrentA of each loadpoint
          BreakerA,  \* mainBreakerA of the circuit
          ReserveA,  \* reserveA
          Loads,     \* what the rest of the house may draw
          Demands,   \* what a car may want to draw
          Asks,      \* what a loadpoint may ask for
          Worsts,    \* worst-case loads on record, NoValue when none
          Statics,   \* time-of-day budgets
          CalmTicks  \* ticks after which a calm circuit is at rest

ASSUME LoopAssumption ==
    /\ MaxA \in [Loadpoints -> Nat] /\ \A i \in Loadpoints : MaxA[i] >= MinA
    /\ BreakerA \in Nat /\ ReserveA \in Nat
    /\ Loads \subseteq Nat /\ Demands \subseteq Nat
    /\ Asks \subseteq ModesAsked
    /\ Worsts \subseteq Nat \union {NoValue} /\ Statics \subseteq Nat
    /\ CalmTicks \in Nat

VARIABLES
    balanced,   \* the circuit has a balancer; if not, loadpoint 1 is all of it
    load,       \* the house: the worst phase, without the cars
    demand,     \* car: what it would draw
    ask,        \* loadpoint: mode and decision
    feed,       \* the meter reader is healthy
    worst,      \* the worst-case load on record, or NoValue
    static,     \* the time-of-day budget
    meter,      \* OSC: the last meter frame, NoValue when stale or none
    current,    \* OSC: currentA of the loadpoint
    commanded,  \* OSC: lastCommandedA
    limit,      \* charger: the limit it enforces
    draw,       \* car: what it draws
    calm        \* history: ticks with fresh readings since anything else happened

world == <<balanced, load, demand, ask, feed, worst, static>>
vars == <<world, meter, current, commanded, limit, draw, calm>>

Circuit == IF balanced THEN Loadpoints ELSE {1}
Total == load + Sum(draw)
Follow(i) == Lower(limit[i], demand[i])

LoopTypeOK ==
    /\ balanced \in BOOLEAN /\ feed \in BOOLEAN /\ calm \in 0..CalmTicks
    /\ load \in Loads /\ worst \in Worsts /\ static \in Statics
    /\ demand \in [Loadpoints -> Demands]
    /\ ask \in [Loadpoints -> ModesAsked]
    /\ meter \in Nat \union {NoValue}
    /\ current \in [Loadpoints -> Nat] /\ draw \in [Loadpoints -> Nat]
    /\ commanded \in [Loadpoints -> Nat \union {NoValue}]
    /\ limit \in [Loadpoints -> Nat]

-----------------------------------------------------------------------------
(* resolveCircuitBudget: a balancer's circuit is capped by its fuse, a     *)
(* bare loadpoint by its own ceiling.                                      *)
Budget ==
    resolveCurrentBudget(IF balanced THEN BreakerA ELSE MaxA[1], BreakerA, ReserveA, meter,
        IF balanced THEN circuitOwnDrawA(current, commanded)
                    ELSE Credit(current[1], commanded[1]),
        worst, static)

(* planCircuit, with balancer.tick for a balancer's circuit.               *)
Amps == IF balanced
          THEN allocate(Budget, ask, MaxA, commanded)
          ELSE [i \in Loadpoints |-> IF i = 1 THEN bareCircuitAmps(ask[1], Budget) ELSE 0]

LoopInit ==
    /\ balanced \in BOOLEAN /\ load \in Loads /\ worst \in Worsts /\ static \in Statics
    /\ demand \in [Loadpoints -> Demands]
    /\ ask \in [Loadpoints -> Asks \union {"disabled"}]
    /\ \A i \in Loadpoints \ Circuit : ask[i] = "disabled"
    /\ feed = TRUE
    /\ meter = NoValue
    /\ current = [i \in Loadpoints |-> 0] /\ draw = current /\ limit = current
    /\ commanded = [i \in Loadpoints |-> NoValue]
    /\ calm = 0

Fresh == /\ feed => meter = Total
         /\ \A i \in Loadpoints : draw[i] = Follow(i) /\ current[i] = draw[i]

(* circuitTick, from the budget to the writes.  A write may fail (refused, *)
(* timed out, no socket): circuitTick swallows that and records it all the *)
(* same.                                                                   *)
Tick ==
    /\ LET amps == Amps
           writes == {i \in Circuit : shouldWrite(amps[i], commanded[i])}
       IN  /\ commanded' = [i \in Loadpoints |->
                IF i \in writes THEN softStartLimit(amps[i], OrZero(commanded[i]))
                                ELSE commanded[i]]
           /\ \E failed \in SUBSET writes :
                /\ limit' = [i \in Loadpoints |->
                     IF i \in writes \ failed THEN commanded'[i] ELSE limit[i]]
                /\ calm' = IF Fresh /\ failed = {} THEN Lower(calm + 1, CalmTicks) ELSE 0
    /\ UNCHANGED <<world, meter, current, draw>>

(* The car takes what it is offered, up to what it wants.                  *)
CarFollows(i) ==
    /\ draw[i] # Follow(i)
    /\ draw' = [draw EXCEPT ![i] = Follow(i)]
    /\ UNCHANGED <<world, meter, current, commanded, limit, calm>>

(* A frame of the meter reader; a MeterValues of the charger.              *)
MeterFrame ==
    /\ feed /\ meter # Total
    /\ meter' = Total
    /\ UNCHANGED <<world, current, commanded, limit, draw, calm>>

MeterValues(i) ==
    /\ current[i] # draw[i]
    /\ current' = [current EXCEPT ![i] = draw[i]]
    /\ UNCHANGED <<world, meter, commanded, limit, draw, calm>>

(* The meter's feed is lost (its reader's health is no longer ok) or back. *)
FeedChanges ==
    /\ feed' = ~feed /\ meter' = NoValue
    /\ calm' = 0
    /\ UNCHANGED <<balanced, load, demand, ask, worst, static, current, commanded, limit, draw>>

LoadChanges ==
    /\ load' \in Loads \ {load}
    /\ calm' = 0
    /\ UNCHANGED <<balanced, demand, ask, feed, worst, static, meter, current, commanded, limit,
                   draw>>

DemandChanges(i) ==
    /\ \E d \in Demands \ {demand[i]} : demand' = [demand EXCEPT ![i] = d]
    /\ calm' = 0
    /\ UNCHANGED <<balanced, load, ask, feed, worst, static, meter, current, commanded, limit,
                   draw>>

(* A mode change, a price slot, a target reached.                          *)
AskChanges(i) ==
    /\ i \in Circuit
    /\ \E a \in Asks \ {ask[i]} : ask' = [ask EXCEPT ![i] = a]
    /\ calm' = 0
    /\ UNCHANGED <<balanced, load, demand, feed, worst, static, meter, current, commanded, limit,
                   draw>>

(* OSC restarts: its maps and last readings are gone, the chargers keep    *)
(* their limits.                                                           *)
Restart ==
    /\ meter' = NoValue
    /\ current' = [i \in Loadpoints |-> 0]
    /\ commanded' = [i \in Loadpoints |-> NoValue]
    /\ calm' = 0
    /\ UNCHANGED <<world, limit, draw>>

LoopNext ==
    \/ Tick
    \/ MeterFrame
    \/ \E i \in Loadpoints : CarFollows(i) \/ MeterValues(i) \/ DemandChanges(i) \/ AskChanges(i)
    \/ FeedChanges \/ LoadChanges
    \/ Restart

LoopSpec == LoopInit /\ [][LoopNext]_vars

-----------------------------------------------------------------------------
(* A charger is never told to offer a current below the IEC minimum or     *)
(* above its own ceiling, whatever hysteresis, soft start, floor and rung  *)
(* came to (softStartLimit, allocate, settle).                             *)
CommandsAreLegal ==
    \A i \in Loadpoints :
        /\ commanded[i] \in {NoValue, 0} \union MinA..MaxA[i]
        /\ limit[i] \in {0} \union MinA..MaxA[i]

(* The split of a tick stays within the budget but for the hysteresis of   *)
(* each loadpoint (allocate).                                              *)
SplitWithinBudget ==
    LET budget == Budget  amps == Amps
    IN  Sum(amps) <= budget + N * Hysteresis

(* Another tick would command nothing new.                                 *)
AtRest ==
    LET amps == Amps
    IN  \A i \in Circuit : shouldWrite(amps[i], commanded[i]) => amps[i] = commanded[i]

(* In calm surroundings the loop comes to rest within CalmTicks ticks:     *)
(* credit-back, deadband and hysteresis keep it from oscillating, and the  *)
(* soft start from stopping half-way.                                      *)
LoopComesToRest == calm = CalmTicks /\ Fresh => AtRest

(* And where it rests the circuit is below the fuse less the reserve, but  *)
(* for the hysteresis, or it is paused, also when a car draws less than it *)
(* is offered: docs/config.md:62, "a brief overshoot is corrected on the   *)
(* next control tick"; if the chargers got the last write.                 *)
RestsBelowFuse ==
    AtRest /\ Fresh /\ feed /\ (\A i \in Circuit : limit[i] = commanded[i])
      => \/ Total <= BreakerA - ReserveA + N * Hysteresis
         \/ \A i \in Loadpoints : draw[i] = 0
=============================================================================
