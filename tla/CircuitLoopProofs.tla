------------------------- MODULE CircuitLoopProofs -------------------------
(***************************************************************************)
(* CircuitLoop for any number of loadpoints, any fuse, ceilings, loads and *)
(* demands: types, legal commands, a split within the budget, a rest below *)
(* the fuse, and, without a balancer, when that rest is reached.           *)
(***************************************************************************)
EXTENDS CircuitLoop, PlanningProofs

(* Inductive as they stand together: a charger keeps a limit some earlier   *)
(* tick commanded, so commands and limits are legal together or not at all. *)
LoopInv == LoopTypeOK /\ CommandsAreLegal

(* What the assumptions say of the constants, in the form the proofs use.  *)
LEMMA Constants ==
    /\ N \in Nat \ {0} /\ MinA \in Nat \ {0} /\ Hysteresis \in Nat /\ 1 \in Loadpoints
    /\ NoValue \notin Int
    /\ \A i \in Loadpoints : MaxA[i] \in Nat /\ MaxA[i] >= MinA
    /\ Ceilings(MaxA)
    /\ BreakerA \in Nat /\ ReserveA \in Nat /\ CalmTicks \in Nat
    /\ Loads \subseteq Nat /\ Demands \subseteq Nat /\ Statics \subseteq Nat
    /\ Worsts \subseteq Nat \union {NoValue}
  BY PlanningAssumption, LoopAssumption DEF Loadpoints, Ceilings

(* A settled budget is nothing, or from the minimum to the ceiling.        *)
LEMMA SettleBounds ==
    ASSUME NEW amps \in Int, NEW ceiling \in Nat
    PROVE  settle(amps, ceiling) \in {0} \union MinA..ceiling
  BY Constants DEF settle, Higher, Lower

(* The budget is nothing, or from the minimum to the ceiling of the rung.  *)
LEMMA BudgetBounds ==
    ASSUME LoopTypeOK
    PROVE  Budget \in {0} \union MinA..(IF balanced THEN BreakerA ELSE MaxA[1])
<1>. DEFINE ceiling == IF balanced THEN BreakerA ELSE MaxA[1]
            own == IF balanced THEN circuitOwnDrawA(current, commanded)
                               ELSE Credit(current[1], commanded[1])
<1>1. ceiling \in Nat
  BY Constants
<1>2. own \in Nat
  <2>1. \A i \in Loadpoints : Credit(current[i], commanded[i]) \in Nat
    BY Constants DEF LoopTypeOK, Credit, Higher, OrZero
  <2>2. circuitOwnDrawA(current, commanded) \in Nat
    BY <2>1, SumType DEF circuitOwnDrawA
  <2>. QED  BY <2>1, <2>2, Constants
<1>3. /\ BreakerA \in Nat /\ BreakerA # NoValue /\ ReserveA \in Nat
      /\ meter \in Nat \union {NoValue} /\ worst \in Nat \union {NoValue} /\ static \in Nat
  BY Constants DEF LoopTypeOK
<1>. HIDE DEF ceiling, own
<1>4. \E amps \in Int :
        resolveCurrentBudget(ceiling, BreakerA, ReserveA, meter, own, worst, static)
          = settle(amps, ceiling)
  <2>1. CASE meter # NoValue
    <3>1. BreakerA - ReserveA - meter + own \in Int
      BY <1>2, <1>3, <2>1
    <3>. QED  BY <1>3, <2>1, <3>1 DEF resolveCurrentBudget
  <2>2. CASE meter = NoValue /\ worst # NoValue
    <3>1. BreakerA - ReserveA - worst - 1 \in Int
      BY <1>3, <2>2
    <3>. QED  BY <1>3, <2>2, <3>1 DEF resolveCurrentBudget
  <2>3. CASE meter = NoValue /\ worst = NoValue
    BY <1>3, <2>3 DEF resolveCurrentBudget
  <2>. QED  BY <2>1, <2>2, <2>3
<1>. QED  BY <1>1, <1>4, SettleBounds DEF Budget, ceiling, own

(* What a tick plans for a loadpoint is legal.                             *)
LEMMA AmpsLegal ==
    ASSUME LoopInv, NEW i \in Loadpoints
    PROVE  Amps[i] \in {0} \union MinA..MaxA[i]
<1>1. Budget \in Int
  BY BudgetBounds, Constants DEF LoopInv
<1>2. CASE balanced
  <2>1. Given(commanded) /\ \A j \in Loadpoints : commanded[j] # NoValue => commanded[j] <= MaxA[j]
    BY Constants DEF LoopInv, LoopTypeOK, CommandsAreLegal, Given
  <2>. QED  BY <1>1, <1>2, <2>1, Constants, AllocateWithinCeilings DEF Amps
<1>3. CASE ~balanced
  BY <1>3, BudgetBounds, Constants DEF Amps, bareCircuitAmps, LoopInv
<1>. QED  BY <1>2, <1>3 DEF LoopInv, LoopTypeOK

(* A soft start from any last command to a legal target is legal.          *)
LEMMA SoftStartLegal ==
    ASSUME NEW i \in Loadpoints, NEW target \in {0} \union MinA..MaxA[i], NEW prev \in Nat
    PROVE  softStartLimit(target, prev) \in {0} \union MinA..MaxA[i]
<1>. target \in Nat /\ MinA \in Nat /\ MaxA[i] \in Nat
  BY Constants
<1>1. target \div 2 \in Nat /\ target \div 2 <= target
  OBVIOUS
<1>. QED  BY <1>1 DEF softStartLimit, Higher

(* The invariant holds at the start: nothing commanded, nothing drawn.     *)
LEMMA LoopInvInit == LoopInit => LoopInv
<1>. SUFFICES ASSUME LoopInit PROVE LoopInv
  OBVIOUS
<1>1. /\ draw = [i \in Loadpoints |-> 0] /\ current = draw /\ limit = draw
      /\ commanded = [i \in Loadpoints |-> NoValue]
  BY DEF LoopInit
<1>2. ask \in [Loadpoints -> ModesAsked]
  BY LoopAssumption DEF LoopInit, ModesAsked
<1>3. LoopTypeOK
  BY <1>1, <1>2, Constants DEF LoopInit, LoopTypeOK
<1>4. CommandsAreLegal
  BY <1>1 DEF CommandsAreLegal
<1>. QED  BY <1>3, <1>4 DEF LoopInv

(* What a car follows to is a number of amps.                              *)
LEMMA FollowType == ASSUME LoopTypeOK, NEW i \in Loadpoints PROVE Follow(i) \in Nat
  BY Constants DEF LoopTypeOK, Follow, Lower

(* So is what the circuit draws in all.                                    *)
LEMMA TotalType == ASSUME LoopTypeOK PROVE Total \in Nat
<1>1. Sum(draw) \in Nat
  BY SumType DEF LoopTypeOK
<1>. QED  BY <1>1, Constants DEF LoopTypeOK, Total

(* A tick keeps the invariant: what it commands is planned, so legal; what *)
(* the charger enforces is the command, or, if the write failed, what it was. *)
LEMMA LoopInvTick == LoopInv /\ Tick => LoopInv'
<1>. SUFFICES ASSUME LoopInv, Tick PROVE LoopInv'
  OBVIOUS
<1>. DEFINE writing == {i \in Circuit : shouldWrite(Amps[i], commanded[i])}
<1>1. commanded' = [i \in Loadpoints |->
           IF i \in writing THEN softStartLimit(Amps[i], OrZero(commanded[i])) ELSE commanded[i]]
  BY DEF Tick
<1>2. PICK failed \in SUBSET writing :
        /\ limit' = [i \in Loadpoints |-> IF i \in writing \ failed THEN commanded'[i] ELSE limit[i]]
        /\ calm' = IF Fresh /\ failed = {} THEN Lower(calm + 1, CalmTicks) ELSE 0
  BY DEF Tick
<1>3. UNCHANGED <<world, meter, current, draw>>
  BY DEF Tick
<1>. HIDE DEF writing
<1>4. \A i \in Loadpoints : OrZero(commanded[i]) \in Nat
  BY Constants DEF LoopInv, LoopTypeOK, OrZero
<1>5. \A i \in Loadpoints :
        softStartLimit(Amps[i], OrZero(commanded[i])) \in {0} \union MinA..MaxA[i]
  BY <1>4, AmpsLegal, SoftStartLegal
<1>6. \A i \in Loadpoints : commanded'[i] \in {NoValue, 0} \union MinA..MaxA[i]
  BY <1>1, <1>5 DEF LoopInv, CommandsAreLegal
<1>7. \A i \in Loadpoints : i \in writing => commanded'[i] \in {0} \union MinA..MaxA[i]
  BY <1>1, <1>5
<1>8. \A i \in Loadpoints : limit'[i] \in {0} \union MinA..MaxA[i]
  BY <1>2, <1>7 DEF LoopInv, CommandsAreLegal
<1>9. CommandsAreLegal'
  BY <1>6, <1>8 DEF CommandsAreLegal
<1>10. commanded' \in [Loadpoints -> Nat \union {NoValue}] /\ limit' \in [Loadpoints -> Nat]
  <2>1. \A i \in Loadpoints : MinA..MaxA[i] \subseteq Nat
    BY Constants
  <2>2. \A i \in Loadpoints : commanded'[i] \in Nat \union {NoValue} /\ limit'[i] \in Nat
    BY <1>6, <1>8, <2>1
  <2>3. commanded' = [i \in Loadpoints |-> commanded'[i]] /\ limit' = [i \in Loadpoints |-> limit'[i]]
    BY <1>1, <1>2
  <2>. QED  BY <2>2, <2>3
<1>11. calm' \in 0..CalmTicks
  BY <1>2, Constants DEF LoopInv, LoopTypeOK, Lower
<1>12. LoopTypeOK'
  BY <1>3, <1>10, <1>11 DEF LoopInv, LoopTypeOK, world
<1>. QED  BY <1>9, <1>12 DEF LoopInv

(* Every step keeps the invariant.                                         *)
LEMMA LoopInvStep == LoopInv /\ [LoopNext]_vars => LoopInv'
<1>. SUFFICES ASSUME LoopInv, [LoopNext]_vars PROVE LoopInv'
  OBVIOUS
<1>. USE DEF LoopInv
<1>1. CASE Tick
  BY <1>1, LoopInvTick
<1>2. CASE MeterFrame
  <2>1. meter' \in Nat
    BY <1>2, TotalType DEF MeterFrame
  <2>. QED  BY <1>2, <2>1 DEF MeterFrame, LoopTypeOK, CommandsAreLegal, world
<1>3. ASSUME NEW i \in Loadpoints, CarFollows(i) PROVE LoopInv'
  <2>1. draw' \in [Loadpoints -> Nat]
    BY <1>3, FollowType DEF CarFollows, LoopTypeOK
  <2>. QED  BY <1>3, <2>1 DEF CarFollows, LoopTypeOK, CommandsAreLegal, world
<1>4. ASSUME NEW i \in Loadpoints, MeterValues(i) PROVE LoopInv'
  BY <1>4 DEF MeterValues, LoopTypeOK, CommandsAreLegal, world
<1>5. ASSUME NEW i \in Loadpoints, DemandChanges(i) PROVE LoopInv'
  BY <1>5, Constants DEF DemandChanges, LoopTypeOK, CommandsAreLegal
<1>6. ASSUME NEW i \in Loadpoints, AskChanges(i) PROVE LoopInv'
  BY <1>6, Constants, LoopAssumption DEF AskChanges, LoopTypeOK, CommandsAreLegal
<1>7. CASE FeedChanges
  BY <1>7, Constants DEF FeedChanges, LoopTypeOK, CommandsAreLegal
<1>8. CASE LoadChanges
  BY <1>8, Constants DEF LoadChanges, LoopTypeOK, CommandsAreLegal
<1>9. CASE Restart
  BY <1>9, Constants DEF Restart, LoopTypeOK, CommandsAreLegal, world
<1>10. CASE UNCHANGED vars
  BY <1>10 DEF vars, world, LoopTypeOK, CommandsAreLegal
<1>. QED  BY <1>1, <1>2, <1>3, <1>4, <1>5, <1>6, <1>7, <1>8, <1>9, <1>10 DEF LoopNext

(* The types of CircuitLoop hold in every state.                           *)
THEOREM LoopTypeTheorem == LoopSpec => []LoopTypeOK
<1>1. LoopInv => LoopTypeOK
  BY DEF LoopInv
<1>. QED  BY <1>1, LoopInvInit, LoopInvStep, PTL DEF LoopSpec

(* No charger is ever told to offer a current that is not 0 and below the  *)
(* minimum, or above its ceiling.                                          *)
THEOREM LegalTheorem == LoopSpec => []CommandsAreLegal
<1>1. LoopInv => CommandsAreLegal
  BY DEF LoopInv
<1>. QED  BY <1>1, LoopInvInit, LoopInvStep, PTL DEF LoopSpec

(* A bare circuit: the sum of one loadpoint's amps is that loadpoint's.    *)
LEMMA SumOfFirst ==
    ASSUME NEW a \in Int
    PROVE  Sum([i \in Loadpoints |-> IF i = 1 THEN a ELSE 0]) = a
<1>. N \in Nat \ {0}
  BY Constants
<1>. DEFINE f == [i \in Loadpoints |-> IF i = 1 THEN a ELSE 0]
            T == {i \in 0..N : i > 0 => Partial(f)[i] = a}
<1>1. /\ Sum(f) = Partial(f)[N] /\ Partial(f)[0] = 0
      /\ \A i \in Loadpoints : Partial(f)[i] = Partial(f)[i - 1] + f[i]
  BY PartialSums
<1>2. 0 \in T
  OBVIOUS
<1>3. ASSUME NEW i \in 1..N, i - 1 \in T PROVE i \in T
  <2>1. Partial(f)[i] = Partial(f)[i - 1] + f[i]
    BY <1>1 DEF Loadpoints
  <2>2. f[i] = IF i = 1 THEN a ELSE 0
    BY DEF Loadpoints
  <2>. HIDE DEF f
  <2>3. CASE i = 1
    BY <1>1, <2>1, <2>2, <2>3
  <2>4. CASE i # 1
    BY <1>3, <2>1, <2>2, <2>4
  <2>. QED  BY <2>3, <2>4
<1>. HIDE DEF T
<1>4. N \in T
  BY <1>2, <1>3, Upwards
<1>. QED  BY <1>1, <1>4 DEF T

(* Whatever was read and commanded before, a tick splits no more than the  *)
(* budget and the hysteresis of each loadpoint.                            *)
THEOREM SplitTheorem == LoopSpec => []SplitWithinBudget
<1>1. LoopInv => SplitWithinBudget
  <2>. SUFFICES ASSUME LoopInv PROVE Sum(Amps) <= Budget + N * Hysteresis
    BY DEF SplitWithinBudget
  <2>1. Budget \in Nat
    BY BudgetBounds, Constants DEF LoopInv
  <2>2. CASE balanced
    <3>1. Given(commanded)
      BY Constants DEF LoopInv, LoopTypeOK, Given
    <3>. QED  BY <2>1, <2>2, <3>1, Constants, AllocateWithinBudget DEF Amps
  <2>3. CASE ~balanced
    <3>. DEFINE a == bareCircuitAmps(ask[1], Budget)
    <3>1. a \in Int /\ a <= Budget
      BY <2>1 DEF bareCircuitAmps
    <3>2. Sum(Amps) = a
      BY <2>3, <3>1, SumOfFirst DEF Amps
    <3>3. N * Hysteresis \in Nat
      BY Constants
    <3>. QED  BY <2>1, <3>1, <3>2, <3>3
  <2>. QED  BY <2>2, <2>3
<1>. QED  BY <1>1, LoopInvInit, LoopInvStep, PTL DEF LoopSpec

-----------------------------------------------------------------------------
(* Loadpoints outside the circuit are never written, so they draw nothing. *)
OutsideIsOff == \A i \in Loadpoints \ Circuit : limit[i] = 0

LEMMA OutsideStaysOff == LoopInv /\ OutsideIsOff /\ [LoopNext]_vars => OutsideIsOff'
<1>. SUFFICES ASSUME LoopInv, OutsideIsOff, [LoopNext]_vars PROVE OutsideIsOff'
  OBVIOUS
<1>1. CASE Tick
  <2>. DEFINE writing == {i \in Circuit : shouldWrite(Amps[i], commanded[i])}
  <2>1. PICK failed \in SUBSET writing :
          limit' = [i \in Loadpoints |-> IF i \in writing \ failed THEN commanded'[i] ELSE limit[i]]
    BY <1>1 DEF Tick
  <2>2. writing \subseteq Circuit /\ Circuit' = Circuit
    BY <1>1 DEF Tick, world, Circuit
  <2>. HIDE DEF writing
  <2>. QED  BY <2>1, <2>2 DEF OutsideIsOff
<1>2. CASE UNCHANGED <<balanced, limit>>
  BY <1>2 DEF OutsideIsOff, Circuit
<1>. QED
  BY <1>1, <1>2
     DEF LoopNext, MeterFrame, CarFollows, MeterValues, DemandChanges, AskChanges, FeedChanges,
         LoadChanges, Restart, vars, world

(* A circuit at rest: what a tick would command is what is commanded, but  *)
(* for a deadband the hysteresis covers; no budget is a pause.             *)
LEMMA RestingCommands ==
    ASSUME LoopInv, AtRest, Deadband <= Hysteresis + 1
    PROVE  /\ \A i \in Circuit : commanded[i] \in Nat /\ (Budget = 0 => commanded[i] = 0)
           /\ balanced => \A i \in Loadpoints : commanded[i] = Amps[i]
           /\ ~balanced => commanded[1] <= Budget + Hysteresis
                           \/ commanded[1] = 0
<1>1. /\ \A i \in Loadpoints : MaxA[i] \in Nat
      /\ \A i \in Loadpoints : commanded[i] \in {NoValue, 0} \union MinA..MaxA[i]
      /\ \A i \in Loadpoints : Amps[i] \in {0} \union MinA..MaxA[i]
      /\ balanced \in BOOLEAN /\ 1 \in Loadpoints
      /\ MinA \in Nat \ {0} /\ Hysteresis \in Nat /\ Deadband \in Nat /\ NoValue \notin Int
      /\ Hysteresis + 1 <= MinA
      /\ Budget \in Nat
  BY AmpsLegal, BudgetBounds, Constants, PlanningAssumption
     DEF LoopInv, LoopTypeOK, CommandsAreLegal
<1>2. ASSUME NEW i \in Circuit PROVE commanded[i] \in Nat
                                      /\ Gap(Amps[i], commanded[i]) <= Hysteresis
  <2>1. i \in Loadpoints
    BY <1>1 DEF Circuit
  <2>2. CASE shouldWrite(Amps[i], commanded[i])
    <3>1. Amps[i] = commanded[i] /\ Amps[i] \in Nat
      BY <1>1, <2>1, <2>2 DEF AtRest
    <3>. QED  BY <1>1, <3>1 DEF Gap
  <2>3. CASE ~shouldWrite(Amps[i], commanded[i])
    <3>1. commanded[i] # NoValue /\ ~(Gap(Amps[i], commanded[i]) >= Deadband)
      BY <2>3 DEF shouldWrite
    <3>2. commanded[i] \in Nat /\ Amps[i] \in Nat
      BY <1>1, <2>1, <3>1
    <3>. QED  BY <1>1, <3>1, <3>2 DEF Gap
  <2>. QED  BY <2>2, <2>3
<1>3. ASSUME NEW i \in Circuit, Amps[i] = 0 PROVE commanded[i] = 0
  <2>1. i \in Loadpoints /\ commanded[i] \in Nat /\ commanded[i] <= Hysteresis
    BY <1>1, <1>2, <1>3 DEF Circuit, Gap
  <2>. QED  BY <1>1, <2>1
<1>4. CASE balanced
  <2>1. Given(commanded) /\ Circuit = Loadpoints
    BY <1>1, <1>4 DEF Given, LoopInv, LoopTypeOK, Circuit
  <2>2. ASSUME NEW i \in Loadpoints PROVE commanded[i] = Amps[i]
    <3>1. CASE shouldWrite(Amps[i], commanded[i])
      BY <2>1, <3>1 DEF AtRest
    <3>2. CASE ~shouldWrite(Amps[i], commanded[i])
      <4>1. commanded[i] # NoValue => commanded[i] = 0 \/ commanded[i] >= MinA
        BY <1>1
      <4>. QED  BY <1>1, <1>4, <2>1, <3>2, <4>1, Constants, UnwrittenIsHeld DEF Amps
    <3>. QED  BY <3>1, <3>2
  <2>3. ASSUME Budget = 0, NEW i \in Loadpoints PROVE commanded[i] = 0
    <3>1. commanded[i] = allocate(0, ask, MaxA, commanded)[i]
      BY <1>4, <2>2, <2>3 DEF Amps
    <3>. QED  BY <1>1, <2>1, <3>1, Constants, NothingToAllocate
  <2>. QED  BY <1>2, <1>4, <2>1, <2>2, <2>3
<1>5. CASE ~balanced
  <2>1. Circuit = {1} /\ Amps[1] \in {0, Budget}
    BY <1>1, <1>5 DEF Circuit, Amps, bareCircuitAmps
  <2>2. commanded[1] \in Nat /\ Gap(Amps[1], commanded[1]) <= Hysteresis
    BY <1>2, <2>1
  <2>3. Amps[1] = 0 => commanded[1] = 0
    BY <1>3, <2>1
  <2>. QED  BY <1>1, <1>5, <2>1, <2>2, <2>3 DEF Gap
<1>. QED  BY <1>1, <1>4, <1>5

(* Where a loop with fresh readings rests, the house is below the fuse     *)
(* less the reserve but for the hysteresis, or the circuit is paused: for  *)
(* any loads, demands and ceilings, if the deadband is no wider than the   *)
(* hysteresis and a step (1 A and 1 A by default).                         *)
LEMMA RestIsBelowFuse ==
    ASSUME LoopInv, OutsideIsOff, Deadband <= Hysteresis + 1
    PROVE  RestsBelowFuse
<1>. SUFFICES ASSUME AtRest, Fresh, feed, \A i \in Circuit : limit[i] = commanded[i],
                     ~(\A i \in Loadpoints : draw[i] = 0)
              PROVE  Total <= BreakerA - ReserveA + N * Hysteresis
  BY DEF RestsBelowFuse
<1>1. /\ BreakerA \in Nat /\ BreakerA # NoValue /\ ReserveA \in Nat /\ load \in Nat
      /\ N * Hysteresis \in Nat /\ Hysteresis <= N * Hysteresis
      /\ N \in Nat \ {0} /\ Hysteresis \in Nat /\ MinA \in Nat /\ balanced \in BOOLEAN
      /\ 1 \in Loadpoints /\ NoValue \notin Int /\ Circuit \subseteq Loadpoints
  <2>1. N \in Nat \ {0} /\ Hysteresis \in Nat
    BY Constants
  <2>2. N * Hysteresis \in Nat /\ Hysteresis <= N * Hysteresis
    BY <2>1
  <2>. QED  BY <2>1, <2>2, Constants DEF LoopInv, LoopTypeOK, Circuit
<1>2. /\ meter = Total /\ Total \in Nat /\ draw \in [Loadpoints -> Nat]
      /\ Total = load + Sum(draw) /\ Sum(draw) \in Nat
      /\ \A i \in Loadpoints : draw[i] <= limit[i] /\ current[i] = draw[i]
  <2>1. \A i \in Loadpoints : limit[i] \in Nat /\ demand[i] \in Nat /\ draw[i] \in Nat
    BY Constants DEF LoopInv, LoopTypeOK
  <2>. QED  BY <2>1, TotalType, SumType DEF Fresh, Follow, Lower, LoopInv, LoopTypeOK, Total
<1>3. \A i \in Circuit : commanded[i] \in Nat /\ (Budget = 0 => commanded[i] = 0)
                         /\ draw[i] <= commanded[i]
                         /\ Credit(current[i], commanded[i]) = commanded[i]
  <2>1. \A i \in Circuit : commanded[i] \in Nat /\ (Budget = 0 => commanded[i] = 0)
    BY RestingCommands
  <2>. QED  BY <1>1, <1>2, <2>1 DEF Credit, OrZero, Higher
<1>4. \A i \in Loadpoints : draw[i] # 0 => i \in Circuit
  BY <1>2 DEF OutsideIsOff
<1>5. Budget # 0 /\ Budget \in Nat
  <2>1. PICK i \in Loadpoints : draw[i] # 0
    OBVIOUS
  <2>2. i \in Circuit /\ draw[i] <= commanded[i] /\ draw[i] \in Nat
    BY <1>2, <1>3, <1>4, <2>1
  <2>. QED  BY <1>1, <1>3, <2>1, <2>2, BudgetBounds, Constants DEF LoopInv
<1>. DEFINE own == IF balanced THEN circuitOwnDrawA(current, commanded)
                               ELSE Credit(current[1], commanded[1])
<1>6. own \in Int => Budget <= BreakerA - ReserveA - Total + own
  <2>. HIDE DEF own
  <2>. DEFINE ceiling == IF balanced THEN BreakerA ELSE MaxA[1]
  <2>1. ceiling \in Nat
    BY Constants
  <2>. HIDE DEF ceiling
  <2>. SUFFICES ASSUME own \in Int PROVE Budget <= BreakerA - ReserveA - Total + own
    OBVIOUS
  <2>2. Budget = settle(BreakerA - ReserveA - Total + own, ceiling)
    <3>1. meter # NoValue
      BY <1>1, <1>2
    <3>. QED  BY <1>1, <1>2, <3>1 DEF Budget, resolveCurrentBudget, own, ceiling
  <2>3. BreakerA - ReserveA - Total + own \in Int
    BY <1>1, <1>2
  <2>. QED  BY <1>1, <1>5, <2>1, <2>2, <2>3 DEF settle, Higher, Lower
<1>7. CASE balanced
  <2>1. Circuit = Loadpoints
    BY <1>7 DEF Circuit
  <2>2. [i \in Loadpoints |-> Credit(current[i], commanded[i])] = Amps
    <3>1. \A i \in Loadpoints : Credit(current[i], commanded[i]) = Amps[i]
      BY <1>3, <1>7, <2>1, RestingCommands
    <3>2. Amps = [i \in Loadpoints |-> Amps[i]]
      BY <1>7 DEF Amps, allocate
    <3>. QED  BY <3>1, <3>2
  <2>3. own = Sum(Amps)
    BY <1>7, <2>2 DEF circuitOwnDrawA
  <2>4. Sum(Amps) \in Int
    <3>1. \A i \in Loadpoints : Amps[i] \in Int
      BY AmpsLegal, Constants
    <3>. QED  BY <3>1, SumType
  <2>5. Sum(Amps) <= Budget + N * Hysteresis
    <3>1. Given(commanded)
      BY Constants DEF LoopInv, LoopTypeOK, Given
    <3>. QED  BY <1>5, <1>7, <3>1, Constants, AllocateWithinBudget DEF Amps
  <2>. HIDE DEF own
  <2>. QED  BY <1>1, <1>2, <1>5, <1>6, <2>3, <2>4, <2>5
<1>8. CASE ~balanced
  <2>1. Circuit = {1} /\ own = commanded[1] /\ commanded[1] \in Nat
    BY <1>3, <1>8 DEF Circuit
  <2>2. commanded[1] <= Budget + Hysteresis
    BY <1>1, <1>5, <1>8, <2>1, RestingCommands
  <2>. HIDE DEF own
  <2>. QED  BY <1>1, <1>2, <1>5, <1>6, <2>1, <2>2
<1>. QED  BY <1>1, <1>7, <1>8

(* Whatever was read, lost or refused before: where the loop rests on      *)
(* fresh readings and the chargers have what they were told, the circuit   *)
(* is below the fuse less the reserve, but for one hysteresis a loadpoint, *)
(* or stands still (resolveCurrentBudget, circuitOwnDrawA, allocate and    *)
(* the deadband of circuitTick).  A wider deadband would let a loadpoint   *)
(* rest further above its share than the allocator's hysteresis.           *)
THEOREM RestTheorem ==
    ASSUME Deadband <= Hysteresis + 1
    PROVE  LoopSpec => []RestsBelowFuse
<1>1. LoopInit => OutsideIsOff
  BY DEF LoopInit, OutsideIsOff
<1>2. LoopInv /\ OutsideIsOff => RestsBelowFuse
  BY RestIsBelowFuse
<1>. QED  BY <1>1, <1>2, LoopInvInit, LoopInvStep, OutsideStaysOff, PTL DEF LoopSpec

-----------------------------------------------------------------------------
(* A bare loadpoint with fresh readings is planned by what the world wants *)
(* of it, the limit its charger enforces and the last command alone.       *)
Target(enforced, command) ==
    LET drawn == Lower(enforced, demand[1])
    IN  bareCircuitAmps(ask[1],
            resolveCurrentBudget(MaxA[1], BreakerA, ReserveA,
                IF feed THEN load + drawn ELSE NoValue,
                Credit(drawn, command), worst, static))

FeedDown == ~feed => meter = NoValue

LEMMA FeedStaysDown == FeedDown /\ [LoopNext]_vars => FeedDown'
  BY DEF FeedDown, LoopNext, Tick, MeterFrame, CarFollows, MeterValues, DemandChanges, AskChanges,
         FeedChanges, LoadChanges, Restart, vars, world

LEMMA TargetIsPlanned ==
    ASSUME LoopInv, OutsideIsOff, FeedDown, Fresh, ~balanced
    PROVE  Amps[1] = Target(limit[1], commanded[1])
<1>1. /\ 1 \in Loadpoints /\ Circuit = {1} /\ load \in Nat
      /\ \A i \in Loadpoints : limit[i] \in Nat /\ demand[i] \in Nat
      /\ draw \in [Loadpoints -> Nat]
  BY Constants DEF LoopInv, LoopTypeOK, Circuit
<1>. DEFINE drawn == Lower(limit[1], demand[1])
<1>2. drawn \in Nat /\ draw[1] = drawn /\ current[1] = drawn
  BY <1>1 DEF Fresh, Follow, Lower
<1>3. \A i \in Loadpoints : i # 1 => draw[i] = 0
  BY <1>1 DEF Fresh, Follow, Lower, OutsideIsOff
<1>. HIDE DEF drawn
<1>4. Sum(draw) = drawn
  <2>1. draw = [i \in Loadpoints |-> IF i = 1 THEN drawn ELSE 0]
    BY <1>1, <1>2, <1>3
  <2>. QED  BY <1>2, <2>1, SumOfFirst
<1>5. meter = IF feed THEN load + drawn ELSE NoValue
  BY <1>4 DEF Fresh, FeedDown, Total
<1>6. Amps[1] = bareCircuitAmps(ask[1], Budget)
  BY <1>1 DEF Amps
<1>. QED  BY <1>2, <1>5, <1>6 DEF Budget, Target, drawn

(* The types of what a target is made of.                                  *)
LEMMA BareTypes ==
    ASSUME LoopInv
    PROVE  /\ 1 \in Loadpoints /\ MaxA[1] \in Nat /\ load \in Nat /\ demand[1] \in Nat
           /\ BreakerA \in Nat /\ BreakerA # NoValue /\ ReserveA \in Nat /\ NoValue \notin Int
           /\ worst \in Nat \union {NoValue} /\ static \in Nat /\ feed \in BOOLEAN
<1>1. 1 \in Loadpoints /\ MaxA[1] \in Nat
  BY Constants
<1>2. demand[1] \in Demands /\ load \in Loads /\ worst \in Worsts /\ static \in Statics
      /\ feed \in BOOLEAN
  BY <1>1 DEF LoopInv, LoopTypeOK
<1>3. demand[1] \in Nat /\ load \in Nat /\ worst \in Nat \union {NoValue} /\ static \in Nat
  BY <1>2, Constants
<1>. QED  BY <1>1, <1>2, <1>3, Constants

LEMMA TargetBounds ==
    ASSUME LoopInv, NEW enforced \in Nat, NEW command \in Nat \union {NoValue}
    PROVE  Target(enforced, command) \in {0} \union MinA..MaxA[1]
<1>. DEFINE drawn == Lower(enforced, demand[1])
            own == Credit(drawn, command)
            live == IF feed THEN load + drawn ELSE NoValue
<1>1. /\ 1 \in Loadpoints /\ MaxA[1] \in Nat /\ load \in Nat /\ demand[1] \in Nat
      /\ BreakerA \in Nat /\ BreakerA # NoValue /\ ReserveA \in Nat
      /\ worst \in Nat \union {NoValue} /\ static \in Nat
  BY BareTypes
<1>2. drawn \in Nat
  BY <1>1 DEF Lower
<1>3. own \in Nat /\ live \in Nat \union {NoValue}
  BY <1>1, <1>2, Constants DEF Credit, Higher, OrZero
<1>. HIDE DEF drawn, own, live
<1>4. \E amps \in Int :
        resolveCurrentBudget(MaxA[1], BreakerA, ReserveA, live, own, worst, static)
          = settle(amps, MaxA[1])
  <2>1. CASE live # NoValue
    <3>1. BreakerA - ReserveA - live + own \in Int
      BY <1>1, <1>3, <2>1
    <3>. QED  BY <1>1, <2>1, <3>1 DEF resolveCurrentBudget
  <2>2. CASE live = NoValue /\ worst # NoValue
    <3>1. BreakerA - ReserveA - worst - 1 \in Int
      BY <1>1, <2>2
    <3>. QED  BY <1>1, <2>2, <3>1 DEF resolveCurrentBudget
  <2>3. CASE live = NoValue /\ worst = NoValue
    BY <1>1, <2>3 DEF resolveCurrentBudget
  <2>. QED  BY <2>1, <2>2, <2>3
<1>5. resolveCurrentBudget(MaxA[1], BreakerA, ReserveA, live, own, worst, static)
        \in {0} \union MinA..MaxA[1]
  BY <1>1, <1>4, SettleBounds
<1>. QED  BY <1>5 DEF Target, bareCircuitAmps, drawn, own, live

(* A larger budget settles to no less.                                     *)
LEMMA SettleMonotone ==
    ASSUME NEW a \in Int, NEW b \in Int, a <= b, NEW ceiling \in Nat
    PROVE  settle(a, ceiling) <= settle(b, ceiling)
  BY Constants DEF settle, Higher, Lower

(* Where the charger has its command, credit-back makes of the command c a *)
(* live budget of the room left by the house and what c is above demand:   *)
(* the next target never falls when the command rises.                     *)
LEMMA TargetMonotone ==
    ASSUME LoopInv, NEW a \in Nat, NEW b \in Nat, a <= b
    PROVE  Target(a, a) <= Target(b, b)
<1>1. /\ 1 \in Loadpoints /\ MaxA[1] \in Nat /\ load \in Nat /\ demand[1] \in Nat
      /\ BreakerA \in Nat /\ BreakerA # NoValue /\ ReserveA \in Nat /\ NoValue \notin Int
      /\ worst \in Nat \union {NoValue} /\ static \in Nat /\ feed \in BOOLEAN
  BY BareTypes
<1>. DEFINE budget(c) ==
       resolveCurrentBudget(MaxA[1], BreakerA, ReserveA,
           IF feed THEN load + Lower(c, demand[1]) ELSE NoValue,
           Credit(Lower(c, demand[1]), c), worst, static)
<1>2. budget(a) <= budget(b)
  <2>1. CASE feed
    <3>. DEFINE room(c) == BreakerA - ReserveA - (load + Lower(c, demand[1])) + c
    <3>1. \A c \in Nat : budget(c) = settle(room(c), MaxA[1])
      <4>. SUFFICES ASSUME NEW c \in Nat PROVE budget(c) = settle(room(c), MaxA[1])
        OBVIOUS
      <4>1. Lower(c, demand[1]) \in Nat /\ Lower(c, demand[1]) <= c
        BY <1>1 DEF Lower
      <4>2. Credit(Lower(c, demand[1]), c) = c
        BY <1>1, <4>1 DEF Credit, Higher, OrZero
      <4>3. load + Lower(c, demand[1]) # NoValue
        BY <1>1, <4>1
      <4>. QED  BY <1>1, <2>1, <4>2, <4>3 DEF resolveCurrentBudget
    <3>2. room(a) \in Int /\ room(b) \in Int /\ room(a) <= room(b)
      BY <1>1 DEF Lower
    <3>. HIDE DEF budget, room
    <3>. QED  BY <1>1, <3>1, <3>2, SettleMonotone
  <2>2. CASE ~feed
    <3>1. \E amps \in Int : \A c \in Nat : budget(c) = settle(amps, MaxA[1])
      <4>1. CASE worst # NoValue
        <5>1. BreakerA - ReserveA - worst - 1 \in Int
          BY <1>1, <4>1
        <5>. QED  BY <1>1, <2>2, <4>1, <5>1 DEF resolveCurrentBudget
      <4>2. CASE worst = NoValue
        BY <1>1, <2>2, <4>2 DEF resolveCurrentBudget
      <4>. QED  BY <4>1, <4>2
    <3>. HIDE DEF budget
    <3>. QED  BY <1>1, <3>1, SettleMonotone
  <2>. QED  BY <1>1, <2>1, <2>2
<1>3. \A c \in Nat : Target(c, c) = bareCircuitAmps(ask[1], budget(c))
  BY DEF Target
<1>. HIDE DEF budget
<1>. QED  BY <1>2, <1>3 DEF bareCircuitAmps

(* After a calm tick a bare loadpoint is where it stays, or the charger    *)
(* has the last command and the targets go one way, an ampere a tick at    *)
(* least: up from the minimum, once the soft start is over, or down from   *)
(* the ceiling.                                                            *)
Told == OrZero(commanded[1])
BareTarget == Target(limit[1], commanded[1])

Reached == /\ shouldWrite(BareTarget, commanded[1]) => BareTarget = commanded[1]
           /\ Deadband = 0 => limit[1] = commanded[1]
Rising == BareTarget > Told /\ (calm >= 2 => Told >= MinA + calm - 2)
Falling == BareTarget < Told /\ Told <= MaxA[1] + 1 - calm

BareInv ==
    ~balanced /\ calm > 0 =>
        /\ commanded[1] # NoValue
        /\ Reached \/ (limit[1] = commanded[1] /\ (Rising \/ Falling))

(* A calm tick of a bare loadpoint: it is left alone, or commanded to the  *)
(* soft start towards its target, and the charger enforces that.           *)
LEMMA CalmTickCommands ==
    ASSUME LoopInv, OutsideIsOff, FeedDown, ~balanced, Tick, calm' > 0
    PROVE  /\ UNCHANGED world /\ calm' <= calm + 1
           /\ \/ /\ ~shouldWrite(BareTarget, commanded[1])
                 /\ commanded'[1] = commanded[1] /\ limit'[1] = limit[1]
              \/ /\ shouldWrite(BareTarget, commanded[1])
                 /\ commanded'[1] = softStartLimit(BareTarget, Told)
                 /\ limit'[1] = commanded'[1]
<1>. DEFINE writing == {i \in Circuit : shouldWrite(Amps[i], commanded[i])}
<1>1. commanded' = [i \in Loadpoints |->
           IF i \in writing THEN softStartLimit(Amps[i], OrZero(commanded[i])) ELSE commanded[i]]
  BY DEF Tick
<1>2. PICK failed \in SUBSET writing :
        /\ limit' = [i \in Loadpoints |-> IF i \in writing \ failed THEN commanded'[i] ELSE limit[i]]
        /\ calm' = IF Fresh /\ failed = {} THEN Lower(calm + 1, CalmTicks) ELSE 0
  BY DEF Tick
<1>3. Fresh /\ failed = {} /\ calm' = Lower(calm + 1, CalmTicks)
  BY <1>2
<1>4. calm' <= calm + 1
  BY <1>3, Constants DEF LoopInv, LoopTypeOK, Lower
<1>5. 1 \in Loadpoints /\ Circuit = {1} /\ Amps[1] = BareTarget
  BY <1>3, TargetIsPlanned, Constants DEF Circuit, BareTarget
<1>6. 1 \in writing <=> shouldWrite(BareTarget, commanded[1])
  BY <1>5
<1>. HIDE DEF writing
<1>. QED  BY <1>1, <1>2, <1>3, <1>4, <1>5, <1>6 DEF Tick, Told

LEMMA BareInvTick ==
    ASSUME LoopInv, LoopInv', OutsideIsOff, FeedDown, BareInv, Tick
    PROVE  BareInv'
<1>. SUFFICES ASSUME ~balanced', calm' > 0
              PROVE  /\ commanded'[1] # NoValue
                     /\ Reached' \/ (limit'[1] = commanded'[1] /\ (Rising' \/ Falling'))
  BY DEF BareInv
<1>. DEFINE c == commanded[1]
            t == BareTarget
            s == commanded'[1]
<1>1. ~balanced
  BY DEF Tick, world
<1>2. /\ UNCHANGED world /\ calm' <= calm + 1
      /\ \/ ~shouldWrite(t, c) /\ s = c /\ limit'[1] = limit[1]
         \/ shouldWrite(t, c) /\ s = softStartLimit(t, Told) /\ limit'[1] = s
  BY <1>1, CalmTickCommands
<1>3. /\ 1 \in Loadpoints /\ MinA \in Nat \ {0} /\ MaxA[1] \in Nat /\ MinA <= MaxA[1]
      /\ NoValue \notin Int /\ Deadband \in Nat
      /\ c \in {NoValue, 0} \union MinA..MaxA[1] /\ limit[1] \in {0} \union MinA..MaxA[1]
      /\ s \in {NoValue, 0} \union MinA..MaxA[1]
      /\ calm \in Nat /\ calm' \in Nat
  BY Constants, PlanningAssumption DEF LoopInv, LoopTypeOK, CommandsAreLegal
<1>4. c \in Nat \union {NoValue} /\ limit[1] \in Nat
  BY <1>3
<1>5. t \in {0} \union MinA..MaxA[1]
  BY <1>4, TargetBounds DEF BareTarget
<1>6. BareTarget' = Target(limit'[1], s)
  BY <1>2 DEF BareTarget, Target, world
<1>. HIDE DEF c, t, s
<1>7. CASE ~shouldWrite(t, c)
  <2>1. s = c /\ BareTarget' = t
    BY <1>2, <1>6, <1>7 DEF BareTarget, t, c
  <2>2. c # NoValue /\ Deadband # 0
    BY <1>3, <1>5, <1>7 DEF shouldWrite, Gap
  <2>3. Reached'
    BY <1>7, <2>1, <2>2 DEF Reached, s
  <2>. QED  BY <2>1, <2>2, <2>3 DEF s
<1>8. CASE shouldWrite(t, c)
  <2>. DEFINE next == Target(s, s)
  <2>1. s = softStartLimit(t, Told) /\ limit'[1] = s
    BY <1>2, <1>8
  <2>2. Told = OrZero(c) /\ Told \in Nat
    BY <1>3 DEF Told, OrZero, c
  <2>3. s \in {0} \union MinA..MaxA[1]
    BY <1>3, <1>5, <2>1, <2>2, SoftStartLegal
  <2>4. s \in Nat /\ s # NoValue
    BY <1>3, <2>3
  <2>5. BareTarget' = next /\ Told' = s
    BY <1>6, <2>1, <2>4 DEF Told, OrZero, s
  <2>6. next \in {0} \union MinA..MaxA[1]
    BY <2>4, TargetBounds
  <2>. HIDE DEF next
  <2>7. next = s => Reached'
    BY <2>1, <2>5 DEF Reached, s
  <2>8. next > s /\ (calm' >= 2 => s >= MinA + calm' - 2) => Rising'
    BY <2>5 DEF Rising
  <2>9. next < s /\ s <= MaxA[1] + 1 - calm' => Falling'
    BY <2>5 DEF Falling
  <2>10. Reached' \/ Rising' \/ Falling'
    <3>1. CASE calm = 0
      BY <1>2, <1>3, <2>3, <2>4, <2>6, <2>7, <2>8, <2>9, <3>1
    <3>2. CASE calm > 0 /\ Reached
      <4>1. t = c /\ c # NoValue
        BY <1>1, <1>8, <3>2 DEF BareInv, Reached, t, c
      <4>2. Deadband = 0
        BY <1>3, <1>5, <1>8, <4>1 DEF shouldWrite, Gap
      <4>3. s = c
        BY <1>3, <1>5, <2>1, <2>2, <4>1 DEF softStartLimit, OrZero
      <4>4. limit[1] = c
        BY <3>2, <4>2 DEF Reached, c
      <4>. QED  BY <2>7, <4>1, <4>3, <4>4 DEF next, t, c, BareTarget
    <3>3. CASE calm > 0 /\ c # NoValue /\ limit[1] = c /\ (Rising \/ Falling)
      <4>1. c \in {0} \union MinA..MaxA[1] /\ c \in Nat /\ Told = c
        BY <1>3, <2>2, <3>3 DEF OrZero
      <4>2. t = Target(c, c)
        BY <3>3 DEF t, c, BareTarget
      <4>3. c <= s => t <= next
        BY <2>4, <4>1, <4>2, TargetMonotone DEF next
      <4>4. s <= c => next <= t
        BY <2>4, <4>1, <4>2, TargetMonotone DEF next
      <4>5. CASE Rising
        <5>1. t > c /\ (calm >= 2 => c >= MinA + calm - 2)
          BY <4>1, <4>5 DEF Rising, t
        <5>2. t \div 2 \in Nat /\ t \div 2 <= t
          BY <1>3, <1>5
        <5>3. s > c /\ s >= MinA /\ s <= t /\ (calm >= 2 => s = t)
          BY <1>3, <1>5, <2>1, <4>1, <5>1, <5>2 DEF softStartLimit, Higher
        <5>4. next >= s
          BY <1>3, <1>5, <2>4, <2>6, <4>1, <4>3, <5>3
        <5>5. calm' >= 2 => s >= MinA + calm' - 2
          BY <1>2, <1>3, <2>4, <4>1, <5>1, <5>3
        <5>. QED  BY <1>3, <2>4, <2>6, <2>7, <2>8, <5>4, <5>5
      <4>6. CASE Falling
        <5>1. t < c /\ c <= MaxA[1] + 1 - calm
          BY <4>1, <4>6 DEF Falling, t
        <5>2. s = t
          BY <1>3, <1>5, <2>1, <4>1, <5>1 DEF softStartLimit
        <5>3. next <= s
          BY <1>3, <1>5, <2>4, <2>6, <4>1, <4>4, <5>1, <5>2
        <5>4. s <= MaxA[1] + 1 - calm'
          BY <1>2, <1>3, <2>4, <4>1, <5>1, <5>2
        <5>. QED  BY <1>3, <2>4, <2>6, <2>7, <2>9, <5>3, <5>4
      <4>. QED  BY <3>3, <4>5, <4>6
    <3>. QED  BY <1>1, <1>3, <3>1, <3>2, <3>3 DEF BareInv, c
  <2>. QED  BY <2>1, <2>4, <2>10 DEF s
<1>. QED  BY <1>7, <1>8

(* Every step keeps BareInv: readings move nothing it speaks of, and what  *)
(* happens to the world begins the count anew.                             *)
LEMMA BareInvStep ==
    ASSUME LoopInv, LoopInv', OutsideIsOff, FeedDown, BareInv, [LoopNext]_vars
    PROVE  BareInv'
<1>1. CASE Tick
  BY <1>1, BareInvTick
<1>2. CASE calm' = 0
  BY <1>2 DEF BareInv
<1>3. CASE UNCHANGED <<world, commanded, limit, calm>>
  BY <1>3 DEF BareInv, Reached, Rising, Falling, Told, BareTarget, Target, world
<1>. QED
  BY <1>1, <1>2, <1>3
     DEF LoopNext, MeterFrame, CarFollows, MeterValues, DemandChanges, AskChanges, FeedChanges,
         LoadChanges, Restart, vars

(* After more calm ticks than there are amperes between the minimum and    *)
(* the ceiling, neither way can be open any more.                          *)
LEMMA BareLoopRests ==
    ASSUME LoopInv, OutsideIsOff, FeedDown, BareInv, CalmTicks >= MaxA[1] - MinA + 3
    PROVE  ~balanced => LoopComesToRest
<1>. SUFFICES ASSUME ~balanced, calm = CalmTicks, Fresh PROVE AtRest
  BY DEF LoopComesToRest
<1>1. /\ 1 \in Loadpoints /\ Circuit = {1} /\ MinA \in Nat \ {0} /\ MaxA[1] \in Nat /\ MinA <= MaxA[1]
      /\ NoValue \notin Int /\ calm \in Nat
      /\ commanded[1] \in {NoValue, 0} \union MinA..MaxA[1]
      /\ limit[1] \in Nat /\ commanded[1] \in Nat \union {NoValue}
  BY Constants DEF LoopInv, LoopTypeOK, CommandsAreLegal, Circuit
<1>2. calm >= 2 /\ calm >= MaxA[1] - MinA + 3
  BY <1>1
<1>3. commanded[1] # NoValue /\ (Reached \/ Rising \/ Falling)
  BY <1>1, <1>2 DEF BareInv
<1>4. Told = commanded[1]
  BY <1>3 DEF Told, OrZero
<1>5. BareTarget \in {0} \union MinA..MaxA[1]
  BY <1>1, TargetBounds DEF BareTarget
<1>6. ~Rising
  BY <1>1, <1>2, <1>3, <1>4, <1>5 DEF Rising
<1>7. ~Falling
  BY <1>1, <1>2, <1>3, <1>4, <1>5 DEF Falling
<1>8. Amps[1] = BareTarget
  BY TargetIsPlanned DEF BareTarget
<1>. QED  BY <1>1, <1>3, <1>6, <1>7, <1>8 DEF AtRest, Reached

(* A bare loadpoint stands still after at most MaxA - MinA + 3 calm ticks  *)
(* (13 with 6 to 16 A), whatever the fuse, the load, the demand and the    *)
(* deadband: crediting the command back never makes the next target fall   *)
(* below a higher command, so the loop cannot swing (control-loop.ts,      *)
(* resolveCurrentBudget).                                                  *)
THEOREM BareRestTheorem ==
    ASSUME CalmTicks >= MaxA[1] - MinA + 3
    PROVE  LoopSpec => [](~balanced => LoopComesToRest)
<1>1. LoopInit => OutsideIsOff /\ FeedDown /\ BareInv
  BY DEF LoopInit, OutsideIsOff, FeedDown, BareInv
<1>2. LoopInv /\ OutsideIsOff /\ FeedDown /\ BareInv /\ LoopInv' /\ [LoopNext]_vars => BareInv'
  BY BareInvStep
<1>3. LoopInv /\ OutsideIsOff /\ FeedDown /\ BareInv => (~balanced => LoopComesToRest)
  BY BareLoopRests
<1>. QED
  BY <1>1, <1>2, <1>3, LoopInvInit, LoopInvStep, OutsideStaysOff, FeedStaysDown, PTL DEF LoopSpec
=============================================================================
