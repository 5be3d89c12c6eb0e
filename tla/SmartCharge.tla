---------------------------- MODULE SmartCharge ----------------------------
(***************************************************************************)
(* One smart loadpoint over a day (resolveLoadpoint of core/lifecycle.ts   *)
(* and the decisions it is made of): each tick takes the plan that governs *)
(* now, resolves the energy still to be added and a price curve down their *)
(* ladders, plans the cheapest quarter-hours and charges or waits until    *)
(* the next tick.  Plans, the telemetry, the tariff and the published      *)
(* prices change in between.                                               *)
(*                                                                         *)
(* Time is counted in halves of a planner slot (15 min), so that a tick    *)
(* falls on a boundary or inside a slot; energy in what charging adds in   *)
(* one half.  The car stays connected and takes the current it is offered. *)
(***************************************************************************)
EXTENDS Integers, FiniteSets, FiniteSetsExt

CONSTANTS
    Slots,       \* planner slots in the modelled day
    PerPrice,    \* planner slots per price slot: 4 of an hourly tariff, 1 of a
                 \* quarter-hourly one
    PerHour,     \* planner slots per hour of the synthetic curves
    Curves,      \* external: the price curves of the market, by price slot
    Capacity,    \* battery
    MinSoc,      \* minSoc of the loadpoint
    Ids, Plans,  \* rows of charge_plans: their ids and contents
    NoPlan,      \* no such row
    Socs, Times, Kwhs, \* ad-hoc targets: state of charge, time and energy
    Unset,       \* no such target
    History,     \* the average price by hour, where there is one
    Night        \* hours of the night window

Day == 2 * Slots
DayPrice == 2
NightPrice == 1

Contents == [readyBy : 1..Day, target : Nat, unit : {"pct", "kwh"},
             enabled : BOOLEAN, vehicles : SUBSET {"car", "guest"}]
AdHocs == [readyBy : Times \union {Unset}, target : Nat, unit : {"pct", "kwh"}]

ASSUME ChargeAssumption ==
    /\ {Slots, PerPrice, PerHour, Capacity, MinSoc} \subseteq Nat
    /\ Slots > 0 /\ PerPrice > 0 /\ PerHour > 0
    /\ Socs \union Kwhs \subseteq Nat /\ Times \subseteq 1..Day /\ Unset \notin Nat
    /\ Plans \subseteq Contents /\ NoPlan \notin Contents \union AdHocs
    /\ Curves \subseteq [0..(Slots \div PerPrice) - 1 -> Int]
    /\ \A h \in DOMAIN History : History[h] \in Int

VARIABLES
    now,        \* time of day
    soc,        \* the battery
    session,    \* sessionEnergyKWh
    active,     \* the identified vehicle
    anchored,   \* there is a real reading to estimate from
    rows,       \* charge_plans
    adhoc,      \* targetSoc, targetTime and targetKWh of the loadpoint
    curve,      \* external: market prices
    tariff,     \* what the tariff has: all slots, the first half, history, nothing
    planned,    \* plannedSlots: the slots from now to the target
    chosen,     \* plannedSlots: those with shouldCharge
    charge,     \* the decision in force, and whether it is for climate only
    ticked,     \* a tick has run since the last change
    promise     \* history: a target that could be met when it began to govern

inputs == <<active, anchored, rows, adhoc, curve, tariff>>
decided == <<planned, chosen, charge>>
chargeVars == <<now, soc, session, inputs, decided, ticked, promise>>

Charges == {"no", "climate", "yes"}
Tariffs == {"live", "today", "unavailable", "none"}

ChargeTypeOK ==
    /\ now \in 0..Day /\ soc \in 0..Capacity /\ session \in 0..Day
    /\ active \in {"car", "guest"} /\ {anchored, ticked} \subseteq BOOLEAN
    /\ (active = "guest" => ~anchored)
    /\ \A i \in Ids : rows[i] = NoPlan \/ rows[i] \in Contents
    /\ curve \in Curves
    /\ adhoc \in [soc : Socs \union {Unset}, time : Times \union {Unset},
                  kwh : Kwhs \union {Unset}]
    /\ tariff \in Tariffs
    /\ chosen \subseteq planned /\ planned \subseteq 0..Slots + Slots
    /\ charge \in Charges

Least(S, rank(_)) == CHOOSE x \in S : \A y \in S : rank(x) <= rank(y)
CeilHalf(n) == (n + 1) \div 2

-----------------------------------------------------------------------------
(* Plans.                                                                  *)
planApplies(p) == p.vehicles = {} \/ active \in p.vehicles

Candidates == {i \in Ids : /\ rows[i] # NoPlan /\ rows[i].enabled
                           /\ planApplies(rows[i]) /\ rows[i].readyBy > now}
selectActivePlan ==
    IF Candidates = {} THEN NoPlan ELSE rows[Least(Candidates, LAMBDA i : rows[i].readyBy)]

(* The ad-hoc target: a state of charge, unless there is an amount to add  *)
(* as well and no car whose capacity would size the former.                *)
AdHocTarget ==
    CASE adhoc.soc # Unset /\ (active = "car" \/ adhoc.kwh = Unset) ->
            [readyBy |-> adhoc.time, target |-> adhoc.soc, unit |-> "pct"]
      [] adhoc.kwh # Unset /\ (active = "guest" \/ adhoc.soc = Unset) ->
            [readyBy |-> adhoc.time, target |-> adhoc.kwh, unit |-> "kwh"]
      [] OTHER -> NoPlan

(* The target: of the governing plan, or the ad-hoc one.                   *)
Target == IF selectActivePlan # NoPlan THEN selectActivePlan ELSE AdHocTarget

Upcoming(time) == IF time > now THEN time ELSE time + Day

(* Today's ready-by of the plan; the next occurrence of the ad-hoc time;   *)
(* 24 h without one.                                                       *)
TargetTime == CASE selectActivePlan # NoPlan -> selectActivePlan.readyBy
                [] selectActivePlan = NoPlan /\ adhoc.time # Unset -> Upcoming(adhoc.time)
                [] OTHER -> now + Day

-----------------------------------------------------------------------------
(* resolveTarget and resolveEnergyTarget: state of charge and capacity, or *)
(* a fixed amount, or 40 % of what the time left could deliver.            *)
DutyCycle == Max({1, (2 * (TargetTime - now) + 4) \div 5})
Known == active = "car" /\ anchored

Sized(target) == target # NoPlan /\ (target.unit = "kwh" \/ Known)
resolveTarget(target) ==
    IF ~Sized(target) THEN DutyCycle
    ELSE Max({0, target.target - (IF target.unit = "pct" THEN soc ELSE session)})

forceMinSoc == Known /\ soc < MinSoc

-----------------------------------------------------------------------------
(* generateSlots: from the next boundary on, while a slot begins before    *)
(* the target.                                                             *)
generateSlots == CeilHalf(now)..CeilHalf(TargetTime) - 1

(* Prices.  Infinite stands for a slot no price slot covers.               *)
Infinite == 99

(* getSlots from now to the target: only price slots that begin by then.   *)
Published == CASE tariff = "live" -> 0..(Slots \div PerPrice) - 1
               [] tariff = "today" -> 0..(Slots \div (2 * PerPrice)) - 1
               [] OTHER -> {}
livePrices == {p \in Published : 2 * PerPrice * p >= now /\ 2 * PerPrice * p < TargetTime}

Hour(s) == (s % Slots) \div PerHour

(* The average by hour over what the tariff has cached of the past.        *)
historicalPriceAvg == IF tariff = "none" THEN [h \in {} |-> 0] ELSE History

(* resolvePriceCurve, looked up by planner slot.                           *)
resolvePriceCurve ==
    LET live == livePrices
        At(s) == IF live # {}
                   THEN IF s \div PerPrice \in live THEN curve[s \div PerPrice] ELSE Infinite
                 ELSE IF Hour(s) \in DOMAIN historicalPriceAvg THEN historicalPriceAvg[Hour(s)]
                 ELSE IF DOMAIN historicalPriceAvg # {} THEN DayPrice
                 ELSE IF Hour(s) \in Night THEN NightPrice ELSE DayPrice
    IN  [s \in generateSlots |-> At(s)]

-----------------------------------------------------------------------------
(* plan: the number of slots, rounded up.  Slip: rounded down.             *)
slotsNeededFloored(need) == Min({need \div 2, Cardinality(generateSlots)})
slotsNeeded(need) == Min({CeilHalf(need), Cardinality(generateSlots)})

(* cheapestSlotsPlan: a stable sort by price, the first of it.  Slip: the  *)
(* latest slots, whatever their price.                                     *)
latestStartPlan(n) == {s \in generateSlots : Cardinality({r \in generateSlots : r > s}) < n}
cheapestSlotsPlan(n) ==
    LET price == resolvePriceCurve
        before(r, s) == price[r] < price[s] \/ (price[r] = price[s] /\ r < s)
    IN  {s \in generateSlots : Cardinality({r \in generateSlots : before(r, s)}) < n}

(* decideShouldCharge: no planned slot covers now unless it begins now, so *)
(* the first one decides; with none left, charge.                          *)
decideShouldCharge(need, slots, cheap) ==
    need > 0 /\ (slots = {} \/ Min(slots) \in cheap)

-----------------------------------------------------------------------------
ChargeInit ==
    /\ now = 0 /\ soc \in {0, 2} /\ session = 0
    /\ active \in {"car", "guest"} /\ anchored = FALSE
    /\ rows \in [Ids -> Plans \union {NoPlan}] /\ curve \in Curves
    /\ \E soc0 \in Socs, time0 \in Times :
          adhoc = [soc |-> soc0, time |-> time0, kwh |-> Unset]
    /\ tariff = "live"
    /\ planned = {} /\ chosen = {} /\ charge = "no"
    /\ ticked = FALSE /\ promise = NoPlan

(* The target in force, if the charger can still make it today and the     *)
(* battery has room for it.                                                *)
Feasible == IF Sized(Target) /\ Target.readyBy # Unset /\ TargetTime = Target.readyBy
                /\ resolveTarget(Target) <= Min({Target.readyBy - now, Capacity - soc})
              THEN Target ELSE NoPlan

(* A tick, on the interval or after a change: resolveLoadpoint.  A car     *)
(* that preconditions is fed whatever the price.                           *)
Tick ==
    /\ ~ticked /\ ticked' = TRUE
    /\ \E climate \in {FALSE, active = "car"} :
       LET need == resolveTarget(Target)
           slots == generateSlots
           cheap == cheapestSlotsPlan(slotsNeeded(need))
           price == decideShouldCharge(need, slots, cheap)
       IN  /\ planned' = IF need > 0 THEN slots ELSE {}
           /\ chosen' = IF need > 0 THEN cheap ELSE {}
           /\ charge' = IF price \/ forceMinSoc THEN "yes"
                        ELSE IF climate THEN "climate" ELSE "no"
    /\ promise' = IF promise = NoPlan \/ promise.readyBy = now THEN Feasible ELSE promise
    /\ UNCHANGED <<now, soc, session, inputs>>

(* Half a slot passes; the next tick comes within it.                      *)
TimePasses ==
    /\ ticked /\ ticked' = FALSE /\ now < Day /\ now' = now + 1
    /\ LET added == IF charge = "yes" /\ soc < Capacity THEN 1 ELSE 0
       IN  soc' = soc + added /\ session' = session + added
    /\ UNCHANGED <<inputs, decided, promise>>

(* What changes the target starts a promise anew, what changes the price   *)
(* does not.                                                               *)
Changed(targetToo) ==
    /\ ticked /\ ticked' = FALSE /\ promise' = IF targetToo THEN NoPlan ELSE promise
    /\ UNCHANGED <<now, soc, session, decided>>

handleTargetChange == Changed(TRUE) /\ UNCHANGED <<active, anchored, rows, curve, tariff>>
handlePlansChanged == Changed(TRUE) /\ UNCHANGED <<active, anchored, adhoc, curve, tariff>>

(* POST, PUT and DELETE of plans; PUT changes the fields it is given.      *)
createPlan(i, plan) == [rows EXCEPT ![i] = plan]
updatePlan(i, patch) == [rows EXCEPT ![i] = [f \in DOMAIN @ |->
                            IF f \in DOMAIN patch THEN patch[f] ELSE @[f]]]
deletePlan(i) == [rows EXCEPT ![i] = NoPlan]

PostPlan(i) ==
    /\ rows[i] = NoPlan
    /\ \E plan \in Plans : rows' = createPlan(i, plan)
    /\ handlePlansChanged

PutPlan(i) ==
    /\ rows[i] # NoPlan
    /\ \E plan \in Plans \ {rows[i]} : \E given \in {{"enabled"}, DOMAIN plan} :
          rows' = updatePlan(i, [f \in given |-> plan[f]])
    /\ handlePlansChanged

DeletePlan(i) == rows[i] # NoPlan /\ rows' = deletePlan(i) /\ handlePlansChanged

(* POST .../target: what is given replaces what was there; only the energy *)
(* can be cleared.  The same row in loadpoint_state and in memory.         *)
setLoadpointTarget(given) == [f \in DOMAIN adhoc |->
                                 IF f \in DOMAIN given THEN given[f] ELSE adhoc[f]]

PostTarget ==
    /\ \/ \E to \in Socs : adhoc' = setLoadpointTarget([soc |-> to])
       \/ \E to \in Times : adhoc' = setLoadpointTarget([time |-> to])
       \/ \E to \in Kwhs \union {Unset} : adhoc' = setLoadpointTarget([kwh |-> to])
    /\ handleTargetChange

(* The active vehicle turns, or its anchor comes or goes.                  *)
VehicleTurns ==
    /\ active' \in {"car", "guest"} /\ anchored' \in {FALSE, active' = "car"}
    /\ <<active', anchored'>> # <<active, anchored>>
    /\ Changed(TRUE) /\ UNCHANGED <<rows, adhoc, curve, tariff>>

(* The tariff fails or recovers; more or fewer slots are cached.           *)
TariffTurns ==
    /\ tariff' \in Tariffs \ {tariff}
    /\ Changed(FALSE) /\ UNCHANGED <<active, anchored, rows, adhoc, curve>>

ChargeNext ==
    \/ Tick \/ TimePasses \/ PostTarget \/ VehicleTurns \/ TariffTurns
    \/ \E i \in Ids : PostPlan(i) \/ PutPlan(i) \/ DeletePlan(i)

ChargeSpec == ChargeInit /\ [][ChargeNext]_chargeVars

-----------------------------------------------------------------------------
(* Whatever the prices do, wherever a tick falls between the slots and     *)
(* however often the plan is made anew: a target that could be met when it *)
(* began to govern can still be met, and so is met at its time             *)
(* (decideShouldCharge stands in the next slot for the begun one).         *)
PromiseKept == promise # NoPlan => resolveTarget(promise) <= promise.readyBy - now

(* While the tariff is live, no slot is chosen in whose place a cheaper    *)
(* one was left: "picks the cheapest slots that deliver the required       *)
(* energy" (planner.ts).                                                   *)
CheapestChosen ==
    ticked /\ tariff = "live" =>
        \A s \in chosen, r \in planned \ chosen :
            {s \div PerPrice, r \div PerPrice} \subseteq Published =>
                curve[s \div PerPrice] <= curve[r \div PerPrice]
=============================================================================
