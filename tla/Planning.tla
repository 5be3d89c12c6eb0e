------------------------------ MODULE Planning ------------------------------
(***************************************************************************)
(* The pure half of a circuit tick: the budget of a circuit                *)
(* (core/smart-charging/current.ts), its split over the loadpoints         *)
(* (modules/balancer-mqtt-circuit/allocator.ts), what is written           *)
(* (core/control-loop.ts) and the soft start.                              *)
(*                                                                         *)
(* Amps are integers.  What a loadpoint asks for stands for its mode, the  *)
(* smart decision and the reached target together:                         *)
(*   "disabled"; "smart", "wait" (smart, shouldChargeNow = false);         *)
(*   "fast", "done" (fast, target reached and pauseOnTarget).              *)
(***************************************************************************)
EXTENDS Integers, FiniteSets

CONSTANTS N,          \* loadpoints of the circuit, in declaration order
          MinA,       \* OCPP_MIN_A, IEC_MIN_A
          Hysteresis, \* HYSTERESIS_A
          Deadband,   \* smartCharging.deadbandA
          NoValue     \* JavaScript's undefined

ASSUME PlanningAssumption ==
    /\ N \in Nat \ {0} /\ MinA \in Nat \ {0}
    /\ Hysteresis \in Nat /\ 2 * Hysteresis < MinA
    /\ Deadband \in Nat
    /\ NoValue \notin Int

Loadpoints == 1..N
ModesAsked == {"disabled", "smart", "wait", "fast", "done"}

Lower(a, b) == IF a <= b THEN a ELSE b
Higher(a, b) == IF a <= b THEN b ELSE a
Gap(a, b) == IF a <= b THEN b - a ELSE a - b
OrZero(a) == IF a = NoValue THEN 0 ELSE a

Sum(f) ==
    LET upTo[i \in 0..N] == IF i = 0 THEN 0 ELSE upTo[i - 1] + f[i]
    IN  upTo[N]

(***************************************************************************)
(* resolveCurrentBudget: live meter, worst case of the last days, static;  *)
(* the charger's ceiling alone when no fuse is known.                      *)
(***************************************************************************)
settle(amps, ceiling) ==
    LET capped == Higher(0, Lower(amps, ceiling))
    IN  IF capped < MinA THEN 0 ELSE capped

resolveCurrentBudget(ceiling, breaker, reserve, live, own, worst, static) ==
    settle(CASE breaker = NoValue -> ceiling
             [] breaker # NoValue /\ live # NoValue -> breaker - reserve - live + own
             [] breaker # NoValue /\ live = NoValue /\ worst # NoValue ->
                  breaker - reserve - worst - 1
             [] OTHER -> static,
           ceiling)

(* circuitOwnDrawA: what is credited back to a loadpoint.  Slips: nothing  *)
(* is, or the command comes on top of the draw.                            *)
NoCredit(current, command) == 0
CreditTwice(current, command) == current + OrZero(command)

Credit(current, command) == Higher(current, OrZero(command))

circuitOwnDrawA(current, command) ==
    Sum([i \in Loadpoints |-> Credit(current[i], command[i])])

(***************************************************************************)
(* allocate: a candidate within the hysteresis of the last command keeps   *)
(* that command; then the 6 A floor.  The fast loadpoints come first, each *)
(* leaving the rest to the next, and the smart ones share what is left.    *)
(***************************************************************************)
Steady(give, prev) ==
    LET stable == IF prev # NoValue /\ Gap(give, prev) <= Hysteresis THEN prev ELSE give
    IN  IF stable < MinA THEN 0 ELSE stable

(* Slip: what a fast loadpoint was given is not taken off the rest.        *)
RemainingForgets(budget, ask, maxA, prev) == [i \in 0..N |-> budget]

Remaining(budget, ask, maxA, prev) ==
    LET left[i \in 0..N] ==
          IF i = 0 THEN budget
          ELSE IF ask[i] = "fast"
                 THEN left[i - 1] - Steady(Lower(maxA[i], left[i - 1]), prev[i])
                 ELSE left[i - 1]
    IN  left

allocate(budget, ask, maxA, prev) ==
    LET left == Remaining(budget, ask, maxA, prev)
        share == left[N] \div Cardinality({i \in Loadpoints : ask[i] = "smart"})
    IN  [i \in Loadpoints |->
           CASE ask[i] = "fast" -> Steady(Lower(maxA[i], left[i - 1]), prev[i])
             [] ask[i] = "smart" -> Steady(Lower(share, maxA[i]), prev[i])
             [] OTHER -> 0]

bareCircuitAmps(ask, budget) == IF ask \in {"smart", "fast"} THEN budget ELSE 0

shouldWrite(candidate, last) ==
    last = NoValue \/ Gap(candidate, last) >= Deadband

softStartLimit(target, prev) ==
    IF prev >= MinA \/ target <= MinA THEN target ELSE Higher(MinA, target \div 2)
=============================================================================
