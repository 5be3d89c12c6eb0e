----------------------- MODULE SessionReconcilerProofs -----------------------
(***************************************************************************)
(* Theorems about the session reconciler, for every grace, cooldown, cap   *)
(* and settle time, and every set of levers: its actions keep to the       *)
(* budget of module RecoveryBudget, the budget is renewed only on          *)
(* evidence, and a car that fills up is left alone.                        *)
(***************************************************************************)
EXTENDS SessionReconciler, TLAPS

(* The guard-state: a stall that has not begun has used nothing of the     *)
(* budget, and no rung is climbed without an action.                       *)
GuardOK ==
    /\ guard \in Guards
    /\ guard.stalled = None => guard = idleState
    /\ guard.phaseAttempts <= guard.totalActions

----------------------------------------------------------------------------
(* Only a tick and the passing of time touch the guard-state. *)
LEMMA OthersLeaveGuard ==
  ASSUME Execute \/ Restarts \/ Surroundings \/ LinkReturns \/ Meter \/ Settle
  PROVE  UNCHANGED guard
<1>1. CASE Execute
  BY <1>1 DEF Execute
<1>2. CASE Restarts \/ LinkReturns \/ Meter \/ Settle
  BY <1>2 DEF Restarts, LinkReturns, Meter, Settle, tickVars
<1>3. CASE Surroundings
  BY <1>3 DEF Surroundings, PlugIn, Unplug, Stalls, FillsUp, Pause, Want, LinkDrops,
              ForgetsCar, TelemetryComesAndGoes, InSurroundings, tickVars
<1>4. QED
  BY <1>1, <1>2, <1>3

(* What a tick can do to it. *)
LEMMA TickCases ==
  ASSUME Tick
  PROVE  \/ guard' = idleState
         \/ UNCHANGED guard
         \/ guard' = Base
         \/ Due /\ guard' = NextGuardOnAct
  BY DEF Tick, decideSession

(* idleState is a guard-state of its type.                                 *)
LEMMA IdleIsGuard == idleState \in Guards
  BY SessionAssumption DEF idleState, Guards

(* The fields of the guard-state, one by one, as the provers need them.    *)
LEMMA GuardFields ==
  ASSUME guard \in Guards
  PROVE  /\ guard = [stalled |-> guard.stalled, sinceAction |-> guard.sinceAction,
                     phase |-> guard.phase, phaseAttempts |-> guard.phaseAttempts,
                     totalActions |-> guard.totalActions]
         /\ guard.stalled \in 0..GraceUnits \union {None}
         /\ guard.sinceAction \in 0..CooldownUnits \union {None}
         /\ guard.phase \in SessionPhases \union {None}
         /\ guard.phaseAttempts \in 0..MaxActions /\ guard.totalActions \in 0..MaxActions
  BY DEF Guards

(* Base anchors the episode and never touches the total of actions.        *)
LEMMA BaseOK ==
  ASSUME GuardOK
  PROVE  /\ Base \in Guards /\ Base.stalled # None
         /\ Base.stalled = IF guard.stalled = None THEN 0 ELSE guard.stalled
         /\ Base.sinceAction = guard.sinceAction
         /\ Base.totalActions = guard.totalActions
         /\ Base.phaseAttempts <= Base.totalActions
<1> DEFINE st == IF guard.stalled = None THEN 0 ELSE guard.stalled
           at == IF guard.phase = phaseOf(status) THEN guard.phaseAttempts ELSE 0
<1>1. /\ st \in 0..GraceUnits \union {None} /\ st # None
      /\ at \in 0..MaxActions /\ at <= guard.totalActions
  BY GuardFields, SessionAssumption DEF GuardOK
<1>2. phaseOf(status) \in SessionPhases
  BY DEF phaseOf, SessionPhases
<1>3. Base = [guard EXCEPT !.stalled = st, !.phase = phaseOf(status), !.phaseAttempts = at]
  BY DEF Base
<1>4. st = IF guard.stalled = None THEN 0 ELSE guard.stalled
  OBVIOUS
<1> HIDE DEF at, st
<1>5. /\ Base \in Guards /\ Base.stalled = st /\ Base.sinceAction = guard.sinceAction
      /\ Base.phaseAttempts = at /\ Base.totalActions = guard.totalActions
  BY <1>1, <1>2, <1>3 DEF GuardOK, Guards
<1>6. QED
  BY <1>1, <1>4, <1>5

(* An action within the cap adds one to the total and starts the cooldown. *)
LEMMA ActedOK ==
  ASSUME GuardOK, guard.totalActions < MaxActions
  PROVE  /\ NextGuardOnAct \in Guards /\ NextGuardOnAct.stalled = Base.stalled
         /\ NextGuardOnAct.sinceAction = 0
         /\ NextGuardOnAct.totalActions = guard.totalActions + 1
         /\ NextGuardOnAct.phaseAttempts <= NextGuardOnAct.totalActions
<1> DEFINE n == Base.phaseAttempts + 1
           t == guard.totalActions + 1
<1>1. Base \in Guards
  BY BaseOK
<1>2. 0 \in 0..CooldownUnits /\ n \in 0..MaxActions /\ t \in 0..MaxActions /\ n <= t
  <2>1. Base.phaseAttempts \in Nat /\ Base.phaseAttempts <= guard.totalActions
    BY <1>1, BaseOK DEF Guards
  <2>2. QED
    BY <2>1, SessionAssumption, GuardFields DEF GuardOK
<1>3. NextGuardOnAct = [Base EXCEPT !.sinceAction = 0, !.phaseAttempts = n, !.totalActions = t]
  BY DEF NextGuardOnAct
<1>4. t = guard.totalActions + 1
  OBVIOUS
<1> HIDE DEF n, t
<1>5. /\ NextGuardOnAct \in Guards /\ NextGuardOnAct.stalled = Base.stalled
      /\ NextGuardOnAct.sinceAction = 0
      /\ NextGuardOnAct.phaseAttempts = n /\ NextGuardOnAct.totalActions = t
  BY <1>1, <1>2, <1>3 DEF Guards
<1>6. QED
  BY <1>2, <1>4, <1>5

(* A timer that counts on stays within its threshold.                      *)
LEMMA LaterInRange ==
  ASSUME NEW cap \in Nat, NEW t \in 0..cap \union {None}
  PROVE  Later(t, cap) \in 0..cap \union {None} /\ (Later(t, cap) = None <=> t = None)
  BY SessionAssumption DEF Later

(* Time moves both timers of the guard-state and nothing else.             *)
LEMMA ElapsedOK ==
  ASSUME GuardOK, Elapse
  PROVE  /\ guard' \in Guards
         /\ guard'.stalled = Later(guard.stalled, GraceUnits)
         /\ guard'.sinceAction = Later(guard.sinceAction, CooldownUnits)
         /\ guard'.phaseAttempts = guard.phaseAttempts
         /\ guard'.totalActions = guard.totalActions
         /\ guard'.phase = guard.phase
<1> DEFINE st == Later(guard.stalled, GraceUnits)
           si == Later(guard.sinceAction, CooldownUnits)
<1>1. st \in 0..GraceUnits \union {None} /\ si \in 0..CooldownUnits \union {None}
  BY GuardFields, LaterInRange, SessionAssumption DEF GuardOK
<1>2. guard' = [guard EXCEPT !.stalled = st, !.sinceAction = si]
  BY DEF Elapse
<1> HIDE DEF st, si
<1>3. /\ guard' \in Guards /\ guard'.stalled = st /\ guard'.sinceAction = si
      /\ guard'.phaseAttempts = guard.phaseAttempts
      /\ guard'.totalActions = guard.totalActions /\ guard'.phase = guard.phase
  BY <1>1, <1>2 DEF GuardOK, Guards
<1>4. QED
  BY <1>3 DEF st, si

(* The reconciler starts with a legal guard-state.                         *)
LEMMA InitGuard == SessionInit => GuardOK
  BY IdleIsGuard DEF SessionInit, GuardOK, idleState

(* Every step leaves a legal guard-state.                                  *)
LEMMA NextKeepsGuard ==
  ASSUME GuardOK, [SessionNext]_vars
  PROVE  GuardOK'
<1>1. CASE Tick
  <2>1. CASE guard' = idleState
    BY <2>1, IdleIsGuard DEF GuardOK, idleState
  <2>2. CASE UNCHANGED guard
    BY <2>2 DEF GuardOK
  <2>3. CASE guard' = Base
    BY <2>3, BaseOK DEF GuardOK
  <2>4. CASE Due /\ guard' = NextGuardOnAct
    BY <2>4, BaseOK, ActedOK DEF GuardOK, Due
  <2>5. QED
    BY <1>1, <2>1, <2>2, <2>3, <2>4, TickCases
<1>2. CASE Elapse
  <2>1. guard.stalled = None => guard' = guard
    <3>1. Later(None, GraceUnits) = None /\ Later(None, CooldownUnits) = None
      BY DEF Later
    <3>2. guard.stalled = None => guard.sinceAction = None
      BY DEF GuardOK, idleState
    <3>3. guard.stalled = None
            => guard' = [guard EXCEPT !.stalled = guard.stalled,
                                      !.sinceAction = guard.sinceAction]
      BY <1>2, <3>1, <3>2 DEF Elapse
    <3>4. QED
      BY <3>3 DEF GuardOK, Guards
  <2>2. guard.stalled # None => guard'.stalled # None
    BY <1>2, ElapsedOK, GuardFields, LaterInRange, SessionAssumption DEF GuardOK
  <2>3. QED
    BY <1>2, <2>1, <2>2, ElapsedOK DEF GuardOK
<1>3. CASE Execute \/ Restarts \/ Surroundings \/ LinkReturns \/ Meter \/ Settle
  BY <1>3, OthersLeaveGuard DEF GuardOK
<1>4. CASE UNCHANGED vars
  BY <1>4 DEF GuardOK, vars, tickVars
<1>5. QED
  BY <1>1, <1>2, <1>3, <1>4 DEF SessionNext

(* The guard-state is always a legal one, within its cap. *)
THEOREM GuardInvariant == SessionSpec => []GuardOK
  BY InitGuard, NextKeepsGuard, PTL DEF SessionSpec

----------------------------------------------------------------------------
(* The budget: what is left of grace and cooldown, and how steps move it.  *)
GraceLeft == IF guard.stalled = None THEN GraceUnits ELSE GraceUnits - guard.stalled
CooldownLeft == IF guard.sinceAction = None THEN 0 ELSE CooldownUnits - guard.sinceAction
Rest == Larger(GraceLeft, CooldownLeft)

(* What is left of grace and cooldown, in range.                           *)
LEMMA LeftInRange ==
  ASSUME guard \in Guards
  PROVE  GraceLeft \in 0..GraceUnits /\ CooldownLeft \in 0..CooldownUnits
  BY GuardFields, SessionAssumption DEF GraceLeft, CooldownLeft

(* A unit of time takes one from each, down to 0. *)
LEMMA LaterLeaves ==
  ASSUME NEW cap \in Nat, NEW t \in 0..cap
  PROVE  cap - Later(t, cap) = IF cap - t = 0 THEN 0 ELSE (cap - t) - 1
  BY SessionAssumption DEF Later

(* Time passing is a Wait of the budget, or a stutter.                     *)
LEMMA ElapseWaits ==
  ASSUME GuardOK, Elapse
  PROVE  \/ UNCHANGED <<guard.totalActions, Rest>>
         \/ Rest > 0 /\ Rest' = Rest - 1 /\ guard'.totalActions = guard.totalActions
<1>1. CASE guard.stalled = None
  <2>1. guard.sinceAction = None
    BY <1>1 DEF GuardOK, idleState
  <2>2. guard'.stalled = None /\ guard'.sinceAction = None
        /\ guard'.totalActions = guard.totalActions
    BY <1>1, <2>1, ElapsedOK DEF Later
  <2>3. QED
    BY <1>1, <2>1, <2>2 DEF Rest, GraceLeft, CooldownLeft
<1>2. CASE guard.stalled # None
  <2>1. guard.stalled \in 0..GraceUnits /\ guard'.stalled # None
        /\ guard'.stalled = Later(guard.stalled, GraceUnits)
    BY <1>2, GuardFields, ElapsedOK, LaterInRange, SessionAssumption DEF GuardOK
  <2>2. GraceLeft' = IF GraceLeft = 0 THEN 0 ELSE GraceLeft - 1
    BY <1>2, <2>1, LaterLeaves, SessionAssumption DEF GraceLeft
  <2>3. CooldownLeft' = IF CooldownLeft = 0 THEN 0 ELSE CooldownLeft - 1
    <3>1. CASE guard.sinceAction = None
      BY <3>1, ElapsedOK DEF Later, CooldownLeft
    <3>2. CASE guard.sinceAction # None
      <4>1. guard.sinceAction \in 0..CooldownUnits /\ guard'.sinceAction # None
            /\ guard'.sinceAction = Later(guard.sinceAction, CooldownUnits)
        BY <3>2, GuardFields, ElapsedOK, LaterInRange, SessionAssumption DEF GuardOK
      <4>2. QED
        BY <3>2, <4>1, LaterLeaves, SessionAssumption DEF CooldownLeft
    <3>3. QED
      BY <3>1, <3>2
  <2>4. guard'.totalActions = guard.totalActions
    BY ElapsedOK
  <2>5. QED
    BY <2>2, <2>3, <2>4, LeftInRange DEF Rest, Larger, GuardOK
<1>3. QED
  BY <1>1, <1>2

(* A tick is an Act or a Renew of the budget, or a stutter.                *)
LEMMA TickSpends ==
  ASSUME GuardOK, Tick
  PROVE  \/ UNCHANGED <<guard.totalActions, Rest>>
         \/ /\ Rest = 0 /\ guard.totalActions < MaxActions
            /\ guard'.totalActions = guard.totalActions + 1 /\ Rest' = CooldownUnits
         \/ guard'.totalActions = 0 /\ Rest' = GraceUnits
<1>1. CASE guard' = idleState
  <2>1. GraceLeft' = GraceUnits /\ CooldownLeft' = 0 /\ guard'.totalActions = 0
    BY <1>1 DEF GraceLeft, CooldownLeft, idleState
  <2>2. QED
    BY <2>1, SessionAssumption DEF Rest, Larger
<1>2. CASE UNCHANGED guard
  BY <1>2 DEF Rest, GraceLeft, CooldownLeft
<1>3. CASE guard' = Base
  <2>1. GraceLeft' = GraceLeft /\ CooldownLeft' = CooldownLeft
        /\ guard'.totalActions = guard.totalActions
    BY <1>3, BaseOK, SessionAssumption DEF GraceLeft, CooldownLeft
  <2>2. QED
    BY <2>1 DEF Rest
<1>4. CASE Due /\ guard' = NextGuardOnAct
  <2>1. guard.stalled = GraceUnits
    BY <1>4, BaseOK, SessionAssumption DEF Due
  <2>2. GraceLeft = 0 /\ CooldownLeft = 0
    BY <1>4, <2>1, SessionAssumption DEF Due, GraceLeft, CooldownLeft
  <2>3. guard'.stalled = GraceUnits /\ guard'.sinceAction = 0
        /\ guard'.totalActions = guard.totalActions + 1
    BY <1>4, <2>1, BaseOK, ActedOK, SessionAssumption DEF Due
  <2>4. GraceLeft' = 0 /\ CooldownLeft' = CooldownUnits
    BY <2>3, SessionAssumption DEF GraceLeft, CooldownLeft
  <2>5. Rest = 0 /\ Rest' = CooldownUnits
    BY <2>2, <2>4, SessionAssumption DEF Rest, Larger
  <2>6. QED
    BY <1>4, <2>3, <2>5 DEF Due
<1>5. QED
  BY <1>1, <1>2, <1>3, <1>4, TickCases

(* Every step of the reconciler is one of the budget.                      *)
LEMMA StepsKeepBudget ==
  ASSUME GuardOK, [SessionNext]_vars
  PROVE  [Budget!BudgetNext]_<<guard.totalActions, Rest>>
<1> USE DEF Budget!BudgetNext, Budget!Act, Budget!Wait, Budget!Renew, Rest, GraceLeft,
            CooldownLeft
<1>1. CASE Tick
  BY <1>1, TickSpends
<1>2. CASE Elapse
  BY <1>2, ElapseWaits
<1>3. CASE Execute \/ Restarts \/ Surroundings \/ LinkReturns \/ Meter \/ Settle
  BY <1>3, OthersLeaveGuard
<1>4. CASE UNCHANGED vars
  BY <1>4 DEF vars, tickVars
<1>5. QED
  BY <1>1, <1>2, <1>3, <1>4 DEF SessionNext

(* The reconciler implements its promise: per episode at most MaxActions   *)
(* actions, the first after the grace, the others a cooldown apart.        *)
THEOREM RecoveryBudgetTheorem == SessionSpec => RecoveryIsBudgeted
<1>1. SessionInit => Budget!BudgetInit
  BY SessionAssumption DEF SessionInit, Budget!BudgetInit, idleState, Larger
<1>2. GuardOK /\ [SessionNext]_vars => [Budget!BudgetNext]_(Budget!budgetVars)
  BY StepsKeepBudget DEF Budget!budgetVars, Rest, GraceLeft, CooldownLeft
<1>3. QED
  BY <1>1, <1>2, GuardInvariant, PTL DEF SessionSpec, RecoveryIsBudgeted, Budget!BudgetSpec

----------------------------------------------------------------------------
(* The connector as the server sees it: nothing is reported without a      *)
(* link, and no transaction without a car.                                 *)
WorldOK ==
    /\ link => ~stopDue
    /\ ~link => status \in {None, "Unavailable"}
    /\ car = "out" => session = "none"
    /\ car \in {"charging", "tapering"} => session = "open"
    /\ status \in {"Charging", "SuspendedEV"} => connected

(* Nobody is plugged in at first.                                          *)
LEMMA InitWorld == SessionInit => WorldOK
  BY SessionAssumption DEF SessionInit, WorldOK, Statuses

(* A change at the connector keeps car, session and status consistent.     *)
LEMMA MovesKeepWorld ==
  ASSUME WorldOK, NEW c, NEW k, NEW s, Moves(c, k, s), UNCHANGED link,
         c = "out" => s = "none",
         c \in {"charging", "tapering"} => s = "open"
  PROVE  WorldOK'
<1>1. CASE link
  BY <1>1 DEF WorldOK, Moves, foldChargerStatus, StatusOf
<1>2. CASE ~link
  <2>1. car' = c /\ session' = s /\ ~link' /\ UNCHANGED <<status, connected>>
    BY <1>2 DEF Moves, liveVars
  <2>2. QED
    BY <1>2, <2>1, SessionAssumption DEF WorldOK, Statuses
<1>3. QED
  BY <1>1, <1>2

(* So does a step that leaves them alone.                                  *)
LEMMA UnmovedKeepsWorld ==
  ASSUME WorldOK, UNCHANGED <<car, session, link, stopDue, status, connected>>
  PROVE  WorldOK'
  BY DEF WorldOK

(* Each disturbance of the surroundings.                                   *)
LEMMA SurroundingsKeepWorld ==
  ASSUME WorldOK, Surroundings
  PROVE  WorldOK'
<1>1. CASE PlugIn
  BY <1>1, MovesKeepWorld DEF PlugIn
<1>2. CASE Unplug
  BY <1>2, MovesKeepWorld DEF Unplug
<1>3. CASE Stalls
  BY <1>3, MovesKeepWorld DEF Stalls
<1>4. CASE FillsUp
  <2>1. session = "open"
    BY <1>4 DEF FillsUp, WorldOK
  <2>2. QED
    BY <1>4, <2>1, MovesKeepWorld DEF FillsUp
<1>5. CASE Pause
  <2>1. CASE car \in {"charging", "tapering"}
    BY <1>5, <2>1, MovesKeepWorld DEF Pause
  <2>2. CASE car \notin {"charging", "tapering"}
    BY <1>5, <2>2, UnmovedKeepsWorld DEF Pause, liveVars
  <2>3. QED
    BY <2>1, <2>2
<1>6. CASE Want
  <2>1. CASE car = "stuck" /\ cure = "wanting" /\ session = "open"
    BY <1>6, <2>1, MovesKeepWorld DEF Want
  <2>2. CASE ~(car = "stuck" /\ cure = "wanting" /\ session = "open")
    BY <1>6, <2>2, UnmovedKeepsWorld DEF Want, liveVars
  <2>3. QED
    BY <2>1, <2>2
<1>7. CASE LinkDrops
  BY <1>7 DEF LinkDrops, foldChargerStatus, worldVars, WorldOK
<1>8. CASE TelemetryComesAndGoes
  BY <1>8 DEF TelemetryComesAndGoes, worldVars, liveVars, WorldOK
<1>9. CASE ForgetsCar
  BY <1>9 DEF ForgetsCar, foldChargerStatus, worldVars, WorldOK
<1>10. QED
  BY <1>1, <1>2, <1>3, <1>4, <1>5, <1>6, <1>7, <1>8, <1>9 DEF Surroundings

(* A transaction that opens.                                               *)
LEMMA StartsKeepsWorld ==
  ASSUME WorldOK, UNCHANGED link, Starts \/ Unmoved
  PROVE  WorldOK'
<1>1. CASE Unmoved
  BY <1>1, UnmovedKeepsWorld DEF Unmoved, liveVars
<1>2. CASE Starts
  <2>1. CASE car = "stuck" /\ cure \in {"remote-start", "resume"}
    BY <1>2, <2>1, MovesKeepWorld DEF Starts, Cured
  <2>2. CASE car # "out" /\ Moves(car, cure, "open")
    BY <2>2, MovesKeepWorld
  <2>3. QED
    BY <1>1, <1>2, <2>1, <2>2 DEF Starts
<1>3. QED
  BY <1>1, <1>2

(* Each lever of executeSessionAction.                                     *)
LEMMA ExecuteKeepsWorld ==
  ASSUME WorldOK, Execute
  PROVE  WorldOK'
<1>1. CASE LeverFails
  BY <1>1, UnmovedKeepsWorld DEF LeverFails, worldVars, linkVars, liveVars
<1>2. CASE RemoteStart
  BY <1>2, StartsKeepsWorld DEF RemoteStart
<1>3. CASE Resume
  <2>1. CASE session = "open"
    <3>1. car # "out"
      BY <2>1 DEF WorldOK
    <3>2. QED
      BY <1>3, <2>1, <3>1, MovesKeepWorld DEF Resume
  <2>2. CASE session # "open"
    BY <1>3, <2>2, StartsKeepsWorld DEF Resume
  <2>3. QED
    BY <2>1, <2>2
<1>4. CASE WakeCar \/ ClearProfile
  <2>1. CASE Cured("open")
    BY <1>4, <2>1, MovesKeepWorld DEF WakeCar, ClearProfile, Cured
  <2>2. CASE Unmoved
    BY <1>4, <2>2, StartsKeepsWorld DEF WakeCar, ClearProfile
  <2>3. QED
    BY <1>4, <2>1, <2>2 DEF WakeCar, ClearProfile
<1>5. CASE Reset
  BY <1>5 DEF Reset, foldChargerStatus, WorldOK
<1>6. QED
  BY <1>1, <1>2, <1>3, <1>4, <1>5 DEF Execute

(* Every step.                                                             *)
LEMMA NextKeepsWorld ==
  ASSUME WorldOK, [SessionNext]_vars
  PROVE  WorldOK'
<1>1. CASE Tick \/ Elapse \/ Settle \/ UNCHANGED vars
  BY <1>1, UnmovedKeepsWorld
     DEF Tick, Elapse, Settle, vars, worldVars, linkVars, liveVars
<1>2. CASE Restarts
  BY <1>2, StartsKeepsWorld DEF Restarts
<1>3. CASE LinkReturns
  BY <1>3 DEF LinkReturns, foldChargerStatus, StatusOf, Unanswered, worldVars, WorldOK
<1>4. CASE Meter
  BY <1>4 DEF Meter, worldVars, linkVars, WorldOK
<1>5. QED
  BY <1>1, <1>2, <1>3, <1>4, SurroundingsKeepWorld, ExecuteKeepsWorld DEF SessionNext

(* The budget is never renewed for a stuck car that current is wanted for  *)
(* and that shows no draw, unless its session completes or the connector   *)
(* is taken for free.                                                      *)
LEMMA RenewalHasEvidence ==
  ASSUME GuardOK, SessionNext, guard'.totalActions < guard.totalActions
  PROVE  ~wants \/ draw = "full" \/ complete' \/ car # "stuck" \/ TakenForFree
<1>1. CASE Tick
  <2>1. ASSUME NEW done, done = complete', ~EpisodeOver(Telemetry, done),
               decideSession(Telemetry, done)
        PROVE  FALSE
    <3>1. guard' = guard \/ guard' = Base \/ (Due /\ guard' = NextGuardOnAct)
      BY <2>1 DEF decideSession
    <3>2. QED
      BY <3>1, BaseOK, ActedOK, GuardFields DEF GuardOK, Due
  <2>2. EpisodeOver(Telemetry, complete')
    BY <1>1, <2>1 DEF Tick
  <2>3. Telemetry.charging = TRUE \/ Telemetry.atTarget => car # "stuck"
    BY SessionAssumption DEF Telemetry
  <2>4. Telemetry.pluggedIn # TRUE => car # "stuck" \/ ~telemetry
    BY SessionAssumption DEF Telemetry
  <2>5. QED
    BY <2>2, <2>3, <2>4 DEF EpisodeOver, TakenForFree
<1>2. CASE Elapse
  BY <1>2, ElapsedOK, GuardFields DEF GuardOK
<1>3. CASE Execute \/ Restarts \/ Surroundings \/ LinkReturns \/ Meter \/ Settle
  BY <1>3, OthersLeaveGuard, GuardFields DEF GuardOK
<1>4. QED
  BY <1>1, <1>2, <1>3 DEF SessionNext

(* What the connector reports fits the car and its transaction.            *)
THEOREM WorldInvariant == SessionSpec => []WorldOK
  BY InitWorld, NextKeepsWorld, PTL DEF SessionSpec

(* decideSession renews the budget of a car that is still stuck and wanted *)
(* only with a complete session, or while the connector counts as free and *)
(* the car does not say otherwise, as after onConnect's fallback status.   *)
THEOREM RenewalTheorem == SessionSpec => BudgetRenewedOnEvidence
<1>1. GuardOK /\ [SessionNext]_vars
        => [guard'.totalActions < guard.totalActions
              => ~wants \/ draw = "full" \/ complete' \/ car # "stuck" \/ TakenForFree]_vars
  BY RenewalHasEvidence
<1>2. QED
  BY <1>1, GuardInvariant, PTL DEF SessionSpec, BudgetRenewedOnEvidence

----------------------------------------------------------------------------
(* A lever is only ever out while a stall is anchored. *)
LeverOK == lever # "none" => guard.stalled # None

(* An action under way belongs to an episode that has one.                 *)
LEMMA NextKeepsLever ==
  ASSUME GuardOK, LeverOK, [SessionNext]_vars
  PROVE  LeverOK'
<1>1. CASE Tick
  <2>1. ASSUME NEW seen, NEW done, decideSession(seen, done)
        PROVE  lever' = "none" \/ (Due /\ guard' = NextGuardOnAct)
    BY <2>1 DEF decideSession
  <2>2. lever' = "none" \/ (Due /\ guard' = NextGuardOnAct)
    BY <1>1, <2>1 DEF Tick
  <2>3. QED
    BY <2>2, BaseOK, ActedOK DEF Due, LeverOK
<1>2. CASE Elapse
  BY <1>2, ElapsedOK, GuardFields, LaterInRange, SessionAssumption
     DEF Elapse, LeverOK, GuardOK
<1>3. CASE Execute
  BY <1>3 DEF Execute, LeverOK
<1>4. CASE Restarts \/ Surroundings \/ LinkReturns \/ Meter \/ Settle
  <2>1. lever' = lever
    BY <1>4 DEF Restarts, LinkReturns, Meter, Settle, Surroundings, PlugIn, Unplug, Stalls,
                FillsUp, Pause, Want, LinkDrops, ForgetsCar, TelemetryComesAndGoes, InSurroundings,
                tickVars
  <2>2. QED
    BY <1>4, <2>1, OthersLeaveGuard DEF LeverOK
<1>5. CASE UNCHANGED vars
  BY <1>5 DEF vars, tickVars, LeverOK
<1>6. QED
  BY <1>1, <1>2, <1>3, <1>4, <1>5 DEF SessionNext

(* A car that is full: its transaction stays open, no lever is out, and    *)
(* once the draw is gone the settle timer has no more to go than the grace.*)
Settling ==
    /\ draw = "none" /\ zeroDraw \in 0..SettleUnits
    /\ zeroDraw = SettleUnits \/ guard.stalled - zeroDraw <= GraceUnits - SettleUnits

SteadyOK ==
    /\ zeroDraw \in 0..SettleUnits \union {None}
    /\ steady =>
         /\ car = "full" /\ session = "open" /\ link /\ lever = "none"
         /\ status \in {"Charging", "SuspendedEV"} /\ (sessionEnergy \/ delivered)
         /\ draw \in {"none", "full"}
         /\ guard.stalled = None \/ Settling

(* The tick that could act finds the session complete first. *)
LEMMA SteadyTick ==
  ASSUME GuardOK, WorldOK, SteadyOK, steady, Tick
  PROVE  lever' = "none" /\ delivered' /\ (guard'.stalled = None \/ Settling')
<1>1. PICK met \in {FALSE, car = "full"} :
        LET got  == sessionEnergy \/ (delivered /\ status # "Available")
            zero == IF status = "Available" THEN None ELSE zeroDraw
            done == resolveSessionComplete(zero, got, met)
        IN /\ delivered' = got /\ complete' = done.complete /\ zeroDraw' = done.zeroDraw
           /\ decideSession(Telemetry, done.complete)
  BY DEF Tick
<1>2. status # "Available" /\ connected /\ (sessionEnergy \/ delivered) /\ delivered'
      /\ ~Unreachable
  BY <1>1, SessionAssumption DEF SteadyOK, WorldOK, Unreachable, Statuses
<1>3. decideSession(Telemetry, complete')
  BY <1>1
<1>4. CASE EpisodeOver(Telemetry, complete')
  BY <1>2, <1>3, <1>4 DEF decideSession, idleState
<1>5. CASE ~EpisodeOver(Telemetry, complete')
  <2>1. wants /\ draw = "none" /\ ~complete'
    BY <1>5 DEF EpisodeOver, SteadyOK
  <2>2. /\ zeroDraw' = IF zeroDraw = None THEN 0 ELSE zeroDraw
        /\ zeroDraw' # SettleUnits
    BY <1>1, <1>2, <2>1 DEF resolveSessionComplete, OpenSession
  <2>3. zeroDraw' \in 0..SettleUnits /\ draw' = "none"
    BY <2>1, <2>2, SessionAssumption DEF SteadyOK, Tick, liveVars
  <2>4. Base.stalled \in 0..GraceUnits /\ Base.stalled - zeroDraw' <= GraceUnits - SettleUnits
    <3>1. CASE guard.stalled = None
      BY <2>3, <3>1, BaseOK, SessionAssumption, SettleBelowGrace
    <3>2. CASE guard.stalled # None
      BY <2>2, <3>2, BaseOK, GuardFields, SessionAssumption DEF SteadyOK, Settling, GuardOK
    <3>3. QED
      BY <3>1, <3>2
  <2>5. ~Due
    BY <2>2, <2>3, <2>4, SessionAssumption, SettleBelowGrace DEF Due
  <2>6. guard' = Base /\ lever' = "none"
    BY <1>2, <1>3, <1>5, <2>5 DEF decideSession
  <2>7. QED
    BY <1>2, <2>3, <2>4, <2>6 DEF Settling
<1>6. QED
  BY <1>4, <1>5

(* The settle timer stays within its threshold.                            *)
LEMMA ZeroDrawTyped ==
  ASSUME SteadyOK, [SessionNext]_vars
  PROVE  zeroDraw' \in 0..SettleUnits \union {None}
<1>1. CASE Tick
  <2>1. ASSUME NEW zero \in 0..SettleUnits \union {None}, NEW got, NEW met
        PROVE  resolveSessionComplete(zero, got, met).zeroDraw \in 0..SettleUnits \union {None}
    BY SessionAssumption DEF resolveSessionComplete, NotComplete, OpenSession
  <2>2. (IF status = "Available" THEN None ELSE zeroDraw) \in 0..SettleUnits \union {None}
    BY DEF SteadyOK
  <2>3. \E got, met :
           zeroDraw' = resolveSessionComplete(
                         IF status = "Available" THEN None ELSE zeroDraw, got, met).zeroDraw
    BY <1>1 DEF Tick
  <2>4. QED
    BY <2>1, <2>2, <2>3
<1>2. CASE Elapse
  BY <1>2, LaterInRange, SessionAssumption DEF Elapse, SteadyOK
<1>3. CASE Execute \/ Restarts \/ Surroundings \/ LinkReturns \/ Meter \/ Settle
           \/ UNCHANGED vars
  <2>1. zeroDraw' = zeroDraw
    BY <1>3 DEF Execute, Restarts, LinkReturns, Meter, Settle, Surroundings, PlugIn, Unplug,
                Stalls, FillsUp, Pause, Want, LinkDrops, ForgetsCar, TelemetryComesAndGoes,
                InSurroundings, tickVars, vars
  <2>2. QED
    BY <2>1 DEF SteadyOK
<1>4. QED
  BY <1>1, <1>2, <1>3 DEF SessionNext

(* Where a car begins to be steady: it fills up while the charger is fine, *)
LEMMA FillingBegins ==
  ASSUME GuardOK, WorldOK, LeverOK, SteadyOK, FillsUp, FillsUpDrawing
  PROVE  SteadyOK'
<1>1. session = "open" /\ car = "charging" /\ car' = "full" /\ link /\ draw = "full"
      /\ sessionEnergy /\ guard.stalled = None
  BY DEF WorldOK, FillsUpDrawing
<1>2. Moves("full", cure, session) /\ UNCHANGED <<link, tickVars>>
  BY <1>1 DEF FillsUp, InSurroundings, Moves
<1>3. session' = "open" /\ status' = "SuspendedEV" /\ draw' = "full" /\ sessionEnergy'
  BY <1>1, <1>2 DEF Moves, foldChargerStatus, StatusOf
<1>4. lever' = "none" /\ guard' = guard
  BY <1>1, <1>2 DEF LeverOK, tickVars
<1>5. QED
  BY <1>1, <1>2, <1>3, <1>4, ZeroDrawTyped DEF SteadyOK, SessionNext, Surroundings

(* or its settle timer starts soon enough.                                 *)
LEMMA SettlingBegins ==
  ASSUME GuardOK, WorldOK, SteadyOK, Tick, SettlesInTime
  PROVE  SteadyOK'
<1>1. PICK met \in {FALSE, car = "full"} :
        LET got  == sessionEnergy \/ (delivered /\ status # "Available")
            zero == IF status = "Available" THEN None ELSE zeroDraw
            done == resolveSessionComplete(zero, got, met)
        IN delivered' = got /\ zeroDraw' = done.zeroDraw
  BY DEF Tick
<1>2. zeroDraw' = 0 /\ car' = "full" /\ session = "open" /\ link'
      /\ status \in {"Charging", "SuspendedEV"} /\ lever' = "none"
      /\ guard'.stalled \in 0..GraceUnits - SettleUnits \union {None}
  BY DEF SettlesInTime
<1>3. draw = "none" /\ delivered'
  <2>1. NotComplete.zeroDraw # 0
    BY SessionAssumption DEF NotComplete
  <2>2. ASSUME NEW zero, NEW got, resolveSessionComplete(zero, got, met).zeroDraw = 0
        PROVE  draw = "none" /\ got
    BY <2>1, <2>2 DEF resolveSessionComplete
  <2>3. \E zero, got : delivered' = got /\ zeroDraw' = resolveSessionComplete(zero, got, met).zeroDraw
    BY <1>1
  <2>4. QED
    BY <1>2, <2>2, <2>3
<1>4. UNCHANGED <<worldVars, linkVars, liveVars>>
  BY DEF Tick
<1>5. guard'.stalled = None \/ Settling'
  BY <1>2, <1>3, <1>4, SessionAssumption DEF Settling, liveVars
<1>6. QED
  BY <1>2, <1>3, <1>4, <1>5, SessionAssumption DEF SteadyOK, worldVars, linkVars, liveVars

(* How it goes on, step by step. *)
LEMMA SteadyGoesOn ==
  ASSUME GuardOK, WorldOK, LeverOK, SteadyOK, steady, steady', [SessionNext]_vars
  PROVE  SteadyOK'
<1>1. /\ car = "full" /\ session = "open" /\ link /\ lever = "none"
      /\ status \in {"Charging", "SuspendedEV"} /\ (sessionEnergy \/ delivered)
      /\ draw \in {"none", "full"} /\ (guard.stalled = None \/ Settling)
  BY DEF SteadyOK
<1>2. zeroDraw' \in 0..SettleUnits \union {None}
  BY ZeroDrawTyped
<1>3. CASE Tick
  <2>1. UNCHANGED <<worldVars, linkVars, liveVars>>
    BY <1>3 DEF Tick
  <2>2. QED
    BY <1>1, <1>2, <1>3, <2>1, SteadyTick DEF SteadyOK, worldVars, linkVars, liveVars
<1>4. CASE Elapse
  <2>1. UNCHANGED <<worldVars, linkVars, liveVars, lever, delivered>>
    BY <1>4 DEF Elapse
  <2>2. CASE guard.stalled = None
    <3>1. guard'.stalled = None
      BY <1>4, <2>2, ElapsedOK DEF Later
    <3>2. QED
      BY <1>1, <1>2, <2>1, <3>1 DEF SteadyOK, worldVars, linkVars, liveVars
  <2>3. CASE guard.stalled # None
    <3>1. draw = "none" /\ zeroDraw \in 0..SettleUnits
          /\ (zeroDraw = SettleUnits \/ guard.stalled - zeroDraw <= GraceUnits - SettleUnits)
          /\ guard.stalled \in 0..GraceUnits
      BY <1>1, <2>3, GuardFields DEF Settling, GuardOK
    <3>2. zeroDraw' = IF zeroDraw = SettleUnits THEN zeroDraw ELSE zeroDraw + 1
      BY <1>4, <3>1, SessionAssumption DEF Elapse, Later
    <3>3. guard'.stalled = IF guard.stalled = GraceUnits THEN guard.stalled
                                                         ELSE guard.stalled + 1
      BY <1>4, <3>1, ElapsedOK, SessionAssumption DEF Later
    <3>4. Settling'
      BY <2>1, <3>1, <3>2, <3>3, SessionAssumption DEF Settling, liveVars
    <3>5. QED
      BY <1>1, <1>2, <2>1, <3>4 DEF SteadyOK, worldVars, linkVars, liveVars
  <2>4. QED
    BY <2>2, <2>3
<1>5. CASE Meter
  <2>1. /\ UNCHANGED <<car, session, link, lever, guard, zeroDraw, delivered>>
        /\ status' = "Charging" /\ draw' = "none" /\ (sessionEnergy => sessionEnergy')
    BY <1>1, <1>5 DEF Meter, worldVars, linkVars, tickVars
  <2>2. guard.stalled = None \/ Settling'
    BY <1>1, <2>1 DEF Settling
  <2>3. QED
    BY <1>1, <1>2, <2>1, <2>2 DEF SteadyOK
<1>6. CASE Pause \/ Want \/ TelemetryComesAndGoes \/ Restarts \/ Settle \/ UNCHANGED vars
  <2>1. UNCHANGED <<car, session, link, status, draw, sessionEnergy, lever, guard, zeroDraw,
                    delivered>>
    BY <1>1, <1>6 DEF Pause, Want, ForgetsCar, TelemetryComesAndGoes, Restarts, Settle, Unmoved,
                      InSurroundings, worldVars, linkVars, liveVars, tickVars, vars
  <2>2. QED
    BY <1>1, <1>2, <2>1 DEF SteadyOK, Settling
<1>7. CASE PlugIn \/ Unplug \/ Stalls \/ FillsUp \/ ForgetsCar \/ LinkDrops \/ LinkReturns
           \/ Execute
  <2>1. CASE PlugIn \/ Stalls \/ FillsUp \/ ForgetsCar \/ LinkReturns \/ Execute
    BY <1>1, <2>1 DEF PlugIn, Stalls, FillsUp, ForgetsCar, LinkReturns, Execute
  <2>2. CASE Unplug
    BY <1>1, <2>2 DEF Unplug, Moves, InSurroundings, Remember, FillsUpDrawing, SettlesInTime
  <2>3. CASE LinkDrops
    BY <1>1, <2>3 DEF LinkDrops, InSurroundings, Remember, FillsUpDrawing, SettlesInTime,
                      worldVars
  <2>4. QED
    BY <1>7, <2>1, <2>2, <2>3
<1>8. QED
  BY <1>3, <1>4, <1>5, <1>6, <1>7 DEF SessionNext, Surroundings

(* No other step begins it.                                                *)
LEMMA OnlyTheseBegin ==
  ASSUME WorldOK, [SessionNext]_vars, ~steady, steady'
  PROVE  (FillsUp /\ FillsUpDrawing) \/ (Tick /\ SettlesInTime)
<1>1. CASE UNCHANGED vars
  BY <1>1 DEF vars
<1>2. CASE SessionNext
  <2>1. FillsUpDrawing \/ SettlesInTime
    BY <1>2 DEF SessionNext, Tick, Elapse, Execute, Restarts, Surroundings, LinkReturns,
                Meter, Settle, PlugIn, Unplug, Stalls, FillsUp, Pause, Want, LinkDrops,
                ForgetsCar, TelemetryComesAndGoes, InSurroundings, Remember
  <2>2. CASE SettlesInTime
    <3>1. zeroDraw = None /\ zeroDraw' # None
      BY <2>2, SessionAssumption DEF SettlesInTime
    <3>2. ~Elapse
      BY <3>1 DEF Elapse, Later
    <3>3. ~(Execute \/ Restarts \/ Surroundings \/ LinkReturns \/ Meter \/ Settle)
      BY <3>1 DEF Execute, Restarts, LinkReturns, Meter, Settle, Surroundings, PlugIn, Unplug,
                  Stalls, FillsUp, Pause, Want, LinkDrops, ForgetsCar, TelemetryComesAndGoes,
                  InSurroundings, tickVars
    <3>4. QED
      BY <1>2, <2>2, <3>2, <3>3 DEF SessionNext
  <2>3. CASE FillsUpDrawing
    <3>1. car = "charging" /\ car' = "full" /\ session = "open"
      BY <2>3 DEF FillsUpDrawing, WorldOK
    <3>2. CASE Execute
      BY <3>1, <3>2 DEF Execute, LeverFails, RemoteStart, Resume, WakeCar, ClearProfile,
                        Reset, Unmoved, Starts, Cured, Moves, worldVars
    <3>3. CASE Restarts
      BY <3>1, <3>3 DEF Restarts, Unmoved
    <3>4. CASE PlugIn \/ Unplug \/ Stalls \/ Pause \/ Want \/ LinkDrops \/ ForgetsCar
                \/ TelemetryComesAndGoes
      BY <3>1, <3>4 DEF PlugIn, Unplug, Stalls, Pause, Want, LinkDrops, ForgetsCar,
                        TelemetryComesAndGoes, Moves, worldVars
    <3>5. CASE Tick \/ Elapse \/ LinkReturns \/ Meter \/ Settle
      BY <3>1, <3>5 DEF Tick, Elapse, LinkReturns, Meter, Settle, worldVars
    <3>6. QED
      BY <1>2, <2>3, <3>2, <3>3, <3>4, <3>5 DEF SessionNext, Surroundings
  <2>4. QED
    BY <2>1, <2>2, <2>3
<1>3. QED
  BY <1>1, <1>2

(* Every step keeps the settle timer of a steady full car ahead of grace.  *)
LEMMA NextKeepsSteady ==
  ASSUME GuardOK, WorldOK, LeverOK, SteadyOK, [SessionNext]_vars
  PROVE  SteadyOK'
<1>1. CASE ~steady'
  BY <1>1, ZeroDrawTyped DEF SteadyOK
<1>2. CASE steady /\ steady'
  BY <1>2, SteadyGoesOn
<1>3. CASE ~steady /\ steady'
  BY <1>3, OnlyTheseBegin, FillingBegins, SettlingBegins
<1>4. QED
  BY <1>1, <1>2, <1>3

(* A steady full car is complete before its stall could be acted on.       *)
THEOREM SteadyInvariant == SessionSpec => [](LeverOK /\ SteadyOK)
<1>1. SessionInit => LeverOK /\ SteadyOK
  BY DEF SessionInit, LeverOK, SteadyOK
<1>2. GuardOK /\ WorldOK /\ (LeverOK /\ SteadyOK) /\ [SessionNext]_vars
        => (LeverOK /\ SteadyOK)'
  BY NextKeepsLever, NextKeepsSteady
<1>3. QED
  BY <1>1, <1>2, GuardInvariant, WorldInvariant, PTL DEF SessionSpec

(* A car that fills up at full draw, or whose settle timer starts with at  *)
(* least its time of the grace left, on a link that holds is never sent a  *)
(* corrective action, for any grace and settle time up to it.              *)
THEOREM FullCarTheorem == SessionSpec => FullCarLeftAlone
<1>1. GuardOK /\ WorldOK /\ SteadyOK /\ [SessionNext]_vars
        => [lever = "none" /\ lever' # "none" => ~steady]_vars
  <2> SUFFICES ASSUME GuardOK, WorldOK, SteadyOK, SessionNext, steady, lever = "none", lever' # "none"
               PROVE  FALSE
    OBVIOUS
  <2>1. CASE Tick
    BY <2>1, SteadyTick
  <2>2. CASE Elapse \/ Execute \/ Restarts \/ Surroundings \/ LinkReturns \/ Meter \/ Settle
    BY <2>2 DEF Elapse, Execute, Restarts, LinkReturns, Meter, Settle, Surroundings, PlugIn,
                Unplug, Stalls, FillsUp, Pause, Want, LinkDrops, ForgetsCar, TelemetryComesAndGoes,
                InSurroundings, tickVars
  <2>3. QED
    BY <2>1, <2>2 DEF SessionNext
<1>2. QED
  BY <1>1, GuardInvariant, WorldInvariant, SteadyInvariant, PTL
     DEF SessionSpec, FullCarLeftAlone

----------------------------------------------------------------------------
(* While no StopTransaction is lost, session energy is that of an open     *)
(* transaction or its stop is still to come, so energy and completion are  *)
(* traced back to a car that charged.                                      *)
EnergyOK ==
    /\ sessionEnergy => session = "open" \/ stopDue
    /\ sessionEnergy \/ delivered \/ complete => fed

(* A change at the connector that does not open a session offline.         *)
LEMMA MovesKeepEnergy ==
  ASSUME LosesStops = FALSE, WorldOK, EnergyOK, NEW c, NEW k, NEW s, Moves(c, k, s),
         s = "open" => link \/ session = "open",
         UNCHANGED <<delivered, complete>>, fed => fed'
  PROVE  EnergyOK'
<1>1. CASE link
  BY <1>1 DEF EnergyOK, WorldOK, Moves, foldChargerStatus
<1>2. CASE ~link
  <2>1. sessionEnergy' = sessionEnergy /\ session' = s
    BY <1>2 DEF Moves, liveVars
  <2>2. CASE session = "open" /\ s # "open"
    <3>1. stopDue' = TRUE
      BY <1>2, <2>2 DEF Moves
    <3>2. QED
      BY <2>1, <3>1 DEF EnergyOK
  <2>3. CASE ~(session = "open" /\ s # "open")
    <3>1. stopDue' = stopDue
      BY <1>2, <2>3 DEF Moves
    <3>2. QED
      BY <1>2, <2>1, <2>3, <3>1 DEF EnergyOK
  <2>4. QED
    BY <2>2, <2>3
<1>3. QED
  BY <1>1, <1>2

(* A step that leaves session and energy alone.                            *)
LEMMA UnmovedKeepsEnergy ==
  ASSUME EnergyOK, UNCHANGED <<session, stopDue, sessionEnergy, delivered, complete>>,
         fed => fed'
  PROVE  EnergyOK'
  BY DEF EnergyOK

(* A transaction that opens.                                               *)
LEMMA StartsKeepsEnergy ==
  ASSUME LosesStops = FALSE, WorldOK, EnergyOK, link, Starts \/ Unmoved,
         UNCHANGED <<delivered, complete>>, fed => fed'
  PROVE  EnergyOK'
<1>1. CASE Unmoved
  BY <1>1, UnmovedKeepsEnergy DEF Unmoved, liveVars
<1>2. CASE Starts
  BY <1>1, <1>2, MovesKeepEnergy DEF Starts, Cured
<1>3. QED
  BY <1>1, <1>2

(* Each disturbance of the surroundings.                                   *)
LEMMA SurroundingsKeepEnergy ==
  ASSUME LosesStops = FALSE, WorldOK, EnergyOK, Surroundings
  PROVE  EnergyOK'
<1>1. CASE TelemetryComesAndGoes
  BY <1>1, UnmovedKeepsEnergy
     DEF TelemetryComesAndGoes, Remember, worldVars, liveVars, tickVars
<1>2. CASE ~TelemetryComesAndGoes
  <2>1. UNCHANGED <<delivered, complete>> /\ (fed => fed')
    BY <1>2 DEF Surroundings, PlugIn, Unplug, Stalls, FillsUp, Pause, Want, LinkDrops,
                ForgetsCar, InSurroundings, Remember, tickVars
  <2>2. CASE PlugIn \/ Unplug \/ Stalls
    <3>1. \E c, k, s : Moves(c, k, s) /\ (s = "open" => link \/ session = "open")
      <4>1. CASE PlugIn
        BY <4>1 DEF PlugIn
      <4>2. CASE Unplug
        BY <4>2 DEF Unplug
      <4>3. CASE Stalls
        BY <4>3 DEF Stalls, WorldOK
      <4>4. QED
        BY <2>2, <4>1, <4>2, <4>3
    <3>2. QED
      BY <2>1, <3>1, MovesKeepEnergy
  <2>3. CASE FillsUp
    <3>1. session = "open"
      BY <2>3 DEF FillsUp, WorldOK
    <3>2. QED
      BY <2>1, <2>3, <3>1, MovesKeepEnergy DEF FillsUp
  <2>4. CASE Pause
    <3>1. CASE car \in {"charging", "tapering"}
      BY <2>1, <2>4, <3>1, MovesKeepEnergy DEF Pause, WorldOK
    <3>2. CASE car \notin {"charging", "tapering"}
      BY <2>1, <2>4, <3>2, UnmovedKeepsEnergy DEF Pause, liveVars
    <3>3. QED
      BY <3>1, <3>2
  <2>5. CASE Want
    <3>1. CASE car = "stuck" /\ cure = "wanting" /\ session = "open"
      BY <2>1, <2>5, <3>1, MovesKeepEnergy DEF Want
    <3>2. CASE ~(car = "stuck" /\ cure = "wanting" /\ session = "open")
      BY <2>1, <2>5, <3>2, UnmovedKeepsEnergy DEF Want, liveVars
    <3>3. QED
      BY <3>1, <3>2
  <2>6. CASE LinkDrops
    BY <2>1, <2>6, UnmovedKeepsEnergy DEF LinkDrops, foldChargerStatus, worldVars
  <2>7. CASE ForgetsCar
    BY <2>1, <2>7, UnmovedKeepsEnergy DEF ForgetsCar, foldChargerStatus, worldVars
  <2>8. QED
    BY <1>2, <2>2, <2>3, <2>4, <2>5, <2>6, <2>7 DEF Surroundings
<1>3. QED
  BY <1>1, <1>2

(* Each lever of executeSessionAction.                                     *)
LEMMA ExecuteKeepsEnergy ==
  ASSUME LosesStops = FALSE, WorldOK, EnergyOK, Execute
  PROVE  EnergyOK'
<1>1. UNCHANGED <<delivered, complete>> /\ (fed => fed')
  BY DEF Execute, Remember
<1>2. CASE LeverFails
  BY <1>1, <1>2, UnmovedKeepsEnergy DEF LeverFails, worldVars, linkVars, liveVars
<1>3. CASE RemoteStart
  BY <1>1, <1>3, StartsKeepsEnergy DEF RemoteStart
<1>4. CASE Resume
  <2>1. CASE session = "open"
    BY <1>1, <1>4, <2>1, MovesKeepEnergy DEF Resume
  <2>2. CASE session # "open"
    BY <1>1, <1>4, <2>2, StartsKeepsEnergy DEF Resume
  <2>3. QED
    BY <2>1, <2>2
<1>5. CASE WakeCar \/ ClearProfile
  <2>1. CASE session = "open" /\ Cured("open")
    BY <1>1, <2>1, MovesKeepEnergy DEF Cured
  <2>2. CASE Unmoved
    BY <1>1, <2>2, UnmovedKeepsEnergy DEF Unmoved, liveVars
  <2>3. QED
    BY <1>5, <2>1, <2>2 DEF WakeCar, ClearProfile
<1>6. CASE Reset
  <2>1. /\ sessionEnergy' = sessionEnergy /\ session' = "none"
        /\ stopDue' = IF session = "open" THEN TRUE ELSE stopDue
    BY <1>6 DEF Reset, foldChargerStatus
  <2>2. QED
    BY <1>1, <2>1 DEF EnergyOK
<1>7. QED
  BY <1>2, <1>3, <1>4, <1>5, <1>6 DEF Execute

(* A tick that sees Available forgets the energy of the plug-in before.    *)
LEMMA TickKeepsEnergy ==
  ASSUME WorldOK, EnergyOK, Tick
  PROVE  EnergyOK'
<1>1. UNCHANGED <<session, stopDue, sessionEnergy>>
  BY DEF Tick, worldVars, linkVars, liveVars
<1>2. PICK met \in {FALSE, car = "full"} :
        LET got  == sessionEnergy \/ (delivered /\ status # "Available")
            zero == IF status = "Available" THEN None ELSE zeroDraw
            done == resolveSessionComplete(zero, got, met)
        IN delivered' = got /\ complete' = done.complete
  BY DEF Tick
<1>3. CASE status = "Available" /\ car = "out"
  <2>1. ~sessionEnergy
    BY <1>3, SessionAssumption DEF EnergyOK, WorldOK, Statuses
  <2>2. ~delivered'
    BY <1>2, <1>3, <2>1
  <2>3. ~complete'
    BY <1>2, <1>3, <2>1 DEF resolveSessionComplete, NotComplete
  <2>4. QED
    BY <1>1, <2>1, <2>2, <2>3 DEF EnergyOK
<1>4. CASE ~(status = "Available" /\ car = "out")
  <2>1. fed => fed'
    BY <1>4 DEF Tick, Remember
  <2>2. delivered' => fed
    BY <1>2 DEF EnergyOK
  <2>3. complete' => fed
    <3>1. complete' => sessionEnergy \/ delivered
      BY <1>2 DEF resolveSessionComplete, NotComplete
    <3>2. QED
      BY <3>1 DEF EnergyOK
  <2>4. QED
    BY <1>1, <2>1, <2>2, <2>3 DEF EnergyOK
<1>5. QED
  BY <1>3, <1>4

(* Every step.                                                             *)
LEMMA NextKeepsEnergy ==
  ASSUME LosesStops = FALSE, WorldOK, EnergyOK, [SessionNext]_vars
  PROVE  EnergyOK'
<1>1. CASE Elapse \/ Settle \/ UNCHANGED vars
  <2>1. UNCHANGED <<session, stopDue, sessionEnergy, delivered, complete>>
    BY <1>1 DEF Elapse, Settle, worldVars, linkVars, liveVars, tickVars, vars
  <2>2. fed => fed'
    BY <1>1 DEF Elapse, Settle, Remember, vars
  <2>3. QED
    BY <2>1, <2>2, UnmovedKeepsEnergy
<1>2. CASE Restarts
  BY <1>2, StartsKeepsEnergy DEF Restarts, Remember, tickVars
<1>3. CASE LinkReturns
  <2>1. /\ UNCHANGED <<session, delivered, complete>> /\ (fed => fed')
        /\ sessionEnergy' = (sessionEnergy /\ ~stopDue)
    BY <1>3 DEF LinkReturns, foldChargerStatus, Unanswered, Remember, worldVars, tickVars
  <2>2. QED
    BY <2>1 DEF EnergyOK
<1>4. CASE Meter
  <2>1. /\ UNCHANGED <<session, stopDue, delivered, complete>> /\ session = "open"
        /\ (fed => fed') /\ (sessionEnergy' => sessionEnergy \/ fed')
    BY <1>4 DEF Meter, Remember, worldVars, linkVars, tickVars
  <2>2. QED
    BY <2>1 DEF EnergyOK
<1>5. QED
  BY <1>1, <1>2, <1>3, <1>4, TickKeepsEnergy, SurroundingsKeepEnergy, ExecuteKeepsEnergy
     DEF SessionNext

(* As long as no StopTransaction is lost, no session is complete before    *)
(* energy has flowed into a car of this plug-in.                           *)
THEOREM FedTheorem ==
  ASSUME LosesStops = FALSE
  PROVE  SessionSpec => []CompleteOnlyIfFed
<1>1. SessionInit => EnergyOK
  BY DEF SessionInit, EnergyOK
<1>2. WorldOK /\ EnergyOK /\ [SessionNext]_vars => EnergyOK'
  BY NextKeepsEnergy
<1>3. EnergyOK => CompleteOnlyIfFed
  BY DEF EnergyOK, CompleteOnlyIfFed
<1>4. QED
  BY <1>1, <1>2, <1>3, WorldInvariant, PTL DEF SessionSpec

==============================================================================
