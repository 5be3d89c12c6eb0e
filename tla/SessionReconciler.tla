------------------------- MODULE SessionReconciler -------------------------
(***************************************************************************)
(* The session part of circuitTick (core/lifecycle.ts) for one loadpoint:  *)
(* resolveSessionComplete (smart-charging/session-complete.ts), then       *)
(* decideSession and executeSessionAction (core/session-reconciler.ts),    *)
(* fed by foldChargerStatus (core/loadpoint.ts) and the cached telemetry   *)
(* of the car.                                                             *)
(*                                                                         *)
(* The charger and the car are the environment: a car charges, tapers,     *)
(* fills up, or is stuck until the one lever that cures it is pulled.  The *)
(* link between charger and server drops and comes back.                   *)
(*                                                                         *)
(* Time is relative, in units of about one control interval: each timer is *)
(* the time since its anchor, saturated at the only threshold it is        *)
(* compared with.  Ticks also follow API calls, so any number of them may  *)
(* run in a time unit.                                                     *)
(***************************************************************************)
EXTENDS Integers, Sequences

CONSTANTS None,         \* JavaScript's undefined
          GraceUnits,   \* SESSION_RECONCILE.graceMs
          CooldownUnits,\* SESSION_RECONCILE.cooldownMs
          MaxActions,   \* SESSION_RECONCILE.maxActions
          SettleUnits,  \* SESSION_COMPLETE.settleMs
          Levers,       \* what charger and vehicle can do
          HasVehicle,   \* an app car is the active vehicle, not a guest
          LosesStops    \* a StopTransaction is lost with the link

AllLevers == {"remote-start", "resume", "wake-car", "clear-profile", "reset"}

Statuses == {"Available", "Preparing", "Charging", "SuspendedEV", "Finishing",
             "Faulted", "Unavailable"}

ASSUME SessionAssumption ==
    /\ GraceUnits \in Nat \ {0} /\ CooldownUnits \in Nat \ {0}
    /\ MaxActions \in Nat \ {0} /\ SettleUnits \in Nat \ {0}
    /\ Levers \subseteq AllLevers
    /\ HasVehicle \in BOOLEAN /\ LosesStops \in BOOLEAN
    /\ None \notin Nat \union BOOLEAN \union Statuses

(* "Kept BELOW graceMs so completion pre-empts" the resume of a full car.  *)
ASSUME SettleBelowGrace == SettleUnits <= GraceUnits

VARIABLES
    car,            \* world: out, charging, tapering, full or stuck
    cure,           \* world: what gets a stuck car charging
    session,        \* world: the connector's transaction: none, open, faulted
    restarting,     \* world: a RemoteStart has been accepted
    link,           \* the charger is connected
    stopDue,        \* a StopTransaction waits for the link
    telemetry,      \* the car's cached telemetry can be read
    wants,          \* this tick's amps are above 0
    status,         \* loadpoint: status, None before the first frame
    connected,      \* loadpoint: connected
    draw,           \* loadpoint: currentA, see Draws
    sessionEnergy,  \* loadpoint: sessionEnergyKWh is above minKWh
    delivered,      \* loadpoint: deliveredKWh is above minKWh
    complete,       \* loadpoint: sessionComplete
    zeroDraw,       \* time since the zeroDrawSince anchor, or None
    guard,          \* the loadpoint's SessionReconcilerState
    lever,          \* the action the tick awaits, "none" between ticks
    settled,        \* the environment has stopped changing anything
    steady,         \* history: see FullCarLeftAlone
    fed             \* history: a car charged since a tick saw it gone

worldVars == <<car, cure, session, restarting>>
linkVars == <<link, stopDue, telemetry>>
liveVars == <<status, connected, draw, sessionEnergy>>
tickVars == <<delivered, complete, zeroDraw, guard, lever>>
vars == <<worldVars, linkVars, wants, liveVars, tickVars, settled, steady, fed>>

Cars == {"out", "charging", "tapering", "full", "stuck"}
Cures == AllLevers \union {"wanting"}    \* "wanting": it only waits for current
Draws == {"none", "trickle", "full"}     \* below 0.5 A, below minDrawA, above
SessionPhases == {"no-session", "session-open", "faulted"}

Guards == [stalled       : 0..GraceUnits \union {None},
           sinceAction   : 0..CooldownUnits \union {None},
           phase         : SessionPhases \union {None},
           phaseAttempts : 0..MaxActions,
           totalActions  : 0..MaxActions]

idleState == [stalled |-> None, sinceAction |-> None, phase |-> None,
              phaseAttempts |-> 0, totalActions |-> 0]

SessionTypeOK ==
    /\ car \in Cars /\ cure \in Cures /\ session \in {"none", "open", "faulted"}
    /\ restarting \in BOOLEAN /\ link \in BOOLEAN /\ stopDue \in BOOLEAN
    /\ telemetry \in BOOLEAN /\ wants \in BOOLEAN
    /\ settled \in BOOLEAN /\ steady \in BOOLEAN /\ fed \in BOOLEAN
    /\ status \in Statuses \union {None} /\ connected \in BOOLEAN /\ draw \in Draws
    /\ sessionEnergy \in BOOLEAN /\ delivered \in BOOLEAN /\ complete \in BOOLEAN
    /\ zeroDraw \in 0..SettleUnits \union {None}
    /\ guard \in Guards
    /\ lever \in AllLevers \union {"none"}

SessionInit ==
    /\ car = "out" /\ cure = "wanting" /\ session = "none" /\ restarting = FALSE
    /\ link = FALSE /\ stopDue = FALSE /\ telemetry = FALSE /\ wants = TRUE
    /\ status = None /\ connected = FALSE /\ draw = "none" /\ sessionEnergy = FALSE
    /\ delivered = FALSE /\ complete = FALSE /\ zeroDraw = None
    /\ guard = idleState /\ lever = "none"
    /\ settled = FALSE /\ steady = FALSE /\ fed = FALSE

----------------------------------------------------------------------------
(* resolveSessionComplete, for a plan whose target is a met of this tick.  *)
(* Slip: the settle anchor moves along with every tick.                    *)
OpenSession(zero, got, met) ==
    LET since == IF ~wants THEN None ELSE IF zero = None THEN 0 ELSE zero
    IN [complete |-> met \/ since = SettleUnits, zeroDraw |-> since]

NotComplete == [complete |-> FALSE, zeroDraw |-> None]

SettleAnchorMoves(zero, got, met) ==
    IF ~connected \/ ~got \/ draw # "none" THEN NotComplete
    ELSE OpenSession(None, got, met)

resolveSessionComplete(zero, got, met) ==
    IF ~connected \/ ~got \/ draw # "none" THEN NotComplete
    ELSE OpenSession(zero, got, met)

----------------------------------------------------------------------------
(* decideSession.                                                          *)
phaseOf(st) ==
    IF st \in {"Charging", "SuspendedEV"} THEN "session-open"
    ELSE IF st = "Faulted" THEN "faulted" ELSE "no-session"

(* The escalation order, then the rung for this attempt.  An open session  *)
(* whose car says it is not charging is woken first.  Slip: the attempt    *)
(* does not climb the ladder.                                              *)
Escalation(phase, carCharging) ==
    CASE phase = "faulted"    -> <<"reset">>
      [] phase = "no-session" -> <<"remote-start", "reset">>
      [] OTHER -> (IF carCharging = FALSE THEN <<"wake-car", "resume">>
                                          ELSE <<"resume", "wake-car">>)
                    \o <<"clear-profile", "reset">>

FirstLever(phase, carCharging, attempt) ==
    LET CanPull(l) == l \in Levers
        ladder == SelectSeq(Escalation(phase, carCharging), CanPull)
    IN IF ladder = <<>> THEN "none" ELSE ladder[1]

chooseAction(phase, carCharging, attempt) ==
    LET CanPull(l) == l \in Levers
        ladder == SelectSeq(Escalation(phase, carCharging), CanPull)
    IN IF ladder = <<>> THEN "none"
       ELSE ladder[IF attempt < Len(ladder) THEN attempt + 1 ELSE Len(ladder)]

(* We are fine, or there is nothing to recover.                            *)
EpisodeOver(seen, done) ==
    \/ ~wants
    \/ draw = "full"
    \/ seen.charging = TRUE
    \/ seen.atTarget
    \/ done
    \/ status = "Available" /\ seen.pluggedIn # TRUE

Unreachable == status \in {"Unavailable", None}

(* The guard-state of a stalled tick before it acts: anchored, and on the  *)
(* first rung when the phase has flipped.  Slip: the flip renews the       *)
(* episode's budget too.                                                   *)
BaseRenewed ==
    IF guard.phase = phaseOf(status)
      THEN [guard EXCEPT !.stalled = IF guard.stalled = None THEN 0 ELSE guard.stalled]
      ELSE [idleState EXCEPT !.stalled = IF guard.stalled = None THEN 0 ELSE guard.stalled,
                             !.phase = phaseOf(status)]

Base ==
    [guard EXCEPT !.stalled = IF guard.stalled = None THEN 0 ELSE guard.stalled,
                  !.phase = phaseOf(status),
                  !.phaseAttempts = IF guard.phase = phaseOf(status)
                                      THEN guard.phaseAttempts ELSE 0]

(* Grace, cap and cooldown.                                                *)
Due ==
    /\ Base.stalled = GraceUnits
    /\ guard.totalActions < MaxActions
    /\ guard.sinceAction \in {None, CooldownUnits}

(* The guard-state after an action.  Slip: an unreachable charger ends the *)
(* episode.                                                                *)
NextGuardOnAct ==
    [Base EXCEPT !.sinceAction = 0,
                 !.phaseAttempts = Base.phaseAttempts + 1,
                 !.totalActions = guard.totalActions + 1]

decideForgetsUnreachable(seen, done) ==
    LET action == chooseAction(Base.phase, seen.charging, Base.phaseAttempts)
    IN IF EpisodeOver(seen, done) \/ Unreachable THEN guard' = idleState /\ lever' = "none"
       ELSE IF Due /\ action # "none" THEN guard' = NextGuardOnAct /\ lever' = action
       ELSE guard' = Base /\ lever' = "none"

decideSession(seen, done) ==
    LET action == chooseAction(Base.phase, seen.charging, Base.phaseAttempts)
    IN IF EpisodeOver(seen, done) THEN guard' = idleState /\ lever' = "none"
       ELSE IF Unreachable THEN UNCHANGED guard /\ lever' = "none"
       ELSE IF Due /\ action # "none" THEN guard' = NextGuardOnAct /\ lever' = action
       ELSE guard' = Base /\ lever' = "none"

(* A car that fills up at full draw; and one whose settle timer starts     *)
(* while the stall, if a taper has begun one, has still more of its grace  *)
(* to go than the timer takes.                                             *)
FillsUpDrawing ==
    /\ car = "charging" /\ car' = "full"
    /\ link /\ draw = "full" /\ sessionEnergy /\ guard.stalled = None

SettlesInTime ==
    /\ zeroDraw = None /\ zeroDraw' = 0
    /\ car' = "full" /\ session = "open" /\ link' /\ status \in {"Charging", "SuspendedEV"}
    /\ lever' = "none" /\ guard'.stalled \in 0..GraceUnits - SettleUnits \union {None}

(* The histories: see FullCarLeftAlone and CompleteOnlyIfFed.              *)
Remember(wasFed) ==
    /\ steady' = \/ steady /\ car' = "full" /\ link'
                 \/ FillsUpDrawing \/ SettlesInTime
    /\ fed' = (wasFed \/ car' \in {"charging", "tapering"})

(* What the cached telemetry of an app car says, if it says anything.      *)
Telemetry ==
    IF telemetry THEN [pluggedIn |-> car # "out",
                   charging  |-> car \in {"charging", "tapering"},
                   atTarget  |-> car = "full"]
             ELSE [pluggedIn |-> None, charging |-> None, atTarget |-> FALSE]

(* The session part of a tick: an Available resets the plug-in's totals,   *)
(* the energy total only climbs, then completion, then the decision.  The  *)
(* tick awaits the lever it pulls, so no other tick runs before Execute.   *)
Tick ==
    /\ lever = "none"
    /\ \E met \in {FALSE, car = "full"} :
         LET got  == sessionEnergy \/ (delivered /\ status # "Available")
             zero == IF status = "Available" THEN None ELSE zeroDraw
             done == resolveSessionComplete(zero, got, met)
         IN /\ delivered' = got
            /\ complete' = done.complete /\ zeroDraw' = done.zeroDraw
            /\ decideSession(Telemetry, done.complete)
    /\ UNCHANGED <<worldVars, linkVars, wants, liveVars, settled>>
    /\ Remember(fed /\ ~(status = "Available" /\ car = "out"))

Later(t, cap) == IF t \in {None, cap} THEN t ELSE t + 1

(* A start the charger has accepted takes less than a time unit.           *)
Elapse ==
    /\ ~(restarting /\ link)
    /\ zeroDraw' = Later(zeroDraw, SettleUnits)
    /\ guard' = [guard EXCEPT !.stalled = Later(guard.stalled, GraceUnits),
                               !.sinceAction = Later(guard.sinceAction, CooldownUnits)]
    /\ UNCHANGED <<worldVars, linkVars, wants, liveVars, delivered, complete, lever,
                    settled>>
    /\ Remember(fed)

----------------------------------------------------------------------------
(* The charger's frames, folded into the loadpoint.  A frame without a     *)
(* current keeps the last one while the connector counts as charging.      *)
StatusOf(c, s) ==
    CASE c = "out" -> "Available"
      [] c # "out" /\ s = "faulted" -> "Faulted"
      [] c \in {"charging", "tapering"} /\ s # "faulted" -> "Charging"
      [] c \in {"stuck", "full"} /\ s = "open" -> "SuspendedEV"
      [] OTHER -> "Preparing"

foldChargerStatus(st, energy) ==
    /\ status' = st /\ connected' = (st \notin {"Available", "Unavailable", "Faulted"})
    /\ draw' = IF st \in {"Charging", "SuspendedEV"} THEN draw ELSE "none"
    /\ sessionEnergy' = energy

(* A change at the connector.  A transaction that starts or stops zeroes   *)
(* the session energy; without a link nothing is reported, and the stop is *)
(* kept for later or lost.                                                 *)
Moves(c, k, s) ==
    /\ car' = c /\ cure' = k /\ session' = s
    /\ IF link
         THEN foldChargerStatus(StatusOf(c, s), sessionEnergy /\ s = session)
              /\ UNCHANGED stopDue
         ELSE /\ UNCHANGED liveVars
              /\ IF session = "open" /\ s # "open"
                   THEN stopDue' \in {TRUE, ~LosesStops} ELSE UNCHANGED stopDue

InSurroundings ==
    /\ ~settled
    /\ UNCHANGED <<telemetry, tickVars, settled>> /\ Remember(fed)

(* What may hold back a car in an open session, also from the start; and   *)
(* what may hold it back after a pause at 0 A.                             *)
StallCures == {"wake-car", "clear-profile", "reset"}
PauseCures == StallCures \union {"resume"}

PlugIn ==
    /\ car = "out"
    /\ \/ link /\ wants /\ Moves("charging", "wanting", "open")
       \/ \E k \in {"remote-start", "reset"} : Moves("stuck", k, "none")
       \/ \E k \in StallCures : link /\ Moves("stuck", k, "open")
    /\ UNCHANGED <<restarting, link, wants>> /\ InSurroundings

Unplug ==
    /\ car # "out"
    /\ Moves("out", "wanting", "none") /\ restarting' = FALSE
    /\ UNCHANGED <<link, wants>> /\ InSurroundings

Stalls ==
    /\ car = "charging"
    /\ \/ \E k \in StallCures : Moves("stuck", k, "open")
       \/ Moves("stuck", "reset", "faulted")
    /\ UNCHANGED <<restarting, link, wants>> /\ InSurroundings

FillsUp ==
    /\ \/ car = "charging" /\ Moves("tapering", cure, session)
       \/ car \in {"charging", "tapering"} /\ Moves("full", cure, session)
    /\ UNCHANGED <<restarting, link, wants>> /\ InSurroundings

(* The plan pauses the car, or wants it again: it resumes, or is latched.  *)
Pause ==
    /\ wants /\ wants' = FALSE
    /\ IF car \in {"charging", "tapering"}
         THEN Moves("stuck", "wanting", session)
         ELSE UNCHANGED <<car, cure, session, stopDue, liveVars>>
    /\ UNCHANGED <<restarting, link>> /\ InSurroundings

Want ==
    /\ ~wants /\ wants' = TRUE
    /\ IF car = "stuck" /\ cure = "wanting" /\ session = "open"
         THEN \/ Moves("charging", cure, session)
              \/ \E k \in PauseCures : Moves("stuck", k, session)
         ELSE UNCHANGED <<car, cure, session, stopDue, liveVars>>
    /\ UNCHANGED <<restarting, link>> /\ InSurroundings

LinkDrops ==
    /\ link /\ link' = FALSE
    /\ foldChargerStatus("Unavailable", sessionEnergy)
    /\ UNCHANGED <<worldVars, stopDue, wants>> /\ InSurroundings

(* onConnect asks for the status; a charger that does not answer is        *)
(* reported as free and connected, whatever is plugged in.                 *)
Unanswered ==
    /\ status' = "Available" /\ connected' = TRUE
    /\ draw' = "none" /\ sessionEnergy' = (sessionEnergy /\ ~stopDue)

LinkReturns ==
    /\ ~link /\ link' = TRUE
    /\ stopDue' = FALSE
    /\ \/ foldChargerStatus(StatusOf(car, session), sessionEnergy /\ ~stopDue)
       \/ Unanswered
    /\ UNCHANGED <<worldVars, telemetry, wants, tickVars, settled>> /\ Remember(fed)

(* A charger that has rebooted, or given up a start, takes its connector   *)
(* for free with the car still in it (known-issues.md, #6 and #7).         *)
ForgetsCar ==
    /\ link /\ car # "out" /\ session = "none"
    /\ foldChargerStatus("Available", sessionEnergy)
    /\ UNCHANGED <<worldVars, link, stopDue, wants>> /\ InSurroundings

TelemetryComesAndGoes ==
    /\ HasVehicle /\ ~settled /\ telemetry' = ~telemetry
    /\ UNCHANGED <<worldVars, link, stopDue, wants, liveVars, tickVars, settled>>
    /\ Remember(fed)

(* MeterValues: the server reports them as Charging whatever the connector *)
(* said last.                                                              *)
Meter ==
    /\ link /\ session = "open"
    /\ status' = "Charging" /\ connected' = TRUE
    /\ draw' = CASE car = "charging" -> "full" [] car = "tapering" -> "trickle"
                  [] OTHER -> "none"
    /\ sessionEnergy' = (sessionEnergy \/ car \in {"charging", "tapering"})
    /\ UNCHANGED <<worldVars, linkVars, wants, tickVars, settled>> /\ Remember(fed)

----------------------------------------------------------------------------
(* executeSessionAction: the lever as the charger and the car obey it.     *)
LeverFails ==
    /\ ~settled \/ ~link
    /\ UNCHANGED <<worldVars, linkVars, liveVars>>

(* A cured car charges, or waits for current if none is wanted any more.   *)
Cured(s) == IF wants THEN Moves("charging", "wanting", s) ELSE Moves("stuck", "wanting", s)

Unmoved == UNCHANGED <<car, cure, session, stopDue, liveVars>>

(* A transaction opens; a start, and for a latched car a fresh transaction,*)
(* is all some stuck cars need.  One that needs a reset refuses.           *)
Starts ==
    IF car = "stuck" /\ cure \in {"remote-start", "resume"} THEN Cured("open")
    ELSE IF car = "out" \/ (car = "stuck" /\ cure = "reset") THEN Unmoved
    ELSE Moves(car, cure, "open")

RemoteStart ==
    /\ lever = "remote-start" /\ link
    /\ IF session = "none" THEN Starts ELSE Unmoved
    /\ UNCHANGED <<restarting, link>>

(* RemoteStop ends the transaction; the RemoteStart after it opens the next*)
(* one once the connector is ready, see Restarts.                          *)
Resume ==
    /\ lever = "resume" /\ link
    /\ IF session = "open"
         THEN Moves(IF car = "full" THEN car ELSE "stuck",
                    IF car = "stuck" THEN cure ELSE "resume", "none")
         ELSE Unmoved
    /\ restarting' = (session # "faulted" /\ car # "out")
    /\ UNCHANGED link

WakeCar ==
    /\ lever = "wake-car"
    /\ IF car = "stuck" /\ cure = "wake-car" /\ session = "open" THEN Cured("open") ELSE Unmoved
    /\ UNCHANGED <<restarting, link>>

ClearProfile ==
    /\ lever = "clear-profile" /\ link
    /\ IF car = "stuck" /\ cure = "clear-profile" /\ session = "open"
         THEN Cured("open") ELSE Unmoved
    /\ UNCHANGED <<restarting, link>>

(* A hard reset drops the link and the transaction; the auto-start of the  *)
(* plug-in opens the next one.                                             *)
Reset ==
    /\ lever = "reset" /\ link
    /\ link' = FALSE
    /\ foldChargerStatus("Unavailable", sessionEnergy)
    /\ session' = "none" /\ restarting' = (car # "out")
    /\ car' = IF car \in {"charging", "tapering"} THEN "stuck" ELSE car
    /\ cure' = IF car' = "stuck" /\ cure \in {"reset", "wanting"} THEN "remote-start" ELSE cure
    /\ stopDue' \in (IF session = "open" THEN {TRUE, ~LosesStops} ELSE {stopDue})

Execute ==
    /\ lever # "none" /\ lever' = "none"
    /\ LeverFails \/ RemoteStart \/ Resume \/ WakeCar \/ ClearProfile \/ Reset
    /\ UNCHANGED <<telemetry, wants, delivered, complete, zeroDraw, guard, settled>> /\ Remember(fed)

Restarts ==
    /\ restarting /\ link /\ restarting' = FALSE
    /\ IF session = "none" THEN Starts ELSE Unmoved
    /\ UNCHANGED <<link, telemetry, wants, tickVars, settled>> /\ Remember(fed)

Settle ==
    /\ ~settled /\ settled' = TRUE
    /\ UNCHANGED <<worldVars, linkVars, wants, liveVars, tickVars>> /\ Remember(fed)

Surroundings == PlugIn \/ Unplug \/ Stalls \/ FillsUp \/ Pause \/ Want \/ LinkDrops
                \/ ForgetsCar \/ TelemetryComesAndGoes

SessionNext ==
    \/ Tick \/ Elapse \/ Execute \/ Restarts
    \/ Surroundings \/ LinkReturns \/ Meter \/ Settle

(* The control interval keeps firing and time passes; the charger comes    *)
(* back, reports its meter and finishes the start it accepted.             *)
SessionFairness ==
    /\ WF_vars(Tick) /\ WF_vars(Elapse) /\ WF_vars(Execute)
    /\ WF_vars(Restarts) /\ WF_vars(LinkReturns) /\ WF_vars(Meter)

SessionSpec == SessionInit /\ [][SessionNext]_vars /\ SessionFairness

----------------------------------------------------------------------------
Larger(a, b) == IF a > b THEN a ELSE b

(* Whatever charger, car and link do, the reconciler's actions keep to the *)
(* budget: per episode a cap, a grace before the first action, a cooldown  *)
(* before the others; neither a phase flip nor a disconnect renews it.     *)
Budget == INSTANCE RecoveryBudget
    WITH Grace <- GraceUnits, Cooldown <- CooldownUnits,
         spent <- guard.totalActions,
         rest  <- Larger(IF guard.stalled = None THEN GraceUnits ELSE GraceUnits - guard.stalled,
                         IF guard.sinceAction = None THEN 0 ELSE CooldownUnits - guard.sinceAction)

RecoveryIsBudgeted == Budget!BudgetSpec

(* The connector counts as free and no telemetry contradicts it.           *)
TakenForFree == status = "Available" /\ ~telemetry

(* For a stuck car that shows no draw and that current is wanted for, the  *)
(* budget is renewed only when the session completes or the connector is   *)
(* taken for free: not by phase flips, not because the charger disappears, *)
(* not by an Available that the car's own telemetry contradicts.           *)
BudgetRenewedOnEvidence ==
    [][guard'.totalActions < guard.totalActions
         => ~wants \/ draw = "full" \/ complete' \/ car # "stuck" \/ TakenForFree]_vars

(* "settleMs is deliberately below graceMs": a car that fills up at full   *)
(* draw, or whose draw ends while what is left of the grace since a taper  *)
(* began still exceeds the settle time, is sent no corrective action as    *)
(* long as the link holds; its session is complete first.                  *)
FullCarLeftAlone ==
    [][lever = "none" /\ lever' # "none" => ~steady]_vars

(* "A car that never started isn't called complete": once a tick has seen  *)
(* the connector Available and the car is gone, no session is complete     *)
(* before energy flows.                                                    *)
CompleteOnlyIfFed == complete => fed

(* With the surroundings settled, a stalled car that has not been charged  *)
(* in this session is brought to charge when a start, a fresh transaction  *)
(* or, if the car tells of itself, a car-side start cures it.  (The other  *)
(* levers come after the fresh transaction, whose own phase flip can take  *)
(* the ladder back to its first rung until the budget is spent.)           *)
FreshStall ==
    /\ settled /\ wants /\ car = "stuck" /\ link /\ session # "faulted"
    /\ ~delivered /\ ~sessionEnergy /\ guard = idleState /\ lever = "none"
    /\ status = "Available" => telemetry /\ session = "none"

FreshStallIsCured ==
    FreshStall /\ (cure = "wake-car" => telemetry)
      /\ cure \in {"remote-start", "resume", "wake-car"}
      ~> car = "charging"
=============================================================================
