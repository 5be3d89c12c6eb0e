------------------------------ MODULE Vehicle ------------------------------
(***************************************************************************)
(* The cars of one loadpoint: an app car that reports over its cloud       *)
(* (modules/vehicle-skoda), a manual car that only the user can choose     *)
(* (modules/vehicle-manual) and the guest.  Each tick polls the app car    *)
(* when it is due (maybePollVehicles), identifies the car on the charger   *)
(* from the cached readings, the sticky override and the latch, and keeps  *)
(* the anchor the charge estimate goes on from (core/lifecycle.ts).        *)
(***************************************************************************)
EXTENDS VehicleAuth

CONSTANTS Interval,    \* the cadence of polls on a connected car
          MaxBackoff,  \* VEHICLE_POLL_BACKOFF: from 1, doubling to this
          MaxAttempts  \* runPostStartup: maxAttempts

ASSUME VehicleAssumption ==
    {Interval, MaxBackoff, MaxAttempts} \subseteq Nat \ {0} /\ MaxBackoff <= Interval

VARIABLES
    present,   \* external: the car on the charger
    online,    \* the charger reports
    override,  \* vehicleOverride, in memory and in its row
    active,    \* activeVehicle: "app", "manual" or "none" (guest, or no session)
    cache,     \* pluggedIn of the cached reading, in memory and in its row
    failed,    \* consecutiveFailures of the vehicle is not 0
    polled,    \* polledThisConnection
    since,     \* time since lastPollAt, saturated
    misses,    \* consecutiveFailures of the poll gate, saturated
    anchored,  \* vehicleAnchor is set
    attempt    \* runPostStartup: attempts made

cable == <<present, online, override>>
gate == <<polled, since, misses>>
auth == <<calls, tokens, failing, settled>>
vehicleVars == <<auth, cable, active, cache, failed, gate, anchored, attempt>>

Cars == {"app", "manual"}
Cables == {"nobody", "app", "other"}
MaxMisses == MaxBackoff
UserPicks == {"auto", "guest", "manual"}

VehicleTypeOK ==
    /\ AuthTypeOK
    /\ present \in Cables /\ {online, polled, anchored, failed} \subseteq BOOLEAN
    /\ override \in UserPicks /\ active \in Cars \union {"none"}
    /\ cache \in {"unknown", "in", "out"}
    /\ misses \in 0..MaxMisses /\ since \in 0..Interval /\ attempt \in 0..MaxAttempts

VehicleInit ==
    /\ AuthInit
    /\ present \in Cables /\ online = FALSE
    /\ override \in UserPicks /\ active = "none"
    /\ cache \in {"unknown", "in", "out"} /\ failed = FALSE
    /\ polled = FALSE /\ since = Interval /\ misses = 0 /\ anchored = FALSE
    /\ attempt = 0

-----------------------------------------------------------------------------
carConnected == online /\ present # "nobody"
Available == online /\ present = "nobody"

backoffDelay(n) == IF n = 0 THEN 0 ELSE Min({2 ^ (n - 1), MaxBackoff})

(* shouldPollVehicle, on the cadence of a car that draws or that idles (by *)
(* day twice as often), or on the backoff while polls fail.                *)
shouldPollVehicle ==
    /\ carConnected
    /\ ~polled \/ \E cadence \in IF misses > 0 THEN {backoffDelay(misses)} ELSE {Interval} :
                     since >= cadence

(* The health of the vehicle (sourceHealth).                               *)
vehicleHealth == IF deadAuth \/ failed THEN "failing" ELSE "ok"

(* positiveClaimant and resolveActiveVehicle, for a previous answer a and  *)
(* an override o.  Slip: the latch is kept whatever its car reports.       *)
claim == cache = "in"
Latched(a) == IF a = "app" /\ cache = "out" THEN "none" ELSE a

resolveActiveVehicleLatched(a, o) ==
    IF ~carConnected THEN "none"
    ELSE IF claim THEN "app"
    ELSE IF o = "guest" THEN "none" ELSE IF o # "auto" THEN o ELSE a
resolveActiveVehicle(a, o) ==
    IF ~carConnected THEN "none"
    ELSE IF claim THEN "app"
    ELSE IF o = "guest" THEN "none" ELSE IF o # "auto" THEN o ELSE Latched(a)

(* gatherEnergyContext and resolveLoadpoint: identify; a claim clears an   *)
(* override of another car; another car drops the anchor, as the end of    *)
(* the session does.  Slip: the anchor stays.                              *)
IdentifyAnchored ==
    /\ active' = resolveActiveVehicle(active, override)
    /\ override' = IF claim /\ override \in {"guest", "manual"} THEN "auto" ELSE override
    /\ anchored' = (anchored /\ ~Available)
Identify ==
    /\ active' = resolveActiveVehicle(active, override)
    /\ override' = IF claim /\ override \in {"guest", "manual"} THEN "auto" ELSE override
    /\ anchored' = (anchored /\ ~Available /\ active' = active)

-----------------------------------------------------------------------------
Missed(n) == Min({n + 1, MaxMisses})

(* A tick: the poll gate, then the identification.  The app car is polled  *)
(* as the active car or as the only candidate that reports its cable.      *)
Tick ==
    /\ IF ~carConnected
         THEN /\ polled' = FALSE /\ misses' = 0
              /\ UNCHANGED <<since, failed, auth>>
       ELSE IF ~shouldPollVehicle \/ stage["poll"] # "none"  \* bound: one poll at a time
         THEN UNCHANGED <<gate, failed, auth>>
       ELSE /\ polled' = TRUE /\ since' = 0
            /\ IF Rejected
                 THEN failed' = TRUE /\ misses' = Missed(misses) /\ UNCHANGED auth
                 ELSE Begin("poll") /\ UNCHANGED <<failed, misses, tokens, failing, settled>>
    /\ Identify
    /\ UNCHANGED <<present, online, cache, attempt>>

(* runPostStartup: an attempt of the hook, at once or after a delay.       *)
Boot ==
    /\ attempt < MaxAttempts /\ stage["boot"] = "none"
    /\ attempt' = attempt + 1
    /\ IF Rejected THEN failed' = TRUE /\ UNCHANGED auth
       ELSE Begin("boot") /\ UNCHANGED <<failed, tokens, failing, settled>>
    /\ UNCHANGED <<cable, active, cache, gate, anchored>>

(* A call gets on with its tokens.                                         *)
TokenStep(c) ==
    /\ RefreshAnswered(c) \/ RefreshFails(c) \/ LoginAnswered(c)
    /\ UNCHANGED <<cable, active, cache, failed, gate, anchored, attempt>>

(* refresh() rejects: the vehicle counts it, and the poll gate its own.    *)
CallFails(c) ==
    /\ LoginFails(c) \/ (~settled /\ DataEnds(c))
    /\ failed' = TRUE /\ misses' = IF c = "poll" THEN Missed(misses) ELSE misses
    /\ UNCHANGED <<cable, active, cache, polled, since, anchored, attempt>>

(* refresh() resolves: the cache and its row; the request for the          *)
(* air-conditioning, which knows the cable, may fail by itself.  A poll    *)
(* clears the backoff and anchors the estimate if its car is active now.   *)
CallResolves(c) ==
    /\ DataEnds(c)
    /\ cache' \in {IF present = "app" THEN "in" ELSE "out"} \union IF settled THEN {} ELSE {"unknown"}
    /\ failed' = FALSE
    /\ misses' = IF c = "poll" THEN 0 ELSE misses
    /\ anchored' = (anchored \/ (c = "poll" /\ active = "app"))
    /\ attempt' = IF c = "boot" THEN MaxAttempts ELSE attempt
    /\ UNCHANGED <<cable, active, polled, since>>

TimePasses ==
    /\ since' = Min({since + 1, Interval}) /\ AuthTimePasses
    /\ UNCHANGED <<cable, active, cache, failed, polled, misses, anchored, attempt>>

(* A crash and a restart: the cached reading, the override and the refresh *)
(* token are read back from their rows.                                    *)
Restart ==
    /\ ~settled /\ AuthRestarts
    /\ online' = FALSE /\ active' = "none" /\ failed' = FALSE
    /\ polled' = FALSE /\ since' = Interval /\ misses' = 0 /\ anchored' = FALSE /\ attempt' = 0
    /\ UNCHANGED <<present, override, cache>>

(* External: the cable, the charger's link, the user (handleVehicleOverride*)
(* ticks by itself), and the end of it all.                                *)
WorldTurns ==
    /\ ~settled
    /\ \/ present' \in Cables \ {present} /\ "nobody" \in {present, present'} /\ UNCHANGED <<online, override>>
       \/ online' = ~online /\ UNCHANGED <<present, override>>
       \/ override' \in UserPicks \ {override} /\ UNCHANGED <<present, online>>
    /\ UNCHANGED <<auth, active, cache, failed, gate, anchored, attempt>>

Settles ==
    /\ ~settled /\ settled' = TRUE /\ online' = TRUE
    /\ UNCHANGED <<calls, tokens, failing, present, override, active, cache, failed, gate, anchored, attempt>>

VehicleNext ==
    \/ Tick \/ Boot \/ TimePasses \/ Restart \/ WorldTurns \/ Settles
    \/ \E c \in Calls : TokenStep(c) \/ CallFails(c) \/ CallResolves(c)

(* Ticks run on their interval, time passes, calls end.                    *)
VehicleFairness ==
    /\ WF_vehicleVars(Tick) /\ WF_vehicleVars(TimePasses)
    /\ \A c \in Calls : WF_vehicleVars(TokenStep(c)) /\ WF_vehicleVars(CallFails(c)) /\ WF_vehicleVars(CallResolves(c))

VehicleSpec == VehicleInit /\ [][VehicleNext]_vehicleVars /\ VehicleFairness

-----------------------------------------------------------------------------
Rests == settled /\ carConnected

(* Whatever an outage did to the tokens, the lockout and the backoff, once *)
(* the cloud is back polls succeed again by themselves (token's order of   *)
(* refresh, login and lockout against the windows it resets).              *)
OutageIsOver == <>[]Rests => <>[](vehicleHealth = "ok")

(* Once the cable rests, the car on the charger is the one identified: the *)
(* app car if it says it is plugged in, else the one that was chosen, and  *)
(* not the app car that was there before.                                  *)
CarIsIdentified ==
    <>[]Rests => <>[](IF present = "app" THEN active = "app"
                      ELSE IF override = "auto" THEN active # "app"
                      ELSE active = IF override = "guest" THEN "none" ELSE override)

(* The estimate never goes on from a reading of another car than the one   *)
(* identified: a poll may be answered, the car change or the charger drop  *)
(* out between any two ticks.                                              *)
AnchorIsActive == anchored => active = "app"
=============================================================================
