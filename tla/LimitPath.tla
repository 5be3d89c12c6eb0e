----------------------------- MODULE LimitPath -----------------------------
(***************************************************************************)
(* How a current limit travels from the control loop to the charger, for   *)
(* one loadpoint:                                                          *)
(*                                                                         *)
(*   circuitTick (core/lifecycle.ts): deadband, soft start, lastCommandedA *)
(*     -> charger.setCurrentLimit (charger-ocpp16/index.ts): clamp         *)
(*     -> createDebouncedSetter (debounce.ts): module Debounce             *)
(*     -> OcppServer.setLimit (server.ts): lastLimitByStation, then an     *)
(*        OCPP call if the station is connected                            *)
(*     -> the charger, which answers, refuses, times out, drops its        *)
(*        socket, reboots.                                                 *)
(*                                                                         *)
(* ocpp-rpc keeps one call outstanding per client, so the calls of a       *)
(* socket are a queue.  Whatever the plan wants is the variable target;    *)
(* once the environment has settled it leaves target and the charger alone.*)
(***************************************************************************)
EXTENDS Debounce, Sequences

CONSTANTS Targets,      \* the amps a plan may ask for
          MaxA,         \* the charger's configured maxA
          DeadbandA,    \* smartCharging.deadbandA
          BootA,        \* defaultBootCurrentA, 6 A
          MaxCalls      \* bound: calls queued on a socket

ASSUME LimitPathAssumption ==
    /\ Targets \subseteq Nat /\ MaxA \in Nat /\ BootA \in Nat
    /\ DeadbandA \in Nat /\ MaxCalls \in Nat \ {0}
    /\ NoValue \notin Nat

Half(a) == IF a \div 2 > 6 THEN a \div 2 ELSE 6
Commands == Targets \union {Half(t) : t \in {u \in Targets : u > 6}}

ASSUME ValuesAssumption ==
    \A c \in Commands : (IF c > MaxA THEN MaxA ELSE c) \in Values

VARIABLES target,          \* the amps planCircuit wants now
          settled,         \* the environment has stopped changing anything
          phase,           \* where circuitTick is, see Phases
          amps,            \* planCircuit's amps for the running tick
          commanding,      \* the limit of the setCurrentLimit the tick awaits
          lastCommandedA,  \* circuitTick's map entry, NoValue when absent
          lastLimit,       \* server.lastLimitByStation entry
          connected,       \* server.stations has the station
          onConnect,       \* the re-assert of server.onConnect: due, sent or done
          calls,           \* calls queued on the current socket
          profile,         \* the limit the charger enforces, NoValue for none
          bootDue,         \* a rebooted charger has not sent BootNotification yet
          offLimit         \* history: a failure, the boot default or a clear came last

serverVars == <<lastLimit, connected, onConnect>>
loopVars == <<phase, amps, commanding, lastCommandedA>>
limitVars == <<target, settled, phase, amps, commanding, lastCommandedA,
               lastLimit, connected, onConnect, calls, profile, bootDue, offLimit,
               debounceVars>>

Senders == {"loop", "timer", "connect", "boot"}
Clear == NoValue     \* as the amps of a call: ClearChargingProfile

(* idle: no tick runs; session: limits written, the reconciler's turn;     *)
(* cleared: profiles cleared, about to re-assert; the others await a call. *)
Phases == {"idle", "writing", "session", "clearing", "cleared", "reasserting"}

LimitTypeOK ==
    /\ DebounceTypeOK
    /\ target \in Targets /\ settled \in BOOLEAN
    /\ phase \in Phases /\ amps \in Targets \union {NoValue}
    /\ commanding \in Commands \union {NoValue}
    /\ lastCommandedA \in Commands \union {NoValue}
    /\ lastLimit \in Values \union {NoValue}
    /\ connected \in BOOLEAN /\ onConnect \in {"due", "sent", "done"}
    /\ calls \in Seq([amps : Values \union {BootA, Clear}, by : Senders])
    /\ profile \in Values \union {BootA, NoValue}
    /\ bootDue \in BOOLEAN /\ offLimit \in BOOLEAN

LimitInit ==
    /\ DebounceInit
    /\ target \in Targets /\ settled = FALSE
    /\ phase = "idle" /\ amps = NoValue /\ commanding = NoValue /\ lastCommandedA = NoValue
    /\ lastLimit = NoValue /\ connected = FALSE /\ onConnect = "done"
    /\ calls = <<>> /\ profile = NoValue /\ bootDue = TRUE /\ offLimit = FALSE

----------------------------------------------------------------------------
Distance(a, b) == IF a > b THEN a - b ELSE b - a

shouldWrite(a) ==
    lastCommandedA # NoValue => Distance(a, lastCommandedA) >= DeadbandA

LastCommandedOr0 == IF lastCommandedA = NoValue THEN 0 ELSE lastCommandedA

softStartLimit(a) ==
    IF LastCommandedOr0 >= 6 \/ a <= 6 THEN a ELSE Half(a)

Clamp(a) == IF a > MaxA THEN MaxA ELSE a

Waiting == {calls[i].by : i \in 1..Len(calls)}

Send(v, by) == Append(calls, [amps |-> v, by |-> by])

(* OcppServer.setLimit: remembered always, sent only when connected.       *)
(* Slip: the early return for a missing station comes first.               *)
setLimitIfConnected(v, by) ==
    IF connected THEN lastLimit' = v /\ calls' = Send(v, by)
                 ELSE UNCHANGED <<lastLimit, calls>>

setLimit(v, by) ==
    /\ lastLimit' = v
    /\ calls' = IF connected THEN Send(v, by) ELSE calls

(* charger.setCurrentLimit(a), called by the tick: the tick is in phase    *)
(* waiting while a call is out, and in phase after if there is none.       *)
setCurrentLimit(a, waiting, after) ==
    /\ Set(Clamp(a))
    /\ IF lastWritten' # lastWritten
         THEN /\ setLimit(Clamp(a), "loop")
              /\ phase' = IF connected THEN waiting ELSE after
         ELSE /\ UNCHANGED <<lastLimit, calls>>
              /\ phase' = after

(* lastCommandedA.set follows the await, however the call settled.         *)
Record(limit) ==
    IF phase' = "writing"
      THEN commanding' = limit /\ UNCHANGED lastCommandedA
      ELSE lastCommandedA' = limit /\ UNCHANGED commanding

(* circuitTick up to and including the write of this loadpoint's limit.    *)
TickWrites ==
    /\ phase = "idle" /\ shouldWrite(target)
    /\ amps' = target
    /\ LET limit == softStartLimit(target)
       IN setCurrentLimit(limit, "writing", "session") /\ Record(limit)
    /\ UNCHANGED <<target, settled, connected, onConnect, profile, bootDue, offLimit>>

(* The same tick with the amps inside the deadband.                        *)
TickHolds ==
    /\ phase = "idle" /\ ~shouldWrite(target)
    /\ amps' = target /\ phase' = "session"
    /\ UNCHANGED <<target, settled, lastCommandedA, commanding, serverVars, calls,
                   profile, bootDue, offLimit, debounceVars>>

EndTick == phase' = "idle" /\ amps' = NoValue

(* The reconciler's turn in the tick, when it takes no action here ...     *)
SessionIdle ==
    /\ phase = "session"
    /\ EndTick
    /\ UNCHANGED <<target, settled, commanding, lastCommandedA, serverVars, calls,
                   profile, bootDue, offLimit, debounceVars>>

(* ... and when it clears the charging profiles and then re-asserts this   *)
(* tick's amps through setCurrentLimit.  Its grace of 90 s of wanting      *)
(* charge puts this after any soft start, so lastCommandedA has caught up. *)
SessionClear ==
    /\ phase = "session" /\ connected /\ ~settled /\ Len(calls) < MaxCalls
    /\ amps > 0 /\ (lastCommandedA = amps \/ ~shouldWrite(amps))
    /\ phase' = "clearing"
    /\ calls' = Send(Clear, "loop")
    /\ UNCHANGED <<target, settled, amps, commanding, lastCommandedA, serverVars,
                   profile, bootDue, offLimit, debounceVars>>

ReassertAfterClear ==
    /\ phase = "cleared"
    /\ setCurrentLimit(amps, "reasserting", "idle")
    /\ amps' = IF phase' = "idle" THEN NoValue ELSE amps
    /\ UNCHANGED <<target, settled, commanding, lastCommandedA, connected, onConnect,
                   profile, bootDue, offLimit>>

(* The trailing timer of the debouncer; its write is a setLimit nobody     *)
(* awaits.                                                                 *)
TrailingTimer ==
    /\ Len(calls) < MaxCalls
    /\ TimerFires
    /\ IF lastWritten' # lastWritten
         THEN setLimit(lastWritten', "timer")
         ELSE UNCHANGED <<lastLimit, calls>>
    /\ UNCHANGED <<target, settled, loopVars, connected, onConnect, profile,
                   bootDue, offLimit>>

Time ==
    /\ TimePasses
    /\ UNCHANGED <<target, settled, loopVars, serverVars, calls, profile, bootDue, offLimit>>

----------------------------------------------------------------------------
(* What the await of a settled loop call leads to. *)
LoopGoesOn ==
    \/ /\ phase = "writing" /\ phase' = "session"
       /\ lastCommandedA' = commanding /\ commanding' = NoValue
       /\ UNCHANGED amps
    \/ /\ phase = "clearing" /\ phase' = "cleared"
       /\ UNCHANGED <<amps, commanding, lastCommandedA>>
    \/ /\ phase = "reasserting" /\ EndTick
       /\ UNCHANGED <<commanding, lastCommandedA>>

(* The senders in bys have their calls settled. *)
SendersGoOn(bys) ==
    /\ IF "loop" \in bys THEN LoopGoesOn ELSE UNCHANGED loopVars
    /\ onConnect' = IF "connect" \in bys THEN "done" ELSE onConnect

(* The charger carries out the call at the head of the queue. *)
Enforce(call) == profile' = call.amps

CallSucceeds ==
    /\ calls # <<>>
    /\ Enforce(Head(calls))
    /\ offLimit' = (Head(calls).amps = Clear \/ Head(calls).by = "boot")
    /\ calls' = Tail(calls)
    /\ SendersGoOn({Head(calls).by})
    /\ UNCHANGED <<target, settled, lastLimit, connected, bootDue, debounceVars>>

(* A call error, a refusal, or the 30 s timeout: the charger may have      *)
(* carried the call out all the same.                                      *)
CallFails ==
    /\ calls # <<>> /\ ~settled
    /\ Enforce(Head(calls)) \/ UNCHANGED profile
    /\ offLimit' = TRUE
    /\ calls' = Tail(calls)
    /\ SendersGoOn({Head(calls).by})
    /\ UNCHANGED <<target, settled, lastLimit, connected, bootDue, debounceVars>>

(* attachClient: also when the charger comes back on a new socket before   *)
(* the old one is seen to close; what was queued on that one is lost.      *)
Connect ==
    /\ connected' = TRUE
    /\ ~connected \/ ~settled
    /\ calls' = <<>>
    /\ IF "loop" \in Waiting THEN LoopGoesOn ELSE UNCHANGED loopVars
    /\ onConnect' = "due"
    /\ UNCHANGED <<target, settled, lastLimit, profile, bootDue, offLimit, debounceVars>>

(* The disconnect handler: pending calls are rejected.  The rest of an     *)
(* onConnect under way finds no station, so it ends here.  Slip: what      *)
(* awaits a call is not told of the closed socket.                         *)
DisconnectSilently ==
    /\ connected /\ ~settled
    /\ connected' = FALSE
    /\ calls' = <<>>
    /\ \/ calls # <<>> /\ Enforce(Head(calls))
       \/ UNCHANGED profile
    /\ onConnect' = "done"
    /\ UNCHANGED <<target, settled, loopVars, lastLimit, bootDue, offLimit, debounceVars>>

Disconnect ==
    /\ connected /\ ~settled
    /\ connected' = FALSE
    /\ calls' = <<>>
    /\ \/ calls # <<>> /\ Enforce(Head(calls))
       \/ UNCHANGED profile
    /\ IF "loop" \in Waiting THEN LoopGoesOn ELSE UNCHANGED loopVars
    /\ onConnect' = "done"
    /\ UNCHANGED <<target, settled, lastLimit, bootDue, offLimit, debounceVars>>

(* A power cycle of the charger: its profile may or may not survive.       *)
Reboot ==
    /\ connected /\ ~settled /\ ~bootDue
    /\ connected' = FALSE /\ bootDue' = TRUE
    /\ calls' = <<>>
    /\ profile' \in {profile, NoValue}
    /\ IF "loop" \in Waiting THEN LoopGoesOn ELSE UNCHANGED loopVars
    /\ onConnect' = "done"
    /\ UNCHANGED <<target, settled, lastLimit, offLimit, debounceVars>>

(* server.onConnect, past ChangeAvailability and GetConfiguration (whose   *)
(* failures it ignores): re-assert the limit remembered NOW.  Slip: nothing*)
(* is re-asserted.                                                         *)
OnConnectForgets ==
    /\ onConnect = "due" /\ connected
    /\ onConnect' = "done" /\ UNCHANGED calls
    /\ UNCHANGED <<target, settled, loopVars, lastLimit, connected, profile, bootDue,
                   offLimit, debounceVars>>

OnConnect ==
    /\ onConnect = "due" /\ connected /\ Len(calls) < MaxCalls
    /\ IF lastLimit = NoValue
         THEN onConnect' = "done" /\ UNCHANGED calls
         ELSE onConnect' = "sent" /\ calls' = Send(lastLimit, "connect")
    /\ UNCHANGED <<target, settled, loopVars, lastLimit, connected, profile, bootDue,
                   offLimit, debounceVars>>

(* The BootNotification handler: the boot default goes straight to the     *)
(* charger, past lastLimit and the debouncer.                              *)
BootNotification ==
    /\ bootDue /\ connected /\ Len(calls) < MaxCalls
    /\ bootDue' = FALSE
    /\ calls' = Send(BootA, "boot")
    /\ UNCHANGED <<target, settled, loopVars, serverVars, profile, offLimit, debounceVars>>

PlanChanges ==
    /\ ~settled
    /\ target' \in Targets
    /\ UNCHANGED <<settled, loopVars, serverVars, calls, profile, bootDue, offLimit,
                   debounceVars>>

(* Settling between ticks loses nothing: the surroundings may keep still   *)
(* before it.                                                              *)
Settle ==
    /\ ~settled /\ phase = "idle" /\ calls = <<>>
    /\ settled' = TRUE
    /\ UNCHANGED <<target, loopVars, serverVars, calls, profile, bootDue, offLimit,
                   debounceVars>>

ControlLoop == TickWrites \/ TickHolds \/ SessionIdle \/ SessionClear \/ ReassertAfterClear
Server == Connect \/ OnConnect \/ BootNotification \/ CallSucceeds
Surroundings == Disconnect \/ Reboot \/ CallFails \/ PlanChanges \/ Settle

LimitNext == ControlLoop \/ TrailingTimer \/ Time \/ Server \/ Surroundings

(* The control interval and setTimeout keep firing, calls settle within    *)
(* their timeout, a charger that is left alone reconnects.  Strong fairness*)
(* of the trailing timer only undoes the bound MaxCalls, which setTimeout  *)
(* does not know: a full queue may not hold the timer back for ever.       *)
LimitFairness ==
    /\ WF_limitVars(TickWrites \/ TickHolds) /\ WF_limitVars(SessionIdle)
    /\ WF_limitVars(ReassertAfterClear)
    /\ SF_limitVars(TrailingTimer) /\ WF_limitVars(Time)
    /\ WF_limitVars(CallSucceeds) /\ WF_limitVars(OnConnect)
    /\ WF_limitVars(Connect /\ ~connected)

LimitSpec == LimitInit /\ [][LimitNext]_limitVars /\ LimitFairness

----------------------------------------------------------------------------
(* Once a socket is up, re-asserted and drained, the charger enforces the  *)
(* value the debouncer holds for written, unless a failed call, the boot   *)
(* default or a clear came after the last limit: losing or replacing       *)
(* sockets, at any point, never leaves the charger on a stale limit.       *)
ReassertedAfterReconnect ==
    connected /\ onConnect = "done" /\ calls = <<>> /\ ~offLimit
        => profile = lastWritten \/ lastWritten = NoValue

(* A tick never hangs on its charger: every await of a tick settles, also  *)
(* when the socket it waits on drops or is replaced.                       *)
TickCompletes == phase # "idle" ~> phase = "idle"

(* After the surroundings settle, the charger ends up at the value the     *)
(* debouncer holds for written, whatever sockets were lost on the way and  *)
(* also if it was set while no socket was up, and stays there.             *)
WrittenLimitIsEnforced ==
    <>[](settled /\ ~offLimit /\ lastWritten # NoValue) => <>[](profile = lastWritten)

=============================================================================
