----------------------------- MODULE MqttBridge -----------------------------
(***************************************************************************)
(* The MQTT bridge (server/mqtt-bridge.ts, server/ha-discovery.ts): one    *)
(* loadpoint mirrored to the retained topics of a broker, and commanded    *)
(* from there.  The connection may die unnoticed, and then what is         *)
(* published is lost; once it is noticed, publications wait in the client  *)
(* and are delivered when it is connected again, before the bridge hears   *)
(* of the connection.  A restart loses those that wait.                    *)
(***************************************************************************)
EXTENDS Naturals

CONSTANTS Modes,     \* the charge modes
          NewMode    \* the mode of a loadpoint that is added

ASSUME BridgeAssumption ==
    NewMode \in Modes /\ {"gone", "cleared", "nothing"} \cap Modes = {}

VARIABLES session,   \* the bridge: "off" (not configured), "down", "up", "dead"
          loadpoint, \* the mode of the loadpoint, or Gone
          retained,  \* what the broker keeps of it, or Cleared
          waiting,   \* the last publication that waits in the client, or Nothing
          ghost,     \* was a clearing of the topics lost?
          entity,    \* has the loadpoint been announced to Home Assistant?
          hourly     \* the timers armed: before the first full hour, after it
bridgeVars == <<session, loadpoint, retained, waiting, ghost, entity, hourly>>

Gone == "gone"
Cleared == "cleared"
Nothing == "nothing"
NoTimers == [timeout |-> 0, interval |-> 0]

\* What the topics of a loadpoint should hold.
Mirror(lp) == IF lp = Gone THEN Cleared ELSE lp

BridgeInit ==
    /\ session = "down"
    /\ loadpoint = NewMode
    /\ retained = Cleared
    /\ waiting = Nothing
    /\ ghost = FALSE
    /\ entity = FALSE
    /\ hourly = NoTimers

----------------------------------------------------------------------------
\* client.publish with retain, to the topics of the loadpoint: the last one wins.
publish(v) ==
    /\ retained' = IF session = "up" THEN v ELSE retained
    /\ waiting' = IF session = "down" THEN v ELSE waiting
    /\ ghost' = (session = "dead" /\ v = Cleared)

publishState == publish(loadpoint')

\* Slip: a loadpoint that is gone is not cleared
configChangedPublishes ==
    IF loadpoint' = Gone THEN UNCHANGED <<retained, waiting, ghost>> ELSE publishState

\* The config.changed handler: publishState or clearState.
configChanged == publish(Mirror(loadpoint'))

\* tariffSchedule.clear: the timeout, and the interval if it has come to that.
clear(h) == NoTimers

scheduleHourlyTariffPublish(h) == [h EXCEPT !.timeout = @ + 1]

\* publishHaDiscovery: the selector and the sensors of a loadpoint that is there, retained too;
\* nothing takes them back.
publishHaDiscovery == entity' = (entity \/ loadpoint # Gone)

----------------------------------------------------------------------------
\* The connect handler, on every connection: what waited has been delivered; the loadpoint, if
\* there is one, is published and announced; and the hourly schedule starts over.
BridgeConnects ==
    /\ session = "down"
    /\ session' = "up"
    /\ retained' = IF loadpoint # Gone THEN loadpoint
                   ELSE IF waiting # Nothing THEN waiting ELSE retained
    /\ waiting' = Nothing
    /\ publishHaDiscovery
    /\ hourly' = scheduleHourlyTariffPublish(clear(hourly))
    /\ UNCHANGED <<loadpoint, ghost>>

\* The connection breaks and the client is told.
BridgeDisconnects ==
    /\ session \in {"up", "dead"}
    /\ session' = "down"
    /\ UNCHANGED <<loadpoint, retained, waiting, ghost, entity, hourly>>

\* The connection breaks and nobody notices, until a ping is missed.
LinkDies ==
    /\ session = "up"
    /\ session' = "dead"
    /\ UNCHANGED <<loadpoint, retained, waiting, ghost, entity, hourly>>

\* handleModeChange, and the loadpoint.mode event it ends with.
modeChange(m) ==
    /\ loadpoint \notin {Gone, m}
    /\ loadpoint' = m
    /\ publishState
    /\ UNCHANGED <<session, entity, hourly>>

\* <prefix>/loadpoints/<name>/cmd/mode; a loadpoint that is gone only gets a line in the log.
Command(m) == session = "up" /\ modeChange(m)

\* A request of the API, or the revert of a boost.
ModeElsewhere(m) == session # "off" /\ modeChange(m)

AddLoadpoint ==
    /\ session # "off" /\ loadpoint = Gone
    /\ loadpoint' = NewMode
    /\ configChanged
    /\ UNCHANGED <<session, entity, hourly>>

RemoveLoadpoint ==
    /\ session # "off" /\ loadpoint # Gone
    /\ loadpoint' = Gone
    /\ configChanged
    /\ UNCHANGED <<session, entity, hourly>>

\* The first full hour publishes the prices and starts the interval that publishes them on.
FullHour ==
    /\ hourly.timeout > 0
    /\ hourly' = [timeout |-> hourly.timeout - 1, interval |-> hourly.interval + 1]
    /\ UNCHANGED <<session, loadpoint, retained, waiting, ghost, entity>>

\* stop() or a crash, and the start after it.
BridgeRestarts ==
    /\ session # "off"
    /\ session' = "down"
    /\ waiting' = Nothing
    /\ ghost' = (ghost \/ waiting = Cleared)
    /\ hourly' = NoTimers
    /\ UNCHANGED <<loadpoint, retained, entity>>

BridgeNext ==
    \/ BridgeConnects
    \/ BridgeDisconnects
    \/ LinkDies
    \/ \E m \in Modes : Command(m) \/ ModeElsewhere(m)
    \/ AddLoadpoint
    \/ RemoveLoadpoint
    \/ FullHour
    \/ BridgeRestarts

----------------------------------------------------------------------------
\* Shape of the state.
BridgeTypeOK ==
    /\ session \in {"off", "down", "up", "dead"}
    /\ loadpoint \in Modes \cup {Gone}
    /\ retained \in Modes \cup {Cleared}
    /\ waiting \in Modes \cup {Cleared, Nothing}
    /\ {ghost, entity} \subseteq BOOLEAN
    /\ hourly \in [timeout : 0..1, interval : 0..1]

\* On a connection that works the broker holds the mode of the loadpoint, or nothing when there
\* is none, whatever was published while it did not: unless a clearing was lost, which nothing
\* repeats ("so a deleted loadpoint doesn't linger on the broker", mqtt-bridge.ts:178-181).
MirrorIsCurrent == session = "up" /\ ~ghost => retained = Mirror(loadpoint)

\* One hourly schedule at most, however often the bridge connects and at whatever time of it
\* ("avoids a timer leak across reconnects", mqtt-bridge.ts:49-50).
OneSchedule == hourly.timeout + hourly.interval <= 1

\* Both: what the bridge does at a connection, after any number of others, restores the mirror of
\* the loadpoint and does not add to the schedule (mqtt-bridge.ts:52-92).
BridgeKeepsUp == MirrorIsCurrent /\ OneSchedule
=============================================================================
