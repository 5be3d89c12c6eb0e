------------------------------ MODULE Settings ------------------------------
(***************************************************************************)
(* The settings there is one of: the fields of site and of smartCharging,  *)
(* the MQTT bridge and a balancer (their handlers in server/api.ts,        *)
(* reloadSite, reloadSmartCharging and reloadBalancer of                   *)
(* core/reconcile.ts).  A tick reads most of them as they are; the port *)
(* and controlIntervalSec are captured by what is started at boot          *)
(* (server.listen, setInterval), and so is the bridge, which is not in the *)
(* configuration that is edited at all.  A field is as the schema has it   *)
(* or changed.                                                             *)
(***************************************************************************)
CONSTANTS LiveFields,   \* fields of site and smartCharging that every tick reads
          BootFields,   \* and those captured at boot: port, controlIntervalSec
          Breakers      \* what the balancer's mainBreakerA may be

ASSUME SettingsAssumption ==
    LiveFields \cap BootFields = {} /\ "mqttBridge" \notin LiveFields \cup BootFields

VARIABLES stored,    \* config_overrides: site, smartCharging and mqttBridge
          breaker,   \* and the balancer: its mainBreakerA, if there is one
          settings,  \* config.site and config.smartCharging of the process
          captured,  \* what its start took of them
          balancer,  \* the balancer that runs
          owed,      \* the restartFields answered since the start (history)
          process    \* "off" (no such site), "down" or "up"
settingsVars == <<stored, breaker, settings, captured, balancer, owed, process>>

Reloaded == LiveFields \cup BootFields
BootOnly == BootFields \cup {"mqttBridge"}
Settable == Reloaded \cup BootOnly

SettingsInit ==
    /\ stored = [k \in Settable |-> FALSE]
    /\ breaker = {}
    /\ balancer = {}
    /\ settings = [k \in Reloaded |-> FALSE]
    /\ captured = [k \in BootOnly |-> FALSE]
    /\ owed = {}
    /\ process = "down"

\* PUT /api/site and /api/smartcharging: the whole section is assigned from the rows.
PutField(k, changed) ==
    /\ process = "up"
    /\ stored' = [stored EXCEPT ![k] = changed]
    /\ settings' = [j \in Reloaded |-> stored'[j]]
    /\ owed' = owed \cup ({k} \cap BootFields)
    /\ UNCHANGED <<breaker, captured, balancer, process>>

\* PUT /api/mqtt-bridge: a row, and an answer that it waits.
PutMqttBridge(changed) ==
    /\ process = "up"
    /\ stored' = [stored EXCEPT !["mqttBridge"] = changed]
    /\ owed' = owed \cup {"mqttBridge"}
    /\ UNCHANGED <<breaker, settings, captured, balancer, process>>

\* POST /api/balancers, if there is none, and PUT /api/balancers/:name.  What runs is built anew.
AddBalancer(a) ==
    /\ process = "up" /\ balancer = {}
    /\ breaker' = {a} /\ balancer' = breaker'
    /\ UNCHANGED <<stored, settings, captured, owed, process>>

EditBalancer(a) ==
    /\ process = "up" /\ balancer # {}
    /\ breaker' = {a} /\ balancer' = breaker'
    /\ UNCHANGED <<stored, settings, captured, owed, process>>

\* A start: the configuration with its overrides, and what is started of it.
BootSettings ==
    /\ process = "down"
    /\ process' = "up"
    /\ settings' = [k \in Reloaded |-> stored[k]]
    /\ captured' = [k \in BootOnly |-> stored[k]]
    /\ balancer' = breaker
    /\ owed' = {}
    /\ UNCHANGED <<stored, breaker>>

\* A crash, that of a request after its row among them, or an import, which writes rows and
\* answers restartRequired, and that restart.
EndSettings ==
    /\ process = "up"
    /\ process' = "down"
    /\ stored' \in [Settable -> BOOLEAN] /\ breaker' \in {breaker} \cup {{a} : a \in Breakers}
    /\ UNCHANGED <<settings, captured, balancer, owed>>

SettingsNext ==
    \/ \E changed \in BOOLEAN : PutMqttBridge(changed) \/ \E k \in Reloaded : PutField(k, changed)
    \/ \E a \in Breakers : AddBalancer(a) \/ EditBalancer(a)
    \/ BootSettings
    \/ EndSettings

\* A restart of this process would change nothing but the fields it has answered as waiting for
\* one: what a tick reads is what the rows say, and so is what was captured at boot, for a field
\* no answer has named.
NoneOtherIsOwed ==
    process = "up" =>
        /\ balancer = breaker
        /\ settings = [k \in Reloaded |-> stored[k]]
        /\ \A k \in BootOnly \ owed : captured[k] = stored[k]
=============================================================================
