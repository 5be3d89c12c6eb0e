---------------------------- MODULE OcppStation ----------------------------
(***************************************************************************)
(* One station of OcppServer (modules/charger-ocpp16/server.ts), its       *)
(* transaction rows in SQLite (persistence.ts) and the loadpoint that      *)
(* subscribes to its status.                                               *)
(*                                                                         *)
(* The charger is the environment: a cable, a connector status and at most *)
(* one running transaction.  Its messages travel in order on the socket it *)
(* uses; what is under way when that socket dies is lost, except that a    *)
(* StopTransaction may be kept and sent again on the next socket, and an   *)
(* unanswered StartTransaction is.  The server may see a socket close long *)
(* after the charger has opened the next one, and may itself restart.      *)
(***************************************************************************)
EXTENDS Integers, Sequences, FiniteSets, SequencesExt

CONSTANTS Sockets,             \* socket identities, reused once closed
          None,                \* JavaScript's undefined
          Starting,            \* ctx while a StartTransaction is not answered
          MaxTx,               \* bound: transaction ids allocated
          MaxPlugs,            \* bound: times a car is plugged in
          MaxInbox,            \* bound: messages under way on the socket
          SupportsTrigger      \* the charger answers TriggerMessage

ASSUME OcppAssumption ==
    /\ MaxTx \in Nat \ {0} /\ MaxPlugs \in Nat \ {0} /\ MaxInbox \in Nat \ {0}
    /\ SupportsTrigger \in BOOLEAN
    /\ None \notin (1..MaxTx) \union Sockets
    /\ Starting \notin (1..MaxTx) \union {None}

VARIABLES
    cur,             \* charger: the socket it uses, None when offline
    cable,           \* charger: the number of this plug-in, 0 when out
    status,          \* charger: its connector status
    ctx,             \* charger: its transaction id, None or Starting
    backlog,         \* charger: StopTransaction kept for the next socket
    plugs,           \* charger: plug-ins so far
    inbox,           \* messages under way on cur
    startCmd,        \* a RemoteStartTransaction is under way on cur
    open,            \* server: sockets whose close was not seen
    registered,      \* server: the socket of stations.get(stationId), or None
    onConn,          \* server: sockets whose onConnect has not finished
    activeTx,        \* server: activeTransactionId of the registered state
    hasAutoStarted,  \* server: hasAutoStarted of the registered state
    rows,            \* database: end_time of each transaction row
    lp,              \* loadpoint: [status, connected, charging] last folded
    autoStarted,     \* history: plug-ins auto-started on this connection
    wasAvailable,    \* history: the last status handled was an Available
    settled          \* the surroundings have stopped changing anything

chargerVars == <<cable, status, ctx, backlog, plugs>>
stateVars == <<activeTx, hasAutoStarted>>
historyVars == <<autoStarted, wasAvailable>>
vars == <<cur, chargerVars, inbox, startCmd, open, registered, onConn, stateVars,
          rows, lp, historyVars, settled>>

Ids == 1..MaxTx
Statuses == {"Available", "Preparing", "Charging", "SuspendedEV", "Finishing"}
Messages == [kind : {"status"}, connectorId : {0, 1}, status : Statuses, plug : 0..MaxPlugs]
              \union [kind : {"start"}]
              \union [kind : {"stop"}, tx : Ids]
              \union [kind : {"meter"}, tx : Ids \union {None}]

Folded(st, connected, charging) ==
    [status |-> st, connected |-> connected, charging |-> charging]

OcppTypeOK ==
    /\ cur \in Sockets \union {None} /\ registered \in Sockets \union {None}
    /\ open \subseteq Sockets /\ onConn \subseteq Sockets
    /\ plugs \in 0..MaxPlugs /\ cable \in 0..plugs /\ status \in Statuses
    /\ ctx \in Ids \union {None, Starting} /\ backlog \in Ids \union {None}
    /\ inbox \in Seq(Messages) /\ Len(inbox) <= MaxInbox + 2
    /\ startCmd \in BOOLEAN
    /\ activeTx \in Ids \union {None} /\ hasAutoStarted \in BOOLEAN
    /\ rows \in [Ids -> {"free", "open", "closed"}]
    /\ lp \in [status : Statuses \union {None, "Unavailable"},
               connected : BOOLEAN, charging : BOOLEAN]
    /\ autoStarted \subseteq 1..MaxPlugs
    /\ wasAvailable \in BOOLEAN /\ settled \in BOOLEAN

Init ==
    /\ cur = None /\ inbox = <<>> /\ startCmd = FALSE
    /\ cable = 0 /\ status = "Available" /\ ctx = None /\ backlog = None /\ plugs = 0
    /\ open = {} /\ registered = None /\ onConn = {}
    /\ activeTx = None /\ hasAutoStarted = FALSE
    /\ rows = [i \in Ids |-> "free"]
    /\ lp = Folded(None, FALSE, FALSE)
    /\ autoStarted = {} /\ wasAvailable = FALSE /\ settled = FALSE

----------------------------------------------------------------------------
(* persistence.ts.  Ids are handed out in increasing order and never again.*)
FreeIds == {i \in Ids : rows[i] = "free"}
NextId == CHOOSE i \in FreeIds : \A j \in FreeIds : i <= j

OpenIds == {i \in Ids : rows[i] = "open"}

(* Slip: the oldest open row instead of ORDER BY id DESC.                  *)
findOldestOpen ==
    IF OpenIds = {} THEN None ELSE CHOOSE i \in OpenIds : \A j \in OpenIds : i <= j

findOpenTransaction ==
    IF OpenIds = {} THEN None ELSE CHOOSE i \in OpenIds : \A j \in OpenIds : i >= j

Closed(id) == IF rows[id] = "open" THEN [rows EXCEPT ![id] = "closed"] ELSE rows

----------------------------------------------------------------------------
(* The charger.  Send appends to the socket in use; offline, it is lost.   *)
Sent(msgs) == IF cur = None THEN inbox ELSE inbox \o msgs
Room == Len(inbox) < MaxInbox

StatusOf(st, plug) ==
    [kind |-> "status", connectorId |-> 1, status |-> st, plug |-> plug]
Controller0 == [kind |-> "status", connectorId |-> 0, status |-> "Available", plug |-> 0]
StopOf(id) == [kind |-> "stop", tx |-> id]

Unmoved == UNCHANGED <<cur, open, registered, onConn, stateVars, rows, lp, historyVars,
                       settled>>

PlugIn ==
    /\ cable = 0 /\ plugs < MaxPlugs /\ Room /\ ~settled
    /\ plugs' = plugs + 1 /\ cable' = plugs' /\ status' = "Preparing"
    /\ inbox' = Sent(<<StatusOf("Preparing", cable')>>)
    /\ UNCHANGED <<ctx, backlog, startCmd>> /\ Unmoved

(* A running transaction ends with the cable or, when the car is full,     *)
(* without; offline, its StopTransaction is kept or lost.                  *)
EndTransaction(next, plug) ==
    /\ status' = next
    /\ ctx' = None
    /\ IF ctx \in Ids
         THEN IF cur # None
                THEN inbox' = Sent(<<StopOf(ctx), StatusOf(next, plug)>>) /\ UNCHANGED backlog
                ELSE backlog' \in {ctx, backlog} /\ UNCHANGED inbox
         ELSE inbox' = Sent(<<StatusOf(next, plug)>>) /\ UNCHANGED backlog

Unplug ==
    /\ cable # 0 /\ Room /\ ~settled /\ ctx # Starting
    /\ EndTransaction("Available", 0)
    /\ cable' = 0 /\ startCmd' = FALSE
    /\ UNCHANGED plugs /\ Unmoved

CarFull ==
    /\ ctx \in Ids /\ Room /\ ~settled
    /\ EndTransaction("Finishing", cable)
    /\ UNCHANGED <<cable, plugs, startCmd>> /\ Unmoved

(* Preparing again with the cable still in, and the car pausing a session. *)
CarCycles ==
    /\ Room /\ ~settled
    /\ \/ status = "Finishing" /\ status' = "Preparing"
       \/ status = "Charging" /\ status' = "SuspendedEV"
    /\ inbox' = Sent(<<StatusOf(status', cable)>>)
    /\ UNCHANGED <<cable, ctx, backlog, plugs, startCmd>> /\ Unmoved

ObeyRemoteStart ==
    /\ startCmd /\ Room /\ FreeIds # {}
    /\ startCmd' = FALSE
    /\ IF cable # 0 /\ ctx = None
         THEN ctx' = Starting /\ inbox' = Sent(<<[kind |-> "start"]>>)
         ELSE UNCHANGED <<ctx, inbox>>
    /\ UNCHANGED <<cable, status, backlog, plugs>> /\ Unmoved

(* MeterValues need not name the transaction, nor wait for one. *)
Meter ==
    /\ ctx # Starting /\ cur # None /\ inbox = <<>>
    /\ \E tx \in {ctx, None} : inbox' = Sent(<<[kind |-> "meter", tx |-> tx]>>)
    /\ UNCHANGED <<chargerVars, startCmd>> /\ Unmoved

(* The status of connector 0, the main controller; most chargers send it   *)
(* when they come up or are idle.  With a car plugged in it is left out:   *)
(* the server would take it for the car's, and close its transaction.      *)
ControllerStatus ==
    /\ cur # None /\ Room /\ ~settled
    /\ cable = 0
    /\ inbox' = Sent(<<Controller0>>)
    /\ UNCHANGED <<chargerVars, startCmd>> /\ Unmoved

----------------------------------------------------------------------------
(* Sockets.  What is under way is lost with the socket, except a stop the  *)
(* charger keeps.                                                          *)
LinkLost ==
    /\ cur' = None /\ inbox' = <<>> /\ startCmd' = FALSE
    /\ backlog' \in {backlog} \union {m.tx : m \in {n \in ToSet(inbox) : n.kind = "stop"}}
    /\ UNCHANGED <<cable, status, ctx, plugs>>

LinkDrops ==
    /\ cur # None /\ ~settled
    /\ LinkLost
    /\ UNCHANGED <<open, registered, onConn, stateVars, rows, lp, historyVars, settled>>

(* attachClient: a fresh state under the station's id, the open transaction*)
(* rehydrated from the database, onConnect scheduled.                      *)
attachClient(s) ==
    /\ cur = None /\ s \notin open \union onConn
    /\ cur' = s
    /\ open' = open \union {s} /\ registered' = s /\ onConn' = onConn \union {s}
    /\ activeTx' = findOpenTransaction /\ hasAutoStarted' = FALSE
    /\ inbox' = (IF backlog = None THEN <<>> ELSE <<StopOf(backlog)>>)
                   \o (IF ctx = Starting THEN <<[kind |-> "start"]>> ELSE <<>>)
    /\ backlog' = None /\ startCmd' = FALSE
    /\ autoStarted' = {} /\ wasAvailable' = FALSE
    /\ UNCHANGED <<cable, status, ctx, plugs, rows, lp, settled>>

(* The disconnect handler.  Slip: it evicts whatever socket is registered. *)
evictAny(s) ==
    /\ registered' = None
    /\ lp' = Folded("Unavailable", FALSE, FALSE)

evict(s) ==
    IF registered = s
      THEN registered' = None /\ lp' = Folded("Unavailable", FALSE, FALSE)
      ELSE UNCHANGED <<registered, lp>>

onDisconnect(s) ==
    /\ s \in open /\ s # cur
    /\ open' = open \ {s}
    /\ evict(s)
    /\ UNCHANGED <<cur, chargerVars, inbox, startCmd, onConn, stateVars, rows, historyVars,
                   settled>>

(* The end of onConnect: TriggerMessage is answered with the connector's   *)
(* status, or fails (unsupported, or the socket is gone) and the fallback  *)
(* reports an available, connected charger.                                *)
TriggerAnswered(s) ==
    /\ s \in onConn /\ s = cur /\ SupportsTrigger
    /\ onConn' = onConn \ {s}
    /\ inbox' = Sent(<<StatusOf(status, cable)>>)
    /\ UNCHANGED <<cur, chargerVars, startCmd, open, registered, stateVars, rows, lp,
                   historyVars, settled>>

TriggerFails(s) ==
    /\ s \in onConn /\ (s # cur \/ ~SupportsTrigger)
    /\ onConn' = onConn \ {s}
    /\ lp' = Folded("Available", TRUE, FALSE)
    /\ UNCHANGED <<cur, chargerVars, inbox, startCmd, open, registered, stateVars, rows,
                   historyVars, settled>>

(* An OSC crash or restart: the database and the charger are what is left. *)
Restart ==
    /\ ~settled /\ (open # {} \/ onConn # {})
    /\ LinkLost
    /\ open' = {} /\ registered' = None /\ onConn' = {}
    /\ activeTx' = None /\ hasAutoStarted' = FALSE
    /\ lp' = Folded(None, FALSE, FALSE)
    /\ UNCHANGED <<rows, historyVars, settled>>

----------------------------------------------------------------------------
(* The inbound handlers, each for the message at the head of the inbox.    *)
Handling(kind) ==
    /\ inbox # <<>> /\ Head(inbox).kind = kind
    /\ UNCHANGED <<cur, open, registered, onConn, settled>>

computeConnectionState(st) ==
    [charging  |-> st \in {"Charging", "SuspendedEV"},
     connected |-> st # "Available"]

shouldAutoStartTransaction(st, tx, already) ==
    st = "Preparing" /\ tx = None /\ ~already

(* Slips: an Available does not clear the held transaction; the auto-start *)
(* is re-armed by every idle status.                                       *)
KeepHeldTransaction(st) ==
    /\ hasAutoStarted' = (hasAutoStarted /\ st # "Available")
    /\ UNCHANGED <<activeTx, rows>>

ReleaseRearmsWhenIdle(st) ==
    /\ hasAutoStarted' = (hasAutoStarted /\ st \notin {"Available", "Finishing"})
    /\ IF st = "Available" /\ activeTx # None
         THEN activeTx' = None /\ rows' = Closed(activeTx)
         ELSE UNCHANGED <<activeTx, rows>>

Release(st) ==
    /\ hasAutoStarted' = (hasAutoStarted /\ st # "Available")
    /\ IF st = "Available" /\ activeTx # None
         THEN activeTx' = None /\ rows' = Closed(activeTx)
         ELSE UNCHANGED <<activeTx, rows>>

StatusNotification ==
    /\ Handling("status")
    /\ LET m == Head(inbox)
           state == computeConnectionState(m.status)
           go == shouldAutoStartTransaction(m.status, activeTx, hasAutoStarted)
       IN /\ lp' = Folded(m.status, state.connected, state.charging)
          /\ IF go THEN hasAutoStarted' = TRUE /\ UNCHANGED <<activeTx, rows>>
                   ELSE Release(m.status)
          /\ startCmd' = (startCmd \/ go)
          /\ autoStarted' = IF go THEN autoStarted \union {m.plug} ELSE autoStarted
          /\ wasAvailable' = (m.status = "Available")
    /\ inbox' = Tail(inbox)
    /\ UNCHANGED chargerVars

(* A transaction the charger names is adopted; one it does not name is the *)
(* one the server holds.                                                   *)
MeterValues ==
    /\ Handling("meter")
    /\ LET named == Head(inbox).tx
       IN activeTx' = IF named # None THEN named ELSE activeTx
    /\ lp' = IF activeTx' # None THEN Folded("Charging", TRUE, TRUE) ELSE lp
    /\ inbox' = Tail(inbox)
    /\ UNCHANGED <<chargerVars, startCmd, hasAutoStarted, rows, historyVars>>

(* StartTransaction: the row and the state first, then the answer, which   *)
(* tells the charger its id ...                                            *)
StartRow ==
    /\ FreeIds # {}
    /\ rows' = [rows EXCEPT ![NextId] = "open"]
    /\ activeTx' = NextId
    /\ lp' = Folded("Charging", TRUE, TRUE)
    /\ UNCHANGED hasAutoStarted

StartTransaction ==
    /\ Handling("start") /\ StartRow
    /\ ctx' = NextId /\ status' = "Charging"
    /\ inbox' = Append(Tail(inbox), StatusOf("Charging", cable))
    /\ UNCHANGED <<cable, backlog, plugs, startCmd, historyVars>>

(* ... unless the socket drops first: the charger will ask again.          *)
StartUnanswered ==
    /\ inbox # <<>> /\ Head(inbox).kind = "start" /\ ~settled
    /\ Cardinality(FreeIds) > 1
    /\ StartRow
    /\ LinkLost
    /\ UNCHANGED <<open, registered, onConn, historyVars, settled>>

(* finishTransaction closes the named row; the held id is forgotten        *)
(* whichever transaction it names.                                         *)
StopTransaction ==
    /\ Handling("stop")
    /\ rows' = Closed(Head(inbox).tx)
    /\ activeTx' = None
    /\ lp' = Folded("Finishing", TRUE, FALSE)
    /\ inbox' = Tail(inbox)
    /\ UNCHANGED <<chargerVars, startCmd, hasAutoStarted, historyVars>>

(* The commands of the API and of the session reconciler go to the         *)
(* registered socket; remoteStop names the held transaction, and the       *)
(* charger ends it if it is the one that runs.                             *)
remoteStart ==
    /\ registered # None /\ registered = cur /\ ~startCmd /\ ~settled
    /\ startCmd' = TRUE
    /\ UNCHANGED <<chargerVars, inbox>> /\ Unmoved

remoteStop ==
    /\ registered # None /\ registered = cur /\ activeTx # None
    /\ activeTx = ctx /\ Room /\ ~settled
    /\ EndTransaction("Finishing", cable)
    /\ UNCHANGED <<cable, plugs, startCmd>> /\ Unmoved

Settle == ~settled /\ settled' = TRUE
          /\ UNCHANGED <<cur, chargerVars, inbox, startCmd, open, registered, onConn,
                         stateVars, rows, lp, historyVars>>

Charger == PlugIn \/ Unplug \/ CarFull \/ CarCycles \/ ObeyRemoteStart \/ Meter
           \/ ControllerStatus \/ LinkDrops
Handlers == StatusNotification \/ MeterValues \/ StartTransaction \/ StopTransaction
Connections == \E s \in Sockets : attachClient(s) \/ onDisconnect(s)
                                   \/ TriggerAnswered(s) \/ TriggerFails(s)

Commands == remoteStart \/ remoteStop

Next == Charger \/ Handlers \/ Commands \/ StartUnanswered \/ Connections \/ Restart \/ Settle

(* Messages are handled, the charger reconnects, sockets are seen to close *)
(* and TriggerMessage is answered or times out; nothing else has to happen.*)
Fairness ==
    /\ WF_vars(Handlers)
    /\ \A s \in Sockets : /\ WF_vars(onDisconnect(s))
                          /\ WF_vars(TriggerAnswered(s) \/ TriggerFails(s))
    /\ WF_vars(\E s \in Sockets : attachClient(s))

OcppSpec == Init /\ [][Next]_vars /\ Fairness

----------------------------------------------------------------------------
(* The disconnect of a socket the charger has already replaced never takes *)
(* the station's live registration away ("without this guard the stale     *)
(* disconnect would delete the live registration").                        *)
LiveSocketRegistered == cur # None => registered = cur

(* On a quiet socket the server holds the id of the running transaction,   *)
(* so remoteStop stops the right one, also after reconnects and restarts.  *)
RunningTransactionHeld ==
    cur # None /\ inbox = <<>> /\ ctx \in Ids => activeTx = ctx

(* On one connection a plug-in is auto-started at most once, and over all  *)
(* connections never while a transaction of it runs: a full car that       *)
(* cycles through Finishing and Preparing does not churn transactions.     *)
AutoStartOncePerConnection ==
    [][~hasAutoStarted /\ hasAutoStarted'
         => Head(inbox).plug \notin autoStarted /\ ctx \notin Ids]_vars

(* A car seen for the first time on a connection is auto-started, also one *)
(* swapped in while the charger was offline: no guard of an earlier car    *)
(* holds it back, nor, once an Available was seen, a transaction of it.    *)
NextCarIsAutoStarted ==
    [][StatusNotification /\ Head(inbox).status = "Preparing"
         /\ Head(inbox).plug \notin autoStarted /\ (wasAvailable \/ activeTx = None)
         => startCmd']_vars

=============================================================================
