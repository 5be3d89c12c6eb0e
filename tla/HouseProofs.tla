---------------------------- MODULE HouseProofs ----------------------------
(***************************************************************************)
(* Theorems about the parts of House, for all modes, names, rows, loads    *)
(* and secrets: the bridge's mirror, the round trip of a configuration,    *)
(* the wiring of chargers and loadpoints and the memory of past loads; and *)
(* about the cars that stand in front of it (Vehicle).                     *)
(* Each has an inductive invariant of its own part; the parts share no     *)
(* variable, so a step of one leaves the invariants of the others alone.   *)
(***************************************************************************)
EXTENDS House, Vehicle, TLAPS, WellFoundedInduction, FiniteSetTheorems

(***************************************************************************)
(* The bridge.  What makes the mirror right at the next connection is what *)
(* the client holds back meanwhile.                                        *)
(***************************************************************************)

(* Only a client that knows it is not connected holds back a publication,  *)
(* and of a loadpoint that is gone it is the clearing, unless the topics   *)
(* are clear already; on a dead connection the clearing was in time.       *)
Undelivered ==
    /\ session # "down" => waiting = Nothing
    /\ ~ghost /\ loadpoint = Gone =>
         IF waiting = Nothing THEN retained = Cleared ELSE waiting = Cleared

BridgeInv == BridgeTypeOK /\ Undelivered /\ MirrorIsCurrent /\ OneSchedule

LEMMA BridgeInvInit == HouseInit => BridgeInv
<1> USE BridgeAssumption DEF BridgeInv, BridgeTypeOK, Undelivered, MirrorIsCurrent, OneSchedule,
        Gone, Cleared, Nothing, NoTimers
<1>1. ASSUME BridgeInit \/ NoBridge PROVE BridgeInv
  <2>1. {ghost, entity} \subseteq BOOLEAN
    BY <1>1, Zenon DEF BridgeInit, NoBridge
  <2>2. /\ session \in {"off", "down"} /\ loadpoint = NewMode /\ retained = Cleared
        /\ waiting = Nothing /\ hourly = [timeout |-> 0, interval |-> 0]
    BY <1>1 DEF BridgeInit, NoBridge
  <2>3. QED
    BY <2>1, <2>2
<1>3. QED
  BY <1>1, Zenon DEF HouseInit

(* What a publication of the loadpoint's new state does: delivered, held   *)
(* back, or lost.                                                          *)
LEMMA PublishKeeps ==
  ASSUME BridgeInv, session # "off", UNCHANGED <<session, entity, hourly>>,
         loadpoint' \in Modes \cup {Gone}, publish(Mirror(loadpoint'))
  PROVE  BridgeInv'
<1> USE BridgeAssumption DEF BridgeInv, BridgeTypeOK, Gone, Cleared, Nothing
<1>1. BridgeTypeOK'
  <2>1. {ghost', entity'} \subseteq BOOLEAN
    <3>1. ghost' \in BOOLEAN
      BY Zenon DEF publish
    <3>2. QED
      BY <3>1
  <2>2. retained' \in Modes \cup {Cleared} /\ waiting' \in Modes \cup {Cleared, Nothing}
    BY DEF publish, Mirror
  <2>3. session' \in {"off", "down", "up", "dead"} /\ hourly' \in [timeout : 0..1, interval : 0..1]
    OBVIOUS
  <2>4. loadpoint' \in Modes \cup {Gone}
    OBVIOUS
  <2>5. QED
    BY ONLY <2>1, <2>2, <2>3, <2>4, Zenon DEF BridgeTypeOK
<1>2. Undelivered'
  BY DEF publish, Mirror, Undelivered
<1>3. MirrorIsCurrent'
  BY DEF publish, Mirror, MirrorIsCurrent
<1>4. OneSchedule'
  BY DEF OneSchedule
<1>5. QED
  BY <1>1, <1>2, <1>3, <1>4

LEMMA BridgeStepKeeps ==
  ASSUME BridgeInv, BridgeNext
  PROVE  BridgeInv'
<1> USE BridgeAssumption DEF BridgeInv, BridgeTypeOK, Gone, Cleared, Nothing
<1>1. CASE BridgeConnects
  <2>1. hourly' = [timeout |-> 1, interval |-> 0]
    BY <1>1 DEF BridgeConnects, scheduleHourlyTariffPublish, clear, NoTimers
  <2>2. BridgeTypeOK' /\ OneSchedule'
    BY <1>1, <2>1 DEF BridgeConnects, publishHaDiscovery, OneSchedule
  <2>3. Undelivered' /\ MirrorIsCurrent'
    BY <1>1 DEF BridgeConnects, Undelivered, MirrorIsCurrent, Mirror
  <2>4. QED
    BY <2>2, <2>3
<1>2. CASE BridgeDisconnects \/ LinkDies
  BY <1>2 DEF BridgeDisconnects, LinkDies, Undelivered, MirrorIsCurrent, Mirror, OneSchedule
<1>3. ASSUME NEW m \in Modes, Command(m) \/ ModeElsewhere(m) PROVE BridgeInv'
  <2>1. session # "off" /\ loadpoint' = m /\ publish(Mirror(loadpoint')) /\ UNCHANGED <<session, entity, hourly>>
    BY <1>3 DEF Command, ModeElsewhere, modeChange, publishState, Mirror
  <2>2. QED
    BY <2>1, PublishKeeps
<1>4. CASE AddLoadpoint \/ RemoveLoadpoint
  <2>1. /\ session # "off" /\ loadpoint' \in Modes \cup {Gone} /\ publish(Mirror(loadpoint'))
        /\ UNCHANGED <<session, entity, hourly>>
    BY <1>4 DEF AddLoadpoint, RemoveLoadpoint, configChanged
  <2>2. QED
    BY <2>1, PublishKeeps
<1>5. CASE FullHour
  <2>1. hourly.timeout = 1 /\ hourly.interval = 0
    BY <1>5 DEF FullHour, OneSchedule
  <2>2. hourly' = [timeout |-> 0, interval |-> 1]
    BY <1>5, <2>1 DEF FullHour
  <2>3. QED
    BY <1>5, <2>2 DEF FullHour, Undelivered, MirrorIsCurrent, Mirror, OneSchedule
<1>6. CASE BridgeRestarts
  <2>1. ghost' \in BOOLEAN
    BY <1>6, Zenon DEF BridgeRestarts
  <2>2. /\ session' = "down" /\ waiting' = Nothing /\ hourly' = [timeout |-> 0, interval |-> 0]
        /\ loadpoint' = loadpoint /\ retained' = retained /\ entity' = entity
    BY <1>6 DEF BridgeRestarts, NoTimers
  <2>3. BridgeTypeOK' /\ MirrorIsCurrent' /\ OneSchedule'
    BY <2>1, <2>2 DEF MirrorIsCurrent, OneSchedule
  <2>4. ~ghost' => ~ghost /\ waiting # Cleared
    BY <1>6, Zenon DEF BridgeRestarts
  <2>5. Undelivered'
    BY <2>2, <2>4 DEF Undelivered, MirrorIsCurrent, Mirror
  <2>6. QED
    BY <2>3, <2>5
<1>7. QED
  BY <1>1, <1>2, <1>3, <1>4, <1>5, <1>6 DEF BridgeNext

LEMMA BridgeInvStep == BridgeInv /\ [HouseNext]_houseVars => BridgeInv'
<1>1. ASSUME BridgeInv, UNCHANGED bridgeVars PROVE BridgeInv'
  BY <1>1 DEF bridgeVars, BridgeInv, BridgeTypeOK, Undelivered, MirrorIsCurrent, Mirror, OneSchedule
<1>2. QED
  BY <1>1, BridgeStepKeeps DEF HouseNext, houseVars

(* However the connection broke, whatever was published meanwhile, and     *)
(* however often it came back: on a connection that works the topics are   *)
(* the loadpoint's, and there is one hourly schedule.                      *)
THEOREM BridgeTheorem == HouseSpec => []BridgeKeepsUp
<1>1. BridgeInv => BridgeKeepsUp
  BY DEF BridgeInv, BridgeKeepsUp
<1>2. QED
  BY <1>1, BridgeInvInit, BridgeInvStep, PTL DEF HouseSpec

(***************************************************************************)
(* The transfer of the configuration.  An import changes nothing because   *)
(* what the document says, and what memory gives back for a placeholder,   *)
(* is what the rows have; a document stops being the installation's own    *)
(* when either moves.                                                      *)
(***************************************************************************)

Documents == [field : Fields, mode : UserModes, days : Days, own : BOOLEAN]

(* A document of the installation's own says what there is, or has the     *)
(* placeholder of what memory knows.                                       *)
OwnIsCurrent ==
    document.own /\ place # "balancer" =>
        /\ place # "nowhere" /\ memory = row /\ liveMode = savedMode
        /\ document.mode = savedMode /\ document.days = retention
        /\ \/ document.field = memory
           \/ document.field = "redacted" /\ memory \notin {"absent", "unset"}

(* The placeholder is no credential of a vehicle or a meter.               *)
NoPlaceholder == place \in {"vehicle", "meter"} => row # "redacted" /\ memory # "redacted"

TransferInv ==
    /\ TransferTypeOK
    /\ place = "nowhere" => document = NoDocument
    /\ OwnIsCurrent /\ NoPlaceholder

LEMMA TransferInvInit == HouseInit => TransferInv
<1>1. ASSUME TransferInit \/ NoTransfer PROVE TransferInv
  <2>1. /\ document = NoDocument /\ retention = DefaultDays /\ place \in Places \cup {"nowhere"}
        /\ row \in Fields \ {"redacted"} /\ memory = row
    BY <1>1, TransferAssumption DEF TransferInit, NoTransfer, Fields
  <2>2. {savedMode, liveMode} \subseteq UserModes
    <3>1. (CHOOSE m \in UserModes : TRUE) \in UserModes
      BY TransferAssumption
    <3>2. QED
      BY <1>1, <3>1 DEF TransferInit, NoTransfer
  <2>3. QED
    BY <2>1, <2>2, TransferAssumption
       DEF TransferInv, TransferTypeOK, OwnIsCurrent, NoPlaceholder, NoDocument
<1>2. QED
  BY <1>1, Zenon DEF HouseInit

(* What an import writes, of a document as it is.                          *)
LEMMA ImportKeeps ==
  ASSUME TransferInv, Import
  PROVE  /\ NoPlaceholder'
         /\ document.own /\ place # "balancer" =>
              UNCHANGED <<row, memory, savedMode, liveMode, retention>>
<1> USE TransferAssumption DEF TransferInv, Import, Places
<1>1. ASSUME place \in {"vehicle", "meter"} PROVE row' # "redacted" /\ memory' # "redacted"
  <2>1. deRedact(document.field) # "redacted"
    BY <1>1 DEF deRedact, known, NoPlaceholder
  <2>2. CASE importMerge
    BY <1>1, <2>1, <2>2 DEF importMerge, overlaid, NoPlaceholder
  <2>3. CASE importReplace
    BY <1>1, <2>1, <2>3 DEF importReplace, NoPlaceholder
  <2>4. QED
    BY <2>2, <2>3
<1>2. ASSUME document.own, place # "balancer"
      PROVE  UNCHANGED <<row, memory, savedMode, liveMode, retention>>
  <2>1. deRedact(document.field) = row
    BY <1>2 DEF TransferTypeOK, OwnIsCurrent, NoPlaceholder, deRedact, known
  <2>2. row' = row /\ retention' = retention
    <3>1. CASE importMerge
      BY <1>2, <2>1, <3>1 DEF OwnIsCurrent, importMerge, overlaid
    <3>2. CASE importReplace
      BY <1>2, <2>1, <3>2 DEF OwnIsCurrent, importReplace
    <3>3. QED
      BY <3>1, <3>2
  <2>3. QED
    BY <1>2, <2>2 DEF OwnIsCurrent, applyConfigToLoadpoints
<1>3. QED
  BY <1>1, <1>2 DEF NoPlaceholder

(* An edit makes the document another installation's.                      *)
LEMMA EditDisowns ==
  ASSUME TransferTypeOK, Edited
  PROVE  /\ document' = NoDocument \/ document' \in Documents
         /\ ~document'.own
<1>1. CASE document = NoDocument
  BY <1>1 DEF Edited, NoDocument
<1>2. CASE document \in Documents
  BY <1>2 DEF Edited, Documents
<1>3. QED
  BY <1>1, <1>2 DEF TransferTypeOK, Documents

LEMMA TransferTypes == TransferTypeOK /\ TransferNext => TransferTypeOK'
<1> SUFFICES ASSUME TransferTypeOK, TransferNext PROVE TransferTypeOK'
  OBVIOUS
<1> USE TransferAssumption DEF TransferTypeOK
<1>1. ASSUME NEW secrets \in BOOLEAN, Export(secrets) PROVE TransferTypeOK'
  <2>1. buildConfigExport(secrets).field \in Fields
    BY DEF buildConfigExport, redactSecrets, redactPasswords, Fields
  <2>2. (memory = row /\ liveMode = savedMode) \in BOOLEAN
    OBVIOUS
  <2>3. document' \in Documents
    BY <1>1, <2>1, <2>2 DEF Export, buildConfigExport, Documents
  <2>4. QED
    BY <1>1, <2>3 DEF Export, Documents
<1>2. ASSUME NEW field \in Fields, NEW mode \in UserModes, NEW days \in Days,
             EditDocument(field, mode, days)
      PROVE  TransferTypeOK'
  BY <1>2 DEF EditDocument
<1>3. CASE Import
  <2>1. document \in Documents
    BY <1>3 DEF Import, Documents
  <2>2. deRedact(document.field) \in Fields
    BY <2>1 DEF deRedact, known, Fields, Documents
  <2>3. row' \in Fields /\ retention' \in Days
    BY <1>3, <2>1, <2>2 DEF Import, importMerge, importReplace, overlaid, Documents
  <2>4. savedMode' \in UserModes
    BY <1>3, <2>1 DEF Import, applyConfigToLoadpoints, Documents
  <2>5. QED
    BY <1>3, <2>3, <2>4 DEF Import
<1>4. ASSUME NEW secret \in Secrets, PutEntity(secret) PROVE TransferTypeOK'
  BY <1>4, EditDisowns DEF PutEntity, Fields, Documents
<1>5. CASE DeleteEntity
  BY <1>5, EditDisowns DEF DeleteEntity, Fields, Documents
<1>6. CASE PutBridge
  BY <1>6, EditDisowns DEF PutBridge, Shown, Fields, Documents
<1>7. ASSUME NEW mode \in UserModes, PutMode(mode) PROVE TransferTypeOK'
  BY <1>7, EditDisowns DEF PutMode, Documents
<1>8. ASSUME NEW days \in Days, PutRetention(days) PROVE TransferTypeOK'
  BY <1>8, EditDisowns DEF PutRetention, Documents
<1>9. CASE TransferRestarts
  BY <1>9 DEF TransferRestarts
<1>10. QED
  BY <1>1, <1>2, <1>3, <1>4, <1>5, <1>6, <1>7, <1>8, <1>9 DEF TransferNext

LEMMA TransferStepKeeps ==
  ASSUME TransferInv, TransferNext
  PROVE  /\ TransferInv'
         /\ document.own /\ document'.own /\ place # "balancer" =>
              UNCHANGED <<row, memory, savedMode, liveMode, retention>>
<1> USE TransferAssumption
<1>0. TransferTypeOK'
  BY TransferTypes DEF TransferInv
<1>1. ASSUME NEW secrets \in BOOLEAN, Export(secrets)
      PROVE  TransferInv' /\ UNCHANGED <<row, memory, savedMode, liveMode, retention>>
  <2>1. buildConfigExport(secrets).field \in {memory, "redacted"}
    BY DEF buildConfigExport, redactSecrets, redactPasswords
  <2>2. memory \in {"absent", "unset"} => buildConfigExport(secrets).field = memory
    BY DEF buildConfigExport, redactSecrets, redactPasswords
  <2>3. OwnIsCurrent'
    BY <1>1, <2>1, <2>2 DEF Export, buildConfigExport, OwnIsCurrent
  <2>4. QED
    BY <1>0, <1>1, <2>3 DEF TransferInv, NoPlaceholder, Export
<1>2. ASSUME NEW field \in Fields, NEW mode \in UserModes, NEW days \in Days,
             EditDocument(field, mode, days)
      PROVE  TransferInv' /\ ~document'.own
  BY <1>0, <1>2 DEF TransferInv, OwnIsCurrent, NoPlaceholder, EditDocument
<1>3. CASE Import
  BY <1>0, <1>3, ImportKeeps DEF TransferInv, OwnIsCurrent, Import
<1>4. ASSUME Edited, place' = place, NoPlaceholder'
      PROVE  TransferInv' /\ ~document'.own
  BY <1>0, <1>4, EditDisowns DEF TransferInv, OwnIsCurrent, Edited
<1>5. ASSUME NEW secret \in Secrets, PutEntity(secret) PROVE NoPlaceholder'
  BY <1>5 DEF PutEntity, NoPlaceholder
<1>6. DeleteEntity \/ PutBridge => NoPlaceholder'
  BY DEF DeleteEntity, PutBridge, NoPlaceholder
<1>7. CASE TransferRestarts
  BY <1>0, <1>7 DEF TransferInv, OwnIsCurrent, NoPlaceholder, TransferRestarts
<1>8. QED
  BY <1>1, <1>2, <1>3, <1>4, <1>5, <1>6, <1>7
     DEF TransferNext, PutEntity, DeleteEntity, PutBridge, PutMode, PutRetention, TransferInv,
         NoPlaceholder

LEMMA TransferInvStep ==
  TransferInv /\ [HouseNext]_houseVars =>
      /\ TransferInv'
      /\ [/\ document.own /\ document'.own /\ place # "balancer"
              => UNCHANGED <<row, memory, savedMode, liveMode, retention>>
          /\ place \in {"vehicle", "meter"} => row' # "redacted"]_transferVars
<1> SUFFICES ASSUME TransferInv, [HouseNext]_houseVars
             PROVE  /\ TransferInv'
                    /\ document.own /\ document'.own /\ place # "balancer"
                         => UNCHANGED <<row, memory, savedMode, liveMode, retention>>
                    /\ place' = place
  BY DEF TransferInv, NoPlaceholder
<1>1. CASE UNCHANGED transferVars
  BY <1>1 DEF transferVars, TransferInv, TransferTypeOK, OwnIsCurrent, NoPlaceholder
<1>2. CASE TransferNext
  <2>1. place' = place
    BY <1>2 DEF TransferNext, Export, EditDocument, Import, PutEntity, DeleteEntity, PutBridge,
                PutMode, PutRetention, TransferRestarts
  <2>2. QED
    BY <1>2, <2>1, TransferStepKeeps
<1>3. QED
  BY <1>1, <1>2 DEF HouseNext, houseVars

(* Whatever was exported, edited, imported and restarted before, a         *)
(* document that comes back to where it was exported from changes nothing, *)
(* and no vehicle or meter is given the placeholder for its password.      *)
THEOREM TransferTheorem == HouseSpec => RoundTripKeeps
  BY TransferInvInit, TransferInvStep, PTL DEF HouseSpec, RoundTripKeeps

(***************************************************************************)
(* Chargers and loadpoints.  The wiring is right because what is in memory *)
(* is what a start would make of the rows, save for the tariffs of the     *)
(* circuits and the vehicle bindings.                                      *)
(***************************************************************************)

(* The rows, and what there is in memory, have their fields.               *)
IsRows(o) ==
    /\ DOMAIN o = DOMAIN NoRows
    /\ DOMAIN o.chargers \subseteq Names /\ DOMAIN o.loadpoints \subseteq DOMAIN o.chargers
    /\ \A n \in DOMAIN o.chargers : o.chargers[n] \in Handles
    /\ \A n \in DOMAIN o.loadpoints : o.loadpoints[n] \in Bindings

IsSite(s) == DOMAIN s = DOMAIN Nowhere

(* The state of each loadpoint: its saved mode, the ceiling of its charger.*)
StatesOf(s, modes) ==
    [n \in DOMAIN s.loadpoints |-> [mode |-> modes[n], maxA |-> s.chargers[n].amps]]

(* The handle of each, by its ceiling, and its one listener.               *)
LimitsOf(s) == [n \in DOMAIN s.loadpoints |-> s.chargers[n]]
SubsOf(s) == [n \in Names |-> IF n \in DOMAIN s.loadpoints THEN 1 ELSE 0]

(* What is in memory follows from the rows.                                *)
FollowsRows(s, o, modes) ==
    /\ s.chargers = o.chargers /\ s.vehicles = o.vehicles
    /\ DOMAIN s.loadpoints = DOMAIN o.loadpoints /\ DOMAIN s.loadpoints \subseteq DOMAIN modes
    /\ \A n \in DOMAIN s.loadpoints :
          s.loadpoints[n] \in Bindings /\ s.loadpoints[n].tariff = o.loadpoints[n].tariff
    /\ s.states = StatesOf(s, modes)

(* The stations of chargers c, L of which have a loadpoint, as the OCPP    *)
(* server has them; those of two chargers are among the shared ones.       *)
Stationed(c, L, registered, named, shared) ==
    /\ \A n, m \in DOMAIN c : n # m /\ c[n].station = c[m].station => c[n].station \in shared
    /\ registered \subseteq {c[n].station : n \in DOMAIN c}
    /\ \A n \in DOMAIN c : c[n].station \notin shared => c[n].station \in registered
    /\ \A n \in L : c[n].station \notin shared =>
          c[n].station \in DOMAIN named /\ named[c[n].station] = n
    /\ \A station \in DOMAIN named : named[station] \in L /\ c[named[station]].station = station

StationsKnown(s) ==
    Stationed(s.chargers, DOMAIN s.loadpoints, s.registered, s.named, s.shared)

(* LoadpointIsWired, of what is in memory.                                 *)
IsWired(s) ==
    /\ DOMAIN s.circuits = DOMAIN s.loadpoints
    /\ StationsKnown(s)
    /\ s.limits = LimitsOf(s) /\ s.subs = SubsOf(s)

GarageInv ==
    /\ IsRows(overrides)
    /\ IF running = "up" THEN IsSite(site) /\ FollowsRows(site, overrides, saved) /\ IsWired(site)
       ELSE site = Nowhere

(* What a start tells the OCPP server.                                     *)
NamesAtBoot ==
    [station \in {overrides.chargers[n].station : n \in DOMAIN overrides.loadpoints} |->
        CHOOSE n \in DOMAIN overrides.loadpoints : overrides.chargers[n].station = station]

(* A start.                                                                *)
LEMMA BootedIs ==
  /\ Booted.chargers = overrides.chargers /\ Booted.vehicles = overrides.vehicles
  /\ Booted.loadpoints = overrides.loadpoints
  /\ Booted.states = [n \in DOMAIN overrides.loadpoints |->
                          [mode |-> Saved(n), maxA |-> overrides.chargers[n].amps]]
  /\ Booted.limits = [n \in DOMAIN overrides.loadpoints |-> overrides.chargers[n]]
  /\ Booted.circuits = [n \in DOMAIN overrides.loadpoints |-> overrides.loadpoints[n].tariff]
  /\ Booted.subs = [n \in Names |-> IF n \in DOMAIN overrides.loadpoints THEN 1 ELSE 0]
  /\ Booted.registered = StationsOf(overrides) /\ Booted.shared = SharedBy(overrides.chargers)
  /\ Booted.named = NamesAtBoot
  /\ IsRows(overrides) => IsSite(Booted)
<1> DEFINE made == createModules
           lps == DOMAIN overrides.loadpoints
           states == [n \in lps |-> [mode |-> Saved(n), maxA |-> overrides.chargers[n].amps]]
<1>1. /\ made.chargers = overrides.chargers /\ made.loadpoints = overrides.loadpoints
      /\ made.vehicles = overrides.vehicles
      /\ made.registered = StationsOf(overrides) /\ made.shared = SharedBy(overrides.chargers)
      /\ DOMAIN made = DOMAIN Nowhere
  BY DEF createModules, Nowhere
<1>2. loadLoadpointStates(made) = states
  BY <1>1 DEF loadLoadpointStates, configToLoadpointInits
<1> HIDE DEF made, states
<1> DEFINE seeded == seedStates(made)
<1>3. /\ seeded.chargers = overrides.chargers /\ seeded.loadpoints = overrides.loadpoints
      /\ seeded.vehicles = overrides.vehicles
      /\ seeded.registered = StationsOf(overrides) /\ seeded.shared = SharedBy(overrides.chargers)
      /\ seeded.states = states
      /\ seeded.circuits = [n \in lps |-> overrides.loadpoints[n].tariff]
      /\ DOMAIN seeded = DOMAIN Nowhere
  BY <1>1, <1>2 DEF seedStates, rebuildCircuits, Nowhere
<1> HIDE DEF seeded
<1>4. Booted = nameStations(chargerLimitMap(wireChargers(seeded)))
  BY DEF Booted, seeded, made
<1>5. /\ Booted.chargers = overrides.chargers /\ Booted.loadpoints = overrides.loadpoints
      /\ Booted.vehicles = overrides.vehicles
      /\ Booted.registered = StationsOf(overrides) /\ Booted.shared = SharedBy(overrides.chargers)
      /\ Booted.states = states
      /\ Booted.circuits = [n \in lps |-> overrides.loadpoints[n].tariff]
      /\ Booted.limits = [n \in lps |-> overrides.chargers[n]]
      /\ Booted.subs = [n \in Names |-> IF n \in lps THEN 1 ELSE 0]
      /\ Booted.named = NamesAtBoot
      /\ DOMAIN Booted = DOMAIN Nowhere
  BY <1>3, <1>4 DEF nameStations, chargerLimitMap, wireChargers, NamesAtBoot, Nowhere
<1>6. QED
  BY <1>5 DEF states, IsSite, IsRows, Nowhere

(* Whichever loadpoint is named for a station that two have.               *)
LEMMA BootStations ==
  ASSUME IsRows(overrides)
  PROVE  Stationed(overrides.chargers, DOMAIN overrides.loadpoints, StationsOf(overrides),
                   NamesAtBoot, SharedBy(overrides.chargers))
<1> DEFINE c == overrides.chargers
           L == DOMAIN overrides.loadpoints
<1>1. L \subseteq DOMAIN c /\ \A n \in DOMAIN c : c[n].station \in Stations
  BY DEF IsRows, Handles
<1>2. \A n, m \in DOMAIN c : n # m /\ c[n].station = c[m].station => c[n].station \in SharedBy(c)
  BY <1>1 DEF SharedBy
<1>3. \A n \in L : c[n].station \in DOMAIN NamesAtBoot
  BY DEF NamesAtBoot
<1>4. \A station \in DOMAIN NamesAtBoot :
         NamesAtBoot[station] \in L /\ c[NamesAtBoot[station]].station = station
  <2> SUFFICES ASSUME NEW station \in DOMAIN NamesAtBoot
               PROVE  NamesAtBoot[station] \in L /\ c[NamesAtBoot[station]].station = station
    OBVIOUS
  <2>1. \E n \in L : c[n].station = station
    BY DEF NamesAtBoot
  <2>2. NamesAtBoot[station] = CHOOSE n \in L : c[n].station = station
    BY DEF NamesAtBoot
  <2>3. QED
    BY <2>1, <2>2
<1>5. \A n \in L : c[n].station \notin SharedBy(c) => NamesAtBoot[c[n].station] = n
  BY <1>1, <1>2, <1>3, <1>4
<1>6. StationsOf(overrides) = {c[n].station : n \in DOMAIN c}
  BY DEF StationsOf
<1>7. QED
  BY ONLY <1>2, <1>3, <1>4, <1>5, <1>6 DEF Stationed

LEMMA BootKeeps ==
  ASSUME GarageInv, GarageBoots
  PROVE  GarageInv'
<1>0. Stationed(overrides.chargers, DOMAIN overrides.loadpoints, StationsOf(overrides),
                NamesAtBoot, SharedBy(overrides.chargers))
  BY BootStations DEF GarageInv
<1>1. IsSite(site') /\ IsWired(site')
  <2>1. StationsKnown(site')
    BY <1>0, BootedIs DEF GarageBoots, StationsKnown
  <2>2. QED
    BY <2>1, BootedIs DEF GarageInv, GarageBoots, IsWired, LimitsOf, SubsOf
<1>2. \A n \in DOMAIN overrides.loadpoints : saved'[n] = Saved(n)
  BY DEF GarageBoots
<1>3. FollowsRows(site', overrides', saved')
  BY BootedIs, <1>2 DEF GarageInv, IsRows, GarageBoots, FollowsRows, StatesOf
<1>4. QED
  BY <1>1, <1>3 DEF GarageInv, GarageBoots

LEMMA NoRowsAreRows == IsRows(NoRows)
  BY DEF IsRows, NoRows, Empty

(* A crash, wherever between two rows of a claim or a removal it comes.    *)
LEMMA CrashKeeps ==
  ASSUME GarageInv, GarageCrashes
  PROVE  GarageInv'
<1>1. IsRows(overrides')
  <2>1. ASSUME NEW n \in Names, NEW h \in Handles,
               overrides' = [overrides EXCEPT !.chargers = With(@, n, h)]
        PROVE  IsRows(overrides')
    BY <2>1 DEF GarageInv, IsRows, With, NoRows
  <2>2. ASSUME NEW n, overrides' = [overrides EXCEPT !.loadpoints = Without(@, n)]
        PROVE  IsRows(overrides')
    BY <2>2 DEF GarageInv, IsRows, Without, NoRows
  <2>3. QED
    BY <2>1, <2>2 DEF GarageInv, GarageCrashes, CutShort
<1>2. QED
  BY <1>1 DEF GarageInv, GarageCrashes

(* An import, beside the rows there are or instead of them.                *)
LEMMA ImportedRowsKeep ==
  ASSUME GarageInv, NEW n \in Names, NEW h \in Handles, NEW b \in Bindings,
         ImportAndRestart(TRUE, n, h, b) \/ ImportAndRestart(FALSE, n, h, b)
  PROVE  GarageInv'
<1>1. IsRows(overrides) /\ running' = "down" /\ site' = Nowhere
  BY DEF GarageInv, ImportAndRestart
<1>2. ASSUME NEW rest, IsRows(rest),
             overrides' = [rest EXCEPT !.chargers = With(@, n, h), !.loadpoints = With(@, n, b)]
      PROVE  IsRows(overrides')
  BY ONLY <1>2, n \in Names, h \in Handles, b \in Bindings DEF IsRows, With, NoRows
<1>3. IsRows(overrides')
  BY <1>1, <1>2, NoRowsAreRows DEF ImportAndRestart
<1>4. QED
  BY <1>1, <1>3 DEF GarageInv

LEMMA GarageInvInit == HouseInit => GarageInv
  BY NoRowsAreRows DEF HouseInit, GarageInit, NoGarage, GarageInv

(* What holds in memory while the process is up.                           *)
InMemory ==
    running = "up" /\ IsSite(site) /\ FollowsRows(site, overrides, saved) /\ IsWired(site)

(* An edited charger: its loadpoint captures the new ceiling.              *)
LEMMA EditKeeps ==
  ASSUME GarageInv, NEW n \in Names, NEW a \in Amps, EditCharger(n, a)
  PROVE  GarageInv'
<1> DEFINE c == site.chargers
           L == DOMAIN site.loadpoints
           h == [c[n] EXCEPT !.amps = a]
<1>1. IsRows(overrides) /\ InMemory
  BY DEF GarageInv, EditCharger, InMemory
<1>2. /\ overrides' = [overrides EXCEPT !.chargers[n].amps = a] /\ n \in DOMAIN c
      /\ site' = reloadCharger(site, overrides', n) /\ saved' = saved /\ running' = running
  BY DEF EditCharger
<1>3. L \subseteq DOMAIN c
  BY <1>1 DEF InMemory, IsRows, FollowsRows
<1>3a. h \in Handles /\ h.amps = a /\ h.station = c[n].station /\ c = overrides.chargers
       /\ \A m \in DOMAIN c : c[m] \in Handles
  BY <1>1, <1>2 DEF InMemory, IsRows, FollowsRows, Handles
<1>3b. /\ overrides'.chargers = [c EXCEPT ![n] = h]
       /\ overrides'.loadpoints = overrides.loadpoints /\ overrides'.vehicles = overrides.vehicles
       /\ DOMAIN overrides' = DOMAIN overrides
  BY <1>1, <1>2, <1>3a DEF InMemory, IsRows, NoRows, FollowsRows
<1> HIDE DEF h
<1>4. IsRows(overrides')
  BY ONLY <1>1, <1>2, <1>3a, <1>3b DEF IsRows
<1>5. overrides'.chargers = With(c, n, h) /\ overrides'.chargers[n] = h
  BY ONLY <1>2, <1>3b DEF With
<1>6. /\ site.states = [m \in L |-> [mode |-> saved[m], maxA |-> c[m].amps]]
      /\ site.limits = [m \in L |-> c[m]]
  BY <1>1 DEF InMemory, FollowsRows, IsWired, StatesOf, LimitsOf
<1>7. DOMAIN With(c, n, h) = DOMAIN c
  BY <1>2 DEF With
<1> HIDE DEF L, c
<1>0. \A m \in L : With(c, n, h)[m] = IF m = n THEN h ELSE c[m]
  BY <1>3 DEF With
<1> USE DEF L, c
<1> DEFINE swapped == createCharger(site, overrides', n)
<1>8. /\ DOMAIN swapped = DOMAIN site
      /\ swapped.chargers = With(c, n, h) /\ swapped.loadpoints = site.loadpoints
      /\ swapped.vehicles = site.vehicles
      /\ swapped.states = site.states
      /\ swapped.limits = site.limits /\ swapped.subs = site.subs
      /\ swapped.circuits = site.circuits /\ swapped.named = site.named
      /\ swapped.shared = site.shared
      /\ swapped.registered = site.registered \cup {h.station}
  BY <1>1, <1>2, <1>5 DEF createCharger, registerStation, InMemory, IsSite, Nowhere
<1> HIDE DEF swapped
(* Whichever way, all that has changed are the charger and what its        *)
(* loadpoint captured.                                                     *)
<1>9. SUFFICES
        /\ DOMAIN site' = DOMAIN site
        /\ site'.chargers = With(c, n, h) /\ site'.loadpoints = site.loadpoints
        /\ site'.vehicles = site.vehicles
        /\ site'.states = [m \in L |-> [mode |-> saved[m], maxA |-> With(c, n, h)[m].amps]]
        /\ site'.limits = [m \in L |-> With(c, n, h)[m]]
        /\ site'.subs = site.subs /\ site'.circuits = site.circuits
        /\ site'.named = site.named /\ site'.shared = site.shared
        /\ site'.registered = site.registered \cup {h.station}
  <2>1. site'.states = StatesOf(site', saved') /\ site'.limits = LimitsOf(site')
    BY <1>2, <1>9 DEF StatesOf, LimitsOf
  <2>2. site'.subs = SubsOf(site')
    BY <1>1, <1>9 DEF InMemory, IsWired, SubsOf
  <2>3. FollowsRows(site', overrides', saved')
    <3>1. FollowsRows(site, overrides, saved) /\ saved' = saved
      BY <1>1, <1>2 DEF InMemory
    <3>2. QED
      BY ONLY <1>3b, <1>5, <1>9, <2>1, <3>1 DEF FollowsRows
  <2>4. IsSite(site') /\ IsWired(site')
    <3>1. IsSite(site) /\ IsWired(site)
      BY <1>1 DEF InMemory
    <3>2. StationsKnown(site')
      <4>1. \A m \in DOMAIN c : With(c, n, h)[m].station = c[m].station
        BY ONLY <1>2, <1>3a DEF With
      <4>2. Stationed(c, L, site.registered, site.named, site.shared)
        BY ONLY <3>1 DEF IsWired, StationsKnown
      <4>3. Stationed(With(c, n, h), L, site.registered \cup {h.station}, site.named, site.shared)
        <5> HIDE DEF L, c
        <5> QED
          BY ONLY <1>2, <1>3, <1>3a, <1>7, <4>1, <4>2 DEF Stationed
      <4>4. QED
        BY ONLY <1>9, <4>3 DEF StationsKnown
    <3>3. QED
      BY ONLY <1>7, <1>9, <2>1, <2>2, <3>1, <3>2 DEF IsSite, IsWired
  <2>5. QED
    BY <1>1, <1>2, <1>4, <2>3, <2>4 DEF GarageInv, InMemory
<1>10. CASE n \notin L
  <2>1. site' = swapped
    BY <1>2, <1>10 DEF reloadCharger, swapped
  <2>2. QED
    <3>1. \A m \in L : With(c, n, h)[m] = c[m]
      BY <1>0, <1>10
    <3>2. /\ [m \in L |-> c[m]] = [m \in L |-> With(c, n, h)[m]]
          /\ [m \in L |-> [mode |-> saved[m], maxA |-> c[m].amps]]
               = [m \in L |-> [mode |-> saved[m], maxA |-> With(c, n, h)[m].amps]]
      BY ONLY <3>1, Zenon
    <3>3. QED
      BY ONLY <1>6, <1>8, <2>1, <3>2
<1>11. CASE n \in L
  <2> DEFINE recaptured == [swapped EXCEPT !.limits[n] = h, !.states[n].maxA = a]
  <2>1. /\ DOMAIN recaptured = DOMAIN site
        /\ recaptured.chargers = With(c, n, h) /\ recaptured.loadpoints = site.loadpoints
        /\ recaptured.vehicles = site.vehicles
        /\ recaptured.states = [site.states EXCEPT ![n].maxA = a]
        /\ recaptured.limits = [site.limits EXCEPT ![n] = h]
        /\ recaptured.subs = site.subs
        /\ recaptured.circuits = site.circuits /\ recaptured.named = site.named
        /\ recaptured.shared = site.shared
        /\ recaptured.registered = site.registered \cup {h.station}
    BY <1>1, <1>8 DEF InMemory, IsSite, Nowhere
  <2>2. site' = wireChargerStatus(recaptured, n)
    BY <1>2, <1>3a, <1>5, <1>11 DEF reloadCharger, swapped
  <2> HIDE DEF recaptured
  <2>3. /\ DOMAIN site' = DOMAIN site
        /\ site'.chargers = With(c, n, h) /\ site'.loadpoints = site.loadpoints
        /\ site'.vehicles = site.vehicles
        /\ site'.states = [site.states EXCEPT ![n].maxA = a]
        /\ site'.limits = [site.limits EXCEPT ![n] = h]
        /\ site'.subs = [site.subs EXCEPT ![n] = 1]
        /\ site'.circuits = site.circuits /\ site'.named = site.named
        /\ site'.shared = site.shared
        /\ site'.registered = site.registered \cup {h.station}
    BY <1>1, <2>1, <2>2 DEF wireChargerStatus, InMemory, IsSite, Nowhere
  <2>4. [site.subs EXCEPT ![n] = 1] = site.subs
    BY <1>1, <1>11 DEF InMemory, IsWired, SubsOf
  <2>5. [site.states EXCEPT ![n].maxA = a]
          = [m \in L |-> [mode |-> saved[m], maxA |-> With(c, n, h)[m].amps]]
    <3> HIDE DEF L, c
    <3>1. [site.states[n] EXCEPT !.maxA = a] = [mode |-> saved[n], maxA |-> a]
      BY ONLY <1>6, <1>11
    <3>2. [site.states EXCEPT ![n].maxA = a]
            = [m \in L |-> IF m = n THEN [site.states[n] EXCEPT !.maxA = a] ELSE site.states[m]]
      BY ONLY <1>6, Zenon
    <3>3. ASSUME NEW m \in L
          PROVE  (IF m = n THEN [site.states[n] EXCEPT !.maxA = a] ELSE site.states[m])
                   = [mode |-> saved[m], maxA |-> With(c, n, h)[m].amps]
      <4>1. site.states[m] = [mode |-> saved[m], maxA |-> c[m].amps]
        BY ONLY <1>6, <3>3
      <4>2. CASE m = n
        BY ONLY <1>0, <1>3a, <3>1, <3>3, <4>2
      <4>3. CASE m # n
        BY ONLY <1>0, <3>3, <4>1, <4>3
      <4>4. QED
        BY ONLY <4>2, <4>3
    <3>4. QED
      BY ONLY <3>2, <3>3, Zenon
  <2>6. [site.limits EXCEPT ![n] = h] = [m \in L |-> With(c, n, h)[m]]
    <3> HIDE DEF L, c
    <3> QED
      BY ONLY <1>0, <1>6
  <2>7. QED
    BY ONLY <2>3, <2>4, <2>5, <2>6
<1>12. QED
  BY <1>10, <1>11

(* The stations after a claim, of whichever station.                       *)
LEMMA ClaimedStation ==
  ASSUME NEW c, NEW L, NEW registered, NEW named, NEW shared, NEW n, NEW h,
         Stationed(c, L, registered, named, shared), n \notin DOMAIN c, L \subseteq DOMAIN c
  PROVE  Stationed(With(c, n, h), L \cup {n}, registered \cup {h.station},
                   With(named, h.station, n),
                   shared \cup ({h.station} \cap {c[m].station : m \in DOMAIN c}))
<1> DEFINE d == With(c, n, h)
           sh == shared \cup ({h.station} \cap {c[m].station : m \in DOMAIN c})
           nm == With(named, h.station, n)
<1>1. DOMAIN d = DOMAIN c \cup {n} /\ d[n] = h /\ \A m \in DOMAIN c : m # n /\ d[m] = c[m]
  BY DEF With
<1>2. /\ DOMAIN nm = DOMAIN named \cup {h.station} /\ nm[h.station] = n
      /\ \A station \in DOMAIN named \ {h.station} : nm[station] = named[station]
  BY DEF With
<1>3. \A m \in DOMAIN c : c[m].station = h.station => h.station \in sh
  OBVIOUS
<1>4. shared \subseteq sh
  OBVIOUS
<1> HIDE DEF d, sh, nm
<1>5. \A l, m \in DOMAIN d : l # m /\ d[l].station = d[m].station => d[l].station \in sh
  BY ONLY <1>1, <1>3, <1>4, Stationed(c, L, registered, named, shared) DEF Stationed
<1>6. registered \cup {h.station} \subseteq {d[m].station : m \in DOMAIN d}
  BY ONLY <1>1, Stationed(c, L, registered, named, shared) DEF Stationed
<1>7. \A m \in DOMAIN d : d[m].station \notin sh => d[m].station \in registered \cup {h.station}
  BY ONLY <1>1, <1>4, Stationed(c, L, registered, named, shared) DEF Stationed
<1>8. \A m \in L \cup {n} : d[m].station \notin sh =>
         d[m].station \in DOMAIN nm /\ nm[d[m].station] = m
  BY ONLY <1>1, <1>2, <1>3, <1>4, L \subseteq DOMAIN c,
          Stationed(c, L, registered, named, shared) DEF Stationed
<1>9. \A station \in DOMAIN nm : nm[station] \in L \cup {n} /\ d[nm[station]].station = station
  BY ONLY <1>1, <1>2, L \subseteq DOMAIN c,
          Stationed(c, L, registered, named, shared) DEF Stationed
<1>10. Stationed(d, L \cup {n}, registered \cup {h.station}, nm, sh)
  BY ONLY <1>5, <1>6, <1>7, <1>8, <1>9 DEF Stationed
<1>11. QED
  BY <1>10 DEF d, sh, nm

(* And after a removal, which forgets the station of another's as well.    *)
StationedWithout(c, L, registered, named, shared, n) ==
    Stationed(Without(c, n), L \ {n}, registered \ {c[n].station}, Without(named, c[n].station),
              shared \cap {Without(c, n)[m].station : m \in DOMAIN Without(c, n)})

LEMMA RemovedStation ==
  ASSUME NEW c, NEW L, NEW registered, NEW named, NEW shared, NEW n,
         Stationed(c, L, registered, named, shared), n \in DOMAIN c, L \subseteq DOMAIN c
  PROVE  StationedWithout(c, L, registered, named, shared, n)
<1> DEFINE d == Without(c, n)
           gone == c[n].station
           sh == shared \cap {d[m].station : m \in DOMAIN d}
           nm == Without(named, gone)
<1>1. DOMAIN d = DOMAIN c \ {n} /\ \A m \in DOMAIN d : d[m] = c[m]
  BY DEF Without
<1>2. DOMAIN nm = DOMAIN named \ {gone} /\ \A station \in DOMAIN nm : nm[station] = named[station]
  BY DEF Without
<1>3. \A m \in DOMAIN d : d[m].station \in shared => d[m].station \in sh
  OBVIOUS
<1>4. \A m \in DOMAIN c : m # n /\ c[m].station = gone => c[m].station \in shared
  BY DEF Stationed
<1> HIDE DEF d, sh, nm
<1>5. \A l, m \in DOMAIN d : l # m /\ d[l].station = d[m].station => d[l].station \in sh
  BY ONLY <1>1, <1>3, Stationed(c, L, registered, named, shared) DEF Stationed
<1>6. registered \ {gone} \subseteq {d[m].station : m \in DOMAIN d}
  BY ONLY <1>1, n \in DOMAIN c, Stationed(c, L, registered, named, shared) DEF Stationed, gone
<1>7. \A m \in DOMAIN d : d[m].station \notin sh => d[m].station # gone /\ d[m].station \notin shared
  BY ONLY <1>1, <1>3, <1>4
<1>8. \A m \in DOMAIN d : d[m].station \notin sh => d[m].station \in registered \ {gone}
  BY ONLY <1>1, <1>7, Stationed(c, L, registered, named, shared) DEF Stationed
<1>9. \A m \in L \ {n} : d[m].station \notin sh =>
         d[m].station \in DOMAIN nm /\ nm[d[m].station] = m
  BY ONLY <1>1, <1>2, <1>7, L \subseteq DOMAIN c,
          Stationed(c, L, registered, named, shared) DEF Stationed
<1>10. \A station \in DOMAIN nm : nm[station] \in L \ {n} /\ d[nm[station]].station = station
  BY ONLY <1>1, <1>2, L \subseteq DOMAIN c,
          Stationed(c, L, registered, named, shared) DEF Stationed, gone
<1>11. Stationed(d, L \ {n}, registered \ {gone}, nm, sh)
  BY ONLY <1>5, <1>6, <1>8, <1>9, <1>10 DEF Stationed
<1>12. QED
  BY <1>11 DEF d, sh, nm, gone, StationedWithout

(* A claimed charger, with its loadpoint.                                  *)
LEMMA ClaimKeeps ==
  ASSUME GarageInv, NEW n \in Names, NEW h \in Handles, NEW b \in Bindings, ClaimCharger(n, h, b)
  PROVE  GarageInv'
<1> DEFINE c == site.chargers
           lp == site.loadpoints
           L == DOMAIN site.loadpoints
           state == [mode |-> Saved(n), maxA |-> h.amps]
           was == Shared(site, h.station)
<1>1. IsRows(overrides) /\ InMemory
  BY DEF GarageInv, ClaimCharger, InMemory
<1>2. /\ overrides' = [overrides EXCEPT !.chargers = With(@, n, h), !.loadpoints = With(@, n, b)]
      /\ site' = setLoadpointName(
                     addLoadpoint(addCharger(was, overrides', n), overrides', n), h.station, n)
      /\ saved' = With(saved, n, Saved(n)) /\ running' = running
      /\ n \notin DOMAIN c
  BY DEF ClaimCharger
<1>3. L \subseteq DOMAIN c /\ n \notin L /\ L \subseteq DOMAIN saved
  BY <1>1, <1>2 DEF InMemory, IsRows, FollowsRows
<1>4. /\ overrides'.chargers = With(c, n, h) /\ overrides'.chargers[n] = h
      /\ overrides'.loadpoints = With(overrides.loadpoints, n, b) /\ overrides'.loadpoints[n] = b
      /\ overrides'.vehicles = overrides.vehicles
      /\ DOMAIN overrides' = DOMAIN overrides
  BY <1>1, <1>2 DEF InMemory, IsRows, NoRows, FollowsRows, With
<1>5. IsRows(overrides')
  BY <1>1, <1>4 DEF InMemory, FollowsRows, IsRows, With
<1>5a. /\ DOMAIN was = DOMAIN site
       /\ was.chargers = c /\ was.loadpoints = lp /\ was.vehicles = site.vehicles
       /\ was.states = site.states /\ was.limits = site.limits /\ was.subs = site.subs
       /\ was.named = site.named /\ was.registered = site.registered
       /\ was.shared = site.shared \cup ({h.station} \cap StationsOf(site))
  BY <1>1 DEF Shared, InMemory, IsSite, Nowhere
<1> HIDE DEF was
<1> DEFINE added == addCharger(was, overrides', n)
<1>6. /\ DOMAIN added = DOMAIN site
      /\ added.chargers = With(c, n, h) /\ added.loadpoints = lp
      /\ added.vehicles = site.vehicles
      /\ added.states = site.states
      /\ added.limits = site.limits /\ added.subs = site.subs
      /\ added.named = site.named /\ added.registered = site.registered \cup {h.station}
      /\ added.chargers[n] = h /\ added.shared = was.shared
  BY <1>1, <1>4, <1>5a DEF addCharger, createCharger, registerStation, InMemory, IsSite, Nowhere, With
<1> DEFINE bound == [added EXCEPT !.loadpoints = With(@, n, overrides'.loadpoints[n]),
                                  !.limits = With(@, n, added.chargers[n])]
           seeded == [bound EXCEPT !.states = With(@, n, loadLoadpointStates(bound)[n])]
<1>7. site' = setLoadpointName(rebuildCircuits(wireChargerStatus(seeded, n)), h.station, n)
  BY <1>2 DEF addLoadpoint
<1> HIDE DEF added
<1>8. /\ DOMAIN bound = DOMAIN site
      /\ bound.chargers = With(c, n, h) /\ bound.loadpoints = With(lp, n, b)
      /\ bound.vehicles = site.vehicles
      /\ bound.states = site.states
      /\ bound.limits = With(site.limits, n, h) /\ bound.subs = site.subs
      /\ bound.shared = was.shared
      /\ bound.named = site.named /\ bound.registered = site.registered \cup {h.station}
  BY <1>1, <1>4, <1>6 DEF InMemory, IsSite, Nowhere
<1>9. loadLoadpointStates(bound)[n] = state
  <2>1. n \in DOMAIN bound.loadpoints /\ bound.chargers[n] = h
    BY <1>8 DEF With
  <2>2. QED
    BY ONLY <2>1 DEF loadLoadpointStates, configToLoadpointInits
<1> HIDE DEF bound
<1>10. /\ DOMAIN seeded = DOMAIN site
       /\ seeded.chargers = With(c, n, h) /\ seeded.loadpoints = With(lp, n, b)
       /\ seeded.vehicles = site.vehicles
       /\ seeded.states = With(site.states, n, state)
       /\ seeded.limits = With(site.limits, n, h) /\ seeded.subs = site.subs
       /\ seeded.shared = was.shared
       /\ seeded.named = site.named /\ seeded.registered = site.registered \cup {h.station}
  BY <1>1, <1>8, <1>9 DEF InMemory, IsSite, Nowhere
<1> HIDE DEF seeded
<1>11. /\ DOMAIN site' = DOMAIN site
       /\ site'.chargers = With(c, n, h) /\ site'.loadpoints = With(lp, n, b)
       /\ site'.vehicles = site.vehicles
       /\ site'.states = With(site.states, n, state)
       /\ site'.limits = With(site.limits, n, h) /\ site'.subs = [site.subs EXCEPT ![n] = 1]
       /\ site'.shared = was.shared
       /\ site'.named = With(site.named, h.station, n) /\ site'.registered = site.registered \cup {h.station}
       /\ site'.circuits = [m \in DOMAIN With(lp, n, b) |-> With(lp, n, b)[m].tariff]
  BY <1>1, <1>7, <1>10
     DEF setLoadpointName, rebuildCircuits, wireChargerStatus, InMemory, IsSite, Nowhere
<1> HIDE DEF c, lp, L
<1>12. DOMAIN With(lp, n, b) = L \cup {n} /\ With(lp, n, b)[n] = b
       /\ \A m \in L : m # n /\ With(lp, n, b)[m] = lp[m]
  BY <1>3 DEF With, L, lp
<1>13. DOMAIN With(c, n, h) = DOMAIN c \cup {n} /\ With(c, n, h)[n] = h
       /\ \A m \in L : With(c, n, h)[m] = c[m]
  BY <1>3 DEF With
<1>14. DOMAIN saved' = DOMAIN saved \cup {n} /\ saved'[n] = Saved(n)
       /\ \A m \in L : saved'[m] = saved[m]
  BY <1>2, <1>3 DEF With
<1>15. FollowsRows(site', overrides', saved')
  <2>1. With(site.states, n, state) = [m \in L \cup {n} |-> [mode |-> saved'[m], maxA |-> With(c, n, h)[m].amps]]
    <3>1. site.states = [m \in L |-> [mode |-> saved[m], maxA |-> c[m].amps]]
      BY <1>1 DEF InMemory, FollowsRows, StatesOf, L, c
    <3>2. With(site.states, n, state) = [m \in L \cup {n} |-> IF m = n THEN state ELSE site.states[m]]
      BY ONLY <3>1 DEF With
    <3>3. ASSUME NEW m \in L \cup {n}
          PROVE  (IF m = n THEN state ELSE site.states[m]) = [mode |-> saved'[m], maxA |-> With(c, n, h)[m].amps]
      <4>1. CASE m = n
        BY ONLY <1>13, <1>14, <4>1, Zenon
      <4>2. CASE m # n
        <5>1. site.states[m] = [mode |-> saved[m], maxA |-> c[m].amps]
          BY ONLY <3>1, <3>3, <4>2
        <5>2. saved'[m] = saved[m] /\ With(c, n, h)[m] = c[m]
          BY ONLY <1>13, <1>14, <3>3, <4>2
        <5>3. QED
          BY ONLY <4>2, <5>1, <5>2, Zenon
      <4>3. QED
        BY ONLY <4>1, <4>2
    <3>4. QED
      BY ONLY <3>2, <3>3, Zenon
  <2>2. site'.states = StatesOf(site', saved')
    BY ONLY <1>11, <1>12, <2>1, Zenon DEF StatesOf
  <2>3. FollowsRows(site, overrides, saved)
    BY <1>1 DEF InMemory
  <2>4. /\ DOMAIN overrides'.loadpoints = L \cup {n}
        /\ \A m \in L : overrides'.loadpoints[m] = overrides.loadpoints[m]
    BY <1>3, <1>4, <2>3 DEF FollowsRows, With, L
  <2>5. \A m \in L \cup {n} : site'.loadpoints[m] \in Bindings
                               /\ site'.loadpoints[m].tariff = overrides'.loadpoints[m].tariff
    BY ONLY <1>4, <1>11, <1>12, <2>3, <2>4, b \in Bindings DEF FollowsRows, L, lp
  <2>6. QED
    BY ONLY <1>3, <1>4, <1>11, <1>12, <1>14, <2>2, <2>3, <2>4, <2>5 DEF FollowsRows, L
<1>16. IsSite(site') /\ IsWired(site')
  <2>1. site.limits = [m \in L |-> c[m]] /\ site.subs = SubsOf(site)
        /\ StationsKnown(site) /\ IsSite(site)
    BY <1>1 DEF InMemory, IsWired, LimitsOf, L, c
  <2>2. site'.limits = LimitsOf(site')
    <3>1. With(site.limits, n, h) = [m \in L \cup {n} |-> IF m = n THEN h ELSE c[m]]
      BY ONLY <2>1 DEF With
    <3>2. \A m \in L \cup {n} : (IF m = n THEN h ELSE c[m]) = With(c, n, h)[m]
      BY ONLY <1>13
    <3>3. With(site.limits, n, h) = [m \in L \cup {n} |-> With(c, n, h)[m]]
      BY ONLY <3>1, <3>2, Zenon
    <3>4. QED
      BY ONLY <1>11, <1>12, <3>3, Zenon DEF LimitsOf
  <2>3. site'.subs = SubsOf(site')
    BY ONLY <1>11, <1>12, <2>1, n \in Names DEF SubsOf, L
  <2>4. StationsKnown(site')
    <3>1. Stationed(c, L, site.registered, site.named, site.shared)
      BY ONLY <2>1 DEF StationsKnown, L, c
    <3>2. was.shared = site.shared \cup ({h.station} \cap {c[m].station : m \in DOMAIN c})
      BY ONLY <1>5a DEF StationsOf, c
    <3>3. Stationed(With(c, n, h), L \cup {n}, site.registered \cup {h.station},
                    With(site.named, h.station, n),
                    site.shared \cup ({h.station} \cap {c[m].station : m \in DOMAIN c}))
      <4>1. n \notin DOMAIN c /\ L \subseteq DOMAIN c
        BY ONLY <1>2, <1>3
      <4>2. QED
        BY ONLY <3>1, <4>1, ClaimedStation, Zenon
    <3>4. QED
      BY ONLY <1>11, <1>12, <3>2, <3>3 DEF StationsKnown
  <2>5. QED
    BY ONLY <1>11, <1>12, <1>13, <2>1, <2>2, <2>3, <2>4 DEF IsSite, IsWired
<1>17. QED
  BY <1>1, <1>2, <1>5, <1>15, <1>16 DEF GarageInv, InMemory

(* A removed charger, and its loadpoint before it.                         *)
LEMMA RemoveKeeps ==
  ASSUME GarageInv, NEW n \in Names, RemoveCharger(n)
  PROVE  GarageInv'
<1> DEFINE c == site.chargers
           lp == site.loadpoints
           L == DOMAIN site.loadpoints
<1>1. IsRows(overrides) /\ InMemory
  BY DEF GarageInv, RemoveCharger, InMemory
<1>2. /\ overrides' = [overrides EXCEPT !.chargers = Without(@, n), !.loadpoints = Without(@, n)]
      /\ site' = NoLongerShared(unregisterStation(removeCharger(removeLoadpoint(site, n), n),
                                                  c[n].station))
      /\ saved' = saved /\ running' = running /\ n \in DOMAIN c
  BY DEF RemoveCharger
<1>3. L \subseteq DOMAIN c /\ L \subseteq DOMAIN saved
  BY <1>1 DEF InMemory, IsRows, FollowsRows
<1>4. /\ overrides'.chargers = Without(c, n)
      /\ overrides'.loadpoints = Without(overrides.loadpoints, n)
      /\ overrides'.vehicles = overrides.vehicles
      /\ DOMAIN overrides' = DOMAIN overrides
  BY <1>1, <1>2 DEF InMemory, IsRows, NoRows, FollowsRows
<1>5. IsRows(overrides')
  BY <1>1, <1>4 DEF InMemory, FollowsRows, IsRows, Without
<1> DEFINE alone == removeLoadpoint(site, n)
<1>6. /\ DOMAIN alone = DOMAIN site
      /\ alone.chargers = c
      /\ alone.vehicles = site.vehicles
      /\ alone.shared = site.shared
      /\ alone.named = site.named /\ alone.registered = site.registered
  BY <1>1 DEF removeLoadpoint, rebuildCircuits, InMemory, IsSite, Nowhere
<1>7. /\ alone.loadpoints = IF n \in L THEN Without(lp, n) ELSE lp
      /\ alone.states = IF n \in L THEN Without(site.states, n) ELSE site.states
      /\ alone.limits = IF n \in L THEN Without(site.limits, n) ELSE site.limits
      /\ alone.subs = IF n \in L THEN [site.subs EXCEPT ![n] = 0] ELSE site.subs
      /\ DOMAIN alone.circuits = IF n \in L THEN DOMAIN Without(lp, n) ELSE DOMAIN site.circuits
  BY <1>1 DEF removeLoadpoint, rebuildCircuits, InMemory, IsSite, Nowhere
<1> HIDE DEF alone
<1>8. /\ DOMAIN site' = DOMAIN site
      /\ site'.chargers = Without(c, n)
      /\ site'.vehicles = site.vehicles
      /\ site'.named = Without(site.named, c[n].station)
      /\ site'.registered = site.registered \ {c[n].station}
      /\ site'.shared = site.shared \cap {site'.chargers[m].station : m \in DOMAIN site'.chargers}
      /\ site'.loadpoints = alone.loadpoints /\ site'.states = alone.states
      /\ site'.limits = alone.limits /\ site'.subs = alone.subs
      /\ site'.circuits = alone.circuits
  <2> DEFINE left == unregisterStation(removeCharger(alone, n), c[n].station)
  <2>1. /\ DOMAIN left = DOMAIN site /\ left.chargers = Without(c, n)
        /\ left.vehicles = site.vehicles
        /\ left.named = Without(site.named, c[n].station)
        /\ left.registered = site.registered \ {c[n].station} /\ left.shared = site.shared
        /\ left.loadpoints = alone.loadpoints /\ left.states = alone.states
        /\ left.limits = alone.limits /\ left.subs = alone.subs
        /\ left.circuits = alone.circuits
    BY <1>1, <1>6 DEF unregisterStation, removeCharger, InMemory, IsSite, Nowhere
  <2>2. site' = NoLongerShared(left)
    BY <1>2 DEF alone
  <2> HIDE DEF left
  <2>3. QED
    BY <1>1, <2>1, <2>2 DEF NoLongerShared, StationsOf, InMemory, IsSite, Nowhere
<1> HIDE DEF c, lp, L
<1>9. DOMAIN site'.loadpoints = L \ {n} /\ \A m \in L \ {n} : site'.loadpoints[m] = lp[m]
  BY <1>7, <1>8 DEF Without, L, lp
<1>10. DOMAIN Without(c, n) = DOMAIN c \ {n} /\ \A m \in L \ {n} : Without(c, n)[m] = c[m]
  BY <1>3 DEF Without
<1>11. site'.states = [m \in L \ {n} |-> [mode |-> saved[m], maxA |-> Without(c, n)[m].amps]]
  <2>1. site.states = [m \in L |-> [mode |-> saved[m], maxA |-> c[m].amps]]
    BY <1>1 DEF InMemory, FollowsRows, StatesOf, L, c
  <2>2. site'.states = [m \in L \ {n} |-> site.states[m]]
    BY ONLY <1>7, <1>8, <2>1 DEF Without
  <2>3. ASSUME NEW m \in L \ {n}
        PROVE  site.states[m] = [mode |-> saved[m], maxA |-> Without(c, n)[m].amps]
    <3>1. site.states[m] = [mode |-> saved[m], maxA |-> c[m].amps]
      BY ONLY <2>1, <2>3
    <3>2. Without(c, n)[m] = c[m]
      BY ONLY <1>10, <2>3
    <3>3. QED
      BY ONLY <3>1, <3>2, Zenon
  <2>4. QED
    BY ONLY <2>2, <2>3, Zenon
<1>12. site'.limits = [m \in L \ {n} |-> Without(c, n)[m]]
  <2>1. site.limits = [m \in L |-> c[m]]
    BY <1>1 DEF InMemory, IsWired, LimitsOf, L, c
  <2>2. site'.limits = [m \in L \ {n} |-> c[m]]
    BY ONLY <1>7, <1>8, <2>1 DEF Without
  <2>3. QED
    BY ONLY <1>10, <2>2, Zenon
<1>13. site'.subs = SubsOf(site')
  <2>1. site.subs = [m \in Names |-> IF m \in L THEN 1 ELSE 0]
    BY <1>1 DEF InMemory, IsWired, SubsOf, L
  <2>2. QED
    BY ONLY <1>7, <1>8, <1>9, <2>1 DEF SubsOf
<1>14. FollowsRows(site', overrides', saved')
  <2>1. site'.states = StatesOf(site', saved')
    BY ONLY <1>2, <1>8, <1>9, <1>11, Zenon DEF StatesOf
  <2>2. FollowsRows(site, overrides, saved)
    BY <1>1 DEF InMemory
  <2>3. /\ DOMAIN overrides'.loadpoints = L \ {n}
        /\ \A m \in L \ {n} : overrides'.loadpoints[m] = overrides.loadpoints[m]
    BY ONLY <1>4, <2>2 DEF FollowsRows, Without, L
  <2>4. \A m \in L \ {n} : site'.loadpoints[m] \in Bindings
                            /\ site'.loadpoints[m].tariff = overrides'.loadpoints[m].tariff
    BY ONLY <1>9, <2>2, <2>3 DEF FollowsRows, L, lp
  <2>5. QED
    BY ONLY <1>2, <1>3, <1>4, <1>8, <1>9, <2>1, <2>2, <2>3, <2>4 DEF FollowsRows, L
<1>15. IsSite(site') /\ IsWired(site')
  <2>1. /\ StationsKnown(site) /\ IsSite(site)
        /\ DOMAIN site.circuits = L
    BY <1>1 DEF InMemory, IsWired, L, c
  <2>2. DOMAIN site'.circuits = L \ {n}
    BY ONLY <1>7, <1>8, <2>1 DEF Without, L, lp
  <2>3. site'.limits = LimitsOf(site')
    BY ONLY <1>8, <1>9, <1>12, Zenon DEF LimitsOf
  <2>4. StationsKnown(site')
    <3>1. Stationed(c, L, site.registered, site.named, site.shared)
      BY ONLY <2>1 DEF StationsKnown, L, c
    <3>2. Stationed(Without(c, n), L \ {n}, site.registered \ {c[n].station},
                    Without(site.named, c[n].station),
                    site.shared \cap {Without(c, n)[m].station : m \in DOMAIN Without(c, n)})
      <4>1. n \in DOMAIN c /\ L \subseteq DOMAIN c
        BY ONLY <1>2, <1>3
      <4>2. StationedWithout(c, L, site.registered, site.named, site.shared, n)
        BY ONLY <3>1, <4>1, RemovedStation, Zenon
      <4>3. QED
        BY ONLY <4>2 DEF StationedWithout
    <3>3. QED
      BY ONLY <1>8, <1>9, <3>2 DEF StationsKnown
  <2>5. QED
    BY ONLY <1>8, <1>9, <1>10, <1>13, <2>1, <2>2, <2>3, <2>4 DEF IsSite, IsWired
<1>16. QED
  BY <1>1, <1>2, <1>5, <1>14, <1>15 DEF GarageInv, InMemory

(* What leaves the chargers, the loadpoints and their modes as they are.   *)
LEMMA WiringStays ==
  ASSUME InMemory, IsRows(overrides'), running' = running, saved' = saved,
         DOMAIN site' = DOMAIN site,
         site'.chargers = site.chargers, overrides'.chargers = overrides.chargers,
         site'.vehicles = overrides'.vehicles,
         DOMAIN site'.loadpoints = DOMAIN site.loadpoints,
         DOMAIN overrides'.loadpoints = DOMAIN overrides.loadpoints,
         \A n \in DOMAIN site.loadpoints :
            site'.loadpoints[n] \in Bindings
            /\ site'.loadpoints[n].tariff = overrides'.loadpoints[n].tariff,
         site'.states = site.states, site'.limits = site.limits, site'.subs = site.subs,
         site'.circuits = site.circuits, site'.named = site.named,
         site'.registered = site.registered, site'.shared = site.shared
  PROVE  GarageInv'
<1>1. IsSite(site) /\ FollowsRows(site, overrides, saved) /\ IsWired(site) /\ running = "up"
  BY DEF InMemory
<1>2. StatesOf(site', saved') = StatesOf(site, saved)
  BY DEF StatesOf
<1>3. LimitsOf(site') = LimitsOf(site) /\ SubsOf(site') = SubsOf(site)
  BY DEF LimitsOf, SubsOf
<1>4. FollowsRows(site', overrides', saved')
  BY <1>1, <1>2 DEF FollowsRows
<1>5. IsSite(site') /\ IsWired(site')
  BY <1>1, <1>3 DEF IsSite, IsWired, StationsKnown
<1>6. QED
  BY <1>1, <1>4, <1>5 DEF GarageInv

(* A loadpoint bound anew: its configuration is the row's.                 *)
LEMMA BindKeeps ==
  ASSUME GarageInv, NEW n \in Names,
         \/ \E t \in Tariffs : BindTariff(n, t)
         \/ \E v \in Vehicles : BindVehicle(n, v)
  PROVE  GarageInv'
<1>1. IsRows(overrides) /\ InMemory /\ running' = running /\ saved' = saved
  BY DEF GarageInv, BindTariff, BindVehicle, InMemory
<1>2. n \in DOMAIN site.loadpoints /\ DOMAIN site.loadpoints = DOMAIN overrides.loadpoints
  BY <1>1 DEF InMemory, FollowsRows, StatesOf, BindTariff, BindVehicle
<1>3. overrides.loadpoints[n] \in Bindings
  BY <1>1, <1>2 DEF IsRows
<1>4. PICK b \in Bindings : overrides' = [overrides EXCEPT !.loadpoints[n] = b]
  <2>1. ASSUME NEW t \in Tariffs, BindTariff(n, t)
        PROVE  \E b \in Bindings : overrides' = [overrides EXCEPT !.loadpoints[n] = b]
    <3>1. [overrides.loadpoints[n] EXCEPT !.tariff = t] \in Bindings
      BY <1>3 DEF Bindings
    <3>2. overrides' = [overrides EXCEPT !.loadpoints[n] = [overrides.loadpoints[n] EXCEPT !.tariff = t]]
      BY <2>1, <1>1, <1>2 DEF BindTariff, IsRows, NoRows
    <3>3. QED
      BY <3>1, <3>2
  <2>2. ASSUME NEW v \in Vehicles, BindVehicle(n, v)
        PROVE  \E b \in Bindings : overrides' = [overrides EXCEPT !.loadpoints[n] = b]
    <3>1. [overrides.loadpoints[n] EXCEPT !.vehicle = v] \in Bindings
      BY <1>3 DEF Bindings
    <3>2. overrides' = [overrides EXCEPT !.loadpoints[n] = [overrides.loadpoints[n] EXCEPT !.vehicle = v]]
      BY <2>2, <1>1, <1>2 DEF BindVehicle, IsRows, NoRows
    <3>3. QED
      BY <3>1, <3>2
  <2>3. QED
    BY <2>1, <2>2
<1>5. site' = [site EXCEPT !.loadpoints[n] = overrides'.loadpoints[n]]
  BY DEF BindTariff, BindVehicle, reloadLoadpoint
<1>6. /\ overrides'.loadpoints = [overrides.loadpoints EXCEPT ![n] = b]
      /\ overrides'.chargers = overrides.chargers /\ overrides'.vehicles = overrides.vehicles
      /\ DOMAIN overrides' = DOMAIN overrides
  BY <1>1, <1>4 DEF IsRows, NoRows
<1>7. overrides'.loadpoints[n] = b /\ IsRows(overrides')
  BY <1>1, <1>2, <1>6 DEF IsRows
<1>8. /\ site'.loadpoints = [site.loadpoints EXCEPT ![n] = b]
      /\ DOMAIN site' = DOMAIN site /\ site'.chargers = site.chargers
      /\ site'.vehicles = site.vehicles
      /\ site'.states = site.states
      /\ site'.limits = site.limits /\ site'.subs = site.subs
      /\ site'.circuits = site.circuits /\ site'.named = site.named
      /\ site'.registered = site.registered /\ site'.shared = site.shared
  BY <1>1, <1>5, <1>7 DEF InMemory, IsSite, Nowhere
<1>9. /\ FollowsRows(site, overrides, saved) /\ IsSite(site)
  BY <1>1 DEF InMemory
<1>10. \A m \in DOMAIN site.loadpoints :
          site'.loadpoints[m] \in Bindings
          /\ site'.loadpoints[m].tariff = overrides'.loadpoints[m].tariff
  BY ONLY <1>2, <1>6, <1>8, <1>9, b \in Bindings DEF FollowsRows
<1>11. QED
  BY <1>1, <1>6, <1>7, <1>8, <1>9, <1>10, WiringStays DEF FollowsRows, IsSite

(* Vehicles: one that is removed takes the bindings to it along, and       *)
(* leaves the tariffs.                                                     *)
LEMMA VehicleKeeps ==
  ASSUME GarageInv, NEW v \in Vehicles,
         \/ \E account \in Accounts : AddVehicle(v, account) \/ EditVehicle(v, account)
         \/ RemoveVehicle(v)
  PROVE  GarageInv'
<1>1. IsRows(overrides) /\ InMemory /\ running' = running /\ saved' = saved
  BY DEF GarageInv, AddVehicle, EditVehicle, RemoveVehicle, InMemory
<1>2. FollowsRows(site, overrides, saved) /\ IsSite(site)
  BY <1>1 DEF InMemory
<1>3. /\ overrides'.loadpoints = overrides.loadpoints
      /\ overrides'.chargers = overrides.chargers
      /\ DOMAIN overrides' = DOMAIN overrides
  BY <1>1 DEF IsRows, NoRows, AddVehicle, EditVehicle, RemoveVehicle
<1>4. IsRows(overrides')
  BY ONLY <1>1, <1>3 DEF IsRows
<1>5. site'.vehicles = overrides'.vehicles
  <2>1. ASSUME NEW account, AddVehicle(v, account) PROVE site'.vehicles = overrides'.vehicles
    <3>1. overrides'.vehicles = With(overrides.vehicles, v, account)
      BY <1>1, <2>1 DEF AddVehicle, IsRows, NoRows
    <3>2. overrides'.vehicles[v] = account
      BY <3>1 DEF With
    <3>3. QED
      BY <1>2, <2>1, <3>1, <3>2 DEF AddVehicle, addVehicle, FollowsRows, IsSite, Nowhere
  <2>2. ASSUME NEW account, EditVehicle(v, account) PROVE site'.vehicles = overrides'.vehicles
    <3>1. overrides'.vehicles = [overrides.vehicles EXCEPT ![v] = account]
      BY <1>1, <2>2 DEF EditVehicle, IsRows, NoRows
    <3>2. overrides'.vehicles[v] = account
      BY <1>2, <2>2, <3>1 DEF EditVehicle, FollowsRows
    <3>3. QED
      BY <1>2, <2>2, <3>1, <3>2 DEF EditVehicle, reloadVehicle, FollowsRows, IsSite, Nowhere
  <2>3. ASSUME RemoveVehicle(v) PROVE site'.vehicles = overrides'.vehicles
    BY <1>1, <1>2, <2>3
       DEF RemoveVehicle, removeVehicle, IsRows, NoRows, FollowsRows, IsSite, Nowhere
  <2>4. QED
    BY <2>1, <2>2, <2>3
<1>6. /\ DOMAIN site' = DOMAIN site /\ site'.chargers = site.chargers
      /\ site'.states = site.states
      /\ site'.limits = site.limits /\ site'.subs = site.subs
      /\ site'.circuits = site.circuits /\ site'.named = site.named
      /\ site'.registered = site.registered /\ site'.shared = site.shared
  BY <1>2 DEF AddVehicle, EditVehicle, RemoveVehicle, addVehicle, reloadVehicle, removeVehicle,
              IsSite, Nowhere
<1>7. /\ DOMAIN site'.loadpoints = DOMAIN site.loadpoints
      /\ \A n \in DOMAIN site.loadpoints :
           site'.loadpoints[n] \in Bindings
           /\ site'.loadpoints[n].tariff = site.loadpoints[n].tariff
  <2>1. CASE RemoveVehicle(v)
    <3>1. site'.loadpoints = [n \in DOMAIN site.loadpoints |->
             IF site.loadpoints[n].vehicle = v THEN [site.loadpoints[n] EXCEPT !.vehicle = "none"]
             ELSE site.loadpoints[n]]
      BY <1>2, <2>1 DEF RemoveVehicle, removeVehicle, IsSite, Nowhere
    <3>2. ASSUME NEW b \in Bindings
          PROVE  [b EXCEPT !.vehicle = "none"] \in Bindings
                 /\ [b EXCEPT !.vehicle = "none"].tariff = b.tariff
      BY DEF Bindings
    <3>3. \A n \in DOMAIN site.loadpoints : site.loadpoints[n] \in Bindings
      BY <1>2 DEF FollowsRows
    <3>4. QED
      BY ONLY <3>1, <3>2, <3>3
  <2>2. CASE site'.loadpoints = site.loadpoints
    BY <1>2, <2>2 DEF FollowsRows
  <2>3. QED
    BY <1>2, <2>1, <2>2
       DEF AddVehicle, EditVehicle, addVehicle, reloadVehicle, IsSite, Nowhere
<1>8. \A n \in DOMAIN site.loadpoints :
         site'.loadpoints[n] \in Bindings
         /\ site'.loadpoints[n].tariff = overrides'.loadpoints[n].tariff
  BY ONLY <1>2, <1>3, <1>7 DEF FollowsRows
<1>9. QED
  BY <1>1, <1>2, <1>3, <1>4, <1>5, <1>6, <1>7, <1>8, WiringStays DEF FollowsRows, IsSite

(* A changed mode is saved with the change.                                *)
LEMMA ModeKeeps ==
  ASSUME GarageInv, NEW n \in Names, NEW m \in ChargeModes, SetMode(n, m)
  PROVE  GarageInv'
<1> DEFINE L == DOMAIN site.loadpoints
<1>1. /\ IsRows(overrides) /\ InMemory /\ running' = running /\ overrides' = overrides
      /\ saved' = [saved EXCEPT ![n] = m] /\ site' = [site EXCEPT !.states[n].mode = m]
      /\ n \in DOMAIN site.states
  BY DEF GarageInv, SetMode, InMemory
<1>2. FollowsRows(site, overrides, saved) /\ IsSite(site) /\ IsWired(site)
  BY <1>1 DEF InMemory
<1>3. /\ site.states = [x \in L |-> [mode |-> saved[x], maxA |-> site.chargers[x].amps]]
      /\ L \subseteq DOMAIN saved
  BY <1>2 DEF FollowsRows, StatesOf
<1>4. n \in L
  BY <1>1, <1>3
<1>5. /\ DOMAIN site' = DOMAIN site /\ site'.chargers = site.chargers
      /\ site'.loadpoints = site.loadpoints /\ site'.vehicles = site.vehicles
     
      /\ site'.limits = site.limits /\ site'.subs = site.subs
      /\ site'.circuits = site.circuits /\ site'.named = site.named
      /\ site'.registered = site.registered /\ site'.shared = site.shared
      /\ site'.states = [site.states EXCEPT ![n].mode = m]
  BY <1>1, <1>2 DEF IsSite, Nowhere
<1> HIDE DEF L
<1>6. site'.states = [x \in L |-> [mode |-> saved'[x], maxA |-> site.chargers[x].amps]]
  <2>1. [site.states[n] EXCEPT !.mode = m] = [mode |-> m, maxA |-> site.chargers[n].amps]
    BY ONLY <1>3, <1>4
  <2>2. site'.states
          = [x \in L |-> IF x = n THEN [site.states[n] EXCEPT !.mode = m] ELSE site.states[x]]
    BY ONLY <1>3, <1>5, Zenon
  <2>3. ASSUME NEW x \in L
        PROVE  (IF x = n THEN [site.states[n] EXCEPT !.mode = m] ELSE site.states[x])
                 = [mode |-> saved'[x], maxA |-> site.chargers[x].amps]
    <3>1. CASE x = n
      <4>1. saved'[x] = m
        BY ONLY <1>1, <1>3, <1>4, <3>1
      <4>2. QED
        BY ONLY <2>1, <3>1, <4>1, Zenon
    <3>2. CASE x # n
      <4>1. site.states[x] = [mode |-> saved[x], maxA |-> site.chargers[x].amps]
        BY ONLY <1>3, <2>3
      <4>2. saved'[x] = saved[x]
        BY ONLY <1>1, <1>3, <2>3, <3>2
      <4>3. QED
        BY ONLY <3>2, <4>1, <4>2, Zenon
    <3>3. QED
      BY ONLY <3>1, <3>2
  <2>4. QED
    BY ONLY <2>2, <2>3, Zenon
<1>7. site'.states = StatesOf(site', saved')
  BY ONLY <1>5, <1>6, Zenon DEF StatesOf, L
<1>8. FollowsRows(site', overrides', saved')
  BY ONLY <1>1, <1>2, <1>5, <1>7 DEF FollowsRows
<1>9. LimitsOf(site') = LimitsOf(site) /\ SubsOf(site') = SubsOf(site)
  BY ONLY <1>5 DEF LimitsOf, SubsOf
<1>10. IsSite(site') /\ IsWired(site')
  BY ONLY <1>2, <1>5, <1>9 DEF IsSite, IsWired, StationsKnown
<1>11. QED
  BY <1>1, <1>8, <1>10 DEF GarageInv, InMemory

LEMMA GarageInvStep == GarageInv /\ [HouseNext]_houseVars => GarageInv'
<1> SUFFICES ASSUME GarageInv, [HouseNext]_houseVars PROVE GarageInv'
  OBVIOUS
<1>1. CASE GarageNext
  <2>1. ASSUME NEW n \in Names, NEW a \in Amps, EditCharger(n, a) PROVE GarageInv'
    BY <2>1, EditKeeps
  <2>2. ASSUME NEW n \in Names, NEW h \in Handles, NEW t \in Tariffs,
               \/ ClaimCharger(n, h, [tariff |-> t, vehicle |-> "none"])
               \/ ImportAndRestart(TRUE, n, h, [tariff |-> t, vehicle |-> "none"])
               \/ ImportAndRestart(FALSE, n, h, [tariff |-> t, vehicle |-> "none"])
        PROVE  GarageInv'
    <3>1. [tariff |-> t, vehicle |-> "none"] \in Bindings
      BY DEF Bindings
    <3>2. CASE ClaimCharger(n, h, [tariff |-> t, vehicle |-> "none"])
      BY <3>1, <3>2, ClaimKeeps
    <3>3. QED
      BY <2>2, <3>1, <3>2, ImportedRowsKeep
  <2>3. ASSUME NEW n \in Names, RemoveCharger(n) PROVE GarageInv'
    BY <2>3, RemoveKeeps
  <2>4. ASSUME NEW n \in Names, NEW m \in ChargeModes, SetMode(n, m) PROVE GarageInv'
    BY <2>4, ModeKeeps
  <2>5. QED
    BY <1>1, <2>1, <2>2, <2>3, <2>4, BindKeeps, VehicleKeeps, BootKeeps, CrashKeeps,
       GarageAssumption DEF GarageNext
<1>2. CASE UNCHANGED garageVars
  BY <1>2 DEF garageVars, GarageInv
<1>3. QED
  BY <1>1, <1>2 DEF HouseNext, houseVars

LEMMA NowhereIsWired == site = Nowhere => LoadpointIsWired
  BY DEF Nowhere, Empty, LoadpointIsWired

(* However chargers were claimed, of whatever stations, edited, bound,     *)
(* imported and removed, and wherever the process crashed between two      *)
(* rows: what is ticked, listened to and told are the loadpoints there     *)
(* are, and a station that no two chargers have had together is registered *)
(* and knows the loadpoint of its charger.                                 *)
THEOREM WiringTheorem == HouseSpec => []LoadpointIsWired
<1>1. GarageInv => LoadpointIsWired
  <2>1. ASSUME FollowsRows(site, overrides, saved), IsWired(site) PROVE LoadpointIsWired
    <3>1. DOMAIN site.states = DOMAIN site.loadpoints
      BY <2>1 DEF FollowsRows, StatesOf
    <3>2. Stationed(site.chargers, DOMAIN site.loadpoints, site.registered, site.named, site.shared)
      BY <2>1 DEF IsWired, StationsKnown
    <3>3. DOMAIN site.circuits = DOMAIN site.loadpoints /\ site.limits = LimitsOf(site)
          /\ site.subs = SubsOf(site)
      BY <2>1 DEF IsWired
    <3>4. QED
      BY ONLY <3>1, <3>2, <3>3, Zenon
         DEF Stationed, StationsOf, LimitsOf, SubsOf, LoadpointIsWired
  <2>2. QED
    BY <2>1, NowhereIsWired DEF GarageInv
<1>2. QED
  BY <1>1, GarageInvInit, GarageInvStep, PTL DEF HouseSpec

(***************************************************************************)
(* The settings there is one of: what is in memory is what is in the rows, *)
(* but for what was captured at boot and answered as waiting.              *)
(***************************************************************************)
SettingsInv == DOMAIN stored = Settable /\ NoneOtherIsOwed

LEMMA SettingsInvInit == HouseInit => SettingsInv
  BY DEF HouseInit, SettingsInit, NoSettings, SettingsInv, NoneOtherIsOwed

LEMMA SettingsInvStep == SettingsInv /\ [HouseNext]_houseVars => SettingsInv'
<1> SUFFICES ASSUME SettingsInv, [HouseNext]_houseVars PROVE SettingsInv'
  OBVIOUS
<1>1. ASSUME NEW changed \in BOOLEAN, NEW k \in Reloaded, PutField(k, changed)
      PROVE  SettingsInv'
  <2>1. \A j \in BootOnly \ owed' : j # k
    BY <1>1, SettingsAssumption DEF PutField, Reloaded, BootOnly
  <2>2. \A j \in BootOnly \ owed' : stored'[j] = stored[j] /\ captured[j] = stored[j]
    BY <1>1, <2>1 DEF PutField, SettingsInv, NoneOtherIsOwed, Settable
  <2>3. QED
    BY <1>1, <2>2 DEF PutField, SettingsInv, NoneOtherIsOwed
<1>2. ASSUME NEW changed \in BOOLEAN, PutMqttBridge(changed) PROVE SettingsInv'
  <2>1. \A k \in Reloaded : stored'[k] = stored[k]
    BY <1>2, SettingsAssumption DEF PutMqttBridge, SettingsInv, Reloaded, Settable
  <2>2. \A k \in BootOnly \ owed' : stored'[k] = stored[k] /\ captured[k] = stored[k]
    BY <1>2 DEF PutMqttBridge, SettingsInv, NoneOtherIsOwed, Settable
  <2>3. settings' = [k \in Reloaded |-> stored'[k]]
    BY <1>2, <2>1, Zenon DEF PutMqttBridge, SettingsInv, NoneOtherIsOwed
  <2>4. QED
    BY <1>2, <2>2, <2>3 DEF PutMqttBridge, SettingsInv, NoneOtherIsOwed
<1>3. ASSUME NEW a \in Breakers, AddBalancer(a) \/ EditBalancer(a) PROVE SettingsInv'
  BY <1>3 DEF AddBalancer, EditBalancer, SettingsInv, NoneOtherIsOwed
<1>4. CASE BootSettings
  BY <1>4 DEF BootSettings, SettingsInv, NoneOtherIsOwed
<1>5. CASE EndSettings
  BY <1>5 DEF EndSettings, SettingsInv, NoneOtherIsOwed
<1>6. CASE UNCHANGED settingsVars
  BY <1>6 DEF settingsVars, SettingsInv, NoneOtherIsOwed
<1>7. QED
  BY <1>1, <1>2, <1>3, <1>4, <1>5, <1>6 DEF HouseNext, SettingsNext, houseVars

(* And a restart would make the same of the rows, whatever was asked,      *)
(* imported or cut short before: no edit lives in memory alone, and none   *)
(* is only for the next start but those whose answers have said so.        *)
THEOREM RestartTheorem == HouseSpec => []RestartChangesWhatIsOwed
<1>1. GarageInv => RestartRebuildsTheSame
  <2> SUFFICES ASSUME GarageInv, running = "up" PROVE RestartRebuildsTheSame
    BY DEF RestartRebuildsTheSame
  <2>1. FollowsRows(site, overrides, saved) /\ IsWired(site)
    BY DEF GarageInv
  <2>2. site.states = Booted.states
    <3>1. \A n \in DOMAIN overrides.loadpoints : saved[n] = Saved(n)
      BY <2>1 DEF FollowsRows, Saved
    <3>2. site.states = [n \in DOMAIN overrides.loadpoints |->
                           [mode |-> saved[n], maxA |-> overrides.chargers[n].amps]]
      BY <2>1, Zenon DEF FollowsRows, StatesOf
    <3>3. Booted.states = [n \in DOMAIN overrides.loadpoints |->
                             [mode |-> Saved(n), maxA |-> overrides.chargers[n].amps]]
      BY BootedIs
    <3>4. QED
      BY ONLY <3>1, <3>2, <3>3, Zenon
  <2>3. site.limits = Booted.limits
    <3>1. site.limits = [n \in DOMAIN overrides.loadpoints |-> overrides.chargers[n]]
      BY <2>1, Zenon DEF FollowsRows, IsWired, LimitsOf
    <3>2. QED
      BY <3>1, BootedIs
  <2>4. Booted.circuits = [n \in DOMAIN site.loadpoints |-> site.loadpoints[n].tariff]
    BY <2>1, BootedIs DEF FollowsRows
  <2>5. QED
    BY <2>1, <2>2, <2>3, <2>4, BootedIs DEF FollowsRows, RestartRebuildsTheSame
<1>2. GarageInv /\ SettingsInv => RestartChangesWhatIsOwed
  BY <1>1 DEF SettingsInv, RestartChangesWhatIsOwed
<1>3. QED
  BY <1>2, GarageInvInit, GarageInvStep, SettingsInvInit, SettingsInvStep, PTL DEF HouseSpec

(***************************************************************************)
(* The memory of past loads.  The load that was measured is covered by the *)
(* row of its own day for as long as a query may reach that day: a later   *)
(* and smaller load raises nothing, and pruning keeps more days than any   *)
(* query asks for.                                                         *)
(***************************************************************************)
Remembered ==
    sample # NoSample => \E r \in rows : r.age = sample.age /\ r.amps >= sample.amps

MeterInv == MeterTypeOK /\ Remembered

LEMMA LeastOf ==
    ASSUME NEW T \in SUBSET Nat, T # {}
    PROVE  \E t \in T : \A u \in T : t <= u
<1>1. PICK t \in T : \A u \in T : ~(<<u, t>> \in OpToRel(<, Nat))
  BY NatLessThanWellFounded, WFMin
<1>2. \A u \in T : ~(u < t)
  BY <1>1 DEF OpToRel
<1> QED
  BY <1>2

LEMMA MaxOfLoads ==
    ASSUME NEW S \in SUBSET Loads, S # {}
    PROVE  Max(S) \in S /\ \A x \in S : x <= Max(S)
<1>1. PICK most \in Loads : \A a \in Loads : a <= most
  BY MeterAssumption
<1>2. most \in Nat /\ S \subseteq Nat /\ \A x \in S : x <= most
  BY <1>1, MeterAssumption
<1> DEFINE T == {most - x : x \in S}
<1>3. \A x \in S : most - x \in Nat
  BY <1>2
<1>4. T \in SUBSET Nat /\ T # {}
  BY <1>3
<1>5. PICK t \in T : \A u \in T : t <= u
  BY <1>4, LeastOf
<1>6. PICK m \in S : t = most - m
  OBVIOUS
<1>7. \A x \in S : x <= m
  BY <1>2, <1>5, <1>6
<1> QED
  BY <1>6, <1>7 DEF Max

LEMMA MeterInvInit == HouseInit => MeterInv
BY MeterAssumption, Zenon DEF HouseInit, MeterInit, NoMeter, MeterInv, MeterTypeOK, Remembered

(* A load of the hour is folded into the row of today.                     *)
LEMMA RecordKeeps ==
    ASSUME MeterInv, NEW a \in Loads \ {0}
    PROVE  /\ recordHouseholdLoad(rows, a) \subseteq [age : 0..Oldest, amps : Loads \ {0}]
           /\ \E r \in recordHouseholdLoad(rows, a) : r.age = 0 /\ r.amps >= a
           /\ \A o \in rows : \E r \in recordHouseholdLoad(rows, a) : r.age = o.age /\ r.amps >= o.amps
<1> DEFINE before == {r.amps : r \in {x \in rows : x.age = 0}}
           today == [age |-> 0, amps |-> Max(before \cup {a})]
<1>1. rows \subseteq [age : 0..Oldest, amps : Loads \ {0}]
  BY DEF MeterInv, MeterTypeOK
<1>2. before \subseteq Loads \ {0}
  BY <1>1
<1>3. /\ Max(before \cup {a}) \in Loads \ {0}
      /\ \A x \in before \cup {a} : x <= Max(before \cup {a})
  BY <1>2, MaxOfLoads
<1>4. 0 \in 0..Oldest
  BY MeterAssumption DEF Oldest, keepDays
<1>5. today \in [age : 0..Oldest, amps : Loads \ {0}] /\ today.age = 0
      /\ \A x \in before \cup {a} : x <= today.amps
  BY <1>3, <1>4
<1>6. recordHouseholdLoad(rows, a) = {r \in rows : r.age # 0} \cup {today}
  BY DEF recordHouseholdLoad
<1> HIDE DEF today
<1>7. \A o \in rows : o.age = 0 => o.amps \in before
  OBVIOUS
<1>8. \A o \in rows : o.amps \in Nat /\ a \in Nat /\ today.amps \in Nat
  BY <1>1, <1>5, MeterAssumption
<1> HIDE DEF before
<1>9. \A o \in rows : \E r \in {r \in rows : r.age # 0} \cup {today} : r.age = o.age /\ r.amps >= o.amps
  <2> SUFFICES ASSUME NEW o \in rows
               PROVE  \E r \in {r \in rows : r.age # 0} \cup {today} : r.age = o.age /\ r.amps >= o.amps
    OBVIOUS
  <2>1. CASE o.age = 0
    BY <1>5, <1>7, <1>8, <2>1
  <2>2. CASE o.age # 0
    BY <1>8, <2>2
  <2> QED
    BY <2>1, <2>2
<1>10. a \in Nat /\ today.amps \in Nat /\ today.amps >= a
  BY <1>5, MeterAssumption
<1> QED
  BY <1>1, <1>5, <1>6, <1>9, <1>10

(* The handler of a snapshot.                                              *)
LEMMA OnSnapshotKeeps ==
    ASSUME MeterInv, NEW s \in [Phases -> Loads], OnSnapshot(s)
    PROVE  /\ rows' \subseteq [age : 0..Oldest, amps : Loads \ {0}] /\ pruned' \in BOOLEAN
           /\ sample' = NoSample \/ sample' \in [age : 0..historicalDays, amps : Loads \ {0}]
           /\ Remembered'
<1>1. maxPhaseA(s) \in Loads
  <2>1. {s[p] : p \in Phases} \in SUBSET Loads /\ {s[p] : p \in Phases} # {}
    BY MeterAssumption
  <2> QED
    BY <2>1, MaxOfLoads DEF maxPhaseA
<1>2. CASE maxPhaseA(s) = 0
  BY <1>2 DEF OnSnapshot, MeterInv, MeterTypeOK, Remembered
<1>3. CASE maxPhaseA(s) # 0
  <2> DEFINE a == maxPhaseA(s)
  <2>1. PICK inHour \in BOOLEAN, slip \in DateSlips :
           LET folded == IF inHour THEN recordHouseholdLoad(rows, a) ELSE rows
           IN /\ rows' = IF pruned THEN folded ELSE pruneHouseholdLoad(folded, slip)
              /\ pruned' = TRUE
              /\ sample' \in {sample} \cup (IF inHour THEN {[age |-> 0, amps |-> a]} ELSE {})
    BY <1>3 DEF OnSnapshot
  <2>2. a \in Loads \ {0}
    BY <1>1, <1>3
  <2> HIDE DEF a
  <2> DEFINE folded == IF inHour THEN recordHouseholdLoad(rows, a) ELSE rows
  <2>3. /\ folded \subseteq [age : 0..Oldest, amps : Loads \ {0}]
        /\ inHour => \E r \in folded : r.age = 0 /\ r.amps >= a
        /\ \A o \in rows : \E r \in folded : r.age = o.age /\ r.amps >= o.amps
    <3>1. CASE inHour
      BY <2>2, <3>1, RecordKeeps
    <3>2. CASE ~inHour
      <4>1. rows \subseteq [age : 0..Oldest, amps : Loads \ {0}] /\ folded = rows
        BY <3>2 DEF MeterInv, MeterTypeOK
      <4>2. \A o \in rows : o.amps \in Nat
        BY <4>1, MeterAssumption
      <4> QED
        BY <3>2, <4>1, <4>2
    <3> QED
      BY <3>1, <3>2
  <2>4. rows' = IF pruned THEN folded ELSE pruneHouseholdLoad(folded, slip)
    BY <2>1
  <2> HIDE DEF folded
  <2>5. historicalDays \in Nat /\ slip \in {-1, 0, 1} /\ historicalDays <= keepDays + slip
        /\ 0 <= keepDays + slip
    BY MeterAssumption DEF DateSlips, keepDays
  <2>6. rows' \subseteq folded /\ \A r \in folded : r.age <= historicalDays => r \in rows'
    <3>1. \A r \in folded : r.age \in Int
      BY <2>3
    <3> QED
      BY <2>4, <2>5, <3>1 DEF pruneHouseholdLoad, keepDays
  <2>7. sample' = NoSample \/ sample' \in [age : 0..historicalDays, amps : Loads \ {0}]
    BY <2>1, <2>2, <2>5 DEF MeterInv, MeterTypeOK
  <2>8. sample' # NoSample => \E r \in folded : r.age = sample'.age /\ r.amps >= sample'.amps
    <3>1. CASE sample' = sample
      <4> SUFFICES ASSUME sample # NoSample
                   PROVE  \E r \in folded : r.age = sample.age /\ r.amps >= sample.amps
        BY <3>1
      <4>1. PICK o \in rows : o.age = sample.age /\ o.amps >= sample.amps
        BY DEF MeterInv, Remembered
      <4>2. PICK r \in folded : r.age = o.age /\ r.amps >= o.amps
        BY <2>3
      <4>3. r.amps \in Int /\ o.amps \in Int /\ sample.amps \in Int
        BY <2>3, MeterAssumption DEF MeterInv, MeterTypeOK
      <4> QED
        BY <4>1, <4>2, <4>3
    <3>2. CASE inHour /\ sample' = [age |-> 0, amps |-> a]
      BY <2>3, <3>2
    <3> QED
      BY <2>1, <3>1, <3>2
  <2>9. Remembered'
    BY <2>5, <2>6, <2>7, <2>8 DEF Remembered
  <2> QED
    BY <2>1, <2>3, <2>6, <2>7, <2>9
<1> QED
  BY <1>2, <1>3

LEMMA SnapshotKeeps ==
    ASSUME MeterInv, NEW s \in [Phases -> Loads], Snapshot(s), {connected', batched', due'} \subseteq BOOLEAN,
           kind' = kind
    PROVE  MeterInv'
<1>1. latest' = s /\ fresh' = TRUE /\ OnSnapshot(s)
  BY DEF Snapshot
<1> QED
  BY <1>1, OnSnapshotKeeps DEF MeterInv, MeterTypeOK

LEMMA NextDayKeeps == MeterInv /\ NextDay => MeterInv'
<1> SUFFICES ASSUME MeterInv, NextDay
             PROVE  MeterInv'
  OBVIOUS
<1>1. historicalDays \in Nat /\ Oldest \in Nat /\ historicalDays < Oldest
  BY MeterAssumption DEF Oldest, keepDays
<1>2. ASSUME NEW r \in [age : 0..Oldest, amps : Loads \ {0}]
      PROVE  /\ Older(r) \in [age : 0..Oldest, amps : Loads \ {0}] /\ Older(r).amps = r.amps
             /\ r.age < Oldest => Older(r).age = r.age + 1
  BY <1>1, <1>2 DEF Older
<1>3. rows \subseteq [age : 0..Oldest, amps : Loads \ {0}] /\ rows' = {Older(r) : r \in rows}
  BY DEF NextDay, MeterInv, MeterTypeOK
<1>4. rows' \subseteq [age : 0..Oldest, amps : Loads \ {0}]
  BY <1>2, <1>3
<1>5. CASE sample' # NoSample
  <2>1. sample # NoSample /\ sample \in [age : 0..historicalDays, amps : Loads \ {0}]
        /\ sample.age < historicalDays /\ sample' = Older(sample)
    BY <1>1, <1>5 DEF NextDay, MeterInv, MeterTypeOK
  <2>2. sample' \in [age : 0..historicalDays, amps : Loads \ {0}] /\ sample'.age = sample.age + 1
        /\ sample'.amps = sample.amps
    BY <1>1, <2>1 DEF Older
  <2>3. PICK r \in rows : r.age = sample.age /\ r.amps >= sample.amps
    BY <2>1 DEF MeterInv, Remembered
  <2>4. Older(r) \in rows' /\ Older(r).age = sample'.age /\ Older(r).amps >= sample'.amps
    BY <1>1, <1>2, <1>3, <2>1, <2>2, <2>3
  <2> QED
    BY <1>4, <2>2, <2>4 DEF MeterInv, MeterTypeOK, Remembered, NextDay
<1>6. CASE sample' = NoSample
  BY <1>4, <1>6 DEF MeterInv, MeterTypeOK, Remembered, NextDay
<1> QED
  BY <1>5, <1>6

LEMMA MeterStepKeeps == MeterInv /\ MeterNext => MeterInv'
<1> SUFFICES ASSUME MeterInv, MeterNext
             PROVE  MeterInv'
  OBVIOUS
<1>0. kind \in {"none", "phases", "pulse"} /\ {connected, fresh, batched, due, pruned} \subseteq BOOLEAN
  BY DEF MeterInv, MeterTypeOK
<1>1. ASSUME NEW heard \in BOOLEAN, NEW may \in BOOLEAN, disableBatching(may, heard)
      PROVE  {batched', due'} \subseteq BOOLEAN
  <2>1. batched' \in BOOLEAN
    BY <1>1, Zenon DEF disableBatching
  <2> QED
    BY <1>1, <2>1 DEF disableBatching
<1>2. ASSUME NEW heard \in BOOLEAN, MeterConnects(heard) \/ Batch(heard)
      PROVE  MeterInv'
  <2>1. {batched', due'} \subseteq BOOLEAN /\ connected' \in BOOLEAN
    BY <1>0, <1>1, <1>2 DEF MeterConnects, Batch
  <2>2. UNCHANGED <<kind, latest, fresh, rows, pruned, sample>>
    BY <1>2 DEF MeterConnects, Batch
  <2> QED
    BY <2>1, <2>2 DEF MeterInv, MeterTypeOK, Remembered
<1>3. ASSUME NEW p \in Phases, NEW a \in Loads, PhaseMessage(p, a)
      PROVE  MeterInv'
  <2>1. [(IF latest = NoSnapshot THEN Zeros ELSE latest) EXCEPT ![p] = a] \in [Phases -> Loads]
    BY MeterAssumption DEF Zeros, MeterInv, MeterTypeOK
  <2> QED
    BY <1>0, <1>3, <2>1, SnapshotKeeps DEF PhaseMessage
<1>4. ASSUME NEW s \in [Phases -> Loads], NEW heard \in BOOLEAN, Telegram(s, heard)
      PROVE  MeterInv'
  <2>1. {batched', due'} \subseteq BOOLEAN
    BY <1>0, <1>1, <1>4 DEF Telegram
  <2> QED
    BY <1>0, <1>4, <2>1, SnapshotKeeps DEF Telegram
<1>5. CASE MeterDisconnects \/ GoesStale \/ IntervalPasses \/ PulseRestarts \/ MeterRestarts
  BY <1>5 DEF MeterDisconnects, GoesStale, IntervalPasses, PulseRestarts, MeterRestarts, MeterInv,
              MeterTypeOK, Remembered
<1>6. CASE NextDay
  BY <1>6, NextDayKeeps
<1> QED
  BY <1>2, <1>3, <1>4, <1>5, <1>6 DEF MeterNext, Heard

LEMMA MeterInvStep == MeterInv /\ [HouseNext]_houseVars => MeterInv'
<1>1. MeterInv /\ UNCHANGED meterVars => MeterInv'
  BY DEF meterVars, MeterInv, MeterTypeOK, Remembered
<1> QED
  BY <1>1, MeterStepKeeps DEF HouseNext, houseVars

(* Over restarts, prunings, smaller loads and changes of the clocks, for   *)
(* any look-back and any number of phases: the worst case that is asked    *)
(* for when the meter is not fresh is no less than any load once measured  *)
(* in the hour, as long as the look-back reaches it (rollup.ts).           *)
THEOREM WorstCaseTheorem == HouseSpec => []WorstCaseRemembers
<1>1. MeterInv => WorstCaseRemembers
  <2> SUFFICES ASSUME MeterInv, NEW slip \in DateSlips, sample # NoSample,
                      sample.age <= historicalDays - 1 + slip
               PROVE  LookBack(slip) # {} /\ worstCaseLoadA(slip) >= sample.amps
    BY DEF WorstCaseRemembers
  <2>1. PICK r \in rows : r.age = sample.age /\ r.amps >= sample.amps
    BY DEF MeterInv, Remembered
  <2>2. r \in LookBack(slip)
    BY <2>1 DEF LookBack
  <2> DEFINE S == {x.amps : x \in LookBack(slip)}
  <2>3. S \in SUBSET Loads /\ r.amps \in S
    BY <2>2 DEF LookBack, MeterInv, MeterTypeOK
  <2> HIDE DEF S
  <2>4. Max(S) \in Loads /\ r.amps <= Max(S) /\ r.amps \in Loads
    BY <2>3, MaxOfLoads
  <2>5. Max(S) \in Int /\ r.amps \in Int /\ sample.amps \in Int
    <3>1. sample \in [age : 0..historicalDays, amps : Loads \ {0}]
      BY DEF MeterInv, MeterTypeOK
    <3>2. sample.amps \in Loads
      BY <3>1
    <3>3. \A a \in Loads : a \in Int
      BY MeterAssumption
    <3> QED
      BY <2>4, <3>2, <3>3, Zenon
  <2>6. worstCaseLoadA(slip) = Max(S)
    BY DEF worstCaseLoadA, S
  <2> QED
    BY <2>1, <2>2, <2>4, <2>5, <2>6
<1> QED
  BY <1>1, MeterInvInit, MeterInvStep, PTL DEF HouseSpec

(***************************************************************************)
(* The cars.                                                               *)
(***************************************************************************)

(* A poll that is answered late, a car that changes, a charger that drops  *)
(* out, an override or a restart between any two ticks: the reading that   *)
(* the estimate of the energy goes on from is one of the car identified    *)
(* (vehicleAnchor of lifecycle.ts).                                        *)
THEOREM AnchorTheorem == VehicleSpec => []AnchorIsActive
<1>1. VehicleInit => AnchorIsActive
  BY DEF VehicleInit, AnchorIsActive
<1>2. AnchorIsActive /\ [VehicleNext]_vehicleVars => AnchorIsActive'
  <2> SUFFICES ASSUME AnchorIsActive, [VehicleNext]_vehicleVars, anchored'
               PROVE  active' = "app"
    BY DEF AnchorIsActive
  <2>1. CASE Tick
    BY <2>1 DEF Tick, Identify, AnchorIsActive
  <2>2. ASSUME NEW c \in Calls, CallResolves(c)
        PROVE  active' = "app"
    BY <2>2 DEF CallResolves, AnchorIsActive
  <2>3. CASE Boot \/ TimePasses \/ Restart \/ WorldTurns \/ Settles
    BY <2>3 DEF Boot, TimePasses, Restart, WorldTurns, Settles, AnchorIsActive
  <2>4. ASSUME NEW c \in Calls, TokenStep(c) \/ CallFails(c)
        PROVE  active' = "app"
    BY <2>4 DEF TokenStep, CallFails, AnchorIsActive
  <2>5. CASE UNCHANGED vehicleVars
    BY <2>5 DEF vehicleVars, AnchorIsActive
  <2> QED
    BY <2>1, <2>2, <2>3, <2>4, <2>5 DEF VehicleNext
<1> QED
  BY <1>1, <1>2, PTL DEF VehicleSpec

(* What a call of the vehicle is worth that may still end in a failed      *)
(* login.                                                                  *)
LoggingIn(c) == IF stage[c] \in {"refresh", "login"} THEN 1 ELSE 0

(* In a window a call that is past token()'s first look may still fail: it *)
(* began while fewer than MaxLogins had.                                   *)
Rationed == lockAge < Lock => logins + LoggingIn("poll") + LoggingIn("boot") <= MaxLogins + 1

VehicleInv == VehicleTypeOK /\ Rationed

LEMMA VehicleFacts ==
    /\ Ttl \in Nat \ {0} /\ MaxLogins \in Nat \ {0} /\ Lock \in Nat \ {0}
    /\ Interval \in Nat \ {0} /\ MaxMisses \in Nat \ {0} /\ MaxAttempts \in Nat \ {0}
    /\ Cardinality(Calls) = 2
<1>1. Cardinality({"poll"}) = 1 /\ IsFiniteSet({"poll"})
  BY FS_Singleton
<1>2. Cardinality({"poll"} \union {"boot"}) = 2
  BY <1>1, FS_AddElement
<1>3. Calls = {"poll"} \union {"boot"}
  BY DEF Calls
<1> QED
  BY <1>2, <1>3, AuthAssumption, VehicleAssumption DEF MaxMisses

LEMMA Saturated ==
    ASSUME NEW n \in Nat, NEW m \in Nat \ {0}, n <= m
    PROVE  Min({n + 1, m}) \in 0..m /\ (Min({n + 1, m}) < m => n < m)
BY DEF Min

(* What the calls on the cloud keep, for each of their steps.              *)
AuthInv == AuthTypeOK /\ Rationed

LEMMA AuthKeeps ==
    ASSUME AuthInv,
           \/ \E c \in Calls : \/ Begin(c) /\ UNCHANGED <<tokens, failing, settled>>
                               \/ RefreshAnswered(c) \/ RefreshFails(c)
                               \/ LoginAnswered(c) \/ LoginFails(c) \/ DataEnds(c)
           \/ AuthTimePasses \/ AuthRestarts \/ UNCHANGED auth
           \/ settled' = TRUE /\ UNCHANGED <<calls, tokens, failing>>
    PROVE  AuthInv'
<1>0. /\ stage \in [Calls -> Stages] /\ sent \in [Calls -> BOOLEAN]
      /\ access \in 0..Ttl /\ savedToken \in {"none", "current", "dead"}
      /\ logins \in 0..MaxLogins + 1 /\ lockAge \in 0..Lock /\ settled \in BOOLEAN
  BY VehicleFacts DEF AuthInv, AuthTypeOK
<1>1. /\ stage' \in [Calls -> Stages] /\ sent' \in [Calls -> BOOLEAN]
      /\ access' \in 0..Ttl /\ savedToken' \in {"none", "current", "dead"}
      /\ logins' \in 0..MaxLogins + 1 /\ lockAge' \in 0..Lock /\ settled' \in BOOLEAN
      /\ Rationed'
      => AuthInv'
  BY VehicleFacts DEF AuthInv, AuthTypeOK
<1>2. lockAge < Lock => logins + LoggingIn("poll") + LoggingIn("boot") <= MaxLogins + 1
  BY DEF AuthInv, Rationed
<1>3. ASSUME NEW c \in Calls, Begin(c), UNCHANGED <<tokens, failing, settled>>
      PROVE  AuthInv'
  <2>1. stage' \in [Calls -> Stages] /\ sent' \in [Calls -> BOOLEAN]
    <3>1. (access = 0 /\ savedToken = "current") \in BOOLEAN
      BY Zenon
    <3> QED
      BY <1>0, <1>3, <3>1 DEF Begin, Stages
  <2>2. access > 0 => \A d \in Calls : stage'[d] \in {"refresh", "login"} => stage[d] \in {"refresh", "login"}
    BY <1>0, <1>3 DEF Begin
  <2>3. lockAge < Lock => access > 0 \/ logins < MaxLogins
    BY <1>0, <1>3, VehicleFacts DEF Begin, Rejected, deadAuth
  <2>4. Rationed'
    BY <1>0, <1>2, <1>3, <2>2, <2>3, VehicleFacts DEF Rationed, LoggingIn, Calls, failing
  <2> QED
    BY <1>0, <1>1, <1>3, <2>1, <2>4 DEF tokens, failing
<1>4. ASSUME NEW c \in Calls, RefreshAnswered(c) \/ LoginAnswered(c)
      PROVE  AuthInv'
  <2>1. /\ access' = Ttl /\ savedToken' = "current" /\ logins' = 0 /\ lockAge' = lockAge
        /\ stage' = [stage EXCEPT ![c] = "data"] /\ sent' = [d \in Calls |-> FALSE]
        /\ settled' = settled
    BY <1>4 DEF RefreshAnswered, LoginAnswered, Tokens
  <2>2. sent' \in [Calls -> BOOLEAN]
    BY <2>1, Zenon
  <2>3. Rationed'
    BY <1>0, <2>1, VehicleFacts DEF Rationed, LoggingIn, Calls
  <2> QED
    BY <1>0, <1>1, <2>1, <2>2, <2>3, VehicleFacts DEF Stages
<1>5. ASSUME NEW c \in Calls, RefreshFails(c)
      PROVE  AuthInv'
  <2>1. /\ stage' = [stage EXCEPT ![c] = "login"] /\ access' = 0 /\ UNCHANGED <<logins, lockAge, settled>>
        /\ savedToken' \in {savedToken, "dead"} /\ stage[c] = "refresh"
    BY <1>5 DEF RefreshFails, failing
  <2>2. sent' \in [Calls -> BOOLEAN]
    <3>1. sent' = [sent EXCEPT ![c] = FALSE] \/ sent' = [d \in Calls |-> FALSE]
      BY <1>5 DEF RefreshFails
    <3> QED
      BY <1>0, <3>1, Zenon
  <2>3. Rationed'
    BY <1>0, <1>2, <2>1 DEF Rationed, LoggingIn, Calls
  <2>4. /\ stage' \in [Calls -> Stages] /\ savedToken' \in {"none", "current", "dead"}
        /\ logins' = logins /\ lockAge' = lockAge /\ settled' = settled /\ access' \in 0..Ttl
    BY <1>0, <2>1, VehicleFacts DEF Stages
  <2> QED
    BY <1>0, <1>1, <2>2, <2>3, <2>4
<1>6. ASSUME NEW c \in Calls, LoginFails(c)
      PROVE  AuthInv'
  <2>1. /\ logins' = counted /\ lockAge' = IF opensWindow THEN 0 ELSE lockAge
        /\ stage' = [stage EXCEPT ![c] = "none"] /\ stage[c] = "login"
        /\ UNCHANGED <<sent, access, savedToken, settled>>
    BY <1>6 DEF LoginFails, tokens
  <2>2. LoggingIn("poll")' + LoggingIn("boot")' = LoggingIn("poll") + LoggingIn("boot") - 1
        /\ LoggingIn("poll")' \in {0, 1} /\ LoggingIn("boot")' \in {0, 1}
        /\ LoggingIn("poll") \in {0, 1} /\ LoggingIn("boot") \in {0, 1}
    BY <1>0, <2>1 DEF LoggingIn, Calls
  <2>3. Rationed' /\ logins' \in 0..MaxLogins + 1 /\ lockAge' \in 0..Lock
    <3>1. CASE opensWindow
      BY <1>0, <2>1, <2>2, <3>1, VehicleFacts DEF counted, Rationed
    <3>2. CASE ~opensWindow
      BY <1>0, <1>2, <2>1, <2>2, <3>2, VehicleFacts DEF counted, opensWindow, Rationed
    <3> QED
      BY <3>1, <3>2
  <2> QED
    BY <1>0, <1>1, <2>1, <2>3 DEF Stages
<1>7. ASSUME NEW c \in Calls, DataEnds(c)
      PROVE  AuthInv'
  <2>1. /\ stage' = [stage EXCEPT ![c] = "none"]
        /\ UNCHANGED <<sent, access, savedToken, logins, lockAge, settled>>
    BY <1>7 DEF DataEnds, tokens, failing
  <2>2. \A d \in Calls : stage'[d] \in {"refresh", "login"} <=> stage[d] \in {"refresh", "login"}
    BY <1>0, <1>7, <2>1 DEF DataEnds
  <2>3. LoggingIn("poll")' = LoggingIn("poll") /\ LoggingIn("boot")' = LoggingIn("boot")
    BY <2>2 DEF LoggingIn, Calls
  <2>4. Rationed'
    BY <1>2, <2>1, <2>3 DEF Rationed
  <2> QED
    BY <1>0, <1>1, <2>1, <2>4 DEF Stages
<1>8. CASE AuthTimePasses
  <2>1. /\ UNCHANGED <<stage, sent, savedToken, logins, settled>> /\ lockAge' = Min({lockAge + 1, Lock})
        /\ access' = IF access = 0 THEN 0 ELSE access - 1
    BY <1>8 DEF AuthTimePasses, calls
  <2>2. lockAge' \in 0..Lock /\ (lockAge' < Lock => lockAge < Lock)
    BY <1>0, <2>1, VehicleFacts, Saturated
  <2>3. Rationed'
    BY <1>2, <2>1, <2>2 DEF Rationed, LoggingIn
  <2> QED
    BY <1>0, <1>1, <2>1, <2>2, <2>3, VehicleFacts
<1>9. CASE AuthRestarts
  <2>1. sent' \in [Calls -> BOOLEAN]
    BY <1>9, Zenon DEF AuthRestarts
  <2>2. savedToken' \in {savedToken, "dead"} /\ access' = 0 /\ logins' = 0 /\ lockAge' = Lock
        /\ stage' = [c \in Calls |-> "none"] /\ settled' = settled
    BY <1>9 DEF AuthRestarts
  <2> QED
    BY <1>0, <1>1, <2>1, <2>2, VehicleFacts DEF Stages, Rationed
<1>10. CASE settled' \in BOOLEAN /\ UNCHANGED <<calls, tokens, failing>>
  BY <1>0, <1>1, <1>2, <1>10 DEF calls, tokens, failing, Rationed, LoggingIn
<1>11. UNCHANGED auth => settled' \in BOOLEAN /\ UNCHANGED <<calls, tokens, failing>>
  BY <1>0 DEF auth
<1>12. settled' = TRUE => settled' \in BOOLEAN
  BY Zenon
<1> QED
  BY <1>3, <1>4, <1>5, <1>6, <1>7, <1>8, <1>9, <1>10, <1>11, <1>12

LEMMA VehicleInvHolds == VehicleSpec => []VehicleInv
<1>1. VehicleInit => VehicleInv
  <2> SUFFICES ASSUME VehicleInit
               PROVE  VehicleInv
    OBVIOUS
  <2>1. stage \in [Calls -> Stages] /\ access \in 0..Ttl /\ logins \in 0..MaxLogins + Cardinality(Calls) - 1
        /\ lockAge \in 0..Lock /\ savedToken \in {"none", "current", "dead"} /\ ~(lockAge < Lock)
    BY VehicleFacts DEF VehicleInit, AuthInit, Stages
  <2>2. /\ sent \in [Calls -> BOOLEAN] /\ settled \in BOOLEAN
        /\ {online, polled, anchored, failed} \subseteq BOOLEAN
    BY Zenon DEF VehicleInit, AuthInit
  <2>3. /\ present \in Cables /\ override \in UserPicks /\ active \in Cars \union {"none"}
        /\ cache \in {"unknown", "in", "out"}
        /\ misses \in 0..MaxMisses /\ since \in 0..Interval /\ attempt \in 0..MaxAttempts
    BY VehicleFacts DEF VehicleInit
  <2> QED
    BY <2>1, <2>2, <2>3 DEF VehicleInv, VehicleTypeOK, AuthTypeOK, Rationed
<1>2. VehicleInv /\ [VehicleNext]_vehicleVars => VehicleInv'
  <2> SUFFICES ASSUME VehicleInv, [VehicleNext]_vehicleVars
               PROVE  VehicleInv'
    OBVIOUS
  <2>1. AuthInv
    BY DEF VehicleInv, VehicleTypeOK, AuthInv
  <2>2. AuthInv'
    <3>1. CASE Tick
      <4>1. (Begin("poll") /\ UNCHANGED <<tokens, failing, settled>>) \/ UNCHANGED auth
        BY <3>1 DEF Tick
      <4> QED
        BY <2>1, <4>1, AuthKeeps DEF Calls
    <3>2. CASE Boot
      <4>1. (Begin("boot") /\ UNCHANGED <<tokens, failing, settled>>) \/ UNCHANGED auth
        BY <3>2 DEF Boot
      <4> QED
        BY <2>1, <4>1, AuthKeeps DEF Calls
    <3>3. CASE TimePasses \/ Restart \/ WorldTurns \/ Settles \/ UNCHANGED vehicleVars
      BY <2>1, <3>3, AuthKeeps DEF TimePasses, Restart, WorldTurns, Settles, vehicleVars
    <3>4. ASSUME NEW c \in Calls, TokenStep(c) \/ CallFails(c) \/ CallResolves(c)
          PROVE  AuthInv'
      BY <2>1, <3>4, AuthKeeps DEF TokenStep, CallFails, CallResolves
    <3> QED
      BY <3>1, <3>2, <3>3, <3>4 DEF VehicleNext
  <2>3. /\ present \in Cables /\ {online, polled, anchored, failed} \subseteq BOOLEAN
        /\ override \in UserPicks /\ active \in Cars \union {"none"}
        /\ cache \in {"unknown", "in", "out"}
        /\ misses \in 0..MaxMisses /\ since \in 0..Interval /\ attempt \in 0..MaxAttempts
    BY DEF VehicleInv, VehicleTypeOK
  <2>4. Missed(misses) \in 0..MaxMisses /\ Min({since + 1, Interval}) \in 0..Interval
    <3>1. misses \in Nat /\ misses <= MaxMisses /\ since \in Nat /\ since <= Interval
      BY <2>3, VehicleFacts
    <3> QED
      BY <3>1, VehicleFacts, Saturated DEF Missed
  <2>5. {online', polled', anchored', failed'} \subseteq BOOLEAN
    <3>1. CASE Tick
      <4>1. polled' \in BOOLEAN /\ failed' \in BOOLEAN /\ online' = online
        BY <2>3, <3>1 DEF Tick, gate
      <4>2. anchored' = (anchored /\ ~Available /\ active' = active)
        BY <3>1 DEF Tick, Identify
      <4> QED
        BY <2>3, <4>1, <4>2, Zenon
    <3>2. CASE Boot
      BY <2>3, <3>2 DEF Boot, cable, gate
    <3>3. CASE TimePasses \/ Restart \/ Settles \/ UNCHANGED vehicleVars
      BY <2>3, <3>3 DEF TimePasses, Restart, Settles, vehicleVars, cable, gate
    <3>4. CASE WorldTurns
      <4>1. online' = online \/ online' = ~online
        BY <3>4 DEF WorldTurns
      <4>2. online' \in BOOLEAN
        BY <2>3, <4>1, Zenon
      <4> QED
        BY <2>3, <3>4, <4>2 DEF WorldTurns, gate
    <3>5. ASSUME NEW c \in Calls, TokenStep(c) \/ CallFails(c) \/ CallResolves(c)
          PROVE  {online', polled', anchored', failed'} \subseteq BOOLEAN
      <4>1. anchored' \in {anchored, TRUE, FALSE} /\ failed' \in {failed, TRUE, FALSE}
            /\ online' = online /\ polled' = polled
        <5>1. CASE TokenStep(c) \/ CallFails(c)
          BY <5>1 DEF TokenStep, CallFails, cable, gate
        <5>2. CASE CallResolves(c)
          <6>1. anchored' = (anchored \/ (c = "poll" /\ active = "app"))
            BY <5>2 DEF CallResolves
          <6>2. anchored' \in {TRUE, FALSE}
            BY <2>3, <6>1, Zenon
          <6> QED
            BY <5>2, <6>2 DEF CallResolves, cable
        <5> QED
          BY <3>5, <5>1, <5>2
      <4> QED
        BY <2>3, <4>1
    <3> QED
      BY <3>1, <3>2, <3>3, <3>4, <3>5 DEF VehicleNext
  <2>6. /\ present' \in Cables /\ override' \in UserPicks /\ active' \in Cars \union {"none"}
        /\ cache' \in {"unknown", "in", "out"}
    <3>1. CASE Tick
      BY <2>3, <3>1 DEF Tick, Identify, resolveActiveVehicle, Latched, UserPicks, Cars
    <3>2. CASE Boot \/ TimePasses \/ Restart \/ WorldTurns \/ Settles \/ UNCHANGED vehicleVars
      BY <2>3, <3>2 DEF Boot, TimePasses, Restart, WorldTurns, Settles, vehicleVars, cable
    <3>3. ASSUME NEW c \in Calls, TokenStep(c) \/ CallFails(c) \/ CallResolves(c)
          PROVE  /\ present' \in Cables /\ override' \in UserPicks /\ active' \in Cars \union {"none"}
                 /\ cache' \in {"unknown", "in", "out"}
      BY <2>3, <3>3 DEF TokenStep, CallFails, CallResolves, cable
    <3> QED
      BY <3>1, <3>2, <3>3 DEF VehicleNext
  <2>7. misses' \in 0..MaxMisses /\ since' \in 0..Interval /\ attempt' \in 0..MaxAttempts
    <3>1. CASE Tick
      BY <2>3, <2>4, <3>1, VehicleFacts DEF Tick, gate
    <3>2. CASE Boot
      BY <2>3, <3>2, VehicleFacts DEF Boot, gate
    <3>3. CASE TimePasses \/ Restart \/ WorldTurns \/ Settles \/ UNCHANGED vehicleVars
      BY <2>3, <2>4, <3>3, VehicleFacts DEF TimePasses, Restart, WorldTurns, Settles, vehicleVars, gate
    <3>4. ASSUME NEW c \in Calls, TokenStep(c) \/ CallFails(c) \/ CallResolves(c)
          PROVE  misses' \in 0..MaxMisses /\ since' \in 0..Interval /\ attempt' \in 0..MaxAttempts
      BY <2>3, <2>4, <3>4, VehicleFacts DEF TokenStep, CallFails, CallResolves, gate
    <3> QED
      BY <3>1, <3>2, <3>3, <3>4 DEF VehicleNext
  <2> QED
    BY <2>2, <2>5, <2>6, <2>7 DEF AuthInv, VehicleInv, VehicleTypeOK
<1> QED
  BY <1>1, <1>2, PTL DEF VehicleSpec

(* The account is not locked out by OSC: however polls, the hook after a   *)
(* start, refreshes that fail and restarts overlap, within the hour after  *)
(* a first failure no more logins fail than the lockout allows and one for *)
(* the call that was already past token()'s look at it (auth.ts).          *)
LoginsAreRationed == logins <= MaxLogins + 1

THEOREM LoginsTheorem == VehicleSpec => []LoginsAreRationed
<1>1. VehicleInv => LoginsAreRationed
  BY VehicleFacts DEF VehicleInv, VehicleTypeOK, AuthTypeOK, LoginsAreRationed
<1> QED
  BY <1>1, VehicleInvHolds, PTL
=============================================================================
