--------------------------- MODULE ConfigTransfer ---------------------------
(***************************************************************************)
(* Export and import of the configuration (core/config-io.ts) and what may *)
(* happen in between: a document is written from the configuration in      *)
(* memory, its credentials redacted or in clear, kept, perhaps edited, and *)
(* imported, maybe into an installation that has changed since.  An import *)
(* writes the rows; memory follows at the next start.                      *)
(* Looked at is one credential, wherever it may stand, the mode of one     *)
(* loadpoint and the retention of the logs.                                *)
(***************************************************************************)

CONSTANTS Secrets,      \* credentials
          UserModes,    \* modes of the loadpoint
          DefaultDays,  \* retention of the logs unless set
          Days          \* what it may be set to

ASSUME TransferAssumption ==
    /\ Secrets \cap {"absent", "unset", "redacted"} = {} /\ DefaultDays \in Days
    /\ UserModes # {} /\ "none" \notin UserModes

VARIABLES place,      \* where the credential stands; "nowhere": no such installation
          row,        \* it in config_overrides
          memory,     \* and in the configuration in memory
          savedMode,  \* mode in loadpoint_state
          liveMode,   \* and in memory
          retention,  \* settings: read from the database whenever it is needed
          document    \* the exported document
transferVars == <<place, row, memory, savedMode, liveMode, retention, document>>

(* A vehicle's password is a field of its own, a broker's is one of the    *)
(* object broker; a balancer may have one, as every entity, by the         *)
(* catchall of the schema.                                                 *)
Places == {"bridge", "meter", "vehicle", "balancer"}
Nested == {"bridge", "meter"}

(* No such entity; an entity without the credential; the placeholder.      *)
Fields == Secrets \union {"absent", "unset", "redacted"}

NoDocument == [field |-> "absent", mode |-> "none", days |-> DefaultDays, own |-> FALSE]

TransferInit ==
    /\ place \in Places
    /\ row \in Secrets \union {"absent", "unset"} /\ memory = row
    /\ savedMode \in UserModes /\ liveMode = savedMode
    /\ retention = DefaultDays
    /\ document = NoDocument

-----------------------------------------------------------------------------
(* The recursion over every field called password.                         *)
redactPasswords(field) == IF field \in Secrets THEN "redacted" ELSE field

(* The password of a vehicle, or what its module calls secret: the same.   *)
secretVehicleKeys == IF place = "vehicle" THEN {"password"} ELSE {}
redactSecrets(field) ==
    IF secretVehicleKeys # {} /\ field # "absent" /\ field # "unset" THEN "redacted"
    ELSE redactPasswords(field)

(* What is configured and not the default, from memory; the retention from *)
(* the settings.  "own" is history: is it of this installation, and of     *)
(* what it has?                                                            *)
buildConfigExport(secrets) ==
    [field |-> IF secrets THEN memory ELSE redactSecrets(memory),
     mode  |-> liveMode,
     days  |-> retention,
     own   |-> memory = row /\ liveMode = savedMode]

Export(secrets) ==
    /\ place # "nowhere"
    /\ document' = buildConfigExport(secrets)
    /\ UNCHANGED <<place, row, memory, savedMode, liveMode, retention>>

(* Someone edits the document, or brings another one.                      *)
EditDocument(field, mode, days) ==
    /\ document # NoDocument
    /\ document' = [field |-> field, mode |-> mode, days |-> days, own |-> FALSE]
    /\ UNCHANGED <<place, row, memory, savedMode, liveMode, retention>>

-----------------------------------------------------------------------------
(* deRedact: the placeholder is what memory has there; not of balancers,   *)
(* tariffs and chargers.  Slip: nor of the meters.                         *)
known == IF memory \in {"absent", "unset"} THEN "unset" ELSE memory
deRedactBrokerless(field) ==
    IF field = "redacted" /\ place \in {"bridge", "vehicle"} THEN known ELSE field
deRedact(field) ==
    IF field = "redacted" /\ place \in {"bridge", "meter", "vehicle"} THEN known ELSE field

(* setOverride: the patch replaces field by field, so an object as a whole.*)
overlaid(field) ==
    IF field = "unset" /\ place \notin Nested /\ row # "absent" THEN row ELSE field

importMerge ==
    LET field == deRedact(document.field) IN
    /\ row' = IF field = "absent" THEN row ELSE overlaid(field)
    /\ retention' = IF document.days = DefaultDays THEN retention ELSE document.days

importReplace ==
    /\ row' = deRedact(document.field)
    /\ retention' = document.days

(* applyConfigToLoadpoints: the mode of the document over the saved one.   *)
applyConfigToLoadpoints == savedMode' = document.mode

Import ==
    /\ document # NoDocument
    /\ importMerge \/ importReplace
    /\ applyConfigToLoadpoints
    /\ UNCHANGED <<place, memory, liveMode, document>>

-----------------------------------------------------------------------------
(* Edits in between; each makes the document one of another installation.  *)
Edited == place # "nowhere" /\ document' = [document EXCEPT !.own = FALSE]

(* PUT of a vehicle or a meter: the row and memory.                        *)
PutEntity(secret) ==
    /\ Edited /\ place \in {"vehicle", "meter"} /\ memory # "absent"
    /\ row' = secret /\ memory' = secret
    /\ UNCHANGED <<place, savedMode, liveMode, retention>>

DeleteEntity ==
    /\ Edited /\ place \in {"vehicle", "meter"} /\ memory # "absent"
    /\ row' = "absent" /\ memory' = "absent"
    /\ UNCHANGED <<place, savedMode, liveMode, retention>>

(* PUT /api/mqtt-bridge: the row only.  The client may send back what      *)
(* GET /api/site shows.                                                    *)
Shown == IF memory \in {"absent", "unset"} THEN "unset" ELSE "redacted"
PutBridge ==
    /\ Edited /\ place = "bridge"
    /\ row' \in Secrets \union {"unset", Shown}
    /\ UNCHANGED <<place, memory, savedMode, liveMode, retention>>

PutMode(mode) ==
    /\ Edited /\ liveMode' = mode /\ savedMode' = mode
    /\ UNCHANGED <<place, row, memory, retention>>

PutRetention(days) ==
    /\ Edited /\ retention' = days
    /\ UNCHANGED <<place, row, memory, savedMode, liveMode>>

(* getEffectiveConfig, loadLoadpointStates.                                *)
TransferRestarts ==
    /\ place # "nowhere"
    /\ memory' = row /\ liveMode' = savedMode
    /\ UNCHANGED <<place, row, savedMode, retention, document>>

TransferNext ==
    \/ \E secrets \in BOOLEAN : Export(secrets)
    \/ \E field \in Fields, mode \in UserModes, days \in Days : EditDocument(field, mode, days)
    \/ Import
    \/ \E secret \in Secrets : PutEntity(secret)
    \/ DeleteEntity \/ PutBridge
    \/ \E mode \in UserModes : PutMode(mode)
    \/ \E days \in Days : PutRetention(days)
    \/ TransferRestarts

-----------------------------------------------------------------------------
(* Shape of the state.                                                     *)
TransferTypeOK ==
    /\ place \in Places \union {"nowhere"}
    /\ row \in Fields /\ memory \in Fields
    /\ {savedMode, liveMode} \subseteq UserModes
    /\ retention \in Days
    /\ document = NoDocument \/ document \in [field : Fields, mode : UserModes, days : Days,
                                              own : BOOLEAN]

(* "A redacted round-trip never wipes a secret" (config-io.ts:308): a      *)
(* document that comes back to the installation it was exported from, with *)
(* nothing edited since, changes nothing, redacted or not, merged or       *)
(* replacing, before a restart or after it; and the placeholder never      *)
(* becomes the password of a vehicle or a meter, whatever is imported.     *)
(* Of balancers, chargers and tariffs neither holds of a redacted one.     *)
RoundTripKeeps ==
    [][/\ document.own /\ document'.own /\ place # "balancer"
              => UNCHANGED <<row, memory, savedMode, liveMode, retention>>
       /\ place \in {"vehicle", "meter"} => row' # "redacted"]_transferVars
=============================================================================
