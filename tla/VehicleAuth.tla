---------------------------- MODULE VehicleAuth ----------------------------
(***************************************************************************)
(* The calls a Skoda vehicle makes to its cloud (modules/vehicle-skoda):   *)
(* token() with its access token, its rotating refresh token in module_kv, *)
(* the full login and the lockout after a few failures (auth.ts), then the *)
(* request itself (api.ts).  Calls overlap and nothing orders them: a      *)
(* status poll and the hook after a start each come from a different part  *)
(* of OSC.  Until the cloud has settled each answer may be a failure.      *)
(***************************************************************************)
EXTENDS Integers, FiniteSets, FiniteSetsExt

CONSTANTS Ttl,        \* ACCESS_TOKEN_TTL_MS
          MaxLogins,  \* logins that may fail before the lockout (3)
          Lock        \* the hour of the lockout

ASSUME AuthAssumption == {Ttl, MaxLogins, Lock} \subseteq Nat \ {0}

VARIABLES
    stage,     \* call: none, or what it awaits: refresh, login or data
    sent,      \* call: the refresh token it sent is the one the server expects
    access,    \* time left to the access token, 0 without one
    savedToken, \* the refresh token in module_kv (and in memory, while there)
    logins,    \* authFailures
    lockAge,   \* time since firstFailureAt, saturated
    settled    \* external: the cloud, the cable and the user have come to rest

Calls == {"poll", "boot"}
Stages == {"none", "refresh", "login", "data"}

calls == <<stage, sent>>
tokens == <<access, savedToken>>
failing == <<logins, lockAge>>

AuthTypeOK ==
    /\ stage \in [Calls -> Stages] /\ sent \in [Calls -> BOOLEAN]
    /\ access \in 0..Ttl /\ savedToken \in {"none", "current", "dead"}
    /\ logins \in 0..MaxLogins + Cardinality(Calls) - 1 /\ lockAge \in 0..Lock
    /\ settled \in BOOLEAN

AuthInit ==
    /\ stage = [c \in Calls |-> "none"] /\ sent = [c \in Calls |-> FALSE]
    /\ access = 0 /\ savedToken \in {"none", "current", "dead"} /\ logins = 0 /\ lockAge = Lock
    /\ settled = FALSE

-----------------------------------------------------------------------------
(* Slip: the lockout has no end.                                           *)
deadAuthForever == logins >= MaxLogins
deadAuth == logins >= MaxLogins /\ lockAge < Lock

(* token() as far as its first await: a valid access token is used at      *)
(* once; in a lockout the call fails before it begins (Rejected).          *)
Rejected == access = 0 /\ deadAuth

Begin(c) ==
    /\ stage[c] = "none" /\ ~Rejected
    /\ stage' = [stage EXCEPT ![c] = IF access > 0 THEN "data"
                                     ELSE IF savedToken # "none" THEN "refresh" ELSE "login"]
    /\ sent' = [sent EXCEPT ![c] = access = 0 /\ savedToken = "current"]

(* New tokens: kept in memory and the refresh token saved; the server does *)
(* not take the one before any more.                                       *)
Tokens(c) ==
    /\ access' = Ttl /\ savedToken' = "current" /\ logins' = 0
    /\ stage' = [stage EXCEPT ![c] = "data"]
    /\ sent' = [d \in Calls |-> FALSE]

(* doRefresh is answered; any error drops the tokens in memory and logs in.*)
RefreshAnswered(c) ==
    /\ stage[c] = "refresh" /\ sent[c]
    /\ Tokens(c) /\ UNCHANGED <<lockAge, settled>>

(* It fails: refused, or its answer is lost, which may be after the server *)
(* has rotated and leaves the old token saved.                             *)
RefreshFails(c) ==
    /\ stage[c] = "refresh" /\ (sent[c] => ~settled)
    /\ stage' = [stage EXCEPT ![c] = "login"] /\ access' = 0
    /\ \/ UNCHANGED savedToken /\ sent' = [sent EXCEPT ![c] = FALSE]
       \/ sent[c] /\ savedToken' = "dead" /\ sent' = [d \in Calls |-> FALSE]
    /\ UNCHANGED <<failing, settled>>

(* The failures counted; the first one, and the first after the hour, opens*)
(* a window and counts anew.                                               *)
opensWindow == logins = 0 \/ lockAge >= Lock
counted == IF opensWindow THEN 1 ELSE logins + 1

(* doLogin, its redirects, its forms and the exchange of the code.         *)
LoginAnswered(c) ==
    /\ stage[c] = "login" /\ Tokens(c) /\ UNCHANGED <<lockAge, settled>>

LoginFails(c) ==
    /\ stage[c] = "login" /\ ~settled
    /\ logins' = counted /\ lockAge' = IF opensWindow THEN 0 ELSE lockAge
    /\ stage' = [stage EXCEPT ![c] = "none"]
    /\ UNCHANGED <<sent, tokens, settled>>

(* The request itself ends.                                                *)
DataEnds(c) ==
    /\ stage[c] = "data" /\ stage' = [stage EXCEPT ![c] = "none"]
    /\ UNCHANGED <<sent, tokens, failing, settled>>

(* Time, and a crash and restart: everything but the row is lost.          *)
AuthTimePasses ==
    /\ access' = IF access = 0 THEN 0 ELSE access - 1
    /\ lockAge' = Min({lockAge + 1, Lock})
    /\ UNCHANGED <<calls, savedToken, logins, settled>>

AuthRestarts ==
    /\ stage' = [c \in Calls |-> "none"] /\ sent' = [c \in Calls |-> FALSE]
    /\ savedToken' \in (IF \E c \in Calls : stage[c] = "refresh" /\ sent[c] THEN {savedToken, "dead"} ELSE {savedToken})
    /\ access' = 0 /\ logins' = 0 /\ lockAge' = Lock /\ UNCHANGED settled
=============================================================================
