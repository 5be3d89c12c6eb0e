------------------------------- MODULE Tariff -------------------------------
(***************************************************************************)
(* A Nord Pool tariff (createNordpoolDayAheadTariff, sdk/nordpool-tariff)  *)
(* with either provider: prices of a day are published the afternoon       *)
(* before; OSC fetches at the publish window, retries with a capped        *)
(* backoff, keeps the slots in tariff_slots and reports a health it        *)
(* computes when a fetch ends.                                             *)
(*                                                                         *)
(* A chain is one run of runOnce -> scheduleNext -> timer -> runOnce; a    *)
(* refresh() during a fetch starts a second one, whose timer overwrites    *)
(* the handle of the first.  Time is cut in units of a few hours; a timer  *)
(* fires in the unit it is due, a fetch ends before it has seen two units  *)
(* begin (120 s of jitter and 15 s per request).  A request of a timer's   *)
(* fetch sleeps its jitter under a 15 s signal made before it: when it     *)
(* sleeps longer it is aborted unsent, whatever the provider would answer. *)
(***************************************************************************)
EXTENDS Integers, FiniteSets, FiniteSetsExt

CONSTANTS Chains,     \* bound: runs of runOnce or pending timers at once
          NoTimer,    \* due: no timer is set
          MarketDay,  \* units in a day
          Window,     \* PUBLISH_HOUR:PUBLISH_MINUTE
          PublishBy,  \* external: tomorrow is out by this time of day
          Lead,       \* hasTomorrow: slots reach further than this ("20 h")
          BaseRetry, MaxRetry,  \* BASE_RETRY_MS, MAX_RETRY_MS
          Shifts      \* a timer over a night, against the wall clock (DST)

ASSUME TariffAssumption ==
    /\ {MarketDay, Window, PublishBy, Lead, BaseRetry, MaxRetry} \subseteq Nat
    /\ Shifts \subseteq Int
    /\ Window <= PublishBy /\ PublishBy < MarketDay /\ MarketDay - Window <= Lead /\ Lead <= MarketDay
    /\ 0 < BaseRetry /\ BaseRetry <= MaxRetry /\ Chains # {} /\ NoTimer \notin Int

(* The clocks change by no more than the longest retry, not before the     *)
(* window has come, and never by what is left of a day after it.           *)
ASSUME ClockAssumption ==
    /\ \E most \in Shifts : \A s \in Shifts : s <= most
    /\ MaxRetry < MarketDay - Window
    /\ \A s \in Shifts : s \in -Window..MaxRetry /\ Window + s + 1 < MarketDay

VARIABLES
    provider,   \* which of the two APIs this tariff asks
    clock,      \* market time of day
    published,  \* external: tomorrow's prices are out
    upstream,   \* external: what a request meets
    ahead,      \* tariff_slots: units from now to the latest slot_end
    failures,   \* consecutiveFailures, saturated where the backoff is capped
    flight,     \* chain: runOnce awaits its fetch, for how long
    due,        \* chain: units until its timer fires
    jittered,   \* chain: its fetch goes through ctx.fetch
    handle,     \* timer: the chain whose timer was set last
    health,     \* health
    dead,       \* history: the last fetch to end met ZoneNotFoundError
    stuck,      \* the database connection is inside an unfinished transaction
    stopped,    \* history: stop() was called
    settled     \* the provider has stopped failing

world == <<provider, published, upstream, settled>>
chains == <<flight, jittered, due, handle>>
cache == <<ahead, stuck>>
record == <<dead, stopped>>
tariffVars == <<world, clock, chains, cache, failures, health, record>>

Upstreams == {"up", "down", "tomorrowDown", "empty", "badRow"}
MaxFailures == MaxRetry + 1
Horizon == MarketDay + Window + Max(Shifts)

TariffTypeOK ==
    /\ provider \in {"elering", "elprisetjustnu"} /\ upstream \in Upstreams
    /\ {published, dead, stuck, stopped, settled} \subseteq BOOLEAN
    /\ clock \in 0..MarketDay - 1 /\ ahead \in 0..2 * MarketDay /\ failures \in 0..MaxFailures
    /\ flight \in [Chains -> {"none", "new", "old"}]
    /\ jittered \in [Chains -> BOOLEAN]
    /\ due \in [Chains -> 0..Horizon \union {NoTimer}] /\ handle \in Chains
    /\ health \in {"ok", "degraded", "unavailable"}

-----------------------------------------------------------------------------
isPastPublishWindow == clock >= Window
hasTomorrow(until) == until > Lead

(* Slip: slots that have run out are not looked at.                        *)
computeTariffHealthUnexpired(until) ==
    IF isPastPublishWindow /\ ~hasTomorrow(until) THEN "degraded" ELSE "ok"
computeTariffHealth(until) ==
    IF until = 0 THEN "unavailable"
    ELSE IF isPastPublishWindow /\ ~hasTomorrow(until) THEN "degraded" ELSE "ok"

(* msUntilLocalTime of the window: past it, tomorrow's is a wall-clock day *)
(* away but 24 hours are counted.                                          *)
UntilWindow == IF clock < Window THEN {Window - clock}
               ELSE {MarketDay - clock + Window + s : s \in Shifts}

Backoff(n) == Min({2 ^ (IF n = 0 THEN 0 ELSE n - 1) * BaseRetry, MaxRetry})

(* The delays nextDelay may come to.  Slip: a day without tomorrow's       *)
(* prices waits for the next window.                                       *)
nextDelayPatient(n, until) == UntilWindow
nextDelay(n, until) ==
    IF hasTomorrow(until) \/ ~isPastPublishWindow THEN UntilWindow ELSE {Backoff(n)}

(* What a fetch brings: slots up to some time from now, or an error.       *)
PriceSlots == [kind |-> "slots", until |-> (IF published THEN 2 * MarketDay ELSE MarketDay) - clock]
Fails(kind) == [kind |-> kind, until |-> 0]

(* fetchEleringPrices: one request for the range; a body without records   *)
(* of the zone counts as a zone that does not exist.                       *)
fetchEleringPrices(inTime) ==
    CASE ~inTime \/ upstream \in {"down", "tomorrowDown"} -> Fails("transient")
      [] inTime /\ upstream = "empty" -> Fails("zone")
      [] inTime /\ upstream = "badRow" -> [PriceSlots EXCEPT !.kind = "badRow"]
      [] OTHER -> PriceSlots

(* fetchElprisetPrices: a file per day; a missing file is not published    *)
(* yet unless all are missing; any other error, the abort of one request   *)
(* of the three among them, loses the days before it.                      *)
fetchElprisetPrices(inTime) ==
    LET file == [today |-> IF upstream = "down" THEN "error"
                           ELSE IF upstream = "empty" THEN "missing" ELSE "file",
                 tomorrow |-> IF ~inTime \/ upstream \in {"down", "tomorrowDown"} THEN "error"
                              ELSE IF published /\ upstream # "empty" THEN "file" ELSE "missing"]
    IN  IF "error" \in {file.today, file.tomorrow} \/ file.today = "missing"
          THEN Fails("transient")
          ELSE IF upstream = "badRow" THEN [PriceSlots EXCEPT !.kind = "badRow"] ELSE PriceSlots

fetchSlots(inTime) ==
    IF provider = "elering" THEN fetchEleringPrices(inTime) ELSE fetchElprisetPrices(inTime)

(* upsertSlots in the database: it begins a transaction, and a row that    *)
(* throws leaves it open, with the rows before it, so that no later BEGIN  *)
(* is accepted.                                                            *)
Stores(answer) == answer.kind \in {"slots", "badRow"} /\ ~stuck

-----------------------------------------------------------------------------
TariffInit ==
    /\ provider \in {"elering", "elprisetjustnu"}
    /\ clock \in 0..MarketDay - 1 /\ published \in {b \in BOOLEAN : b \/ clock < PublishBy}
    /\ (published => clock >= Window - 1)
    /\ ahead \in {0, MarketDay - clock} \union (IF published THEN {2 * MarketDay - clock} ELSE {})
    /\ upstream \in Upstreams
    /\ failures = 0 /\ health = "unavailable"
    /\ handle \in Chains /\ due = [c \in Chains |-> NoTimer]
    /\ flight = [c \in Chains |-> IF c = handle THEN "new" ELSE "none"]  \* start()
    /\ jittered = [c \in Chains |-> FALSE]
    /\ dead = FALSE /\ stuck = FALSE /\ stopped = FALSE /\ settled = FALSE

Fire(c) ==
    /\ due[c] = 0
    /\ due' = [due EXCEPT ![c] = NoTimer] /\ flight' = [flight EXCEPT ![c] = "new"]
    /\ jittered' = [jittered EXCEPT ![c] = TRUE]
    /\ UNCHANGED <<world, clock, cache, handle, failures, health, record>>

(* Slip: the first failure ends the chain.                                 *)
scheduleNextUnlessFailed(c) ==
    /\ IF failures' > failures THEN UNCHANGED due
       ELSE \E d \in nextDelay(failures', ahead') : due' = [due EXCEPT ![c] = d]
    /\ handle' = c
scheduleNext(c) ==
    /\ \E d \in nextDelay(failures', ahead') : due' = [due EXCEPT ![c] = d]
    /\ handle' = c

(* The fetch of chain c ends: store, count, judge the health, schedule.    *)
Answer(c, inTime) ==
    LET answer == fetchSlots(inTime)
        stored == IF Stores(answer) THEN Max({ahead, answer.until}) ELSE ahead
    IN  /\ flight[c] # "none" /\ flight' = [flight EXCEPT ![c] = "none"]
        /\ inTime \/ jittered[c]
        /\ jittered' = [jittered EXCEPT ![c] = FALSE]
        /\ ahead' \in {stored} \union (IF answer.kind = "badRow" THEN {ahead} ELSE {})
        /\ stuck' = (stuck \/ answer.kind = "badRow")
        /\ dead' = (answer.kind = "zone")
        /\ failures' = IF dead' THEN failures
                       ELSE IF Stores(answer) /\ ~stuck' THEN 0
                       ELSE Min({failures + 1, MaxFailures})
        /\ health' = computeTariffHealth(ahead')
        /\ IF dead' THEN UNCHANGED <<due, handle>> ELSE scheduleNext(c)
        /\ UNCHANGED <<world, clock, stopped>>

(* clearTimeout(timer): the timer set last, if it has not fired.           *)
Cleared == [due EXCEPT ![handle] = NoTimer]

(* refresh(): any other chain's timer, and a fetch under way, stay.        *)
Refresh ==
    /\ due' = Cleared
    /\ \E c \in Chains : /\ due'[c] = NoTimer /\ flight[c] = "none"
                         /\ flight' = [flight EXCEPT ![c] = "new"]
    /\ UNCHANGED <<world, clock, cache, jittered, handle, failures, health, record>>

Stop ==
    /\ ~stopped /\ stopped' = TRUE
    /\ due' = Cleared
    /\ UNCHANGED <<world, clock, cache, flight, jittered, handle, failures, health, dead>>

-----------------------------------------------------------------------------
(* External: time, the market and the provider.                            *)
UnitPasses ==
    /\ \A c \in Chains : due[c] # 0 /\ flight[c] # "old"
    /\ published \/ clock + 1 < PublishBy \/ clock >= PublishBy
    /\ clock' = (clock + 1) % MarketDay
    /\ published' = (published /\ clock' # 0)
    /\ ahead' = IF ahead = 0 THEN 0 ELSE ahead - 1
    /\ due' = [c \in Chains |-> IF due[c] = NoTimer THEN NoTimer ELSE due[c] - 1]
    /\ flight' = [c \in Chains |-> IF flight[c] = "new" THEN "old" ELSE flight[c]]
    /\ UNCHANGED <<provider, upstream, settled, jittered, handle, failures, health, stuck, record>>

Publish ==
    /\ ~published /\ clock \in Window - 1..PublishBy - 1 /\ published' = TRUE
    /\ UNCHANGED <<provider, upstream, settled, clock, chains, cache, failures, health, record>>

UpstreamTurns ==
    /\ ~settled /\ upstream' \in Upstreams \ {upstream}
    /\ UNCHANGED <<provider, published, settled, clock, chains, cache, failures, health, record>>

Settle ==
    /\ ~settled /\ settled' = TRUE /\ upstream' = "up"
    /\ UNCHANGED <<provider, published, clock, chains, cache, failures, health, record>>

TariffNext ==
    \/ \E c \in Chains : Fire(c) \/ \E inTime \in BOOLEAN : Answer(c, inTime)
    \/ Refresh \/ Stop \/ UnitPasses \/ Publish \/ UpstreamTurns \/ Settle

(* Timers fire, requests time out, time passes, a day is published, and of *)
(* the jitters, which are random, not every one is a long one.             *)
TariffFairness ==
    /\ \A c \in Chains : WF_tariffVars(Fire(c)) /\ SF_tariffVars(Answer(c, TRUE))
    /\ WF_tariffVars(UnitPasses) /\ WF_tariffVars(Publish)

TariffSpec == TariffInit /\ [][TariffNext]_tariffVars /\ TariffFairness

-----------------------------------------------------------------------------
(* The chain is expected to go on: it was not stopped and the zone exists. *)
Live == ~stopped /\ ~dead
Fetching == \E c \in Chains : flight[c] # "none"
DueWithin(n) == \E c \in Chains : due[c] # NoTimer /\ due[c] <= n

(* Whatever fetches failed, overlapped or were refreshed: a fetch is under *)
(* way or due, and in an afternoon without tomorrow's prices within        *)
(* MAX_RETRY_MS (the order of clearTimeout, runOnce and scheduleNext).     *)
FetchIsDue ==
    Live /\ ~Fetching =>
        /\ DueWithin(Horizon)
        /\ isPastPublishWindow /\ ~hasTomorrow(ahead) => DueWithin(MaxRetry)

(* The health is computed when a fetch ends and read at any time after: it *)
(* never says ok once the slots have run out.                              *)
HealthHonest == Live /\ health = "ok" => ahead > 0

(* Once the provider is reachable and well behaved, and the connection     *)
(* outside a transaction: there are prices again and again, whatever the   *)
(* jitter aborts, and where it aborts none they do not run out.            *)
Served == settled /\ Live /\ ~stuck
PricesHold ==
    /\ <>[]Served => []<>(ahead > 0)
    /\ <>[]Served /\ <>[][\A c \in Chains : ~Answer(c, FALSE)]_tariffVars => <>[](ahead > 0)

(* nordpool-tariff.ts:24: retrying hourly "until it succeeds", it does not *)
(* let the backoff grow past midnight "stranding empty prices ~24 h".      *)
NeverStranded == <>[]Served => <>[](ahead > 0)
=============================================================================
