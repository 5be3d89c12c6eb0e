--------------------------- MODULE ServiceProofs ---------------------------
(***************************************************************************)
(* What surrounds the chargers goes on by itself: the scheduler of the     *)
(* prices (Tariff) is never without a fetch, and never claims a health it  *)
(* has not looked at in time; the modules that run are those of the        *)
(* configuration (Reconfigure), each of them buildable; the page shows the *)
(* mode of the backend once nothing is on its way (LiveSync); and smart    *)
(* charging takes the cheapest slots and keeps what it promised            *)
(* (SmartCharge).                                                          *)
(***************************************************************************)
EXTENDS Tariff, Reconfigure, LiveSync, SmartCharge, SequenceTheorems, FiniteSetTheorems,
        WellFoundedInduction, TLAPS

-----------------------------------------------------------------------------
(* The prices reach to the end of today or of tomorrow; a chain that       *)
(* awaits its fetch has no timer.                                          *)
TariffShape ==
    /\ clock \in 0..MarketDay - 1 /\ ahead \in {0, MarketDay - clock, 2 * MarketDay - clock}
    /\ failures \in Nat /\ handle \in Chains
    /\ flight \in [Chains -> {"none", "new", "old"}] /\ due \in [Chains -> Int \union {NoTimer}]
    /\ \A c \in Chains : flight[c] # "none" => due[c] = NoTimer

(* A timer set when the day looked as it does now: before the window it    *)
(* comes a retry after it at the latest, in an afternoon without the next  *)
(* day's prices within a retry, with them after tomorrow's window.         *)
InTime(d) ==
    /\ d \in Int /\ d <= Horizon
    /\ clock < Window => d <= Window - clock + MaxRetry
    /\ clock >= Window =>
          IF hasTomorrow(ahead) THEN d <= MarketDay - clock + Window + MaxRetry ELSE d <= MaxRetry

(* The last fetch to end set the timer that clearTimeout knows.            *)
TimerIsSet == Live /\ ~Fetching => InTime(due[handle])

(* Chain c computes the health again before the slots run out, if its      *)
(* fetch takes as long as it may.                                          *)
Relooks(c) ==
    \/ flight[c] = "old" /\ 0 < ahead
    \/ flight[c] = "new" /\ 1 < ahead
    \/ due[c] \in Nat /\ due[c] + 1 < ahead

HealthIsRenewed == Live /\ health = "ok" => \E c \in Chains : Relooks(c)

TariffInv == TariffShape /\ TimerIsSet /\ HealthIsRenewed

-----------------------------------------------------------------------------
LEMMA DayFacts ==
    /\ MarketDay \in Nat /\ Window \in Nat /\ Lead \in Nat /\ MaxRetry \in Nat /\ 0 < MaxRetry
    /\ BaseRetry \in Nat /\ MarketDay - Window <= Lead /\ Lead <= MarketDay
    /\ MaxRetry < MarketDay - Window /\ Window < MarketDay
    /\ NoTimer \notin Int /\ Chains # {}
BY TariffAssumption, ClockAssumption

LEMMA LongestNight ==
    /\ Max(Shifts) \in Int /\ 0 <= Window + Max(Shifts)
    /\ \A s \in Shifts : s \in Int /\ s <= Max(Shifts) /\ s <= MaxRetry /\ 0 <= Window + s
                         /\ Window + s + 1 < MarketDay
<1>1. Shifts \subseteq Int
  BY TariffAssumption
<1>2. PICK most \in Shifts : \A s \in Shifts : s <= most
  BY ClockAssumption
<1>3. Max(Shifts) \in Shifts /\ \A s \in Shifts : s <= Max(Shifts)
  BY <1>2 DEF Max
<1>4. \A s \in Shifts : s \in Int /\ s <= MaxRetry /\ 0 <= Window + s /\ Window + s + 1 < MarketDay
  <2> SUFFICES ASSUME NEW s \in Shifts
               PROVE  s \in Int /\ s <= MaxRetry /\ 0 <= Window + s /\ Window + s + 1 < MarketDay
    OBVIOUS
  <2>1. s \in -Window..MaxRetry /\ Window + s + 1 < MarketDay
    BY ClockAssumption
  <2> QED
    BY <1>1, <2>1, DayFacts
<1> QED
  BY <1>3, <1>4

LEMMA BackoffIsCapped ==
    ASSUME NEW n \in Nat
    PROVE  Backoff(n) \in Int /\ Backoff(n) <= MaxRetry
<1> DEFINE m == IF n = 0 THEN 0 ELSE n - 1
           raw == 2 ^ m * BaseRetry
<1>1. m \in Nat
  OBVIOUS
<1> HIDE DEF m
<1>2. 2 ^ m \in Int
  BY <1>1, Z3
<1>3. raw \in Int
  BY <1>2, DayFacts
<1>4. Backoff(n) = Min({raw, MaxRetry})
  BY DEF Backoff, m
<1> HIDE DEF raw
<1> QED
  BY <1>3, <1>4, DayFacts DEF Min

(* The delays scheduleNext may come to.                                    *)
LEMMA DelayIsInTime ==
    ASSUME TariffShape, NEW n \in Nat, NEW u \in {0, MarketDay - clock, 2 * MarketDay - clock},
           NEW d \in nextDelay(n, u)
    PROVE  /\ d \in Int /\ d <= Horizon
           /\ clock < Window => d <= Window - clock + MaxRetry
           /\ clock >= Window =>
                 IF hasTomorrow(u) THEN d <= MarketDay - clock + Window + MaxRetry ELSE d <= MaxRetry
           /\ computeTariffHealth(u) = "ok" => d \in Nat /\ d + 1 < u
<1>1. clock \in Int /\ 0 <= clock /\ clock < MarketDay
  BY DayFacts DEF TariffShape
<1>2. CASE clock < Window
  <2>1. d = Window - clock
    BY <1>1, <1>2, DayFacts DEF nextDelay, UntilWindow, isPastPublishWindow
  <2>2. computeTariffHealth(u) = "ok" => u # 0
    BY DEF computeTariffHealth
  <2> QED
    <3>1. Window - clock \in Nat /\ Window - clock <= MarketDay + Window + Max(Shifts)
      BY <1>1, <1>2, DayFacts, LongestNight
    <3>2. computeTariffHealth(u) = "ok" => Window - clock + 1 < u
      BY <1>1, <1>2, <2>2, DayFacts
    <3> QED
      BY <1>1, <1>2, <2>1, <3>1, <3>2, DayFacts DEF Horizon
<1>3. CASE clock >= Window /\ hasTomorrow(u)
  <2>1. PICK s \in Shifts : d = MarketDay - clock + Window + s
    BY <1>1, <1>3, DayFacts DEF nextDelay, UntilWindow
  <2>2. u = 2 * MarketDay - clock
    BY <1>1, <1>3, DayFacts DEF hasTomorrow
  <2>3. s \in Int /\ s <= Max(Shifts) /\ s <= MaxRetry /\ 0 <= Window + s /\ Window + s + 1 < MarketDay
    BY LongestNight
  <2> QED
    BY <1>1, <1>3, <2>1, <2>2, <2>3, DayFacts, LongestNight DEF Horizon
<1>4. CASE clock >= Window /\ ~hasTomorrow(u)
  <2>1. d = Backoff(n)
    BY <1>4 DEF nextDelay, isPastPublishWindow
  <2>2. computeTariffHealth(u) # "ok"
    BY <1>4 DEF computeTariffHealth, isPastPublishWindow
  <2> QED
    BY <1>1, <1>4, <2>1, <2>2, BackoffIsCapped, DayFacts, LongestNight DEF Horizon
<1> QED
  BY <1>1, <1>2, <1>3, <1>4, DayFacts

(* What a fetch leaves behind it.                                          *)
LEMMA AnswerStores ==
    ASSUME TariffShape, NEW c \in Chains, NEW t \in BOOLEAN, Answer(c, t)
    PROVE  /\ ahead' \in {0, MarketDay - clock, 2 * MarketDay - clock} /\ failures' \in Nat
           /\ clock' = clock /\ stopped' = stopped /\ flight' = [flight EXCEPT ![c] = "none"]
           /\ health' = computeTariffHealth(ahead')
           /\ IF dead' THEN due' = due /\ handle' = handle
              ELSE handle' = c /\ \E d \in nextDelay(failures', ahead') : due' = [due EXCEPT ![c] = d]
<1> DEFINE answer == fetchSlots(t)
           reach == IF Stores(answer) THEN Max({ahead, answer.until}) ELSE ahead
<1>1. clock \in Int /\ 0 <= clock /\ clock < MarketDay /\ ahead \in Nat
  BY DayFacts DEF TariffShape
<1>2. Stores(answer) => answer.until \in {MarketDay - clock, 2 * MarketDay - clock}
  BY DEF Stores, fetchSlots, fetchEleringPrices, fetchElprisetPrices, PriceSlots, Fails
<1>3. reach \in {0, MarketDay - clock, 2 * MarketDay - clock}
  <2>1. CASE Stores(answer)
    <3>1. answer.until \in Int
      BY <1>1, <1>2, <2>1, DayFacts
    <3>2. Max({ahead, answer.until}) \in {ahead, answer.until}
      BY <1>1, <3>1 DEF Max
    <3> QED
      BY <1>2, <2>1, <3>2 DEF TariffShape
  <2> QED
    BY <2>1 DEF TariffShape
<1>4. ahead' \in {reach, ahead}
  BY DEF Answer
<1>5. failures' \in Nat
  <2>1. MaxFailures \in Nat
    BY DayFacts DEF MaxFailures
  <2>2. failures' \in {failures, 0, Min({failures + 1, MaxFailures})}
    BY DEF Answer
  <2>3. failures + 1 \in Nat
    BY DEF TariffShape
  <2>4. \A a, b \in Nat : Min({a, b}) \in Nat
    BY DEF Min
  <2> QED
    BY <2>1, <2>2, <2>3, <2>4 DEF TariffShape
<1> QED
  BY <1>3, <1>4, <1>5 DEF Answer, scheduleNext, TariffShape, world

-----------------------------------------------------------------------------
LEMMA ShapeHolds == TariffShape /\ [TariffNext]_tariffVars => TariffShape'
<1> SUFFICES ASSUME TariffShape, [TariffNext]_tariffVars
             PROVE  TariffShape'
  OBVIOUS
<1> USE DEF TariffShape
<1>1. ASSUME NEW c \in Chains, Fire(c)
      PROVE  TariffShape'
  BY <1>1 DEF Fire, world, record, cache
<1>2. ASSUME NEW c \in Chains, NEW t \in BOOLEAN, Answer(c, t)
      PROVE  TariffShape'
  <2>1. \A d \in nextDelay(failures', ahead') : d \in Int
    BY <1>2, AnswerStores, DelayIsInTime
  <2>2. due' \in [Chains -> Int \union {NoTimer}] /\ handle' \in Chains
    <3>1. CASE dead'
      BY <1>2, <3>1, AnswerStores
    <3>2. CASE ~dead'
      BY <1>2, <2>1, <3>2, AnswerStores
    <3> QED
      BY <3>1, <3>2
  <2> QED
    BY <1>2, <2>2, AnswerStores
<1>3. CASE Refresh
  BY <1>3 DEF Refresh, Cleared, world, record, cache
<1>4. CASE Stop
  BY <1>4 DEF Stop, Cleared, world, record, cache
<1>5. CASE UnitPasses
  <2>1. clock' = IF clock + 1 = MarketDay THEN 0 ELSE clock + 1
    BY <1>5, DayFacts DEF UnitPasses
  <2>2. clock' \in 0..MarketDay - 1 /\ ahead' \in {0, MarketDay - clock', 2 * MarketDay - clock'}
    BY <1>5, <2>1, DayFacts DEF UnitPasses
  <2>3. due' \in [Chains -> Int \union {NoTimer}] /\ flight' \in [Chains -> {"none", "new", "old"}]
    BY <1>5, DayFacts DEF UnitPasses
  <2> QED
    BY <1>5, <2>2, <2>3 DEF UnitPasses
<1>6. CASE Publish \/ UpstreamTurns \/ Settle
  BY <1>6 DEF Publish, UpstreamTurns, Settle, chains, record, cache
<1>7. CASE UNCHANGED tariffVars
  BY <1>7 DEF tariffVars, chains, record, cache
<1> QED
  BY <1>1, <1>2, <1>3, <1>4, <1>5, <1>6, <1>7 DEF TariffNext

LEMMA TimerStaysSet ==
    TariffShape /\ TimerIsSet /\ [TariffNext]_tariffVars => TimerIsSet'
<1> SUFFICES ASSUME TariffShape, TimerIsSet, [TariffNext]_tariffVars, (Live /\ ~Fetching)'
             PROVE  InTime(due[handle])'
  BY DEF TimerIsSet
<1>1. ASSUME NEW c \in Chains, Fire(c)
      PROVE  FALSE
  BY <1>1 DEF Fire, Fetching, TariffShape
<1>2. ASSUME NEW c \in Chains, NEW t \in BOOLEAN, Answer(c, t)
      PROVE  InTime(due[handle])'
  <2>1. ~dead'
    BY DEF Live
  <2>2. PICK d \in nextDelay(failures', ahead') : handle' = c /\ due' = [due EXCEPT ![c] = d]
    BY <1>2, <2>1, AnswerStores
  <2>3. due'[handle'] = d
    BY <2>2 DEF TariffShape
  <2>4. failures' \in Nat /\ ahead' \in {0, MarketDay - clock, 2 * MarketDay - clock} /\ clock' = clock
    BY <1>2, AnswerStores
  <2> QED
    BY <2>3, <2>4, DelayIsInTime DEF InTime, hasTomorrow
<1>3. CASE Refresh
  BY <1>3 DEF Refresh, Fetching, TariffShape
<1>4. CASE Stop
  BY <1>4 DEF Stop, Live
<1>5. CASE UnitPasses
  <2>1. Live /\ ~Fetching
    BY <1>5 DEF UnitPasses, Live, Fetching, TariffShape, record
  <2>2. InTime(due[handle])
    BY <2>1 DEF TimerIsSet
  <2>3. due'[handle'] = due[handle] - 1
    BY <1>5, <2>2, DayFacts DEF UnitPasses, TariffShape, InTime
  <2>4. clock' = (IF clock + 1 = MarketDay THEN 0 ELSE clock + 1) /\ clock \in 0..MarketDay - 1
    BY <1>5, DayFacts DEF UnitPasses, TariffShape
  <2>5. ahead \in {0, MarketDay - clock, 2 * MarketDay - clock} /\ ahead' = IF ahead = 0 THEN 0 ELSE ahead - 1
    BY <1>5 DEF UnitPasses, TariffShape
  <2>6. Horizon \in Int /\ Horizon' = Horizon
    BY DayFacts, LongestNight DEF Horizon
  <2> DEFINE t == due[handle]
             u == due'[handle']
  <2>7. t \in Int /\ t <= Horizon /\ u = t - 1
    BY <2>2, <2>3 DEF InTime
  <2>8. /\ clock < Window => t <= Window - clock + MaxRetry
        /\ clock >= Window =>
              IF ahead > Lead THEN t <= MarketDay - clock + Window + MaxRetry ELSE t <= MaxRetry
    BY <2>2 DEF InTime, hasTomorrow
  <2> HIDE DEF t, u
  <2>9. clock' < Window => u <= Window - clock' + MaxRetry
    BY <2>4, <2>5, <2>7, <2>8, DayFacts
  <2>10. clock' >= Window =>
             IF ahead' > Lead THEN u <= MarketDay - clock' + Window + MaxRetry ELSE u <= MaxRetry
    BY <2>4, <2>5, <2>7, <2>8, DayFacts
  <2> QED
    BY <2>6, <2>7, <2>9, <2>10 DEF InTime, hasTomorrow, u
<1>6. CASE Publish \/ UpstreamTurns \/ Settle
  BY <1>6 DEF Publish, UpstreamTurns, Settle, chains, record, cache, TimerIsSet, Live, Fetching, InTime,
              hasTomorrow
<1>7. CASE UNCHANGED tariffVars
  BY <1>7 DEF tariffVars, chains, record, cache, TimerIsSet, Live, Fetching, InTime, hasTomorrow
<1> QED
  BY <1>1, <1>2, <1>3, <1>4, <1>5, <1>6, <1>7 DEF TariffNext

LEMMA HealthStaysRenewed ==
    TariffShape /\ HealthIsRenewed /\ [TariffNext]_tariffVars => HealthIsRenewed'
<1> SUFFICES ASSUME TariffShape, HealthIsRenewed, [TariffNext]_tariffVars, Live', health' = "ok"
             PROVE  \E c \in Chains : Relooks(c)'
  BY DEF HealthIsRenewed
<1>0. clock \in Int /\ ahead \in Nat
  BY DayFacts DEF TariffShape
<1>1. ASSUME NEW c \in Chains, NEW t \in BOOLEAN, Answer(c, t)
      PROVE  Relooks(c)'
  <2>1. ~dead'
    BY DEF Live
  <2>2. PICK d \in nextDelay(failures', ahead') : due' = [due EXCEPT ![c] = d]
    BY <1>1, <2>1, AnswerStores
  <2>3. due'[c] = d
    BY <2>2 DEF TariffShape
  <2>4. /\ failures' \in Nat /\ ahead' \in {0, MarketDay - clock, 2 * MarketDay - clock}
        /\ computeTariffHealth(ahead') = "ok"
    BY <1>1, AnswerStores
  <2>5. d \in Nat /\ d + 1 < ahead'
    BY <2>4, DelayIsInTime
  <2> QED
    BY <2>3, <2>5 DEF Relooks
<1> SUFFICES ASSUME \A c \in Chains, t \in BOOLEAN : ~Answer(c, t)
             PROVE  \E c \in Chains : Relooks(c)'
  BY <1>1
<1>2. Live /\ health = "ok"
  BY DEF TariffNext, Fire, Refresh, Stop, UnitPasses, Publish, UpstreamTurns, Settle, tariffVars, record,
         Live
<1>3. PICK w \in Chains : Relooks(w)
  BY <1>2 DEF HealthIsRenewed
<1>4. ASSUME NEW c \in Chains, Fire(c)
      PROVE  Relooks(w)'
  <2>1. CASE w = c
    BY <1>0, <1>3, <1>4, <2>1, DayFacts DEF Fire, Relooks, TariffShape, record, cache
  <2>2. CASE w # c
    BY <1>3, <1>4, <2>2 DEF Fire, Relooks, TariffShape, record, cache
  <2> QED
    BY <2>1, <2>2
<1>5. CASE Refresh
  <2>1. PICK c \in Chains : due'[c] = NoTimer /\ flight[c] = "none" /\ flight' = [flight EXCEPT ![c] = "new"]
    BY <1>5 DEF Refresh
  <2>2. ahead' = ahead /\ due' = [due EXCEPT ![handle] = NoTimer]
    BY <1>5 DEF Refresh, Cleared, cache
  <2>3. CASE flight[w] \in {"new", "old"} /\ ~(due[w] \in Nat /\ due[w] + 1 < ahead)
    BY <1>3, <2>1, <2>2, <2>3 DEF Relooks, TariffShape
  <2>4. CASE due[w] \in Nat /\ due[w] + 1 < ahead
    <3>1. 1 < ahead
      BY <1>0, <2>4
    <3>2. Relooks(c)'
      BY <2>1, <2>2, <3>1 DEF Relooks, TariffShape
    <3> QED
      BY <3>2
  <2> QED
    BY <1>3, <2>3, <2>4 DEF Relooks
<1>6. CASE UnitPasses
  <2>1. due[w] # 0 /\ flight[w] # "old" /\ ahead' = IF ahead = 0 THEN 0 ELSE ahead - 1
    BY <1>6 DEF UnitPasses
  <2>2. CASE flight[w] = "new" /\ 1 < ahead
    <3>1. flight'[w] = "old"
      BY <1>6, <2>2 DEF UnitPasses
    <3>2. 0 < ahead'
      BY <1>0, <2>1, <2>2
    <3> QED
      BY <3>1, <3>2 DEF Relooks
  <2>3. CASE due[w] \in Nat /\ due[w] + 1 < ahead
    <3>1. due'[w] = due[w] - 1
      BY <1>6, <2>3, DayFacts DEF UnitPasses
    <3>2. due'[w] \in Nat /\ due'[w] + 1 < ahead'
      BY <1>0, <2>1, <2>3, <3>1
    <3> QED
      BY <3>2 DEF Relooks
  <2> QED
    BY <1>3, <2>1, <2>2, <2>3 DEF Relooks
<1>7. CASE Publish \/ UpstreamTurns \/ Settle \/ UNCHANGED tariffVars
  BY <1>3, <1>7 DEF Publish, UpstreamTurns, Settle, tariffVars, chains, record, cache, Relooks
<1>8. CASE Stop
  BY <1>8 DEF Stop, Live
<1> QED
  BY <1>4, <1>5, <1>6, <1>7, <1>8 DEF TariffNext

LEMMA TariffInvHolds == TariffSpec => []TariffInv
<1>1. TariffInit => TariffInv
  <2> SUFFICES ASSUME TariffInit
               PROVE  TariffInv
    OBVIOUS
  <2>1. TariffShape
    BY DayFacts DEF TariffInit, TariffShape
  <2>2. Fetching
    BY DEF TariffInit, Fetching
  <2> QED
    BY <2>1, <2>2 DEF TariffInv, TimerIsSet, HealthIsRenewed, TariffInit
<1>2. TariffInv /\ [TariffNext]_tariffVars => TariffInv'
  BY ShapeHolds, TimerStaysSet, HealthStaysRenewed DEF TariffInv
<1> QED
  BY <1>1, <1>2, PTL DEF TariffSpec

(* However fetches fail, overlap or are refreshed, over any night: while   *)
(* the scheduler was not stopped and its zone exists, a fetch is under way *)
(* or a timer set, and without tomorrow's prices in the afternoon it is    *)
(* set within MAX_RETRY_MS (runOnce, scheduleNext, refresh, nextDelay).    *)
THEOREM FetchTheorem == TariffSpec => []FetchIsDue
<1>1. TariffInv => FetchIsDue
  <2> SUFFICES ASSUME TariffInv, Live, ~Fetching
               PROVE  /\ DueWithin(Horizon)
                      /\ isPastPublishWindow /\ ~hasTomorrow(ahead) => DueWithin(MaxRetry)
    BY DEF FetchIsDue
  <2>1. InTime(due[handle]) /\ handle \in Chains
    BY DEF TariffInv, TimerIsSet, TariffShape
  <2> QED
    BY <2>1, DayFacts DEF InTime, DueWithin, isPastPublishWindow
<1> QED
  BY <1>1, TariffInvHolds, PTL

(* The health is only computed when a fetch ends (computeTariffHealth in   *)
(* runOnce), and the next fetch always ends before the slots have run out. *)
THEOREM HealthTheorem == TariffSpec => []HealthHonest
<1>1. TariffInv => HealthHonest
  BY DayFacts DEF TariffInv, HealthIsRenewed, HealthHonest, Relooks, TariffShape
<1> QED
  BY <1>1, TariffInvHolds, PTL

-----------------------------------------------------------------------------
(* A module that runs, or that a reload starts, is one that create() does  *)
(* not throw on.                                                           *)
OnlyBuilt ==
    /\ \A e \in Entities : running[e] # "none" => builds(running[e])
    /\ \A r \in Requests : reload[r] # none => builds(reload[r].v)

(* A reload that no other overlaps still holds the module it has to stop.  *)
HoldsItsModule ==
    \A r \in Requests : reload[r] # none /\ reload[r].e \notin overlapped =>
        /\ reload[r].owned
        /\ \A q \in Requests : reload[q] # none /\ reload[q].e = reload[r].e => q = r

ConfigInv == ReconfigureTypeOK /\ RunsItsConfig /\ OnlyBuilt /\ HoldsItsModule

LEMMA ConfigFacts ==
    /\ "none" \notin Values /\ "partial" \notin Values /\ Broken \subseteq Values
    /\ File \in [Entities -> {"none"} \union (Values \ Broken)]
    /\ none \notin Reloads
BY ConfigAssumption DEF Entities, none, Reloads

LEMMA DocumentsLeaveRows ==
    ASSUME NEW W \in SUBSET Entities, NEW v \in Values, NEW typed \in BOOLEAN,
           NEW s \in [Entities -> Rows]
    PROVE  Overlaid(docToOverrideRows(W, v, typed), s) \in [Entities -> Rows]
<1> DEFINE written == docToOverrideRows(W, v, typed)
<1>1. \A r \in written : r.patch = v
  BY DEF docToOverrideRows
<1>2. \A e \in Entities : (\E r \in written : r.name = e) =>
                              (CHOOSE x \in written : x.name = e) \in written
  OBVIOUS
<1>3. \A e \in Entities, w \in BOOLEAN : setOverride(s[e], v, w) \in Rows
  BY DEF setOverride, Rows
<1>4. \A r \in written : r.typed \in BOOLEAN
  BY DEF docToOverrideRows
<1> HIDE DEF written
<1>5. \A e \in Entities :
          (IF \E r \in written : r.name = e
             THEN LET r == CHOOSE x \in written : x.name = e IN setOverride(s[e], r.patch, r.typed)
             ELSE s[e]) \in Rows
  BY <1>1, <1>2, <1>3, <1>4
<1> QED
  BY <1>5 DEF Overlaid, written

(* A reload of one entity with the value its row has now.                  *)
LEMMA ReloadKeeps ==
    ASSUME ConfigInv, stored' \in [Entities -> Rows], NEW e \in Entities, Reload(e, stored'[e]),
           stored'[e] # "none", materialized' = materialized, phase' = phase
    PROVE  ConfigInv'
<1> DEFINE v == stored'[e]
<1>1. CASE UNCHANGED memory
  BY <1>1 DEF ConfigInv, ReconfigureTypeOK, RunsItsConfig, OnlyBuilt, HoldsItsModule, memory, Entities
<1>2. CASE parses(stored') /\ e \in Quick /\ reloadMeterReader(e, v)
  <2>1. v \in Values
    BY <1>2 DEF parses, Rows
  <2>2. UNCHANGED <<orphans, reload, overlapped>> /\ swap(e, v)
    BY <1>2 DEF reloadMeterReader
  <2> HIDE DEF v
  <2> QED
    BY <2>1, <2>2 DEF swap, ConfigInv, ReconfigureTypeOK, RunsItsConfig, OnlyBuilt, HoldsItsModule
<1>3. CASE parses(stored') /\ e \notin Quick /\ reloadTariff(e, v)
  <2>1. v \in Values /\ e \in Slow
    BY <1>3 DEF parses, Rows, Entities
  <2>2. reloadTariff(e, v)
    BY <1>3
  <2> HIDE DEF v
  <2>3. UNCHANGED <<live, running, orphans>>
    BY <2>2 DEF reloadTariff
  <2>4. CASE builds(v)
    <3> DEFINE begun == [e |-> e, v |-> v, owned |-> TRUE]
    <3>1. PICK r \in Requests : reload[r] = none /\ reload' = [reload EXCEPT ![r] = begun]
      BY <2>2, <2>4 DEF reloadTariff
    <3>2. begun \in Reloads /\ begun.e = e /\ begun.v = v /\ begun.owned
      BY <2>1 DEF Reloads
    <3>3. overlapped' = IF UnderWay(e) = {} THEN overlapped ELSE overlapped \union {e}
      BY <2>2, <2>4 DEF reloadTariff
    <3> HIDE DEF begun
    <3>4. ReconfigureTypeOK' /\ RunsItsConfig' /\ OnlyBuilt'
      BY <2>1, <2>3, <2>4, <3>1, <3>2, <3>3 DEF ConfigInv, ReconfigureTypeOK, RunsItsConfig, OnlyBuilt
    <3>5. HoldsItsModule'
      <4> SUFFICES ASSUME NEW p \in Requests, reload'[p] # none, reload'[p].e \notin overlapped'
                   PROVE  /\ reload'[p].owned
                          /\ \A q \in Requests : reload'[q] # none /\ reload'[q].e = reload'[p].e
                                                => q = p
        BY DEF HoldsItsModule
      <4>1. reload'[r] = begun /\ \A q \in Requests \ {r} : reload'[q] = reload[q]
        BY <3>1 DEF ConfigInv, ReconfigureTypeOK
      <4>2. CASE reload'[p].e = e
        <5>1. \A q \in Requests : reload[q] # none => reload[q].e # e
          BY <3>3, <4>2 DEF UnderWay
        <5> QED
          BY <3>2, <4>1, <4>2, <5>1
      <4>3. CASE reload'[p].e # e
        BY <3>2, <3>3, <4>1, <4>3 DEF ConfigInv, HoldsItsModule
      <4> QED
        BY <4>2, <4>3
    <3> QED
      BY <3>4, <3>5 DEF ConfigInv
  <2>5. CASE ~builds(v)
    BY <2>2, <2>3, <2>5 DEF reloadTariff, ConfigInv, ReconfigureTypeOK, RunsItsConfig, OnlyBuilt,
       HoldsItsModule
  <2> QED
    BY <2>4, <2>5
<1> QED
  BY <1>1, <1>2, <1>3 DEF Reload

LEMMA WriteKeeps ==
    ASSUME ConfigInv, NEW e \in Entities, NEW v \in Values, NEW typed \in BOOLEAN, Write(e, v, typed)
    PROVE  ConfigInv'
<1>1. setOverride(stored[e], v, typed) \in Rows \ {"none"}
  BY ConfigFacts DEF setOverride, Rows
<1>2. stored' \in [Entities -> Rows] /\ stored'[e] # "none"
  BY <1>1 DEF Write, ConfigInv, ReconfigureTypeOK
<1>3. Reload(e, stored'[e])
  BY DEF Write
<1>4. materialized' = materialized /\ phase' = phase
  BY DEF Write
<1> QED
  BY <1>2, <1>3, <1>4, ReloadKeeps

(* The end of a slow start: what is in the map goes on only where another  *)
(* reload has put it there since this one began.                           *)
LEMMA StartedKeeps ==
    ASSUME ConfigInv, NEW r \in Requests, Started(r)
    PROVE  ConfigInv'
<1>1. reload[r] \in Reloads /\ builds(reload[r].v) /\ reload[r] # none
  BY DEF Started, Swapped, ConfigInv, ReconfigureTypeOK, OnlyBuilt
<1> DEFINE e == reload[r].e
           v == reload[r].v
<1>2. e \in Entities /\ e \in Slow /\ v \in Values /\ builds(v)
  BY <1>1 DEF Entities, Reloads
<1>3. swap(e, v) /\ UNCHANGED <<stored, materialized, overlapped, phase>>
  BY DEF Started, Swapped
<1>4. /\ live' = [live EXCEPT ![e] = v]
      /\ running' = [running EXCEPT ![e] = v]
  BY <1>2, <1>3 DEF swap
<1>5. \A q \in Requests : reload'[q] # none =>
          /\ q # r /\ reload[q] # none
          /\ reload'[q] \in Reloads /\ reload'[q].e = reload[q].e /\ reload'[q].v = reload[q].v
          /\ reload[q].e # e => reload'[q] = reload[q]
  <2> TAKE q \in Requests
  <2> HAVE reload'[q] # none
  <2>1. reload'[q] = IF q = r THEN none
                     ELSE IF q \in UnderWay(e) THEN [reload[q] EXCEPT !.owned = FALSE]
                     ELSE reload[q]
    BY DEF Started, Swapped
  <2>2. q # r /\ reload[q] \in {none} \union Reloads
    BY <2>1 DEF ConfigInv, ReconfigureTypeOK
  <2>3. CASE q \in UnderWay(e)
    BY <2>1, <2>2, <2>3 DEF UnderWay, Reloads
  <2>4. CASE q \notin UnderWay(e)
    BY <2>1, <2>2, <2>4 DEF UnderWay, Reloads
  <2> QED
    BY <2>3, <2>4
<1>6. \A q \in Requests : reload'[q] \in {none} \union Reloads
  BY <1>5
<1>7. reload' \in [Requests -> {none} \union Reloads]
  <2>1. \E f : reload' = [q \in Requests |-> f[q]]
    <3>1. reload' = [q \in Requests |->
                     IF q = r THEN none
                     ELSE IF q \in UnderWay(e) THEN [reload[q] EXCEPT !.owned = FALSE]
                     ELSE reload[q]]
      BY DEF Started, Swapped
    <3>2. reload' = [q \in Requests |-> reload'[q]]
      BY <3>1
    <3> QED
      BY <3>2
  <2> QED
    BY <1>6, <2>1
<1>8. orphans' = IF reload[r].owned THEN orphans ELSE orphans \union Discarded(e)
  BY DEF Started
<1>9. orphans' \subseteq Slow \X Values
  <2>1. running[e] \in Values \union {"none"}
    BY <1>2 DEF ConfigInv, ReconfigureTypeOK
  <2>2. Discarded(e) \subseteq Slow \X Values
    BY <1>2, <2>1 DEF Discarded
  <2>3. orphans \subseteq Slow \X Values
    BY DEF ConfigInv, ReconfigureTypeOK
  <2> QED
    BY <1>8, <2>2, <2>3
<1>10. \A o \in orphans' : o[1] \in overlapped'
  <2>1. \A o \in orphans : o[1] \in overlapped
    BY DEF ConfigInv, RunsItsConfig
  <2>2. ~reload[r].owned => e \in overlapped
    BY <1>1 DEF ConfigInv, HoldsItsModule
  <2>3. \A o \in Discarded(e) : o[1] = e
    BY DEF Discarded
  <2> QED
    BY <1>3, <1>8, <2>1, <2>2, <2>3
<1> HIDE DEF e, v
<1>11. ReconfigureTypeOK'
  BY <1>2, <1>3, <1>4, <1>7, <1>9 DEF ConfigInv, ReconfigureTypeOK
<1>12. RunsItsConfig'
  BY <1>4, <1>10 DEF ConfigInv, RunsItsConfig
<1>13. OnlyBuilt'
  BY <1>2, <1>4, <1>5 DEF ConfigInv, ReconfigureTypeOK, OnlyBuilt
<1>14. HoldsItsModule'
  <2> SUFFICES ASSUME NEW p \in Requests, reload'[p] # none, reload'[p].e \notin overlapped'
               PROVE  /\ reload'[p].owned
                      /\ \A q \in Requests : reload'[q] # none /\ reload'[q].e = reload'[p].e
                                            => q = p
    BY DEF HoldsItsModule
  <2>1. p # r /\ reload[p] # none /\ reload'[p].e = reload[p].e /\ reload[p].e \notin overlapped
    BY <1>3, <1>5
  <2>2. reload[p].owned /\ \A q \in Requests : reload[q] # none /\ reload[q].e = reload[p].e => q = p
    BY <2>1 DEF ConfigInv, HoldsItsModule
  <2>3. reload[p].e # e
    BY <1>1, <2>1, <2>2 DEF e
  <2> QED
    BY <1>5, <2>1, <2>2, <2>3
<1> QED
  BY <1>11, <1>12, <1>13, <1>14 DEF ConfigInv

LEMMA CrashLeavesConfig == ConfigInv /\ Crash => ConfigInv'
BY ConfigFacts DEF ConfigInv, ReconfigureTypeOK, RunsItsConfig, OnlyBuilt, HoldsItsModule, Crash, Nothing

(* What only writes rows keeps all of it.                                  *)
LEMMA RowsKeep ==
    ASSUME ConfigInv, stored' \in [Entities -> Rows], materialized' \in BOOLEAN,
           UNCHANGED <<live, running, orphans, reload, overlapped, phase>>
    PROVE  ConfigInv'
BY DEF ConfigInv, ReconfigureTypeOK, RunsItsConfig, OnlyBuilt, HoldsItsModule

LEMMA ConfigStep == ConfigInv /\ [ReconfigureNext]_configVars => ConfigInv'
<1> SUFFICES ASSUME ConfigInv, [ReconfigureNext]_configVars
             PROVE  ConfigInv'
  OBVIOUS
<1>1. ASSUME NEW e \in Entities, NEW v \in Values,
             PostTariff(e, v) \/ PostMeter(e, v) \/ PutTariff(e, v) \/ PutMeter(e, v)
      PROVE  ConfigInv'
  BY <1>1, WriteKeeps DEF PostTariff, PostMeter, PutTariff, PutMeter
<1>2. ASSUME NEW e \in Quick, DeleteMeter(e)
      PROVE  ConfigInv'
  BY <1>2 DEF DeleteMeter, removeMeterReader, Rows, Entities, ConfigInv, ReconfigureTypeOK,
              RunsItsConfig, OnlyBuilt, HoldsItsModule
<1>3. ASSUME NEW r \in Requests, Started(r)
      PROVE  ConfigInv'
  BY <1>3, StartedKeeps
<1>4. ASSUME NEW W \in SUBSET Entities, NEW v \in Values, NEW typed \in BOOLEAN,
             importReplace(W, v, typed) \/ importMerge(W, v, typed)
      PROVE  ConfigInv'
  <2>1. Nothing \in [Entities -> Rows] /\ stored \in [Entities -> Rows]
    BY DEF Nothing, Rows, ConfigInv, ReconfigureTypeOK
  <2>2. stored' \in [Entities -> Rows]
    <3>1. Overlaid(docToOverrideRows(W, v, typed), stored) \in [Entities -> Rows]
      BY <2>1, DocumentsLeaveRows
    <3>2. Overlaid(docToOverrideRows(W, v, typed), Nothing) \in [Entities -> Rows]
      BY <2>1, DocumentsLeaveRows
    <3> QED
      BY <1>4, <3>1, <3>2 DEF importReplace, importMerge, applyConfigOverrides
  <2>3. UNCHANGED <<materialized, live, running, orphans, reload, overlapped, phase>>
    BY <1>4 DEF importReplace, importMerge, memory
  <2>4. materialized' \in BOOLEAN
    BY <2>3 DEF ConfigInv, ReconfigureTypeOK
  <2> QED
    BY <2>2, <2>3, <2>4, RowsKeep
<1>5. /\ File \in [Entities -> Rows] /\ CutShort \subseteq [Entities -> Rows]
      /\ Nothing \in [Entities -> Rows] /\ materialized \in BOOLEAN
  BY ConfigFacts DEF CutShort, Emptied, Filled, Nothing, Rows, ConfigInv, ReconfigureTypeOK
<1>6. CASE ApplyConfig \/ ApplyConfigDies
  BY <1>5, <1>6, RowsKeep DEF ApplyConfig, ApplyConfigDies, memory
<1>7. CASE FactoryReset
  BY <1>5, <1>7, RowsKeep DEF FactoryReset, memory
<1>8. CASE Boot
  <2>1. stored' \in [Entities -> Rows] /\ materialized' \in BOOLEAN
    BY <1>5, <1>8 DEF Boot, materializeConfigOnce, ConfigInv, ReconfigureTypeOK
  <2>2. UNCHANGED <<orphans, reload, overlapped>>
    BY <1>8 DEF Boot
  <2>3. CASE Boots(stored') /\ live' = stored' /\ running' = stored' /\ phase' = "up"
    <3>1. \A e \in Entities : stored'[e] \in Values \union {"none"}
      BY <2>1, <2>3 DEF Boots, parses, Rows
    <3>2. stored' \in [Entities -> Values \union {"none"}]
      BY <2>1, <3>1
    <3>3. \A e \in Entities : running'[e] # "none" => builds(running'[e])
      BY <2>3 DEF Boots
    <3> QED
      BY <2>1, <2>2, <2>3, <3>2, <3>3 DEF ConfigInv, ReconfigureTypeOK, RunsItsConfig, OnlyBuilt,
         HoldsItsModule
  <2>4. CASE UNCHANGED <<live, running, phase>>
    BY <2>1, <2>2, <2>4, RowsKeep
  <2> QED
    BY <1>8, <2>3, <2>4 DEF Boot
<1>9. CASE Crash
  BY <1>9, CrashLeavesConfig
<1>10. CASE UNCHANGED configVars
  BY <1>10 DEF configVars, ConfigInv, ReconfigureTypeOK, RunsItsConfig, OnlyBuilt, HoldsItsModule
<1> QED
  BY <1>1, <1>2, <1>3, <1>4, <1>6, <1>7, <1>8, <1>9, <1>10 DEF ReconfigureNext

LEMMA ConfigInvHolds == ReconfigureSpec => []ConfigInv
<1>1. ReconfigureInit => ConfigInv
  BY ConfigFacts DEF ReconfigureInit, ConfigInv, ReconfigureTypeOK, RunsItsConfig, OnlyBuilt,
     HoldsItsModule, Nothing, Rows
<1> QED
  BY <1>1, ConfigStep, PTL DEF ReconfigureSpec

(* Types, for any set of entities and values: what is in memory is whole,  *)
(* though rows may be partial.                                             *)
THEOREM ConfigTypesHold == ReconfigureSpec => []ReconfigureTypeOK
<1>1. ConfigInv => ReconfigureTypeOK
  BY DEF ConfigInv
<1> QED
  BY <1>1, ConfigInvHolds, PTL

(* However reloads, edits, imports, crashes and boots follow one another:  *)
(* the module in the map is the one of the configuration in memory         *)
(* (reconcile.ts swaps both or neither), and one that runs on beside it is *)
(* of a tariff two reloads of which were under way at once.                *)
THEOREM RunsItsConfigTheorem == ReconfigureSpec => []RunsItsConfig
<1>1. ConfigInv => RunsItsConfig
  BY DEF ConfigInv
<1> QED
  BY <1>1, ConfigInvHolds, PTL

(* Nothing that create() throws on ever gets into the maps: neither with a *)
(* reload that overlaps another nor at a boot (reconcile.ts, lifecycle.ts).*)
THEOREM OnlyBuiltTheorem == ReconfigureSpec => []OnlyBuilt
<1>1. ConfigInv => OnlyBuilt
  BY DEF ConfigInv
<1> QED
  BY <1>1, ConfigInvHolds, PTL

(* A first boot marks the configuration as materialized only with all of   *)
(* osc.yaml in the rows (materializeConfigOnce), and so does the command   *)
(* line; whatever died on the way is done again.                           *)
THEOREM MarkedTheorem == ReconfigureSpec => MarkedWhenWhole
<1>1. ASSUME [ReconfigureNext]_configVars, ~materialized, materialized'
      PROVE  stored' = File
  <2>1. CASE Boot
    BY <1>1, <2>1 DEF Boot, materializeConfigOnce
  <2>2. CASE ApplyConfig
    BY <2>2 DEF ApplyConfig
  <2> QED
    BY <1>1, <2>1, <2>2 DEF ReconfigureNext, PostTariff, PostMeter, PutTariff, PutMeter, Write,
       DeleteMeter, Started, Swapped, importReplace, importMerge, ApplyConfigDies, FactoryReset, Crash,
       configVars
<1>2. [ReconfigureNext]_configVars => [~materialized /\ materialized' => stored' = File]_configVars
  BY <1>1
<1> QED
  BY <1>2, PTL DEF ReconfigureSpec, MarkedWhenWhole

-----------------------------------------------------------------------------
Events ==
    [type : {"state"}, phase : Phases, finished : BOOLEAN] \union [type : {"mode"}, mode : Modes]
    \union [type : {"session"}, finished : BOOLEAN] \union [type : {"health"}, health : Healths]
    \union [type : {"config"}]

Chargers == [mode : Modes, phase : Phases, finished : BOOLEAN, status : Statuses,
             health : Healths \union {"none"}]

PageShape ==
    /\ lp \in Loadpoints /\ module \in [map : Healths, emitted : Healths] /\ ui \in Chargers
    /\ queue \in Seq(Events) /\ (queue # <<>> => stream = "open")
    /\ posts \subseteq Modes /\ answers \subseteq Loadpoints /\ polls \subseteq Healths
    /\ lost \in BOOLEAN /\ (stream # "off" => page = "live")

(* The mode event sent last tells the mode the backend holds.              *)
IsLastMode(q, i) == q[i].type = "mode" /\ \A j \in i + 1..Len(q) : q[j].type # "mode"
LastModeIsTrue == \A i \in 1..Len(queue) : IsLastMode(queue, i) => queue[i].mode = lp.mode

(* EchoReconciles, from the first read on.                                 *)
Reconciled ==
    page \in {"syncing", "live"} /\ posts = {} /\ modeEvents(queue) = {} /\ ~lost
        => ui.mode = lp.mode /\ ui.status = deriveStatus(ui)

PageInv == PageShape /\ LastModeIsTrue /\ Reconciled

-----------------------------------------------------------------------------
LEMMA MapLoadpoint ==
    ASSUME NEW h \in Healths \union {"none"}, ui.health = h, NEW c,
           c.mode \in Modes, c.phase \in Phases, c.finished \in BOOLEAN
    PROVE  /\ mapLoadpoint(c) \in Chargers /\ mapLoadpoint(c).mode = c.mode
           /\ mapLoadpoint(c).status = deriveStatus(mapLoadpoint(c))
<1>1. deriveStatus(c) \in Statuses
  BY DEF deriveStatus, drawStatus, restStatus, Statuses, Modes, Phases
<1>2. deriveStatus(mapLoadpoint(c)) = deriveStatus(c)
  BY DEF deriveStatus, mapLoadpoint
<1> QED
  BY <1>1, <1>2 DEF mapLoadpoint, Chargers

LEMMA SetHealthOfUi ==
    ASSUME ui \in Chargers, NEW h \in Healths, ui' = [ui EXCEPT !.health = h]
    PROVE  /\ ui' \in Chargers /\ ui'.mode = ui.mode
           /\ ui.status = deriveStatus(ui) => ui'.status = deriveStatus(ui')
<1>1. ui'.mode = ui.mode /\ ui'.phase = ui.phase /\ ui'.finished = ui.finished /\ ui'.status = ui.status
      /\ ui' \in Chargers
  BY DEF Chargers
<1> QED
  BY <1>1 DEF deriveStatus

(* What an emission, of events the last mode of which is the new one, does *)
(* to the queue.                                                           *)
LEMMA EmitKeeps ==
    ASSUME queue \in Seq(Events), queue # <<>> => stream = "open", LastModeIsTrue, lost \in BOOLEAN,
           NEW events \in Seq(Events), Emit(events),
           modeEvents(events) = {} => lp'.mode = lp.mode,
           \A i \in 1..Len(events) : IsLastMode(events, i) => events[i].mode = lp'.mode
    PROVE  /\ queue' \in Seq(Events) /\ (queue' # <<>> => stream = "open") /\ LastModeIsTrue'
           /\ lost' \in BOOLEAN
           /\ modeEvents(queue') = {} /\ ~lost' =>
                  modeEvents(queue) = {} /\ ~lost /\ modeEvents(events) = {}
<1>1. lost' \in BOOLEAN /\ (~lost' => ~lost /\ (stream = "open" \/ modeEvents(events) = {}))
  BY DEF Emit
<1>2. CASE stream # "open"
  <2>1. queue = <<>> /\ queue' = <<>>
    BY <1>2 DEF Emit
  <2> QED
    BY <1>1, <1>2, <2>1 DEF LastModeIsTrue, modeEvents
<1>3. CASE stream = "open"
  <2>1. queue' = queue \o events
    BY <1>3 DEF Emit
  <2> DEFINE n == Len(queue)
             k == Len(events)
             q == queue'
  <2>2. /\ n \in Nat /\ k \in Nat /\ Len(q) = n + k /\ q \in Seq(Events)
        /\ \A i \in 1..n : q[i] = queue[i]
        /\ \A i \in 1..k : q[n + i] = events[i]
    BY <2>1
  <2>3. ASSUME NEW i \in 1..Len(q), IsLastMode(q, i)
        PROVE  q[i].mode = lp'.mode
    <3>1. CASE i <= n
      <4>1. i \in 1..n /\ q[i] = queue[i]
        BY <2>2, <2>3, <3>1
      <4>2. \A j \in 1..k : events[j].type # "mode"
        <5> SUFFICES ASSUME NEW j \in 1..k
                     PROVE  events[j].type # "mode"
          OBVIOUS
        <5>1. n + j \in i + 1..Len(q)
          BY <2>2, <4>1
        <5> QED
          BY <2>2, <2>3, <5>1 DEF IsLastMode
      <4>3. lp'.mode = lp.mode
        BY <4>2 DEF modeEvents
      <4>4. IsLastMode(queue, i)
        <5> SUFFICES ASSUME NEW j \in i + 1..n
                     PROVE  queue[j].type # "mode"
          BY <2>3, <4>1 DEF IsLastMode
        <5>1. j \in 1..n /\ j \in i + 1..Len(q)
          BY <2>2, <4>1
        <5> QED
          BY <2>2, <2>3, <5>1 DEF IsLastMode
      <4> QED
        BY <4>1, <4>3, <4>4 DEF LastModeIsTrue
    <3>2. CASE i > n
      <4> DEFINE j == i - n
      <4>1. j \in 1..k /\ i = n + j
        BY <2>2, <3>2
      <4>2. q[i] = events[j]
        BY <2>2, <4>1
      <4>3. IsLastMode(events, j)
        <5> SUFFICES ASSUME NEW m \in j + 1..k
                     PROVE  events[m].type # "mode"
          BY <2>3, <4>2 DEF IsLastMode
        <5>1. m \in 1..k /\ n + m \in i + 1..Len(q)
          BY <2>2, <4>1
        <5> QED
          BY <2>2, <2>3, <5>1 DEF IsLastMode
      <4> QED
        BY <4>1, <4>2, <4>3
    <3> QED
      BY <2>2, <3>1, <3>2
  <2>4. ASSUME modeEvents(q) = {}
        PROVE  modeEvents(queue) = {} /\ modeEvents(events) = {}
    <3>0. \A i \in 1..Len(q) : q[i].type # "mode"
      BY <2>4 DEF modeEvents
    <3>1. \A i \in 1..n : queue[i].type # "mode"
      <4> SUFFICES ASSUME NEW i \in 1..n
                   PROVE  queue[i].type # "mode"
        OBVIOUS
      <4>1. i \in 1..Len(q) /\ q[i] = queue[i]
        BY <2>2
      <4> QED
        BY <3>0, <4>1
    <3>2. \A i \in 1..k : events[i].type # "mode"
      <4> SUFFICES ASSUME NEW i \in 1..k
                   PROVE  events[i].type # "mode"
        OBVIOUS
      <4>1. n + i \in 1..Len(q) /\ q[n + i] = events[i]
        BY <2>2
      <4> QED
        BY <3>0, <4>1
    <3> QED
      BY <3>1, <3>2 DEF modeEvents
  <2> QED
    BY <1>1, <1>3, <2>2, <2>3, <2>4 DEF LastModeIsTrue
<1> QED
  BY <1>2, <1>3

(* What an action of the backend keeps that emits, and touches the store   *)
(* of the page at most by way of it.                                       *)
LEMMA EmissionKeeps ==
    ASSUME PageInv, NEW events \in Seq(Events), Emit(events), lp' \in Loadpoints,
           modeEvents(events) = {} => lp'.mode = lp.mode,
           \A i \in 1..Len(events) : IsLastMode(events, i) => events[i].mode = lp'.mode,
           module' \in [map : Healths, emitted : Healths],
           posts' \subseteq Modes, posts' = {} => posts = {} \/ modeEvents(events) # {},
           UNCHANGED <<page, ui, stream, answers, polls>>
    PROVE  PageInv'
<1>1. /\ queue' \in Seq(Events) /\ (queue' # <<>> => stream = "open") /\ LastModeIsTrue'
      /\ lost' \in BOOLEAN
      /\ modeEvents(queue') = {} /\ ~lost' =>
             modeEvents(queue) = {} /\ ~lost /\ modeEvents(events) = {}
  BY EmitKeeps DEF PageInv, PageShape
<1>2. PageShape'
  BY <1>1 DEF PageInv, PageShape
<1>3. Reconciled'
  <2> SUFFICES ASSUME page' \in {"syncing", "live"}, posts' = {}, modeEvents(queue') = {}, ~lost'
               PROVE  ui'.mode = lp'.mode /\ ui'.status = deriveStatus(ui')
    BY DEF Reconciled, deriveStatus
  <2>1. ui.mode = lp.mode /\ ui.status = deriveStatus(ui) /\ lp'.mode = lp.mode
    BY <1>1 DEF PageInv, Reconciled
  <2> QED
    BY <2>1 DEF deriveStatus
<1> QED
  BY <1>1, <1>2, <1>3 DEF PageInv

LEMMA OneEvent ==
    ASSUME NEW e \in Events
    PROVE  /\ <<e>> \in Seq(Events) /\ (modeEvents(<<e>>) = {} => e.type # "mode")
           /\ (e.type # "mode" => modeEvents(<<e>>) = {})
           /\ \A i \in 1..Len(<<e>>) : IsLastMode(<<e>>, i) => <<e>>[i] = e /\ e.type = "mode"
BY DEF modeEvents, IsLastMode

LEMMA NoEvent ==
    <<>> \in Seq(Events) /\ modeEvents(<<>>) = {} /\ Len(<<>>) = 0
BY DEF modeEvents

LEMMA TwoEvents ==
    ASSUME NEW a \in Events, NEW b \in Events
    PROVE  <<a>> \o <<b>> = <<a, b>>
<1> DEFINE s == <<a>> \o <<b>>
           t == <<a, b>>
<1>1. s \in Seq(Events) /\ t \in Seq(Events) /\ Len(s) = 2 /\ Len(t) = 2
  OBVIOUS
<1>2. s[1] = t[1] /\ s[2] = t[2]
  OBVIOUS
<1> HIDE DEF s, t
<1>3. \A i \in 1..2 : s[i] = t[i]
  BY <1>2
<1>4. s = t
  BY <1>1, <1>3, SeqEqual
<1> QED
  BY <1>4 DEF s, t

LEMMA ModeChangeKeeps ==
    ASSUME PageInv, NEW m \in Modes, handleModeChange(m), posts' \subseteq Modes,
           UNCHANGED <<module, page, ui, stream, answers, polls>>
    PROVE  PageInv'
<1> DEFINE e == [type |-> "mode", mode |-> lp'.mode]
<1>1. lp' \in Loadpoints /\ lp'.mode = m
  BY DEF handleModeChange, PageInv, PageShape, Loadpoints
<1>2. e \in Events /\ e.type = "mode" /\ e.mode = lp'.mode
  BY <1>1 DEF Events
<1>3. Emit(<<e>>)
  BY DEF handleModeChange, modeEvent
<1>4. module' \in [map : Healths, emitted : Healths]
  BY DEF PageInv, PageShape
<1> HIDE DEF e
<1>5. /\ <<e>> \in Seq(Events) /\ modeEvents(<<e>>) # {}
      /\ \A i \in 1..Len(<<e>>) : IsLastMode(<<e>>, i) => <<e>>[i].mode = lp'.mode
  BY <1>2, OneEvent
<1> QED
  BY <1>1, <1>3, <1>4, <1>5, EmissionKeeps

LEMMA TickKeeps == ASSUME PageInv, NEW f \in BOOLEAN, LoopTick(f) PROVE PageInv'
<1>1. PICK reverts \in {FALSE, lp.mode = "fast" /\ lp.phase = "away"} :
         /\ lp' = [lp EXCEPT !.finished = f, !.mode = IF reverts THEN "smart" ELSE @]
         /\ Emit((IF reverts THEN <<modeEvent>> ELSE <<>>)
                 \o (IF f # lp.finished THEN <<[type |-> "session", finished |-> f]>> ELSE <<>>))
  BY DEF LoopTick
<1> DEFINE m == [type |-> "mode", mode |-> lp'.mode]
           s == [type |-> "session", finished |-> f]
           events == (IF reverts THEN <<m>> ELSE <<>>) \o (IF f # lp.finished THEN <<s>> ELSE <<>>)
<1>2. lp' \in Loadpoints /\ lp'.mode = IF reverts THEN "smart" ELSE lp.mode
  BY <1>1 DEF PageInv, PageShape, Loadpoints, Modes
<1>3. m \in Events /\ s \in Events /\ m.type = "mode" /\ m.mode = lp'.mode /\ s.type = "session"
  BY <1>2 DEF Events, Loadpoints
<1>4. Emit(events)
  BY <1>1 DEF modeEvent
<1>5. UNCHANGED <<module, page, ui, stream, posts, asks, answers, polls, turns>>
  BY DEF LoopTick
<1> HIDE DEF m, s
<1>6. events \in {<<m, s>>, <<m>>, <<s>>, <<>>} /\ (reverts => events \in {<<m, s>>, <<m>>})
  <2>0. <<>> \o <<>> = <<>>
    OBVIOUS
  <2>1. <<m>> \o <<s>> = <<m, s>> /\ <<m>> \o <<>> = <<m>> /\ <<>> \o <<s>> = <<s>>
    BY <1>3, TwoEvents
  <2>2. CASE reverts
    BY <2>1, <2>2, Zenon
  <2>3. CASE ~reverts
    BY <2>0, <2>1, <2>3, Zenon
  <2> QED
    BY <2>2, <2>3
<1>7. events \in Seq(Events)
  BY <1>3, <1>6
<1>8. modeEvents(events) = {} => lp'.mode = lp.mode
  <2>1. CASE reverts
    <3>1. 1 \in modeEvents(events)
      BY <1>3, <1>6, <2>1 DEF modeEvents
    <3> QED
      BY <3>1
  <2> QED
    BY <1>2, <2>1
<1>9. \A i \in 1..Len(events) : IsLastMode(events, i) => events[i].mode = lp'.mode
  BY <1>3, <1>6 DEF IsLastMode
<1> HIDE DEF events
<1> QED
  BY <1>2, <1>4, <1>5, <1>7, <1>8, <1>9, EmissionKeeps DEF PageInv, PageShape

LEMMA BackendKeeps == PageInv /\ Backend => PageInv'
<1> SUFFICES ASSUME PageInv, Backend
             PROVE  PageInv'
  OBVIOUS
<1>1. ASSUME NEW m \in Modes, PostHandled(m) \/ ModeElsewhere(m)
      PROVE  PageInv'
  BY <1>1, ModeChangeKeeps DEF PostHandled, ModeElsewhere, PageInv, PageShape
<1>2. ASSUME NEW m \in Modes, PostFails(m)
      PROVE  PageInv'
  BY <1>2 DEF PostFails, PageInv, PageShape, Reconciled, LastModeIsTrue, IsLastMode
<1>3. ASSUME NEW p \in Phases, Frame(p)
      PROVE  PageInv'
  <2> DEFINE e == [type |-> "state", phase |-> p, finished |-> lp.finished]
  <2>1. lp' \in Loadpoints /\ lp'.mode = lp.mode
    BY <1>3 DEF Frame, PageInv, PageShape, Loadpoints
  <2>2. e \in Events /\ e.type = "state"
    BY DEF Events, PageInv, PageShape, Loadpoints
  <2>3. Emit(<<e>>) /\ UNCHANGED <<module, page, ui, stream, posts, answers, polls>>
    BY <1>3 DEF Frame
  <2> HIDE DEF e
  <2>4. <<e>> \in Seq(Events) /\ \A i \in 1..Len(<<e>>) : ~IsLastMode(<<e>>, i)
    BY <2>2, OneEvent
  <2> QED
    BY <2>1, <2>3, <2>4, EmissionKeeps DEF PageInv, PageShape
<1>4. ASSUME NEW f \in BOOLEAN, LoopTick(f)
      PROVE  PageInv'
  BY <1>4, TickKeeps
<1>5. CASE ConfigWrite
  <2> DEFINE e == [type |-> "config"]
  <2>1. e \in Events /\ e.type = "config"
    BY DEF Events
  <2>2. Emit(<<e>>) /\ UNCHANGED <<lp, module, page, ui, stream, posts, answers, polls>>
    BY <1>5 DEF ConfigWrite
  <2> HIDE DEF e
  <2>3. <<e>> \in Seq(Events) /\ \A i \in 1..Len(<<e>>) : ~IsLastMode(<<e>>, i)
    BY <2>1, OneEvent
  <2> QED
    BY <2>2, <2>3, EmissionKeeps DEF PageInv, PageShape
<1>6. ASSUME NEW h \in Healths, setHealth(h)
      PROVE  PageInv'
  <2> DEFINE e == [type |-> "health", health |-> h]
  <2>1. e \in Events /\ e.type = "health"
    BY DEF Events
  <2>2. UNCHANGED <<lp, page, ui, stream, posts, answers, polls>>
        /\ module' \in [map : Healths, emitted : Healths]
    BY <1>6 DEF setHealth
  <2>3. Emit(<<e>>) \/ Emit(<<>>)
    BY <1>6 DEF setHealth
  <2> HIDE DEF e
  <2>4. <<e>> \in Seq(Events) /\ \A i \in 1..Len(<<e>>) : ~IsLastMode(<<e>>, i)
    BY <2>1, OneEvent
  <2>5. lp' \in Loadpoints /\ posts' \subseteq Modes /\ posts' = posts /\ lp'.mode = lp.mode
    BY <2>2 DEF PageInv, PageShape
  <2>6. CASE Emit(<<e>>)
    BY <2>2, <2>4, <2>5, <2>6, EmissionKeeps
  <2>7. CASE Emit(<<>>)
    <3>1. \A i \in 1..Len(<<>>) : IsLastMode(<<>>, i) => <<>>[i].mode = lp'.mode
      BY NoEvent
    <3>2. <<>> \in Seq(Events) /\ modeEvents(<<>>) = {}
      BY NoEvent
    <3> QED
      BY <2>2, <2>5, <2>7, <3>1, <3>2, EmissionKeeps
  <2> QED
    BY <2>3, <2>6, <2>7
<1>7. ASSUME NEW h \in Healths, ReloadModule(h)
      PROVE  PageInv'
  BY <1>7 DEF ReloadModule, PageInv, PageShape, Reconciled, LastModeIsTrue, IsLastMode, deriveStatus
<1> QED
  BY <1>1, <1>2, <1>3, <1>4, <1>5, <1>6, <1>7 DEF Backend

(* The event at the head of the queue is applied.                          *)
LEMMA DispatchKeeps == PageInv /\ Dispatch => PageInv'
<1> SUFFICES ASSUME PageInv, Dispatch
             PROVE  PageInv'
  OBVIOUS
<1> DEFINE e == Head(queue)
           n == Len(queue)
<1>1. /\ queue \in Seq(Events) /\ queue # <<>> /\ e \in Events /\ n \in Nat \ {0} /\ e = queue[1]
      /\ queue' \in Seq(Events) /\ Len(queue') = n - 1 /\ \A i \in 1..n - 1 : queue'[i] = queue[i + 1]
  BY DEF Dispatch, PageInv, PageShape
<1>2. LastModeIsTrue'
  <2> SUFFICES ASSUME NEW i \in 1..n - 1, IsLastMode(queue', i)
               PROVE  queue'[i].mode = lp.mode
    BY <1>1 DEF LastModeIsTrue, Dispatch
  <2>1. i + 1 \in 1..n /\ queue'[i] = queue[i + 1]
    BY <1>1
  <2>2. IsLastMode(queue, i + 1)
    <3> SUFFICES ASSUME NEW j \in i + 2..n
                 PROVE  queue[j].type # "mode"
      BY <1>1, <2>1 DEF IsLastMode
    <3>1. j - 1 \in i + 1..n - 1 /\ j - 1 \in 1..n - 1 /\ queue'[j - 1] = queue[j]
      BY <1>1
    <3> QED
      BY <1>1, <3>1 DEF IsLastMode
  <2> QED
    BY <2>1, <2>2 DEF PageInv, LastModeIsTrue
<1>3. modeEvents(queue') = {} => \A j \in 2..n : queue[j].type # "mode"
  <2> SUFFICES ASSUME modeEvents(queue') = {}, NEW j \in 2..n
               PROVE  queue[j].type # "mode"
    OBVIOUS
  <2>1. j - 1 \in 1..n - 1 /\ queue'[j - 1] = queue[j]
    BY <1>1
  <2> QED
    BY <1>1, <2>1 DEF modeEvents
<1>4. modeEvents(queue') = {} /\ e.type # "mode" => modeEvents(queue) = {}
  BY <1>1, <1>3 DEF modeEvents
<1>5. modeEvents(queue') = {} /\ e.type = "mode" => e.mode = lp.mode
  <2> SUFFICES ASSUME modeEvents(queue') = {}, e.type = "mode"
               PROVE  e.mode = lp.mode
    OBVIOUS
  <2>1. IsLastMode(queue, 1) /\ 1 \in 1..n
    BY <1>1, <1>3 DEF IsLastMode
  <2> QED
    BY <1>1, <2>1 DEF PageInv, LastModeIsTrue
<1>6. /\ UNCHANGED <<lp, module, page, stream, posts, answers, polls>>
      /\ lost' = (lost /\ e.type # "mode")
      /\ \/ e.type = "state"   /\ ui' = onState(e)
         \/ e.type = "mode"    /\ ui' = onMode(e)
         \/ e.type = "session" /\ ui' = onSession(e)
         \/ e.type = "health"  /\ ui' = onHealth(e)
         \/ e.type = "config"  /\ ui' = ui
  BY DEF Dispatch, onConfig
<1>7. /\ e.type = "state" => e.phase \in Phases /\ e.finished \in BOOLEAN
      /\ e.type = "mode" => e.mode \in Modes
      /\ e.type = "session" => e.finished \in BOOLEAN
      /\ e.type = "health" => e.health \in Healths
  BY <1>1 DEF Events
<1>8. ui \in Chargers /\ ui.health \in Healths \union {"none"}
  BY DEF PageInv, PageShape, Chargers
<1> HIDE DEF e, n
<1>9. /\ ui' \in Chargers
      /\ e.type # "mode" => ui'.mode = ui.mode
      /\ e.type = "mode" => ui'.mode = e.mode
      /\ ui.status = deriveStatus(ui) \/ e.type = "mode" => ui'.status = deriveStatus(ui')
  <2>1. CASE e.type = "state"
    <3> DEFINE c == [ui EXCEPT !.phase = e.phase, !.finished = e.finished]
    <3>1. c.mode \in Modes /\ c.phase \in Phases /\ c.finished \in BOOLEAN /\ c.mode = ui.mode
      BY <1>7, <1>8, <2>1 DEF Chargers
    <3>2. ui' = mapLoadpoint(c)
      BY <1>6, <2>1 DEF onState
    <3> HIDE DEF c
    <3> QED
      BY <1>8, <2>1, <3>1, <3>2, MapLoadpoint DEF deriveStatus
  <2>2. CASE e.type = "mode"
    <3> DEFINE c == [ui EXCEPT !.mode = e.mode]
    <3>1. c.mode \in Modes /\ c.phase \in Phases /\ c.finished \in BOOLEAN /\ c.mode = e.mode
      BY <1>7, <1>8, <2>2 DEF Chargers
    <3>2. ui' = mapLoadpoint(c)
      BY <1>6, <2>2 DEF onMode
    <3> HIDE DEF c
    <3> QED
      BY <1>8, <2>2, <3>1, <3>2, MapLoadpoint DEF deriveStatus
  <2>3. CASE e.type = "session"
    <3> DEFINE c == [ui EXCEPT !.finished = e.finished]
    <3>1. c.mode \in Modes /\ c.phase \in Phases /\ c.finished \in BOOLEAN /\ c.mode = ui.mode
      BY <1>7, <1>8, <2>3 DEF Chargers
    <3>2. ui' = mapLoadpoint(c)
      BY <1>6, <2>3 DEF onSession
    <3> HIDE DEF c
    <3> QED
      BY <1>8, <2>3, <3>1, <3>2, MapLoadpoint DEF deriveStatus
  <2>4. CASE e.type = "health"
    BY <1>6, <1>7, <1>8, <2>4, SetHealthOfUi DEF onHealth
  <2>5. CASE e.type = "config"
    BY <1>6, <1>8, <2>5 DEF deriveStatus
  <2> QED
    BY <1>6, <2>1, <2>2, <2>3, <2>4, <2>5
<1>10. stream = "open"
  BY <1>1 DEF PageInv, PageShape
<1>11. PageShape'
  BY <1>1, <1>6, <1>9, <1>10 DEF PageInv, PageShape
<1>12. Reconciled'
  BY <1>4, <1>5, <1>6, <1>9 DEF PageInv, Reconciled
<1> QED
  BY <1>2, <1>11, <1>12 DEF PageInv

LEMMA PageKeeps == PageInv /\ Page => PageInv'
<1> SUFFICES ASSUME PageInv, Page
             PROVE  PageInv'
  OBVIOUS
<1>0. ui \in Chargers /\ ui.health \in Healths \union {"none"} /\ lp \in Loadpoints
  BY DEF PageInv, PageShape, Chargers
<1>1. CASE ProbeFails \/ Subscribe \/ StreamOpens
  BY <1>1 DEF ProbeFails, Subscribe, StreamOpens, PageInv, PageShape, Reconciled, LastModeIsTrue,
              IsLastMode, deriveStatus
<1>2. CASE ProbeAnswered
  <2>1. ui' \in Chargers /\ ui'.mode = lp.mode /\ ui'.status = deriveStatus(ui')
    <3>1. lp.mode \in Modes /\ lp.phase \in Phases /\ lp.finished \in BOOLEAN
      BY <1>0 DEF Loadpoints
    <3> QED
      BY <1>0, <1>2, <3>1, MapLoadpoint DEF ProbeAnswered, deriveStatus
  <2> QED
    BY <1>2, <2>1 DEF ProbeAnswered, PageInv, PageShape, Reconciled, LastModeIsTrue, IsLastMode
<1>3. ASSUME NEW h \in Healths, ui' = [ui EXCEPT !.health = h],
             UNCHANGED <<lp, module, page, stream, queue, posts, answers, lost>>, polls' \subseteq Healths
      PROVE  PageInv'
  <2>1. /\ ui' \in Chargers /\ ui'.mode = ui.mode
        /\ ui.status = deriveStatus(ui) => ui'.status = deriveStatus(ui')
    BY <1>0, <1>3, SetHealthOfUi
  <2> QED
    BY <1>3, <2>1 DEF PageInv, PageShape, Reconciled, LastModeIsTrue, IsLastMode
<1>4. CASE InitialHealth
  <2>1. module.map \in Healths
    BY DEF PageInv, PageShape
  <2> QED
    BY <1>3, <1>4, <2>1 DEF InitialHealth, PageInv, PageShape
<1>5. CASE StreamBreaks
  <2>1. queue' = <<>> /\ <<>> \in Seq(Events)
    BY <1>5 DEF StreamBreaks
  <2> QED
    <3>1. PageShape'
      BY <1>5, <2>1 DEF StreamBreaks, PageInv, PageShape
    <3>2. LastModeIsTrue'
      BY <2>1 DEF LastModeIsTrue
    <3>3. ~lost' => modeEvents(queue) = {} /\ ~lost
      BY <1>5 DEF StreamBreaks
    <3>4. UNCHANGED <<lp, page, ui, posts>>
      BY <1>5 DEF StreamBreaks
    <3>5. Reconciled'
      BY <3>3, <3>4 DEF PageInv, Reconciled, deriveStatus
    <3> QED
      BY <3>1, <3>2, <3>5 DEF PageInv
<1>6. CASE Dispatch
  BY <1>6, DispatchKeeps
<1>7. ASSUME NEW m \in Modes, changeMode(m)
      PROVE  PageInv'
  <2>1. ui' \in Chargers /\ posts' # {} /\ posts' \subseteq Modes
    BY <1>0, <1>7 DEF changeMode, Chargers, Statuses, PageInv, PageShape
  <2> QED
    BY <1>7, <2>1 DEF changeMode, PageInv, PageShape, Reconciled, LastModeIsTrue, IsLastMode
<1>8. CASE LoadpointRead \/ ReadFails
  BY <1>8 DEF LoadpointRead, ReadFails, PageInv, PageShape, Reconciled, LastModeIsTrue, IsLastMode,
              deriveStatus
<1>9. ASSUME NEW a \in Loadpoints, rehydrate(a)
      PROVE  PageInv'
  <2>1. a.mode \in Modes /\ a.phase \in Phases /\ a.finished \in BOOLEAN
    BY DEF Loadpoints
  <2>2. ui' \in Chargers /\ ui'.mode = a.mode /\ ui'.status = deriveStatus(ui')
    BY <1>0, <1>9, <2>1, MapLoadpoint DEF rehydrate, deriveStatus
  <2> QED
    BY <1>9, <2>2 DEF rehydrate, PageInv, PageShape, Reconciled, LastModeIsTrue, IsLastMode
<1>10. CASE Poll
  BY <1>10 DEF Poll, PageInv, PageShape, Reconciled, LastModeIsTrue, IsLastMode, deriveStatus
<1>11. ASSUME NEW h \in Healths, PollAnswered(h)
       PROVE  PageInv'
  BY <1>3, <1>11 DEF PollAnswered, PageInv, PageShape
<1> QED
  BY <1>1, <1>2, <1>4, <1>5, <1>6, <1>7, <1>8, <1>9, <1>10, <1>11 DEF Page

LEMMA PageInvHolds == Spec => []PageInv
<1>1. Init => PageInv
  <2> SUFFICES ASSUME Init
               PROVE  PageInv
    OBVIOUS
  <2>1. queue = <<>> /\ <<>> \in Seq(Events) /\ Len(queue) = 0
    BY DEF Init
  <2>2. lp \in Loadpoints /\ module \in [map : Healths, emitted : Healths] /\ ui \in Chargers
    BY DEF Init, Loadpoints, Chargers, Modes, Phases, Healths, Statuses
  <2>3. PageShape
    BY <2>1, <2>2 DEF Init, PageShape
  <2>4. LastModeIsTrue /\ Reconciled
    BY <2>1 DEF Init, LastModeIsTrue, Reconciled
  <2> QED
    BY <2>3, <2>4 DEF PageInv
<1>2. PageInv /\ [Next]_pageVars => PageInv'
  <2>1. PageInv /\ UNCHANGED pageVars => PageInv'
    <3> SUFFICES ASSUME PageInv, UNCHANGED pageVars
                 PROVE  PageInv'
      OBVIOUS
    <3>1. PageShape'
      BY DEF pageVars, PageInv, PageShape
    <3>2. LastModeIsTrue'
      BY DEF pageVars, PageInv, LastModeIsTrue, IsLastMode
    <3>3. Reconciled'
      BY DEF pageVars, PageInv, Reconciled, deriveStatus, modeEvents
    <3> QED
      BY <3>1, <3>2, <3>3 DEF PageInv
  <2> QED
    BY <2>1, BackendKeeps, PageKeeps DEF Next
<1> QED
  BY <1>1, <1>2, PTL DEF Spec

(* Whoever changed the mode, and however posts, the stream, breaks and     *)
(* re-reads overtook one another, for streams and histories of any length: *)
(* once no post and no echo is on its way and no mode event was lost, the  *)
(* page shows the backend's mode.  Its status is the one the page derives  *)
(* from that mode and from its own flags, which may be stale: events of    *)
(* the state are not counted here, and what becomes of them in the end is  *)
(* ChargingIsShown's (commands.ts, sse.ts, useLiveSync.ts, map.ts).        *)
THEOREM EchoTheorem == Spec => []EchoReconciles
<1>1. PageInv => EchoReconciles
  BY DEF PageInv, Reconciled, EchoReconciles
<1> QED
  BY <1>1, PageInvHolds, PTL

-----------------------------------------------------------------------------
AdHocTargets == [soc : Socs \union {Unset}, time : Times \union {Unset}, kwh : Kwhs \union {Unset}]

ChargeShape ==
    /\ now \in 0..Day /\ soc \in Nat /\ session \in Nat
    /\ active \in {"car", "guest"} /\ anchored \in BOOLEAN /\ ticked \in BOOLEAN
    /\ rows \in [Ids -> Contents \union {NoPlan}] /\ curve \in Curves /\ tariff \in Tariffs
    /\ adhoc \in AdHocTargets

(* Until something changes, the plan is the one of the state as it is.     *)
Decided ==
    ticked =>
      LET need == resolveTarget(Target)
          cheap == cheapestSlotsPlan(slotsNeeded(need))
      IN  /\ planned = (IF need > 0 THEN generateSlots ELSE {})
          /\ chosen = (IF need > 0 THEN cheap ELSE {})
          /\ charge = "yes" \/ ~decideShouldCharge(need, generateSlots, cheap)

(* A promise governs until its time, and time and battery leave room.      *)
PromiseInv ==
    promise # NoPlan =>
        /\ promise \in Contents \union AdHocs /\ Sized(promise) /\ promise.readyBy \in Nat
        /\ now <= promise.readyBy /\ (ticked => now < promise.readyBy)
        /\ now < promise.readyBy => Target = promise /\ TargetTime = promise.readyBy
        /\ resolveTarget(promise) <= promise.readyBy - now
        /\ resolveTarget(promise) > 0 => resolveTarget(promise) <= Capacity - soc

ChargeInv == ChargeShape /\ Decided /\ PromiseInv

-----------------------------------------------------------------------------
LEMMA ChargeFacts ==
    /\ Slots \in Nat /\ Capacity \in Nat /\ PerPrice \in Nat /\ PerPrice > 0 /\ PerHour \in Nat
    /\ PerHour > 0 /\ Day \in Nat /\ Day = 2 * Slots /\ Slots > 0
    /\ Socs \subseteq Nat /\ Kwhs \subseteq Nat /\ Unset \notin Nat /\ NoPlan \notin Contents
    /\ NoPlan \notin AdHocs /\ Plans \subseteq Contents
    /\ \A t \in Times : t \in Nat /\ 1 <= t /\ t <= Day
<1>1. Slots \in Nat /\ Slots > 0
  BY ChargeAssumption
<1>2. Day \in Nat /\ Day = 2 * Slots
  BY <1>1 DEF Day
<1>3. \A t \in Times : t \in 1..Day
  BY ChargeAssumption
<1>4. \A t \in Times : t \in Nat /\ 1 <= t /\ t <= Day
  BY <1>2, <1>3
<1> QED
  BY <1>1, <1>2, <1>4, ChargeAssumption

LEMMA LeastNumber ==
    ASSUME NEW T \in SUBSET Nat, T # {}
    PROVE  \E t \in T : \A u \in T : t <= u
<1>1. PICK t \in T : \A u \in T : ~(<<u, t>> \in OpToRel(<, Nat))
  BY NatLessThanWellFounded, WFMin
<1>2. \A u \in T : ~(u < t)
  BY <1>1 DEF OpToRel
<1> QED
  BY <1>2

(* The plan that governs is the one due first of those that apply.         *)
LEMMA GoverningPlan ==
    ASSUME ChargeShape
    PROVE  \/ Candidates = {} /\ selectActivePlan = NoPlan
           \/ \E i \in Candidates : /\ selectActivePlan = rows[i] /\ rows[i] \in Contents
                                    /\ \A j \in Candidates : rows[i].readyBy <= rows[j].readyBy
<1>1. CASE Candidates = {}
  BY <1>1 DEF selectActivePlan
<1>2. CASE Candidates # {}
  <2>1. \A i \in Candidates : i \in Ids /\ rows[i] \in Contents
    BY DEF Candidates, ChargeShape
  <2>2. \A c \in Contents : c.readyBy \in Nat
    BY DEF Contents
  <2> DEFINE T == {rows[i].readyBy : i \in Candidates}
  <2>3. T \in SUBSET Nat /\ T # {}
    BY <1>2, <2>1, <2>2
  <2>4. PICK t \in T : \A u \in T : t <= u
    BY <2>3, LeastNumber
  <2>5. \E i \in Candidates : \A j \in Candidates : rows[i].readyBy <= rows[j].readyBy
    BY <2>4
  <2> DEFINE l == CHOOSE i \in Candidates : \A j \in Candidates : rows[i].readyBy <= rows[j].readyBy
  <2>6. l \in Candidates /\ \A j \in Candidates : rows[l].readyBy <= rows[j].readyBy
    BY <2>5
  <2>7. selectActivePlan = rows[l]
    BY <1>2 DEF selectActivePlan, Least
  <2> QED
    BY <2>1, <2>6, <2>7
<1> QED
  BY <1>1, <1>2

LEMMA AdHocTargetIs ==
    ASSUME ChargeShape, AdHocTarget # NoPlan
    PROVE  AdHocTarget \in AdHocs /\ AdHocTarget.readyBy = adhoc.time
<1>1. adhoc.time \in Times \union {Unset}
  BY DEF ChargeShape, AdHocTargets
<1>2. adhoc.soc # Unset => adhoc.soc \in Nat
  BY ChargeFacts DEF ChargeShape, AdHocTargets
<1>3. adhoc.kwh # Unset => adhoc.kwh \in Nat
  BY ChargeFacts DEF ChargeShape, AdHocTargets
<1> QED
  BY <1>1, <1>2, <1>3 DEF AdHocTarget, AdHocs

LEMMA TargetIs ==
    ASSUME ChargeShape
    PROVE  /\ Target \in Contents \union AdHocs \union {NoPlan}
           /\ TargetTime \in Int /\ now < TargetTime
           /\ \/ selectActivePlan # NoPlan /\ TargetTime = Target.readyBy
              \/ /\ selectActivePlan = NoPlan /\ Candidates = {} /\ Target = AdHocTarget
                 /\ TargetTime = IF adhoc.time # Unset THEN Upcoming(adhoc.time) ELSE now + Day
<1>0. /\ now \in Nat /\ Day \in Nat /\ now <= Day /\ Day > 0
      /\ adhoc.time # Unset => adhoc.time \in Nat /\ 1 <= adhoc.time
  BY ChargeFacts DEF ChargeShape, AdHocTargets
<1>1. CASE selectActivePlan # NoPlan
  <2>1. PICK i \in Candidates : selectActivePlan = rows[i] /\ rows[i] \in Contents
    BY <1>1, GoverningPlan
  <2>2. rows[i].readyBy \in Int /\ now < rows[i].readyBy
    BY <1>0, <2>1 DEF Candidates, Contents
  <2> QED
    BY <1>1, <2>1, <2>2 DEF Target, TargetTime
<1>2. CASE selectActivePlan = NoPlan
  <2>1. Candidates = {}
    BY <1>2, GoverningPlan, ChargeFacts
  <2>2. Target = AdHocTarget
    BY <1>2 DEF Target
  <2>3. TargetTime = IF adhoc.time # Unset THEN Upcoming(adhoc.time) ELSE now + Day
    BY <1>2 DEF TargetTime
  <2>4. TargetTime \in Int /\ now < TargetTime
    <3>1. CASE adhoc.time # Unset /\ adhoc.time > now
      BY <1>0, <2>3, <3>1 DEF Upcoming
    <3>2. CASE adhoc.time # Unset /\ ~(adhoc.time > now)
      BY <1>0, <2>3, <3>2 DEF Upcoming
    <3>3. CASE adhoc.time = Unset
      BY <1>0, <2>3, <3>3
    <3> QED
      BY <3>1, <3>2, <3>3
  <2> QED
    BY <1>2, <2>1, <2>2, <2>3, <2>4, AdHocTargetIs
<1> QED
  BY <1>1, <1>2
LEMMA TimeIsNat ==
    ASSUME ChargeShape, NEW t \in Contents \union AdHocs, t.readyBy # Unset
    PROVE  t.readyBy \in Nat
<1>1. CASE t \in Contents
  BY <1>1, ChargeFacts DEF Contents
<1>2. CASE t \in AdHocs
  BY <1>2, ChargeFacts DEF AdHocs
<1> QED
  BY <1>1, <1>2

LEMMA NeedIsNat ==
    ASSUME ChargeShape, NEW t \in Contents \union AdHocs \union {NoPlan}
    PROVE  /\ resolveTarget(t) \in Nat
           /\ Sized(t) => \E has \in {soc, session} :
                            /\ t.target \in Nat /\ has = (IF t.unit = "pct" THEN soc ELSE session)
                            /\ resolveTarget(t) = IF t.target > has THEN t.target - has ELSE 0
<1>1. DutyCycle \in Nat
  <2> DEFINE share == (2 * (TargetTime - now) + 4) \div 5
  <2>1. share \in Int
    BY TargetIs DEF ChargeShape
  <2> HIDE DEF share
  <2>2. \E m \in {1, share} : \A y \in {1, share} : m >= y
    BY <2>1
  <2>3. Max({1, share}) \in {1, share} /\ Max({1, share}) >= 1
    BY <2>1, <2>2 DEF Max
  <2>4. Max({1, share}) \in Nat
    BY <2>1, <2>3
  <2> QED
    BY <2>4 DEF DutyCycle, share
<1>2. ASSUME Sized(t)
      PROVE  \E has \in {soc, session} :
                /\ t.target \in Nat /\ has = (IF t.unit = "pct" THEN soc ELSE session)
                /\ resolveTarget(t) = IF t.target > has THEN t.target - has ELSE 0
  <2>1. t.target \in Nat
    BY <1>2 DEF Sized, Contents, AdHocs
  <2> DEFINE has == IF t.unit = "pct" THEN soc ELSE session
  <2>2. has \in Nat /\ has \in {soc, session}
    BY DEF ChargeShape
  <2>3. resolveTarget(t) = Max({0, t.target - has})
    BY <1>2 DEF resolveTarget
  <2> HIDE DEF has
  <2>4. Max({0, t.target - has}) = IF t.target > has THEN t.target - has ELSE 0
    BY <2>1, <2>2 DEF Max
  <2> QED
    BY <2>1, <2>2, <2>3, <2>4 DEF has
<1>3. resolveTarget(t) \in Nat
  <2>1. CASE Sized(t)
    BY <1>2, <2>1 DEF ChargeShape
  <2>2. CASE ~Sized(t)
    BY <1>1, <2>2 DEF resolveTarget
  <2> QED
    BY <2>1, <2>2
<1> QED
  BY <1>2, <1>3

(* The slots of a plan lie between the next boundary and the last one      *)
(* before the target.                                                      *)
LEMMA PlannedSlots ==
    ASSUME ChargeShape
    PROVE  /\ IsFiniteSet(generateSlots) /\ Cardinality(generateSlots) \in Nat
           /\ generateSlots \in SUBSET Nat
           /\ \A s \in generateSlots : now <= 2 * s /\ 2 * s < TargetTime
           /\ 2 * Cardinality(generateSlots) <= TargetTime + 1 - now
<1> DEFINE a == CeilHalf(now)
           b == CeilHalf(TargetTime) - 1
<1>0. now \in Nat /\ TargetTime \in Int /\ now < TargetTime
  BY TargetIs, ChargeFacts DEF ChargeShape
<1>1. a \in Nat /\ now <= 2 * a /\ 2 * a <= now + 1
  BY <1>0 DEF CeilHalf
<1>2. b \in Int /\ TargetTime <= 2 * (b + 1) /\ 2 * (b + 1) <= TargetTime + 1
  BY <1>0 DEF CeilHalf
<1>3. generateSlots = a..b
  BY DEF generateSlots
<1> HIDE DEF a, b
<1>4. IsFiniteSet(a..b) /\ Cardinality(a..b) = IF a > b THEN 0 ELSE b - a + 1
  BY <1>1, <1>2, FS_Interval
<1>5. generateSlots \in SUBSET Nat /\ \A s \in generateSlots : now <= 2 * s /\ 2 * s < TargetTime
  BY <1>0, <1>1, <1>2, <1>3
<1>6. Cardinality(generateSlots) \in Nat /\ 2 * Cardinality(generateSlots) <= TargetTime + 1 - now
  BY <1>0, <1>1, <1>2, <1>3, <1>4
<1> QED
  BY <1>3, <1>4, <1>5, <1>6

(* Only price slots of the curve are published.                            *)
LEMMA PublishedSlots ==
    ASSUME ChargeShape
    PROVE  \A p \in Published : curve[p] \in Int
<1>1. curve \in [0..(Slots \div PerPrice) - 1 -> Int]
  BY ChargeAssumption DEF ChargeShape
<1> DEFINE all == Slots \div PerPrice
           half == Slots \div (2 * PerPrice)
<1>2. all \in Int /\ PerPrice * all <= Slots /\ Slots < PerPrice * all + PerPrice
  BY ChargeFacts, Z3
<1>3. half \in Int /\ (2 * PerPrice) * half <= Slots
  BY ChargeFacts, Z3
<1>4. half <= all
  <2> HIDE DEF all, half
  <2>1. SUFFICES ASSUME half >= all + 1
                 PROVE  FALSE
    BY <1>2, <1>3
  <2>2. all >= 0
    BY <1>2, ChargeFacts, Z3
  <2>3. PerPrice * half >= PerPrice * (all + 1)
    BY <1>2, <1>3, <2>1, ChargeFacts, Z3
  <2>4. PerPrice * (all + 1) = PerPrice * all + PerPrice
    BY <1>2, ChargeFacts, Z3
  <2>5. PerPrice * half >= 0 /\ (2 * PerPrice) * half = PerPrice * half + PerPrice * half
    BY <1>2, <1>3, <2>1, <2>2, ChargeFacts, Z3
  <2>6. PerPrice * half \in Int /\ PerPrice * all \in Int
    BY <1>2, <1>3, ChargeFacts
  <2> QED
    BY <1>2, <1>3, <2>3, <2>4, <2>5, <2>6, ChargeFacts
<1>5. Published \subseteq 0..all - 1
  <2> HIDE DEF all, half
  <2>1. Published \subseteq 0..all - 1 \union 0..half - 1
    BY DEF Published, all, half
  <2> QED
    BY <1>2, <1>3, <1>4, <2>1
<1> QED
  BY <1>1, <1>5

LEMMA PricesAreNumbers ==
    ASSUME ChargeShape, NEW s \in generateSlots
    PROVE  /\ resolvePriceCurve[s] \in Int
           /\ s \div PerPrice \in livePrices => resolvePriceCurve[s] = curve[s \div PerPrice]
<1>1. \A h \in DOMAIN historicalPriceAvg : historicalPriceAvg[h] \in Int
  BY ChargeAssumption DEF historicalPriceAvg
<1>2. \A p \in livePrices : curve[p] \in Int
  BY PublishedSlots DEF livePrices
<1> QED
  BY <1>1, <1>2 DEF resolvePriceCurve, Infinite, DayPrice, NightPrice
(* The number of slots is enough, unless all of them are taken.            *)
LEMMA EnoughSlots ==
    ASSUME ChargeShape, NEW need \in Nat
    PROVE  /\ slotsNeeded(need) \in Nat
           /\ \/ need <= 2 * slotsNeeded(need)
              \/ slotsNeeded(need) = Cardinality(generateSlots)
<1> DEFINE halves == CeilHalf(need)
           all == Cardinality(generateSlots)
<1>1. halves \in Nat /\ need <= 2 * halves
  BY DEF CeilHalf
<1>2. all \in Nat
  BY PlannedSlots
<1>3. slotsNeeded(need) = Min({halves, all})
  BY DEF slotsNeeded
<1> HIDE DEF halves, all
<1>4. Min({halves, all}) \in {halves, all}
  BY <1>1, <1>2 DEF Min
<1> QED
  BY <1>1, <1>2, <1>3, <1>4 DEF all

(* What is cheaper comes before: a slot that was left has at least the     *)
(* number of slots before it, and is not before a chosen one.              *)
LEMMA CheapestFirst ==
    ASSUME ChargeShape, NEW n \in Nat
    PROVE  /\ cheapestSlotsPlan(n) \subseteq generateSlots
           /\ \A r \in generateSlots \ cheapestSlotsPlan(n) : n <= Cardinality(generateSlots) - 1
           /\ \A s \in cheapestSlotsPlan(n), r \in generateSlots \ cheapestSlotsPlan(n) :
                 resolvePriceCurve[s] <= resolvePriceCurve[r]
<1> DEFINE Price == resolvePriceCurve
           Ahead(s) == {r \in generateSlots : Price[r] < Price[s] \/ (Price[r] = Price[s] /\ r < s)}
<1>1. cheapestSlotsPlan(n) = {s \in generateSlots : Cardinality(Ahead(s)) < n}
  BY DEF cheapestSlotsPlan
<1>2. \A s \in generateSlots : Price[s] \in Int /\ s \in Nat
  BY PricesAreNumbers, PlannedSlots
<1> HIDE DEF Price
<1>3. ASSUME NEW s \in generateSlots
      PROVE  IsFiniteSet(Ahead(s)) /\ Cardinality(Ahead(s)) \in Nat
             /\ Cardinality(Ahead(s)) <= Cardinality(generateSlots) - 1
  <2>1. IsFiniteSet(generateSlots)
    BY PlannedSlots
  <2>2. /\ IsFiniteSet(generateSlots \ {s})
        /\ Cardinality(generateSlots \ {s}) = Cardinality(generateSlots) - 1
    BY <2>1, FS_RemoveElement
  <2>3. Ahead(s) \subseteq generateSlots \ {s}
    BY <1>2
  <2>4. /\ IsFiniteSet(Ahead(s))
        /\ Cardinality(Ahead(s)) <= Cardinality(generateSlots \ {s})
    BY <2>2, <2>3, FS_Subset
  <2> QED
    BY <2>2, <2>4, FS_CardinalityType
<1>4. ASSUME NEW s \in cheapestSlotsPlan(n), NEW r \in generateSlots \ cheapestSlotsPlan(n)
      PROVE  Price[s] <= Price[r]
  <2>1. s \in generateSlots /\ Cardinality(Ahead(s)) < n /\ ~(Cardinality(Ahead(r)) < n)
    BY <1>1
  <2>2. SUFFICES ASSUME Price[r] < Price[s]
                 PROVE  FALSE
    BY <1>2, <2>1
  <2>3. Ahead(r) \subseteq Ahead(s)
    BY <1>2, <2>1, <2>2
  <2>4. Cardinality(Ahead(r)) <= Cardinality(Ahead(s))
    BY <1>3, <2>1, <2>3, FS_Subset
  <2> HIDE DEF Ahead
  <2> QED
    BY <1>3, <2>1, <2>4
<1>5. ASSUME NEW r \in generateSlots \ cheapestSlotsPlan(n)
      PROVE  n <= Cardinality(generateSlots) - 1
  <2>1. r \in generateSlots /\ ~(Cardinality(Ahead(r)) < n)
    BY <1>1
  <2>2. Cardinality(Ahead(r)) \in Nat /\ Cardinality(Ahead(r)) <= Cardinality(generateSlots) - 1
    BY <1>3, <2>1
  <2>3. Cardinality(generateSlots) \in Nat
    BY PlannedSlots
  <2> QED
    BY <2>1, <2>2, <2>3
<1> QED
  BY <1>1, <1>4, <1>5 DEF Price

(* A tick that does not charge while energy is wanted leaves the slot that *)
(* is to come: the rest is still enough.                                   *)
LEMMA WaitingIsSafe ==
    ASSUME ChargeShape, NEW need \in Nat, need > 0,
           ~decideShouldCharge(need, generateSlots, cheapestSlotsPlan(slotsNeeded(need)))
    PROVE  need <= TargetTime - now - 1
<1> DEFINE cheap == cheapestSlotsPlan(slotsNeeded(need))
           n == slotsNeeded(need)
           all == Cardinality(generateSlots)
<1>1. generateSlots # {} /\ Min(generateSlots) \notin cheap
  BY DEF decideShouldCharge
<1>2. Min(generateSlots) \in generateSlots
  <2>1. PICK m \in generateSlots : \A y \in generateSlots : m <= y
    BY <1>1, PlannedSlots, LeastNumber
  <2> QED
    BY <2>1 DEF Min
<1>3. n \in Nat /\ (need <= 2 * n \/ n = all)
  BY EnoughSlots
<1>4. n <= all - 1
  BY <1>1, <1>2, <1>3, CheapestFirst
<1>5. all \in Nat /\ 2 * all <= TargetTime + 1 - now /\ TargetTime \in Int /\ now \in Int
  BY PlannedSlots, TargetIs, ChargeFacts DEF ChargeShape
<1> HIDE DEF n, all
<1> QED
  BY <1>3, <1>4, <1>5
-----------------------------------------------------------------------------
(* What a tick decides from is the same until something changes.           *)
LEMMA SamePlan ==
    ASSUME UNCHANGED <<rows, active>>, Candidates' = Candidates
    PROVE  selectActivePlan' = selectActivePlan
BY DEF selectActivePlan, Least

LEMMA SameTarget ==
    ASSUME UNCHANGED <<now, soc, session, inputs>>
    PROVE  /\ Target' = Target /\ TargetTime' = TargetTime
           /\ \A t : Sized(t)' = Sized(t) /\ resolveTarget(t)' = resolveTarget(t)
<1>0. /\ now' = now /\ soc' = soc /\ session' = session /\ active' = active
      /\ anchored' = anchored /\ rows' = rows /\ adhoc' = adhoc
  BY DEF inputs
<1>1. Candidates' = Candidates
  BY <1>0 DEF Candidates, planApplies
<1>2. selectActivePlan' = selectActivePlan
  BY <1>0, <1>1, SamePlan
<1>3. AdHocTarget' = AdHocTarget
  BY <1>0 DEF AdHocTarget
<1>4. TargetTime' = TargetTime
  BY <1>0, <1>2 DEF TargetTime, Upcoming
<1>5. DutyCycle' = DutyCycle
  BY <1>0, <1>4 DEF DutyCycle
<1>6. Target' = Target
  BY <1>2, <1>3 DEF Target
<1>7. \A t : Sized(t)' = Sized(t)
  BY <1>0 DEF Sized, Known
<1>8. \A t : resolveTarget(t)' = resolveTarget(t)
  BY <1>0, <1>5, <1>7 DEF resolveTarget
<1> QED
  BY <1>4, <1>6, <1>7, <1>8

LEMMA SameDecision ==
    ASSUME UNCHANGED <<now, soc, session, inputs>>
    PROVE  /\ generateSlots' = generateSlots
           /\ \A need : /\ slotsNeeded(need)' = slotsNeeded(need)
                        /\ decideShouldCharge(need, generateSlots, cheapestSlotsPlan(slotsNeeded(need)))'
                             = decideShouldCharge(need, generateSlots, cheapestSlotsPlan(slotsNeeded(need)))
                        /\ cheapestSlotsPlan(slotsNeeded(need))' = cheapestSlotsPlan(slotsNeeded(need))
<1>0. now' = now /\ tariff' = tariff /\ curve' = curve /\ TargetTime' = TargetTime
  BY SameTarget DEF inputs
<1>1. generateSlots' = generateSlots
  BY <1>0 DEF generateSlots
<1>2. livePrices' = livePrices
  BY <1>0 DEF livePrices, Published
<1>3. historicalPriceAvg' = historicalPriceAvg
  BY <1>0 DEF historicalPriceAvg
<1>4. resolvePriceCurve' = resolvePriceCurve
  BY <1>0, <1>1, <1>2, <1>3 DEF resolvePriceCurve
<1>5. \A need : slotsNeeded(need)' = slotsNeeded(need)
  BY <1>1 DEF slotsNeeded
<1>6. \A n : cheapestSlotsPlan(n)' = cheapestSlotsPlan(n)
  BY <1>1, <1>4 DEF cheapestSlotsPlan
<1>7. \A need : cheapestSlotsPlan(slotsNeeded(need))' = cheapestSlotsPlan(slotsNeeded(need))
  BY <1>5, <1>6
<1>8. \A need : decideShouldCharge(need, generateSlots, cheapestSlotsPlan(slotsNeeded(need)))'
                  = decideShouldCharge(need, generateSlots, cheapestSlotsPlan(slotsNeeded(need)))
  BY <1>1, <1>7 DEF decideShouldCharge
<1> QED
  BY <1>1, <1>5, <1>7, <1>8
LEMMA PlanRowsAre ==
    ASSUME ChargeShape, NEW i \in Ids, rows[i] # NoPlan, NEW plan \in Plans,
           NEW given \in {{"enabled"}, DOMAIN plan}
    PROVE  updatePlan(i, [f \in given |-> plan[f]]) \in [Ids -> Contents \union {NoPlan}]
<1> DEFINE row == [f \in DOMAIN rows[i] |-> IF f \in given THEN plan[f] ELSE rows[i][f]]
           Fields == {"readyBy", "target", "unit", "enabled", "vehicles"}
<1>1. rows \in [Ids -> Contents \union {NoPlan}] /\ rows[i] \in Contents /\ plan \in Contents
  BY ChargeFacts DEF ChargeShape
<1>2. DOMAIN rows[i] = Fields
  BY <1>1 DEF Contents
<1>3. row = [readyBy |-> row.readyBy, target |-> row.target, unit |-> row.unit,
             enabled |-> row.enabled, vehicles |-> row.vehicles]
  BY <1>2
<1>4. \A f \in Fields : row[f] \in {plan[f], rows[i][f]}
  BY <1>2
<1>5. /\ row.readyBy \in 1..Day /\ row.target \in Nat /\ row.unit \in {"pct", "kwh"}
      /\ row.enabled \in BOOLEAN /\ row.vehicles \in SUBSET {"car", "guest"}
  BY <1>1, <1>4 DEF Contents
<1> HIDE DEF row
<1>6. row \in Contents
  BY <1>3, <1>5 DEF Contents
<1>7. updatePlan(i, [f \in given |-> plan[f]]) = [rows EXCEPT ![i] = row]
  BY <1>1 DEF updatePlan, row
<1> QED
  BY <1>1, <1>6, <1>7

LEMMA PostedTarget ==
    ASSUME ChargeShape, PostTarget
    PROVE  adhoc' \in AdHocTargets
<1>1. adhoc \in AdHocTargets /\ DOMAIN adhoc = {"soc", "time", "kwh"}
  BY DEF ChargeShape, AdHocTargets
<1>2. CASE \E to \in Socs : adhoc' = setLoadpointTarget([soc |-> to])
  <2>1. PICK to \in Socs : adhoc' = setLoadpointTarget([soc |-> to])
    BY <1>2
  <2>2. adhoc' = [soc |-> to, time |-> adhoc.time, kwh |-> adhoc.kwh]
    BY <1>1, <2>1 DEF setLoadpointTarget
  <2> QED
    BY <1>1, <2>2 DEF AdHocTargets
<1>3. CASE \E to \in Times : adhoc' = setLoadpointTarget([time |-> to])
  <2>1. PICK to \in Times : adhoc' = setLoadpointTarget([time |-> to])
    BY <1>3
  <2>2. adhoc' = [soc |-> adhoc.soc, time |-> to, kwh |-> adhoc.kwh]
    BY <1>1, <2>1 DEF setLoadpointTarget
  <2> QED
    BY <1>1, <2>2 DEF AdHocTargets
<1>4. CASE \E to \in Kwhs \union {Unset} : adhoc' = setLoadpointTarget([kwh |-> to])
  <2>1. PICK to \in Kwhs \union {Unset} : adhoc' = setLoadpointTarget([kwh |-> to])
    BY <1>4
  <2>2. adhoc' = [soc |-> adhoc.soc, time |-> adhoc.time, kwh |-> to]
    BY <1>1, <2>1 DEF setLoadpointTarget
  <2> QED
    BY <1>1, <2>2 DEF AdHocTargets
<1> QED
  BY <1>2, <1>3, <1>4 DEF PostTarget

LEMMA ChargeShapeKept == ChargeShape /\ [ChargeNext]_chargeVars => ChargeShape'
<1> SUFFICES ASSUME ChargeShape, [ChargeNext]_chargeVars
             PROVE  ChargeShape'
  OBVIOUS
<1>1. CASE Tick
  BY <1>1 DEF Tick, inputs, ChargeShape, AdHocTargets, Tariffs
<1>2. CASE TimePasses
  <2>1. now' \in 0..Day /\ soc' \in Nat /\ session' \in Nat
    BY <1>2, ChargeFacts DEF TimePasses, ChargeShape
  <2> QED
    BY <1>2, <2>1 DEF TimePasses, inputs, ChargeShape, AdHocTargets, Tariffs
<1>3. CASE PostTarget
  BY <1>3, PostedTarget DEF PostTarget, handleTargetChange, Changed, ChargeShape, Tariffs
<1>4. CASE VehicleTurns
  BY <1>4 DEF VehicleTurns, Changed, ChargeShape, Tariffs, AdHocTargets
<1>5. CASE TariffTurns
  BY <1>5 DEF TariffTurns, Changed, ChargeShape, Tariffs, AdHocTargets
<1>6. ASSUME NEW i \in Ids, PostPlan(i)
      PROVE  ChargeShape'
  <2>1. rows' \in [Ids -> Contents \union {NoPlan}]
    BY <1>6, ChargeFacts DEF PostPlan, createPlan, ChargeShape
  <2> QED
    BY <1>6, <2>1 DEF PostPlan, handlePlansChanged, Changed, ChargeShape, Tariffs, AdHocTargets
<1>7. ASSUME NEW i \in Ids, PutPlan(i)
      PROVE  ChargeShape'
  <2>0. PICK plan \in Plans : \E given \in {{"enabled"}, DOMAIN plan} :
               rows' = updatePlan(i, [f \in given |-> plan[f]])
    BY <1>7 DEF PutPlan
  <2>1. rows' \in [Ids -> Contents \union {NoPlan}]
    <3>1. PICK given \in {{"enabled"}, DOMAIN plan} :
                 rows' = updatePlan(i, [f \in given |-> plan[f]])
      BY <2>0
    <3>2. rows[i] # NoPlan
      BY <1>7 DEF PutPlan
    <3> QED
      BY <3>1, <3>2, PlanRowsAre
  <2> QED
    BY <1>7, <2>1 DEF PutPlan, handlePlansChanged, Changed, ChargeShape, Tariffs, AdHocTargets
<1>8. ASSUME NEW i \in Ids, DeletePlan(i)
      PROVE  ChargeShape'
  <2>1. rows' \in [Ids -> Contents \union {NoPlan}]
    BY <1>8 DEF DeletePlan, deletePlan, ChargeShape
  <2> QED
    BY <1>8, <2>1 DEF DeletePlan, handlePlansChanged, Changed, ChargeShape, Tariffs, AdHocTargets
<1>9. CASE UNCHANGED chargeVars
  BY <1>9 DEF chargeVars, inputs, ChargeShape, Tariffs, AdHocTargets
<1> QED
  BY <1>1, <1>2, <1>3, <1>4, <1>5, <1>6, <1>7, <1>8, <1>9 DEF ChargeNext

(* A tick decides; whatever happens next leaves the decision to the tick   *)
(* that it asks for.                                                       *)
LEMMA DecidedKept == Decided /\ [ChargeNext]_chargeVars => Decided'
<1> SUFFICES ASSUME Decided, [ChargeNext]_chargeVars
             PROVE  Decided'
  OBVIOUS
<1>1. CASE Tick
  <2>1. UNCHANGED <<now, soc, session, inputs>>
    BY <1>1 DEF Tick
  <2> DEFINE need == resolveTarget(Target)
             cheap == cheapestSlotsPlan(slotsNeeded(need))
  <2>2. /\ planned' = (IF need > 0 THEN generateSlots ELSE {})
        /\ chosen' = (IF need > 0 THEN cheap ELSE {})
        /\ charge' = "yes" \/ ~decideShouldCharge(need, generateSlots, cheap)
    BY <1>1 DEF Tick
  <2>3. need' = need
    BY <2>1, SameTarget
  <2>4. generateSlots' = generateSlots /\ cheap' = cheap
        /\ decideShouldCharge(need, generateSlots, cheap)' = decideShouldCharge(need, generateSlots, cheap)
    BY <2>1, <2>3, SameDecision
  <2> QED
    BY <2>2, <2>3, <2>4 DEF Decided
<1>2. CASE ticked' = FALSE
  BY <1>2 DEF Decided
<1>3. CASE UNCHANGED chargeVars
  <2>1. UNCHANGED <<now, soc, session, inputs>> /\ UNCHANGED <<planned, chosen, charge, ticked>>
    BY <1>3 DEF chargeVars, decided
  <2> DEFINE need == resolveTarget(Target)
             cheap == cheapestSlotsPlan(slotsNeeded(need))
  <2>2. need' = need
    BY <2>1, SameTarget
  <2>3. generateSlots' = generateSlots /\ cheap' = cheap
        /\ decideShouldCharge(need, generateSlots, cheap)' = decideShouldCharge(need, generateSlots, cheap)
    BY <2>1, <2>2, SameDecision
  <2> QED
    BY <2>1, <2>2, <2>3 DEF Decided
<1>4. ChargeNext => Tick \/ ticked' = FALSE
  BY DEF ChargeNext, TimePasses, PostTarget, VehicleTurns, TariffTurns, PostPlan, PutPlan,
         DeletePlan, handleTargetChange, handlePlansChanged, Changed
<1> QED
  BY <1>1, <1>2, <1>3, <1>4
-----------------------------------------------------------------------------
(* The plan that governs today goes on governing until its time.           *)
LEMMA TargetStays ==
    ASSUME ChargeShape, Target # NoPlan, Target.readyBy \in Nat, TargetTime = Target.readyBy,
           now' = now + 1, now' < Target.readyBy, UNCHANGED <<active, rows, adhoc>>
    PROVE  Target' = Target /\ TargetTime' = TargetTime
<1>1. now \in Nat
  BY ChargeFacts DEF ChargeShape
<1>2. CASE selectActivePlan # NoPlan
  <2>1. PICK l \in Candidates : /\ selectActivePlan = rows[l] /\ rows[l] \in Contents
                                /\ \A j \in Candidates : rows[l].readyBy <= rows[j].readyBy
    BY <1>2, GoverningPlan
  <2>2. Target = rows[l] /\ now + 1 < rows[l].readyBy /\ rows[l].readyBy \in Nat
    BY <1>2, <2>1 DEF Target
  <2>3. \A j \in Candidates : j \in Ids /\ rows[j].readyBy \in Nat
    BY DEF Candidates, ChargeShape, Contents
  <2>4. \A j \in Candidates : rows[j].readyBy > now + 1
    BY <1>1, <2>1, <2>2, <2>3
  <2>5. \A j \in Ids : rows[j] # NoPlan /\ rows[j].readyBy > now + 1 => rows[j].readyBy > now
    BY <1>1 DEF ChargeShape, Contents
  <2>6. Candidates' = Candidates
    BY <2>4, <2>5 DEF Candidates, planApplies
  <2>7. selectActivePlan' = selectActivePlan
    BY <2>6, SamePlan
  <2> QED
    BY <1>2, <2>7 DEF Target, TargetTime
<1>3. CASE selectActivePlan = NoPlan
  <2>1. /\ Candidates = {} /\ Target = AdHocTarget
        /\ TargetTime = IF adhoc.time # Unset THEN Upcoming(adhoc.time) ELSE now + Day
    BY <1>3, TargetIs
  <2>2. \A j \in Ids : rows[j] # NoPlan /\ rows[j].readyBy > now + 1 => rows[j].readyBy > now
    BY <1>1 DEF ChargeShape, Contents
  <2>3. Candidates' = {}
    BY <2>1, <2>2 DEF Candidates, planApplies
  <2>4. selectActivePlan' = NoPlan
    BY <2>3 DEF selectActivePlan
  <2>5. AdHocTarget' = AdHocTarget
    BY DEF AdHocTarget
  <2>6. adhoc.time = Target.readyBy /\ adhoc.time # Unset
    BY <2>1, AdHocTargetIs, ChargeFacts
  <2>7. adhoc'.time = adhoc.time /\ Upcoming(adhoc.time)' = adhoc.time
    BY <1>1, <2>6 DEF Upcoming
  <2> QED
    BY <2>1, <2>4, <2>5, <2>6, <2>7 DEF Target, TargetTime
<1> QED
  BY <1>2, <1>3

LEMMA PromiseAtTick ==
    ASSUME ChargeShape, PromiseInv, Tick
    PROVE  PromiseInv'
<1>1. UNCHANGED <<now, soc, session, inputs>> /\ ticked' = TRUE
  BY DEF Tick
<1>2. /\ Target' = Target /\ TargetTime' = TargetTime /\ now' = now /\ soc' = soc
      /\ \A t : Sized(t)' = Sized(t) /\ resolveTarget(t)' = resolveTarget(t)
  BY <1>1, SameTarget
<1>3. now \in Nat /\ soc \in Nat /\ Capacity \in Nat
  BY ChargeFacts DEF ChargeShape
<1>4. CASE promise' = promise /\ promise # NoPlan /\ promise.readyBy # now
  BY <1>2, <1>3, <1>4 DEF PromiseInv
<1>5. CASE promise' = Feasible /\ Feasible # NoPlan
  <2>1. /\ Feasible = Target /\ Sized(Target) /\ Target.readyBy # Unset
        /\ TargetTime = Target.readyBy
        /\ resolveTarget(Target) <= Min({Target.readyBy - now, Capacity - soc})
    BY <1>5 DEF Feasible
  <2>2. Target \in Contents \union AdHocs /\ TargetTime \in Int /\ now < TargetTime
    BY <1>5, <2>1, TargetIs
  <2>3. Target.readyBy \in Nat
    BY <2>1, <2>2, TimeIsNat
  <2>4. resolveTarget(Target) \in Nat
    BY <2>2, NeedIsNat
  <2> DEFINE left == Target.readyBy - now
             room == Capacity - soc
  <2>5. left \in Int /\ room \in Int
    BY <1>3, <2>3
  <2> HIDE DEF left, room
  <2>6. Min({left, room}) <= left /\ Min({left, room}) <= room /\ Min({left, room}) \in {left, room}
    BY <2>5 DEF Min
  <2>7. resolveTarget(Target) <= left /\ resolveTarget(Target) <= room
    BY <2>1, <2>4, <2>5, <2>6 DEF left, room
  <2>8. /\ resolveTarget(Target) <= Target.readyBy - now
        /\ resolveTarget(Target) <= Capacity - soc
    BY <2>7 DEF left, room
  <2>9. /\ promise' = Target /\ Sized(promise)' /\ resolveTarget(promise)' = resolveTarget(Target)
        /\ Target' = promise' /\ TargetTime' = promise'.readyBy
    BY <1>2, <1>5, <2>1
  <2>10. /\ promise' \in Contents \union AdHocs /\ promise'.readyBy \in Nat
         /\ now' < promise'.readyBy
    BY <1>2, <2>1, <2>2, <2>3, <2>9
  <2>11. /\ resolveTarget(promise)' <= promise'.readyBy - now'
         /\ resolveTarget(promise)' <= Capacity - soc'
    BY <1>2, <2>8, <2>9
  <2> QED
    BY <1>3, <1>2, <2>9, <2>10, <2>11 DEF PromiseInv
<1>6. CASE promise' = NoPlan
  BY <1>6 DEF PromiseInv
<1> QED
  BY <1>4, <1>5, <1>6 DEF Tick

LEMMA PromiseInTime ==
    ASSUME ChargeShape, Decided, PromiseInv, TimePasses
    PROVE  PromiseInv'
<1>1. SUFFICES ASSUME promise # NoPlan
               PROVE  PromiseInv'
  BY DEF TimePasses, PromiseInv
<1> DEFINE need == resolveTarget(promise)
           added == IF charge = "yes" /\ soc < Capacity THEN 1 ELSE 0
<1>2. /\ now' = now + 1 /\ soc' = soc + added /\ session' = session + added /\ ticked' = FALSE
      /\ UNCHANGED <<active, anchored, rows, adhoc>> /\ promise' = promise /\ ticked
  BY DEF TimePasses, inputs
<1>3. /\ promise \in Contents \union AdHocs /\ Sized(promise) /\ promise.readyBy \in Nat
      /\ now < promise.readyBy /\ Target = promise /\ TargetTime = promise.readyBy
      /\ need <= promise.readyBy - now
      /\ need > 0 => need <= Capacity - soc
  BY <1>1, <1>2 DEF PromiseInv
<1>4. now \in Nat /\ soc \in Nat /\ session \in Nat /\ Capacity \in Nat /\ added \in {0, 1}
  BY ChargeFacts DEF ChargeShape
<1>5. Sized(promise)'
  BY <1>2, <1>3 DEF Sized, Known
<1>6. PICK has \in {soc, session} :
             /\ promise.target \in Nat /\ has = (IF promise.unit = "pct" THEN soc ELSE session)
             /\ need = IF promise.target > has THEN promise.target - has ELSE 0
  BY <1>3, NeedIsNat
<1>7. need' = IF promise.target > has + added THEN promise.target - (has + added) ELSE 0
  <2> DEFINE fresh == IF promise.unit = "pct" THEN soc' ELSE session'
  <2>1. need' = Max({0, promise.target - fresh})
    BY <1>2, <1>5 DEF resolveTarget
  <2>2. fresh = has + added /\ fresh \in Nat
    BY <1>2, <1>4, <1>6
  <2> HIDE DEF fresh, added
  <2>3. Max({0, promise.target - fresh}) = IF promise.target > fresh THEN promise.target - fresh ELSE 0
    BY <1>6, <2>2 DEF Max
  <2> QED
    BY <2>1, <2>2, <2>3
<1>8. need \in Nat /\ has \in Nat
  BY <1>4, <1>6
<1>9. /\ need' \in Nat /\ need' <= promise.readyBy - (now + 1)
      /\ need' > 0 => need' <= Capacity - (soc + added)
  <2> HIDE DEF need
  <2>1. CASE need = 0
    BY <1>3, <1>4, <1>6, <1>7, <1>8, <2>1
  <2>2. CASE need > 0 /\ charge = "yes"
    BY <1>3, <1>4, <1>6, <1>7, <1>8, <2>2
  <2>3. CASE need > 0 /\ charge # "yes"
    <3>1. ~decideShouldCharge(need, generateSlots, cheapestSlotsPlan(slotsNeeded(need)))
      BY <1>2, <1>3, <2>3 DEF Decided, need
    <3>2. need <= promise.readyBy - now - 1
      BY <1>3, <1>8, <2>3, <3>1, WaitingIsSafe
    <3> QED
      BY <1>3, <1>4, <1>6, <1>7, <1>8, <2>3, <3>2
  <2> QED
    BY <1>8, <2>1, <2>2, <2>3
<1>10. now' < promise.readyBy => Target' = promise /\ TargetTime' = promise.readyBy
  BY <1>1, <1>2, <1>3, TargetStays
<1>11. promise'.readyBy = promise.readyBy /\ resolveTarget(promise)' = need' /\ Sized(promise)'
  BY <1>2, <1>5
<1> HIDE DEF added
<1> QED
  BY <1>2, <1>3, <1>4, <1>9, <1>10, <1>11 DEF PromiseInv
LEMMA PromiseInvKept ==
    ASSUME ChargeShape, Decided, PromiseInv, [ChargeNext]_chargeVars
    PROVE  PromiseInv'
<1>1. CASE Tick
  BY <1>1, PromiseAtTick
<1>2. CASE TimePasses
  BY <1>2, PromiseInTime
<1>3. CASE promise' = NoPlan
  BY <1>3 DEF PromiseInv
<1>4. ASSUME UNCHANGED <<now, soc, session, active, anchored, rows, adhoc, promise>>,
             ticked' => ticked, Target' = Target, TargetTime' = TargetTime,
             \A t : Sized(t) => Sized(t)' /\ resolveTarget(t)' = resolveTarget(t)
      PROVE  PromiseInv'
  <2>1. SUFFICES ASSUME promise # NoPlan
                 PROVE  PromiseInv'
    BY <1>4 DEF PromiseInv
  <2>2. promise' = promise /\ now' = now /\ soc' = soc
    BY <1>4
  <2>3. Sized(promise)' /\ resolveTarget(promise)' = resolveTarget(promise)
    BY <1>4, <2>1, <2>2 DEF PromiseInv
  <2> QED
    BY <1>4, <2>2, <2>3 DEF PromiseInv
<1>5. CASE TariffTurns
  <2>0. /\ UNCHANGED <<now, soc, session, active, anchored, rows, adhoc, promise>> /\ ticked' = FALSE
    BY <1>5 DEF TariffTurns, Changed
  <2>1. Candidates' = Candidates
    BY <2>0 DEF Candidates, planApplies
  <2>2. selectActivePlan' = selectActivePlan
    BY <2>0, <2>1, SamePlan
  <2>3. AdHocTarget' = AdHocTarget
    BY <2>0 DEF AdHocTarget
  <2>4. TargetTime' = TargetTime /\ Target' = Target
    BY <2>0, <2>2, <2>3 DEF TargetTime, Upcoming, Target
  <2>5. \A t : Sized(t) => Sized(t)' /\ resolveTarget(t)' = resolveTarget(t)
    BY <2>0 DEF Sized, Known, resolveTarget
  <2> QED
    BY <1>4, <2>0, <2>4, <2>5
<1>6. CASE UNCHANGED chargeVars
  <2>1. UNCHANGED <<now, soc, session, inputs, ticked, promise>>
    BY <1>6 DEF chargeVars
  <2> QED
    BY <1>4, <2>1, SameTarget DEF inputs
<1>7. ChargeNext => Tick \/ TimePasses \/ TariffTurns \/ promise' = NoPlan
  BY DEF ChargeNext, PostTarget, VehicleTurns, PostPlan, PutPlan, DeletePlan,
         handleTargetChange, handlePlansChanged, Changed
<1> QED
  BY <1>1, <1>2, <1>3, <1>5, <1>6, <1>7

LEMMA ChargeInvHolds == ChargeSpec => []ChargeInv
<1>1. ChargeInit => ChargeInv
  <2> SUFFICES ASSUME ChargeInit
               PROVE  ChargeInv
    OBVIOUS
  <2>1. adhoc \in AdHocTargets
    BY DEF ChargeInit, AdHocTargets
  <2>2. rows \in [Ids -> Contents \union {NoPlan}]
    BY ChargeFacts DEF ChargeInit
  <2>3. ChargeShape
    <3>1. /\ now \in 0..Day /\ soc \in Nat /\ session \in Nat
          /\ active \in {"car", "guest"} /\ anchored \in BOOLEAN /\ ticked \in BOOLEAN
          /\ curve \in Curves /\ tariff \in Tariffs
      <4>1. now \in 0..Day /\ soc \in Nat /\ session \in Nat
        BY ChargeFacts DEF ChargeInit
      <4>2. anchored \in BOOLEAN /\ ticked \in BOOLEAN
        BY Zenon DEF ChargeInit
      <4>3. active \in {"car", "guest"} /\ curve \in Curves /\ tariff \in Tariffs
        BY DEF ChargeInit, Tariffs
      <4> QED
        BY <4>1, <4>2, <4>3
    <3> QED
      BY <2>1, <2>2, <3>1 DEF ChargeShape
  <2>4. Decided /\ PromiseInv
    BY DEF ChargeInit, Decided, PromiseInv
  <2> QED
    BY <2>3, <2>4 DEF ChargeInv
<1>2. ChargeInv /\ [ChargeNext]_chargeVars => ChargeInv'
  BY ChargeShapeKept, DecidedKept, PromiseInvKept DEF ChargeInv
<1> QED
  BY <1>1, <1>2, PTL DEF ChargeSpec

(* Whatever the prices do, wherever a tick falls between the slots and     *)
(* however often the plan is made anew, for days, prices, plans and        *)
(* batteries of any size: what could be reached when a target began to     *)
(* govern never stops being reachable, so that at the target's time        *)
(* nothing is left to charge (resolveLoadpoint, planner.ts).               *)
THEOREM PromiseTheorem == ChargeSpec => []PromiseKept
<1>1. ChargeInv => PromiseKept
  BY DEF ChargeInv, PromiseInv, PromiseKept
<1> QED
  BY <1>1, ChargeInvHolds, PTL

(* Of the price slots that were fetched no tick leaves a cheaper one than  *)
(* it chose, of an hourly tariff and of a quarter-hourly one.              *)
CheapestOfFetched ==
    ticked =>
        \A s \in chosen, r \in planned \ chosen :
            {s \div PerPrice, r \div PerPrice} \subseteq livePrices =>
                curve[s \div PerPrice] <= curve[r \div PerPrice]

(* For days, price curves and price slots of any length, whenever the tick *)
(* falls and whatever part of the prices is published: the plan takes the  *)
(* cheapest of the slots the tariff gave it (cheapestSlotsPlan of          *)
(* planner.ts over resolvePriceCurve of core/lifecycle.ts).                *)
THEOREM FetchedTheorem == ChargeSpec => []CheapestOfFetched
<1>1. ASSUME ChargeInv
      PROVE  CheapestOfFetched
  <2>1. SUFFICES ASSUME ticked, NEW s \in chosen, NEW r \in planned \ chosen,
                        {s \div PerPrice, r \div PerPrice} \subseteq livePrices
                 PROVE  curve[s \div PerPrice] <= curve[r \div PerPrice]
    BY DEF CheapestOfFetched
  <2>2. ChargeShape
    BY <1>1 DEF ChargeInv
  <2> DEFINE need == resolveTarget(Target)
             n == slotsNeeded(need)
  <2>3. planned = generateSlots /\ chosen = cheapestSlotsPlan(n)
    BY <1>1, <2>1 DEF ChargeInv, Decided
  <2>4. n \in Nat
    BY <2>2, TargetIs, NeedIsNat, EnoughSlots
  <2> HIDE DEF n
  <2>5. /\ s \in generateSlots /\ r \in generateSlots
        /\ resolvePriceCurve[s] <= resolvePriceCurve[r]
    BY <2>1, <2>2, <2>3, <2>4, CheapestFirst
  <2> QED
    BY <2>1, <2>2, <2>5, PricesAreNumbers
<1> QED
  BY <1>1, ChargeInvHolds, PTL

(* With quarter-hourly prices every planned slot that is published is      *)
(* fetched, so while the tariff is live no tick leaves a cheaper slot than *)
(* it chose.  With an hourly tariff the slot in progress is not fetched.   *)
THEOREM CheapestTheorem ==
    ASSUME PerPrice = 1
    PROVE  ChargeSpec => []CheapestChosen
<1>1. ASSUME ChargeInv, CheapestOfFetched
      PROVE  CheapestChosen
  <2>1. SUFFICES ASSUME ticked, tariff = "live", NEW s \in chosen, NEW r \in planned \ chosen,
                        {s \div PerPrice, r \div PerPrice} \subseteq Published
                 PROVE  curve[s \div PerPrice] <= curve[r \div PerPrice]
    BY DEF CheapestChosen
  <2>2. ChargeShape
    BY <1>1 DEF ChargeInv
  <2>3. \A x \in planned : x \in generateSlots
    BY <1>1, <2>1 DEF ChargeInv, Decided
  <2>4. s \in planned
    BY <1>1, <2>1, <2>2, TargetIs, NeedIsNat, EnoughSlots, CheapestFirst DEF ChargeInv, Decided
  <2>5. /\ s \in Nat /\ now <= 2 * s /\ 2 * s < TargetTime
        /\ r \in Nat /\ now <= 2 * r /\ 2 * r < TargetTime
    BY <2>1, <2>2, <2>3, <2>4, PlannedSlots
  <2>6. s \div PerPrice = s /\ r \div PerPrice = r
    BY <2>5
  <2>7. {s \div PerPrice, r \div PerPrice} \subseteq livePrices
    BY <2>1, <2>5, <2>6 DEF livePrices
  <2> QED
    BY <1>1, <2>1, <2>7 DEF CheapestOfFetched
<1> QED
  BY <1>1, ChargeInvHolds, FetchedTheorem, PTL
=============================================================================
