------------------------- MODULE CircuitTickProofs -------------------------
(***************************************************************************)
(* CircuitTick for any number of loadpoints and ticks, any ceilings and    *)
(* any budget: the guard lets one tick through at a time, and between      *)
(* ticks nothing is out of date, nor over the budget.                      *)
(***************************************************************************)
EXTENDS CircuitTick, PlanningProofs

(* What the assumptions say of the constants, in the form the proofs use.  *)
LEMMA TickConstants ==
    /\ N \in Nat \ {0} /\ MinA \in Nat \ {0} /\ Hysteresis \in Nat /\ Hysteresis < MinA
    /\ Deadband \in Nat /\ NoValue \notin Int
    /\ \A i \in Loadpoints : MaxA[i] \in Nat /\ MaxA[i] >= MinA
    /\ Ceilings(MaxA)
    /\ BudgetA \in Nat /\ Grace \in Nat /\ AutoRevert \subseteq Loadpoints /\ Ticks # {}
    /\ NoValue \notin {"charge", "wait"}
  BY PlanningAssumption, TickAssumption DEF Ceilings

(* Legal amps are naturals, and a pause is always legal.                   *)
LEMMA AmpsType == ASSUME NEW i \in Loadpoints PROVE Amps(i) \subseteq Nat /\ 0 \in Amps(i)
  BY TickConstants DEF Amps

(* At most one tick is past the guard, and running says whether one is.    *)
OneTick ==
    /\ \A t, u \in Ticks : phase[t] # "none" /\ phase[u] # "none" => t = u
    /\ running <=> \E t \in Ticks : phase[t] # "none"

(* What a charger holds is what was commanded last, if OSC knows of any.   *)
HeldIsCommanded ==
    \A i \in Loadpoints : commanded[i] # NoValue => limit[i] = commanded[i]

(* A tick whose writes are done has none left.                             *)
AllWritten == \A t \in Ticks : phase[t] = "session" => DOMAIN writes[t] = {}

(* The invariant of the guard and the writes, inductive as a whole.        *)
TickInv == TickTypeOK /\ OneTick /\ HeldIsCommanded /\ AllWritten

-----------------------------------------------------------------------------
(* Steps of the surroundings leave alone what a tick works on.             *)
Aside ==
    /\ UNCHANGED <<mode, slot, plan, resolve, commanded, limit, booting>>
    /\ since' \in [AutoRevert -> 0..Grace + 1 \union {NoValue}]
    /\ cheap' \in BOOLEAN /\ settled' \in BOOLEAN

(* A step is a call, a step of one tick, a crash, or the surroundings'.    *)

LEMMA Steps ==
    ASSUME TickTypeOK, [TickNext]_vars
    PROVE  \/ \E m \in [Loadpoints -> Modes] : Call(m) /\ UNCHANGED world
           \/ \E t \in Ticks : \/ \E i \in Loadpoints : Resolve(t, i)
                               \/ Plan(t) \/ Write(t) \/ Written(t) \/ Finally(t)
           \/ Restart
           \/ Aside
<1>1. CASE Interval
  BY <1>1 DEF Interval, TickTypeOK
<1>2. ASSUME NEW i \in Loadpoints, ModeChange(i)
      PROVE  \E m \in [Loadpoints -> Modes] : Call(m) /\ UNCHANGED world
  <2>1. PICK m \in Modes \ {mode[i]} : Call([mode EXCEPT ![i] = m]) /\ UNCHANGED world
    BY <1>2 DEF ModeChange
  <2>2. [mode EXCEPT ![i] = m] \in [Loadpoints -> Modes]
    BY DEF TickTypeOK
  <2>. QED  BY <2>1, <2>2
<1>3. ASSUME NEW t \in Ticks, TickStep(t)
      PROVE  \/ \E i \in Loadpoints : Resolve(t, i)
             \/ Plan(t) \/ Write(t) \/ Written(t) \/ Finally(t)
  BY <1>3 DEF TickStep
<1>4. ASSUME NEW i \in AutoRevert, Status(i) PROVE Aside
  BY <1>4, TickConstants DEF Status, Aside, TickTypeOK, world
<1>5. CASE TimePasses
  BY <1>5, TickConstants DEF TimePasses, Aside, TickTypeOK, world, Lower
<1>6. CASE PriceChanges
  BY <1>6 DEF PriceChanges, Aside, TickTypeOK
<1>7. CASE Settle
  BY <1>7 DEF Settle, Aside, TickTypeOK
<1>8. CASE UNCHANGED vars
  BY <1>8 DEF vars, slot, plan, world, Aside, TickTypeOK
<1>. QED  BY <1>1, <1>2, <1>3, <1>4, <1>5, <1>6, <1>7, <1>8 DEF TickNext

(* A tick that starts: on a free identity, everything else idle.           *)
LEMMA FreeTick ==
    ASSUME OneTick, ~running
    PROVE  NewTick \in Ticks /\ \A t \in Ticks : phase[t] = "none"
  BY TickConstants DEF OneTick, NewTick

(* The planned amps of a tick are legal.                                   *)
LEMMA PlannedLegal ==
    ASSUME TickTypeOK, NEW ask, NEW i \in Loadpoints
    PROVE  allocate(BudgetA, ask, MaxA, commanded)[i] \in Amps(i)
<1>1. /\ Given(commanded) /\ BudgetA \in Int
      /\ \A j \in Loadpoints : commanded[j] # NoValue => commanded[j] <= MaxA[j]
  BY TickConstants DEF TickTypeOK, Amps, Given
<1>. QED  BY <1>1, TickConstants, AllocateWithinCeilings DEF Amps

(* A soft start neither exceeds its target nor leaves the legal amps.      *)
LEMMA SoftStartWithin ==
    ASSUME NEW i \in Loadpoints, NEW target \in Amps(i), NEW prev \in Nat
    PROVE  /\ softStartLimit(target, prev) \in Amps(i)
           /\ softStartLimit(target, prev) <= target
<1>. target \in Nat /\ MinA \in Nat /\ MaxA[i] \in Nat
  BY TickConstants DEF Amps
<1>1. target \div 2 \in Nat /\ target \div 2 <= target
  OBVIOUS
<1>. QED  BY <1>1 DEF softStartLimit, Higher, Amps

(* A write takes the next loadpoint of the plan, and no other changes.     *)
LEMMA WriteTakesOne ==
    ASSUME TickTypeOK, NEW t \in Ticks, Write(t)
    PROVE  \E i \in DOMAIN writes[t], sent \in Nat :
              /\ i \in Loadpoints /\ sent \in Amps(i) /\ sent <= writes[t][i]
              /\ commanded' = [commanded EXCEPT ![i] = sent]
              /\ limit' = [limit EXCEPT ![i] = sent]
              /\ writes' = [writes EXCEPT ![t] = [j \in DOMAIN @ \ {i} |-> @[j]]]
<1>. DEFINE left == DOMAIN writes[t]
            i == CHOOSE j \in left : \A k \in left : j <= k
            sent == softStartLimit(writes[t][i], OrZero(commanded[i]))
<1>1. left \subseteq Loadpoints
  BY DEF TickTypeOK, OfSome
<1>2. i \in left
  <2>1. left \subseteq Nat /\ left # {}
    BY <1>1 DEF Write, Loadpoints
  <2>2. \E j \in left : \A k \in left : j <= k
    BY <2>1, LeastElement
  <2>. HIDE DEF left
  <2>. QED  BY <2>2
<1>3. /\ commanded' = [commanded EXCEPT ![i] = sent]
      /\ limit' = [limit EXCEPT ![i] = sent]
      /\ writes' = [writes EXCEPT ![t] = [j \in DOMAIN @ \ {i} |-> @[j]]]
  BY DEF Write
<1>. HIDE DEF i
<1>4. OrZero(commanded[i]) \in Nat
  BY <1>1, <1>2, TickConstants DEF TickTypeOK, OrZero
<1>5. writes[t][i] \in Amps(i)
  BY <1>1, <1>2 DEF TickTypeOK
<1>6. sent \in Amps(i) /\ sent <= writes[t][i] /\ sent \in Nat
  BY <1>1, <1>2, <1>4, <1>5, SoftStartWithin, AmpsType
<1>. HIDE DEF sent
<1>. QED  BY <1>1, <1>2, <1>3, <1>6

-----------------------------------------------------------------------------
(* The empty plan fits any values.                                         *)
LEMMA NothingFits == ASSUME NEW S PROVE Nothing \in OfSome(S)
<1>1. Nothing \in [{} -> S]
  BY DEF Nothing
<1>2. {} \in SUBSET Loadpoints
  OBVIOUS
<1>. QED  BY <1>1, <1>2, Zenon DEF OfSome

(* At the start all is idle and nothing was commanded.                     *)
LEMMA TickInvInit == TickInit => TickInv
<1>. SUFFICES ASSUME TickInit PROVE TickInv
  OBVIOUS
<1>1. /\ should = [t \in Ticks |-> Nothing] /\ writes = should
      /\ phase = [t \in Ticks |-> "none"]
      /\ commanded = [i \in Loadpoints |-> NoValue] /\ limit = [i \in Loadpoints |-> 0]
      /\ running = FALSE
  BY DEF TickInit
<1>2. TickTypeOK
  <2>1. \A S : Nothing \in OfSome(S)
    BY NothingFits
  <2>2. should \in [Ticks -> OfSome(Decisions)] /\ writes \in [Ticks -> OfSome(Offers)]
    BY <1>1, <2>1
  <2>3. \A t \in Ticks : DOMAIN writes[t] = {}
    BY <1>1 DEF Nothing
  <2>4. \A i \in Loadpoints : 0 \in Amps(i)
    BY AmpsType
  <2>5. since = [i \in AutoRevert |-> NoValue] /\ resolve = [i \in Loadpoints |-> NoValue]
    BY DEF TickInit
  <2>6. mode \in [Loadpoints -> Modes] /\ cheap \in BOOLEAN /\ rerun \in BOOLEAN
        /\ running \in BOOLEAN /\ booting \in BOOLEAN /\ settled \in BOOLEAN
    BY Zenon DEF TickInit
  <2>. QED  BY <1>1, <2>2, <2>3, <2>4, <2>5, <2>6 DEF TickTypeOK, Decisions
<1>3. OneTick /\ HeldIsCommanded /\ AllWritten
  BY <1>1 DEF OneTick, HeldIsCommanded, AllWritten
<1>. QED  BY <1>2, <1>3 DEF TickInv

(* A tick begins, from a call or from a finally.                           *)
LEMMA BeginType ==
    ASSUME TickTypeOK, NEW t \in Ticks, NEW m \in [Loadpoints -> Modes], Begin(t, m)
    PROVE  /\ mode' \in [Loadpoints -> Modes]
           /\ since' \in [AutoRevert -> 0..Grace + 1 \union {NoValue}]
           /\ running' \in BOOLEAN
           /\ phase' \in [Ticks -> {"none", "resolving", "writing", "session"}]
           /\ should' \in [Ticks -> OfSome(Decisions)]
<1>1. \A S : Nothing \in OfSome(S)
  BY NothingFits
<1>2. should' \in [Ticks -> OfSome(Decisions)]
  BY <1>1 DEF Begin, TickTypeOK
<1>3. mode' \in [Loadpoints -> Modes]
  BY DEF Begin, Modes
<1>. QED  BY <1>2, <1>3 DEF Begin, TickTypeOK

(* Every step keeps the types.                                             *)
LEMMA TypeStep == TickInv /\ [TickNext]_vars => TickTypeOK'
<1>. SUFFICES ASSUME TickInv, [TickNext]_vars PROVE TickTypeOK'
  OBVIOUS
<1>. USE DEF TickInv
<1>1. ASSUME NEW m \in [Loadpoints -> Modes], Call(m), UNCHANGED world PROVE TickTypeOK'
  <2>0. UNCHANGED <<writes, resolve, commanded, limit, booting>> /\ UNCHANGED world
    BY <1>1 DEF Call
  <2>1. CASE running
    <3>1. rerun' = TRUE /\ mode' = m /\ UNCHANGED <<since, running, phase, should>>
      BY <1>1, <2>1 DEF Call
    <3>. QED  BY <2>0, <3>1 DEF TickTypeOK, world
  <2>2. CASE ~running
    <3>1. Begin(NewTick, m) /\ UNCHANGED rerun
      BY <1>1, <2>2 DEF Call
    <3>. QED  BY <2>0, <2>2, <3>1, FreeTick, BeginType DEF TickTypeOK, world
  <2>. QED  BY <2>1, <2>2
<1>2. ASSUME NEW t \in Ticks, NEW i \in Loadpoints, Resolve(t, i) PROVE TickTypeOK'
  <2>. DEFINE decision == IF mode[i] # "smart" THEN NoValue ELSE IF cheap THEN "charge" ELSE "wait"
              next == [j \in DOMAIN should[t] \union {i} |-> IF j = i THEN decision ELSE should[t][j]]
  <2>1. should' = [should EXCEPT ![t] = next]
    BY <1>2 DEF Resolve
  <2>2. PICK I \in SUBSET Loadpoints : should[t] \in [I -> Decisions]
    BY DEF TickTypeOK, OfSome
  <2>3. next \in [I \union {i} -> Decisions]
    BY <2>2 DEF Decisions
  <2>. HIDE DEF next
  <2>4. next \in OfSome(Decisions)
    BY <2>3 DEF OfSome
  <2>. QED  BY <1>2, <2>1, <2>4 DEF Resolve, slot, world, TickTypeOK
<1>3. ASSUME NEW t \in Ticks, Plan(t) PROVE TickTypeOK'
  <2>. DEFINE amps == allocate(BudgetA, [i \in Loadpoints |-> AskOf(mode[i], should[t][i])],
                               MaxA, commanded)
              writing == {i \in Loadpoints : shouldWrite(amps[i], commanded[i])}
              next == [i \in writing |-> amps[i]]
  <2>1. /\ resolve' = should[t]
        /\ writes' = [writes EXCEPT ![t] = next]
        /\ should' = [should EXCEPT ![t] = Nothing]
        /\ phase' = [phase EXCEPT ![t] = "writing"]
        /\ DOMAIN should[t] = Loadpoints
        /\ UNCHANGED <<mode, since, running, rerun, commanded, limit, booting, world>>
    BY <1>3 DEF Plan
  <2>2. resolve' \in [Loadpoints -> Decisions]
    BY <2>1 DEF TickTypeOK, OfSome
  <2>3. \A i \in Loadpoints : amps[i] \in Amps(i)
    BY PlannedLegal
  <2>4. writing \subseteq Loadpoints
    OBVIOUS
  <2>. HIDE DEF amps, writing
  <2>5. next \in OfSome(Offers) /\ \A i \in Loadpoints : i \in DOMAIN next => next[i] \in Amps(i)
    <3>1. \A i \in writing : amps[i] \in Offers
      BY <2>3, <2>4 DEF Offers
    <3>2. next \in [writing -> Offers]
      BY <3>1
    <3>3. next \in OfSome(Offers)
      BY <2>4, <3>2 DEF OfSome
    <3>. QED  BY <2>3, <3>3
  <2>6. Nothing \in OfSome(Decisions)
    BY NothingFits
  <2>. HIDE DEF next
  <2>. QED  BY <2>1, <2>2, <2>5, <2>6 DEF TickTypeOK, world
<1>4. ASSUME NEW t \in Ticks, Write(t) PROVE TickTypeOK'
  <2>1. PICK i \in DOMAIN writes[t], sent \in Nat :
              /\ i \in Loadpoints /\ sent \in Amps(i) /\ sent <= writes[t][i]
              /\ commanded' = [commanded EXCEPT ![i] = sent]
              /\ limit' = [limit EXCEPT ![i] = sent]
              /\ writes' = [writes EXCEPT ![t] = [j \in DOMAIN @ \ {i} |-> @[j]]]
    BY <1>4, WriteTakesOne
  <2>. DEFINE next == [j \in DOMAIN writes[t] \ {i} |-> writes[t][j]]
  <2>2. PICK I \in SUBSET Loadpoints : writes[t] \in [I -> Offers]
    BY DEF TickTypeOK, OfSome
  <2>3. next \in [I \ {i} -> Offers] /\ \A j \in DOMAIN next : next[j] = writes[t][j]
    BY <2>2
  <2>4. writes' = [writes EXCEPT ![t] = next]
    BY <2>1
  <2>. HIDE DEF next
  <2>5. next \in OfSome(Offers) /\ \A j \in Loadpoints : j \in DOMAIN next => next[j] \in Amps(j)
    BY <2>2, <2>3 DEF OfSome, TickTypeOK
  <2>6. UNCHANGED <<mode, since, slot, should, resolve, booting, world>>
    BY <1>4 DEF Write
  <2>7. writes' \in [Ticks -> OfSome(Offers)]
        /\ \A u \in Ticks, j \in Loadpoints : j \in DOMAIN writes'[u] => writes'[u][j] \in Amps(j)
    BY <2>4, <2>5 DEF TickTypeOK, world
  <2>8. /\ commanded' \in [Loadpoints -> Nat \union {NoValue}] /\ limit' \in [Loadpoints -> Nat]
        /\ \A j \in Loadpoints : commanded'[j] \in Amps(j) \union {NoValue} /\ limit'[j] \in Amps(j)
    BY <2>1 DEF TickTypeOK, world
  <2>. QED  BY <2>6, <2>7, <2>8 DEF TickTypeOK, slot, world
<1>5. ASSUME NEW t \in Ticks, Written(t) PROVE TickTypeOK'
  BY <1>5 DEF Written, plan, world, TickTypeOK
<1>6. ASSUME NEW t \in Ticks, Finally(t) PROVE TickTypeOK'
  <2>0. UNCHANGED <<writes, resolve, commanded, limit, world>> /\ rerun' = FALSE /\ booting' = FALSE
    BY <1>6 DEF Finally
  <2>1. CASE rerun
    <3>1. Begin(t, mode) /\ mode \in [Loadpoints -> Modes]
      BY <1>6, <2>1 DEF Finally, TickTypeOK
    <3>. QED  BY <2>0, <3>1, BeginType DEF TickTypeOK, world
  <2>2. CASE ~rerun
    <3>1. running' = FALSE /\ phase' = [phase EXCEPT ![t] = "none"] /\ UNCHANGED <<mode, since, should>>
      BY <1>6, <2>2 DEF Finally
    <3>. QED  BY <2>0, <3>1 DEF TickTypeOK, world
  <2>. QED  BY <2>1, <2>2
<1>7. CASE Restart
  <2>1. \A S : Nothing \in OfSome(S)
    BY NothingFits
  <2>2. /\ should' = [u \in Ticks |-> Nothing] /\ writes' = should'
        /\ phase' = [u \in Ticks |-> "none"]
        /\ running' = FALSE /\ rerun' = FALSE /\ booting' = TRUE
        /\ since' = [i \in AutoRevert |-> NoValue] /\ resolve' = [i \in Loadpoints |-> NoValue]
        /\ commanded' = [i \in Loadpoints |-> NoValue] /\ UNCHANGED <<mode, limit, world>>
    BY <1>7 DEF Restart
  <2>3. should' \in [Ticks -> OfSome(Decisions)] /\ writes' \in [Ticks -> OfSome(Offers)]
        /\ \A u \in Ticks : DOMAIN writes'[u] = {}
    BY <2>1, <2>2 DEF Nothing
  <2>. QED  BY <2>2, <2>3 DEF TickTypeOK, world, Decisions
<1>8. CASE Aside
  BY <1>8 DEF Aside, slot, plan, TickTypeOK
<1>. QED  BY <1>1, <1>2, <1>3, <1>4, <1>5, <1>6, <1>7, <1>8, Steps

(* The guard: a call while a tick runs begins nothing, and a tick leaves   *)
(* the slot only as it ends.                                               *)
LEMMA OneTickStep == TickInv /\ [TickNext]_vars => OneTick'
<1>. SUFFICES ASSUME TickInv, [TickNext]_vars PROVE OneTick'
  OBVIOUS
<1>. USE DEF TickInv
<1>0. phase \in [Ticks -> {"none", "resolving", "writing", "session"}]
  BY DEF TickTypeOK
<1>1. ASSUME NEW m \in [Loadpoints -> Modes], Call(m) PROVE OneTick'
  <2>1. CASE running
    <3>1. UNCHANGED <<running, phase>>
      BY <1>1, <2>1 DEF Call
    <3>. QED  BY <3>1 DEF OneTick
  <2>2. CASE ~running
    <3>1. Begin(NewTick, m)
      BY <1>1, <2>2 DEF Call
    <3>2. NewTick \in Ticks /\ \A t \in Ticks : phase[t] = "none"
      BY <2>2, FreeTick
    <3>. HIDE DEF NewTick
    <3>. QED  BY <1>0, <3>1, <3>2 DEF Begin, OneTick
  <2>. QED  BY <2>1, <2>2
<1>2. ASSUME NEW t \in Ticks, NEW i \in Loadpoints, Resolve(t, i) PROVE OneTick'
  BY <1>2 DEF Resolve, slot, OneTick
<1>3. ASSUME NEW t \in Ticks, Plan(t) PROVE OneTick'
  <2>1. /\ phase[t] = "resolving" /\ phase' = [phase EXCEPT ![t] = "writing"]
        /\ UNCHANGED running
    BY <1>3 DEF Plan
  <2>. QED  BY <1>0, <2>1 DEF OneTick
<1>4. ASSUME NEW t \in Ticks, Write(t) PROVE OneTick'
  BY <1>4 DEF Write, slot, OneTick
<1>5. ASSUME NEW t \in Ticks, Written(t) PROVE OneTick'
  BY <1>0, <1>5 DEF Written, OneTick
<1>6. ASSUME NEW t \in Ticks, Finally(t) PROVE OneTick'
  <2>1. phase[t] = "session" /\ \A u \in Ticks \ {t} : phase[u] = "none"
    BY <1>6 DEF Finally, OneTick
  <2>2. CASE rerun
    <3>1. running' = TRUE /\ phase' = [phase EXCEPT ![t] = "resolving"]
      BY <1>6, <2>2 DEF Finally, Begin
    <3>. QED  BY <1>0, <2>1, <3>1 DEF OneTick
  <2>3. CASE ~rerun
    <3>1. running' = FALSE /\ phase' = [phase EXCEPT ![t] = "none"]
      BY <1>6, <2>3 DEF Finally
    <3>. QED  BY <1>0, <2>1, <3>1 DEF OneTick
  <2>. QED  BY <2>2, <2>3
<1>7. CASE Restart
  BY <1>7 DEF Restart, OneTick
<1>8. CASE Aside
  BY <1>8 DEF Aside, slot, OneTick
<1>. QED  BY <1>1, <1>2, <1>3, <1>4, <1>5, <1>6, <1>7, <1>8, Steps

(* Commands and limits are written together; a crash forgets commands.     *)
LEMMA HeldStep == TickInv /\ [TickNext]_vars => HeldIsCommanded'
<1>. SUFFICES ASSUME TickInv, [TickNext]_vars PROVE HeldIsCommanded'
  OBVIOUS
<1>. USE DEF TickInv
<1>1. ASSUME NEW t \in Ticks, Write(t) PROVE HeldIsCommanded'
  <2>1. PICK i \in DOMAIN writes[t], sent \in Nat :
              /\ i \in Loadpoints /\ sent \in Amps(i) /\ sent <= writes[t][i]
              /\ commanded' = [commanded EXCEPT ![i] = sent]
              /\ limit' = [limit EXCEPT ![i] = sent]
              /\ writes' = [writes EXCEPT ![t] = [j \in DOMAIN @ \ {i} |-> @[j]]]
    BY <1>1, WriteTakesOne
  <2>. QED  BY <2>1 DEF HeldIsCommanded, TickTypeOK
<1>2. CASE Restart
  BY <1>2 DEF Restart, HeldIsCommanded
<1>3. ASSUME UNCHANGED <<commanded, limit>> PROVE HeldIsCommanded'
  BY <1>3 DEF HeldIsCommanded
<1>4. \A m \in [Loadpoints -> Modes] : Call(m) => UNCHANGED <<commanded, limit>>
  BY DEF Call
<1>5. \A t \in Ticks : \/ \E i \in Loadpoints : Resolve(t, i)
                       \/ Plan(t) \/ Written(t) \/ Finally(t)
                       => UNCHANGED <<commanded, limit>>
  BY DEF Resolve, Plan, Written, Finally
<1>6. Aside => UNCHANGED <<commanded, limit>>
  BY DEF Aside
<1>. QED  BY <1>1, <1>2, <1>3, <1>4, <1>5, <1>6, Steps

(* A tick goes on to the session once its plan is empty, and the plan of a *)
(* tick in its session is nobody else's to write.                          *)
LEMMA AllWrittenStep == TickInv /\ [TickNext]_vars => AllWritten'
<1>. SUFFICES ASSUME TickInv, [TickNext]_vars PROVE AllWritten'
  OBVIOUS
<1>. USE DEF TickInv
<1>0. /\ phase \in [Ticks -> {"none", "resolving", "writing", "session"}]
      /\ writes \in [Ticks -> OfSome(Offers)]
  BY DEF TickTypeOK
<1>1. ASSUME NEW m \in [Loadpoints -> Modes], Call(m) PROVE AllWritten'
  <2>1. UNCHANGED writes /\ (running => UNCHANGED phase) /\ (~running => Begin(NewTick, m))
    BY <1>1 DEF Call
  <2>2. CASE ~running
    <3>1. NewTick \in Ticks
      BY <2>2, FreeTick
    <3>. HIDE DEF NewTick
    <3>. QED  BY <1>0, <2>1, <2>2, <3>1 DEF Begin, AllWritten
  <2>. QED  BY <2>1, <2>2 DEF AllWritten
<1>2. ASSUME NEW t \in Ticks, NEW i \in Loadpoints, Resolve(t, i) PROVE AllWritten'
  BY <1>2 DEF Resolve, slot, AllWritten
<1>3. ASSUME NEW t \in Ticks, Plan(t) PROVE AllWritten'
  <2>1. /\ phase' = [phase EXCEPT ![t] = "writing"]
        /\ \A u \in Ticks \ {t} : writes'[u] = writes[u]
    BY <1>0, <1>3 DEF Plan
  <2>. QED  BY <1>0, <2>1 DEF AllWritten
<1>4. ASSUME NEW t \in Ticks, Write(t) PROVE AllWritten'
  <2>1. phase[t] = "writing" /\ UNCHANGED phase /\ \A u \in Ticks \ {t} : writes'[u] = writes[u]
    BY <1>0, <1>4 DEF Write, slot
  <2>. QED  BY <2>1 DEF AllWritten
<1>5. ASSUME NEW t \in Ticks, Written(t) PROVE AllWritten'
  BY <1>0, <1>5 DEF Written, plan, AllWritten
<1>6. ASSUME NEW t \in Ticks, Finally(t) PROVE AllWritten'
  <2>1. UNCHANGED writes /\ \A u \in Ticks : phase'[u] = "session" => phase[u] = "session"
    BY <1>0, <1>6 DEF Finally, Begin
  <2>. QED  BY <2>1 DEF AllWritten
<1>7. CASE Restart
  BY <1>7 DEF Restart, AllWritten
<1>8. CASE Aside
  BY <1>8 DEF Aside, slot, plan, AllWritten
<1>. QED  BY <1>1, <1>2, <1>3, <1>4, <1>5, <1>6, <1>7, <1>8, Steps

(* Every step keeps the invariant.                                         *)
LEMMA TickInvStep == TickInv /\ [TickNext]_vars => TickInv'
  BY TypeStep, OneTickStep, HeldStep, AllWrittenStep DEF TickInv

(* The types of CircuitTick hold in every state.                           *)
THEOREM TickTypeTheorem == TickSpec => []TickTypeOK
<1>1. TickInv => TickTypeOK
  BY DEF TickInv
<1>. QED  BY <1>1, TickInvInit, TickInvStep, PTL DEF TickSpec

(* tickSlots guards a circuit: however calls from the interval and from    *)
(* mode changes interleave with the awaits of a tick, no second one of the *)
(* circuit is ever between its first and its last step.                    *)
THEOREM OneTickTheorem == TickSpec => []OneTick
<1>1. TickInv => OneTick
  BY DEF TickInv
<1>. QED  BY <1>1, TickInvInit, TickInvStep, PTL DEF TickSpec

-----------------------------------------------------------------------------
(* Nothing out of date: while no rerun is due, what a tick has resolved    *)
(* agrees with the modes, and once it has planned, a loadpoint that should *)
(* not charge is at 0 A or about to be.                                    *)
Agrees(i, decision) == (decision # NoValue) <=> (mode[i] = "smart")

ResolvedAgrees(t) ==
    phase[t] = "resolving" => \A i \in DOMAIN should[t] : Agrees(i, should[t][i])

PlannedAgrees(t) ==
    phase[t] \in {"writing", "session"} =>
      \A i \in Loadpoints :
         /\ Agrees(i, resolve[i])
         /\ ~Charging(i) => IF i \in DOMAIN writes[t] THEN writes[t][i] = 0 ELSE limit[i] = 0

CurrentInv ==
    /\ ~rerun => \A t \in Ticks : ResolvedAgrees(t) /\ PlannedAgrees(t)
    /\ QuietIsCurrent

(* At the start nothing is resolved and no tick has ended.                 *)
LEMMA CurrentInit == TickInit => CurrentInv
  BY DEF TickInit, CurrentInv, ResolvedAgrees, PlannedAgrees, QuietIsCurrent

(* A tick that begins has resolved nothing yet.                            *)
LEMMA BeginIsCurrent ==
    ASSUME TickInv, NEW t \in Ticks, NEW m \in [Loadpoints -> Modes], Begin(t, m),
           \A u \in Ticks \ {t} : phase[u] = "none"
    PROVE  CurrentInv'
<1>1. /\ phase' = [phase EXCEPT ![t] = "resolving"] /\ running' = TRUE
      /\ should' = [should EXCEPT ![t] = Nothing]
  BY DEF Begin
<1>2. /\ phase'[t] = "resolving" /\ DOMAIN should'[t] = {}
      /\ \A u \in Ticks \ {t} : phase'[u] = "none"
  BY <1>1 DEF TickInv, TickTypeOK, Nothing
<1>3. \A u \in Ticks : ResolvedAgrees(u)' /\ PlannedAgrees(u)'
  BY <1>2 DEF ResolvedAgrees, PlannedAgrees
<1>. QED  BY <1>1, <1>3 DEF CurrentInv, QuietIsCurrent

(* The deadband never swallows a pause.                                    *)
LEMMA PauseIsWritten ==
    ASSUME Deadband <= MinA, TickInv, NEW i \in Loadpoints, ~shouldWrite(0, commanded[i])
    PROVE  limit[i] = 0
<1>1. commanded[i] # NoValue /\ commanded[i] \in {0} \union MinA..MaxA[i]
  BY DEF TickInv, TickTypeOK, Amps, shouldWrite
<1>2. commanded[i] = 0
  BY <1>1, TickConstants DEF shouldWrite, Gap
<1>. QED  BY <1>1, <1>2 DEF TickInv, HeldIsCommanded

(* A call marks a rerun or starts afresh, and so drops what was resolved;  *)
(* the other steps of a tick carry the agreement from the decisions over   *)
(* the plan to the limits.                                                 *)
LEMMA CurrentStep ==
    ASSUME Deadband <= MinA, TickInv, CurrentInv, [TickNext]_vars
    PROVE  CurrentInv'
<1>. USE DEF TickInv
<1>0. /\ phase \in [Ticks -> {"none", "resolving", "writing", "session"}]
      /\ should \in [Ticks -> OfSome(Decisions)] /\ writes \in [Ticks -> OfSome(Offers)]
  BY DEF TickTypeOK
<1>a. ASSUME NEW t \in Ticks, phase[t] # "none"
      PROVE  running /\ \A u \in Ticks \ {t} : phase[u] = "none"
  BY <1>a DEF OneTick
<1>1. ASSUME NEW m \in [Loadpoints -> Modes], Call(m) PROVE CurrentInv'
  <2>1. CASE running
    <3>1. rerun' = TRUE /\ UNCHANGED running
      BY <1>1, <2>1 DEF Call
    <3>. QED  BY <2>1, <3>1 DEF CurrentInv, QuietIsCurrent
  <2>2. CASE ~running
    <3>1. Begin(NewTick, m)
      BY <1>1, <2>2 DEF Call
    <3>. QED  BY <2>2, <3>1, FreeTick, BeginIsCurrent
  <2>. QED  BY <2>1, <2>2
<1>2. ASSUME NEW t \in Ticks, NEW i \in Loadpoints, Resolve(t, i) PROVE CurrentInv'
  <2>. DEFINE decision == IF mode[i] # "smart" THEN NoValue ELSE IF cheap THEN "charge" ELSE "wait"
              next == [j \in DOMAIN should[t] \union {i} |-> IF j = i THEN decision ELSE should[t][j]]
  <2>1. /\ phase[t] = "resolving" /\ should' = [should EXCEPT ![t] = next]
        /\ UNCHANGED <<mode, running, rerun, phase>>
    BY <1>2 DEF Resolve, slot
  <2>2. running /\ \A u \in Ticks \ {t} : phase[u] = "none"
    BY <1>a, <2>1
  <2>3. ASSUME ~rerun PROVE \A j \in DOMAIN next : Agrees(j, next[j])
    <3>1. Agrees(i, decision)
      BY TickConstants DEF Agrees
    <3>2. \A j \in DOMAIN should[t] : Agrees(j, should[t][j])
      BY <2>1, <2>3 DEF CurrentInv, ResolvedAgrees
    <3>. QED  BY <3>1, <3>2
  <2>. HIDE DEF next
  <2>4. ~rerun => ResolvedAgrees(t)'
    BY <1>0, <2>1, <2>3 DEF ResolvedAgrees, Agrees
  <2>5. PlannedAgrees(t)' /\ \A u \in Ticks \ {t} : ResolvedAgrees(u)' /\ PlannedAgrees(u)'
    BY <2>1, <2>2 DEF ResolvedAgrees, PlannedAgrees
  <2>. QED  BY <2>1, <2>2, <2>4, <2>5 DEF CurrentInv, QuietIsCurrent
<1>3. ASSUME NEW t \in Ticks, Plan(t) PROVE CurrentInv'
  <2>. DEFINE ask == [i \in Loadpoints |-> AskOf(mode[i], should[t][i])]
              amps == allocate(BudgetA, ask, MaxA, commanded)
              writing == {i \in Loadpoints : shouldWrite(amps[i], commanded[i])}
  <2>1. /\ phase[t] = "resolving" /\ DOMAIN should[t] = Loadpoints
        /\ resolve' = should[t]
        /\ writes' = [writes EXCEPT ![t] = [i \in writing |-> amps[i]]]
        /\ phase' = [phase EXCEPT ![t] = "writing"]
        /\ UNCHANGED <<mode, running, rerun, commanded, limit>>
    BY <1>3 DEF Plan
  <2>2. running /\ \A u \in Ticks \ {t} : phase[u] = "none"
    BY <1>a, <2>1
  <2>3. phase'[t] = "writing" /\ \A u \in Ticks \ {t} : phase'[u] = "none"
    BY <1>0, <2>1, <2>2
  <2>4. writes'[t] = [i \in writing |-> amps[i]]
    BY <1>0, <2>1
  <2>5. ASSUME ~rerun, NEW i \in Loadpoints PROVE Agrees(i, resolve[i])'
    <3>1. Agrees(i, should[t][i])
      BY <2>1, <2>5 DEF CurrentInv, ResolvedAgrees
    <3>. QED  BY <2>1, <3>1 DEF Agrees
  <2>6. ASSUME ~rerun, NEW i \in Loadpoints, ~Charging(i)'
        PROVE  IF i \in DOMAIN writes'[t] THEN writes'[t][i] = 0 ELSE limit'[i] = 0
    <3>1. mode[i] # "fast" /\ (mode[i] = "smart" => should[t][i] # "charge")
      BY <2>1, <2>6 DEF Charging
    <3>2. should[t][i] \in Decisions /\ mode[i] \in Modes
      BY <2>1 DEF TickTypeOK, OfSome
    <3>3. mode[i] = "smart" => should[t][i] = "wait"
      BY <2>1, <2>5, <2>6, <3>1, <3>2 DEF Agrees, Decisions
    <3>4. ask[i] \in {"disabled", "wait"}
      BY <3>1, <3>2, <3>3 DEF AskOf, Modes
    <3>5. amps[i] = 0
      BY <3>4 DEF allocate
    <3>. HIDE DEF amps
    <3>6. CASE i \in writing
      BY <2>4, <3>5, <3>6
    <3>7. CASE i \notin writing
      BY <2>1, <2>4, <3>5, <3>7, PauseIsWritten
    <3>. QED  BY <3>6, <3>7
  <2>7. ~rerun => PlannedAgrees(t)'
    BY <2>5, <2>6 DEF PlannedAgrees
  <2>8. ResolvedAgrees(t)' /\ \A u \in Ticks \ {t} : ResolvedAgrees(u)' /\ PlannedAgrees(u)'
    BY <2>3 DEF ResolvedAgrees, PlannedAgrees
  <2>. QED  BY <2>1, <2>2, <2>7, <2>8 DEF CurrentInv, QuietIsCurrent
<1>4. ASSUME NEW t \in Ticks, Write(t) PROVE CurrentInv'
  <2>1. PICK i \in DOMAIN writes[t], sent \in Nat :
              /\ i \in Loadpoints /\ sent \in Amps(i) /\ sent <= writes[t][i]
              /\ commanded' = [commanded EXCEPT ![i] = sent]
              /\ limit' = [limit EXCEPT ![i] = sent]
              /\ writes' = [writes EXCEPT ![t] = [j \in DOMAIN @ \ {i} |-> @[j]]]
    BY <1>4, WriteTakesOne
  <2>2. /\ phase[t] = "writing"
        /\ UNCHANGED <<mode, running, rerun, phase, should, resolve>>
    BY <1>4 DEF Write, slot
  <2>3. running /\ \A u \in Ticks \ {t} : phase[u] = "none"
    BY <1>a, <2>2
  <2>4. writes'[t] = [j \in DOMAIN writes[t] \ {i} |-> writes[t][j]]
    BY <1>0, <2>1
  <2>5. limit'[i] = sent /\ \A j \in Loadpoints \ {i} : limit'[j] = limit[j]
    BY <2>1 DEF TickTypeOK
  <2>6. ASSUME ~rerun, NEW j \in Loadpoints
        PROVE  /\ Agrees(j, resolve[j])'
               /\ ~Charging(j)' => IF j \in DOMAIN writes'[t] THEN writes'[t][j] = 0 ELSE limit'[j] = 0
    <3>1. /\ Agrees(j, resolve[j])
          /\ ~Charging(j) => IF j \in DOMAIN writes[t] THEN writes[t][j] = 0 ELSE limit[j] = 0
      BY <2>2, <2>6 DEF CurrentInv, PlannedAgrees
    <3>2. Agrees(j, resolve[j])' /\ Charging(j)' = Charging(j)
      BY <2>2, <3>1 DEF Agrees, Charging
    <3>3. CASE j = i
      BY <2>1, <2>4, <2>5, <3>1, <3>2, <3>3
    <3>4. CASE j # i
      BY <2>4, <2>5, <3>1, <3>2, <3>4
    <3>. QED  BY <3>3, <3>4
  <2>7. ~rerun => PlannedAgrees(t)'
    BY <2>6 DEF PlannedAgrees
  <2>8. ResolvedAgrees(t)' /\ \A u \in Ticks \ {t} : ResolvedAgrees(u)' /\ PlannedAgrees(u)'
    BY <2>2, <2>3 DEF ResolvedAgrees, PlannedAgrees
  <2>. QED  BY <2>2, <2>3, <2>7, <2>8 DEF CurrentInv, QuietIsCurrent
<1>5. ASSUME NEW t \in Ticks, Written(t) PROVE CurrentInv'
  <2>1. /\ phase[t] = "writing" /\ phase' = [phase EXCEPT ![t] = "session"]
        /\ UNCHANGED <<mode, running, rerun, writes, should, resolve, limit>>
    BY <1>5 DEF Written, plan
  <2>2. running /\ \A u \in Ticks \ {t} : phase[u] = "none"
    BY <1>a, <2>1
  <2>3. phase'[t] = "session" /\ \A u \in Ticks \ {t} : phase'[u] = "none"
    BY <1>0, <2>1, <2>2
  <2>4. ~rerun => PlannedAgrees(t)'
    BY <2>1 DEF CurrentInv, PlannedAgrees, Agrees, Charging
  <2>5. ResolvedAgrees(t)' /\ \A u \in Ticks \ {t} : ResolvedAgrees(u)' /\ PlannedAgrees(u)'
    BY <2>3 DEF ResolvedAgrees, PlannedAgrees
  <2>. QED  BY <2>1, <2>2, <2>4, <2>5 DEF CurrentInv, QuietIsCurrent
<1>6. ASSUME NEW t \in Ticks, Finally(t) PROVE CurrentInv'
  <2>1. phase[t] = "session"
    BY <1>6 DEF Finally
  <2>2. \A u \in Ticks \ {t} : phase[u] = "none"
    BY <1>a, <2>1
  <2>3. CASE rerun
    <3>1. Begin(t, mode) /\ mode \in [Loadpoints -> Modes]
      BY <1>6, <2>3 DEF Finally, TickTypeOK
    <3>. QED  BY <2>2, <3>1, BeginIsCurrent
  <2>4. CASE ~rerun
    <3>1. /\ phase' = [phase EXCEPT ![t] = "none"] /\ UNCHANGED <<mode, resolve, limit>>
      BY <1>6, <2>4 DEF Finally
    <3>2. \A u \in Ticks : phase'[u] = "none"
      BY <1>0, <2>2, <3>1
    <3>3. \A u \in Ticks : ResolvedAgrees(u)' /\ PlannedAgrees(u)'
      BY <3>2 DEF ResolvedAgrees, PlannedAgrees
    <3>4. PlannedAgrees(t) /\ DOMAIN writes[t] = {}
      BY <2>1, <2>4 DEF CurrentInv, AllWritten
    <3>5. \A i \in Loadpoints : /\ (resolve[i] # NoValue) <=> (mode[i] = "smart")
                                /\ ~Charging(i) => limit[i] = 0
      BY <2>1, <3>4 DEF PlannedAgrees, Agrees
    <3>6. QuietIsCurrent'
      BY <3>1, <3>5 DEF QuietIsCurrent, Charging
    <3>. QED  BY <3>3, <3>6 DEF CurrentInv
  <2>. QED  BY <2>3, <2>4
<1>7. CASE Restart
  <2>1. booting' = TRUE /\ \A t \in Ticks : phase'[t] = "none"
    BY <1>7 DEF Restart
  <2>. QED  BY <2>1 DEF CurrentInv, ResolvedAgrees, PlannedAgrees, QuietIsCurrent
<1>8. CASE Aside
  BY <1>8 DEF Aside, slot, plan, CurrentInv, ResolvedAgrees, PlannedAgrees, Agrees, QuietIsCurrent, Charging
<1>. QED  BY <1>1, <1>2, <1>3, <1>4, <1>5, <1>6, <1>7, <1>8, Steps

(* Between ticks nothing is out of date, with a deadband of no more than   *)
(* the minimum (config.ts sets no limit to it): every change while a tick  *)
(* runs has left its mark, and is caught up with before the slot is free.  *)
THEOREM QuietCurrentTheorem ==
    ASSUME Deadband <= MinA
    PROVE  TickSpec => []QuietIsCurrent
<1>1. TickInv /\ CurrentInv /\ [TickNext]_vars => CurrentInv'
  BY CurrentStep
<1>2. CurrentInv => QuietIsCurrent
  BY DEF CurrentInv
<1>. QED  BY <1>1, <1>2, TickInvInit, TickInvStep, CurrentInit, PTL DEF TickSpec

-----------------------------------------------------------------------------
(* Within the budget: what the chargers hold, with what is planned and not *)
(* yet written taken as done, adds up to no more than the split.           *)
Heads(t) == [i \in Loadpoints |-> IF i \in DOMAIN writes[t] THEN writes[t][i] ELSE limit[i]]

Most == BudgetA + N * Hysteresis

BudgetInv ==
    /\ \A t \in Ticks : phase[t] \in {"writing", "session"} => Sum(Heads(t)) <= Most
    /\ QuietWithinBudget

(* At the start no tick has planned.                                       *)
LEMMA BudgetInit == TickInit => BudgetInv
  BY DEF TickInit, BudgetInv, QuietWithinBudget

(* What a charger is headed for is a number of amps.                       *)
LEMMA HeadsType ==
    ASSUME TickTypeOK, NEW t \in Ticks
    PROVE  \A i \in Loadpoints : Heads(t)[i] \in Nat
  BY AmpsType DEF TickTypeOK, Heads

(* A plan heads for the split, since what it does not write is held; a     *)
(* write heads no higher, even by half a soft start.                       *)
LEMMA BudgetStep ==
    ASSUME Deadband <= Hysteresis + 1, TickInv, TickInv', BudgetInv, [TickNext]_vars
    PROVE  BudgetInv'
<1>. USE DEF TickInv
<1>. Most \in Int
  BY TickConstants DEF Most
<1>0. /\ phase \in [Ticks -> {"none", "resolving", "writing", "session"}]
      /\ writes \in [Ticks -> OfSome(Offers)]
      /\ limit \in [Loadpoints -> Nat]
  BY DEF TickTypeOK
<1>a. ASSUME NEW t \in Ticks, phase[t] # "none"
      PROVE  running /\ \A u \in Ticks \ {t} : phase[u] = "none"
  BY <1>a DEF OneTick
<1>b. ASSUME NEW t \in Ticks, \A u \in Ticks \ {t} : phase[u] = "none",
             running', phase'[t] \notin {"writing", "session"},
             \A u \in Ticks \ {t} : phase'[u] = phase[u]
      PROVE  BudgetInv'
  BY <1>b DEF BudgetInv, QuietWithinBudget
<1>c. ASSUME UNCHANGED <<writes, limit, phase, running, booting>> PROVE BudgetInv'
  BY <1>c DEF BudgetInv, QuietWithinBudget, Heads
<1>1. ASSUME NEW m \in [Loadpoints -> Modes], Call(m) PROVE BudgetInv'
  <2>0. UNCHANGED <<writes, limit, booting>>
    BY <1>1 DEF Call
  <2>1. CASE running
    <3>1. UNCHANGED <<running, phase>>
      BY <1>1, <2>1 DEF Call
    <3>. QED  BY <1>c, <2>0, <3>1
  <2>2. CASE ~running
    <3>1. Begin(NewTick, m)
      BY <1>1, <2>2 DEF Call
    <3>2. NewTick \in Ticks /\ \A t \in Ticks : phase[t] = "none"
      BY <2>2, FreeTick
    <3>. HIDE DEF NewTick
    <3>3. running' = TRUE /\ phase' = [phase EXCEPT ![NewTick] = "resolving"]
      BY <3>1 DEF Begin
    <3>. QED  BY <1>0, <1>b, <3>2, <3>3
  <2>. QED  BY <2>1, <2>2
<1>2. ASSUME NEW t \in Ticks, NEW i \in Loadpoints, Resolve(t, i) PROVE BudgetInv'
  BY <1>2, <1>c DEF Resolve, slot
<1>3. ASSUME NEW t \in Ticks, Plan(t) PROVE BudgetInv'
  <2>. DEFINE ask == [i \in Loadpoints |-> AskOf(mode[i], should[t][i])]
              amps == allocate(BudgetA, ask, MaxA, commanded)
              writing == {i \in Loadpoints : shouldWrite(amps[i], commanded[i])}
  <2>1. /\ phase[t] = "resolving"
        /\ writes' = [writes EXCEPT ![t] = [i \in writing |-> amps[i]]]
        /\ phase' = [phase EXCEPT ![t] = "writing"]
        /\ UNCHANGED <<running, booting, commanded, limit>>
    BY <1>3 DEF Plan
  <2>2. running /\ \A u \in Ticks \ {t} : phase[u] = "none"
    BY <1>a, <2>1
  <2>3. \A u \in Ticks \ {t} : phase'[u] = "none"
    BY <1>0, <2>1, <2>2
  <2>4. /\ Given(commanded)
        /\ \A i \in Loadpoints : commanded[i] # NoValue => commanded[i] = 0 \/ commanded[i] >= MinA
    BY TickConstants DEF TickTypeOK, Amps, Given
  <2>5. Sum(amps) <= Most
    BY <2>4, TickConstants, AllocateWithinBudget DEF Most
  <2>6. \A i \in Loadpoints : amps[i] \in Nat
    BY PlannedLegal, AmpsType
  <2>7. ASSUME NEW i \in Loadpoints, i \notin writing PROVE limit[i] = amps[i]
    <3>1. ~shouldWrite(amps[i], commanded[i])
      BY <2>7
    <3>2. commanded[i] # NoValue /\ amps[i] = commanded[i]
      BY <2>4, <3>1, TickConstants, UnwrittenIsHeld
    <3>. QED  BY <3>2 DEF HeldIsCommanded
  <2>8. writes'[t] = [i \in writing |-> amps[i]]
    BY <1>0, <2>1
  <2>. HIDE DEF amps, writing
  <2>9. \A i \in Loadpoints : Heads(t)'[i] = amps[i]
    BY <2>1, <2>7, <2>8 DEF Heads
  <2>10. Sum(Heads(t)') <= Sum(amps)
    <3>1. \A i \in Loadpoints : Heads(t)'[i] \in Int /\ amps[i] \in Int /\ Heads(t)'[i] <= amps[i]
      BY <2>6, <2>9
    <3>. QED  BY <3>1, SumMonotone
  <2>11. Sum(amps) \in Int /\ Sum(Heads(t)') \in Int
    BY <2>6, <2>9, SumType
  <2>12. Sum(Heads(t)') <= Most
    BY <2>5, <2>10, <2>11
  <2>. QED  BY <2>1, <2>2, <2>3, <2>12 DEF BudgetInv, QuietWithinBudget
<1>4. ASSUME NEW t \in Ticks, Write(t) PROVE BudgetInv'
  <2>1. PICK i \in DOMAIN writes[t], sent \in Nat :
              /\ i \in Loadpoints /\ sent \in Amps(i) /\ sent <= writes[t][i]
              /\ commanded' = [commanded EXCEPT ![i] = sent]
              /\ limit' = [limit EXCEPT ![i] = sent]
              /\ writes' = [writes EXCEPT ![t] = [j \in DOMAIN @ \ {i} |-> @[j]]]
    BY <1>4, WriteTakesOne
  <2>2. phase[t] = "writing" /\ UNCHANGED <<running, phase>>
    BY <1>4 DEF Write, slot
  <2>3. running /\ \A u \in Ticks \ {t} : phase[u] = "none"
    BY <1>a, <2>2
  <2>4. writes'[t] = [j \in DOMAIN writes[t] \ {i} |-> writes[t][j]]
    BY <1>0, <2>1
  <2>5. limit'[i] = sent /\ \A j \in Loadpoints \ {i} : limit'[j] = limit[j]
    BY <1>0, <2>1
  <2>6. \A j \in Loadpoints : Heads(t)[j] \in Int /\ Heads(t)'[j] \in Int
    <3>1. \A j \in Loadpoints : Heads(t)[j] \in Nat
      BY HeadsType
    <3>2. \A j \in Loadpoints : Heads(t)'[j] = IF j = i THEN sent ELSE Heads(t)[j]
      BY <2>4, <2>5 DEF Heads
    <3>. QED  BY <3>1, <3>2
  <2>7. \A j \in Loadpoints : Heads(t)'[j] <= Heads(t)[j]
    <3>1. \A j \in Loadpoints : Heads(t)'[j] = IF j = i THEN sent ELSE Heads(t)[j]
      BY <2>4, <2>5 DEF Heads
    <3>2. Heads(t)[i] = writes[t][i]
      BY <2>1 DEF Heads
    <3>. QED  BY <2>1, <2>6, <3>1, <3>2
  <2>8. Sum(Heads(t)') <= Sum(Heads(t))
    BY <2>6, <2>7, SumMonotone
  <2>9. Sum(Heads(t)) <= Most /\ Sum(Heads(t)) \in Int /\ Sum(Heads(t)') \in Int
    BY <2>2, <2>6, SumType DEF BudgetInv
  <2>10. Sum(Heads(t)') <= Most
    BY <2>8, <2>9
  <2>. QED  BY <2>2, <2>3, <2>10 DEF BudgetInv, QuietWithinBudget
<1>5. ASSUME NEW t \in Ticks, Written(t) PROVE BudgetInv'
  <2>1. /\ phase[t] = "writing" /\ phase' = [phase EXCEPT ![t] = "session"]
        /\ UNCHANGED <<running, writes, limit>>
    BY <1>5 DEF Written, plan
  <2>2. running /\ \A u \in Ticks \ {t} : phase[u] = "none" /\ phase'[u] = "none"
    BY <1>0, <1>a, <2>1
  <2>3. Sum(Heads(t))' <= Most
    BY <2>1 DEF BudgetInv, Heads
  <2>. QED  BY <2>1, <2>2, <2>3 DEF BudgetInv, QuietWithinBudget
<1>6. ASSUME NEW t \in Ticks, Finally(t) PROVE BudgetInv'
  <2>1. phase[t] = "session" /\ UNCHANGED <<writes, limit>>
    BY <1>6 DEF Finally
  <2>2. running /\ \A u \in Ticks \ {t} : phase[u] = "none"
    BY <1>a, <2>1
  <2>3. CASE rerun
    <3>1. running' = TRUE /\ phase' = [phase EXCEPT ![t] = "resolving"]
      BY <1>6, <2>3 DEF Finally, Begin
    <3>. QED  BY <1>0, <1>b, <2>2, <3>1
  <2>4. CASE ~rerun
    <3>1. phase' = [phase EXCEPT ![t] = "none"]
      BY <1>6, <2>4 DEF Finally
    <3>2. \A u \in Ticks : phase'[u] = "none"
      BY <1>0, <2>2, <3>1
    <3>3. DOMAIN writes[t] = {}
      BY <2>1 DEF AllWritten
    <3>4. Heads(t) = limit
      BY <1>0, <3>3 DEF Heads
    <3>5. Sum(limit) <= Most
      BY <2>1, <3>4 DEF BudgetInv
    <3>. QED  BY <2>1, <3>2, <3>5 DEF BudgetInv, QuietWithinBudget, Most
  <2>. QED  BY <2>3, <2>4
<1>7. CASE Restart
  <2>1. booting' = TRUE /\ \A t \in Ticks : phase'[t] = "none"
    BY <1>7 DEF Restart
  <2>. QED  BY <2>1 DEF BudgetInv, QuietWithinBudget
<1>8. CASE Aside
  BY <1>8, <1>c DEF Aside, slot, plan
<1>. QED  BY <1>1, <1>2, <1>3, <1>4, <1>5, <1>6, <1>7, <1>8, Steps

(* Between ticks the chargers hold no more than the budget and the         *)
(* hysteresis of each, with a deadband of at most one more than the        *)
(* hysteresis (1 A by default): writes are made one after the other, soft  *)
(* starts are half done and the modes may have changed meanwhile.          *)
THEOREM QuietBudgetTheorem ==
    ASSUME Deadband <= Hysteresis + 1
    PROVE  TickSpec => []QuietWithinBudget
<1>1. TickInv /\ TickInv' /\ BudgetInv /\ [TickNext]_vars => BudgetInv'
  BY BudgetStep
<1>2. BudgetInv => QuietWithinBudget
  BY DEF BudgetInv
<1>. QED  BY <1>1, <1>2, TickInvInit, TickInvStep, BudgetInit, PTL DEF TickSpec
=============================================================================
