------------------------------ MODULE Debounce ------------------------------
(***************************************************************************)
(* createDebouncedSetter (modules/charger-ocpp16/debounce.ts): the rate    *)
(* limiter between the control loop and the OCPP SetChargingProfile call.  *)
(*                                                                         *)
(* Time is relative, so no clock has to be bounded: sinceWrite counts the  *)
(* time units since the last write and saturates at MinInterval, where it  *)
(* stands for "elapsed >= minIntervalMs" (so also for the initial          *)
(* lastWriteAt of minus infinity); timerLeft is what remains of the        *)
(* setTimeout delay.  A timer that is due (timerLeft = 0) fires when the   *)
(* event loop reaches it: a set() may run first, and time may pass first.  *)
(***************************************************************************)
EXTENDS Integers

CONSTANTS Values,       \* the amps a caller may ask for
          NoValue,      \* JavaScript's undefined
          MinInterval   \* minIntervalMs, in time units

ASSUME MinIntervalAssumption == MinInterval \in Nat \ {0}
ASSUME NoValueAssumption == NoValue \notin Values

VARIABLES lastWritten,       \* the closure's lastWritten
          sinceWrite,        \* now() - lastWriteAt, saturated at MinInterval
          pendingValue,      \* the closure's pendingValue
          pendingScheduled,  \* the closure's pendingScheduled
          timerLeft,         \* delay left on the pending setTimeout
          requested,         \* history: the argument of the latest set()
          lastGap            \* history: sinceWrite at the latest write

debounceVars == <<lastWritten, sinceWrite, pendingValue, pendingScheduled,
                  timerLeft, requested, lastGap>>

DebounceTypeOK ==
    /\ lastWritten \in Values \union {NoValue}
    /\ sinceWrite \in 0..MinInterval
    /\ pendingValue \in Values \union {NoValue}
    /\ pendingScheduled \in BOOLEAN
    /\ timerLeft \in 0..MinInterval
    /\ requested \in Values \union {NoValue}
    /\ lastGap \in 0..MinInterval

DebounceInit ==
    /\ lastWritten = NoValue
    /\ sinceWrite = MinInterval
    /\ pendingValue = NoValue
    /\ pendingScheduled = FALSE
    /\ timerLeft = 0
    /\ requested = NoValue
    /\ lastGap = MinInterval

----------------------------------------------------------------------------
(* The write itself: lastWritten and lastWriteAt move before write(value)  *)
(* is awaited, so they say nothing of how the call ends.                   *)
Write(v) ==
    /\ lastWritten' = v
    /\ sinceWrite' = 0
    /\ lastGap' = sinceWrite

NoWrite == UNCHANGED <<lastWritten, sinceWrite, lastGap>>

NoTimerChange == UNCHANGED <<pendingValue, pendingScheduled, timerLeft>>

(* set(value) with value = lastWritten: returns at once, and leaves a      *)
(* trailing write that is already scheduled as it was.                     *)
SetDuplicate(v) ==
    /\ v = lastWritten
    /\ NoWrite
    /\ NoTimerChange

SetImmediate(v) ==
    /\ v # lastWritten
    /\ sinceWrite = MinInterval
    /\ Write(v)
    /\ NoTimerChange

(* Slip: the elapsed time in place of the remaining delay.                  *)
SetCoalescedElapsedDelay(v) ==
    /\ v # lastWritten
    /\ sinceWrite < MinInterval
    /\ pendingValue' = v
    /\ pendingScheduled' = TRUE
    /\ timerLeft' = IF pendingScheduled THEN timerLeft ELSE sinceWrite
    /\ NoWrite

SetCoalesced(v) ==
    /\ v # lastWritten
    /\ sinceWrite < MinInterval
    /\ pendingValue' = v
    /\ pendingScheduled' = TRUE
    /\ timerLeft' = IF pendingScheduled THEN timerLeft ELSE MinInterval - sinceWrite
    /\ NoWrite

Set(v) ==
    /\ requested' = v
    /\ \/ SetDuplicate(v)
       \/ SetImmediate(v)
       \/ SetCoalesced(v)

(* The setTimeout callback. *)
TimerWrites ==
    /\ pendingValue \notin {NoValue, lastWritten}
    /\ Write(pendingValue)

TimerSkips ==
    /\ pendingValue \in {NoValue, lastWritten}
    /\ NoWrite

TimerFires ==
    /\ pendingScheduled
    /\ timerLeft = 0
    /\ pendingScheduled' = FALSE
    /\ pendingValue' = NoValue
    /\ TimerWrites \/ TimerSkips
    /\ UNCHANGED <<timerLeft, requested>>

(* One unit of time passes; a due timer may be late. *)
TimePasses ==
    /\ sinceWrite < MinInterval \/ timerLeft > 0
    /\ sinceWrite' = IF sinceWrite < MinInterval THEN sinceWrite + 1 ELSE sinceWrite
    /\ timerLeft' = IF timerLeft > 0 THEN timerLeft - 1 ELSE 0
    /\ UNCHANGED <<lastWritten, pendingValue, pendingScheduled, requested, lastGap>>

DebounceNext ==
    \/ \E v \in Values : Set(v)
    \/ TimerFires
    \/ TimePasses

(* setTimeout callbacks run and time passes; no caller has to call set(). *)
DebounceFairness ==
    /\ WF_debounceVars(TimerFires)
    /\ WF_debounceVars(TimePasses)

DebounceSpec == DebounceInit /\ [][DebounceNext]_debounceVars /\ DebounceFairness

----------------------------------------------------------------------------
(* "Duplicate values are dropped entirely": every step that restarts the   *)
(* write clock also changes lastWritten.                                   *)
NoDuplicateWrite ==
    [][sinceWrite' < sinceWrite => lastWritten' # lastWritten]_debounceVars

(* A late trailing timer can bring two writes closer together than         *)
(* MinInterval, but never three: two consecutive gaps always add up to at  *)
(* least MinInterval, so the charger sees at most two writes per interval. *)
AtMostTwoWritesPerInterval ==
    [][lastWritten' # lastWritten => sinceWrite + lastGap >= MinInterval]_debounceVars

(* What the trailing timer still has to wait never falls short of the rest *)
(* of the interval, unless a write was overtaken by an immediate one after *)
(* the interval had run out.                                               *)
TimerCoversInterval ==
    pendingScheduled => \/ timerLeft + sinceWrite >= MinInterval
                        \/ lastGap = MinInterval

(* While a trailing write is scheduled and the latest set() is not what    *)
(* was last written, the coalesced value is the one of the latest set().   *)
PendingIsLatest ==
    pendingScheduled /\ requested # lastWritten => pendingValue = requested
=============================================================================
