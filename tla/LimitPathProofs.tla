--------------------------- MODULE LimitPathProofs ---------------------------
(***************************************************************************)
(* Theorems about the way of a limit to the charger, for every set of      *)
(* targets, every clamp, deadband and interval, and any number of queued   *)
(* calls.  The path uses the debouncer only through its own steps, so the  *)
(* debouncer's theorems hold of it; and the queue of a re-asserted socket  *)
(* always ends, as far as limits go, in the limit written last.            *)
(*                                                                         *)
(* What the debouncer's timer waits is only right in view of the gaps      *)
(* between past writes, so its two-writes bound needs TimerCoversInterval  *)
(* as an invariant of its own, proved together with the types.             *)
(***************************************************************************)
EXTENDS LimitPath, TLAPS

(*------------------------------ The debouncer ----------------------------*)

(* The types, and that a pending value is there exactly while the timer is.*)
PendingMatchesTimer == pendingScheduled <=> pendingValue # NoValue

DebounceInv ==
    /\ DebounceTypeOK
    /\ PendingMatchesTimer
    /\ PendingIsLatest
    /\ TimerCoversInterval

(* The closure's initial values.                                           *)
LEMMA InitInv == DebounceInit => DebounceInv
<1> SUFFICES ASSUME DebounceInit PROVE DebounceInv
  OBVIOUS
<1>1. DebounceTypeOK
  <2>1. 0 \in 0..MinInterval /\ MinInterval \in 0..MinInterval
    BY MinIntervalAssumption
  <2>2. pendingScheduled \in BOOLEAN
    BY Zenon DEF DebounceInit
  <2>3. QED
    BY <2>1, <2>2, Zenon DEF DebounceInit, DebounceTypeOK
<1>2. ~pendingScheduled /\ pendingValue = NoValue
  BY DEF DebounceInit
<1>3. QED
  BY <1>1, <1>2 DEF DebounceInv, PendingMatchesTimer, PendingIsLatest, TimerCoversInterval

(* A set() keeps the invariant: one step per way it can go. *)
LEMMA SetKeepsInv ==
  ASSUME DebounceInv, NEW v \in Values, Set(v)
  PROVE  DebounceInv'
<1> USE MinIntervalAssumption, NoValueAssumption
         DEF DebounceInv, DebounceTypeOK, PendingMatchesTimer, PendingIsLatest,
             TimerCoversInterval, NoWrite, NoTimerChange
<1>1. CASE SetDuplicate(v)
  BY <1>1 DEF Set, SetDuplicate
<1>2. CASE SetImmediate(v)
  BY <1>2 DEF Set, SetImmediate, Write
<1>3. CASE SetCoalesced(v)
  BY <1>3 DEF Set, SetCoalesced
<1>4. QED
  BY <1>1, <1>2, <1>3 DEF Set

(* The trailing timer's callback.                                          *)
LEMMA TimerKeepsInv ==
  ASSUME DebounceInv, TimerFires
  PROVE  DebounceInv'
  BY MinIntervalAssumption, NoValueAssumption
     DEF DebounceInv, DebounceTypeOK, PendingMatchesTimer, PendingIsLatest,
         TimerCoversInterval, TimerFires, TimerWrites, TimerSkips, Write, NoWrite

(* Time passing, for the interval and the timer alike.                     *)
LEMMA TimeKeepsInv ==
  ASSUME DebounceInv, TimePasses
  PROVE  DebounceInv'
  BY MinIntervalAssumption
     DEF DebounceInv, DebounceTypeOK, PendingMatchesTimer, PendingIsLatest,
         TimerCoversInterval, TimePasses

(* Every step of the debouncer.                                            *)
LEMMA NextKeepsInv == DebounceInv /\ [DebounceNext]_debounceVars => DebounceInv'
<1> SUFFICES ASSUME DebounceInv, [DebounceNext]_debounceVars PROVE DebounceInv'
  OBVIOUS
<1>1. ASSUME NEW v \in Values, Set(v) PROVE DebounceInv'
  BY <1>1, SetKeepsInv
<1>2. CASE TimerFires
  BY <1>2, TimerKeepsInv
<1>3. CASE TimePasses
  BY <1>3, TimeKeepsInv
<1>4. CASE UNCHANGED debounceVars
  BY <1>4 DEF debounceVars, DebounceInv, DebounceTypeOK, PendingMatchesTimer,
              PendingIsLatest, TimerCoversInterval
<1>5. QED
  BY <1>1, <1>2, <1>3, <1>4 DEF DebounceNext

(* The debouncer's variables keep their types, and its strengthened        *)
(* invariant holds of every behaviour.                                     *)
THEOREM DebounceInvariant == DebounceSpec => []DebounceInv
  BY InitInv, NextKeepsInv, PTL DEF DebounceSpec

(* While a trailing write is scheduled it carries the latest value asked   *)
(* for, unless that is what was written last.                              *)
THEOREM PendingIsLatestTheorem == DebounceSpec => []PendingIsLatest
<1>1. DebounceInv => PendingIsLatest
  BY DEF DebounceInv
<1>2. QED
  BY DebounceInvariant, <1>1, PTL

(* A step that writes: either clause of set(), or the timer's. *)
LEMMA WritesAreSpaced ==
  ASSUME DebounceInv, DebounceNext, lastWritten' # lastWritten
  PROVE  sinceWrite + lastGap >= MinInterval
<1> USE MinIntervalAssumption DEF DebounceInv, DebounceTypeOK
<1>1. ASSUME NEW v \in Values, Set(v) PROVE sinceWrite = MinInterval
  BY <1>1 DEF Set, SetDuplicate, SetImmediate, SetCoalesced, NoWrite
<1>2. CASE TimerFires
  BY <1>2 DEF TimerFires, TimerCoversInterval
<1>3. CASE TimePasses
  BY <1>3 DEF TimePasses
<1>4. QED
  BY <1>1, <1>2, <1>3 DEF DebounceNext

(* No three writes fall inside one interval, however late timers run.      *)
THEOREM AtMostTwoWritesTheorem == DebounceSpec => AtMostTwoWritesPerInterval
<1>1. DebounceInv /\ [DebounceNext]_debounceVars
        => [lastWritten' # lastWritten => sinceWrite + lastGap >= MinInterval]_debounceVars
  BY WritesAreSpaced
<1>2. QED
  BY DebounceInvariant, <1>1, PTL DEF DebounceSpec, AtMostTwoWritesPerInterval

(* The write clock restarts only with a value that was not the last one.   *)
LEMMA RestartsAreWrites ==
  ASSUME DebounceInv, DebounceNext, sinceWrite' < sinceWrite
  PROVE  lastWritten' # lastWritten
<1> USE MinIntervalAssumption DEF DebounceInv, DebounceTypeOK
<1>1. ASSUME NEW v \in Values, Set(v) PROVE lastWritten' # lastWritten
  BY <1>1 DEF Set, SetDuplicate, SetImmediate, SetCoalesced, NoWrite, Write
<1>2. CASE TimerFires
  BY <1>2 DEF TimerFires, TimerWrites, TimerSkips, NoWrite, Write
<1>3. CASE TimePasses
  BY <1>3 DEF TimePasses
<1>4. QED
  BY <1>1, <1>2, <1>3 DEF DebounceNext

(* Duplicate values are dropped entirely. *)
THEOREM NoDuplicateWriteTheorem == DebounceSpec => NoDuplicateWrite
<1>1. DebounceInv /\ [DebounceNext]_debounceVars
        => [sinceWrite' < sinceWrite => lastWritten' # lastWritten]_debounceVars
  BY RestartsAreWrites
<1>2. QED
  BY DebounceInvariant, <1>1, PTL DEF DebounceSpec, NoDuplicateWrite

(*-------------------------- The way to the charger -----------------------*)

Calls == [amps : Values \union {BootA, Clear}, by : Senders]

(* Calls that carry a limit of the plan, and not the boot default or a     *)
(* clear.                                                                  *)
IsLimit(call) == call.by # "boot" /\ call.amps # Clear

NoLimitIn(q) == \A i \in 1..Len(q) : ~IsLimit(q[i])

LastLimitIs(q, v) ==
    \E i \in 1..Len(q) :
        /\ IsLimit(q[i]) /\ q[i].amps = v
        /\ \A j \in (i + 1)..Len(q) : ~IsLimit(q[j])

(* A tick that has begun knows its amps: what ReassertAfterClear sends.    *)
AmpsKnown == phase # "idle" => amps \in Targets

(* What a tick records, once its call has settled. *)
CommandingKnown == phase = "writing" => commanding \in Commands

(* The server remembers exactly what the debouncer wrote. *)
RemembersWritten == lastLimit = lastWritten

(* On a socket whose re-assert is sent, the charger is at the remembered   *)
(* limit or its queue brings it there; only a failure, the boot default or *)
(* a clear excuses it.                                                     *)
HeadedForLimit ==
    connected /\ onConnect # "due" /\ lastLimit # NoValue
      => \/ LastLimitIs(calls, lastLimit)
         \/ NoLimitIn(calls) /\ (offLimit \/ profile = lastLimit)

(* A socket that still has to re-assert has no re-assert queued, so no     *)
(* answer can end the re-assert before it is sent.                         *)
NoConnectIn(q) == \A i \in 1..Len(q) : q[i].by # "connect"

DueIsUnsent == onConnect = "due" => NoConnectIn(calls)

LimitInv ==
    /\ LimitTypeOK
    /\ DebounceInv
    /\ AmpsKnown
    /\ CommandingKnown
    /\ RemembersWritten
    /\ HeadedForLimit
    /\ DueIsUnsent

----------------------------------------------------------------------------
(* The queue: what appending a call and taking the first one do to the     *)
(* last limit in it.                                                       *)
LEMMA AppendLimit ==
  ASSUME NEW q \in Seq(Calls), NEW c \in Calls, IsLimit(c)
  PROVE  LastLimitIs(Append(q, c), c.amps)
<1> DEFINE r == Append(q, c)
<1>1. Len(r) = Len(q) + 1 /\ r[Len(q) + 1] = c /\ Len(q) \in Nat
  OBVIOUS
<1>2. Len(r) \in 1..Len(r) /\ r[Len(r)] = c
  BY <1>1
<1>3. \A j \in (Len(r) + 1)..Len(r) : ~IsLimit(r[j])
  BY <1>1
<1> HIDE DEF r
<1>4. LastLimitIs(r, c.amps)
  BY <1>2, <1>3 DEF LastLimitIs
<1>5. QED
  BY <1>4 DEF r

(* A call that carries no limit does not change which limit comes last.    *)
LEMMA AppendOther ==
  ASSUME NEW q \in Seq(Calls), NEW c \in Calls, ~IsLimit(c)
  PROVE  /\ NoLimitIn(q) => NoLimitIn(Append(q, c))
         /\ \A v : LastLimitIs(q, v) => LastLimitIs(Append(q, c), v)
<1> DEFINE r == Append(q, c)
<1>1. /\ Len(r) = Len(q) + 1 /\ r[Len(q) + 1] = c /\ Len(q) \in Nat
      /\ \A i \in 1..Len(q) : r[i] = q[i]
  OBVIOUS
<1> HIDE DEF r
<1>2. NoLimitIn(q) => NoLimitIn(r)
  BY <1>1 DEF NoLimitIn
<1>3. ASSUME NEW v, LastLimitIs(q, v) PROVE LastLimitIs(r, v)
  <2>1. PICK i \in 1..Len(q) : /\ IsLimit(q[i]) /\ q[i].amps = v
                               /\ \A j \in (i + 1)..Len(q) : ~IsLimit(q[j])
    BY <1>3 DEF LastLimitIs
  <2>2. i \in 1..Len(r) /\ r[i] = q[i]
    BY <1>1, <2>1
  <2>3. \A j \in (i + 1)..Len(r) : ~IsLimit(r[j])
    BY <1>1, <2>1
  <2>4. QED
    BY <2>1, <2>2, <2>3 DEF LastLimitIs
<1>4. QED
  BY <1>2, <1>3 DEF r

(* Taking the head off: its limit was the last one, or that one stays.     *)
LEMMA TailLimit ==
  ASSUME NEW q \in Seq(Calls), q # <<>>, NEW v, LastLimitIs(q, v)
  PROVE  \/ LastLimitIs(Tail(q), v)
         \/ IsLimit(Head(q)) /\ Head(q).amps = v /\ NoLimitIn(Tail(q))
<1> DEFINE r == Tail(q)
<1>1. /\ Len(r) = Len(q) - 1 /\ Len(q) \in Nat \ {0} /\ Head(q) = q[1]
      /\ \A i \in 1..Len(r) : r[i] = q[i + 1]
  OBVIOUS
<1> HIDE DEF r
<1>2. PICK i \in 1..Len(q) : /\ IsLimit(q[i]) /\ q[i].amps = v
                             /\ \A j \in (i + 1)..Len(q) : ~IsLimit(q[j])
  BY DEF LastLimitIs
<1>3. CASE i = 1
  <2>1. NoLimitIn(r)
    BY <1>1, <1>2, <1>3 DEF NoLimitIn
  <2>2. QED
    BY <1>1, <1>2, <1>3, <2>1 DEF r
<1>4. CASE i # 1
  <2>1. i - 1 \in 1..Len(r) /\ r[i - 1] = q[i]
    BY <1>1, <1>2, <1>4
  <2>2. \A j \in ((i - 1) + 1)..Len(r) : ~IsLimit(r[j])
    BY <1>1, <1>2, <1>4
  <2>3. LastLimitIs(r, v)
    BY <1>2, <2>1, <2>2 DEF LastLimitIs
  <2>4. QED
    BY <2>3 DEF r
<1>5. QED
  BY <1>3, <1>4

(* A queue without limits has none at its head or behind it.               *)
LEMMA TailNone ==
  ASSUME NEW q \in Seq(Calls), q # <<>>, NoLimitIn(q)
  PROVE  NoLimitIn(Tail(q)) /\ ~IsLimit(Head(q))
<1>1. /\ Len(Tail(q)) = Len(q) - 1 /\ Len(q) \in Nat \ {0} /\ Head(q) = q[1]
      /\ \A i \in 1..Len(Tail(q)) : Tail(q)[i] = q[i + 1]
  OBVIOUS
<1>2. QED
  BY <1>1 DEF NoLimitIn

(* Appending a call that is not a re-assert.                               *)
LEMMA AppendUnsent ==
  ASSUME NEW q \in Seq(Calls), NEW c \in Calls, c.by # "connect", NoConnectIn(q)
  PROVE  NoConnectIn(Append(q, c))
<1>1. /\ Len(Append(q, c)) = Len(q) + 1 /\ Append(q, c)[Len(q) + 1] = c /\ Len(q) \in Nat
      /\ \A i \in 1..Len(q) : Append(q, c)[i] = q[i]
  OBVIOUS
<1>2. QED
  BY <1>1 DEF NoConnectIn

(* A queue without re-assert has none at its head or behind it.            *)
LEMMA TailUnsent ==
  ASSUME NEW q \in Seq(Calls), q # <<>>, NoConnectIn(q)
  PROVE  NoConnectIn(Tail(q)) /\ Head(q).by # "connect"
<1>1. /\ Len(Tail(q)) = Len(q) - 1 /\ Len(q) \in Nat \ {0} /\ Head(q) = q[1]
      /\ \A i \in 1..Len(Tail(q)) : Tail(q)[i] = q[i + 1]
  OBVIOUS
<1>2. QED
  BY <1>1 DEF NoConnectIn

----------------------------------------------------------------------------
(* Amps: every limit a tick sends is a command, and clamped a value.       *)
LEMMA ClampedIsValue ==
  ASSUME NEW c \in Commands
  PROVE  Clamp(c) \in Values
  BY ValuesAssumption DEF Clamp

(* Soft start turns a target into a command.                               *)
LEMMA SoftStartIsCommand ==
  ASSUME NEW t \in Targets
  PROVE  softStartLimit(t) \in Commands
<1>1. t \in Nat
  BY LimitPathAssumption
<1>2. CASE LastCommandedOr0 >= 6 \/ t <= 6
  BY <1>2 DEF softStartLimit, Commands
<1>3. CASE ~(LastCommandedOr0 >= 6 \/ t <= 6)
  <2>1. t > 6
    BY <1>1, <1>3
  <2>2. QED
    BY <1>3, <2>1 DEF softStartLimit, Commands
<1>4. QED
  BY <1>2, <1>3

(* Neither absence nor a clear is a limit.                                 *)
LEMMA NoValueNotValue == NoValue \notin Values /\ Clear = NoValue
  BY NoValueAssumption DEF Clear

(* The queue's part of the invariant, for a limit that is sent ...         *)
LEMMA SendingHeads ==
  ASSUME calls \in Seq(Calls), NEW v \in Values, NEW by \in Senders \ {"boot"}
  PROVE  /\ Send(v, by) \in Seq(Calls)
         /\ LastLimitIs(Send(v, by), v)
         /\ by # "connect" /\ NoConnectIn(calls) => NoConnectIn(Send(v, by))
<1> DEFINE c == [amps |-> v, by |-> by]
<1>1. c \in Calls /\ c.amps = v /\ c.by = by
  BY DEF Calls
<1>2. IsLimit(c)
  BY <1>1, NoValueNotValue DEF IsLimit
<1>3. QED
  BY <1>1, <1>2, AppendLimit, AppendUnsent DEF Send

(* ... and for the boot default or a clear, which do not count.            *)
LEMMA SendingOther ==
  ASSUME calls \in Seq(Calls), NEW v \in Values \union {BootA, Clear}, NEW by \in Senders,
         v = Clear \/ by = "boot"
  PROVE  /\ Send(v, by) \in Seq(Calls)
         /\ NoLimitIn(calls) => NoLimitIn(Send(v, by))
         /\ \A l : LastLimitIs(calls, l) => LastLimitIs(Send(v, by), l)
         /\ by # "connect" /\ NoConnectIn(calls) => NoConnectIn(Send(v, by))
<1> DEFINE c == [amps |-> v, by |-> by]
<1>1. c \in Calls /\ c.amps = v /\ c.by = by
  BY DEF Calls
<1>2. ~IsLimit(c)
  BY <1>1 DEF IsLimit
<1>3. QED
  BY <1>1, <1>2, AppendOther, AppendUnsent DEF Send

(* A new socket's queue.                                                   *)
LEMMA EmptyQueue == <<>> \in Seq(Calls) /\ NoLimitIn(<<>>) /\ NoConnectIn(<<>>)
  BY DEF NoLimitIn, NoConnectIn

----------------------------------------------------------------------------
(* The invariant without the debouncer's part, so that a step that leaves  *)
(* the debouncer alone can be handled apart.                               *)
LEMMA DebouncerUntouched ==
  ASSUME DebounceInv, UNCHANGED debounceVars
  PROVE  DebounceInv' /\ lastWritten' = lastWritten
  BY NextKeepsInv DEF debounceVars

(* setLimit(v, by) as the debouncer's write of v. *)
LEMMA SetLimitHeads ==
  ASSUME LimitInv, NEW v \in Values, NEW by \in {"loop", "timer"},
         setLimit(v, by), lastWritten' = v,
         UNCHANGED <<connected, onConnect, profile, offLimit>>
  PROVE  /\ lastLimit' \in Values \union {NoValue}
         /\ calls' \in Seq(Calls)
         /\ RemembersWritten' /\ HeadedForLimit' /\ DueIsUnsent'
<1>1. calls \in Seq(Calls)
  BY DEF LimitInv, LimitTypeOK, Calls
<1>2. CASE connected
  <2>1. calls' = Send(v, by) /\ lastLimit' = v
    BY <1>2 DEF setLimit
  <2>2. QED
    BY <1>1, <2>1, SendingHeads DEF LimitInv, RemembersWritten, HeadedForLimit, DueIsUnsent, Senders
<1>3. CASE ~connected
  <2>1. calls' = calls /\ lastLimit' = v /\ ~connected'
    BY <1>3 DEF setLimit
  <2>2. QED
    BY <1>1, <2>1 DEF LimitInv, RemembersWritten, HeadedForLimit, DueIsUnsent
<1>4. QED
  BY <1>2, <1>3

(* A setCurrentLimit of the tick: the debouncer takes a step of its own,   *)
(* and the queue stays headed for what is remembered.                      *)
LEMMA SetCurrentLimitKeeps ==
  ASSUME LimitInv, NEW a \in Commands, NEW waiting \in Phases, NEW after \in Phases,
         setCurrentLimit(a, waiting, after),
         UNCHANGED <<connected, onConnect, profile, offLimit>>
  PROVE  /\ DebounceInv'
         /\ phase' \in {waiting, after}
         /\ lastLimit' \in Values \union {NoValue}
         /\ calls' \in Seq(Calls)
         /\ RemembersWritten' /\ HeadedForLimit' /\ DueIsUnsent'
<1>1. Set(Clamp(a)) /\ Clamp(a) \in Values
  BY ClampedIsValue DEF setCurrentLimit
<1>2. DebounceInv'
  BY <1>1, SetKeepsInv DEF LimitInv
<1>3. phase' \in {waiting, after}
  BY DEF setCurrentLimit
<1>4. CASE lastWritten' # lastWritten
  <2>1. lastWritten' = Clamp(a)
    BY <1>1, <1>4 DEF Set, SetDuplicate, SetImmediate, SetCoalesced, NoWrite, Write
  <2>2. setLimit(Clamp(a), "loop")
    BY <1>4 DEF setCurrentLimit
  <2>3. QED
    BY <1>1, <1>2, <1>3, <2>1, <2>2, SetLimitHeads
<1>5. CASE lastWritten' = lastWritten
  <2>1. UNCHANGED <<lastLimit, calls>>
    BY <1>5 DEF setCurrentLimit
  <2>2. QED
    BY <1>2, <1>3, <1>5, <2>1 DEF LimitInv, LimitTypeOK, Calls, RemembersWritten, HeadedForLimit, DueIsUnsent
<1>6. QED
  BY <1>4, <1>5

----------------------------------------------------------------------------
(* The steps of the path, one by one.                                      *)
LEMMA TickWritesKeeps ==
  ASSUME LimitInv, TickWrites
  PROVE  LimitInv'
<1> DEFINE limit == softStartLimit(target)
<1>1. target \in Targets /\ limit \in Commands
  BY SoftStartIsCommand DEF LimitInv, LimitTypeOK
<1>2. setCurrentLimit(limit, "writing", "session") /\ Record(limit) /\ amps' = target
  BY DEF TickWrites
<1> HIDE DEF limit
<1>3. UNCHANGED <<target, settled, connected, onConnect, profile, bootDue, offLimit>>
  BY DEF TickWrites
<1>4. /\ DebounceInv' /\ phase' \in {"writing", "session"}
      /\ lastLimit' \in Values \union {NoValue} /\ calls' \in Seq(Calls)
      /\ RemembersWritten' /\ HeadedForLimit' /\ DueIsUnsent'
  BY <1>1, <1>2, <1>3, SetCurrentLimitKeeps DEF Phases
<1>5. /\ commanding' \in Commands \union {NoValue}
      /\ lastCommandedA' \in Commands \union {NoValue}
      /\ CommandingKnown'
  BY <1>1, <1>2 DEF Record, CommandingKnown, LimitInv, LimitTypeOK
<1>6. AmpsKnown'
  BY <1>1, <1>2 DEF AmpsKnown
<1>7. LimitTypeOK'
  BY <1>1, <1>2, <1>3, <1>4, <1>5 DEF LimitInv, LimitTypeOK, DebounceInv, Phases, Calls
<1>8. QED
  BY <1>4, <1>5, <1>6, <1>7 DEF LimitInv

(* The re-assert after a clear, through the debouncer like any limit.      *)
LEMMA ReassertAfterClearKeeps ==
  ASSUME LimitInv, ReassertAfterClear
  PROVE  LimitInv'
<1>1. amps \in Targets /\ amps \in Commands
  BY DEF LimitInv, AmpsKnown, ReassertAfterClear, Commands
<1>2. /\ setCurrentLimit(amps, "reasserting", "idle")
      /\ amps' = IF phase' = "idle" THEN NoValue ELSE amps
      /\ UNCHANGED <<target, settled, commanding, lastCommandedA, connected, onConnect,
                      profile, bootDue, offLimit>>
  BY DEF ReassertAfterClear
<1>3. /\ DebounceInv' /\ phase' \in {"reasserting", "idle"}
      /\ lastLimit' \in Values \union {NoValue} /\ calls' \in Seq(Calls)
      /\ RemembersWritten' /\ HeadedForLimit' /\ DueIsUnsent'
  BY <1>1, <1>2, SetCurrentLimitKeeps DEF Phases
<1>4. AmpsKnown' /\ CommandingKnown'
  BY <1>1, <1>2, <1>3 DEF AmpsKnown, CommandingKnown
<1>5. LimitTypeOK'
  BY <1>1, <1>2, <1>3 DEF LimitInv, LimitTypeOK, DebounceInv, Phases, Calls
<1>6. QED
  BY <1>3, <1>4, <1>5 DEF LimitInv

(* The trailing timer writes, remembers and sends one and the same value.  *)
LEMMA TrailingTimerKeeps ==
  ASSUME LimitInv, TrailingTimer
  PROVE  LimitInv'
<1>1. DebounceInv'
  BY TimerKeepsInv DEF LimitInv, TrailingTimer
<1>2. UNCHANGED <<target, settled, loopVars, connected, onConnect, profile, bootDue, offLimit>>
  BY DEF TrailingTimer
<1>3. /\ lastLimit' \in Values \union {NoValue} /\ calls' \in Seq(Calls)
      /\ RemembersWritten' /\ HeadedForLimit' /\ DueIsUnsent'
  <2>1. CASE lastWritten' # lastWritten
    <3>1. setLimit(lastWritten', "timer")
      BY <2>1 DEF TrailingTimer
    <3>2. lastWritten' \in Values
      BY <2>1 DEF TrailingTimer, TimerFires, TimerWrites, TimerSkips, Write, NoWrite,
                  LimitInv, DebounceInv, DebounceTypeOK
    <3>3. QED
      BY <3>1, <3>2, <1>2, SetLimitHeads
  <2>2. CASE lastWritten' = lastWritten
    <3>1. UNCHANGED <<lastLimit, calls>>
      BY <2>2 DEF TrailingTimer
    <3>2. QED
      BY <3>1, <2>2, <1>2
         DEF LimitInv, LimitTypeOK, Calls, RemembersWritten, HeadedForLimit, DueIsUnsent
  <2>3. QED
    BY <2>1, <2>2
<1>4. AmpsKnown' /\ CommandingKnown'
  BY <1>2 DEF LimitInv, AmpsKnown, CommandingKnown, loopVars
<1>5. LimitTypeOK'
  BY <1>1, <1>2, <1>3 DEF LimitInv, LimitTypeOK, DebounceInv, Phases, Calls, loopVars
<1>6. QED
  BY <1>1, <1>3, <1>4, <1>5 DEF LimitInv

(* Time touches the debouncer's clocks only.                               *)
LEMMA TimeKeeps ==
  ASSUME LimitInv, Time
  PROVE  LimitInv'
<1>1. DebounceInv' /\ lastWritten' = lastWritten
  BY TimeKeepsInv DEF LimitInv, Time, TimePasses
<1>2. QED
  BY <1>1 DEF LimitInv, LimitTypeOK, DebounceInv, AmpsKnown, CommandingKnown,
              RemembersWritten, HeadedForLimit, DueIsUnsent, Time, loopVars, serverVars

(* What the loop does once its call has settled. *)
LEMMA LoopGoesOnKeeps ==
  ASSUME LimitInv, LoopGoesOn \/ UNCHANGED loopVars
  PROVE  /\ phase' \in Phases /\ amps' \in Targets \union {NoValue}
         /\ commanding' \in Commands \union {NoValue}
         /\ lastCommandedA' \in Commands \union {NoValue}
         /\ AmpsKnown' /\ CommandingKnown'
  BY DEF LimitInv, LimitTypeOK, LoopGoesOn, EndTick, Phases, AmpsKnown, CommandingKnown,
         loopVars

(* A settled call: it leaves the queue, its sender goes on, and unless the *)
(* charger is excused it now enforces the limit the call carried.          *)
LEMMA HeadSettledKeeps ==
  ASSUME LimitInv, calls # <<>>, calls' = Tail(calls),
         SendersGoOn({Head(calls).by}),
         profile' \in {profile, Head(calls).amps}, offLimit' \in BOOLEAN,
         ~offLimit' => profile' = Head(calls).amps /\ IsLimit(Head(calls)),
         UNCHANGED <<target, settled, lastLimit, connected, bootDue, debounceVars>>
  PROVE  LimitInv'
<1>1. calls \in Seq(Calls)
  BY DEF LimitInv, LimitTypeOK, Calls
<1>2. Head(calls) \in Calls /\ Tail(calls) \in Seq(Calls)
  BY <1>1
<1>3. DebounceInv' /\ lastWritten' = lastWritten /\ RemembersWritten'
  BY DebouncerUntouched DEF LimitInv, RemembersWritten
<1>4. /\ phase' \in Phases /\ amps' \in Targets \union {NoValue}
      /\ commanding' \in Commands \union {NoValue}
      /\ lastCommandedA' \in Commands \union {NoValue}
      /\ AmpsKnown' /\ CommandingKnown'
  BY LoopGoesOnKeeps DEF SendersGoOn
<1>5. onConnect' \in {"due", "sent", "done"}
      /\ (onConnect' = "due" <=> onConnect = "due")
  <2>1. onConnect = "due" => Head(calls).by # "connect"
    BY <1>1, TailUnsent DEF LimitInv, DueIsUnsent
  <2>2. QED
    BY <2>1 DEF SendersGoOn, LimitInv, LimitTypeOK
<1>6. DueIsUnsent'
  BY <1>1, <1>5, TailUnsent DEF LimitInv, DueIsUnsent
<1>7. HeadedForLimit'
  <2>1. SUFFICES ASSUME connected, onConnect # "due", lastLimit # NoValue
                 PROVE  \/ LastLimitIs(Tail(calls), lastLimit)
                        \/ NoLimitIn(Tail(calls)) /\ (offLimit' \/ profile' = lastLimit)
    BY <1>5 DEF HeadedForLimit
  <2>2. CASE LastLimitIs(calls, lastLimit)
    BY <1>1, <2>2, TailLimit
  <2>3. CASE NoLimitIn(calls)
    BY <1>1, <2>3, TailNone
  <2>4. QED
    BY <2>1, <2>2, <2>3 DEF LimitInv, HeadedForLimit
<1>8. LimitTypeOK'
  <2>1. profile' \in Values \union {BootA, NoValue}
    BY <1>2 DEF LimitInv, LimitTypeOK, Calls, Clear
  <2>2. QED
    BY <1>2, <1>3, <1>4, <1>5, <2>1 DEF LimitInv, LimitTypeOK, DebounceInv, Calls
<1>9. QED
  BY <1>3, <1>4, <1>6, <1>7, <1>8 DEF LimitInv

(* An answered call ...                                                    *)
LEMMA CallSucceedsKeeps ==
  ASSUME LimitInv, CallSucceeds
  PROVE  LimitInv'
<1>1. ~offLimit' => profile' = Head(calls).amps /\ IsLimit(Head(calls))
  BY DEF CallSucceeds, Enforce, IsLimit
<1>2. offLimit' \in BOOLEAN /\ profile' \in {profile, Head(calls).amps}
  BY DEF CallSucceeds, Enforce
<1>3. QED
  BY <1>1, <1>2, HeadSettledKeeps DEF CallSucceeds

(* ... and a failed one, which excuses the charger.                        *)
LEMMA CallFailsKeeps ==
  ASSUME LimitInv, CallFails
  PROVE  LimitInv'
<1>1. offLimit' = TRUE /\ profile' \in {profile, Head(calls).amps}
  BY DEF CallFails, Enforce
<1>2. QED
  BY <1>1, HeadSettledKeeps DEF CallFails

(* Sockets that come and go: the queue is gone, and either no socket is up *)
(* or its re-assert is still due.                                          *)
LEMMA SocketChangesKeep ==
  ASSUME LimitInv, Connect \/ Disconnect \/ Reboot
  PROVE  LimitInv'
<1>1. DebounceInv' /\ lastWritten' = lastWritten /\ RemembersWritten'
  BY DebouncerUntouched DEF LimitInv, RemembersWritten, Connect, Disconnect, Reboot
<1>2. /\ phase' \in Phases /\ amps' \in Targets \union {NoValue}
      /\ commanding' \in Commands \union {NoValue}
      /\ lastCommandedA' \in Commands \union {NoValue}
      /\ AmpsKnown' /\ CommandingKnown'
  BY LoopGoesOnKeeps DEF Connect, Disconnect, Reboot
<1>3. calls' = <<>> /\ (~connected' \/ onConnect' = "due")
  BY DEF Connect, Disconnect, Reboot
<1>4. HeadedForLimit' /\ DueIsUnsent'
  BY <1>3, EmptyQueue DEF HeadedForLimit, DueIsUnsent
<1>5. profile' \in Values \union {BootA, NoValue}
  <2>1. calls # <<>> => Head(calls) \in Calls
    <3>1. calls \in Seq(Calls)
      BY DEF LimitInv, LimitTypeOK, Calls
    <3>2. QED
      BY <3>1
  <2>2. profile' \in {profile, NoValue} \/ (calls # <<>> /\ profile' = Head(calls).amps)
    BY DEF Connect, Disconnect, Reboot, Enforce
  <2>3. QED
    BY <2>1, <2>2 DEF LimitInv, LimitTypeOK, Calls, Clear
<1>6. LimitTypeOK'
  BY <1>1, <1>2, <1>3, <1>5, EmptyQueue
     DEF LimitInv, LimitTypeOK, DebounceInv, Calls, Connect, Disconnect, Reboot
<1>7. QED
  BY <1>1, <1>2, <1>4, <1>6 DEF LimitInv

(* onConnect sends what is remembered, so the queue heads for it.          *)
LEMMA OnConnectKeeps ==
  ASSUME LimitInv, OnConnect
  PROVE  LimitInv'
<1>1. calls \in Seq(Calls)
  BY DEF LimitInv, LimitTypeOK, Calls
<1>2. DebounceInv' /\ RemembersWritten' /\ AmpsKnown' /\ CommandingKnown'
  BY DebouncerUntouched
     DEF LimitInv, RemembersWritten, AmpsKnown, CommandingKnown, OnConnect, loopVars
<1>3. onConnect' # "due"
  BY DEF OnConnect
<1>4. calls' \in Seq(Calls) /\ HeadedForLimit'
  <2>1. CASE lastLimit = NoValue
    BY <1>1, <2>1 DEF OnConnect, HeadedForLimit
  <2>2. CASE lastLimit # NoValue
    <3>1. lastLimit \in Values /\ calls' = Send(lastLimit, "connect") /\ lastLimit' = lastLimit
      BY <2>2 DEF OnConnect, LimitInv, LimitTypeOK
    <3>2. QED
      BY <1>1, <3>1, SendingHeads DEF HeadedForLimit, Senders
  <2>3. QED
    BY <2>1, <2>2
<1>5. LimitTypeOK'
  BY <1>2, <1>4 DEF LimitInv, LimitTypeOK, DebounceInv, OnConnect, loopVars, Calls
<1>6. DueIsUnsent'
  BY <1>3 DEF DueIsUnsent
<1>7. QED
  BY <1>2, <1>4, <1>5, <1>6 DEF LimitInv

(* The clear of the reconciler and the boot default do not count as limits.*)
LEMMA OtherCallsKeep ==
  ASSUME LimitInv, SessionClear \/ BootNotification
  PROVE  LimitInv'
<1>1. calls \in Seq(Calls)
  BY DEF LimitInv, LimitTypeOK, Calls
<1>2. DebounceInv' /\ RemembersWritten'
  BY DebouncerUntouched
     DEF LimitInv, RemembersWritten, SessionClear, BootNotification, serverVars
<1>3. /\ calls' \in Seq(Calls)
      /\ NoLimitIn(calls) => NoLimitIn(calls')
      /\ \A l : LastLimitIs(calls, l) => LastLimitIs(calls', l)
      /\ NoConnectIn(calls) => NoConnectIn(calls')
  BY <1>1, SendingOther DEF SessionClear, BootNotification, Senders
<1>4. HeadedForLimit' /\ DueIsUnsent'
  BY <1>3 DEF LimitInv, HeadedForLimit, DueIsUnsent, SessionClear, BootNotification, serverVars
<1>5. AmpsKnown' /\ CommandingKnown'
  BY DEF LimitInv, AmpsKnown, CommandingKnown, SessionClear, BootNotification, loopVars
<1>6. LimitTypeOK'
  BY <1>2, <1>3
     DEF LimitInv, LimitTypeOK, DebounceInv, Calls, Phases, SessionClear, BootNotification,
         loopVars, serverVars
<1>7. QED
  BY <1>2, <1>4, <1>5, <1>6 DEF LimitInv

(* Steps that touch neither the debouncer nor the server nor the queue.    *)
LEMMA QuietStepsKeep ==
  ASSUME LimitInv,
         TickHolds \/ SessionIdle \/ PlanChanges \/ Settle \/ UNCHANGED limitVars
  PROVE  LimitInv'
<1>1. UNCHANGED <<serverVars, calls, profile, offLimit, debounceVars>>
  BY DEF TickHolds, SessionIdle, PlanChanges, Settle, limitVars, serverVars
<1>2. DebounceInv' /\ RemembersWritten' /\ HeadedForLimit' /\ DueIsUnsent'
  BY <1>1, DebouncerUntouched
     DEF LimitInv, RemembersWritten, HeadedForLimit, DueIsUnsent, serverVars
<1>3. AmpsKnown' /\ CommandingKnown'
  BY DEF LimitInv, LimitTypeOK, AmpsKnown, CommandingKnown, TickHolds, SessionIdle, EndTick,
         PlanChanges, Settle, limitVars, loopVars
<1>4. LimitTypeOK'
  <2>1. settled' \in BOOLEAN /\ connected' \in BOOLEAN /\ bootDue' \in BOOLEAN
        /\ offLimit' \in BOOLEAN
    BY <1>1 DEF LimitInv, LimitTypeOK, TickHolds, SessionIdle, PlanChanges, Settle,
                limitVars, serverVars
  <2>2. /\ target' \in Targets
        /\ phase' \in Phases /\ amps' \in Targets \union {NoValue}
        /\ UNCHANGED <<commanding, lastCommandedA>>
    BY DEF LimitInv, LimitTypeOK, Phases, TickHolds, SessionIdle, EndTick, PlanChanges,
           Settle, limitVars, loopVars
  <2>3. QED
    BY <1>1, <1>2, <2>1, <2>2 DEF LimitInv, LimitTypeOK, DebounceInv, serverVars
<1>5. QED
  BY <1>2, <1>3, <1>4 DEF LimitInv

(* Nothing is written, remembered or enforced at first.                    *)
LEMMA InitKeeps == LimitInit => LimitInv
<1> SUFFICES ASSUME LimitInit PROVE LimitInv
  OBVIOUS
<1>1. DebounceInv
  BY InitInv DEF LimitInit
<1>2. calls = <<>> /\ lastLimit = NoValue /\ ~connected /\ phase = "idle"
  BY DEF LimitInit
<1>3. LimitTypeOK
  BY <1>1, EmptyQueue DEF LimitInit, LimitTypeOK, DebounceInv, Calls, Phases
<1>4. QED
  BY <1>1, <1>2, <1>3, EmptyQueue
     DEF LimitInv, LimitInit, DebounceInit, AmpsKnown, CommandingKnown, RemembersWritten,
         HeadedForLimit, DueIsUnsent

(* Every step of the path.                                                 *)
LEMMA NextKeepsLimitInv ==
  ASSUME LimitInv, [LimitNext]_limitVars
  PROVE  LimitInv'
<1>1. CASE ControlLoop
  BY <1>1, TickWritesKeeps, QuietStepsKeep, OtherCallsKeep, ReassertAfterClearKeeps
     DEF ControlLoop
<1>2. CASE TrailingTimer \/ Time
  BY <1>2, TrailingTimerKeeps, TimeKeeps
<1>3. CASE Server
  BY <1>3, SocketChangesKeep, OnConnectKeeps, OtherCallsKeep, CallSucceedsKeeps DEF Server
<1>4. CASE Surroundings
  BY <1>4, SocketChangesKeep, CallFailsKeeps, QuietStepsKeep DEF Surroundings
<1>5. CASE UNCHANGED limitVars
  BY <1>5, QuietStepsKeep
<1>6. QED
  BY <1>1, <1>2, <1>3, <1>4, <1>5 DEF LimitNext

----------------------------------------------------------------------------
(* Everything the path keeps true between its steps. *)
THEOREM LimitInvariant == LimitSpec => []LimitInv
<1>1. LimitInit => LimitInv
  BY InitKeeps
<1>2. LimitInv /\ [LimitNext]_limitVars => LimitInv'
  BY NextKeepsLimitInv
<1>3. QED
  BY <1>1, <1>2, PTL DEF LimitSpec

(* Types: no amps beyond the clamp reach the charger, whatever the plan    *)
(* asks for.                                                               *)
THEOREM LimitTypesHold == LimitSpec => []LimitTypeOK
<1>1. LimitInv => LimitTypeOK
  BY DEF LimitInv
<1>2. QED
  BY <1>1, LimitInvariant, PTL

(* server.onConnect: once a socket is re-asserted and drained, the charger *)
(* enforces what the debouncer holds for written, unless it is excused.    *)
THEOREM ReassertTheorem == LimitSpec => []ReassertedAfterReconnect
<1>1. LimitInv => ReassertedAfterReconnect
  <2> SUFFICES ASSUME LimitInv, connected, onConnect = "done", calls = <<>>, ~offLimit,
                      lastWritten # NoValue
               PROVE  profile = lastWritten
    BY DEF ReassertedAfterReconnect
  <2>1. lastLimit = lastWritten
    BY DEF LimitInv, RemembersWritten
  <2>2. ~LastLimitIs(calls, lastLimit)
    BY DEF LastLimitIs
  <2>3. QED
    BY <2>1, <2>2 DEF LimitInv, HeadedForLimit
<1>2. QED
  BY <1>1, LimitInvariant, PTL

(* The path drives the debouncer by its own steps only, so the debouncer's *)
(* promise about a pending value holds in the running system.              *)
THEOREM PathKeepsPendingLatest == LimitSpec => []PendingIsLatest
<1>1. LimitInv => PendingIsLatest
  BY DEF LimitInv, DebounceInv
<1>2. QED
  BY <1>1, LimitInvariant, PTL

(* Every step of the path is a step of the debouncer or leaves it alone.   *)
LEMMA PathStepsDebounce ==
  ASSUME LimitInv, [LimitNext]_limitVars
  PROVE  [DebounceNext]_debounceVars
<1>1. CASE TickWrites
  <2>1. softStartLimit(target) \in Commands
    BY SoftStartIsCommand DEF LimitInv, LimitTypeOK
  <2>2. Set(Clamp(softStartLimit(target)))
    BY <1>1 DEF TickWrites, setCurrentLimit
  <2>3. QED
    BY <2>1, <2>2, ClampedIsValue DEF DebounceNext
<1>2. CASE ReassertAfterClear
  <2>1. amps \in Commands /\ Set(Clamp(amps))
    BY <1>2 DEF LimitInv, AmpsKnown, ReassertAfterClear, setCurrentLimit, Commands
  <2>2. QED
    BY <2>1, ClampedIsValue DEF DebounceNext
<1>3. CASE TrailingTimer \/ Time
  BY <1>3 DEF TrailingTimer, Time, DebounceNext
<1>4. CASE TickHolds \/ SessionIdle \/ SessionClear \/ Server \/ Surroundings
  BY <1>4 DEF TickHolds, SessionIdle, SessionClear, Server, Connect, OnConnect,
              BootNotification, CallSucceeds, Surroundings, Disconnect, Reboot, CallFails,
              PlanChanges, Settle
<1>5. CASE UNCHANGED limitVars
  BY <1>5 DEF limitVars
<1>6. QED
  BY <1>1, <1>2, <1>3, <1>4, <1>5 DEF LimitNext, ControlLoop

(* So however ticks, re-asserts and reconnects interleave, the charger is  *)
(* given at most two limits of the plan per write interval.                *)
THEOREM PathWritesAreSpaced == LimitSpec => AtMostTwoWritesPerInterval
<1>1. LimitInv /\ [LimitNext]_limitVars
        => [lastWritten' # lastWritten => sinceWrite + lastGap >= MinInterval]_debounceVars
  <2> SUFFICES ASSUME LimitInv, [LimitNext]_limitVars, lastWritten' # lastWritten
               PROVE  sinceWrite + lastGap >= MinInterval
    OBVIOUS
  <2>1. DebounceNext
    BY PathStepsDebounce DEF debounceVars
  <2>2. QED
    BY <2>1, WritesAreSpaced DEF LimitInv
<1>2. QED
  BY LimitInvariant, <1>1, PTL DEF LimitSpec, AtMostTwoWritesPerInterval

=============================================================================
