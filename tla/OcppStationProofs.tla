------------------------- MODULE OcppStationProofs -------------------------
(***************************************************************************)
(* Theorems about a station of OcppServer, for every number of sockets,    *)
(* transactions, plug-ins and messages under way: the server never loses   *)
(* the live socket, it holds the id of the running transaction, a plug-in  *)
(* is auto-started at most once, and the next car always is.               *)
(*                                                                         *)
(* All four depend on what is still under way to the server, so most of    *)
(* the inductive invariant speaks of positions in the inbox.               *)
(***************************************************************************)
EXTENDS OcppStation, TLAPS, WellFoundedInduction

----------------------------------------------------------------------------
(* Messages, and what follows a position k of a queue q; 0 is the message  *)
(* handled last.  c stands for the cable.                                  *)
IsStatus(m) == m.kind = "status"
IsIdle(m) == IsStatus(m) /\ m.status = "Available"
IsCar(m) == IsStatus(m) /\ m.status # "Available"
Names(m) == m.kind = "start" \/ (m.kind = "meter" /\ m.tx # None)

(* Nothing of plug-in p comes after position k, nor is p still plugged in. *)
PlugInOver(q, c, k, p) ==
    c # p /\ \A j \in k + 1 .. Len(q) : IsStatus(q[j]) => q[j].plug # p

(* After position k, a transaction is only named once its car was seen.    *)
CarSeenFirst(q, c, k) ==
    /\ \A j \in k + 1 .. Len(q) :
          Names(q[j]) => \E i \in k + 1 .. j - 1 : IsCar(q[i])
    /\ c # 0 => \E i \in k + 1 .. Len(q) : IsCar(q[i])

----------------------------------------------------------------------------
(* The parts of the inductive invariant.                                   *)

(* Offline nothing is under way; online no stop is kept back.              *)
OfflineOrEmptied ==
    /\ cur = None => inbox = <<>>
    /\ cur # None => backlog = None

(* Room for the answer to TriggerMessage that is still owed.               *)
RoomForTrigger == cur \in onConn => Len(inbox) <= MaxInbox + 1

(* The charger reports a car exactly when there is one, and has a          *)
(* transaction only with a car.                                            *)
CableMatchesStatus ==
    /\ status = "Available" <=> cable = 0
    /\ ctx # None => cable # 0

(* Ids are handed out from below. *)
FreeUpwards == \A i, j \in Ids : i < j /\ rows[i] = "free" => rows[j] = "free"

(* A StartTransaction under way is the charger's only one, and only the    *)
(* car's own statuses follow it.                                           *)
StartIsLast(q, x) ==
    \A i \in 1 .. Len(q) : q[i].kind = "start" =>
        x = Starting /\ \A j \in i + 1 .. Len(q) : IsCar(q[j])

(* What is under way while transaction x runs.                             *)
NothingForeign(q, x) ==
    x \in Ids => \A i \in 1 .. Len(q) :
        IsCar(q[i]) \/ (q[i].kind = "meter" /\ q[i].tx \in {None, x})

(* The running transaction has the newest row, which is open, and the      *)
(* server holds it.                                                        *)
RunningIsNewest ==
    ctx \in Ids =>
        /\ rows[ctx] = "open" /\ \A j \in Ids : ctx < j => rows[j] = "free"
        /\ backlog = None
        /\ cur # None => activeTx = ctx

(* Plug-ins are numbered as they come. *)
PlugNumbers(q, n) ==
    \A i \in 1 .. Len(q) : IsStatus(q[i]) =>
        q[i].plug <= n /\ (IsIdle(q[i]) <=> q[i].plug = 0)

(* An Available ends the plug-in of every status before it.                *)
AvailableEnds(q, c) ==
    \A k \in 1 .. Len(q) : IsIdle(q[k]) =>
        \A i \in 1 .. k - 1 : IsCar(q[i]) => PlugInOver(q, c, k, q[i].plug)

(* ... and every auto-started one; so does whatever re-armed the start.    *)
AutoStartedOver(q, c, started, armed) ==
    \A p \in started :
        /\ armed => PlugInOver(q, c, 0, p)
        /\ \A k \in 1 .. Len(q) : IsIdle(q[k]) => PlugInOver(q, c, k, p)

(* After an Available, handled or not, the next car is seen before a       *)
(* transaction of it is named.                                             *)
NextCarSeenFirst(q, c, idle) ==
    /\ idle => CarSeenFirst(q, c, 0)
    /\ \A k \in 1 .. Len(q) : IsIdle(q[k]) => CarSeenFirst(q, c, k)

(* From position k up to the next Available everything is of plug-in p.    *)
UntilIdle(q, c, k, p) ==
    /\ \A i \in k + 1 .. Len(q) :
          IsCar(q[i]) /\ (\A j \in k + 1 .. i - 1 : ~IsIdle(q[j])) => q[i].plug = p
    /\ (\A j \in k + 1 .. Len(q) : ~IsIdle(q[j])) => c = p

(* Every status is followed by its own plug-in's, up to the next Available. *)
SamePlug(q, c) == \A i \in 1 .. Len(q) : IsCar(q[i]) => UntilIdle(q, c, i, q[i].plug)

(* The guard that holds a start back is of the plug-in under way.          *)
GuardOfThisCar(q, c, started, armed) ==
    ~armed => \E p \in started : UntilIdle(q, c, 0, p)

(* An Available clears what the server holds of the car before it.         *)
IdleServer == cur # None /\ wasAvailable => activeTx = None /\ ~hasAutoStarted

(* All that concerns the plug-ins a queue speaks of. *)
Underway(q, c, n, started, armed, idle) ==
    /\ PlugNumbers(q, n) /\ AvailableEnds(q, c)
    /\ AutoStartedOver(q, c, started, armed)
    /\ NextCarSeenFirst(q, c, idle)
    /\ SamePlug(q, c) /\ GuardOfThisCar(q, c, started, armed)

OcppInv ==
    /\ OcppTypeOK /\ LiveSocketRegistered
    /\ OfflineOrEmptied /\ RoomForTrigger /\ CableMatchesStatus /\ FreeUpwards
    /\ RunningIsNewest /\ IdleServer /\ autoStarted \subseteq 1 .. plugs
    /\ StartIsLast(inbox, ctx) /\ NothingForeign(inbox, ctx)
    /\ cur # None => Underway(inbox, cable, plugs, autoStarted, ~hasAutoStarted, wasAvailable)

----------------------------------------------------------------------------
(* Lemmas on queues: what Append and Tail do to a position.                *)
LEMMA AppendAt ==
  ASSUME NEW S, NEW q \in Seq(S), NEW m \in S
  PROVE  /\ Append(q, m) \in Seq(S) /\ Len(q) \in Nat
         /\ Len(Append(q, m)) = Len(q) + 1
         /\ \A i \in 1 .. Len(q) : Append(q, m)[i] = q[i]
         /\ Append(q, m)[Len(q) + 1] = m
  OBVIOUS

LEMMA TailAt ==
  ASSUME NEW S, NEW q \in Seq(S), q # <<>>
  PROVE  /\ Tail(q) \in Seq(S) /\ Len(q) \in Nat \ {0}
         /\ Len(Tail(q)) = Len(q) - 1
         /\ \A i \in 1 .. Len(q) - 1 : Tail(q)[i] = q[i + 1]
         /\ Head(q) = q[1] /\ q[1] \in S
  OBVIOUS

(* What the loadpoint folds. *)
LpStates == [status : Statuses \union {None, "Unavailable"},
             connected : BOOLEAN, charging : BOOLEAN]

LEMMA FoldedStates ==
  /\ Folded("Unavailable", FALSE, FALSE) \in LpStates
  /\ Folded(None, FALSE, FALSE) \in LpStates
  /\ Folded("Charging", TRUE, TRUE) \in LpStates
  /\ Folded("Finishing", TRUE, FALSE) \in LpStates
  /\ \A st \in Statuses, b, c \in BOOLEAN : Folded(st, b, c) \in LpStates
<1>1. {"Charging", "Finishing"} \subseteq Statuses
  BY DEF Statuses
<1>2. \A st \in Statuses \union {None, "Unavailable"}, b, c \in BOOLEAN :
         Folded(st, b, c) \in LpStates
  BY DEF Folded, LpStates
<1>3. FALSE \in BOOLEAN /\ TRUE \in BOOLEAN
  BY Zenon
<1>4. Folded(None, FALSE, FALSE) \in LpStates /\ Folded("Unavailable", FALSE, FALSE) \in LpStates
  BY <1>2, <1>3, Zenon
<1>5. Folded("Charging", TRUE, TRUE) \in LpStates /\ Folded("Finishing", TRUE, FALSE) \in LpStates
  BY <1>1, <1>2, <1>3, Zenon
<1>. QED  BY <1>2, <1>4, <1>5

(* The messages of the charger, and their kinds.                           *)
LEMMA MessageKinds ==
  ASSUME NEW m \in Messages
  PROVE  /\ IsStatus(m) => m.status \in Statuses /\ m.plug \in 0 .. MaxPlugs
         /\ m.kind = "meter" => m.tx \in Ids \union {None}
         /\ m.kind = "stop" => m.tx \in Ids
         /\ m.kind \in {"status", "start", "stop", "meter"}
  BY DEF Messages, IsStatus

LEMMA MessagesSent ==
  /\ \A st \in Statuses, p \in 0 .. MaxPlugs :
        StatusOf(st, p) \in Messages /\ IsStatus(StatusOf(st, p))
        /\ StatusOf(st, p).plug = p /\ StatusOf(st, p).status = st
  /\ Controller0 \in Messages /\ IsIdle(Controller0) /\ Controller0.plug = 0
  /\ \A i \in Ids : StopOf(i) \in Messages /\ StopOf(i).kind = "stop" /\ StopOf(i).tx = i
  /\ [kind |-> "start"] \in Messages
  /\ \A t \in Ids \union {None} : [kind |-> "meter", tx |-> t] \in Messages
  BY OcppAssumption
     DEF Messages, StatusOf, Statuses, Controller0, StopOf, IsStatus, IsIdle

----------------------------------------------------------------------------
(* Sending keeps apart what is apart, when the message speaks of the cable *)
(* as it now is (d), and a new plug-in is beyond all numbers so far (n).   *)
Orderly(m, c, d, n) ==
    /\ d \in {0, c} \/ d > n
    /\ IsStatus(m) => m.plug = d /\ (IsIdle(m) <=> d = 0)
    /\ Names(m) => c # 0
    /\ d = c \/ (d = 0 /\ IsIdle(m)) \/ (c = 0 /\ IsCar(m))

LEMMA OverAppend ==
  ASSUME NEW q \in Seq(Messages), NEW m \in Messages, NEW c \in Nat, NEW d \in Nat,
         NEW n \in Nat, NEW k \in 0 .. Len(q), NEW p \in 1 .. n,
         Orderly(m, c, d, n), PlugInOver(q, c, k, p)
  PROVE  PlugInOver(Append(q, m), d, k, p)
  BY AppendAt DEF Orderly, PlugInOver

LEMMA SeenAppend ==
  ASSUME NEW q \in Seq(Messages), NEW m \in Messages, NEW c \in Nat, NEW d \in Nat,
         NEW n \in Nat, NEW k \in 0 .. Len(q), Orderly(m, c, d, n), CarSeenFirst(q, c, k)
  PROVE  CarSeenFirst(Append(q, m), d, k)
  BY AppendAt DEF Orderly, CarSeenFirst

LEMMA UntilAppend ==
  ASSUME NEW q \in Seq(Messages), NEW m \in Messages, NEW c \in Nat, NEW d \in Nat,
         NEW n \in Nat, NEW k \in 0 .. Len(q), NEW p \in 1 .. n,
         Orderly(m, c, d, n), UntilIdle(q, c, k, p)
  PROVE  UntilIdle(Append(q, m), d, k, p)
<1>. DEFINE r == Append(q, m)
<1>1. /\ Len(q) \in Nat /\ Len(r) = Len(q) + 1 /\ r[Len(q) + 1] = m
      /\ \A i \in 1 .. Len(q) : r[i] = q[i]
  BY AppendAt
<1>. HIDE DEF r
<1>2. ASSUME \A j \in k + 1 .. Len(q) : ~IsIdle(q[j]), ~IsIdle(m)
      PROVE  d = p /\ (IsCar(m) => m.plug = p)
  BY <1>2 DEF UntilIdle, Orderly, IsCar
<1>3. ASSUME NEW i \in k + 1 .. Len(r), IsCar(r[i]), \A j \in k + 1 .. i - 1 : ~IsIdle(r[j])
      PROVE  r[i].plug = p
  <2>1. CASE i = Len(q) + 1
    <3>1. ASSUME NEW j \in k + 1 .. Len(q) PROVE ~IsIdle(q[j])
      <4>1. j \in k + 1 .. i - 1 /\ j \in 1 .. Len(q)
        BY <1>1, <2>1
      <4>. QED  BY <1>1, <1>3, <4>1
    <3>2. IsCar(m) /\ ~IsIdle(m) /\ r[i] = m
      BY <1>1, <1>3, <2>1 DEF IsCar, IsIdle
    <3>. QED  BY <1>2, <3>1, <3>2
  <2>2. CASE i \in k + 1 .. Len(q)
    BY <1>1, <1>3, <2>2 DEF UntilIdle
  <2>. QED  BY <1>1, <2>1, <2>2
<1>4. ASSUME \A j \in k + 1 .. Len(r) : ~IsIdle(r[j]) PROVE d = p
  <2>1. \A j \in k + 1 .. Len(q) : ~IsIdle(q[j])
    BY <1>1, <1>4
  <2>2. ~IsIdle(m)
    BY <1>1, <1>4
  <2>. QED  BY <1>2, <2>1, <2>2
<1>. QED  BY <1>3, <1>4 DEF UntilIdle, r

LEMMA OverTail ==
  ASSUME NEW q \in Seq(Messages), q # <<>>, NEW c, NEW k \in Nat, NEW p,
         PlugInOver(q, c, k + 1, p) \/ (k = 0 /\ PlugInOver(q, c, 0, p))
  PROVE  PlugInOver(Tail(q), c, k, p)
  BY TailAt DEF PlugInOver

LEMMA UntilTail ==
  ASSUME NEW q \in Seq(Messages), q # <<>>, NEW c, NEW k \in Nat, NEW p,
         \/ UntilIdle(q, c, k + 1, p)
         \/ k = 0 /\ UntilIdle(q, c, 0, p) /\ ~IsIdle(q[1])
  PROVE  UntilIdle(Tail(q), c, k, p)
<1>. DEFINE r == Tail(q)
<1>1. /\ Len(q) \in Nat \ {0} /\ Len(r) = Len(q) - 1
      /\ \A i \in 1 .. Len(q) - 1 : r[i] = q[i + 1]
  BY TailAt
<1>. HIDE DEF r
<1>2. \A j \in k + 2 .. Len(q) : q[j] = r[j - 1] /\ j - 1 \in k + 1 .. Len(r)
  BY <1>1
<1>3. PICK l \in {0, k + 1} : UntilIdle(q, c, l, p) /\ (l = 0 => k = 0 /\ ~IsIdle(q[1]))
  OBVIOUS
<1>4. ASSUME NEW i \in k + 1 .. Len(r), IsCar(r[i]), \A j \in k + 1 .. i - 1 : ~IsIdle(r[j])
      PROVE  r[i].plug = p
  <2>1. i + 1 \in l + 1 .. Len(q) /\ q[i + 1] = r[i]
    BY <1>1, <1>3, <1>4
  <2>2. \A j \in l + 1 .. (i + 1) - 1 : ~IsIdle(q[j])
    <3>. SUFFICES ASSUME NEW j \in l + 1 .. i PROVE ~IsIdle(q[j])
      OBVIOUS
    <3>1. CASE j \in k + 2 .. i
      <4>1. j - 1 \in k + 1 .. i - 1 /\ q[j] = r[j - 1]
        BY <1>1, <1>4, <3>1
      <4>. QED  BY <1>4, <4>1
    <3>2. CASE j \notin k + 2 .. i
      BY <1>3, <3>2
    <3>. QED  BY <3>1, <3>2
  <2>. QED  BY <1>3, <1>4, <2>1, <2>2 DEF UntilIdle
<1>5. ASSUME \A j \in k + 1 .. Len(r) : ~IsIdle(r[j]) PROVE c = p
  <2>1. ASSUME NEW j \in l + 1 .. Len(q) PROVE ~IsIdle(q[j])
    <3>1. CASE j \in k + 2 .. Len(q)
      BY <1>2, <1>5, <3>1
    <3>2. CASE j \notin k + 2 .. Len(q)
      BY <1>3, <2>1, <3>2
    <3>. QED  BY <3>1, <3>2
  <2>. QED  BY <1>3, <2>1 DEF UntilIdle
<1>. QED  BY <1>4, <1>5 DEF UntilIdle, r

LEMMA SeenTail ==
  ASSUME NEW q \in Seq(Messages), q # <<>>, NEW c, NEW k \in Nat,
         \/ CarSeenFirst(q, c, k + 1)
         \/ k = 0 /\ CarSeenFirst(q, c, 0) /\ ~IsCar(q[1])
  PROVE  CarSeenFirst(Tail(q), c, k)
<1>. DEFINE l == IF CarSeenFirst(q, c, k + 1) THEN k + 1 ELSE 0
<1>1. CarSeenFirst(q, c, l) /\ l \in {k, k + 1} /\ (l = k => k = 0 /\ ~IsCar(q[1]))
  OBVIOUS
<1>2. \A i \in l + 1 .. Len(q) : IsCar(q[i]) => i - 1 \in k + 1 .. Len(q) - 1
                                                /\ IsCar(Tail(q)[i - 1])
  BY <1>1, TailAt
<1>. HIDE DEF l
<1>3. ASSUME NEW j \in k + 1 .. Len(Tail(q)), Names(Tail(q)[j])
      PROVE  \E i \in k + 1 .. j - 1 : IsCar(Tail(q)[i])
  <2>1. j + 1 \in l + 1 .. Len(q) /\ Names(q[j + 1])
    BY <1>1, <1>3, TailAt
  <2>2. PICK i \in l + 1 .. j + 1 - 1 : IsCar(q[i])
    BY <1>1, <2>1 DEF CarSeenFirst
  <2>3. i - 1 \in k + 1 .. j - 1 /\ IsCar(Tail(q)[i - 1])
    BY <1>1, <1>2, <2>1, <2>2
  <2>. QED  BY <2>3
<1>4. ASSUME c # 0 PROVE \E i \in k + 1 .. Len(Tail(q)) : IsCar(Tail(q)[i])
  <2>1. PICK i \in l + 1 .. Len(q) : IsCar(q[i])
    BY <1>1, <1>4 DEF CarSeenFirst
  <2>. QED  BY <1>2, <2>1, TailAt
<1>. QED  BY <1>3, <1>4 DEF CarSeenFirst

(* An orderly message keeps everything about the plug-ins. *)
LEMMA UnderwayAppend ==
  ASSUME NEW q \in Seq(Messages), NEW m \in Messages, NEW c \in Nat, NEW d \in Nat,
         NEW n \in Nat, NEW n1 \in Nat, NEW S \in SUBSET (1 .. n),
         NEW armed \in BOOLEAN, NEW idle \in BOOLEAN,
         Underway(q, c, n, S, armed, idle), Orderly(m, c, d, n), n <= n1, d <= n1
  PROVE  Underway(Append(q, m), d, n1, S, armed, idle)
<1>. DEFINE r == Append(q, m)
<1>1. /\ r \in Seq(Messages) /\ Len(q) \in Nat /\ Len(r) = Len(q) + 1
      /\ \A i \in 1 .. Len(q) : r[i] = q[i]
      /\ r[Len(q) + 1] = m
  BY AppendAt
<1>2. \A i \in 1 .. Len(q) : IsCar(q[i]) => q[i].plug \in 1 .. n
  <2>1. \A i \in 1 .. Len(q) : q[i] \in Messages
    OBVIOUS
  <2>. QED  BY <2>1, MessageKinds, OcppAssumption DEF Underway, PlugNumbers, IsIdle, IsCar
<1>3. IsIdle(m) => d = 0
  BY DEF Orderly, IsIdle
<1>. HIDE DEF r
<1>4. PlugNumbers(r, n1)
  <2>1. ASSUME NEW i \in 1 .. Len(r), IsStatus(r[i])
        PROVE  r[i].plug <= n1 /\ (IsIdle(r[i]) <=> r[i].plug = 0)
    <3>1. CASE i = Len(q) + 1
      BY <1>1, <2>1, <3>1 DEF Orderly
    <3>2. CASE i \in 1 .. Len(q)
      <4>1. q[i].plug \in Nat /\ q[i].plug <= n
        BY <1>1, <2>1, <3>2, MessageKinds, OcppAssumption DEF Underway, PlugNumbers
      <4>. QED  BY <1>1, <2>1, <3>2, <4>1 DEF Underway, PlugNumbers
    <3>. QED  BY <1>1, <3>1, <3>2
  <2>. QED  BY <2>1 DEF PlugNumbers
<1>5. AvailableEnds(r, d)
  <2>1. ASSUME NEW k \in 1 .. Len(r), IsIdle(r[k]), NEW i \in 1 .. k - 1, IsCar(r[i])
        PROVE  PlugInOver(r, d, k, r[i].plug)
    <3>1. i \in 1 .. Len(q) /\ r[i] = q[i] /\ q[i].plug \in 1 .. n
      BY <1>1, <1>2, <2>1
    <3>2. CASE k = Len(q) + 1
      BY <1>1, <1>3, <2>1, <3>1, <3>2 DEF PlugInOver
    <3>3. CASE k \in 1 .. Len(q)
      <4>1. PlugInOver(q, c, k, q[i].plug)
        BY <1>1, <2>1, <3>1, <3>3 DEF Underway, AvailableEnds
      <4>. QED  BY <1>1, <3>1, <3>3, <4>1, OverAppend DEF r
    <3>. QED  BY <1>1, <3>2, <3>3
  <2>. QED  BY <2>1 DEF AvailableEnds
<1>6. AutoStartedOver(r, d, S, armed)
  <2>1. ASSUME NEW p \in S, armed PROVE PlugInOver(r, d, 0, p)
    <3>1. PlugInOver(q, c, 0, p)
      BY <2>1 DEF Underway, AutoStartedOver
    <3>2. p \in 1 .. n /\ 0 \in 0 .. Len(q)
      BY <1>1
    <3>. QED  BY <3>1, <3>2, OverAppend DEF r
  <2>2. ASSUME NEW p \in S, NEW k \in 1 .. Len(r), IsIdle(r[k])
        PROVE  PlugInOver(r, d, k, p)
    <3>1. CASE k = Len(q) + 1
      BY <1>1, <1>3, <2>2, <3>1 DEF PlugInOver
    <3>2. CASE k \in 1 .. Len(q)
      <4>1. PlugInOver(q, c, k, p)
        BY <1>1, <2>2, <3>2 DEF Underway, AutoStartedOver
      <4>. QED  BY <1>1, <3>2, <4>1, OverAppend DEF r
    <3>. QED  BY <1>1, <3>1, <3>2
  <2>. QED  BY <2>1, <2>2 DEF AutoStartedOver
<1>7. NextCarSeenFirst(r, d, idle)
  <2>1. ASSUME idle PROVE CarSeenFirst(r, d, 0)
    BY <1>1, <2>1, SeenAppend DEF Underway, NextCarSeenFirst, r
  <2>2. ASSUME NEW k \in 1 .. Len(r), IsIdle(r[k]) PROVE CarSeenFirst(r, d, k)
    <3>1. CASE k = Len(q) + 1
      BY <1>1, <1>3, <2>2, <3>1 DEF CarSeenFirst
    <3>2. CASE k \in 1 .. Len(q)
      <4>1. CarSeenFirst(q, c, k)
        BY <1>1, <2>2, <3>2 DEF Underway, NextCarSeenFirst
      <4>. QED  BY <1>1, <3>2, <4>1, SeenAppend DEF r
    <3>. QED  BY <1>1, <3>1, <3>2
  <2>. QED  BY <2>1, <2>2 DEF NextCarSeenFirst
<1>8. SamePlug(r, d)
  <2>1. ASSUME NEW i \in 1 .. Len(r), IsCar(r[i]) PROVE UntilIdle(r, d, i, r[i].plug)
    <3>1. CASE i = Len(q) + 1
      <4>1. m.plug = d
        BY <1>1, <2>1, <3>1 DEF Orderly, IsCar
      <4>. QED  BY <1>1, <3>1, <4>1 DEF UntilIdle
    <3>2. CASE i \in 1 .. Len(q)
      <4>1. r[i] = q[i] /\ q[i].plug \in 1 .. n /\ i \in 0 .. Len(q)
        BY <1>1, <1>2, <2>1, <3>2
      <4>2. UntilIdle(q, c, i, q[i].plug)
        BY <2>1, <3>2, <4>1 DEF Underway, SamePlug
      <4>. QED  BY <4>1, <4>2, UntilAppend DEF r
    <3>. QED  BY <1>1, <3>1, <3>2
  <2>. QED  BY <2>1 DEF SamePlug
<1>9. GuardOfThisCar(r, d, S, armed)
  <2>. SUFFICES ASSUME ~armed PROVE \E p \in S : UntilIdle(r, d, 0, p)
    BY DEF GuardOfThisCar
  <2>1. PICK p \in S : UntilIdle(q, c, 0, p)
    BY DEF Underway, GuardOfThisCar
  <2>2. p \in 1 .. n /\ 0 \in 0 .. Len(q)
    BY <1>1
  <2>3. UntilIdle(r, d, 0, p)
    BY <2>1, <2>2, UntilAppend DEF r
  <2>. QED  BY <2>3
<1>. QED  BY <1>4, <1>5, <1>6, <1>7, <1>8, <1>9 DEF Underway, r

(* Handling the head: what held behind it holds behind nothing if it was   *)
(* an Available; otherwise what held from the start still does.            *)
LEMMA UnderwayTail ==
  ASSUME NEW q \in Seq(Messages), q # <<>>, NEW c \in Nat, NEW n \in Nat,
         NEW S \in SUBSET (1 .. n), NEW T \in SUBSET (1 .. n),
         NEW armed \in BOOLEAN, NEW idle \in BOOLEAN,
         NEW armed1 \in BOOLEAN, NEW idle1 \in BOOLEAN,
         Underway(q, c, n, S, armed, idle),
         armed1 => T = S /\ (armed \/ IsIdle(q[1])),
         idle1 => (idle /\ ~IsCar(q[1])) \/ IsIdle(q[1]),
         T = S \/ (IsCar(q[1]) /\ T = S \union {q[1].plug}),
         ~armed1 => (~armed /\ ~IsIdle(q[1])) \/ (IsCar(q[1]) /\ q[1].plug \in T)
  PROVE  Underway(Tail(q), c, n, T, armed1, idle1)
<1>. DEFINE r == Tail(q)
<1>1. /\ r \in Seq(Messages) /\ Len(q) \in Nat \ {0} /\ Len(r) = Len(q) - 1
      /\ \A i \in 1 .. Len(r) : r[i] = q[i + 1] /\ i + 1 \in 1 .. Len(q)
      /\ 1 \in 1 .. Len(q)
  BY TailAt
<1>. HIDE DEF r
<1>2. PlugNumbers(r, n)
  BY <1>1 DEF Underway, PlugNumbers
<1>3. AvailableEnds(r, c)
  <2>1. ASSUME NEW k \in 1 .. Len(r), IsIdle(r[k]), NEW i \in 1 .. k - 1, IsCar(r[i])
        PROVE  PlugInOver(r, c, k, r[i].plug)
    <3>1. i + 1 \in 1 .. (k + 1) - 1 /\ k + 1 \in 1 .. Len(q) /\ r[i] = q[i + 1]
      <4>1. i \in 1 .. Len(r) /\ Len(r) \in Nat
        BY <1>1, <2>1
      <4>. QED  BY <1>1, <4>1
    <3>2. PlugInOver(q, c, k + 1, q[i + 1].plug)
      BY <1>1, <2>1, <3>1 DEF Underway, AvailableEnds
    <3>. QED  BY <3>1, <3>2, OverTail DEF r
  <2>. QED  BY <2>1 DEF AvailableEnds
<1>4. AutoStartedOver(r, c, T, armed1)
  <2>1. ASSUME NEW p \in T, armed1 PROVE PlugInOver(r, c, 0, p)
    <3>1. PlugInOver(q, c, 0, p) \/ PlugInOver(q, c, 0 + 1, p)
      BY <1>1, <2>1 DEF Underway, AutoStartedOver
    <3>. QED  BY <3>1, OverTail DEF r
  <2>2. ASSUME NEW p \in T, NEW k \in 1 .. Len(r), IsIdle(r[k])
        PROVE  PlugInOver(r, c, k, p)
    <3>1. k + 1 \in 1 .. Len(q) /\ IsIdle(q[k + 1])
      BY <1>1, <2>2
    <3>2. PlugInOver(q, c, k + 1, p)
      <4>1. CASE p \in S
        BY <3>1, <4>1 DEF Underway, AutoStartedOver
      <4>2. CASE p \notin S
        <5>1. IsCar(q[1]) /\ p = q[1].plug /\ 1 \in 1 .. (k + 1) - 1
          BY <4>2
        <5>. QED  BY <3>1, <5>1 DEF Underway, AvailableEnds
      <4>. QED  BY <4>1, <4>2
    <3>. QED  BY <3>2, OverTail DEF r
  <2>. QED  BY <2>1, <2>2 DEF AutoStartedOver
<1>5. NextCarSeenFirst(r, c, idle1)
  <2>1. ASSUME idle1 PROVE CarSeenFirst(r, c, 0)
    <3>1. \/ CarSeenFirst(q, c, 0) /\ ~IsCar(q[1])
          \/ CarSeenFirst(q, c, 0 + 1)
      BY <1>1, <2>1 DEF Underway, NextCarSeenFirst
    <3>. QED  BY <3>1, SeenTail DEF r
  <2>2. ASSUME NEW k \in 1 .. Len(r), IsIdle(r[k]) PROVE CarSeenFirst(r, c, k)
    <3>1. CarSeenFirst(q, c, k + 1)
      BY <1>1, <2>2 DEF Underway, NextCarSeenFirst
    <3>. QED  BY <3>1, SeenTail DEF r
  <2>. QED  BY <2>1, <2>2 DEF NextCarSeenFirst
<1>6. SamePlug(r, c)
  <2>1. ASSUME NEW i \in 1 .. Len(r), IsCar(r[i]) PROVE UntilIdle(r, c, i, r[i].plug)
    <3>1. UntilIdle(q, c, i + 1, r[i].plug)
      BY <1>1, <2>1 DEF Underway, SamePlug
    <3>. QED  BY <3>1, UntilTail DEF r
  <2>. QED  BY <2>1 DEF SamePlug
<1>7. GuardOfThisCar(r, c, T, armed1)
  <2>. SUFFICES ASSUME ~armed1 PROVE \E p \in T : UntilIdle(r, c, 0, p)
    BY DEF GuardOfThisCar
  <2>1. CASE ~armed /\ ~IsIdle(q[1])
    <3>1. PICK p \in S : UntilIdle(q, c, 0, p)
      BY <2>1 DEF Underway, GuardOfThisCar
    <3>2. UntilIdle(r, c, 0, p) /\ p \in T
      BY <2>1, <3>1, UntilTail DEF r
    <3>. QED  BY <3>2
  <2>2. CASE IsCar(q[1]) /\ q[1].plug \in T
    <3>1. UntilIdle(q, c, 0 + 1, q[1].plug)
      BY <1>1, <2>2 DEF Underway, SamePlug
    <3>2. UntilIdle(r, c, 0, q[1].plug)
      BY <3>1, UntilTail DEF r
    <3>. QED  BY <2>2, <3>2
  <2>. QED  BY <2>1, <2>2
<1>. QED  BY <1>2, <1>3, <1>4, <1>5, <1>6, <1>7 DEF Underway, r

----------------------------------------------------------------------------
(* The transaction a queue speaks of, when x runs before and y after.      *)
Speaks(m, x, y) ==
    /\ (IsCar(m) /\ y = x) \/ (x # Starting /\ (m.kind = "start" => y = Starting))
    /\ y \in Ids => y = x /\ (IsCar(m) \/ (m.kind = "meter" /\ m.tx \in {None, y}))

LEMMA TransactionAppend ==
  ASSUME NEW q \in Seq(Messages), NEW m \in Messages, NEW x, NEW y,
         StartIsLast(q, x), NothingForeign(q, x), Speaks(m, x, y)
  PROVE  StartIsLast(Append(q, m), y) /\ NothingForeign(Append(q, m), y)
<1>1. IsCar(m) => m.kind # "start"
  BY DEF IsCar, IsStatus
<1>2. StartIsLast(Append(q, m), y)
  BY <1>1, AppendAt DEF StartIsLast, Speaks
<1>3. NothingForeign(Append(q, m), y)
  BY AppendAt DEF NothingForeign, Speaks
<1>. QED  BY <1>2, <1>3

LEMMA TransactionTail ==
  ASSUME NEW q \in Seq(Messages), q # <<>>, NEW x, NEW y,
         StartIsLast(q, x), NothingForeign(q, x), y = x \/ q[1].kind = "start"
  PROVE  StartIsLast(Tail(q), y) /\ NothingForeign(Tail(q), y)
<1>1. StartIsLast(Tail(q), y)
  BY TailAt DEF StartIsLast, IsCar, IsStatus
<1>2. NothingForeign(Tail(q), y)
  BY TailAt DEF NothingForeign, StartIsLast
<1>. QED  BY <1>1, <1>2

(* One message sent, or lost when the charger is offline. *)
LEMMA OneSent ==
  ASSUME OcppInv, NEW m \in Messages, NEW d \in Nat, NEW n1 \in Nat, NEW y,
         Orderly(m, cable, d, plugs), plugs <= n1, d <= n1,
         Speaks(m, ctx, y) \/ cur = None
  PROVE  /\ Sent(<<m>>) \in Seq(Messages)
         /\ Len(Sent(<<m>>)) \in Nat /\ Len(Sent(<<m>>)) <= Len(inbox) + 1
         /\ cur = None => Sent(<<m>>) = <<>>
         /\ StartIsLast(Sent(<<m>>), y) /\ NothingForeign(Sent(<<m>>), y)
         /\ cur # None => Underway(Sent(<<m>>), d, n1, autoStarted, ~hasAutoStarted,
                                   wasAvailable)
<1>1. /\ inbox \in Seq(Messages) /\ cable \in Nat /\ plugs \in Nat
      /\ autoStarted \in SUBSET (1 .. plugs)
      /\ (~hasAutoStarted) \in BOOLEAN /\ wasAvailable \in BOOLEAN
      /\ Len(inbox) \in Nat
  BY OcppAssumption DEF OcppInv, OcppTypeOK
<1>2. CASE cur = None
  <2>1. Sent(<<m>>) = <<>> /\ Len(inbox) = 0
    BY <1>2 DEF Sent, OcppInv, OfflineOrEmptied
  <2>. QED  BY <1>2, <2>1 DEF StartIsLast, NothingForeign
<1>3. CASE cur # None
  <2>1. Sent(<<m>>) = Append(inbox, m)
    BY <1>1, <1>3 DEF Sent
  <2>. DEFINE armed == ~hasAutoStarted
  <2>2. Underway(inbox, cable, plugs, autoStarted, armed, wasAvailable) /\ armed \in BOOLEAN
    BY <1>1, <1>3 DEF OcppInv
  <2>. HIDE DEF armed
  <2>3. Underway(Append(inbox, m), d, n1, autoStarted, armed, wasAvailable)
    BY <1>1, <2>2, UnderwayAppend, SMTT(30)
  <2>4. StartIsLast(Append(inbox, m), y) /\ NothingForeign(Append(inbox, m), y)
    BY <1>1, <1>3, TransactionAppend DEF OcppInv
  <2>5. /\ Append(inbox, m) \in Seq(Messages)
        /\ Len(Append(inbox, m)) \in Nat /\ Len(Append(inbox, m)) <= Len(inbox) + 1
    BY <1>1, AppendAt
  <2>. QED  BY <1>3, <2>1, <2>3, <2>4, <2>5 DEF armed
<1>. QED  BY <1>2, <1>3

----------------------------------------------------------------------------
(* The rows.  A nonempty set of ids has a least and a greatest one.        *)
LEMMA LeastId ==
  ASSUME NEW T \in SUBSET Nat, T # {}
  PROVE  \E i \in T : \A j \in T : i <= j
<1>1. PICK i \in T : \A j \in T : ~(<<j, i>> \in OpToRel(<, Nat))
  BY NatLessThanWellFounded, WFMin
<1>2. \A j \in T : ~(j < i)
  BY <1>1 DEF OpToRel
<1>. QED  BY <1>2

LEMMA GreatestId ==
  ASSUME NEW T \in SUBSET Ids, T # {}
  PROVE  \E i \in T : \A j \in T : i >= j
<1>. DEFINE U == {MaxTx - i : i \in T}
<1>1. U \in SUBSET Nat /\ U # {}
  <2>1. \A i \in T : i \in 1 .. MaxTx /\ MaxTx \in Nat
    BY OcppAssumption DEF Ids
  <2>2. \A i \in T : MaxTx - i \in Nat
    BY <2>1
  <2>. QED  BY <2>2
<1>2. PICK u \in U : \A v \in U : u <= v
  BY <1>1, LeastId
<1>3. PICK i \in T : u = MaxTx - i
  BY <1>2
<1>4. \A j \in T : MaxTx - j \in U /\ j \in Int /\ i \in Int
  BY DEF Ids
<1>5. \A j \in T : MaxTx - i <= MaxTx - j
  BY <1>2, <1>3, <1>4
<1>6. \A j \in T : i >= j
  BY <1>4, <1>5, OcppAssumption
<1>. QED  BY <1>6

LEMMA NextIdIsLeastFree ==
  ASSUME FreeIds # {}
  PROVE  NextId \in Ids /\ rows[NextId] = "free" /\ \A j \in Ids : rows[j] = "free" => NextId <= j
<1>1. FreeIds \in SUBSET Nat
  BY DEF FreeIds, Ids
<1>2. \E i \in FreeIds : \A j \in FreeIds : i <= j
  BY <1>1, LeastId
<1>3. NextId \in FreeIds /\ \A j \in FreeIds : NextId <= j
  BY <1>2 DEF NextId
<1>. QED  BY <1>3 DEF FreeIds

(* Rehydration finds the newest open row. *)
LEMMA NewestOpenFound ==
  /\ findOpenTransaction \in Ids \union {None}
  /\ \A x \in Ids : rows[x] = "open" /\ (\A j \in Ids : x < j => rows[j] = "free")
        => findOpenTransaction = x
<1>1. CASE OpenIds = {}
  BY <1>1 DEF findOpenTransaction, OpenIds
<1>2. CASE OpenIds # {}
  <2>1. \E i \in OpenIds : \A j \in OpenIds : i >= j
    BY <1>2, GreatestId DEF OpenIds
  <2>2. findOpenTransaction \in OpenIds /\ \A j \in OpenIds : findOpenTransaction >= j
    BY <1>2, <2>1 DEF findOpenTransaction
  <2>. HIDE DEF findOpenTransaction
  <2>. QED  BY <2>2 DEF OpenIds, Ids
<1>. QED  BY <1>1, <1>2

----------------------------------------------------------------------------
(* The charger's steps that send at most one message and leave the server  *)
(* alone; what they send has to fit the cable, the plug-ins and the        *)
(* transaction as they are after the step.                                 *)
Reports(m) ==
    /\ inbox' = Sent(<<m>>) /\ m \in Messages
    /\ Len(inbox) <= MaxInbox \/ (cur \in onConn /\ onConn' = onConn \ {cur})
    /\ cable' \in Nat /\ cable' <= plugs'
    /\ plugs <= plugs' /\ plugs' \in 0 .. MaxPlugs /\ status' \in Statuses
    /\ Orderly(m, cable, cable', plugs)
    /\ Speaks(m, ctx, ctx') \/ cur = None
    /\ ctx' \in {ctx, None, Starting} /\ backlog' = backlog
    /\ status' = "Available" <=> cable' = 0
    /\ ctx' # None => cable' # 0
    /\ startCmd' \in BOOLEAN /\ onConn' \subseteq onConn
    /\ UNCHANGED <<cur, open, registered, stateVars, rows, lp, historyVars, settled>>

LEMMA ReportKeepsInv ==
  ASSUME OcppInv, NEW m, Reports(m)
  PROVE  OcppInv'
<1>. USE OcppAssumption
<1>1. /\ inbox' \in Seq(Messages)
      /\ Len(inbox') \in Nat /\ Len(inbox') <= Len(inbox) + 1
      /\ cur = None => inbox' = <<>>
      /\ StartIsLast(inbox', ctx') /\ NothingForeign(inbox', ctx')
      /\ cur # None => Underway(inbox', cable', plugs', autoStarted, ~hasAutoStarted,
                                wasAvailable)
  <2>1. plugs' \in Nat /\ m \in Messages
    BY DEF Reports
  <2>. QED  BY <2>1, OneSent DEF Reports
<1>2. OcppTypeOK'
  <2>1. Len(inbox') <= MaxInbox + 2
    BY <1>1 DEF Reports, OcppInv, OcppTypeOK, RoomForTrigger
  <2>. QED  BY <1>1, <2>1 DEF Reports, OcppInv, OcppTypeOK, historyVars, stateVars
<1>3. (LiveSocketRegistered /\ OfflineOrEmptied /\ FreeUpwards /\ IdleServer)'
  BY <1>1 DEF Reports, OcppInv, LiveSocketRegistered, OfflineOrEmptied, FreeUpwards,
              IdleServer, historyVars, stateVars
<1>4. (RoomForTrigger /\ CableMatchesStatus)'
  BY <1>1 DEF Reports, OcppInv, OcppTypeOK, RoomForTrigger, CableMatchesStatus
<1>5. RunningIsNewest'
  BY DEF Reports, OcppInv, RunningIsNewest, stateVars, Ids
<1>6. (autoStarted \subseteq 1 .. plugs)'
  BY DEF Reports, OcppInv, OcppTypeOK, historyVars
<1>. QED  BY <1>1, <1>2, <1>3, <1>4, <1>5, <1>6
          DEF OcppInv, Reports, historyVars, stateVars

LEMMA PlugInKeepsInv ==
  ASSUME OcppInv, PlugIn
  PROVE  OcppInv'
<1>. DEFINE m == StatusOf("Preparing", cable')
<1>1. plugs \in Nat /\ plugs' = plugs + 1 /\ plugs' \in 0 .. MaxPlugs /\ cable' = plugs'
  BY OcppAssumption DEF OcppInv, OcppTypeOK, PlugIn
<1>2. m \in Messages /\ IsCar(m) /\ IsStatus(m) /\ m.plug = cable' /\ ~IsIdle(m) /\ ~Names(m)
  BY <1>1, MessagesSent DEF StatusOf, Statuses, IsCar, IsStatus, IsIdle, Names
<1>3. Orderly(m, cable, cable', plugs) /\ Speaks(m, ctx, ctx')
  BY <1>1, <1>2 DEF Orderly, Speaks, PlugIn, IsCar, IsStatus
<1>4. inbox' = Sent(<<m>>) /\ Len(inbox) <= MaxInbox
  BY OcppAssumption DEF PlugIn, Room, OcppInv, OcppTypeOK
<1>. HIDE DEF m
<1>5. Reports(m)
  BY <1>1, <1>2, <1>3, <1>4 DEF Reports, PlugIn, Unmoved, OcppInv, OcppTypeOK, Statuses
<1>. QED  BY <1>5, ReportKeepsInv

(* The end of a transaction: a StopTransaction and a status online, a stop *)
(* kept or lost offline, only the status when nothing was running.         *)
LEMMA EndKeepsInv ==
  ASSUME OcppInv, NEW next \in Statuses, EndTransaction(next, cable'),
         Room, ctx # Starting, cable' \in {0, cable}, next = "Available" <=> cable' = 0,
         startCmd' \in BOOLEAN, plugs' = plugs, Unmoved
  PROVE  OcppInv'
<1>. DEFINE m == StatusOf(next, cable')
<1>. USE OcppAssumption
<1>1. /\ cable \in Nat /\ cable' \in Nat /\ plugs \in Nat /\ cable' \in 0 .. MaxPlugs
      /\ cable <= plugs /\ cable' <= plugs /\ inbox \in Seq(Messages) /\ Len(inbox) \in Nat
      /\ Len(inbox) < MaxInbox
  BY DEF OcppInv, OcppTypeOK, Room
<1>2. /\ m \in Messages /\ IsStatus(m) /\ m.plug = cable' /\ m.status = next
      /\ ~Names(m) /\ m.kind # "start"
      /\ IsIdle(m) <=> cable' = 0
  BY <1>1, MessagesSent DEF StatusOf, IsIdle, IsStatus, Names
<1>3. Orderly(m, cable, cable', plugs)
  BY <1>1, <1>2 DEF Orderly
<1>4. ctx' = None /\ None \notin Ids /\ None # Starting
  BY DEF EndTransaction, Ids
<1>5. CASE ctx \in Ids /\ cur # None
  <2>. DEFINE s == StopOf(ctx)  q == Append(inbox, s)  r == Append(q, m)
              armed == ~hasAutoStarted
  <2>1. /\ s \in Messages /\ s.kind = "stop" /\ Orderly(s, cable, cable, plugs)
        /\ Speaks(s, ctx, None) /\ Speaks(m, None, None)
    BY <1>1, <1>2, <1>4, <1>5, MessagesSent
       DEF Orderly, Speaks, IsStatus, Names, IsIdle, IsCar
  <2>2. inbox' = r
    <3>1. inbox' = inbox \o <<s, m>>
      BY <1>5 DEF EndTransaction, Sent
    <3>. QED  BY <1>1, <1>2, <2>1, <3>1
  <2>3. /\ Underway(inbox, cable, plugs, autoStarted, armed, wasAvailable)
        /\ StartIsLast(inbox, ctx) /\ NothingForeign(inbox, ctx)
        /\ armed \in BOOLEAN /\ wasAvailable \in BOOLEAN /\ autoStarted \in SUBSET (1 .. plugs)
    BY <1>5 DEF OcppInv, OcppTypeOK
  <2>. HIDE DEF m, s, armed
  <2>4. /\ q \in Seq(Messages) /\ Len(q) = Len(inbox) + 1
        /\ r \in Seq(Messages) /\ Len(r) = Len(inbox) + 2 /\ Len(r) \in Nat
    BY <1>1, <1>2, <2>1
  <2>. HIDE DEF q, r
  <2>5. Underway(q, cable, plugs, autoStarted, armed, wasAvailable)
    BY <1>1, <2>1, <2>3, UnderwayAppend, SMTT(30) DEF q
  <2>6. Underway(r, cable', plugs, autoStarted, armed, wasAvailable)
    BY <1>1, <1>2, <1>3, <2>3, <2>4, <2>5, UnderwayAppend, SMTT(30) DEF r
  <2>7. StartIsLast(q, None) /\ NothingForeign(q, None)
    BY <1>1, <2>1, <2>3, TransactionAppend DEF q
  <2>8. StartIsLast(r, None) /\ NothingForeign(r, None)
    BY <1>2, <2>1, <2>4, <2>7, TransactionAppend DEF r
  <2>9. OcppTypeOK'
    BY <1>1, <1>5, <2>2, <2>4
       DEF OcppInv, OcppTypeOK, EndTransaction, Unmoved, historyVars, stateVars
  <2>. QED
    BY <1>1, <1>4, <1>5, <2>2, <2>4, <2>6, <2>8, <2>9
       DEF OcppInv, EndTransaction, Unmoved, historyVars, stateVars, armed,
           LiveSocketRegistered, OfflineOrEmptied, RoomForTrigger, CableMatchesStatus,
           FreeUpwards, RunningIsNewest, IdleServer
<1>6. CASE ctx \in Ids /\ cur = None
  <2>1. inbox = <<>> /\ inbox' = <<>> /\ backlog' \in Ids \union {None}
    BY <1>6 DEF OcppInv, OcppTypeOK, OfflineOrEmptied, EndTransaction
  <2>2. StartIsLast(inbox', None) /\ NothingForeign(inbox', None) /\ Len(inbox') = 0
    BY <2>1 DEF StartIsLast, NothingForeign
  <2>3. OcppTypeOK'
    BY <1>1, <1>6, <2>1
       DEF OcppInv, OcppTypeOK, EndTransaction, Unmoved, historyVars, stateVars
  <2>. QED
    BY <1>1, <1>4, <1>6, <2>1, <2>2, <2>3
       DEF OcppInv, EndTransaction, Unmoved, historyVars, stateVars,
           LiveSocketRegistered, OfflineOrEmptied, RoomForTrigger, CableMatchesStatus,
           FreeUpwards, RunningIsNewest, IdleServer
<1>7. CASE ctx \notin Ids
  <2>1. ctx = None /\ Speaks(m, ctx, None)
    BY <1>2, <1>4, <1>7 DEF OcppInv, OcppTypeOK, Speaks
  <2>2. inbox' = Sent(<<m>>) /\ backlog' = backlog /\ status' = next
    BY <1>7 DEF EndTransaction
  <2>. HIDE DEF m
  <2>3. Reports(m)
    BY <1>1, <1>2, <1>3, <1>4, <2>1, <2>2
       DEF Reports, Unmoved, OcppInv, OcppTypeOK
  <2>. QED  BY <2>3, ReportKeepsInv
<1>. QED  BY <1>5, <1>6, <1>7

LEMMA UnplugKeepsInv ==
  ASSUME OcppInv, Unplug
  PROVE  OcppInv'
  BY EndKeepsInv DEF Unplug, Statuses

LEMMA CarFullKeepsInv ==
  ASSUME OcppInv, CarFull \/ remoteStop
  PROVE  OcppInv'
<1>1. /\ ctx \in Ids /\ ctx # Starting /\ Room /\ cable' = cable /\ cable # 0
      /\ EndTransaction("Finishing", cable') /\ plugs' = plugs /\ startCmd' \in BOOLEAN
      /\ Unmoved
  BY OcppAssumption
     DEF CarFull, remoteStop, OcppInv, OcppTypeOK, CableMatchesStatus, Ids
<1>. QED  BY <1>1, EndKeepsInv DEF Statuses

LEMMA CarCyclesKeepsInv ==
  ASSUME OcppInv, CarCycles
  PROVE  OcppInv'
<1>. DEFINE m == StatusOf(status', cable)
<1>. USE OcppAssumption
<1>1. /\ cable \in Nat /\ cable # 0 /\ plugs \in Nat /\ cable <= plugs /\ plugs <= MaxPlugs
      /\ status' \in Statuses /\ status' # "Available" /\ Len(inbox) <= MaxInbox
  BY DEF OcppInv, OcppTypeOK, CarCycles, CableMatchesStatus, Statuses, Room
<1>2. /\ m \in Messages /\ IsCar(m) /\ IsStatus(m) /\ m.plug = cable /\ ~IsIdle(m)
      /\ ~Names(m) /\ m.kind # "start"
  BY <1>1, MessagesSent DEF StatusOf, IsIdle, IsCar, IsStatus, Names
<1>3. Orderly(m, cable, cable', plugs) /\ Speaks(m, ctx, ctx')
  BY <1>1, <1>2 DEF Orderly, Speaks, CarCycles
<1>4. inbox' = Sent(<<m>>)
  BY DEF CarCycles
<1>. HIDE DEF m
<1>5. Reports(m)
  BY <1>1, <1>2, <1>3, <1>4 DEF Reports, CarCycles, Unmoved, OcppInv, OcppTypeOK,
                                 CableMatchesStatus
<1>. QED  BY <1>5, ReportKeepsInv

(* A step that sends nothing and changes nothing the invariant relates. *)
LEMMA QuietKeepsInv ==
  ASSUME OcppInv, OcppTypeOK', LiveSocketRegistered', onConn' \subseteq onConn,
         UNCHANGED <<cur, chargerVars, inbox, stateVars, rows, historyVars>>
  PROVE  OcppInv'
  BY DEF OcppInv, chargerVars, stateVars, historyVars, OfflineOrEmptied, RoomForTrigger,
         CableMatchesStatus, FreeUpwards, RunningIsNewest, IdleServer

LEMMA ObeyRemoteStartKeepsInv ==
  ASSUME OcppInv, ObeyRemoteStart
  PROVE  OcppInv'
<1>. DEFINE m == [kind |-> "start"]
<1>. USE OcppAssumption
<1>1. CASE cable # 0 /\ ctx = None
  <2>1. /\ cable \in Nat /\ plugs \in Nat /\ cable <= plugs /\ Len(inbox) <= MaxInbox
        /\ Starting \notin Ids /\ None # Starting
    BY DEF OcppInv, OcppTypeOK, ObeyRemoteStart, Room, Ids
  <2>2. m \in Messages /\ ~IsStatus(m) /\ m.kind = "start" /\ ~IsCar(m)
    BY MessagesSent DEF IsStatus, IsCar
  <2>3. Orderly(m, cable, cable', plugs) /\ Speaks(m, ctx, ctx')
    BY <1>1, <2>1, <2>2 DEF Orderly, Speaks, ObeyRemoteStart
  <2>4. inbox' = Sent(<<m>>) /\ ctx' = Starting
    BY <1>1 DEF ObeyRemoteStart
  <2>. HIDE DEF m
  <2>5. /\ UNCHANGED <<cable, status, backlog, plugs>> /\ startCmd' = FALSE
        /\ plugs \in 0 .. MaxPlugs /\ status \in Statuses
        /\ status = "Available" <=> cable = 0
    BY DEF ObeyRemoteStart, OcppInv, OcppTypeOK, CableMatchesStatus
  <2>6. Unmoved /\ startCmd' \in BOOLEAN
    BY Zenon DEF ObeyRemoteStart
  <2>7. Reports(m)
    BY <1>1, <2>1, <2>2, <2>3, <2>4, <2>5, <2>6 DEF Reports, Unmoved
  <2>. QED  BY <2>7, ReportKeepsInv
<1>2. CASE ~(cable # 0 /\ ctx = None)
  <2>1. /\ UNCHANGED <<cur, chargerVars, inbox, stateVars, rows, historyVars>>
        /\ UNCHANGED <<open, registered, onConn, lp, settled>>
    BY <1>2 DEF ObeyRemoteStart, Unmoved, chargerVars
  <2>2. startCmd' \in BOOLEAN
    BY Zenon DEF ObeyRemoteStart
  <2>3. OcppTypeOK' /\ LiveSocketRegistered'
    BY <2>1, <2>2 DEF OcppInv, OcppTypeOK, LiveSocketRegistered, chargerVars, stateVars, historyVars
  <2>. QED  BY <2>1, <2>3, QuietKeepsInv
<1>. QED  BY <1>1, <1>2

LEMMA MeterKeepsInv ==
  ASSUME OcppInv, Meter
  PROVE  OcppInv'
<1>. USE OcppAssumption
<1>1. PICK tx \in {ctx, None} : inbox' = Sent(<<[kind |-> "meter", tx |-> tx]>>)
  BY DEF Meter
<1>. DEFINE m == [kind |-> "meter", tx |-> tx]
<1>2. /\ cable \in Nat /\ plugs \in Nat /\ cable <= plugs /\ Len(inbox) <= MaxInbox
      /\ tx \in Ids \union {None} /\ (tx # None => cable # 0) /\ ctx # Starting
  BY DEF OcppInv, OcppTypeOK, Meter, CableMatchesStatus
<1>3. m \in Messages /\ ~IsStatus(m) /\ m.kind = "meter" /\ ~IsCar(m) /\ m.tx = tx
  BY <1>2, MessagesSent DEF IsStatus, IsCar
<1>4. Orderly(m, cable, cable', plugs) /\ Speaks(m, ctx, ctx')
  BY <1>2, <1>3 DEF Orderly, Speaks, Meter, Names, chargerVars
<1>. HIDE DEF m
<1>5. Reports(m)
  BY <1>1, <1>2, <1>3, <1>4
     DEF Reports, Meter, Unmoved, OcppInv, OcppTypeOK, CableMatchesStatus, chargerVars, m
<1>. QED  BY <1>5, ReportKeepsInv

LEMMA ControllerStatusKeepsInv ==
  ASSUME OcppInv, ControllerStatus
  PROVE  OcppInv'
<1>. USE OcppAssumption
<1>1. /\ cable = 0 /\ plugs \in Nat /\ Len(inbox) <= MaxInbox /\ ctx = None
      /\ None # Starting /\ None \notin Ids
  BY DEF OcppInv, OcppTypeOK, ControllerStatus, CableMatchesStatus, Room, Ids
<1>2. /\ Controller0 \in Messages /\ IsStatus(Controller0) /\ IsIdle(Controller0)
      /\ Controller0.plug = 0 /\ ~Names(Controller0) /\ Controller0.kind # "start"
  BY MessagesSent DEF Controller0, IsStatus, Names
<1>3. Orderly(Controller0, cable, cable', plugs) /\ Speaks(Controller0, ctx, ctx')
  BY <1>1, <1>2 DEF Orderly, Speaks, ControllerStatus, chargerVars
<1>4. Reports(Controller0)
  BY <1>1, <1>2, <1>3
     DEF Reports, ControllerStatus, Unmoved, OcppInv, OcppTypeOK, CableMatchesStatus,
         chargerVars
<1>. QED  BY <1>4, ReportKeepsInv

LEMMA TriggerAnsweredKeepsInv ==
  ASSUME OcppInv, NEW s \in Sockets, TriggerAnswered(s)
  PROVE  OcppInv'
<1>. DEFINE m == StatusOf(status, cable)
<1>. USE OcppAssumption
<1>1. /\ cable \in Nat /\ plugs \in Nat /\ cable <= plugs /\ cable \in 0 .. MaxPlugs
      /\ status \in Statuses /\ (status = "Available" <=> cable = 0)
      /\ None # Starting /\ None \notin Ids /\ (ctx # None => cable # 0)
  BY DEF OcppInv, OcppTypeOK, CableMatchesStatus, Ids
<1>2. /\ m \in Messages /\ IsStatus(m) /\ m.plug = cable /\ (IsIdle(m) <=> cable = 0)
      /\ (IsCar(m) <=> cable # 0) /\ ~Names(m) /\ m.kind # "start"
  BY <1>1, MessagesSent DEF StatusOf, IsStatus, IsIdle, IsCar, Names
<1>3. Orderly(m, cable, cable', plugs) /\ Speaks(m, ctx, ctx')
  BY <1>1, <1>2 DEF Orderly, Speaks, TriggerAnswered, chargerVars
<1>4. inbox' = Sent(<<m>>)
  BY DEF TriggerAnswered
<1>. HIDE DEF m
<1>5. Reports(m)
  BY <1>1, <1>2, <1>3, <1>4
     DEF Reports, TriggerAnswered, OcppInv, OcppTypeOK, chargerVars
<1>. QED  BY <1>5, ReportKeepsInv

----------------------------------------------------------------------------
(* Quiet steps: the server sees a socket close, TriggerMessage fails, a    *)
(* remote start is sent, the surroundings settle.                          *)
LEMMA QuietStepsKeepInv ==
  ASSUME OcppInv,
         \/ \E s \in Sockets : onDisconnect(s) \/ TriggerFails(s)
         \/ remoteStart \/ Settle
  PROVE  OcppInv'
<1>. USE OcppAssumption
<1>1. ASSUME NEW s \in Sockets, onDisconnect(s) PROVE OcppInv'
  <2>1. lp' \in LpStates /\ registered' \in {registered, None}
    <3>1. lp \in LpStates
      BY DEF LpStates, OcppInv, OcppTypeOK
    <3>. QED  BY <1>1, <3>1, FoldedStates DEF onDisconnect, evict
  <2>2. LiveSocketRegistered'
    BY <1>1 DEF onDisconnect, evict, OcppInv, LiveSocketRegistered
  <2>3. OcppTypeOK'
    BY <1>1, <2>1 DEF LpStates, onDisconnect, OcppInv, OcppTypeOK, chargerVars, stateVars,
                      historyVars
  <2>. QED  BY <1>1, <2>2, <2>3, QuietKeepsInv DEF onDisconnect
<1>2. ASSUME NEW s \in Sockets, TriggerFails(s) PROVE OcppInv'
  <2>1. OcppTypeOK' /\ LiveSocketRegistered'
    BY <1>2 DEF TriggerFails, Folded, OcppInv, OcppTypeOK, LiveSocketRegistered, Statuses,
                chargerVars, stateVars, historyVars
  <2>. QED  BY <1>2, <2>1, QuietKeepsInv DEF TriggerFails
<1>3. CASE remoteStart
  <2>1. OcppTypeOK' /\ LiveSocketRegistered'
    BY <1>3 DEF remoteStart, Unmoved, OcppInv, OcppTypeOK, LiveSocketRegistered,
                chargerVars, stateVars, historyVars
  <2>. QED  BY <1>3, <2>1, QuietKeepsInv DEF remoteStart, Unmoved
<1>4. CASE Settle
  <2>1. OcppTypeOK' /\ LiveSocketRegistered'
    BY <1>4 DEF Settle, OcppInv, OcppTypeOK, LiveSocketRegistered,
                chargerVars, stateVars, historyVars
  <2>. QED  BY <1>4, <2>1, QuietKeepsInv DEF Settle
<1>. QED  BY <1>1, <1>2, <1>3, <1>4

----------------------------------------------------------------------------
(* The socket dies: nothing is under way, and a stop that was may be kept. *)
LEMMA LostLinkIsEmpty ==
  ASSUME OcppInv, LinkLost
  PROVE  /\ cur' = None /\ inbox' = <<>> /\ startCmd' \in BOOLEAN
         /\ backlog' \in Ids \union {None}
         /\ ctx \in Ids => backlog' = backlog
         /\ UNCHANGED <<cable, status, ctx, plugs>>
         /\ StartIsLast(inbox', ctx') /\ NothingForeign(inbox', ctx')
         /\ Len(inbox') = 0 /\ inbox' \in Seq(Messages)
<1>1. \A m \in ToSet(inbox) : \E i \in 1 .. Len(inbox) : m = inbox[i] /\ m \in Messages
  BY DEF OcppInv, OcppTypeOK, ToSet
<1>2. backlog' \in Ids \union {None}
  <2>1. backlog \in Ids \union {None}
    BY DEF OcppInv, OcppTypeOK
  <2>2. \A m \in ToSet(inbox) : m.kind = "stop" => m.tx \in Ids
    BY <1>1, MessageKinds
  <2>. QED  BY <2>1, <2>2 DEF LinkLost
<1>3. ASSUME ctx \in Ids PROVE backlog' = backlog
  <2>1. \A m \in ToSet(inbox) : m.kind # "stop"
    BY <1>1, <1>3 DEF OcppInv, NothingForeign, IsCar, IsStatus
  <2>. QED  BY <2>1 DEF LinkLost
<1>4. startCmd' \in BOOLEAN
  BY Zenon DEF LinkLost
<1>. QED  BY <1>2, <1>3, <1>4 DEF LinkLost, StartIsLast, NothingForeign

(* With the link lost, only what is in the database and in the charger     *)
(* matters.                                                                *)
LEMMA OfflineKeepsInv ==
  ASSUME OcppInv, LinkLost, OcppTypeOK', FreeUpwards',
         onConn' \subseteq onConn, UNCHANGED historyVars,
         ctx \in Ids => rows' = rows
  PROVE  OcppInv'
<1>1. (OfflineOrEmptied /\ LiveSocketRegistered /\ RoomForTrigger /\ CableMatchesStatus
       /\ IdleServer /\ autoStarted \subseteq 1 .. plugs)'
  BY LostLinkIsEmpty, OcppAssumption
     DEF OcppInv, OcppTypeOK, OfflineOrEmptied, LiveSocketRegistered, RoomForTrigger,
         CableMatchesStatus, IdleServer, historyVars
<1>2. RunningIsNewest'
  BY LostLinkIsEmpty DEF OcppInv, RunningIsNewest
<1>. QED  BY <1>1, <1>2, LostLinkIsEmpty DEF OcppInv

LEMMA LinkDropsKeepsInv ==
  ASSUME OcppInv, LinkDrops
  PROVE  OcppInv'
<1>1. LinkLost /\ UNCHANGED <<open, registered, onConn, activeTx, hasAutoStarted, rows, lp,
                              autoStarted, wasAvailable, settled>>
  BY DEF LinkDrops, stateVars, historyVars
<1>2. OcppTypeOK' /\ FreeUpwards'
  BY <1>1, LostLinkIsEmpty, OcppAssumption DEF OcppInv, OcppTypeOK, FreeUpwards
<1>. QED  BY <1>1, <1>2, OfflineKeepsInv DEF LinkDrops

LEMMA RestartKeepsInv ==
  ASSUME OcppInv, Restart
  PROVE  OcppInv'
<1>1. LinkLost /\ UNCHANGED <<rows, autoStarted, wasAvailable, settled>>
  BY DEF Restart, historyVars
<1>2. hasAutoStarted' \in BOOLEAN
  BY Zenon DEF Restart
<1>3. /\ open' = {} /\ registered' = None /\ onConn' = {} /\ activeTx' = None
      /\ lp' \in LpStates
  BY FoldedStates DEF Restart
<1>4. OcppTypeOK' /\ FreeUpwards'
  BY <1>1, <1>2, <1>3, LostLinkIsEmpty, OcppAssumption
     DEF LpStates, OcppInv, OcppTypeOK, FreeUpwards
<1>. QED  BY <1>1, <1>3, <1>4, OfflineKeepsInv DEF Restart

----------------------------------------------------------------------------
(* The server's handlers. *)

(* What a handler consumes: the facts about the head every case uses.      *)
LEMMA HeadFacts ==
  ASSUME OcppInv, inbox # <<>>
  PROVE  /\ cur # None /\ Head(inbox) = inbox[1] /\ inbox[1] \in Messages
         /\ inbox \in Seq(Messages) /\ Tail(inbox) \in Seq(Messages)
         /\ Len(inbox) \in Nat \ {0} /\ Len(Tail(inbox)) = Len(inbox) - 1
         /\ 1 \in 1 .. Len(inbox)
         /\ Underway(inbox, cable, plugs, autoStarted, ~hasAutoStarted, wasAvailable)
         /\ StartIsLast(inbox, ctx) /\ NothingForeign(inbox, ctx)
         /\ backlog = None
<1>1. inbox \in Seq(Messages)
  BY DEF OcppInv, OcppTypeOK
<1>. QED  BY <1>1, TailAt DEF OcppInv, OfflineOrEmptied

(* Closing a row leaves the free ones as they are. *)
LEMMA ClosedRows ==
  ASSUME OcppInv, NEW id \in Ids
  PROVE  /\ Closed(id) \in [Ids -> {"free", "open", "closed"}]
         /\ \A j \in Ids : Closed(id)[j] = "free" <=> rows[j] = "free"
         /\ \A j \in Ids : j # id => Closed(id)[j] = rows[j]
  BY DEF OcppInv, OcppTypeOK, Closed

LEMMA StatusKeepsInv ==
  ASSUME OcppInv, StatusNotification
  PROVE  OcppInv'
<1>. DEFINE m == inbox[1]
            go == shouldAutoStartTransaction(m.status, activeTx, hasAutoStarted)
<1>. USE OcppAssumption
<1>1. /\ inbox # <<>> /\ Head(inbox).kind = "status"
      /\ UNCHANGED <<cur, open, registered, onConn, settled>> /\ UNCHANGED chargerVars
      /\ inbox' = Tail(inbox)
  BY DEF StatusNotification, Handling
<1>2. /\ m \in Messages /\ IsStatus(m) /\ m.status \in Statuses /\ m.plug \in 0 .. MaxPlugs
      /\ Head(inbox) = m /\ cur # None /\ 1 \in 1 .. Len(inbox)
  BY <1>1, HeadFacts, MessageKinds DEF IsStatus
<1>3. /\ lp' = Folded(m.status, computeConnectionState(m.status).connected,
                      computeConnectionState(m.status).charging)
      /\ IF go THEN hasAutoStarted' = TRUE /\ UNCHANGED <<activeTx, rows>>
               ELSE Release(m.status)
      /\ startCmd' = (startCmd \/ go)
      /\ autoStarted' = IF go THEN autoStarted \union {m.plug} ELSE autoStarted
      /\ wasAvailable' = (m.status = "Available")
  BY <1>2, Zenon DEF StatusNotification
<1>4. go => m.status = "Preparing" /\ IsCar(m) /\ activeTx = None /\ ~hasAutoStarted
  BY <1>2 DEF shouldAutoStartTransaction, IsCar
<1>5. m.plug <= plugs /\ (IsIdle(m) <=> m.plug = 0) /\ (IsIdle(m) <=> m.status = "Available")
      /\ (IsCar(m) <=> m.status # "Available")
  BY <1>1, <1>2, HeadFacts DEF Underway, PlugNumbers, IsIdle, IsCar
<1>6. /\ hasAutoStarted' \in BOOLEAN /\ wasAvailable' \in BOOLEAN /\ startCmd' \in BOOLEAN
      /\ lp' \in LpStates
  <2>1. wasAvailable' \in BOOLEAN /\ startCmd' \in BOOLEAN
    BY <1>3 DEF shouldAutoStartTransaction
  <2>2. hasAutoStarted' \in BOOLEAN
    BY <1>3, Zenon DEF Release
  <2>3. /\ computeConnectionState(m.status).connected \in BOOLEAN
        /\ computeConnectionState(m.status).charging \in BOOLEAN
    BY DEF computeConnectionState
  <2>. QED  BY <1>2, <1>3, <2>1, <2>2, <2>3, FoldedStates
<1>. HIDE DEF m, go
<1>7. /\ hasAutoStarted' <=> go \/ (hasAutoStarted /\ ~IsIdle(m))
      /\ wasAvailable' <=> IsIdle(m)
      /\ activeTx' = IF IsIdle(m) THEN None ELSE activeTx
      /\ rows' = IF IsIdle(m) /\ activeTx # None THEN Closed(activeTx) ELSE rows
  BY <1>3, <1>4, <1>5 DEF Release, IsIdle, IsCar
<1>8. /\ rows' \in [Ids -> {"free", "open", "closed"}]
      /\ \A j \in Ids : rows'[j] = "free" <=> rows[j] = "free"
      /\ ctx \in Ids => rows' = rows /\ activeTx' = activeTx
  <2>1. ctx \in Ids => ~IsIdle(m)
    BY <1>1, <1>2, HeadFacts DEF NothingForeign, IsCar, IsIdle, IsStatus, m
  <2>2. activeTx # None => activeTx \in Ids
    BY DEF OcppInv, OcppTypeOK
  <2>. QED  BY <1>7, <2>1, <2>2, ClosedRows DEF OcppInv, OcppTypeOK
<1>9. autoStarted' \in SUBSET (1 .. plugs) /\ autoStarted' \in SUBSET (1 .. MaxPlugs)
  <2>1. autoStarted \in SUBSET (1 .. plugs) /\ plugs \in Nat /\ plugs <= MaxPlugs
    BY DEF OcppInv, OcppTypeOK
  <2>2. go => m.plug \in 1 .. plugs
    BY <1>2, <1>4, <1>5 DEF IsCar, IsIdle
  <2>3. autoStarted' \in SUBSET (1 .. plugs)
    BY <1>3, <2>1, <2>2
  <2>. QED  BY <2>1, <2>3
<1>10. OcppTypeOK'
  <2>1. autoStarted' \subseteq 1 .. MaxPlugs
    BY <1>9, HeadFacts DEF OcppInv, OcppTypeOK
  <2>. QED  BY <1>1, <1>6, <1>7, <1>8, <2>1, HeadFacts
            DEF OcppInv, OcppTypeOK, chargerVars, LpStates
<1>11. Underway(inbox', cable', plugs', autoStarted', ~hasAutoStarted', wasAvailable')
  <2>. DEFINE armed == ~hasAutoStarted  armed1 == ~hasAutoStarted'
  <2>1. /\ armed1 => autoStarted' = autoStarted /\ (armed \/ IsIdle(m))
        /\ wasAvailable' => IsIdle(m)
        /\ autoStarted' = autoStarted \/ (IsCar(m) /\ autoStarted' = autoStarted \union {m.plug})
        /\ ~armed1 => (~armed /\ ~IsIdle(m)) \/ (IsCar(m) /\ m.plug \in autoStarted')
    BY <1>3, <1>4, <1>7
  <2>2. /\ armed \in BOOLEAN /\ armed1 \in BOOLEAN /\ cable \in Nat /\ plugs \in Nat
        /\ wasAvailable \in BOOLEAN /\ wasAvailable' \in BOOLEAN
        /\ autoStarted \in SUBSET (1 .. plugs)
    BY <1>6 DEF OcppInv, OcppTypeOK
  <2>3. /\ Underway(inbox, cable, plugs, autoStarted, armed, wasAvailable)
        /\ inbox \in Seq(Messages) /\ inbox # <<>>
    BY <1>1, HeadFacts
  <2>. HIDE DEF armed, armed1
  <2>. DEFINE q == inbox  T == autoStarted'  idle1 == wasAvailable'
  <2>4. /\ armed1 => T = autoStarted /\ (armed \/ IsIdle(q[1]))
        /\ idle1 => (wasAvailable /\ ~IsCar(q[1])) \/ IsIdle(q[1])
        /\ T = autoStarted \/ (IsCar(q[1]) /\ T = autoStarted \union {q[1].plug})
        /\ ~armed1 => (~armed /\ ~IsIdle(q[1])) \/ (IsCar(q[1]) /\ q[1].plug \in T)
    BY <2>1 DEF m
  <2>5. /\ T \in SUBSET (1 .. plugs) /\ idle1 \in BOOLEAN
        /\ Underway(q, cable, plugs, autoStarted, armed, wasAvailable)
        /\ q \in Seq(Messages) /\ q # <<>>
    BY <1>9, <2>2, <2>3
  <2>. HIDE DEF q, T, idle1
  <2>6. Underway(Tail(q), cable, plugs, T, armed1, idle1)
    BY <2>2, <2>4, <2>5, UnderwayTail, SMTT(60)
  <2>. QED  BY <1>1, <2>6 DEF q, T, idle1, armed1, chargerVars
<1>12. StartIsLast(inbox', ctx') /\ NothingForeign(inbox', ctx')
  BY <1>1, HeadFacts, TransactionTail DEF chargerVars
<1>13. (LiveSocketRegistered /\ OfflineOrEmptied /\ RoomForTrigger /\ CableMatchesStatus)'
  BY <1>1, HeadFacts
     DEF OcppInv, LiveSocketRegistered, OfflineOrEmptied, RoomForTrigger,
         CableMatchesStatus, chargerVars, OcppTypeOK
<1>14. (FreeUpwards /\ RunningIsNewest)'
  BY <1>1, <1>8 DEF OcppInv, FreeUpwards, RunningIsNewest, chargerVars
<1>15. IdleServer'
  <2>1. IsIdle(m) => ~go
    BY <1>4, <1>5
  <2>. QED  BY <1>7, <2>1 DEF IdleServer
<1>16. autoStarted' \subseteq 1 .. plugs'
  BY <1>1, <1>9 DEF chargerVars
<1>. QED  BY <1>10, <1>11, <1>12, <1>13, <1>14, <1>15, <1>16 DEF OcppInv

(* A head that is not the car's status leaves everything behind it so.     *)
LEMMA OtherHead ==
  ASSUME OcppInv, inbox # <<>>, ~IsStatus(inbox[1])
  PROVE  /\ Underway(Tail(inbox), cable, plugs, autoStarted, ~hasAutoStarted, wasAvailable)
         /\ wasAvailable => ~Names(inbox[1])
<1>. DEFINE armed == ~hasAutoStarted
<1>1. /\ armed \in BOOLEAN /\ cable \in Nat /\ plugs \in Nat /\ wasAvailable \in BOOLEAN
      /\ autoStarted \in SUBSET (1 .. plugs) /\ inbox \in Seq(Messages)
  BY DEF OcppInv, OcppTypeOK
<1>2. ~IsCar(inbox[1]) /\ ~IsIdle(inbox[1])
  BY DEF IsCar, IsIdle
<1>3. Underway(inbox, cable, plugs, autoStarted, armed, wasAvailable)
  BY HeadFacts
<1>. HIDE DEF armed
<1>4. Underway(Tail(inbox), cable, plugs, autoStarted, armed, wasAvailable)
  BY <1>1, <1>2, <1>3, UnderwayTail, SMTT(60)
<1>5. wasAvailable => ~Names(inbox[1])
  BY <1>1, HeadFacts DEF Underway, NextCarSeenFirst, CarSeenFirst
<1>. QED  BY <1>4, <1>5 DEF armed

LEMMA MeterValuesKeepsInv ==
  ASSUME OcppInv, MeterValues
  PROVE  OcppInv'
<1>. USE OcppAssumption
<1>1. /\ inbox # <<>> /\ inbox[1].kind = "meter" /\ inbox[1].tx \in Ids \union {None}
      /\ ~IsStatus(inbox[1]) /\ (inbox[1].tx # None => Names(inbox[1]))
      /\ inbox' = Tail(inbox) /\ UNCHANGED chargerVars
      /\ UNCHANGED <<cur, open, registered, onConn, settled, startCmd, hasAutoStarted, rows>>
      /\ UNCHANGED <<autoStarted, wasAvailable>>
      /\ activeTx' = IF inbox[1].tx # None THEN inbox[1].tx ELSE activeTx
  BY HeadFacts, MessageKinds DEF MeterValues, Handling, IsStatus, Names, historyVars
<1>2. lp' \in LpStates
  <2>1. lp \in LpStates
    BY DEF OcppInv, OcppTypeOK, LpStates
  <2>. QED  BY <2>1, FoldedStates DEF MeterValues
<1>3. OcppTypeOK'
  BY <1>1, <1>2, HeadFacts DEF OcppInv, OcppTypeOK, LpStates, chargerVars
<1>4. StartIsLast(inbox', ctx') /\ NothingForeign(inbox', ctx')
  BY <1>1, HeadFacts, TransactionTail DEF chargerVars
<1>5. cur' # None => Underway(inbox', cable', plugs', autoStarted', ~hasAutoStarted',
                              wasAvailable')
  BY <1>1, OtherHead DEF chargerVars
<1>6. (LiveSocketRegistered /\ OfflineOrEmptied /\ RoomForTrigger /\ CableMatchesStatus
       /\ FreeUpwards /\ autoStarted \subseteq 1 .. plugs)'
  BY <1>1, HeadFacts
     DEF OcppInv, LiveSocketRegistered, OfflineOrEmptied, RoomForTrigger,
         CableMatchesStatus, FreeUpwards, chargerVars, OcppTypeOK
<1>7. RunningIsNewest'
  <2>1. ctx \in Ids => inbox[1].tx \in {None, ctx}
    BY <1>1, HeadFacts DEF NothingForeign, IsCar
  <2>. QED  BY <1>1, <2>1, HeadFacts DEF OcppInv, RunningIsNewest, chargerVars
<1>8. IdleServer'
  BY <1>1, OtherHead, HeadFacts DEF OcppInv, IdleServer
<1>. QED  BY <1>3, <1>4, <1>5, <1>6, <1>7, <1>8 DEF OcppInv

LEMMA StopKeepsInv ==
  ASSUME OcppInv, StopTransaction
  PROVE  OcppInv'
<1>. USE OcppAssumption
<1>1. /\ inbox # <<>> /\ inbox[1].kind = "stop" /\ inbox[1].tx \in Ids /\ ~IsStatus(inbox[1])
      /\ inbox' = Tail(inbox) /\ UNCHANGED chargerVars
      /\ UNCHANGED <<cur, open, registered, onConn, settled, startCmd, hasAutoStarted>>
      /\ UNCHANGED <<autoStarted, wasAvailable>>
      /\ activeTx' = None /\ rows' = Closed(inbox[1].tx)
  BY HeadFacts, MessageKinds DEF StopTransaction, Handling, IsStatus, historyVars
<1>2. lp' \in LpStates
  BY FoldedStates DEF StopTransaction
<1>3. ctx \notin Ids
  BY <1>1, HeadFacts DEF NothingForeign, IsCar
<1>4. OcppTypeOK'
  BY <1>1, <1>2, ClosedRows, HeadFacts DEF OcppInv, OcppTypeOK, LpStates, chargerVars
<1>5. StartIsLast(inbox', ctx') /\ NothingForeign(inbox', ctx')
  BY <1>1, HeadFacts, TransactionTail DEF chargerVars
<1>6. cur' # None => Underway(inbox', cable', plugs', autoStarted', ~hasAutoStarted',
                              wasAvailable')
  BY <1>1, OtherHead DEF chargerVars
<1>7. (LiveSocketRegistered /\ OfflineOrEmptied /\ RoomForTrigger /\ CableMatchesStatus
       /\ autoStarted \subseteq 1 .. plugs)'
  BY <1>1, HeadFacts
     DEF OcppInv, LiveSocketRegistered, OfflineOrEmptied, RoomForTrigger,
         CableMatchesStatus, chargerVars, OcppTypeOK
<1>8. (FreeUpwards /\ RunningIsNewest /\ IdleServer)'
  BY <1>1, <1>3, ClosedRows
     DEF OcppInv, FreeUpwards, RunningIsNewest, IdleServer, chargerVars
<1>. QED  BY <1>4, <1>5, <1>6, <1>7, <1>8 DEF OcppInv

(* The row of a started transaction is the newest. *)
LEMMA StartedRow ==
  ASSUME OcppInv, StartRow
  PROVE  /\ rows' \in [Ids -> {"free", "open", "closed"}] /\ NextId \in Ids
         /\ activeTx' = NextId /\ hasAutoStarted' = hasAutoStarted /\ lp' \in LpStates
         /\ rows'[NextId] = "open" /\ \A j \in Ids : NextId < j => rows'[j] = "free"
         /\ FreeUpwards'
<1>1. /\ NextId \in Ids /\ rows[NextId] = "free"
      /\ \A j \in Ids : rows[j] = "free" => NextId <= j
      /\ rows' = [rows EXCEPT ![NextId] = "open"]
  BY NextIdIsLeastFree DEF StartRow
<1>2. rows \in [Ids -> {"free", "open", "closed"}] /\ FreeUpwards
  BY DEF OcppInv, OcppTypeOK
<1>3. /\ rows' \in [Ids -> {"free", "open", "closed"}] /\ rows'[NextId] = "open"
      /\ \A j \in Ids : j # NextId => rows'[j] = rows[j]
  BY <1>1, <1>2
<1>4. \A i \in Ids : i \in Int
  BY DEF Ids
<1>. HIDE DEF NextId
<1>5. FreeUpwards' /\ \A j \in Ids : NextId < j => rows'[j] = "free"
  BY <1>1, <1>2, <1>3, <1>4 DEF FreeUpwards
<1>. QED  BY <1>1, <1>3, <1>5, FoldedStates DEF StartRow

LEMMA StartUnansweredKeepsInv ==
  ASSUME OcppInv, StartUnanswered
  PROVE  OcppInv'
<1>. USE OcppAssumption
<1>1. /\ inbox # <<>> /\ Head(inbox).kind = "start" /\ StartRow /\ LinkLost
      /\ UNCHANGED <<open, registered, onConn, settled>>
      /\ UNCHANGED <<autoStarted, wasAvailable>>
  BY DEF StartUnanswered, historyVars
<1>2. ctx = Starting /\ ctx \notin Ids
  BY <1>1, HeadFacts DEF StartIsLast, Ids
<1>3. OcppTypeOK'
  <2>1. OcppTypeOK /\ NextId \in Ids
    BY <1>1, StartedRow DEF OcppInv
  <2>2. /\ rows' \in [Ids -> {"free", "open", "closed"}] /\ activeTx' = NextId
        /\ hasAutoStarted' = hasAutoStarted /\ lp' \in LpStates
    BY <1>1, StartedRow
  <2>. HIDE DEF NextId
  <2>. QED  BY <1>1, <2>1, <2>2, LostLinkIsEmpty DEF OcppTypeOK, LpStates
<1>4. FreeUpwards'
  BY <1>1, StartedRow
<1>. QED  BY <1>1, <1>2, <1>3, <1>4, OfflineKeepsInv DEF historyVars

LEMMA StartKeepsInv ==
  ASSUME OcppInv, StartTransaction
  PROVE  OcppInv'
<1>. DEFINE m == StatusOf("Charging", cable)  r == Tail(inbox)  armed == ~hasAutoStarted
<1>. USE OcppAssumption
<1>1. /\ inbox # <<>> /\ inbox[1].kind = "start" /\ ~IsStatus(inbox[1]) /\ Names(inbox[1])
      /\ StartRow /\ ctx' = NextId /\ status' = "Charging"
      /\ inbox' = Append(r, m)
      /\ UNCHANGED <<cur, open, registered, onConn, settled, cable, backlog, plugs, startCmd>>
      /\ UNCHANGED <<autoStarted, wasAvailable>>
  BY HeadFacts DEF StartTransaction, Handling, IsStatus, Names, historyVars
<1>2. ctx = Starting /\ cable # 0 /\ \A j \in 2 .. Len(inbox) : IsCar(inbox[j])
  BY <1>1, HeadFacts DEF StartIsLast, OcppInv, CableMatchesStatus
<1>3. /\ cable \in Nat /\ plugs \in Nat /\ cable <= plugs /\ cable \in 0 .. MaxPlugs
      /\ armed \in BOOLEAN /\ wasAvailable \in BOOLEAN /\ autoStarted \in SUBSET (1 .. plugs)
      /\ r \in Seq(Messages) /\ Len(r) = Len(inbox) - 1 /\ Len(inbox) \in Nat
  BY <1>1, HeadFacts DEF OcppInv, OcppTypeOK
<1>4. m \in Messages /\ IsStatus(m) /\ IsCar(m) /\ m.plug = cable /\ ~IsIdle(m) /\ ~Names(m)
  BY <1>3, MessagesSent DEF StatusOf, Statuses, IsCar, IsStatus, IsIdle, Names
<1>5. Orderly(m, cable, cable, plugs)
  BY <1>2, <1>3, <1>4 DEF Orderly
<1>6. Underway(r, cable, plugs, autoStarted, armed, wasAvailable) /\ ~wasAvailable
  BY <1>1, OtherHead
<1>. HIDE DEF m, armed
<1>7. \A j \in 1 .. Len(r) : IsCar(r[j])
  <2>1. \A j \in 1 .. Len(r) : r[j] = inbox[j + 1] /\ j + 1 \in 2 .. Len(inbox)
    BY <1>1, <1>3, HeadFacts, TailAt
  <2>. QED  BY <1>2, <2>1
<1>. HIDE DEF r
<1>8. /\ Append(r, m) \in Seq(Messages) /\ Len(Append(r, m)) = Len(inbox)
      /\ \A i \in 1 .. Len(Append(r, m)) : IsCar(Append(r, m)[i])
  BY <1>3, <1>4, <1>7, AppendAt
<1>9. Underway(Append(r, m), cable, plugs, autoStarted, armed, wasAvailable)
  BY <1>3, <1>4, <1>5, <1>6, UnderwayAppend, SMTT(60)
<1>10. StartIsLast(inbox', ctx') /\ NothingForeign(inbox', ctx')
  BY <1>1, <1>8 DEF StartIsLast, NothingForeign, IsCar, IsStatus
<1>11. OcppTypeOK'
  BY <1>1, <1>3, <1>8, StartedRow DEF OcppInv, OcppTypeOK, LpStates, Statuses
<1>12. (LiveSocketRegistered /\ OfflineOrEmptied /\ RoomForTrigger /\ CableMatchesStatus
       /\ autoStarted \subseteq 1 .. plugs)'
  BY <1>1, <1>2, <1>3, <1>8, HeadFacts
     DEF OcppInv, LiveSocketRegistered, OfflineOrEmptied, RoomForTrigger, CableMatchesStatus
<1>13. (FreeUpwards /\ RunningIsNewest /\ IdleServer)'
  BY <1>1, <1>6, StartedRow, HeadFacts DEF RunningIsNewest, IdleServer
<1>14. Underway(inbox', cable', plugs', autoStarted', ~hasAutoStarted', wasAvailable')
  BY <1>1, <1>9, StartedRow DEF armed
<1>. QED  BY <1>10, <1>11, <1>12, <1>13, <1>14 DEF OcppInv

----------------------------------------------------------------------------
(* A new socket: at most a kept stop, then the unanswered start.           *)
LEMMA AttachKeepsInv ==
  ASSUME OcppInv, NEW s \in Sockets, attachClient(s)
  PROVE  OcppInv'
<1>. DEFINE stop == IF backlog = None THEN <<>> ELSE <<StopOf(backlog)>>
            start == IF ctx = Starting THEN <<[kind |-> "start"]>> ELSE <<>>
            r == stop \o start
<1>. USE OcppAssumption
<1>1. /\ cur = None /\ cur' = s /\ s # None /\ registered' = s
      /\ open' = open \union {s} /\ onConn' = onConn \union {s}
      /\ activeTx' = findOpenTransaction /\ inbox' = r /\ backlog' = None
      /\ UNCHANGED <<cable, status, ctx, plugs, rows, lp, settled>>
      /\ autoStarted' = {}
  BY DEF attachClient
<1>2. hasAutoStarted' \in BOOLEAN /\ ~hasAutoStarted' /\ wasAvailable' \in BOOLEAN
      /\ ~wasAvailable' /\ startCmd' \in BOOLEAN
  BY Zenon DEF attachClient
<1>3. /\ stop \in Seq(Messages) /\ Len(stop) \in {0, 1}
      /\ \A i \in 1 .. Len(stop) : stop[i].kind = "stop"
      /\ backlog = None => stop = <<>>
  BY MessagesSent DEF OcppInv, OcppTypeOK
<1>4. /\ start \in Seq(Messages) /\ Len(start) \in {0, 1}
      /\ \A i \in 1 .. Len(start) : start[i].kind = "start" /\ ctx = Starting
      /\ ctx # Starting => start = <<>>
  BY MessagesSent
<1>. HIDE DEF start, stop
<1>5. /\ r \in Seq(Messages) /\ Len(r) \in Nat /\ Len(r) <= 2
      /\ \A i \in 1 .. Len(r) : r[i].kind \in {"stop", "start"}
      /\ \A i \in 1 .. Len(r) : r[i].kind = "start" => ctx = Starting /\ i = Len(r)
      /\ backlog = None /\ ctx # Starting => r = <<>>
  <2>1. /\ Len(r) = Len(stop) + Len(start) /\ r \in Seq(Messages)
        /\ \A i \in 1 .. Len(stop) : r[i] = stop[i]
        /\ \A i \in 1 .. Len(start) : r[Len(stop) + i] = start[i]
    BY <1>3, <1>4
  <2>2. \A i \in 1 .. Len(r) : \/ i \in 1 .. Len(stop) /\ r[i].kind = "stop"
                               \/ /\ i = Len(r) /\ r[i].kind = "start"
                                  /\ ctx = Starting
    <3>1. ASSUME NEW i \in 1 .. Len(r), i \notin 1 .. Len(stop)
          PROVE  i = Len(r) /\ r[i].kind = "start" /\ ctx = Starting
      <4>1. Len(start) = 1 /\ i = Len(stop) + 1 /\ 1 \in 1 .. Len(start)
        BY <1>3, <1>4, <2>1, <3>1
      <4>. QED  BY <1>4, <2>1, <4>1
    <3>. QED  BY <1>3, <2>1, <3>1
  <2>3. backlog = None /\ ctx # Starting => r = <<>>
    BY <1>3, <1>4
  <2>. QED  BY <1>3, <1>4, <2>1, <2>2, <2>3
<1>. HIDE DEF r
<1>6. /\ findOpenTransaction \in Ids \union {None}
      /\ ctx \in Ids => findOpenTransaction = ctx
  BY NewestOpenFound DEF OcppInv, RunningIsNewest
<1>7. OcppTypeOK'
  <2>1. Len(r) <= MaxInbox + 2
    BY <1>5
  <2>. QED  BY <1>1, <1>2, <1>5, <1>6, <2>1 DEF OcppInv, OcppTypeOK
<1>8. Underway(inbox', cable', plugs', autoStarted', ~hasAutoStarted', wasAvailable')
  <2>1. \A i \in 1 .. Len(r) : ~IsStatus(r[i])
    BY <1>5 DEF IsStatus
  <2>. QED  BY <1>1, <1>2, <2>1
            DEF Underway, PlugNumbers, AvailableEnds, AutoStartedOver, NextCarSeenFirst,
                SamePlug, GuardOfThisCar, IsIdle, IsCar
<1>9. StartIsLast(inbox', ctx')
  BY <1>1, <1>5 DEF StartIsLast
<1>10. NothingForeign(inbox', ctx')
  <2>1. ctx \in Ids => backlog = None /\ ctx # Starting
    BY DEF OcppInv, RunningIsNewest, Ids
  <2>2. ctx \in Ids => Len(r) = 0
    BY <1>5, <2>1
  <2>. QED  BY <1>1, <2>2 DEF NothingForeign
<1>11. (LiveSocketRegistered /\ OfflineOrEmptied /\ RoomForTrigger /\ CableMatchesStatus
        /\ FreeUpwards /\ IdleServer /\ autoStarted \subseteq 1 .. plugs)'
  BY <1>1, <1>2, <1>5
     DEF OcppInv, LiveSocketRegistered, OfflineOrEmptied, RoomForTrigger, CableMatchesStatus,
         FreeUpwards, IdleServer
<1>12. RunningIsNewest'
  BY <1>1, <1>6 DEF OcppInv, RunningIsNewest
<1>. QED  BY <1>7, <1>8, <1>9, <1>10, <1>11, <1>12 DEF OcppInv

----------------------------------------------------------------------------
(* The state the process and the charger start in.                         *)
LEMMA InitInv == Init => OcppInv
<1>. SUFFICES ASSUME Init PROVE OcppInv
  OBVIOUS
<1>. USE OcppAssumption
<1>1. /\ startCmd \in BOOLEAN /\ hasAutoStarted \in BOOLEAN /\ wasAvailable \in BOOLEAN
      /\ settled \in BOOLEAN /\ ~wasAvailable
  BY Zenon DEF Init
<1>2. /\ cur = None /\ inbox = <<>> /\ cable = 0 /\ status = "Available" /\ ctx = None
      /\ backlog = None /\ plugs = 0 /\ open = {} /\ registered = None /\ onConn = {}
      /\ activeTx = None /\ rows = [i \in Ids |-> "free"] /\ autoStarted = {}
      /\ lp \in LpStates
  BY FoldedStates DEF Init
<1>3. OcppTypeOK
  BY <1>1, <1>2 DEF OcppTypeOK, LpStates, Statuses
<1>4. Len(inbox) = 0 /\ None \notin Ids
  BY <1>2 DEF Ids
<1>5. StartIsLast(inbox, ctx) /\ NothingForeign(inbox, ctx)
  BY <1>4 DEF StartIsLast, NothingForeign
<1>6. /\ OfflineOrEmptied /\ RoomForTrigger /\ CableMatchesStatus /\ FreeUpwards
      /\ RunningIsNewest /\ IdleServer /\ autoStarted \subseteq 1 .. plugs
      /\ LiveSocketRegistered
  BY <1>2, <1>4 DEF OfflineOrEmptied, RoomForTrigger, CableMatchesStatus, FreeUpwards,
                    RunningIsNewest, IdleServer, LiveSocketRegistered
<1>. QED  BY <1>2, <1>3, <1>5, <1>6 DEF OcppInv

(* Every step of the charger, the server and the surroundings.             *)
LEMMA NextKeepsInv == OcppInv /\ [Next]_vars => OcppInv'
<1>. SUFFICES ASSUME OcppInv, [Next]_vars PROVE OcppInv'
  OBVIOUS
<1>1. CASE Charger
  BY <1>1, PlugInKeepsInv, UnplugKeepsInv, CarFullKeepsInv, CarCyclesKeepsInv,
     ObeyRemoteStartKeepsInv, MeterKeepsInv, ControllerStatusKeepsInv, LinkDropsKeepsInv
     DEF Charger
<1>2. CASE Handlers
  BY <1>2, StatusKeepsInv, MeterValuesKeepsInv, StartKeepsInv, StopKeepsInv DEF Handlers
<1>3. CASE Commands
  BY <1>3, QuietStepsKeepInv, CarFullKeepsInv DEF Commands
<1>4. CASE StartUnanswered
  BY <1>4, StartUnansweredKeepsInv
<1>5. CASE Connections
  BY <1>5, AttachKeepsInv, QuietStepsKeepInv, TriggerAnsweredKeepsInv DEF Connections
<1>6. CASE Restart
  BY <1>6, RestartKeepsInv
<1>7. CASE Settle
  BY <1>7, QuietStepsKeepInv
<1>8. CASE UNCHANGED vars
  <2>1. UNCHANGED <<cur, chargerVars, inbox, stateVars, rows, historyVars>>
        /\ UNCHANGED <<startCmd, open, registered, onConn, lp, settled>>
    BY <1>8 DEF vars
  <2>2. OcppTypeOK' /\ LiveSocketRegistered'
    BY <2>1 DEF OcppInv, OcppTypeOK, LiveSocketRegistered, chargerVars, stateVars, historyVars
  <2>. QED  BY <2>1, <2>2, QuietKeepsInv
<1>. QED  BY <1>1, <1>2, <1>3, <1>4, <1>5, <1>6, <1>7, <1>8 DEF Next

----------------------------------------------------------------------------
(* What is under way, on the charger and on the server fits together in    *)
(* every reachable state: the inductive invariant the others follow from.  *)
THEOREM InvHolds == OcppSpec => []OcppInv
<1>1. Init => OcppInv
  BY InitInv
<1>2. OcppInv /\ [Next]_vars => OcppInv'
  BY NextKeepsInv
<1>. QED  BY <1>1, <1>2, PTL DEF OcppSpec

(* Every variable of charger, server, database and loadpoint keeps its     *)
(* type: an id the server allocates or rehydrates is always a row's, and   *)
(* the inbox never exceeds its bound by more than the two messages the end *)
(* of a transaction and the owed TriggerMessage add.                       *)
THEOREM TypesHold == OcppSpec => []OcppTypeOK
<1>1. OcppInv => OcppTypeOK
  BY DEF OcppInv
<1>. QED  BY <1>1, InvHolds, PTL

(* The late disconnect of a replaced socket never takes the registration   *)
(* of the live one away (the identity guard of the disconnect handler).    *)
THEOREM LiveSocketStaysRegistered == OcppSpec => []LiveSocketRegistered
<1>1. OcppInv => LiveSocketRegistered
  BY DEF OcppInv
<1>. QED  BY <1>1, InvHolds, PTL

(* The server holds the id of the transaction the charger runs, also after *)
(* reconnects, restarts, lost stops and unanswered starts: rehydrating the *)
(* newest open row finds it.                                               *)
THEOREM RunningTransactionIsHeld == OcppSpec => []RunningTransactionHeld
<1>1. OcppInv => RunningTransactionHeld
  BY DEF OcppInv, RunningIsNewest, RunningTransactionHeld
<1>. QED  BY <1>1, InvHolds, PTL

(* Only the status handler sets hasAutoStarted. *)
LEMMA OnlyStatusStarts ==
  ASSUME [Next]_vars, ~StatusNotification, hasAutoStarted'
  PROVE  hasAutoStarted
<1>1. CASE Charger
  BY <1>1 DEF Charger, PlugIn, Unplug, CarFull, CarCycles, ObeyRemoteStart, Meter,
              ControllerStatus, LinkDrops, Unmoved, stateVars
<1>2. CASE MeterValues \/ StartTransaction \/ StopTransaction
  BY <1>2, Zenon DEF MeterValues, StartTransaction, StopTransaction, StartRow
<1>3. CASE Commands
  BY <1>3 DEF Commands, remoteStart, remoteStop, Unmoved, stateVars
<1>4. CASE StartUnanswered
  BY <1>4 DEF StartUnanswered, StartRow
<1>5. CASE Connections
  BY <1>5 DEF Connections, attachClient, onDisconnect, TriggerAnswered, TriggerFails, stateVars
<1>6. CASE Restart
  BY <1>6 DEF Restart
<1>7. CASE Settle
  BY <1>7 DEF Settle, stateVars
<1>8. CASE UNCHANGED vars
  BY <1>8 DEF vars, stateVars
<1>. QED  BY <1>1, <1>2, <1>3, <1>4, <1>5, <1>6, <1>7, <1>8 DEF Next, Handlers

(* A plug-in is auto-started at most once on a connection, and on no       *)
(* connection while its transaction runs: hasAutoStarted is only cleared   *)
(* by an Available, behind which no status of a plug-in before it is under *)
(* way, or by a new connection, which rehydrates the transaction.          *)
THEOREM AutoStartedOnce == OcppSpec => AutoStartOncePerConnection
<1>1. OcppInv /\ [Next]_vars
        => [~hasAutoStarted /\ hasAutoStarted'
              => Head(inbox).plug \notin autoStarted /\ ctx \notin Ids]_vars
  <2>. SUFFICES ASSUME OcppInv, [Next]_vars, ~hasAutoStarted, hasAutoStarted'
                PROVE  Head(inbox).plug \notin autoStarted /\ ctx \notin Ids
    OBVIOUS
  <2>1. StatusNotification
    BY OnlyStatusStarts
  <2>2. inbox # <<>> /\ IsStatus(inbox[1])
    BY <2>1, HeadFacts DEF StatusNotification, Handling, IsStatus
  <2>3. \A p \in autoStarted : PlugInOver(inbox, cable, 0, p)
    BY <2>2, HeadFacts DEF Underway, AutoStartedOver
  <2>4. Head(inbox).plug \notin autoStarted
    BY <2>2, <2>3, HeadFacts DEF PlugInOver
  <2>5. activeTx = None
    BY <2>1 DEF StatusNotification, Release, shouldAutoStartTransaction
  <2>6. cur # None /\ None \notin Ids
    BY <2>2, HeadFacts, OcppAssumption DEF Ids
  <2>. QED  BY <2>4, <2>5, <2>6 DEF OcppInv, RunningIsNewest
<1>. QED  BY <1>1, InvHolds, PTL DEF OcppSpec, AutoStartOncePerConnection

(* A car seen for the first time on a connection is auto-started, unless   *)
(* the server holds a transaction and saw no Available: an Available has   *)
(* cleared the held transaction, whichever it was, and the guard of an     *)
(* earlier plug-in ended with that plug-in or with its connection.         *)
THEOREM NextCarGetsStarted == OcppSpec => NextCarIsAutoStarted
<1>1. OcppInv /\ [Next]_vars
        => [StatusNotification /\ Head(inbox).status = "Preparing"
              /\ Head(inbox).plug \notin autoStarted /\ (wasAvailable \/ activeTx = None)
              => startCmd']_vars
  <2>. SUFFICES ASSUME OcppInv, StatusNotification, Head(inbox).status = "Preparing",
                       Head(inbox).plug \notin autoStarted, wasAvailable \/ activeTx = None
                PROVE  startCmd'
    OBVIOUS
  <2>1. inbox # <<>> /\ cur # None /\ IsCar(inbox[1])
    BY HeadFacts DEF StatusNotification, Handling, IsCar, IsStatus
  <2>2. activeTx = None
    BY <2>1 DEF OcppInv, IdleServer
  <2>3. ASSUME hasAutoStarted PROVE FALSE
    <3>1. PICK p \in autoStarted : UntilIdle(inbox, cable, 0, p)
      BY <2>1, <2>3, HeadFacts DEF Underway, GuardOfThisCar
    <3>2. inbox[1].plug = p
      BY <2>1, <3>1, HeadFacts DEF UntilIdle
    <3>. QED  BY <2>1, <3>1, <3>2, HeadFacts
  <2>4. shouldAutoStartTransaction(Head(inbox).status, activeTx, hasAutoStarted)
    BY <2>2, <2>3 DEF shouldAutoStartTransaction
  <2>. QED  BY <2>4 DEF StatusNotification
<1>. QED  BY <1>1, InvHolds, PTL DEF OcppSpec, NextCarIsAutoStarted

=============================================================================
