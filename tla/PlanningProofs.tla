--------------------------- MODULE PlanningProofs ---------------------------
(***************************************************************************)
(* What the operators of Planning return, for every number of loadpoints   *)
(* and every value of the constants.  Sum and Remaining are recursive      *)
(* functions: that they are defined, and what holds along them, follows by *)
(* least counterexamples.                                                  *)
(***************************************************************************)
EXTENDS Planning, TLAPS, FiniteSetTheorems, WellFoundedInduction

Below == {p \in Nat \X Nat : p[1] < p[2]}

(* A non-empty set of naturals has a least element.                        *)
LEMMA LeastElement ==
    ASSUME NEW T, T \subseteq Nat, T # {}
    PROVE  \E m \in T : \A k \in T : m <= k
<1>1. IsWellFoundedOn(Below, Nat)
  BY NatLessThanWellFounded DEF OpToRel, Below
<1>2. PICK m \in T : \A k \in T : ~(<<k, m>> \in Below)
  BY <1>1, WFMin
<1>3. \A k \in T : ~(k < m)
  BY <1>2 DEF Below
<1>. QED  BY <1>3

(* A set of indices that has the first and with each the next has all.     *)
LEMMA Upwards ==
    ASSUME NEW n \in Nat, NEW T,
           0 \in T, \A i \in 1..n : i - 1 \in T => i \in T
    PROVE  \A i \in 0..n : i \in T
<1>. SUFFICES ASSUME (0..n) \ T # {} PROVE FALSE
  OBVIOUS
<1>1. PICK m \in (0..n) \ T : \A k \in (0..n) \ T : m <= k
  <2>1. (0..n) \ T \subseteq Nat
    OBVIOUS
  <2>. QED  BY <2>1, LeastElement
<1>2. m \in 1..n /\ m - 1 \in 0..n
  BY <1>1
<1>3. m - 1 \in T
  BY <1>1, <1>2
<1>. QED  BY <1>1, <1>2, <1>3

(* Recursion along an interval, with the step given as a function.         *)
LEMMA RecursionExists ==
    ASSUME NEW n \in Nat, NEW a \in Int, NEW F \in [(1..n) \X Int -> Int]
    PROVE  \E g \in [0..n -> Int] : g[0] = a /\ \A i \in 1..n : g[i] = F[<<i, g[i - 1]>>]
<1>. DEFINE Upto(k, g) == g[0] = a /\ \A i \in 1..k : g[i] = F[<<i, g[i - 1]>>]
            T == {k \in 0..n : \E g \in [0..k -> Int] : Upto(k, g)}
<1>1. 0 \in T
  <2>1. Upto(0, [i \in 0..0 |-> a])
    OBVIOUS
  <2>2. [i \in 0..0 |-> a] \in [0..0 -> Int]
    OBVIOUS
  <2>. HIDE DEF Upto
  <2>3. \E g \in [0..0 -> Int] : Upto(0, g)
    BY <2>1, <2>2
  <2>. QED  BY <2>3
<1>2. ASSUME NEW i \in 1..n, i - 1 \in T PROVE i \in T
  <2>1. PICK g \in [0..i - 1 -> Int] : Upto(i - 1, g)
    BY <1>2
  <2>. DEFINE h == [k \in 0..i |-> IF k = i THEN F[<<i, g[i - 1]>>] ELSE g[k]]
  <2>2. g[i - 1] \in Int
    BY <2>1
  <2>3. F[<<i, g[i - 1]>>] \in Int
    BY <2>2
  <2>4. h \in [0..i -> Int]
    BY <2>1, <2>3
  <2>5. h[0] = a
    BY <2>1
  <2>6. \A k \in 1..i : h[k] = F[<<k, h[k - 1]>>]
    <3>. TAKE k \in 1..i
    <3>1. CASE k = i
      <4>1. h[i - 1] = g[i - 1]
        OBVIOUS
      <4>2. h[i] = F[<<i, g[i - 1]>>]
        OBVIOUS
      <4>. HIDE DEF h
      <4>. QED  BY <3>1, <4>1, <4>2
    <3>2. CASE k # i
      <4>1. h[k - 1] = g[k - 1] /\ h[k] = g[k]
        BY <3>2
      <4>2. k \in 1..(i - 1)
        BY <3>2
      <4>. QED  BY <4>1, <4>2, <2>1
    <3>. QED  BY <3>1, <3>2
  <2>7. Upto(i, h)
    BY <2>5, <2>6
  <2>. HIDE DEF h, Upto
  <2>8. \E f \in [0..i -> Int] : Upto(i, f)
    BY <2>4, <2>7
  <2>. QED  BY <2>8
<1>. HIDE DEF T
<1>3. n \in T
  BY <1>1, <1>2, Upwards
<1>. QED  BY <1>3 DEF T

(* Sum is the last of its partial sums.                                    *)
Partial(f) ==
    CHOOSE upTo : upTo = [i \in 0..N |-> IF i = 0 THEN 0 ELSE upTo[i - 1] + f[i]]

(* The equations Sum's recursive function satisfies.                       *)
LEMMA PartialSums ==
    ASSUME NEW f, \A i \in Loadpoints : f[i] \in Int
    PROVE  /\ Sum(f) = Partial(f)[N]
           /\ Partial(f)[0] = 0
           /\ \A i \in Loadpoints : Partial(f)[i] = Partial(f)[i - 1] + f[i]
           /\ \A i \in 0..N : Partial(f)[i] \in Int
<1>. N \in Nat
  BY PlanningAssumption
<1>. DEFINE F == [p \in (1..N) \X Int |-> p[2] + f[p[1]]]
            step(g) == [i \in 0..N |-> IF i = 0 THEN 0 ELSE g[i - 1] + f[i]]
<1>1. F \in [(1..N) \X Int -> Int]
  BY DEF Loadpoints
<1>2. \A i \in 1..N, x \in Int : F[<<i, x>>] = x + f[i]
  OBVIOUS
<1>. HIDE DEF F
<1>3. PICK g \in [0..N -> Int] : g[0] = 0 /\ \A i \in 1..N : g[i] = F[<<i, g[i - 1]>>]
  <2>1. 0 \in Int
    OBVIOUS
  <2>. QED  BY <1>1, <2>1, RecursionExists, Zenon
<1>4. \A i \in 1..N : g[i] = g[i - 1] + f[i]
  <2>1. \A i \in 1..N : g[i - 1] \in Int
    BY <1>3
  <2>. QED  BY <1>2, <1>3, <2>1
<1>5. Partial(f) = step(Partial(f))
  <2>1. g = step(g)
    BY <1>3, <1>4
  <2>. QED  BY <2>1 DEF Partial
<1>6. Partial(f)[0] = 0
  BY <1>5
<1>7. \A i \in 1..N : Partial(f)[i] = Partial(f)[i - 1] + f[i]
  BY <1>5
<1>. DEFINE T == {i \in 0..N : Partial(f)[i] \in Int}
<1>8. \A i \in 0..N : i \in T
  <2>1. 0 \in T
    BY <1>6
  <2>2. \A i \in 1..N : i - 1 \in T => i \in T
    <3>. SUFFICES ASSUME NEW i \in 1..N, Partial(f)[i - 1] \in Int
                  PROVE  Partial(f)[i] \in Int
      OBVIOUS
    <3>1. f[i] \in Int
      BY DEF Loadpoints
    <3>2. Partial(f)[i] = Partial(f)[i - 1] + f[i]
      BY <1>7
    <3>. QED  BY <3>1, <3>2
  <2>. HIDE DEF T
  <2>. QED  BY <2>1, <2>2, Upwards
<1>9. Sum(f) = Partial(f)[N]
  BY DEF Sum, Partial
<1>. QED  BY <1>6, <1>7, <1>8, <1>9 DEF Loadpoints

(* A sum of integers is one, and of naturals too.                          *)
LEMMA SumType ==
    ASSUME NEW f
    PROVE  /\ (\A i \in Loadpoints : f[i] \in Int) => Sum(f) \in Int
           /\ (\A i \in Loadpoints : f[i] \in Nat) => Sum(f) \in Nat
<1>. N \in Nat
  BY PlanningAssumption
<1>1. ASSUME \A i \in Loadpoints : f[i] \in Int PROVE Sum(f) \in Int
  BY <1>1, PartialSums
<1>2. ASSUME \A i \in Loadpoints : f[i] \in Nat PROVE Sum(f) \in Nat
  <2>1. \A i \in Loadpoints : f[i] \in Int
    BY <1>2
  <2>. DEFINE T == {i \in 0..N : Partial(f)[i] \in Nat}
  <2>2. 0 \in T
    BY <2>1, PartialSums
  <2>3. \A i \in 1..N : i - 1 \in T => i \in T
    BY <1>2, <2>1, PartialSums DEF Loadpoints
  <2>. HIDE DEF T
  <2>4. N \in T
    BY <2>2, <2>3, Upwards
  <2>. QED  BY <2>1, <2>4, PartialSums DEF T
<1>. QED  BY <1>1, <1>2

(* A sum of smaller terms is no larger.                                    *)
LEMMA SumMonotone ==
    ASSUME NEW f, NEW g, \A i \in Loadpoints : f[i] \in Int /\ g[i] \in Int /\ f[i] <= g[i]
    PROVE  Sum(f) <= Sum(g)
<1>. N \in Nat
  BY PlanningAssumption
<1>1. /\ Partial(f)[0] = 0 /\ Partial(g)[0] = 0
      /\ \A i \in Loadpoints : /\ Partial(f)[i] = Partial(f)[i - 1] + f[i]
                              /\ Partial(g)[i] = Partial(g)[i - 1] + g[i]
      /\ \A i \in 0..N : Partial(f)[i] \in Int /\ Partial(g)[i] \in Int
      /\ Sum(f) = Partial(f)[N] /\ Sum(g) = Partial(g)[N]
  BY PartialSums
<1>. DEFINE T == {i \in 0..N : Partial(f)[i] <= Partial(g)[i]}
<1>2. 0 \in T
  BY <1>1
<1>3. ASSUME NEW i \in 1..N, i - 1 \in T PROVE i \in T
  <2>1. /\ Partial(f)[i] = Partial(f)[i - 1] + f[i] /\ Partial(g)[i] = Partial(g)[i - 1] + g[i]
        /\ Partial(f)[i - 1] \in Int /\ Partial(g)[i - 1] \in Int
        /\ f[i] \in Int /\ g[i] \in Int /\ f[i] <= g[i]
    BY <1>1 DEF Loadpoints
  <2>. QED  BY <1>3, <2>1
<1>. HIDE DEF T
<1>4. N \in T
  BY <1>2, <1>3, Upwards
<1>. QED  BY <1>1, <1>4 DEF T

(***************************************************************************)
(* What allocate gives.                                                    *)
(***************************************************************************)
(* What the hysteresis and the floor leave: nothing, or the new or the old *)
(* value, at least the minimum and no more than Hysteresis above the new.  *)
LEMMA SteadyBounds ==
    ASSUME NEW give \in Int, NEW prev, prev # NoValue => prev \in Nat
    PROVE  /\ Steady(give, prev) \in Nat
           /\ Steady(give, prev) = 0 \/ Steady(give, prev) >= MinA
           /\ Steady(give, prev) # 0 => Steady(give, prev) = give \/ Steady(give, prev) = prev
           /\ Steady(give, prev) # 0 => Steady(give, prev) <= give + Hysteresis
           /\ give < 0 => Steady(give, prev) = 0
<1>1. CASE prev = NoValue
  BY <1>1, PlanningAssumption DEF Steady
<1>2. CASE prev # NoValue
  BY <1>2, PlanningAssumption DEF Steady, Gap
<1>. QED  BY <1>1, <1>2

Given(prev) == \A i \in Loadpoints : prev[i] # NoValue => prev[i] \in Nat
Ceilings(maxA) == \A i \in Loadpoints : maxA[i] \in Nat

(* The equations of what is left after each loadpoint's turn.              *)
LEMMA RemainingSteps ==
    ASSUME NEW budget \in Int, NEW ask, NEW maxA, NEW prev, Given(prev), Ceilings(maxA)
    PROVE  LET left == Remaining(budget, ask, maxA, prev)
           IN  /\ left[0] = budget
               /\ \A i \in Loadpoints :
                     left[i] = IF ask[i] = "fast"
                                 THEN left[i - 1] - Steady(Lower(maxA[i], left[i - 1]), prev[i])
                                 ELSE left[i - 1]
               /\ \A i \in 0..N : left[i] \in Int
<1>. N \in Nat
  BY PlanningAssumption
<1>. DEFINE after(i, x) == IF ask[i] = "fast" THEN x - Steady(Lower(maxA[i], x), prev[i]) ELSE x
            F == [p \in (1..N) \X Int |-> after(p[1], p[2])]
            step(g) == [i \in 0..N |-> IF i = 0 THEN budget ELSE after(i, g[i - 1])]
            left == Remaining(budget, ask, maxA, prev)
<1>1. ASSUME NEW i \in 1..N, NEW x \in Int PROVE after(i, x) \in Int
  <2>1. Lower(maxA[i], x) \in Int
    BY DEF Ceilings, Lower, Loadpoints
  <2>2. Steady(Lower(maxA[i], x), prev[i]) \in Nat
    BY <2>1, SteadyBounds DEF Given, Loadpoints
  <2>. QED  BY <2>2
<1>2. F \in [(1..N) \X Int -> Int]
  <2>. HIDE DEF after
  <2>. QED  BY <1>1
<1>3. \A i \in 1..N, x \in Int : F[<<i, x>>] = after(i, x)
  <2>. HIDE DEF after
  <2>. QED  OBVIOUS
<1>. HIDE DEF F
<1>4. PICK g \in [0..N -> Int] : g[0] = budget /\ \A i \in 1..N : g[i] = F[<<i, g[i - 1]>>]
  BY <1>2, RecursionExists, Zenon
<1>5. \A i \in 1..N : g[i] = after(i, g[i - 1])
  <2>1. \A i \in 1..N : g[i - 1] \in Int
    BY <1>4
  <2>. HIDE DEF after
  <2>. QED  BY <1>3, <1>4, <2>1
<1>6. left = step(left)
  <2>1. g = step(g)
    <3>. HIDE DEF after
    <3>. QED  BY <1>4, <1>5
  <2>2. left = CHOOSE h : h = step(h)
    BY DEF Remaining
  <2>. HIDE DEF left, step
  <2>. QED  BY <2>1, <2>2
<1>. HIDE DEF left
<1>7. left[0] = budget
  BY <1>6
<1>8. \A i \in 1..N : left[i] = after(i, left[i - 1])
  <2>. HIDE DEF after
  <2>. QED  BY <1>6
<1>9. \A i \in 0..N : left[i] \in Int
  <2>. DEFINE T == {i \in 0..N : left[i] \in Int}
  <2>1. 0 \in T
    BY <1>7
  <2>2. ASSUME NEW i \in 1..N, i - 1 \in T PROVE i \in T
    <3>1. left[i] \in Int
      <4>. HIDE DEF after
      <4>. QED  BY <1>1, <1>8, <2>2
    <3>. QED  BY <3>1
  <2>. HIDE DEF T
  <2>3. \A i \in 0..N : i \in T
    BY <2>1, <2>2, Upwards
  <2>. QED  BY <2>3 DEF T
<1>. QED  BY <1>7, <1>8, <1>9 DEF left, Loadpoints

Smart(ask, i) == {j \in 1..i : ask[j] = "smart"}

(* Counting the smart loadpoints one by one.                               *)
LEMMA SmartCount ==
    ASSUME NEW ask, NEW i \in Nat
    PROVE  /\ Cardinality(Smart(ask, i)) \in 0..i
           /\ i > 0 => Cardinality(Smart(ask, i)) =
                         Cardinality(Smart(ask, i - 1)) + (IF ask[i] = "smart" THEN 1 ELSE 0)
<1>1. \A k \in Nat : /\ IsFiniteSet(Smart(ask, k))
                     /\ Cardinality(Smart(ask, k)) \in 0..k
  <2>. TAKE k \in Nat
  <2>1. IsFiniteSet(1..k) /\ Cardinality(1..k) = k
    BY FS_Interval
  <2>2. Smart(ask, k) \subseteq 1..k
    BY DEF Smart
  <2>. QED  BY <2>1, <2>2, FS_Subset, FS_CardinalityType
<1>2. ASSUME i > 0 PROVE Cardinality(Smart(ask, i)) =
                           Cardinality(Smart(ask, i - 1)) + (IF ask[i] = "smart" THEN 1 ELSE 0)
  <2>1. i - 1 \in Nat /\ IsFiniteSet(Smart(ask, i - 1)) /\ i \notin Smart(ask, i - 1)
    BY <1>1, <1>2 DEF Smart
  <2>2. CASE ask[i] = "smart"
    <3>1. Smart(ask, i) = Smart(ask, i - 1) \union {i}
      BY <1>2, <2>2 DEF Smart
    <3>. QED  BY <2>1, <2>2, <3>1, FS_AddElement
  <2>3. CASE ask[i] # "smart"
    <3>1. Smart(ask, i) = Smart(ask, i - 1)
      BY <1>2, <2>3 DEF Smart
    <3>. QED  BY <1>1, <2>1, <2>3, <3>1
  <2>. QED  BY <2>2, <2>3
<1>. QED  BY <1>1, <1>2

(* Integer division as far as a fair share needs it.                       *)
LEMMA Division ==
    ASSUME NEW a \in Int, NEW n \in Nat \ {0}
    PROVE  a \div n \in Int /\ n * (a \div n) <= a /\ (a < 0 => a \div n < 0)
             /\ (a >= 0 => a \div n >= 0)
  OBVIOUS

(* Products of integers, spelled out for the SMT solver.                   *)
LEMMA Distribute ==
    ASSUME NEW c \in Int, NEW x \in Int, NEW y \in Int
    PROVE  c * x \in Int /\ (c + 1) * x = c * x + x /\ c * (x + y) = c * x + c * y
  OBVIOUS

(* What a loadpoint is given is nothing, or the steadied value of some      *)
(* candidate below its ceiling.                                            *)
LEMMA Candidate ==
    ASSUME NEW budget \in Int, NEW ask, NEW maxA, NEW prev, NEW i \in Loadpoints,
           Given(prev), Ceilings(maxA)
    PROVE  \/ allocate(budget, ask, maxA, prev)[i] = 0
           \/ \E give \in Int : /\ give <= maxA[i]
                               /\ allocate(budget, ask, maxA, prev)[i] = Steady(give, prev[i])
<1>. N \in Nat /\ MinA \in Nat
  BY PlanningAssumption
<1>. DEFINE left == Remaining(budget, ask, maxA, prev)
            share == left[N] \div Cardinality({j \in Loadpoints : ask[j] = "smart"})
<1>1. \A x \in Int : Lower(maxA[i], x) \in Int /\ Lower(maxA[i], x) <= maxA[i]
                     /\ Lower(x, maxA[i]) \in Int /\ Lower(x, maxA[i]) <= maxA[i]
  BY DEF Lower, Ceilings
<1>2. left[i - 1] \in Int /\ left[N] \in Int
  BY RemainingSteps DEF Loadpoints
<1>3. CASE ask[i] = "fast"
  <2>1. allocate(budget, ask, maxA, prev)[i] = Steady(Lower(maxA[i], left[i - 1]), prev[i])
    BY <1>3 DEF allocate
  <2>. QED  BY <1>1, <1>2, <2>1
<1>4. CASE ask[i] = "smart"
  <2>1. allocate(budget, ask, maxA, prev)[i] = Steady(Lower(share, maxA[i]), prev[i])
    BY <1>4 DEF allocate
  <2>2. Cardinality(Smart(ask, N)) \in Nat \ {0}
    <3>1. i \in Smart(ask, N) /\ Smart(ask, N) \subseteq 1..N
      BY <1>4 DEF Smart, Loadpoints
    <3>2. IsFiniteSet(Smart(ask, N))
      BY <3>1, FS_Interval, FS_Subset
    <3>. QED  BY <3>1, <3>2, FS_EmptySet, FS_CardinalityType
  <2>3. share \in Int
    BY <1>2, <2>2, Division DEF Smart, Loadpoints
  <2>. QED  BY <1>1, <2>1, <2>3
<1>5. CASE ask[i] \notin {"fast", "smart"}
  BY <1>5 DEF allocate
<1>. QED  BY <1>3, <1>4, <1>5

(* allocate gives each loadpoint nothing, or something from the minimum to *)
(* its ceiling; above it, by no more than the hysteresis, only what it was *)
(* last commanded, when the ceiling was lowered since.                     *)
THEOREM AllocateLegal ==
    ASSUME NEW budget \in Int, NEW ask, NEW maxA, NEW prev, NEW i \in Loadpoints,
           Given(prev), Ceilings(maxA)
    PROVE  LET amps == allocate(budget, ask, maxA, prev)[i]
           IN  /\ amps \in {0} \union MinA..maxA[i] + Hysteresis
               /\ amps > maxA[i] => prev[i] # NoValue /\ amps = prev[i]
<1>1. ASSUME NEW give \in Int, give <= maxA[i]
      PROVE  /\ Steady(give, prev[i]) \in {0} \union MinA..maxA[i] + Hysteresis
             /\ Steady(give, prev[i]) > maxA[i]
                  => prev[i] # NoValue /\ Steady(give, prev[i]) = prev[i]
  <2>1. prev[i] # NoValue => prev[i] \in Nat
    BY DEF Given
  <2>2. /\ maxA[i] \in Nat /\ MinA \in Nat /\ NoValue \notin Int /\ Hysteresis \in Nat
    BY PlanningAssumption DEF Ceilings
  <2>3. prev[i] = NoValue => Steady(give, prev[i]) \in {0, give}
    BY DEF Steady
  <2>. QED  BY <1>1, <2>1, <2>2, <2>3, SteadyBounds
<1>2. 0 <= maxA[i]
  BY DEF Ceilings
<1>3. CASE allocate(budget, ask, maxA, prev)[i] = 0
  BY <1>2, <1>3 DEF Ceilings
<1>4. CASE \E give \in Int : /\ give <= maxA[i]
                             /\ allocate(budget, ask, maxA, prev)[i] = Steady(give, prev[i])
  BY <1>1, <1>4
<1>. QED  BY <1>3, <1>4, Candidate

(* With ceilings that stay, it is within them.                             *)
COROLLARY AllocateWithinCeilings ==
    ASSUME NEW budget \in Int, NEW ask, NEW maxA, NEW prev, NEW i \in Loadpoints,
           Given(prev), Ceilings(maxA),
           \A j \in Loadpoints : prev[j] # NoValue => prev[j] <= maxA[j]
    PROVE  allocate(budget, ask, maxA, prev)[i] \in {0} \union MinA..maxA[i]
<1>1. maxA[i] \in Nat /\ MinA \in Nat /\ Hysteresis \in Nat
  BY PlanningAssumption DEF Ceilings
<1>. QED  BY <1>1, AllocateLegal

(* What the deadband keeps from being written is what the charger has been *)
(* told: a value beyond the hysteresis is beyond a deadband of at most     *)
(* one more, and a pause is always further away than that.                 *)
LEMMA UnwrittenIsHeld ==
    ASSUME Deadband <= Hysteresis + 1,
           NEW budget \in Int, NEW ask, NEW maxA, NEW prev, NEW i \in Loadpoints,
           Given(prev), Ceilings(maxA),
           prev[i] # NoValue => prev[i] = 0 \/ prev[i] >= MinA,
           ~shouldWrite(allocate(budget, ask, maxA, prev)[i], prev[i])
    PROVE  prev[i] # NoValue /\ allocate(budget, ask, maxA, prev)[i] = prev[i]
<1>. DEFINE amps == allocate(budget, ask, maxA, prev)[i]
<1>1. prev[i] # NoValue /\ prev[i] \in Nat /\ ~(Gap(amps, prev[i]) >= Deadband)
  BY DEF shouldWrite, Given
<1>2. /\ MinA \in Nat \ {0} /\ Hysteresis \in Nat /\ Deadband \in Nat
      /\ 2 * Hysteresis < MinA /\ Hysteresis + 1 <= MinA
  BY PlanningAssumption
<1>3. amps = 0 \/ \E give \in Int : amps = Steady(give, prev[i])
  BY Candidate
<1>. HIDE DEF amps
<1>4. ASSUME amps = 0 PROVE amps = prev[i]
  BY <1>1, <1>2, <1>4 DEF Gap
<1>5. ASSUME NEW give \in Int, amps = Steady(give, prev[i]) PROVE amps = prev[i]
  <2>1. CASE Gap(give, prev[i]) <= Hysteresis
    BY <1>1, <1>2, <1>5, <2>1 DEF Steady
  <2>2. CASE ~(Gap(give, prev[i]) <= Hysteresis)
    BY <1>1, <1>2, <1>5, <2>2 DEF Steady, Gap
  <2>. QED  BY <2>1, <2>2
<1>. QED  BY <1>1, <1>3, <1>4, <1>5 DEF amps

(* Without a budget every loadpoint is paused: no command is so close to   *)
(* nothing that the hysteresis would keep it.                              *)
LEMMA NothingToAllocate ==
    ASSUME NEW ask, NEW maxA, NEW prev, NEW i \in Loadpoints, Given(prev), Ceilings(maxA),
           \A j \in Loadpoints : prev[j] # NoValue => prev[j] = 0 \/ prev[j] >= MinA
    PROVE  allocate(0, ask, maxA, prev)[i] = 0
<1>. N \in Nat \ {0} /\ MinA \in Nat \ {0} /\ Hysteresis \in Nat /\ Hysteresis < MinA
  BY PlanningAssumption
<1>. DEFINE left == Remaining(0, ask, maxA, prev)
            T == {k \in 0..N : left[k] = 0}
<1>1. \A j \in Loadpoints : /\ Steady(0, prev[j]) = 0
                            /\ Lower(maxA[j], 0) = 0 /\ Lower(0, maxA[j]) = 0
  BY DEF Given, Ceilings, Steady, Gap, Lower
<1>2. /\ left[0] = 0
      /\ \A k \in Loadpoints :
            left[k] = IF ask[k] = "fast"
                        THEN left[k - 1] - Steady(Lower(maxA[k], left[k - 1]), prev[k])
                        ELSE left[k - 1]
  BY RemainingSteps
<1>. HIDE DEF left
<1>3. 0 \in T
  BY <1>2
<1>4. ASSUME NEW k \in 1..N, k - 1 \in T PROVE k \in T
  BY <1>1, <1>2, <1>4 DEF Loadpoints
<1>5. \A k \in 0..N : left[k] = 0
  <2>. HIDE DEF T
  <2>1. \A k \in 0..N : k \in T
    BY <1>3, <1>4, Upwards
  <2>. QED  BY <2>1 DEF T
<1>6. CASE ask[i] = "fast"
  <2>1. allocate(0, ask, maxA, prev)[i] = Steady(Lower(maxA[i], left[i - 1]), prev[i])
    BY <1>6 DEF allocate, left
  <2>. QED  BY <1>1, <1>5, <2>1 DEF Loadpoints
<1>7. CASE ask[i] = "smart"
  <2>1. Cardinality(Smart(ask, N)) \in Nat \ {0}
    <3>1. i \in Smart(ask, N) /\ Smart(ask, N) \subseteq 1..N
      BY <1>7 DEF Smart, Loadpoints
    <3>2. IsFiniteSet(Smart(ask, N))
      BY <3>1, FS_Interval, FS_Subset
    <3>. QED  BY <3>1, <3>2, FS_EmptySet, FS_CardinalityType
  <2>2. 0 \div Cardinality(Smart(ask, N)) = 0
    BY <2>1
  <2>3. allocate(0, ask, maxA, prev)[i]
          = Steady(Lower(left[N] \div Cardinality(Smart(ask, N)), maxA[i]), prev[i])
    BY <1>7 DEF allocate, left, Smart, Loadpoints
  <2>. QED  BY <1>1, <1>5, <2>2, <2>3
<1>8. CASE ask[i] \notin {"fast", "smart"}
  BY <1>8 DEF allocate
<1>. QED  BY <1>6, <1>7, <1>8

(* The split exceeds the budget by no more than the hysteresis of each     *)
(* loadpoint, whatever was commanded before.                               *)
THEOREM AllocateWithinBudget ==
    ASSUME NEW budget \in Nat, NEW ask, NEW maxA, NEW prev, Given(prev), Ceilings(maxA)
    PROVE  Sum(allocate(budget, ask, maxA, prev)) <= budget + N * Hysteresis
<1>. N \in Nat \ {0} /\ MinA \in Nat /\ Hysteresis \in Nat /\ Hysteresis < MinA
  BY PlanningAssumption
<1>. DEFINE left == Remaining(budget, ask, maxA, prev)
            n == Cardinality(Smart(ask, N))
            share == left[N] \div n
            most == IF left[N] < 0 \/ n = 0 THEN 0 ELSE share + Hysteresis
            amps == allocate(budget, ask, maxA, prev)
            c(i) == Cardinality(Smart(ask, i))
<1>1. /\ left[0] = budget
      /\ \A i \in Loadpoints :
            left[i] = IF ask[i] = "fast"
                        THEN left[i - 1] - Steady(Lower(maxA[i], left[i - 1]), prev[i])
                        ELSE left[i - 1]
      /\ \A i \in 0..N : left[i] \in Int
  BY RemainingSteps
<1>2. n \in 0..N
  BY SmartCount
<1>. HIDE DEF left, n
<1>3. /\ most \in Nat
      /\ left[N] < 0 => n * most = 0
      /\ left[N] >= 0 => n * most <= left[N] + n * Hysteresis
  <2>1. left[N] \in Int /\ n \in Nat
    BY <1>1, <1>2
  <2>2. CASE left[N] < 0 \/ n = 0
    <3>1. most = 0
      BY <2>2
    <3>. QED  BY <2>1, <2>2, <3>1
  <2>3. CASE left[N] >= 0 /\ n # 0
    <3>1. share \in Nat /\ n * share <= left[N]
      BY <2>1, <2>3, Division
    <3>2. n * most = n * share + n * Hysteresis
      BY <2>1, <2>3, <3>1, Distribute
    <3>. QED  BY <2>1, <2>3, <3>1, <3>2
  <2>. QED  BY <2>1, <2>2, <2>3
<1>. HIDE DEF most
<1>4. ASSUME NEW i \in Loadpoints, ask[i] = "fast"
      PROVE  /\ amps[i] = left[i - 1] - left[i] /\ amps[i] \in Nat
             /\ left[i - 1] >= -Hysteresis => left[i] >= -Hysteresis
  <2>1. left[i - 1] \in Int /\ maxA[i] \in Nat /\ i - 1 \in 0..N
    BY <1>1 DEF Loadpoints, Ceilings
  <2>. DEFINE give == Lower(maxA[i], left[i - 1])
  <2>2. give \in Int /\ give <= left[i - 1] /\ (left[i - 1] < 0 => give < 0)
    BY <2>1 DEF Lower
  <2>3. amps[i] = Steady(give, prev[i])
    BY <1>4 DEF allocate, left
  <2>4. left[i] = left[i - 1] - Steady(give, prev[i])
    BY <1>1, <1>4
  <2>. HIDE DEF give
  <2>5. /\ Steady(give, prev[i]) \in Nat
        /\ Steady(give, prev[i]) # 0 => Steady(give, prev[i]) <= give + Hysteresis
        /\ give < 0 => Steady(give, prev[i]) = 0
    BY <2>2, SteadyBounds DEF Given
  <2>. QED  BY <2>1, <2>2, <2>3, <2>4, <2>5
<1>5. ASSUME NEW i \in Loadpoints, ask[i] = "smart"
      PROVE  left[i] = left[i - 1] /\ amps[i] \in Nat /\ amps[i] <= most
  <2>1. left[i] = left[i - 1]
    BY <1>1, <1>5
  <2>. DEFINE give == Lower(share, maxA[i])
  <2>2. amps[i] = Steady(give, prev[i])
    BY <1>5 DEF allocate, left, n, Smart, Loadpoints
  <2>3. n # 0
    <3>1. i \in Smart(ask, N) /\ Smart(ask, N) \subseteq 1..N
      BY <1>5 DEF Smart, Loadpoints
    <3>2. IsFiniteSet(Smart(ask, N))
      BY <3>1, FS_Interval, FS_Subset
    <3>. QED  BY <3>1, <3>2, FS_EmptySet DEF n
  <2>4. share \in Int /\ left[N] \in Int /\ (left[N] < 0 => share < 0) /\ (left[N] >= 0 => share >= 0)
    BY <1>1, <1>2, <2>3, Division
  <2>5. give \in Int /\ give <= share /\ (share < 0 => give < 0)
    BY <2>4 DEF Lower, Ceilings
  <2>. HIDE DEF give, share
  <2>6. /\ Steady(give, prev[i]) \in Nat
        /\ Steady(give, prev[i]) # 0 => Steady(give, prev[i]) <= give + Hysteresis
        /\ give < 0 => Steady(give, prev[i]) = 0
    BY <2>5, SteadyBounds DEF Given
  <2>7. most = IF left[N] < 0 \/ n = 0 THEN 0 ELSE share + Hysteresis
    BY DEF most, share
  <2>. QED  BY <2>1, <2>2, <2>3, <2>4, <2>5, <2>6, <2>7
<1>6. ASSUME NEW i \in Loadpoints, ask[i] \notin {"fast", "smart"}
      PROVE  left[i] = left[i - 1] /\ amps[i] = 0
  BY <1>1, <1>6 DEF allocate
<1>7. \A i \in Loadpoints : amps[i] \in Int
  BY <1>4, <1>5, <1>6
<1>. HIDE DEF amps
<1>. DEFINE T == {i \in 0..N : /\ left[i] >= -Hysteresis
                              /\ Partial(amps)[i] <= budget - left[i] + c(i) * most}
<1>8. 0 \in T
  <2>1. c(0) = 0
    BY SmartCount
  <2>2. c(0) * most = 0
    BY <1>3, <2>1
  <2>3. Partial(amps)[0] = 0
    BY <1>7, PartialSums
  <2>. QED  BY <1>1, <2>2, <2>3
<1>9. ASSUME NEW i \in 1..N, i - 1 \in T PROVE i \in T
  <2>. i \in Loadpoints /\ i - 1 \in 0..N /\ i \in 0..N
    BY DEF Loadpoints
  <2>1. /\ Partial(amps)[i] = Partial(amps)[i - 1] + amps[i]
        /\ Partial(amps)[i - 1] \in Int
    BY <1>7, PartialSums
  <2>2. left[i] \in Int /\ left[i - 1] \in Int /\ amps[i] \in Int
    BY <1>1, <1>7
  <2>3. /\ c(i) = c(i - 1) + (IF ask[i] = "smart" THEN 1 ELSE 0)
        /\ c(i) \in Nat /\ c(i - 1) \in Nat
    BY SmartCount
  <2>4. c(i) * most = c(i - 1) * most + (IF ask[i] = "smart" THEN most ELSE 0)
        /\ c(i - 1) * most \in Int /\ c(i) * most \in Int
    BY <1>3, <2>3, Distribute
  <2>5. left[i] >= -Hysteresis
    BY <1>4, <1>5, <1>6, <1>9
  <2>6. Partial(amps)[i - 1] <= budget - left[i - 1] + c(i - 1) * most
    BY <1>9
  <2>. HIDE DEF c
  <2>7. Partial(amps)[i] <= budget - left[i] + c(i) * most
    <3>1. CASE ask[i] = "fast"
      BY <1>3, <1>4, <2>1, <2>2, <2>4, <2>6, <3>1
    <3>2. CASE ask[i] = "smart"
      BY <1>3, <1>5, <2>1, <2>2, <2>4, <2>6, <3>2
    <3>3. CASE ask[i] \notin {"fast", "smart"}
      BY <1>3, <1>6, <2>1, <2>2, <2>4, <2>6, <3>3
    <3>. QED  BY <3>1, <3>2, <3>3
  <2>. QED  BY <2>5, <2>7
<1>. HIDE DEF T
<1>10. N \in T
  BY <1>8, <1>9, Upwards
<1>11. left[N] >= -Hysteresis /\ Sum(amps) <= budget - left[N] + n * most
  BY <1>7, <1>10, PartialSums DEF T, n
<1>12. n * Hysteresis \in Nat /\ n * Hysteresis <= N * Hysteresis /\ Hysteresis <= N * Hysteresis
  BY <1>2
<1>13. Sum(amps) <= budget + N * Hysteresis
  <2>1. left[N] \in Int /\ n * most \in Nat /\ N * Hysteresis \in Nat /\ Sum(amps) \in Int
    BY <1>1, <1>2, <1>3, <1>7, SumType
  <2>. QED  BY <2>1, <1>3, <1>11, <1>12
<1>. QED  BY <1>13 DEF amps
=============================================================================
