--------------------------- MODULE Simulation_proofs ----------------------------
(***************************************************************************)
(* Theorems about Simulation, for every set of prices, volumes, targets    *)
(* and thresholds, and any number of slices and lots.                      *)
(***************************************************************************)
EXTENDS Simulation, Sums_proofs

Integral == /\ MaxTrade \in Int /\ MinTrade \in Int /\ Dust \in Int /\ MinPosition \in Int
            /\ Fee \in Int /\ Slip \in Int /\ Sky \in Int /\ LastSlice \in Nat
            /\ Prices \subseteq Nat /\ 0 \notin Prices
            /\ Limits \subseteq Nat /\ OpenQtys \subseteq Int /\ TargetDollars \subseteq Int

LEMMA AssumptionsHold == Integral
  BY SimAssumption DEF Integral

-----------------------------------------------------------------------------
(* Whole numbers.                                                          *)

LEMMA Division ==
    ASSUME NEW n \in Int, NEW k \in Int, k > 0
    PROVE  /\ n \div k \in Int
           /\ n = k * (n \div k) + (n % k) /\ n % k \in 0..(k - 1)
  OBVIOUS

LEMMA PositiveProduct ==
    ASSUME NEW a \in Int, NEW b \in Int, a > 0, b > 0
    PROVE  a * b > 0
  OBVIOUS

LEMMA QuotientIsInt == ASSUME NEW a \in Int, NEW b \in Int PROVE Quotient(a, b) \in Int
<1>1. CASE b = 0
      BY <1>1 DEF Quotient
<1>2. CASE b # 0
  <2>1. Size(a) \in Int /\ Size(b) \in Int /\ Size(b) > 0
        BY <1>2 DEF Size
  <2>2. Size(a) \div Size(b) \in Int
        BY <2>1, Division
  <2> QED
        BY <2>2, <1>2 DEF Quotient
<1> QED
    BY <1>1, <1>2

LEMMA ClipIsInt == ASSUME NEW n \in Int, NEW bound \in Int PROVE Clip(n, bound) \in Int
  BY DEF Clip

(* A mean of two times, weighted by what was held and what is added, lies  *)
(* between them: the quotient of _calculate_position_age.                  *)
LEMMA WeightedMean ==
    ASSUME NEW a \in Nat, NEW b \in Nat, a + b > 0,
           NEW x \in Int, NEW y \in Int, NEW lo \in Int, lo <= x, x <= y
    PROVE  (a * x + b * y) \div (a + b) \in lo..y
<1> DEFINE k == a + b
           n == a * x + b * y
           q == n \div k
<1>1. k \in Int /\ k > 0 /\ n \in Int
      OBVIOUS
<1>2. q \in Int /\ n = k * q + (n % k) /\ n % k \in 0..(k - 1)
      BY <1>1, Division
<1>3. k * lo <= n /\ n <= k * y
  <2>1. a * lo <= a * x /\ a * x <= a * y /\ b * lo <= b * y
        OBVIOUS
  <2> QED
        BY <2>1
<1>4. k * q <= n /\ n < k * q + k
      BY <1>1, <1>2
<1>5. lo <= q
  <2>1. k * lo < k * (q + 1)
        BY <1>1, <1>2, <1>3, <1>4
  <2> QED
        BY <1>1, <1>2, <2>1
<1>6. q <= y
  <2>1. k * q <= k * y
        BY <1>1, <1>2, <1>3, <1>4
  <2> QED
        BY <1>1, <1>2, <2>1
<1> QED
    BY <1>2, <1>5, <1>6

(* Slices are in the order of their times.                                 *)
LEMMA TimesAreNats ==
    ASSUME NEW i \in Nat, i <= LastSlice
    PROVE  /\ SliceTime[i] \in Nat
           /\ \A j \in Nat : j <= LastSlice /\ i <= j => SliceTime[i] <= SliceTime[j]
<1>1. LastSlice \in Nat /\ SliceTime \in [0..LastSlice -> Nat]
      BY SimAssumption
<1>2. i \in 0..LastSlice
      BY <1>1
<1>3. ASSUME NEW j \in Nat, j <= LastSlice, i <= j PROVE SliceTime[i] <= SliceTime[j]
  <2>1. j \in 0..LastSlice /\ SliceTime[i] \in Nat /\ SliceTime[j] \in Nat
        BY <1>1, <1>2, <1>3
  <2>2. CASE i < j
    <3>1. SliceTime[i] < SliceTime[j]
          BY <1>2, <2>1, <2>2, SimAssumption
    <3> QED
          BY <2>1, <3>1
  <2>3. CASE i = j
        BY <2>1, <2>3
  <2> QED
        BY <1>3, <2>2, <2>3
<1> QED
    BY <1>1, <1>2, <1>3

(* The hour of a time begins at most at the time, and never before an hour *)
(* that the time does not precede.                                         *)
LEMMA HourOf ==
    ASSUME NEW t \in Nat
    PROVE  /\ FloorHour(t) \in Nat /\ FloorHour(t) <= t
           /\ \A u \in Nat : FloorHour(u) <= t => FloorHour(u) <= FloorHour(t)
<1>1. Hour \in Int /\ Hour > 0
      BY SimAssumption
<1> DEFINE hours(x) == x \div Hour
<1>2. ASSUME NEW x \in Nat
      PROVE  /\ hours(x) \in Nat /\ FloorHour(x) = Hour * hours(x)
             /\ Hour * hours(x) <= x /\ x < Hour * hours(x) + Hour
  <2> DEFINE q == x \div Hour
             r == x % Hour
  <2>1. q \in Int /\ x = Hour * q + r /\ r \in 0..(Hour - 1)
        BY <1>1, Division
  <2> HIDE DEF q, r
  <2>2. Hour * q \in Int
        BY <1>1, <2>1
  <2>3. Hour * q <= x /\ x < Hour * q + Hour
        BY <1>1, <2>1, <2>2
  <2>4. q >= 0
    <3>1. Hour * (q + 1) = Hour * q + Hour
          BY <1>1, <2>1
    <3>2. q + 1 <= 0 => Hour * (q + 1) <= 0
          BY <1>1, <2>1
    <3> QED
          BY <1>1, <2>1, <2>2, <2>3, <3>1, <3>2
  <2>5. FloorHour(x) = Hour * q
        BY DEF FloorHour, Never, q
  <2> QED
        BY <2>1, <2>3, <2>4, <2>5 DEF q
<1> HIDE DEF hours
<1>3. ASSUME NEW u \in Nat, FloorHour(u) <= t PROVE FloorHour(u) <= FloorHour(t)
  <2>1. /\ hours(u) \in Nat /\ hours(t) \in Nat
        /\ Hour * hours(u) <= t /\ t < Hour * hours(t) + Hour
        /\ FloorHour(u) = Hour * hours(u) /\ FloorHour(t) = Hour * hours(t)
        BY <1>2, <1>3
  <2>2. Hour * hours(u) < Hour * (hours(t) + 1)
    <3>1. Hour * (hours(t) + 1) = Hour * hours(t) + Hour /\ Hour * hours(t) \in Int
          BY <1>1, <2>1
    <3>2. Hour * hours(u) \in Int
          BY <1>1, <2>1
    <3> QED
          BY <1>1, <2>1, <3>1, <3>2
  <2>3. hours(u) < hours(t) + 1
        BY <1>1, <2>1, <2>2
  <2>4. Hour * hours(u) <= Hour * hours(t)
        BY <1>1, <2>1, <2>3
  <2> QED
        BY <2>1, <2>4
<1>4. FloorHour(t) \in Nat /\ FloorHour(t) <= t
  <2>1. Hour * hours(t) \in Nat
        BY <1>1, <1>2
  <2> QED
        BY <1>2, <2>1
<1> QED
    BY <1>3, <1>4

-----------------------------------------------------------------------------
(* The numbers of the loop.                                                *)

Typed == /\ now \in Nat /\ now <= LastSlice
         /\ qty \in Int /\ position \in Int /\ close \in Nat /\ priced \in BOOLEAN
         /\ desired \in [dollars : Int, qty : Int] /\ executed \in [dollars : Int, qty : Int]
         /\ close = 0 => desired.qty = 0

\* What Slice may choose.
Choice(listed, c, vwap, limit, sky, rate, part) ==
    /\ listed \in BOOLEAN /\ c \in Nat /\ vwap \in Nat /\ {c, vwap} \subseteq Prices \cup {0}
    /\ limit \in Nat /\ sky \in BOOLEAN
    /\ rate \in Int /\ part \in Int
    /\ ~listed => c = 0 /\ vwap = 0 /\ sky = FALSE

LEMMA SliceChoice ==
    ASSUME Slice
    PROVE  \E listed, c, vwap, limit, sky, rate, part, otherFill :
              Choice(listed, c, vwap, limit, sky, rate, part)
              /\ Execute(listed, c, vwap, limit, sky, rate, part, otherFill)
<1> USE AssumptionsHold DEF Integral
<1>1. CASE \E c, vwap \in Prices \cup {0}, limit \in Limits,
              sky, otherFill \in BOOLEAN, rate \in {0, 1}, part \in {0, 1} :
              Execute(TRUE, c, vwap, limit, sky, rate, part, otherFill)
  <2>1. PICK c \in Prices \cup {0}, vwap \in Prices \cup {0}, limit \in Limits,
              sky \in BOOLEAN, otherFill \in BOOLEAN, rate \in {0, 1}, part \in {0, 1} :
              Execute(TRUE, c, vwap, limit, sky, rate, part, otherFill)
        BY <1>1
  <2>2. Choice(TRUE, c, vwap, limit, sky, rate, part)
        BY DEF Choice
  <2> QED
        BY <2>1, <2>2
<1>2. CASE \E otherFill \in BOOLEAN : Execute(FALSE, 0, 0, 0, FALSE, 0, 0, otherFill)
  <2>1. Choice(FALSE, 0, 0, 0, FALSE, 0, 0)
        BY DEF Choice
  <2> QED
        BY <1>2, <2>1
<1> QED
    BY <1>1, <1>2 DEF Slice

LEMMA ExecutionTyped ==
    ASSUME Typed, NEW dead \in BOOLEAN, NEW sky \in BOOLEAN,
           NEW vwap \in Nat, NEW limit \in Nat
    PROVE  Execution(dead, sky, vwap, limit) \in [qty : Int, px : Int]
<1> DEFINE n == IF Trades(vwap) THEN Clip(desired.qty, limit) ELSE 0
<1>1. n \in Int
      BY ClipIsInt DEF Typed
<1> HIDE DEF n
<1>2. Slip \in Int /\ Sky \in Int
      BY AssumptionsHold DEF Integral
<1>3. Execution(dead, sky, vwap, limit) =
         IF dead /\ position # 0 THEN [qty |-> -qty, px |-> close]
         ELSE IF sky /\ qty < 0 /\ close # 0 THEN [qty |-> -qty, px |-> close + Sky]
         ELSE [qty |-> n, px |-> TradePrice(n, vwap)]
      BY DEF Execution, n
<1>4. TradePrice(n, vwap) \in Int
      BY <1>1, <1>2 DEF TradePrice, Typed
<1> QED
    BY <1>1, <1>2, <1>3, <1>4 DEF Typed

(* A trade target is a whole number of dollars.                            *)
LEMMA TargetsAreInts == ASSUME Typed PROVE UNION {Cut(t) : t \in Targets} \subseteq Int
<1> USE AssumptionsHold DEF Integral, Typed
<1>1. ASSUME NEW t \in Int PROVE Cut(t) \subseteq Int
      BY QuotientIsInt DEF Cut
<1>2. ASSUME NEW t \in TargetDollars PROVE position + Clip(t - position, MaxTrade) \in Int
      BY ClipIsInt
<1>3. ASSUME NEW t \in Int PROVE SmallTarget(t) \in Int
      BY DEF SmallTarget
<1>4. UNION {Cut(position + Clip(t - position, MaxTrade)) : t \in TargetDollars} \subseteq Int
      BY <1>1, <1>2
<1>5. Targets \subseteq Int
      BY <1>3, <1>4 DEF Targets
<1> QED
    BY <1>1, <1>5

LEMMA InitTyped == Init => Typed
  BY AssumptionsHold DEF Integral, Init, Typed, NoTrade

LEMMA TypedStep == Typed /\ [Next]_vars => Typed'
<1> SUFFICES ASSUME Typed, [Next]_vars PROVE Typed'
    OBVIOUS
<1> USE AssumptionsHold DEF Integral
<1>1. CASE Slice
  <2>1. PICK listed, c, vwap, limit, sky, rate, part, otherFill :
               Choice(listed, c, vwap, limit, sky, rate, part)
               /\ Execute(listed, c, vwap, limit, sky, rate, part, otherFill)
        BY <1>1, SliceChoice
  <2> DEFINE e == Execution(c = 0, sky, vwap, limit)
             px == IF c = 0 THEN close ELSE c
             after == qty + e.qty
             kept == IF IsDust(after, px) THEN 0 ELSE after
  <2>2. e \in [qty : Int, px : Int]
        BY <2>1, ExecutionTyped DEF Choice
  <2>3. px \in Nat
        BY <2>1 DEF Choice, Typed
  <2>4. /\ qty' = kept /\ position' = kept * px /\ close' = px /\ priced' = (c # 0)
        /\ executed' = [qty |-> e.qty, dollars |-> e.qty * e.px]
        /\ now' = now /\ desired' = desired
        BY <2>1 DEF Execute
  <2>6. px = 0 => close = 0
        BY <2>1
  <2> HIDE DEF e, px
  <2>5. kept \in Int
        BY <2>2 DEF Typed
  <2> QED
        BY <2>2, <2>3, <2>4, <2>5, <2>6 DEF Typed
<1>2. CASE GenerateTargets
  <2>1. desired' \in [dollars : Int, qty : Int]
    <3>1. CASE \E target \in UNION {Cut(t) : t \in Targets} :
                 desired' = [dollars |-> target - position,
                             qty |-> Quotient(target - position, close)]
      <4>1. PICK target \in UNION {Cut(t) : t \in Targets} :
                   desired' = [dollars |-> target - position,
                               qty |-> Quotient(target - position, close)]
            BY <3>1
      <4>2. target \in Int
            BY TargetsAreInts
      <4> QED
            BY <4>1, <4>2, QuotientIsInt DEF Typed
    <3>2. CASE desired' = [dollars |-> DesiredAfterFailure,
                           qty |-> Quotient(DesiredAfterFailure, close)]
      <4>1. DesiredAfterFailure \in Int
            BY DEF DesiredAfterFailure, Typed
      <4> QED
            BY <3>2, <4>1, QuotientIsInt DEF Typed
    <3> QED
          BY <1>2, <3>1, <3>2 DEF GenerateTargets
  <2>2. now' \in Nat /\ now' <= LastSlice
        BY <1>2 DEF GenerateTargets, Typed
  <2>3. close = 0 => desired'.qty = 0
        BY <1>2 DEF GenerateTargets, Quotient
  <2> QED
        BY <1>2, <2>1, <2>2, <2>3 DEF GenerateTargets, Typed
<1>3. CASE BadPrices \/ Match \/ Account \/ UNCHANGED vars
      BY <1>3 DEF BadPrices, Match, Account, vars, simVars, Typed
<1> QED
    BY <1>1, <1>2, <1>3 DEF Next
-----------------------------------------------------------------------------
(* A position is worth nothing exactly when there is none, so the test on  *)
(* its value in _execute finds every quantity held.                        *)
Same == position = 0 <=> qty = 0

LEMMA InitSame == Init => Same
<1> SUFFICES ASSUME Init PROVE Same
    OBVIOUS
<1>1. PICK q \in OpenQtys \cup {0}, bod \in Prices : qty = q /\ position = q * bod
      BY DEF Init
<1>2. q \in Int /\ bod \in Int /\ bod > 0
      BY AssumptionsHold DEF Integral
<1>3. q # 0 => q * bod # 0
  <2>1. CASE q > 0
        BY <2>1, <1>2, PositiveProduct
  <2>2. CASE q < 0
    <3>1. (-q) * bod > 0
          BY <2>2, <1>2, PositiveProduct
    <3> QED
          BY <3>1, <1>2
  <2> QED
        BY <2>1, <2>2, <1>2
<1>4. q = 0 => q * bod = 0
      BY <1>2
<1> QED
    BY <1>1, <1>3, <1>4 DEF Same

(* What one slice does to the position: a symbol without a row sells what  *)
(* it has, or nothing.                                                     *)
Executes(traded, kept, px, at) ==
    /\ kept \in {0, qty + traded} /\ (px = 0 => kept = 0)
    /\ ~priced' => kept = 0 \/ qty = 0
    /\ at = SliceTime[now] \/ (at = Never /\ (traded = 0 \/ qty + traded = 0))
    /\ qty' = kept /\ position' = kept * px /\ now' = now
    /\ pc' \in {"match", "targets"}
    /\ positionTs' = PositionTs(qty, traded, at)
    /\ openedAt' = IF kept = 0 THEN Never ELSE IF qty * kept <= 0 THEN now ELSE openedAt

LEMMA Executed ==
    ASSUME Typed, Same, Slice
    PROVE  \E traded, kept \in Int, px \in Nat, at \in Int : Executes(traded, kept, px, at)
<1>1. PICK listed, c, vwap, limit, sky, rate, part, otherFill :
             Choice(listed, c, vwap, limit, sky, rate, part)
             /\ Execute(listed, c, vwap, limit, sky, rate, part, otherFill)
      BY SliceChoice
<1> DEFINE e == Execution(c = 0, sky, vwap, limit)
           px == IF c = 0 THEN close ELSE c
           after == qty + e.qty
           kept == IF IsDust(after, px) THEN 0 ELSE after
           at == IF listed THEN SliceTime[now] ELSE Never
<1>2. e \in [qty : Int, px : Int]
      BY <1>1, ExecutionTyped DEF Choice
<1>3. px \in Nat
      BY <1>1 DEF Choice, Typed
<1>4. ~(px = 0 /\ qty # 0) /\ priced' = (c # 0)
      BY <1>1 DEF Execute
<1>5. /\ qty' = kept /\ position' = kept * px /\ now' = now
      /\ pc' \in {"match", "targets"}
      /\ positionTs' = PositionTs(qty, e.qty, at)
      /\ openedAt' = IF kept = 0 THEN Never ELSE IF qty * kept <= 0 THEN now ELSE openedAt
      BY <1>1 DEF Execute
\* Without a price what is held is sold; without a row nothing else is traded.
<1>6. c = 0 => e.qty = -qty \/ qty = 0
  <2> SUFFICES ASSUME c = 0, qty # 0 PROVE e.qty = -qty
      OBVIOUS
  <2>1. position # 0
        BY DEF Same
  <2> QED
        BY <2>1 DEF Execution
<1>16. ~listed => e.qty = 0 \/ e.qty = -qty
  <2> SUFFICES ASSUME ~listed PROVE e.qty = 0 \/ e.qty = -qty
      OBVIOUS
  <2>1. vwap = 0 /\ sky = FALSE
        BY <1>1 DEF Choice
  <2>2. ~Trades(vwap)
        BY <2>1 DEF Trades
  <2> QED
        BY <2>1, <2>2 DEF Execution
\* No quantity trades at price 0: it would have had a price to be desired at.
<1>7. px = 0 => c = 0 /\ close = 0 /\ qty = 0
      BY <1>1, <1>4 DEF Choice
<1>17. px = 0 => e.qty = 0
  <2> SUFFICES ASSUME px = 0 PROVE e.qty = 0
      OBVIOUS
  <2>1. close = 0 /\ qty = 0 /\ position = 0 /\ desired.qty = 0
        BY <1>7 DEF Same, Typed
  <2>2. Clip(desired.qty, limit) = 0
        BY <1>1, <2>1 DEF Clip, Choice
  <2> QED
        BY <2>1, <2>2 DEF Execution
<1>19. at \in Int
      BY TimesAreNats DEF Never, Typed
<1> HIDE DEF e, px, at
<1>8. after \in Int /\ (c = 0 => after = 0 \/ qty = 0) /\ (px = 0 => after = 0)
      BY <1>2, <1>6, <1>7, <1>17 DEF Typed
<1>18. at = SliceTime[now] \/ (at = Never /\ (e.qty = 0 \/ after = 0))
      BY <1>1, <1>2, <1>16 DEF at, Choice, Typed
<1> HIDE DEF after
<1>9. kept \in Int /\ kept \in {0, after} /\ (c = 0 => kept = 0 \/ qty = 0) /\ (px = 0 => kept = 0)
      BY <1>8
<1> HIDE DEF kept
<1>10. ~priced' => c = 0
      BY <1>4
<1> QED
    BY <1>2, <1>3, <1>5, <1>9, <1>10, <1>18, <1>19 DEF after, Executes

LEMMA SameStep == Typed /\ Same /\ [Next]_vars => Same'
<1> SUFFICES ASSUME Typed, Same, [Next]_vars PROVE Same'
    OBVIOUS
<1>1. CASE Slice
  <2>0. PICK traded \in Int, kept \in Int, px \in Nat, at \in Int : Executes(traded, kept, px, at)
        BY <1>1, Executed
  <2>1. (px = 0 => kept = 0) /\ qty' = kept /\ position' = kept * px
        BY <2>0 DEF Executes
  <2>2. CASE kept = 0
        BY <2>1, <2>2 DEF Same
  <2>3. CASE kept # 0
    <3>1. px > 0
          BY <2>1, <2>3
    <3>2. kept * px # 0
      <4>1. CASE kept > 0
            BY <4>1, <3>1, PositiveProduct
      <4>2. CASE kept < 0
        <5>1. (-kept) * px > 0
              BY <4>2, <3>1, PositiveProduct
        <5> QED
              BY <5>1
      <4> QED
            BY <2>3, <4>1, <4>2
    <3> QED
          BY <2>1, <2>3, <3>2 DEF Same
  <2> QED
        BY <2>2, <2>3
<1>2. CASE BadPrices \/ Match \/ Account \/ GenerateTargets \/ UNCHANGED vars
      BY <1>2 DEF BadPrices, Match, Account, GenerateTargets, vars, simVars, Same
<1> QED
    BY <1>1, <1>2 DEF Next

LEMMA DeadStep == Typed /\ Same /\ DeadPositionsClosed /\ [Next]_vars => DeadPositionsClosed'
<1> SUFFICES ASSUME Typed, Same, DeadPositionsClosed, [Next]_vars PROVE DeadPositionsClosed'
    OBVIOUS
<1>1. CASE Slice
  <2>1. PICK traded \in Int, kept \in Int, px \in Nat, at \in Int : Executes(traded, kept, px, at)
        BY <1>1, Executed
  <2>2. qty = 0 => qty * kept <= 0
        OBVIOUS
  <2>3. qty' = kept /\ now' = now /\ (~priced' => kept = 0 \/ openedAt' = now)
        BY <2>1, <2>2 DEF Executes
  <2> QED
        BY <2>3 DEF DeadPositionsClosed
<1>2. CASE BadPrices \/ GenerateTargets
  <2>1. BadPrices => pc' = "dead"
        BY DEF BadPrices
  <2>2. GenerateTargets => pc' = "dead" \/ pc' = "slice"
        BY DEF GenerateTargets
  <2> QED
        BY <1>2, <2>1, <2>2 DEF DeadPositionsClosed
<1>3. CASE Match \/ Account \/ UNCHANGED vars
      BY <1>3 DEF Match, Account, vars, simVars, historyVars, DeadPositionsClosed
<1> QED
    BY <1>1, <1>2, <1>3 DEF Next

(* No position outlives the price of its symbol: what a slice without one  *)
(* leaves was opened by that slice (_execute).                             *)
THEOREM DeadAreClosed == Spec => []DeadPositionsClosed
<1>1. Init => DeadPositionsClosed
      BY DEF Init, DeadPositionsClosed
<1> QED
    BY <1>1, InitTyped, TypedStep, InitSame, SameStep, DeadStep, PTL DEF Spec
-----------------------------------------------------------------------------
(* The time of a position.                                                 *)
AgeInv == /\ positionTs \in {Never} \cup Nat /\ openedAt \in {Never} \cup Nat
          /\ qty # 0 => openedAt \in Nat
          /\ openedAt <= now
          /\ AgeOfThePosition

LEMMA InitAge == Init => AgeInv
<1> SUFFICES ASSUME Init PROVE AgeInv
    OBVIOUS
<1>1. /\ now = 0 /\ openedAt = IF qty # 0 THEN 0 ELSE Never
      /\ positionTs = IF qty # 0 THEN SliceTime[0] ELSE Never
      BY DEF Init
<1>2. SliceTime[0] \in Nat /\ FloorHour(SliceTime[0]) \in Nat /\ FloorHour(SliceTime[0]) <= SliceTime[0]
  <2>1. SliceTime[0] \in Nat
        BY TimesAreNats, AssumptionsHold DEF Integral
  <2> QED
        BY <2>1, HourOf
<1> QED
    BY <1>1, <1>2 DEF AgeInv, AgeOfThePosition, Never

LEMMA SliceAge == ASSUME Typed, Same, AgeInv, Slice PROVE AgeInv'
<1>1. PICK traded \in Int, kept \in Int, px \in Nat, at \in Int : Executes(traded, kept, px, at)
      BY Executed
<1> DEFINE after == qty + traded
           time == TimeOfPosition(qty, traded, at)
           ts == SliceTime[now]
           lo == FloorHour(SliceTime[openedAt])
           old == Epoch(positionTs)
<1>2. now \in Nat /\ now <= LastSlice /\ qty \in Int /\ positionTs \in Int /\ openedAt \in Int
      BY DEF Typed, AgeInv, Never
<1>0. (qty # 0 => openedAt \in Nat) /\ openedAt <= now
      BY DEF AgeInv
<1>3. /\ qty' = kept /\ now' = now /\ kept \in {0, after}
      /\ positionTs' = FloorHour(time)
      /\ openedAt' = IF kept = 0 THEN Never ELSE IF qty * kept <= 0 THEN now ELSE openedAt
      BY <1>1 DEF Executes, PositionTs
<1>4. Size(qty) \in Nat /\ Size(traded) \in Nat
      BY <1>2 DEF Size
<1>5. openedAt' \in {Never} \cup Nat /\ (kept # 0 => openedAt' \in Nat) /\ openedAt' <= now
  <2>1. qty = 0 => qty * kept <= 0
        BY <1>2
  <2> QED
        BY <1>0, <1>2, <1>3, <2>1 DEF AgeInv, Never
<1>11. ts \in Nat /\ old \in Nat
      BY <1>2, TimesAreNats DEF Epoch, AgeInv
<1>12. qty # 0 => lo \in Nat /\ lo <= positionTs /\ positionTs <= ts /\ old = positionTs
  <2> SUFFICES ASSUME qty # 0 PROVE lo \in Nat /\ lo <= positionTs /\ positionTs <= ts /\ old = positionTs
      OBVIOUS
  <2>1. LastSlice \in Int
        BY AssumptionsHold DEF Integral
  <2>2. SliceTime[openedAt] \in Nat
        BY <1>0, <1>2, <2>1, TimesAreNats
  <2>3. lo \in Nat
        BY <2>2, HourOf
  <2> HIDE DEF lo
  <2>4. lo <= positionTs /\ positionTs <= ts
        BY <1>2, <1>11, <2>3 DEF AgeInv, AgeOfThePosition, lo
  <2> QED
        BY <1>2, <2>3, <2>4 DEF Epoch, Never
<1>13. traded # 0 /\ after # 0 => at = ts /\ Epoch(at) = ts
  <2>1. traded # 0 /\ after # 0 => at = ts
        BY <1>1 DEF Executes
  <2> QED
        BY <1>11, <2>1 DEF Epoch, Never
<1>14. /\ qty = 0 /\ after = 0 => time = Never
       /\ ~(qty = 0 /\ after = 0) /\ (qty * after < 0 \/ after = 0) => time = at
       /\ ~(qty = 0 /\ after = 0) /\ ~(qty * after < 0 \/ after = 0) /\ (traded = 0 \/ Size(after) < Size(qty))
            => time = positionTs
       /\ ~(qty = 0 /\ after = 0) /\ ~(qty * after < 0 \/ after = 0) /\ ~(traded = 0 \/ Size(after) < Size(qty))
            => time = (Size(qty) * old + Size(traded) * Epoch(at)) \div Size(after)
      BY DEF TimeOfPosition
<1>15. at \in {Never, ts}
      BY <1>1 DEF Executes
<1> HIDE DEF time, ts, lo, old
\* The weights of the two times add up when the position grows.
<1>6. ASSUME qty * after >= 0, after # 0, traded # 0, ~(Size(after) < Size(qty))
      PROVE  Size(after) = Size(qty) + Size(traded)
  <2>1. CASE qty > 0
    <3>1. after > 0
      <4>1. after < 0 => qty * (-after) > 0
            BY <1>2, <2>1, PositiveProduct
      <4> QED
            BY <1>2, <1>6, <4>1
    <3> QED
          BY <1>2, <1>6, <2>1, <3>1 DEF Size
  <2>2. CASE qty < 0
    <3>1. after < 0
      <4>1. after > 0 => (-qty) * after > 0
            BY <1>2, <2>2, PositiveProduct
      <4> QED
            BY <1>2, <1>6, <4>1
    <3> QED
          BY <1>2, <1>6, <2>2, <3>1 DEF Size
  <2>3. CASE qty = 0
        BY <1>2, <2>3 DEF Size
  <2> QED
        BY <1>2, <2>1, <2>2, <2>3
<1>7. ASSUME qty # 0, qty * after >= 0, after # 0, traded # 0, ~(Size(after) < Size(qty))
      PROVE  time \in lo..ts
  <2>1. lo \in Nat /\ lo <= old /\ old <= ts
        BY <1>7, <1>12
  <2>2. Size(qty) + Size(traded) > 0
    <3>1. Size(qty) > 0
          BY <1>2, <1>7 DEF Size
    <3> QED
          BY <1>4, <3>1
  <2>3. (Size(qty) * old + Size(traded) * ts) \div (Size(qty) + Size(traded)) \in lo..ts
    <3>1. Size(qty) \in Nat /\ Size(traded) \in Nat /\ old \in Int /\ ts \in Int /\ lo \in Int
          BY <1>4, <1>11, <2>1
    <3> HIDE DEF old, ts, lo
    <3> QED
          BY <2>1, <2>2, <3>1, WeightedMean
  <2>4. time = (Size(qty) * old + Size(traded) * ts) \div Size(after)
    <3>1. ~(qty * after < 0)
          BY <1>2, <1>7
    <3> QED
          BY <1>7, <1>13, <1>14, <3>1
  <2> QED
        BY <1>6, <1>7, <2>3, <2>4
\* A position opened by this slice is as old as the slice.
<1>8. ASSUME qty = 0, after # 0
      PROVE  time = ts
  <2>1. traded = after /\ Size(traded) > 0 /\ Size(qty) = 0
        BY <1>2, <1>8 DEF Size
  <2>2. (Size(qty) * old + Size(traded) * ts) \div Size(after) \in ts..ts
    <3>1. (Size(qty) * ts + Size(traded) * ts) \div (Size(qty) + Size(traded)) \in ts..ts
          BY <1>4, <1>11, <2>1, WeightedMean
    <3>2. Size(qty) * old = 0 /\ Size(qty) * ts = 0 /\ Size(qty) + Size(traded) = Size(after)
          BY <1>4, <1>11, <2>1
    <3> QED
          BY <3>1, <3>2
  <2>3. ~(qty * after < 0) /\ ~(Size(after) < Size(qty)) /\ traded # 0
    <3>1. ~(qty * after < 0) /\ traded # 0
          BY <1>2, <1>8
    <3>2. ~(Size(after) < Size(qty))
          BY <1>4, <2>1
    <3> QED
          BY <3>1, <3>2
  <2>4. time = (Size(qty) * old + Size(traded) * ts) \div Size(after)
        BY <1>8, <1>13, <1>14, <2>3
  <2> QED
        BY <1>11, <2>2, <2>4
<1>9. time \in {Never} \cup Nat
  <2>0. positionTs \in {Never} \cup Nat
        BY DEF AgeInv
  <2>1. CASE qty = 0
        BY <1>8, <1>11, <1>14, <2>1
  <2>2. CASE qty # 0 /\ qty * after >= 0 /\ after # 0 /\ traded # 0 /\ ~(Size(after) < Size(qty))
        BY <1>7, <1>11, <1>12, <2>2
  <2>3. CASE qty # 0 /\ ~(qty * after >= 0 /\ after # 0 /\ traded # 0 /\ ~(Size(after) < Size(qty)))
    <3>1. qty * after >= 0 \/ qty * after < 0
          BY <1>2
    <3> QED
          BY <1>11, <1>14, <1>15, <2>0, <2>3, <3>1
  <2> QED
        BY <2>1, <2>2, <2>3
<1>10. ASSUME kept # 0
       PROVE  time \in FloorHour(SliceTime[openedAt'])..ts /\ SliceTime[openedAt'] \in Nat
  <2>1. kept = after
        BY <1>3, <1>10
  <2>5. SliceTime[openedAt'] \in Nat
    <3>1. LastSlice \in Int
          BY AssumptionsHold DEF Integral
    <3> QED
          BY <1>2, <1>5, <1>10, <3>1, TimesAreNats
  <2>6. FloorHour(ts) \in Nat /\ FloorHour(ts) <= ts
        BY <1>11, HourOf
  <2>2. CASE qty = 0
    <3>1. openedAt' = now
      <4>1. qty * kept <= 0
            BY <2>2
      <4> QED
            BY <1>3, <1>10, <4>1
    <3>2. time = ts
          BY <1>8, <1>10, <2>1, <2>2
    <3> QED
          BY <1>11, <2>5, <2>6, <3>1, <3>2 DEF ts
  <2>3. CASE qty # 0 /\ qty * after < 0
    <3>1. openedAt' = now
      <4>1. qty * kept <= 0
            BY <1>2, <2>1, <2>3
      <4> QED
            BY <1>3, <1>10, <4>1
    <3>2. time = at /\ traded # 0
      <4>1. traded = 0 => qty * after >= 0
            BY <1>2
      <4> QED
            BY <1>2, <1>14, <2>3, <4>1
    <3>3. time = ts
          BY <1>10, <1>13, <2>1, <3>2
    <3> QED
          BY <1>11, <2>5, <2>6, <3>1, <3>3 DEF ts
  <2>4. CASE qty # 0 /\ qty * after >= 0
    <3>1. qty * after > 0
      <4>1. (qty > 0 /\ after > 0) \/ (qty < 0 /\ after < 0) \/ qty * after < 0
        <5>1. qty > 0 /\ after < 0 => qty * (-after) > 0
              BY <1>2, PositiveProduct
        <5>2. qty < 0 /\ after > 0 => (-qty) * after > 0
              BY <1>2, PositiveProduct
        <5> QED
              BY <1>2, <1>10, <2>1, <2>4, <5>1, <5>2
      <4>2. qty > 0 /\ after > 0 => qty * after > 0
            BY <1>2, PositiveProduct
      <4>3. qty < 0 /\ after < 0 => (-qty) * (-after) > 0
            BY <1>2, PositiveProduct
      <4> QED
            BY <1>2, <2>4, <4>1, <4>2, <4>3
    <3>2. openedAt' = openedAt
          BY <1>2, <1>3, <1>10, <2>1, <3>1
    <3>3. lo <= positionTs /\ positionTs <= ts /\ lo \in Nat
          BY <1>12, <2>4
    <3>0. ~(qty * after < 0) /\ after # 0
          BY <1>2, <1>10, <2>1, <3>1
    <3>4. CASE traded # 0 /\ ~(Size(after) < Size(qty))
      <4>1. time \in lo..ts
            BY <1>7, <2>4, <3>0, <3>4
      <4> QED
            BY <2>5, <3>2, <4>1 DEF lo
    <3>5. CASE ~(traded # 0 /\ ~(Size(after) < Size(qty)))
      <4>1. time = positionTs
            BY <1>14, <2>4, <3>0, <3>5
      <4>2. time \in lo..ts
            BY <1>2, <1>11, <3>3, <4>1
      <4> QED
            BY <2>5, <3>2, <4>2 DEF lo
    <3> QED
          BY <3>4, <3>5
  <2> QED
        BY <1>2, <2>2, <2>3, <2>4
\* The hour of the time is still not before the hour the position was opened.
<1>16. ASSUME kept # 0 PROVE FloorHour(time) \in FloorHour(SliceTime[openedAt'])..ts
  <2> DEFINE from == FloorHour(SliceTime[openedAt'])
  <2>1. from \in Nat
        BY <1>10, <1>16, HourOf
  <2>2. time \in Nat /\ from <= time /\ time <= ts
    <3>1. time \in from..ts
          BY <1>10, <1>16
    <3> HIDE DEF from
    <3> QED
          BY <1>11, <2>1, <3>1
  <2>3. FloorHour(time) \in Nat /\ FloorHour(time) <= time /\ from <= FloorHour(time)
        BY <1>10, <1>16, <2>2, HourOf
  <2> HIDE DEF from
  <2> QED
        BY <1>11, <2>1, <2>2, <2>3 DEF from
<1>17. FloorHour(time) \in {Never} \cup Nat
  <2>1. time \in Nat => FloorHour(time) \in Nat
        BY HourOf
  <2> QED
        BY <1>9, <2>1 DEF FloorHour
<1> QED
    BY <1>3, <1>5, <1>16, <1>17 DEF AgeInv, AgeOfThePosition, ts

LEMMA AgeStep == Typed /\ Same /\ AgeInv /\ [Next]_vars => AgeInv'
<1> SUFFICES ASSUME Typed, Same, AgeInv, [Next]_vars PROVE AgeInv'
    OBVIOUS
<1>1. CASE Slice
      BY <1>1, SliceAge
<1>2. CASE GenerateTargets
  <2>1. /\ now' \in {now, now + 1} /\ now' <= LastSlice
        /\ UNCHANGED qty /\ UNCHANGED positionTs /\ UNCHANGED openedAt
    <3>1. now' \in {now, now + 1} /\ now < LastSlice
          BY <1>2 DEF GenerateTargets
    <3>2. now \in Nat /\ LastSlice \in Nat
          BY AssumptionsHold DEF Typed, Integral
    <3>3. now' <= LastSlice
          BY <3>1, <3>2
    <3>4. UNCHANGED qty /\ UNCHANGED positionTs /\ UNCHANGED openedAt
          BY <1>2 DEF GenerateTargets, historyVars
    <3> QED
          BY <3>1, <3>3, <3>4
  <2>2. now \in Nat /\ now' \in Nat /\ now <= now' /\ now <= LastSlice /\ openedAt \in Int /\ openedAt <= now
        BY <2>1 DEF Typed, AgeInv, Never
  <2>3. SliceTime[now] \in Nat /\ SliceTime[now'] \in Nat /\ SliceTime[now] <= SliceTime[now']
        BY <2>1, <2>2, TimesAreNats
  <2>4. qty # 0 => FloorHour(SliceTime[openedAt]) \in Nat
    <3>1. qty # 0 => openedAt \in Nat /\ openedAt <= LastSlice
          BY <2>2, AssumptionsHold DEF AgeInv, Integral
    <3> QED
          BY <3>1, TimesAreNats, HourOf
  <2>5. qty # 0 => positionTs \in FloorHour(SliceTime[openedAt])..SliceTime[now']
    <3> DEFINE from == FloorHour(SliceTime[openedAt])
    <3>1. qty # 0 => positionTs \in from..SliceTime[now] /\ from \in Nat
          BY <2>4 DEF AgeInv, AgeOfThePosition
    <3> HIDE DEF from
    <3>2. qty # 0 => positionTs \in from..SliceTime[now']
          BY <2>3, <3>1
    <3> QED
          BY <3>2 DEF from
  <2>6. AgeOfThePosition'
        BY <2>1, <2>5 DEF AgeOfThePosition
  <2>7. openedAt' <= now'
        BY <2>1, <2>2
  <2> QED
        BY <2>1, <2>6, <2>7 DEF AgeInv
<1>3. CASE BadPrices \/ Match \/ Account \/ UNCHANGED vars
      BY <1>3 DEF BadPrices, Match, Account, vars, simVars, historyVars, AgeInv, AgeOfThePosition
<1> QED
    BY <1>1, <1>2, <1>3 DEF Next

(* The time of a position is never before the hour it was opened or turned *)
(* in, and never in the future (_calculate_position_age).                  *)
THEOREM AgeIsOfThePosition == Spec => []AgeOfThePosition
<1>1. AgeInv => AgeOfThePosition
      BY DEF AgeInv
<1> QED
    BY <1>1, InitTyped, TypedStep, InitSame, SameStep, InitAge, AgeStep, PTL DEF Spec
-----------------------------------------------------------------------------
(* The lots of the two sides.                                              *)
Lotted == /\ inventory \in [Sides -> Seq(Lots)]
          /\ fill \in Fills /\ remaining \in Nat
          /\ OneSided

LEMMA InitLotted == Init => Lotted
<1> SUFFICES ASSUME Init PROVE Lotted
    OBVIOUS
<1>1. PICK q \in OpenQtys, cost \in Prices : inventory = InventoryOf(q, cost)
      BY DEF Init
<1>2. q \in Int /\ cost \in Int
      BY <1>1, AssumptionsHold DEF Integral
<1> DEFINE lot == [px |-> cost, qty |-> IF q > 0 THEN q ELSE -q]
<1>3. \A s \in Sides : inventory[s] \in {<<>>, <<lot>>}
      BY <1>1 DEF InventoryOf
<1>4. q # 0 => <<lot>> \in Seq(Lots)
  <2>1. q # 0 => lot \in Lots
        BY <1>2 DEF Lots
  <2> QED
        BY <2>1
<1>5. \A s \in Sides : inventory[s] = IF q # 0 /\ s = (IF q > 0 THEN "B" ELSE "S")
                                      THEN <<lot>> ELSE <<>>
      BY <1>1 DEF InventoryOf
<1>6. \A s \in Sides : inventory[s] \in Seq(Lots)
  <2>1. <<>> \in Seq(Lots)
        OBVIOUS
  <2> HIDE DEF lot
  <2> QED
        BY <1>4, <1>5, <2>1
<1>7. inventory \in [Sides -> Seq(Lots)]
  <2>1. inventory = [s \in Sides |-> inventory[s]]
        BY <1>1 DEF InventoryOf
  <2> QED
        BY <1>6, <2>1
<1>8. OneSided
      BY <1>5 DEF OneSided, Sides
<1>9. fill \in Fills /\ remaining \in Nat
      BY DEF Init, NoFill, Fills, Sides
<1> QED
    BY <1>7, <1>8, <1>9 DEF Lotted

(* A turn of the matching loop keeps the lots on one side: a match leaves  *)
(* the side of the fill alone, and a remainder opens a lot there only when *)
(* the other side is used up.  No lot is left empty                        *)
(* (_match_fills_with_inventory).                                          *)
LEMMA MatchingStep == ASSUME Lotted, MatchFill PROVE Lotted'
<1>1. fill.side \in Sides /\ fill.px \in Int /\ Opposite(fill.side) \in Sides \ {fill.side}
      BY DEF Lotted, Fills, Sides, Opposite
<1>2. \A s \in Sides : inventory[s] \in Seq(Lots)
      BY DEF Lotted
<1>3. CASE MatchLot
  <2> DEFINE opp == Opposite(fill.side)
             lot == Head(inventory[opp])
             rest == IF lot.qty <= remaining THEN Tail(inventory[opp])
                     ELSE <<[lot EXCEPT !.qty = @ - remaining]>> \o Tail(inventory[opp])
  <2>1. inventory[opp] # <<>> /\ inventory' = [inventory EXCEPT ![opp] = rest] /\ fill' = fill
        BY <1>3 DEF MatchLot
  <2>2. lot \in Lots /\ Tail(inventory[opp]) \in Seq(Lots)
        BY <1>1, <1>2, <2>1, HeadTailProperties
  <2>3. rest \in Seq(Lots)
    <3>1. CASE lot.qty <= remaining
          BY <2>2, <3>1
    <3>2. CASE ~(lot.qty <= remaining)
      <4>1. [lot EXCEPT !.qty = @ - remaining] \in Lots
        <5>1. lot.px \in Int /\ lot.qty \in Nat /\ lot.qty > remaining /\ remaining \in Nat
              BY <2>2, <3>2 DEF Lots, Lotted
        <5>2. [lot EXCEPT !.qty = @ - remaining] = [px |-> lot.px, qty |-> lot.qty - remaining]
              BY <2>2 DEF Lots
        <5>3. lot.qty - remaining \in Nat \ {0}
              BY <5>1
        <5> HIDE DEF lot
        <5> QED
              BY <5>1, <5>2, <5>3 DEF Lots
      <4>2. <<[lot EXCEPT !.qty = @ - remaining]>> \in Seq(Lots)
            BY <4>1
      <4>3. <<[lot EXCEPT !.qty = @ - remaining]>> \o Tail(inventory[opp]) \in Seq(Lots)
            BY <2>2, <4>2, ConcatProperties
      <4> QED
            BY <3>2, <4>3
    <3> QED
          BY <3>1, <3>2
  <2>4. remaining' \in Nat
    <3>1. lot.qty \in Nat
          BY <2>2 DEF Lots
    <3> QED
          BY <1>3, <3>1 DEF MatchLot, Lotted
  <2>5. inventory' \in [Sides -> Seq(Lots)]
        BY <2>1, <2>3 DEF Lotted
  <2>6. inventory'[fill.side] = <<>>
    <3>1. inventory[fill.side] = <<>>
          BY <1>1, <2>1 DEF Lotted, OneSided, Sides, Opposite
    <3> QED
          BY <1>1, <2>1, <3>1 DEF Lotted
  <2> QED
        BY <1>1, <2>1, <2>4, <2>5, <2>6 DEF Lotted, OneSided, Sides
<1>4. CASE Expand
  <2> DEFINE lot == [px |-> fill.px, qty |-> remaining]
  <2>1. /\ inventory[Opposite(fill.side)] = <<>> /\ fill' = fill /\ remaining' = 0
        /\ inventory' = [inventory EXCEPT ![fill.side] = Append(@, lot)]
        BY <1>4 DEF Expand
  <2>2. lot \in Lots
        BY <1>1, <1>4 DEF Expand, Lots, Lotted
  <2>3. Append(inventory[fill.side], lot) \in Seq(Lots)
        BY <1>1, <1>2, <2>2, AppendProperties
  <2>4. inventory' \in [Sides -> Seq(Lots)]
        BY <2>1, <2>3 DEF Lotted
  <2>5. inventory'[Opposite(fill.side)] = <<>>
        BY <1>1, <2>1 DEF Lotted
  <2> QED
        BY <1>1, <2>1, <2>4, <2>5 DEF Lotted, OneSided, Sides
<1>5. CASE EndFill
      BY <1>5 DEF EndFill, NoFill, Fills, Sides, Lotted, OneSided
<1> QED
    BY <1>3, <1>4, <1>5 DEF MatchFill

LEMMA LottedStep == Typed /\ Lotted /\ [Next]_vars => Lotted'
<1> SUFFICES ASSUME Typed, Lotted, [Next]_vars PROVE Lotted'
    OBVIOUS
<1>1. CASE Slice
  <2>1. PICK listed, c, vwap, limit, sky, rate, part, otherFill :
               Choice(listed, c, vwap, limit, sky, rate, part)
               /\ Execute(listed, c, vwap, limit, sky, rate, part, otherFill)
        BY <1>1, SliceChoice
  <2> DEFINE e == Execution(c = 0, sky, vwap, limit)
             f == [side |-> IF e.qty > 0 THEN "B" ELSE "S", px |-> e.px, qty |-> Size(e.qty)]
  <2>2. e \in [qty : Int, px : Int]
        BY <2>1, ExecutionTyped DEF Choice
  <2>3. IF e.qty = 0 THEN UNCHANGED <<inventory, fill, remaining>>
        ELSE inventory' = inventory /\ fill' = f /\ remaining' = f.qty
        BY <2>1 DEF Execute, StartFill
  <2> HIDE DEF e
  <2>4. f \in Fills /\ f.qty \in Nat
    <3>1. Size(e.qty) \in Nat /\ e.px \in Int
          BY <2>2 DEF Size
    <3> QED
          BY <3>1 DEF Fills, Sides
  <2> HIDE DEF f
  <2> QED
        BY <2>3, <2>4 DEF Lotted, OneSided
<1>2. CASE Match
      BY <1>2, MatchingStep DEF Match
<1>3. CASE BadPrices \/ Account \/ GenerateTargets \/ UNCHANGED vars
      BY <1>3 DEF BadPrices, Account, GenerateTargets, vars, fifoVars, Lotted, OneSided
<1> QED
    BY <1>1, <1>2, <1>3 DEF Next

(* Long and short lots are never held together, so that the unrealized pnl *)
(* and the net quantity of _calculate_position_info_at_bar are those of    *)
(* one position.                                                           *)
THEOREM LotsOnOneSide == Spec => []OneSided
<1>1. Lotted => OneSided
      BY DEF Lotted
<1> QED
    BY <1>1, InitTyped, TypedStep, InitLotted, LottedStep, PTL DEF Spec

-----------------------------------------------------------------------------
(* Quantity and cost of the lots of a side.                                 *)
Qtys(lots) == [i \in 1..Len(lots) |-> lots[i].qty]
Costs(lots) == [i \in 1..Len(lots) |-> lots[i].px * lots[i].qty]

LEMMA LotsTyped ==
    ASSUME NEW lots \in Seq(Lots)
    PROVE  /\ Qtys(lots) \in Seq(Int) /\ Len(Qtys(lots)) = Len(lots)
           /\ Costs(lots) \in Seq(Int) /\ Len(Costs(lots)) = Len(lots)
           /\ QtyOf(lots) \in Int /\ CostOf(lots) \in Int
           /\ QtyOf(lots) = SumOf(Qtys(lots)) /\ CostOf(lots) = SumOf(Costs(lots))
<1>1. Len(lots) \in Nat /\ \A i \in 1..Len(lots) : lots[i] \in Lots
      BY ElementOfSeq, LenProperties
<1>2. \A i \in 1..Len(lots) : lots[i].qty \in Int /\ lots[i].px \in Int /\ lots[i].px * lots[i].qty \in Int
      BY <1>1 DEF Lots
<1>3. Qtys(lots) \in [1..Len(lots) -> Int] /\ Costs(lots) \in [1..Len(lots) -> Int]
      BY <1>1, <1>2 DEF Qtys, Costs
<1>4. /\ Qtys(lots) \in Seq(Int) /\ Len(Qtys(lots)) = Len(lots)
      /\ Costs(lots) \in Seq(Int) /\ Len(Costs(lots)) = Len(lots)
      BY <1>1, <1>3, FunctionIsSeq
<1>5. QtyOf(lots) = SumOf(Qtys(lots)) /\ CostOf(lots) = SumOf(Costs(lots))
      BY DEF QtyOf, CostOf, Qtys, Costs
<1> QED
    BY <1>4, <1>5, SumInt

LEMMA NoLots == QtyOf(<<>>) = 0 /\ CostOf(<<>>) = 0
<1>1. <<>> \in Seq(Lots) /\ Len(<<>>) = 0
      OBVIOUS
<1>2. \A i \in 1..0 : Qtys(<<>>)[i] = 0 /\ Costs(<<>>)[i] = 0
      OBVIOUS
<1> QED
    BY <1>1, <1>2, LotsTyped, SumZero

(* A lot opened behind the others.                                          *)
LEMMA LotOpened ==
    ASSUME NEW lots \in Seq(Lots), NEW lot \in Lots
    PROVE  /\ QtyOf(Append(lots, lot)) = QtyOf(lots) + lot.qty
           /\ CostOf(Append(lots, lot)) = CostOf(lots) + lot.px * lot.qty
<1> DEFINE more == Append(lots, lot)
<1>1. /\ more \in Seq(Lots) /\ Len(more) = Len(lots) + 1 /\ more[Len(lots) + 1] = lot
      /\ \A i \in 1..Len(lots) : more[i] = lots[i]
      BY AppendProperties
<1>2. Len(lots) \in Nat
      OBVIOUS
<1> HIDE DEF more
<1>3. /\ \A i \in 1..Len(lots) : Qtys(more)[i] = Qtys(lots)[i] /\ Costs(more)[i] = Costs(lots)[i]
      /\ Qtys(more)[Len(more)] = lot.qty /\ Costs(more)[Len(more)] = lot.px * lot.qty
      BY <1>1, <1>2 DEF Qtys, Costs
<1>4. /\ Qtys(more) \in Seq(Int) /\ Len(Qtys(more)) = Len(more)
      /\ Costs(more) \in Seq(Int) /\ Len(Costs(more)) = Len(more)
      /\ Qtys(lots) \in Seq(Int) /\ Len(Qtys(lots)) = Len(lots)
      /\ Costs(lots) \in Seq(Int) /\ Len(Costs(lots)) = Len(lots)
      /\ QtyOf(lots) = SumOf(Qtys(lots)) /\ CostOf(lots) = SumOf(Costs(lots))
      /\ QtyOf(more) = SumOf(Qtys(more)) /\ CostOf(more) = SumOf(Costs(more))
      BY <1>1, LotsTyped
<1>5. SumOf(Qtys(more)) = SumOf(Qtys(lots)) + Qtys(more)[Len(more)]
      BY <1>1, <1>3, <1>4, SumGrows
<1>6. SumOf(Costs(more)) = SumOf(Costs(lots)) + Costs(more)[Len(more)]
      BY <1>1, <1>3, <1>4, SumGrows
<1> QED
    BY <1>3, <1>4, <1>5, <1>6 DEF more

(* The first lot and the others.                                            *)
LEMMA LotInFront ==
    ASSUME NEW lots \in Seq(Lots), NEW rest \in Seq(Lots), Len(lots) = Len(rest) + 1,
           \A i \in 1..Len(rest) : rest[i] = lots[i + 1]
    PROVE  /\ QtyOf(lots) = lots[1].qty + QtyOf(rest)
           /\ CostOf(lots) = lots[1].px * lots[1].qty + CostOf(rest)
<1>1. Len(rest) \in Nat
      OBVIOUS
<1>2. /\ \A i \in 1..Len(rest) : Qtys(rest)[i] = Qtys(lots)[i + 1] /\ Costs(rest)[i] = Costs(lots)[i + 1]
      /\ Qtys(lots)[1] = lots[1].qty /\ Costs(lots)[1] = lots[1].px * lots[1].qty
      BY <1>1 DEF Qtys, Costs
<1>3. /\ Qtys(lots) \in Seq(Int) /\ Len(Qtys(lots)) = Len(lots)
      /\ Costs(lots) \in Seq(Int) /\ Len(Costs(lots)) = Len(lots)
      /\ Qtys(rest) \in Seq(Int) /\ Len(Qtys(rest)) = Len(rest)
      /\ Costs(rest) \in Seq(Int) /\ Len(Costs(rest)) = Len(rest)
      /\ QtyOf(lots) = SumOf(Qtys(lots)) /\ CostOf(lots) = SumOf(Costs(lots))
      /\ QtyOf(rest) = SumOf(Qtys(rest)) /\ CostOf(rest) = SumOf(Costs(rest))
      BY LotsTyped
<1>4. SumOf(Qtys(lots)) = Qtys(lots)[1] + SumOf(Qtys(rest))
      BY <1>2, <1>3, SumShrinks
<1>5. SumOf(Costs(lots)) = Costs(lots)[1] + SumOf(Costs(rest))
      BY <1>2, <1>3, SumShrinks
<1> QED
    BY <1>2, <1>3, <1>4, <1>5

LEMMA LotTaken ==
    ASSUME NEW lots \in Seq(Lots), lots # <<>>
    PROVE  /\ QtyOf(lots) = Head(lots).qty + QtyOf(Tail(lots))
           /\ CostOf(lots) = Head(lots).px * Head(lots).qty + CostOf(Tail(lots))
<1> DEFINE rest == Tail(lots)
<1>1. /\ rest \in Seq(Lots) /\ Len(lots) = Len(rest) + 1 /\ Head(lots) = lots[1]
      /\ \A i \in 1..Len(rest) : rest[i] = lots[i + 1]
      BY HeadTailProperties
<1> HIDE DEF rest
<1>2. /\ QtyOf(lots) = lots[1].qty + QtyOf(rest)
      /\ CostOf(lots) = lots[1].px * lots[1].qty + CostOf(rest)
      BY <1>1, LotInFront
<1> QED
    BY <1>1, <1>2 DEF rest

LEMMA LotPut ==
    ASSUME NEW rest \in Seq(Lots), NEW lot \in Lots
    PROVE  /\ QtyOf(<<lot>> \o rest) = lot.qty + QtyOf(rest)
           /\ CostOf(<<lot>> \o rest) = lot.px * lot.qty + CostOf(rest)
<1> DEFINE one == <<lot>>
           lots == one \o rest
<1>1. one \in Seq(Lots) /\ Len(one) = 1 /\ one[1] = lot /\ Len(rest) \in Nat
      OBVIOUS
<1> HIDE DEF one
<1>2. /\ lots \in Seq(Lots) /\ Len(lots) = Len(one) + Len(rest)
      /\ \A i \in 1..(Len(one) + Len(rest)) : lots[i] = IF i <= Len(one) THEN one[i] ELSE rest[i - Len(one)]
      BY <1>1, ConcatProperties
<1> HIDE DEF lots
<1>3. lots[1] = lot /\ Len(lots) = Len(rest) + 1
      BY <1>1, <1>2
<1>4. ASSUME NEW i \in 1..Len(rest) PROVE rest[i] = lots[i + 1]
      BY <1>1, <1>2
<1>5. /\ QtyOf(lots) = lots[1].qty + QtyOf(rest)
      /\ CostOf(lots) = lots[1].px * lots[1].qty + CostOf(rest)
      BY <1>2, <1>3, <1>4, LotInFront
<1> QED
    BY <1>3, <1>5 DEF lots, one

(* A single lot.                                                            *)
LEMMA LotAlone ==
    ASSUME NEW lot \in Lots
    PROVE  QtyOf(<<lot>>) = lot.qty /\ CostOf(<<lot>>) = lot.px * lot.qty
<1>1. <<>> \in Seq(Lots) /\ Append(<<>>, lot) = <<lot>>
      OBVIOUS
<1>2. /\ QtyOf(Append(<<>>, lot)) = QtyOf(<<>>) + lot.qty
      /\ CostOf(Append(<<>>, lot)) = CostOf(<<>>) + lot.px * lot.qty
      BY <1>1, LotOpened
<1>3. lot.qty \in Int /\ lot.px * lot.qty \in Int
      BY DEF Lots
<1> QED
    BY <1>1, <1>2, <1>3, NoLots

-----------------------------------------------------------------------------
(* The account the calculator keeps.                                        *)
MoneyTyped == realized \in Int /\ feesPaid \in Int /\ fundingPaid \in Int

LEMMA SumsOfSides ==
    ASSUME Lotted
    PROVE  /\ QtyOf(inventory["B"]) \in Int /\ QtyOf(inventory["S"]) \in Int
           /\ CostOf(inventory["B"]) \in Int /\ CostOf(inventory["S"]) \in Int
<1>1. inventory["B"] \in Seq(Lots) /\ inventory["S"] \in Seq(Lots)
      BY DEF Lotted, Sides
<1> QED
    BY <1>1, LotsTyped

LEMMA NothingLeft ==
    ASSUME NEW side, NEW n \in Int, n <= 0, n >= 0, NEW px \in Int
    PROVE  Signed(side, n) = 0 /\ 0 * px = 0
<1>1. 0 * px = 0
      OBVIOUS
<1>2. -n \in Int /\ -n >= 0 /\ -n <= 0
      OBVIOUS
<1>3. Signed(side, n) \in Int /\ Signed(side, n) >= 0 /\ Signed(side, n) <= 0
      BY <1>2 DEF Signed
<1> QED
    BY <1>1, <1>3

LEMMA HeldTyped == ASSUME Lotted, MoneyTyped PROVE Held \in Int /\ Paid \in Int /\ Net \in Int
<1>1. Signed(fill.side, remaining) \in Int /\ fill.px \in Int
      BY DEF Lotted, Fills, Signed
<1>2. Signed(fill.side, remaining) * fill.px \in Int
      BY <1>1
<1> QED
    BY <1>1, <1>2, SumsOfSides DEF Held, Paid, Net, MoneyTyped

(* What is taken off the lots of one side by a match, in quantity and cost. *)
LEMMA Matched ==
    ASSUME Lotted, MatchLot, NEW opp, opp = Opposite(fill.side)
    PROVE  \E n, px \in Int :
           /\ QtyOf(inventory'[opp]) = QtyOf(inventory[opp]) - n
           /\ CostOf(inventory'[opp]) = CostOf(inventory[opp]) - px * n
           /\ inventory'[fill.side] = inventory[fill.side]
           /\ realized' = realized + Profit(fill.side, px, fill.px) * n
           /\ remaining' = remaining - n
<1> DEFINE lots == inventory[opp]
           lot == Head(lots)
           part == [lot EXCEPT !.qty = @ - remaining]
           rest == IF lot.qty <= remaining THEN Tail(lots) ELSE <<part>> \o Tail(lots)
           n == IF lot.qty <= remaining THEN lot.qty ELSE remaining
<1>1. fill.side \in Sides /\ opp \in Sides \ {fill.side} /\ remaining \in Nat
      BY DEF Lotted, Fills, Sides, Opposite
<1>2. lots \in Seq(Lots) /\ lots # <<>>
      BY <1>1 DEF Lotted, MatchLot
<1>3. lot \in Lots /\ Tail(lots) \in Seq(Lots) /\ lot.px \in Int /\ lot.qty \in Nat
  <2>1. lot \in Lots /\ Tail(lots) \in Seq(Lots)
        BY <1>2, HeadTailProperties
  <2> QED
        BY <2>1 DEF Lots
<1>4. inventory'[opp] = rest /\ inventory'[fill.side] = inventory[fill.side]
  <2>1. inventory' = [inventory EXCEPT ![opp] = rest]
        BY DEF MatchLot
  <2> QED
        BY <1>1, <2>1 DEF Lotted
<1>5. realized' = realized + Profit(fill.side, lot.px, fill.px) * n /\ remaining' = remaining - n
      BY DEF MatchLot
<1>6. /\ QtyOf(lots) = lot.qty + QtyOf(Tail(lots))
      /\ CostOf(lots) = lot.px * lot.qty + CostOf(Tail(lots))
      /\ QtyOf(Tail(lots)) \in Int /\ CostOf(Tail(lots)) \in Int
      BY <1>2, <1>3, LotTaken, LotsTyped
<1>7. ~(lot.qty <= remaining) =>
        /\ QtyOf(<<part>> \o Tail(lots)) = lot.qty - remaining + QtyOf(Tail(lots))
        /\ CostOf(<<part>> \o Tail(lots)) = lot.px * (lot.qty - remaining) + CostOf(Tail(lots))
  <2> SUFFICES ASSUME ~(lot.qty <= remaining)
               PROVE  /\ QtyOf(<<part>> \o Tail(lots)) = lot.qty - remaining + QtyOf(Tail(lots))
                      /\ CostOf(<<part>> \o Tail(lots)) = lot.px * (lot.qty - remaining) + CostOf(Tail(lots))
      OBVIOUS
  <2>1. part = [px |-> lot.px, qty |-> lot.qty - remaining]
        BY <1>3 DEF Lots
  <2> HIDE DEF lot
  <2>2. lot.qty - remaining \in Nat \ {0}
        BY <1>1, <1>3
  <2> HIDE DEF part
  <2>3. part \in Lots /\ part.qty = lot.qty - remaining /\ part.px = lot.px
        BY <1>3, <2>1, <2>2 DEF Lots
  <2> QED
        BY <1>3, <2>3, LotPut
<1> HIDE DEF lot, part
<1>8. QtyOf(rest) = QtyOf(lots) - n /\ CostOf(rest) = CostOf(lots) - lot.px * n
  <2>1. CASE lot.qty <= remaining
    <3>1. rest = Tail(lots) /\ n = lot.qty
          BY <2>1
    <3>2. lot.px * lot.qty \in Int
          BY <1>3
    <3> QED
          BY <1>3, <1>6, <3>1, <3>2
  <2>2. CASE ~(lot.qty <= remaining)
    <3>1. rest = <<part>> \o Tail(lots) /\ n = remaining
          BY <2>2
    <3>2. lot.px * (lot.qty - remaining) = lot.px * lot.qty - lot.px * remaining
          BY <1>1, <1>3
    <3>3. lot.px * lot.qty \in Int /\ lot.px * remaining \in Int
          BY <1>1, <1>3
    <3>4. /\ QtyOf(rest) = lot.qty - remaining + QtyOf(Tail(lots))
          /\ CostOf(rest) = lot.px * (lot.qty - remaining) + CostOf(Tail(lots))
          BY <1>7, <2>2, <3>1
    <3>5. n = remaining /\ lot.px * n = lot.px * remaining
          BY <3>1
    <3> DEFINE q == QtyOf(Tail(lots))
               c == CostOf(Tail(lots))
    <3>6. /\ QtyOf(lots) = lot.qty + q /\ CostOf(lots) = lot.px * lot.qty + c
          /\ QtyOf(rest) = lot.qty - remaining + q
          /\ CostOf(rest) = lot.px * (lot.qty - remaining) + c
          /\ q \in Int /\ c \in Int
          BY <1>6, <3>4
    <3> HIDE DEF lots, rest, n, q, c
    <3>7. QtyOf(rest) = QtyOf(lots) - n
          BY <1>1, <1>3, <3>5, <3>6
    <3>8. CostOf(rest) = CostOf(lots) - lot.px * n
          BY <3>2, <3>3, <3>5, <3>6
    <3> QED
          BY <3>7, <3>8
  <2> QED
        BY <2>1, <2>2
<1>9. n \in Int
      BY <1>1, <1>3
<1> QED
    BY <1>3, <1>4, <1>5, <1>8, <1>9

(* A turn of the loop moves no money and no quantity                        *)
(* (_match_fills_with_inventory).                                           *)
LEMMA TurnKeepsAccount ==
    ASSUME Lotted, MoneyTyped, MatchFill
    PROVE  /\ Held' = Held /\ Paid' = Paid
           /\ UNCHANGED fundingPaid /\ realized' \in Int /\ feesPaid' \in Int
<1> DEFINE qb == QtyOf(inventory["B"])
           qs == QtyOf(inventory["S"])
           cb == CostOf(inventory["B"])
           cs == CostOf(inventory["S"])
<1>1. /\ qb \in Int /\ qs \in Int /\ cb \in Int /\ cs \in Int
      /\ fill.side \in {"B", "S"} /\ fill.px \in Int /\ remaining \in Nat
      /\ realized \in Int /\ feesPaid \in Int /\ fundingPaid \in Int
      BY SumsOfSides DEF Lotted, Fills, Sides, MoneyTyped
<1>2. /\ Held = qb - qs + Signed(fill.side, remaining)
      /\ Paid = realized - feesPaid + fundingPaid - cb + cs - Signed(fill.side, remaining) * fill.px
      BY DEF Held, Net, Paid
<1>3. /\ Held' = qb' - qs' + Signed(fill'.side, remaining')
      /\ Paid' = realized' - feesPaid' + fundingPaid' - cb' + cs' - Signed(fill'.side, remaining') * fill'.px
      BY DEF Held, Net, Paid
<1>4. CASE MatchLot
  <2>0. fill' = fill /\ feesPaid' = feesPaid /\ fundingPaid' = fundingPaid
        BY <1>4 DEF MatchLot
  <2>1. CASE fill.side = "B"
    <3>1. PICK n \in Int, px \in Int :
                /\ qs' = qs - n /\ cs' = cs - px * n /\ qb' = qb /\ cb' = cb
                /\ realized' = realized + (px - fill.px) * n /\ remaining' = remaining - n
          BY <1>4, <2>1, Matched DEF Opposite, Profit, Signed
    <3>2. Signed(fill.side, remaining) = remaining /\ Signed(fill'.side, remaining') = remaining - n
          BY <2>0, <2>1, <3>1 DEF Signed
    <3> HIDE DEF qb, qs, cb, cs
    <3>3. /\ (px - fill.px) * n = px * n - fill.px * n /\ px * n \in Int /\ fill.px * n \in Int
          /\ (remaining - n) * fill.px = remaining * fill.px - fill.px * n /\ remaining * fill.px \in Int
          BY <1>1
    <3>4. Held' = Held
          BY <1>1, <1>2, <1>3, <3>1, <3>2
    <3>5. Paid' = Paid
          BY <1>1, <1>2, <1>3, <2>0, <3>1, <3>2, <3>3
    <3>6. realized' \in Int
          BY <1>1, <3>1, <3>3
    <3> QED
          BY <1>1, <2>0, <3>4, <3>5, <3>6
  <2>2. CASE fill.side = "S"
    <3>1. PICK n \in Int, px \in Int :
                /\ qb' = qb - n /\ cb' = cb - px * n /\ qs' = qs /\ cs' = cs
                /\ realized' = realized + (-(px - fill.px)) * n /\ remaining' = remaining - n
          BY <1>4, <2>2, Matched DEF Opposite, Profit, Signed
    <3>2. Signed(fill.side, remaining) = -remaining /\ Signed(fill'.side, remaining') = -(remaining - n)
          BY <2>0, <2>2, <3>1 DEF Signed
    <3> HIDE DEF qb, qs, cb, cs
    <3>3. /\ (-(px - fill.px)) * n = fill.px * n - px * n /\ px * n \in Int /\ fill.px * n \in Int
          /\ (-(remaining - n)) * fill.px = fill.px * n - remaining * fill.px /\ remaining * fill.px \in Int
          /\ (-remaining) * fill.px = -(remaining * fill.px)
          BY <1>1
    <3>4. Held' = Held
          BY <1>1, <1>2, <1>3, <3>1, <3>2
    <3>5. Paid' = Paid
          BY <1>1, <1>2, <1>3, <2>0, <3>1, <3>2, <3>3
    <3>6. realized' \in Int
          BY <1>1, <3>1, <3>3
    <3> QED
          BY <1>1, <2>0, <3>4, <3>5, <3>6
  <2> QED
        BY <1>1, <2>1, <2>2
<1>5. CASE Expand
  <2> DEFINE lot == [px |-> fill.px, qty |-> remaining]
             lots == inventory[fill.side]
  <2>1. /\ fill' = fill /\ remaining' = 0 /\ remaining > 0
        /\ realized' = realized /\ feesPaid' = feesPaid /\ fundingPaid' = fundingPaid
        BY <1>5 DEF Expand
  <2>0. inventory' = [inventory EXCEPT ![fill.side] = Append(@, lot)]
        BY <1>5 DEF Expand
  <2>2. lot \in Lots /\ lots \in Seq(Lots) /\ lot.qty = remaining /\ lot.px = fill.px
        BY <1>1, <2>1 DEF Lots, Lotted, Sides
  <2>3. inventory'[fill.side] = Append(lots, lot) /\ \A t \in Sides \ {fill.side} : inventory'[t] = inventory[t]
        BY <1>1, <2>0 DEF Lotted, Sides
  <2> HIDE DEF lot
  <2>4. /\ QtyOf(inventory'[fill.side]) = QtyOf(lots) + remaining
        /\ CostOf(inventory'[fill.side]) = CostOf(lots) + fill.px * remaining
        BY <2>2, <2>3, LotOpened
  <2>5. /\ Signed(fill'.side, remaining') = 0 /\ 0 * fill.px = 0
        BY <1>1, <2>1, NothingLeft
  <2>6. CASE fill.side = "B"
    <3>1. qb' = qb + remaining /\ cb' = cb + fill.px * remaining /\ qs' = qs /\ cs' = cs
          BY <2>3, <2>4, <2>6 DEF Sides
    <3>2. Signed(fill.side, remaining) = remaining
          BY <2>6 DEF Signed
    <3> HIDE DEF qb, qs, cb, cs
    <3>3. fill.px * remaining = remaining * fill.px /\ fill.px * remaining \in Int
          BY <1>1
    <3>4. Held' = Held
          BY <1>1, <1>2, <1>3, <2>5, <3>1, <3>2
    <3>5. Paid' = Paid
          BY <1>1, <1>2, <1>3, <2>1, <2>5, <3>1, <3>2, <3>3
    <3> QED
          BY <1>1, <2>1, <3>4, <3>5
  <2>7. CASE fill.side = "S"
    <3>1. qs' = qs + remaining /\ cs' = cs + fill.px * remaining /\ qb' = qb /\ cb' = cb
          BY <2>3, <2>4, <2>7 DEF Sides
    <3>2. Signed(fill.side, remaining) = -remaining
          BY <2>7 DEF Signed
    <3> HIDE DEF qb, qs, cb, cs
    <3>3. (-remaining) * fill.px = -(fill.px * remaining) /\ fill.px * remaining \in Int
          BY <1>1
    <3>4. Held' = Held
          BY <1>1, <1>2, <1>3, <2>5, <3>1, <3>2
    <3>5. Paid' = Paid
          BY <1>1, <1>2, <1>3, <2>1, <2>5, <3>1, <3>2, <3>3
    <3> QED
          BY <1>1, <2>1, <3>4, <3>5
  <2> QED
        BY <1>1, <2>6, <2>7
<1>6. CASE EndFill
  <2>1. /\ remaining = 0 /\ fill' = NoFill
        /\ UNCHANGED <<inventory, remaining, realized, feesPaid, fundingPaid>>
        BY <1>6 DEF EndFill
  <2>2. /\ Signed(fill.side, remaining) = 0 /\ Signed(fill'.side, remaining') = 0
        /\ 0 * fill.px = 0 /\ 0 * fill'.px = 0
    <3>1. fill'.px \in Int
          BY <2>1 DEF NoFill
    <3> QED
          BY <1>1, <2>1, <3>1, NothingLeft
  <2> QED
        BY <1>1, <1>2, <1>3, <2>1, <2>2
<1> QED
    BY <1>4, <1>5, <1>6 DEF MatchFill

(* A fill handed to the calculator moves its quantity at its price, and its *)
(* fee.                                                                     *)
LEMMA FillMovesAccount ==
    ASSUME Lotted, MoneyTyped, ~Matching, remaining = 0, UNCHANGED fundingPaid,
           NEW n \in Int, n # 0, NEW px \in Int, NEW fee \in Int,
           StartFill([side |-> IF n > 0 THEN "B" ELSE "S", px |-> px, qty |-> Size(n)], fee)
    PROVE  /\ Held' = Held + n /\ Paid' = Paid - n * px - fee
           /\ Matching' /\ feesPaid' = feesPaid + fee /\ realized' = realized
<1> DEFINE qb == QtyOf(inventory["B"])
           qs == QtyOf(inventory["S"])
           cb == CostOf(inventory["B"])
           cs == CostOf(inventory["S"])
           side == IF n > 0 THEN "B" ELSE "S"
<1>1. /\ qb \in Int /\ qs \in Int /\ cb \in Int /\ cs \in Int
      /\ realized \in Int /\ feesPaid \in Int /\ fundingPaid \in Int
      BY SumsOfSides DEF MoneyTyped
<1>2. /\ fill' = [side |-> side, px |-> px, qty |-> Size(n)] /\ remaining' = Size(n)
      /\ feesPaid' = feesPaid + fee /\ inventory' = inventory /\ realized' = realized
      BY DEF StartFill
<1>3. /\ Held = qb - qs /\ Paid = realized - feesPaid + fundingPaid - cb + cs
  <2>1. fill = NoFill /\ Signed(fill.side, remaining) = 0 /\ Signed(fill.side, remaining) * fill.px = 0
        BY NothingLeft DEF Matching, NoFill
  <2> QED
        BY <1>1, <2>1 DEF Held, Net, Paid
<1>4. Signed(fill'.side, remaining') = n /\ fill'.px = px
      BY <1>2 DEF Signed, Size
<1>5. /\ Held' = qb - qs + n
      /\ Paid' = realized - (feesPaid + fee) + fundingPaid - cb + cs - n * px
      BY <1>2, <1>4 DEF Held, Net, Paid
<1>6. Matching'
      BY <1>2 DEF Matching, NoFill, Size
<1> HIDE DEF qb, qs, cb, cs
<1>7. n * px \in Int
      OBVIOUS
<1> QED
    BY <1>1, <1>2, <1>3, <1>5, <1>6, <1>7

-----------------------------------------------------------------------------
(* The ledger of the loop.                                                  *)
Dailies == [date : {Never} \cup Nat, at : {Never} \cup Nat, total : Int,
            today : Int, before : Int, blank : BOOLEAN]
Openings == [gain : Int, initialized : BOOLEAN, firstOfMonth : BOOLEAN,
             price : {"vwap", "open"}, skipped : Int]
Books == /\ MoneyTyped /\ money \in Int /\ pnl \in Int
         /\ mark \in Int /\ owed \in Int /\ dropped \in Int
         /\ daily \in Dailies
         /\ opening \in Openings
         /\ close \in Prices \cup {0}

(* The prices a fill may have.                                              *)
FillPrices == {p + d : p \in Prices, d \in {-Slip, 0, Slip, Sky}}

LEMMA FillPriceAt ==
    ASSUME NEW x \in Prices
    PROVE  /\ x \in FillPrices /\ x + Sky \in FillPrices
           /\ x + Slip \in FillPrices /\ x - Slip \in FillPrices
<1>1. ASSUME NEW y \in {-Slip, 0, Slip, Sky} PROVE x + y \in FillPrices
  <2> DEFINE Steps == {-Slip, 0, Slip, Sky}
  <2>1. FillPrices = {a + b : a \in Prices, b \in Steps}
        BY DEF FillPrices
  <2>2. y \in Steps
        OBVIOUS
  <2> HIDE DEF Steps
  <2> QED
        BY <2>1, <2>2
<1>2. /\ x + 0 \in FillPrices /\ x + Sky \in FillPrices
      /\ x + Slip \in FillPrices /\ x + (-Slip) \in FillPrices
      BY <1>1
<1>3. x \in Int /\ Slip \in Int
      BY AssumptionsHold DEF Integral
<1>4. x + 0 = x /\ x + (-Slip) = x - Slip
      BY <1>3
<1> QED
    BY <1>2, <1>4

(* What a slice that trades n at price px does to both ledgers.             *)
Booked(n, px, kept, p, income) ==
    /\ pc = "slice" /\ pc' \in {"match", "targets"} /\ (n # 0 => pc' = "match")
    /\ executed' = [qty |-> n, dollars |-> n * px]
    /\ qty' = kept /\ position' = kept * p /\ close' = p
    /\ p \in Prices \cup {0}
    /\ money' = money - n * px - Size(n * px) * Fee + income
    /\ pnl' = position' + money'
    /\ owed' = owed + income
    /\ dropped' = dropped + (qty + n - kept)
    /\ n = 0 => UNCHANGED <<inventory, fill, remaining, realized, feesPaid>>
    /\ n # 0 => /\ px \in FillPrices
                /\ StartFill([side |-> IF n > 0 THEN "B" ELSE "S", px |-> px, qty |-> Size(n)],
                             Size(n * px) * Fee)
    /\ UNCHANGED <<now, fundingPaid, mark, daily, opening>>

LEMMA SliceTrades ==
    ASSUME Typed, Same, Books, Slice
    PROVE  \E n, px, kept, p, income \in Int : Booked(n, px, kept, p, income)
<1> USE AssumptionsHold DEF Integral
<1>1. PICK listed, c, vwap, limit, sky, rate, part, otherFill :
             Choice(listed, c, vwap, limit, sky, rate, part)
             /\ Execute(listed, c, vwap, limit, sky, rate, part, otherFill)
      BY SliceChoice
<1> DEFINE e == Execution(c = 0, sky, vwap, limit)
           p == IF c = 0 THEN close ELSE c
           after == qty + e.qty
           kept == IF IsDust(after, p) THEN 0 ELSE after
           income == Funding(rate, part, e.qty, vwap)
           m == IF Trades(vwap) THEN Clip(desired.qty, limit) ELSE 0
<1>2. e \in [qty : Int, px : Int]
      BY <1>1, ExecutionTyped DEF Choice
<1>3. p \in Prices \cup {0} /\ p \in Int
      BY <1>1 DEF Choice, Books
<1>4. ~(p = 0 /\ qty # 0) /\ priced' = (c # 0)
      BY <1>1 DEF Execute
<1>5. e = IF c = 0 /\ position # 0 THEN [qty |-> -qty, px |-> close]
          ELSE IF sky /\ qty < 0 /\ close # 0 THEN [qty |-> -qty, px |-> close + Sky]
          ELSE [qty |-> m, px |-> TradePrice(m, vwap)]
      BY DEF Execution
\* What is traded had a price when it was desired.
<1>6. m \in Int /\ (m # 0 => vwap > 0 /\ close # 0)
  <2>1. m \in Int
        BY <1>1, ClipIsInt DEF Typed, Choice
  <2>2. close = 0 => Clip(desired.qty, limit) = 0
        BY <1>1 DEF Typed, Choice, Clip
  <2> QED
        BY <2>1, <2>2 DEF Trades
<1>8. e.qty # 0 => e.px \in FillPrices
  <2>1. close \in Prices \cup {0} /\ vwap \in Prices \cup {0} /\ vwap \in Nat
        BY <1>1 DEF Books, Choice
  <2> HIDE DEF e, m
  <2>2. CASE c = 0 /\ position # 0
    <3>1. close # 0
          BY <1>4, <2>2 DEF Same
    <3> QED
          BY <1>5, <2>1, <2>2, <3>1, FillPriceAt
  <2>3. CASE ~(c = 0 /\ position # 0) /\ sky /\ qty < 0 /\ close # 0
        BY <1>5, <2>1, <2>3, FillPriceAt
  <2>4. CASE ~(c = 0 /\ position # 0) /\ ~(sky /\ qty < 0 /\ close # 0)
    <3>1. e.qty = m /\ e.px = TradePrice(m, vwap)
          BY <1>5, <2>4
    <3>2. m # 0 => TradePrice(m, vwap) \in {vwap + Slip, vwap - Slip, close + Slip, close - Slip}
          BY DEF TradePrice
    <3>3. m # 0 => vwap \in Prices /\ close \in Prices
          BY <1>6, <2>1
    <3> QED
          BY <3>1, <3>2, <3>3, FillPriceAt
  <2> QED
        BY <2>2, <2>3, <2>4
<1>9. /\ pc = "slice" /\ pc' \in {"match", "targets"} /\ (e.qty # 0 => pc' = "match")
      /\ executed' = [qty |-> e.qty, dollars |-> e.qty * e.px]
      /\ qty' = kept /\ position' = kept * p /\ close' = p
      /\ money' = money - e.qty * e.px - Size(e.qty * e.px) * Fee + income
      /\ pnl' = position' + money' /\ owed' = owed + income
      /\ UNCHANGED <<now, fundingPaid, mark, daily, opening>>
      BY <1>1 DEF Execute
<1>14. dropped' = dropped + (after - kept)
      BY <1>1 DEF Execute
<1>10. IF e.qty = 0 THEN UNCHANGED <<inventory, fill, remaining, realized, feesPaid>>
       ELSE StartFill([side |-> IF e.qty > 0 THEN "B" ELSE "S", px |-> e.px, qty |-> Size(e.qty)],
                      Size(e.qty * e.px) * Fee)
      BY <1>1 DEF Execute
<1>11. income \in Int
  <2>1. rate \in Int /\ part \in Int /\ vwap \in Int
        BY <1>1 DEF Choice
  <2> HIDE DEF e
  <2>2. qty + e.qty * part \in Int
        BY <1>2, <2>1 DEF Typed
  <2>3. rate * (qty + e.qty * part) * vwap \in Int
        BY <2>1, <2>2
  <2> QED
        BY <2>3 DEF Funding
<1> HIDE DEF e, p, income
<1>12. after \in Int
      BY <1>2 DEF Typed
<1> HIDE DEF after
<1>13. kept \in Int
      BY <1>12
<1> HIDE DEF kept
<1> HIDE DEF m
<1>16. dropped' = dropped + (qty + e.qty - kept)
  <2>1. qty \in Int /\ e.qty \in Int /\ kept \in Int /\ dropped \in Int
        BY <1>2, <1>13 DEF Typed, Books
  <2> QED
        BY <1>14, <2>1 DEF after
<1>17. Booked(e.qty, e.px, kept, p, income)
      BY <1>3, <1>8, <1>9, <1>10, <1>16 DEF Booked
<1> QED
    BY <1>2, <1>3, <1>11, <1>13, <1>17

(* What a step of the loop leaves to the calculator.                        *)
LEMMA TradeTyped ==
    ASSUME NEW n \in Int, NEW px \in Int
    PROVE  n * px \in Int /\ Size(n * px) \in Nat /\ Size(n * px) * Fee \in Int
<1>1. n * px \in Int
      OBVIOUS
<1>2. Size(n * px) \in Nat
  <2> DEFINE k == n * px
  <2>1. k \in Int
        BY <1>1
  <2> HIDE DEF k
  <2>2. Size(k) \in Nat
        BY <2>1 DEF Size
  <2> QED
        BY <2>2 DEF k
<1> QED
    BY <1>1, <1>2, AssumptionsHold DEF Integral

LEMMA DateIsNat == ASSUME Typed PROVE Date(now) \in Nat
<1> DEFINE t == SliceTime[now]
           q == t \div DayLength
           r == t % DayLength
<1>1. t \in Nat /\ DayLength \in Int /\ DayLength > 0
      BY SimAssumption, TimesAreNats DEF Typed
<1> HIDE DEF t
<1>2. q \in Int /\ t = DayLength * q + r /\ r \in 0..(DayLength - 1)
      BY <1>1, Division
<1> HIDE DEF q, r
<1>3. q < 0 => DayLength * q <= -DayLength
  <2>1. q < 0 => DayLength * (-1 - q) >= 0
        BY <1>1, <1>2
  <2>2. DayLength * (-1 - q) = -DayLength - DayLength * q
        BY <1>1, <1>2
  <2> QED
        BY <1>1, <1>2, <2>1, <2>2
<1>4. q >= 0
      BY <1>1, <1>2, <1>3
<1> QED
    BY <1>2, <1>4 DEF q, t, Date

LEMMA MarksAreInts == ASSUME Typed, Books PROVE Marks \subseteq Int
<1>1. Quotient(executed.dollars, executed.qty) \in Int
      BY QuotientIsInt DEF Typed
<1>2. close \in Int /\ mark \in Int
      BY DEF Typed, Books
<1>3. Prices \subseteq Int
      BY AssumptionsHold DEF Integral
<1> QED
    BY <1>1, <1>2, <1>3 DEF Marks

(* What the lots are worth at a mark: the quantity at the mark, and what    *)
(* was paid for it (_calculate_position_info_at_bar).                       *)
LEMMA WorthOfLots ==
    ASSUME Lotted, NEW m \in Int
    PROVE  /\ Unrealized(m) = m * Net - CostOf(inventory["B"]) + CostOf(inventory["S"])
           /\ Unrealized(m) \in Int /\ Net \in Int
<1> DEFINE qb == QtyOf(inventory["B"])
           qs == QtyOf(inventory["S"])
           cb == CostOf(inventory["B"])
           cs == CostOf(inventory["S"])
<1>1. qb \in Int /\ qs \in Int /\ cb \in Int /\ cs \in Int
      BY SumsOfSides
<1>2. Unrealized(m) = (m * qb - cb) + (cs - m * qs) /\ Net = qb - qs
      BY DEF Unrealized, Net
<1> HIDE DEF qb, qs, cb, cs
<1>3. m * (qb - qs) = m * qb - m * qs /\ m * qb \in Int /\ m * qs \in Int
      BY <1>1
<1>4. Unrealized(m) = m * Net - cb + cs /\ Unrealized(m) \in Int /\ Net \in Int
      BY <1>1, <1>2, <1>3
<1> QED
    BY <1>4 DEF cb, cs

(* The total of a record is what was paid, and what is held at the mark.    *)
LEMMA RecordedTotal ==
    ASSUME Lotted, Books, ~Matching, remaining = 0, NEW m \in Int
    PROVE  /\ Held = Net
           /\ realized + Unrealized(m) - feesPaid + fundingPaid + owed = Paid + owed + m * Held
           /\ realized + Unrealized(m) - feesPaid + fundingPaid + owed \in Int
<1> DEFINE cb == CostOf(inventory["B"])
           cs == CostOf(inventory["S"])
<1>1. /\ realized \in Int /\ feesPaid \in Int /\ fundingPaid \in Int /\ owed \in Int
      /\ cb \in Int /\ cs \in Int
      BY SumsOfSides DEF Books, MoneyTyped
<1>2. Unrealized(m) = m * Net - cb + cs /\ Unrealized(m) \in Int /\ Net \in Int
      BY WorthOfLots
<1>3. Signed(fill.side, remaining) = 0 /\ Signed(fill.side, remaining) * fill.px = 0
      BY NothingLeft DEF Matching, NoFill
<1>4. Held = Net + 0 /\ Paid = realized - feesPaid + fundingPaid - cb + cs - 0
      BY <1>3 DEF Held, Paid
<1> HIDE DEF cb, cs
<1>5. m * Net \in Int
      BY <1>2
<1>6. Held = Net
      BY <1>2, <1>4
<1>7. realized + Unrealized(m) - feesPaid + fundingPaid + owed = Paid + owed + m * Net
      BY <1>1, <1>2, <1>4, <1>5
<1> QED
    BY <1>1, <1>2, <1>6, <1>7

(* One record of the calculator.                                            *)
Records(m, total) ==
    /\ pc = "match" /\ pc' = "targets" /\ ~Matching /\ m \in Marks
    /\ total = realized + Unrealized(m) - feesPaid + fundingPaid + owed
    /\ mark' = m /\ opening' = [opening EXCEPT !.skipped = @ + Skipped(m)]
    /\ daily' = [date |-> Date(now), at |-> now, total |-> total,
                 today |-> total - (IF FirstRecord THEN Skipped(m) ELSE daily.total)
                           + (IF Date(now) # daily.date THEN 0 ELSE daily.today),
                 before |-> daily.before + (IF Date(now) # daily.date THEN daily.today ELSE 0),
                 blank |-> daily.blank \/ Valueless(m)]
    /\ fundingPaid' = fundingPaid + owed /\ owed' = 0
    /\ UNCHANGED <<now, simVars, inventory, fill, remaining, realized, feesPaid,
                   dropped, openedAt>>

LEMMA AccountRecords == ASSUME Account PROVE \E m, total : Records(m, total)
<1>1. PICK m \in Marks : Record(m) /\ mark' = m /\ opening' = [opening EXCEPT !.skipped = @ + Skipped(m)]
      BY DEF Account
<1> DEFINE total == realized + Unrealized(m) - feesPaid + fundingPaid + owed
<1>2. daily' = [date |-> Date(now), at |-> now, total |-> total,
                today |-> total - (IF FirstRecord THEN Skipped(m) ELSE daily.total)
                          + (IF Date(now) # daily.date THEN 0 ELSE daily.today),
                before |-> daily.before + (IF Date(now) # daily.date THEN daily.today ELSE 0),
                blank |-> daily.blank \/ Valueless(m)]
      BY <1>1, Zenon DEF Record
<1> HIDE DEF total
<1>3. Records(m, total)
      BY <1>1, <1>2 DEF Account, Records, total
<1> QED
    BY <1>3

LEMMA SkippedIsInt == ASSUME Lotted, NEW m \in Int PROVE Skipped(m) \in Int
  BY WorthOfLots DEF Skipped

LEMMA InitBooks == Init => Books
<1> SUFFICES ASSUME Init PROVE Books
    OBVIOUS
<1>1. /\ pnl = 0 /\ realized = 0 /\ feesPaid = 0 /\ fundingPaid = 0 /\ mark = 0 /\ owed = 0
      /\ daily = [date |-> Never, at |-> Never, total |-> 0, today |-> 0, before |-> 0, blank |-> FALSE]
      /\ close \in Prices \cup {0}
      BY DEF Init
<1>2. PICK q \in OpenQtys, bod \in Prices, cost \in Prices, listed \in BOOLEAN :
        /\ money = -((IF listed THEN q ELSE 0) * bod) /\ dropped = q - (IF listed THEN q ELSE 0)
        /\ opening.gain = (IF listed THEN q ELSE 0) * bod - q * cost
      BY DEF Init
<1>3. \E loaded, first \in BOOLEAN, at \in {"vwap", "open"} :
        opening = [gain |-> opening.gain, initialized |-> loaded, firstOfMonth |-> first,
                   price |-> at, skipped |-> 0]
      BY DEF Init
<1> DEFINE k == IF listed THEN q ELSE 0
<1>4. k * bod \in Int /\ q * cost \in Int /\ q - k \in Int
  <2>1. q \in Int /\ bod \in Int /\ cost \in Int /\ k \in Int
        BY AssumptionsHold DEF Integral
  <2> HIDE DEF k
  <2> QED
        BY <2>1
<1>5. money = -(k * bod) /\ dropped = q - k /\ opening.gain = k * bod - q * cost
      BY <1>2
<1> HIDE DEF k
<1>6. money \in Int /\ dropped \in Int /\ opening.gain \in Int
      BY <1>4, <1>5
<1>7. daily \in Dailies
      BY <1>1 DEF Dailies
<1>8. opening \in Openings
      BY <1>3, <1>6 DEF Openings
<1> QED
    BY <1>1, <1>6, <1>7, <1>8 DEF Books, MoneyTyped

LEMMA SliceBooks == ASSUME Typed, Same, Lotted, Books, Slice PROVE Books'
<1>1. PICK n \in Int, px \in Int, kept \in Int, p \in Int, income \in Int : Booked(n, px, kept, p, income)
      BY SliceTrades
<1>2. n * px \in Int /\ Size(n * px) \in Nat /\ Size(n * px) * Fee \in Int /\ kept * p \in Int
      BY TradeTyped
<1>3. realized' \in Int /\ feesPaid' \in Int /\ fundingPaid' \in Int
  <2>1. CASE n = 0
        BY <1>1, <2>1 DEF Booked, Books, MoneyTyped
  <2>2. CASE n # 0
    <3>1. StartFill([side |-> IF n > 0 THEN "B" ELSE "S", px |-> px, qty |-> Size(n)],
                    Size(n * px) * Fee) /\ fundingPaid' = fundingPaid
          BY <1>1, <2>2 DEF Booked
    <3>2. feesPaid' = feesPaid + Size(n * px) * Fee /\ realized' = realized
          BY <3>1 DEF StartFill
    <3> QED
          BY <1>2, <3>1, <3>2 DEF Books, MoneyTyped
  <2> QED
        BY <2>1, <2>2
<1>4. money' = money - n * px - Size(n * px) * Fee + income /\ pnl' = kept * p + money'
      BY <1>1 DEF Booked
<1>5. money' \in Int /\ pnl' \in Int
  <2>1. money' \in Int
        BY <1>2, <1>4 DEF Books
  <2> QED
        BY <1>2, <1>4, <2>1
<1>6. owed' = owed + income /\ dropped' = dropped + (qty + n - kept)
      BY <1>1 DEF Booked
<1>7. owed' \in Int /\ dropped' \in Int
      BY <1>6 DEF Books, Typed
<1>8. close' \in Prices \cup {0} /\ UNCHANGED <<mark, daily, opening>>
      BY <1>1 DEF Booked
<1> QED
    BY <1>3, <1>5, <1>7, <1>8 DEF Books, MoneyTyped

LEMMA RecordBooks == ASSUME Typed, Lotted, Books, remaining = 0, Account PROVE Books'
<1>1. PICK m, total : Records(m, total)
      BY AccountRecords
<1>2. m \in Int
      BY <1>1, MarksAreInts DEF Records
<1>3. total \in Int /\ Skipped(m) \in Int /\ Date(now) \in Nat
      BY <1>1, <1>2, RecordedTotal, SkippedIsInt, DateIsNat DEF Records
<1>4. daily' \in Dailies
  <2>1. daily.total \in Int /\ daily.today \in Int /\ daily.before \in Int
        BY DEF Books, Dailies
  <2> DEFINE today == total - (IF FirstRecord THEN Skipped(m) ELSE daily.total)
                      + (IF Date(now) # daily.date THEN 0 ELSE daily.today)
             before == daily.before + (IF Date(now) # daily.date THEN daily.today ELSE 0)
             blank == daily.blank \/ Valueless(m)
  <2>2. today \in Int /\ before \in Int
        BY <1>3, <2>1
  <2>4. blank \in BOOLEAN
        BY Zenon DEF Valueless, Books, Dailies
  <2>3. daily' = [date |-> Date(now), at |-> now, total |-> total, today |-> today,
                 before |-> before, blank |-> blank]
        BY <1>1 DEF Records
  <2> HIDE DEF today, before, blank
  <2>5. now \in Nat
        BY DEF Typed
  <2> QED
        BY <1>3, <2>2, <2>3, <2>4, <2>5 DEF Dailies
<1>5. opening' \in Openings
  <2>1. opening \in Openings
        BY DEF Books
  <2>2. opening.skipped + Skipped(m) \in Int
        BY <1>3, <2>1 DEF Openings
  <2>3. opening' = [opening EXCEPT !.skipped = opening.skipped + Skipped(m)]
        BY <1>1 DEF Records
  <2> QED
        BY <2>1, <2>2, <2>3 DEF Openings
<1>6. /\ mark' = m /\ fundingPaid' = fundingPaid + owed /\ owed' = 0
      /\ UNCHANGED <<realized, feesPaid, money, pnl, close, dropped>>
      BY <1>1 DEF Records, simVars
<1> QED
    BY <1>2, <1>4, <1>5, <1>6 DEF Books, MoneyTyped

(* Between fills nothing of one is left.                                    *)
Settled == ~Matching => remaining = 0

LEMMA BooksStep == Typed /\ Same /\ Lotted /\ Books /\ Settled /\ [Next]_vars => Books'
<1> SUFFICES ASSUME Typed, Same, Lotted, Books, Settled, [Next]_vars PROVE Books'
    OBVIOUS
<1>1. CASE Slice
      BY <1>1, SliceBooks
<1>2. CASE Account
      BY <1>2, RecordBooks DEF Settled, Account
<1>3. CASE Match
  <2>1. /\ realized' \in Int /\ feesPaid' \in Int /\ UNCHANGED fundingPaid
        BY <1>3, TurnKeepsAccount DEF Match, Books
  <2>2. UNCHANGED <<money, pnl, close, mark, owed, daily, dropped, opening>>
        BY <1>3 DEF Match, simVars, recVars, historyVars
  <2> QED
        BY <2>1, <2>2 DEF Books, MoneyTyped
<1>4. CASE BadPrices \/ GenerateTargets \/ UNCHANGED vars
      BY <1>4 DEF BadPrices, GenerateTargets, vars, simVars, fifoVars, recVars, historyVars, Books, MoneyTyped
<1> QED
    BY <1>1, <1>2, <1>3, <1>4 DEF Next

LEMMA SettledStep == Settled /\ [Next]_vars => Settled'
<1> SUFFICES ASSUME Settled, [Next]_vars PROVE Settled'
    OBVIOUS
<1>1. CASE Slice
  <2>1. PICK listed, c, vwap, limit, sky, rate, part, otherFill : Execute(listed, c, vwap, limit, sky, rate, part, otherFill)
        BY <1>1, SliceChoice
  <2> DEFINE e == Execution(c = 0, sky, vwap, limit)
             f == [side |-> IF e.qty > 0 THEN "B" ELSE "S", px |-> e.px, qty |-> Size(e.qty)]
  <2>2. \/ UNCHANGED <<fill, remaining>>
        \/ fill' = f /\ remaining' = f.qty
        BY <2>1 DEF Execute, StartFill
  <2> HIDE DEF f
  <2>3. fill' = NoFill /\ fill' = f => f.qty = 0
        BY DEF NoFill
  <2> QED
        BY <2>2, <2>3 DEF Settled, Matching
<1>2. CASE Match
      BY <1>2 DEF Match, MatchFill, MatchLot, Expand, EndFill, Settled, Matching
<1>3. CASE BadPrices \/ Account \/ GenerateTargets \/ UNCHANGED vars
      BY <1>3 DEF BadPrices, Account, GenerateTargets, vars, fifoVars, Settled, Matching
<1> QED
    BY <1>1, <1>2, <1>3 DEF Next

(* Where the run is.                                                        *)
Running == pc \in {"slice", "match", "targets", "dead"} /\ now <= LastSlice

LEMMA RunningStep == Typed /\ Same /\ Books /\ Running /\ [Next]_vars => Running'
<1> SUFFICES ASSUME Typed, Same, Books, Running, [Next]_vars PROVE Running'
    OBVIOUS
<1>0. LastSlice \in Nat
      BY SimAssumption
<1>1. CASE Slice
  <2>1. PICK n \in Int, px \in Int, kept \in Int, p \in Int, income \in Int : Booked(n, px, kept, p, income)
        BY <1>1, SliceTrades
  <2>2. pc' \in {"match", "targets"} /\ now' = now
        BY <2>1 DEF Booked
  <2> QED
        BY <2>2 DEF Running
<1>2. CASE GenerateTargets
  <2>1. now < LastSlice /\ pc' \in {"dead", "slice"} /\ now' \in {now, now + 1}
        BY <1>2 DEF GenerateTargets
  <2> QED
        BY <1>0, <2>1 DEF Typed, Running
<1>3. CASE BadPrices \/ Match \/ Account \/ UNCHANGED vars
      BY <1>3 DEF BadPrices, Match, Account, vars, simVars, Running
<1> QED
    BY <1>1, <1>2, <1>3 DEF Next

LEMMA InitRunning == Init => Running /\ Settled
  BY SimAssumption DEF Init, Running, Settled

Kinds == Typed /\ Same /\ AgeInv /\ Lotted /\ Books /\ Settled /\ Running

LEMMA KindsHold == Spec => []Kinds
<1>1. Init => Kinds
      BY InitTyped, InitSame, InitAge, InitLotted, InitBooks, InitRunning DEF Kinds
<1>2. Kinds /\ [Next]_vars => Kinds'
      BY TypedStep, SameStep, AgeStep, LottedStep, BooksStep, SettledStep, RunningStep DEF Kinds
<1> QED
    BY <1>1, <1>2, PTL DEF Spec

(* Quantities, money, lots and records have the types the code relies on.   *)
THEOREM TypeCorrect == Spec => []TypeOK
<1>1. Kinds => TypeOK
  <2> SUFFICES ASSUME Kinds PROVE TypeOK
      OBVIOUS
  <2>1. /\ pc \in {"slice", "match", "targets", "dead"} /\ now \in 0..LastSlice
        BY SimAssumption DEF Kinds, Running, Typed
  <2>2. /\ qty \in Int /\ position \in Int /\ close \in Nat /\ priced \in BOOLEAN
        /\ desired \in [dollars : Int, qty : Int] /\ executed \in [dollars : Int, qty : Int]
        BY DEF Kinds, Typed
  <2>3. positionTs \in {Never} \cup Nat /\ openedAt \in {Never} \cup 0..LastSlice
        BY SimAssumption DEF Kinds, AgeInv, Running, Typed
  <2>4. inventory \in [Sides -> Seq(Lots)] /\ fill \in Fills /\ remaining \in Nat
        BY DEF Kinds, Lotted
  <2>5. /\ money \in Int /\ pnl \in Int /\ mark \in Int /\ owed \in Int /\ dropped \in Int
        /\ realized \in Int /\ feesPaid \in Int /\ fundingPaid \in Int
        /\ daily \in Dailies
        /\ opening \in Openings
        BY DEF Kinds, Books, MoneyTyped
  <2> QED
        BY <2>1, <2>2, <2>3, <2>4, <2>5 DEF TypeOK, Dailies, Openings
<1> QED
    BY <1>1, KindsHold, PTL

-----------------------------------------------------------------------------
(* The two ledgers.  The loop counts what it holds after the dust is swept, *)
(* and its money with the initial position at its present value; between    *)
(* fills and between records the difference is what is stated here.         *)
Ledgers == /\ pc # "match" => ~Matching
           /\ Held = qty + dropped
           /\ money + opening.gain = Paid + owed
           /\ pnl = position + money
           /\ pc = "match" => position = qty * close
           /\ daily.at <= now /\ (pc = "slice" => daily.at < now)
           /\ LedgersAgree

(* The initial position is one lot at its cost.                             *)
LEMMA InitialAccount ==
    ASSUME NEW q \in Int, NEW cost \in Int, inventory = InventoryOf(q, cost)
    PROVE  /\ QtyOf(inventory["B"]) - QtyOf(inventory["S"]) = q
           /\ CostOf(inventory["S"]) - CostOf(inventory["B"]) = -(q * cost)
<1> DEFINE lot == [px |-> cost, qty |-> IF q > 0 THEN q ELSE -q]
<1>1. /\ inventory["B"] = IF q > 0 THEN <<lot>> ELSE <<>>
      /\ inventory["S"] = IF q < 0 THEN <<lot>> ELSE <<>>
      BY DEF InventoryOf, Sides
<1>2. q # 0 => lot \in Lots
      BY DEF Lots
<1>3. q # 0 => QtyOf(<<lot>>) = (IF q > 0 THEN q ELSE -q) /\ CostOf(<<lot>>) = cost * (IF q > 0 THEN q ELSE -q)
  <2> SUFFICES ASSUME q # 0
               PROVE  QtyOf(<<lot>>) = (IF q > 0 THEN q ELSE -q) /\ CostOf(<<lot>>) = cost * (IF q > 0 THEN q ELSE -q)
      OBVIOUS
  <2>1. lot.qty = (IF q > 0 THEN q ELSE -q) /\ lot.px = cost
        OBVIOUS
  <2> HIDE DEF lot
  <2> QED
        BY <1>2, <2>1, LotAlone
<1> HIDE DEF lot
<1>4. CASE q > 0
  <2>1. QtyOf(<<lot>>) = q /\ CostOf(<<lot>>) = cost * q
        BY <1>3, <1>4
  <2>2. cost * q = q * cost /\ q * cost \in Int
        OBVIOUS
  <2> QED
        BY <1>1, <1>4, <2>1, <2>2, NoLots
<1>5. CASE q < 0
  <2>1. QtyOf(<<lot>>) = -q /\ CostOf(<<lot>>) = cost * (-q)
        BY <1>3, <1>5
  <2>2. cost * (-q) = -(q * cost) /\ q * cost \in Int
        OBVIOUS
  <2> QED
        BY <1>1, <1>5, <2>1, <2>2, NoLots
<1>6. CASE q <= 0 /\ q >= 0
  <2>1. q * cost \in Int /\ q * cost <= 0 /\ q * cost >= 0
        BY <1>6
  <2>2. -(q * cost) = 0
        BY <2>1
  <2> QED
        BY <1>1, <1>6, <2>2, NoLots
<1> QED
    BY <1>4, <1>5, <1>6

LEMMA InitLedgers == Init => Ledgers
<1> SUFFICES ASSUME Init PROVE Ledgers
    OBVIOUS
<1>1. PICK q \in OpenQtys, k \in OpenQtys \cup {0}, bod \in Prices, cost \in Prices :
        /\ qty = k /\ position = k * bod /\ money = -(k * bod) /\ inventory = InventoryOf(q, cost)
        /\ opening.gain = k * bod - q * cost /\ dropped = q - k
      BY DEF Init
<1>2. q \in Int /\ k \in Int /\ bod \in Int /\ cost \in Int
      BY AssumptionsHold DEF Integral
<1>3. /\ fill = NoFill /\ remaining = 0 /\ realized = 0 /\ feesPaid = 0 /\ fundingPaid = 0
      /\ owed = 0 /\ pnl = 0 /\ pc = "targets" /\ now = 0 /\ daily.at = Never
      BY DEF Init
<1>4. Lotted
      BY InitLotted
<1> DEFINE qb == QtyOf(inventory["B"])
           qs == QtyOf(inventory["S"])
           cb == CostOf(inventory["B"])
           cs == CostOf(inventory["S"])
<1>5. /\ qb \in Int /\ qs \in Int /\ cb \in Int /\ cs \in Int
      /\ qb - qs = q /\ cs - cb = -(q * cost)
      BY <1>1, <1>2, <1>4, SumsOfSides, InitialAccount
<1>6. Signed(fill.side, remaining) = 0 /\ Signed(fill.side, remaining) * fill.px = 0
      BY <1>3, NothingLeft DEF NoFill
<1>7. Held = qb - qs + 0 /\ Paid = 0 - 0 + 0 - cb + cs - 0
      BY <1>3, <1>6 DEF Held, Net, Paid
<1> HIDE DEF qb, qs, cb, cs
<1>8. k * bod \in Int /\ q * cost \in Int
      BY <1>2
<1>9. Held = qty + dropped
      BY <1>1, <1>2, <1>5, <1>7
<1>10. Paid = cs - cb /\ money + opening.gain = -(q * cost)
      BY <1>1, <1>5, <1>7, <1>8
<1>11. pnl = position + money
      BY <1>1, <1>3, <1>8
<1>12. money + opening.gain = Paid + owed
      BY <1>3, <1>5, <1>8, <1>10
<1> QED
    BY <1>3, <1>9, <1>11, <1>12 DEF Ledgers, LedgersAgree, Matching, Never

LEMMA SliceLedgers ==
    ASSUME Kinds, Ledgers, Slice
    PROVE  Ledgers'
<1>1. PICK n \in Int, px \in Int, kept \in Int, p \in Int, income \in Int : Booked(n, px, kept, p, income)
      BY SliceTrades DEF Kinds
<1>2. n * px \in Int /\ Size(n * px) * Fee \in Int
      BY TradeTyped
<1>3. /\ pc = "slice" /\ pc' \in {"match", "targets"} /\ (n # 0 => pc' = "match")
      /\ qty' = kept /\ position' = kept * p /\ close' = p
      /\ money' = money - n * px - Size(n * px) * Fee + income
      /\ pnl' = position' + money' /\ owed' = owed + income
      /\ dropped' = dropped + (qty + n - kept)
      /\ UNCHANGED <<now, fundingPaid, daily, opening>>
      BY <1>1 DEF Booked
<1>4. daily.at < now /\ daily.at \in Int /\ now \in Int
      BY <1>3 DEF Ledgers, Kinds, Books, Dailies, Typed, Never
<1>5. /\ Held \in Int /\ Paid \in Int /\ qty \in Int /\ dropped \in Int /\ money \in Int /\ owed \in Int
      /\ opening.gain \in Int /\ ~Matching /\ remaining = 0
  <2>1. Held \in Int /\ Paid \in Int
        BY HeldTyped DEF Kinds, Books
  <2>2. qty \in Int /\ dropped \in Int /\ money \in Int /\ owed \in Int /\ opening.gain \in Int
        BY DEF Kinds, Typed, Books, Openings
  <2>3. ~Matching
        BY <1>3 DEF Ledgers
  <2>4. remaining = 0
        BY <2>3 DEF Kinds, Settled
  <2> QED
        BY <2>1, <2>2, <2>3, <2>4
<1>6. /\ Held' = Held + n /\ Paid' = Paid - n * px - Size(n * px) * Fee
      /\ n = 0 => ~Matching'
  <2>1. CASE n # 0
    <3>1. StartFill([side |-> IF n > 0 THEN "B" ELSE "S", px |-> px, qty |-> Size(n)], Size(n * px) * Fee)
          BY <1>1, <2>1 DEF Booked
    <3>2. Lotted /\ MoneyTyped
          BY DEF Kinds, Books
    <3> QED
          BY <1>2, <1>3, <1>5, <2>1, <3>1, <3>2, FillMovesAccount
  <2>2. CASE n = 0
    <3>1. UNCHANGED <<inventory, fill, remaining, realized, feesPaid, fundingPaid>>
          BY <1>1, <2>2 DEF Booked
    <3>2. Held' = Held /\ Paid' = Paid /\ (Matching' <=> Matching)
          BY <3>1 DEF Held, Net, Paid, Matching
    <3> DEFINE fee == Size(n * px) * Fee
    <3>3. n * px = 0 /\ fee \in Int /\ fee <= 0 /\ fee >= 0
      <4>1. n * px = 0
            BY <2>2
      <4>2. Size(n * px) \in Nat /\ Size(n * px) <= 0
        <5>1. Size(n * px) \in Nat
              BY TradeTyped
        <5> DEFINE k == n * px
        <5>2. k <= 0 /\ k >= 0 /\ k \in Int
              BY <4>1
        <5> HIDE DEF k
        <5>3. Size(k) <= 0
              BY <5>2 DEF Size
        <5> QED
              BY <5>1, <5>3 DEF k
      <4>3. Size(n * px) = 0 /\ Fee \in Int
            BY <4>2, AssumptionsHold DEF Integral
      <4> QED
            BY <4>1, <4>3
    <3> HIDE DEF fee
    <3> QED
          BY <1>5, <2>2, <3>2, <3>3 DEF fee
  <2> QED
        BY <2>1, <2>2
<1>7. Held' = qty' + dropped'
      BY <1>3, <1>5, <1>6 DEF Ledgers
<1>8. money' + opening'.gain = Paid' + owed'
  <2>1. money + opening.gain = Paid + owed
        BY DEF Ledgers
  <2> QED
        BY <1>2, <1>3, <1>5, <1>6, <2>1
<1>9. pc' # "match" => n = 0 /\ ~Matching'
      BY <1>3, <1>6
<1>10. position' = qty' * close' /\ daily'.at < now'
      BY <1>3, <1>4
<1>11. LedgersAgree'
      BY <1>3, <1>4 DEF LedgersAgree
<1> QED
    BY <1>3, <1>4, <1>7, <1>8, <1>9, <1>10, <1>11 DEF Ledgers

LEMMA RecordLedgers ==
    ASSUME Kinds, Ledgers, Account
    PROVE  Ledgers' /\ Held' = Held /\ Paid' - Paid = fundingPaid' - fundingPaid
<1>1. PICK m, total : Records(m, total)
      BY AccountRecords
<1>2. /\ pc = "match" /\ pc' = "targets" /\ ~Matching /\ m \in Marks
      /\ total = realized + Unrealized(m) - feesPaid + fundingPaid + owed
      /\ mark' = m /\ fundingPaid' = fundingPaid + owed /\ owed' = 0
      /\ UNCHANGED <<inventory, fill, remaining, realized, feesPaid, dropped>>
      BY <1>1 DEF Records
<1>3. /\ UNCHANGED <<qty, position, money, pnl, close, priced, executed>>
      BY <1>1 DEF Records, simVars
<1>4. daily'.total = total /\ daily'.at = now /\ opening'.gain = opening.gain
  <2>1. daily'.total = total /\ daily'.at = now
        BY <1>1 DEF Records
  <2>2. opening' = [opening EXCEPT !.skipped = @ + Skipped(m)]
        BY <1>1 DEF Records
  <2>3. opening \in Openings
        BY DEF Kinds, Books
  <2>4. opening'.gain = opening.gain
        BY <2>2, <2>3 DEF Openings
  <2> QED
        BY <2>1, <2>4
<1>5. /\ Held \in Int /\ Paid \in Int /\ Net \in Int /\ qty \in Int /\ dropped \in Int /\ money \in Int
      /\ owed \in Int /\ opening.gain \in Int /\ position \in Int /\ close \in Int /\ pnl \in Int
      /\ realized \in Int /\ feesPaid \in Int /\ fundingPaid \in Int /\ now \in Int
      BY HeldTyped DEF Kinds, Typed, Books, MoneyTyped, Openings
<1>6. m \in Int /\ remaining = 0
      BY <1>2, MarksAreInts DEF Kinds, Settled
<1>7. Held' = Held /\ Paid' = Paid + owed
  <2> DEFINE cb == CostOf(inventory["B"])
             cs == CostOf(inventory["S"])
             left == Signed(fill.side, remaining) * fill.px
  <2>1. cb \in Int /\ cs \in Int /\ left \in Int
    <3>1. left = 0
          BY <1>2, <1>6, NothingLeft DEF Matching, NoFill
    <3> QED
          BY <3>1, SumsOfSides DEF Kinds
  <2>2. /\ Paid = realized - feesPaid + fundingPaid - cb + cs - left
        /\ Paid' = realized - feesPaid + (fundingPaid + owed) - cb + cs - left
        BY <1>2 DEF Paid
  <2>3. Held' = Held
        BY <1>2 DEF Held, Net
  <2> HIDE DEF cb, cs, left
  <2> QED
        BY <1>5, <2>1, <2>2, <2>3
<1>8. Held = Net /\ total = Paid + owed + m * Held
      BY <1>2, <1>6, RecordedTotal DEF Kinds
<1>9. Held = qty + dropped /\ money + opening.gain = Paid + owed /\ pnl = position + money
      BY DEF Ledgers
\* What is held at the mark is what the loop holds at its close, and what the
\* two prices differ by if the slice has none.
<1> DEFINE other == IF priced THEN 0 ELSE (m - close) * qty
<1>10. m * qty = position + other /\ other \in Int
  <2>1. position = qty * close
        BY <1>2 DEF Ledgers
  <2>2. CASE priced
    <3>1. m = close
          BY <1>2, <2>2 DEF Marks
    <3> QED
          BY <1>5, <2>1, <2>2, <3>1
  <2>3. CASE ~priced
    <3>1. (m - close) * qty = m * qty - qty * close /\ m * qty \in Int /\ qty * close \in Int
          BY <1>5, <1>6
    <3> QED
          BY <2>1, <2>3, <3>1
  <2> QED
        BY <2>2, <2>3
<1> HIDE DEF other
<1>11. m * Held = position + other + dropped * m
  <2>1. m * (qty + dropped) = m * qty + dropped * m
        BY <1>5, <1>6
  <2> QED
        BY <1>9, <1>10, <2>1
<1>12. daily'.total = pnl' + opening'.gain + dropped' * mark'
                      + (IF priced' THEN 0 ELSE (mark' - close') * qty')
  <2>1. dropped * m \in Int
        BY <1>5, <1>6
  <2>2. total = Paid + owed + position + other + dropped * m
        BY <1>5, <1>8, <1>10, <1>11, <2>1
  <2>3. total = pnl + opening.gain + dropped * m + other
        BY <1>5, <1>9, <1>10, <2>1, <2>2
  <2>4. other = IF priced' THEN 0 ELSE (mark' - close') * qty'
        BY <1>2, <1>3 DEF other
  <2> QED
        BY <1>2, <1>3, <1>4, <2>3, <2>4
<1>13. Net' = qty' + dropped' /\ ~Matching'
  <2>1. Net' = Net /\ ~Matching'
        BY <1>2 DEF Net, Matching
  <2> QED
        BY <1>2, <1>3, <1>8, <1>9, <2>1
<1>14. Held' = qty' + dropped' /\ pnl' = position' + money'
      BY <1>2, <1>3, <1>7, <1>9
<1>15. money' + opening'.gain = Paid' + owed'
      BY <1>2, <1>3, <1>4, <1>5, <1>7, <1>9
<1>17. daily'.at <= now'
  <2>1. now' = now
        BY <1>1 DEF Records
  <2> QED
        BY <1>4, <1>5, <2>1
<1>16. Ledgers'
      BY <1>2, <1>12, <1>13, <1>14, <1>15, <1>17 DEF Ledgers, LedgersAgree
<1> QED
    BY <1>2, <1>5, <1>7, <1>16

LEMMA MatchLedgers == ASSUME Kinds, Ledgers, Match PROVE Ledgers'
<1>1. /\ Held' = Held /\ Paid' = Paid
      BY TurnKeepsAccount DEF Match, Kinds, Books
<1>2. /\ pc = "match" /\ UNCHANGED <<pc, now, qty, position, money, pnl, close, owed, daily, dropped, opening>>
      BY DEF Match, simVars, recVars, historyVars
<1>3. LedgersAgree'
      BY <1>2 DEF LedgersAgree
<1> QED
    BY <1>1, <1>2, <1>3 DEF Ledgers

LEMMA LedgersStep == Kinds /\ Ledgers /\ [Next]_vars => Ledgers'
<1> SUFFICES ASSUME Kinds, Ledgers, [Next]_vars PROVE Ledgers'
    OBVIOUS
<1>1. CASE BadPrices \/ GenerateTargets \/ UNCHANGED vars
  <2>1. /\ UNCHANGED <<qty, position, money, pnl, close, priced, executed, fifoVars, recVars, historyVars>>
        /\ \/ pc' \in {"slice", "dead"} /\ pc \in {"slice", "targets"}
           \/ pc' = pc
        BY <1>1 DEF BadPrices, GenerateTargets, vars, simVars
  <2>2. Held' = Held /\ Paid' = Paid /\ (Matching' <=> Matching) /\ Net' = Net
        BY <2>1 DEF fifoVars, Held, Paid, Net, Matching
  <2>3. UNCHANGED <<mark, owed, daily, dropped, opening>>
        BY <2>1 DEF recVars, historyVars
  <2>5. \/ UNCHANGED now /\ (pc' = pc \/ pc' = "dead")
        \/ pc' = "slice" /\ now' = now + 1
        BY <1>1 DEF BadPrices, GenerateTargets, vars
  <2>6. daily.at \in Int /\ now \in Int
        BY DEF Kinds, Books, Dailies, Typed, Never
  <2>7. daily'.at <= now' /\ (pc' = "slice" => daily'.at < now')
        BY <2>3, <2>5, <2>6 DEF Ledgers
  <2>8. pc' = "targets" => pc = "targets" /\ UNCHANGED now
        BY <2>5
  <2>4. LedgersAgree'
        BY <2>1, <2>2, <2>3, <2>8 DEF Ledgers, LedgersAgree, Valueless
  <2> QED
        BY <2>1, <2>2, <2>3, <2>4, <2>7 DEF Ledgers
<1> QED
    BY <1>1, SliceLedgers, MatchLedgers, RecordLedgers DEF Next

(* After every record the total of the calculator is the pnl of the loop,   *)
(* but for the quantity the loop forgot without a fill, the gain of the     *)
(* initial position, and another mark where the slice has no price: two     *)
(* computations of one number, in simulate.py and in fill_pnl_symbol.py.    *)
THEOREM LedgersAlwaysAgree == Spec => []LedgersAgree
<1>1. Ledgers => LedgersAgree
      BY DEF Ledgers
<1> QED
    BY <1>1, KindsHold, InitLedgers, LedgersStep, PTL DEF Spec

(* The matching of fills into lots is an account: its turns move nothing,   *)
(* a fill moves its quantity at one price and its fee, and a record adds    *)
(* the funding owed.                                                        *)
THEOREM CalculatorKeepsAccount == Spec => KeepsAccount
<1>1. Init /\ Kinds => account!Init
      BY HeldTyped DEF Kinds, Books, MoneyTyped, account!Init
<1>2. Kinds /\ Ledgers /\ [Next]_vars => [account!Next]_(account!vars)
  <2> SUFFICES ASSUME Kinds, Ledgers, [Next]_vars
               PROVE  account!Next \/ UNCHANGED <<Held, Paid, fundingPaid>>
      BY DEF account!vars
  <2>1. CASE Slice
    <3>1. PICK n \in Int, px \in Int, kept \in Int, p \in Int, income \in Int : Booked(n, px, kept, p, income)
          BY <2>1, SliceTrades DEF Kinds
    <3>2. CASE n = 0
      <4>1. UNCHANGED <<inventory, fill, remaining, realized, feesPaid, fundingPaid>>
            BY <3>1, <3>2 DEF Booked
      <4> QED
            BY <4>1 DEF Held, Net, Paid
    <3>3. CASE n # 0
      <4>1. /\ StartFill([side |-> IF n > 0 THEN "B" ELSE "S", px |-> px, qty |-> Size(n)],
                         Size(n * px) * Fee)
            /\ px \in FillPrices /\ UNCHANGED fundingPaid /\ pc = "slice"
            BY <3>1, <3>3 DEF Booked
      <4>2. n * px \in Int /\ Size(n * px) * Fee \in Int
            BY TradeTyped
      <4>3. Lotted /\ MoneyTyped /\ ~Matching /\ remaining = 0 /\ Held \in Int
            BY <4>1, HeldTyped DEF Kinds, Books, Ledgers, Settled
      <4>4. Held' = Held + n /\ Paid' = Paid - n * px - Size(n * px) * Fee
            BY <3>3, <4>1, <4>2, <4>3, FillMovesAccount
      <4>5. Held' - Held = n
            BY <4>3, <4>4
      <4>6. account!FeeOf(n * px) = Size(n * px) * Fee
            BY DEF account!FeeOf, Size
      <4>7. px \in {p1 + d : p1 \in Prices, d \in {-Slip, 0, Slip, Sky}}
            BY <4>1 DEF FillPrices
      <4>8. Paid' = Paid - (Held' - Held) * px - account!FeeOf((Held' - Held) * px)
        <5>1. Paid' = Paid - n * px - account!FeeOf(n * px)
              BY <4>4, <4>6
        <5> QED
              BY <4>5, <5>1
      <4>9. Held' - Held # 0 /\ UNCHANGED fundingPaid
            BY <3>3, <4>1, <4>5
      <4>10. \E q \in {p1 + d : p1 \in Prices, d \in {-Slip, 0, Slip, Sky}} :
               Paid' = Paid - (Held' - Held) * q - account!FeeOf((Held' - Held) * q)
            BY <4>7, <4>8
      <4>11. account!Trade
            BY <4>9, <4>10 DEF account!Trade
      <4> QED
            BY <4>11 DEF account!Next
    <3> QED
          BY <3>2, <3>3
  <2>2. CASE Account
        BY <2>2, RecordLedgers DEF account!Next, account!Receive
  <2>3. CASE Match
        BY <2>3, TurnKeepsAccount DEF Match, Kinds, Books
  <2>4. CASE BadPrices \/ GenerateTargets \/ UNCHANGED vars
    <3>1. UNCHANGED fifoVars
          BY <2>4 DEF BadPrices, GenerateTargets, vars
    <3> QED
          BY <3>1 DEF fifoVars, Held, Net, Paid
  <2> QED
        BY <2>1, <2>2, <2>3, <2>4 DEF Next
<1> QED
    BY <1>1, <1>2, KindsHold, InitLedgers, LedgersStep, PTL DEF Spec, KeepsAccount, account!Spec

-----------------------------------------------------------------------------
(* The daily results.                                                       *)
Daily == /\ daily.before + daily.today + opening.skipped = daily.total
         /\ FirstRecord => daily.total = 0

LEMMA DailyStep == Kinds /\ Daily /\ [Next]_vars => Daily'
<1> SUFFICES ASSUME Kinds, Daily, [Next]_vars PROVE Daily'
    OBVIOUS
<1>1. CASE Account
  <2>1. PICK m, total : Records(m, total)
        BY <1>1, AccountRecords
  <2>2. m \in Int /\ remaining = 0
        BY <2>1, MarksAreInts DEF Records, Kinds, Settled
  <2>3. total \in Int /\ Skipped(m) \in Int /\ Date(now) \in Nat
        BY <2>1, <2>2, RecordedTotal, SkippedIsInt, DateIsNat DEF Records, Kinds
  <2>4. /\ daily.total \in Int /\ daily.today \in Int /\ daily.before \in Int /\ opening.skipped \in Int
        BY DEF Kinds, Books, Dailies, Openings
  <2>5. opening'.skipped = opening.skipped + Skipped(m)
    <3>1. opening' = [opening EXCEPT !.skipped = @ + Skipped(m)]
          BY <2>1 DEF Records
    <3>2. opening \in Openings
          BY DEF Kinds, Books
    <3> QED
          BY <3>1, <3>2 DEF Openings
  <2>6. /\ daily'.date = Date(now) /\ daily'.total = total
        /\ daily'.today = total - (IF FirstRecord THEN Skipped(m) ELSE daily.total)
                          + (IF Date(now) # daily.date THEN 0 ELSE daily.today)
        /\ daily'.before = daily.before + (IF Date(now) # daily.date THEN daily.today ELSE 0)
        BY <2>1 DEF Records
  <2>7. daily.before + daily.today + opening.skipped = daily.total /\ (FirstRecord => daily.total = 0)
        BY DEF Daily
  <2>8. ~FirstRecord => Skipped(m) = 0
        BY DEF Skipped
  <2>9. daily'.before + daily'.today + opening'.skipped = daily'.total
    <3>1. daily'.before + daily'.today
             = daily.before + daily.today + total - (IF FirstRecord THEN Skipped(m) ELSE daily.total)
      <4> DEFINE gone == IF FirstRecord THEN Skipped(m) ELSE daily.total
      <4>1. gone \in Int
            BY <2>3, <2>4
      <4> HIDE DEF gone
      <4>2. /\ daily'.today = total - gone + (IF Date(now) # daily.date THEN 0 ELSE daily.today)
            /\ daily'.before = daily.before + (IF Date(now) # daily.date THEN daily.today ELSE 0)
            BY <2>6 DEF gone
      <4>3. daily'.before + daily'.today = daily.before + daily.today + total - gone
            BY <2>3, <2>4, <4>1, <4>2
      <4> QED
            BY <4>3 DEF gone
    <3>2. CASE FirstRecord
      <4>1. daily'.before + daily'.today = daily.before + daily.today + total - Skipped(m)
            BY <3>1, <3>2
      <4>2. daily.before + daily.today + opening.skipped = 0 /\ daily'.total = total
            BY <2>6, <2>7, <3>2
      <4> DEFINE s == Skipped(m)
      <4>3. /\ s \in Int /\ opening'.skipped = opening.skipped + s
            /\ daily'.before + daily'.today = daily.before + daily.today + total - s
            BY <2>3, <2>5, <4>1
      <4> HIDE DEF s
      <4> QED
            BY <2>3, <2>4, <4>2, <4>3
    <3>3. CASE ~FirstRecord
          BY <2>3, <2>4, <2>5, <2>6, <2>7, <2>8, <3>1, <3>3
    <3> QED
          BY <3>2, <3>3
  <2>10. ~FirstRecord'
        BY <2>3, <2>6 DEF FirstRecord, Never
  <2> QED
        BY <2>9, <2>10 DEF Daily
<1>2. CASE Slice
  <2>1. UNCHANGED <<daily, opening>>
    <3>1. PICK n \in Int, px \in Int, kept \in Int, p \in Int, income \in Int : Booked(n, px, kept, p, income)
          BY <1>2, SliceTrades DEF Kinds
    <3> QED
          BY <3>1 DEF Booked
  <2> QED
        BY <2>1 DEF Daily, FirstRecord
<1>3. CASE BadPrices \/ Match \/ GenerateTargets \/ UNCHANGED vars
  <2>1. UNCHANGED <<daily, opening>>
        BY <1>3 DEF BadPrices, Match, GenerateTargets, vars, recVars, historyVars
  <2> QED
        BY <2>1 DEF Daily, FirstRecord
<1> QED
    BY <1>1, <1>2, <1>3 DEF Next

(* The daily pnl saved by save_pnl adds up to the cumulative one, on        *)
(* whatever dates there were records.                                       *)
THEOREM DailyAlwaysAddsUp == Spec => []DailyAddsUp
<1>1. Init => Daily
      BY DEF Init, Daily, FirstRecord
<1>2. Daily => DailyAddsUp
      BY DEF Daily, DailyAddsUp
<1> QED
    BY <1>1, <1>2, KindsHold, DailyStep, PTL DEF Spec
=============================================================================
