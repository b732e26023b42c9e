--------------------------- MODULE EodOverlay_proofs ---------------------------
(***************************************************************************)
(* Theorems about EodOverlay, for every set of symbols, length of a day,   *)
(* capture window, signal window and duration of an iteration.             *)
(*                                                                         *)
(* They rest on one fact: what the overlay holds was captured on the date  *)
(* of the loop's start_date or later, for a change of date clears it.      *)
(***************************************************************************)
EXTENDS EodOverlay, TLAPS

LEMMA Bounds == /\ DayTicks \in Nat /\ CaptureFrom \in Nat /\ CaptureTo \in Nat /\ Window \in Nat
                /\ WaveTicks \in Nat /\ MaxNow \in Nat /\ 0 < DayTicks
                /\ 0 < Window /\ Window <= CaptureFrom /\ CaptureFrom < CaptureTo /\ CaptureTo <= DayTicks
  BY ClockAssumption

-----------------------------------------------------------------------------
(* The calendar.                                                           *)

LEMMA Division ==
    ASSUME NEW n \in Nat, NEW k \in Nat, k > 0
    PROVE  n \div k \in Int /\ n = k * (n \div k) + (n % k) /\ n % k \in 0..(k - 1)
  OBVIOUS

LEMMA Multiples ==
    ASSUME NEW k \in Nat, NEW p \in Int, NEW q \in Int, p <= q
    PROVE  k * p <= k * q
  OBVIOUS

LEMMA Calendar ==
    ASSUME NEW t \in Nat
    PROVE  /\ Date(t) \in Nat /\ TimeOfDay(t) \in 0..(DayTicks - 1)
           /\ t = DayTicks * Date(t) + TimeOfDay(t)
<1>1. /\ t \div DayTicks \in Int /\ t = DayTicks * (t \div DayTicks) + (t % DayTicks)
      /\ t % DayTicks \in 0..(DayTicks - 1)
      BY Bounds, Division
<1>2. t \div DayTicks >= 0
  <2>1. SUFFICES ASSUME t \div DayTicks <= -1 PROVE FALSE
        BY <1>1
  <2>2. DayTicks * (t \div DayTicks) <= DayTicks * (-1)
        BY <1>1, <2>1, Bounds, Multiples
  <2> QED
        BY <1>1, <2>2, Bounds
<1> QED
    BY <1>1, <1>2 DEF Date, TimeOfDay

(* A time is before the end of its date and not before the date's start;   *)
(* so dates are in the order of times, times of one date in that of their  *)
(* times of day.                                                           *)
LEMMA DateBounds ==
    ASSUME NEW t \in Nat, NEW d \in Int
    PROVE  /\ d <= Date(t) => DayTicks * d <= t
           /\ Date(t) <= d => t < DayTicks * d + DayTicks
<1>1. /\ Date(t) \in Nat /\ TimeOfDay(t) \in 0..(DayTicks - 1)
      /\ t = DayTicks * Date(t) + TimeOfDay(t)
      BY Calendar
<1>2. d <= Date(t) => DayTicks * d <= DayTicks * Date(t)
      BY <1>1, Bounds, Multiples
<1>3. Date(t) <= d => DayTicks * Date(t) <= DayTicks * d
      BY <1>1, Bounds, Multiples
<1> DEFINE x == DayTicks * d
           y == DayTicks * Date(t)
<1>4. x \in Int /\ y \in Int
      BY <1>1, Bounds
<1>5. (d <= Date(t) => x <= y) /\ (Date(t) <= d => y <= x) /\ t = y + TimeOfDay(t)
      BY <1>1, <1>2, <1>3
<1> HIDE DEF x, y
<1>6. (d <= Date(t) => x <= t) /\ (Date(t) <= d => t < x + DayTicks)
      BY <1>1, <1>4, <1>5, Bounds
<1> QED
    BY <1>6 DEF x

LEMMA DatesOrdered ==
    ASSUME NEW t \in Nat, NEW u \in Nat, t <= u
    PROVE  Date(t) <= Date(u) /\ (Date(t) = Date(u) => TimeOfDay(t) <= TimeOfDay(u))
<1>1. /\ Date(t) \in Nat /\ Date(u) \in Nat /\ TimeOfDay(t) \in Int /\ TimeOfDay(u) \in Int
      /\ t = DayTicks * Date(t) + TimeOfDay(t) /\ u = DayTicks * Date(u) + TimeOfDay(u)
      BY Calendar
<1>2. Date(t) <= Date(u)
  <2>1. SUFFICES ASSUME Date(u) + 1 <= Date(t) PROVE FALSE
        BY <1>1
  <2>2. u < DayTicks * Date(u) + DayTicks
        BY <1>1, DateBounds
  <2>3. DayTicks * (Date(u) + 1) <= t
        BY <1>1, <2>1, DateBounds
  <2>4. DayTicks * (Date(u) + 1) = DayTicks * Date(u) + DayTicks
        BY <1>1, Bounds
  <2> QED
        BY <1>1, <2>2, <2>3, <2>4, Bounds
<1>3. Date(t) = Date(u) => TimeOfDay(t) <= TimeOfDay(u)
      BY <1>1, Bounds
<1> QED
    BY <1>2, <1>3

-----------------------------------------------------------------------------
(* Types.                                                                  *)
LEMMA InitTypes == Init => TypeOK
<1> SUFFICES ASSUME Init PROVE TypeOK
    OBVIOUS
<1>1. now \in Nat
      BY Bounds DEF Init
<1>2. Date(now) \in Nat
      BY <1>1, Calendar
<1> QED
    BY <1>1, <1>2 DEF Init, TypeOK, None

LEMMA TypeStep == TypeOK /\ [Next]_vars => TypeOK'
<1> SUFFICES ASSUME TypeOK, [Next]_vars PROVE TypeOK'
    OBVIOUS
<1>1. now \in Nat /\ Date(now) \in Nat
      BY Calendar DEF TypeOK
<1>2. CASE Tick
  <2>1. now' = now + 1 /\ now' \in Nat
        BY <1>1, <1>2 DEF Tick
  <2>2. Date(now') \in Nat /\ Date(now) <= Date(now')
        BY <1>1, <2>1, Calendar, DatesOrdered
  <2>3. /\ startDate \in 0..Date(now') /\ refDate \in 0..Date(now') \union {None}
        /\ began \in 0..now' /\ asof \in 0..now'
        /\ signalTs \in 0..now' \union {None} /\ capturedAt \in 0..now' \union {None}
        BY <1>1, <2>1, <2>2 DEF TypeOK
  <2> QED
        BY <1>2, <2>1, <2>3 DEF Tick, TypeOK, overlayVars, historyVars
<1>3. CASE Roll
      BY <1>1, <1>3 DEF Roll, TypeOK, Reset, overlayVars, historyVars, None
<1>4. CASE Capture
      BY <1>1, <1>4 DEF Capture, TypeOK, None
<1>5. CASE NoCapture
      BY <1>1, <1>5 DEF NoCapture, TypeOK, overlayVars, historyVars
<1>6. CASE SetReferenceDate
      BY <1>1, <1>6 DEF SetReferenceDate, TypeOK, historyVars
<1>7. CASE ComputeSignal
  <2>1. PICK valid \in SUBSET prices : IF valid = {} THEN UNCHANGED <<signal, signalTs>>
                                       ELSE signal' = valid /\ signalTs' = now
        BY <1>7 DEF ComputeSignal
  <2> QED
        BY <1>1, <1>7, <2>1 DEF ComputeSignal, TypeOK, historyVars, None
<1>8. CASE NoSignal
      BY <1>1, <1>8 DEF NoSignal, TypeOK, overlayVars, historyVars
<1>9. CASE SendOrders
      BY <1>1, <1>9 DEF SendOrders, TypeOK, overlayVars, historyVars
<1>10. CASE Restart
      BY <1>1, <1>10 DEF Restart, TypeOK, Reset, None
<1>11. CASE UNCHANGED vars
      BY <1>11 DEF vars, TypeOK, overlayVars, historyVars
<1> QED
    BY <1>2, <1>3, <1>4, <1>5, <1>6, <1>7, <1>8, <1>9, <1>10, <1>11 DEF Next

-----------------------------------------------------------------------------
(* An iteration: it is of the date it began on, and what it reads off the  *)
(* clock is not older than its beginning nor than the last capture.        *)
InIteration == /\ Date(began) = startDate
               /\ pc # "wait" => now <= began + WaveTicks
               /\ pc \in {"date", "signal", "orders"} => began <= asof /\ capturedAt <= asof

(* What is held was captured in the window of start_date, or of a later    *)
(* date that the iteration ran into.                                       *)
Held == prices # {} => /\ capturedAt # None /\ TimeOfDay(capturedAt) >= CaptureFrom
                       /\ startDate <= Date(capturedAt)

(* The date a capture is filed under is its own, or one the iteration ran  *)
(* into; the next iteration sees it only if it is its own.                 *)
Filed == /\ pc # "date" /\ refDate # None =>
               capturedAt # None /\ startDate <= Date(capturedAt) /\ Date(capturedAt) <= refDate
         /\ pc = "capture" /\ refDate # None => Date(capturedAt) = refDate
         /\ pc = "date" => asof = capturedAt

(* A signal is computed after the midnight that ends start_date, by an     *)
(* iteration that began before.                                            *)
Night == signalTs # None => SignalFresh /\ DayTicks * startDate + DayTicks <= signalTs

OverlayInv == TypeOK /\ InIteration /\ Held /\ Filed /\ CapturedWhenDue /\ Night

LEMMA InitInv == Init => OverlayInv
<1> SUFFICES ASSUME Init PROVE OverlayInv
    OBVIOUS
<1>1. TypeOK
      BY InitTypes
<1> QED
    BY <1>1 DEF Init, OverlayInv, InIteration, Held, Filed, CapturedWhenDue, Night

LEMMA Clocks == ASSUME TypeOK
                PROVE  /\ now \in Nat /\ began \in Nat /\ asof \in Nat /\ began <= now /\ asof <= now
                       /\ Date(now) \in Nat /\ Date(began) \in Nat /\ Date(asof) \in Nat
                       /\ startDate \in Nat /\ refDate \in Int /\ signalTs \in Int /\ capturedAt \in Int
                       /\ (capturedAt # None => capturedAt \in 0..now) /\ (refDate # None => refDate <= Date(now))
                       /\ (signalTs # None => signalTs \in 0..now)
<1>1. now \in Nat /\ began \in Nat /\ asof \in Nat
      BY DEF TypeOK
<1>2. Date(now) \in Nat /\ Date(began) \in Nat /\ Date(asof) \in Nat
      BY <1>1, Calendar
<1> QED
    BY <1>1, <1>2 DEF TypeOK, None

LEMMA IterationStep == OverlayInv /\ [Next]_vars => InIteration'
<1> SUFFICES ASSUME OverlayInv, [Next]_vars PROVE InIteration'
    OBVIOUS
<1>0. TypeOK /\ InIteration /\ Held /\ Filed
      BY DEF OverlayInv
<1>1. /\ now \in Nat /\ began \in Nat /\ began <= now /\ capturedAt \in Int
      /\ (capturedAt # None => capturedAt \in 0..now)
      BY <1>0, Clocks
<1>2. capturedAt <= now
      BY <1>1 DEF None
<1>3. CASE Tick
      BY <1>0, <1>1, <1>3, Bounds DEF Tick, InIteration, historyVars
<1>4. CASE Roll
      BY <1>1, <1>4, Bounds DEF Roll, InIteration, historyVars
<1>5. CASE Capture
      BY <1>0, <1>1, <1>5 DEF Capture, InIteration
<1>6. CASE NoCapture
      BY <1>0, <1>1, <1>2, <1>6 DEF NoCapture, InIteration, historyVars
<1>7. CASE SetReferenceDate \/ ComputeSignal \/ NoSignal \/ SendOrders
      BY <1>0, <1>7 DEF SetReferenceDate, ComputeSignal, NoSignal, SendOrders, InIteration, historyVars
<1>8. CASE Restart
      BY <1>8 DEF Restart, InIteration
<1>9. CASE UNCHANGED vars
      BY <1>0, <1>9 DEF vars, InIteration, historyVars
<1> QED
    BY <1>3, <1>4, <1>5, <1>6, <1>7, <1>8, <1>9 DEF Next

LEMMA HeldStep == OverlayInv /\ [Next]_vars => Held'
<1> SUFFICES ASSUME OverlayInv, [Next]_vars PROVE Held'
    OBVIOUS
<1>0. TypeOK /\ InIteration /\ Held
      BY DEF OverlayInv
<1>1. now \in Nat /\ began \in Nat /\ began <= now
      BY <1>0, Clocks
<1>2. Date(began) <= Date(now)
      BY <1>1, DatesOrdered
<1>3. CASE Roll
      BY <1>0, <1>3 DEF Roll, Reset, Held, overlayVars, historyVars
<1>4. CASE Capture
  <2>1. capturedAt' = now /\ now # None /\ startDate' = startDate
        BY <1>1, <1>4 DEF Capture, None
  <2>2. TimeOfDay(now) >= CaptureFrom
        BY <1>4, Bounds DEF Capture, ShouldCapture
  <2> QED
        BY <1>0, <1>2, <2>1, <2>2 DEF Held, InIteration
<1>5. CASE Tick \/ NoCapture \/ SetReferenceDate \/ ComputeSignal \/ NoSignal \/ SendOrders \/ UNCHANGED vars
      BY <1>0, <1>5 DEF Tick, NoCapture, SetReferenceDate, ComputeSignal, NoSignal, SendOrders, vars,
                        Held, overlayVars, historyVars
<1>6. CASE Restart
      BY <1>6 DEF Restart, Reset, Held
<1> QED
    BY <1>3, <1>4, <1>5, <1>6 DEF Next

LEMMA FiledStep == OverlayInv /\ [Next]_vars => Filed'
<1> SUFFICES ASSUME OverlayInv, [Next]_vars PROVE Filed'
    OBVIOUS
<1>0. TypeOK /\ InIteration /\ Filed
      BY DEF OverlayInv
<1>1. /\ now \in Nat /\ began \in Nat /\ began <= now /\ Date(now) \in Nat /\ startDate \in Nat
      /\ refDate \in Int /\ (refDate # None => refDate <= Date(now))
      /\ (capturedAt # None => capturedAt \in 0..now)
      BY <1>0, Clocks
<1>2. CASE Roll
  <2>1. CASE Date(now) # startDate
        BY <1>2, <2>1 DEF Roll, Reset, Filed
  <2>2. CASE Date(now) = startDate
    <3>1. /\ UNCHANGED <<refDate, capturedAt, startDate>> /\ pc = "wait" /\ pc' \in {"capture", "wait"}
          BY <1>2, <2>2 DEF Roll, overlayVars, historyVars
    <3>2. ASSUME refDate # None
          PROVE  capturedAt # None /\ startDate <= Date(capturedAt) /\ Date(capturedAt) <= refDate
                 /\ Date(capturedAt) = refDate
      <4>1. capturedAt # None /\ startDate <= Date(capturedAt) /\ Date(capturedAt) <= refDate
            BY <1>0, <3>1, <3>2 DEF Filed
      <4>2. Date(capturedAt) \in Nat
            BY <1>1, <4>1, Calendar
      <4> QED
            BY <1>1, <2>2, <3>2, <4>1, <4>2
    <3> QED
          BY <3>1, <3>2 DEF Filed
  <2> QED
        BY <2>1, <2>2
<1>3. CASE Capture
      BY <1>3 DEF Capture, Filed
<1>4. CASE SetReferenceDate
  <2>1. pc = "date" /\ refDate' = Date(now) /\ UNCHANGED <<startDate, capturedAt>> /\ pc' = "signal"
        BY <1>4 DEF SetReferenceDate, historyVars
  <2>2. asof = capturedAt /\ began <= asof /\ asof \in Nat /\ asof <= now
        BY <1>0, <2>1, Clocks DEF Filed, InIteration
  <2>3. Date(began) <= Date(capturedAt) /\ Date(capturedAt) <= Date(now) /\ capturedAt # None
        BY <1>1, <2>2, DatesOrdered DEF None
  <2> QED
        BY <1>0, <2>1, <2>3 DEF Filed, InIteration
<1>5. CASE Tick \/ NoCapture \/ ComputeSignal \/ NoSignal \/ SendOrders \/ UNCHANGED vars
      BY <1>0, <1>5 DEF Tick, NoCapture, ComputeSignal, NoSignal, SendOrders, vars,
                        Filed, overlayVars, historyVars
<1>6. CASE Restart
      BY <1>6 DEF Restart, Reset, Filed
<1> QED
    BY <1>2, <1>3, <1>4, <1>5, <1>6 DEF Next

LEMMA DueStep == OverlayInv /\ [Next]_vars => CapturedWhenDue'
<1> SUFFICES ASSUME OverlayInv, [Next]_vars PROVE CapturedWhenDue'
    OBVIOUS
<1>0. TypeOK /\ Filed /\ CapturedWhenDue
      BY DEF OverlayInv
<1>1. now \in Nat /\ Date(now) \in Nat
      BY <1>0, Clocks
<1>2. CASE NoCapture
  <2>1. /\ pc = "capture" /\ asof' = now /\ UNCHANGED capturedAt
        /\ ~ShouldCapture(now)
        BY <1>2 DEF NoCapture, historyVars
  <2>2. ASSUME TimeOfDay(now) \in CaptureFrom..(CaptureTo - 1)
        PROVE  Date(capturedAt) = Date(now)
    <3>1. refDate = Date(now) /\ refDate # None
          BY <1>1, <2>1, <2>2 DEF ShouldCapture, None
    <3> QED
          BY <1>0, <2>1, <3>1 DEF Filed
  <2> QED
        BY <2>1, <2>2 DEF CapturedWhenDue
<1>3. CASE SetReferenceDate
  <2>1. pc = "date" /\ UNCHANGED <<asof, capturedAt>>
        BY <1>3 DEF SetReferenceDate, historyVars
  <2> QED
        BY <1>0, <2>1 DEF Filed, CapturedWhenDue
<1>4. CASE Tick \/ UNCHANGED vars
      BY <1>0, <1>4 DEF Tick, vars, CapturedWhenDue, historyVars
<1>5. CASE Roll \/ Capture \/ ComputeSignal \/ NoSignal \/ SendOrders \/ Restart
      BY <1>5 DEF Roll, Capture, ComputeSignal, NoSignal, SendOrders, Restart, CapturedWhenDue
<1> QED
    BY <1>2, <1>3, <1>4, <1>5 DEF Next

(* The reading of the clock that finds the signal window open comes after  *)
(* the midnight that ends start_date: earlier on that date there are no    *)
(* prices, later on it the window is closed.                               *)
LEMMA AfterMidnight ==
    ASSUME OverlayInv, pc = "signal", ShouldComputeSignal
    PROVE  /\ DayTicks * startDate + DayTicks <= asof
           /\ now - capturedAt <= (DayTicks - CaptureFrom) + Window + WaveTicks
<1>0. TypeOK /\ InIteration /\ Held
      BY DEF OverlayInv
<1>1. /\ now \in Nat /\ began \in Nat /\ asof \in Nat /\ asof <= now /\ began <= now /\ startDate \in Nat
      /\ Date(asof) \in Nat
      /\ (capturedAt # None => capturedAt \in 0..now)
      BY <1>0, Clocks
<1>2. /\ capturedAt # None /\ TimeOfDay(capturedAt) >= CaptureFrom /\ startDate <= Date(capturedAt)
      /\ TimeOfDay(asof) < Window
      BY <1>0 DEF Held, ShouldComputeSignal
<1>3. Date(began) = startDate /\ now <= began + WaveTicks /\ began <= asof /\ capturedAt <= asof
      BY <1>0 DEF InIteration
<1>4. /\ capturedAt \in Nat /\ Date(capturedAt) \in Nat /\ TimeOfDay(capturedAt) \in Int
      /\ TimeOfDay(asof) \in Int
      /\ capturedAt = DayTicks * Date(capturedAt) + TimeOfDay(capturedAt)
      BY <1>1, <1>2, Calendar
<1>5. Date(capturedAt) <= Date(asof) /\ Date(capturedAt) # Date(asof)
      BY <1>1, <1>2, <1>3, <1>4, DatesOrdered, Bounds
<1>6. startDate + 1 <= Date(asof)
      BY <1>1, <1>2, <1>4, <1>5
<1>7. DayTicks * (startDate + 1) <= asof
      BY <1>1, <1>6, DateBounds
<1>8. DayTicks * (startDate + 1) = DayTicks * startDate + DayTicks
      BY <1>1, Bounds
<1>9. began < DayTicks * startDate + DayTicks
      BY <1>1, <1>3, DateBounds
<1>10. DayTicks * startDate <= DayTicks * Date(capturedAt)
      BY <1>1, <1>2, <1>4, Bounds, Multiples
<1> DEFINE x == DayTicks * startDate
           y == DayTicks * Date(capturedAt)
<1>11. x \in Int /\ y \in Int /\ x <= y /\ began < x + DayTicks /\ capturedAt = y + TimeOfDay(capturedAt)
      BY <1>1, <1>4, <1>9, <1>10, Bounds
<1> HIDE DEF x, y
<1>12. now - capturedAt <= (DayTicks - CaptureFrom) + Window + WaveTicks
      BY <1>1, <1>2, <1>3, <1>4, <1>11, Bounds
<1> QED
    BY <1>7, <1>8, <1>12

LEMMA NightStep == OverlayInv /\ [Next]_vars => Night'
<1> SUFFICES ASSUME OverlayInv, [Next]_vars PROVE Night'
    OBVIOUS
<1>0. TypeOK /\ Night
      BY DEF OverlayInv
<1>1. CASE ComputeSignal
  <2>1. /\ pc = "signal" /\ ShouldComputeSignal /\ UNCHANGED <<startDate, capturedAt>>
        /\ signalTs' = signalTs \/ signalTs' = now
        BY <1>1 DEF ComputeSignal, historyVars
  <2>2. signalTs = None
        BY <2>1 DEF ShouldComputeSignal
  <2>3. CASE signalTs' = now
    <3>1. /\ DayTicks * startDate + DayTicks <= asof
          /\ now - capturedAt <= (DayTicks - CaptureFrom) + Window + WaveTicks
          BY <2>1, AfterMidnight
    <3>2. asof <= now /\ asof \in Nat /\ now \in Nat /\ startDate \in Nat
          BY <1>0, Clocks
    <3>3. DayTicks * startDate + DayTicks <= now
      <4> DEFINE x == DayTicks * startDate + DayTicks
      <4>1. x \in Int /\ x <= asof
            BY <3>1, <3>2, Bounds
      <4> HIDE DEF x
      <4>2. x <= now
            BY <3>2, <4>1
      <4> QED
            BY <4>2 DEF x
    <3> QED
          BY <2>1, <2>3, <3>1, <3>3 DEF Night, SignalFresh
  <2> QED
        BY <2>1, <2>2, <2>3 DEF Night
<1>2. CASE Roll
  <2>1. CASE Date(now) # startDate
        BY <1>2, <2>1 DEF Roll, Reset, Night
  <2>2. CASE Date(now) = startDate
        BY <1>0, <1>2, <2>2 DEF Roll, Night, SignalFresh, overlayVars, historyVars
  <2> QED
        BY <2>1, <2>2
<1>3. CASE Capture \/ Restart
      BY <1>3 DEF Capture, Restart, Reset, Night
<1>4. CASE Tick \/ NoCapture \/ SetReferenceDate \/ NoSignal \/ SendOrders \/ UNCHANGED vars
      BY <1>0, <1>4 DEF Tick, NoCapture, SetReferenceDate, NoSignal, SendOrders, vars,
                        Night, SignalFresh, overlayVars, historyVars
<1> QED
    BY <1>1, <1>2, <1>3, <1>4 DEF Next

LEMMA Inductive == Spec => []OverlayInv
<1>1. OverlayInv /\ [Next]_vars => OverlayInv'
  <2> SUFFICES ASSUME OverlayInv, [Next]_vars PROVE OverlayInv'
      OBVIOUS
  <2>1. TypeOK'
        BY TypeStep DEF OverlayInv
  <2> QED
        BY <2>1, IterationStep, HeldStep, FiledStep, DueStep, NightStep DEF OverlayInv
<1> QED
    BY <1>1, InitInv, PTL DEF Spec

(* Types, and more: prices are some of those captured, a signal is for     *)
(* symbols with prices, and there is a signal exactly when it has a time.  *)
THEOREM TypeCorrect == Spec => []TypeOK
<1>1. OverlayInv => TypeOK
      BY DEF OverlayInv
<1> QED
    BY <1>1, Inductive, PTL

(* A signal compares with prices of the same night: reset() at the change  *)
(* of date is what keeps older ones away, for the overlay looks at no date *)
(* when it computes.                                                       *)
THEOREM SignalIsFresh == Spec => []SignalFresh
<1>1. OverlayInv => SignalFresh
      BY DEF OverlayInv, Night, SignalFresh
<1> QED
    BY <1>1, Inductive, PTL

(* After the overlay's decision in a capture window there are prices of    *)
(* this day, although the date they are filed under is read later and may  *)
(* be the next day's.                                                      *)
THEOREM CaptureIsDue == Spec => []CapturedWhenDue
<1>1. OverlayInv => CapturedWhenDue
      BY DEF OverlayInv
<1> QED
    BY <1>1, Inductive, PTL

(* A modified order leaves in the first ticks of a day: the iteration that *)
(* sends it began before midnight, the signal was computed after.          *)
LEMMA BoostStep == OverlayInv /\ [Next]_vars
                     => [boosted' # {} => TimeOfDay(now) < Window + WaveTicks]_boosted
<1> SUFFICES ASSUME OverlayInv, [Next]_vars, boosted' # boosted, boosted' # {}
             PROVE  TimeOfDay(now) < Window + WaveTicks
    OBVIOUS
<1>0. TypeOK /\ InIteration /\ Night
      BY DEF OverlayInv
<1>1. SendOrders
      BY DEF Next, Tick, Roll, Capture, NoCapture, SetReferenceDate, ComputeSignal, NoSignal, Restart, vars
<1>2. pc = "orders" /\ signalTs # None
      BY <1>1 DEF SendOrders, IsActive
<1>3. now \in Nat /\ began \in Nat /\ startDate \in Nat /\ signalTs \in 0..now
      BY <1>0, <1>2, Clocks
<1>4. now <= began + WaveTicks /\ Date(began) = startDate /\ DayTicks * startDate + DayTicks <= signalTs
      BY <1>0, <1>2 DEF InIteration, Night
<1>5. began < DayTicks * startDate + DayTicks
      BY <1>3, <1>4, DateBounds
<1>6. /\ Date(now) \in Nat /\ TimeOfDay(now) \in Int
      /\ now = DayTicks * Date(now) + TimeOfDay(now)
      BY <1>3, Calendar
<1> DEFINE m == DayTicks * startDate + DayTicks
           y == DayTicks * Date(now)
<1>7. m \in Int /\ y \in Int /\ m <= now /\ now < m + WaveTicks /\ now = y + TimeOfDay(now)
  <2>1. m \in Int /\ y \in Int
        BY <1>3, <1>6, Bounds
  <2>2. m <= signalTs /\ began < m /\ now = y + TimeOfDay(now)
        BY <1>4, <1>5, <1>6
  <2> HIDE DEF m, y
  <2> QED
        BY <1>3, <1>4, <2>1, <2>2, Bounds
<1>8. m <= y
  <2>1. startDate + 1 <= Date(now)
    <3>1. SUFFICES ASSUME Date(now) <= startDate PROVE FALSE
          BY <1>3, <1>6
    <3>2. now < DayTicks * startDate + DayTicks
          BY <1>3, <3>1, DateBounds
    <3> QED
          BY <1>3, <1>7, <3>2
  <2>2. DayTicks * (startDate + 1) <= DayTicks * Date(now)
        BY <1>3, <1>6, <2>1, Bounds, Multiples
  <2>3. DayTicks * (startDate + 1) = m
        BY <1>3, Bounds
  <2> QED
        BY <2>2, <2>3
<1> HIDE DEF m, y
<1> QED
    BY <1>3, <1>6, <1>7, <1>8, Bounds

(* No order is modified but in the window after midnight: activity is      *)
(* judged by the age of the signal, and no signal outlives its night.      *)
THEOREM BoostsInWindow == Spec => BoostedInWindow
  BY BoostStep, Inductive, PTL DEF Spec, BoostedInWindow
=============================================================================
