------------------------------ MODULE EodOverlay ------------------------------
(***************************************************************************)
(* The end-of-day reversal overlay (lib/trader/trader_eod.py,              *)
(* EODReversalManager) as the wave loop of lib/trader/trader.py drives it: *)
(* reference prices are captured late in the day, a signal is computed     *)
(* from them after midnight UTC, and orders are modified while it is       *)
(* active; on a change of date the loop calls reset().                     *)
(*                                                                         *)
(* The clock runs between any two statements that read it.  Prices and     *)
(* signals are the sets of symbols that have one.                          *)
(***************************************************************************)
EXTENDS Integers

CONSTANTS Symbols,
          DayTicks,     \* clock ticks of a day
          CaptureFrom,  \* EOD_REVERSAL_CAPTURE_HOUR and _MINUTE, to the end of that hour
          CaptureTo,
          Window,       \* EOD_REVERSAL_WINDOW_MINS
          WaveTicks,    \* bound: an iteration of the loop takes at most so long
          MaxNow        \* bound: the clock stops there

ASSUME ClockAssumption == /\ DayTicks \in Nat /\ CaptureFrom \in Nat /\ Window \in Nat
                          /\ WaveTicks \in Nat /\ MaxNow \in Nat
                          /\ CaptureTo \in 0..DayTicks
                          /\ 0 < Window /\ Window <= CaptureFrom /\ CaptureFrom < CaptureTo

VARIABLES now,        \* the clock
          pc,         \* where the iteration is, "wait" between two waves
          began,      \* clock at the start of the iteration
          startDate,  \* start_date of run_autotrader
          asof,       \* now_utc of the overlay block
          prices,     \* _reference_prices (and the two risk dictionaries)
          refDate,    \* _reference_date
          signal,     \* _signal (and _magnitude_rank)
          signalTs,   \* _signal_ts
          boosted,    \* symbols whose order the overlay modified in the last wave
          capturedAt, \* history: clock of the last capture
          captured    \* history: the symbols it got prices for

overlayVars == <<prices, refDate, signal, signalTs>>
historyVars == <<capturedAt, captured>>
vars == <<now, pc, began, startDate, asof, overlayVars, boosted, historyVars>>

None == -1      \* no date, no time
Date(t) == t \div DayTicks
TimeOfDay(t) == t % DayTicks

Init == /\ now \in 0..(DayTicks - 1)
        /\ pc = "wait" /\ began = now /\ startDate = Date(now) /\ asof = now
        /\ prices = {} /\ refDate = None /\ signal = {} /\ signalTs = None
        /\ boosted = {} /\ capturedAt = None /\ captured = {}

Tick == /\ now < MaxNow
        /\ pc = "wait" \/ now < began + WaveTicks
        /\ now' = now + 1
        /\ UNCHANGED <<pc, began, startDate, asof, overlayVars, boosted, historyVars>>

\* Mutants of Reset: the prices stay, the reference date stays, the time of
\* the signal stays.
ResetKeepsPrices == /\ refDate' = None /\ signal' = {} /\ signalTs' = None
                    /\ UNCHANGED prices
ResetKeepsDate == /\ prices' = {} /\ signal' = {} /\ signalTs' = None
                  /\ UNCHANGED refDate
ResetKeepsTime == /\ prices' = {} /\ refDate' = None /\ signal' = {}
                  /\ UNCHANGED signalTs

Reset == prices' = {} /\ refDate' = None /\ signal' = {} /\ signalTs' = None

\* The top of an iteration: the date roll.  Some iterations go no further
\* (no target yet, market data only).
Roll == /\ pc = "wait"
        /\ began' = now /\ startDate' = Date(now)
        /\ IF Date(now) # startDate THEN Reset ELSE UNCHANGED overlayVars
        /\ pc' \in {"capture", "wait"}
        /\ UNCHANGED <<now, asof, boosted, historyVars>>

ShouldCapture(t) == TimeOfDay(t) \in CaptureFrom..(CaptureTo - 1) /\ refDate # Date(t)

\* now_utc is read once for both decisions; a symbol without a mid price or
\* without risk is left out.
Capture == /\ pc = "capture" /\ ShouldCapture(now)
           /\ asof' = now
           /\ prices' \in SUBSET Symbols
           /\ signal' = {} /\ signalTs' = None
           /\ captured' = prices' /\ capturedAt' = now
           /\ pc' = "date"
           /\ UNCHANGED <<now, began, startDate, refDate, boosted>>

NoCapture == /\ pc = "capture" /\ ~ShouldCapture(now)
             /\ asof' = now
             /\ pc' = "signal"
             /\ UNCHANGED <<now, began, startDate, overlayVars, boosted, historyVars>>

\* capture_reference_prices reads the clock again for _reference_date.
SetReferenceDate == /\ pc = "date"
                    /\ refDate' = Date(now)
                    /\ pc' = "signal"
                    /\ UNCHANGED <<now, began, startDate, asof, prices, signal, signalTs,
                                   boosted, historyVars>>

\* Mutant of ShouldComputeSignal: as soon as there are prices.
ComputeAnyTime == prices # {} /\ signalTs = None

ShouldComputeSignal == TimeOfDay(asof) < Window /\ prices # {} /\ signalTs = None

\* compute_signal gives up when no symbol has a mid price now.
ComputeSignal == /\ pc = "signal" /\ ShouldComputeSignal
                 /\ \E valid \in SUBSET prices :
                        IF valid = {} THEN UNCHANGED <<signal, signalTs>>
                                      ELSE signal' = valid /\ signalTs' = now
                 /\ pc' = "orders"
                 /\ UNCHANGED <<now, began, startDate, asof, prices, refDate, boosted, historyVars>>

NoSignal == /\ pc = "signal" /\ ~ShouldComputeSignal
            /\ pc' = "orders"
            /\ UNCHANGED <<now, began, startDate, asof, overlayVars, boosted, historyVars>>

IsActive == signalTs # None /\ now - signalTs < Window

\* optimize_and_send_orders: get_execution_modifier for every symbol it trades,
\* which does nothing for a weak signal.
SendOrders == /\ pc = "orders"
              /\ boosted' \in SUBSET (IF IsActive THEN signal ELSE {})
              /\ pc' = "wait"
              /\ UNCHANGED <<now, began, startDate, asof, overlayVars, historyVars>>

\* The trader is killed and started again, at any point: a new manager.
Restart == /\ began' = now /\ startDate' = Date(now) /\ asof' = now /\ pc' = "wait"
           /\ Reset
           /\ boosted' = {} /\ capturedAt' = None /\ captured' = {}
           /\ UNCHANGED now

Next == \/ Restart \/ Tick \/ Roll \/ Capture \/ NoCapture \/ SetReferenceDate
        \/ ComputeSignal \/ NoSignal \/ SendOrders

Spec == Init /\ [][Next]_vars

-----------------------------------------------------------------------------
TypeOK == /\ now \in Nat /\ began \in 0..now /\ asof \in 0..now
          /\ pc \in {"wait", "capture", "date", "signal", "orders"}
          /\ startDate \in 0..Date(now)
          /\ prices \subseteq captured /\ signal \subseteq prices
          /\ captured \subseteq Symbols /\ boosted \subseteq Symbols
          /\ refDate \in 0..Date(now) \union {None}
          /\ signalTs \in 0..now \union {None} /\ capturedAt \in 0..now \union {None}
          /\ signal = {} <=> signalTs = None

\* A signal compares prices of one night: the reference prices are never older
\* than the capture window before the open window it was computed in.
SignalFresh == signalTs # None =>
    signalTs - capturedAt <= (DayTicks - CaptureFrom) + Window + WaveTicks

\* Every wave of a capture window leaves prices captured that day, whatever
\* date the capture before was filed under.
CapturedWhenDue ==
    (pc = "signal" /\ TimeOfDay(asof) \in CaptureFrom..(CaptureTo - 1)) =>
        Date(capturedAt) = Date(asof)

\* Orders are modified only in the window after midnight ("ACTIVE (00:00-00:15
\* UTC)"), give or take the wave that is under way.
BoostedInWindow == [][boosted' # {} => TimeOfDay(now) < Window + WaveTicks]_boosted

\* "Capture reference prices at 23:45, compute signal at 00:00 UTC": in the
\* open window the prices captured the day before are there to compare with.
CapturedPricesReachWindow ==
    (/\ pc = "signal" /\ TimeOfDay(asof) < Window
     /\ captured # {} /\ Date(capturedAt) = Date(asof) - 1)
    => prices # {}
=============================================================================
