------------------------------ MODULE Simulation -------------------------------
(***************************************************************************)
(* The back-test of one symbol: the loop of lib/sim/simulate.py (Simulate) *)
(* executes the trade desired in the last time slice and asks the          *)
(* optimizer for the next one, keeping quantity, cash and pnl of its own;  *)
(* the fills and funding payments it records are accounted a second time,  *)
(* first in first out, by the calculator of lib/pnl, whose result is what  *)
(* is saved.  The calculator reads fills in time order, so it follows the  *)
(* loop slice by slice here; in the code it runs when the loop has ended.  *)
(*                                                                         *)
(* Quantities, prices, dollars and times are whole numbers, a quotient is  *)
(* rounded towards zero; price 0 stands for no price.                      *)
(***************************************************************************)
EXTENDS FifoPnl

CONSTANTS Prices, Limits,     \* prices above 0; what volume lets trade in a slice
          OpenQtys,           \* quantities of the initial position
          TargetDollars,      \* positions the optimizer asks for
          MaxTrade, MinTrade, MinPosition, Dust, Suspicious,   \* dollars
          Fee, Slip, Sky,     \* fee per dollar, slippage, price of a forced liquidation
          LastSlice, SliceTime,   \* number of the last slice, time of every slice
          Hour, DayLength         \* in the unit of the times

ASSUME SimAssumption ==
    /\ Prices \subseteq Nat \ {0} /\ Limits \subseteq Nat
    /\ OpenQtys \subseteq Int /\ TargetDollars \subseteq Int
    /\ MaxTrade \in Nat /\ MinTrade \in Nat /\ MinPosition \in Nat
    /\ Dust \in Nat /\ Suspicious \in Nat
    /\ Fee \in Nat /\ Slip \in Nat /\ Sky \in Nat
    /\ LastSlice \in Nat /\ SliceTime \in [0..LastSlice -> Nat]
    /\ \A i, j \in 0..LastSlice : i < j => SliceTime[i] < SliceTime[j]
    /\ Hour \in Nat \ {0} /\ DayLength \in Nat \ {0}

VARIABLES pc,          \* "slice", "match", "record", "targets" or "dead"
          now,         \* number of the slice
          qty, position, money, pnl,   \* columns qty, position, cash, pnl
          close,       \* close_mid, the one before carried forward
          priced,      \* the slice had a price of its own
          desired,     \* desired_trade_dollars and desired_trade_qty
          executed,    \* executed_qty and executed_dollars of the slice
          positionTs,  \* position_ts
          mark,        \* mark_price of the calculator's last record
          owed,        \* recorded in fundings_dfs, not yet read by the calculator
          daily,       \* total_pnl_cumulative, total_pnl_daily of its last record
          dropped,     \* history: quantity the loop forgot
          openedAt,    \* history: slice the present position was opened in
          opening      \* history: how the run was opened

simVars == <<qty, position, money, pnl, close, priced, desired, executed, positionTs>>
recVars == <<mark, owed, daily>>
historyVars == <<dropped, openedAt, opening>>
vars == <<pc, now, simVars, fifoVars, recVars, historyVars>>

Never == -1
NoTrade == [dollars |-> 0, qty |-> 0]
Size(n) == IF n < 0 THEN -n ELSE n
Lesser(a, b) == IF a < b THEN a ELSE b
Clip(n, bound) == IF n > bound THEN bound ELSE IF n < -bound THEN -bound ELSE n
Quotient(a, b) == IF b = 0 THEN 0
                  ELSE IF (a < 0) = (b < 0) THEN Size(a) \div Size(b) ELSE -(Size(a) \div Size(b))
Date(slice) == SliceTime[slice] \div DayLength
FloorHour(t) == IF t = Never THEN Never ELSE Hour * (t \div Hour)
Epoch(t) == IF t = Never THEN 0 ELSE t

\* The first slice trades nothing.  The initial position is valued at the
\* begin-of-day price; its cost basis may be older.  The loop has it only if
\* the first slice has a row of the symbol.
Init == \E q \in OpenQtys, bod \in Prices, cost \in Prices, c \in Prices \cup {0},
           listed, loaded, first \in BOOLEAN, at \in {"vwap", "open"} :
    LET kept == IF listed THEN q ELSE 0
    IN /\ q # 0 => loaded
       /\ ~listed => c = 0
       /\ pc = "targets" /\ now = 0
       /\ qty = kept /\ position = kept * bod /\ money = -(kept * bod) /\ pnl = 0
       /\ close = c /\ priced = (c # 0)
       /\ desired = NoTrade /\ executed = NoTrade
       /\ positionTs = IF kept # 0 THEN SliceTime[0] ELSE Never
       /\ inventory = InventoryOf(q, cost) /\ fill = NoFill /\ remaining = 0
       /\ realized = 0 /\ feesPaid = 0 /\ fundingPaid = 0
       /\ mark = 0 /\ owed = 0
       /\ daily = [date |-> Never, at |-> Never, total |-> 0, today |-> 0, before |-> 0,
                   blank |-> FALSE]
       /\ dropped = q - kept /\ openedAt = IF kept # 0 THEN 0 ELSE Never
       /\ opening = [gain |-> kept * bod - q * cost, initialized |-> loaded,
                     firstOfMonth |-> first, price |-> at, skipped |-> 0]

-----------------------------------------------------------------------------
(* Execution of the trade desired in the last slice.                        *)

\* expanding_previous is overwritten with the column of the new slice, which
\* is zero: the second way to trade is never taken.
ExpandingPrevious == 0
Trades(vwap) == /\ \/ Size(desired.dollars) >= MinTrade
                   \/ Size(position) <= MinTrade /\ ExpandingPrevious < 0
                /\ vwap > 0

\* sim_execution_price: the volume-weighted price of the slice, or the close
\* before it.
TradePrice(n, vwap) ==
    LET base == IF opening.price = "open" THEN close ELSE vwap
    IN IF n = 0 THEN 0 ELSE IF n > 0 THEN base + Slip ELSE base - Slip

\* Mutant of Execution: a dead position is left alone.
ExecutionKeepsDead(dead, sky, vwap, limit) ==
    LET n == IF Trades(vwap) THEN Clip(desired.qty, limit) ELSE 0
    IN IF sky /\ qty < 0 /\ close # 0 THEN [qty |-> -qty, px |-> close + Sky]
       ELSE [qty |-> n, px |-> TradePrice(n, vwap)]

\* The price that skyrocketed did so from a price: no return over a missing
\* close compares.
Execution(dead, sky, vwap, limit) ==
    LET n == IF Trades(vwap) THEN Clip(desired.qty, limit) ELSE 0
    IN IF dead /\ position # 0 THEN [qty |-> -qty, px |-> close]
       ELSE IF sky /\ qty < 0 /\ close # 0 THEN [qty |-> -qty, px |-> close + Sky]
       ELSE [qty |-> n, px |-> TradePrice(n, vwap)]

\* Mutant of PositionTs: a turn keeps the old time.
PositionTsKept(before, traded, executedTs) ==
    LET after == before + traded
    IN FloorHour(IF before = 0 /\ after = 0 THEN Never
                 ELSE IF traded = 0 \/ Size(after) < Size(before) THEN positionTs
                 ELSE IF before = 0 \/ after = 0 THEN executedTs ELSE positionTs)

\* _calculate_position_age, before the dust is swept: the time itself, and
\* its hour.
TimeOfPosition(before, traded, executedTs) ==
    LET after == before + traded
    IN IF before = 0 /\ after = 0 THEN Never
       ELSE IF before * after < 0 \/ after = 0 THEN executedTs
       ELSE IF traded = 0 \/ Size(after) < Size(before) THEN positionTs
       ELSE (Size(before) * Epoch(positionTs) + Size(traded) * Epoch(executedTs)) \div Size(after)

PositionTs(before, traded, executedTs) == FloorHour(TimeOfPosition(before, traded, executedTs))

\* Funding is paid on the quantity held when it falls due.
Funding(rate, part, traded, vwap) == -(rate * (qty + traded * part) * vwap)

IsDust(n, px) == Size(n * px) < Dust

Execute(listed, c, vwap, limit, sky, rate, part, otherFill) ==
    LET dead == c = 0
        px == IF dead THEN close ELSE c
        e == Execution(dead, sky, vwap, limit)
        dollars == e.qty * e.px
        after == qty + e.qty
        income == Funding(rate, part, e.qty, vwap)
        kept == IF IsDust(after, px) THEN 0 ELSE after
    IN /\ pc = "slice" /\ ~(px = 0 /\ qty # 0)
       /\ priced' = ~dead /\ close' = px
       /\ executed' = [qty |-> e.qty, dollars |-> dollars]
       /\ qty' = kept /\ position' = kept * px
       /\ money' = money - dollars - Size(dollars) * Fee + income
       /\ pnl' = position' + money'
       /\ positionTs' = PositionTs(qty, e.qty, IF listed THEN SliceTime[now] ELSE Never)
       /\ IF e.qty = 0 THEN UNCHANGED <<inventory, fill, remaining, realized, feesPaid>>
          ELSE StartFill([side |-> IF e.qty > 0 THEN "B" ELSE "S", px |-> e.px, qty |-> Size(e.qty)],
                         Size(dollars) * Fee)
       /\ owed' = owed + income
       /\ pc' = IF e.qty # 0 \/ otherFill THEN "match" ELSE "targets"
       /\ dropped' = dropped + (after - kept)
       /\ openedAt' = IF kept = 0 THEN Never ELSE IF qty * kept <= 0 THEN now ELSE openedAt
       /\ UNCHANGED <<now, desired, fundingPaid, mark, daily, opening>>

\* A position that never had a price ends the run.
BadPrices == /\ pc = "slice" /\ close = 0 /\ qty # 0
             /\ pc' = "dead"
             /\ UNCHANGED <<now, simVars, fifoVars, recVars, historyVars>>

\* The price of a row is that of a moment, its volume-weighted price that of
\* a window, or of a later one: either may be there without the other.  A
\* symbol that has no row keeps what it had.
Slice == /\ pc = "slice"
         /\ \/ \E c, vwap \in Prices \cup {0}, limit \in Limits,
                 sky, otherFill \in BOOLEAN, rate \in {0, 1}, part \in {0, 1} :
                 Execute(TRUE, c, vwap, limit, sky, rate, part, otherFill)
            \/ \E otherFill \in BOOLEAN : Execute(FALSE, 0, 0, 0, FALSE, 0, 0, otherFill)

-----------------------------------------------------------------------------
(* The calculator.                                                          *)

Match == pc = "match" /\ MatchFill /\ UNCHANGED <<pc, now, simVars, recVars, historyVars>>

\* A symbol without a price keeps the mark of its last record; the
\* calculator has bars of its own, which may have one, and after the last of
\* them the price of its fill stands in.
Marks == IF priced THEN {close}
         ELSE {mark} \cup Prices
              \cup IF executed.qty = 0 THEN {} ELSE {Quotient(executed.dollars, executed.qty)}

FirstRecord == daily.date = Never
Skipped(m) == IF FirstRecord /\ opening.firstOfMonth THEN Unrealized(m) ELSE 0

\* Lots without any price yet have no value: such a record holds no number.
Valueless(m) == m = 0 /\ Net # 0

\* Mutant of Record: the first difference of every date is taken from zero.
RecordFromZero(m) ==
    LET total == realized + Unrealized(m) - feesPaid + fundingPaid + owed
        newDate == Date(now) # daily.date
        gained == total - (IF FirstRecord THEN Skipped(m) ELSE IF newDate THEN 0 ELSE daily.total)
    IN daily' = [date |-> Date(now), at |-> now, total |-> total,
                 today |-> gained + IF newDate THEN 0 ELSE daily.today,
                 before |-> daily.before + IF newDate THEN daily.today ELSE 0,
                 blank |-> daily.blank \/ Valueless(m)]

\* One record per slice in which any symbol had a fill: what the cumulative
\* columns gained since the last record is summed per date.
Record(m) ==
    LET total == realized + Unrealized(m) - feesPaid + fundingPaid + owed
        gained == total - (IF FirstRecord THEN Skipped(m) ELSE daily.total)
        newDate == Date(now) # daily.date
    IN daily' = [date |-> Date(now), at |-> now, total |-> total,
                 today |-> gained + IF newDate THEN 0 ELSE daily.today,
                 before |-> daily.before + IF newDate THEN daily.today ELSE 0,
                 blank |-> daily.blank \/ Valueless(m)]

Account == /\ pc = "match" /\ ~Matching
           /\ \E m \in Marks : Record(m) /\ mark' = m
                              /\ opening' = [opening EXCEPT !.skipped = @ + Skipped(m)]
           /\ fundingPaid' = fundingPaid + owed /\ owed' = 0
           /\ pc' = "targets"
           /\ UNCHANGED <<now, simVars, inventory, fill, remaining, realized, feesPaid,
                          dropped, openedAt>>

-----------------------------------------------------------------------------
(* The optimizer and the targets of the next slice.                         *)

\* optimize: a solution at one of the levels of loosened constraints, or
\* none.  The limits that look at the rest of the portfolio may cut a target.
Cut(t) == {t, Quotient(t, 2)}

SmallTarget(t) == IF Size(t) < MinPosition THEN 0
                  ELSE IF Size(t - position) < MinTrade THEN position ELSE t

Targets == {SmallTarget(c) : c \in UNION {Cut(position + Clip(t - position, MaxTrade)) :
                                           t \in TargetDollars}}

DesiredAfterFailure == desired.dollars - executed.dollars

GenerateTargets ==
    /\ pc = "targets"
    /\ \/ \E target \in UNION {Cut(t) : t \in Targets} :
            desired' = [dollars |-> target - position, qty |-> Quotient(target - position, close)]
       \/ desired' = [dollars |-> DesiredAfterFailure, qty |-> Quotient(DesiredAfterFailure, close)]
    /\ IF Size(position) > Suspicious /\ ~opening.initialized   \* _record_pnl
       THEN pc' = "dead" /\ now' = now
       ELSE pc' = "slice" /\ now' = now + 1
    /\ now < LastSlice
    /\ UNCHANGED <<qty, position, money, pnl, close, priced, executed, positionTs,
                   fifoVars, recVars, historyVars>>

Next == Slice \/ BadPrices \/ Match \/ Account \/ GenerateTargets
Spec == Init /\ [][Next]_vars

-----------------------------------------------------------------------------
TypeOK == /\ pc \in {"slice", "match", "targets", "dead"}
          /\ now \in 0..LastSlice
          /\ qty \in Int /\ position \in Int /\ money \in Int /\ pnl \in Int
          /\ close \in Nat /\ priced \in BOOLEAN
          /\ desired \in [dollars : Int, qty : Int] /\ executed \in [dollars : Int, qty : Int]
          /\ positionTs \in {Never} \cup Nat
          /\ inventory \in [Sides -> Seq(Lots)] /\ fill \in Fills /\ remaining \in Nat
          /\ realized \in Int /\ feesPaid \in Int /\ fundingPaid \in Int
          /\ mark \in Int /\ owed \in Int
          /\ daily \in [date : {Never} \cup Nat, at : {Never} \cup Nat, total : Int,
                        today : Int, before : Int, blank : BOOLEAN]
          /\ dropped \in Int /\ openedAt \in {Never} \cup 0..LastSlice
          /\ opening \in [gain : Int, initialized : BOOLEAN, firstOfMonth : BOOLEAN,
                          price : {"vwap", "open"}, skipped : Int]

\* The two ledgers of one run agree.  After every record, of a fill of this
\* symbol or of another, the calculator's total is the pnl of the loop, but
\* for what the loop forgot: the dust it zeroed and the initial position it
\* has no row for, both without a fill, and the gain of the initial position,
\* which the loop starts from its present value and the calculator from its
\* cost.  Without a price in the slice the calculator marks at its own.
LedgersAgree ==
    pc = "targets" /\ daily.at = now /\ ~Valueless(mark) =>
        /\ Net = qty + dropped
        /\ daily.total = pnl + opening.gain + dropped * mark
                         + (IF priced THEN 0 ELSE (mark - close) * qty)

\* A position whose symbol has no price is closed in the slice that finds it
\* so, at the price carried forward: after the slice there is none, or one
\* opened by the slice itself, for a flat symbol still trades.
DeadPositionsClosed ==
    pc \in {"match", "targets"} /\ now > 0 /\ ~priced => qty = 0 \/ openedAt = now

\* The age of a position is that of the position: its time is never before
\* the hour it was opened (or turned) in, whatever was added or taken off,
\* never in the future, and a position always has one.  Old positions are
\* charged a multiple of their risk.
AgeOfThePosition ==
    qty # 0 => positionTs \in FloorHour(SliceTime[openedAt])..SliceTime[now]

\* The daily results add up to the cumulative one, whatever dates had no
\* record, unless a record held no number; a run begun on the first of a
\* month leaves out, on purpose, what the first record has not realized.
DailyAddsUp ==
    ~daily.blank => daily.before + daily.today + opening.skipped = daily.total

\* The calculator keeps an account: the turns of its loop move no money, and
\* quantity and money change by a whole fill at one price, or by an income.
account == INSTANCE Account WITH
             Prices <- {p + d : p \in Prices, d \in {-Slip, 0, Slip, Sky}},
             held <- Held, cash <- Paid, income <- fundingPaid
KeepsAccount == account!Spec
===============================================================================
