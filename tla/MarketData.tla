------------------------------ MODULE MarketData -------------------------------
(***************************************************************************)
(* The market-data threads of the trader: the poller that appends quotes   *)
(* (lib/trader/trade_quote_poller.py), the aggregator that turns each      *)
(* minute into bars (lib/trader/md_aggregator.py), and run_autotrader,     *)
(* which watches both, replaces them, and resets the vwap trackers.        *)
(*                                                                         *)
(* A killed aggregator goes on until its minute ends, beside the new one.  *)
(* One quote (marked) and the rows of one symbol are followed in detail;   *)
(* of the other quotes only their presence is kept.  The data-frame work,  *)
(* open interest and latency reports are left out.                         *)
(***************************************************************************)
EXTENDS Integers

CONSTANTS Aggregators,   \* objects that may be alive together; the bound is on them
          MaxErrors,     \* the 20 of too_many_errors
          MaxRows        \* bound: rows of the symbol counted in a tracker

ASSUME MarketAssumption == MaxErrors \in Nat /\ MaxRows \in Nat \ {0}

VARIABLES feedUp,    \* the exchange answers and sends quotes
          poller,    \* the poller's thread and socket
          agg,       \* the aggregators' threads and their buffers
          cur,       \* self.aggregator of the trader and of the poller
          marked,    \* where the followed quote is, and whose buffer it went to
          trackers,  \* rows in dollar_tracker and qty_tracker of cur
          trader,    \* where run_autotrader is, and where a restart returns to
          torn,      \* history: the last reset overlapped the adding of a row
          followed   \* bound: a behaviour follows outages, one quote, or the rows

vars == <<feedUp, poller, agg, cur, marked, trackers, trader, torn, followed>>

Working == {"idle", "collect", "qty", "write"}
Stopped == {"dead", "failed"}     \* failed: ended by an exception, dead never set
NewAggregator == [at |-> "idle", kill |-> FALSE, quotes |-> FALSE, last |-> FALSE]
NoAggregator == [NewAggregator EXCEPT !.at = "unborn"]
NewPoller == [at |-> "subscribe", kill |-> FALSE, socket |-> "none", errors |-> 0]
NoRows == [dollars |-> 0, qty |-> 0]

Init == /\ feedUp \in BOOLEAN
        /\ poller = NewPoller
        /\ cur \in Aggregators
        /\ agg = [a \in Aggregators |-> IF a = cur THEN NewAggregator ELSE NoAggregator]
        /\ marked = [at |-> "none", on |-> cur]
        /\ trackers = NoRows /\ torn = FALSE
        /\ trader = [at |-> "book", back |-> "check"]
        /\ followed \in {"outages", "quote", "rows"}
        /\ followed = "outages" \/ feedUp

-----------------------------------------------------------------------------
(* The exchange and the connection.                                         *)

FeedStops == /\ feedUp /\ followed = "outages" /\ feedUp' = FALSE
             /\ \E s \in {"silent", "broken"} :
                  poller' = IF poller.socket = "open" THEN [poller EXCEPT !.socket = s] ELSE poller
             /\ UNCHANGED <<agg, cur, marked, trackers, trader, torn, followed>>

FeedReturns == /\ ~feedUp /\ feedUp' = TRUE
               /\ \E s \in {"silent", "open"} :
                    poller' = IF poller.socket = "silent" THEN [poller EXCEPT !.socket = s] ELSE poller
               /\ UNCHANGED <<agg, cur, marked, trackers, trader, torn, followed>>

SocketBreaks == /\ poller.socket \in {"open", "silent"}
                /\ poller' = [poller EXCEPT !.socket = "broken"]
                /\ UNCHANGED <<feedUp, agg, cur, marked, trackers, trader, torn, followed>>

-----------------------------------------------------------------------------
(* collect_quotes: the poller's thread.                                     *)

Subscribe == /\ poller.at = "subscribe"
             /\ poller' = IF feedUp THEN [poller EXCEPT !.at = "loop", !.socket = "open"]
                          ELSE [poller EXCEPT !.at = "failed"]
             /\ UNCHANGED <<feedUp, agg, cur, marked, trackers, trader, torn, followed>>

EndPolling == /\ poller.at = "loop" /\ poller.kill
              /\ poller' = [poller EXCEPT !.at = "ended", !.socket = "none"]
              /\ UNCHANGED <<feedUp, agg, cur, marked, trackers, trader, torn, followed>>

Receiving == poller.at = "loop" /\ ~poller.kill /\ poller.socket = "open" /\ feedUp

Receive == /\ Receiving
           /\ agg' = [agg EXCEPT ![cur].quotes = TRUE]
           /\ poller' = [poller EXCEPT !.errors = 0]
           /\ UNCHANGED <<feedUp, cur, marked, trackers, trader, torn, followed>>

\* The followed quote, in two steps: add_quote_data takes hold of the list it
\* will append to, then appends.
HoldList == /\ Receiving /\ marked.at = "none" /\ followed = "quote"
            /\ marked' = [at |-> "held", on |-> cur]
            /\ poller' = [poller EXCEPT !.at = "append"]
            /\ UNCHANGED <<feedUp, agg, cur, trackers, trader, torn, followed>>

\* The list may have become last_quotes, and may have been read.
AppendQuote == /\ poller.at = "append"
               /\ poller' = [poller EXCEPT !.at = "loop", !.errors = 0]
               /\ marked' = [marked EXCEPT !.at =
                               IF marked.at = "held" THEN "buffer"
                               ELSE IF agg[marked.on].at = "collect" THEN "taken" ELSE "late"]
               /\ agg' = IF marked.at = "held" THEN [agg EXCEPT ![marked.on].quotes = TRUE]
                         ELSE IF agg[marked.on].at = "collect" THEN [agg EXCEPT ![marked.on].last = TRUE]
                         ELSE agg
               /\ UNCHANGED <<feedUp, cur, trackers, trader, torn, followed>>

\* recv raises at once and the socket is not opened again.  A silent socket
\* times out, which is no error.
ReceiveFails == /\ poller.at = "loop" /\ ~poller.kill /\ poller.socket = "broken"
                /\ poller.errors <= MaxErrors
                /\ poller' = [poller EXCEPT !.errors = @ + 1]
                /\ UNCHANGED <<feedUp, agg, cur, marked, trackers, trader, torn, followed>>

\* The change of universe after midnight raises: nothing catches it.
MidnightFails == /\ poller.at = "loop" /\ ~poller.kill
                 /\ poller' = [poller EXCEPT !.at = "failed", !.socket = "none"]
                 /\ UNCHANGED <<feedUp, agg, cur, marked, trackers, trader, torn, followed>>

Polling == \/ Subscribe \/ EndPolling \/ Receive \/ HoldList \/ AppendQuote
           \/ ReceiveFails \/ MidnightFails

-----------------------------------------------------------------------------
(* run: an aggregator's thread.                                             *)

Swap(a) == /\ agg[a].at = "idle"
           /\ agg' = [agg EXCEPT ![a].at = "collect", ![a].last = agg[a].quotes, ![a].quotes = FALSE]
           /\ marked' = IF marked.on # a THEN marked
                        ELSE [marked EXCEPT !.at = IF @ = "held" THEN "heldOld"
                                                   ELSE IF @ = "buffer" THEN "taken" ELSE @]
           /\ UNCHANGED <<feedUp, poller, cur, trackers, trader, torn, followed>>

\* Mutant of Collect: after a minute without a quote the thread goes on.
CollectContinues(a) == /\ agg[a].at = "collect"
                       /\ agg' = [agg EXCEPT ![a].at = IF agg[a].last THEN "write" ELSE "idle",
                                             ![a].last = FALSE]
                       /\ UNCHANGED <<feedUp, poller, cur, marked, trackers, trader, torn, followed>>

\* A minute without a quote ends the thread.
Collect(a) == /\ agg[a].at = "collect"
              /\ agg' = [agg EXCEPT ![a].at = IF agg[a].last THEN "write" ELSE "dead",
                                     ![a].last = FALSE]
              /\ UNCHANGED <<feedUp, poller, cur, marked, trackers, trader, torn, followed>>

\* The same, in a minute in which the symbol traded: its row adds dollars,
\* then quantity.  One row at most between the two statements of reset_vwap.
CollectRow(a) == /\ agg[a].at = "collect" /\ agg[a].last
                 /\ followed = "rows" /\ a = cur
                 /\ trader.at = "reset" => trackers.dollars = 0
                 /\ trackers.dollars < MaxRows /\ trackers.qty < MaxRows
                 /\ agg' = [agg EXCEPT ![a].at = "qty", ![a].last = FALSE]
                 /\ trackers' = [trackers EXCEPT !.dollars = @ + 1]
                 /\ torn' = (torn \/ trader.at = "reset")
                 /\ UNCHANGED <<feedUp, poller, cur, marked, trader, followed>>

\* Mutants of AddQty: the row's volume is forgotten, or added twice.
AddQtyTwice(a) == /\ agg[a].at = "qty"
                  /\ agg' = [agg EXCEPT ![a].at = "write"]
                  /\ trackers' = [trackers EXCEPT !.qty = @ + 2]
                  /\ UNCHANGED <<feedUp, poller, cur, marked, trader, torn, followed>>
AddNoQty(a) == /\ agg[a].at = "qty"
               /\ agg' = [agg EXCEPT ![a].at = "write"]
               /\ UNCHANGED <<feedUp, poller, cur, marked, trackers, trader, torn, followed>>

AddQty(a) == /\ agg[a].at = "qty"
             /\ agg' = [agg EXCEPT ![a].at = "write"]
             /\ IF a = cur THEN /\ trackers' = [trackers EXCEPT !.qty = @ + 1]
                                /\ torn' = (torn \/ trader.at = "reset")
                ELSE UNCHANGED <<trackers, torn>>
             /\ UNCHANGED <<feedUp, poller, cur, marked, trader, followed>>

\* Mutant of Write: a killed thread ends without its bar.
WriteUnlessKilled(a) ==
    /\ agg[a].at = "write"
    /\ agg' = [agg EXCEPT ![a].at = IF agg[a].kill THEN "dead" ELSE "idle"]
    /\ marked' = IF marked.on = a /\ marked.at = "taken"
                 THEN [marked EXCEPT !.at = IF agg[a].kill THEN "late" ELSE "bar"] ELSE marked
    /\ UNCHANGED <<feedUp, poller, cur, trackers, trader, torn, followed>>

\* The bar of the minute; only now is please_kill_me looked at.
Write(a) ==
    /\ agg[a].at = "write"
    /\ agg' = [agg EXCEPT ![a].at = IF agg[a].kill THEN "dead" ELSE "idle"]
    /\ marked' = IF marked.on = a /\ marked.at = "taken" THEN [marked EXCEPT !.at = "bar"] ELSE marked
    /\ UNCHANGED <<feedUp, poller, cur, trackers, trader, torn, followed>>

\* The funding rates, a malformed trade or the disk raise, but nothing between
\* the two additions of a row: nothing catches it.
Fail(a) == /\ agg[a].at \in Working \ {"qty"}
           /\ agg' = [agg EXCEPT ![a].at = "failed"]
           /\ UNCHANGED <<feedUp, poller, cur, marked, trackers, trader, torn, followed>>

Aggregating(a) == Swap(a) \/ Collect(a) \/ CollectRow(a) \/ AddQty(a) \/ Write(a)

-----------------------------------------------------------------------------
(* run_autotrader.                                                          *)

TooManyErrors == poller.errors > MaxErrors

Restart(back) == /\ agg' = [agg EXCEPT ![cur].kill = TRUE]
                 /\ poller' = [poller EXCEPT !.kill = TRUE]
                 /\ trader' = [at |-> "join", back |-> back]
                 /\ UNCHANGED <<feedUp, cur, marked, trackers, torn, followed>>

Check == /\ trader.at = "check"
         /\ IF agg[cur].at = "dead" \/ TooManyErrors THEN Restart("targets")
            ELSE trader' = [trader EXCEPT !.at = "targets"]
                 /\ UNCHANGED <<feedUp, poller, agg, cur, marked, trackers, torn, followed>>

Join == /\ trader.at = "join" /\ poller.at \in {"ended", "failed"}
        /\ trader' = [trader EXCEPT !.at = "connect"]
        /\ UNCHANGED <<feedUp, poller, agg, cur, marked, trackers, torn, followed>>

Connect == /\ trader.at = "connect"
           /\ \E a \in Aggregators \ {cur} :
                /\ agg[a].at \in Stopped \cup {"unborn"}
                /\ marked' = IF marked.on = a /\ marked.at \in {"buffer", "taken"}
                             THEN [marked EXCEPT !.at = "late"] ELSE marked
                /\ agg' = [b \in Aggregators |-> IF b = a THEN NewAggregator
                                             ELSE IF agg[b].at \in Stopped THEN NoAggregator ELSE agg[b]]
                /\ cur' = a
           /\ poller' = NewPoller
           /\ trackers' = NoRows /\ torn' = FALSE
           /\ trader' = [trader EXCEPT !.at = "book"]
           /\ UNCHANGED <<feedUp, followed>>

\* The universe cannot be loaded: the exception ends the trader.
ConnectFails == /\ trader.at = "connect"
                /\ trader' = [trader EXCEPT !.at = "ended"]
                /\ UNCHANGED <<feedUp, poller, agg, cur, marked, trackers, torn, followed>>

\* wait_for_book: its 30 seconds are enough for a first quote, if one comes.
WaitForBook == /\ trader.at = "book" /\ poller.at \notin {"subscribe", "append"}
               /\ agg[cur].quotes \/ ~Receiving
               /\ trader' = [at |-> trader.back, back |-> "check"]
               /\ UNCHANGED <<feedUp, poller, agg, cur, marked, trackers, torn, followed>>

NoReset == /\ trader.at = "targets"
           /\ trader' = [trader EXCEPT !.at = "wave"]
           /\ UNCHANGED <<feedUp, poller, agg, cur, marked, trackers, torn, followed>>

\* reset_vwap: two statements.
ResetDollars == /\ trader.at = "targets" /\ followed = "rows"
                /\ trackers' = [trackers EXCEPT !.dollars = 0]
                /\ torn' = (agg[cur].at = "qty")
                /\ trader' = [trader EXCEPT !.at = "reset"]
                /\ UNCHANGED <<feedUp, poller, agg, cur, marked, followed>>
ResetQty == /\ trader.at = "reset"
            /\ trackers' = [trackers EXCEPT !.qty = 0]
            /\ torn' = (torn \/ agg[cur].at = "qty")
            /\ trader' = [trader EXCEPT !.at = "wave"]
            /\ UNCHANGED <<feedUp, poller, agg, cur, marked, followed>>

\* The loop that waits for the next wave looks at the aggregator's flag.
RestartInWave == trader.at = "wave" /\ agg[cur].at = "dead" /\ Restart("wave")
EndWave == /\ trader.at = "wave"
           /\ trader' = [trader EXCEPT !.at = "check"]
           /\ UNCHANGED <<feedUp, poller, agg, cur, marked, trackers, torn, followed>>

Trading == \/ Check \/ Join \/ Connect \/ WaitForBook \/ NoReset
           \/ ResetDollars \/ ResetQty \/ RestartInWave \/ EndWave

Next == \/ FeedStops \/ FeedReturns \/ SocketBreaks
        \/ Polling \/ Trading \/ ConnectFails
        \/ \E a \in Aggregators : Aggregating(a) \/ Fail(a)

\* The threads run.  A minute ends once in sixty seconds, and to subscribe and
\* receive a first quote takes far less: not every attempt is cut by the end
\* of a minute.
Fairness == /\ WF_vars(Subscribe) /\ WF_vars(EndPolling) /\ WF_vars(ReceiveFails)
            /\ WF_vars(AppendQuote) /\ WF_vars(Receive)
            /\ SF_vars(Subscribe /\ agg[cur].at = "idle")
            /\ SF_vars(Receive /\ agg[cur].at = "idle")
            /\ WF_vars(Trading)
            /\ \A a \in Aggregators : WF_vars(Aggregating(a))
Spec == Init /\ [][Next]_vars /\ Fairness

-----------------------------------------------------------------------------
TypeOK == /\ feedUp \in BOOLEAN /\ torn \in BOOLEAN /\ followed \in {"outages", "quote", "rows"}
          /\ poller \in [at : {"subscribe", "loop", "append", "ended", "failed"}, kill : BOOLEAN,
                         socket : {"none", "open", "silent", "broken"},
                         errors : 0..(MaxErrors + 1)]
          /\ cur \in Aggregators
          /\ agg \in [Aggregators -> [at : Working \cup Stopped \cup {"unborn"}, kill : BOOLEAN,
                                      quotes : BOOLEAN, last : BOOLEAN]]
          /\ marked \in [at : {"none", "held", "heldOld", "buffer", "taken", "bar", "late"},
                         on : Aggregators]
          /\ trackers \in [dollars : 0..MaxRows, qty : 0..MaxRows]
          /\ trader \in [at : {"check", "join", "connect", "book", "targets", "reset", "wave", "ended"},
                         back : {"check", "targets", "wave"}]

\* dollar_tracker and qty_tracker, which vwap divides, hold the same rows:
\* exactly, but for the row being added, unless the last reset overlapped the
\* adding of a row; then they differ by that one row until the next reset.
VwapWhole == trader.at # "reset" =>
    LET adding == IF agg[cur].at = "qty" THEN 1 ELSE 0
    IN trackers.dollars - adding - trackers.qty \in (IF torn THEN -1..1 ELSE {0})

\* A quote in the buffer of an aggregator that waits for its minute to end
\* reaches a bar, even if the aggregator is killed before; only an exception
\* in its thread loses it.
QuoteReachesBar ==
    (marked.at = "buffer" /\ agg[marked.on].at = "idle")
        ~> (marked.at = "bar" \/ agg[marked.on].at = "failed")

\* An aggregator told to end does so: no second writer of bars stays behind.
KilledAggregatorsEnd == \A a \in Aggregators : agg[a].kill ~> agg[a].at \in Stopped \cup {"unborn"}

\* Whatever befalls the socket, the subscription, the poller's thread or a
\* minute without quotes, once the feed is there for good quotes flow again.
\* It needs that no aggregator ends by an exception, which nobody notices,
\* and that the trader is not ended by one.
QuotesComeBack ==
    <>[]feedUp /\ [](\A a \in Aggregators : agg[a].at # "failed") /\ [](trader.at # "ended")
        => []<>(agg[cur].quotes /\ agg[cur].at \in Working)
===============================================================================
