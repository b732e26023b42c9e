--------------------------- MODULE MarketData_proofs ----------------------------
(***************************************************************************)
(* Theorems about MarketData, for every number of aggregators alive        *)
(* together, of errors tolerated and of rows counted.  What flows again    *)
(* and what reaches a bar is liveness and stays with TLC.                  *)
(***************************************************************************)
EXTENDS MarketData, TLAPS

LEMMA BoundsAreInts == MaxErrors \in Int /\ MaxRows \in Int /\ 0 <= MaxErrors /\ 0 < MaxRows
  BY MarketAssumption

Ats == Working \cup Stopped \cup {"unborn"}
LEMMA AtsAre == /\ Working \subseteq Ats /\ Stopped \subseteq Ats /\ "unborn" \in Ats
                /\ {"idle", "collect", "qty", "write", "dead", "failed"} \subseteq Ats
  BY DEF Ats, Working, Stopped
Aggregator == [at : Ats, kill : BOOLEAN, quotes : BOOLEAN, last : BOOLEAN]
Poller == [at : {"subscribe", "loop", "append", "ended", "failed"}, kill : BOOLEAN,
           socket : {"none", "open", "silent", "broken"}, errors : 0..(MaxErrors + 1)]
Trader == [at : {"check", "join", "connect", "book", "targets", "reset", "wave", "ended"},
           back : {"check", "targets", "wave"}]

AggTyped == cur \in Aggregators /\ agg \in [Aggregators -> Aggregator]
MarkedTyped == marked \in [at : {"none", "held", "heldOld", "buffer", "taken", "bar", "late"},
                           on : Aggregators]
TrackersTyped == trackers \in [dollars : 0..MaxRows, qty : 0..MaxRows]
FlagsTyped == feedUp \in BOOLEAN /\ torn \in BOOLEAN /\ followed \in {"outages", "quote", "rows"}

LEMMA TypeParts == TypeOK <=> /\ AggTyped /\ MarkedTyped /\ TrackersTyped /\ FlagsTyped
                              /\ poller \in Poller /\ trader \in Trader
  BY DEF TypeOK, AggTyped, MarkedTyped, TrackersTyped, FlagsTyped, Poller, Trader, Aggregator, Ats

LEMMA TypePartsNext ==
    ASSUME AggTyped', MarkedTyped', TrackersTyped', FlagsTyped', poller' \in Poller, trader' \in Trader
    PROVE  TypeOK'
  BY DEF TypeOK, AggTyped, MarkedTyped, TrackersTyped, FlagsTyped, Poller, Trader, Aggregator, Ats

LEMMA InitTypes == Init => TypeOK
<1> SUFFICES ASSUME Init PROVE TypeOK
    OBVIOUS
<1>1. AggTyped
      BY AtsAre DEF Init, AggTyped, Aggregator, NewAggregator, NoAggregator
<1>2. MarkedTyped
      BY DEF Init, MarkedTyped
<1>3. TrackersTyped
      BY BoundsAreInts DEF Init, TrackersTyped, NoRows
<1>4. FlagsTyped
      BY DEF Init, FlagsTyped
<1>5. poller \in Poller
      BY BoundsAreInts DEF Init, Poller, NewPoller
<1>6. trader \in Trader
      BY DEF Init, Trader
<1> QED
    BY <1>1, <1>2, <1>3, <1>4, <1>5, <1>6, TypeParts

-----------------------------------------------------------------------------
(* The threads' own steps.                                                 *)

(* The exchange, the socket and the poller's thread touch the poller, the  *)
(* followed quote and the flags of one aggregator's buffers.               *)
Environment == FeedStops \/ FeedReturns \/ SocketBreaks
LEMMA PollingKeeps == TypeOK /\ (Environment \/ Polling)
                         => /\ AggTyped' /\ MarkedTyped' /\ FlagsTyped' /\ poller' \in Poller
                            /\ UNCHANGED <<cur, trackers, trader, torn>>
                            /\ \A a \in Aggregators : agg'[a].at = agg[a].at
<1> SUFFICES ASSUME TypeOK, Environment \/ Polling
             PROVE  /\ AggTyped' /\ MarkedTyped' /\ FlagsTyped' /\ poller' \in Poller
                    /\ UNCHANGED <<cur, trackers, trader, torn>>
                    /\ \A a \in Aggregators : agg'[a].at = agg[a].at
    OBVIOUS
<1>0. AggTyped /\ MarkedTyped /\ FlagsTyped /\ poller \in Poller
      BY TypeParts
<1>1. CASE FeedStops
      BY <1>0, <1>1 DEF FeedStops, AggTyped, MarkedTyped, FlagsTyped, Poller
<1>2. CASE FeedReturns
      BY <1>0, <1>2 DEF FeedReturns, AggTyped, MarkedTyped, FlagsTyped, Poller
<1>3. CASE SocketBreaks
      BY <1>0, <1>3 DEF SocketBreaks, AggTyped, MarkedTyped, FlagsTyped, Poller
<1>4. CASE Subscribe
      BY <1>0, <1>4 DEF Subscribe, AggTyped, MarkedTyped, FlagsTyped, Poller
<1>5. CASE EndPolling
      BY <1>0, <1>5 DEF EndPolling, AggTyped, MarkedTyped, FlagsTyped, Poller
<1>6. CASE Receive
  <2>1. poller' \in Poller
        BY <1>0, <1>6, BoundsAreInts DEF Receive, Poller
  <2>2. AggTyped' /\ \A a \in Aggregators : agg'[a].at = agg[a].at
        BY <1>0, <1>6 DEF Receive, AggTyped, Aggregator
  <2> QED
        BY <1>0, <1>6, <2>1, <2>2 DEF Receive, MarkedTyped, FlagsTyped
<1>7. CASE HoldList
      BY <1>0, <1>7 DEF HoldList, AggTyped, MarkedTyped, FlagsTyped, Poller
<1>8. CASE AppendQuote
  <2>1. poller' \in Poller
    <3> DEFINE p == [poller EXCEPT !.at = "loop"]
    <3>1. p \in Poller
          BY <1>0 DEF Poller
    <3>2. poller' = [p EXCEPT !.errors = 0]
          BY <1>8 DEF AppendQuote
    <3> HIDE DEF p
    <3> QED
          BY <3>1, <3>2, BoundsAreInts DEF Poller
  <2>2. MarkedTyped'
        BY <1>0, <1>8 DEF AppendQuote, MarkedTyped, AggTyped
  <2>3. marked.on \in Aggregators
        BY <1>0 DEF MarkedTyped
  <2>5. cur' = cur
        BY <1>8 DEF AppendQuote
  <2>4. AggTyped' /\ \A a \in Aggregators : agg'[a].at = agg[a].at
    <3>1. CASE agg' = [agg EXCEPT ![marked.on].quotes = TRUE]
          BY <1>0, <2>3, <2>5, <3>1 DEF AggTyped, Aggregator
    <3>2. CASE agg' = [agg EXCEPT ![marked.on].last = TRUE]
          BY <1>0, <2>3, <2>5, <3>2 DEF AggTyped, Aggregator
    <3>3. CASE agg' = agg
          BY <1>0, <2>5, <3>3 DEF AggTyped
    <3> QED
          BY <1>8, <3>1, <3>2, <3>3 DEF AppendQuote
  <2> QED
        BY <1>0, <1>8, <2>1, <2>2, <2>4 DEF AppendQuote, FlagsTyped
<1>9. CASE ReceiveFails
      BY <1>0, <1>9, BoundsAreInts DEF ReceiveFails, AggTyped, MarkedTyped, FlagsTyped, Poller
<1>10. CASE MidnightFails
      BY <1>0, <1>10 DEF MidnightFails, AggTyped, MarkedTyped, FlagsTyped, Poller
<1> QED
    BY <1>1, <1>2, <1>3, <1>4, <1>5, <1>6, <1>7, <1>8, <1>9, <1>10 DEF Environment, Polling
(* The fields of an aggregator, one at a time.                             *)
LEMMA Fields ==
    ASSUME NEW r \in Aggregator, NEW t \in Ats, NEW b \in BOOLEAN
    PROVE  /\ [r EXCEPT !.at = t] \in Aggregator /\ [r EXCEPT !.kill = b] \in Aggregator
           /\ [r EXCEPT !.quotes = b] \in Aggregator /\ [r EXCEPT !.last = b] \in Aggregator
  BY DEF Aggregator

LEMMA OneAggregator ==
    ASSUME NEW f \in [Aggregators -> Aggregator], NEW a \in Aggregators, NEW r \in Aggregator
    PROVE  [f EXCEPT ![a] = r] \in [Aggregators -> Aggregator]
  OBVIOUS

LEMMA Changed ==
    ASSUME AggTyped, NEW a \in Aggregators, NEW t \in Ats, NEW b \in BOOLEAN, NEW c \in BOOLEAN
    PROVE  /\ [agg EXCEPT ![a].at = t] \in [Aggregators -> Aggregator]
           /\ [agg EXCEPT ![a].at = t, ![a].last = b] \in [Aggregators -> Aggregator]
           /\ [agg EXCEPT ![a].at = t, ![a].last = b, ![a].quotes = c] \in [Aggregators -> Aggregator]
           /\ [agg EXCEPT ![a].kill = b] \in [Aggregators -> Aggregator]
<1>1. [agg EXCEPT ![a].at = t] \in [Aggregators -> Aggregator]
      BY Fields, OneAggregator DEF AggTyped
<1>2. [agg EXCEPT ![a].at = t, ![a].last = b] \in [Aggregators -> Aggregator]
      BY <1>1, Fields, OneAggregator
<1>3. [agg EXCEPT ![a].at = t, ![a].last = b, ![a].quotes = c] \in [Aggregators -> Aggregator]
      BY <1>2, Fields, OneAggregator
<1>4. [agg EXCEPT ![a].kill = b] \in [Aggregators -> Aggregator]
      BY Fields, OneAggregator DEF AggTyped
<1> QED
    BY <1>1, <1>2, <1>3, <1>4

-----------------------------------------------------------------------------
(* Why the trackers hold the same rows: a row adds to both, and between    *)
(* the statements of a reset at most one row does.                         *)
RowsInv == /\ agg[cur].at = "qty" => trackers.qty < MaxRows
           /\ VwapWhole
           /\ trader.at = "reset" => /\ trackers.dollars \in 0..1
                                     /\ ~torn => trackers.dollars = 0 /\ agg[cur].at # "qty"

LEMMA InitRows == Init => RowsInv
  BY BoundsAreInts DEF Init, RowsInv, VwapWhole, NoRows, NewAggregator

(* A step that leaves the trackers and what the aggregator does as they    *)
(* were, and is no reset, changes nothing here.                            *)
LEMMA RowsUntouched ==
    ASSUME RowsInv, UNCHANGED <<trackers, torn>>,
           (agg[cur].at = "qty") <=> (agg[cur].at = "qty")',
           (trader.at = "reset") <=> (trader.at = "reset")'
    PROVE  RowsInv'
  BY DEF RowsInv, VwapWhole

(* An aggregator's step moves only its own thread.                         *)
LEMMA AggregatingStep ==
    ASSUME TypeOK, RowsInv, NEW a \in Aggregators, Aggregating(a) \/ Fail(a)
    PROVE  TypeOK' /\ RowsInv'
<1>0. AggTyped /\ MarkedTyped /\ TrackersTyped /\ FlagsTyped /\ poller \in Poller /\ trader \in Trader
      BY TypeParts
<1>1. agg \in [Aggregators -> Aggregator] /\ cur \in Aggregators /\ agg[a] \in Aggregator
      BY <1>0 DEF AggTyped
<1>2. agg[a].last \in BOOLEAN /\ agg[a].quotes \in BOOLEAN
      BY <1>1 DEF Aggregator
<1>3. cur' = cur /\ trader' = trader /\ UNCHANGED <<feedUp, poller, followed>>
      BY DEF Aggregating, Swap, Collect, CollectRow, AddQty, Write, Fail
<1>4. trackers.dollars \in Int /\ trackers.qty \in Int
      BY <1>0, BoundsAreInts DEF TrackersTyped
<1>5. CASE Swap(a)
  <2>1. AggTyped'
        BY <1>0, <1>1, <1>2, <1>3, <1>5, Changed, AtsAre DEF Swap, AggTyped
  <2>2. MarkedTyped'
        BY <1>0, <1>5 DEF Swap, MarkedTyped
  <2>3. (agg[cur].at = "qty") <=> (agg[cur].at = "qty")'
        BY <1>1, <1>3, <1>5 DEF Swap
  <2>4. UNCHANGED <<trackers, torn>>
        BY <1>5 DEF Swap
  <2> QED
        BY <1>0, <1>3, <2>1, <2>2, <2>3, <2>4, TypePartsNext, RowsUntouched DEF TrackersTyped, FlagsTyped
<1>6. CASE Collect(a)
  <2>1. AggTyped'
        BY <1>0, <1>1, <1>3, <1>6, Changed, AtsAre DEF Collect, AggTyped
  <2>3. (agg[cur].at = "qty") <=> (agg[cur].at = "qty")'
        BY <1>1, <1>3, <1>6 DEF Collect
  <2>4. UNCHANGED <<marked, trackers, torn>>
        BY <1>6 DEF Collect
  <2> QED
        BY <1>0, <1>3, <2>1, <2>3, <2>4, TypePartsNext, RowsUntouched DEF MarkedTyped, TrackersTyped, FlagsTyped
<1>7. CASE CollectRow(a)
  <2>1. AggTyped'
        BY <1>0, <1>1, <1>3, <1>7, Changed, AtsAre DEF CollectRow, AggTyped
  <2>2. /\ a = cur /\ agg[a].at = "collect" /\ marked' = marked
        /\ trackers.dollars < MaxRows /\ trackers.qty < MaxRows
        /\ trader.at = "reset" => trackers.dollars = 0
        /\ trackers' = [trackers EXCEPT !.dollars = @ + 1]
        /\ torn' = (torn \/ trader.at = "reset")
        BY <1>7 DEF CollectRow
  <2>3. (agg[cur].at)' = "qty"
        BY <1>1, <1>3, <1>7 DEF CollectRow, Aggregator
  <2>4. TrackersTyped' /\ trackers'.dollars = trackers.dollars + 1 /\ trackers'.qty = trackers.qty
        BY <1>0, <2>2, BoundsAreInts DEF TrackersTyped
  <2>5. torn' \in BOOLEAN
        BY <1>0, <2>2 DEF FlagsTyped
  <2>6. RowsInv'
    <3>1. trackers.dollars - 0 - trackers.qty \in (IF torn THEN -1..1 ELSE {0}) \/ trader.at = "reset"
          BY <2>2 DEF RowsInv, VwapWhole
    <3>2. CASE trader.at = "reset"
      <4>1. torn'
            BY <2>2, <3>2
      <4>2. trackers'.dollars = 1
            BY <1>4, <2>2, <2>4, <3>2
      <4> QED
            BY <1>3, <2>2, <2>4, <3>2, <4>1, <4>2 DEF RowsInv, VwapWhole
    <3>3. CASE trader.at # "reset"
      <4>1. torn' <=> torn
            BY <2>2, <3>3
      <4> QED
            BY <1>3, <1>4, <2>2, <2>3, <2>4, <3>1, <3>3, <4>1 DEF RowsInv, VwapWhole
    <3> QED
          BY <3>2, <3>3
  <2> QED
        BY <1>0, <1>3, <2>1, <2>2, <2>4, <2>5, <2>6, TypePartsNext DEF MarkedTyped, FlagsTyped
<1>8. CASE AddQty(a)
  <2>1. AggTyped'
        BY <1>0, <1>1, <1>3, <1>8, Changed, AtsAre DEF AddQty, AggTyped
  <2>2. /\ agg[a].at = "qty" /\ marked' = marked
        /\ IF a = cur THEN /\ trackers' = [trackers EXCEPT !.qty = @ + 1]
                           /\ torn' = (torn \/ trader.at = "reset")
           ELSE UNCHANGED <<trackers, torn>>
        BY <1>8 DEF AddQty
  <2>3. agg' = [agg EXCEPT ![a].at = "write"]
        BY <1>8 DEF AddQty
  <2>4. CASE a # cur
    <3>1. agg'[cur] = agg[cur]
          BY <1>1, <2>3, <2>4
    <3>2. UNCHANGED <<trackers, torn>>
          BY <2>2, <2>4
    <3> QED
          BY <1>0, <1>3, <2>1, <2>2, <3>1, <3>2, TypePartsNext, RowsUntouched DEF MarkedTyped, TrackersTyped, FlagsTyped
  <2>5. CASE a = cur
    <3>1. (agg[cur].at)' = "write"
          BY <1>1, <1>3, <2>3, <2>5 DEF Aggregator
    <3>2. trackers.qty < MaxRows
          BY <2>2, <2>5 DEF RowsInv
    <3>3. TrackersTyped' /\ trackers'.dollars = trackers.dollars /\ trackers'.qty = trackers.qty + 1
          BY <1>0, <2>2, <2>5, <3>2, BoundsAreInts DEF TrackersTyped
    <3>4. torn' = (torn \/ trader.at = "reset") /\ torn' \in BOOLEAN
          BY <1>0, <2>2, <2>5 DEF FlagsTyped
    <3>5. RowsInv'
      <4>1. CASE trader.at = "reset"
            BY <1>3, <3>1, <3>3, <3>4, <4>1 DEF RowsInv, VwapWhole
      <4>2. CASE trader.at # "reset"
        <5>1. trackers.dollars - 1 - trackers.qty \in (IF torn THEN -1..1 ELSE {0})
              BY <2>2, <2>5, <4>2 DEF RowsInv, VwapWhole
        <5>2. torn' <=> torn
              BY <3>4, <4>2
        <5> QED
              BY <1>3, <1>4, <3>1, <3>3, <4>2, <5>1, <5>2 DEF RowsInv, VwapWhole
      <4> QED
            BY <4>1, <4>2
    <3> QED
          BY <1>0, <1>3, <2>1, <2>2, <3>3, <3>4, <3>5, TypePartsNext DEF MarkedTyped, FlagsTyped
  <2> QED
        BY <2>4, <2>5
<1>9. CASE Write(a)
  <2>1. AggTyped'
        BY <1>0, <1>1, <1>3, <1>9, Changed, AtsAre DEF Write, AggTyped
  <2>2. MarkedTyped'
        BY <1>0, <1>9 DEF Write, MarkedTyped
  <2>3. (agg[cur].at = "qty") <=> (agg[cur].at = "qty")'
        BY <1>1, <1>3, <1>9 DEF Write, Aggregator
  <2>4. UNCHANGED <<trackers, torn>>
        BY <1>9 DEF Write
  <2> QED
        BY <1>0, <1>3, <2>1, <2>2, <2>3, <2>4, TypePartsNext, RowsUntouched DEF TrackersTyped, FlagsTyped
<1>10. CASE Fail(a)
  <2>1. AggTyped'
        BY <1>0, <1>1, <1>3, <1>10, Changed, AtsAre DEF Fail, AggTyped
  <2>3. (agg[cur].at = "qty") <=> (agg[cur].at = "qty")'
        BY <1>1, <1>3, <1>10 DEF Fail, Aggregator
  <2>4. UNCHANGED <<marked, trackers, torn>>
        BY <1>10 DEF Fail
  <2> QED
        BY <1>0, <1>3, <2>1, <2>3, <2>4, TypePartsNext, RowsUntouched DEF MarkedTyped, TrackersTyped, FlagsTyped
<1> QED
    BY <1>5, <1>6, <1>7, <1>8, <1>9, <1>10 DEF Aggregating

(* The trader's steps that touch neither buffers nor trackers.             *)
LEMMA TraderMoves ==
    ASSUME TypeOK, RowsInv, trader' \in Trader,
           trader.at # "reset", trader'.at # "reset",
           UNCHANGED <<feedUp, poller, agg, cur, marked, trackers, torn, followed>>
    PROVE  TypeOK' /\ RowsInv'
<1>1. AggTyped /\ MarkedTyped /\ TrackersTyped /\ FlagsTyped /\ poller \in Poller
      BY TypeParts
<1>2. AggTyped' /\ MarkedTyped' /\ TrackersTyped' /\ FlagsTyped' /\ poller' \in Poller
      BY <1>1 DEF AggTyped, MarkedTyped, TrackersTyped, FlagsTyped
<1> QED
    BY <1>2, TypePartsNext, RowsUntouched

(* A restart tells both threads to end.                                    *)
LEMMA RestartStep ==
    ASSUME TypeOK, RowsInv, trader.at # "reset", NEW back \in {"targets", "wave"}, Restart(back)
    PROVE  TypeOK' /\ RowsInv'
<1>0. AggTyped /\ MarkedTyped /\ TrackersTyped /\ FlagsTyped /\ poller \in Poller
      BY TypeParts
<1>1. /\ agg' = [agg EXCEPT ![cur].kill = TRUE] /\ poller' = [poller EXCEPT !.kill = TRUE]
      /\ trader' = [at |-> "join", back |-> back]
      /\ UNCHANGED <<feedUp, cur, marked, trackers, torn, followed>>
      BY DEF Restart
<1>2. cur \in Aggregators /\ agg \in [Aggregators -> Aggregator]
      BY <1>0 DEF AggTyped
<1>3. AggTyped'
  <2>1. [agg EXCEPT ![cur].kill = TRUE] \in [Aggregators -> Aggregator]
        BY <1>0, <1>2, Changed, AtsAre
  <2> QED
        BY <1>1, <1>2, <2>1 DEF AggTyped
<1>4. poller' \in Poller
      BY <1>0, <1>1 DEF Poller
<1>5. trader' \in Trader /\ trader'.at # "reset"
      BY <1>1 DEF Trader
<1>6. (agg[cur].at = "qty") <=> (agg[cur].at = "qty")'
      BY <1>1, <1>2 DEF Aggregator
<1>7. MarkedTyped' /\ TrackersTyped' /\ FlagsTyped'
      BY <1>0, <1>1 DEF MarkedTyped, TrackersTyped, FlagsTyped
<1> QED
    BY <1>1, <1>3, <1>4, <1>5, <1>6, <1>7, TypePartsNext, RowsUntouched

(* A new aggregator and a new poller: no rows, nothing being added.        *)
LEMMA ConnectStep == ASSUME TypeOK, Connect PROVE TypeOK' /\ RowsInv'
<1>0. AggTyped /\ MarkedTyped /\ FlagsTyped /\ trader \in Trader
      BY TypeParts
<1>1. PICK a \in Aggregators \ {cur} :
         /\ marked' = IF marked.on = a /\ marked.at \in {"buffer", "taken"}
                      THEN [marked EXCEPT !.at = "late"] ELSE marked
         /\ agg' = [b \in Aggregators |-> IF b = a THEN NewAggregator
                                      ELSE IF agg[b].at \in Stopped THEN NoAggregator ELSE agg[b]]
         /\ cur' = a
      BY DEF Connect
<1>2. /\ poller' = NewPoller /\ trackers' = NoRows /\ torn' = FALSE
      /\ trader' = [trader EXCEPT !.at = "book"] /\ UNCHANGED <<feedUp, followed>>
      BY DEF Connect
<1>3. NewAggregator \in Aggregator /\ NoAggregator \in Aggregator
      BY AtsAre DEF NewAggregator, NoAggregator, Aggregator
<1>4. AggTyped'
      BY <1>0, <1>1, <1>3 DEF AggTyped
<1>5. MarkedTyped'
      BY <1>0, <1>1 DEF MarkedTyped
<1>6. TrackersTyped' /\ FlagsTyped' /\ poller' \in Poller
  <2>1. TrackersTyped'
        BY <1>2, BoundsAreInts DEF TrackersTyped, NoRows
  <2>2. poller' \in Poller
        BY <1>2, BoundsAreInts DEF Poller, NewPoller
  <2>3. FlagsTyped'
        BY <1>0, <1>2 DEF FlagsTyped
  <2> QED
        BY <2>1, <2>2, <2>3
<1>7. trader' \in Trader /\ trader'.at = "book"
      BY <1>0, <1>2 DEF Trader
<1>8. (agg[cur].at)' = "idle"
      BY <1>1 DEF NewAggregator
<1>9. RowsInv'
      BY <1>2, <1>7, <1>8, BoundsAreInts DEF RowsInv, VwapWhole, NoRows
<1> QED
    BY <1>4, <1>5, <1>6, <1>7, <1>9, TypePartsNext

(* The two statements of reset_vwap.                                       *)
LEMMA ResetStep == ASSUME TypeOK, RowsInv, ResetDollars \/ ResetQty PROVE TypeOK' /\ RowsInv'
<1>0. AggTyped /\ MarkedTyped /\ TrackersTyped /\ FlagsTyped /\ poller \in Poller /\ trader \in Trader
      BY TypeParts
<1>1. UNCHANGED <<feedUp, poller, agg, cur, marked, followed>>
      BY DEF ResetDollars, ResetQty
<1>2. AggTyped' /\ MarkedTyped' /\ poller' \in Poller
      BY <1>0, <1>1 DEF AggTyped, MarkedTyped
<1>3. trackers.dollars \in Int /\ trackers.qty \in Int
      BY <1>0, BoundsAreInts DEF TrackersTyped
<1>4. CASE ResetDollars
  <2>1. trackers' = [trackers EXCEPT !.dollars = 0] /\ trader' = [trader EXCEPT !.at = "reset"]
        BY <1>4 DEF ResetDollars
  <2>2. torn' = (agg[cur].at = "qty")
        BY <1>4 DEF ResetDollars
  <2>3. TrackersTyped' /\ trackers'.dollars = 0 /\ trackers'.qty = trackers.qty
        BY <1>0, <2>1, BoundsAreInts DEF TrackersTyped
  <2>4. trader' \in Trader /\ trader'.at = "reset"
        BY <1>0, <2>1 DEF Trader
  <2>5. FlagsTyped'
        BY <1>0, <1>1, <2>2 DEF FlagsTyped
  <2>6. RowsInv'
    <3>1. torn' <=> (agg[cur].at = "qty")'
          BY <1>1, <2>2
    <3>2. ((agg[cur].at)' = "qty") => trackers.qty < MaxRows
          BY <1>1 DEF RowsInv
    <3> QED
          BY <2>3, <2>4, <3>1, <3>2 DEF RowsInv, VwapWhole
  <2> QED
        BY <1>2, <2>3, <2>4, <2>5, <2>6, TypePartsNext
<1>5. CASE ResetQty
  <2>1. /\ trader.at = "reset" /\ trackers' = [trackers EXCEPT !.qty = 0]
        /\ trader' = [trader EXCEPT !.at = "wave"]
        BY <1>5 DEF ResetQty
  <2>2. torn' = (torn \/ agg[cur].at = "qty")
        BY <1>5 DEF ResetQty
  <2>3. TrackersTyped' /\ trackers'.dollars = trackers.dollars /\ trackers'.qty = 0
        BY <1>0, <2>1, BoundsAreInts DEF TrackersTyped
  <2>4. trader' \in Trader /\ trader'.at = "wave"
        BY <1>0, <2>1 DEF Trader
  <2>5. FlagsTyped'
        BY <1>0, <1>1, <2>2 DEF FlagsTyped
  <2>6. trackers.dollars \in 0..1 /\ (~torn => trackers.dollars = 0 /\ agg[cur].at # "qty")
        BY <2>1 DEF RowsInv
  <2>7. RowsInv'
    <3>1. CASE torn'
      <4>1. trackers'.dollars \in 0..1 /\ trackers'.qty = 0 /\ 0 < MaxRows
            BY <2>3, <2>6, BoundsAreInts
      <4> QED
            BY <1>3, <2>4, <3>1, <4>1, BoundsAreInts DEF RowsInv, VwapWhole
    <3>2. CASE ~torn'
      <4>1. agg[cur].at # "qty" /\ trackers.dollars = 0
            BY <2>2, <2>6, <3>2
      <4>2. (agg[cur].at)' # "qty" /\ trackers'.dollars = 0
            BY <1>1, <2>3, <4>1
      <4>3. VwapWhole'
        <5>1. trackers'.dollars - 0 - trackers'.qty = 0
              BY <2>3, <4>2
        <5> QED
              BY <3>2, <4>2, <5>1 DEF VwapWhole
      <4>4. /\ (agg[cur].at)' = "qty" => trackers'.qty < MaxRows
            /\ trader'.at # "reset"
            BY <2>4, <4>2
      <4> QED
            BY <4>3, <4>4 DEF RowsInv
    <3> QED
          BY <3>1, <3>2
  <2> QED
        BY <1>2, <2>3, <2>4, <2>5, <2>7, TypePartsNext
<1> QED
    BY <1>4, <1>5

LEMMA TradingStep == ASSUME TypeOK, RowsInv, Trading \/ ConnectFails PROVE TypeOK' /\ RowsInv'
<1>0. trader \in Trader
      BY TypeParts
<1>1. CASE Check
  <2>1. CASE Restart("targets")
        BY <1>1, <2>1, RestartStep DEF Check
  <2>2. CASE trader' = [trader EXCEPT !.at = "targets"]
             /\ UNCHANGED <<feedUp, poller, agg, cur, marked, trackers, torn, followed>>
    <3>1. trader' \in Trader /\ trader'.at = "targets"
          BY <1>0, <2>2 DEF Trader
    <3> QED
          BY <1>1, <2>2, <3>1, TraderMoves DEF Check
  <2> QED
        BY <1>1, <2>1, <2>2 DEF Check
<1>2. CASE RestartInWave
      BY <1>2, RestartStep DEF RestartInWave
<1>3. CASE Join \/ NoReset \/ EndWave \/ ConnectFails \/ WaitForBook
  <2>1. trader.at # "reset" /\ UNCHANGED <<feedUp, poller, agg, cur, marked, trackers, torn, followed>>
        BY <1>3 DEF Join, NoReset, EndWave, ConnectFails, WaitForBook
  <2>2. trader' \in Trader /\ trader'.at # "reset"
        BY <1>0, <1>3 DEF Trader, Join, NoReset, EndWave, ConnectFails, WaitForBook
  <2> QED
        BY <2>1, <2>2, TraderMoves
<1> QED
    BY <1>1, <1>2, <1>3, ConnectStep, ResetStep DEF Trading

LEMMA StepKeeps == TypeOK /\ RowsInv /\ [Next]_vars => TypeOK' /\ RowsInv'
<1> SUFFICES ASSUME TypeOK, RowsInv, [Next]_vars PROVE TypeOK' /\ RowsInv'
    OBVIOUS
<1>1. CASE Environment \/ Polling
  <2>1. /\ AggTyped' /\ MarkedTyped' /\ FlagsTyped' /\ poller' \in Poller
        /\ UNCHANGED <<cur, trackers, trader, torn>>
        /\ \A a \in Aggregators : agg'[a].at = agg[a].at
        BY <1>1, PollingKeeps
  <2>2. TrackersTyped' /\ trader' \in Trader /\ cur \in Aggregators
        BY <2>1, TypeParts DEF TrackersTyped, AggTyped
  <2>3. (agg[cur].at = "qty") <=> (agg[cur].at = "qty")'
        BY <2>1, <2>2
  <2> QED
        BY <2>1, <2>2, <2>3, TypePartsNext, RowsUntouched
<1>2. CASE \E a \in Aggregators : Aggregating(a) \/ Fail(a)
      BY <1>2, AggregatingStep
<1>3. CASE UNCHANGED vars
      BY <1>3 DEF vars, TypeOK, RowsInv, VwapWhole
<1> QED
    BY <1>1, <1>2, <1>3, TradingStep DEF Next, Environment

LEMMA Inductive == Spec => [](TypeOK /\ RowsInv)
  BY InitTypes, InitRows, StepKeeps, PTL DEF Spec

(* The threads, the buffers and the trackers keep their types; in          *)
(* particular the poller counts at most one error past those it tolerates. *)
THEOREM TypeCorrect == Spec => []TypeOK
  BY Inductive, PTL

(* dollar_tracker and qty_tracker hold the same rows but for the one being *)
(* added, so that the quotient vwap returns is of the same trades,     *)
(* unless the trader's reset overlapped the adding of a row; even then     *)
(* they differ by one row at most, until the next reset.                   *)
THEOREM VwapIsWhole == Spec => []VwapWhole
<1>1. RowsInv => VwapWhole
      BY DEF RowsInv
<1> QED
    BY <1>1, Inductive, PTL

=============================================================================
