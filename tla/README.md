# A TLA+ development of the trading system

The repository is a statistical-arbitrage system for perpetual futures: batch
jobs turn market data into features, fits and models; an alpha server
optimizes a portfolio and writes target files; a trader turns targets into
orders on the exchange. This directory models the parts in which *order,
failure and time* decide whether the system is right, checks them with TLC and
proves what matters most with TLAPS.

Files: `*.tla` modules, `*.cfg` TLC configurations, `PROJECT.json` the index of
components, runs, mutants, source map, hazards, findings and theorems.

## 1. Inventory

| Part | State it keeps | Operations | What is hard |
|---|---|---|---|
| Trader wave loop, `lib/trader/trader.py` | targets, recorded positions, `pending_orders`, `oid_to_koid`, `outstanding_orders`, aggression | `cancel_all`, `refresh_positions`, `optimize_and_send_orders`, `process_oms_messages`, `get_latest_targets` | the exchange moves between any two steps; sends of unknown outcome; restarts |
| OMS listeners, `local_oms.py`, `oms_listener.py` | message list, listen key, reconnect counter | receive, map, append, `get_msgs`, keep-alive, reconnect | two threads share a list; sessions that die in silence |
| End-of-day overlay, `trader_eod.py` | reference prices and date, signal and its time | capture, signal, activity, reset | decisions from several readings of the clock around midnight |
| Alpha server, `lib/server/server.py` | reoptimization schedule, last optimization | update, optimize, dump, sleep | time arithmetic across midnight; files read while written |
| Server calculations, `server_calcs.py`, `server_horizon_calcs.py` | incremental windows | update | mostly numeric |
| Positions, `positions.py` | quantity, cost basis by symbol | `add_fill`, refresh | same fill through two channels |
| Market data, `md_aggregator.py`, `trade_quote_poller.py` | socket, error count, quote buffers, vwap trackers, kill flags | subscribe, receive, swap, collect, write, reset, kill and reconnect | three threads without locks; sockets that go silent; threads that end by an exception |
| Alerts, `lib/util/opsgenie.py` | open alerts as last read, the file all processes share, time of the last raise and clear | raise, clear, bootstrap | coroutines side by side, time-outs, requests that go on, a cache several processes write |
| Simulation, `lib/sim/simulate.py` | quantity, cash, pnl, desired trade, age of the position | execute, generate targets | two accounts of one run; dead symbols, dust, failed optimizations |
| PnL, `lib/pnl`, `lib/pnl_new` | FIFO inventories, marks, cumulative and daily results | match a fill, record a bar | partial matches, positions that turn, dates without a record |
| News, `lib/news` | files, sockets | poll, append, roll over | reconnection |
| Stand-alone OMS `binance_oms.py` | listen key, reconnect counter | as the local OMS, and publishing | the same loop, but it closes an expired session |
| Gateway `gateway_orders.py` | orders | send, cancel | nothing in the repository imports it |
| Batch jobs: bars, features, fits, models, alphas, forecasts, optimizer, universe, reports, downloads | files | compute and write | numeric, sequential |
| Scripts, `bin/*.sh` | kill files | daily stop and restart | a process may be at any point |

How they interact. `bin/update.sh` restarts server and trader once a day through
kill files. The server writes target files (an *opt* file after an
optimization, an *alpha* file after other updates); the trader lists the
directory at every wave and loads the newest. The trader sends requests to the
exchange, directly (`local_oms.py`) or through an external OMS over ZMQ; a
listener thread appends what comes back to a list, which the trader's thread
drains between two waves. The poller's thread feeds the aggregator, whose books
the trader reads for prices. `lib.data`, which many modules import, the C++ OMS
and the exchange are not in the repository: they are modelled, where needed,
from how the code uses them, and marked external.

What makes each part correct:

* *Wave loop*: no order of a symbol that is cancelled is sized while an older one can
  still fill; no fill takes its position past both target and flat by more than its limit
  price makes of the dollars; the recorded position is explained by the exchange's and
  what has not been handled; the book of outstanding orders is the exchange's as of the
  last message handled, but for orders that EXPIRED; open orders end and leave the book.
* *Listeners*: every message is handed over once, in order, the mapping of an
  order before its acknowledgement; the session comes back when it dies.
* *Overlay*: a signal compares prices of one night only; a day's prices exist
  after its capture window; orders are modified only just after midnight; prices
  captured at 23:45 are there at 00:00.
* *Server and hand-over*: a scheduled optimization starts soon after its time and
  only then; a complete opt file that no other hides is what the trader trades.
* *Simulation, PnL*: the two accounts of a run agree; quantity and money are conserved
  by every turn of the matching; daily results add up; a symbol that dies is closed;
  the age of a position is that of the position.
* *Market data*: volume and dollars of a vwap belong to the same trades; a buffered
  quote goes into a bar; killed threads end; quotes come back after any outage.
* *Alerts*: an alert that is raised and not cleared is open at the service in the end; a
  call returns whatever the service does.

## 2. Modules

| Module | Models | Checked by | Proved in |
|---|---|---|---|
| `Mailbox` | what a listener promises: deposited messages are drained once, in order | refinement in `local_mailbox` | `OmsMailbox_proofs` |
| `OmsMailbox` | the listener's append and the trader's copy-and-reset, with and without the lock | `local_mailbox` | `OmsMailbox_proofs` |
| `TraderOms` (TLC: `MCTraderOms`) | the wave loop, the handlers of the stream, the exchange | `trader_wave`, `trader_book`, `trader_faults` | `TraderOms_proofs` |
| `EodOverlay` | the overlay as the wave loop calls it | `eod_overlay`, `eod_signal` | `EodOverlay_proofs` |
| `TargetHandoff` | server loop, schedule, target files, loading by the trader, restarts | `target_handoff` | `TargetHandoff_proofs` |
| `UserStream` | the session of the user-data stream in `LocalOMSListener` and `BinanceOMS` | `user_stream`, `key_expired` | `UserStream_proofs` |
| `MarketData` | poller, aggregators, and the trader that watches and replaces them | `market_data` | `MarketData_proofs` |
| `Account` | a quantity and an amount of money changed by whole fills and by income | refinement in `simulation` | `Simulation_proofs` |
| `FifoPnl` | `_match_fills_with_inventory`, a turn of its loop at a time, and what a record reads | `simulation` | `Simulation_proofs` |
| `Simulation` (TLC: `MCSimulation`) | the back-test of one symbol, composed with the calculator its results go through | `simulation` | `Simulation_proofs` |
| `Sums` | the sum of a sequence, as a recursive function: what lots, fills and messages add up to | with `TraderOms` and `Simulation` | `Sums_proofs` (lemmas) |
| `Alerts` | one alert of `FillCounter`, raised and cleared through `OpsGenie`, the shared file and the service | `alerts` | |

`OmsMailbox` and `TraderOms` meet at `process_oms_messages`: what `Mailbox`
promises is how `TraderOms` uses `msgs`, a FIFO of which `Drain` takes all there is.

### OmsMailbox

Python's `self.msgs.append(x)` loads the attribute and then appends; `get_msgs`
copies the list and then rebinds the attribute. Those four parts are actions
(`LoadList`, `AppendMsg`, `CopyMsgs`, `ResetMsgs`); an append whose list was
replaced meanwhile goes to a list nobody holds. `EntriesOf` is what one exchange
event becomes: mapping and acknowledgement, one message, or nothing. `Locked`
chooses `LocalOMSListener` or the ZMQ listeners.

### TraderOms

`pc` is the place in `run_autotrader`: `boot` and `subscribe` (the first refresh
comes before the listener), then per wave `top` (targets, stale orders,
`pending_orders` emptied by `cancel_all`), `cancel` (a request per symbol), `settle`
(the two-second sleep), `refresh`, `send` (a symbol per step), `between` (messages
until the next wave), and `drop`: the rest of a drained list after a message that
cannot be parsed, whose handler returns from the loop.

| Variable | Code |
|---|---|
| `symbols` | `self.symbols`, which `update_symbols` cuts at start-up to the symbols that have a book (`Subscribe`); `cancel_all` goes through it, while every row of the target frame is traded |
| `target`, `covered` | `current_target_df`: quantities, and the symbols that have a row |
| `pos` | `pos_recorder` quantities |
| `pending`, `mapped`, `rem`, `age` | `pending_orders`, `oid_to_koid`, `outstanding_orders` (remaining quantity), age from `created_ts` in waves |
| `batch`, `msgs` | the drained list and what is behind it in the listener |
| `live`, `epos`, `reqs` | external: open orders, positions, requests on their way |
| `snap`, `drift` | history only: they say which fills a refresh has counted, and which were counted twice or never |
| `answered`, `lapsed` | history only: whether the last refresh had an answer; which orders in the book ended by an event that is only logged |

Handlers: `HandleMapping`, `HandleNew`, `HandleTrade` (`fill_order`, `Order.fill`,
`SecPos.add_fill`), `HandleEnd`, `HandleUnknown` (an order that EXPIRED stays in the
book), `HandleRejection`, `HandleGarbled`/`Drop`. Two things need no fault: an order may
expire by either event, and a refresh of an account that holds nothing may be taken for a
failure, so that the quantities recorded before stay (`Refresh`). The
exchange accepts or rejects requests in the order sent, cancels the open orders
of a symbol one by one, fills in parts, expires, and may open an order by itself
(autoclose, ADL). What can go wrong is a constant, `Faults`:

| Fault | In the code |
|---|---|
| `late` | `time.sleep(2)` after `cancel_all` may be too short |
| `untold` | a timed-out or failed HTTP request may have been executed |
| `lost_request` | nobody looks at the outcome of the cancel request |
| `late_book` | the first book of a symbol may come after `update_symbols`: it is traded and never cancelled |
| `lost_message` | a stream without sequence numbers, or a session that is down |
| `refresh_fails` | the REST query for positions returns nothing |
| `foreign`, `unparsable` | autoclose/ADL orders, which `Order.from_binance_json` may not parse |
| `thin_book`, `overlay` | the two places where a sized order is enlarged, times 3 and times 2 |
| `crash` | the trader dies (also by an exception in a handler) and is restarted |

Abstractions: one current price, so dollars and contracts at it are one integer; the
contracts of an order are its dollars at the limit price, which `create_order` divides by,
and exceed the former by up to `Slack` (`AtLimit`: a limit below the price to buy, or
rounding); an order's client id and exchange id are one name `<<symbol, slot>>`, never reused while
anything refers to it; sizing is the set of trades the arithmetic can produce
(part of the way to the target, or to flat), a mutant of which is rejected by the
runs; aggression, slippage and reporting are left out. `AddFill` and
`Left` stand for `SecPos.add_fill` and `Order.fill` with the quantity only.

Two properties compare the trader's numbers with the exchange's. `PositionAccounted`: the
recorded position of a symbol is the exchange's, less the fills still in the stream, plus
those of them a refresh had counted already, plus `drift` (what was told never or counted
twice). `BookAgrees`: what the book holds of an order is what is open, less what an
acknowledgement still in the stream will bring, plus what fills and ends still there will
take off (`Opened`, `Closed`, sums over the stream); an order that EXPIRED (`lapsed`) is in
it, is open no more, and the stream has nothing more of it.

Which properties hold of which symbols: `CleanSlate`, `SizedAsHeld`, `NoOvershoot`,
`BookAgrees`, `OrdersEnd` and `BookClears` speak of the symbols in `symbols`. Of the others
`CleanSlate` and `OrdersEnd` are false. `SizedAsHeld` and the bound of `NoOvershoot` speak of waves
whose refresh had an answer; without that they are false (section 4).

### EodOverlay

The clock runs between any two statements that read it (`Tick`), an iteration of
the wave loop is `Roll` (date roll and reset), `Capture`/`NoCapture`,
`SetReferenceDate` (a second reading), `ComputeSignal`/`NoSignal`, `SendOrders`.
Prices and signals are sets of symbols; ranks and multipliers are left out.

### TargetHandoff

The server (`spc`) boots, updates, decides with `timedelta.seconds` (a negative
difference wraps by a day), optimizes or continues, writes the file in two steps
(created, then complete), sleeps until the next time or naps, is killed and
restarted by `update.sh`; `update` may fail. The trader considers the newest opt
file at its start and the newest file later, compares its modification time with
the time of the *bars* of the last file loaded, and may read a file half written.
`MinCalc`, `MaxCalc`, `Wave`, `Period` and `Near` are durations in clock ticks: `Wave` is the
interval the server reads from the configuration for its sleeps, `Period` the longest time
between two looks of the trader, which also cancels, sleeps and sends. `Offset` is
`OPT_OFFSET_MINS`, 3 as shipped: `ReoptTimes` chooses the next occurrences of the times
first and adds it then, as `extract_reopt_times` does. `Starts` are the clock values a first
server may start at; restarts come at any time. `hidden` is history: an alpha file was
written within a period of the latest opt file, so that the trader, which takes the newest
file alone, may not have seen it.

### UserStream

`pc` is the place in `_main_loop`: `create` (the POST for a listen key), `connect`,
`stream` (the iteration over messages, with the keep-alive task beside it) and
`backoff`. `sock` is what the client knows of its socket: a closed one ends the
iteration, a lost one raises once no pong comes; the first leads to a new session
at once, the second to a delay. `keyValid` and `keyAge` are the exchange's. The
two clients run the same loop; `listener` tells them apart in `HandleExpired`,
where `BinanceOMS` closes its socket and `LocalOMSListener` does not. Time passes
(`Tick`) only in `stream`: requests and delays take seconds, the refresh period
30 minutes. `failures` and `neglected` are history.

### MarketData

Three kinds of threads without a lock. `poller` is `collect_quotes`: `subscribe`, the
`loop`, and `append` while one quote is being added. `agg[a]` is the thread of one
aggregator: it waits for its minute (`idle`), takes the buffers (`Swap`), builds the
data frames (`collect`), adds the rows to the trackers (dollars, then `qty`), writes
the bar, and only then looks at `please_kill_me`; so a killed one runs beside its
successor, and `Aggregators` bounds how many are alive together. `dead` and `failed`
are both the end of the thread, but only the first sets the flag the trader reads.
`trader` is where `run_autotrader` is between its check, the join with the poller,
the new connection, the wait for the book, the two statements of `reset_vwap` and the
wait for the next wave.

The environment stops and resumes the feed, silences or breaks the socket, refuses
the subscription. `HoldList`/`AppendQuote` are the two halves of
`self.current_quotes.append(...)`; a list replaced between them may have been read
already, and then the quote is `late`. `followed` bounds a behaviour to one kind of
detail: outages, the life of one quote, or the rows of one symbol; the three do not
influence each other except through what every behaviour has. `torn` is history: the last
reset overlapped the adding of a row. What a bar holds, open interest and latency
reports are left out.

The model shows which of the two ways to a restart matters: the count of errors is
redundant, since a broken socket leaves the next minute empty as a silent one does,
and it is the empty minute that ends the aggregator and makes the trader reconnect.

### Simulation, FifoPnl and Account

`Simulation` is the loop of `Simulate.simulate` for one symbol: `slice` (execution at
either of the two configured prices, funding, age, dust; the close of a row and its
volume-weighted price may each be missing, and so may the row), `targets` (a solution, or the rest of the last trade after a
failed optimization). It records its fills; `FifoPnl` accounts them again. The
calculator in the code runs when the loop has ended, and reads the fills in time
order: here it follows slice by slice (`match` a turn of `while` at a time, then one
record), which makes the two accounts comparable after each. `opening`, `dropped` and
`openedAt` are history: how the run was opened, what was zeroed as dust, when the
present position began. An initial position that the first slice has no row for is
dropped by the loop (`kept`) and kept by the calculator. `SliceTime` gives the time of
every slice; the time of a position is a mean of such times, cut to the hour (`PositionTs`).
Quantities, prices, dollars and times are whole numbers and a quotient is rounded towards
zero, as a lot's price never enters it. Floating-point rounding is not modelled; where it
shows is the mean of times, for its weights are single-precision fractions and the times
seconds since 1970: the mean may be off by a minute or two, and the hour by one.

`Account` is what the engine promises: between fills nothing is gained, a fill moves
a quantity at one price. The refinement maps its `held` and `cash` to what the lots,
the fill being matched and the realized money amount to in every turn of the loop.

### Alerts

`FillCounter` raises its alert in every round of a silence and clears it once (`Begin`,
`Return`). A call runs `reader.call` (`bootstrap_from_local`) beside `job` (`raise_alert` or
`clear_alert`) until both are done or thirty seconds are over (`Timeout`, which may come only
while the loop waits); the reader made by `__init__` (`reader.init`) lives on between calls.
`active` is whether the key is in `active_alert_keys`, `file` the shared
`active_alerts.json`, in which `age` counts from `last_update`: only a bootstrap sets it
(`SaveRead`), an ordinary `Save` keeps it. `raised` and `cleared` count down the minute of
`MIN_WAIT_RAISE_ALERT`; at 1 it may be over or not. `late` are requests whose coroutine was
cancelled and that a thread carries out all the same.

Of other processes only what they do to this key in the file is kept (`Peer`): they read it,
or OpsGenie's list, and write back what they read. A file is read and written whole; in the
code a reader may find it truncated, and two writers may leave it unreadable, after which
every process asks OpsGenie.

## 3. Runs

| Run | Shows | Bounds and why they are enough |
|---|---|---|
| `local_mailbox` | with the lock nothing is lost, duplicated or reordered, mapping before acknowledgement, everything is handled in the end, `Mailbox` is implemented | 3 events: one in the batch, one being appended, one behind; proved for any number |
| `trader_wave` | clean slate, trades sized from the position held, and no overshoot by more than the limit price, with crashes and lost messages | one symbol (symbols interact nowhere but in the order of the loops; the proof is for any set, and any part of it cancelled), two order names (two orders must coexist for a violation), targets on both sides of flat, orders one contract larger than the trade |
| `trader_book` | with a complete stream the book is the exchange's as of the last message, but for orders that EXPIRED, and the sweep takes no others off it; open orders end, and leave the book by their end or as stale. Cancels late, outcomes unknown | long side only (signs are symmetrical there), 3 waves to staleness so that an order may be cancelled late, in the wave after, and still be told in time; an order may be filled in part; the invariants are proved for any numbers |
| `trader_faults` | under eight faults at once, `late_book` among them, the recorded position is accounted for | one order name, unit target: positions and messages still mix over several waves and restarts; proved for any numbers, and with the faults that enlarge an order, which only make the instance larger |
| `eod_overlay` | signals of one night, prices when due, modified orders only after midnight, with restarts | three days of six ticks, two symbols: two nights may be mixed |
| `eod_signal` | *finding*: the reset at the date roll destroys the captured prices | one night |
| `target_handoff` | files reach the trader unless hidden; the optimization starts in time; on the first day only then | a day of 8 ticks with two times and an offset of one tick, a trader whose period is twice the wave, a start between a time and its offset and one elsewhere, restarts anywhere, one and a third days; proved for any numbers |
| `user_stream` | the session keeps its key while refreshes succeed; a delay counts only failures since a socket was open; the stream comes back, through `LocalOMSListener` if refreshes do not fail for ever | the five delays of the code, a refresh period of 3 ticks and a life of 6 (30 and 60 minutes): one failed refresh may lose the key; proved for any numbers |
| `key_expired` | *finding*: a session whose key has expired is not replaced | the same with one delay |
| `market_data` | quotes come back after any outage, killed aggregators end, a buffered quote reaches a bar, the vwap trackers hold the same rows | two aggregators (a killed one and its successor), one error tolerated (the second makes the trader restart), one row: safety is proved for any numbers |
| `simulation` | both accounts of a back-test agree, daily results add up, dead symbols are closed, the engine implements an account | three slices of two days, none on the hour, the first two in different hours; two prices, either way of pricing a trade, a close or a volume-weighted price without the other; a position that can open, grow, shrink, turn, be clipped, be forced out, lose its price or have no row |
| `alerts` | a lasting condition ends up as an open alert, whatever fails before; calls return | a file believed for two rounds (with one, a file that is wrongly kept alive would not be noticed), one restart, other processes after it, one abandoned request at a time |

Every property of a passing run is violated by the mutant named in
`PROJECT.json`: a change to one definition that a plausible slip in the code
would make. The mutants stand beside the definitions they change.

Fairness. `OmsMailbox!FairSpec`: both threads run (weak fairness of each
thread's steps); no fairness of arrivals. `TraderOms!FairSpec`: the wave loop
never stops, weakly fair; the clock ends a wave even while messages keep coming
(`between` is left after a fixed time), hence strong fairness of `NextWave`; the
exchange answers requests. Fills, expiries and faults are owed by nobody.
The bound `MaxReqs` in `Top` is not an obligation of the code: a wave starts
whether or not requests wait; it only delays a wave until the exchange, which is
fair, has answered.
`UserStream!FairSpec`: the event loop runs and time passes (weak fairness), a
message already received is handled, and neither the exchange nor the network
refuses for ever (strong fairness of `CreateKey` and `Connect`, each of which is
tried again after every failure). That a socket is closed is never owed: a
silent session may stay silent.
`MarketData!Fairness`: the threads run (weak fairness of the poller's steps, of the
trader's and of each aggregator's). Two assumptions are strong: a minute ends once in
sixty seconds, and to subscribe and to receive a first quote take far less, so the end
of a minute does not cut off every attempt of the new threads to do so.
`QuotesComeBack` names what it needs besides: the feed is there for good, no aggregator
ends by an exception, which nobody notices, and the trader is not ended by one.
`Alerts!FairSpec`: the monitor and its event loop run, minutes pass and deadlines end;
OpsGenie does not refuse for ever to list alerts and to create one (strong fairness: each is
tried again, but every attempt may be cut off). `ConditionReported` needs besides that the
other processes come to rest: one that writes back what it has read whenever the file has
been read anew may keep a key in it for ever, which TLC shows when the condition is dropped.

## 4. Findings

* `eod_signal`: `eod_manager.reset()` on the new date clears the prices captured at
  23:45 before the signal of 00:00, which is then never computed unless an
  iteration of the loop itself spans midnight.
* `key_expired`: `LocalOMSListener` announces "will reconnect" and does not; the
  loop it says it mirrors, `BinanceOMS`, closes the socket there. For the second,
  `ListensAgain` holds without a condition on refreshes.

Without a run of their own, each the reason for a condition in a property:

* `cancel_all` goes through `self.symbols` (`trader.py:741`), which `update_symbols` cut at
  start-up; a symbol of the target frame that had no book then is traded in every wave and
  cancelled in none ("Cancel all outstanding orders - clean slate each wave",
  `CLAUDE_trader.md:39`). Its orders pile up until they are filled or expire. With the fault
  `late_book`, TLC violates `CleanSlate` as soon as `symbols` is dropped from it.
* `get_positions` takes an empty list for a failure and `refresh_positions` then returns
  (`trader.py:477`): when everything held was closed, the old quantities stay and orders are
  sized from them ("Refresh positions - from Binance API", `CLAUDE_trader.md:40`). Drop
  `answered` from `SizedAsHeld` and TLC shows it without any fault.
* The sweep skips orders without `created_ts` (`trader.py:1694`; "remove orders > 60 min old",
  `CLAUDE_trader.md:38`). Such an order, once it EXPIRED, is in the book, and in the report of
  unfilled orders, until the trader is restarted: the exception in `BookClears`.
* `extract_reopt_times` adds the offset after it has chosen the next occurrences
  (`config.py:310`): a server started at 12:01 has no 12:03 in its list ("Major
  reoptimizations at scheduled times", `server.py:786`): the `Offset` in `OptimizedInTime`.

* `CppOMSListener.get_msgs` and `OMSListener.get_msgs` copy and rebind without a lock:
  with `Locked = FALSE` in `LocalMailbox.cfg` TLC shows `Lossless` violated by a message
  appended between the two. `LocalOMSListener` locks and is right.
* A clear may leave its alert open for ever. In a process that has bootstrapped before,
  with a file older than fifteen minutes, `bootstrap_from_local` empties
  `active_alert_keys` and waits for OpsGenie's list; `clear_alert`, which nothing holds back
  any more ("Wait until bootstrapping prior to alert action", `opsgenie.py:257`, waits once in
  a process's life), finds no such key and returns; `FillCounter` takes the alert for cleared
  and does not ask again. In `Alerts`: `Begin`, `StartClear`, `ServeList`, `HandleList`,
  `Return`. So there is no property about closing.
* `execute_call_with_retry` never retries, as it returns in its `except`; and its pause of five
  seconds "to avoid unnecessary requests for raising and clearing shortly after" is dead
  code, for the key is in `active_alert_keys` before the action is chosen.
* `CleanSlate` needs the assumption `late \notin Faults`, for
  the two seconds after `cancel_all` are all there is.
* An opt file that an alpha file follows before the trader has looked is never traded: drop
  `~hidden` from `TargetsHandedOver` and TLC shows it.
* In a back-test a flat symbol without a close may be opened at its volume-weighted price, in the
  slice that closes positions without a price (`simulate.py:737`); the calculator marks it at
  another price. And an initial position without a row in the first slice is in one account only
  (`simulate.py:1098`). `LedgersAgree` and `DeadPositionsClosed` say how.
* `OnScheduleFirstDay` is bounded to the first day because the schedule is made once, for
  two days, and `None` means "now" for ever after (`bin/update.sh` restarts the server every day).

## 5. Proofs

`tlapm` checks, for every value of the constants:

* `OmsMailbox_proofs`: `TypeCorrect`; `LocalListenerLossless` and
  `LocalListenerImplementsMailbox` for `Locked = TRUE`. The invariant says who holds
  the lock and that an append never holds an old list. `MappingComesFirst` adds that in
  what has been appended an acknowledgement is preceded by its mapping, or what is left to
  append holds them in that order; `Lossless` carries it over to what the trader handles.
* `EodOverlay_proofs`: `TypeCorrect`; `SignalIsFresh`, `CaptureIsDue` and `BoostsInWindow`. The
  invariant (`OverlayInv`) says that what is held was captured on the trader's date or on a
  later one that the same iteration ran into, since a change of date clears it, and that a
  signal is computed after the midnight that ends that date by an iteration begun before;
  nothing is assumed of the clock but that one iteration takes at most `WaveTicks`.
* `TargetHandoff_proofs`: `TypeCorrect`; `HandedOver`, by an invariant about the newest two
  files, whether the one hides the other, and whether the trader has looked since they were
  complete; `ScheduledFirstDay`, which assumes `OftenEnough`: whenever one looks, some time
  of the list is more than the offset and less than a day ahead, so that the next time is
  always the closest after the last optimization; `ScheduledInTime`: how far past the next
  time the clock may be at each place of the server's loop, for any offset and any duration
  of a calculation.
* `Sums_proofs`: what the proofs below need to know of a sum. The library's induction
  theorems cannot be used (they are about any operator), so that a running total exists and is
  unique is shown from the least place at which it would not: a set of numbers has a least
  element by the well-foundedness of `<`. From there: a sum is an integer, grows by what is
  appended (`SumGrows`), is its head and the rest (`SumShrinks`), changes with its head
  (`SumHead`), is zero for zeros, and natural for naturals.
* `TraderOms_proofs`:
  * `TypeCorrect` and `PositionsAccounted`, under all faults and without assumptions. The
    second is an induction over sums along the stream: for each handler, what the message it
    takes was worth in the sum is what it adds to the position; a message appended by the
    exchange is worth what its position moved by; a refresh moves a mark, and what that makes
    of every message behind the mark is zero.
  * `BookIsTheExchanges`, from `Punctual`: no message or request is lost, every acknowledgement
    can be read, the trader is not restarted, a wave's requests are answered before the next
    wave, and staleness is at least two waves (an hour against `WAVE_INTERVAL_MINS`).
    Each is needed: a restarted trader has an empty book; what is lost is in nobody's sum; and
    an order swept as stale while its end is on the way leaves the book too early. The
    invariant (`BookInv`) says of every order what has been asked for it (`Asked`: once, and
    nobody has heard of it), told about it (`Told`: its acknowledgement comes before, its
    end behind everything else, and the sums agree), and how old it is in the book (`Aged`: an
    old one is open no more once the cancels are done, and its last messages are handled
    before the next wave), or that it has *lapsed*: it EXPIRED, and no message of it is left.
    `OnlyExpiredAreSwept` draws `[]SweptHaveExpired` from the same invariant: under
    `Punctual` the sweep of stale orders takes no order off the book that the exchange has open.
  * `SlateIsClean`, from `Prompt` (cancels are neither late nor lost): `[]CleanSlate`, for any
    subset of the symbols that is cancelled.
    "Nothing of `s` is open" is not inductive while cancels are under way. The
    invariant `SlateInv` says that from its cancel on everything of `s`, open or on
    its way, is *doomed*: a cancel of `s` stands behind it in the queue of requests.
    When the sleep ends with an empty queue, doomed means gone (`Idle`), and idle
    lasts until the trader sends the wave's order. Crashes need nothing extra:
    a restarted trader cancels before it sizes.
  * `SizedFromWhatIsHeld`, from `Steady` (`Prompt`, no foreign orders):
    `[]SizedAsHeld`. From a refresh that had an answer until its order is decided the recorded
    position of a symbol that is cancelled is the exchange's: it is idle, and only its own orders
    could fill. That all orders are the trader's own (`Ours`) has to be carried along: others
    are not cancelled.
  * `NeverOvershoots`, from `Calm` (`Steady`, and no order is enlarged): `[]NoOvershoot`.
    `SizeInv` adds to this that a symbol that is cancelled and has been sized has a *single*
    order, on its way or open, that does not go past target and flat by more than `Slack`,
    if the refresh had an answer; a fill moves quantity from the open order to the position,
    which leaves their sum.
* `MarketData_proofs`: `TypeCorrect`; `VwapIsWhole`, from an invariant (`RowsInv`) about the
  middle of a reset: there the dollars hold at most one row, and none if nothing was
  torn; and about the middle of an addition: the quantities still have room.
* `Simulation_proofs`: `TypeCorrect`; `LotsOnOneSide`, with the types of the lots (`Lotted`): a lot is added
  only when the loop has emptied the other side; `DeadAreClosed`, which needs that the
  value of a position is zero exactly when its quantity is (`Same`), for the liquidation
  looks at the first and the property at the second; `AgeIsOfThePosition`, from a lemma on
  weighted means, the quotient of `_calculate_position_age`, and one on hours (`HourOf`): to
  cut two times to the hour keeps their order. About the two ledgers:
  * `LedgersAlwaysAgree`: agreement after a record is not inductive. The invariant
    (`Ledgers`) relates the loop to the calculator in every turn of its matching: `Held`, the
    quantity of the lots and of what is left of the fill, is the loop's with what it
    dropped, dust or the initial position; `Paid`, what was realized, paid for the lots and for the rest of the fill, is the
    loop's money with the gain of the initial position and the income still `owed`. A turn
    leaves both as they are (`TurnKeepsAccount`, by `Matched`: what a match takes off the
    quantity and the cost of the lots is what it realizes against); a fill moves them by
    its quantity, price and fee (`FillMovesAccount`). A record is then one equation, with the
    calculator's mark for the loop's close where the slice has no price.
  * `CalculatorKeepsAccount`: the same lemmas, step by step the refinement of `Account`.
  * `DailyAlwaysAddsUp`: until the first record the total is zero; what a record without a
    number does to those after it is excepted.
* `UserStream_proofs`: `TypeCorrect`; `KeyLives`, from an invariant that bounds the age of
  the key by the sleep of the keep-alive task; `BackoffIsFresh`, from one that bounds
  the counter by the failures since a socket was open.

Only model-checked: everything temporal beyond safety (`Delivered`, `OrdersEnd`,
`BookClears`, `ListensAgain`, `QuotesComeBack`, `KilledAggregatorsEnd`, `QuoteReachesBar` and
both properties of `Alerts`): liveness and fairness are out of the prover's reach. Every
invariant and every refinement a passing run checks is proved.

## 6. Not modelled

The batch jobs (features, fits, models, the optimizer's program, reports) are
sequential numeric code over data frames: a finite-state model would restate the
arithmetic. They are most of the repository, so the source map covers a small part of
its lines. `gateway_orders.py` imports packages that are not in the repository.
Downloads and reports are input and output. The news pollers are independent of each
other and of the trader. Of the modelled parts: escalation, shutdown and the on-call monitor of alerts, the log reader, paper and debug modes, the operator's
commands (flatten, manual order, and `liquidate_big_move`, which sends a flattening order that
`create_flatten_order` has sent already), market-data-only mode, aggression, open
interest, latency reports and formatting; `fill_pnl_breakdown.py` and `pnl_new`, which
regroup what the calculator returns; several symbols in a back-test, which meet only in
the optimizer's constraints.

## 7. Plan

1. The silence detection of `CppOMSListener` and the age of the book orders are priced on.
2. *Positions*: cost basis and average cost of `SecPos.add_fill` across flat.
3. *Order sizing* of `create_order` and of the deficit as pure operators.
4. Proofs: what safety the liveness arguments of `Alerts` and `MarketData` rest on.
