------------------------------ MODULE TraderOms ------------------------------
(***************************************************************************)
(* The wave loop of the trader (lib/trader/trader.py, Trader.run_autotrader)*)
(* against the exchange: cancel everything, sleep, refresh positions from  *)
(* REST, send one order per symbol, then handle the user-data stream until *)
(* the next wave.                                                          *)
(*                                                                         *)
(* The exchange and the OMS in front of it are not in the repository: they *)
(* are modelled from what the trader sends and from the messages it knows. *)
(* Requests are executed in the order sent and messages arrive in the      *)
(* order of the events (the hand-over itself is module OmsMailbox).        *)
(*                                                                         *)
(* An order is written <<symbol, slot>>; koid and oid of one order are the *)
(* same name here, so oid_to_koid is the set of oids it maps.  Slot 0 is   *)
(* an order the exchange opened by itself (autoclose, ADL).                *)
(***************************************************************************)
EXTENDS Sums

CONSTANTS Symbols,      \* the tradeable universe
          Slots,        \* names for the orders in flight; a positive bound on them
          Targets,      \* the target quantities a target file may hold
          StaleWaves,   \* waves after which an order is stale (60 minutes)
          Slack,        \* the most contracts by which an order exceeds, at its limit price,
                        \* the contracts its dollars are at the current price
          MaxPos,       \* bound: the exchange position stays within -MaxPos..MaxPos
          MaxReqs,      \* bound: a wave starts only with at most this many requests waiting
          MaxMsgs,      \* bound: orders are filled, expire or are opened by the exchange
                        \* only with at most this many messages waiting
          Faults        \* what may go wrong

AllFaults == {"late",            \* the 2 s sleep may be too short for the cancels
              "untold",          \* send() may report failure of a request that gets through
              "late_book",       \* the first book of a symbol may come after update_symbols
              "lost_request",    \* a request may never reach the exchange
              "lost_message",    \* the stream may be down when an event happens
              "refresh_fails",   \* the REST call for positions may return nothing
              "foreign",         \* the exchange may open orders by itself
              "unparsable",      \* Order.from_binance_json may fail on those
              "thin_book",       \* an order may exceed the size on the book
              "overlay",         \* the EOD overlay may speed an order up (trader_eod.py)
              "crash"}           \* the trader may die and be restarted

ASSUME SlotsAssumption == Slots \subseteq Nat \ {0}
ASSUME TargetsAssumption == Targets \subseteq Int
ASSUME BoundsAssumption == /\ StaleWaves \in Nat /\ Slack \in Nat
                           /\ MaxPos \in Nat /\ MaxReqs \in Nat /\ MaxMsgs \in Nat
ASSUME FaultsAssumption == Faults \subseteq AllFaults

VARIABLES
    pc,        \* where run_autotrader is
    symbols,   \* self.symbols: those cancel_all() cancels
    todo,      \* symbols the loop at hand has still to do
    target,    \* target quantity by symbol, from current_target_df
    covered,   \* symbols current_target_df has a row for
    pos,       \* pos_recorder: quantity by symbol
    pending,   \* keys of pending_orders
    mapped,    \* keys of oid_to_koid
    rem,       \* outstanding_orders: remaining quantity, 0 when not in the dict
    age,       \* waves since created_ts of an outstanding order, NoTs when None
    batch,     \* messages of the drained list process_oms_messages has still to handle
    live,      \* exchange: signed open quantity by order, 0 when not open
    epos,      \* exchange: position by symbol
    reqs,      \* requests sent and not yet executed
    msgs,      \* messages the trader has not handled; the first `batch` are drained
    snap,      \* history: the first `snap` of msgs were sent before the last refresh
    drift,     \* history: fills counted twice less fills never told, since the last refresh
    answered,  \* history: the last refresh had an answer
    lapsed     \* history: orders in the book whose end came as an event not handled

waveVars == <<symbols, todo, target, covered, answered>>
bookVars == <<pending, mapped, rem, age, lapsed>>
exchVars == <<live, epos, reqs>>
vars == <<pc, waveVars, pos, bookVars, batch, exchVars, msgs, snap, drift>>

Id == Symbols \X (Slots \union {0})
Sym(o) == o[1]
Own(o) == o[2] # 0
NoTs == -1
Abs(n) == IF n < 0 THEN -n ELSE n
Between(a, b) == IF a <= b THEN a..b ELSE b..a

Req == [typ : {"new", "cancel"}, id : Id, qty : Int]
Msg == [typ : {"map", "new", "garbled", "end", "expired", "reject"}, id : Id, qty : Nat] \union
       [typ : {"trade"}, id : Id, qty : Int]
M(typ, o, q) == [typ |-> typ, id |-> o, qty |-> q]

\* Exchange order ids are never reused, nor are koids of different waves.
Unused(o) == /\ live[o] = 0 /\ rem[o] = 0
             /\ o \notin pending /\ o \notin mapped
             /\ \A i \in DOMAIN reqs : reqs[i].id # o
             /\ \A i \in DOMAIN msgs : msgs[i].id # o

Init == /\ pc = "boot" /\ symbols = Symbols /\ todo = {} /\ covered = {}
        /\ target \in [Symbols -> Targets]
        /\ pos = [s \in Symbols |-> 0]
        /\ pending = {} /\ mapped = {}
        /\ rem = [o \in Id |-> 0] /\ age = [o \in Id |-> NoTs]
        /\ batch = 0
        /\ live = [o \in Id |-> 0] /\ epos = [s \in Symbols |-> 0]
        /\ reqs = <<>> /\ msgs = <<>>
        /\ snap = 0 /\ drift = [s \in Symbols |-> 0]
        /\ answered = FALSE /\ lapsed = {}

-----------------------------------------------------------------------------
(* The exchange.                                                           *)

\* The listener is created after the first refresh: run_autotrader.
Subscribed == pc \notin {"boot", "subscribe"}

\* An event is told, or missed when nobody listens or the stream is down.
Missed == ~Subscribed \/ "lost_message" \in Faults

\* An event that leaves the position alone is told by messages ms, or not.
Emit(ms) == /\ \/ Subscribed /\ msgs' = msgs \o ms
               \/ Missed /\ UNCHANGED msgs
            /\ UNCHANGED drift

Accept == /\ reqs # <<>> /\ Head(reqs).typ = "new"
          /\ LET r == Head(reqs) IN
             /\ live' = [live EXCEPT ![r.id] = r.qty]
             /\ Emit(<<M("map", r.id, 0), M("new", r.id, Abs(r.qty))>>)
          /\ reqs' = Tail(reqs)
          /\ UNCHANGED <<pc, waveVars, pos, bookVars, batch, epos, snap>>

Reject == /\ reqs # <<>> /\ Head(reqs).typ = "new"
          /\ Emit(<<M("reject", Head(reqs).id, 0)>>)
          /\ reqs' = Tail(reqs)
          /\ UNCHANGED <<pc, waveVars, pos, bookVars, batch, live, epos, snap>>

\* The end of order o, told by an event of type CANCELED ("end") or EXPIRED.
EndOrder(o, typ) == /\ live' = [live EXCEPT ![o] = 0]
                    /\ Emit(<<M(typ, o, Abs(live[o]))>>)

\* A cancel-all request ends the open orders of its symbol one by one.
CancelOne == \E o \in Id :
    /\ reqs # <<>> /\ Head(reqs).typ = "cancel"
    /\ Own(o) /\ Sym(o) = Sym(Head(reqs).id) /\ live[o] # 0
    /\ EndOrder(o, "end")
    /\ UNCHANGED <<pc, waveVars, pos, bookVars, batch, epos, reqs, snap>>

CancelDone == /\ reqs # <<>> /\ Head(reqs).typ = "cancel"
              /\ \A o \in Id : Own(o) /\ Sym(o) = Sym(Head(reqs).id) => live[o] = 0
              /\ reqs' = Tail(reqs)
              /\ UNCHANGED <<pc, waveVars, pos, bookVars, batch, live, epos, msgs, snap, drift>>

LoseRequest == /\ "lost_request" \in Faults /\ reqs # <<>>
               /\ reqs' = Tail(reqs)
               /\ UNCHANGED <<pc, waveVars, pos, bookVars, batch, live, epos, msgs, snap, drift>>

\* Bound: what is missed since a refresh stays within -MaxPos..MaxPos.
Fill == \E o \in Id : \E q \in Between(0, live[o]) \ {0} :
    /\ Len(msgs) <= MaxMsgs
    /\ epos[Sym(o)] + q \in -MaxPos..MaxPos
    /\ live' = [live EXCEPT ![o] = @ - q]
    /\ epos' = [epos EXCEPT ![Sym(o)] = @ + q]
    /\ \/ Subscribed /\ msgs' = Append(msgs, M("trade", o, q)) /\ UNCHANGED drift
       \/ /\ Missed /\ drift[Sym(o)] - q \in -MaxPos..MaxPos
          /\ drift' = [drift EXCEPT ![Sym(o)] = @ - q]
          /\ UNCHANGED msgs
    /\ UNCHANGED <<pc, waveVars, pos, bookVars, batch, reqs, snap>>

Expire == \E o \in Id :
    /\ live[o] # 0 /\ Len(msgs) <= MaxMsgs
    /\ \E typ \in {"end", "expired"} : EndOrder(o, typ)
    /\ UNCHANGED <<pc, waveVars, pos, bookVars, batch, epos, reqs, snap>>

\* The exchange closes a position: no mapping is synthesized for its orders.
\* (Bound: none that cannot be read while drift is outside -MaxPos..MaxPos.)
Autoclose == \E s \in Symbols :
    /\ "foreign" \in Faults /\ epos[s] # 0 /\ Unused(<<s, 0>>) /\ Len(msgs) <= MaxMsgs
    /\ live' = [live EXCEPT ![<<s, 0>>] = -epos[s]]
    /\ \E typ \in {"new"} \union
                   (IF "unparsable" \in Faults /\ \A t \in Symbols : drift[t] \in -MaxPos..MaxPos
                    THEN {"garbled"} ELSE {}) :
           Emit(<<M(typ, <<s, 0>>, Abs(epos[s]))>>)
    /\ UNCHANGED <<pc, waveVars, pos, bookVars, batch, epos, reqs, snap>>

Exchange == \/ Accept \/ Reject \/ CancelOne \/ CancelDone \/ LoseRequest
            \/ Fill \/ Expire \/ Autoclose

-----------------------------------------------------------------------------
(* A wave.                                                                 *)

\* Targets are loaded or re-sent; orders outstanding for too long are taken
\* off the book (report_unfilled_orders); cancel_all() forgets the pending
\* orders before it sends anything.
Top == /\ pc = "top" /\ Len(reqs) <= MaxReqs
       /\ \E t \in [Symbols -> Targets], c \in SUBSET Symbols :
              target' = t /\ covered' = c
       /\ LET lost == {o \in Id : age[o] = StaleWaves} IN
          /\ rem' = [o \in Id |-> IF o \in lost THEN 0 ELSE rem[o]]
          /\ mapped' = mapped \ lost
          /\ age' = [o \in Id |-> IF o \in lost \/ age[o] = NoTs THEN NoTs ELSE age[o] + 1]
          /\ lapsed' = lapsed \ lost
       /\ pending' = {}
       /\ todo' = symbols /\ pc' = "cancel"
       /\ UNCHANGED <<symbols, answered, pos, batch, exchVars, msgs, snap, drift>>

\* Mutants of CancelAll: only symbols with a target; none at all.
CancelTargetsOnly(s) == IF s \in covered
                        THEN reqs' = Append(reqs, M("cancel", <<s, 0>>, 0))
                        ELSE UNCHANGED reqs
CancelNothing(s) == s \in Symbols /\ UNCHANGED reqs

CancelAll(s) == reqs' = Append(reqs, M("cancel", <<s, 0>>, 0))

CancelSymbol == \E s \in todo :
    /\ pc = "cancel"
    /\ CancelAll(s)
    /\ todo' = todo \ {s}
    /\ UNCHANGED <<pc, symbols, target, covered, answered, pos, bookVars, batch, live, epos,
                   msgs, snap, drift>>

Sleep == /\ pc = "cancel" /\ todo = {}
         /\ pc' = "settle"
         /\ UNCHANGED <<waveVars, pos, bookVars, batch, exchVars, msgs, snap, drift>>

\* Mutant of Settle: nobody waits for the cancels.
SettleAtOnce == /\ pc = "settle"
                /\ pc' = "refresh"
                /\ UNCHANGED <<waveVars, pos, bookVars, batch, exchVars, msgs, snap, drift>>

\* The end of time.sleep(2).  That the cancels are done by then is what the
\* code hopes for; the fault "late" drops it.
Settle == /\ pc = "settle"
          /\ "late" \in Faults \/ reqs = <<>>
          /\ pc' = "refresh"
          /\ UNCHANGED <<waveVars, pos, bookVars, batch, exchVars, msgs, snap, drift>>

\* refresh_positions, at start-up and in every wave: symbols the exchange
\* does not list are set to zero.  Without an answer the old quantities stay,
\* and an account without any position may have none: get_positions takes an
\* empty list for a failure.  (Bound: the call fails only while the recorded
\* position is within -MaxPos..MaxPos.)  What follows goes through the rows of
\* the target frame.
Refresh == /\ pc \in {"boot", "refresh"}
           /\ \/ /\ pos' = epos
                 /\ snap' = Len(msgs)
                 /\ drift' = [s \in Symbols |-> 0]
                 /\ answered' = TRUE
              \/ /\ \/ /\ "refresh_fails" \in Faults
                       /\ \A s \in Symbols : pos[s] \in -MaxPos..MaxPos
                    \/ \A s \in Symbols : epos[s] = 0
                 /\ answered' = FALSE
                 /\ UNCHANGED <<pos, snap, drift>>
           /\ todo' = Symbols
           /\ pc' = IF pc = "boot" THEN "subscribe" ELSE "send"
           /\ UNCHANGED <<symbols, target, covered, bookVars, batch, exchVars, msgs>>

\* The listener is created; then update_symbols drops the symbols that have
\* no book yet from self.symbols, though not from what is traded.
Subscribe == /\ pc = "subscribe"
             /\ pc' = "top"
             /\ symbols' \in IF "late_book" \in Faults THEN SUBSET Symbols ELSE {Symbols}
             /\ UNCHANGED <<todo, target, covered, answered, pos, bookVars, batch, exchVars,
                            msgs, snap, drift>>

\* Mutant of TradeQty: the whole target, whatever is held.
TradeWhole(s) == Between(0, target[s]) \ {0}

\* What optimize_and_send_orders may trade, with dollars at one price: part of
\* the way to the target, or part of the way to flat when target and optimizer
\* position have opposite signs (mixed_idx) or the price rose too much to sell.
TradeQty(s) == (Between(0, target[s] - pos[s]) \union Between(0, -pos[s])) \ {0}

\* create_order divides the dollars by the limit price: an order that waits
\* for a better price to buy, and any order rounded up, is larger than what was
\* to be traded, by Slack at most; an aggressive buy is smaller.  It clips, or
\* cuts an aggressive order at flat, both inside TradeQty.  It enlarges an
\* order to three times (abs(qty) / .33) when it is larger than the size on
\* the book; the EOD overlay may have doubled it.
AtLimit(q) == {IF q > 0 THEN q + k ELSE q - k : k \in 0..Slack}
Enlarge == {i * j : i \in IF "thin_book" \in Faults THEN {1, 3} ELSE {1},
                    j \in IF "overlay" \in Faults THEN {1, 2} ELSE {1}}
OrderQty(s) == {n * p : n \in Enlarge, p \in UNION {AtLimit(q) : q \in TradeQty(s)}}

\* One row of optimize_and_send_orders: an order or none; or the cancel of a
\* symbol of self.symbols without a row.  send_order makes the order pending only when
\* send() reports success.
SendOrder == \E s \in todo \intersect covered : \E o \in Id : \E q \in OrderQty(s) :
    /\ pc = "send"
    /\ Own(o) /\ Sym(o) = s /\ Unused(o)
    /\ reqs' = Append(reqs, M("new", o, q))
    /\ \/ pending' = pending \union {o}
       \/ "untold" \in Faults /\ UNCHANGED pending
    /\ todo' = todo \ {s}
    /\ UNCHANGED <<pc, symbols, target, covered, answered, pos, mapped, rem, age, lapsed, batch,
                   live, epos, msgs, snap, drift>>

NoOrder == \E s \in todo :
    /\ pc = "send"
    /\ IF s \in symbols \ covered THEN CancelAll(s) ELSE UNCHANGED reqs
    /\ todo' = todo \ {s}
    /\ UNCHANGED <<pc, symbols, target, covered, answered, pos, bookVars, batch, live, epos,
                   msgs, snap, drift>>

\* The loop until the next wave drains the messages at least once.
WaveSent == /\ pc = "send" /\ todo = {}
            /\ pc' = "between"
            /\ batch' = Len(msgs)
            /\ UNCHANGED <<waveVars, pos, bookVars, exchVars, msgs, snap, drift>>

NextWave == /\ pc = "between" /\ batch = 0
            /\ pc' = "top"
            /\ UNCHANGED <<waveVars, pos, bookVars, batch, exchVars, msgs, snap, drift>>

-----------------------------------------------------------------------------
(* process_oms_messages.                                                   *)

Drain == /\ pc = "between" /\ batch = 0 /\ msgs # <<>>
         /\ batch' = Len(msgs)
         /\ UNCHANGED <<pc, waveVars, pos, bookVars, exchVars, msgs, snap, drift>>

\* The next message of the drained list is taken.
Take == /\ batch > 0
        /\ msgs' = Tail(msgs) /\ batch' = batch - 1
        /\ snap' = IF snap = 0 THEN 0 ELSE snap - 1

HandleMapping == /\ pc = "between" /\ Take /\ Head(msgs).typ = "map"
                 /\ mapped' = mapped \union {Head(msgs).id}
                 /\ UNCHANGED <<pc, waveVars, pos, pending, rem, age, lapsed, exchVars, drift>>

HandleRejection == /\ pc = "between" /\ Take /\ Head(msgs).typ = "reject"
                   /\ UNCHANGED <<pc, waveVars, pos, bookVars, exchVars, drift>>

\* An acknowledgement takes created_ts from the pending order, if it is found.
HandleNew == /\ pc = "between" /\ Take /\ Head(msgs).typ = "new"
             /\ LET o == Head(msgs).id
                    found == o \in mapped /\ o \in pending IN
                /\ rem' = [rem EXCEPT ![o] = Head(msgs).qty]
                /\ age' = [age EXCEPT ![o] = IF found THEN 0 ELSE NoTs]
                /\ pending' = IF found THEN pending \ {o} ELSE pending
             /\ UNCHANGED <<pc, waveVars, pos, mapped, lapsed, exchVars, drift>>

\* Mutants: a fill of an order that is not in outstanding_orders is not
\* recorded; remaining_qty not kept from going below zero, or not reduced.
AddFillKnown(o, q) == pos' = IF rem[o] = 0 THEN pos ELSE [pos EXCEPT ![Sym(o)] = @ + q]
LeftUnclipped(r, q) == r - q
LeftUnchanged(r, q) == IF r > q THEN r ELSE 0

\* pos_recorder.add_fill, and what Order.fill leaves of a remaining quantity.
AddFill(o, q) == pos' = [pos EXCEPT ![Sym(o)] = @ + q]
Left(r, q) == IF r > q THEN r - q ELSE 0

\* A fill moves the position whether or not its order is known.
HandleTrade == /\ pc = "between" /\ Take /\ Head(msgs).typ = "trade"
               /\ LET o == Head(msgs).id
                      q == Head(msgs).qty
                      left == Left(rem[o], Abs(q)) IN
                  /\ AddFill(o, q)
                  /\ drift' = IF snap = 0 THEN drift ELSE [drift EXCEPT ![Sym(o)] = @ + q]
                  /\ rem' = [rem EXCEPT ![o] = left]
                  /\ age' = [age EXCEPT ![o] = IF left = 0 THEN NoTs ELSE @]
                  /\ mapped' = IF rem[o] # 0 /\ left = 0 THEN mapped \ {o} ELSE mapped
               /\ UNCHANGED <<pc, waveVars, pending, lapsed, exchVars>>

\* Mutant of HandleEnd: an order that is in the book stays there.
HandleEndUnknown == /\ pc = "between" /\ Take /\ Head(msgs).typ = "end"
                    /\ LET o == Head(msgs).id IN
                       /\ pending' = IF rem[o] = 0 /\ o \in mapped THEN pending \ {o} ELSE pending
                       /\ mapped' = mapped \ {o}
                    /\ UNCHANGED <<pc, waveVars, pos, rem, age, lapsed, exchVars, drift>>

HandleEnd == /\ pc = "between" /\ Take /\ Head(msgs).typ = "end"
             /\ LET o == Head(msgs).id IN
                /\ rem' = [rem EXCEPT ![o] = 0]
                /\ age' = [age EXCEPT ![o] = NoTs]
                /\ pending' = IF rem[o] = 0 /\ o \in mapped THEN pending \ {o} ELSE pending
                /\ mapped' = mapped \ {o}
             /\ UNCHANGED <<pc, waveVars, pos, lapsed, exchVars, drift>>

\* An event of a type not known, such as EXPIRED, is only logged: an order
\* that is in the book stays there.
HandleUnknown == /\ pc = "between" /\ Take /\ Head(msgs).typ = "expired"
                 /\ LET o == Head(msgs).id IN
                    lapsed' = IF rem[o] = 0 THEN lapsed ELSE lapsed \union {o}
                 /\ UNCHANGED <<pc, waveVars, pos, pending, mapped, rem, age, exchVars, drift>>

\* An acknowledgement that cannot be parsed: the return in the loop drops
\* the rest of the drained list.
HandleGarbled == /\ pc = "between" /\ Take /\ Head(msgs).typ = "garbled"
                 /\ pc' = "drop"
                 /\ UNCHANGED <<waveVars, pos, bookVars, exchVars, drift>>

Drop == /\ pc = "drop" /\ Take
        /\ LET m == Head(msgs) IN
           drift' = IF snap = 0 /\ m.typ = "trade"
                    THEN [drift EXCEPT ![Sym(m.id)] = @ - m.qty] ELSE drift
        /\ UNCHANGED <<pc, waveVars, pos, bookVars, exchVars>>

Dropped == /\ pc = "drop" /\ batch = 0
           /\ pc' = "between"
           /\ UNCHANGED <<waveVars, pos, bookVars, batch, exchVars, msgs, snap, drift>>

ProcessOmsMessages == \/ Drain \/ HandleMapping \/ HandleRejection \/ HandleNew
                      \/ HandleTrade \/ HandleEnd \/ HandleUnknown \/ HandleGarbled
                      \/ Drop \/ Dropped

\* The process dies and is restarted: everything it knew is gone, and so is
\* what the listener had not handed over.  Requests already sent stay sent.
Crash == /\ "crash" \in Faults /\ pc # "boot"
         /\ pc' = "boot"
         /\ symbols' = Symbols /\ todo' = {} /\ covered' = {}
         /\ pos' = [s \in Symbols |-> 0]
         /\ drift' = [s \in Symbols |-> -epos[s]]
         /\ pending' = {} /\ mapped' = {}
         /\ rem' = [o \in Id |-> 0] /\ age' = [o \in Id |-> NoTs]
         /\ batch' = 0 /\ msgs' = <<>> /\ snap' = 0
         /\ answered' = FALSE /\ lapsed' = {}
         /\ UNCHANGED <<target, exchVars>>

Wave == \/ Top \/ CancelSymbol \/ Sleep \/ Settle \/ Refresh \/ Subscribe
        \/ SendOrder \/ NoOrder \/ WaveSent \/ NextWave

Next == Exchange \/ Wave \/ ProcessOmsMessages \/ Crash

Spec == Init /\ [][Next]_vars

\* The trader's loop never stops and the clock ends every wave; the exchange
\* answers what it is asked.  Fills, expiries and faults are owed by nobody.
FairSpec == /\ Spec
            /\ WF_vars(Wave \/ ProcessOmsMessages)
            /\ SF_vars(NextWave)
            /\ WF_vars(Accept \/ Reject \/ CancelOne \/ CancelDone)

-----------------------------------------------------------------------------
PCs == {"boot", "subscribe", "top", "cancel", "settle", "refresh", "send", "between", "drop"}

TypeOK == /\ pc \in PCs
          /\ symbols \subseteq Symbols /\ todo \subseteq Symbols /\ covered \subseteq Symbols
          /\ target \in [Symbols -> Targets]
          /\ pos \in [Symbols -> Int] /\ epos \in [Symbols -> Int]
          /\ pending \subseteq Id /\ mapped \subseteq Id
          /\ rem \in [Id -> Nat]
          /\ age \in [Id -> 0..StaleWaves \union {NoTs}]
          /\ live \in [Id -> Int]
          /\ reqs \in Seq(Req) /\ msgs \in Seq(Msg)
          /\ batch \in 0..Len(msgs) /\ snap \in 0..Len(msgs)
          /\ drift \in [Symbols -> Int]
          /\ answered \in BOOLEAN /\ lapsed \subseteq Id

\* "Clean slate each wave": when the trader sizes the order of a symbol it
\* cancels, none of an earlier wave is open or on its way.
CleanSlate == pc = "send" =>
    \A s \in todo \intersect symbols : \A o \in Id :
        /\ Own(o) /\ Sym(o) = s => live[o] = 0
        /\ \A i \in DOMAIN reqs : Sym(reqs[i].id) = s => reqs[i].typ = "cancel"

\* A trade is sized from the position that is held, when the refresh had an
\* answer and the symbol is cancelled: from the refresh until the order of a
\* symbol is decided nothing moves its position, though the orders of other
\* symbols are sent and filled meanwhile.
SizedAsHeld == pc = "send" /\ answered => \A s \in todo \intersect symbols : pos[s] = epos[s]

\* From the moment a wave's order is sent until the next wave, whatever is
\* filled, the position of a symbol that is cancelled never goes past both its
\* target and flat by more than what its limit price makes of the dollars,
\* counting what is open and what is on its way.  Only a wave without an
\* answer to its refresh may go further.  A symbol has one order at most.
Exposure(o) == epos[Sym(o)] + live[o]
Within(s, p, q) == answered => /\ q > 0 => p <= target[s] + Slack \/ p <= Slack
                               /\ q < 0 => p >= target[s] - Slack \/ p >= -Slack
Ordered(o) == Own(o) /\ Sym(o) \in symbols
NoOvershoot == pc \in {"send", "between", "drop"} =>
    /\ \A o \in Id : Ordered(o) => Within(Sym(o), Exposure(o), live[o])
    /\ \A i \in DOMAIN reqs : LET r == reqs[i] IN
           r.typ = "new" /\ Sym(r.id) \in symbols =>
               Within(Sym(r.id), epos[Sym(r.id)] + r.qty, r.qty)
    /\ \A o, p \in Id :
           Ordered(o) /\ Own(p) /\ Sym(o) = Sym(p) /\ live[o] # 0 /\ live[p] # 0 => o = p

\* The recorder's position is the exchange's, less the fills not yet handled,
\* but for the fills a refresh had counted already when they were handled and
\* the fills that were never told: refresh_positions and fill_order together
\* lose nothing else, whatever goes wrong.
Unseen(ms, seen, s) == [i \in 1..Len(ms) |->
    IF i > seen /\ ms[i].typ = "trade" /\ Sym(ms[i].id) = s THEN ms[i].qty ELSE 0]
PositionAccounted == \A s \in Symbols : pos[s] = epos[s] - SumOf(Unseen(msgs, snap, s)) + drift[s]

\* Without crash or loss the book of outstanding orders is the exchange's as
\* of the last message handled, for the symbols that are cancelled: an order is
\* in it with the quantity that is open, filled or ended behind the trader's
\* back, and only while its end has not been handled.  What ended by an event
\* the trader does not know stays in it, is open no more, and nothing more will
\* be heard of it.
Opens(m, o) == m.id = o /\ m.typ = "new"
Closes(m, o) == m.id = o /\ m.typ \in {"trade", "end", "expired"}
Opened(ms, o) == [i \in 1..Len(ms) |-> IF Opens(ms[i], o) THEN ms[i].qty ELSE 0]
Closed(ms, o) == [i \in 1..Len(ms) |-> IF Closes(ms[i], o) THEN Abs(ms[i].qty) ELSE 0]
Silent(ms, o) == \A i \in DOMAIN ms : ~Opens(ms[i], o) /\ ~Closes(ms[i], o)
BookAgrees == \A o \in Id : Sym(o) \in symbols =>
    IF o \in lapsed
    THEN rem[o] # 0 /\ live[o] = 0 /\ Silent(msgs, o)
    ELSE rem[o] = Abs(live[o]) - SumOf(Opened(msgs, o)) + SumOf(Closed(msgs, o))

\* The sweep of stale orders takes only expired ones off the book: the cancels
\* of the wave after its own end every other order, and its last message is
\* handled before the wave after that, so that report_unfilled_orders forgets
\* none that may still be filled.
SweptHaveExpired == pc = "top" =>
    \A o \in Id : Sym(o) \in symbols /\ age[o] = StaleWaves => o \in lapsed
=============================================================================
