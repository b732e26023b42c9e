--------------------------- MODULE TraderOms_proofs ---------------------------
(***************************************************************************)
(* Proofs about TraderOms, for every set of symbols, order names, targets  *)
(* and bounds: the types; the accounts of the position, whatever goes      *)
(* wrong; the clean slate and the bound on overshoot for the symbols that  *)
(* are cancelled, as long as the cancels are done when the trader wakes up;*)
(* and the agreement of the book with the exchange, but for orders that    *)
(* EXPIRED, as long as nothing is lost.                                    *)
(***************************************************************************)
EXTENDS TraderOms, Sums_proofs

-----------------------------------------------------------------------------
(* Helpers.                                                                *)

\* The symbol of an order, and the order name of a symbol's foreign order.
LEMMA IdTyped == /\ \A o \in Id : Sym(o) \in Symbols
                 /\ \A s \in Symbols : <<s, 0>> \in Id /\ Sym(<<s, 0>>) = s
                                       /\ ~Own(<<s, 0>>)
  BY DEF Id, Sym, Own

\* A message made by M is a message.
LEMMA MsgTyped ==
    \A o \in Id :
        /\ \A typ \in {"map", "new", "garbled", "end", "expired", "reject"} : \A q \in Nat : M(typ, o, q) \in Msg
        /\ \A q \in Int : M("trade", o, q) \in Msg
  BY DEF M, Msg

\* Messages added to the stream leave it typed.
LEMMA ConcatTyped ==
    ASSUME TypeOK
    PROVE  \A ms \in Seq(Msg) : /\ msgs \o ms \in Seq(Msg)
                               /\ batch \in 0..Len(msgs \o ms)
                               /\ snap \in 0..Len(msgs \o ms)
<1> SUFFICES ASSUME NEW ms \in Seq(Msg)
             PROVE  /\ msgs \o ms \in Seq(Msg)
                    /\ batch \in 0..Len(msgs \o ms) /\ snap \in 0..Len(msgs \o ms)
  OBVIOUS
<1>1. msgs \o ms \in Seq(Msg) /\ Len(msgs \o ms) = Len(msgs) + Len(ms)
  BY ConcatProperties DEF TypeOK
<1>. QED BY <1>1, LenProperties DEF TypeOK

\* So does telling or missing an event.
LEMMA EmitTyped ==
    ASSUME TypeOK, NEW ms \in Seq(Msg), Emit(ms)
    PROVE  /\ msgs' \in Seq(Msg) /\ drift' \in [Symbols -> Int]
           /\ batch \in 0..Len(msgs') /\ snap \in 0..Len(msgs')
<1>1. CASE msgs' = msgs \o ms
  BY <1>1, ConcatTyped DEF Emit, TypeOK
<1>2. CASE UNCHANGED msgs
  BY <1>2 DEF Emit, TypeOK
<1>. QED BY <1>1, <1>2 DEF Emit

\* Taking the next drained message leaves the stream typed.
LEMMA TakeTyped ==
    ASSUME TypeOK, Take
    PROVE  /\ Head(msgs) \in Msg /\ msgs' \in Seq(Msg)
           /\ batch' \in 0..Len(msgs') /\ snap' \in 0..Len(msgs')
<1>1. msgs # <<>> /\ msgs \in Seq(Msg)
  BY DEF TypeOK, Take
<1>2. Head(msgs) \in Msg /\ Tail(msgs) \in Seq(Msg) /\ Len(Tail(msgs)) = Len(msgs) - 1
  BY <1>1, HeadTailProperties
<1>. QED BY <1>2, LenProperties DEF TypeOK, Take

\* So does taking the next request.
LEMMA RequestTyped ==
    ASSUME TypeOK, reqs # <<>>
    PROVE  Head(reqs) \in Req /\ Tail(reqs) \in Seq(Req)
  BY HeadTailProperties DEF TypeOK

-----------------------------------------------------------------------------
(* Typing.                                                                 *)

\* The initial state is well typed.
LEMMA InitTyped == Init => TypeOK
<1> SUFFICES ASSUME Init PROVE TypeOK
  OBVIOUS
<1>1. answered \in BOOLEAN /\ lapsed \subseteq Id
  BY DEF Init
<1>2. /\ msgs = <<>> /\ reqs = <<>> /\ Len(msgs) = 0
      /\ <<>> \in Seq(Msg) /\ <<>> \in Seq(Req)
  BY DEF Init
<1>. QED BY <1>1, <1>2, BoundsAssumption DEF Init, TypeOK, PCs, NoTs

\* Every step of the exchange leaves the types.
LEMMA ExchangeTyped == ASSUME TypeOK, Exchange PROVE TypeOK'
<1>1. CASE Accept
  <2>1. Head(reqs) \in Req /\ Tail(reqs) \in Seq(Req)
    BY <1>1, RequestTyped DEF Accept
  <2>2. /\ Head(reqs).id \in Id /\ Head(reqs).qty \in Int
        /\ Sym(Head(reqs).id) \in Symbols /\ Abs(Head(reqs).qty) \in Nat
    BY <2>1, IdTyped DEF Req, Abs
  <2>3. <<M("map", Head(reqs).id, 0), M("new", Head(reqs).id, Abs(Head(reqs).qty))>> \in Seq(Msg)
    BY <2>2, MsgTyped
  <2>4. /\ msgs' \in Seq(Msg) /\ drift' \in [Symbols -> Int]
        /\ batch \in 0..Len(msgs') /\ snap \in 0..Len(msgs')
    BY <1>1, <2>2, <2>3, EmitTyped DEF Accept
  <2>. QED BY <1>1, <2>1, <2>2, <2>4 DEF Accept, TypeOK, waveVars, bookVars
<1>2. CASE Reject
  <2>1. Head(reqs) \in Req /\ Tail(reqs) \in Seq(Req)
    BY <1>2, RequestTyped DEF Reject
  <2>2. Head(reqs).id \in Id /\ Sym(Head(reqs).id) \in Symbols
    BY <2>1, IdTyped DEF Req
  <2>3. <<M("reject", Head(reqs).id, 0)>> \in Seq(Msg)
    BY <2>2, MsgTyped
  <2>4. /\ msgs' \in Seq(Msg) /\ drift' \in [Symbols -> Int]
        /\ batch \in 0..Len(msgs') /\ snap \in 0..Len(msgs')
    BY <1>2, <2>2, <2>3, EmitTyped DEF Reject
  <2>. QED BY <1>2, <2>1, <2>4 DEF Reject, TypeOK, waveVars, bookVars
<1>3. ASSUME NEW o \in Id, NEW typ \in {"end", "expired"}, EndOrder(o, typ),
             UNCHANGED <<pc, waveVars, pos, bookVars, batch, epos, reqs, snap>>
      PROVE  TypeOK'
  <2>1. Sym(o) \in Symbols /\ Abs(live[o]) \in Nat
    BY IdTyped DEF TypeOK, Abs
  <2>2. <<M(typ, o, Abs(live[o]))>> \in Seq(Msg)
    BY <2>1, MsgTyped
  <2>3. /\ msgs' \in Seq(Msg) /\ drift' \in [Symbols -> Int]
        /\ batch \in 0..Len(msgs') /\ snap \in 0..Len(msgs')
    BY <1>3, <2>1, <2>2, EmitTyped DEF EndOrder
  <2>. QED BY <1>3, <2>3 DEF EndOrder, TypeOK, waveVars, bookVars
<1>4. CASE CancelOne
  BY <1>4, <1>3 DEF CancelOne
<1>5. CASE CancelDone
  BY <1>5, RequestTyped DEF CancelDone, TypeOK, waveVars, bookVars
<1>6. CASE LoseRequest
  BY <1>6, RequestTyped DEF LoseRequest, TypeOK, waveVars, bookVars
<1>7. CASE Fill
  <2>1. PICK o \in Id : \E q \in Between(0, live[o]) \ {0} :
            /\ live' = [live EXCEPT ![o] = @ - q]
            /\ epos' = [epos EXCEPT ![Sym(o)] = @ + q]
            /\ \/ msgs' = Append(msgs, M("trade", o, q)) /\ UNCHANGED drift
               \/ drift' = [drift EXCEPT ![Sym(o)] = @ - q] /\ UNCHANGED msgs
    BY <1>7 DEF Fill
  <2>2. PICK q \in Between(0, live[o]) \ {0} :
            /\ live' = [live EXCEPT ![o] = @ - q]
            /\ epos' = [epos EXCEPT ![Sym(o)] = @ + q]
            /\ \/ msgs' = Append(msgs, M("trade", o, q)) /\ UNCHANGED drift
               \/ drift' = [drift EXCEPT ![Sym(o)] = @ - q] /\ UNCHANGED msgs
    BY <2>1
  <2>3. q \in Int /\ Sym(o) \in Symbols
    BY IdTyped DEF Between, TypeOK
  <2>4. M("trade", o, q) \in Msg
    BY <2>3, MsgTyped
  <2>5. msgs' \in Seq(Msg) /\ batch \in 0..Len(msgs') /\ snap \in 0..Len(msgs')
    <3>1. CASE msgs' = Append(msgs, M("trade", o, q))
      <4>1. msgs' \in Seq(Msg) /\ Len(msgs') = Len(msgs) + 1
        BY <3>1, <2>4, AppendProperties DEF TypeOK
      <4>. QED BY <4>1, LenProperties DEF TypeOK
    <3>2. CASE UNCHANGED msgs
      BY <3>2 DEF TypeOK
    <3>. QED BY <2>2, <3>1, <3>2
  <2>6. drift' \in [Symbols -> Int] /\ live' \in [Id -> Int] /\ epos' \in [Symbols -> Int]
    BY <2>2, <2>3 DEF TypeOK
  <2>. QED BY <1>7, <2>5, <2>6 DEF Fill, TypeOK, waveVars, bookVars
<1>8. CASE Expire
  BY <1>8, <1>3 DEF Expire
<1>9. CASE Autoclose
  <2>1. PICK s \in Symbols : 
            /\ live' = [live EXCEPT ![<<s, 0>>] = -epos[s]]
            /\ \E typ \in {"new", "garbled"} : Emit(<<M(typ, <<s, 0>>, Abs(epos[s]))>>)
    BY <1>9 DEF Autoclose
  <2>2. PICK typ \in {"new", "garbled"} : Emit(<<M(typ, <<s, 0>>, Abs(epos[s]))>>)
    BY <2>1
  <2>3. <<s, 0>> \in Id /\ Abs(epos[s]) \in Nat /\ -epos[s] \in Int
    BY IdTyped DEF TypeOK, Abs
  <2>4. <<M(typ, <<s, 0>>, Abs(epos[s]))>> \in Seq(Msg)
    BY <2>3, MsgTyped
  <2>5. /\ msgs' \in Seq(Msg) /\ drift' \in [Symbols -> Int]
        /\ batch \in 0..Len(msgs') /\ snap \in 0..Len(msgs')
    BY <2>2, <2>4, EmitTyped
  <2>. QED BY <1>9, <2>1, <2>3, <2>5 DEF Autoclose, TypeOK, waveVars, bookVars
<1>. QED BY <1>1, <1>2, <1>4, <1>5, <1>6, <1>7, <1>8, <1>9 DEF Exchange

\* An order's quantity is a whole number of contracts, and never none.
LEMMA QtyTyped ==
    ASSUME TypeOK, NEW s \in Symbols
    PROVE  \A q \in OrderQty(s) : q \in Int /\ q # 0
<1> SUFFICES ASSUME NEW q \in OrderQty(s) PROVE q \in Int /\ q # 0
  OBVIOUS
<1>1. PICK n \in Enlarge, p \in UNION {AtLimit(k) : k \in TradeQty(s)} : q = n * p
  BY DEF OrderQty
<1>2. PICK k \in TradeQty(s) : p \in AtLimit(k)
  BY <1>1
<1>3. k \in Int /\ k # 0
  BY TargetsAssumption DEF TradeQty, Between, TypeOK
<1>4. p \in Int /\ p # 0
  BY <1>2, <1>3, BoundsAssumption DEF AtLimit
<1>5. n \in {1, 2, 3, 6}
  BY <1>1 DEF Enlarge
<1>6. \A i \in {1, 2, 3, 6} : i * p \in Int /\ i * p # 0
  BY <1>4
<1>. QED BY <1>1, <1>5, <1>6

\* So does every step of the wave loop.
LEMMA WaveTyped == ASSUME TypeOK, Wave PROVE TypeOK'
<1> USE DEF TypeOK, PCs, waveVars, bookVars, exchVars
<1>1. ASSUME NEW s \in Symbols, CancelAll(s)
      PROVE  reqs' \in Seq(Req)
  <2>1. M("cancel", <<s, 0>>, 0) \in Req
    BY IdTyped DEF M, Req
  <2>. QED BY <1>1, <2>1, AppendProperties DEF CancelAll
<1>2. CASE Top
  <2>1. age' \in [Id -> 0..StaleWaves \union {NoTs}]
    BY <1>2, BoundsAssumption DEF Top, NoTs
  <2>2. target' \in [Symbols -> Targets] /\ covered' \subseteq Symbols
    BY <1>2 DEF Top
  <2>3. rem' \in [Id -> Nat] /\ mapped' \subseteq Id
    BY <1>2 DEF Top
  <2>. QED BY <1>2, <2>1, <2>2, <2>3 DEF Top
<1>3. CASE CancelSymbol
  BY <1>3, <1>1 DEF CancelSymbol
<1>4. CASE Sleep
  BY <1>4 DEF Sleep
<1>5. CASE Settle
  BY <1>5 DEF Settle
<1>6. CASE Refresh
  <2>1. Len(msgs) \in Nat
    BY LenProperties
  <2>2. answered' \in BOOLEAN
    BY <1>6, Zenon DEF Refresh
  <2>3. CASE UNCHANGED <<pos, snap, drift>>
    BY <1>6, <2>2, <2>3 DEF Refresh
  <2>4. CASE pos' = epos /\ snap' = Len(msgs) /\ drift' = [s \in Symbols |-> 0]
    <3>1. snap' \in 0..Len(msgs) /\ pos' \in [Symbols -> Int] /\ drift' \in [Symbols -> Int]
      BY <2>1, <2>4
    <3>. QED BY <1>6, <2>2, <3>1 DEF Refresh
  <2>. QED BY <1>6, <2>3, <2>4, Zenon DEF Refresh
<1>7. CASE Subscribe
  BY <1>7 DEF Subscribe
<1>8. CASE SendOrder
  <2>1. PICK s \in todo \intersect covered : \E o \in Id : \E q \in OrderQty(s) :
            /\ reqs' = Append(reqs, M("new", o, q))
            /\ pending' = pending \union {o} \/ UNCHANGED pending
    BY <1>8 DEF SendOrder
  <2>2. PICK o \in Id : \E q \in OrderQty(s) :
            /\ reqs' = Append(reqs, M("new", o, q))
            /\ pending' = pending \union {o} \/ UNCHANGED pending
    BY <2>1
  <2>3. PICK q \in OrderQty(s) :
            /\ reqs' = Append(reqs, M("new", o, q))
            /\ pending' = pending \union {o} \/ UNCHANGED pending
    BY <2>2
  <2>4. q \in Int
    BY <2>3, QtyTyped
  <2>5. M("new", o, q) \in Req
    BY <2>4 DEF M, Req
  <2>6. reqs' \in Seq(Req) /\ pending' \subseteq Id
    BY <2>3, <2>5, AppendProperties
  <2>. QED BY <1>8, <2>6 DEF SendOrder
<1>9. CASE NoOrder
  BY <1>9, <1>1 DEF NoOrder
<1>10. CASE WaveSent
  BY <1>10, LenProperties DEF WaveSent
<1>11. CASE NextWave
  BY <1>11 DEF NextWave
<1>. QED BY <1>2, <1>3, <1>4, <1>5, <1>6, <1>7, <1>8, <1>9, <1>10, <1>11 DEF Wave

\* So does every step of process_oms_messages.
LEMMA ProcessTyped == ASSUME TypeOK, ProcessOmsMessages PROVE TypeOK'
<1> USE DEF TypeOK, PCs, waveVars, bookVars, exchVars
<1>1. CASE Drain
  BY <1>1, LenProperties DEF Drain
<1>2. ASSUME Take
      PROVE  /\ Head(msgs).id \in Id /\ Head(msgs).qty \in Int
             /\ Sym(Head(msgs).id) \in Symbols
             /\ msgs' \in Seq(Msg) /\ batch' \in 0..Len(msgs') /\ snap' \in 0..Len(msgs')
  <2>1. Head(msgs) \in Msg
    BY <1>2, TakeTyped
  <2>2. Head(msgs).id \in Id /\ Head(msgs).qty \in Int
    BY <2>1 DEF Msg
  <2>3. msgs' \in Seq(Msg) /\ batch' \in 0..Len(msgs') /\ snap' \in 0..Len(msgs')
    BY <1>2, TakeTyped
  <2>. QED BY <2>2, <2>3, IdTyped
<1>3. CASE HandleMapping
  BY <1>3, <1>2 DEF HandleMapping
<1>4. CASE HandleRejection
  BY <1>4, <1>2 DEF HandleRejection
<1>5. CASE HandleNew
  <2>1. Head(msgs) \in Msg
    BY <1>5, TakeTyped DEF HandleNew
  <2>2. Head(msgs).qty \in Nat
    BY <1>5, <2>1 DEF HandleNew, Msg
  <2>3. rem' \in [Id -> Nat] /\ age' \in [Id -> 0..StaleWaves \union {NoTs}] /\ pending' \subseteq Id
    BY <1>5, <1>2, <2>2, BoundsAssumption DEF HandleNew
  <2>. QED BY <1>5, <1>2, <2>3 DEF HandleNew
<1>6. CASE HandleTrade
  <2> DEFINE o == Head(msgs).id
             q == Head(msgs).qty
             left == Left(rem[o], Abs(q))
  <2>1. o \in Id /\ q \in Int /\ Sym(o) \in Symbols
    BY <1>6, <1>2 DEF HandleTrade
  <2>2. left \in Nat
    BY <2>1 DEF Left, Abs
  <2>3. /\ pos' = [pos EXCEPT ![Sym(o)] = @ + q]
        /\ drift' = IF snap = 0 THEN drift ELSE [drift EXCEPT ![Sym(o)] = @ + q]
        /\ rem' = [rem EXCEPT ![o] = left]
        /\ age' = [age EXCEPT ![o] = IF left = 0 THEN NoTs ELSE @]
        /\ mapped' \subseteq mapped
    BY <1>6 DEF HandleTrade, AddFill
  <2>4. pos' \in [Symbols -> Int] /\ drift' \in [Symbols -> Int]
    BY <2>1, <2>3
  <2>5. rem' \in [Id -> Nat] /\ age' \in [Id -> 0..StaleWaves \union {NoTs}]
    BY <2>1, <2>2, <2>3
  <2>6. mapped' \subseteq Id
    BY <2>3
  <2> HIDE DEF left, o, q
  <2>. QED BY <1>6, <1>2, <2>4, <2>5, <2>6 DEF HandleTrade
<1>7. CASE HandleEnd
  BY <1>7, <1>2 DEF HandleEnd
<1>8. CASE HandleUnknown \/ HandleGarbled
  BY <1>8, <1>2 DEF HandleUnknown, HandleGarbled
<1>9. CASE Drop
  <2>1. drift' \in [Symbols -> Int]
    BY <1>9, <1>2 DEF Drop
  <2>. QED BY <1>9, <1>2, <2>1 DEF Drop
<1>10. CASE Dropped
  BY <1>10 DEF Dropped
<1>. QED BY <1>1, <1>3, <1>4, <1>5, <1>6, <1>7, <1>8, <1>9, <1>10 DEF ProcessOmsMessages

\* And the restart.
LEMMA CrashTyped == ASSUME TypeOK, Crash PROVE TypeOK'
<1>1. /\ msgs' = <<>> /\ batch' = 0 /\ snap' = 0 /\ Len(msgs') = 0
      /\ <<>> \in Seq(Msg)
  BY DEF Crash
<1>2. drift' \in [Symbols -> Int] /\ pos' \in [Symbols -> Int]
  BY DEF Crash, TypeOK
<1>3. answered' \in BOOLEAN /\ lapsed' \subseteq Id
  BY DEF Crash
<1>. QED BY <1>1, <1>2, <1>3, BoundsAssumption DEF Crash, TypeOK, PCs, exchVars, NoTs

\* The typing invariant holds whatever may go wrong.
THEOREM TypeCorrect == Spec => []TypeOK
<1>1. TypeOK /\ [Next]_vars => TypeOK'
  <2> SUFFICES ASSUME TypeOK, [Next]_vars PROVE TypeOK'
    OBVIOUS
  <2>1. CASE UNCHANGED vars
    BY <2>1 DEF vars, TypeOK, waveVars, bookVars, exchVars
  <2>. QED BY <2>1, ExchangeTyped, WaveTyped, ProcessTyped, CrashTyped DEF Next
<1>. QED BY <1>1, InitTyped, PTL DEF Spec

-----------------------------------------------------------------------------
(* The queue of requests.                                                  *)

\* What is behind the first request moves up by one.
LEMMA TailOfReqs ==
    ASSUME TypeOK, reqs # <<>>, reqs' = Tail(reqs)
    PROVE  /\ 1 \in DOMAIN reqs /\ Head(reqs) = reqs[1]
           /\ DOMAIN reqs \subseteq Int /\ \A j \in DOMAIN reqs : j >= 1
           /\ DOMAIN reqs' \subseteq Int /\ \A i \in DOMAIN reqs' : i >= 1
           /\ \A i \in DOMAIN reqs' : i + 1 \in DOMAIN reqs /\ reqs'[i] = reqs[i + 1]
           /\ \A j \in DOMAIN reqs : j > 1 => j - 1 \in DOMAIN reqs' /\ reqs'[j - 1] = reqs[j]
<1>1. reqs \in Seq(Req) /\ Len(reqs) \in Nat /\ Len(reqs) >= 1
  BY EmptySeq, LenProperties DEF TypeOK
<1>2. /\ Head(reqs) = reqs[1] /\ Len(reqs') = Len(reqs) - 1 /\ reqs' \in Seq(Req)
      /\ \A i \in 1..Len(reqs') : reqs'[i] = reqs[i + 1]
  BY <1>1, HeadTailProperties
<1>3. DOMAIN reqs = 1..Len(reqs) /\ DOMAIN reqs' = 1..Len(reqs')
  BY <1>1, <1>2, LenProperties
<1>. QED BY <1>1, <1>2, <1>3

\* A request sent is behind all the others.
LEMMA AppendToReqs ==
    ASSUME TypeOK, NEW r \in Req, reqs' = Append(reqs, r)
    PROVE  \E n \in Nat :
           /\ n \in DOMAIN reqs' /\ n > 0 /\ reqs'[n] = r
           /\ DOMAIN reqs \subseteq Int /\ \A i \in DOMAIN reqs : i < n
           /\ \A i \in DOMAIN reqs : i \in DOMAIN reqs' /\ reqs'[i] = reqs[i]
           /\ \A i \in DOMAIN reqs' : i = n \/ i \in DOMAIN reqs
<1>1. reqs \in Seq(Req) /\ Len(reqs) \in Nat
  BY LenProperties DEF TypeOK
<1>2. /\ reqs' \in Seq(Req) /\ Len(reqs') = Len(reqs) + 1 /\ reqs'[Len(reqs) + 1] = r
      /\ \A i \in 1..Len(reqs) : reqs'[i] = reqs[i]
  BY <1>1, AppendProperties
<1>3. DOMAIN reqs = 1..Len(reqs) /\ DOMAIN reqs' = 1..Len(reqs')
  BY <1>1, <1>2, LenProperties
<1>. WITNESS Len(reqs) + 1 \in Nat
<1>. QED BY <1>1, <1>2, <1>3

\* A request is one for a new order or a cancel.
LEMMA ReqAt == ASSUME TypeOK
               PROVE  \A i \in DOMAIN reqs : /\ reqs[i] \in Req /\ reqs[i].id \in Id
                                             /\ reqs[i].qty \in Int /\ Sym(reqs[i].id) \in Symbols
                                             /\ reqs[i].typ = "new" \/ reqs[i].typ = "cancel"
<1>1. \A i \in DOMAIN reqs : reqs[i] \in Req
  BY ElementOfSeq, LenProperties DEF TypeOK
<1>. QED BY <1>1, IdTyped DEF Req

-----------------------------------------------------------------------------
(* The invariant of the slate.                                             *)


New(i, s) == reqs[i].typ = "new" /\ Sym(reqs[i].id) = s
Open(o, s) == Own(o) /\ Sym(o) = s /\ live[o] # 0

\* A request to cancel the orders of s waits behind the i-th request.
CancelBehind(i, s) ==
    \E j \in DOMAIN reqs : i < j /\ reqs[j].typ = "cancel" /\ Sym(reqs[j].id) = s

\* Whatever of s is open or on its way will be cancelled before the queue is empty.
Doomed(s) == /\ \A o \in Id : Open(o, s) => CancelBehind(0, s)
             /\ \A i \in DOMAIN reqs : New(i, s) => CancelBehind(i, s)

\* Nothing of s is open or on its way.
Idle(s) == /\ \A o \in Id : ~Open(o, s)
           /\ \A i \in DOMAIN reqs : ~New(i, s)

\* The inductive invariant: the sleep begins only when everything is doomed,
\* so that an empty queue at its end means that everything is idle.
SlateInv == /\ pc \in {"cancel", "settle"} => \A s \in symbols \ todo : Doomed(s)
            /\ pc = "settle" => todo = {}
            /\ pc = "refresh" => \A s \in symbols : Idle(s)
            /\ pc = "send" => \A s \in todo \intersect symbols : Idle(s)

\* The cancels of a wave get through, and are done before the trader wakes up.
Prompt == "late" \notin Faults /\ "lost_request" \notin Faults

\* What a step of the exchange does to the queue and to the open orders: it
\* fills or ends some, or executes the first request.
LEMMA ExchangeStep ==
    ASSUME TypeOK, "lost_request" \notin Faults, Exchange
    PROVE  /\ UNCHANGED <<pc, symbols, todo, target, covered, answered, pos>>
           /\ \/ /\ UNCHANGED reqs
                 /\ \A o \in Id : Own(o) /\ live'[o] # 0 => live[o] # 0
              \/ /\ reqs # <<>> /\ reqs' = Tail(reqs) /\ Head(reqs).typ = "new"
                 /\ \A o \in Id : live'[o] # 0 => live[o] # 0 \/ o = Head(reqs).id
              \/ /\ reqs # <<>> /\ reqs' = Tail(reqs) /\ Head(reqs).typ = "cancel"
                 /\ live' = live
                 /\ \A o \in Id : ~Open(o, Sym(Head(reqs).id))
<1>1. CASE Accept
  BY <1>1 DEF Accept, TypeOK, waveVars
<1>2. CASE Reject
  BY <1>2 DEF Reject, waveVars
<1>3. CASE CancelOne
  <2>1. PICK o \in Id : live' = [live EXCEPT ![o] = 0]
    BY <1>3 DEF CancelOne, EndOrder
  <2>. QED BY <1>3, <2>1 DEF CancelOne, TypeOK, waveVars
<1>4. CASE CancelDone
  BY <1>4 DEF CancelDone, Open, waveVars
<1>5. CASE LoseRequest
  BY <1>5 DEF LoseRequest
<1>6. CASE Fill
  <2>1. PICK o \in Id : \E q \in Between(0, live[o]) \ {0} : live' = [live EXCEPT ![o] = @ - q]
    BY <1>6 DEF Fill
  <2>2. PICK q \in Between(0, live[o]) \ {0} : live' = [live EXCEPT ![o] = @ - q]
    BY <2>1
  <2>3. live[o] # 0
    BY <2>2 DEF Between
  <2>. QED BY <1>6, <2>2, <2>3 DEF Fill, TypeOK, waveVars
<1>7. CASE Expire
  <2>1. PICK o \in Id : live' = [live EXCEPT ![o] = 0]
    BY <1>7 DEF Expire, EndOrder
  <2>. QED BY <1>7, <2>1 DEF Expire, TypeOK, waveVars
<1>8. CASE Autoclose
  <2>1. PICK s \in Symbols : live' = [live EXCEPT ![<<s, 0>>] = -epos[s]]
    BY <1>8 DEF Autoclose
  <2>2. \A o \in Id : Own(o) => o # <<s, 0>>
    BY IdTyped
  <2>. QED BY <1>8, <2>1, <2>2 DEF Autoclose, TypeOK, waveVars
<1>. QED BY <1>1, <1>2, <1>3, <1>4, <1>5, <1>6, <1>7, <1>8 DEF Exchange

\* When the first request is done, a cancel behind it has moved up.
LEMMA CancelMovesUp ==
    ASSUME TypeOK, reqs # <<>>, reqs' = Tail(reqs),
           NEW s \in Symbols, NEW i \in Nat, CancelBehind(i + 1, s)
    PROVE  CancelBehind(i, s)'
<1>1. PICK j \in DOMAIN reqs : i + 1 < j /\ reqs[j].typ = "cancel" /\ Sym(reqs[j].id) = s
  BY DEF CancelBehind
<1>2. j \in Int /\ j > 1
  BY <1>1, TailOfReqs
<1>3. j - 1 \in DOMAIN reqs' /\ reqs'[j - 1] = reqs[j] /\ i < j - 1
  BY <1>1, <1>2, TailOfReqs
<1>. QED BY <1>1, <1>3 DEF CancelBehind

\* Doomed orders stay so until the cancel that dooms them is done.
LEMMA ExchangeDooms ==
    ASSUME TypeOK, Prompt, Exchange, NEW s \in Symbols, Doomed(s)
    PROVE  Doomed(s)'
<1>1. CASE UNCHANGED reqs /\ \A o \in Id : Own(o) /\ live'[o] # 0 => live[o] # 0
  <2>1. \A o \in Id : Open(o, s)' => Open(o, s)
    BY <1>1 DEF Open
  <2>. QED BY <1>1, <2>1 DEF Doomed, New, CancelBehind
<1>2. ASSUME reqs # <<>>, reqs' = Tail(reqs),
             \A o \in Id : Open(o, s)' => CancelBehind(1, s)
      PROVE  Doomed(s)'
  <2>1. \A o \in Id : Open(o, s)' => CancelBehind(0, s)'
    <3>1. CancelBehind(0 + 1, s) => CancelBehind(0, s)'
      BY <1>2, CancelMovesUp
    <3>. QED BY <1>2, <3>1
  <2>2. ASSUME NEW i \in DOMAIN reqs', New(i, s)'
        PROVE  CancelBehind(i, s)'
    <3>1. i \in Nat /\ i + 1 \in DOMAIN reqs /\ reqs'[i] = reqs[i + 1]
      BY <1>2, TailOfReqs
    <3>2. CancelBehind(i + 1, s)
      BY <2>2, <3>1 DEF Doomed, New
    <3>. QED BY <1>2, <3>1, <3>2, CancelMovesUp
  <2>. QED BY <2>1, <2>2 DEF Doomed
<1>3. CASE /\ reqs # <<>> /\ reqs' = Tail(reqs) /\ Head(reqs).typ = "new"
           /\ \A o \in Id : live'[o] # 0 => live[o] # 0 \/ o = Head(reqs).id
  <2>1. 1 \in DOMAIN reqs /\ Head(reqs) = reqs[1] /\ DOMAIN reqs \subseteq Int /\ \A j \in DOMAIN reqs : j >= 1
    BY <1>3, TailOfReqs
  <2>2. CancelBehind(0, s) => CancelBehind(1, s)
    BY <1>3, <2>1 DEF CancelBehind
  <2>3. ASSUME NEW o \in Id, Open(o, s)'
        PROVE  CancelBehind(1, s)
    <3>1. CASE Open(o, s)
      BY <3>1, <2>2 DEF Doomed
    <3>2. CASE o = Head(reqs).id
      BY <1>3, <2>1, <2>3, <3>2 DEF Doomed, New, Open
    <3>. QED BY <1>3, <2>3, <3>1, <3>2 DEF Open
  <2>. QED BY <1>2, <1>3, <2>3
<1>4. CASE /\ reqs # <<>> /\ reqs' = Tail(reqs) /\ Head(reqs).typ = "cancel"
           /\ live' = live
           /\ \A o \in Id : ~Open(o, Sym(Head(reqs).id))
  <2>1. 1 \in DOMAIN reqs /\ Head(reqs) = reqs[1] /\ DOMAIN reqs \subseteq Int /\ \A j \in DOMAIN reqs : j >= 1
    BY <1>4, TailOfReqs
  <2>2. ASSUME NEW o \in Id, Open(o, s)'
        PROVE  CancelBehind(1, s)
    <3>1. Open(o, s) /\ Sym(reqs[1].id) # s
      BY <1>4, <2>1, <2>2 DEF Open
    <3>2. CancelBehind(0, s)
      BY <3>1 DEF Doomed
    <3>. QED BY <2>1, <3>1, <3>2 DEF CancelBehind
  <2>. QED BY <1>2, <1>4, <2>2
<1>. QED BY <1>1, <1>3, <1>4, ExchangeStep DEF Prompt

\* An idle symbol stays idle until the trader sends an order for it.
LEMMA ExchangeIdles ==
    ASSUME TypeOK, Prompt, Exchange, NEW s \in Symbols, Idle(s)
    PROVE  Idle(s)'
<1>1. CASE UNCHANGED reqs /\ \A o \in Id : Own(o) /\ live'[o] # 0 => live[o] # 0
  BY <1>1 DEF Idle, Open, New
<1>2. ASSUME reqs # <<>>, reqs' = Tail(reqs), NEW i \in DOMAIN reqs'
      PROVE  ~New(i, s)'
  BY <1>2, TailOfReqs DEF Idle, New
<1>3. CASE /\ reqs # <<>> /\ reqs' = Tail(reqs) /\ Head(reqs).typ = "new"
           /\ \A o \in Id : live'[o] # 0 => live[o] # 0 \/ o = Head(reqs).id
  <2>1. Sym(Head(reqs).id) # s
    BY <1>3, TailOfReqs DEF Idle, New
  <2>. QED BY <1>2, <1>3, <2>1 DEF Idle, Open
<1>4. CASE reqs # <<>> /\ reqs' = Tail(reqs) /\ live' = live
  BY <1>2, <1>4 DEF Idle, Open
<1>. QED BY <1>1, <1>3, <1>4, ExchangeStep DEF Prompt

\* A cancel sent dooms its symbol and leaves the others doomed or idle.
LEMMA CancelDooms ==
    ASSUME TypeOK, NEW s \in Symbols, CancelAll(s), UNCHANGED live
    PROVE  /\ Doomed(s)'
           /\ \A t \in Symbols : Doomed(t) => Doomed(t)'
           /\ \A t \in Symbols : Idle(t) => Idle(t)'
<1> DEFINE r == M("cancel", <<s, 0>>, 0)
<1>1. r \in Req /\ r.typ = "cancel" /\ Sym(r.id) = s
  BY IdTyped DEF M, Req
<1>2. PICK n \in Nat :
           /\ n \in DOMAIN reqs' /\ n > 0 /\ reqs'[n] = r
           /\ DOMAIN reqs \subseteq Int /\ \A i \in DOMAIN reqs : i < n
           /\ \A i \in DOMAIN reqs : i \in DOMAIN reqs' /\ reqs'[i] = reqs[i]
           /\ \A i \in DOMAIN reqs' : i = n \/ i \in DOMAIN reqs
  BY <1>1, AppendToReqs DEF CancelAll
<1> HIDE DEF r
<1>3. \A t \in Symbols : \A i \in DOMAIN reqs' : New(i, t)' => i \in DOMAIN reqs /\ New(i, t)
  BY <1>1, <1>2 DEF New
<1>4. \A t \in Symbols : \A o \in Id : Open(o, t)' <=> Open(o, t)
  BY DEF Open
<1>5. \A i \in DOMAIN reqs \union {0} : CancelBehind(i, s)'
  BY <1>1, <1>2 DEF CancelBehind
<1>6. \A t \in Symbols : \A i \in DOMAIN reqs \union {0} : CancelBehind(i, t) => CancelBehind(i, t)'
  BY <1>2 DEF CancelBehind
<1>7. Doomed(s)'
  BY <1>3, <1>5 DEF Doomed
<1>8. ASSUME NEW t \in Symbols, Doomed(t)
      PROVE  Doomed(t)'
  BY <1>3, <1>4, <1>6, <1>8 DEF Doomed
<1>9. ASSUME NEW t \in Symbols, Idle(t)
      PROVE  Idle(t)'
  BY <1>3, <1>4, <1>9 DEF Idle
<1>. QED BY <1>7, <1>8, <1>9

\* An order sent for one symbol leaves the others idle.
LEMMA SendIdles ==
    ASSUME TypeOK, NEW s \in Symbols, NEW o \in Id, Sym(o) = s, NEW q \in Int,
           reqs' = Append(reqs, M("new", o, q)), UNCHANGED live,
           NEW t \in Symbols \ {s}, Idle(t)
    PROVE  Idle(t)'
<1> DEFINE r == M("new", o, q)
<1>1. r \in Req /\ Sym(r.id) = s
  BY DEF M, Req
<1>2. PICK n \in Nat : /\ reqs'[n] = r
                       /\ \A i \in DOMAIN reqs : reqs'[i] = reqs[i]
                       /\ \A i \in DOMAIN reqs' : i = n \/ i \in DOMAIN reqs
  BY <1>1, AppendToReqs
<1> HIDE DEF r
<1>3. \A i \in DOMAIN reqs' : New(i, t)' => i \in DOMAIN reqs /\ New(i, t)
  BY <1>1, <1>2 DEF New
<1>. QED BY <1>3 DEF Idle, Open

\* What SendOrder sends.
LEMMA OrderSent ==
    ASSUME TypeOK, SendOrder
    PROVE  \E s \in todo \intersect covered : \E o \in Id : \E q \in OrderQty(s) :
               /\ Own(o) /\ Sym(o) = s /\ q \in Int
               /\ reqs' = Append(reqs, M("new", o, q))
               /\ pc = "send" /\ todo' = todo \ {s}
               /\ UNCHANGED <<pc, symbols, target, answered, pos, live, epos>>
<1>1. PICK s \in todo \intersect covered : \E o \in Id : \E q \in OrderQty(s) :
               /\ Own(o) /\ Sym(o) = s
               /\ reqs' = Append(reqs, M("new", o, q))
               /\ pc = "send" /\ todo' = todo \ {s}
               /\ UNCHANGED <<pc, symbols, target, answered, pos, live, epos>>
  BY DEF SendOrder
<1>2. \A q \in OrderQty(s) : q \in Int
  BY <1>1, QtyTyped DEF TypeOK
<1>. QED BY <1>1, <1>2

\* Every step of the wave loop keeps the slate.
LEMMA WaveSlate == ASSUME TypeOK, Prompt, SlateInv, Wave PROVE SlateInv'
<1>1. CASE Top
  BY <1>1 DEF Top, SlateInv
<1>2. CASE CancelSymbol
  <2>1. PICK s \in todo : /\ pc = "cancel" /\ pc' = "cancel" /\ CancelAll(s)
                          /\ todo' = todo \ {s} /\ UNCHANGED <<symbols, live>>
    BY <1>2 DEF CancelSymbol
  <2>2. s \in Symbols
    BY DEF TypeOK
  <2>3. \A t \in symbols \ todo' : Doomed(t)'
    BY <2>1, <2>2, CancelDooms DEF SlateInv, TypeOK
  <2>. QED BY <2>1, <2>3 DEF SlateInv
<1>3. CASE Sleep
  BY <1>3 DEF Sleep, SlateInv, Doomed, Open, New, CancelBehind, exchVars, waveVars
<1>4. CASE Settle
  <2>1. pc = "settle" /\ pc' = "refresh" /\ reqs = <<>> /\ UNCHANGED <<symbols, reqs, live>>
    BY <1>4 DEF Settle, Prompt, exchVars, waveVars
  <2>2. DOMAIN reqs = {}
    BY <2>1
  <2>3. \A s \in symbols : Doomed(s)
    BY <2>1 DEF SlateInv
  <2>4. \A s \in symbols : Idle(s)'
    BY <2>1, <2>2, <2>3 DEF Doomed, Idle, Open, New, CancelBehind
  <2>. QED BY <2>1, <2>4 DEF SlateInv
<1>5. CASE Refresh
  <2>1. \/ pc = "boot" /\ pc' = "subscribe"
        \/ pc = "refresh" /\ pc' = "send" /\ todo' = Symbols
    BY <1>5 DEF Refresh
  <2>2. UNCHANGED <<symbols, reqs, live>>
    BY <1>5 DEF Refresh, exchVars
  <2>3. ASSUME NEW s \in Symbols, Idle(s)
        PROVE  Idle(s)'
    BY <2>2, <2>3 DEF Idle, Open, New
  <2>. QED BY <2>1, <2>2, <2>3 DEF SlateInv, TypeOK
<1>6. CASE Subscribe
  BY <1>6 DEF Subscribe, SlateInv
<1>7. CASE SendOrder
  <2>1. PICK s \in todo \intersect covered : \E o \in Id : \E q \in OrderQty(s) :
               /\ Own(o) /\ Sym(o) = s /\ q \in Int
               /\ reqs' = Append(reqs, M("new", o, q))
               /\ pc = "send" /\ todo' = todo \ {s}
               /\ UNCHANGED <<pc, symbols, target, answered, pos, live, epos>>
    BY <1>7, OrderSent
  <2>2. \A t \in todo' \intersect symbols : Idle(t)'
    BY <2>1, SendIdles DEF SlateInv, TypeOK
  <2>. QED BY <2>1, <2>2 DEF SlateInv
<1>8. CASE NoOrder
  <2>1. PICK s \in todo : /\ pc = "send" /\ pc' = "send" /\ todo' = todo \ {s}
                          /\ UNCHANGED <<symbols, live>>
                          /\ UNCHANGED reqs \/ CancelAll(s)
    BY <1>8 DEF NoOrder
  <2>2. \A t \in todo' \intersect symbols : Idle(t)'
    <3>1. CASE UNCHANGED reqs
      BY <2>1, <3>1 DEF SlateInv, Idle, Open, New
    <3>2. CASE CancelAll(s)
      BY <2>1, <3>2, CancelDooms DEF SlateInv, TypeOK
    <3>. QED BY <2>1, <3>1, <3>2
  <2>. QED BY <2>1, <2>2 DEF SlateInv
<1>9. CASE WaveSent
  BY <1>9 DEF WaveSent, SlateInv
<1>10. CASE NextWave
  BY <1>10 DEF NextWave, SlateInv
<1>. QED BY <1>1, <1>2, <1>3, <1>4, <1>5, <1>6, <1>7, <1>8, <1>9, <1>10 DEF Wave

\* Messages are handled between waves and change nothing at the exchange.
LEMMA ProcessStep ==
    ASSUME ProcessOmsMessages
    PROVE  /\ pc \in {"between", "drop"} /\ pc' \in {"between", "drop"}
           /\ UNCHANGED <<symbols, todo, target, answered, live, epos, reqs>>
  BY DEF ProcessOmsMessages, Drain, HandleMapping, HandleRejection, HandleNew, HandleTrade,
         HandleEnd, HandleUnknown, HandleGarbled, Drop, Dropped, waveVars, exchVars

\* The slate is kept by every step.
LEMMA SlateStep == ASSUME TypeOK, Prompt, SlateInv, [Next]_vars PROVE SlateInv'
<1>1. CASE UNCHANGED vars
  BY <1>1 DEF vars, waveVars, exchVars, SlateInv, Doomed, Idle, Open, New, CancelBehind
<1>2. CASE Exchange
  <2>1. UNCHANGED <<pc, symbols, todo>>
    BY <1>2, ExchangeStep DEF Prompt
  <2>2. \A s \in Symbols : (Doomed(s) => Doomed(s)') /\ (Idle(s) => Idle(s)')
    BY <1>2, ExchangeDooms, ExchangeIdles
  <2>. QED BY <2>1, <2>2 DEF SlateInv, TypeOK
<1>3. CASE ProcessOmsMessages
  BY <1>3, ProcessStep DEF SlateInv
<1>4. CASE Crash
  BY <1>4 DEF Crash, SlateInv
<1>. QED BY <1>1, <1>2, <1>3, <1>4, WaveSlate DEF Next

\* Clean slate: when the cancels get through and are done within the sleep, no
\* order of an earlier wave is open or on its way when a symbol the trader
\* cancels is sized, though some symbols have no book at start-up, refreshes
\* fail, messages are lost, the exchange opens orders of its own and the trader
\* is restarted.
THEOREM SlateIsClean == ASSUME Prompt PROVE Spec => []CleanSlate
<1>1. Init => SlateInv
  BY DEF Init, SlateInv
<1>2. TypeOK /\ SlateInv /\ [Next]_vars => SlateInv'
  BY SlateStep
<1>3. TypeOK /\ SlateInv => CleanSlate
  BY ReqAt DEF SlateInv, CleanSlate, Idle, Open, New
<1>. QED BY <1>1, <1>2, <1>3, TypeCorrect, PTL DEF Spec

-----------------------------------------------------------------------------
(* No overshoot.                                                           *)

\* Moreover the exchange opens no order by itself: what a refresh answered is
\* the position the exchange has until the order is sent.
Steady == Prompt /\ "foreign" \notin Faults

\* And no order is enlarged.
Calm == Steady /\ {"thin_book", "overlay"} \intersect Faults = {}

\* One order of s at most, and it does not overshoot.
Single(s) ==
    /\ \A o \in Id : Open(o, s) => Within(s, epos[s] + live[o], live[o])
    /\ \A o, p \in Id : Open(o, s) /\ Open(p, s) => o = p
    /\ \A i \in DOMAIN reqs : New(i, s) =>
           /\ Within(s, epos[s] + reqs[i].qty, reqs[i].qty)
           /\ \A o \in Id : ~Open(o, s)
           /\ \A j \in DOMAIN reqs : New(j, s) => j = i

\* All orders are the trader's.
Ours == /\ \A o \in Id : live[o] # 0 => Own(o)
        /\ \A i \in DOMAIN reqs : reqs[i].typ = "new" => Own(reqs[i].id)

\* A symbol still to be sized has the position the exchange has.
HeldInv == Ours /\ SizedAsHeld

\* The inductive invariant, beside that of the slate: moreover one that has
\* been sized has one order at most, from then until the next wave.
SizeInv == /\ HeldInv
           /\ pc \in {"send", "between", "drop"} => \A s \in symbols \ todo : Single(s)
           /\ pc \in {"between", "drop"} => todo = {}

\* What is sized from the position held goes past neither target nor flat, but
\* for what its limit price makes of the dollars.
LEMMA TradeWithin ==
    ASSUME TypeOK, NEW s \in Symbols, answered => pos[s] = epos[s],
           NEW k \in TradeQty(s), NEW q \in AtLimit(k)
    PROVE  Within(s, epos[s] + q, q)
<1> SUFFICES ASSUME answered PROVE Within(s, epos[s] + q, q)
  BY DEF Within
<1>1. target[s] \in Int /\ pos[s] \in Int /\ Slack \in Nat /\ pos[s] = epos[s]
  BY TargetsAssumption, BoundsAssumption DEF TypeOK
<1>2. \E x \in Int : /\ x = target[s] - pos[s] \/ x + pos[s] = 0
                     /\ k \in Between(0, x) /\ k \in Int /\ k # 0
  <2>1. CASE k \in Between(0, target[s] - pos[s])
    BY <1>1, <2>1 DEF TradeQty, Between
  <2>2. CASE k \in Between(0, -pos[s])
    BY <1>1, <2>2 DEF TradeQty, Between
  <2>. QED BY <2>1, <2>2 DEF TradeQty
<1>3. PICK x \in Int : /\ x = target[s] - pos[s] \/ x + pos[s] = 0
                      /\ k \in Between(0, x) /\ k \in Int /\ k # 0
  BY <1>2
<1>4. (k > 0 /\ k <= x) \/ (k < 0 /\ x <= k)
  BY <1>3 DEF Between
<1>5. /\ k > 0 => q > 0 /\ q <= k + Slack
      /\ k < 0 => q < 0 /\ q >= k - Slack
      /\ q \in Int
  BY <1>1, <1>3 DEF AtLimit
<1>. QED BY <1>1, <1>3, <1>4, <1>5 DEF Within

\* Nothing enlarges an order.
LEMMA NotEnlarged ==
    ASSUME TypeOK, Calm, NEW s \in Symbols, NEW q \in OrderQty(s)
    PROVE  \E k \in TradeQty(s) : q \in AtLimit(k)
<1>1. "thin_book" \notin Faults /\ "overlay" \notin Faults
  BY DEF Calm, Steady
<1>2. \A n \in Enlarge : n = 1
  BY <1>1 DEF Enlarge
<1>3. TradeQty(s) \subseteq Int
  BY TargetsAssumption DEF TradeQty, Between, TypeOK
<1>4. PICK n \in Enlarge, p \in UNION {AtLimit(k) : k \in TradeQty(s)} : q = n * p
  BY DEF OrderQty
<1>5. PICK k \in TradeQty(s) : p \in AtLimit(k)
  BY <1>4
<1>6. p \in Int
  BY <1>3, <1>5, BoundsAssumption DEF AtLimit
<1>. QED BY <1>2, <1>4, <1>5, <1>6

\* When the first request is done and changes no order, a single order stays
\* single.
LEMMA TailSingle ==
    ASSUME TypeOK, reqs # <<>>, reqs' = Tail(reqs), NEW s \in Symbols, Single(s),
           UNCHANGED <<live, epos, target, answered>>
    PROVE  Single(s)'
<1>1. /\ DOMAIN reqs \subseteq Int /\ DOMAIN reqs' \subseteq Int
      /\ \A i \in DOMAIN reqs' : i + 1 \in DOMAIN reqs /\ reqs'[i] = reqs[i + 1]
  BY TailOfReqs
<1>2. ASSUME NEW i \in DOMAIN reqs', New(i, s)'
      PROVE  /\ i + 1 \in DOMAIN reqs /\ New(i + 1, s) /\ reqs'[i] = reqs[i + 1]
  BY <1>1, <1>2 DEF New
<1>3. \A o \in Id : Open(o, s)' <=> Open(o, s)
  BY DEF Open
<1>4. ASSUME NEW i \in DOMAIN reqs', New(i, s)'
      PROVE  /\ Within(s, epos[s] + reqs[i + 1].qty, reqs[i + 1].qty)
             /\ \A o \in Id : ~Open(o, s)
             /\ \A j \in DOMAIN reqs' : New(j, s)' => j = i
  <2>1. i + 1 \in DOMAIN reqs /\ New(i + 1, s)
    BY <1>2, <1>4
  <2>2. \A j \in DOMAIN reqs' : New(j, s)' => j + 1 = i + 1
    BY <1>2, <2>1 DEF Single
  <2>. QED BY <1>1, <2>1, <2>2 DEF Single
<1>5. \A i \in DOMAIN reqs' : New(i, s)' =>
           /\ Within(s, epos[s] + reqs[i].qty, reqs[i].qty)'
           /\ \A o \in Id : ~Open(o, s)'
           /\ \A j \in DOMAIN reqs' : New(j, s)' => j = i
  BY <1>1, <1>3, <1>4 DEF Within
<1>6. \A o \in Id : Open(o, s)' => Within(s, epos[s] + live[o], live[o])'
  BY <1>3 DEF Single, Within
<1>7. \A o, p \in Id : Open(o, s)' /\ Open(p, s)' => o = p
  BY <1>3 DEF Single
<1>. QED BY <1>5, <1>6, <1>7 DEF Single

\* When an order is filled in part or ended, a single order stays single.
LEMMA LessOpenSingle ==
    ASSUME TypeOK, NEW s \in Symbols, Single(s), UNCHANGED <<reqs, target, answered>>,
           \A o \in Id : Open(o, s)' => Open(o, s),
           \A o \in Id : Open(o, s)' => Within(s, epos[s] + live[o], live[o])',
           epos'[s] = epos[s] \/ \E o \in Id : Open(o, s)
    PROVE  Single(s)'
<1>1. \A i \in DOMAIN reqs : New(i, s)' <=> New(i, s)
  BY DEF New
<1>2. \A i \in DOMAIN reqs : New(i, s) => epos'[s] = epos[s]
  BY DEF Single
<1>3. \A i \in DOMAIN reqs : New(i, s)' =>
           /\ Within(s, epos[s] + reqs[i].qty, reqs[i].qty)'
           /\ \A o \in Id : ~Open(o, s)'
           /\ \A j \in DOMAIN reqs : New(j, s)' => j = i
  BY <1>1, <1>2 DEF Single, Within
<1>4. \A o, p \in Id : Open(o, s)' /\ Open(p, s)' => o = p
  BY DEF Single
<1>. QED BY <1>3, <1>4 DEF Single

\* The exchange keeps a single order single, and opens no order by itself.
LEMMA ExchangeSingle ==
    ASSUME TypeOK, Calm, Ours, Exchange, NEW s \in Symbols, Single(s)
    PROVE  Single(s)'
<1>. live \in [Id -> Int] /\ epos \in [Symbols -> Int]
  BY DEF TypeOK
<1>1. CASE Accept
  <2> DEFINE r == reqs[1]
  <2>1. /\ reqs # <<>> /\ reqs' = Tail(reqs) /\ r.typ = "new" /\ 1 \in DOMAIN reqs
        /\ live' = [live EXCEPT ![r.id] = r.qty] /\ UNCHANGED <<epos, target, answered>>
    <3>1. reqs # <<>> /\ reqs' = Tail(reqs)
      BY <1>1 DEF Accept
    <3>. QED BY <1>1, <3>1, TailOfReqs DEF Accept, waveVars
  <2>2. r.id \in Id /\ r.qty \in Int
    BY <2>1, ReqAt
  <2>3. /\ DOMAIN reqs \subseteq Int /\ DOMAIN reqs' \subseteq Int
        /\ \A i \in DOMAIN reqs' : i >= 1 /\ i + 1 \in DOMAIN reqs /\ reqs'[i] = reqs[i + 1]
    BY <2>1, TailOfReqs
  <2> HIDE DEF r
  <2>4. ASSUME NEW i \in DOMAIN reqs', New(i, s)'
        PROVE  i + 1 \in DOMAIN reqs /\ i + 1 # 1 /\ New(i + 1, s)
    BY <2>3, <2>4 DEF New
  <2>5. CASE Sym(r.id) = s
    <3>1. New(1, s)
      BY <2>1, <2>5 DEF New, r
    <3>2. \A i \in DOMAIN reqs' : ~New(i, s)'
      BY <2>1, <2>4, <3>1 DEF Single
    <3>3. \A o \in Id : ~Open(o, s)
      BY <2>1, <3>1 DEF Single
    <3>4. \A o \in Id : Open(o, s)' => o = r.id
      BY <2>1, <2>2, <3>3 DEF Open
    <3>5. Within(s, epos[s] + r.qty, r.qty)
      BY <2>1, <3>1 DEF Single, r
    <3>6. \A o \in Id : Open(o, s)' => Within(s, epos[s] + live[o], live[o])'
      BY <2>1, <2>2, <3>4, <3>5 DEF Within
    <3>. QED BY <3>2, <3>4, <3>6 DEF Single
  <2>6. CASE Sym(r.id) # s
    <3>1. \A o \in Id : Sym(o) = s => live'[o] = live[o]
      BY <2>1, <2>2, <2>6
    <3>2. \A o \in Id : Open(o, s)' <=> Open(o, s)
      BY <3>1 DEF Open
    <3>3. \A o \in Id : Open(o, s)' => Within(s, epos[s] + live[o], live[o])'
      BY <2>1, <3>1, <3>2 DEF Single, Within, Open
    <3>4. \A o, p \in Id : Open(o, s)' /\ Open(p, s)' => o = p
      BY <3>2 DEF Single
    <3>5. ASSUME NEW i \in DOMAIN reqs', New(i, s)'
          PROVE  /\ Within(s, epos[s] + reqs[i].qty, reqs[i].qty)'
                 /\ \A o \in Id : ~Open(o, s)'
                 /\ \A j \in DOMAIN reqs' : New(j, s)' => j = i
      <4>1. i + 1 \in DOMAIN reqs /\ New(i + 1, s) /\ reqs'[i] = reqs[i + 1]
        BY <2>3, <2>4, <3>5
      <4>2. \A j \in DOMAIN reqs' : New(j, s)' => j + 1 = i + 1
        BY <2>4, <4>1 DEF Single
      <4>3. \A j \in DOMAIN reqs' : New(j, s)' => j = i
        BY <2>3, <4>2
      <4>4. Within(s, epos[s] + reqs[i + 1].qty, reqs[i + 1].qty) /\ \A o \in Id : ~Open(o, s)
        BY <4>1 DEF Single
      <4>5. Within(s, epos[s] + reqs[i].qty, reqs[i].qty)'
        BY <2>1, <4>1, <4>4 DEF Within
      <4>. QED BY <3>2, <4>3, <4>4, <4>5
    <3>. QED BY <3>3, <3>4, <3>5 DEF Single
  <2>. QED BY <2>5, <2>6
<1>2. CASE Reject
  BY <1>2, TailSingle DEF Reject, waveVars
<1>3. ASSUME NEW o \in Id, live' = [live EXCEPT ![o] = 0], UNCHANGED <<reqs, target, answered, epos>>
      PROVE  Single(s)'
  <2>1. \A p \in Id : Open(p, s)' => Open(p, s) /\ live'[p] = live[p]
    BY <1>3 DEF Open
  <2>2. \A p \in Id : Open(p, s)' => Within(s, epos[s] + live[p], live[p])'
    BY <1>3, <2>1 DEF Single, Within
  <2>. QED BY <1>3, <2>1, <2>2, LessOpenSingle
<1>4. CASE CancelOne
  <2>1. PICK o \in Id : live' = [live EXCEPT ![o] = 0] /\ UNCHANGED <<waveVars, epos, reqs>>
    BY <1>4 DEF CancelOne, EndOrder
  <2>. QED BY <1>3, <2>1 DEF waveVars
<1>5. CASE CancelDone
  BY <1>5, TailSingle DEF CancelDone, waveVars
<1>6. CASE LoseRequest
  BY <1>6 DEF LoseRequest, Calm, Steady, Prompt
<1>7. CASE Fill
  <2>1. PICK o \in Id : \E q \in Between(0, live[o]) \ {0} :
            /\ live' = [live EXCEPT ![o] = @ - q]
            /\ epos' = [epos EXCEPT ![Sym(o)] = @ + q]
            /\ UNCHANGED <<waveVars, reqs>>
    BY <1>7 DEF Fill
  <2>2. PICK q \in Between(0, live[o]) \ {0} :
            /\ live' = [live EXCEPT ![o] = @ - q]
            /\ epos' = [epos EXCEPT ![Sym(o)] = @ + q]
            /\ UNCHANGED <<waveVars, reqs>>
    BY <2>1
  <2>3. /\ q \in Int /\ live[o] # 0 /\ Sym(o) \in Symbols
        /\ (live[o] > 0 => q > 0 /\ live[o] - q >= 0)
        /\ (live[o] < 0 => q < 0 /\ live[o] - q <= 0)
    BY <2>2, IdTyped DEF Between
  <2>4. Open(o, Sym(o))
    BY <2>3 DEF Ours, Open
  <2>5. \A p \in Id : Open(p, s)' => Open(p, s)
    BY <2>2, <2>3, <2>4 DEF Open
  <2>6. epos'[s] = epos[s] \/ Open(o, s)
    BY <2>2, <2>3, <2>4 DEF Open
  <2>7. ASSUME NEW p \in Id, Open(p, s)'
        PROVE  Within(s, epos[s] + live[p], live[p])'
    <3>1. Within(s, epos[s] + live[p], live[p])
      BY <2>5, <2>7 DEF Single
    <3>2. CASE p = o
      <4>1. Sym(o) = s /\ live'[o] = live[o] - q /\ epos'[s] = epos[s] + q
        BY <2>2, <2>3, <2>7, <3>2 DEF Open
      <4>2. epos'[s] + live'[o] = epos[s] + live[o]
        BY <2>3, <4>1
      <4>. QED BY <2>2, <2>3, <3>1, <3>2, <4>1, <4>2 DEF Within, waveVars
    <3>3. CASE p # o
      <4>1. live'[p] = live[p]
        BY <2>2, <3>3
      <4>2. ~Open(o, s)
        BY <2>5, <2>7, <3>3 DEF Single
      <4>. QED BY <2>2, <2>6, <3>1, <4>1, <4>2 DEF Within, waveVars
    <3>. QED BY <3>2, <3>3
  <2>. QED BY <2>2, <2>5, <2>6, <2>7, LessOpenSingle DEF waveVars
<1>8. CASE Expire
  <2>1. PICK o \in Id : live' = [live EXCEPT ![o] = 0] /\ UNCHANGED <<waveVars, epos, reqs>>
    BY <1>8 DEF Expire, EndOrder
  <2>. QED BY <1>3, <2>1 DEF waveVars
<1>9. CASE Autoclose
  BY <1>9 DEF Autoclose, Calm, Steady
<1>. QED BY <1>1, <1>2, <1>4, <1>5, <1>6, <1>7, <1>8, <1>9 DEF Exchange

\* The trader's orders are its own, whoever executes them.
LEMMA OursStep ==
    ASSUME TypeOK, Steady, Ours, [Next]_vars
    PROVE  Ours'
<1>. live \in [Id -> Int]
  BY DEF TypeOK
<1>1. ASSUME UNCHANGED <<live, reqs>>
      PROVE  Ours'
  BY <1>1 DEF Ours
<1>2. ASSUME reqs # <<>>, reqs' = Tail(reqs)
      PROVE  \A i \in DOMAIN reqs' : reqs'[i].typ = "new" => Own(reqs'[i].id)
  BY <1>2, TailOfReqs DEF Ours
<1>3. ASSUME NEW r \in Req, reqs' = Append(reqs, r), r.typ = "new" => Own(r.id), UNCHANGED live
      PROVE  Ours'
  BY <1>3, AppendToReqs DEF Ours
<1>4. ASSUME NEW s \in Symbols, CancelAll(s), UNCHANGED live
      PROVE  Ours'
  <2>1. M("cancel", <<s, 0>>, 0) \in Req /\ M("cancel", <<s, 0>>, 0).typ = "cancel"
    BY IdTyped DEF M, Req
  <2>. QED BY <1>3, <1>4, <2>1 DEF CancelAll
<1>5. CASE Exchange
  <2>1. CASE UNCHANGED reqs /\ live' # live /\ ~Accept
    <3>1. ASSUME NEW o \in Id, live[o] # 0, NEW n \in Int, live' = [live EXCEPT ![o] = n]
          PROVE  Ours'
      BY <2>1, <3>1 DEF Ours
    <3>2. CASE CancelOne
      <4>1. PICK o \in Id : live[o] # 0 /\ live' = [live EXCEPT ![o] = 0]
        BY <3>2 DEF CancelOne, EndOrder
      <4>. QED BY <2>1, <4>1 DEF Ours
    <3>3. CASE Expire
      <4>1. PICK o \in Id : live[o] # 0 /\ live' = [live EXCEPT ![o] = 0]
        BY <3>3 DEF Expire, EndOrder
      <4>. QED BY <2>1, <4>1 DEF Ours
    <3>4. CASE Fill
      <4>1. PICK o \in Id : \E q \in Between(0, live[o]) \ {0} : live' = [live EXCEPT ![o] = @ - q]
        BY <3>4 DEF Fill
      <4>2. PICK q \in Between(0, live[o]) \ {0} : live' = [live EXCEPT ![o] = @ - q]
        BY <4>1
      <4>3. live[o] # 0 /\ live[o] - q \in Int
        BY <4>2 DEF Between
      <4>. QED BY <3>1, <4>2, <4>3
    <3>5. CASE Autoclose
      BY <3>5 DEF Autoclose, Steady
    <3>. QED BY <1>5, <2>1, <3>2, <3>3, <3>4, <3>5
             DEF Exchange, Reject, CancelDone, LoseRequest
  <2>2. CASE Accept
    <3>1. /\ reqs # <<>> /\ reqs' = Tail(reqs) /\ Head(reqs).typ = "new"
          /\ live' = [live EXCEPT ![Head(reqs).id] = Head(reqs).qty]
      BY <2>2 DEF Accept
    <3>2. Own(Head(reqs).id)
      BY <3>1, TailOfReqs DEF Ours
    <3>3. \A o \in Id : live'[o] # 0 => Own(o)
      BY <3>1, <3>2 DEF Ours
    <3>. QED BY <1>2, <3>1, <3>3 DEF Ours
  <2>3. CASE UNCHANGED live /\ ~Accept
    <3>1. UNCHANGED reqs \/ (reqs # <<>> /\ reqs' = Tail(reqs))
      BY <1>5, ExchangeStep DEF Steady, Prompt
    <3>. QED BY <1>1, <1>2, <2>3, <3>1 DEF Ours
  <2>4. UNCHANGED reqs \/ UNCHANGED live \/ Accept
    BY <1>5 DEF Exchange, Reject, CancelOne, CancelDone, LoseRequest, Fill, Expire, Autoclose
  <2>. QED BY <2>1, <2>2, <2>3, <2>4
<1>6. CASE CancelSymbol
  BY <1>4, <1>6 DEF CancelSymbol, TypeOK
<1>7. CASE SendOrder
  <2>1. PICK s \in todo \intersect covered : \E o \in Id : \E q \in OrderQty(s) :
               /\ Own(o) /\ Sym(o) = s /\ q \in Int
               /\ reqs' = Append(reqs, M("new", o, q))
               /\ pc = "send" /\ todo' = todo \ {s}
               /\ UNCHANGED <<pc, symbols, target, answered, pos, live, epos>>
    BY <1>7, OrderSent
  <2>2. PICK o \in Id, q \in Int : /\ Own(o) /\ reqs' = Append(reqs, M("new", o, q))
                                   /\ UNCHANGED live
    BY <2>1
  <2>3. M("new", o, q) \in Req /\ M("new", o, q).id = o
    BY DEF M, Req
  <2>. QED BY <1>3, <2>2, <2>3
<1>8. CASE NoOrder
  BY <1>1, <1>4, <1>8 DEF NoOrder, TypeOK
<1>9. CASE Top \/ Sleep \/ Settle \/ Refresh \/ Subscribe \/ WaveSent \/ NextWave
  BY <1>1, <1>9 DEF Top, Sleep, Settle, Refresh, Subscribe, WaveSent, NextWave, exchVars
<1>10. CASE ProcessOmsMessages
  BY <1>1, <1>10, ProcessStep
<1>11. CASE Crash
  BY <1>1, <1>11 DEF Crash, exchVars
<1>12. CASE UNCHANGED vars
  BY <1>1, <1>12 DEF vars, exchVars
<1>. QED BY <1>5, <1>6, <1>7, <1>8, <1>9, <1>10, <1>11, <1>12 DEF Next, Wave

\* Nothing moves the position of a symbol between the refresh and its order:
\* it is idle, and only its own orders could.
LEMMA HeldStep ==
    ASSUME TypeOK, Steady, SlateInv, HeldInv, [Next]_vars
    PROVE  HeldInv'
<1>1. Ours'
  BY OursStep DEF HeldInv
<1>2. CASE UNCHANGED vars
  BY <1>1, <1>2 DEF vars, waveVars, exchVars, HeldInv, SizedAsHeld
<1>3. CASE Exchange
  <2>1. UNCHANGED <<pc, symbols, todo, answered, pos>>
    BY <1>3, ExchangeStep DEF Steady, Prompt
  <2>2. ASSUME pc = "send", answered, NEW s \in todo \intersect symbols
        PROVE  pos'[s] = epos'[s]
    <3>1. s \in Symbols /\ Idle(s) /\ pos[s] = epos[s]
      BY <2>2 DEF SlateInv, HeldInv, SizedAsHeld, TypeOK
    <3>2. epos'[s] = epos[s]
      <4>1. CASE Fill
        <5>1. PICK o \in Id : \E q \in Between(0, live[o]) \ {0} :
                  epos' = [epos EXCEPT ![Sym(o)] = @ + q]
          BY <4>1 DEF Fill
        <5>2. live[o] # 0
          BY <5>1 DEF Between, TypeOK
        <5>3. Sym(o) # s
          BY <3>1, <5>2 DEF Idle, Open, HeldInv, Ours
        <5>. QED BY <5>1, <5>3, IdTyped, <3>1 DEF TypeOK
      <4>2. CASE ~Fill
        BY <1>3, <4>2 DEF Exchange, Accept, Reject, CancelOne, CancelDone, LoseRequest, Expire,
                          Autoclose
      <4>. QED BY <4>1, <4>2
    <3>. QED BY <2>1, <3>1, <3>2
  <2>. QED BY <1>1, <2>1, <2>2 DEF HeldInv, SizedAsHeld
<1>4. CASE Refresh
  <2>1. \/ pc' = "subscribe"
        \/ answered' = FALSE
        \/ pc' = "send" /\ todo' = Symbols /\ pos' = epos /\ UNCHANGED <<symbols, epos>>
    BY <1>4 DEF Refresh, exchVars
  <2>. QED BY <1>1, <2>1 DEF HeldInv, SizedAsHeld, TypeOK
<1>5. CASE SendOrder \/ NoOrder
  <2>1. pc' = pc /\ todo' \subseteq todo /\ UNCHANGED <<symbols, answered, pos, epos>>
    BY <1>5 DEF SendOrder, NoOrder
  <2>. QED BY <1>1, <2>1 DEF HeldInv, SizedAsHeld
<1>6. CASE Top \/ CancelSymbol \/ Sleep \/ Settle \/ Subscribe \/ WaveSent \/ NextWave \/ Crash
  <2>1. pc' # "send"
    BY <1>6 DEF Top, CancelSymbol, Sleep, Settle, Subscribe, WaveSent, NextWave, Crash
  <2>. QED BY <1>1, <2>1 DEF HeldInv, SizedAsHeld
<1>7. CASE ProcessOmsMessages
  BY <1>1, <1>7, ProcessStep DEF HeldInv, SizedAsHeld
<1>. QED BY <1>2, <1>3, <1>4, <1>5, <1>6, <1>7 DEF Next, Wave

LEMMA HeldAtFirst == Init => HeldInv
  BY DEF Init, HeldInv, SizedAsHeld, Ours

\* A trade of a symbol the trader cancels is sized from the position the
\* exchange has, after a refresh that had an answer: when cancels are done
\* within the sleep and the exchange opens no order by itself, whatever is
\* lost, unknown, enlarged or restarted.
THEOREM SizedFromWhatIsHeld == ASSUME Steady PROVE Spec => []SizedAsHeld
<1>1. TypeOK /\ SlateInv /\ HeldInv /\ [Next]_vars => HeldInv'
  BY HeldStep
<1>2. Init => SlateInv
  BY DEF Init, SlateInv
<1>3. TypeOK /\ SlateInv /\ [Next]_vars => SlateInv'
  BY SlateStep DEF Steady
<1>4. HeldInv => SizedAsHeld
  BY DEF HeldInv
<1>. QED BY <1>1, <1>2, <1>3, <1>4, HeldAtFirst, TypeCorrect, PTL DEF Spec

\* A symbol of which nothing is open or on its way has no order too many.
LEMMA IdleSingle == ASSUME NEW s \in Symbols, Idle(s) PROVE Single(s)
  BY DEF Idle, Single

\* A cancel sent changes no order.
LEMMA CancelSingle ==
    ASSUME TypeOK, NEW s \in Symbols, CancelAll(s), UNCHANGED <<live, epos, target, answered>>,
           NEW t \in Symbols, Single(t)
    PROVE  Single(t)'
<1> DEFINE r == M("cancel", <<s, 0>>, 0)
<1>1. r \in Req /\ r.typ = "cancel"
  BY IdTyped DEF M, Req
<1>2. PICK n \in Nat : /\ reqs'[n] = r
                       /\ \A i \in DOMAIN reqs : reqs'[i] = reqs[i]
                       /\ \A i \in DOMAIN reqs' : i = n \/ i \in DOMAIN reqs
  BY <1>1, AppendToReqs DEF CancelAll
<1> HIDE DEF r
<1>3. \A i \in DOMAIN reqs' : New(i, t)' => i \in DOMAIN reqs /\ New(i, t) /\ reqs'[i] = reqs[i]
  BY <1>1, <1>2 DEF New
<1>4. \A o \in Id : Open(o, t)' <=> Open(o, t)
  BY DEF Open
<1>5. \A o \in Id : Open(o, t)' => Within(t, epos[t] + live[o], live[o])'
  BY <1>4 DEF Single, Within
<1>6. \A i \in DOMAIN reqs' : New(i, t)' => Within(t, epos[t] + reqs[i].qty, reqs[i].qty)'
  BY <1>3 DEF Single, Within
<1>. QED BY <1>3, <1>4, <1>5, <1>6 DEF Single

\* The order sent for a symbol is its only one.
LEMMA SendSingle ==
    ASSUME TypeOK, NEW s \in Symbols, Idle(s), NEW o \in Id, Sym(o) = s,
           NEW q \in Int, Within(s, epos[s] + q, q),
           reqs' = Append(reqs, M("new", o, q)), UNCHANGED <<live, epos, target, answered>>
    PROVE  Single(s)'
<1> DEFINE r == M("new", o, q)
<1>1. r \in Req /\ Sym(r.id) = s /\ r.qty = q
  BY DEF M, Req
<1>2. PICK n \in Nat : /\ reqs'[n] = r
                       /\ \A i \in DOMAIN reqs : reqs'[i] = reqs[i]
                       /\ \A i \in DOMAIN reqs' : i = n \/ i \in DOMAIN reqs
  BY <1>1, AppendToReqs
<1> HIDE DEF r
<1>3. \A p \in Id : ~Open(p, s)'
  BY DEF Open, Idle
<1>4. \A i \in DOMAIN reqs' : New(i, s)' => i = n
  BY <1>2 DEF Idle, New
<1>5. Within(s, epos[s] + reqs[n].qty, reqs[n].qty)'
  BY <1>1, <1>2 DEF Within
<1>. QED BY <1>3, <1>4, <1>5 DEF Single

\* The others keep theirs.
LEMMA SendOther ==
    ASSUME TypeOK, NEW s \in Symbols, NEW o \in Id, Sym(o) = s, NEW q \in Int,
           reqs' = Append(reqs, M("new", o, q)), UNCHANGED <<live, epos, target, answered>>,
           NEW t \in Symbols \ {s}, Single(t)
    PROVE  Single(t)'
<1> DEFINE r == M("new", o, q)
<1>1. r \in Req /\ Sym(r.id) = s
  BY DEF M, Req
<1>2. PICK n \in Nat : /\ reqs'[n] = r
                       /\ \A i \in DOMAIN reqs : reqs'[i] = reqs[i]
                       /\ \A i \in DOMAIN reqs' : i = n \/ i \in DOMAIN reqs
  BY <1>1, AppendToReqs
<1> HIDE DEF r
<1>3. \A p \in Id : Open(p, t)' <=> Open(p, t)
  BY DEF Open
<1>4. \A i \in DOMAIN reqs' : New(i, t)' => i \in DOMAIN reqs /\ New(i, t) /\ reqs'[i] = reqs[i]
  BY <1>1, <1>2 DEF New
<1>5. \A p \in Id : Open(p, t)' => Within(t, epos[t] + live[p], live[p])'
  BY <1>3 DEF Single, Within
<1>6. \A i \in DOMAIN reqs' : New(i, t)' => Within(t, epos[t] + reqs[i].qty, reqs[i].qty)'
  BY <1>4 DEF Single, Within
<1>. QED BY <1>3, <1>4, <1>5, <1>6 DEF Single

\* Every step of the wave loop keeps the orders of a symbol single.
LEMMA WaveSingle ==
    ASSUME TypeOK, Calm, SlateInv, SizeInv, Wave, HeldInv'
    PROVE  SizeInv'
<1>1. CASE Top \/ Sleep \/ Settle \/ Subscribe \/ NextWave
  BY <1>1 DEF Top, Sleep, Settle, Subscribe, NextWave, SizeInv
<1>2. CASE CancelSymbol
  BY <1>2 DEF CancelSymbol, SizeInv
<1>3. CASE Refresh
  <2>1. \/ pc' = "subscribe"
        \/ pc' = "send" /\ todo' = Symbols /\ UNCHANGED symbols
    BY <1>3 DEF Refresh
  <2>. QED BY <2>1 DEF SizeInv, TypeOK
<1>4. CASE SendOrder
  <2>1. PICK s \in todo \intersect covered : \E o \in Id : \E q \in OrderQty(s) :
               /\ Own(o) /\ Sym(o) = s /\ q \in Int
               /\ reqs' = Append(reqs, M("new", o, q))
               /\ pc = "send" /\ todo' = todo \ {s}
               /\ UNCHANGED <<pc, symbols, target, answered, pos, live, epos>>
    BY <1>4, OrderSent
  <2>2. PICK o \in Id : \E q \in OrderQty(s) :
               /\ Own(o) /\ Sym(o) = s /\ q \in Int
               /\ reqs' = Append(reqs, M("new", o, q))
               /\ pc = "send" /\ todo' = todo \ {s}
               /\ UNCHANGED <<pc, symbols, target, answered, pos, live, epos>>
    BY <2>1
  <2>3. PICK q \in OrderQty(s) :
               /\ Own(o) /\ Sym(o) = s /\ q \in Int
               /\ reqs' = Append(reqs, M("new", o, q))
               /\ pc = "send" /\ todo' = todo \ {s}
               /\ UNCHANGED <<pc, symbols, target, answered, pos, live, epos>>
    BY <2>2
  <2>4. s \in Symbols /\ s \in todo
    BY DEF TypeOK
  <2>5. \A t \in symbols \ {s} : Single(t) => Single(t)'
    BY <2>3, <2>4, SendOther DEF TypeOK
  <2>6. s \in symbols => Single(s)'
    <3> SUFFICES ASSUME s \in symbols PROVE Single(s)'
      OBVIOUS
    <3>1. answered => pos[s] = epos[s]
      BY <2>3, <2>4 DEF SizeInv, HeldInv, SizedAsHeld
    <3>2. PICK k \in TradeQty(s) : q \in AtLimit(k)
      BY <2>4, NotEnlarged
    <3>3. Within(s, epos[s] + q, q)
      BY <2>4, <3>1, <3>2, TradeWithin
    <3>4. Idle(s)
      BY <2>3, <2>4 DEF SlateInv
    <3>. QED BY <2>3, <2>4, <3>3, <3>4, SendSingle
  <2>8. \A t \in symbols \ todo' : Single(t)'
    BY <2>3, <2>5, <2>6 DEF SizeInv
  <2>. QED BY <2>3, <2>8 DEF SizeInv
<1>5. CASE NoOrder
  <2>1. PICK s \in todo : /\ pc = "send" /\ todo' = todo \ {s}
                          /\ UNCHANGED <<pc, symbols, target, answered, pos, live, epos>>
                          /\ UNCHANGED reqs \/ CancelAll(s)
    BY <1>5 DEF NoOrder
  <2>2. s \in Symbols /\ (s \in symbols => Single(s))
    BY <2>1, IdleSingle DEF TypeOK, SlateInv
  <2>3. \A t \in symbols \ todo' : Single(t)
    BY <2>1, <2>2 DEF SizeInv
  <2>4. \A t \in symbols \ todo' : Single(t)'
    <3>1. CASE UNCHANGED reqs
      BY <2>1, <2>3, <3>1 DEF Single, Open, New, Within
    <3>2. CASE CancelAll(s)
      BY <2>1, <2>2, <2>3, <3>2, CancelSingle DEF TypeOK
    <3>. QED BY <2>1, <3>1, <3>2
  <2>. QED BY <2>1, <2>4 DEF SizeInv
<1>6. CASE WaveSent
  <2>1. /\ pc = "send" /\ pc' = "between" /\ todo = {}
        /\ UNCHANGED <<symbols, todo, target, answered, live, epos, reqs>>
    BY <1>6 DEF WaveSent, waveVars, exchVars
  <2>2. \A s \in symbols : Single(s)'
    BY <2>1 DEF SizeInv, Single, Open, New, Within
  <2>. QED BY <2>1, <2>2 DEF SizeInv
<1>. QED BY <1>1, <1>2, <1>3, <1>4, <1>5, <1>6 DEF Wave

\* So does every other step.
LEMMA SizeStep ==
    ASSUME TypeOK, Calm, SlateInv, SizeInv, [Next]_vars
    PROVE  SizeInv'
<1>1. HeldInv'
  BY HeldStep DEF SizeInv, Calm
<1>2. CASE UNCHANGED vars
  <2>1. UNCHANGED <<pc, symbols, todo, target, answered, pos, live, epos, reqs>>
    BY <1>2 DEF vars, waveVars, exchVars
  <2>2. \A s \in Symbols : Single(s) => Single(s)'
    BY <2>1 DEF Single, Open, New, Within
  <2>. QED BY <1>1, <2>1, <2>2 DEF SizeInv, TypeOK
<1>3. CASE Exchange
  <2>1. UNCHANGED <<pc, symbols, todo, pos>>
    BY <1>3, ExchangeStep DEF Calm, Steady, Prompt
  <2>2. \A s \in Symbols : Single(s) => Single(s)'
    BY <1>3, ExchangeSingle DEF SizeInv, HeldInv
  <2>. QED BY <1>1, <2>1, <2>2 DEF SizeInv, TypeOK
<1>4. CASE ProcessOmsMessages
  <2>1. /\ pc \in {"between", "drop"} /\ pc' \in {"between", "drop"}
        /\ UNCHANGED <<symbols, todo, target, answered, live, epos, reqs>>
    BY <1>4, ProcessStep
  <2>2. \A s \in symbols : Single(s)'
    BY <2>1 DEF SizeInv, Single, Open, New, Within
  <2>. QED BY <1>1, <2>1, <2>2 DEF SizeInv
<1>5. CASE Crash
  BY <1>1, <1>5 DEF Crash, SizeInv
<1>. QED BY <1>1, <1>2, <1>3, <1>4, <1>5, WaveSingle DEF Next

\* No overshoot: when moreover no order is enlarged and the exchange opens none
\* by itself, whatever is filled between two waves, no position of a symbol the
\* trader cancels goes past both its target and flat by more than its limit
\* price makes of the dollars, unless the refresh had no answer, though messages
\* are lost, send() misreports, some symbols have no book at start-up and the
\* trader is restarted.
THEOREM NeverOvershoots == ASSUME Calm PROVE Spec => []NoOvershoot
<1>1. Init => SizeInv
  BY HeldAtFirst DEF Init, SizeInv
<1>2. TypeOK /\ SlateInv /\ SizeInv /\ [Next]_vars => SizeInv'
  BY SizeStep
<1>3. ASSUME TypeOK, SlateInv, SizeInv, pc \in {"send", "between", "drop"}, NEW s \in symbols
      PROVE  Single(s)
  <2>1. CASE s \in todo
    BY <1>3, <2>1, IdleSingle DEF SlateInv, SizeInv, TypeOK
  <2>2. CASE s \notin todo
    BY <1>3, <2>2 DEF SizeInv
  <2>. QED BY <2>1, <2>2
<1>4. ASSUME TypeOK, SlateInv, SizeInv
      PROVE  NoOvershoot
  <2>. SUFFICES ASSUME pc \in {"send", "between", "drop"} PROVE NoOvershoot
    BY DEF NoOvershoot
  <2>1. \A s \in symbols : Single(s)
    BY <1>3, <1>4
  <2>2. ASSUME NEW o \in Id, Ordered(o)
        PROVE  Within(Sym(o), Exposure(o), live[o])
    <3>1. CASE live[o] = 0
      BY <3>1 DEF Within
    <3>2. CASE live[o] # 0
      BY <2>1, <2>2, <3>2, IdTyped DEF Single, Open, Exposure, Ordered
    <3>. QED BY <3>1, <3>2
  <2>3. \A i \in DOMAIN reqs : reqs[i].typ = "new" /\ Sym(reqs[i].id) \in symbols =>
            Within(Sym(reqs[i].id), epos[Sym(reqs[i].id)] + reqs[i].qty, reqs[i].qty)
    BY <1>4, <2>1, ReqAt DEF Single, New
  <2>4. \A o, p \in Id : Ordered(o) /\ Own(p) /\ Sym(o) = Sym(p) /\ live[o] # 0 /\ live[p] # 0 => o = p
    BY <2>1, IdTyped DEF Single, Open, Ordered
  <2>. QED BY <2>2, <2>3, <2>4 DEF NoOvershoot
<1>5. Init => SlateInv
  BY DEF Init, SlateInv
<1>6. TypeOK /\ SlateInv /\ [Next]_vars => SlateInv'
  BY SlateStep DEF Calm, Steady
<1>. QED BY <1>1, <1>2, <1>4, <1>5, <1>6, TypeCorrect, PTL DEF Spec

-----------------------------------------------------------------------------
(* Sums over the stream.                                                   *)

\* The fills of a symbol the last refresh had not counted, and what one
\* message more or less does to their sum.
LEMMA UnseenTyped ==
    ASSUME NEW ms \in Seq(Msg), NEW n \in Nat, NEW s
    PROVE  Unseen(ms, n, s) \in Seq(Int) /\ Len(Unseen(ms, n, s)) = Len(ms)
<1>1. Len(ms) \in Nat /\ \A i \in 1..Len(ms) : ms[i].qty \in Int
  BY ElementOfSeq DEF Msg
<1>2. Unseen(ms, n, s) \in [1..Len(ms) -> Int]
  BY <1>1 DEF Unseen
<1>. QED BY <1>1, <1>2, FunctionIsSeq

LEMMA UnseenGrows ==
    ASSUME NEW ms \in Seq(Msg), NEW m \in Msg, NEW n \in 0..Len(ms), NEW s
    PROVE  SumOf(Unseen(Append(ms, m), n, s)) =
             SumOf(Unseen(ms, n, s)) + (IF m.typ = "trade" /\ Sym(m.id) = s THEN m.qty ELSE 0)
<1> DEFINE new == Append(ms, m)
<1>1. /\ new \in Seq(Msg) /\ Len(new) = Len(ms) + 1 /\ new[Len(ms) + 1] = m
      /\ \A i \in 1..Len(ms) : new[i] = ms[i]
  BY AppendProperties
<1>2. Len(ms) \in Nat /\ n \in Nat
  OBVIOUS
<1> HIDE DEF new
<1>3. \A i \in 1..Len(ms) : Unseen(new, n, s)[i] = Unseen(ms, n, s)[i]
  BY <1>1, <1>2 DEF Unseen
<1>4. Unseen(new, n, s)[Len(new)] = IF m.typ = "trade" /\ Sym(m.id) = s THEN m.qty ELSE 0
  BY <1>1, <1>2 DEF Unseen
<1>5. /\ Unseen(new, n, s) \in Seq(Int) /\ Len(Unseen(new, n, s)) = Len(new)
      /\ Unseen(ms, n, s) \in Seq(Int) /\ Len(Unseen(ms, n, s)) = Len(ms)
  BY <1>1, <1>2, UnseenTyped
<1>6. SumOf(Unseen(new, n, s)) = SumOf(Unseen(ms, n, s)) + Unseen(new, n, s)[Len(new)]
  BY <1>1, <1>3, <1>5, SumGrows
<1>. QED BY <1>4, <1>6 DEF new

LEMMA UnseenTaken ==
    ASSUME NEW ms \in Seq(Msg), ms # <<>>, NEW n \in 0..Len(ms), NEW s
    PROVE  SumOf(Unseen(ms, n, s)) =
             SumOf(Unseen(Tail(ms), IF n = 0 THEN 0 ELSE n - 1, s))
             + (IF n = 0 /\ Head(ms).typ = "trade" /\ Sym(Head(ms).id) = s THEN Head(ms).qty ELSE 0)
<1> DEFINE rest == Tail(ms)
           k == IF n = 0 THEN 0 ELSE n - 1
<1>1. /\ rest \in Seq(Msg) /\ Len(ms) = Len(rest) + 1 /\ Head(ms) = ms[1]
      /\ \A i \in 1..Len(rest) : rest[i] = ms[i + 1]
  BY HeadTailProperties
<1>2. Len(ms) \in Nat /\ Len(rest) \in Nat /\ n \in Nat /\ k \in Nat
  BY <1>1
<1> HIDE DEF rest
<1>3. \A i \in 1..Len(rest) : Unseen(rest, k, s)[i] = Unseen(ms, n, s)[i + 1]
  BY <1>1, <1>2 DEF Unseen
<1>4. Unseen(ms, n, s)[1] =
        IF n = 0 /\ Head(ms).typ = "trade" /\ Sym(Head(ms).id) = s THEN Head(ms).qty ELSE 0
  BY <1>1, <1>2 DEF Unseen
<1> HIDE DEF k
<1>5. SumOf(Unseen(ms, n, s)) = Unseen(ms, n, s)[1] + SumOf(Unseen(rest, k, s))
  BY <1>1, <1>2, <1>3, UnseenTyped, SumShrinks
<1>6. SumOf(Unseen(rest, k, s)) \in Int
  BY <1>1, <1>2, UnseenTyped, SumInt
<1>7. Unseen(ms, n, s)[1] \in Int
  BY <1>1, <1>2, UnseenTyped, ElementOfSeq
<1>. QED BY <1>4, <1>5, <1>6, <1>7 DEF rest, k

\* A refresh counts them all.
LEMMA UnseenNone ==
    ASSUME NEW ms \in Seq(Msg), NEW s
    PROVE  SumOf(Unseen(ms, Len(ms), s)) = 0
<1>1. Len(ms) \in Nat
  OBVIOUS
<1>2. \A i \in 1..Len(ms) : Unseen(ms, Len(ms), s)[i] = 0
  BY <1>1 DEF Unseen
<1>. QED BY <1>1, <1>2, UnseenTyped, SumZero

\* One message or two at the end.
LEMMA OneMore == ASSUME NEW ms \in Seq(Msg), NEW a \in Msg PROVE ms \o <<a>> = Append(ms, a)
  BY AppendIsConcat

LEMMA TwoMore ==
    ASSUME NEW ms \in Seq(Msg), NEW a \in Msg, NEW b \in Msg
    PROVE  ms \o <<a, b>> = Append(Append(ms, a), b)
<1> DEFINE two == <<a, b>>
           one == Append(ms, a)
           t == ms \o two
           u == Append(one, b)
<1>1. /\ two \in Seq(Msg) /\ Len(two) = 2 /\ two[1] = a /\ two[2] = b
      /\ Len(ms) \in Nat
  OBVIOUS
<1>2. /\ one \in Seq(Msg) /\ Len(one) = Len(ms) + 1 /\ one[Len(ms) + 1] = a
      /\ \A i \in 1..Len(ms) : one[i] = ms[i]
  BY AppendProperties
<1> HIDE DEF two, one
<1>3. /\ t \in Seq(Msg) /\ Len(t) = Len(ms) + Len(two)
      /\ \A i \in 1..(Len(ms) + Len(two)) : t[i] = IF i <= Len(ms) THEN ms[i] ELSE two[i - Len(ms)]
  BY <1>1, ConcatProperties
<1>4. /\ u \in Seq(Msg) /\ Len(u) = Len(ms) + 2 /\ u[Len(ms) + 2] = b
      /\ \A i \in 1..(Len(ms) + 1) : u[i] = one[i]
  BY <1>1, <1>2, AppendProperties
<1> HIDE DEF t, u
<1>5. ASSUME NEW i \in 1..Len(t) PROVE t[i] = u[i]
  <2>1. CASE i \in 1..Len(ms)
    BY <1>1, <1>2, <1>3, <1>4, <2>1
  <2>2. CASE i = Len(ms) + 1
    BY <1>1, <1>2, <1>3, <1>4, <2>2
  <2>3. CASE i = Len(ms) + 2
    BY <1>1, <1>3, <1>4, <2>3
  <2>. QED BY <1>1, <1>3, <2>1, <2>2, <2>3
<1>6. t = u
  BY <1>1, <1>3, <1>4, <1>5, SeqEqual
<1>. QED BY <1>6 DEF t, u, two, one

-----------------------------------------------------------------------------
(* The accounts of the position.                                           *)

\* What the recorder has not heard of a symbol, beyond its last refresh.
Pending(s) == SumOf(Unseen(msgs, snap, s))

LEMMA PendingTyped == ASSUME TypeOK, NEW s PROVE Pending(s) \in Int
<1>1. msgs \in Seq(Msg) /\ snap \in Nat
  BY LenProperties DEF TypeOK
<1>. QED BY <1>1, UnseenTyped, SumInt DEF Pending

\* An event that is no fill.
LEMMA QuietMessage ==
    ASSUME NEW ms \in Seq(Msg), NEW m \in Msg, m.typ # "trade", NEW n \in 0..Len(ms), NEW s
    PROVE  SumOf(Unseen(Append(ms, m), n, s)) = SumOf(Unseen(ms, n, s))
<1>1. n \in Nat
  BY LenProperties
<1>2. SumOf(Unseen(ms, n, s)) \in Int
  BY <1>1, UnseenTyped, SumInt
<1>. QED BY <1>2, UnseenGrows

LEMMA QuietEmit ==
    ASSUME TypeOK, NEW a \in Msg, NEW b \in Msg, a.typ # "trade", b.typ # "trade",
           snap' = snap, Emit(<<a>>) \/ Emit(<<a, b>>)
    PROVE  drift' = drift /\ \A s \in Symbols : Pending(s)' = Pending(s)
<1>1. msgs \in Seq(Msg) /\ snap \in 0..Len(msgs) /\ Len(msgs) \in Nat
  BY LenProperties DEF TypeOK
<1>2. drift' = drift
  BY DEF Emit
<1>3. CASE msgs' = msgs
  BY <1>2, <1>3 DEF Pending
<1>4. CASE msgs' = Append(msgs, a)
  <2>1. ASSUME NEW s \in Symbols PROVE Pending(s)' = Pending(s)
    BY <1>1, <1>4, QuietMessage DEF Pending
  <2>. QED BY <1>2, <2>1
<1>5. CASE msgs' = Append(Append(msgs, a), b)
  <2>1. Append(msgs, a) \in Seq(Msg) /\ snap \in 0..Len(Append(msgs, a))
    BY <1>1, AppendProperties
  <2>2. ASSUME NEW s \in Symbols PROVE Pending(s)' = Pending(s)
    <3>1. SumOf(Unseen(Append(msgs, a), snap, s)) = SumOf(Unseen(msgs, snap, s))
      BY <1>1, QuietMessage
    <3>2. SumOf(Unseen(Append(Append(msgs, a), b), snap, s)) = SumOf(Unseen(Append(msgs, a), snap, s))
      BY <2>1, QuietMessage
    <3>. QED BY <1>5, <3>1, <3>2 DEF Pending
  <2>. QED BY <1>2, <2>2
<1>6. msgs \o <<a>> = Append(msgs, a) /\ msgs \o <<a, b>> = Append(Append(msgs, a), b)
  BY <1>1, OneMore, TwoMore
<1>. QED BY <1>3, <1>4, <1>5, <1>6 DEF Emit

\* The next message is taken off the stream.
LEMMA TakenPending ==
    ASSUME TypeOK, Take, NEW s \in Symbols
    PROVE  Pending(s) = Pending(s)' +
             (IF snap = 0 /\ Head(msgs).typ = "trade" /\ Sym(Head(msgs).id) = s
              THEN Head(msgs).qty ELSE 0)
<1>1. msgs \in Seq(Msg) /\ snap \in 0..Len(msgs) /\ msgs # <<>>
  BY DEF TypeOK, Take
<1>2. msgs' = Tail(msgs) /\ snap' = IF snap = 0 THEN 0 ELSE snap - 1
  BY DEF Take
<1>. QED BY <1>1, <1>2, UnseenTaken DEF Pending

LEMMA AccountedExchange == ASSUME TypeOK, PositionAccounted, Exchange PROVE PositionAccounted'
<1> DEFINE Fine(s) == pos[s] = epos[s] - Pending(s) + drift[s]
<1>0. \A s \in Symbols : Fine(s) /\ Pending(s) \in Int /\ pos[s] \in Int /\ epos[s] \in Int /\ drift[s] \in Int
  BY PendingTyped DEF PositionAccounted, Pending, TypeOK
<1>1. ASSUME NEW a \in Msg, NEW b \in Msg, a.typ # "trade", b.typ # "trade",
             UNCHANGED <<pos, epos, snap>>, Emit(<<a>>) \/ Emit(<<a, b>>)
      PROVE  PositionAccounted'
  <2>1. drift' = drift /\ \A s \in Symbols : Pending(s)' = Pending(s)
    BY <1>1, QuietEmit
  <2>. QED BY <1>0, <1>1, <2>1 DEF PositionAccounted, Pending
<1>2. CASE Accept
  <2>1. Head(reqs).id \in Id /\ Abs(Head(reqs).qty) \in Nat
    BY <1>2, RequestTyped DEF Accept, Req, Abs
  <2>2. /\ M("map", Head(reqs).id, 0) \in Msg /\ M("new", Head(reqs).id, Abs(Head(reqs).qty)) \in Msg
    BY <2>1, MsgTyped
  <2>. QED BY <1>1, <1>2, <2>2 DEF Accept, M
<1>3. CASE Reject
  <2>1. Head(reqs).id \in Id
    BY <1>3, RequestTyped DEF Reject, Req
  <2>2. M("reject", Head(reqs).id, 0) \in Msg
    BY <2>1, MsgTyped
  <2>. QED BY <1>1, <1>3, <2>2 DEF Reject, M
<1>4. ASSUME NEW o \in Id, NEW typ \in {"end", "expired"}, EndOrder(o, typ),
             UNCHANGED <<pos, epos, snap>>
      PROVE  PositionAccounted'
  <2>1. M(typ, o, Abs(live[o])) \in Msg
    BY MsgTyped DEF TypeOK, Abs
  <2>. QED BY <1>1, <1>4, <2>1 DEF EndOrder, M
<1>5. CASE CancelOne \/ Expire
  BY <1>4, <1>5 DEF CancelOne, Expire
<1>6. CASE CancelDone \/ LoseRequest
  BY <1>6 DEF CancelDone, LoseRequest, PositionAccounted
<1>7. CASE Autoclose
  <2>1. PICK s \in Symbols : \E typ \in {"new", "garbled"} : Emit(<<M(typ, <<s, 0>>, Abs(epos[s]))>>)
    BY <1>7 DEF Autoclose
  <2>2. PICK typ \in {"new", "garbled"} : Emit(<<M(typ, <<s, 0>>, Abs(epos[s]))>>)
    BY <2>1
  <2>3. M(typ, <<s, 0>>, Abs(epos[s])) \in Msg
    BY <2>1, <2>2, IdTyped, MsgTyped DEF TypeOK, Abs
  <2>. QED BY <1>1, <1>7, <2>2, <2>3 DEF Autoclose, M
<1>8. CASE Fill
  <2>0. PICK o \in Id : \E q \in Between(0, live[o]) \ {0} :
            /\ epos' = [epos EXCEPT ![Sym(o)] = @ + q]
            /\ \/ msgs' = Append(msgs, M("trade", o, q)) /\ UNCHANGED drift
               \/ drift' = [drift EXCEPT ![Sym(o)] = @ - q] /\ UNCHANGED msgs
            /\ UNCHANGED <<pos, snap>>
    BY <1>8 DEF Fill
  <2>1. PICK q \in Between(0, live[o]) \ {0} :
            /\ epos' = [epos EXCEPT ![Sym(o)] = @ + q]
            /\ \/ msgs' = Append(msgs, M("trade", o, q)) /\ UNCHANGED drift
               \/ drift' = [drift EXCEPT ![Sym(o)] = @ - q] /\ UNCHANGED msgs
            /\ UNCHANGED <<pos, snap>>
    BY <2>0
  <2>2. q \in Int /\ Sym(o) \in Symbols /\ M("trade", o, q) \in Msg
    BY IdTyped, MsgTyped DEF Between, TypeOK
  <2>3. CASE msgs' = Append(msgs, M("trade", o, q)) /\ UNCHANGED drift
    <3>1. ASSUME NEW s \in Symbols
          PROVE  Pending(s)' = Pending(s) + IF Sym(o) = s THEN q ELSE 0
      <4>1. msgs \in Seq(Msg) /\ snap \in 0..Len(msgs)
        BY DEF TypeOK
      <4>. QED BY <2>1, <2>2, <2>3, <4>1, UnseenGrows DEF Pending, M
    <3>2. ASSUME NEW s \in Symbols PROVE Fine(s)'
      <4>1. epos'[s] = epos[s] + IF Sym(o) = s THEN q ELSE 0
        BY <2>1, <2>2 DEF TypeOK
      <4>2. pos' = pos /\ drift' = drift
        BY <2>1, <2>3
      <4>. QED BY <1>0, <2>2, <3>1, <4>1, <4>2
    <3>. QED BY <3>2 DEF PositionAccounted, Pending
  <2>4. CASE drift' = [drift EXCEPT ![Sym(o)] = @ - q] /\ UNCHANGED msgs
    <3>1. \A s \in Symbols : Pending(s)' = Pending(s)
      BY <2>1, <2>4 DEF Pending
    <3>2. ASSUME NEW s \in Symbols PROVE Fine(s)'
      BY <1>0, <2>1, <2>2, <2>4, <3>1 DEF TypeOK
    <3>. QED BY <3>2 DEF PositionAccounted, Pending
  <2>. QED BY <2>1, <2>3, <2>4
<1>. QED BY <1>2, <1>3, <1>5, <1>6, <1>7, <1>8 DEF Exchange

LEMMA AccountedWave == ASSUME TypeOK, PositionAccounted, Wave PROVE PositionAccounted'
<1>1. CASE Refresh
  <2>1. CASE UNCHANGED <<pos, snap, drift>>
    BY <1>1, <2>1 DEF Refresh, exchVars, PositionAccounted
  <2>2. CASE pos' = epos /\ snap' = Len(msgs) /\ drift' = [s \in Symbols |-> 0]
    <3>1. \A s \in Symbols : Pending(s)' = 0
      BY <1>1, <2>2, UnseenNone DEF Refresh, Pending, TypeOK
    <3>2. ASSUME NEW s \in Symbols PROVE pos'[s] = epos'[s] - Pending(s)' + drift'[s]
      BY <1>1, <2>2, <3>1 DEF Refresh, exchVars, TypeOK
    <3>. QED BY <3>2 DEF PositionAccounted, Pending
  <2>. QED BY <1>1, <2>1, <2>2 DEF Refresh
<1>2. CASE ~Refresh
  <2>1. UNCHANGED <<pos, epos, msgs, snap, drift>>
    BY <1>2 DEF Wave, Top, CancelSymbol, Sleep, Settle, Subscribe, SendOrder, NoOrder, WaveSent,
                NextWave, exchVars
  <2>. QED BY <2>1 DEF PositionAccounted
<1>. QED BY <1>1, <1>2

LEMMA AccountedMessages == ASSUME TypeOK, PositionAccounted, ProcessOmsMessages PROVE PositionAccounted'
<1> DEFINE Fine(s) == pos[s] = epos[s] - Pending(s) + drift[s]
           m == Head(msgs)
           counted == snap = 0 /\ m.typ = "trade"
<1>0. \A s \in Symbols : Fine(s) /\ Pending(s) \in Int /\ pos[s] \in Int /\ epos[s] \in Int /\ drift[s] \in Int
  BY PendingTyped DEF PositionAccounted, Pending, TypeOK
<1>1. ASSUME Take PROVE m.id \in Id /\ Sym(m.id) \in Symbols /\ m.qty \in Int
  <2>1. m \in Msg
    BY <1>1, TakeTyped
  <2>. QED BY <2>1, IdTyped DEF Msg
<1>2. CASE HandleTrade
  <2>1. /\ pos' = [pos EXCEPT ![Sym(m.id)] = @ + m.qty] /\ epos' = epos
        /\ drift' = IF snap = 0 THEN drift ELSE [drift EXCEPT ![Sym(m.id)] = @ + m.qty]
        /\ Take /\ m.typ = "trade"
    BY <1>2 DEF HandleTrade, AddFill, exchVars
  <2>2. ASSUME NEW s \in Symbols
        PROVE  Pending(s) = Pending(s)' + (IF snap = 0 /\ Sym(m.id) = s THEN m.qty ELSE 0)
               /\ Pending(s)' \in Int
    <3>1. Pending(s)' \in Int
      <4>1. msgs' \in Seq(Msg) /\ snap' \in Nat
        BY <2>1, TakeTyped, LenProperties
      <4>. QED BY <4>1, UnseenTyped, SumInt DEF Pending
    <3>. QED BY <2>1, <3>1, TakenPending
  <2> HIDE DEF m
  <2>3. ASSUME NEW s \in Symbols PROVE Fine(s)'
    <3>1. pos'[s] = pos[s] + (IF s = Sym(m.id) THEN m.qty ELSE 0) /\ epos'[s] = epos[s]
      BY <1>0, <1>1, <2>1 DEF TypeOK
    <3>2. drift'[s] = drift[s] + (IF snap # 0 /\ s = Sym(m.id) THEN m.qty ELSE 0)
      BY <1>0, <1>1, <2>1 DEF TypeOK
    <3>3. m.qty \in Int
      BY <1>1, <2>1
    <3>. QED BY <1>0, <2>2, <3>1, <3>2, <3>3
  <2>. QED BY <2>3 DEF PositionAccounted, Pending
<1>3. CASE Drop
  <2>1. /\ pos' = pos /\ epos' = epos /\ Take
        /\ drift' = IF counted THEN [drift EXCEPT ![Sym(m.id)] = @ - m.qty] ELSE drift
    BY <1>3 DEF Drop, exchVars
  <2>2. ASSUME NEW s \in Symbols
        PROVE  Pending(s) = Pending(s)' + (IF counted /\ Sym(m.id) = s THEN m.qty ELSE 0)
               /\ Pending(s)' \in Int
    <3>1. Pending(s)' \in Int
      <4>1. msgs' \in Seq(Msg) /\ snap' \in Nat
        BY <2>1, TakeTyped, LenProperties
      <4>. QED BY <4>1, UnseenTyped, SumInt DEF Pending
    <3>. QED BY <2>1, <3>1, TakenPending
  <2> HIDE DEF m, counted
  <2>3. ASSUME NEW s \in Symbols PROVE Fine(s)'
    <3>1. drift'[s] = drift[s] - (IF counted /\ s = Sym(m.id) THEN m.qty ELSE 0)
      BY <1>0, <1>1, <2>1 DEF TypeOK
    <3>2. pos'[s] = pos[s] /\ epos'[s] = epos[s]
      BY <2>1
    <3>3. m.qty \in Int
      BY <1>1, <2>1
    <3>. QED BY <1>0, <2>2, <3>1, <3>2, <3>3
  <2>. QED BY <2>3 DEF PositionAccounted, Pending
<1>4. CASE HandleMapping \/ HandleRejection \/ HandleNew \/ HandleEnd \/ HandleUnknown \/ HandleGarbled
  <2>1. UNCHANGED <<pos, epos, drift>> /\ Take /\ m.typ # "trade"
    BY <1>4 DEF HandleMapping, HandleRejection, HandleNew, HandleEnd, HandleUnknown, HandleGarbled,
                exchVars
  <2>2. ASSUME NEW s \in Symbols PROVE Pending(s)' = Pending(s)
    <3>1. Pending(s)' \in Int
      <4>1. msgs' \in Seq(Msg) /\ snap' \in Nat
        BY <2>1, TakeTyped, LenProperties
      <4>. QED BY <4>1, UnseenTyped, SumInt DEF Pending
    <3>. QED BY <2>1, <3>1, TakenPending
  <2>. QED BY <2>1, <2>2 DEF PositionAccounted, Pending
<1>5. CASE Drain \/ Dropped
  BY <1>5 DEF Drain, Dropped, exchVars, PositionAccounted
<1>. QED BY <1>2, <1>3, <1>4, <1>5 DEF ProcessOmsMessages

LEMMA AccountedCrash == ASSUME TypeOK, Crash PROVE PositionAccounted'
<1>1. /\ msgs' = <<>> /\ snap' = 0 /\ epos' = epos /\ pos' = [s \in Symbols |-> 0]
      /\ drift' = [s \in Symbols |-> -epos[s]]
  BY DEF Crash, exchVars
<1>2. ASSUME NEW s \in Symbols PROVE SumOf(Unseen(<<>>, 0, s)) = 0
  <2>1. <<>> \in Seq(Msg) /\ Len(<<>>) = 0
    OBVIOUS
  <2>. QED BY <2>1, UnseenNone
<1>3. ASSUME NEW s \in Symbols PROVE pos'[s] = epos'[s] - SumOf(Unseen(msgs', snap', s)) + drift'[s]
  BY <1>1, <1>2 DEF TypeOK
<1>. QED BY <1>3 DEF PositionAccounted

LEMMA AccountedAtFirst == Init => PositionAccounted
<1> SUFFICES ASSUME Init PROVE PositionAccounted
  OBVIOUS
<1>1. <<>> \in Seq(Msg) /\ Len(<<>>) = 0
  OBVIOUS
<1>2. \A s \in Symbols : SumOf(Unseen(<<>>, 0, s)) = 0
  BY <1>1, UnseenNone
<1>. QED BY <1>2 DEF Init, PositionAccounted

\* refresh_positions and add_fill lose no fill and count none twice beyond
\* those the drift names, whatever goes wrong.
THEOREM PositionsAccounted == Spec => []PositionAccounted
<1>1. TypeOK /\ PositionAccounted /\ [Next]_vars => PositionAccounted'
  <2> SUFFICES ASSUME TypeOK, PositionAccounted, [Next]_vars PROVE PositionAccounted'
    OBVIOUS
  <2>1. CASE UNCHANGED vars
    BY <2>1 DEF vars, exchVars, PositionAccounted
  <2>. QED BY <2>1, AccountedExchange, AccountedWave, AccountedMessages, AccountedCrash DEF Next
<1>. QED BY <1>1, AccountedAtFirst, TypeCorrect, PTL DEF Spec

-----------------------------------------------------------------------------
(* The stream of one order.                                                *)

\* What is at which place when a message is added or taken.
LEMMA StreamGrows ==
    ASSUME NEW ms \in Seq(Msg), NEW m \in Msg
    PROVE  \E n \in Nat :
           /\ Append(ms, m) \in Seq(Msg) /\ DOMAIN Append(ms, m) = 1..n /\ Append(ms, m)[n] = m
           /\ DOMAIN ms = 1..(n - 1) /\ n > 0
           /\ \A i \in 1..(n - 1) : Append(ms, m)[i] = ms[i]
<1> WITNESS Len(ms) + 1 \in Nat
<1>. QED BY AppendProperties, LenProperties

LEMMA StreamTaken ==
    ASSUME NEW ms \in Seq(Msg), ms # <<>>
    PROVE  \E n \in Nat :
           /\ Tail(ms) \in Seq(Msg) /\ DOMAIN Tail(ms) = 1..n
           /\ DOMAIN ms = 1..(n + 1) /\ Head(ms) = ms[1] /\ Head(ms) \in Msg
           /\ \A i \in 1..n : Tail(ms)[i] = ms[i + 1]
<1> DEFINE t == Tail(ms)
<1>1. /\ t \in Seq(Msg) /\ Len(t) = Len(ms) - 1 /\ Head(ms) \in Msg /\ Head(ms) = ms[1]
      /\ \A i \in 1..Len(t) : t[i] = ms[i + 1]
  BY HeadTailProperties
<1>2. Len(t) \in Nat /\ DOMAIN t = 1..Len(t) /\ DOMAIN ms = 1..Len(ms) /\ Len(ms) \in Nat
  BY <1>1, LenProperties
<1> HIDE DEF t
<1>3. DOMAIN ms = 1..(Len(t) + 1)
  BY <1>1, <1>2
<1>4. \E n \in Nat : /\ t \in Seq(Msg) /\ DOMAIN t = 1..n
                     /\ DOMAIN ms = 1..(n + 1) /\ Head(ms) = ms[1] /\ Head(ms) \in Msg
                     /\ \A i \in 1..n : t[i] = ms[i + 1]
  BY <1>1, <1>2, <1>3
<1>. QED BY <1>4 DEF t

\* What is still to be opened and closed in the book, by the messages not
\* yet handled.
LEMMA SumsTyped ==
    ASSUME NEW ms \in Seq(Msg), NEW o
    PROVE  /\ Opened(ms, o) \in Seq(Int) /\ Len(Opened(ms, o)) = Len(ms)
           /\ Closed(ms, o) \in Seq(Int) /\ Len(Closed(ms, o)) = Len(ms)
           /\ SumOf(Opened(ms, o)) \in Nat /\ SumOf(Closed(ms, o)) \in Nat
<1>1. Len(ms) \in Nat /\ \A i \in 1..Len(ms) : ms[i] \in Msg
  BY ElementOfSeq, LenProperties
<1>2. \A i \in 1..Len(ms) : ms[i].qty \in Int /\ Abs(ms[i].qty) \in Nat
                            /\ (Opens(ms[i], o) => ms[i].qty \in Nat)
  BY <1>1 DEF Msg, Abs, Opens
<1>3. Opened(ms, o) \in [1..Len(ms) -> Int] /\ \A i \in 1..Len(ms) : Opened(ms, o)[i] >= 0
  BY <1>1, <1>2 DEF Opened
<1>4. Closed(ms, o) \in [1..Len(ms) -> Int] /\ \A i \in 1..Len(ms) : Closed(ms, o)[i] >= 0
  BY <1>1, <1>2 DEF Closed
<1>5. /\ Opened(ms, o) \in Seq(Int) /\ Len(Opened(ms, o)) = Len(ms)
      /\ Closed(ms, o) \in Seq(Int) /\ Len(Closed(ms, o)) = Len(ms)
  BY <1>1, <1>3, <1>4, FunctionIsSeq
<1>. QED BY <1>3, <1>4, <1>5, SumNat

LEMMA SumsGrow ==
    ASSUME NEW ms \in Seq(Msg), NEW m \in Msg, NEW o
    PROVE  /\ SumOf(Opened(Append(ms, m), o)) =
                SumOf(Opened(ms, o)) + IF Opens(m, o) THEN m.qty ELSE 0
           /\ SumOf(Closed(Append(ms, m), o)) =
                SumOf(Closed(ms, o)) + IF Closes(m, o) THEN Abs(m.qty) ELSE 0
<1> DEFINE new == Append(ms, m)
<1>1. /\ new \in Seq(Msg) /\ Len(new) = Len(ms) + 1 /\ new[Len(ms) + 1] = m
      /\ \A i \in 1..Len(ms) : new[i] = ms[i]
  BY AppendProperties
<1>2. Len(ms) \in Nat
  OBVIOUS
<1> HIDE DEF new
<1>3. /\ \A i \in 1..Len(ms) : Opened(new, o)[i] = Opened(ms, o)[i]
      /\ Opened(new, o)[Len(new)] = IF Opens(m, o) THEN m.qty ELSE 0
  BY <1>1, <1>2 DEF Opened
<1>4. /\ \A i \in 1..Len(ms) : Closed(new, o)[i] = Closed(ms, o)[i]
      /\ Closed(new, o)[Len(new)] = IF Closes(m, o) THEN Abs(m.qty) ELSE 0
  BY <1>1, <1>2 DEF Closed
<1>5. /\ Opened(new, o) \in Seq(Int) /\ Len(Opened(new, o)) = Len(new)
      /\ Opened(ms, o) \in Seq(Int) /\ Len(Opened(ms, o)) = Len(ms)
      /\ Closed(new, o) \in Seq(Int) /\ Len(Closed(new, o)) = Len(new)
      /\ Closed(ms, o) \in Seq(Int) /\ Len(Closed(ms, o)) = Len(ms)
  BY <1>1, SumsTyped
<1>6. SumOf(Opened(new, o)) = SumOf(Opened(ms, o)) + Opened(new, o)[Len(new)]
  BY <1>1, <1>3, <1>5, SumGrows
<1>7. SumOf(Closed(new, o)) = SumOf(Closed(ms, o)) + Closed(new, o)[Len(new)]
  BY <1>1, <1>4, <1>5, SumGrows
<1>. QED BY <1>3, <1>4, <1>6, <1>7 DEF new

LEMMA SumsTaken ==
    ASSUME NEW ms \in Seq(Msg), ms # <<>>, NEW o
    PROVE  /\ SumOf(Opened(ms, o)) =
                SumOf(Opened(Tail(ms), o)) + IF Opens(Head(ms), o) THEN Head(ms).qty ELSE 0
           /\ SumOf(Closed(ms, o)) =
                SumOf(Closed(Tail(ms), o)) + IF Closes(Head(ms), o) THEN Abs(Head(ms).qty) ELSE 0
<1> DEFINE rest == Tail(ms)
<1>1. /\ rest \in Seq(Msg) /\ Len(ms) = Len(rest) + 1 /\ Head(ms) = ms[1] /\ Head(ms) \in Msg
      /\ \A i \in 1..Len(rest) : rest[i] = ms[i + 1]
  BY HeadTailProperties
<1>2. Len(ms) \in Nat /\ Len(rest) \in Nat /\ Head(ms).qty \in Int /\ Abs(Head(ms).qty) \in Int
  BY <1>1 DEF Msg, Abs
<1> HIDE DEF rest
<1>3. /\ \A i \in 1..Len(rest) : Opened(rest, o)[i] = Opened(ms, o)[i + 1]
      /\ Opened(ms, o)[1] = IF Opens(Head(ms), o) THEN Head(ms).qty ELSE 0
  BY <1>1, <1>2 DEF Opened
<1>4. /\ \A i \in 1..Len(rest) : Closed(rest, o)[i] = Closed(ms, o)[i + 1]
      /\ Closed(ms, o)[1] = IF Closes(Head(ms), o) THEN Abs(Head(ms).qty) ELSE 0
  BY <1>1, <1>2 DEF Closed
<1>5. /\ Opened(rest, o) \in Seq(Int) /\ Len(Opened(rest, o)) = Len(rest)
      /\ Opened(ms, o) \in Seq(Int) /\ Len(Opened(ms, o)) = Len(ms)
      /\ Closed(rest, o) \in Seq(Int) /\ Len(Closed(rest, o)) = Len(rest)
      /\ Closed(ms, o) \in Seq(Int) /\ Len(Closed(ms, o)) = Len(ms)
      /\ SumOf(Opened(rest, o)) \in Nat /\ SumOf(Closed(rest, o)) \in Nat
  BY <1>1, SumsTyped
<1>6. SumOf(Opened(ms, o)) = Opened(ms, o)[1] + SumOf(Opened(rest, o))
  BY <1>1, <1>3, <1>5, SumShrinks
<1>7. SumOf(Closed(ms, o)) = Closed(ms, o)[1] + SumOf(Closed(rest, o))
  BY <1>1, <1>4, <1>5, SumShrinks
<1>. QED BY <1>2, <1>3, <1>4, <1>5, <1>6, <1>7 DEF rest

LEMMA SumsNone ==
    ASSUME NEW ms \in Seq(Msg), NEW o
    PROVE  /\ (\A i \in DOMAIN ms : ~Opens(ms[i], o)) => SumOf(Opened(ms, o)) = 0
           /\ (\A i \in DOMAIN ms : ~Closes(ms[i], o)) => SumOf(Closed(ms, o)) = 0
<1>1. /\ Opened(ms, o) \in Seq(Int) /\ Len(Opened(ms, o)) = Len(ms)
      /\ Closed(ms, o) \in Seq(Int) /\ Len(Closed(ms, o)) = Len(ms)
      /\ DOMAIN ms = 1..Len(ms)
  BY SumsTyped, LenProperties
<1>2. ASSUME \A i \in DOMAIN ms : ~Opens(ms[i], o) PROVE SumOf(Opened(ms, o)) = 0
  <2>1. \A i \in 1..Len(Opened(ms, o)) : Opened(ms, o)[i] = 0
    BY <1>1, <1>2 DEF Opened
  <2>. QED BY <1>1, <2>1, SumZero
<1>3. ASSUME \A i \in DOMAIN ms : ~Closes(ms[i], o) PROVE SumOf(Closed(ms, o)) = 0
  <2>1. \A i \in 1..Len(Closed(ms, o)) : Closed(ms, o)[i] = 0
    BY <1>1, <1>3 DEF Closed
  <2>. QED BY <1>1, <2>1, SumZero
<1>. QED BY <1>2, <1>3

Ends(m, o) == m.id = o /\ m.typ \in {"end", "expired"}

\* An order with open quantity l, and r in the book: while its acknowledgement
\* is on the way it is not in the book and nothing overtakes the
\* acknowledgement; nothing comes behind its end, which was of something; and
\* the book agrees.
Told(ms, l, r, o) ==
    /\ \A i \in DOMAIN ms : Opens(ms[i], o) =>
           /\ r = 0 /\ ms[i].qty # 0
           /\ \A j \in DOMAIN ms : /\ Opens(ms[j], o) => j = i
                                   /\ Closes(ms[j], o) => j > i
    /\ \A i \in DOMAIN ms : Ends(ms[i], o) =>
           l = 0 /\ ms[i].qty # 0 /\ \A j \in DOMAIN ms : Closes(ms[j], o) => j <= i
    /\ r = Abs(l) - SumOf(Opened(ms, o)) + SumOf(Closed(ms, o))

\* A message about something else.
LEMMA ToldOther ==
    ASSUME NEW ms \in Seq(Msg), NEW l \in Int, NEW r \in Nat, NEW o, Told(ms, l, r, o),
           NEW m \in Msg, ~Opens(m, o), ~Closes(m, o)
    PROVE  Told(Append(ms, m), l, r, o)
<1>1. PICK n \in Nat :
        /\ Append(ms, m) \in Seq(Msg) /\ DOMAIN Append(ms, m) = 1..n /\ Append(ms, m)[n] = m
        /\ DOMAIN ms = 1..(n - 1) /\ n > 0
        /\ \A i \in 1..(n - 1) : Append(ms, m)[i] = ms[i]
  BY StreamGrows
<1> DEFINE new == Append(ms, m)
<1>2. /\ SumOf(Opened(new, o)) = SumOf(Opened(ms, o)) /\ SumOf(Closed(new, o)) = SumOf(Closed(ms, o))
  BY SumsGrow, SumsTyped
<1> HIDE DEF new
<1>3. /\ DOMAIN new = 1..n /\ new[n] = m /\ \A i \in 1..(n - 1) : new[i] = ms[i]
  BY <1>1 DEF new
<1>4. \A i \in DOMAIN new : Opens(new[i], o) \/ Closes(new[i], o) => i \in DOMAIN ms /\ new[i] = ms[i]
  BY <1>1, <1>3
<1>5. \A i \in DOMAIN new : Ends(new[i], o) => Closes(new[i], o)
  BY DEF Closes, Ends
<1>. QED BY <1>2, <1>4, <1>5 DEF Told, new

\* The acknowledgement of an order nothing is known of.
LEMMA ToldNew ==
    ASSUME NEW ms \in Seq(Msg), NEW l \in Int, l # 0, NEW o, Silent(ms, o),
           NEW m \in Msg, Opens(m, o), m.qty = Abs(l)
    PROVE  Told(Append(ms, m), l, 0, o)
<1>1. PICK n \in Nat :
        /\ Append(ms, m) \in Seq(Msg) /\ DOMAIN Append(ms, m) = 1..n /\ Append(ms, m)[n] = m
        /\ DOMAIN ms = 1..(n - 1) /\ n > 0
        /\ \A i \in 1..(n - 1) : Append(ms, m)[i] = ms[i]
  BY StreamGrows
<1> DEFINE new == Append(ms, m)
<1>0. ~Closes(m, o)
  BY DEF Opens, Closes
<1>2. SumOf(Opened(new, o)) = Abs(l) /\ SumOf(Closed(new, o)) = 0
  <2>1. SumOf(Opened(ms, o)) = 0 /\ SumOf(Closed(ms, o)) = 0
    BY SumsNone DEF Silent
  <2>. QED BY <1>0, <2>1, SumsGrow DEF Abs
<1> HIDE DEF new
<1>3. /\ DOMAIN new = 1..n /\ new[n] = m /\ \A i \in 1..(n - 1) : new[i] = ms[i]
  BY <1>1 DEF new
<1>4. \A i \in DOMAIN new : Opens(new[i], o) => i = n
  BY <1>1, <1>3 DEF Silent
<1>5. \A i \in DOMAIN new : ~Closes(new[i], o)
  BY <1>0, <1>1, <1>3 DEF Silent
<1>6. \A i \in DOMAIN new : Ends(new[i], o) => Closes(new[i], o)
  BY DEF Closes, Ends
<1>7. m.qty # 0 /\ Abs(l) \in Int
  BY DEF Abs
<1>8. \A i \in DOMAIN new : ~Ends(new[i], o)
  BY <1>5, <1>6
<1>. QED BY <1>2, <1>3, <1>4, <1>5, <1>7, <1>8 DEF Told, new

\* A fill or the end of an order that is open.
LEMMA ToldLess ==
    ASSUME NEW ms \in Seq(Msg), NEW l \in Int, l # 0, NEW r \in Nat, NEW o, Told(ms, l, r, o),
           NEW m \in Msg, Closes(m, o), NEW k \in Int, Abs(l) = Abs(k) + Abs(m.qty),
           Ends(m, o) => k = 0 /\ m.qty # 0
    PROVE  Told(Append(ms, m), k, r, o)
<1>1. PICK n \in Nat :
        /\ Append(ms, m) \in Seq(Msg) /\ DOMAIN Append(ms, m) = 1..n /\ Append(ms, m)[n] = m
        /\ DOMAIN ms = 1..(n - 1) /\ n > 0
        /\ \A i \in 1..(n - 1) : Append(ms, m)[i] = ms[i]
  BY StreamGrows
<1> DEFINE new == Append(ms, m)
<1>0. ~Opens(m, o)
  BY DEF Opens, Closes
<1>2. r = Abs(k) - SumOf(Opened(new, o)) + SumOf(Closed(new, o))
  <2>1. /\ SumOf(Opened(new, o)) = SumOf(Opened(ms, o))
        /\ SumOf(Closed(new, o)) = SumOf(Closed(ms, o)) + Abs(m.qty)
        /\ SumOf(Opened(ms, o)) \in Nat /\ SumOf(Closed(ms, o)) \in Nat
    BY <1>0, SumsGrow, SumsTyped
  <2>2. r = Abs(l) - SumOf(Opened(ms, o)) + SumOf(Closed(ms, o))
    BY DEF Told
  <2>3. Abs(k) \in Nat /\ Abs(m.qty) \in Nat /\ Abs(l) \in Nat
    BY DEF Abs, Msg
  <2> HIDE DEF new
  <2>. QED BY <2>1, <2>2, <2>3
<1> HIDE DEF new
<1>3. /\ DOMAIN new = 1..n /\ new[n] = m /\ \A i \in 1..(n - 1) : new[i] = ms[i]
  BY <1>1 DEF new
<1>4. \A i \in DOMAIN new : Opens(new[i], o) => i \in DOMAIN ms /\ new[i] = ms[i] /\ i < n
  BY <1>0, <1>1, <1>3
<1>5. \A i \in DOMAIN new : i = n \/ (i \in DOMAIN ms /\ new[i] = ms[i] /\ i < n)
  BY <1>1, <1>3
<1>6. \A i \in DOMAIN ms : ~Ends(ms[i], o)
  BY DEF Told
<1>7. ASSUME NEW i \in DOMAIN new, Opens(new[i], o)
      PROVE  /\ r = 0 /\ new[i].qty # 0
             /\ \A j \in DOMAIN new : (Opens(new[j], o) => j = i) /\ (Closes(new[j], o) => j > i)
  BY <1>4, <1>5, <1>7 DEF Told
<1>8. ASSUME NEW i \in DOMAIN new, Ends(new[i], o)
      PROVE  k = 0 /\ new[i].qty # 0 /\ \A j \in DOMAIN new : Closes(new[j], o) => j <= i
  <2>1. i = n
    BY <1>5, <1>6, <1>8
  <2>. QED BY <1>3, <1>8, <2>1
<1>. QED BY <1>2, <1>7, <1>8 DEF Told, new

\* What the book becomes when the next message is handled.
Handled(m, r, o) == IF Opens(m, o) THEN m.qty
                    ELSE IF m.id = o /\ m.typ = "trade" THEN Left(r, Abs(m.qty))
                    ELSE IF m.id = o /\ m.typ = "end" THEN 0 ELSE r

LEMMA ToldTaken ==
    ASSUME NEW ms \in Seq(Msg), ms # <<>>, NEW l \in Int, NEW r \in Nat, NEW o, Told(ms, l, r, o),
           ~(Head(ms).typ = "expired" /\ Head(ms).id = o)
    PROVE  Told(Tail(ms), l, Handled(Head(ms), r, o), o)
<1> DEFINE rest == Tail(ms)
           m == Head(ms)
           x == Handled(m, r, o)
<1>1. PICK n \in Nat :
        /\ rest \in Seq(Msg) /\ DOMAIN rest = 1..n
        /\ DOMAIN ms = 1..(n + 1) /\ m = ms[1] /\ m \in Msg
        /\ \A i \in 1..n : rest[i] = ms[i + 1]
  BY StreamTaken
<1>2. /\ SumOf(Opened(ms, o)) = SumOf(Opened(rest, o)) + IF Opens(m, o) THEN m.qty ELSE 0
      /\ SumOf(Closed(ms, o)) = SumOf(Closed(rest, o)) + IF Closes(m, o) THEN Abs(m.qty) ELSE 0
  BY SumsTaken
<1>3. SumOf(Opened(rest, o)) \in Nat /\ SumOf(Closed(rest, o)) \in Nat
  BY <1>1, SumsTyped
<1>4. /\ r = Abs(l) - SumOf(Opened(ms, o)) + SumOf(Closed(ms, o))
      /\ Abs(l) \in Nat /\ Abs(m.qty) \in Nat /\ (Opens(m, o) => m.qty \in Nat)
      /\ 1 \in DOMAIN ms
  BY <1>1 DEF Told, Abs, Msg, Opens
<1> HIDE DEF rest, m
<1>5. \A i \in DOMAIN rest : i + 1 \in DOMAIN ms /\ rest[i] = ms[i + 1] /\ i + 1 > 1 /\ i \in Int
  BY <1>1
<1>6. ASSUME NEW i \in DOMAIN rest, Ends(rest[i], o)
      PROVE  l = 0 /\ rest[i].qty # 0 /\ \A j \in DOMAIN rest : Closes(rest[j], o) => j <= i
  BY <1>5, <1>6 DEF Told
<1>7. CASE Opens(m, o)
  <2>1. r = 0 /\ \A j \in DOMAIN ms : Opens(ms[j], o) => j = 1
    BY <1>1, <1>4, <1>7 DEF Told
  <2>2. \A i \in DOMAIN rest : ~Opens(rest[i], o)
    BY <1>5, <2>1
  <2>3. ~Closes(m, o) /\ x = m.qty
    BY <1>7 DEF Opens, Closes, Handled
  <2>4. SumOf(Opened(rest, o)) = 0
    BY <1>1, <2>2, SumsNone
  <2>5. x = Abs(l) - SumOf(Opened(rest, o)) + SumOf(Closed(rest, o))
    BY <1>2, <1>3, <1>4, <1>7, <2>1, <2>3, <2>4
  <2>. QED BY <1>6, <2>2, <2>5 DEF Told, rest, m
<1>8. CASE ~Opens(m, o) /\ ~Closes(m, o)
  <2>1. x = r
    BY <1>8 DEF Opens, Closes, Handled
  <2>2. x = Abs(l) - SumOf(Opened(rest, o)) + SumOf(Closed(rest, o))
    BY <1>2, <1>3, <1>4, <1>8, <2>1
  <2>3. ASSUME NEW i \in DOMAIN rest, Opens(rest[i], o)
        PROVE  /\ r = 0 /\ rest[i].qty # 0
               /\ \A j \in DOMAIN rest : (Opens(rest[j], o) => j = i) /\ (Closes(rest[j], o) => j > i)
    BY <1>5, <2>3 DEF Told
  <2>. QED BY <1>6, <2>1, <2>2, <2>3 DEF Told, rest, m
\* An acknowledgement would come before what takes off the order.
<1>9. CASE Closes(m, o)
  <2>0. ~Opens(m, o)
    BY <1>9 DEF Opens, Closes
  <2>1. \A i \in DOMAIN ms : ~Opens(ms[i], o)
    <3> SUFFICES ASSUME NEW i \in DOMAIN ms, Opens(ms[i], o) PROVE FALSE
      OBVIOUS
    <3>1. 1 > i /\ i \in 1..(n + 1)
      BY <1>1, <1>4, <1>9 DEF Told
    <3>. QED BY <3>1
  <2>2. \A i \in DOMAIN rest : ~Opens(rest[i], o)
    BY <1>5, <2>1
  <2>3. SumOf(Opened(rest, o)) = 0
    BY <1>1, <2>2, SumsNone
  <2>4. r = Abs(l) + SumOf(Closed(rest, o)) + Abs(m.qty)
    BY <1>2, <1>3, <1>4, <1>9, <2>0, <2>3
  <2>5. CASE m.typ = "trade"
    <3>1. x = r - Abs(m.qty)
      BY <1>3, <1>4, <1>9, <2>0, <2>4, <2>5 DEF Closes, Handled, Left
    <3>2. x = Abs(l) - SumOf(Opened(rest, o)) + SumOf(Closed(rest, o))
      BY <1>3, <1>4, <2>3, <2>4, <3>1
    <3>. QED BY <1>6, <2>2, <3>2 DEF Told, rest, m
  <2>6. CASE m.typ = "end"
    <3>1. l = 0 /\ \A j \in DOMAIN ms : Closes(ms[j], o) => j <= 1
      BY <1>1, <1>4, <1>9, <2>6 DEF Told, Closes, Ends
    <3>2. \A i \in DOMAIN rest : ~Closes(rest[i], o)
      BY <1>5, <3>1
    <3>3. SumOf(Closed(rest, o)) = 0
      BY <1>1, <3>2, SumsNone
    <3>4. x = 0
      BY <1>9, <2>0, <2>6 DEF Closes, Handled
    <3>5. x = Abs(l) - SumOf(Opened(rest, o)) + SumOf(Closed(rest, o))
      BY <2>3, <3>1, <3>3, <3>4 DEF Abs
    <3>. QED BY <1>6, <2>2, <3>5 DEF Told, rest, m
  <2>. QED BY <1>9, <2>5, <2>6 DEF Closes, m
<1>. QED BY <1>7, <1>8, <1>9

\* An end the trader does not know leaves something in the book, of an order
\* that is open no more and of which nothing more will be heard.
LEMMA ToldLapsed ==
    ASSUME NEW ms \in Seq(Msg), ms # <<>>, NEW l \in Int, NEW r \in Nat, NEW o, Told(ms, l, r, o),
           Head(ms).typ = "expired", Head(ms).id = o
    PROVE  l = 0 /\ r # 0 /\ Silent(Tail(ms), o) /\ Handled(Head(ms), r, o) = r
<1> DEFINE rest == Tail(ms)
           m == Head(ms)
<1>1. PICK n \in Nat :
        /\ rest \in Seq(Msg) /\ DOMAIN rest = 1..n
        /\ DOMAIN ms = 1..(n + 1) /\ m = ms[1] /\ m \in Msg
        /\ \A i \in 1..n : rest[i] = ms[i + 1]
  BY StreamTaken
<1>2. Closes(m, o) /\ Ends(m, o) /\ ~Opens(m, o) /\ m.typ # "trade" /\ m.typ # "end"
  BY DEF Closes, Ends, Opens
<1>3. SumOf(Closed(ms, o)) = SumOf(Closed(rest, o)) + Abs(m.qty)
  BY <1>2, SumsTaken
<1>4. SumOf(Closed(rest, o)) \in Nat
  BY <1>1, SumsTyped
<1>5. 1 \in DOMAIN ms
  BY <1>1
<1> HIDE DEF rest, m
<1>6. l = 0 /\ m.qty # 0 /\ \A j \in DOMAIN ms : Closes(ms[j], o) => j <= 1
  BY <1>1, <1>2, <1>5 DEF Told
<1>7. \A i \in DOMAIN ms : ~Opens(ms[i], o)
  <2> SUFFICES ASSUME NEW i \in DOMAIN ms, Opens(ms[i], o) PROVE FALSE
    OBVIOUS
  <2>1. 1 > i /\ i \in 1..(n + 1)
    BY <1>1, <1>2, <1>5 DEF Told
  <2>. QED BY <2>1
<1>8. SumOf(Opened(ms, o)) = 0
  BY <1>7, SumsNone
<1>9. r = Abs(0) - SumOf(Opened(ms, o)) + SumOf(Closed(ms, o))
  BY <1>6 DEF Told
<1>10. Abs(m.qty) > 0 /\ Abs(m.qty) \in Int /\ Abs(0) = 0
  BY <1>1, <1>6 DEF Abs, Msg
<1>11. r # 0
  BY <1>3, <1>4, <1>8, <1>9, <1>10
<1>12. Silent(rest, o)
  BY <1>1, <1>6, <1>7 DEF Silent
<1>13. Handled(m, r, o) = r
  BY <1>2 DEF Handled
<1>. QED BY <1>6, <1>11, <1>12, <1>13 DEF rest, m

-----------------------------------------------------------------------------
(* The invariant of the book.                                              *)

\* No request, message or process is lost, every acknowledgement can be read,
\* and a wave's requests are executed before the next wave begins, which is
\* before an order counts as stale.
Punctual == /\ {"crash", "lost_message", "lost_request", "unparsable"} \intersect Faults = {}
            /\ MaxReqs = 0 /\ StaleWaves >= 2

\* The first b messages hold all that takes off order o.
NoneAfter(ms, b, o) == \A i \in DOMAIN ms : Closes(ms[i], o) => i <= b

\* Order o is on its way: it is asked for once and nobody has heard of it.
Asks(i, o) == reqs[i].typ = "new" /\ reqs[i].id = o
Asked(o) == \A i \in DOMAIN reqs : Asks(i, o) =>
                /\ Own(o) /\ live[o] = 0 /\ rem[o] = 0 /\ Silent(msgs, o) /\ reqs[i].qty # 0
                /\ \A j \in DOMAIN reqs : Asks(j, o) => j = i

\* An order in the book that is old is open no more, once the cancels of the
\* wave are done, and its last messages are handled before the next wave: none
\* is ever stale, but those that ended by an event the trader does not know.
Aged(o) == /\ age[o] # NoTs => rem[o] # 0 /\ Own(o)
           /\ o \notin lapsed =>
                /\ age[o] >= 1 => \/ live[o] = 0 \/ CancelBehind(0, Sym(o))
                                  \/ pc = "cancel" /\ Sym(o) \in todo
                /\ age[o] >= 2 => live[o] = 0
                /\ age[o] >= 2 /\ pc = "between" => NoneAfter(msgs, batch, o)
                /\ pc = "top" => age[o] <= 1

\* Those are in the book for good or until they are stale.
Gone(o) == rem[o] # 0 /\ live[o] = 0 /\ Silent(msgs, o)

\* Nothing happens before the trader listens, and it can read what it hears.
Heard == /\ pc # "drop" /\ \A i \in DOMAIN msgs : msgs[i].typ # "garbled"
         /\ ~Subscribed => /\ reqs = <<>> /\ symbols = Symbols
                           /\ \A o \in Id : live[o] = 0 /\ age[o] = NoTs
                           /\ \A s \in Symbols : epos[s] = 0

OrderInv(o) == /\ Asked(o) /\ Aged(o)
               /\ IF o \in lapsed THEN Gone(o) ELSE Told(msgs, live[o], rem[o], o)

\* The orders of the symbols that are cancelled.
Watched == {o \in Id : Sym(o) \in symbols}

BookInv == /\ Heard
           /\ \A o \in Watched : OrderInv(o)
           /\ \A o \in pending : Own(o)

-----------------------------------------------------------------------------
(* Messages about something else.                                          *)

\* Nothing about order o is in stream t that is not in stream ms.
Unmoved(ms, t, o) ==
    /\ \A l \in Int, r \in Nat : Told(ms, l, r, o) => Told(t, l, r, o)
    /\ Silent(ms, o) => Silent(t, o)
    /\ \A b \in Nat : NoneAfter(ms, b, o) => NoneAfter(t, b, o)

LEMMA OtherMessage ==
    ASSUME NEW ms \in Seq(Msg), NEW m \in Msg, NEW o, ~Opens(m, o), ~Closes(m, o)
    PROVE  Unmoved(ms, Append(ms, m), o)
<1>1. PICK n \in Nat :
        /\ Append(ms, m) \in Seq(Msg) /\ DOMAIN Append(ms, m) = 1..n /\ Append(ms, m)[n] = m
        /\ DOMAIN ms = 1..(n - 1) /\ n > 0
        /\ \A i \in 1..(n - 1) : Append(ms, m)[i] = ms[i]
  BY StreamGrows
<1> DEFINE new == Append(ms, m)
<1>2. \A i \in DOMAIN new : (i \in DOMAIN ms /\ new[i] = ms[i]) \/ new[i] = m
  BY <1>1
<1>3. \A l \in Int, r \in Nat : Told(ms, l, r, o) => Told(new, l, r, o)
  BY ToldOther
<1> HIDE DEF new
<1>. QED BY <1>2, <1>3 DEF Unmoved, Silent, NoneAfter, new

\* A fill or an end of order o, when it is not old.
LEMMA OtherTwo ==
    ASSUME NEW ms \in Seq(Msg), NEW a \in Msg, NEW b \in Msg, NEW o,
           ~Opens(a, o), ~Closes(a, o), ~Opens(b, o), ~Closes(b, o)
    PROVE  Unmoved(ms, Append(Append(ms, a), b), o)
<1>1. Append(ms, a) \in Seq(Msg)
  BY AppendProperties
<1>2. Unmoved(ms, Append(ms, a), o) /\ Unmoved(Append(ms, a), Append(Append(ms, a), b), o)
  BY <1>1, OtherMessage
<1>. QED BY <1>2 DEF Unmoved

\* An order on which nothing happens while the exchange acts on another.
LEMMA Bystander ==
    ASSUME TypeOK, NEW o \in Id, OrderInv(o), UNCHANGED <<pc, todo, batch, rem, age, lapsed>>,
           live'[o] = live[o], Unmoved(msgs, msgs', o),
           \/ UNCHANGED reqs
           \/ /\ reqs # <<>> /\ reqs' = Tail(reqs)
              /\ Head(reqs).typ = "cancel" => ~Open(o, Sym(Head(reqs).id))
    PROVE  OrderInv(o)'
<1>0. rem[o] \in Nat /\ live[o] \in Int /\ age[o] \in Int /\ batch \in Nat
  BY LenProperties, BoundsAssumption DEF TypeOK, NoTs
<1>1. IF o \in lapsed' THEN Gone(o)' ELSE Told(msgs', live'[o], rem'[o], o)
  BY <1>0 DEF OrderInv, Unmoved, Gone
<1>2. Asked(o)'
  <2>1. CASE UNCHANGED reqs
    BY <2>1 DEF OrderInv, Asked, Asks, Unmoved
  <2>2. CASE reqs # <<>> /\ reqs' = Tail(reqs)
    <3>1. \A i \in DOMAIN reqs' : i \in Int /\ i + 1 \in DOMAIN reqs /\ reqs'[i] = reqs[i + 1]
      BY <2>2, TailOfReqs
    <3>. QED BY <3>1 DEF OrderInv, Asked, Asks, Unmoved
  <2>. QED BY <2>1, <2>2
<1>3. CancelBehind(0, Sym(o)) /\ live[o] # 0 /\ Own(o) => CancelBehind(0, Sym(o))'
  <2>1. CASE UNCHANGED reqs
    BY <2>1 DEF CancelBehind
  <2>2. CASE /\ reqs # <<>> /\ reqs' = Tail(reqs)
             /\ Head(reqs).typ = "cancel" => ~Open(o, Sym(Head(reqs).id))
    <3> SUFFICES ASSUME CancelBehind(0, Sym(o)), live[o] # 0, Own(o) PROVE CancelBehind(0, Sym(o))'
      OBVIOUS
    <3>1. ~(reqs[1].typ = "cancel" /\ Sym(reqs[1].id) = Sym(o))
      BY <2>2, TailOfReqs DEF Open
    <3>2. /\ DOMAIN reqs \subseteq Int /\ \A j \in DOMAIN reqs : j >= 1
      BY <2>2, TailOfReqs
    <3>3. CancelBehind(0 + 1, Sym(o))
      BY <3>1, <3>2 DEF CancelBehind
    <3>. QED BY <2>2, <3>3, CancelMovesUp, IdTyped
  <2>. QED BY <2>1, <2>2
<1>4. Aged(o)'
  BY <1>0, <1>3 DEF OrderInv, Aged, Unmoved, NoTs
<1>. QED BY <1>1, <1>2, <1>4 DEF OrderInv

-----------------------------------------------------------------------------
(* The exchange and the book.                                              *)

\* The exchange acts only after the trader has begun to listen, and tells.
LEMMA Tells ==
    ASSUME Punctual, TypeOK, Heard, Exchange
    PROVE  /\ Subscribed
           /\ \A a \in Msg : Emit(<<a>>) => msgs' = Append(msgs, a)
           /\ \A a, b \in Msg : Emit(<<a, b>>) => msgs' = Append(Append(msgs, a), b)
<1>1. Subscribed
  <2> SUFFICES ASSUME ~Subscribed PROVE FALSE
    OBVIOUS
  <2>1. reqs = <<>> /\ (\A o \in Id : live[o] = 0) /\ \A s \in Symbols : epos[s] = 0
    BY DEF Heard
  <2>2. ~Fill
    BY <2>1 DEF Fill, Between
  <2>. QED BY <2>1, <2>2 DEF Exchange, Accept, Reject, CancelOne, CancelDone, LoseRequest, Expire,
                             Autoclose
<1>2. ~Missed
  BY <1>1 DEF Missed, Punctual
<1>3. msgs \in Seq(Msg)
  BY DEF TypeOK
<1>. QED BY <1>1, <1>2, <1>3, OneMore, TwoMore DEF Emit

\* The trader can read what is added.
LEMMA HeardMore ==
    ASSUME TypeOK, Heard, Subscribed, UNCHANGED pc,
           NEW a \in Msg, NEW b \in Msg, a.typ # "garbled", b.typ # "garbled",
           UNCHANGED msgs \/ msgs' = Append(msgs, a) \/ msgs' = Append(Append(msgs, a), b)
    PROVE  Heard'
<1>0. msgs \in Seq(Msg) /\ Append(msgs, a) \in Seq(Msg)
  BY AppendProperties DEF TypeOK
<1>1. ASSUME NEW ms \in Seq(Msg), \A i \in DOMAIN ms : ms[i].typ # "garbled",
             NEW m \in Msg, m.typ # "garbled"
      PROVE  \A i \in DOMAIN Append(ms, m) : Append(ms, m)[i].typ # "garbled"
  <2>1. PICK n \in Nat :
          /\ Append(ms, m) \in Seq(Msg) /\ DOMAIN Append(ms, m) = 1..n /\ Append(ms, m)[n] = m
          /\ DOMAIN ms = 1..(n - 1) /\ n > 0
          /\ \A i \in 1..(n - 1) : Append(ms, m)[i] = ms[i]
    BY StreamGrows
  <2> DEFINE new == Append(ms, m)
  <2>2. \A i \in DOMAIN new : (i \in DOMAIN ms /\ new[i] = ms[i]) \/ new[i] = m
    BY <2>1
  <2> HIDE DEF new
  <2>3. \A i \in DOMAIN new : new[i].typ # "garbled"
    BY <1>1, <2>2
  <2>. QED BY <2>3 DEF new
<1>2. \A i \in DOMAIN Append(msgs, a) : Append(msgs, a)[i].typ # "garbled"
  BY <1>0, <1>1 DEF Heard
<1>3. \A i \in DOMAIN Append(Append(msgs, a), b) : Append(Append(msgs, a), b)[i].typ # "garbled"
  BY <1>0, <1>1, <1>2
<1>. QED BY <1>2, <1>3 DEF Heard, Subscribed

\* An open order loses some of its quantity, or all of it, and it is told.
LEMMA LessOpen ==
    ASSUME TypeOK, NEW o \in Id, OrderInv(o), live[o] # 0, NEW m \in Msg, Closes(m, o),
           UNCHANGED <<pc, todo, batch, rem, age, lapsed, reqs>>, msgs' = Append(msgs, m),
           live'[o] \in Int, Abs(live[o]) = Abs(live'[o]) + Abs(m.qty),
           Ends(m, o) => live'[o] = 0 /\ m.qty # 0
    PROVE  OrderInv(o)'
<1>0. rem[o] \in Nat /\ live[o] \in Int /\ age[o] \in Int /\ msgs \in Seq(Msg) /\ o \notin lapsed
  BY BoundsAssumption DEF TypeOK, NoTs, OrderInv, Gone
<1>1. Told(msgs', live'[o], rem'[o], o)
  BY <1>0, ToldLess DEF OrderInv
<1>2. Asked(o)'
  BY DEF OrderInv, Asked, Asks
<1>3. Aged(o)'
  <2>1. age[o] <= 1
    BY <1>0 DEF OrderInv, Aged
  <2>. QED BY <1>0, <2>1 DEF OrderInv, Aged, CancelBehind
<1>. QED BY <1>0, <1>1, <1>2, <1>3 DEF OrderInv

\* An order of which nobody has heard is opened and acknowledged.
LEMMA OrderOpened ==
    ASSUME TypeOK, NEW o \in Id, OrderInv(o), rem[o] = 0,
           UNCHANGED <<pc, todo, batch, rem, age, lapsed>>,
           NEW ms \in Seq(Msg), Silent(ms, o), NEW m \in Msg, Opens(m, o), msgs' = Append(ms, m),
           live'[o] \in Int, live'[o] # 0, m.qty = Abs(live'[o]),
           \A i \in DOMAIN reqs' : ~Asks(i, o)'
    PROVE  OrderInv(o)'
<1>0. age[o] = NoTs /\ o \notin lapsed
  BY DEF OrderInv, Aged, Gone
<1>1. Told(msgs', live'[o], rem'[o], o)
  BY ToldNew
<1>2. Asked(o)'
  BY DEF Asked
<1>3. Aged(o)'
  BY <1>0 DEF Aged, NoTs
<1>. QED BY <1>0, <1>1, <1>2, <1>3 DEF OrderInv

LEMMA ExchangeBook == ASSUME Punctual, TypeOK, BookInv, Exchange PROVE BookInv'
<1>0. /\ Heard /\ Subscribed /\ pending' = pending /\ "lost_request" \notin Faults
      /\ msgs \in Seq(Msg)
  BY Tells DEF BookInv, Punctual, Exchange, Accept, Reject, CancelOne, CancelDone, LoseRequest,
               Fill, Expire, Autoclose, bookVars, TypeOK
<1>1. UNCHANGED <<pc, todo, batch, rem, age, lapsed>> /\ Watched' = Watched
  BY DEF Exchange, Accept, Reject, CancelOne, CancelDone, LoseRequest, Fill, Expire, Autoclose,
         bookVars, waveVars, Watched
<1>2. SUFFICES Heard' /\ \A o \in Watched : OrderInv(o)'
  BY <1>0, <1>1 DEF BookInv
<1>3. ASSUME NEW p \in Id, live[p] # 0, NEW typ \in {"end", "expired"}, EndOrder(p, typ),
             UNCHANGED reqs
      PROVE  Heard' /\ \A o \in Watched : OrderInv(o)'
  <2> DEFINE m == M(typ, p, Abs(live[p]))
  <2>1. m \in Msg /\ Closes(m, p) /\ m.typ \in {"end", "expired"} /\ m.id = p /\ m.qty = Abs(live[p])
        /\ Abs(Abs(live[p])) = Abs(live[p]) /\ Abs(live[p]) \in Int /\ Abs(0) = 0 /\ m.qty # 0
    BY <1>3, MsgTyped DEF TypeOK, Abs, M, Closes
  <2>2. msgs' = Append(msgs, m) /\ live' = [live EXCEPT ![p] = 0]
    BY <1>0, <1>3, <2>1, Tells DEF EndOrder
  <2> HIDE DEF m
  <2>3. Heard'
    BY <1>0, <1>1, <2>1, <2>2, HeardMore
  <2>4. ASSUME NEW o \in Watched PROVE OrderInv(o)'
    <3>1. CASE o = p
      <4>1. live'[p] = 0
        BY <2>2 DEF TypeOK
      <4>2. OrderInv(p)
        BY <3>1 DEF BookInv
      <4>. QED BY <1>1, <1>3, <2>1, <2>2, <3>1, <4>1, <4>2, LessOpen
    <3>2. CASE o # p
      <4>1. live'[o] = live[o] /\ Unmoved(msgs, msgs', o)
        BY <1>0, <2>1, <2>2, <3>2, OtherMessage DEF TypeOK, Opens, Closes
      <4>. QED BY <1>1, <1>3, <4>1, Bystander DEF BookInv, Watched
    <3>. QED BY <3>1, <3>2
  <2>. QED BY <2>3, <2>4
<1>4. CASE Accept
  <2> DEFINE r == Head(reqs)
             a == M("map", r.id, 0)
             b == M("new", r.id, Abs(r.qty))
  <2>1. r \in Req /\ r.id \in Id /\ r.qty \in Int /\ r.typ = "new" /\ reqs # <<>> /\ reqs' = Tail(reqs)
    BY <1>4, RequestTyped DEF Accept, Req
  <2>2. /\ a \in Msg /\ b \in Msg /\ a.typ = "map" /\ b.typ = "new" /\ a.id = r.id /\ b.id = r.id
        /\ b.qty = Abs(r.qty)
    BY <2>1, MsgTyped DEF M, Abs
  <2>3. msgs' = Append(Append(msgs, a), b) /\ live' = [live EXCEPT ![r.id] = r.qty]
    BY <1>4, <1>0, <2>2, Tells DEF Accept
  <2>4. /\ 1 \in DOMAIN reqs /\ r = reqs[1]
        /\ \A i \in DOMAIN reqs' : i \in Int /\ i >= 1 /\ i + 1 \in DOMAIN reqs /\ reqs'[i] = reqs[i + 1]
    BY <2>1, TailOfReqs
  <2> HIDE DEF r, a, b
  <2>5. Heard'
    BY <1>0, <1>1, <2>2, <2>3, HeardMore
  <2>6. ASSUME NEW o \in Watched PROVE OrderInv(o)'
    <3>0. OrderInv(o)
      BY DEF BookInv
    <3>1. CASE o = r.id
      <4>1. /\ rem[o] = 0 /\ Silent(msgs, o) /\ r.qty # 0
            /\ \A j \in DOMAIN reqs : Asks(j, o) => j = 1
        BY <2>1, <2>4, <3>0, <3>1 DEF OrderInv, Asked, Asks
      <4>2. \A i \in DOMAIN reqs' : ~Asks(i, o)'
        BY <2>4, <4>1 DEF Asks
      <4>3. Append(msgs, a) \in Seq(Msg) /\ Silent(Append(msgs, a), o)
        BY <1>0, <2>2, <4>1, OtherMessage, AppendProperties DEF Unmoved, Opens, Closes
      <4>4. live'[o] = r.qty
        BY <2>1, <2>3, <3>1 DEF TypeOK
      <4>. QED BY <1>1, <2>1, <2>2, <2>3, <3>0, <3>1, <4>1, <4>2, <4>3, <4>4, OrderOpened DEF Opens
    <3>2. CASE o # r.id
      <4>1. live'[o] = live[o] /\ Unmoved(msgs, msgs', o)
        BY <1>0, <2>2, <2>3, <3>2, OtherTwo DEF TypeOK, Opens, Closes
      <4>. QED BY <1>1, <2>1, <3>0, <4>1, Bystander DEF r, Watched
    <3>. QED BY <3>1, <3>2
  <2>. QED BY <2>5, <2>6
<1>5. CASE Reject
  <2> DEFINE m == M("reject", Head(reqs).id, 0)
  <2>1. Head(reqs).id \in Id /\ reqs # <<>> /\ reqs' = Tail(reqs) /\ Head(reqs).typ = "new" /\ live' = live
    BY <1>5, RequestTyped DEF Reject, Req
  <2>2. m \in Msg /\ m.typ = "reject"
    BY <2>1, MsgTyped DEF M
  <2>3. msgs' = Append(msgs, m)
    BY <1>5, <1>0, <2>2, Tells DEF Reject
  <2> HIDE DEF m
  <2>4. Heard'
    BY <1>0, <1>1, <2>2, <2>3, HeardMore
  <2>5. ASSUME NEW o \in Watched PROVE OrderInv(o)'
    <3>1. Unmoved(msgs, msgs', o)
      BY <1>0, <2>2, <2>3, OtherMessage DEF Opens, Closes
    <3>. QED BY <1>1, <2>1, <3>1, Bystander DEF BookInv, Watched
  <2>. QED BY <2>4, <2>5
<1>6. CASE CancelOne
  <2>1. PICK o \in Id : live[o] # 0 /\ EndOrder(o, "end") /\ UNCHANGED reqs
    BY <1>6 DEF CancelOne
  <2>. QED BY <1>3, <2>1
<1>7. CASE Expire
  <2>1. PICK o \in Id : /\ live[o] # 0 /\ UNCHANGED reqs
                         /\ \E typ \in {"end", "expired"} : EndOrder(o, typ)
    BY <1>7 DEF Expire
  <2>. QED BY <1>3, <2>1
<1>8. CASE CancelDone
  <2>1. /\ reqs # <<>> /\ reqs' = Tail(reqs) /\ msgs' = msgs /\ live' = live
        /\ \A o \in Id : ~Open(o, Sym(Head(reqs).id))
    BY <1>8 DEF CancelDone, Open
  <2>2. Heard'
    BY <1>0, <1>1, <2>1 DEF Heard, Subscribed
  <2>3. ASSUME NEW o \in Watched PROVE OrderInv(o)'
    <3>1. Unmoved(msgs, msgs', o)
      BY <2>1 DEF Unmoved
    <3>. QED BY <1>1, <2>1, <3>1, Bystander DEF BookInv, Watched
  <2>. QED BY <2>2, <2>3
<1>9. CASE LoseRequest
  BY <1>0, <1>9 DEF LoseRequest
<1>10. CASE Fill
  <2>0. PICK p \in Id : \E q \in Between(0, live[p]) \ {0} :
            /\ live' = [live EXCEPT ![p] = @ - q] /\ UNCHANGED reqs
            /\ msgs' = Append(msgs, M("trade", p, q)) \/ Missed
    BY <1>10 DEF Fill
  <2>1. PICK q \in Between(0, live[p]) \ {0} :
            /\ live' = [live EXCEPT ![p] = @ - q] /\ UNCHANGED reqs
            /\ msgs' = Append(msgs, M("trade", p, q)) \/ Missed
    BY <2>0
  <2> DEFINE m == M("trade", p, q)
  <2>2. /\ live[p] \in Int /\ q \in Int /\ live[p] # 0
        /\ Abs(live[p]) = Abs(live[p] - q) + Abs(q) /\ live'[p] = live[p] - q
    <3>1. live[p] \in Int /\ live'[p] = live[p] - q
      BY <2>1 DEF TypeOK
    <3>2. q \in Int /\ q # 0 /\ ((0 < q /\ q <= live[p]) \/ (live[p] <= q /\ q < 0))
      BY <3>1 DEF Between
    <3>. QED BY <3>1, <3>2 DEF Abs
  <2>3. m \in Msg /\ m.typ = "trade" /\ m.id = p /\ m.qty = q
    BY <2>2, MsgTyped DEF M
  <2>4. msgs' = Append(msgs, m)
    BY <1>0, <2>1 DEF Missed, Punctual
  <2> HIDE DEF m
  <2>5. Heard'
    BY <1>0, <1>1, <2>3, <2>4, HeardMore
  <2>6. ASSUME NEW o \in Watched PROVE OrderInv(o)'
    <3>1. CASE o = p
      <4>1. OrderInv(p)
        BY <3>1 DEF BookInv
      <4>2. Closes(m, p) /\ live'[p] \in Int /\ Abs(live[p]) = Abs(live'[p]) + Abs(m.qty)
        BY <2>2, <2>3 DEF Closes
      <4>. QED BY <1>1, <2>1, <2>2, <2>3, <2>4, <3>1, <4>1, <4>2, LessOpen DEF Ends
    <3>2. CASE o # p
      <4>1. live'[o] = live[o] /\ Unmoved(msgs, msgs', o)
        BY <1>0, <2>1, <2>3, <2>4, <3>2, OtherMessage DEF TypeOK, Opens, Closes
      <4>. QED BY <1>1, <2>1, <4>1, Bystander DEF BookInv, Watched
    <3>. QED BY <3>1, <3>2
  <2>. QED BY <2>5, <2>6
<1>11. CASE Autoclose
  <2>1. PICK s \in Symbols : /\ epos[s] # 0 /\ Unused(<<s, 0>>) /\ UNCHANGED reqs
                             /\ live' = [live EXCEPT ![<<s, 0>>] = -epos[s]]
                             /\ Emit(<<M("new", <<s, 0>>, Abs(epos[s]))>>)
    BY <1>11 DEF Autoclose, Punctual
  <2> DEFINE p == <<s, 0>>
             m == M("new", p, Abs(epos[s]))
  <2>2. p \in Id /\ ~Own(p) /\ epos[s] \in Int /\ Abs(epos[s]) \in Nat /\ Abs(-epos[s]) = Abs(epos[s])
        /\ -epos[s] # 0 /\ -epos[s] \in Int
    BY <2>1, IdTyped DEF TypeOK, Abs
  <2>3. m \in Msg /\ m.typ = "new" /\ m.id = p /\ m.qty = Abs(epos[s])
    BY <2>2, MsgTyped DEF M
  <2>4. msgs' = Append(msgs, m)
    BY <1>0, <2>1, <2>3, Tells
  <2>5. rem[p] = 0 /\ Silent(msgs, p) /\ live' = [live EXCEPT ![p] = -epos[s]]
    BY <2>1 DEF Unused, Silent, Opens, Closes
  <2> HIDE DEF m, p
  <2>6. Heard'
    BY <1>0, <1>1, <2>3, <2>4, HeardMore
  <2>7. ASSUME NEW o \in Watched PROVE OrderInv(o)'
    <3>0. OrderInv(o)
      BY DEF BookInv
    <3>1. CASE o = p
      <4>1. \A i \in DOMAIN reqs' : ~Asks(i, o)'
        BY <2>1, <2>2, <3>0, <3>1 DEF OrderInv, Asked, Asks
      <4>2. live'[o] = -epos[s]
        BY <2>2, <2>5, <3>1 DEF TypeOK
      <4>3. Opens(m, o) /\ m.qty = Abs(live'[o]) /\ live'[o] \in Int /\ live'[o] # 0
        BY <2>2, <2>3, <3>1, <4>2 DEF Opens
      <4>. QED BY <1>0, <1>1, <2>3, <2>4, <2>5, <3>0, <3>1, <4>1, <4>3, OrderOpened DEF Watched
    <3>2. CASE o # p
      <4>1. live'[o] = live[o] /\ Unmoved(msgs, msgs', o)
        BY <1>0, <2>3, <2>4, <2>5, <3>2, OtherMessage DEF TypeOK, Opens, Closes
      <4>. QED BY <1>1, <2>1, <3>0, <4>1, Bystander DEF Watched
    <3>. QED BY <3>1, <3>2
  <2>. QED BY <2>6, <2>7
<1>. QED BY <1>4, <1>5, <1>6, <1>7, <1>8, <1>9, <1>10, <1>11 DEF Exchange

-----------------------------------------------------------------------------
(* The wave and the book.                                                  *)

\* A request sent leaves the orders on their way, and another order that is
\* asked for is one nobody has heard of.
LEMMA AskedMore ==
    ASSUME TypeOK, NEW r \in Req, reqs' = Append(reqs, r), UNCHANGED <<live, rem, msgs>>,
           NEW o \in Id, Asked(o), r.typ = "new" /\ r.id = o => Unused(o) /\ Own(o) /\ r.qty # 0
    PROVE  Asked(o)' /\ \A s \in Symbols : CancelBehind(0, s) => CancelBehind(0, s)'
<1>1. PICK n \in Nat :
           /\ n \in DOMAIN reqs' /\ n > 0 /\ reqs'[n] = r
           /\ DOMAIN reqs \subseteq Int /\ \A i \in DOMAIN reqs : i < n
           /\ \A i \in DOMAIN reqs : i \in DOMAIN reqs' /\ reqs'[i] = reqs[i]
           /\ \A i \in DOMAIN reqs' : i = n \/ i \in DOMAIN reqs
  BY AppendToReqs
<1>2. \A s \in Symbols : CancelBehind(0, s) => CancelBehind(0, s)'
  BY <1>1 DEF CancelBehind
<1>3. CASE r.typ = "new" /\ r.id = o
  <2>1. /\ Own(o) /\ live'[o] = 0 /\ rem'[o] = 0 /\ Silent(msgs', o) /\ r.qty # 0
        /\ \A i \in DOMAIN reqs : ~Asks(i, o)
    BY <1>3 DEF Unused, Silent, Opens, Closes, Asks
  <2>2. \A i \in DOMAIN reqs' : Asks(i, o)' => i = n
    BY <1>1, <2>1 DEF Asks
  <2>. QED BY <1>1, <1>2, <2>1, <2>2 DEF Asked
<1>4. CASE ~(r.typ = "new" /\ r.id = o)
  <2>1. \A i \in DOMAIN reqs' : Asks(i, o)' => i \in DOMAIN reqs /\ Asks(i, o) /\ reqs'[i] = reqs[i]
    BY <1>1, <1>4 DEF Asks
  <2>. QED BY <1>2, <2>1 DEF Asked
<1>. QED BY <1>3, <1>4

\* A cancel sent.
LEMMA CancelSent ==
    ASSUME TypeOK, NEW s \in Symbols, CancelAll(s), UNCHANGED <<live, rem, msgs>>,
           NEW o \in Id, Asked(o)
    PROVE  Asked(o)' /\ CancelBehind(0, s)'
           /\ \A t \in Symbols : CancelBehind(0, t) => CancelBehind(0, t)'
<1> DEFINE r == M("cancel", <<s, 0>>, 0)
<1>1. r \in Req /\ r.typ = "cancel" /\ Sym(r.id) = s /\ reqs' = Append(reqs, r)
  BY IdTyped DEF M, Req, CancelAll
<1> HIDE DEF r
<1>2. CancelBehind(0, s)'
  BY <1>1, AppendToReqs DEF CancelBehind
<1>. QED BY <1>1, <1>2, AskedMore

\* A step that leaves the exchange, the book and the stream alone.
LEMMA Onward ==
    ASSUME NEW o \in Id, OrderInv(o), UNCHANGED <<rem, age, lapsed, live, reqs, msgs>>, Aged(o)'
    PROVE  OrderInv(o)'
  BY DEF OrderInv, Asked, Asks, Gone

\* When the wave begins, no order is old but those that are gone: they are
\* taken off the book when they are stale, and nothing is heard of them.
LEMMA TopBook == ASSUME Punctual, TypeOK, BookInv, Top PROVE BookInv'
<1>1. /\ pc = "top" /\ pc' = "cancel" /\ todo' = symbols /\ pending' = {}
      /\ UNCHANGED <<symbols, live, reqs, epos, msgs, batch>> /\ Len(reqs) <= MaxReqs
      /\ msgs \in Seq(Msg)
  BY DEF Top, exchVars, TypeOK
<1>2. reqs = <<>>
  <2>1. reqs \in Seq(Req) /\ Len(reqs) = 0
    BY <1>1, LenProperties DEF Punctual, TypeOK
  <2>. QED BY <2>1, EmptySeq
<1>3. ASSUME NEW o \in Watched
      PROVE  /\ OrderInv(o) /\ age[o] \in Int /\ live[o] \in Int /\ o \in Id
             /\ o \notin lapsed => age[o] <= 1 /\ age[o] # StaleWaves
             /\ IF age[o] = StaleWaves
                THEN rem'[o] = 0 /\ age'[o] = NoTs /\ o \notin lapsed'
                ELSE /\ rem'[o] = rem[o] /\ (o \in lapsed' <=> o \in lapsed)
                     /\ age'[o] = IF age[o] = NoTs THEN NoTs ELSE age[o] + 1
  <2>1. OrderInv(o) /\ age[o] \in Int /\ live[o] \in Int /\ o \in Id
    BY BoundsAssumption DEF BookInv, TypeOK, NoTs, Watched
  <2>2. o \notin lapsed => age[o] <= 1
    BY <1>1, <2>1 DEF OrderInv, Aged
  <2>. QED BY <2>1, <2>2, BoundsAssumption DEF Top, Punctual
<1>4. ASSUME NEW o \in Watched PROVE OrderInv(o)'
  <2>1. Asked(o)'
    BY <1>1, <1>2 DEF Asked
  <2>2. CASE age[o] = StaleWaves
    <3>1. o \in lapsed
      BY <1>3, <2>2
    <3>2. live[o] = 0 /\ Silent(msgs, o)
      BY <1>3, <3>1 DEF OrderInv, Gone
    <3>3. SumOf(Opened(msgs, o)) = 0 /\ SumOf(Closed(msgs, o)) = 0
      BY <1>1, <3>2, SumsNone DEF Silent
    <3>4. Told(msgs, 0, 0, o)
      <4>1. \A i \in DOMAIN msgs : ~Opens(msgs[i], o) /\ ~Ends(msgs[i], o)
        BY <3>2 DEF Silent, Closes, Ends
      <4>. QED BY <3>3, <4>1 DEF Told, Abs
    <3>5. o \notin lapsed' /\ Told(msgs', live'[o], rem'[o], o)
      BY <1>1, <1>3, <2>2, <3>2, <3>4
    <3>6. Aged(o)'
      BY <1>1, <1>3, <2>2 DEF Aged, NoTs
    <3>. QED BY <2>1, <3>5, <3>6 DEF OrderInv
  <2>3. CASE age[o] # StaleWaves
    <3>1. ~CancelBehind(0, Sym(o))
      BY <1>2 DEF CancelBehind
    <3>2. age[o] >= 1 /\ o \notin lapsed => live[o] = 0
      BY <1>1, <1>3, <3>1 DEF OrderInv, Aged
    <3>3. age'[o] # NoTs => rem'[o] # 0 /\ Own(o)
      BY <1>3, <2>3 DEF OrderInv, Aged
    <3>4. Sym(o) \in todo'
      BY <1>1 DEF Watched
    <3>5. Aged(o)'
      BY <1>1, <1>3, <2>3, <3>2, <3>3, <3>4 DEF Aged, NoTs
    <3>6. IF o \in lapsed' THEN Gone(o)' ELSE Told(msgs', live'[o], rem'[o], o)
      BY <1>1, <1>3, <2>3 DEF OrderInv, Gone
    <3>. QED BY <2>1, <3>5, <3>6 DEF OrderInv
  <2>. QED BY <2>2, <2>3
<1>5. Heard'
  <2>1. Subscribed /\ Subscribed'
    BY <1>1 DEF Subscribed
  <2>. QED BY <1>1, <2>1 DEF BookInv, Heard
<1>6. Watched' = Watched
  BY <1>1 DEF Watched
<1>. QED BY <1>1, <1>4, <1>5, <1>6 DEF BookInv

LEMMA WaveBook == ASSUME Punctual, TypeOK, BookInv, Wave PROVE BookInv'
<1>0. /\ Heard /\ (\A o \in pending : Own(o)) /\ todo \subseteq Symbols /\ msgs \in Seq(Msg)
      /\ \A o \in Watched : OrderInv(o) /\ Sym(o) \in Symbols /\ age[o] \in Int /\ o \in Id
  BY IdTyped, BoundsAssumption DEF BookInv, TypeOK, NoTs, Watched
<1>1. CASE CancelSymbol
  <2>1. PICK s \in todo : /\ pc = "cancel" /\ pc' = "cancel" /\ CancelAll(s) /\ todo' = todo \ {s}
    BY <1>1 DEF CancelSymbol
  <2>2. UNCHANGED <<pending, rem, age, lapsed, live, epos, msgs, batch>> /\ Watched' = Watched
    BY <1>1 DEF CancelSymbol, bookVars, Watched
  <2>3. ASSUME NEW o \in Watched PROVE OrderInv(o)'
    <3>1. /\ Asked(o)' /\ CancelBehind(0, s)'
          /\ CancelBehind(0, Sym(o)) => CancelBehind(0, Sym(o))'
      BY <1>0, <2>1, <2>2, CancelSent DEF OrderInv
    <3>2. Aged(o)'
      BY <1>0, <2>1, <2>2, <3>1 DEF OrderInv, Aged
    <3>. QED BY <1>0, <2>2, <3>1, <3>2 DEF OrderInv, Gone
  <2>4. Heard'
    BY <1>0, <2>1, <2>2 DEF Heard, Subscribed
  <2>. QED BY <1>0, <2>2, <2>3, <2>4 DEF BookInv
<1>2. CASE NoOrder
  <2>1. PICK s \in todo : pc = "send" /\ pc' = "send" /\ (UNCHANGED reqs \/ CancelAll(s))
    BY <1>2 DEF NoOrder
  <2>2. UNCHANGED <<pending, rem, age, lapsed, live, epos, msgs, batch>> /\ Watched' = Watched
    BY <1>2 DEF NoOrder, bookVars, Watched
  <2>3. ASSUME NEW o \in Watched PROVE OrderInv(o)'
    <3>1. Asked(o)' /\ (CancelBehind(0, Sym(o)) => CancelBehind(0, Sym(o))')
      <4>1. CASE UNCHANGED reqs
        BY <1>0, <2>2, <4>1 DEF OrderInv, Asked, Asks, CancelBehind
      <4>2. CASE CancelAll(s)
        BY <1>0, <2>2, <4>2, CancelSent DEF OrderInv
      <4>. QED BY <2>1, <4>1, <4>2
    <3>2. Aged(o)'
      BY <1>0, <2>1, <2>2, <3>1 DEF OrderInv, Aged
    <3>. QED BY <1>0, <2>2, <3>1, <3>2 DEF OrderInv, Gone
  <2>4. Heard'
    BY <1>0, <2>1, <2>2 DEF Heard, Subscribed
  <2>. QED BY <1>0, <2>2, <2>3, <2>4 DEF BookInv
<1>3. CASE SendOrder
  <2>1. PICK s \in todo \intersect covered : \E o \in Id : \E q \in OrderQty(s) :
            /\ Own(o) /\ Unused(o) /\ reqs' = Append(reqs, M("new", o, q))
            /\ pending' \subseteq pending \union {o}
    BY <1>3 DEF SendOrder
  <2>2. PICK p \in Id : \E q \in OrderQty(s) :
            /\ Own(p) /\ Unused(p) /\ reqs' = Append(reqs, M("new", p, q))
            /\ pending' \subseteq pending \union {p}
    BY <2>1
  <2>3. PICK q \in OrderQty(s) :
            /\ Own(p) /\ Unused(p) /\ reqs' = Append(reqs, M("new", p, q))
            /\ pending' \subseteq pending \union {p}
    BY <2>2
  <2>4. /\ UNCHANGED <<rem, age, lapsed, live, epos, msgs, batch>> /\ Watched' = Watched
        /\ pc = "send" /\ pc' = "send"
    BY <1>3 DEF SendOrder, Watched
  <2>5. q \in Int /\ q # 0
    BY <1>0, QtyTyped
  <2> DEFINE r == M("new", p, q)
  <2>6. r \in Req /\ r.typ = "new" /\ r.id = p /\ r.qty = q
    BY <2>5 DEF M, Req
  <2> HIDE DEF r
  <2>7. ASSUME NEW o \in Watched PROVE OrderInv(o)'
    <3>1. Asked(o)' /\ (CancelBehind(0, Sym(o)) => CancelBehind(0, Sym(o))')
      <4>1. reqs' = Append(reqs, r)
        BY <2>3 DEF r
      <4>2. r.typ = "new" /\ r.id = o => Unused(o) /\ Own(o) /\ r.qty # 0
        BY <2>3, <2>5, <2>6
      <4>. QED BY <1>0, <2>4, <2>6, <4>1, <4>2, AskedMore DEF OrderInv
    <3>2. Aged(o)'
      BY <1>0, <2>4, <3>1 DEF OrderInv, Aged
    <3>. QED BY <1>0, <2>4, <3>1, <3>2 DEF OrderInv, Gone
  <2>8. Heard'
    BY <1>0, <2>4 DEF Heard, Subscribed
  <2>. QED BY <1>0, <2>3, <2>4, <2>7, <2>8 DEF BookInv
<1>4. CASE Sleep \/ Settle \/ Refresh \/ Subscribe \/ WaveSent \/ NextWave
  <2>0. symbols' \subseteq symbols
    <3>1. Subscribe => symbols = Symbols /\ symbols' \subseteq Symbols
      BY <1>0 DEF Subscribe, Heard, Subscribed
    <3>. QED BY <1>4, <3>1 DEF Sleep, Settle, Refresh, WaveSent, NextWave, waveVars
  <2>1. UNCHANGED <<pending, rem, age, lapsed, live, epos, reqs, msgs>> /\ Watched' \subseteq Watched
    BY <1>4, <2>0 DEF Sleep, Settle, Refresh, Subscribe, WaveSent, NextWave, bookVars, exchVars,
                      Watched
  <2>2. Heard'
    BY <1>0, <1>4, <2>1 DEF Sleep, Settle, Refresh, Subscribe, WaveSent, NextWave, Heard, Subscribed
  <2>3. ASSUME NEW o \in Watched PROVE Aged(o)'
    <3>0. /\ age'[o] = age[o] /\ lapsed' = lapsed /\ live'[o] = live[o] /\ rem'[o] = rem[o] /\ msgs' = msgs
          /\ Aged(o) /\ age[o] \in Int /\ (CancelBehind(0, Sym(o)) <=> CancelBehind(0, Sym(o))')
      BY <1>0, <2>1 DEF OrderInv, CancelBehind
    <3>1. CASE Sleep \/ Settle \/ Refresh
      BY <3>0, <3>1 DEF Sleep, Settle, Refresh, Aged
    <3>2. CASE Subscribe
      <4>1. age[o] = NoTs
        BY <1>0, <3>2 DEF Subscribe, Heard, Subscribed
      <4>. QED BY <3>0, <4>1 DEF Aged, NoTs
    <3>3. CASE WaveSent
      <4>1. pc = "send" /\ pc' = "between" /\ batch' = Len(msgs)
        BY <3>3 DEF WaveSent
      <4>2. NoneAfter(msgs, Len(msgs), o)
        BY <1>0, LenProperties DEF NoneAfter
      <4>. QED BY <3>0, <4>1, <4>2 DEF Aged
    <3>4. CASE NextWave
      <4>1. pc = "between" /\ pc' = "top" /\ batch = 0 /\ batch' = 0
        BY <3>4 DEF NextWave
      <4>2. o \notin lapsed => age[o] <= 1
        <5> SUFFICES ASSUME o \notin lapsed, age[o] >= 2 PROVE FALSE
          BY <3>0
        <5>1. live[o] = 0 /\ NoneAfter(msgs, 0, o) /\ rem[o] # 0
          BY <3>0, <4>1 DEF Aged, NoTs
        <5>2. \A i \in DOMAIN msgs : ~Closes(msgs[i], o)
          BY <1>0, <5>1, LenProperties DEF NoneAfter
        <5>3. SumOf(Closed(msgs, o)) = 0 /\ SumOf(Opened(msgs, o)) \in Nat
          BY <1>0, <5>2, SumsNone, SumsTyped
        <5>4. rem[o] = Abs(live[o]) - SumOf(Opened(msgs, o)) + SumOf(Closed(msgs, o))
          BY <1>0 DEF OrderInv, Told
        <5>. QED BY <5>1, <5>3, <5>4 DEF TypeOK, Abs, Watched
      <4>. QED BY <3>0, <4>1, <4>2 DEF Aged
    <3>. QED BY <1>4, <3>1, <3>2, <3>3, <3>4
  <2>4. \A o \in Watched : OrderInv(o)'
    BY <1>0, <2>1, <2>3, Onward
  <2>. QED BY <1>0, <2>1, <2>2, <2>4 DEF BookInv
<1>. QED BY <1>1, <1>2, <1>3, <1>4, TopBook DEF Wave

-----------------------------------------------------------------------------
(* The trader's messages and the book.                                     *)

\* What the next message makes of an order in the book and of its age.
LEMMA Ages ==
    ASSUME TypeOK, pc = "between", Take, NEW o \in Id, OrderInv(o),
           UNCHANGED <<pc, todo, live, reqs>>,
           rem'[o] = Handled(Head(msgs), rem[o], o),
           \/ age'[o] = NoTs
           \/ age'[o] = 0 /\ rem'[o] # 0 /\ Own(o)
           \/ age'[o] = age[o] /\ (rem'[o] # 0 \/ rem'[o] = rem[o]),
           o \in lapsed' <=>
             (o \in lapsed \/ (Head(msgs).typ = "expired" /\ Head(msgs).id = o /\ rem[o] # 0))
    PROVE  OrderInv(o)'
<1>0. /\ msgs \in Seq(Msg) /\ msgs # <<>> /\ msgs' = Tail(msgs) /\ batch' = batch - 1
      /\ live[o] \in Int /\ rem[o] \in Nat /\ age[o] \in Int
  BY BoundsAssumption DEF TypeOK, Take, NoTs
<1>2. PICK n \in Nat :
           /\ DOMAIN msgs' = 1..n /\ DOMAIN msgs = 1..(n + 1) /\ Head(msgs) = msgs[1]
           /\ \A i \in 1..n : msgs'[i] = msgs[i + 1]
  BY <1>0, StreamTaken
<1>3. \A i \in DOMAIN msgs' : i \in Int /\ i + 1 \in DOMAIN msgs /\ msgs'[i] = msgs[i + 1]
  BY <1>2
<1>4. Silent(msgs, o) => Silent(msgs', o) /\ rem'[o] = rem[o]
  <2>1. Silent(msgs, o) => ~Opens(Head(msgs), o) /\ ~Closes(Head(msgs), o)
    BY <1>2 DEF Silent
  <2>. QED BY <1>3, <2>1 DEF Silent, Handled, Closes
<1>5. Asked(o)'
  BY <1>4 DEF OrderInv, Asked, Asks
<1>6. NoneAfter(msgs, batch, o) => NoneAfter(msgs', batch - 1, o)
  BY <1>3, LenProperties DEF NoneAfter, TypeOK
<1>7. CancelBehind(0, Sym(o)) <=> CancelBehind(0, Sym(o))'
  BY DEF CancelBehind
<1>8. Aged(o)'
  BY <1>0, <1>6, <1>7 DEF OrderInv, Aged, NoTs
<1>9. CASE o \in lapsed
  BY <1>4, <1>5, <1>8, <1>9 DEF OrderInv, Gone
<1>10. CASE o \notin lapsed /\ Head(msgs).typ = "expired" /\ Head(msgs).id = o
  <2>1. live[o] = 0 /\ rem[o] # 0 /\ Silent(msgs', o) /\ rem'[o] = rem[o]
    BY <1>0, <1>10, ToldLapsed DEF OrderInv
  <2>. QED BY <1>5, <1>8, <1>10, <2>1 DEF OrderInv, Gone
<1>11. CASE o \notin lapsed /\ ~(Head(msgs).typ = "expired" /\ Head(msgs).id = o)
  <2>1. Told(msgs', live'[o], rem'[o], o)
    BY <1>0, <1>11, ToldTaken DEF OrderInv
  <2>. QED BY <1>5, <1>8, <1>11, <2>1 DEF OrderInv
<1>. QED BY <1>9, <1>10, <1>11

LEMMA MessageBook == ASSUME Punctual, TypeOK, BookInv, ProcessOmsMessages PROVE BookInv'
<1> DEFINE m == Head(msgs)
           p == m.id
<1>0. /\ Heard /\ (\A o \in pending : Own(o)) /\ msgs \in Seq(Msg) /\ UNCHANGED <<todo, live, epos, reqs>>
      /\ Watched' = Watched /\ \A o \in Watched : OrderInv(o) /\ rem[o] \in Nat /\ o \in Id
  BY ProcessStep DEF BookInv, TypeOK, Watched
<1>1. CASE Drain
  <2>1. /\ pc = "between" /\ pc' = "between" /\ batch' = Len(msgs)
        /\ UNCHANGED <<pending, rem, age, lapsed, live, epos, reqs, msgs>>
    BY <1>1 DEF Drain, bookVars, exchVars
  <2>2. Heard'
    BY <1>0, <2>1 DEF Heard, Subscribed
  <2>3. ASSUME NEW o \in Watched PROVE Aged(o)'
    <3>1. NoneAfter(msgs, Len(msgs), o)
      BY <1>0, LenProperties DEF NoneAfter
    <3>2. CancelBehind(0, Sym(o)) <=> CancelBehind(0, Sym(o))'
      BY <2>1 DEF CancelBehind
    <3>. QED BY <1>0, <2>1, <3>1, <3>2 DEF OrderInv, Aged
  <2>4. \A o \in Watched : OrderInv(o)'
    BY <1>0, <2>1, <2>3, Onward
  <2>. QED BY <1>0, <2>1, <2>2, <2>4 DEF BookInv
<1>2. CASE HandleGarbled \/ Drop \/ Dropped
  <2>1. ~Drop /\ ~Dropped
    BY <1>0 DEF Heard, Drop, Dropped
  <2>2. ~HandleGarbled
    BY <1>0, StreamTaken DEF HandleGarbled, Take, Heard, TypeOK
  <2>. QED BY <1>2, <2>1, <2>2
<1>3. ASSUME pc = "between", UNCHANGED pc, Take, pending' \subseteq pending,
             \A o \in Watched :
                           /\ rem'[o] = Handled(m, rem[o], o)
                           /\ \/ age'[o] = NoTs
                              \/ age'[o] = 0 /\ rem'[o] # 0 /\ Own(o)
                              \/ age'[o] = age[o] /\ (rem'[o] # 0 \/ rem'[o] = rem[o])
                           /\ (o \in lapsed' <=>
                                 (o \in lapsed \/ (m.typ = "expired" /\ m.id = o /\ rem[o] # 0)))
      PROVE  BookInv'
  <2>1. \A o \in Watched : OrderInv(o)'
    BY <1>0, <1>3, Ages
  <2>2. Heard'
    <3>1. msgs' = Tail(msgs) /\ msgs # <<>>
      BY <1>0, <1>3 DEF Take, TypeOK
    <3>2. \A i \in DOMAIN msgs' : msgs'[i].typ # "garbled"
      BY <1>0, <3>1, StreamTaken DEF Heard
    <3>. QED BY <1>0, <1>3, <3>2 DEF Heard, Subscribed
  <2>. QED BY <1>0, <1>3, <2>1, <2>2 DEF BookInv
<1>4. CASE HandleMapping \/ HandleRejection
  BY <1>3, <1>4 DEF HandleMapping, HandleRejection, bookVars, Handled, Opens
<1>5. ASSUME Take PROVE m \in Msg /\ p \in Id
  <2>1. m \in Msg
    BY <1>5, TakeTyped
  <2>. QED BY <2>1 DEF Msg
<1>6. CASE HandleNew
  <2>1. /\ pc = "between" /\ UNCHANGED pc /\ Take /\ m.typ = "new"
        /\ rem' = [rem EXCEPT ![p] = m.qty]
        /\ age' = [age EXCEPT ![p] = IF p \in mapped /\ p \in pending THEN 0 ELSE NoTs]
        /\ pending' \subseteq pending /\ lapsed' = lapsed
    BY <1>6 DEF HandleNew
  <2>2. p \in Id /\ Opens(m, p)
    BY <1>5, <2>1 DEF Opens
  <2>3. p \in Watched => m.qty # 0
    <3>1. msgs # <<>> /\ 1 \in DOMAIN msgs /\ m = msgs[1]
      BY <1>0, <2>1, StreamTaken DEF Take, TypeOK
    <3>2. ~Silent(msgs, p)
      BY <2>2, <3>1 DEF Silent
    <3>. QED BY <1>0, <2>2, <3>1, <3>2 DEF OrderInv, Told, Gone
  <2> HIDE DEF m
  <2>4. ASSUME NEW o \in Watched
        PROVE  /\ rem'[o] = Handled(m, rem[o], o)
               /\ \/ age'[o] = NoTs
                  \/ age'[o] = 0 /\ rem'[o] # 0 /\ Own(o)
                  \/ age'[o] = age[o] /\ (rem'[o] # 0 \/ rem'[o] = rem[o])
    <3>1. CASE o = p
      BY <1>0, <2>1, <2>2, <2>3, <3>1 DEF TypeOK, Handled
    <3>2. CASE o # p
      BY <2>1, <3>2 DEF TypeOK, Handled, Opens
    <3>. QED BY <3>1, <3>2
  <2>. QED BY <1>3, <2>1, <2>4 DEF m
<1>7. CASE HandleTrade
  <2> DEFINE left == Left(rem[p], Abs(m.qty))
  <2>1. /\ pc = "between" /\ UNCHANGED pc /\ Take /\ m.typ = "trade"
        /\ rem' = [rem EXCEPT ![p] = left]
        /\ age' = [age EXCEPT ![p] = IF left = 0 THEN NoTs ELSE @]
        /\ pending' = pending /\ lapsed' = lapsed
    BY <1>7 DEF HandleTrade
  <2>2. p \in Id
    BY <1>5, <2>1
  <2> HIDE DEF m
  <2>4. ASSUME NEW o \in Watched
        PROVE  /\ rem'[o] = Handled(m, rem[o], o)
               /\ \/ age'[o] = NoTs
                  \/ age'[o] = 0 /\ rem'[o] # 0 /\ Own(o)
                  \/ age'[o] = age[o] /\ (rem'[o] # 0 \/ rem'[o] = rem[o])
    <3>1. CASE o = p
      <4>1. rem'[o] = left /\ age'[o] = IF left = 0 THEN NoTs ELSE age[o]
        BY <2>1, <2>2, <3>1 DEF TypeOK
      <4>2. Handled(m, rem[o], o) = left
        BY <2>1, <3>1 DEF Handled, Opens
      <4> HIDE DEF left
      <4>. QED BY <4>1, <4>2
    <3>2. CASE o # p
      <4> HIDE DEF left
      <4>. QED BY <2>1, <3>2 DEF TypeOK, Handled, Opens
    <3>. QED BY <3>1, <3>2
  <2>. QED BY <1>3, <2>1, <2>4 DEF m
<1>8. CASE HandleEnd
  <2>1. /\ pc = "between" /\ UNCHANGED pc /\ Take /\ m.typ = "end"
        /\ rem' = [rem EXCEPT ![p] = 0]
        /\ age' = [age EXCEPT ![p] = NoTs]
        /\ pending' \subseteq pending /\ lapsed' = lapsed
    BY <1>8 DEF HandleEnd
  <2>2. p \in Id
    BY <1>5, <2>1
  <2> HIDE DEF m
  <2>4. ASSUME NEW o \in Watched
        PROVE  /\ rem'[o] = Handled(m, rem[o], o)
               /\ \/ age'[o] = NoTs
                  \/ age'[o] = 0 /\ rem'[o] # 0 /\ Own(o)
                  \/ age'[o] = age[o] /\ (rem'[o] # 0 \/ rem'[o] = rem[o])
    <3>1. CASE o = p
      BY <2>1, <2>2, <3>1 DEF TypeOK, Handled, Opens
    <3>2. CASE o # p
      BY <2>1, <3>2 DEF TypeOK, Handled, Opens
    <3>. QED BY <3>1, <3>2
  <2>. QED BY <1>3, <2>1, <2>4 DEF m
<1>9. CASE HandleUnknown
  <2>1. /\ pc = "between" /\ UNCHANGED <<pc, pending, rem, age>> /\ Take /\ m.typ = "expired"
        /\ lapsed' = IF rem[p] = 0 THEN lapsed ELSE lapsed \union {p}
    BY <1>9 DEF HandleUnknown
  <2> HIDE DEF m
  <2>2. \A o \in Watched : rem'[o] = Handled(m, rem[o], o)
    BY <2>1 DEF Handled, Opens
  <2>3. \A o \in Watched :
            o \in lapsed' <=> (o \in lapsed \/ (m.typ = "expired" /\ m.id = o /\ rem[o] # 0))
    BY <2>1
  <2>. QED BY <1>3, <2>1, <2>2, <2>3 DEF m
<1>. QED BY <1>1, <1>2, <1>4, <1>6, <1>7, <1>8, <1>9 DEF ProcessOmsMessages

LEMMA BookAtFirst == Init => BookInv
<1> SUFFICES ASSUME Init PROVE BookInv
  OBVIOUS
<1>1. /\ reqs = <<>> /\ msgs = <<>> /\ pc = "boot" /\ pending = {}
      /\ (\A o \in Id : live[o] = 0 /\ age[o] = NoTs /\ rem[o] = 0) /\ \A s \in Symbols : epos[s] = 0
      /\ lapsed = {} /\ symbols = Symbols
  BY DEF Init
<1>2. <<>> \in Seq(Msg) /\ DOMAIN <<>> = {}
  OBVIOUS
<1>3. \A o \in Id : SumOf(Opened(<<>>, o)) = 0 /\ SumOf(Closed(<<>>, o)) = 0
  BY <1>2, SumsNone
<1>4. \A o \in Watched : OrderInv(o)
  BY <1>1, <1>2, <1>3 DEF Watched, OrderInv, Asked, Told, Aged, NoTs, Abs
<1>. QED BY <1>1, <1>2, <1>4 DEF BookInv, Heard, Subscribed

\* Every step keeps the book.
LEMMA BookStep == ASSUME Punctual, TypeOK, BookInv, [Next]_vars PROVE BookInv'
<1>1. CASE UNCHANGED vars
  BY <1>1 DEF vars, waveVars, bookVars, exchVars, BookInv, OrderInv, Asked, Asks, Aged, Heard,
              Subscribed, CancelBehind, Gone, Watched
<1>2. CASE Crash
  BY <1>2 DEF Crash, Punctual
<1>. QED BY <1>1, <1>2, ExchangeBook, WaveBook, MessageBook DEF Next

\* Without crash or loss, and with waves in step with the exchange, the book
\* of outstanding orders is the exchange's as of the last message handled, for
\* the symbols the trader cancels, but for orders that ended by an event it does
\* not know; those are open no more and it will hear no more of them.  However
\* late the cancels are, though requests succeed untold, refreshes fail, orders
\* expire and the exchange opens orders of its own, report_unfilled_orders and
\* the three handlers leave nothing else in it that is not open.
THEOREM BookIsTheExchanges == ASSUME Punctual PROVE Spec => []BookAgrees
<1>1. TypeOK /\ BookInv /\ [Next]_vars => BookInv'
  BY BookStep
<1>2. BookInv => BookAgrees
  BY DEF BookInv, OrderInv, Told, Gone, BookAgrees, Watched
<1>. QED BY <1>1, <1>2, BookAtFirst, TypeCorrect, PTL DEF Spec

\* In the same waves the sweep takes only such orders off the book: the cancel
\* ends every other at the exchange, and the trader handles the end, before the
\* order is old enough to be taken off unasked.
THEOREM OnlyExpiredAreSwept == ASSUME Punctual PROVE Spec => []SweptHaveExpired
<1>1. TypeOK /\ BookInv /\ [Next]_vars => BookInv'
  BY BookStep
<1>2. ASSUME TypeOK, BookInv, pc = "top", NEW o \in Id, Sym(o) \in symbols, age[o] = StaleWaves
      PROVE  o \in lapsed
  <2>1. o \notin lapsed => age[o] <= 1
    BY <1>2 DEF BookInv, OrderInv, Aged, Watched
  <2>. QED BY <1>2, <2>1, BoundsAssumption DEF Punctual
<1>3. TypeOK /\ BookInv => SweptHaveExpired
  BY <1>2 DEF SweptHaveExpired
<1>. QED BY <1>1, <1>3, BookAtFirst, TypeCorrect, PTL DEF Spec
=============================================================================
