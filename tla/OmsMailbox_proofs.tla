-------------------------- MODULE OmsMailbox_proofs --------------------------
(***************************************************************************)
(* Proofs about OmsMailbox for every bound on the number of events:        *)
(* typing with and without the lock, and, with the lock of                 *)
(* LocalOMSListener, that nothing is lost on the way to the trader and     *)
(* that the listener implements Mailbox.                                   *)
(***************************************************************************)
EXTENDS OmsMailbox, SequenceTheorems, TLAPS

-----------------------------------------------------------------------------
(* Typing.                                                                 *)

\* An append in progress has an entry to append.
AppendPending == ref # "none" => todo # <<>>

\* The entries of one event are a sequence of entries of that event.
LEMMA EntriesType ==
    ASSUME NEW n \in 1..MaxEvents, NEW k \in Kind
    PROVE  EntriesOf(n, k) \in Seq(Entry)
<1>1. [ev |-> n, typ |-> "mapping"] \in Entry /\ [ev |-> n, typ |-> "new"] \in Entry
      /\ [ev |-> n, typ |-> "update"] \in Entry
  BY DEF Entry
<1>. QED BY <1>1 DEF Kind, EntriesOf

\* The initial state is well typed.
LEMMA InitTyped == Init => TypeOK /\ AppendPending
  BY MaxEventsAssumption DEF Init, TypeOK, AppendPending

\* No step of either thread leaves the types.
LEMMA StepTyped == TypeOK /\ AppendPending /\ [Next]_vars => TypeOK' /\ AppendPending'
<1> SUFFICES ASSUME TypeOK, AppendPending, [Next]_vars
             PROVE  TypeOK' /\ AppendPending'
  OBVIOUS
<1> USE DEF TypeOK, AppendPending
<1>1. CASE Receive
  <2>1. PICK k \in Kind : todo' = EntriesOf(events', k)
    BY <1>1 DEF Receive
  <2>2. events' \in 1..MaxEvents
    BY <1>1, MaxEventsAssumption DEF Receive
  <2>3. todo' \in Seq(Entry)
    BY <2>1, <2>2, EntriesType
  <2>. QED BY <1>1, <2>2, <2>3 DEF Receive
<1>2. CASE LoadList
  BY <1>2 DEF LoadList, Acquire, lvars
<1>3. CASE AppendMsg
  <2>1. Head(todo) \in Entry /\ Tail(todo) \in Seq(Entry)
    BY <1>3, HeadTailProperties DEF AppendMsg
  <2>. QED BY <1>3, <2>1 DEF AppendMsg, Release
<1>4. CASE CopyMsgs
  BY <1>4 DEF CopyMsgs, Acquire, lvars
<1>5. CASE ResetMsgs
  BY <1>5 DEF ResetMsgs, Release, lvars
<1>6. CASE HandleMsg
  <2>1. Head(batch) \in Entry /\ Tail(batch) \in Seq(Entry)
    BY <1>6, HeadTailProperties DEF HandleMsg
  <2>. QED BY <1>6, <2>1 DEF HandleMsg, lvars
<1>7. CASE BatchDone
  BY <1>7 DEF BatchDone, lvars
<1>8. CASE UNCHANGED vars
  BY <1>8 DEF vars
<1>. QED BY <1>1, <1>2, <1>3, <1>4, <1>5, <1>6, <1>7, <1>8 DEF Next, Listener, Trader

\* Every variable of the mailbox keeps its type, with and without the lock.
THEOREM TypeCorrect == Spec => []TypeOK
<1>. QED BY InitTyped, StepTyped, PTL DEF Spec

-----------------------------------------------------------------------------
(* With the lock: what each thread may assume while it holds it.           *)

Protocol == /\ ref # "none" => lock = "listener"
            /\ tpc = "swap" => lock = "trader" /\ batch = msgs
            /\ tpc = "idle" => batch = <<>>
            /\ ref # "old"

IInv == TypeOK /\ AppendPending /\ Protocol

\* Moving the head of a sequence to the end of another keeps their concatenation.
LEMMA MoveHead ==
    ASSUME NEW S, NEW s \in Seq(S), NEW t \in Seq(S), t # <<>>
    PROVE  Append(s, Head(t)) \o Tail(t) = s \o t
<1>1. Head(t) \in S /\ Tail(t) \in Seq(S) /\ t = <<Head(t)>> \o Tail(t)
  BY HeadTailProperties
<1>2. Append(s, Head(t)) = s \o <<Head(t)>>
  BY <1>1, AppendIsConcat
<1>3. (s \o <<Head(t)>>) \o Tail(t) = s \o (<<Head(t)>> \o Tail(t))
  BY <1>1, ConcatAssociative
<1>. QED BY <1>1, <1>2, <1>3

\* Entries are concatenated in any grouping.
LEMMA Grouping ==
    \A s, t, u \in Seq(Entry) : s \o (t \o u) = (s \o t) \o u
  BY ConcatAssociative

\* Appending to a concatenation appends to its last part.
LEMMA AppendConcat ==
    \A s, t, u \in Seq(Entry) : \A e \in Entry :
        Append(s \o (t \o u), e) = s \o (t \o Append(u, e))
<1> SUFFICES ASSUME NEW s \in Seq(Entry), NEW t \in Seq(Entry), NEW u \in Seq(Entry),
                    NEW e \in Entry
             PROVE  Append(s \o (t \o u), e) = s \o (t \o Append(u, e))
  OBVIOUS
<1>1. /\ t \o u \in Seq(Entry)
      /\ s \o (t \o u) \in Seq(Entry)
      /\ <<e>> \in Seq(Entry)
  BY ConcatProperties
<1>2. Append(s \o (t \o u), e) = (s \o (t \o u)) \o <<e>>
  BY <1>1, AppendIsConcat
<1>3. Append(u, e) = u \o <<e>>
  BY AppendIsConcat
<1>4. (t \o u) \o <<e>> = t \o (u \o <<e>>)
  BY <1>1, ConcatAssociative
<1>5. (s \o (t \o u)) \o <<e>> = s \o ((t \o u) \o <<e>>)
  BY <1>1, ConcatAssociative
<1>. QED BY <1>2, <1>3, <1>4, <1>5

\* Under the lock the copy and the reset see the same list, and an append
\* never goes to a list the trader has let go.
LEMMA LockInvariant == ASSUME Locked PROVE Spec => []IInv
<1>1. Init => IInv
  BY InitTyped DEF Init, IInv, Protocol
<1>2. IInv /\ [Next]_vars => IInv'
  <2> SUFFICES ASSUME IInv, [Next]_vars PROVE Protocol'
    BY StepTyped DEF IInv
  <2> USE Locked DEF IInv, Protocol, TypeOK
  <2>1. CASE Receive
    BY <2>1 DEF Receive
  <2>2. CASE LoadList
    BY <2>2 DEF LoadList, Acquire, lvars
  <2>3. CASE AppendMsg
    BY <2>3 DEF AppendMsg, Release
  <2>4. CASE CopyMsgs
    BY <2>4 DEF CopyMsgs, Acquire, lvars
  <2>5. CASE ResetMsgs
    BY <2>5 DEF ResetMsgs, Release, lvars
  <2>6. CASE HandleMsg
    BY <2>6 DEF HandleMsg, lvars
  <2>7. CASE BatchDone
    BY <2>7 DEF BatchDone, lvars
  <2>8. CASE UNCHANGED vars
    BY <2>8 DEF vars
  <2>. QED BY <2>1, <2>2, <2>3, <2>4, <2>5, <2>6, <2>7, <2>8 DEF Next, Listener, Trader
<1>. QED BY <1>1, <1>2, PTL DEF Spec

\* LocalOMSListener.get_msgs: nothing appended is lost, repeated or reordered
\* on its way to process_oms_messages.
THEOREM LocalListenerLossless == ASSUME Locked PROVE Spec => []Lossless
<1>1. Init => Lossless
  BY DEF Init, Lossless, InHand
<1>2. IInv /\ Lossless /\ [Next]_vars => Lossless'
  <2> SUFFICES ASSUME IInv, Lossless, [Next]_vars PROVE Lossless'
    OBVIOUS
  <2>0. batch \in Seq(Entry) /\ msgs \in Seq(Entry) /\ got \in Seq(Entry)
        /\ batch \o msgs \in Seq(Entry)
    BY ConcatProperties DEF IInv, TypeOK
  <2> USE Locked DEF IInv, Protocol, Lossless, InHand
  <2>1. CASE Receive
    BY <2>1 DEF Receive
  <2>2. CASE LoadList
    BY <2>2 DEF LoadList, lvars
  <2>3. CASE AppendMsg
    <3>1. tpc # "swap" /\ ref = "current" /\ todo # <<>>
      BY <2>3 DEF AppendMsg, TypeOK, AppendPending
    <3>2. Head(todo) \in Entry
      BY <3>1, HeadTailProperties DEF TypeOK
    <3>3. Append(got \o (batch \o msgs), Head(todo))
            = got \o (batch \o Append(msgs, Head(todo)))
      BY <2>0, <3>2, AppendConcat
    <3>. QED BY <2>3, <3>1, <3>3 DEF AppendMsg
  <2>4. CASE CopyMsgs
    BY <2>0, <2>4, ConcatEmptySeq DEF CopyMsgs
  <2>5. CASE ResetMsgs
    BY <2>0, <2>5, ConcatEmptySeq DEF ResetMsgs, lvars
  <2>6. CASE HandleMsg
    <3>1. batch # <<>> /\ tpc = "handle" /\ UNCHANGED <<tpc, msgs, sent>>
          /\ got' = Append(got, Head(batch)) /\ batch' = Tail(batch)
      BY <2>6 DEF HandleMsg
    <3>2. batch' \in Seq(Entry) /\ got' \in Seq(Entry)
      BY <2>0, <3>1, HeadTailProperties, StepTyped DEF IInv, TypeOK
    <3>6. msgs \in Seq(Entry)
      BY <2>0
    <3>3. got' \o (batch' \o msgs) = (got' \o batch') \o msgs
      <4> HIDE DEF IInv, Protocol, Lossless, InHand
      <4>. QED BY <3>2, <3>6, Grouping
    <3>4. got' \o batch' = got \o batch
      BY <2>0, <3>1, MoveHead
    <3>5. (got \o batch) \o msgs = got \o (batch \o msgs)
      BY <2>0, Grouping
    <3>. QED BY <3>1, <3>3, <3>4, <3>5
  <2>7. CASE BatchDone
    BY <2>7 DEF BatchDone, lvars
  <2>8. CASE UNCHANGED vars
    BY <2>8 DEF vars
  <2>. QED BY <2>1, <2>2, <2>3, <2>4, <2>5, <2>6, <2>7, <2>8 DEF Next, Listener, Trader
<1>. QED BY <1>1, <1>2, LockInvariant, PTL DEF Spec

-----------------------------------------------------------------------------
(* The order of what is appended.                                          *)

Mapping(n) == [ev |-> n, typ |-> "mapping"]
Ack(n) == [ev |-> n, typ |-> "new"]

\* An acknowledgement is preceded by its mapping in what has been appended, or
\* is still to be appended behind it.
Preceded == \A i \in 1..Len(sent) : sent[i].typ = "new" =>
                \E j \in 1..(i - 1) : sent[j] = Mapping(sent[i].ev)
TodoInOrder == \/ todo = <<>>
               \/ \E n \in 1..MaxEvents : todo = <<Mapping(n), Ack(n)>>
               \/ \E n \in 1..MaxEvents : todo = <<[ev |-> n, typ |-> "update"]>>
               \/ \E n \in 1..MaxEvents : /\ todo = <<Ack(n)>>
                                          /\ \E j \in 1..Len(sent) : sent[j] = Mapping(n)
OrderInv == TypeOK /\ AppendPending /\ Preceded /\ TodoInOrder

\* An entry that is no acknowledgement, or whose mapping is there, may follow.
LEMMA AppendPreceded ==
    ASSUME TypeOK, Preceded, NEW e \in Entry,
           e.typ = "new" => \E j \in 1..Len(sent) : sent[j] = Mapping(e.ev),
           sent' = Append(sent, e)
    PROVE  Preceded'
<1>1. /\ sent \in Seq(Entry) /\ Len(sent) \in Nat /\ Len(sent') = Len(sent) + 1
      /\ \A i \in 1..Len(sent) : sent'[i] = sent[i]
      /\ sent'[Len(sent) + 1] = e
  BY AppendProperties DEF TypeOK
<1>2. SUFFICES ASSUME NEW i \in 1..Len(sent'), sent'[i].typ = "new"
               PROVE  \E j \in 1..(i - 1) : sent'[j] = Mapping(sent'[i].ev)
  BY DEF Preceded, Mapping
<1>3. CASE i \in 1..Len(sent)
  <2>1. PICK j \in 1..(i - 1) : sent[j] = Mapping(sent[i].ev)
    BY <1>1, <1>2, <1>3 DEF Preceded
  <2>2. j \in 1..Len(sent) /\ sent'[j] = sent[j] /\ sent'[i] = sent[i]
    BY <1>1, <1>3
  <2>. QED BY <2>1, <2>2
<1>4. CASE i = Len(sent) + 1
  <2>1. PICK j \in 1..Len(sent) : sent[j] = Mapping(e.ev)
    BY <1>1, <1>2, <1>4
  <2>2. j \in 1..(i - 1) /\ sent'[j] = sent[j] /\ sent'[i] = e
    BY <1>1, <1>4
  <2>. QED BY <2>1, <2>2
<1>. QED BY <1>1, <1>3, <1>4

\* The listener appends the entries of an event in their order.
LEMMA OrderInvariant == Spec => []OrderInv
<1>1. Init => OrderInv
  BY InitTyped DEF Init, OrderInv, Preceded, TodoInOrder
<1>2. OrderInv /\ [Next]_vars => OrderInv'
  <2> SUFFICES ASSUME OrderInv, [Next]_vars PROVE Preceded' /\ TodoInOrder'
    BY StepTyped DEF OrderInv
  <2>0. TypeOK /\ AppendPending /\ Preceded /\ TodoInOrder
    BY DEF OrderInv
  <2>1. CASE Receive
    <3>1. PICK k \in Kind : todo' = EntriesOf(events', k)
      BY <2>1 DEF Receive
    <3>2. events' \in 1..MaxEvents /\ sent' = sent
      BY <2>0, <2>1, MaxEventsAssumption DEF Receive, TypeOK
    <3>3. TodoInOrder'
      BY <3>1, <3>2 DEF TodoInOrder, EntriesOf, Kind, Mapping, Ack
    <3>. QED BY <2>0, <3>2, <3>3 DEF Preceded
  <2>2. CASE AppendMsg
    <3>1. todo # <<>> /\ sent' = Append(sent, Head(todo)) /\ todo' = Tail(todo)
      BY <2>0, <2>2 DEF AppendMsg, AppendPending
    <3>2. Head(todo) \in Entry /\ sent \in Seq(Entry) /\ Len(sent) \in Nat
      BY <2>0, <3>1, HeadTailProperties DEF TypeOK
    <3>3. CASE \E n \in 1..MaxEvents : todo = <<Mapping(n), Ack(n)>>
      <4>1. PICK n \in 1..MaxEvents : todo = <<Mapping(n), Ack(n)>>
        BY <3>3
      <4>2. Head(todo) = Mapping(n) /\ Tail(todo) = <<Ack(n)>>
        BY <4>1
      <4>3. Preceded'
        BY <2>0, <3>1, <3>2, <4>2, AppendPreceded DEF Mapping
      <4>4. Len(sent') = Len(sent) + 1 /\ sent'[Len(sent) + 1] = Mapping(n)
        BY <3>1, <3>2, <4>2, AppendProperties
      <4>5. Len(sent) + 1 \in 1..Len(sent')
        BY <3>2, <4>4
      <4>. QED BY <3>1, <4>2, <4>3, <4>4, <4>5 DEF TodoInOrder, Mapping, Ack
    <3>4. CASE \E n \in 1..MaxEvents : todo = <<[ev |-> n, typ |-> "update"]>>
      <4>1. PICK n \in 1..MaxEvents : todo = <<[ev |-> n, typ |-> "update"]>>
        BY <3>4
      <4>2. Head(todo) = [ev |-> n, typ |-> "update"] /\ Tail(todo) = <<>>
        BY <4>1
      <4>. QED BY <2>0, <3>1, <3>2, <4>2, AppendPreceded DEF TodoInOrder
    <3>5. CASE \E n \in 1..MaxEvents : /\ todo = <<Ack(n)>>
                                      /\ \E j \in 1..Len(sent) : sent[j] = Mapping(n)
      <4>1. PICK n \in 1..MaxEvents : /\ todo = <<Ack(n)>>
                                      /\ \E j \in 1..Len(sent) : sent[j] = Mapping(n)
        BY <3>5
      <4>2. Head(todo) = Ack(n) /\ Tail(todo) = <<>>
        BY <4>1
      <4>. QED BY <2>0, <3>1, <3>2, <4>1, <4>2, AppendPreceded DEF TodoInOrder, Ack
    <3>. QED BY <2>0, <3>1, <3>3, <3>4, <3>5 DEF TodoInOrder
  <2>3. CASE ~Receive /\ ~AppendMsg
    <3>1. UNCHANGED <<todo, sent>>
      BY <2>3 DEF Next, Listener, Trader, LoadList, CopyMsgs, ResetMsgs, HandleMsg, BatchDone, lvars, vars
    <3>. QED BY <2>0, <3>1 DEF Preceded, TodoInOrder, Mapping, Ack
  <2>. QED BY <2>1, <2>2, <2>3
<1>. QED BY <1>1, <1>2, PTL DEF Spec

\* process_oms_messages finds the pending order of every acknowledgement: what
\* the trader has handled is a beginning of what was appended.
THEOREM MappingComesFirst == ASSUME Locked PROVE Spec => []MappingBeforeAck
<1>1. OrderInv /\ IInv /\ Lossless => MappingBeforeAck
  <2> SUFFICES ASSUME OrderInv, IInv, Lossless, NEW i \in DOMAIN got, got[i].typ = "new"
               PROVE  \E j \in 1..(i - 1) : got[j] = [ev |-> got[i].ev, typ |-> "mapping"]
    BY DEF MappingBeforeAck
  <2>1. /\ got \in Seq(Entry) /\ batch \in Seq(Entry) /\ msgs \in Seq(Entry)
        /\ InHand \in Seq(Entry)
    BY ConcatProperties DEF IInv, TypeOK, InHand
  <2>2. /\ Len(got) \in Nat /\ Len(InHand) \in Nat /\ Len(sent) = Len(got) + Len(InHand)
        /\ \A k \in 1..Len(got) : sent[k] = got[k]
    BY <2>1, ConcatProperties DEF Lossless
  <2>3. i \in 1..Len(got) /\ i \in 1..Len(sent) /\ sent[i] = got[i]
    BY <2>1, <2>2
  <2>4. PICK j \in 1..(i - 1) : sent[j] = Mapping(got[i].ev)
    BY <2>3 DEF OrderInv, Preceded
  <2>5. j \in 1..Len(got)
    BY <2>2, <2>3
  <2>. QED BY <2>2, <2>4, <2>5 DEF Mapping
<1>. QED BY <1>1, OrderInvariant, LockInvariant, LocalListenerLossless, PTL

-----------------------------------------------------------------------------
(* The refinement of Mailbox.                                              *)

\* LocalOMSListener implements the mailbox the trader relies on: the append
\* is the deposit, the copy under the lock is the drain, and every other step
\* is invisible.
THEOREM LocalListenerImplementsMailbox == ASSUME Locked PROVE Spec => ImplementsMailbox
<1>1. Init => Abs!Init
  BY ConcatEmptySeq, EmptySeq DEF Init, Abs!Init
<1>2. IInv /\ [Next]_vars => [Abs!Next]_(Abs!vars)
  <2> SUFFICES ASSUME IInv, [Next]_vars PROVE [Abs!Next]_(Abs!vars)
    OBVIOUS
  <2>0. batch \in Seq(Entry) /\ msgs \in Seq(Entry) /\ got \in Seq(Entry)
    BY DEF IInv, TypeOK
  <2>1. CASE Receive
    BY <2>1 DEF Receive, Abs!vars
  <2>2. CASE LoadList
    BY <2>2 DEF LoadList, lvars, Abs!vars
  <2>3. CASE AppendMsg
    <3>1. tpc # "swap" /\ ref = "current" /\ todo # <<>>
      BY <2>3, Locked DEF AppendMsg, IInv, Protocol, TypeOK, AppendPending
    <3>2. Head(todo) \in Entry
      BY <3>1, HeadTailProperties DEF IInv, TypeOK
    <3>3. Abs!Deposit(Head(todo))
      BY <2>3, <3>1 DEF AppendMsg, Abs!Deposit
    <3>. QED BY <3>2, <3>3 DEF Abs!Next
  <2>4. CASE CopyMsgs
    <3>1. batch = <<>> /\ got \o batch = got
      BY <2>0, <2>4, ConcatEmptySeq DEF CopyMsgs, IInv, Protocol
    <3>2. Abs!Drain
      BY <2>4, <3>1 DEF CopyMsgs, Abs!Drain
    <3>. QED BY <3>2 DEF Abs!Next
  <2>5. CASE ResetMsgs
    BY <2>5 DEF ResetMsgs, lvars, Abs!vars
  <2>6. CASE HandleMsg
    <3>1. got' \o batch' = got \o batch
      BY <2>0, <2>6, MoveHead DEF HandleMsg
    <3>. QED BY <2>6, <3>1 DEF HandleMsg, Abs!vars
  <2>7. CASE BatchDone
    BY <2>7 DEF BatchDone, lvars, Abs!vars
  <2>8. CASE UNCHANGED vars
    BY <2>8 DEF vars, Abs!vars
  <2>. QED BY <2>1, <2>2, <2>3, <2>4, <2>5, <2>6, <2>7, <2>8 DEF Next, Listener, Trader
<1>. QED BY <1>1, <1>2, LockInvariant, PTL DEF Spec, ImplementsMailbox, Abs!Spec
=============================================================================
