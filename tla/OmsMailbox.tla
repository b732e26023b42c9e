----------------------------- MODULE OmsMailbox -----------------------------
(***************************************************************************)
(* The hand-over of exchange messages from a listener thread to the        *)
(* trader thread.  CppOMSListener and OMSListener (lib/trader/             *)
(* oms_listener.py) keep a Python list in self.msgs and use no lock;       *)
(* LocalOMSListener (lib/trader/local_oms.py) does the same under a lock.  *)
(* Locked chooses between the two.                                         *)
(*                                                                         *)
(* The two list operations that race are                                   *)
(*    listener:  self.msgs.append(x)     read the attribute, then append   *)
(*    trader:    msgs = self.msgs.copy();  self.msgs = []                  *)
(* Each of the four parts is a step here, which is what the interpreter    *)
(* guarantees to be indivisible.                                           *)
(***************************************************************************)
EXTENDS Naturals, Sequences

CONSTANTS Locked,       \* TRUE: LocalOMSListener; FALSE: the ZMQ listeners
          MaxEvents     \* bound on the exchange events received

ASSUME LockedAssumption == Locked \in BOOLEAN
ASSUME MaxEventsAssumption == MaxEvents \in Nat

VARIABLES
    events,     \* exchange events received so far (a counter)
    todo,       \* entries of the current event the listener has still to append
    ref,        \* the list the listener's append has loaded: "none", "current", "old"
    msgs,       \* self.msgs
    lock,       \* self._lock: "free", "listener" or "trader"
    tpc,        \* where the trader is in process_oms_messages / get_msgs
    batch,      \* the trader's local copy, not yet handled
    got,        \* history: the entries the trader has handled, in order
    sent        \* history: the entries the listener has appended, in order

lvars == <<events, todo>>
vars  == <<events, todo, ref, msgs, lock, tpc, batch, got, sent>>

\* An entry of the list: the order-id mapping synthesized for a NEW
\* acknowledgement, or the exchange message itself.
Entry == [ev : 1..MaxEvents, typ : {"mapping", "new", "update"}]

\* The kinds of event the handlers tell apart.  "update" stands for every
\* ORDER_TRADE_UPDATE that yields no mapping (fills, cancels, autoclose and ADL
\* orders) and for exchange rejections; "other" is logged and dropped.
Kind == {"new", "update", "other"}

\* Mutants of EntriesOf: the acknowledgement before its mapping; a mapping
\* under a type the trader does not know.
EntriesAckFirst(n, k) ==
    CASE k = "new"    -> <<[ev |-> n, typ |-> "new"], [ev |-> n, typ |-> "mapping"]>>
      [] k = "update" -> <<[ev |-> n, typ |-> "update"]>>
      [] k = "other"  -> <<>>
EntriesUnknownType(n, k) ==
    CASE k = "new"    -> <<[ev |-> n, typ |-> "NEW_ORDER"], [ev |-> n, typ |-> "new"]>>
      [] k = "update" -> <<[ev |-> n, typ |-> "update"]>>
      [] k = "other"  -> <<>>

EntriesOf(n, k) ==
    CASE k = "new"    -> <<[ev |-> n, typ |-> "mapping"], [ev |-> n, typ |-> "new"]>>
      [] k = "update" -> <<[ev |-> n, typ |-> "update"]>>
      [] k = "other"  -> <<>>

Init == /\ events = 0 /\ todo = <<>> /\ ref = "none"
        /\ msgs = <<>> /\ lock = "free"
        /\ tpc = "idle" /\ batch = <<>>
        /\ got = <<>> /\ sent = <<>>

Acquire(thread) == IF Locked THEN lock = "free" /\ lock' = thread
                             ELSE UNCHANGED lock
Release == lock' = "free"

-----------------------------------------------------------------------------
(* The listener thread.                                                    *)

Receive == /\ todo = <<>> /\ events < MaxEvents
           /\ events' = events + 1
           /\ \E k \in Kind : todo' = EntriesOf(events', k)
           /\ UNCHANGED <<ref, msgs, lock, tpc, batch, got, sent>>

LoadList == /\ todo # <<>> /\ ref = "none"
            /\ Acquire("listener")
            /\ ref' = "current"
            /\ UNCHANGED <<lvars, msgs, tpc, batch, got, sent>>

\* list.append on the list that was loaded: the trader may have replaced the
\* attribute since, and then nobody else holds that list.
AppendMsg == /\ ref # "none"
             /\ msgs' = IF ref = "current" THEN Append(msgs, Head(todo)) ELSE msgs
             /\ sent' = Append(sent, Head(todo))
             /\ todo' = Tail(todo)
             /\ ref' = "none"
             /\ Release
             /\ UNCHANGED <<events, tpc, batch, got>>

-----------------------------------------------------------------------------
(* The trader thread: get_msgs, then the loop of process_oms_messages.     *)

\* Mutants of CopyMsgs: the copy taken before the lock is; only the first
\* message copied.
CopyUnlocked == /\ tpc = "idle"
                /\ batch' = msgs
                /\ tpc' = "swap"
                /\ UNCHANGED <<lvars, ref, msgs, lock, got, sent>>
CopyFirst == /\ tpc = "idle"
             /\ Acquire("trader")
             /\ batch' = IF msgs = <<>> THEN <<>> ELSE <<Head(msgs)>>
             /\ tpc' = "swap"
             /\ UNCHANGED <<lvars, ref, msgs, got, sent>>

CopyMsgs == /\ tpc = "idle"
            /\ Acquire("trader")
            /\ batch' = msgs
            /\ tpc' = "swap"
            /\ UNCHANGED <<lvars, ref, msgs, got, sent>>

ResetMsgs == /\ tpc = "swap"
             /\ msgs' = <<>>
             /\ ref' = IF ref = "none" THEN "none" ELSE "old"
             /\ Release
             /\ tpc' = "handle"
             /\ UNCHANGED <<lvars, batch, got, sent>>

HandleMsg == /\ tpc = "handle" /\ batch # <<>>
             /\ got' = Append(got, Head(batch))
             /\ batch' = Tail(batch)
             /\ UNCHANGED <<lvars, ref, msgs, lock, tpc, sent>>

BatchDone == /\ tpc = "handle" /\ batch = <<>>
             /\ tpc' = "idle"
             /\ UNCHANGED <<lvars, ref, msgs, lock, batch, got, sent>>

Listener == Receive \/ LoadList \/ AppendMsg
Trader   == CopyMsgs \/ ResetMsgs \/ HandleMsg \/ BatchDone

Next == Listener \/ Trader

Spec == Init /\ [][Next]_vars

\* Both are threads of one process, scheduled by the interpreter.
FairSpec == Spec /\ WF_vars(LoadList \/ AppendMsg) /\ WF_vars(Trader)

-----------------------------------------------------------------------------
TypeOK == /\ events \in 0..MaxEvents
          /\ todo \in Seq(Entry)
          /\ ref \in {"none", "current", "old"}
          /\ msgs \in Seq(Entry)
          /\ lock \in {"free", "listener", "trader"}
          /\ tpc \in {"idle", "swap", "handle"}
          /\ batch \in Seq(Entry)
          /\ got \in Seq(Entry)
          /\ sent \in Seq(Entry)

\* What the trader holds or will drain, in order: between copy and reset the
\* batch still duplicates the list.
InHand == IF tpc = "swap" THEN batch ELSE batch \o msgs

\* Nothing a listener appended is lost, duplicated or reordered on its way
\* to process_oms_messages (get_msgs hands over the whole list, once).
Lossless == sent = got \o InHand

\* The trader never sees an acknowledgement before the order-id mapping the
\* listener synthesized for it: process_oms_messages looks the pending order
\* up through oid_to_koid when the acknowledgement arrives.
MappingBeforeAck ==
    \A i \in DOMAIN got : got[i].typ = "new" =>
        \E j \in 1..(i - 1) : got[j] = [ev |-> got[i].ev, typ |-> "mapping"]

\* Every entry appended is handled in the end.
Delivered == \A i \in 1..(2 * MaxEvents) : (Len(sent) >= i) ~> (Len(got) >= i)

\* The listener implements the mailbox the trader relies on.
Abs == INSTANCE Mailbox WITH queue <- (IF tpc = "swap" THEN <<>> ELSE msgs),
                             taken <- got \o batch
ImplementsMailbox == Abs!Spec
=============================================================================
