------------------------------ MODULE Mailbox ------------------------------
(***************************************************************************)
(* What the trader needs of any OMS listener (lib/trader/trader.py,        *)
(* process_oms_messages): get_msgs() hands over everything the listener    *)
(* thread has deposited since the last call, in order and exactly once.    *)
(* OmsMailbox is shown to implement this for the listener that locks.      *)
(***************************************************************************)
EXTENDS Sequences

CONSTANT Entry      \* whatever the listener thread deposits

VARIABLES queue,    \* deposited and not yet drained
          taken     \* everything the trader has drained so far, in order

vars == <<queue, taken>>

Init == queue = <<>> /\ taken = <<>>

Deposit(e) == queue' = Append(queue, e) /\ UNCHANGED taken

Drain == taken' = taken \o queue /\ queue' = <<>>

Next == Drain \/ \E e \in Entry : Deposit(e)

Spec == Init /\ [][Next]_vars
=============================================================================
