-------------------------------- MODULE Account --------------------------------
(***************************************************************************)
(* What a ledger of fills promises, whatever its bookkeeping: a quantity   *)
(* and the money paid and received.  A trade moves both, at one price and  *)
(* with its fee; an income moves the money alone.                          *)
(***************************************************************************)
EXTENDS Integers

CONSTANTS Prices, Fee

VARIABLES held, cash,
          income    \* what of the money was funding

vars == <<held, cash, income>>

Init == held \in Int /\ cash \in Int /\ income \in Int

FeeOf(dollars) == (IF dollars < 0 THEN -dollars ELSE dollars) * Fee

Trade == LET size == held' - held
         IN /\ size # 0 /\ UNCHANGED income
            /\ \E px \in Prices : cash' = cash - size * px - FeeOf(size * px)

Receive == /\ UNCHANGED held
           /\ cash' - cash = income' - income

Next == Trade \/ Receive
Spec == Init /\ [][Next]_vars
===============================================================================
