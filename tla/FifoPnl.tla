-------------------------------- MODULE FifoPnl --------------------------------
(***************************************************************************)
(* The first-in-first-out engine of lib/pnl/fill_pnl_symbol.py             *)
(* (CalcMultiSymbolFillPnl) for one symbol: a fill is matched against the  *)
(* lots of the other side, oldest first, and what remains opens a lot.     *)
(* One action is one turn of the loop of _match_fills_with_inventory.      *)
(***************************************************************************)
EXTENDS Sums

VARIABLES inventory,    \* inventory_case: the lots of each side
          fill,         \* the fill being matched, or NoFill
          remaining,    \* remaining_qty of the loop
          realized,     \* realized_pnl
          feesPaid,     \* fees_usd
          fundingPaid   \* funding_income

fifoVars == <<inventory, fill, remaining, realized, feesPaid, fundingPaid>>

Sides == {"B", "S"}
NoFill == [side |-> "B", px |-> 0, qty |-> 0]
Opposite(side) == IF side = "B" THEN "S" ELSE "B"
Signed(side, n) == IF side = "B" THEN n ELSE -n

Lots == [px : Int, qty : Nat \ {0}]
Fills == [side : Sides, px : Int, qty : Nat]

\* The initial inventory: one lot at the average price of the position.
InventoryOf(q, avgPrice) ==
    [s \in Sides |-> IF q # 0 /\ s = (IF q > 0 THEN "B" ELSE "S")
                     THEN <<[px |-> avgPrice, qty |-> IF q > 0 THEN q ELSE -q]>> ELSE <<>>]

Matching == fill # NoFill

StartFill(f, commission) ==
    /\ ~Matching
    /\ fill' = f /\ remaining' = f.qty
    /\ feesPaid' = feesPaid + commission
    /\ UNCHANGED <<inventory, realized>>

\* Mutant of Profit: the sides are swapped.
ProfitReversed(side, entry, px) == Signed(side, px - entry)

\* Profit per unit of closing a lot of price entry with a fill on this side.
Profit(side, entry, px) == Signed(side, entry - px)

\* Mutants of MatchLot: a lot used up stays, with nothing in it; all that
\* remains is taken as matched against one lot.
MatchLotKeepsEmpty ==
    LET opp == Opposite(fill.side)
        lot == Head(inventory[opp])
        matched == IF lot.qty <= remaining THEN lot.qty ELSE remaining
    IN /\ Matching /\ remaining > 0 /\ inventory[opp] # <<>>
       /\ realized' = realized + Profit(fill.side, lot.px, fill.px) * matched
       /\ remaining' = remaining - matched
       /\ inventory' = [inventory EXCEPT ![opp] =
            IF lot.qty < remaining THEN Tail(@)
            ELSE <<[lot EXCEPT !.qty = @ - matched]>> \o Tail(@)]
       /\ UNCHANGED <<fill, feesPaid, fundingPaid>>
MatchLotWhole ==
    LET opp == Opposite(fill.side)
        lot == Head(inventory[opp])
    IN /\ Matching /\ remaining > 0 /\ inventory[opp] # <<>>
       /\ realized' = realized + Profit(fill.side, lot.px, fill.px) * remaining
       /\ remaining' = IF lot.qty <= remaining THEN remaining - lot.qty ELSE 0
       /\ inventory' = [inventory EXCEPT ![opp] =
            IF lot.qty <= remaining THEN Tail(@)
            ELSE <<[lot EXCEPT !.qty = @ - remaining]>> \o Tail(@)]
       /\ UNCHANGED <<fill, feesPaid, fundingPaid>>

\* The oldest lot of the other side, whole or in part.
MatchLot ==
    LET opp == Opposite(fill.side)
        lot == Head(inventory[opp])
        matched == IF lot.qty <= remaining THEN lot.qty ELSE remaining
    IN /\ Matching /\ remaining > 0 /\ inventory[opp] # <<>>
       /\ realized' = realized + Profit(fill.side, lot.px, fill.px) * matched
       /\ remaining' = remaining - matched
       /\ inventory' = [inventory EXCEPT ![opp] =
            IF lot.qty <= remaining THEN Tail(@)
            ELSE <<[lot EXCEPT !.qty = @ - remaining]>> \o Tail(@)]
       /\ UNCHANGED <<fill, feesPaid, fundingPaid>>

\* Mutant of Expand: the remainder is added beside lots of the other side.
ExpandAtOnce == /\ Matching /\ remaining > 0
                /\ inventory' = [inventory EXCEPT ![fill.side] =
                                   Append(@, [px |-> fill.px, qty |-> remaining])]
                /\ remaining' = 0
                /\ UNCHANGED <<fill, realized, feesPaid, fundingPaid>>

Expand == /\ Matching /\ remaining > 0 /\ inventory[Opposite(fill.side)] = <<>>
          /\ inventory' = [inventory EXCEPT ![fill.side] =
                             Append(@, [px |-> fill.px, qty |-> remaining])]
          /\ remaining' = 0
          /\ UNCHANGED <<fill, realized, feesPaid, fundingPaid>>

EndFill == /\ Matching /\ remaining = 0
           /\ fill' = NoFill
           /\ UNCHANGED <<inventory, remaining, realized, feesPaid, fundingPaid>>

MatchFill == MatchLot \/ Expand \/ EndFill

\* Sums over the lots of a side.
QtyOf(lots) == SumOf([i \in 1..Len(lots) |-> lots[i].qty])
CostOf(lots) == SumOf([i \in 1..Len(lots) |-> lots[i].px * lots[i].qty])

Net == QtyOf(inventory["B"]) - QtyOf(inventory["S"])
Unrealized(mark) == (mark * QtyOf(inventory["B"]) - CostOf(inventory["B"]))
                    + (CostOf(inventory["S"]) - mark * QtyOf(inventory["S"]))

\* What is left of the fill being matched has already been traded.
Held == Net + Signed(fill.side, remaining)
Paid == realized - feesPaid + fundingPaid - CostOf(inventory["B"]) + CostOf(inventory["S"])
        - Signed(fill.side, remaining) * fill.px

\* No long and short lots together: the case _calculate_position_info_at_bar
\* warns of.  It holds in every turn of the loop, not only between fills.
OneSided == inventory["B"] = <<>> \/ inventory["S"] = <<>>
===============================================================================
