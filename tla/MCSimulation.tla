----------------------------- MODULE MCSimulation ------------------------------
(***************************************************************************)
(* Small instances of the back-test: flat or short to begin with, targets  *)
(* on both sides of zero, and slices that are not on the hour, the second  *)
(* in another hour than the first and the third on another day.            *)
(***************************************************************************)
EXTENDS Simulation

FlatOrShort == {0, -2}
LongFlatShort == {-8, 0, 8}
Times == [slice \in 0..2 |-> CASE slice = 0 -> 1 [] slice = 1 -> 5 [] slice = 2 -> 7]
===============================================================================
