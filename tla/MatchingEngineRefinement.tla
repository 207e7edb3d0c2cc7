---------------------- MODULE MatchingEngineRefinement ----------------------
(***************************************************************************)
(* The matching engine implements PriceTimeBook as long as the notifier    *)
(* does not call back (MaxDepth = 1) and sizes are positive.  The abstract *)
(* placement happens when placeOrder is entered, so in the middle of a     *)
(* match the abstract book is the one the loop is about to reach: every    *)
(* trade, reinsertion and end of loop must leave that prediction alone.    *)
(***************************************************************************)
EXTENDS MatchingEngine, PriceTimePriority

AllResting == UNION {resting[s][side] : s \in Symbols, side \in Sides}
Remaining == [i \in Ids |-> order[i].remaining]
Placed == [i \in Ids |-> [symbol |-> order[i].symbol, price |-> order[i].price,
                          side |-> order[i].side]]
TakenOut == {Top.matched} \ {NoOrder}

PredictedLeft ==
  IF calls = <<>> THEN Remaining
  ELSE LeftAfter(Placed, Remaining, AllResting \cup TakenOut, Top.incoming)
PredictedBook ==
  IF calls = <<>> THEN AllResting
  ELSE BookAfter(Placed, Remaining, AllResting \cup TakenOut, Top.incoming)

Abstract == INSTANCE PriceTimeBook
  WITH placed <- Placed, left <- PredictedLeft, book <- PredictedBook

(* Whatever the interleaving of trades, reinsertions and removals inside   *)
(* placeOrder, callers see one atomic match by price-time priority.        *)
ImplementsPriceTimeBook == Abstract!BookSpec
=============================================================================
