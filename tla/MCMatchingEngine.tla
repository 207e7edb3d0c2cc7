-------------------------- MODULE MCMatchingEngine --------------------------
(* Instances of MatchingEngine for TLC. *)
EXTENDS MatchingEngineRefinement

(* An order of size 0 and one of negative size are accepted by placeOrder. *)
AnySizes == {-1, 0, 1, 2}

(* Time priority is by arrival. *)
Arrival == {<<q, r>> \in (1 .. MaxOrders) \X (1 .. MaxOrders) : q < r}
=============================================================================
