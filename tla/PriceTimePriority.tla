------------------------- MODULE PriceTimePriority -------------------------
(***************************************************************************)
(* Price-time priority as one closed formula, the reference the matching   *)
(* loops of order-matching-engine.cpp are compared with.  An incoming      *)
(* order takes quantity from the eligible resting orders, best price first *)
(* and the earlier one first at a price; each gives what those ahead of it *)
(* left unserved, up to its own quantity.  Nothing here follows the code.  *)
(*                                                                         *)
(*   ords: the orders ever placed, as a sequence indexed by arrival        *)
(*   left: the quantity each has left     book: the ones that rest         *)
(***************************************************************************)
EXTENDS Integers, Sequences, FiniteSetsExt

CONSTANT Earlier  \* <<q, r>>: of two orders at one price, q goes before r

Clamp(n, low, high) == IF n < low THEN low ELSE IF n > high THEN high ELSE n

(* The resting orders that order i is willing to trade with. *)
Eligible(ords, book, i) ==
  {r \in book :
     /\ ords[r].symbol = ords[i].symbol
     /\ ords[r].side # ords[i].side
     /\ IF ords[i].side = "BUY" THEN ords[r].price <= ords[i].price
                                ELSE ords[r].price >= ords[i].price}

(* q is served before r by an order of the other side. *)
Ahead(ords, q, r) ==
  \/ IF ords[r].side = "SELL" THEN ords[q].price < ords[r].price
                              ELSE ords[q].price > ords[r].price
  \/ ords[q].price = ords[r].price /\ <<q, r>> \in Earlier

(* What each order has left once order i has been matched completely. *)
LeftAfter(ords, left, book, i) ==
  LET queue == Eligible(ords, book, i)
      served(r) == {q \in queue : Ahead(ords, q, r)}
      total(S) == MapThenSumSet(LAMBDA q : left[q], S)
      fill(r) == Clamp(left[i] - total(served(r)), 0, left[r])
  IN  [k \in DOMAIN left |->
         IF k = i THEN left[i] - Clamp(left[i], 0, total(queue))
         ELSE IF k \in queue THEN left[k] - fill(k)
         ELSE left[k]]

(* What rests then: every party that still has something left. *)
BookAfter(ords, left, book, i) ==
  {k \in book \cup {i} : LeftAfter(ords, left, book, i)[k] > 0}
=============================================================================
