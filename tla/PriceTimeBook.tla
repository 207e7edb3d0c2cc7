--------------------------- MODULE PriceTimeBook ---------------------------
(***************************************************************************)
(* What a matching engine promises its callers: placing an order matches   *)
(* it in one step, by price-time priority, against everything that rests;  *)
(* cancelling takes a resting order out of the book.                       *)
(***************************************************************************)
EXTENDS PriceTimePriority

CONSTANTS Symbols, Prices, Sizes

VARIABLES
  placed,   \* every order placed, in order of arrival
  left,     \* the quantity each of them has left
  book      \* the orders that rest

bookVars == <<placed, left, book>>

BookInit == placed = <<>> /\ left = <<>> /\ book = {}

Place(symbol, price, size, side) ==
  LET i == Len(placed) + 1
      ords == Append(placed, [symbol |-> symbol, price |-> price, side |-> side])
  IN  /\ placed' = ords
      /\ left' = LeftAfter(ords, Append(left, size), book, i)
      /\ book' = BookAfter(ords, Append(left, size), book, i)

Cancel(id) ==
  /\ id \in book
  /\ book' = book \ {id}
  /\ UNCHANGED <<placed, left>>

BookNext ==
  \/ \E symbol \in Symbols, price \in Prices, size \in Sizes,
        side \in {"BUY", "SELL"} : Place(symbol, price, size, side)
  \/ \E id \in book : Cancel(id)

BookSpec == BookInit /\ [][BookNext]_bookVars
=============================================================================
