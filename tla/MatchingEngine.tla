--------------------------- MODULE MatchingEngine ---------------------------
(***************************************************************************)
(* The limit order book of order-matching-engine.cpp.  A MatchingEngine    *)
(* owns one OrderBook per symbol; a book keeps every resting order twice,  *)
(* in the map orders_ (by id, for cancelOrder) and in one of two ordered   *)
(* sets (by price and id, for matching).                                   *)
(*                                                                         *)
(* The engine is single threaded, but it calls the trade notifier from the *)
(* middle of a match, and the notifier is any std::function: it may call   *)
(* the engine again.  A call in progress is therefore a frame on a stack,  *)
(* a match advances by one trade at a time, and the point where control is *)
(* in the notifier is a state of its own.                                  *)
(***************************************************************************)
EXTENDS Integers, Sequences, FiniteSetsExt

CONSTANTS
  Symbols,    \* the symbols orders are placed for
  Prices,     \* limit prices (a double in the code; only compared)
  Sizes,      \* sizes passed to placeOrder: any int, zero and negatives too
  MaxOrders,  \* bound: orders placed in a behaviour
  MaxDepth    \* bound: nesting of engine calls; 1 when the notifier makes none

ASSUME EngineConstants ==
  /\ Prices \subseteq Int
  /\ Sizes \subseteq Int
  /\ MaxOrders \in Nat
  /\ MaxDepth \in Nat \ {0}

VARIABLES
  order,          \* order[i]: the Order whose id is "order-i", ever placed
  orders,         \* orders[s]: ids in the map orders_ of the book of s
  resting,        \* resting[s][side]: ids in buyOrders_ or sellOrders_
  orderBooks,     \* symbols that have a book
  tradeNotifier,  \* whether a notifier is registered
  calls,          \* placeOrder calls in progress, the innermost first
  trades,         \* every execution so far, in order
  cancelled       \* ids for which cancelOrder has returned true

vars == <<order, orders, resting, orderBooks, tradeNotifier, calls, trades,
          cancelled>>

Sides == {"BUY", "SELL"}
Opposite(side) == IF side = "BUY" THEN "SELL" ELSE "BUY"
Ids == 1 .. Len(order)
NoOrder == 0    \* the null shared_ptr; ids start at 1
Minimum(a, b) == IF a < b THEN a ELSE b

Order == [symbol: Symbols, price: Prices, size: Sizes, side: Sides,
          remaining: Int]
(* incoming: the order being matched; matched: the resting order taken out *)
(* of its set for the trade whose notification is running; notify: whether *)
(* the call was handed a notifier.                                         *)
Frame == [incoming: Nat, matched: Nat, notify: BOOLEAN]
Execution == [symbol: Symbols, price: Int, size: Int, buy: Nat,
              sell: Nat, notified: BOOLEAN]

-----------------------------------------------------------------------------
(* The digits of std::to_string(n), most significant first.                *)
Decimal[n \in Nat] ==
  IF n < 10 THEN <<n>> ELSE Append(Decimal[n \div 10], n % 10)

(* std::string's operator< on the ids "order-a" and "order-b".             *)
IdLess(a, b) ==
  LET s == Decimal[a]
      t == Decimal[b]
  IN  \E n \in 0 .. Len(s) :
        /\ n < Len(t)
        /\ \A i \in 1 .. n : s[i] = t[i]
        /\ n = Len(s) \/ s[n + 1] < t[n + 1]

(* What a std::set asks of the comparison of ids: a strict total order.    *)
IdsOrdered(ids) ==
  \A a, b, c \in ids :
    /\ ~IdLess(a, a)
    /\ IdLess(a, b) /\ IdLess(b, c) => IdLess(a, c)
    /\ a # b => IdLess(a, b) \/ IdLess(b, a)

(* Mutant: at one price the later order comes first.                       *)
LaterBefore(side, a, b) ==
  \/ side = "BUY"  /\ order[a].price > order[b].price
  \/ side = "SELL" /\ order[a].price < order[b].price
  \/ order[a].price = order[b].price /\ IdLess(b, a)

(* BuyOrderComparator and SellOrderComparator.                             *)
Before(side, a, b) ==
  \/ side = "BUY"  /\ order[a].price > order[b].price
  \/ side = "SELL" /\ order[a].price < order[b].price
  \/ order[a].price = order[b].price /\ IdLess(a, b)

(* *begin() of the ordered set of that side: at most one id.               *)
First(s, side) ==
  {r \in resting[s][side] : \A q \in resting[s][side] \ {r} : Before(side, r, q)}

(* Mutants: equal prices do not trade; the loop never breaks on a price.   *)
StrictlyMarketable(incoming, r) ==
  IF order[incoming].side = "BUY"
  THEN order[r].price < order[incoming].price
  ELSE order[r].price > order[incoming].price
AlwaysMarketable(incoming, r) == TRUE

(* An incoming order may trade against a resting one of the other side.    *)
Marketable(incoming, r) ==
  IF order[incoming].side = "BUY"
  THEN order[r].price <= order[incoming].price
  ELSE order[r].price >= order[incoming].price

IsFilled(id) == order[id].remaining = 0

(* Mutant: reduceSize refuses the whole of what remains.                   *)
ReducedInPart(remaining, size) ==
  IF size >= remaining THEN remaining ELSE remaining - size

(* reduceSize, whose result the matching loops ignore.                     *)
Reduced(remaining, size) ==
  IF size > remaining THEN remaining ELSE remaining - size

(* What getMarketData reports about a book both of whose sides are quoted. *)
BestPrices(s, side) == {order[r].price : r \in First(s, side)}

-----------------------------------------------------------------------------
Init ==
  /\ order = <<>>
  /\ orders = [s \in Symbols |-> {}]
  /\ resting = [s \in Symbols |-> [side \in Sides |-> {}]]
  /\ orderBooks = {}
  /\ tradeNotifier = FALSE
  /\ calls = <<>>
  /\ trades = <<>>
  /\ cancelled = {}

(* Control is outside the engine: no call is in progress, or the notifier  *)
(* of the innermost one is running and may call the engine again.          *)
MayCall ==
  \/ calls = <<>>
  \/ /\ calls # <<>>
     /\ Head(calls).matched # NoOrder
     /\ Head(calls).notify
     /\ Len(calls) < MaxDepth

Top == Head(calls)
SetTop(frame) == calls' = <<frame>> \o Tail(calls)

SetTradeNotifier(registered) ==
  /\ MayCall
  /\ tradeNotifier' = registered
  /\ UNCHANGED <<order, orders, resting, orderBooks, calls, trades, cancelled>>

(* placeOrder up to the call of matchOrder: the new order is in no book.   *)
PlaceOrder(symbol, price, size, side) ==
  /\ MayCall
  /\ Len(order) < MaxOrders
  /\ order' = Append(order, [symbol |-> symbol, price |-> price, size |-> size,
                             side |-> side, remaining |-> size])
  /\ orderBooks' = orderBooks \cup {symbol}
  /\ calls' = <<[incoming |-> Len(order) + 1, matched |-> NoOrder,
                 notify |-> tradeNotifier]>> \o calls
  /\ UNCHANGED <<orders, resting, tradeNotifier, trades, cancelled>>

(* The loop of matchBuyOrder or matchSellOrder has found r to trade with.  *)
Matches(r) ==
  LET i == Top.incoming IN
    /\ calls # <<>>
    /\ Top.matched = NoOrder
    /\ ~IsFilled(i)
    /\ r \in First(order[i].symbol, Opposite(order[i].side))
    /\ Marketable(i, r)

TradeSize(r) == Minimum(order[Top.incoming].remaining, order[r].remaining)

(* The rest of that iteration up to and including the notifier's call.     *)
Trade(r) ==
  LET i == Top.incoming
      s == order[i].symbol
      other == Opposite(order[i].side)
      size == TradeSize(r)
  IN  /\ resting' = [resting EXCEPT ![s][other] = @ \ {r}]
      /\ order' = [k \in Ids |->
           IF k \in {i, r} THEN [order[k] EXCEPT !.remaining = Reduced(@, size)]
                           ELSE order[k]]
      /\ trades' = Append(trades,
           [symbol |-> s, price |-> order[r].price, size |-> size,
            buy  |-> IF order[i].side = "BUY" THEN i ELSE r,
            sell |-> IF order[i].side = "BUY" THEN r ELSE i,
            notified |-> Top.notify])
      /\ SetTop([Top EXCEPT !.matched = r])
      /\ UNCHANGED <<orders, orderBooks, tradeNotifier, cancelled>>

(* Mutant: an iteration that would trade nothing, or less, is skipped.     *)
SkipEmptyTrade(r) ==
  Matches(r) /\ IF TradeSize(r) <= 0 THEN UNCHANGED vars ELSE Trade(r)

ExecuteTrade(r) == Matches(r) /\ Trade(r)

(* Mutant: a filled resting order stays in orders_.                        *)
KeepsFilled ==
  LET r == Top.matched
      s == order[Top.incoming].symbol
      other == Opposite(order[Top.incoming].side)
  IN  /\ calls # <<>> /\ r # NoOrder
      /\ resting' = [resting EXCEPT ![s][other] = IF IsFilled(r) THEN @
                                                  ELSE @ \cup {r}]
      /\ SetTop([Top EXCEPT !.matched = NoOrder])
      /\ UNCHANGED <<order, orders, orderBooks, tradeNotifier, trades,
                     cancelled>>

(* The notifier returns: the rest of that iteration puts the resting order *)
(* back into its set or, when it is filled, drops it from orders_.         *)
NotifierReturns ==
  LET r == Top.matched
      s == order[Top.incoming].symbol
      other == Opposite(order[Top.incoming].side)
  IN  /\ calls # <<>>
      /\ r # NoOrder
      /\ \/ /\ ~IsFilled(r)
            /\ resting' = [resting EXCEPT ![s][other] = @ \cup {r}]
            /\ UNCHANGED orders
         \/ /\ IsFilled(r)
            /\ orders' = [orders EXCEPT ![s] = @ \ {r}]
            /\ UNCHANGED resting
      /\ SetTop([Top EXCEPT !.matched = NoOrder])
      /\ UNCHANGED <<order, orderBooks, tradeNotifier, trades, cancelled>>

(* The loop ends and matchOrder adds what is left of the order to the book.*)
FinishMatch ==
  LET i == Top.incoming
      s == order[i].symbol
      side == order[i].side
  IN  /\ calls # <<>>
      /\ Top.matched = NoOrder
      /\ IsFilled(i) \/ \A r \in First(s, Opposite(side)) : ~Marketable(i, r)
      /\ \/ /\ IsFilled(i)
            /\ UNCHANGED <<orders, resting>>
         \/ /\ ~IsFilled(i)
            /\ orders' = [orders EXCEPT ![s] = @ \cup {i}]
            /\ resting' = [resting EXCEPT ![s][side] = @ \cup {i}]
      /\ calls' = Tail(calls)
      /\ UNCHANGED <<order, orderBooks, tradeNotifier, trades, cancelled>>

(* Mutant: removeOrder forgets the ordered set.                            *)
CancelById(id) ==
  /\ MayCall
  /\ \E s \in orderBooks :
       id \in orders[s] /\ orders' = [orders EXCEPT ![s] = @ \ {id}]
  /\ cancelled' = cancelled \cup {id}
  /\ UNCHANGED <<order, resting, orderBooks, tradeNotifier, calls, trades>>

(* cancelOrder of an id some book knows; of any other id it returns false  *)
(* and changes nothing.                                                    *)
CancelOrder(id) ==
  /\ MayCall
  /\ \E s \in orderBooks :
       /\ id \in orders[s]
       /\ orders' = [orders EXCEPT ![s] = @ \ {id}]
       /\ resting' = [resting EXCEPT ![s][order[id].side] = @ \ {id}]
  /\ cancelled' = cancelled \cup {id}
  /\ UNCHANGED <<order, orderBooks, tradeNotifier, calls, trades>>

(* getMarketData creates the book of a symbol that has none.               *)
GetMarketData(symbol) ==
  /\ MayCall
  /\ orderBooks' = orderBooks \cup {symbol}
  /\ UNCHANGED <<order, orders, resting, tradeNotifier, calls, trades, cancelled>>

ClientCall ==
  \/ \E b \in BOOLEAN : SetTradeNotifier(b)
  \/ \E symbol \in Symbols, price \in Prices, size \in Sizes, side \in Sides :
       PlaceOrder(symbol, price, size, side)
  \/ \E id \in Ids : CancelOrder(id)
  \/ \E symbol \in Symbols : GetMarketData(symbol)

EngineStep ==
  \/ \E r \in Ids : ExecuteTrade(r)
  \/ NotifierReturns
  \/ FinishMatch

Next == ClientCall \/ EngineStep

Spec == Init /\ [][Next]_vars

(* The thread inside the engine keeps running; callers need not call.      *)
FairSpec == Spec /\ WF_vars(EngineStep)
-----------------------------------------------------------------------------
(* Shape of the state.  A resting order is identified by its id, and its    *)
(* side and symbol are those of the set it is in.                          *)
TypeOK ==
  /\ order \in Seq(Order)
  /\ orders \in [Symbols -> SUBSET Ids]
  /\ resting \in [Symbols -> [Sides -> SUBSET Ids]]
  /\ orderBooks \in SUBSET Symbols
  /\ tradeNotifier \in BOOLEAN
  /\ calls \in Seq(Frame)
  /\ Len(calls) <= MaxDepth
  /\ trades \in Seq(Execution)
  /\ cancelled \in SUBSET Ids

(* Between calls no two resting orders of a symbol could trade with each   *)
(* other, so the spread getMarketData reports is positive: whatever the    *)
(* matching loop leaves behind, it stopped only because nothing crosses.   *)
NoCrossedBook ==
  calls = <<>> =>
    \A s \in Symbols :
      \A bid \in BestPrices(s, "BUY"), ask \in BestPrices(s, "SELL") : bid < ask

(* The two containers of a book agree between calls: what rests can be     *)
(* cancelled by id, what orders_ knows rests on the side and in the book   *)
(* of its own symbol, and nothing filled is kept.                          *)
BookConsistent ==
  calls = <<>> =>
    \A s \in Symbols :
      /\ orders[s] = resting[s]["BUY"] \cup resting[s]["SELL"]
      /\ \A side \in Sides : \A r \in resting[s][side] :
           order[r].symbol = s /\ order[r].side = side /\ ~IsFilled(r)

(* No execution is outside either party's limit, whichever of the two was  *)
(* resting: the price is the resting order's and the loop stops at the     *)
(* incoming order's limit.                                                 *)
LimitsRespected ==
  \A t \in 1 .. Len(trades) :
    LET trade == trades[t] IN
      /\ order[trade.buy].side = "BUY" /\ order[trade.sell].side = "SELL"
      /\ order[trade.buy].symbol = trade.symbol
      /\ order[trade.sell].symbol = trade.symbol
      /\ order[trade.sell].price <= trade.price
      /\ trade.price <= order[trade.buy].price

FillsOf(id) ==
  {t \in 1 .. Len(trades) : trades[t].buy = id \/ trades[t].sell = id}

(* The notifications account for every share: what was placed is what the  *)
(* reported executions of the order add up to and what is left of it.      *)
FillsAccountForSize ==
  \A id \in Ids :
    order[id].size =
      order[id].remaining
        + MapThenSumSet(LAMBDA t : trades[t].size, FillsOf(id))

(* An order whose cancellation was confirmed is out of the book for good:  *)
(* removeOrder "Remove an order from the book".                            *)
CancelledStaysOut ==
  \A id \in cancelled, s \in Symbols :
    /\ id \notin orders[s]
    /\ \A side \in Sides : id \notin resting[s][side]

(* "Earlier orders have priority": an execution never takes a resting      *)
(* order while an earlier one of the same side and price rests.            *)
EarlierOrdersFirst ==
  [][\A r \in Ids : ExecuteTrade(r) =>
       \A q \in resting[order[r].symbol][order[r].side] :
         order[q].price = order[r].price => r <= q]_vars

(* Every placeOrder returns: the matching loop ends.                       *)
CallsReturn == (calls # <<>>) ~> (calls = <<>>)
=============================================================================
