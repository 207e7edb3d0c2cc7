---------------------- MODULE MatchingEngineBookProofs ----------------------
(***************************************************************************)
(* With a notifier that does not call the engine (MaxDepth = 1), the books *)
(* are consistent and uncrossed between calls and a cancelled order never  *)
(* comes back, for any symbols, prices and sizes.  In the middle of a      *)
(* match the book has to be read as if the order that was taken out of its *)
(* set were still there, and the incoming order as being in no container.  *)
(* On top of that, the engine implements PriceTimeBook for positive sizes, *)
(* where the earlier of two orders is the one whose id is less.            *)
(***************************************************************************)
EXTENDS MatchingEngineProofs, MatchingEngineRefinement

Taken == IF calls = <<>> THEN {} ELSE {Top.matched} \ {NoOrder}
Book(s, side) ==
  resting[s][side] \cup
    {r \in Taken : order[r].symbol = s /\ order[r].side = side}

Indexed == \A s \in Symbols : orders[s] = Book(s, "BUY") \cup Book(s, "SELL")
NoneFilled ==
  \A s \in Symbols, side \in Sides : \A r \in resting[s][side] : ~IsFilled(r)
TakenIsOut ==
  \A r \in Taken, s \in Symbols, side \in Sides : r \notin resting[s][side]
IncomingIsOut ==
  calls # <<>> =>
    /\ Top.incoming \notin cancelled
    /\ \A s \in Symbols : Top.incoming \notin orders[s]
CancelledIsOut == \A id \in cancelled, s \in Symbols : id \notin orders[s]
Uncrossed ==
  \A s \in Symbols : \A b \in Book(s, "BUY"), a \in Book(s, "SELL") :
    order[b].price < order[a].price

BookInv ==
  LimitInv /\ Indexed /\ NoneFilled /\ TakenIsOut /\ IncomingIsOut
    /\ CancelledIsOut /\ Uncrossed
-----------------------------------------------------------------------------
(* What an invariant of the books must not depend on: an order keeps its   *)
(* place, and only the two parties of an execution change at all.          *)
LEMMA OneCall ==
  ASSUME MaxDepth = 1, TypeInv
  PROVE  /\ MayCall => calls = <<>>
         /\ calls # <<>> => Len(calls) = 1 /\ Tail(calls) = <<>>
<1>1. calls \in Seq(Frame) /\ Len(calls) \in Nat /\ Len(calls) <= 1
  BY DEF TypeInv, TypeOK
<1>2. calls # <<>> => Len(calls) = 1
  <2>1. calls # <<>> => Len(calls) \in Nat \ {0}
    BY <1>1, EmptySeq
  <2>2. Len(calls) \in Nat /\ Len(calls) <= 1
    BY <1>1
  <2>3. \A n \in Nat \ {0} : n <= 1 => n = 1
    OBVIOUS
  <2> QED BY <2>1, <2>2, <2>3, Zenon
<1>3. calls # <<>> => Tail(calls) = <<>>
  BY <1>1, <1>2, HeadTailProperties, EmptySeq
<1> QED BY <1>1, <1>2, <1>3 DEF MayCall

LEMMA InitBookInv == Init => BookInv
<1> SUFFICES ASSUME Init PROVE BookInv
  OBVIOUS
<1>1. Taken = {} /\ cancelled = {} /\ calls = <<>>
  BY DEF Init, Taken
<1>2. \A s \in Symbols : /\ orders[s] = {}
                         /\ \A side \in Sides : resting[s][side] = {}
  BY DEF Init
<1>3. \A s \in Symbols, side \in Sides : Book(s, side) = {}
  BY <1>1, <1>2 DEF Book
<1> QED
  BY <1>1, <1>2, <1>3, InitLimitInv DEF BookInv, Indexed, NoneFilled,
     TakenIsOut, IncomingIsOut, CancelledIsOut, Uncrossed, Sides

(* A call of placeOrder enters with its order in no container.             *)
LEMMA PlaceEnters ==
  ASSUME MaxDepth = 1, TypeInv, NEW symbol, NEW price, NEW size, NEW side,
         PlaceOrder(symbol, price, size, side)
  PROVE  /\ calls = <<>> /\ calls' # <<>>
         /\ Top'.incoming = Len(order) + 1 /\ Top'.matched = NoOrder
<1> DEFINE f == [incoming |-> Len(order) + 1, matched |-> NoOrder,
                 notify |-> tradeNotifier]
<1>1. calls = <<>> /\ Len(calls) = 0
  BY OneCall DEF PlaceOrder
<1>2. calls \in Seq(Frame) /\ Len(order) \in Nat /\ f \in Frame
  BY DEF TypeInv, TypeOK, Frame, NoOrder
<1>3. calls' = <<f>> \o calls
  BY DEF PlaceOrder
<1>4. f.incoming = Len(order) + 1 /\ f.matched = NoOrder
  OBVIOUS
<1> HIDE DEF f
<1>5. /\ calls' \in Seq(Frame) /\ Len(calls') = 1 /\ calls'[1] = f
  BY <1>1, <1>2, <1>3, PushedFrame
<1>6. calls' # <<>> /\ Top' = f
  BY <1>5, EmptySeq DEF Top
<1> QED BY <1>1, <1>4, <1>6

(* The four parts about the containers follow from what they contain.      *)
LEMMA PlaceKeepsBookInv ==
  ASSUME MaxDepth = 1, BookInv, LimitInv', NEW symbol \in Symbols,
         NEW price \in Prices, NEW size \in Sizes, NEW side \in Sides,
         PlaceOrder(symbol, price, size, side)
  PROVE  BookInv'
<1>1. TypeInv
  BY DEF BookInv, LimitInv
<1>2. /\ calls = <<>> /\ calls' # <<>>
      /\ Top'.incoming = Len(order) + 1 /\ Top'.matched = NoOrder
  BY <1>1, PlaceEnters
<1>3. Len(order) \in Nat /\ UNCHANGED <<orders, resting, cancelled>>
  BY <1>1 DEF TypeInv, TypeOK, PlaceOrder
<1>4. Taken = {} /\ Taken' = {}
  BY <1>2 DEF Taken
<1>5. \A k \in Ids : order'[k] = order[k]
  BY <1>1 DEF PlaceOrder, TypeInv, TypeOK, Ids
<1>6. \A s \in Symbols, d \in Sides :
         Book(s, d)' = Book(s, d) /\ Book(s, d) \subseteq Ids
  BY <1>1, <1>3, <1>4 DEF Book, TypeInv, TypeOK
<1>7. Len(order) + 1 \notin Ids
  BY <1>3 DEF Ids
<1>8. Indexed' /\ CancelledIsOut' /\ TakenIsOut'
  BY <1>3, <1>4, <1>6 DEF BookInv, Indexed, CancelledIsOut, TakenIsOut, Sides
<1>9. NoneFilled'
  BY <1>1, <1>3, <1>5 DEF BookInv, NoneFilled, IsFilled, TypeInv, TypeOK
<1>10. IncomingIsOut'
  BY <1>1, <1>2, <1>3, <1>7 DEF IncomingIsOut, TypeInv, TypeOK
<1>11. Uncrossed'
  <2>1. "BUY" \in Sides /\ "SELL" \in Sides
    BY DEF Sides
  <2> QED BY <1>5, <1>6, <2>1 DEF BookInv, Uncrossed
<1> QED BY <1>8, <1>9, <1>10, <1>11 DEF BookInv

(* A resting order is known to orders_, so it is not the incoming one.     *)
LEMMA RestingFacts ==
  ASSUME BookInv, NEW s \in Symbols, NEW side \in Sides,
         NEW r \in resting[s][side]
  PROVE  /\ r \in Ids /\ r \in orders[s]
         /\ order[r].symbol = s /\ order[r].side = side
         /\ calls # <<>> => r # Top.incoming
<1>1. r \in Ids /\ order[r].symbol = s /\ order[r].side = side
  BY DEF BookInv, LimitInv, TypeInv, TypeOK, Filed
<1>2. r \in orders[s]
  BY DEF BookInv, Indexed, Book, Sides
<1> QED BY <1>1, <1>2 DEF BookInv, IncomingIsOut

(* An execution takes the resting order out of its set, and no other.      *)
LEMMA TradeTakesOut ==
  ASSUME MaxDepth = 1, BookInv, NEW r \in Ids, ExecuteTrade(r)
  PROVE  /\ calls # <<>> /\ Top.incoming \in Ids /\ Top.matched = NoOrder
         /\ calls' # <<>> /\ Top'.incoming = Top.incoming /\ Top'.matched = r
         /\ order[r].symbol \in Symbols /\ order[r].side \in Sides
         /\ r \in resting[order[r].symbol][order[r].side] /\ r # NoOrder
         /\ \A s \in Symbols, d \in Sides : resting'[s][d] = resting[s][d] \ {r}
         /\ UNCHANGED <<orders, cancelled>>
<1> DEFINE i == Top.incoming
           f == [Top EXCEPT !.matched = r]
           symbol == order[r].symbol
           other == order[r].side
<1>1. TypeInv /\ LimitInv
  BY DEF BookInv, LimitInv
<1>2. calls # <<>> /\ Top \in Frame /\ i \in Ids /\ Top.matched = NoOrder
  BY <1>1, TopFrame DEF ExecuteTrade, Matches
<1>3. /\ symbol = order[i].symbol /\ other = Opposite(order[i].side)
      /\ r \in resting[symbol][other]
      /\ symbol \in Symbols /\ other \in Sides
  BY <1>1, MatchedOrder, PlacedOrder
<1>4. /\ resting' = [resting EXCEPT ![symbol][other] = @ \ {r}]
      /\ calls' = <<f>> \o Tail(calls) /\ UNCHANGED <<orders, cancelled>>
  BY <1>3 DEF ExecuteTrade, Trade, SetTop
<1>5. r \in Nat \ {0} /\ calls \in Seq(Frame) /\ Len(calls) \in Nat \ {0}
  BY <1>1, <1>2, EmptySeq DEF Ids, TypeInv, TypeOK
<1>6. f \in Frame /\ f.incoming = i /\ f.matched = r
  BY <1>2, <1>5 DEF Frame
<1> HIDE DEF f
<1>7. calls' # <<>> /\ Top' = f
  <2>1. calls' \in Seq(Frame) /\ Len(calls') = Len(calls) /\ calls'[1] = f
    BY <1>2, <1>4, <1>5, <1>6, ReplacedFrame
  <2> QED BY <1>5, <2>1, EmptySeq DEF Top
<1>8. \A s \in Symbols, d \in Sides :
         resting'[s][d] = resting[s][d] \ {r}
  <2>1. \A s \in Symbols, d \in Sides :
          r \in resting[s][d] => s = symbol /\ d = other
    BY <1>1 DEF LimitInv, Filed
  <2> QED BY <1>1, <1>3, <1>4, <2>1 DEF TypeInv, TypeOK
<1> QED BY <1>2, <1>3, <1>4, <1>5, <1>6, <1>7, <1>8 DEF NoOrder

LEMMA TradeKeepsBookInv ==
  ASSUME MaxDepth = 1, BookInv, LimitInv', NEW r \in Ids, ExecuteTrade(r)
  PROVE  BookInv'
<1> DEFINE i == Top.incoming
           symbol == order[r].symbol
           other == order[r].side
<1>1. TypeInv /\ LimitInv
  BY DEF BookInv, LimitInv
<1>2. /\ calls # <<>> /\ i \in Ids /\ Top.matched = NoOrder
      /\ calls' # <<>> /\ Top'.incoming = i /\ Top'.matched = r
      /\ symbol \in Symbols /\ other \in Sides
      /\ r \in resting[symbol][other] /\ r # NoOrder
      /\ UNCHANGED <<orders, cancelled>>
  BY TradeTakesOut
<1>3. Taken = {} /\ Taken' = {r}
  BY <1>2 DEF Taken
<1>4. \A k \in Ids : /\ order'[k].symbol = order[k].symbol
                     /\ order'[k].side = order[k].side
                     /\ order'[k].price = order[k].price
                     /\ k \notin {r, i} => order'[k] = order[k]
  BY <1>1, TradedOrders
<1>5. \A s \in Symbols, d \in Sides :
         resting'[s][d] = resting[s][d] \ {r}
  BY TradeTakesOut
<1>6. \A s \in Symbols, d \in Sides :
         Book(s, d)' = Book(s, d) /\ Book(s, d) \subseteq Ids
  <2>1. ASSUME NEW s \in Symbols, NEW d \in Sides
        PROVE  Book(s, d)' = Book(s, d) /\ Book(s, d) \subseteq Ids
    <3>1. Book(s, d) = resting[s][d] /\ resting[s][d] \subseteq Ids
      BY <1>1, <1>3 DEF Book, TypeInv, TypeOK
    <3>2. Book(s, d)' = (resting[s][d] \ {r}) \cup
                          {q \in {r} : s = symbol /\ d = other}
      BY <1>3, <1>4, <1>5 DEF Book
    <3>3. r \in resting[s][d] <=> s = symbol /\ d = other
      BY <1>1, <1>2 DEF LimitInv, Filed
    <3> QED BY <3>1, <3>2, <3>3
  <2> QED BY <2>1
<1>7. Indexed' /\ CancelledIsOut' /\ TakenIsOut'
  BY <1>2, <1>3, <1>5, <1>6 DEF BookInv, Indexed, CancelledIsOut, TakenIsOut,
     Sides
<1>8. NoneFilled'
  <2>1. ASSUME NEW s \in Symbols, NEW d \in Sides, NEW q \in resting'[s][d]
        PROVE  order'[q] = order[q] /\ q \in resting[s][d]
    BY <1>2, <1>4, <1>5, RestingFacts
  <2> QED BY <2>1 DEF BookInv, NoneFilled, IsFilled
<1>9. IncomingIsOut'
  BY <1>2 DEF BookInv, IncomingIsOut
<1>10. Uncrossed'
  <2>1. "BUY" \in Sides /\ "SELL" \in Sides
    BY DEF Sides
  <2> QED BY <1>4, <1>6, <2>1 DEF BookInv, Uncrossed
<1> QED BY <1>7, <1>8, <1>9, <1>10 DEF BookInv

(* When the notifier returns, the order goes back or is dropped.           *)
PutBack(r) ==
  \/ /\ ~IsFilled(r)
     /\ resting' = [resting EXCEPT ![order[r].symbol][order[r].side] = @ \cup {r}]
     /\ orders' = orders
  \/ /\ IsFilled(r)
     /\ orders' = [orders EXCEPT ![order[r].symbol] = @ \ {r}]
     /\ resting' = resting

LEMMA ReturnPutsBack ==
  ASSUME MaxDepth = 1, BookInv, NotifierReturns
  PROVE  /\ calls # <<>> /\ Top.incoming \in Ids
         /\ Top.matched \in Ids /\ Top.matched # NoOrder
         /\ calls' # <<>> /\ Top'.incoming = Top.incoming /\ Top'.matched = NoOrder
         /\ order[Top.matched].symbol \in Symbols
         /\ order[Top.matched].side \in Sides
         /\ UNCHANGED <<order, cancelled>>
         /\ PutBack(Top.matched)
<1> DEFINE i == Top.incoming
           r == Top.matched
           f == [Top EXCEPT !.matched = NoOrder]
           symbol == order[r].symbol
           other == order[r].side
<1>1. TypeInv /\ LimitInv
  BY DEF BookInv, LimitInv
<1>2. calls # <<>> /\ Top \in Frame /\ Top = calls[1] /\ i \in Ids /\ r \in Ids
        /\ r # NoOrder /\ calls \in Seq(Frame) /\ Len(calls) \in Nat \ {0}
  BY <1>1, TopFrame DEF NotifierReturns, TypeInv, TypeOK
<1>3. /\ symbol = order[i].symbol /\ other = Opposite(order[i].side)
      /\ symbol \in Symbols /\ other \in Sides
  BY <1>1, <1>2, PlacedOrder DEF LimitInv, TakenFromOtherSide
<1>4. /\ calls' = <<f>> \o Tail(calls) /\ UNCHANGED <<order, cancelled>>
      /\ \/ /\ ~IsFilled(r)
            /\ resting' = [resting EXCEPT ![symbol][other] = @ \cup {r}]
            /\ orders' = orders
         \/ /\ IsFilled(r)
            /\ orders' = [orders EXCEPT ![symbol] = @ \ {r}]
            /\ resting' = resting
  BY <1>3 DEF NotifierReturns, SetTop
<1>5. f \in Frame /\ f.incoming = i /\ f.matched = NoOrder
  BY <1>2 DEF Frame, NoOrder
<1> HIDE DEF f
<1>6. calls' # <<>> /\ Top' = f
  <2> DEFINE c == <<f>> \o Tail(calls)
  <2>1. c \in Seq(Frame) /\ Len(c) = Len(calls) /\ c[1] = f
    BY <1>2, <1>5, ReplacedFrame
  <2>2. calls' = c
    BY <1>4
  <2> HIDE DEF c
  <2> QED BY <1>2, <2>1, <2>2, EmptySeq DEF Top
<1>7. PutBack(r)
  BY <1>4 DEF PutBack
<1>8. /\ calls' # <<>> /\ Top'.incoming = i /\ Top'.matched = NoOrder
      /\ UNCHANGED <<order, cancelled>>
  BY <1>4, <1>5, <1>6
<1> QED BY <1>2, <1>3, <1>7, <1>8

LEMMA ReturnKeepsBookInv ==
  ASSUME MaxDepth = 1, BookInv, LimitInv', NotifierReturns
  PROVE  BookInv'
<1> DEFINE i == Top.incoming
           r == Top.matched
           symbol == order[r].symbol
           other == order[r].side
<1>1. TypeInv /\ LimitInv
  BY DEF BookInv, LimitInv
<1>2. /\ calls # <<>> /\ i \in Ids /\ r \in Ids /\ r # NoOrder
      /\ calls' # <<>> /\ Top'.incoming = i /\ Top'.matched = NoOrder
  BY ReturnPutsBack
<1>3. symbol \in Symbols /\ other \in Sides
  BY ReturnPutsBack
<1>4. /\ UNCHANGED <<order, cancelled>>
      /\ \/ /\ ~IsFilled(r)
            /\ resting' = [resting EXCEPT ![symbol][other] = @ \cup {r}]
            /\ orders' = orders
         \/ /\ orders' = [orders EXCEPT ![symbol] = @ \ {r}]
            /\ resting' = resting
  BY ReturnPutsBack DEF PutBack
<1>5. Taken = {r} /\ Taken' = {}
  BY <1>2 DEF Taken
<1>6. \A s \in Symbols, d \in Sides :
        /\ Book(s, d) = resting[s][d] \cup {q \in {r} : s = symbol /\ d = other}
        /\ Book(s, d)' = resting'[s][d]
        /\ r \notin resting[s][d]
  BY <1>4, <1>5 DEF Book, BookInv, TakenIsOut
<1> HIDE DEF i, r, symbol, other
<1>7. \A s \in Symbols, d \in Sides : Book(s, d)' \subseteq Book(s, d)
  BY <1>1, <1>3, <1>4, <1>6 DEF TypeInv, TypeOK
<1>8. Indexed'
  <2>1. "BUY" \in Sides /\ "SELL" \in Sides
          /\ (other = "BUY" \/ other = "SELL")
    BY <1>3 DEF Sides
  <2>2. CASE resting' = [resting EXCEPT ![symbol][other] = @ \cup {r}]
               /\ orders' = orders
    <3>1. \A s \in Symbols, d \in Sides : Book(s, d)' = Book(s, d)
      <4>1. \A s \in Symbols, d \in Sides :
              resting'[s][d] = IF s = symbol /\ d = other
                               THEN resting[s][d] \cup {r} ELSE resting[s][d]
        BY <1>1, <1>3, <2>2 DEF TypeInv, TypeOK
      <4>2. ASSUME NEW s \in Symbols, NEW d \in Sides
            PROVE  Book(s, d)' = Book(s, d)
        <5>1. CASE s = symbol /\ d = other
          <6>1. Book(s, d) = resting[s][d] \cup {r}
            BY <1>6, <5>1
          <6>2. Book(s, d)' = resting[s][d] \cup {r}
            BY <1>6, <4>1, <5>1
          <6> QED BY <6>1, <6>2
        <5>2. CASE ~(s = symbol /\ d = other)
          <6>1. Book(s, d) = resting[s][d]
            BY <1>6, <5>2
          <6>2. Book(s, d)' = resting[s][d]
            BY <1>6, <4>1, <5>2
          <6> QED BY <6>1, <6>2
        <5> QED BY <5>1, <5>2
      <4> QED BY <4>2
    <3> QED BY <2>1, <2>2, <3>1 DEF BookInv, Indexed
  <2>3. CASE orders' = [orders EXCEPT ![symbol] = @ \ {r}] /\ resting' = resting
    <3>1. \A s \in Symbols, d \in Sides : Book(s, d)' = Book(s, d) \ {r}
      BY <1>6, <2>3
    <3>2. \A s \in Symbols : orders'[s] = orders[s] \ {r}
      <4>1. \A s \in Symbols \ {symbol} : r \notin Book(s, "BUY") \cup Book(s, "SELL")
        BY <1>6, <2>1
      <4> QED BY <1>1, <1>3, <2>3, <4>1 DEF BookInv, Indexed, TypeInv, TypeOK
    <3> QED BY <2>1, <3>1, <3>2 DEF BookInv, Indexed
  <2> QED BY <1>4, <2>2, <2>3
<1>9. NoneFilled'
  <2>1. ASSUME NEW s \in Symbols, NEW d \in Sides, NEW q \in resting'[s][d]
        PROVE  q \in resting[s][d] \/ (q = r /\ ~IsFilled(r))
    BY <1>1, <1>3, <1>4, <2>1 DEF TypeInv, TypeOK
  <2> QED BY <1>4, <2>1 DEF BookInv, NoneFilled, IsFilled
<1>10. \A s \in Symbols : orders'[s] \subseteq orders[s]
  BY <1>1, <1>4 DEF TypeInv, TypeOK
<1>11. TakenIsOut' /\ CancelledIsOut' /\ IncomingIsOut'
  BY <1>2, <1>4, <1>5, <1>10 DEF i, TakenIsOut, BookInv,
     CancelledIsOut, IncomingIsOut
<1>12. Uncrossed'
  <2>1. "BUY" \in Sides /\ "SELL" \in Sides
    BY DEF Sides
  <2> QED BY <1>4, <1>7, <2>1 DEF BookInv, Uncrossed
<1> QED BY <1>8, <1>9, <1>11, <1>12 DEF BookInv

(* The loop stops at the best order of the other side, or when there is    *)
(* none: then none of that side is within the incoming order's limit.      *)
LEMMA LoopStopsAtLast ==
  ASSUME TypeInv, FinishMatch, ~IsFilled(Top.incoming),
         NEW q \in resting[order[Top.incoming].symbol]
                          [Opposite(order[Top.incoming].side)]
  PROVE  /\ q \in Ids /\ order[q].price \in Int
         /\ order[Top.incoming].side = "BUY"
              => order[Top.incoming].price < order[q].price
         /\ order[Top.incoming].side = "SELL"
              => order[q].price < order[Top.incoming].price
<1> DEFINE i == Top.incoming
           symbol == order[i].symbol
           side == order[i].side
<1>1. /\ i \in Ids /\ symbol \in Symbols /\ side \in Sides
      /\ Opposite(side) \in Sides /\ order[i].price \in Int
  BY TopFrame, PlacedOrder DEF FinishMatch
<1>2. \A r \in First(symbol, Opposite(side)) : ~Marketable(i, r)
  BY DEF FinishMatch
<1>3. PICK m \in resting[symbol][Opposite(side)] : m \in First(symbol, Opposite(side))
  BY <1>1, BestExists
<1>4. /\ Opposite(side) = "BUY" => order[q].price <= order[m].price
      /\ Opposite(side) = "SELL" => order[m].price <= order[q].price
  BY <1>1, <1>3, FirstHasBestPrice
<1>5. /\ q \in Ids /\ order[q].price \in Int
      /\ m \in Ids /\ order[m].price \in Int
  BY <1>1, <1>3, PlacedOrder DEF TypeInv, TypeOK
<1>6. ~Marketable(i, m)
  BY <1>2, <1>3
<1> QED BY <1>1, <1>4, <1>5, <1>6 DEF Marketable, Opposite, Sides

LEMMA FinishKeepsBookInv ==
  ASSUME MaxDepth = 1, BookInv, LimitInv', FinishMatch
  PROVE  BookInv'
<1> DEFINE i == Top.incoming
           symbol == order[i].symbol
           side == order[i].side
<1>1. TypeInv /\ LimitInv /\ "BUY" \in Sides /\ "SELL" \in Sides
  BY DEF BookInv, LimitInv, Sides
<1>2. calls # <<>> /\ Top.matched = NoOrder /\ i \in Ids
  BY <1>1, TopFrame DEF FinishMatch
<1>3. calls' = <<>> /\ UNCHANGED <<order, cancelled>>
  BY <1>1, <1>2, OneCall DEF FinishMatch
<1>4. Taken = {} /\ Taken' = {}
  BY <1>2, <1>3 DEF Taken
<1>5. \A s \in Symbols, d \in Sides :
        Book(s, d) = resting[s][d] /\ Book(s, d)' = resting'[s][d]
  BY <1>4 DEF Book
<1>6. TakenIsOut' /\ IncomingIsOut'
  BY <1>3, <1>4 DEF TakenIsOut, IncomingIsOut
<1>7. CASE IsFilled(i)
  <2>1. UNCHANGED <<orders, resting>>
    BY <1>7 DEF FinishMatch
  <2>2. \A s \in Symbols, d \in Sides : Book(s, d)' = Book(s, d)
    BY <1>5, <2>1
  <2> QED
    BY <1>1, <1>3, <1>6, <2>1, <2>2 DEF BookInv, Indexed, NoneFilled,
       CancelledIsOut, Uncrossed, IsFilled
<1>8. CASE ~IsFilled(i)
  <2>1. /\ orders' = [orders EXCEPT ![symbol] = @ \cup {i}]
        /\ resting' = [resting EXCEPT ![symbol][side] = @ \cup {i}]
        /\ \A r \in First(symbol, Opposite(side)) : ~Marketable(i, r)
    BY <1>8 DEF FinishMatch
  <2>2. symbol \in Symbols /\ side \in Sides /\ Opposite(side) \in Sides
          /\ order[i].price \in Int
    BY <1>1, <1>2, PlacedOrder
  <2>3. \A s \in Symbols, d \in Sides :
          resting'[s][d] = IF s = symbol /\ d = side
                           THEN resting[s][d] \cup {i} ELSE resting[s][d]
    BY <1>1, <2>1, <2>2 DEF TypeInv, TypeOK
  <2>4. \A s \in Symbols :
          orders'[s] = IF s = symbol THEN orders[s] \cup {i} ELSE orders[s]
    BY <1>1, <2>1, <2>2 DEF TypeInv, TypeOK
  <2>5. Indexed'
    <3> HIDE DEF i, symbol, side
    <3>1. side = "BUY" \/ side = "SELL"
      BY <2>2 DEF Sides
    <3>2. ASSUME NEW s \in Symbols
          PROVE  orders'[s] = Book(s, "BUY")' \cup Book(s, "SELL")'
      <4>1. orders[s] = resting[s]["BUY"] \cup resting[s]["SELL"]
        BY <1>1, <1>5 DEF BookInv, Indexed
      <4>2. Book(s, "BUY")' = resting'[s]["BUY"]
              /\ Book(s, "SELL")' = resting'[s]["SELL"]
        BY <1>1, <1>5
      <4>3. CASE s = symbol
        <5> DEFINE bids == resting[s]["BUY"]
                   asks == resting[s]["SELL"]
        <5>3. orders'[s] = (bids \cup asks) \cup {i}
          BY <2>4, <4>1, <4>3
        <5>1. CASE side = "BUY"
          <6>1. /\ resting'[s]["BUY"] = resting[s]["BUY"] \cup {i}
                /\ resting'[s]["SELL"] = resting[s]["SELL"]
            BY <1>1, <2>3, <4>3, <5>1
          <6>2. Book(s, "BUY")' = bids \cup {i} /\ Book(s, "SELL")' = asks
            BY <4>2, <6>1
          <6> HIDE DEF bids, asks
          <6> QED BY <5>3, <6>2
        <5>2. CASE side = "SELL"
          <6>1. /\ resting'[s]["BUY"] = resting[s]["BUY"]
                /\ resting'[s]["SELL"] = resting[s]["SELL"] \cup {i}
            BY <1>1, <2>3, <4>3, <5>2
          <6>2. Book(s, "BUY")' = bids /\ Book(s, "SELL")' = asks \cup {i}
            BY <4>2, <6>1
          <6> HIDE DEF bids, asks
          <6> QED BY <5>3, <6>2
        <5> QED BY <3>1, <5>1, <5>2
      <4>4. CASE s # symbol
        BY <1>1, <2>3, <2>4, <4>1, <4>2, <4>4
      <4> QED BY <4>3, <4>4
    <3> QED BY <3>2 DEF Indexed
  <2>6. NoneFilled'
    <3> HIDE DEF i, symbol, side
    <3>1. ASSUME NEW s \in Symbols, NEW d \in Sides, NEW r \in resting'[s][d]
          PROVE  ~IsFilled(r)
      <4>1. CASE r \in resting[s][d]
        BY <4>1 DEF BookInv, NoneFilled
      <4>2. CASE r \notin resting[s][d]
        <5>1. r = i
          BY <2>3, <3>1, <4>2
        <5> QED BY <1>8, <5>1
      <4> QED BY <4>1, <4>2
    <3> QED BY <1>3, <3>1 DEF NoneFilled, IsFilled
  <2>7. CancelledIsOut'
    BY <1>2, <1>3, <2>4 DEF BookInv, CancelledIsOut, IncomingIsOut
  <2>8. \A q \in resting[symbol][Opposite(side)] :
          /\ q \in Ids /\ order[q].price \in Int
          /\ side = "BUY" => order[i].price < order[q].price
          /\ side = "SELL" => order[q].price < order[i].price
    BY <1>1, <1>2, <1>8, LoopStopsAtLast
  <2>9. Uncrossed'
    <3> HIDE DEF i, symbol, side
    <3>1. ASSUME NEW s \in Symbols, NEW b \in resting'[s]["BUY"],
                 NEW a \in resting'[s]["SELL"]
          PROVE  order[b].price < order[a].price
      <4>1. CASE b \in resting[s]["BUY"] /\ a \in resting[s]["SELL"]
        BY <1>1, <1>5, <4>1 DEF BookInv, Uncrossed
      <4>2. CASE b \notin resting[s]["BUY"]
        <5>1. s = symbol /\ side = "BUY" /\ b = i
          BY <1>1, <2>3, <3>1, <4>2
        <5>2. a \in resting[symbol][Opposite(side)]
          BY <1>1, <2>3, <3>1, <5>1 DEF Opposite
        <5> QED BY <2>8, <5>1, <5>2
      <4>3. CASE a \notin resting[s]["SELL"]
        <5>1. s = symbol /\ side = "SELL" /\ a = i
          BY <1>1, <2>3, <3>1, <4>3
        <5>2. b \in resting[symbol][Opposite(side)]
          BY <1>1, <2>3, <3>1, <5>1 DEF Opposite
        <5> QED BY <2>8, <5>1, <5>2
      <4> QED BY <4>1, <4>2, <4>3
    <3> QED BY <1>1, <1>3, <1>5, <3>1 DEF Uncrossed
  <2> QED BY <1>6, <2>5, <2>6, <2>7, <2>9 DEF BookInv
<1> QED BY <1>7, <1>8

LEMMA CancelKeepsBookInv ==
  ASSUME MaxDepth = 1, BookInv, LimitInv', NEW id \in Ids, CancelOrder(id)
  PROVE  BookInv'
<1> DEFINE symbol == order[id].symbol
           side == order[id].side
<1>1. TypeInv /\ LimitInv /\ "BUY" \in Sides /\ "SELL" \in Sides
  BY DEF BookInv, LimitInv, Sides
<1>2. calls = <<>> /\ calls' = <<>> /\ order' = order
        /\ cancelled' = cancelled \cup {id}
  BY <1>1, OneCall DEF CancelOrder
<1>3. Taken = {} /\ Taken' = {}
  BY <1>2 DEF Taken
<1>4. \A s \in Symbols, d \in Sides :
        Book(s, d) = resting[s][d] /\ Book(s, d)' = resting'[s][d]
  BY <1>3 DEF Book
<1>5. \A s \in Symbols : id \in orders[s] => s = symbol
  <2>1. ASSUME NEW s \in Symbols, id \in orders[s] PROVE s = symbol
    <3>1. id \in resting[s]["BUY"] \cup resting[s]["SELL"]
      BY <1>1, <1>4, <2>1 DEF BookInv, Indexed
    <3> QED BY <1>1, <3>1 DEF LimitInv, Filed
  <2> QED BY <2>1
<1>6. /\ symbol \in Symbols /\ side \in Sides
      /\ orders' = [orders EXCEPT ![symbol] = @ \ {id}]
      /\ resting' = [resting EXCEPT ![symbol][side] = @ \ {id}]
  <2>1. PICK s \in orderBooks :
               /\ id \in orders[s]
               /\ orders' = [orders EXCEPT ![s] = @ \ {id}]
               /\ resting' = [resting EXCEPT ![s][side] = @ \ {id}]
    BY DEF CancelOrder
  <2>2. s = symbol
    BY <1>1, <1>5, <2>1 DEF TypeInv, TypeOK
  <2> QED BY <1>1, <2>1, <2>2, PlacedOrder
<1>7. \A s \in Symbols : orders'[s] = orders[s] \ {id}
  BY <1>1, <1>5, <1>6 DEF TypeInv, TypeOK
<1>8. \A s \in Symbols, d \in Sides : resting'[s][d] = resting[s][d] \ {id}
  <2>1. \A s \in Symbols, d \in Sides :
          id \in resting[s][d] => s = symbol /\ d = side
    BY <1>1 DEF LimitInv, Filed
  <2> HIDE DEF symbol, side
  <2> QED BY <1>1, <1>6, <2>1 DEF TypeInv, TypeOK
<1>9. Indexed'
  BY <1>1, <1>4, <1>7, <1>8 DEF BookInv, Indexed
<1>10. NoneFilled' /\ TakenIsOut' /\ IncomingIsOut'
  BY <1>2, <1>3, <1>8 DEF BookInv, NoneFilled, IsFilled, TakenIsOut,
     IncomingIsOut
<1>11. CancelledIsOut'
  BY <1>2, <1>7 DEF BookInv, CancelledIsOut
<1>12. Uncrossed'
  BY <1>1, <1>2, <1>4, <1>8 DEF BookInv, Uncrossed
<1> QED BY <1>9, <1>10, <1>11, <1>12 DEF BookInv

LEMMA NextBookInv ==
  ASSUME MaxDepth = 1
  PROVE  BookInv /\ [Next]_vars => BookInv'
<1> SUFFICES ASSUME BookInv, [Next]_vars PROVE BookInv'
  OBVIOUS
<1>1. LimitInv'
  BY NextLimitInv DEF BookInv
<1>2. ASSUME UNCHANGED <<order, orders, resting, calls, cancelled>>
      PROVE  BookInv'
  <2>1. Taken' = Taken /\ \A s, d : Book(s, d)' = Book(s, d)
    BY <1>2 DEF Taken, Book, Top
  <2> QED
    BY <1>1, <1>2, <2>1 DEF BookInv, Indexed, NoneFilled, IsFilled, TakenIsOut,
       IncomingIsOut, CancelledIsOut, Uncrossed, Top
<1> QED
  BY <1>1, <1>2, PlaceKeepsBookInv, TradeKeepsBookInv, ReturnKeepsBookInv,
     FinishKeepsBookInv, CancelKeepsBookInv
  DEF Next, ClientCall, EngineStep, SetTradeNotifier, GetMarketData, vars

LEMMA BooksInvariant ==
  ASSUME MaxDepth = 1
  PROVE  Spec => []BookInv
BY InitBookInv, NextBookInv, PTL DEF Spec

(* As long as the notifier only observes, no two orders left in a book     *)
(* could trade with each other, whatever sizes are placed.                 *)
THEOREM NeverCrossed ==
  ASSUME MaxDepth = 1
  PROVE  Spec => []NoCrossedBook
<1>1. BookInv => NoCrossedBook
  <2> SUFFICES ASSUME BookInv, NEW s \in Symbols, NEW bid \in BestPrices(s, "BUY"),
                      NEW ask \in BestPrices(s, "SELL")
               PROVE  bid < ask
    BY DEF NoCrossedBook
  <2>1. PICK b \in resting[s]["BUY"] : bid = order[b].price
    BY DEF BestPrices, First
  <2>2. PICK a \in resting[s]["SELL"] : ask = order[a].price
    BY DEF BestPrices, First
  <2> QED BY <2>1, <2>2 DEF BookInv, Uncrossed, Book
<1> QED BY <1>1, BooksInvariant, PTL

(* Nor do the two containers of a book ever disagree between calls.        *)
THEOREM BooksAreConsistent ==
  ASSUME MaxDepth = 1
  PROVE  Spec => []BookConsistent
<1>1. BookInv => BookConsistent
  <2> SUFFICES ASSUME BookInv, calls = <<>>, NEW s \in Symbols
               PROVE  /\ orders[s] = resting[s]["BUY"] \cup resting[s]["SELL"]
                      /\ \A side \in Sides : \A r \in resting[s][side] :
                           order[r].symbol = s /\ order[r].side = side
                             /\ ~IsFilled(r)
    BY DEF BookConsistent
  <2>1. \A side \in Sides : Book(s, side) = resting[s][side]
    BY DEF Book, Taken
  <2> QED BY <2>1 DEF BookInv, Indexed, LimitInv, Filed, NoneFilled, Sides
<1> QED BY <1>1, BooksInvariant, PTL

(* And a cancelled order never comes back, not even for a moment.          *)
THEOREM CancelledForGood ==
  ASSUME MaxDepth = 1
  PROVE  Spec => []CancelledStaysOut
<1>1. BookInv => CancelledStaysOut
  BY RestingFacts DEF BookInv, CancelledIsOut, CancelledStaysOut
<1> QED BY <1>1, BooksInvariant, PTL
-----------------------------------------------------------------------------
(* The closed formula of PriceTimePriority, taken apart: the part of its   *)
(* quantity that k gives is what those ahead of it leave of left[i].       *)
Served(ords, book, i, k) == {q \in Eligible(ords, book, i) : Ahead(ords, q, k)}
Left(ords, left, book, i, k) ==
  IF k = i THEN left[i] - Clamp(left[i], 0, Sum(left, Eligible(ords, book, i)))
  ELSE IF k \in Eligible(ords, book, i)
       THEN left[k] - Clamp(left[i] - Sum(left, Served(ords, book, i, k)),
                            0, left[k])
  ELSE left[k]

LEMMA LeftAfterIs ==
  ASSUME NEW ords, NEW left, NEW book, NEW i
  PROVE  LeftAfter(ords, left, book, i)
           = [k \in DOMAIN left |-> Left(ords, left, book, i, k)]
BY Zenon DEF LeftAfter, Left, Served, Sum

LEMMA SameFormula ==
  ASSUME NEW ords, NEW left, NEW book, NEW i
  PROVE  /\ Abstract!LeftAfter(ords, left, book, i) = LeftAfter(ords, left, book, i)
         /\ Abstract!BookAfter(ords, left, book, i) = BookAfter(ords, left, book, i)
<1>1. ASSUME NEW S
      PROVE  Abstract!MapThenSumSet(LAMBDA q : left[q], S) = Sum(left, S)
  BY Zenon DEF Sum, MapThenSumSet, MapThenFoldSet, Abstract!MapThenSumSet,
     Abstract!MapThenFoldSet
<1>2. Abstract!Eligible(ords, book, i) = Eligible(ords, book, i)
  BY DEF Eligible, Abstract!Eligible
<1>3. \A q, r : Abstract!Ahead(ords, q, r) = Ahead(ords, q, r)
  BY DEF Ahead, Abstract!Ahead
<1>4. \A n, a, b : Abstract!Clamp(n, a, b) = Clamp(n, a, b)
  BY DEF Clamp, Abstract!Clamp
<1>5. Abstract!LeftAfter(ords, left, book, i)
        = [k \in DOMAIN left |-> Left(ords, left, book, i, k)]
  BY <1>1, <1>2, <1>3, <1>4, Zenon DEF Abstract!LeftAfter, Left, Served, Sum
<1>6. Abstract!LeftAfter(ords, left, book, i) = LeftAfter(ords, left, book, i)
  BY <1>5, LeftAfterIs
<1> QED BY <1>6 DEF BookAfter, Abstract!BookAfter

(* An order does not queue for itself, and what queues is worth something. *)
LEMMA QueueFacts ==
  ASSUME NEW D, IsFiniteSet(D), NEW left \in [D -> Nat], NEW ords,
         NEW book \in SUBSET D, NEW i, NEW k
  PROVE  /\ Eligible(ords, book, i) \subseteq book /\ i \notin Eligible(ords, book, i)
         /\ Served(ords, book, i, k) \subseteq Eligible(ords, book, i)
         /\ Numbers(left, Eligible(ords, book, i))
         /\ Numbers(left, Served(ords, book, i, k))
         /\ Sum(left, Eligible(ords, book, i)) \in Nat
         /\ Sum(left, Served(ords, book, i, k)) \in Nat
<1>1. PICK Q, S : Q = Eligible(ords, book, i) /\ S = Served(ords, book, i, k)
  OBVIOUS
<1>2. Q \subseteq book /\ i \notin Q /\ S \subseteq Q
  BY <1>1 DEF Eligible, Served
<1>3. IsFiniteSet(Q) /\ IsFiniteSet(S)
  BY <1>2, FS_Subset
<1>4. /\ \A x \in Q : left[x] \in Nat /\ left[x] \in Int
      /\ \A x \in S : left[x] \in Nat /\ left[x] \in Int
  BY <1>2
<1>5. Sum(left, Q) \in Nat /\ Sum(left, S) \in Nat
  BY <1>3, <1>4, SumOfNats
<1>6. Numbers(left, Q) /\ Numbers(left, S)
  BY <1>3, <1>4 DEF Numbers
<1> QED BY <1>1, <1>2, <1>5, <1>6

(* Matching is over when the incoming order has nothing left or no order   *)
(* is in its way.                                                          *)
LEMMA NothingToMatch ==
  ASSUME NEW D, IsFiniteSet(D), NEW left \in [D -> Nat], NEW ords,
         NEW book \in SUBSET D, NEW i \in D,
         left[i] = 0 \/ Eligible(ords, book, i) = {}
  PROVE  LeftAfter(ords, left, book, i) = left
<1>1. ASSUME NEW k \in D PROVE Left(ords, left, book, i, k) = left[k]
  <2>1. PICK T, S : /\ T = Sum(left, Eligible(ords, book, i))
                    /\ S = Sum(left, Served(ords, book, i, k))
    OBVIOUS
  <2>2. T \in Nat /\ S \in Nat /\ left[i] \in Nat /\ left[k] \in Nat
    BY <2>1, QueueFacts
  <2>3. CASE k = i
    <3>1. Left(ords, left, book, i, k) = left[i] - Clamp(left[i], 0, T)
      BY <2>1, <2>3 DEF Left
    <3>2. left[i] = 0 \/ T = 0
      BY <2>1, SumOfNone
    <3> QED BY <2>2, <2>3, <3>1, <3>2 DEF Clamp
  <2>4. CASE k # i /\ k \in Eligible(ords, book, i)
    <3>1. Left(ords, left, book, i, k) = left[k] - Clamp(left[i] - S, 0, left[k])
      BY <2>1, <2>4 DEF Left
    <3>2. left[i] = 0
      BY <2>4
    <3> QED BY <2>2, <3>1, <3>2 DEF Clamp
  <2>5. CASE k # i /\ k \notin Eligible(ords, book, i)
    BY <2>5 DEF Left
  <2> QED BY <2>3, <2>4, <2>5
<1>2. LeftAfter(ords, left, book, i) = [k \in D |-> Left(ords, left, book, i, k)]
  BY LeftAfterIs
<1> QED BY <1>1, <1>2

(* One trade with the order that is first in the queue does not change     *)
(* where matching ends.                                                    *)
LEMMA TradeLeaves ==
  ASSUME NEW D, IsFiniteSet(D), NEW left \in [D -> Nat], NEW less \in [D -> Nat],
         NEW ords, NEW book \in SUBSET D, NEW i \in D,
         NEW r \in Eligible(ords, book, i), NEW q \in Nat,
         q = left[i] \/ q = left[r], q <= left[i], q <= left[r],
         less[i] = left[i] - q, less[r] = left[r] - q,
         \A k \in D \ {i, r} : less[k] = left[k],
         Served(ords, book, i, r) = {},
         \A k \in Eligible(ords, book, i) \ {r} : Ahead(ords, r, k)
  PROVE  LeftAfter(ords, less, book, i) = LeftAfter(ords, left, book, i)
<1>1. ASSUME NEW k \in D
      PROVE  Left(ords, less, book, i, k) = Left(ords, left, book, i, k)
  <2>1. PICK Q, S : Q = Eligible(ords, book, i) /\ S = Served(ords, book, i, k)
    OBVIOUS
  <2>2. /\ Numbers(left, Q) /\ Numbers(less, Q) /\ Numbers(left, S)
        /\ Numbers(less, S) /\ i \notin Q /\ Q \subseteq D /\ S \subseteq Q
        /\ Sum(left, Q) \in Nat /\ Sum(less, Q) \in Nat
        /\ Sum(left, S) \in Nat /\ Sum(less, S) \in Nat
    <3>1. /\ Numbers(left, Q) /\ Numbers(left, S) /\ i \notin Q
          /\ Q \subseteq book /\ S \subseteq Q
          /\ Sum(left, Q) \in Nat /\ Sum(left, S) \in Nat
      BY <2>1, QueueFacts, Zenon
    <3>2. /\ Numbers(less, Q) /\ Numbers(less, S)
          /\ Sum(less, Q) \in Nat /\ Sum(less, S) \in Nat
      BY <2>1, QueueFacts, Zenon
    <3> QED BY <3>1, <3>2
  <2>3. Sum(less, Q) = Sum(left, Q) - q
    <3>1. \A y \in Q \ {r} : less[y] = left[y]
      BY <2>2
    <3> QED BY <2>1, <2>2, <3>1, SumOfOneLess
  <2>4. left[i] \in Nat /\ left[k] \in Nat /\ left[r] \in Nat
    BY <2>1, <2>2
  <2>5. CASE k = i
    <3>1. PICK a, t : a = left[i] /\ t = Sum(left, Q)
      OBVIOUS
    <3>2. /\ Left(ords, left, book, i, k) = a - Clamp(a, 0, t)
          /\ Left(ords, less, book, i, k) = (a - q) - Clamp(a - q, 0, t - q)
      BY <2>1, <2>3, <2>5, <3>1 DEF Left
    <3>3. a \in Nat /\ t \in Nat /\ t - q \in Nat /\ q <= a
      BY <2>2, <2>3, <2>4, <3>1
    <3> QED BY <3>2, <3>3 DEF Clamp
  <2>6. CASE k = r
    <3>1. PICK a, b : a = left[i] /\ b = left[r]
      OBVIOUS
    <3>2. Sum(left, S) = 0 /\ Sum(less, S) = 0 /\ r # i
      BY <2>1, <2>2, <2>6, SumOfNone
    <3>3. /\ Left(ords, left, book, i, k) = b - Clamp(a - 0, 0, b)
          /\ Left(ords, less, book, i, k) = (b - q) - Clamp((a - q) - 0, 0, b - q)
      BY <2>1, <2>6, <3>1, <3>2 DEF Left
    <3>4. a \in Nat /\ b \in Nat /\ q <= a /\ q <= b /\ (q = a \/ q = b)
      BY <2>4, <3>1
    <3> QED BY <3>3, <3>4 DEF Clamp
  <2>7. CASE k \in Q \ {r}
    <3>1. PICK a, b, s : a = left[i] /\ b = left[k] /\ s = Sum(left, S)
      OBVIOUS
    <3>2. r \in S /\ \A y \in S \ {r} : less[y] = left[y]
      BY <2>1, <2>2, <2>7 DEF Served
    <3>3. Sum(less, S) = s - q
      BY <2>2, <3>1, <3>2, SumOfOneLess
    <3>4. k # i /\ less[k] = left[k]
      BY <2>2, <2>7
    <3>5. /\ Left(ords, left, book, i, k) = b - Clamp(a - s, 0, b)
          /\ Left(ords, less, book, i, k) = b - Clamp((a - q) - (s - q), 0, b)
      BY <2>1, <2>7, <3>1, <3>3, <3>4 DEF Left
    <3>6. a \in Nat /\ s \in Nat /\ (a - q) - (s - q) = a - s
      BY <2>2, <2>4, <3>1
    <3> QED BY <3>5, <3>6
  <2>8. CASE k # i /\ k \notin Q
    BY <2>1, <2>8 DEF Left
  <2> QED BY <2>5, <2>6, <2>7, <2>8
<1>2. /\ LeftAfter(ords, left, book, i) = [k \in D |-> Left(ords, left, book, i, k)]
      /\ LeftAfter(ords, less, book, i) = [k \in D |-> Left(ords, less, book, i, k)]
  BY LeftAfterIs
<1> QED BY <1>1, <1>2

(* An order with nothing left may as well not rest.                        *)
LEMMA EmptyOrderRemoved ==
  ASSUME NEW D, IsFiniteSet(D), NEW left \in [D -> Nat], NEW ords,
         NEW book \in SUBSET D, NEW i \in D, NEW r \in book \ {i}, left[r] = 0
  PROVE  /\ LeftAfter(ords, left, book \ {r}, i) = LeftAfter(ords, left, book, i)
         /\ BookAfter(ords, left, book \ {r}, i) = BookAfter(ords, left, book, i)
<1>1. ASSUME NEW S, IsFiniteSet(S), S \subseteq D
      PROVE  Sum(left, S \ {r}) = Sum(left, S)
  <2>1. CASE r \in S
    <3>1. PICK R : R = S \ {r}
      OBVIOUS
    <3>2. S = R \cup {r} /\ r \notin R /\ IsFiniteSet(R)
      BY <1>1, <2>1, <3>1, FS_Subset
    <3>3. Numbers(left, R \cup {r}) /\ Numbers(left, R)
      BY <1>1, <3>2 DEF Numbers
    <3>4. Sum(left, R \cup {r}) = left[r] + Sum(left, R)
      BY <3>2, <3>3, SumOfOneMore
    <3>5. Sum(left, R) \in Int
      BY <3>3, SumIsInt
    <3>6. Sum(left, R \cup {r}) = Sum(left, R)
      BY <3>4, <3>5
    <3> QED BY <3>1, <3>2, <3>6, Zenon
  <2>2. CASE r \notin S
    <3>1. S \ {r} = S
      BY <2>2
    <3> QED BY <3>1
  <2> QED BY <2>1, <2>2
<1>2. ASSUME NEW k \in D
      PROVE  Left(ords, left, book \ {r}, i, k) = Left(ords, left, book, i, k)
  <2>1. PICK Q, S : Q = Eligible(ords, book, i) /\ S = Served(ords, book, i, k)
    OBVIOUS
  <2>2. Q \subseteq D /\ S \subseteq D /\ IsFiniteSet(Q) /\ IsFiniteSet(S)
    <3>1. Q \subseteq book /\ S \subseteq Q /\ Numbers(left, Q) /\ Numbers(left, S)
      BY <2>1, QueueFacts, Zenon
    <3> QED BY <3>1 DEF Numbers
  <2>3. /\ Eligible(ords, book \ {r}, i) = Q \ {r}
        /\ Served(ords, book \ {r}, i, k) = S \ {r}
    BY <2>1 DEF Eligible, Served
  <2>4. Sum(left, Q \ {r}) = Sum(left, Q) /\ Sum(left, S \ {r}) = Sum(left, S)
    BY <1>1, <2>2
  <2>5. CASE k = i
    BY <2>1, <2>3, <2>4, <2>5 DEF Left
  <2>6. CASE k # i /\ k # r
    <3>1. k \in Q \ {r} <=> k \in Q
      BY <2>6
    <3> QED BY <2>1, <2>3, <2>4, <2>6, <3>1 DEF Left
  <2>7. CASE k # i /\ k = r
    <3>1. Left(ords, left, book \ {r}, i, k) = 0
      BY <2>3, <2>7 DEF Left
    <3>2. k \notin Q => Left(ords, left, book, i, k) = 0
      BY <2>1, <2>7 DEF Left
    <3>3. k \in Q => Left(ords, left, book, i, k) = 0
      <4>1. SUFFICES ASSUME k \in Q PROVE Left(ords, left, book, i, k) = 0
        OBVIOUS
      <4>2. Left(ords, left, book, i, k) = 0 - Clamp(left[i] - Sum(left, S), 0, 0)
        BY <2>1, <2>7, <4>1 DEF Left
      <4>3. left[i] - Sum(left, S) \in Int
        <5>1. Sum(left, S) \in Nat
          BY <2>1, QueueFacts, Zenon
        <5> QED BY <5>1
      <4> QED BY <4>2, <4>3 DEF Clamp
    <3> QED BY <3>1, <3>2, <3>3
  <2> QED BY <2>5, <2>6, <2>7
<1>3. LeftAfter(ords, left, book \ {r}, i) = LeftAfter(ords, left, book, i)
  <2>1. /\ LeftAfter(ords, left, book, i)
             = [k \in D |-> Left(ords, left, book, i, k)]
        /\ LeftAfter(ords, left, book \ {r}, i)
             = [k \in D |-> Left(ords, left, book \ {r}, i, k)]
    BY LeftAfterIs
  <2> QED BY <1>2, <2>1
<1>4. LeftAfter(ords, left, book, i)[r] = 0
  <2>1. Left(ords, left, book \ {r}, i, r) = 0
    BY DEF Left, Eligible
  <2> QED BY <1>2, <2>1, LeftAfterIs
<1> QED BY <1>3, <1>4 DEF BookAfter
-----------------------------------------------------------------------------
(* The state seen by the refinement: as many orders as the bound allows,   *)
(* none of which has a negative quantity left.                             *)
Quantities ==
  Len(order) <= MaxOrders /\ \A k \in Ids : order[k].remaining \in Nat
RefineInv == BookInv /\ Quantities

(* What rests, and the order that is out for the moment.                   *)
Whole == AllResting \cup TakenOut

LEMMA TradeReduces ==
  ASSUME TypeInv, NEW r \in Ids, ExecuteTrade(r)
  PROVE  /\ Top.incoming \in Ids /\ TradeSize(r) \in Int
         /\ \/ TradeSize(r) = order[Top.incoming].remaining
            \/ TradeSize(r) = order[r].remaining
         /\ \A k \in {r, Top.incoming} :
              /\ TradeSize(r) <= order[k].remaining
              /\ order'[k].remaining = order[k].remaining - TradeSize(r)
<1>1. Top.incoming \in Ids
  BY TopFrame DEF ExecuteTrade, Matches
<1>2. PICK a, b, q : /\ a = order[Top.incoming].remaining
                     /\ b = order[r].remaining /\ q = TradeSize(r)
  OBVIOUS
<1>3. a \in Int /\ b \in Int
  BY <1>1, <1>2, PlacedOrder
<1>4. q \in Int /\ q <= a /\ q <= b /\ (q = a \/ q = b)
  BY <1>2, <1>3 DEF TradeSize, Minimum
<1>5. ASSUME NEW k \in {r, Top.incoming}
      PROVE  order'[k].remaining = order[k].remaining - q
  <2>1. k \in Ids /\ order[k] \in Order
    BY <1>1, PlacedOrder
  <2>2. order'[k] = [order[k] EXCEPT !.remaining = Reduced(@, q)]
    BY <1>2, <2>1 DEF ExecuteTrade, Trade
  <2>3. Reduced(order[k].remaining, q) = order[k].remaining - q
    BY <1>2, <1>3, <1>4 DEF Reduced
  <2> QED BY <2>1, <2>2, <2>3 DEF Order
<1> QED BY <1>1, <1>2, <1>4, <1>5

LEMMA NextRefineInv ==
  ASSUME MaxDepth = 1, \A size \in Sizes : size > 0
  PROVE  RefineInv /\ [Next]_vars => RefineInv'
<1> SUFFICES ASSUME RefineInv, [Next]_vars PROVE Quantities'
  BY NextBookInv DEF RefineInv
<1>1. TypeInv /\ Quantities /\ Len(order) \in Nat /\ order \in Seq(Order)
  BY DEF RefineInv, BookInv, LimitInv, TypeInv, TypeOK
<1>2. ASSUME NEW symbol \in Symbols, NEW price \in Prices, NEW size \in Sizes,
             NEW side \in Sides, PlaceOrder(symbol, price, size, side)
      PROVE  Quantities'
  <2> DEFINE o == [symbol |-> symbol, price |-> price, size |-> size,
                   side |-> side, remaining |-> size]
  <2>1. order' = Append(order, o) /\ Len(order) < MaxOrders
    BY <1>2 DEF PlaceOrder
  <2>2. o.remaining \in Nat
    BY EngineConstants
  <2> HIDE DEF o
  <2>3. /\ Len(order') = Len(order) + 1 /\ order'[Len(order) + 1] = o
        /\ \A k \in 1 .. Len(order) : order'[k] = order[k]
    BY <1>1, <2>1
  <2>4. Len(order) + 1 <= MaxOrders
    BY <1>1, <2>1, EngineConstants
  <2>5. \A k \in 1 .. Len(order) + 1 : k \in 1 .. Len(order) \/ k = Len(order) + 1
    BY <1>1
  <2> QED BY <1>1, <2>2, <2>3, <2>4, <2>5 DEF Quantities, Ids
<1>3. ASSUME NEW r \in Ids, ExecuteTrade(r) PROVE Quantities'
  <2>1. Len(order') = Len(order)
          /\ \A k \in Ids \ {r, Top.incoming} : order'[k] = order[k]
    BY <1>1, <1>3, TradedOrders
  <2>2. ASSUME NEW k \in {r, Top.incoming} PROVE order'[k].remaining \in Nat
    <3>1. /\ TradeSize(r) \in Int /\ TradeSize(r) <= order[k].remaining
          /\ order'[k].remaining = order[k].remaining - TradeSize(r) /\ k \in Ids
      BY <1>1, <1>3, TradeReduces
    <3> QED BY <1>1, <3>1 DEF Quantities
  <2> QED BY <1>1, <2>1, <2>2 DEF Quantities, Ids
<1>4. ASSUME UNCHANGED order PROVE Quantities'
  BY <1>1, <1>4 DEF Quantities, Ids
<1> QED
  BY <1>2, <1>3, <1>4 DEF Next, ClientCall, EngineStep, SetTradeNotifier,
     GetMarketData, NotifierReturns, FinishMatch, CancelOrder, vars

(* The arguments of the closed formula in a state of the engine.           *)
LEMMA PredictionArguments ==
  ASSUME RefineInv
  PROVE  /\ Len(order) \in Nat /\ IsFiniteSet(Ids)
         /\ Remaining \in [Ids -> Nat] /\ AllResting \in SUBSET Ids
         /\ \A r \in AllResting : Remaining[r] > 0
         /\ calls # <<>> => /\ Whole \in SUBSET Ids /\ Top.incoming \in Ids
                            /\ Top.incoming \notin AllResting
<1>1. TypeInv /\ BookInv /\ Len(order) \in Nat
  BY DEF RefineInv, BookInv, LimitInv, TypeInv, TypeOK
<1>2. IsFiniteSet(Ids)
  BY <1>1, FS_Interval DEF Ids
<1>3. Remaining \in [Ids -> Nat]
  BY DEF RefineInv, Quantities, Remaining
<1>4. \A r \in AllResting : \E s \in Symbols, d \in Sides : r \in resting[s][d]
  BY DEF AllResting
<1>5. \A r \in AllResting :
        /\ r \in Ids /\ ~IsFilled(r)
        /\ calls # <<>> => r # Top.incoming
  BY <1>1, <1>4, RestingFacts DEF BookInv, NoneFilled
<1>6. \A r \in AllResting : Remaining[r] > 0
  <2>1. \A r \in AllResting : Remaining[r] \in Nat /\ Remaining[r] # 0
    BY <1>3, <1>5 DEF Remaining, IsFilled
  <2> QED BY <2>1
<1>7. calls # <<>> => Top.incoming \in Ids /\ TakenOut \subseteq Ids
  BY <1>1, TopFrame DEF TakenOut
<1> QED BY <1>1, <1>2, <1>3, <1>5, <1>6, <1>7 DEF Whole

(* The queue of the closed formula is what the loop would run through.     *)
LEMMA QueueIs ==
  ASSUME RefineInv, calls # <<>>, Top.matched = NoOrder
  PROVE  /\ Whole = AllResting
         /\ Eligible(Placed, Whole, Top.incoming) =
              {q \in resting[order[Top.incoming].symbol]
                            [Opposite(order[Top.incoming].side)] :
                 Marketable(Top.incoming, q)}
<1> DEFINE i == Top.incoming
           symbol == order[i].symbol
           other == Opposite(order[i].side)
<1>1. TypeInv /\ BookInv /\ Filed
  BY DEF RefineInv, BookInv, LimitInv
<1>2. i \in Ids /\ symbol \in Symbols /\ order[i].side \in Sides /\ other \in Sides
  BY <1>1, TopFrame, PlacedOrder
<1>3. Whole = AllResting /\ AllResting \subseteq Ids
  BY PredictionArguments DEF Whole, TakenOut
<1>4. \A k \in Ids : /\ Placed[k].symbol = order[k].symbol
                     /\ Placed[k].side = order[k].side
                     /\ Placed[k].price = order[k].price
  BY DEF Placed
<1>5. \A q : q \in AllResting /\ order[q].symbol = symbol
                 /\ order[q].side # order[i].side
               <=> q \in resting[symbol][other]
  <2>1. \A q : q \in AllResting <=> \E s \in Symbols, d \in Sides : q \in resting[s][d]
    BY DEF AllResting
  <2>2. \A d \in Sides : d # order[i].side <=> d = other
    BY <1>2 DEF Sides, Opposite
  <2> QED BY <1>1, <1>2, <2>1, <2>2 DEF Filed
<1>6. \A q : q \in Eligible(Placed, Whole, i) <=>
               q \in resting[symbol][other] /\ Marketable(i, q)
  BY <1>2, <1>3, <1>4, <1>5 DEF Eligible, Marketable
<1> QED BY <1>3, <1>6

(* The earlier order of two is the one whose id is less as a string.       *)
EarlierById ==
  \A a, b \in 1 .. MaxOrders : <<a, b>> \in Earlier <=> IdLess(a, b)

(* Then the first of a set is ahead of all others.                         *)
LEMMA FirstIsAhead ==
  ASSUME TypeInv, Quantities, EarlierById, NEW s \in Symbols, NEW d \in Sides,
         Filed, NEW r \in First(s, d), NEW q \in resting[s][d] \ {r}
  PROVE  Ahead(Placed, r, q) /\ ~Ahead(Placed, q, r)
<1>1. r \in Ids /\ q \in Ids /\ Before(d, r, q) /\ r \in resting[s][d]
  BY DEF First, TypeInv, TypeOK
<1>2. r \in 1 .. MaxOrders /\ q \in 1 .. MaxOrders /\ r # q
  <2>1. Len(order) \in Nat /\ Len(order) <= MaxOrders /\ MaxOrders \in Nat
    BY EngineConstants DEF Quantities, TypeInv, TypeOK
  <2> QED BY <1>1, <2>1 DEF Ids
<1>3. /\ Placed[r].price = order[r].price /\ Placed[q].price = order[q].price
      /\ Placed[r].side = d /\ Placed[q].side = d
      /\ order[r].price \in Int /\ order[q].price \in Int
  BY <1>1, PlacedOrder DEF Placed, Filed
<1>4. /\ <<r, q>> \in Earlier <=> IdLess(r, q)
      /\ <<q, r>> \in Earlier <=> IdLess(q, r)
  BY <1>2, Zenon DEF EarlierById
<1>5. ~(IdLess(r, q) /\ IdLess(q, r))
  <2>1. r \in Nat \ {0} /\ q \in Nat \ {0}
    BY <1>2, EngineConstants
  <2> QED BY <2>1, IdsAreOrdered DEF IdsOrdered
<1> QED BY <1>5, <1>1, <1>2, <1>3, <1>4 DEF Before, Ahead, Sides

LEMMA TradeIsStutter ==
  ASSUME MaxDepth = 1, EarlierById, RefineInv, RefineInv', NEW r \in Ids,
         ExecuteTrade(r)
  PROVE  UNCHANGED <<Placed, PredictedLeft, PredictedBook>>
<1>1. TypeInv /\ BookInv /\ LimitInv /\ Filed
  BY DEF RefineInv, BookInv, LimitInv
<1>2. /\ calls # <<>> /\ Top.incoming \in Ids /\ Top.matched = NoOrder
      /\ calls' # <<>> /\ Top'.incoming = Top.incoming /\ Top'.matched = r
      /\ order[r].symbol \in Symbols /\ order[r].side \in Sides
      /\ r \in resting[order[r].symbol][order[r].side] /\ r # NoOrder
      /\ \A s \in Symbols, d \in Sides : resting'[s][d] = resting[s][d] \ {r}
  BY <1>1, TradeTakesOut
<1>3. Len(order') = Len(order) /\ Ids' = Ids
  BY <1>1, TradedOrders DEF Ids
<1>4. Placed' = Placed
  <2>1. \A k \in Ids : /\ order'[k].symbol = order[k].symbol
                       /\ order'[k].side = order[k].side
                       /\ order'[k].price = order[k].price
    BY <1>1, TradedOrders
  <2> QED BY <1>3, <2>1 DEF Placed
<1>5. Whole' = Whole /\ Whole = AllResting
  <2>1. Whole = AllResting /\ r \in AllResting
    BY <1>2, QueueIs DEF AllResting
  <2>2. \A q : q \in AllResting' <=> q \in AllResting \ {r}
    BY <1>2 DEF AllResting
  <2>3. TakenOut' = {r}
    BY <1>2 DEF TakenOut, NoOrder
  <2> QED BY <2>1, <2>2, <2>3 DEF Whole
<1>6. PICK ords, left, less, book, i :
        /\ ords = Placed /\ left = Remaining /\ less = Remaining' /\ book = Whole
        /\ i = Top.incoming
  OBVIOUS
<1>7. /\ PredictedLeft = LeftAfter(ords, left, book, i)
      /\ PredictedLeft' = LeftAfter(ords, less, book, i)
      /\ PredictedBook = BookAfter(ords, left, book, i)
      /\ PredictedBook' = BookAfter(ords, less, book, i)
  BY <1>2, <1>4, <1>5, <1>6 DEF PredictedLeft, PredictedBook, Whole
<1>8. /\ IsFiniteSet(Ids) /\ left \in [Ids -> Nat] /\ less \in [Ids -> Nat]
      /\ book \in SUBSET Ids /\ i \in Ids
  BY <1>2, <1>3, <1>6, PredictionArguments DEF RefineInv, Quantities, Remaining
<1>9. PICK s, other : s = order[i].symbol /\ other = Opposite(order[i].side)
  OBVIOUS
<1>10. /\ s \in Symbols /\ other \in Sides /\ s = order[r].symbol
       /\ other = order[r].side /\ r \in First(s, other) /\ Marketable(i, r)
  BY <1>1, <1>2, <1>6, <1>9, MatchedOrder DEF ExecuteTrade, Matches
<1>11. Eligible(ords, book, i) = {q \in resting[s][other] : Marketable(i, q)}
  BY <1>2, <1>6, <1>9, QueueIs
<1>12. r \in Eligible(ords, book, i)
  BY <1>2, <1>10, <1>11
<1>13. \A k \in Eligible(ords, book, i) \ {r} :
         Ahead(ords, r, k) /\ ~Ahead(ords, k, r)
  BY <1>1, <1>6, <1>10, <1>11, FirstIsAhead DEF RefineInv
<1>14. ~Ahead(ords, r, r)
  <2>1. Placed[r].price = order[r].price /\ order[r].price \in Int
    BY <1>1, PlacedOrder DEF Placed
  <2>2. r \in 1 .. MaxOrders /\ r \in Nat \ {0}
    <3>1. Len(order) \in Nat /\ Len(order) <= MaxOrders /\ MaxOrders \in Nat
      BY <1>1, EngineConstants DEF RefineInv, Quantities, TypeInv, TypeOK
    <3> QED BY <3>1 DEF Ids
  <2>3. <<r, r>> \notin Earlier
    BY <2>2, IdsAreOrdered DEF EarlierById, IdsOrdered
  <2> QED BY <1>6, <2>1, <2>3 DEF Ahead
<1>15. Served(ords, book, i, r) = {}
  BY <1>13, <1>14 DEF Served
<1>16. PICK q : q = TradeSize(r)
  OBVIOUS
<1>17. /\ q \in Nat /\ (q = left[i] \/ q = left[r]) /\ q <= left[i] /\ q <= left[r]
       /\ less[i] = left[i] - q /\ less[r] = left[r] - q
       /\ \A k \in Ids \ {i, r} : less[k] = left[k]
  <2>1. \A k \in Ids : /\ left[k] = order[k].remaining /\ left[k] \in Nat
                       /\ less[k] = order'[k].remaining
    BY <1>3, <1>6, <1>8 DEF Remaining
  <2>2. /\ q \in Int /\ (q = left[i] \/ q = left[r]) /\ q <= left[i] /\ q <= left[r]
        /\ less[i] = left[i] - q /\ less[r] = left[r] - q
    BY <1>1, <1>6, <1>8, <1>16, <2>1, TradeReduces
  <2>3. \A k \in Ids \ {i, r} : order'[k] = order[k]
    BY <1>1, <1>6, TradedOrders
  <2> QED BY <1>8, <2>1, <2>2, <2>3
<1>18. LeftAfter(ords, less, book, i) = LeftAfter(ords, left, book, i)
  BY <1>8, <1>12, <1>13, <1>15, <1>17, TradeLeaves
<1>19. BookAfter(ords, less, book, i) = BookAfter(ords, left, book, i)
  BY <1>18 DEF BookAfter
<1> QED BY <1>4, <1>7, <1>18, <1>19

LEMMA FiledAgain ==
  ASSUME TypeInv, NEW s \in Symbols, NEW d \in Sides, NEW r,
         resting' = [resting EXCEPT ![s][d] = @ \cup {r}]
  PROVE  AllResting' = AllResting \cup {r}
<1>1. /\ r \in resting'[s][d]
      /\ \A t \in Symbols, e \in Sides : resting[t][e] \subseteq resting'[t][e]
      /\ \A t \in Symbols, e \in Sides :
           \A q \in resting'[t][e] : q \in resting[t][e] \/ q = r
  BY DEF TypeInv, TypeOK
<1>2. /\ \A q : q \in AllResting <=> \E t \in Symbols, e \in Sides : q \in resting[t][e]
      /\ \A q : q \in AllResting' <=>
                  \E t \in Symbols, e \in Sides : q \in resting'[t][e]
  BY DEF AllResting
<1>3. r \in AllResting'
  BY <1>1, <1>2, Zenon
<1>4. \A q : q \in AllResting => q \in AllResting'
  BY <1>1, <1>2, Zenon
<1>5. \A q : q \in AllResting' => q \in AllResting \/ q = r
  BY <1>1, <1>2, Zenon
<1> QED BY <1>3, <1>4, <1>5, Zenon

(* The end of an iteration: an order with nothing left is dropped.         *)
LEMMA ReturnIsStutter ==
  ASSUME MaxDepth = 1, RefineInv, NotifierReturns
  PROVE  UNCHANGED <<Placed, PredictedLeft, PredictedBook>>
<1>1. TypeInv /\ BookInv /\ LimitInv
  BY DEF RefineInv, BookInv, LimitInv
<1>2. PICK r, i : r = Top.matched /\ i = Top.incoming
  OBVIOUS
<1>3. /\ calls # <<>> /\ i \in Ids /\ r \in Ids /\ r # NoOrder
      /\ calls' # <<>> /\ Top'.incoming = i /\ Top'.matched = NoOrder
      /\ order[r].symbol \in Symbols /\ order[r].side \in Sides
      /\ order' = order /\ PutBack(r)
  BY <1>1, <1>2, ReturnPutsBack
<1>4. Placed' = Placed /\ Remaining' = Remaining
  BY <1>3 DEF Placed, Remaining, Ids
<1>5. Whole = AllResting \cup {r} /\ Whole' = AllResting'
  BY <1>2, <1>3 DEF Whole, TakenOut
<1>6. PICK ords, left, book :
        ords = Placed /\ left = Remaining /\ book = Whole
  OBVIOUS
<1>7. /\ PredictedLeft = LeftAfter(ords, left, book, i)
      /\ PredictedLeft' = LeftAfter(ords, left, Whole', i)
      /\ PredictedBook = BookAfter(ords, left, book, i)
      /\ PredictedBook' = BookAfter(ords, left, Whole', i)
  BY <1>2, <1>3, <1>4, <1>6 DEF PredictedLeft, PredictedBook, Whole
<1>8. CASE ~IsFilled(r)
  <2>1. resting' = [resting EXCEPT ![order[r].symbol][order[r].side] = @ \cup {r}]
    BY <1>3, <1>8 DEF PutBack
  <2>2. AllResting' = AllResting \cup {r}
    BY <1>1, <1>3, <2>1, FiledAgain
  <2>3. Whole' = book
    BY <1>5, <1>6, <2>2
  <2> QED BY <1>4, <1>7, <2>3
<1>9. CASE IsFilled(r)
  <2>1. AllResting' = AllResting
    BY <1>3, <1>9 DEF PutBack, AllResting
  <2>2. r \notin AllResting
    BY <1>1, <1>2, <1>3 DEF BookInv, TakenIsOut, Taken, AllResting
  <2>3. Whole' = book \ {r}
    BY <1>5, <1>6, <2>1, <2>2
  <2>4. /\ IsFiniteSet(Ids) /\ left \in [Ids -> Nat] /\ book \in SUBSET Ids
        /\ left[r] = 0
    BY <1>3, <1>6, <1>9, PredictionArguments DEF Remaining, IsFilled
  <2>5. r \in book \ {i}
    <3>1. order[r].side = Opposite(order[i].side) /\ order[i].side \in Sides
      BY <1>1, <1>2, <1>3, TopFrame, PlacedOrder DEF LimitInv, TakenFromOtherSide
    <3>2. r # i
      BY <3>1 DEF Opposite, Sides
    <3> QED BY <1>5, <1>6, <3>2
  <2>6. /\ LeftAfter(ords, left, book \ {r}, i) = LeftAfter(ords, left, book, i)
        /\ BookAfter(ords, left, book \ {r}, i) = BookAfter(ords, left, book, i)
    BY <1>3, <2>4, <2>5, EmptyOrderRemoved
  <2> QED BY <1>4, <1>7, <2>3, <2>6
<1> QED BY <1>8, <1>9

(* When the loop ends the prediction has come true.                        *)
LEMMA FinishIsStutter ==
  ASSUME MaxDepth = 1, RefineInv, FinishMatch
  PROVE  UNCHANGED <<Placed, PredictedLeft, PredictedBook>>
<1>1. TypeInv /\ BookInv /\ LimitInv
  BY DEF RefineInv, BookInv, LimitInv
<1>2. PICK i, ords, left, book :
        i = Top.incoming /\ ords = Placed /\ left = Remaining /\ book = AllResting
  OBVIOUS
<1>3. /\ calls # <<>> /\ Top.matched = NoOrder /\ calls' = <<>>
      /\ order' = order
  BY <1>1, OneCall DEF FinishMatch
<1>4. /\ IsFiniteSet(Ids) /\ left \in [Ids -> Nat] /\ book \in SUBSET Ids
      /\ i \in Ids \ book /\ \A q \in book : left[q] > 0
  BY <1>2, <1>3, PredictionArguments
<1>5. Placed' = Placed /\ Remaining' = Remaining
  BY <1>3 DEF Placed, Remaining, Ids
<1>6. Whole = book
  BY <1>2, <1>3, QueueIs
<1>7. /\ PredictedLeft = LeftAfter(ords, left, book, i) /\ PredictedLeft' = left
      /\ PredictedBook = BookAfter(ords, left, book, i)
      /\ PredictedBook' = AllResting'
  BY <1>2, <1>3, <1>5, <1>6 DEF PredictedLeft, PredictedBook, Whole
<1>8. left[i] = 0 \/ Eligible(ords, book, i) = {}
  <2>1. CASE IsFilled(i)
    BY <1>2, <1>4, <2>1 DEF IsFilled, Remaining
  <2>2. CASE ~IsFilled(i)
    <3>1. ASSUME NEW q \in Eligible(ords, book, i) PROVE FALSE
      <4>1. /\ q \in resting[order[i].symbol][Opposite(order[i].side)]
            /\ Marketable(i, q)
        BY <1>2, <1>3, <1>6, <3>1, QueueIs
      <4>2. /\ order[q].price \in Int
            /\ order[i].side = "BUY" => order[i].price < order[q].price
            /\ order[i].side = "SELL" => order[q].price < order[i].price
        BY <1>1, <1>2, <2>2, <4>1, LoopStopsAtLast
      <4>3. order[i].price \in Int /\ order[i].side \in Sides
        BY <1>1, <1>4, PlacedOrder
      <4> QED BY <4>1, <4>2, <4>3 DEF Marketable, Sides
    <3> QED BY <3>1
  <2> QED BY <2>1, <2>2
<1>9. LeftAfter(ords, left, book, i) = left
  BY <1>4, <1>8, NothingToMatch
<1>10. BookAfter(ords, left, book, i) = {k \in book \cup {i} : left[k] > 0}
  BY <1>9 DEF BookAfter
<1>11. AllResting' = {k \in book \cup {i} : left[k] > 0}
  <2>1. CASE IsFilled(i)
    <3>1. resting' = resting
      BY <1>2, <2>1 DEF FinishMatch
    <3>2. AllResting' = book /\ left[i] = 0
      BY <1>2, <1>4, <2>1, <3>1 DEF AllResting, IsFilled, Remaining
    <3> QED BY <1>4, <3>2
  <2>2. CASE ~IsFilled(i)
    <3>1. /\ resting' = [resting EXCEPT
                          ![order[i].symbol][order[i].side] = @ \cup {i}]
          /\ order[i].symbol \in Symbols /\ order[i].side \in Sides
      BY <1>1, <1>2, <1>4, <2>2, PlacedOrder DEF FinishMatch
    <3>2. AllResting' = AllResting \cup {i}
      BY <1>1, <3>1, FiledAgain
    <3>3. left[i] > 0
      <4>1. left[i] \in Nat /\ left[i] # 0
        BY <1>2, <1>4, <2>2 DEF IsFilled, Remaining
      <4> QED BY <4>1
    <3> QED BY <1>2, <1>4, <3>2, <3>3
  <2> QED BY <2>1, <2>2
<1> QED BY <1>2, <1>5, <1>7, <1>9, <1>10, <1>11

(* placeOrder is the abstract placement from the moment it is entered.     *)
LEMMA PlaceIsPlace ==
  ASSUME MaxDepth = 1, RefineInv, NEW symbol \in Symbols, NEW price \in Prices,
         NEW size \in Sizes, NEW side \in Sides,
         PlaceOrder(symbol, price, size, side)
  PROVE  Abstract!Place(symbol, price, size, side)
<1> DEFINE o == [symbol |-> symbol, price |-> price, size |-> size,
                 side |-> side, remaining |-> size]
           p == [symbol |-> symbol, price |-> price, side |-> side]
<1>1. TypeInv /\ Len(order) \in Nat /\ order \in Seq(Order)
  BY DEF RefineInv, BookInv, LimitInv, TypeInv, TypeOK
<1>2. /\ calls = <<>> /\ calls' # <<>>
      /\ Top'.incoming = Len(order) + 1 /\ Top'.matched = NoOrder
  BY <1>1, PlaceEnters
<1>3. order' = Append(order, o) /\ resting' = resting
  BY DEF PlaceOrder
<1>4. /\ o.symbol = symbol /\ o.price = price /\ o.side = side /\ o.remaining = size
      /\ p.symbol = symbol /\ p.price = price /\ p.side = side
  OBVIOUS
<1> HIDE DEF o
<1>5. /\ Len(order') = Len(order) + 1 /\ order'[Len(order) + 1] = o
      /\ \A k \in 1 .. Len(order) : order'[k] = order[k]
      /\ Ids' = 1 .. Len(order) + 1
  BY <1>1, <1>3 DEF Ids
<1>6. /\ Placed \in Seq([symbol : Symbols, price : Int, side : Sides])
      /\ Len(Placed) = Len(order)
  <2>1. \A k \in Ids : [symbol |-> order[k].symbol, price |-> order[k].price,
                        side |-> order[k].side]
                         \in [symbol : Symbols, price : Int, side : Sides]
    BY <1>1, PlacedOrder
  <2> QED BY <1>1, <2>1 DEF Placed, Ids
<1>7. Placed' = Append(Placed, p)
  <2>1. p \in [symbol : Symbols, price : Int, side : Sides]
    BY EngineConstants
  <2>2. Placed' \in Seq([symbol : Symbols, price : Int, side : Sides])
          /\ Len(Placed') = Len(order) + 1
    <3>1. \A k \in 1 .. Len(order) + 1 :
            [symbol |-> order'[k].symbol, price |-> order'[k].price,
             side |-> order'[k].side] \in [symbol : Symbols, price : Int, side : Sides]
      <4>1. \A k \in Ids : /\ order[k].symbol \in Symbols /\ order[k].price \in Int
                           /\ order[k].side \in Sides
        BY <1>1, PlacedOrder
      <4> QED BY <1>1, <1>4, <1>5, <4>1, EngineConstants DEF Ids
    <3> QED BY <1>1, <1>5, <3>1 DEF Placed
  <2>3. \A k \in 1 .. Len(order) : Placed'[k] = Placed[k]
    BY <1>1, <1>5 DEF Placed, Ids
  <2>4. Placed'[Len(order) + 1] = p
    BY <1>1, <1>4, <1>5 DEF Placed
  <2>5. PICK a, b : a = Placed /\ b = Placed'
    OBVIOUS
  <2>6. b = Append(a, p)
    BY <1>1, <1>6, <2>1, <2>2, <2>3, <2>4, <2>5, SeqEqual
  <2> QED BY <2>5, <2>6
<1>8. Remaining' = Append(Remaining, size)
  <2>1. size \in Int /\ \A k \in Ids : order[k].remaining \in Int
    BY <1>1, PlacedOrder, EngineConstants
  <2>2. Remaining \in Seq(Int) /\ Len(Remaining) = Len(order)
    BY <1>1, <2>1 DEF Remaining, Ids
  <2>3. Remaining' \in Seq(Int) /\ Len(Remaining') = Len(order) + 1
    <3>1. \A k \in 1 .. Len(order) + 1 : order'[k].remaining \in Int
      BY <1>1, <1>4, <1>5, <2>1 DEF Ids
    <3> QED BY <1>1, <1>5, <3>1 DEF Remaining
  <2>4. \A k \in 1 .. Len(order) : Remaining'[k] = Remaining[k]
    BY <1>1, <1>5 DEF Remaining, Ids
  <2>5. Remaining'[Len(order) + 1] = size
    BY <1>1, <1>4, <1>5 DEF Remaining
  <2>6. PICK a, b : a = Remaining /\ b = Remaining'
    OBVIOUS
  <2>7. b = Append(a, size)
    BY <1>1, <2>1, <2>2, <2>3, <2>4, <2>5, <2>6, SeqEqual
  <2> QED BY <2>6, <2>7
<1>9. PICK left, book, i, ords, after :
        /\ left = Remaining /\ book = AllResting /\ i = Len(order) + 1
        /\ ords = Placed' /\ after = Remaining'
  OBVIOUS
<1>10. AllResting' = book /\ TakenOut' = {}
  BY <1>2, <1>3, <1>9 DEF AllResting, TakenOut
<1>11. /\ PredictedLeft = left /\ PredictedBook = book
       /\ PredictedLeft' = LeftAfter(ords, after, book, i)
       /\ PredictedBook' = BookAfter(ords, after, book, i)
  BY <1>2, <1>9, <1>10 DEF PredictedLeft, PredictedBook
<1>12. /\ PredictedLeft' = Abstract!LeftAfter(ords, after, book, i)
       /\ PredictedBook' = Abstract!BookAfter(ords, after, book, i)
  BY <1>11, SameFormula
<1>13. ords = Append(Placed, p) /\ after = Append(left, size) /\ i = Len(Placed) + 1
  BY <1>6, <1>7, <1>8, <1>9
<1>14. /\ Placed' = Append(Placed, p)
       /\ PredictedLeft' = Abstract!LeftAfter(Append(Placed, p),
            Append(PredictedLeft, size), PredictedBook, Len(Placed) + 1)
       /\ PredictedBook' = Abstract!BookAfter(Append(Placed, p),
            Append(PredictedLeft, size), PredictedBook, Len(Placed) + 1)
  BY <1>7, <1>11, <1>12, <1>13
<1> QED BY <1>14 DEF Abstract!Place

LEMMA CancelIsCancel ==
  ASSUME MaxDepth = 1, RefineInv, NEW id \in Ids, CancelOrder(id)
  PROVE  id \in PredictedBook /\ Abstract!Cancel(id)
<1>1. TypeInv /\ BookInv /\ Filed
  BY DEF RefineInv, BookInv, LimitInv
<1>2. calls = <<>> /\ calls' = <<>> /\ order' = order
  BY <1>1, OneCall DEF CancelOrder
<1>3. PICK s \in Symbols :
             /\ id \in orders[s]
             /\ resting' = [resting EXCEPT ![s][order[id].side] = @ \ {id}]
  BY <1>1 DEF CancelOrder, TypeInv, TypeOK
<1>4. order[id].side \in Sides
  BY <1>1, PlacedOrder
<1>5. id \in resting[s][order[id].side]
  <2>1. Book(s, "BUY") = resting[s]["BUY"] /\ Book(s, "SELL") = resting[s]["SELL"]
    BY <1>2 DEF Book, Taken
  <2>2. id \in resting[s]["BUY"] \/ id \in resting[s]["SELL"]
    BY <1>1, <1>3, <2>1 DEF BookInv, Indexed
  <2> QED BY <1>1, <2>2 DEF Filed, Sides
<1>6. \A t \in Symbols, e \in Sides : resting'[t][e] = resting[t][e] \ {id}
  <2>1. \A t \in Symbols, e \in Sides :
          id \in resting[t][e] => t = s /\ e = order[id].side
    BY <1>1, <1>5, <1>4 DEF Filed
  <2> QED BY <1>1, <1>3, <1>4, <2>1 DEF TypeInv, TypeOK
<1>7. AllResting' = AllResting \ {id} /\ id \in AllResting
  <2>1. \A q : q \in AllResting' <=> q \in AllResting \ {id}
    BY <1>6 DEF AllResting
  <2>2. id \in AllResting
    BY <1>4, <1>5 DEF AllResting
  <2> QED BY <2>1, <2>2
<1>8. Placed' = Placed /\ Remaining' = Remaining
  BY <1>2 DEF Placed, Remaining, Ids
<1>9. /\ PredictedBook = AllResting /\ PredictedBook' = AllResting'
      /\ PredictedLeft' = PredictedLeft
  BY <1>2, <1>8 DEF PredictedBook, PredictedLeft
<1> QED BY <1>7, <1>8, <1>9 DEF Abstract!Cancel

LEMMA InitIsInit == Init => Abstract!BookInit
<1> SUFFICES ASSUME Init PROVE Abstract!BookInit
  OBVIOUS
<1>1. order = <<>> /\ calls = <<>> /\ Ids = {}
  BY DEF Init, Ids
<1>2. Placed = <<>> /\ Remaining = <<>>
  BY <1>1 DEF Placed, Remaining
<1>3. AllResting = {}
  BY DEF Init, AllResting
<1> QED BY <1>1, <1>2, <1>3 DEF Abstract!BookInit, PredictedLeft, PredictedBook

LEMMA StepIsBookStep ==
  ASSUME MaxDepth = 1, EarlierById, RefineInv, RefineInv', [Next]_vars
  PROVE  [Abstract!BookNext]_(Abstract!bookVars)
<1> DEFINE Stutter == UNCHANGED <<Placed, PredictedLeft, PredictedBook>>
<1>1. ASSUME NEW symbol \in Symbols, NEW price \in Prices, NEW size \in Sizes,
             NEW side \in Sides, PlaceOrder(symbol, price, size, side)
      PROVE  Abstract!BookNext
  <2>1. Abstract!Place(symbol, price, size, side)
    BY <1>1, PlaceIsPlace
  <2> QED BY <2>1 DEF Abstract!BookNext, Sides
<1>2. ASSUME NEW id \in Ids, CancelOrder(id) PROVE Abstract!BookNext
  <2>1. id \in PredictedBook /\ Abstract!Cancel(id)
    BY <1>2, CancelIsCancel
  <2> QED BY <2>1 DEF Abstract!BookNext
<1>3. ASSUME UNCHANGED <<order, resting, calls>> PROVE Stutter
  BY <1>3 DEF Placed, PredictedLeft, PredictedBook, Remaining, AllResting,
     TakenOut, Top, Ids
<1>4. ASSUME NEW r \in Ids, ExecuteTrade(r) PROVE Stutter
  BY <1>4, TradeIsStutter
<1>5. ASSUME NotifierReturns PROVE Stutter
  BY <1>5, ReturnIsStutter
<1>6. ASSUME FinishMatch PROVE Stutter
  BY <1>6, FinishIsStutter
<1>7. Stutter => UNCHANGED Abstract!bookVars
  BY DEF Abstract!bookVars
<1> HIDE DEF Stutter
<1>8. \/ \E symbol \in Symbols, price \in Prices, size \in Sizes, side \in Sides :
            PlaceOrder(symbol, price, size, side)
      \/ \E id \in Ids : CancelOrder(id)
      \/ UNCHANGED <<order, resting, calls>>
      \/ \E r \in Ids : ExecuteTrade(r)
      \/ NotifierReturns \/ FinishMatch
  BY DEF Next, ClientCall, EngineStep, SetTradeNotifier, GetMarketData, vars
<1> QED BY <1>1, <1>2, <1>3, <1>4, <1>5, <1>6, <1>7, <1>8

(* As long as the notifier only observes and sizes are positive, clients   *)
(* cannot tell the engine, with its loop, its two containers and its       *)
(* orders that are out for a moment, from a book that matches every order  *)
(* at once by price and, at one price, by the order of ids as strings.     *)
THEOREM EngineIsPriceIdBook ==
  ASSUME MaxDepth = 1, EarlierById, \A size \in Sizes : size > 0
  PROVE  Spec => ImplementsPriceTimeBook
<1>1. Init => RefineInv
  BY InitBookInv, EngineConstants DEF RefineInv, Quantities, Init, Ids
<1>2. RefineInv /\ [Next]_vars => RefineInv'
  BY NextRefineInv
<1>3. RefineInv /\ RefineInv' /\ [Next]_vars
        => [Abstract!BookNext]_(Abstract!bookVars)
  BY StepIsBookStep
<1> QED
  BY <1>1, <1>2, <1>3, InitIsInit, PTL
  DEF Spec, ImplementsPriceTimeBook, Abstract!BookSpec

(* Up to the ninth order that is the order of arrival.  (From the tenth on *)
(* it is not: "order-10" comes before "order-2".)                          *)
THEOREM EngineIsPriceTimeBook ==
  ASSUME MaxDepth = 1, MaxOrders <= 9, \A size \in Sizes : size > 0,
         \A a, b \in 1 .. MaxOrders : <<a, b>> \in Earlier <=> a < b
  PROVE  Spec => ImplementsPriceTimeBook
<1>1. EarlierById
  <2>1. ASSUME NEW a \in 1 .. MaxOrders, NEW b \in 1 .. MaxOrders
        PROVE  IdLess(a, b) <=> a < b
    <3>1. a \in 1 .. 9 /\ b \in 1 .. 9
      BY EngineConstants
    <3> QED BY <3>1, IdsBelowTen
  <2>2. ASSUME NEW a \in 1 .. MaxOrders, NEW b \in 1 .. MaxOrders
        PROVE  <<a, b>> \in Earlier <=> IdLess(a, b)
    <3>1. <<a, b>> \in Earlier <=> a < b
      OBVIOUS
    <3> QED BY <2>1, <3>1, Zenon
  <2> QED BY <2>2, Zenon DEF EarlierById
<1> QED BY <1>1, EngineIsPriceIdBook

(* And so "earlier orders have priority" among the first nine, whatever    *)
(* the notifier does: no execution takes a resting order while an earlier  *)
(* one of its side and price rests.                                        *)
THEOREM EarlierFirstBelowTen ==
  ASSUME MaxOrders <= 9
  PROVE  Spec => EarlierOrdersFirst
<1> DEFINE Few == LimitInv /\ Len(order) <= MaxOrders
<1>1. Init => Few
  BY InitLimitInv, EngineConstants DEF Init
<1>2. Few /\ [Next]_vars => Few'
  <2> SUFFICES ASSUME Few, [Next]_vars PROVE Len(order') <= MaxOrders
    BY NextLimitInv
  <2>1. ASSUME UNCHANGED order PROVE Len(order') <= MaxOrders
    BY <2>1
  <2>2. Len(order) \in Nat /\ order \in Seq(Order) /\ TypeInv
    BY DEF LimitInv, TypeInv, TypeOK
  <2>3. ASSUME NEW symbol \in Symbols, NEW price \in Prices, NEW size \in Sizes,
               NEW side \in Sides, PlaceOrder(symbol, price, size, side)
        PROVE  Len(order') <= MaxOrders
    <3>1. Len(order') = Len(order) + 1 /\ Len(order) < MaxOrders
      BY <2>2, <2>3 DEF PlaceOrder
    <3> QED BY <2>2, <3>1, EngineConstants
  <2>4. ASSUME NEW r \in Ids, ExecuteTrade(r) PROVE Len(order') <= MaxOrders
    BY <2>2, <2>4, TradedOrders
  <2> QED
    BY <2>1, <2>3, <2>4 DEF Next, ClientCall, EngineStep, SetTradeNotifier,
       GetMarketData, NotifierReturns, FinishMatch, CancelOrder, vars
<1>3. Few => \A r \in Ids : ExecuteTrade(r) =>
               \A q \in resting[order[r].symbol][order[r].side] :
                 order[q].price = order[r].price => r <= q
  <2> SUFFICES ASSUME Few, NEW r \in Ids, ExecuteTrade(r),
                      NEW q \in resting[order[r].symbol][order[r].side],
                      order[q].price = order[r].price
               PROVE  r <= q
    OBVIOUS
  <2>1. /\ order[r].symbol = order[Top.incoming].symbol
        /\ order[r].side = Opposite(order[Top.incoming].side)
        /\ order[r].symbol \in Symbols /\ order[r].side \in Sides
        /\ order[r].price \in Int
    BY MatchedOrder, PlacedOrder DEF LimitInv
  <2>2. r \in First(order[r].symbol, order[r].side)
    BY <2>1 DEF ExecuteTrade, Matches
  <2>3. r \in 1 .. 9 /\ q \in 1 .. 9
    <3>1. Len(order) \in Nat /\ MaxOrders \in Nat /\ q \in Ids
      BY <2>1, EngineConstants DEF LimitInv, TypeInv, TypeOK
    <3> QED BY <3>1 DEF Ids
  <2>4. q # r => IdLess(r, q)
    BY <2>1, <2>2 DEF First, Before, Sides
  <2> QED BY <2>3, <2>4, IdsBelowTen
<1>4. Few => [\A r \in Ids : ExecuteTrade(r) =>
                \A q \in resting[order[r].symbol][order[r].side] :
                  order[q].price = order[r].price => r <= q]_vars
  BY <1>3
<1> QED BY <1>1, <1>2, <1>4, PTL DEF Spec, EarlierOrdersFirst
=============================================================================
