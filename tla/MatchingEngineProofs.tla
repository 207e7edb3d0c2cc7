------------------------ MODULE MatchingEngineProofs ------------------------
(***************************************************************************)
(* Proofs about MatchingEngine for any symbols, prices, sizes and number   *)
(* of orders, whatever the notifier does: type correctness, that no        *)
(* execution is outside a limit, and that the executions add up.           *)
(***************************************************************************)
EXTENDS MatchingEngine, FiniteSetTheorems, SequenceTheorems, TLAPS

(* A call in progress is about orders that were placed.                    *)
FramesKnown ==
  \A k \in 1 .. Len(calls) :
    calls[k].incoming \in Ids /\ calls[k].matched \in Ids \cup {NoOrder}

TypeInv == TypeOK /\ FramesKnown
-----------------------------------------------------------------------------
(* The stack of calls: pushing a frame, and replacing the innermost one.   *)
LEMMA PushedFrame ==
  ASSUME calls \in Seq(Frame), NEW f \in Frame
  PROVE  /\ <<f>> \o calls \in Seq(Frame)
         /\ Len(<<f>> \o calls) = Len(calls) + 1
         /\ \A k \in 1 .. Len(calls) + 1 :
              (<<f>> \o calls)[k] = IF k = 1 THEN f ELSE calls[k - 1]
<1>1. <<f>> \in Seq(Frame) /\ Len(<<f>>) = 1 /\ <<f>>[1] = f
  OBVIOUS
<1> QED BY <1>1, ConcatProperties, LenProperties

LEMMA ReplacedFrame ==
  ASSUME calls \in Seq(Frame), calls # <<>>, NEW f \in Frame
  PROVE  /\ <<f>> \o Tail(calls) \in Seq(Frame)
         /\ Len(<<f>> \o Tail(calls)) = Len(calls)
         /\ \A k \in 1 .. Len(calls) :
              (<<f>> \o Tail(calls))[k] = IF k = 1 THEN f ELSE calls[k]
<1>1. <<f>> \in Seq(Frame) /\ Len(<<f>>) = 1 /\ <<f>>[1] = f
  OBVIOUS
<1>2. /\ Tail(calls) \in Seq(Frame) /\ Len(Tail(calls)) = Len(calls) - 1
      /\ \A k \in 1 .. Len(Tail(calls)) : Tail(calls)[k] = calls[k + 1]
  BY HeadTailProperties
<1>3. Len(calls) \in Nat
  BY LenProperties
<1> DEFINE c == <<f>> \o Tail(calls)
<1>4. /\ c \in Seq(Frame) /\ Len(c) = 1 + (Len(calls) - 1)
      /\ \A k \in 1 .. 1 + (Len(calls) - 1) :
            c[k] = IF k <= 1 THEN <<f>>[k] ELSE Tail(calls)[k - 1]
  BY <1>1, <1>2, ConcatProperties
<1>5. ASSUME NEW k \in 1 .. Len(calls) PROVE c[k] = IF k = 1 THEN f ELSE calls[k]
  <2>1. CASE k = 1
    BY <1>1, <1>3, <1>4, <2>1
  <2>2. CASE k # 1
    <3>1. k - 1 \in 1 .. Len(Tail(calls)) /\ (k - 1) + 1 = k
      BY <1>2, <1>3, <2>2
    <3>2. c[k] = Tail(calls)[k - 1]
      BY <1>3, <1>4, <2>2
    <3> QED BY <1>2, <2>2, <3>1, <3>2
  <2> QED BY <2>1, <2>2
<1> QED BY <1>3, <1>4, <1>5

LEMMA TopFrame ==
  ASSUME TypeInv, calls # <<>>
  PROVE  /\ Len(calls) \in Nat \ {0} /\ Top = calls[1] /\ Top \in Frame
         /\ Top.incoming \in Ids /\ Top.matched \in Ids \cup {NoOrder}
<1>1. calls \in Seq(Frame)
  BY DEF TypeInv, TypeOK
<1>2. Len(calls) \in Nat \ {0} /\ Head(calls) = calls[1]
  BY <1>1, EmptySeq
<1>3. calls[1] \in Frame
  BY <1>1, <1>2, ElementOfSeq
<1> QED BY <1>2, <1>3 DEF Top, TypeInv, FramesKnown

LEMMA PlacedOrder ==
  ASSUME TypeInv, NEW k \in Ids
  PROVE  /\ order[k] \in Order /\ order[k].symbol \in Symbols
         /\ order[k].side \in Sides /\ Opposite(order[k].side) \in Sides
         /\ order[k].price \in Int /\ order[k].remaining \in Int
<1>1. order[k] \in Order
  BY ElementOfSeq DEF TypeInv, TypeOK, Ids
<1> QED BY <1>1, EngineConstants DEF Order, Opposite, Sides

(* Filing an id in a container of a book, or taking it out.                *)
LEMMA BookUpdated ==
  ASSUME TypeInv, NEW s \in Symbols, NEW side \in Sides, NEW id \in Ids
  PROVE  /\ [orders EXCEPT ![s] = @ \cup {id}] \in [Symbols -> SUBSET Ids]
         /\ [orders EXCEPT ![s] = @ \ {id}] \in [Symbols -> SUBSET Ids]
         /\ [resting EXCEPT ![s][side] = @ \cup {id}]
              \in [Symbols -> [Sides -> SUBSET Ids]]
         /\ [resting EXCEPT ![s][side] = @ \ {id}]
              \in [Symbols -> [Sides -> SUBSET Ids]]
<1>1. /\ orders \in [Symbols -> SUBSET Ids]
      /\ resting \in [Symbols -> [Sides -> SUBSET Ids]]
  BY DEF TypeInv, TypeOK
<1>2. /\ orders[s] \cup {id} \in SUBSET Ids
      /\ orders[s] \ {id} \in SUBSET Ids
      /\ resting[s][side] \cup {id} \in SUBSET Ids
      /\ resting[s][side] \ {id} \in SUBSET Ids
  BY <1>1
<1> QED BY <1>1, <1>2

(* An execution changes nothing of the orders but what two of them have    *)
(* left.                                                                   *)
LEMMA TradedOrders ==
  ASSUME TypeInv, NEW r \in Ids, ExecuteTrade(r)
  PROVE  /\ order' \in Seq(Order) /\ Len(order') = Len(order)
         /\ \A k \in Ids : /\ order'[k].symbol = order[k].symbol
                           /\ order'[k].side = order[k].side
                           /\ order'[k].price = order[k].price
         /\ \A k \in Ids \ {r, Top.incoming} : order'[k] = order[k]
         /\ TradeSize(r) \in Int
<1> DEFINE i == Top.incoming
<1>1. i \in Ids /\ order \in Seq(Order) /\ Len(order) \in Nat
  BY TopFrame DEF ExecuteTrade, Matches, TypeInv, TypeOK
<1>2. order[i] \in Order /\ order[r] \in Order
  BY <1>1 DEF Ids
<1>3. TradeSize(r) \in Int
  BY <1>2 DEF TradeSize, Minimum, Order
<1>4. \A n \in Int : Reduced(n, TradeSize(r)) \in Int
  BY <1>3 DEF Reduced
<1>5. order' = [k \in 1 .. Len(order) |->
         IF k \in {i, r}
         THEN [order[k] EXCEPT !.remaining = Reduced(@, TradeSize(r))]
         ELSE order[k]]
  BY DEF ExecuteTrade, Trade, Ids
<1>6. \A k \in Ids : order[k] \in Order
  BY <1>1 DEF Ids
<1>7. \A k \in Ids : order'[k] \in Order
  BY <1>4, <1>5, <1>6 DEF Order, Ids
<1>8. order' \in Seq(Order) /\ Len(order') = Len(order)
  BY <1>1, <1>5, <1>7 DEF Ids
<1> QED BY <1>3, <1>5, <1>6, <1>8 DEF Ids, Order
-----------------------------------------------------------------------------
LEMMA InitTypeInv == Init => TypeInv
<1> SUFFICES ASSUME Init PROVE TypeInv
  OBVIOUS
<1>1. order = <<>> /\ calls = <<>> /\ trades = <<>> /\ Len(calls) = 0
  BY DEF Init
<1>2. TypeOK
  <2>1. order \in Seq(Order) /\ calls \in Seq(Frame) /\ trades \in Seq(Execution)
    BY <1>1
  <2>2. /\ orders \in [Symbols -> SUBSET Ids]
        /\ resting \in [Symbols -> [Sides -> SUBSET Ids]]
    BY DEF Init
  <2>3. Len(calls) <= MaxDepth
    BY <1>1, EngineConstants
  <2> QED BY <2>1, <2>2, <2>3 DEF Init, TypeOK
<1> QED BY <1>1, <1>2 DEF TypeInv, FramesKnown

LEMMA NextTypeInv == TypeInv /\ [Next]_vars => TypeInv'
<1> SUFFICES ASSUME TypeInv, [Next]_vars PROVE TypeInv'
  OBVIOUS
<1> USE EngineConstants
<1>1. Len(order) \in Nat /\ Len(calls) \in Nat /\ calls \in Seq(Frame)
  BY DEF TypeInv, TypeOK
<1>2. ASSUME NEW b \in BOOLEAN, SetTradeNotifier(b) PROVE TypeInv'
  BY <1>2 DEF SetTradeNotifier, TypeInv, TypeOK, FramesKnown, Ids
<1>3. ASSUME NEW symbol \in Symbols, NEW price \in Prices, NEW size \in Sizes,
             NEW side \in Sides, PlaceOrder(symbol, price, size, side)
      PROVE  TypeInv'
  <2> DEFINE o == [symbol |-> symbol, price |-> price, size |-> size,
                   side |-> side, remaining |-> size]
             f == [incoming |-> Len(order) + 1, matched |-> NoOrder,
                   notify |-> tradeNotifier]
  <2>1. order' \in Seq(Order) /\ Len(order') = Len(order) + 1
    <3>1. o \in Order
      BY DEF Order
    <3> QED BY <1>3, <3>1 DEF PlaceOrder, TypeInv, TypeOK
  <2>2. f \in Frame
    BY <1>1 DEF Frame, NoOrder, TypeInv, TypeOK
  <2>3. calls' = <<f>> \o calls
    BY <1>3 DEF PlaceOrder
  <2> HIDE DEF f
  <2>4. /\ calls' \in Seq(Frame) /\ Len(calls') = Len(calls) + 1
        /\ \A k \in 1 .. Len(calls) + 1 :
             calls'[k] = IF k = 1 THEN f ELSE calls[k - 1]
    BY <1>1, <2>2, <2>3, PushedFrame
  <2>5. Len(calls') <= MaxDepth
    BY <1>3, <1>1, <2>4 DEF PlaceOrder, MayCall
  <2>6. FramesKnown'
    <3>1. Ids \subseteq Ids' /\ Len(order) + 1 \in Ids'
      BY <1>1, <2>1 DEF Ids
    <3>2. f.incoming = Len(order) + 1 /\ f.matched = NoOrder
      BY DEF f
    <3>3. ASSUME NEW k \in 1 .. Len(calls')
          PROVE  /\ calls'[k].incoming \in Ids'
                 /\ calls'[k].matched \in Ids' \cup {NoOrder}
      <4>1. CASE k = 1
        BY <1>1, <2>4, <3>1, <3>2, <4>1
      <4>2. CASE k # 1
        <5>1. k - 1 \in 1 .. Len(calls) /\ calls'[k] = calls[k - 1]
          BY <1>1, <2>4, <4>2
        <5> QED BY <3>1, <5>1 DEF TypeInv, FramesKnown
      <4> QED BY <4>1, <4>2
    <3> QED BY <3>3 DEF FramesKnown
  <2> QED
    BY <1>3, <1>1, <2>1, <2>4, <2>5, <2>6 DEF PlaceOrder, TypeInv, TypeOK, Ids
<1>4. ASSUME NEW r \in Ids, ExecuteTrade(r) PROVE TypeInv'
  <2> DEFINE i == Top.incoming
             f == [Top EXCEPT !.matched = r]
  <2>1. /\ order' \in Seq(Order) /\ Len(order') = Len(order) /\ Ids' = Ids
        /\ TradeSize(r) \in Int
    BY <1>4, TradedOrders DEF Ids
  <2>2. calls # <<>> /\ Top \in Frame /\ i \in Ids
    BY <1>4, TopFrame DEF ExecuteTrade, Matches
  <2>3. f \in Frame /\ f.incoming = i /\ f.matched = r
    <3>1. r \in Nat
      BY <1>1 DEF Ids
    <3> QED BY <2>2, <3>1 DEF Frame
  <2>4. calls' = <<f>> \o Tail(calls)
    BY <1>4 DEF ExecuteTrade, Trade, SetTop
  <2> HIDE DEF f, i
  <2>5. /\ calls' \in Seq(Frame) /\ Len(calls') = Len(calls)
        /\ \A k \in 1 .. Len(calls) :
             calls'[k] = IF k = 1 THEN f ELSE calls[k]
    BY <1>1, <2>2, <2>3, <2>4, ReplacedFrame
  <2>6. FramesKnown'
    BY <2>1, <2>2, <2>3, <2>5 DEF TypeInv, FramesKnown
  <2>7. trades' \in Seq(Execution)
    <3>1. order[i] \in Order /\ order[r] \in Order
      BY <2>2 DEF TypeInv, TypeOK, Ids
    <3>2. i \in Nat /\ r \in Nat /\ Top.notify \in BOOLEAN
      BY <1>1, <2>2 DEF Frame, Ids
    <3>3. order[i].symbol \in Symbols /\ order[r].price \in Int
      BY <3>1 DEF Order
    <3>4. [symbol |-> order[i].symbol, price |-> order[r].price,
           size |-> TradeSize(r),
           buy  |-> IF order[i].side = "BUY" THEN i ELSE r,
           sell |-> IF order[i].side = "BUY" THEN r ELSE i,
           notified |-> Top.notify] \in Execution
      BY <2>1, <3>2, <3>3 DEF Execution
    <3> QED BY <1>4, <3>4 DEF ExecuteTrade, Trade, TypeInv, TypeOK, i
  <2>8. resting' \in [Symbols -> [Sides -> SUBSET Ids]]
    BY <1>4 DEF ExecuteTrade, Trade, TypeInv, TypeOK
  <2> QED
    BY <1>4, <2>1, <2>5, <2>6, <2>7, <2>8 DEF ExecuteTrade, Trade, TypeInv, TypeOK
<1>5. ASSUME NotifierReturns PROVE TypeInv'
  <2> DEFINE f == [Top EXCEPT !.matched = NoOrder]
  <2>1. calls # <<>> /\ Top \in Frame /\ Top.incoming \in Ids
          /\ Top.matched \in Ids
    BY <1>5, TopFrame DEF NotifierReturns
  <2>2. f \in Frame /\ f.incoming = Top.incoming /\ f.matched = NoOrder
    BY <2>1 DEF Frame, NoOrder
  <2>3. calls' = <<f>> \o Tail(calls) /\ Ids' = Ids
    BY <1>5 DEF NotifierReturns, SetTop, Ids
  <2> HIDE DEF f
  <2>4. /\ calls' \in Seq(Frame) /\ Len(calls') = Len(calls)
        /\ \A k \in 1 .. Len(calls) :
             calls'[k] = IF k = 1 THEN f ELSE calls[k]
    BY <1>1, <2>1, <2>2, <2>3, ReplacedFrame
  <2>5. FramesKnown'
    BY <2>1, <2>2, <2>3, <2>4 DEF TypeInv, FramesKnown
  <2>6. /\ orders' \in [Symbols -> SUBSET Ids]
        /\ resting' \in [Symbols -> [Sides -> SUBSET Ids]]
    <3> DEFINE symbol == order[Top.incoming].symbol
               other == Opposite(order[Top.incoming].side)
    <3>1. \/ /\ resting' = [resting EXCEPT ![symbol][other] = @ \cup {Top.matched}]
             /\ orders' = orders
          \/ /\ orders' = [orders EXCEPT ![symbol] = @ \ {Top.matched}]
             /\ resting' = resting
      BY <1>5 DEF NotifierReturns
    <3>2. symbol \in Symbols /\ other \in Sides
      BY <2>1, PlacedOrder
    <3> HIDE DEF symbol, other
    <3>3. /\ [resting EXCEPT ![symbol][other] = @ \cup {Top.matched}]
               \in [Symbols -> [Sides -> SUBSET Ids]]
          /\ [orders EXCEPT ![symbol] = @ \ {Top.matched}]
               \in [Symbols -> SUBSET Ids]
      BY <2>1, <3>2, BookUpdated
    <3> QED BY <3>1, <3>3 DEF TypeInv, TypeOK
  <2> QED
    BY <1>5, <2>3, <2>4, <2>5, <2>6 DEF NotifierReturns, TypeInv, TypeOK
<1>6. ASSUME FinishMatch PROVE TypeInv'
  <2>1. calls # <<>> /\ Top.incoming \in Ids
    BY <1>6, TopFrame DEF FinishMatch
  <2>2. /\ calls' \in Seq(Frame) /\ Len(calls') = Len(calls) - 1
        /\ \A k \in 1 .. Len(calls') : calls'[k] = calls[k + 1]
        /\ Ids' = Ids
    BY <1>1, <1>6, <2>1, HeadTailProperties DEF FinishMatch, Ids
  <2>3. FramesKnown'
    BY <1>1, <2>2 DEF TypeInv, FramesKnown
  <2>4. /\ orders' \in [Symbols -> SUBSET Ids]
        /\ resting' \in [Symbols -> [Sides -> SUBSET Ids]]
    <3> DEFINE i == Top.incoming
               symbol == order[i].symbol
               side == order[i].side
    <3>1. \/ /\ resting' = [resting EXCEPT ![symbol][side] = @ \cup {i}]
             /\ orders' = [orders EXCEPT ![symbol] = @ \cup {i}]
          \/ resting' = resting /\ orders' = orders
      BY <1>6 DEF FinishMatch
    <3>2. i \in Ids /\ symbol \in Symbols /\ side \in Sides
      BY <2>1, PlacedOrder
    <3> HIDE DEF symbol, side, i
    <3>3. /\ [resting EXCEPT ![symbol][side] = @ \cup {i}]
               \in [Symbols -> [Sides -> SUBSET Ids]]
          /\ [orders EXCEPT ![symbol] = @ \cup {i}] \in [Symbols -> SUBSET Ids]
      BY <3>2, BookUpdated
    <3> QED BY <3>1, <3>3 DEF TypeInv, TypeOK
  <2>5. Len(calls') <= MaxDepth
    BY <1>1, <2>2 DEF TypeInv, TypeOK
  <2>6. UNCHANGED <<order, orderBooks, tradeNotifier, trades, cancelled>>
    BY <1>6 DEF FinishMatch
  <2>7. TypeOK'
    BY <2>2, <2>4, <2>5, <2>6 DEF TypeInv, TypeOK
  <2> QED BY <2>3, <2>7 DEF TypeInv
<1>7. ASSUME NEW id \in Ids, CancelOrder(id) PROVE TypeInv'
  <2>1. PICK s \in orderBooks :
               /\ orders' = [orders EXCEPT ![s] = @ \ {id}]
               /\ resting' = [resting EXCEPT ![s][order[id].side] = @ \ {id}]
    BY <1>7 DEF CancelOrder
  <2>2. s \in Symbols /\ order[id].side \in Sides
    BY PlacedOrder DEF TypeInv, TypeOK
  <2>3. /\ orders' \in [Symbols -> SUBSET Ids]
        /\ resting' \in [Symbols -> [Sides -> SUBSET Ids]]
    BY <2>1, <2>2, BookUpdated
  <2>4. /\ cancelled' = cancelled \cup {id}
        /\ UNCHANGED <<order, orderBooks, tradeNotifier, calls, trades>>
    BY <1>7 DEF CancelOrder
  <2> QED BY <2>3, <2>4 DEF TypeInv, TypeOK, FramesKnown, Ids
<1>8. ASSUME NEW symbol \in Symbols, GetMarketData(symbol) PROVE TypeInv'
  BY <1>8 DEF GetMarketData, TypeInv, TypeOK, FramesKnown, Ids
<1>9. CASE UNCHANGED vars
  BY <1>9 DEF vars, TypeInv, TypeOK, FramesKnown, Ids
<1> QED
  BY <1>2, <1>3, <1>4, <1>5, <1>6, <1>7, <1>8, <1>9
  DEF Next, ClientCall, EngineStep

(* The state keeps its shape, however deep the notifier calls back.        *)
THEOREM TypeCorrect == Spec => []TypeOK
<1>1. Spec => []TypeInv
  BY InitTypeInv, NextTypeInv, PTL DEF Spec
<1> QED BY <1>1, PTL DEF TypeInv
-----------------------------------------------------------------------------
(* What an order is never changes; only what is left of it does.           *)
LEMMA OrdersKept ==
  ASSUME TypeInv, [Next]_vars, NEW k \in Ids
  PROVE  /\ k \in Ids'
         /\ order'[k].symbol = order[k].symbol
         /\ order'[k].side = order[k].side
         /\ order'[k].price = order[k].price
<1>1. Len(order) \in Nat /\ order \in Seq(Order)
  BY DEF TypeInv, TypeOK
<1>2. ASSUME NEW symbol \in Symbols, NEW price \in Prices, NEW size \in Sizes,
             NEW side \in Sides, PlaceOrder(symbol, price, size, side)
      PROVE  k \in Ids' /\ order'[k] = order[k]
  BY <1>1, <1>2 DEF PlaceOrder, Ids
<1>3. ASSUME NEW r \in Ids, ExecuteTrade(r)
      PROVE  /\ k \in Ids' /\ order'[k].symbol = order[k].symbol
             /\ order'[k].side = order[k].side /\ order'[k].price = order[k].price
  BY <1>3, TradedOrders DEF Ids
<1> QED
  BY <1>2, <1>3 DEF Next, vars, ClientCall, EngineStep, SetTradeNotifier,
     NotifierReturns, FinishMatch, CancelOrder, GetMarketData, Ids

(* A frame of the next state is one of this state, has nothing taken out,  *)
(* or is the innermost one that has just taken r out.                      *)
LEMMA FramesKept ==
  ASSUME TypeInv, [Next]_vars, NEW k \in 1 .. Len(calls')
  PROVE  \/ calls'[k].matched = NoOrder
         \/ \E j \in 1 .. Len(calls) :
              /\ calls'[k].matched = calls[j].matched
              /\ calls'[k].incoming = calls[j].incoming
         \/ \E r \in Ids : /\ ExecuteTrade(r) /\ calls'[k].matched = r
                           /\ calls'[k].incoming = Top.incoming
<1>1. calls \in Seq(Frame) /\ Len(calls) \in Nat /\ Len(order) \in Nat
  BY DEF TypeInv, TypeOK
<1>2. ASSUME NEW symbol \in Symbols, NEW price \in Prices, NEW size \in Sizes,
             NEW side \in Sides, PlaceOrder(symbol, price, size, side)
      PROVE  \/ calls'[k].matched = NoOrder
             \/ calls'[k] = calls[k - 1] /\ k - 1 \in 1 .. Len(calls)
  <2> DEFINE f == [incoming |-> Len(order) + 1, matched |-> NoOrder,
                   notify |-> tradeNotifier]
  <2>1. f \in Frame /\ f.matched = NoOrder
    BY <1>1 DEF Frame, NoOrder, TypeInv, TypeOK
  <2>2. calls' = <<f>> \o calls
    BY <1>2 DEF PlaceOrder
  <2> HIDE DEF f
  <2>3. /\ Len(calls') = Len(calls) + 1
        /\ calls'[k] = IF k = 1 THEN f ELSE calls[k - 1]
    BY <1>1, <2>1, <2>2, PushedFrame
  <2> QED BY <1>1, <2>1, <2>3
<1>3. ASSUME NEW r \in Ids, ExecuteTrade(r)
      PROVE  \/ calls'[k].matched = r /\ calls'[k].incoming = Top.incoming
             \/ calls'[k] = calls[k] /\ k \in 1 .. Len(calls)
  <2> DEFINE f == [Top EXCEPT !.matched = r]
  <2>1. calls # <<>> /\ Top \in Frame
    BY <1>3, TopFrame DEF ExecuteTrade, Matches
  <2>2. f \in Frame /\ f.incoming = Top.incoming /\ f.matched = r
    <3>1. r \in Nat
      BY <1>1 DEF Ids
    <3> QED BY <2>1, <3>1 DEF Frame
  <2>3. calls' = <<f>> \o Tail(calls)
    BY <1>3 DEF ExecuteTrade, Trade, SetTop
  <2> HIDE DEF f
  <2>4. /\ Len(calls') = Len(calls)
        /\ calls'[k] = IF k = 1 THEN f ELSE calls[k]
    BY <1>1, <2>1, <2>2, <2>3, ReplacedFrame
  <2> QED BY <1>1, <2>2, <2>4
<1>4. ASSUME NotifierReturns
      PROVE  \/ calls'[k].matched = NoOrder
             \/ calls'[k] = calls[k] /\ k \in 1 .. Len(calls)
  <2> DEFINE f == [Top EXCEPT !.matched = NoOrder]
  <2>1. calls # <<>> /\ Top \in Frame
    BY <1>4, TopFrame DEF NotifierReturns
  <2>2. f \in Frame /\ f.matched = NoOrder
    BY <2>1 DEF Frame, NoOrder
  <2>3. calls' = <<f>> \o Tail(calls)
    BY <1>4 DEF NotifierReturns, SetTop
  <2> HIDE DEF f
  <2>4. /\ Len(calls') = Len(calls)
        /\ calls'[k] = IF k = 1 THEN f ELSE calls[k]
    BY <1>1, <2>1, <2>2, <2>3, ReplacedFrame
  <2> QED BY <1>1, <2>2, <2>4
<1>5. ASSUME FinishMatch
      PROVE  calls'[k] = calls[k + 1] /\ k + 1 \in 1 .. Len(calls)
  BY <1>1, <1>5, HeadTailProperties DEF FinishMatch
<1>6. ASSUME UNCHANGED calls PROVE calls'[k] = calls[k] /\ k \in 1 .. Len(calls)
  BY <1>6
<1> QED
  BY <1>2, <1>3, <1>4, <1>5, <1>6 DEF Next, vars, ClientCall, EngineStep,
     SetTradeNotifier, CancelOrder, GetMarketData

(* Resting orders are in the book of their symbol and the set of their     *)
(* side, and so is the order a match has taken out.                        *)
Filed ==
  \A s \in Symbols, side \in Sides : \A r \in resting[s][side] :
    order[r].symbol = s /\ order[r].side = side
TakenFromOtherSide ==
  \A k \in 1 .. Len(calls) : calls[k].matched # NoOrder =>
    /\ order[calls[k].matched].symbol = order[calls[k].incoming].symbol
    /\ order[calls[k].matched].side = Opposite(order[calls[k].incoming].side)
TradesKnown ==
  \A t \in 1 .. Len(trades) : trades[t].buy \in Ids /\ trades[t].sell \in Ids

LimitInv ==
  TypeInv /\ Filed /\ TakenFromOtherSide /\ TradesKnown /\ LimitsRespected

LEMMA InitLimitInv == Init => LimitInv
<1> SUFFICES ASSUME Init PROVE LimitInv
  OBVIOUS
<1>1. Filed
  BY DEF Init, Filed
<1>2. TakenFromOtherSide /\ TradesKnown /\ LimitsRespected
  BY DEF Init, TakenFromOtherSide, TradesKnown, LimitsRespected
<1> QED BY <1>1, <1>2, InitTypeInv DEF LimitInv

(* The order an iteration trades with, seen from the incoming order.       *)
LEMMA MatchedOrder ==
  ASSUME LimitInv, NEW r \in Ids, ExecuteTrade(r)
  PROVE  /\ Top.incoming \in Ids
         /\ order[r].symbol = order[Top.incoming].symbol
         /\ order[r].side = Opposite(order[Top.incoming].side)
         /\ Marketable(Top.incoming, r)
         /\ r \in resting[order[r].symbol][order[r].side]
<1>1. Top.incoming \in Ids
  BY TopFrame DEF ExecuteTrade, Matches, LimitInv
<1>2. order[Top.incoming].symbol \in Symbols
        /\ Opposite(order[Top.incoming].side) \in Sides
  BY <1>1, PlacedOrder DEF LimitInv
<1>3. r \in resting[order[Top.incoming].symbol][Opposite(order[Top.incoming].side)]
        /\ Marketable(Top.incoming, r)
  BY DEF ExecuteTrade, Matches, First
<1> QED BY <1>1, <1>2, <1>3 DEF LimitInv, Filed

LEMMA NextLimitInv == LimitInv /\ [Next]_vars => LimitInv'
<1> SUFFICES ASSUME LimitInv, [Next]_vars PROVE LimitInv'
  OBVIOUS
<1>1. TypeInv' /\ TypeInv
  BY NextTypeInv DEF LimitInv
<1>2. \A k \in Ids : /\ k \in Ids' /\ order'[k].symbol = order[k].symbol
                     /\ order'[k].side = order[k].side
                     /\ order'[k].price = order[k].price
  BY <1>1, OrdersKept
<1>3. TakenFromOtherSide'
  <2>1. ASSUME NEW k \in 1 .. Len(calls'), calls'[k].matched # NoOrder
        PROVE  /\ order'[calls'[k].matched].symbol = order'[calls'[k].incoming].symbol
               /\ order'[calls'[k].matched].side
                    = Opposite(order'[calls'[k].incoming].side)
    <3>1. ASSUME NEW j \in 1 .. Len(calls),
                 calls'[k].matched = calls[j].matched,
                 calls'[k].incoming = calls[j].incoming
          PROVE  /\ order'[calls'[k].matched].symbol
                      = order'[calls'[k].incoming].symbol
                 /\ order'[calls'[k].matched].side
                      = Opposite(order'[calls'[k].incoming].side)
      <4>1. calls[j].matched \in Ids /\ calls[j].incoming \in Ids
        BY <1>1, <2>1, <3>1 DEF TypeInv, FramesKnown
      <4> QED BY <1>2, <2>1, <3>1, <4>1 DEF LimitInv, TakenFromOtherSide
    <3>2. ASSUME NEW r \in Ids, ExecuteTrade(r), calls'[k].matched = r,
                 calls'[k].incoming = Top.incoming
          PROVE  /\ order'[calls'[k].matched].symbol
                      = order'[calls'[k].incoming].symbol
                 /\ order'[calls'[k].matched].side
                      = Opposite(order'[calls'[k].incoming].side)
      BY <1>2, <3>2, MatchedOrder
    <3> QED BY <1>1, <2>1, <3>1, <3>2, FramesKept
  <2> QED BY <2>1 DEF TakenFromOtherSide
<1>4. Filed'
  <2>1. ASSUME NEW s \in Symbols, NEW side \in Sides, NEW r \in resting'[s][side],
               r \notin resting[s][side]
        PROVE  r \in Ids /\ order[r].symbol = s /\ order[r].side = side
    <3>1. CASE NotifierReturns
      <4>1. calls # <<>> /\ Top = calls[1] /\ 1 \in 1 .. Len(calls)
              /\ Top.matched \in Ids /\ Top.incoming \in Ids
        BY <1>1, <3>1, TopFrame DEF NotifierReturns
      <4>2. /\ r = Top.matched /\ s = order[Top.incoming].symbol
            /\ side = Opposite(order[Top.incoming].side)
        <5> DEFINE symbol == order[Top.incoming].symbol
                   other == Opposite(order[Top.incoming].side)
        <5>1. \/ resting' = [resting EXCEPT ![symbol][other] = @ \cup {Top.matched}]
              \/ resting' = resting
          BY <3>1 DEF NotifierReturns
        <5>2. symbol \in Symbols /\ other \in Sides
          BY <1>1, <4>1, PlacedOrder
        <5> HIDE DEF symbol, other
        <5>3. r = Top.matched /\ s = symbol /\ side = other
          BY <1>1, <2>1, <5>1, <5>2 DEF TypeInv, TypeOK
        <5> QED BY <5>3 DEF symbol, other
      <4>3. Top.matched # NoOrder
        BY <3>1 DEF NotifierReturns
      <4> QED BY <4>1, <4>2, <4>3 DEF LimitInv, TakenFromOtherSide
    <3>2. CASE FinishMatch
      <4>1. Top.incoming \in Ids
        BY <1>1, <3>2, TopFrame DEF FinishMatch
      <4>2. /\ r = Top.incoming /\ s = order[Top.incoming].symbol
            /\ side = order[Top.incoming].side
        BY <1>1, <2>1, <3>2, <4>1, PlacedOrder DEF FinishMatch, TypeInv, TypeOK
      <4> QED BY <4>1, <4>2
    <3>3. ASSUME NEW i \in Ids, ExecuteTrade(i) PROVE FALSE
      BY <1>1, <2>1, <3>3 DEF ExecuteTrade, Trade, TypeInv, TypeOK
    <3>4. ASSUME NEW id \in Ids, CancelOrder(id) PROVE FALSE
      BY <1>1, <2>1, <3>4 DEF CancelOrder, TypeInv, TypeOK
    <3>5. CASE UNCHANGED resting
      BY <2>1, <3>5
    <3> QED
      BY <3>1, <3>2, <3>3, <3>4, <3>5 DEF Next, vars, ClientCall, EngineStep,
         SetTradeNotifier, PlaceOrder, GetMarketData
  <2>2. ASSUME NEW s \in Symbols, NEW side \in Sides, NEW r \in resting'[s][side]
        PROVE  order'[r].symbol = s /\ order'[r].side = side
    <3>1. r \in Ids /\ order[r].symbol = s /\ order[r].side = side
      BY <1>1, <2>1, <2>2 DEF LimitInv, Filed, TypeInv, TypeOK
    <3> QED BY <1>2, <3>1
  <2> QED BY <2>2 DEF Filed
<1>5. TradesKnown' /\ LimitsRespected'
  <2>1. ASSUME UNCHANGED trades PROVE TradesKnown' /\ LimitsRespected'
    BY <1>2, <2>1 DEF LimitInv, TradesKnown, LimitsRespected
  <2>2. ASSUME NEW r \in Ids, ExecuteTrade(r) PROVE TradesKnown' /\ LimitsRespected'
    <3> DEFINE i == Top.incoming
               buy == IF order[i].side = "BUY" THEN i ELSE r
               sell == IF order[i].side = "BUY" THEN r ELSE i
               last == [symbol |-> order[i].symbol, price |-> order[r].price,
                        size |-> TradeSize(r), buy |-> buy, sell |-> sell,
                        notified |-> Top.notify]
    <3>1. trades' = Append(trades, last) /\ trades \in Seq(Execution)
      BY <1>1, <2>2 DEF ExecuteTrade, Trade, TypeInv, TypeOK
    <3>2. /\ i \in Ids /\ order[r].symbol = order[i].symbol
          /\ order[r].side = Opposite(order[i].side) /\ Marketable(i, r)
      BY <2>2, MatchedOrder
    <3>3. /\ buy \in Ids /\ sell \in Ids
          /\ order[buy].side = "BUY" /\ order[sell].side = "SELL"
          /\ order[buy].symbol = order[i].symbol
          /\ order[sell].symbol = order[i].symbol
          /\ order[sell].price <= order[r].price
          /\ order[r].price <= order[buy].price
      <4>1. order[i].side \in Sides /\ order[i].price \in Int
              /\ order[r].price \in Int
        BY <1>1, <3>2, PlacedOrder
      <4> QED BY <3>2, <4>1 DEF Sides, Opposite, Marketable
    <3>4. /\ last.buy = buy /\ last.sell = sell /\ last.price = order[r].price
          /\ last.symbol = order[i].symbol
      OBVIOUS
    <3> HIDE DEF i, buy, sell, last
    <3>5. /\ Len(trades') = Len(trades) + 1 /\ Len(trades) \in Nat
          /\ \A t \in 1 .. Len(trades') :
               trades'[t] = IF t = Len(trades) + 1 THEN last ELSE trades[t]
      BY <3>1
    <3>6. TradesKnown'
      BY <1>2, <3>3, <3>4, <3>5 DEF LimitInv, TradesKnown
    <3>7. LimitsRespected'
      <4>1. ASSUME NEW t \in 1 .. Len(trades')
            PROVE  /\ order'[trades'[t].buy].side = "BUY"
                   /\ order'[trades'[t].sell].side = "SELL"
                   /\ order'[trades'[t].buy].symbol = trades'[t].symbol
                   /\ order'[trades'[t].sell].symbol = trades'[t].symbol
                   /\ order'[trades'[t].sell].price <= trades'[t].price
                   /\ trades'[t].price <= order'[trades'[t].buy].price
        <5>1. CASE t = Len(trades) + 1
          BY <1>2, <3>3, <3>4, <3>5, <5>1
        <5>2. CASE t # Len(trades) + 1
          <6>1. t \in 1 .. Len(trades) /\ trades'[t] = trades[t]
            BY <3>5, <5>2
          <6>2. trades[t].buy \in Ids /\ trades[t].sell \in Ids
            BY <6>1 DEF LimitInv, TradesKnown
          <6> QED BY <1>2, <6>1, <6>2 DEF LimitInv, LimitsRespected
        <5> QED BY <5>1, <5>2
      <4> QED BY <4>1 DEF LimitsRespected
    <3> QED BY <3>6, <3>7
  <2> QED
    BY <2>1, <2>2 DEF Next, vars, ClientCall, EngineStep, SetTradeNotifier,
       PlaceOrder, NotifierReturns, FinishMatch, CancelOrder, GetMarketData
<1> QED BY <1>1, <1>3, <1>4, <1>5 DEF LimitInv

(* No execution is outside either party's limit or across symbols, for any *)
(* notifier, at any nesting of its calls.                                  *)
THEOREM LimitsAreRespected == Spec => []LimitsRespected
<1>1. Spec => []LimitInv
  BY InitLimitInv, NextLimitInv, PTL DEF Spec
<1> QED BY <1>1, PTL DEF LimitInv
-----------------------------------------------------------------------------
(* Ids as strings.  A set of naturals has a least element.                 *)
LEMMA LeastOf ==
  ASSUME NEW I, I \subseteq Nat, I # {}
  PROVE  \E x \in I : \A y \in I : x <= y
<1> DEFINE R == OpToRel(<, Nat)
<1>1. IsWellFoundedOn(R, Nat)
  BY NatLessThanWellFounded, Zenon
<1>2. \A x, y \in Nat : x < y => <<x, y>> \in R
  BY DEF OpToRel
<1> HIDE DEF R
<1>3. PICK x \in I : \A y \in I : <<y, x>> \notin R
  BY <1>1, WFMin
<1>4. ASSUME NEW y \in I PROVE x <= y
  <2>1. x \in Nat /\ y \in Nat
    OBVIOUS
  <2>2. ~(y < x)
    BY <1>2, <1>3, <2>1
  <2> QED BY <2>1, <2>2
<1> QED BY <1>4

(* Some function does what Decimal is to do: f does it up to m.            *)
Digit(f, n) == IF n < 10 THEN <<n>> ELSE Append(f[n \div 10], n % 10)
DecimalUpTo(f, m) == \A n \in 0 .. m : f[n] = Digit(f, n)

LEMMA DivTen ==
  ASSUME NEW n \in Nat, n >= 10
  PROVE  /\ n \div 10 \in Nat \ {0} /\ n \div 10 < n
         /\ n % 10 \in 0 .. 9
OBVIOUS

LEMMA SameDivision ==
  ASSUME NEW n \in Nat, NEW m \in Nat, n \div 10 = m \div 10, n % 10 = m % 10
  PROVE  n = m
OBVIOUS

LEMMA UpToExists == \A m \in Nat : \E f : DecimalUpTo(f, m)
<1> DEFINE I == {m \in Nat : ~\E f : DecimalUpTo(f, m)}
<1> SUFFICES ASSUME I # {} PROVE FALSE
  OBVIOUS
<1>1. PICK m \in I : \A y \in I : m <= y
  <2>1. I \subseteq Nat
    OBVIOUS
  <2> HIDE DEF I
  <2> QED BY <2>1, LeastOf
<1>2. m \in Nat /\ ~\E f : DecimalUpTo(f, m)
  OBVIOUS
<1>3. CASE m = 0
  <2>1. DecimalUpTo([n \in {0} |-> <<n>>], m)
    BY <1>3 DEF DecimalUpTo, Digit
  <2> QED BY <1>2, <2>1
<1>4. CASE m # 0
  <2>1. m - 1 \in Nat /\ ~(m <= m - 1)
    BY <1>2, <1>4
  <2>2. PICK f : DecimalUpTo(f, m - 1)
    BY <1>1, <2>1
  <2> DEFINE g == [n \in 0 .. m |-> IF n = m THEN Digit(f, m) ELSE f[n]]
  <2>3. g[m] = Digit(f, m) /\ \A n \in 0 .. m - 1 : g[n] = f[n] /\ n \in 0 .. m
    BY <1>2
  <2> HIDE DEF g
  <2>4. ASSUME NEW n \in 0 .. m PROVE Digit(g, n) = Digit(f, n)
    <3>1. CASE n < 10
      BY <3>1 DEF Digit
    <3>2. CASE n >= 10
      <4>1. n \div 10 \in 0 .. m - 1
        BY <1>2, <3>2, DivTen
      <4> QED BY <4>1, <2>3 DEF Digit
    <3> QED BY <1>2, <3>1, <3>2
  <2>5. \A n \in 0 .. m : n = m \/ n \in 0 .. m - 1
    BY <1>2
  <2>6. DecimalUpTo(g, m)
    BY <2>2, <2>3, <2>4, <2>5 DEF DecimalUpTo
  <2> QED BY <1>2, <2>6
<1> QED BY <1>3, <1>4

LEMMA UpToUnique ==
  ASSUME NEW f, NEW g, NEW m \in Nat, NEW k \in Nat,
         DecimalUpTo(f, m), DecimalUpTo(g, k)
  PROVE  \A n \in Nat : n <= m /\ n <= k => f[n] = g[n]
<1> DEFINE I == {n \in Nat : n <= m /\ n <= k /\ f[n] # g[n]}
<1> SUFFICES ASSUME I # {} PROVE FALSE
  OBVIOUS
<1>1. PICK n \in I : \A y \in I : n <= y
  <2>1. I \subseteq Nat
    OBVIOUS
  <2> HIDE DEF I
  <2> QED BY <2>1, LeastOf
<1>2. n \in 0 .. m /\ n \in 0 .. k /\ f[n] # g[n] /\ n \in Nat
  OBVIOUS
<1>3. f[n] = Digit(f, n) /\ g[n] = Digit(g, n)
  BY <1>2 DEF DecimalUpTo
<1>4. CASE n < 10
  BY <1>2, <1>3, <1>4 DEF Digit
<1>5. CASE n >= 10
  <2>1. n \div 10 \in Nat /\ n \div 10 < n
    BY <1>2, <1>5, DivTen
  <2>2. n \div 10 \notin I
    <3> HIDE DEF I
    <3> QED BY <1>1, <1>2, <2>1
  <2>3. f[n \div 10] = g[n \div 10]
    BY <1>2, <2>1, <2>2
  <2>4. Digit(f, n) = Digit(g, n)
    BY <2>3 DEF Digit
  <2> QED BY <1>2, <1>3, <2>4
<1> QED BY <1>2, <1>4, <1>5

(* So Decimal does it everywhere.                                          *)
LEMMA DecimalUnfolds == \A n \in Nat : Decimal[n] = Digit(Decimal, n)
<1> DEFINE U(n) == CHOOSE f : DecimalUpTo(f, n)
           F == [n \in Nat |-> U(n)[n]]
<1>1. \A n \in Nat : DecimalUpTo(U(n), n)
  BY UpToExists
<1> HIDE DEF U
<1>2. ASSUME NEW n \in Nat PROVE F[n] = Digit(F, n)
  <2>1. F[n] = Digit(U(n), n)
    BY <1>1 DEF DecimalUpTo
  <2>2. CASE n < 10
    BY <2>1, <2>2 DEF Digit
  <2>3. CASE n >= 10
    <3>1. PICK d \in Nat : d = n \div 10 /\ d <= n
      BY <2>3, DivTen
    <3>2. U(n)[d] = U(d)[d]
      BY <1>1, <3>1, UpToUnique
    <3>3. F[d] = U(n)[d]
      BY <3>1, <3>2
    <3> HIDE DEF F
    <3>4. Digit(F, n) = Digit(U(n), n)
      BY <3>1, <3>3 DEF Digit
    <3> QED BY <2>1, <3>4
  <2> QED BY <2>2, <2>3
<1>3. F = [n \in Nat |-> IF n < 10 THEN <<n>> ELSE Append(F[n \div 10], n % 10)]
  <2>1. F = [n \in Nat |-> F[n]]
    OBVIOUS
  <2> HIDE DEF F
  <2> QED BY <1>2, <2>1 DEF Digit
<1> HIDE DEF F
<1>4. Decimal = [n \in Nat |-> IF n < 10 THEN <<n>>
                               ELSE Append(Decimal[n \div 10], n % 10)]
  BY <1>3 DEF Decimal
<1> QED BY <1>4 DEF Digit

(* A number is a sequence of digits, one for a number below ten and more   *)
(* for any other, and no two numbers have the same digits.                 *)
LEMMA DecimalDigits ==
  \A n \in Nat : /\ Decimal[n] \in Seq(Nat)
                 /\ Len(Decimal[n]) >= 1
                 /\ n >= 10 => Len(Decimal[n]) >= 2
<1> DEFINE P(n) == /\ Decimal[n] \in Seq(Nat)
                   /\ Len(Decimal[n]) >= 1
                   /\ n >= 10 => Len(Decimal[n]) >= 2
           I == {n \in Nat : ~P(n)}
<1> SUFFICES ASSUME I # {} PROVE FALSE
  OBVIOUS
<1>1. PICK n \in I : \A y \in I : n <= y
  <2>1. I \subseteq Nat
    OBVIOUS
  <2> HIDE DEF I
  <2> QED BY <2>1, LeastOf
<1>2. n \in Nat /\ ~P(n) /\ Decimal[n] = Digit(Decimal, n)
  BY DecimalUnfolds
<1>3. CASE n < 10
  <2>1. Decimal[n] = <<n>> /\ n \in 0 .. 9
    BY <1>2, <1>3 DEF Digit
  <2> QED BY <1>2, <1>3, <2>1
<1>4. CASE n >= 10
  <2>1. n \div 10 \in Nat /\ n \div 10 < n /\ n % 10 \in 0 .. 9
    BY <1>2, <1>4, DivTen
  <2>2. n \div 10 \notin I
    <3> HIDE DEF I
    <3> QED BY <1>1, <1>2, <2>1
  <2>3. /\ Decimal[n \div 10] \in Seq(Nat)
        /\ Len(Decimal[n \div 10]) \in Nat /\ Len(Decimal[n \div 10]) >= 1
    BY <2>1, <2>2
  <2>4. Decimal[n] = Append(Decimal[n \div 10], n % 10)
    BY <1>2, <1>4 DEF Digit
  <2> QED BY <1>2, <2>1, <2>3, <2>4
<1> QED BY <1>2, <1>3, <1>4

LEMMA DecimalInjective ==
  \A a, b \in Nat : Decimal[a] = Decimal[b] => a = b
<1> DEFINE I == {a \in Nat : \E b \in Nat : Decimal[a] = Decimal[b] /\ a # b}
<1> SUFFICES ASSUME I # {} PROVE FALSE
  OBVIOUS
<1>1. PICK a \in I : \A y \in I : a <= y
  <2>1. I \subseteq Nat
    OBVIOUS
  <2> HIDE DEF I
  <2> QED BY <2>1, LeastOf
<1>2. a \in Nat
  OBVIOUS
<1>3. PICK b \in Nat : Decimal[a] = Decimal[b] /\ a # b
  OBVIOUS
<1>4. ASSUME NEW n \in Nat, n < 10 PROVE Decimal[n] = <<n>> /\ Len(Decimal[n]) = 1
  <2>1. Decimal[n] = Digit(Decimal, n)
    BY DecimalUnfolds
  <2> QED BY <1>4, <2>1 DEF Digit
<1>5. ASSUME NEW n \in Nat, n >= 10
      PROVE  Decimal[n] = Append(Decimal[n \div 10], n % 10)
  <2>1. ~(n < 10) /\ Decimal[n] = Digit(Decimal, n)
    BY <1>5, DecimalUnfolds
  <2> QED BY <2>1 DEF Digit
<1>6. CASE a < 10
  <2>1. Len(Decimal[a]) = 1 /\ Decimal[a] = <<a>>
    BY <1>2, <1>4, <1>6
  <2>2. ~(b >= 10)
    <3>1. b >= 10 => Len(Decimal[b]) >= 2
      BY DecimalDigits
    <3> QED BY <1>3, <2>1, <3>1
  <2>3. Decimal[b] = <<b>>
    BY <1>4, <2>2
  <2>4. <<a>>[1] = <<b>>[1]
    BY <1>3, <2>1, <2>3
  <2> QED BY <1>3, <2>4
<1>7. CASE a >= 10
  <2>1. Len(Decimal[a]) >= 2
    BY <1>2, <1>7, DecimalDigits
  <2>2. b >= 10
    <3>1. CASE b < 10
      <4>1. Len(Decimal[b]) = 1
        BY <1>4, <3>1
      <4> QED BY <1>3, <2>1, <4>1
    <3> QED BY <3>1
  <2>3. PICK c \in Nat, d \in Nat : c = a \div 10 /\ c < a /\ d = b \div 10
    BY <1>2, <1>7, <2>2, DivTen
  <2>4. PICK p \in 0 .. 9, q \in 0 .. 9 : p = a % 10 /\ q = b % 10
    BY <1>2, <1>7, <2>2, DivTen
  <2>5. Append(Decimal[c], p) = Append(Decimal[d], q)
    <3>1. Decimal[a] = Append(Decimal[c], p)
      BY <1>2, <1>5, <1>7, <2>3, <2>4
    <3>2. Decimal[b] = Append(Decimal[d], q)
      BY <1>5, <2>2, <2>3, <2>4
    <3> QED BY <1>3, <3>1, <3>2
  <2>6. Decimal[c] \in Seq(Nat) /\ Decimal[d] \in Seq(Nat)
    BY DecimalDigits
  <2>7. Decimal[c] = Decimal[d] /\ p = q
    <3>1. PICK s \in Seq(Nat), t \in Seq(Nat) : s = Decimal[c] /\ t = Decimal[d]
      BY <2>6
    <3>2. Append(s, p) = Append(t, q)
      BY <2>5, <3>1
    <3>4. p \in Nat /\ q \in Nat
      OBVIOUS
    <3>3. s = t /\ p = q
      BY <3>2, <3>4, AppendInjective
    <3> QED BY <3>1, <3>3
  <2>8. c # d
    BY <1>2, <1>3, <2>3, <2>4, <2>7, SameDivision
  <2>9. c \in I
    BY <2>7, <2>8
  <2> HIDE DEF I
  <2> QED BY <1>1, <1>2, <2>3, <2>9
<1> QED BY <1>2, <1>6, <1>7

Digits(s) == Len(s) \in Nat /\ \A i \in 1 .. Len(s) : s[i] \in Nat

LEMMA DigitsOf == \A n \in Nat : Digits(Decimal[n])
<1> SUFFICES ASSUME NEW n \in Nat, NEW s \in Seq(Nat) PROVE Digits(s)
  BY DecimalDigits
<1> QED BY LenProperties, ElementOfSeq DEF Digits

(* The comparison of two strings of digits is decided at the first place   *)
(* where they differ, or by the end of the shorter one.                    *)
Agree(s, t, n) == \A i \in 1 .. n : s[i] = t[i]
LessAt(s, t, n) ==
  /\ n \in 0 .. Len(s) /\ n < Len(t) /\ Agree(s, t, n)
  /\ n = Len(s) \/ s[n + 1] < t[n + 1]

LEMMA LessTransitive ==
  ASSUME NEW s, NEW t, NEW u, Digits(s), Digits(t), Digits(u),
         NEW m, LessAt(s, t, m), NEW n, LessAt(t, u, n)
  PROVE  \E k : LessAt(s, u, k)
<1>1. /\ Len(s) \in Nat /\ Len(t) \in Nat /\ Len(u) \in Nat
      /\ \A i \in 1 .. Len(s) : s[i] \in Int
      /\ \A i \in 1 .. Len(t) : t[i] \in Int
      /\ \A i \in 1 .. Len(u) : u[i] \in Int
  BY DEF Digits
<1>2. /\ m \in Nat /\ m <= Len(s) /\ m < Len(t) /\ Agree(s, t, m)
      /\ m = Len(s) \/ s[m + 1] < t[m + 1]
      /\ n \in Nat /\ n <= Len(t) /\ n < Len(u) /\ Agree(t, u, n)
      /\ n = Len(t) \/ t[n + 1] < u[n + 1]
  BY <1>1 DEF LessAt
<1>3. CASE m < n
  <2>1. Agree(s, u, m)
    BY <1>2, <1>3 DEF Agree
  <2>2. t[m + 1] = u[m + 1]
    BY <1>2, <1>3 DEF Agree
  <2>3. LessAt(s, u, m)
    BY <1>1, <1>2, <1>3, <2>1, <2>2 DEF LessAt
  <2> QED BY <2>3
<1>4. CASE m = n
  <2>1. Agree(s, u, m)
    BY <1>2, <1>4 DEF Agree
  <2>2. m = Len(s) \/ s[m + 1] < u[m + 1]
    <3>1. CASE m # Len(s)
      <4>1. s[m + 1] \in Int /\ t[m + 1] \in Int /\ u[m + 1] \in Int
        BY <1>1, <1>2, <1>4, <3>1
      <4>2. s[m + 1] < t[m + 1] /\ t[m + 1] < u[m + 1]
        BY <1>2, <1>4, <3>1
      <4> QED BY <4>1, <4>2
    <3> QED BY <3>1
  <2>3. LessAt(s, u, m)
    BY <1>1, <1>2, <1>4, <2>1, <2>2 DEF LessAt
  <2> QED BY <2>3
<1>5. CASE n < m
  <2>1. Agree(s, u, n)
    BY <1>2, <1>5 DEF Agree
  <2>2. s[n + 1] = t[n + 1] /\ n # Len(t)
    BY <1>2, <1>5 DEF Agree
  <2>3. s[n + 1] < u[n + 1]
    BY <1>2, <2>2
  <2>4. LessAt(s, u, n)
    BY <1>1, <1>2, <1>5, <2>1, <2>3 DEF LessAt
  <2> QED BY <2>4
<1> QED BY <1>2, <1>3, <1>4, <1>5

LEMMA LessTotal ==
  ASSUME NEW s, NEW t, Digits(s), Digits(t),
         ~(Len(s) = Len(t) /\ \A i \in 1 .. Len(s) : s[i] = t[i])
  PROVE  (\E k : LessAt(s, t, k)) \/ (\E k : LessAt(t, s, k))
<1>1. /\ Len(s) \in Nat /\ Len(t) \in Nat
      /\ \A i \in 1 .. Len(s) : s[i] \in Int
      /\ \A i \in 1 .. Len(t) : t[i] \in Int
  BY DEF Digits
<1> DEFINE I == {n \in Nat : n >= Len(s) \/ n >= Len(t) \/ s[n + 1] # t[n + 1]}
<1>2. PICK n \in I : \A y \in I : n <= y
  <2>1. I \subseteq Nat /\ Len(s) \in I
    BY <1>1
  <2> HIDE DEF I
  <2> QED BY <2>1, LeastOf
<1>3. n \in Nat /\ (n >= Len(s) \/ n >= Len(t) \/ s[n + 1] # t[n + 1])
  OBVIOUS
<1>4. n <= Len(s) /\ n <= Len(t)
  <2>1. Len(s) \in I /\ Len(t) \in I
    BY <1>1
  <2> HIDE DEF I
  <2> QED BY <1>2, <2>1
<1>5. Agree(s, t, n) /\ Agree(t, s, n)
  <2>1. ASSUME NEW i \in 1 .. n PROVE s[i] = t[i]
    <3>1. i - 1 \in Nat /\ i - 1 < n /\ (i - 1) + 1 = i
      BY <1>3
    <3>2. i - 1 \notin I
      <4> HIDE DEF I
      <4> QED BY <1>2, <1>3, <3>1
    <3> QED BY <3>1, <3>2
  <2> QED BY <2>1 DEF Agree
<1>6. CASE n = Len(s) /\ n = Len(t)
  <2>1. Len(s) = Len(t) /\ \A i \in 1 .. Len(s) : s[i] = t[i]
    BY <1>5, <1>6 DEF Agree
  <2> QED BY <2>1
<1>7. CASE n = Len(s) /\ n # Len(t)
  <2>1. LessAt(s, t, n)
    BY <1>1, <1>3, <1>4, <1>5, <1>7 DEF LessAt
  <2> QED BY <2>1
<1>8. CASE n # Len(s) /\ n = Len(t)
  <2>1. LessAt(t, s, n)
    BY <1>1, <1>3, <1>4, <1>5, <1>8 DEF LessAt
  <2> QED BY <2>1
<1> HIDE DEF I
<1>9. CASE n # Len(s) /\ n # Len(t)
  <2>1. n < Len(s) /\ n < Len(t) /\ s[n + 1] # t[n + 1]
    BY <1>1, <1>3, <1>4, <1>9
  <2>2. s[n + 1] \in Int /\ t[n + 1] \in Int
    BY <1>1, <1>3, <2>1
  <2>3. LessAt(s, t, n) \/ LessAt(t, s, n)
    BY <1>1, <1>3, <1>5, <2>1, <2>2 DEF LessAt
  <2> QED BY <2>3
<1> QED BY <1>6, <1>7, <1>8, <1>9

LEMMA IdLessAt ==
  ASSUME NEW a, NEW b
  PROVE  IdLess(a, b) <=> \E n : LessAt(Decimal[a], Decimal[b], n)
BY DEF IdLess, LessAt, Agree

(* The comparison of ids as strings is a strict total order.               *)
LEMMA IdsAreOrdered == IdsOrdered(Nat \ {0})
<1> SUFFICES ASSUME NEW a \in Nat, NEW b \in Nat, NEW c \in Nat
             PROVE  /\ ~IdLess(a, a)
                    /\ IdLess(a, b) /\ IdLess(b, c) => IdLess(a, c)
                    /\ a # b => IdLess(a, b) \/ IdLess(b, a)
  BY DEF IdsOrdered
<1>1. Digits(Decimal[a]) /\ Digits(Decimal[b]) /\ Digits(Decimal[c])
  BY DigitsOf
<1>2. ~IdLess(a, a)
  <2>1. ASSUME NEW n, LessAt(Decimal[a], Decimal[a], n) PROVE FALSE
    <3>1. Len(Decimal[a]) \in Nat /\ \A i \in 1 .. Len(Decimal[a]) : Decimal[a][i] \in Int
      BY <1>1 DEF Digits
    <3>2. n \in 0 .. Len(Decimal[a]) /\ n < Len(Decimal[a])
            /\ (n = Len(Decimal[a]) \/ Decimal[a][n + 1] < Decimal[a][n + 1])
      BY <2>1 DEF LessAt
    <3> QED BY <3>1, <3>2
  <2> QED BY <2>1, IdLessAt
<1>3. IdLess(a, b) /\ IdLess(b, c) => IdLess(a, c)
  BY <1>1, IdLessAt, LessTransitive
<1>4. a # b => IdLess(a, b) \/ IdLess(b, a)
  <2>1. Decimal[a] \in Seq(Nat) /\ Decimal[b] \in Seq(Nat)
    BY DecimalDigits
  <2>2. a # b => Decimal[a] # Decimal[b]
    BY DecimalInjective
  <2>3. a # b => ~(/\ Len(Decimal[a]) = Len(Decimal[b])
                   /\ \A i \in 1 .. Len(Decimal[a]) : Decimal[a][i] = Decimal[b][i])
    BY <2>1, <2>2, SeqEqual
  <2> QED BY <1>1, <2>3, IdLessAt, LessTotal
<1> QED BY <1>2, <1>3, <1>4

(* Below ten it is the order of the numbers, and so of arrival.            *)
LEMMA IdsBelowTen ==
  ASSUME NEW a \in 1 .. 9, NEW b \in 1 .. 9
  PROVE  IdLess(a, b) <=> a < b
<1>1. Decimal[a] = <<a>> /\ Decimal[b] = <<b>>
  <2>1. /\ a \in Nat /\ b \in Nat /\ a < 10 /\ b < 10
    OBVIOUS
  <2>2. Decimal[a] = Digit(Decimal, a) /\ Decimal[b] = Digit(Decimal, b)
    BY <2>1, DecimalUnfolds
  <2> QED BY <2>1, <2>2 DEF Digit
<1>2. \A n : LessAt(<<a>>, <<b>>, n) <=> n = 0 /\ a < b
  BY DEF LessAt, Agree
<1> QED BY <1>1, <1>2, IdLessAt
-----------------------------------------------------------------------------
(* So the comparators order the ids of a book totally: a non-empty set has *)
(* a best order, and no other order of the set has a better price.         *)
LEMMA BeforeIsOrder ==
  ASSUME TypeInv, NEW side \in Sides,
         NEW a \in Ids, NEW b \in Ids, NEW c \in Ids
  PROVE  /\ ~Before(side, a, a)
         /\ Before(side, a, b) /\ Before(side, b, c) => Before(side, a, c)
         /\ a # b => Before(side, a, b) \/ Before(side, b, a)
<1>1. /\ order[a].price \in Int /\ order[b].price \in Int
      /\ order[c].price \in Int
  BY PlacedOrder
<1>2. a \in Nat \ {0} /\ b \in Nat \ {0} /\ c \in Nat \ {0}
  BY DEF Ids, TypeInv, TypeOK
<1>3. /\ ~IdLess(a, a)
      /\ IdLess(a, b) /\ IdLess(b, c) => IdLess(a, c)
      /\ a # b => IdLess(a, b) \/ IdLess(b, a)
  BY <1>2, IdsAreOrdered DEF IdsOrdered
<1> QED BY <1>1, <1>3 DEF Before, Sides

LEMMA BestExists ==
  ASSUME TypeInv, NEW s \in Symbols, NEW side \in Sides,
         resting[s][side] # {}
  PROVE  \E m \in resting[s][side] : m \in First(s, side)
<1> DEFINE X == resting[s][side]
           D(r) == {q \in X : Before(side, q, r)}
           T == {D(r) : r \in X}
<1>1. X \subseteq Ids /\ X # {}
  BY DEF TypeInv, TypeOK
<1>2. IsFiniteSet(X)
  <2>1. IsFiniteSet(Ids)
    BY FS_Interval DEF TypeInv, TypeOK, Ids
  <2> QED BY <1>1, <2>1, FS_Subset
<1>3. T \subseteq FiniteSubsetsOf(X) /\ T # {}
  <2>1. FiniteSubsetsOf(X) = SUBSET X
    BY <1>2, FS_FiniteSubsetsOfFinite
  <2>2. \A t \in T : t \in SUBSET X
    OBVIOUS
  <2>3. T # {}
    BY <1>1
  <2> HIDE DEF T, X
  <2> QED BY <2>1, <2>2, <2>3
<1>4. PICK x \in T : \A y \in T : <<y, x>> \notin StrictSubsetOrdering(X)
  <2>1. IsWellFoundedOn(StrictSubsetOrdering(X), FiniteSubsetsOf(X))
    BY FS_StrictSubsetOrderingWellFounded
  <2> HIDE DEF T
  <2> QED BY <1>3, <2>1, WFMin
<1>5. PICK m \in X : x = D(m)
  OBVIOUS
<1>6. ASSUME NEW q \in X \ {m}, ~Before(side, m, q) PROVE FALSE
  <2>1. m \in Ids /\ q \in Ids /\ m # q
    BY <1>1
  <2>2. Before(side, q, m) /\ ~Before(side, q, q)
    BY <1>6, <2>1, BeforeIsOrder
  <2>3. \A p \in X : Before(side, p, q) => Before(side, p, m)
    BY <1>1, <2>1, <2>2, BeforeIsOrder
  <2>4. D(q) \subseteq D(m) /\ D(q) # D(m)
    BY <2>2, <2>3
  <2>5. <<D(q), D(m)>> \in StrictSubsetOrdering(X)
    BY <2>4 DEF StrictSubsetOrdering
  <2> QED BY <1>4, <1>5, <2>5
<1> QED BY <1>5, <1>6 DEF First

LEMMA FirstHasBestPrice ==
  ASSUME TypeInv, NEW s \in Symbols, NEW side \in Sides,
         NEW m \in First(s, side), NEW q \in resting[s][side]
  PROVE  /\ side = "BUY" => order[q].price <= order[m].price
         /\ side = "SELL" => order[m].price <= order[q].price
<1>1. m \in resting[s][side] /\ (q # m => Before(side, m, q))
  BY DEF First
<1>2. m \in Ids /\ q \in Ids
  BY <1>1 DEF TypeInv, TypeOK
<1>3. order[m].price \in Int /\ order[q].price \in Int
  BY <1>2, PlacedOrder
<1> QED BY <1>1, <1>3 DEF Before, Sides
-----------------------------------------------------------------------------
(* Sums.  What the values of a function on a finite set add up to does not *)
(* depend on the order in which they are added; h gives the sum over every *)
(* subset.                                                                 *)
Sum(f, S) == MapThenSumSet(LAMBDA t : f[t], S)
Pick(s) == CHOOSE x \in s : TRUE
Adds(h, f, S) ==
  /\ h \in [SUBSET S -> Int] /\ h[{}] = 0
  /\ \A s \in SUBSET S : \A x \in s : h[s] = f[x] + h[s \ {x}]
Numbers(f, S) == IsFiniteSet(S) /\ \A x \in S : f[x] \in Int

(* Induction over finite sets: a family of subsets has a smallest one.     *)
LEMMA SmallestSubset ==
  ASSUME NEW S, IsFiniteSet(S), NEW T, T \subseteq SUBSET S, T # {}
  PROVE  \E s \in T : \A u \in T : u \subseteq s => u = s
<1>1. FiniteSubsetsOf(S) = SUBSET S
  BY FS_FiniteSubsetsOfFinite
<1>2. IsWellFoundedOn(StrictSubsetOrdering(S), FiniteSubsetsOf(S))
  BY FS_StrictSubsetOrderingWellFounded
<1>3. PICK s \in T : \A u \in T : <<u, s>> \notin StrictSubsetOrdering(S)
  BY <1>1, <1>2, WFMin
<1>4. ASSUME NEW u \in T, u \subseteq s PROVE u = s
  BY <1>3, <1>4 DEF StrictSubsetOrdering
<1> QED BY <1>4

LEMMA SumsExist ==
  ASSUME NEW f, NEW S, Numbers(f, S)
  PROVE  \E h : Adds(h, f, S)
<1> DEFINE T == {s \in SUBSET S : ~\E h : Adds(h, f, s)}
<1> SUFFICES ASSUME T # {} PROVE FALSE
  OBVIOUS
<1>1. PICK s \in T : \A u \in T : u \subseteq s => u = s
  <2> HIDE DEF T
  <2>1. T \subseteq SUBSET S
    BY DEF T
  <2> QED BY <2>1, SmallestSubset DEF Numbers
<1>2. s \in SUBSET S /\ ~\E h : Adds(h, f, s)
  OBVIOUS
<1>3. CASE s = {}
  <2> DEFINE h == [u \in SUBSET s |-> 0]
  <2>1. Adds(h, f, s)
    BY <1>3 DEF Adds
  <2> QED BY <1>2, <2>1
<1>4. CASE s # {}
  <2>1. PICK y \in s : TRUE
    BY <1>4
  <2>2. s \ {y} \in SUBSET S /\ s \ {y} \subseteq s /\ s \ {y} # s
    BY <1>2, <2>1
  <2>3. PICK g : Adds(g, f, s \ {y})
    BY <1>1, <2>2
  <2>4. /\ g \in [SUBSET (s \ {y}) -> Int] /\ g[{}] = 0
        /\ \A u \in SUBSET (s \ {y}) : \A x \in u : g[u] = f[x] + g[u \ {x}]
    BY <2>3 DEF Adds
  <2>5. f[y] \in Int /\ \A x \in s : f[x] \in Int
    BY <1>2, <2>1 DEF Numbers
  <2> DEFINE h == [u \in SUBSET s |-> IF y \in u THEN f[y] + g[u \ {y}]
                                              ELSE g[u]]
  <2>6. /\ \A u \in SUBSET s : y \in u => h[u] = f[y] + g[u \ {y}]
        /\ \A u \in SUBSET s : y \notin u => h[u] = g[u]
    OBVIOUS
  <2>7. h \in [SUBSET s -> Int]
    <3>1. ASSUME NEW u \in SUBSET s
          PROVE  (IF y \in u THEN f[y] + g[u \ {y}] ELSE g[u]) \in Int
      <4>1. CASE y \in u
        <5>1. g[u \ {y}] \in Int
          BY <2>4
        <5> QED BY <4>1, <5>1, <2>5
      <4>2. CASE y \notin u
        <5>1. u \in SUBSET (s \ {y})
          BY <4>2
        <5> QED BY <4>2, <5>1, <2>4
      <4> QED BY <4>1, <4>2
    <3> QED BY <3>1
  <2>8. h[{}] = 0
    BY <2>4, <2>6
  <2> HIDE DEF h
  <2>9. ASSUME NEW u \in SUBSET s, NEW x \in u
        PROVE  h[u] = f[x] + h[u \ {x}]
    <3>0. u \ {x} \in SUBSET s /\ f[x] \in Int
      BY <2>5
    <3>1. CASE y \in u /\ x = y
      BY <3>0, <3>1, <2>6
    <3>2. CASE y \in u /\ x # y
      <4>1. /\ u \ {y} \in SUBSET (s \ {y}) /\ x \in u \ {y} /\ y \in u \ {x}
            /\ (u \ {y}) \ {x} = (u \ {x}) \ {y}
            /\ (u \ {x}) \ {y} \in SUBSET (s \ {y})
        BY <3>2
      <4>2. g[u \ {y}] = f[x] + g[(u \ {x}) \ {y}]
        <5>1. g[u \ {y}] = f[x] + g[(u \ {y}) \ {x}]
          BY <4>1, <2>4
        <5> QED BY <5>1, <4>1
      <4>3. h[u] = f[y] + g[u \ {y}]
        BY <3>2, <2>6
      <4>4. h[u \ {x}] = f[y] + g[(u \ {x}) \ {y}]
        BY <3>0, <4>1, <2>6
      <4>5. g[(u \ {x}) \ {y}] \in Int
        BY <4>1, <2>4
      <4> QED BY <4>2, <4>3, <4>4, <4>5, <3>0, <2>5
    <3>3. CASE y \notin u
      <4>1. u \in SUBSET (s \ {y}) /\ y \notin u \ {x}
        BY <3>3
      <4>2. h[u] = g[u] /\ h[u \ {x}] = g[u \ {x}]
        BY <3>0, <3>3, <4>1, <2>6
      <4> QED BY <4>1, <4>2, <2>4
    <3> QED BY <3>1, <3>2, <3>3
  <2>10. Adds(h, f, s)
    BY <2>7, <2>8, <2>9 DEF Adds
  <2> QED BY <1>2, <2>10
<1> QED BY <1>3, <1>4

(* What is defined by taking one element away after the other is that sum. *)
TakesAway(g, f, S) ==
  /\ g = [s \in SUBSET S |-> g[s]]
  /\ \A s \in SUBSET S : g[s] = IF s = {} THEN 0 ELSE f[Pick(s)] + g[s \ {Pick(s)}]

LEMMA OnlySum ==
  ASSUME NEW f, NEW S, IsFiniteSet(S), NEW h, Adds(h, f, S),
         NEW g, TakesAway(g, f, S)
  PROVE  g = h
<1> DEFINE T == {s \in SUBSET S : g[s] # h[s]}
<1>1. \A s : s # {} => Pick(s) \in s
  BY DEF Pick
<1>2. /\ h \in [SUBSET S -> Int] /\ h[{}] = 0
      /\ \A s \in SUBSET S : \A x \in s : h[s] = f[x] + h[s \ {x}]
  BY DEF Adds
<1>3. ASSUME T # {} PROVE FALSE
  <2>1. PICK s \in T : \A u \in T : u \subseteq s => u = s
    <3>1. T \subseteq SUBSET S
      OBVIOUS
    <3> HIDE DEF T
    <3> QED BY <3>1, <1>3, SmallestSubset
  <2>2. s \in SUBSET S /\ g[s] # h[s]
    OBVIOUS
  <2>3. s # {}
    BY <2>2, <1>2 DEF TakesAway
  <2>4. Pick(s) \in s
    BY <2>3, <1>1
  <2>5. /\ s \ {Pick(s)} \in SUBSET S /\ s \ {Pick(s)} \subseteq s
        /\ s \ {Pick(s)} # s
    BY <2>2, <2>4
  <2>6. g[s \ {Pick(s)}] = h[s \ {Pick(s)}]
    BY <2>1, <2>5
  <2>7. g[s] = f[Pick(s)] + g[s \ {Pick(s)}]
    BY <2>2, <2>3 DEF TakesAway
  <2>8. h[s] = f[Pick(s)] + h[s \ {Pick(s)}]
    BY <1>2, <2>2, <2>4
  <2> QED BY <2>2, <2>6, <2>7, <2>8
<1>4. \A s \in SUBSET S : g[s] = h[s]
  BY <1>3
<1>5. h = [s \in SUBSET S |-> h[s]] /\ g = [s \in SUBSET S |-> g[s]]
  BY <1>2 DEF TakesAway
<1> HIDE DEF T
<1> QED BY <1>4, <1>5

LEMMA SumIs ==
  ASSUME NEW f, NEW S, IsFiniteSet(S), NEW h, Adds(h, f, S)
  PROVE  Sum(f, S) = h[S]
<1> DEFINE Body(g) == [s \in SUBSET S |-> IF s = {} THEN 0
                        ELSE f[Pick(s)] + g[s \ {Pick(s)}]]
<1>1. h = Body(h)
  <2>1. h = [s \in SUBSET S |-> h[s]]
    BY DEF Adds
  <2>2. \A s \in SUBSET S :
          h[s] = IF s = {} THEN 0 ELSE f[Pick(s)] + h[s \ {Pick(s)}]
    BY DEF Adds, Pick
  <2> QED BY <2>1, <2>2
<1>2. ASSUME NEW g, g = Body(g) PROVE g = h
  <2>1. g = [s \in SUBSET S |-> g[s]]
    BY <1>2
  <2>2. \A s \in SUBSET S :
          g[s] = IF s = {} THEN 0 ELSE f[Pick(s)] + g[s \ {Pick(s)}]
    BY <1>2
  <2>3. TakesAway(g, f, S)
    BY <2>1, <2>2 DEF TakesAway
  <2> HIDE DEF Body
  <2> QED BY <2>3, OnlySum
<1>3. Sum(f, S) = (CHOOSE g : g = Body(g))[S]
  BY Zenon DEF Sum, MapThenSumSet, MapThenFoldSet, Pick
<1> HIDE DEF Body
<1>4. (CHOOSE g : g = Body(g)) = h
  BY <1>1, <1>2
<1> QED BY <1>3, <1>4

LEMMA SumIsInt ==
  ASSUME NEW f, NEW S, Numbers(f, S)
  PROVE  Sum(f, S) \in Int
<1>1. PICK h : Adds(h, f, S)
  BY SumsExist
<1>2. h[S] \in Int
  BY <1>1 DEF Adds
<1> QED BY <1>1, <1>2, SumIs DEF Numbers

LEMMA SumOfNone ==
  ASSUME NEW f
  PROVE  Sum(f, {}) = 0
<1>1. Numbers(f, {}) /\ IsFiniteSet({})
  BY FS_EmptySet DEF Numbers
<1>2. PICK h : Adds(h, f, {})
  BY <1>1, SumsExist
<1>3. h[{}] = 0
  BY <1>2 DEF Adds
<1> QED BY <1>1, <1>2, <1>3, SumIs

LEMMA SumOfOneMore ==
  ASSUME NEW f, NEW S, NEW x, x \notin S, Numbers(f, S \cup {x})
  PROVE  Sum(f, S \cup {x}) = f[x] + Sum(f, S)
<1> DEFINE U == S \cup {x}
<1>1. PICK h : Adds(h, f, U)
  BY SumsExist
<1>2. /\ h \in [SUBSET U -> Int] /\ h[{}] = 0
      /\ \A s \in SUBSET U : \A y \in s : h[s] = f[y] + h[s \ {y}]
  BY <1>1 DEF Adds
<1>3. S \in SUBSET U /\ x \in U /\ U \in SUBSET U /\ U \ {x} = S
  OBVIOUS
<1>4. IsFiniteSet(U) /\ IsFiniteSet(S)
  <2>1. IsFiniteSet(U)
    BY DEF Numbers
  <2> QED BY <2>1, <1>3, FS_Subset
<1> HIDE DEF U
<1>5. Adds([s \in SUBSET S |-> h[s]], f, S)
  <2> DEFINE g == [s \in SUBSET S |-> h[s]]
  <2>1. \A s \in SUBSET S : s \in SUBSET U /\ g[s] = h[s]
    BY <1>3
  <2>2. g \in [SUBSET S -> Int]
    BY <1>2, <2>1
  <2>3. \A s \in SUBSET S : \A y \in s : s \ {y} \in SUBSET S
    OBVIOUS
  <2> HIDE DEF g
  <2>4. ASSUME NEW s \in SUBSET S, NEW y \in s
        PROVE  g[s] = f[y] + g[s \ {y}]
    <3>1. s \in SUBSET U /\ g[s] = h[s]
      BY <2>1
    <3>2. g[s \ {y}] = h[s \ {y}]
      BY <2>1, <2>3
    <3>3. h[s] = f[y] + h[s \ {y}]
      BY <1>2, <3>1
    <3> QED BY <3>1, <3>2, <3>3
  <2>5. g[{}] = 0
    BY <1>2, <2>1
  <2> QED BY <2>2, <2>4, <2>5 DEF Adds, g
<1>6. Sum(f, S) = h[S]
  BY <1>4, <1>5, SumIs
<1>7. Sum(f, U) = h[U]
  BY <1>1, <1>4, SumIs
<1>8. h[U] = f[x] + h[S]
  BY <1>2, <1>3
<1> QED BY <1>6, <1>7, <1>8 DEF U

LEMMA SumOfSame ==
  ASSUME NEW f, NEW e, NEW S, Numbers(f, S),
         \A x \in S : f[x] = e[x]
  PROVE  Sum(f, S) = Sum(e, S)
<1>1. PICK h : Adds(h, f, S)
  BY SumsExist
<1>2. Adds(h, e, S)
  BY <1>1 DEF Adds
<1> QED BY <1>1, <1>2, SumIs DEF Numbers

(* One value less, by q.                                                   *)
LEMMA SumOfOneLess ==
  ASSUME NEW f, NEW e, NEW S, NEW x \in S, NEW q \in Int,
         Numbers(f, S), Numbers(e, S),
         e[x] = f[x] - q, \A y \in S \ {x} : e[y] = f[y]
  PROVE  Sum(e, S) = Sum(f, S) - q
<1> DEFINE R == S \ {x}
<1>1. S = R \cup {x} /\ x \notin R
  OBVIOUS
<1>2. Numbers(f, R) /\ Numbers(e, R)
  BY FS_Subset DEF Numbers
<1> HIDE DEF R
<1>3. Sum(f, S) = f[x] + Sum(f, R)
  BY <1>1, SumOfOneMore
<1>4. Sum(e, S) = e[x] + Sum(e, R)
  BY <1>1, SumOfOneMore
<1>5. Sum(e, R) = Sum(f, R)
  <2>1. \A y \in R : f[y] = e[y]
    BY DEF R
  <2> QED BY <1>2, <2>1, SumOfSame
<1>6. Sum(f, R) \in Int /\ f[x] \in Int
  BY <1>2, SumIsInt DEF Numbers
<1> QED BY <1>3, <1>4, <1>5, <1>6

LEMMA SumOfNats ==
  ASSUME NEW f, NEW S, IsFiniteSet(S), \A x \in S : f[x] \in Nat
  PROVE  Sum(f, S) \in Nat
<1> DEFINE T == {s \in SUBSET S : Sum(f, s) \notin Nat}
<1> SUFFICES ASSUME T # {} PROVE FALSE
  OBVIOUS
<1>1. PICK s \in T : \A u \in T : u \subseteq s => u = s
  <2>1. T \subseteq SUBSET S
    OBVIOUS
  <2> HIDE DEF T
  <2> QED BY <2>1, SmallestSubset
<1>2. s \in SUBSET S /\ Sum(f, s) \notin Nat
  OBVIOUS
<1>3. PICK x \in s : TRUE
  BY <1>2, SumOfNone
<1>4. PICK u : u = s \ {x}
  OBVIOUS
<1>5. Sum(f, u) \in Nat
  <2>1. u \in SUBSET S /\ u \subseteq s /\ u # s
    BY <1>2, <1>3, <1>4
  <2> QED BY <1>1, <2>1
<1>6. s = u \cup {x} /\ x \notin u
  BY <1>3, <1>4
<1>7. Numbers(f, s) /\ f[x] \in Nat
  BY <1>2, <1>3, FS_Subset DEF Numbers
<1> HIDE DEF T
<1>8. Sum(f, s) = f[x] + Sum(f, u)
  BY <1>6, <1>7, SumOfOneMore
<1> QED BY <1>2, <1>5, <1>7, <1>8

(* The sizes of a set of trades.                                           *)
Total(list, S) == MapThenSumSet(LAMBDA t : list[t].size, S)
SizesOf(list) == [t \in 1 .. Len(list) |-> list[t].size]

LEMMA TotalIsSum ==
  ASSUME NEW list \in Seq(Execution), NEW S \in SUBSET (1 .. Len(list))
  PROVE  /\ Numbers(SizesOf(list), S) /\ Total(list, S) = Sum(SizesOf(list), S)
         /\ Total(list, S) \in Int
<1> DEFINE f == SizesOf(list)
           Body(g) == [s \in SUBSET S |-> IF s = {} THEN 0
                         ELSE list[Pick(s)].size + g[s \ {Pick(s)}]]
<1>1. IsFiniteSet(S)
  <2>1. Len(list) \in Nat
    OBVIOUS
  <2>2. IsFiniteSet(1 .. Len(list))
    BY <2>1, FS_Interval
  <2> QED BY <2>2, FS_Subset
<1>2. \A t \in S : f[t] = list[t].size /\ f[t] \in Int
  <2>1. ASSUME NEW t \in S PROVE f[t] = list[t].size /\ f[t] \in Int
    <3>1. list[t] \in Execution /\ f[t] = list[t].size
      BY DEF SizesOf
    <3> QED BY <3>1 DEF Execution
  <2> QED BY <2>1
<1>3. Numbers(f, S)
  BY <1>1, <1>2 DEF Numbers
<1> HIDE DEF f
<1>4. PICK h : Adds(h, f, S)
  BY <1>3, SumsExist
<1>5. h = Body(h)
  <2>1. h = [s \in SUBSET S |-> h[s]]
    BY <1>4 DEF Adds
  <2>2. ASSUME NEW s \in SUBSET S
        PROVE  h[s] = IF s = {} THEN 0 ELSE list[Pick(s)].size + h[s \ {Pick(s)}]
    <3>1. CASE s = {}
      BY <1>4, <3>1 DEF Adds
    <3>2. CASE s # {}
      <4>1. Pick(s) \in s
        BY <3>2 DEF Pick
      <4>2. h[s] = f[Pick(s)] + h[s \ {Pick(s)}]
        BY <1>4, <4>1 DEF Adds
      <4> QED BY <1>2, <3>2, <4>1, <4>2
    <3> QED BY <3>1, <3>2
  <2> QED BY <2>1, <2>2
<1>6. ASSUME NEW g, g = Body(g) PROVE g = h
  <2>1. g = [s \in SUBSET S |-> g[s]]
    BY <1>6
  <2>2. \A s \in SUBSET S :
          g[s] = IF s = {} THEN 0 ELSE list[Pick(s)].size + g[s \ {Pick(s)}]
    BY <1>6
  <2>3. \A s \in SUBSET S : s # {} => f[Pick(s)] = list[Pick(s)].size
    BY <1>2 DEF Pick
  <2>4. \A s \in SUBSET S :
          g[s] = IF s = {} THEN 0 ELSE f[Pick(s)] + g[s \ {Pick(s)}]
    BY <2>2, <2>3
  <2>5. TakesAway(g, f, S)
    BY <2>1, <2>4 DEF TakesAway
  <2> HIDE DEF Body
  <2> QED BY <1>1, <1>4, <2>5, OnlySum
<1>7. Total(list, S) = (CHOOSE g : g = Body(g))[S]
  BY Zenon DEF Total, MapThenSumSet, MapThenFoldSet, Pick
<1> HIDE DEF Body
<1>8. (CHOOSE g : g = Body(g)) = h
  BY <1>5, <1>6
<1>9. Sum(f, S) = h[S]
  BY <1>1, <1>4, SumIs
<1> QED BY <1>3, <1>7, <1>8, <1>9, SumIsInt DEF f
-----------------------------------------------------------------------------
(* The account of one order: what was placed, and what was executed of it. *)
AccountHolds(id) ==
  order[id].size = order[id].remaining + Total(trades, FillsOf(id))

FillInv == LimitInv /\ \A id \in Ids : AccountHolds(id)

LEMMA FillsAreTrades ==
  ASSUME TypeInv, NEW id
  PROVE  /\ trades \in Seq(Execution) /\ FillsOf(id) \in SUBSET (1 .. Len(trades))
         /\ Numbers(SizesOf(trades), FillsOf(id))
         /\ Total(trades, FillsOf(id)) = Sum(SizesOf(trades), FillsOf(id))
         /\ Total(trades, FillsOf(id)) \in Int
<1>1. trades \in Seq(Execution) /\ FillsOf(id) \in SUBSET (1 .. Len(trades))
  BY DEF TypeInv, TypeOK, FillsOf
<1> QED BY <1>1, TotalIsSum

(* A new order starts with nothing executed.                               *)
LEMMA PlaceOrderAccounts ==
  ASSUME FillInv, NEW symbol \in Symbols, NEW price \in Prices, NEW size \in Sizes,
         NEW side \in Sides, PlaceOrder(symbol, price, size, side)
  PROVE  \A id \in Ids' : AccountHolds(id)'
<1> DEFINE o == [symbol |-> symbol, price |-> price, size |-> size,
                 side |-> side, remaining |-> size]
<1>1. /\ order \in Seq(Order) /\ Len(order) \in Nat
      /\ order' = Append(order, o) /\ trades' = trades
  BY DEF FillInv, LimitInv, TypeInv, TypeOK, PlaceOrder
<1>2. /\ Len(order') = Len(order) + 1 /\ order'[Len(order) + 1] = o
      /\ \A id \in Ids : order'[id] = order[id]
  BY <1>1 DEF Ids
<1>3. \A id : FillsOf(id)' = FillsOf(id)
  BY <1>1 DEF FillsOf
<1>4. ASSUME NEW id \in Ids PROVE AccountHolds(id)'
  BY <1>1, <1>2, <1>3 DEF FillInv, AccountHolds
<1>5. ASSUME NEW id, id = Len(order) + 1 PROVE AccountHolds(id)'
  <2>1. FillsOf(id) = {}
    BY <1>1, <1>5 DEF FillsOf, FillInv, LimitInv, TradesKnown, Ids
  <2>2. Total(trades, FillsOf(id)) = 0
    BY <2>1, FillsAreTrades, SumOfNone DEF FillInv, LimitInv
  <2>3. order'[id].size = size /\ order'[id].remaining = size /\ size \in Int
    BY <1>2, <1>5, EngineConstants
  <2>4. Total(trades', FillsOf(id)') = 0
    BY <1>1, <1>3, <2>2
  <2>5. order'[id].size = order'[id].remaining + Total(trades', FillsOf(id)')
    BY <2>3, <2>4
  <2> QED BY <2>5 DEF AccountHolds
<1>6. \A id \in Ids' : id \in Ids \/ id = Len(order) + 1
  BY <1>1, <1>2 DEF Ids
<1> HIDE DEF o
<1>7. ASSUME NEW id \in Ids' PROVE AccountHolds(id)'
  BY <1>4, <1>5, <1>6
<1> QED BY <1>7

(* An execution is a fill of its two parties, and of no other order.       *)
LEMMA ExecutionFills ==
  ASSUME FillInv, NEW r \in Ids, ExecuteTrade(r)
  PROVE  /\ trades' \in Seq(Execution) /\ Len(trades) \in Nat
         /\ Len(trades') = Len(trades) + 1
         /\ trades'[Len(trades) + 1].size = TradeSize(r)
         /\ \A t \in 1 .. Len(trades) : trades'[t] = trades[t]
         /\ \A id \in {r, Top.incoming} :
              FillsOf(id)' = FillsOf(id) \cup {Len(trades) + 1}
         /\ \A id \in Ids \ {r, Top.incoming} : FillsOf(id)' = FillsOf(id)
<1> DEFINE i == Top.incoming
           buy == IF order[i].side = "BUY" THEN i ELSE r
           sell == IF order[i].side = "BUY" THEN r ELSE i
           last == [symbol |-> order[i].symbol, price |-> order[r].price,
                    size |-> TradeSize(r), buy |-> buy, sell |-> sell,
                    notified |-> Top.notify]
<1>1. trades \in Seq(Execution) /\ trades' = Append(trades, last)
  BY DEF FillInv, LimitInv, TypeInv, TypeOK, ExecuteTrade, Trade
<1>2. TypeInv'
  BY NextTypeInv DEF FillInv, LimitInv, Next, EngineStep
<1>3. trades' \in Seq(Execution)
  BY <1>2 DEF TypeInv, TypeOK
<1>4. last.size = TradeSize(r) /\ last.buy = buy /\ last.sell = sell
  OBVIOUS
<1>5. {buy, sell} = {r, i}
  OBVIOUS
<1> HIDE DEF i, buy, sell, last
<1>6. /\ Len(trades) \in Nat /\ Len(trades') = Len(trades) + 1
      /\ trades'[Len(trades) + 1] = last
      /\ \A t \in 1 .. Len(trades) : trades'[t] = trades[t]
  BY <1>1
<1>7. ASSUME NEW id
      PROVE  FillsOf(id)' = FillsOf(id) \cup
               (IF id \in {r, i} THEN {Len(trades) + 1} ELSE {})
  <2>1. last.buy = id \/ last.sell = id <=> id \in {r, i}
    BY <1>4, <1>5
  <2>2. FillsOf(id)' = {t \in 1 .. Len(trades) + 1 :
                          trades'[t].buy = id \/ trades'[t].sell = id}
    BY <1>6 DEF FillsOf
  <2>3. \A t : t \in 1 .. Len(trades) + 1 <=>
                 t \in 1 .. Len(trades) \/ t = Len(trades) + 1
    BY <1>6
  <2>4. \A t : t \in FillsOf(id)' <=>
                 \/ t \in FillsOf(id)
                 \/ t = Len(trades) + 1 /\ id \in {r, i}
    BY <1>6, <2>1, <2>2, <2>3 DEF FillsOf
  <2> QED BY <2>4
<1> QED BY <1>3, <1>4, <1>6, <1>7 DEF i

LEMMA ExecuteTradeAccounts ==
  ASSUME FillInv, NEW r \in Ids, ExecuteTrade(r)
  PROVE  \A id \in Ids' : AccountHolds(id)'
<1>1. TypeInv /\ TypeInv'
  BY NextTypeInv DEF FillInv, LimitInv, Next, EngineStep
<1>2. Top.incoming \in Ids /\ Ids' = Ids
  BY MatchedOrder, TradedOrders, <1>1 DEF FillInv, Ids
<1>3. ASSUME NEW id \in Ids
      PROVE  Sum(SizesOf(trades'), FillsOf(id)) = Total(trades, FillsOf(id))
  <2>1. PICK f, g, S : f = SizesOf(trades) /\ g = SizesOf(trades') /\ S = FillsOf(id)
    OBVIOUS
  <2>2. /\ Numbers(f, S) /\ Total(trades, FillsOf(id)) = Sum(f, S)
        /\ S \in SUBSET (1 .. Len(trades))
    BY <1>1, <2>1, FillsAreTrades
  <2>3. ASSUME NEW t \in S PROVE f[t] = g[t]
    <3>1. t \in 1 .. Len(trades) /\ t \in 1 .. Len(trades')
      BY <2>2, ExecutionFills
    <3>2. trades'[t] = trades[t]
      BY <3>1, ExecutionFills
    <3> QED BY <2>1, <3>1, <3>2 DEF SizesOf
  <2> QED BY <2>1, <2>2, <2>3, SumOfSame
<1>4. ASSUME NEW id
       PROVE  /\ trades' \in Seq(Execution)
              /\ FillsOf(id)' \in SUBSET (1 .. Len(trades'))
              /\ Numbers(SizesOf(trades'), FillsOf(id)')
              /\ Total(trades', FillsOf(id)') = Sum(SizesOf(trades'), FillsOf(id)')
  <2>1. trades' \in Seq(Execution) /\ FillsOf(id)' \in SUBSET (1 .. Len(trades'))
    BY <1>1 DEF TypeInv, TypeOK, FillsOf
  <2> QED BY <2>1, TotalIsSum
<1>5. ASSUME NEW id \in Ids \ {r, Top.incoming} PROVE AccountHolds(id)'
  <2>1. order'[id] = order[id] /\ FillsOf(id)' = FillsOf(id)
    BY <1>1, TradedOrders, ExecutionFills
  <2>2. AccountHolds(id)
    BY DEF FillInv
  <2>3. Total(trades', FillsOf(id)') = Total(trades, FillsOf(id))
    <3>1. Total(trades', FillsOf(id)') = Sum(SizesOf(trades'), FillsOf(id)')
      BY <1>4
    <3> QED BY <1>3, <2>1, <3>1
  <2> QED BY <2>1, <2>2, <2>3 DEF AccountHolds
<1>6. ASSUME NEW id \in {r, Top.incoming} PROVE AccountHolds(id)'
  <2>1. PICK n : n = Len(trades) + 1
    OBVIOUS
  <2>2. /\ FillsOf(id)' = FillsOf(id) \cup {n} /\ n \notin FillsOf(id)
        /\ trades'[n].size = TradeSize(r)
    BY <2>1, ExecutionFills DEF FillsOf
  <2>4. Total(trades', FillsOf(id)') = TradeSize(r) + Total(trades, FillsOf(id))
    <3>1. PICK f, S : f = SizesOf(trades') /\ S = FillsOf(id)
      OBVIOUS
    <3>2. Numbers(f, S \cup {n}) /\ n \notin S
      BY <1>4, <2>2, <3>1
    <3>3. Sum(f, S \cup {n}) = f[n] + Sum(f, S)
      BY <3>2, SumOfOneMore
    <3>4. f[n] = TradeSize(r)
      <4>1. n \in 1 .. Len(trades')
        BY <1>4, <2>2
      <4> QED BY <2>2, <3>1, <4>1 DEF SizesOf
    <3>5. Total(trades', FillsOf(id)') = Sum(f, S \cup {n})
      BY <1>4, <2>2, <3>1
    <3> QED BY <1>2, <1>3, <3>1, <3>3, <3>4, <3>5
  <2>5. /\ id \in Ids /\ order[id].remaining \in Int /\ order[id].size \in Int
        /\ order[Top.incoming].remaining \in Int /\ order[r].remaining \in Int
    BY <1>1, <1>2, PlacedOrder, EngineConstants DEF Order
  <2>6. TradeSize(r) \in Int /\ TradeSize(r) <= order[id].remaining
    BY <2>5 DEF TradeSize, Minimum
  <2>7. /\ order'[id].size = order[id].size
        /\ order'[id].remaining = order[id].remaining - TradeSize(r)
    <3>1. order'[id] = [order[id] EXCEPT
                          !.remaining = Reduced(@, TradeSize(r))]
      BY <2>5 DEF ExecuteTrade, Trade
    <3>2. order[id] \in Order
      BY <1>1, <2>5, PlacedOrder
    <3>3. Reduced(order[id].remaining, TradeSize(r))
            = order[id].remaining - TradeSize(r)
      BY <2>5, <2>6 DEF Reduced
    <3> QED BY <3>1, <3>2, <3>3 DEF Order
  <2>8. order[id].size = order[id].remaining + Total(trades, FillsOf(id))
    BY <2>5 DEF FillInv, AccountHolds
  <2>9. Total(trades, FillsOf(id)) \in Int
    BY <1>1, FillsAreTrades
  <2>10. order'[id].size = order'[id].remaining + Total(trades', FillsOf(id)')
    BY <2>4, <2>5, <2>6, <2>7, <2>8, <2>9
  <2> QED BY <2>10 DEF AccountHolds
<1> QED BY <1>2, <1>5, <1>6

LEMMA NextFillInv == FillInv /\ [Next]_vars => FillInv'
<1> SUFFICES ASSUME FillInv, [Next]_vars PROVE FillInv'
  OBVIOUS
<1>1. LimitInv'
  BY NextLimitInv DEF FillInv
<1>2. ASSUME UNCHANGED <<order, trades>> PROVE \A id \in Ids' : AccountHolds(id)'
  BY <1>2 DEF FillInv, AccountHolds, FillsOf, Ids
<1>3. CASE \E symbol \in Symbols, price \in Prices, size \in Sizes, side \in Sides :
             PlaceOrder(symbol, price, size, side)
  BY <1>1, <1>3, PlaceOrderAccounts DEF FillInv
<1>4. CASE \E r \in Ids : ExecuteTrade(r)
  BY <1>1, <1>4, ExecuteTradeAccounts DEF FillInv
<1>5. \/ UNCHANGED <<order, trades>>
      \/ \E symbol \in Symbols, price \in Prices, size \in Sizes, side \in Sides :
           PlaceOrder(symbol, price, size, side)
      \/ \E r \in Ids : ExecuteTrade(r)
  <2>1. \/ UNCHANGED vars \/ \E b \in BOOLEAN : SetTradeNotifier(b)
        \/ \E symbol \in Symbols, price \in Prices, size \in Sizes, side \in Sides :
             PlaceOrder(symbol, price, size, side)
        \/ \E id \in Ids : CancelOrder(id)
        \/ \E symbol \in Symbols : GetMarketData(symbol)
        \/ \E r \in Ids : ExecuteTrade(r)
        \/ NotifierReturns \/ FinishMatch
    BY DEF Next, ClientCall, EngineStep
  <2>2. UNCHANGED vars \/ NotifierReturns \/ FinishMatch
          => UNCHANGED <<order, trades>>
    BY DEF vars, NotifierReturns, FinishMatch
  <2>3. \A b : SetTradeNotifier(b) => UNCHANGED <<order, trades>>
    BY DEF SetTradeNotifier
  <2>4. \A id : CancelOrder(id) => UNCHANGED <<order, trades>>
    BY DEF CancelOrder
  <2>5. \A symbol : GetMarketData(symbol) => UNCHANGED <<order, trades>>
    BY DEF GetMarketData
  <2> QED BY <2>1, <2>2, <2>3, <2>4, <2>5
<1> QED BY <1>1, <1>2, <1>3, <1>4, <1>5 DEF FillInv

(* Whatever the notifier does and whatever sizes are placed, zero and      *)
(* negative ones included, the executions of an order and what is left of  *)
(* it add up to the size it was placed with.                               *)
THEOREM FillsAddUp == Spec => []FillsAccountForSize
<1>1. Init => FillInv
  BY InitLimitInv DEF Init, FillInv, Ids
<1>2. FillInv => FillsAccountForSize
  BY DEF FillInv, AccountHolds, FillsAccountForSize, Total
<1> QED BY <1>1, <1>2, NextFillInv, PTL DEF Spec
=============================================================================
