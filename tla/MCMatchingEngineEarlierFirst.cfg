\* One price level, long enough for the tenth order.
CONSTANTS
  Symbols = {AAPL}
  Prices = {1}
  Sizes = {1}
  MaxOrders = 11
  MaxDepth = 1
  Earlier <- Arrival
SPECIFICATION Spec
PROPERTY EarlierOrdersFirst
