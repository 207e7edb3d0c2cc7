\* Two symbols, any int as a size, and a notifier that places and cancels
\* orders while a match is in progress; every call must still return.
CONSTANTS
  Symbols = {AAPL, MSFT}
  Prices = {1, 2}
  Sizes <- AnySizes
  MaxOrders = 3
  MaxDepth = 3
  Earlier <- Arrival
SPECIFICATION FairSpec
INVARIANTS LimitsRespected FillsAccountForSize
PROPERTY CallsReturn
