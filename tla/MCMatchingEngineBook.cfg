\* One symbol, well-formed sizes, a notifier that only observes.
CONSTANTS
  Symbols = {AAPL}
  Prices = {1, 2}
  Sizes = {1, 2}
  MaxOrders = 4
  MaxDepth = 1
  Earlier <- Arrival
SPECIFICATION Spec
INVARIANTS NoCrossedBook BookConsistent CancelledStaysOut
PROPERTY ImplementsPriceTimeBook
