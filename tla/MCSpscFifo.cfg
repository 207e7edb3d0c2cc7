\* A ring of four slots whose positions wrap after eight.
CONSTANTS
  Value = {a, b}
  Raw = Raw
  Capacity = 4
  Laps = 2
SPECIFICATION FairSpec
INVARIANTS NoSlotIsShared SlotsUsedInTurn
PROPERTIES ImplementsFifo PushedIsPopped
\* Nothing happens once the queue has been destroyed.
CHECK_DEADLOCK FALSE
