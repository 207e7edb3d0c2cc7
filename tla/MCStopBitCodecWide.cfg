\* A type twice as wide as int: uint64_t with 32 and 7, scaled down.
CONSTANTS
  UIntBits = 16
  IntBits = 8
  GroupBits = 3
SPECIFICATION CodecSpec
INVARIANT RoundTrip
\* A call that has returned is the end.
CHECK_DEADLOCK FALSE
