CONSTANTS
  \* SharedPtr: two threads, four variables, and lists of up to three nodes.
  Threads = {t1, t2}
  Locals = {w, x, y, z}
  Blocks = {b1, b2, b3}
  Null = Null
  AssignsFromInside = FALSE
  \* UniquePtr: three variables, and lists of up to three objects.
  Names = {f, g, h}
  Objects = {o1, o2, o3}
  NullPtr = NullPtr
  AssignsOwnPart = FALSE
  \* Variant: three alternatives, two of which may throw when they are moved.
  Alternatives = {1, 2, 3}
  MayThrow = {2, 3}
  npos = npos
  \* LruCache: four keys in a cache of two, and of none.
  Key = {k1, k2, k3, k4}
  Value = {u, v}
  Address = {a1, a2, a3}
  Capacities = {0, 2}
  \* ToyVector: two vectors that grow from two cells to three and, resized, to four.
  Vectors = {v1, v2}
  Arrays = {m1, m2, m3}
  NoArray = NoArray
  Elements = {d, e}
  Default = d
  init_capacity = 2
  MaxSize = 3
  \* HybridAllocator: room for four elements, blocks of one to three.
  StackThreshold = 4
  MaxBlock = 3
  MaxOnHeap = 2
  \* StopBitCodec: a type as wide as int, and bytes, scaled down from 32 and 7.
  UIntBits = 8
  IntBits = 8
  GroupBits = 3
SPECIFICATION AllSpec
SYMMETRY Symmetry
INVARIANTS CountsAreExact NoUseAfterFree EverythingIsDeleted OwnedOnce VariantHoldsOne MostRecentKept ContentKept BlocksApart RoundTrip
\* The bounds on calls end some of the components.
CHECK_DEADLOCK FALSE
