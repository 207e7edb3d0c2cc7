# Verification of studycpp

TLA+ models of the C++ components in `src/`, the TLC configurations that check
them on small instances, and TLAPS proofs of the results that matter most.

Contents: [the system](#the-system), [what can go wrong](#what-can-go-wrong),
[modules](#modules), [how the models correspond to the code](#how-the-models-correspond-to-the-code),
[runs and bounds](#runs-and-bounds), [fairness](#fairness), [proofs](#proofs),
[findings](#findings), [what is not modelled](#what-is-not-modelled), [plan](#plan).

## The system

`src/` is a collection of components. Apart from the market data files they do
not call each other; `market-data-system.h`, `-system2.h` and `-system3.h` are
three versions of one system, each containing the one before, so the models
are of version 3.

| Component | Source | State | Operations | Called by, calls |
|---|---|---|---|---|
| Matching engine | `order-matching-engine.cpp` | per symbol: orders by id, two ordered sets; trade notifier | placeOrder, cancelOrder, getMarketData, setTradeNotifier | one client thread; calls the notifier in the middle of a match, which may call back |
| Thread pool | `threadpool.h`, `main.cpp` | queue of tasks, stop flag, mutex, condition variable | worker_loop, enqueue, destructor | any thread, and the tasks themselves |
| SPSC ring buffer | `ringbuffer.h` | slots of raw storage, two atomic positions | Push, Pop, destructor | a producer and a consumer thread |
| Integer ring | `spsc_intring.h` | slots, two atomic positions | enqueue, dequeue (spin), size | a producer, a consumer, anybody for size |
| SPMC queue | `queue.cpp` | queue, mutex, condition variable | emplace, pop | one producer, several consumers |
| Spinlock | `spinlock.h` | one atomic flag | lock, unlock | any thread |
| TCP receiver | `market-data-system3.h` | socket, two flags, thread, message buffer | start, stop, receive loop, reconnect | owner and its own thread; calls the message handler and the alert manager |
| UDP and multicast receivers | `market-data-system3.h` | socket, flag, thread, statistics | start, stop, receive loops | the same |
| Alert manager | `market-data-system3.h` | cooldown table, queue of alerts | raiseAlert, checkMetrics | receivers, the processor's monitor |
| Metrics collector | `market-data-system3.h` | time windows, latency buffer, gauges | record..., getMetricsSummary | receivers, the processor |
| Market data processor | `market-data-system3.h` | last sequence numbers, monitor thread | onMessage, monitor | receivers; calls metrics and alerts |
| shared_ptr, unique_ptr | `mypointer.h`, `improved-shared-ptr.h` | control blocks with atomic counts; owned pointers | construct, copy, move, assign, swap, reset, release, destroy | any thread for copies; destructors of objects that hold pointers |
| LRU cache | `lru.h` | list of nodes, table of iterators, size | put, get | one thread |
| Vector, hybrid allocator | `myvector.h`, `hybridallocator.h` | array, capacity, size; a stack and the heap | construct, copy, move, assign, swap, reserve, resize, push_back; allocate, deallocate | one thread |
| Stop-bit encoder | `encoder.cpp` | none | encodeInteger, decodeInteger | tests |
| Variant | `variant.h` | storage, type index | construct, assign, get, destroy | one thread |
| Template exercises | `templates.h`, `test.*`, `orderbook.h` | none | none of their own | |

## What can go wrong

What a test of this code would hardly reach, and what the properties are for
(the complete list, with lines, is under `hazards` in `PROJECT.json`):

* **Re-entrance.** The trade notifier runs while the resting order it reports
  is out of its set but still in the map of orders, and may place and cancel.
* **Two containers for one fact**: orders by id and by price; table and list
  of the LRU cache.
* **Lock-free hand-over**: both rings keep the two threads apart only by
  positions that each side reads out of date, and that wrap round.
* **Lost wakeups**: notifications without the mutex (pool destructor), after
  the unlock (pool and queue), one for each element among several sleepers.
* **Stop against everything**: stop() of a receiver against polling, delivery,
  reconnection and a handler that throws; the destructor of the pool against
  the last tasks.
* **Streams cut anywhere**, lines longer than the buffer, datagrams longer
  than the buffer.
* **Lifetime**: reference counts with two threads that let go at once,
  assignments inside a list, storage that is moved, swapped and reallocated.
* **Things that fail half-way**: no memory for a control block, a value whose
  move throws after the old one is gone, a gauge set by two threads at once.
* **Time**: cooldowns and windows on a wall clock that can be set back.
* **Numbers**: any `int` as an order size, ids compared as strings, positions
  that overflow, shifts wider than `int`.

## Modules

| Module | What it is |
|---|---|
| `MatchingEngine` | the engine, one trade and one notifier call at a time |
| `PriceTimePriority`, `PriceTimeBook` | what a book promises: an order matches in one step by price, and among equals by the order `Earlier`, a parameter |
| `MatchingEngineRefinement` | the engine implements `PriceTimeBook` (refinement mapping) |
| `MatchingEngineProofs`, `MatchingEngineBookProofs` | proofs about the engine |
| `ThreadPool`, `ThreadPoolProofs` | the pool, and its proofs |
| `SpscFifo`, `BoundedFifo`, `SpscFifoProofs` | the ring buffer, the bounded queue it implements, and the proofs |
| `Spinlock` | the lock |
| `SpmcQueue` | the queue with several consumers |
| `BlockingRing` | the integer ring, which implements `BoundedFifo`, too |
| `TcpReceiver`, `UdpReceiver` | the receivers with the kernel and the network as environment |
| `AlertManager`, `MetricsCollector` | alerts and time windows on a wall clock, and the peak of a gauge |
| `MarketDataProcessor` | the processor with its monitor, up to the latency buffer |
| `SharedPtr`, `SharedPtrProofs` | the shared pointer, and its proofs |
| `UniquePtr` | the pointer with one owner |
| `Variant` | the variant |
| `LruCache`, `ToyVector`, `HybridAllocator`, `StopBitCodec` | the sequential components |
| `ConcurrentProofs` | proofs about `Spinlock`, `SpmcQueue`, `BlockingRing` and `UdpReceiver` |
| `ObjectProofs` | proofs about `Variant`, `UniquePtr`, `HybridAllocator`, `LruCache`, `ToyVector` and `StopBitCodec` |
| `MarketDataProofs` | proofs about `TcpReceiver`, `AlertManager` and `MetricsCollector` |
| `MC...` | instances for TLC |

`MatchingEngineRefinement` composes the engine with its abstract specification;
`SpscFifo` and `BlockingRing` contain the instances of `BoundedFifo` they
implement. The receivers see the alert manager and the metrics only through
calls whose results they ignore, so these are modelled apart; the one such call
that changes what the receiver does, recordLatency for a timestamp, is an action
of `UdpReceiver`. `MCConcurrent`, `MCObjects` and `MCMarketData` put small
components, which share nothing, into one run each: the variable `focus` chooses
one of them in the initial state and the others stand still, so the states of
the run are the sum of theirs and not the product. In `MCConcurrent` the
fairness of each stands beside that of the others, which are disabled.

## How the models correspond to the code

Each definition names in its comment, and in `PROJECT.json` under `map`, the
function and the lines it stands for. Variables have the names of the members
where TLA+ allows it. The grain of a step is chosen per component:

* **MatchingEngine.** A call is a frame on the stack `calls`. One step is the
  part of a call up to where control leaves the engine: `PlaceOrder` up to
  matchOrder, `ExecuteTrade` one iteration up to the notifier's call,
  `NotifierReturns` the rest of it, `FinishMatch` the end of the loop and
  addOrder. While a frame has a `matched` order, control is in the notifier and
  every public operation may be called, up to `MaxDepth` frames. Ids are
  numbers; their comparison is that of the strings ("order-10" before
  "order-2"). The price is only compared, so it is a number.
* **ThreadPool, SpmcQueue.** A step is an access to shared state: locking, the
  test of the predicate, going to sleep (which releases the mutex), taking,
  pushing, notifying. Waking up is a choice among the sleepers, and a
  spurious wakeup may happen. `stop_` is set without the mutex, as in the code.
* **SpscFifo, BlockingRing.** An acquire load may return any position between
  the one read last and the current one. Reading and writing a slot lies between
  the load and the store, in steps of its own, so that two threads in one slot
  are a state TLC can find. In `BlockingRing` a position brings along what its
  writer had read, which is what release and acquire promise; a third thread
  may call size(). Its abstract queue holds the elements between the store of
  their enqueue and the read of their dequeue.
* **TcpReceiver, UdpReceiver.** A step is a system call, a flag access, or a call
  of the handler. The kernel hands out descriptors, the peer sends bytes,
  closes and resets at any time, poll and recv answer accordingly. Bytes are
  pairs of line number and offset. Alerts are outputs and left out. A handler that
  throws terminates the program in the TCP receiver; in the UDP one a `std::exception` counts as
  an error, and anything else terminates.
* **SharedPtr.** A call is a short list of instructions (`todo`), each an access
  to shared memory: decrement, delete, read the other pointer, increment. An
  object may hold a pointer itself, so that deleting one destroys a pointer and goes on
  along a list. `mypointer.h` and `improved-shared-ptr.h` count in the same
  way; `swap`, `reset` and the rollback when there is no memory for a control
  block (`MakeFails`) are of the latter.
* **UniquePtr.** An object holds one unique_ptr, so that what a pointer owns is a
  list; deleting it runs along the list to the end (`DeletedWith`). `misused` says
  that something was deleted twice, or used afterwards: an assignment deletes first
  and reads its source then.
* **Variant.** One action per operation, and one for an assignment whose move
  throws: by then destroy() has run and the index is the new one, and `noexcept`
  ends the program. `used` records what was destroyed or referred to as what.
* **MetricsCollector, MarketDataProcessor.** Windows are changed by one thread;
  the peak of a gauge is loaded and stored in two steps by any thread. The
  processor's two users of the latency buffer are a message and a round of the
  monitor; neither gets past it.
* **Sequential components.** One action per operation. `expect`, `uses`,
  `records` and `refused` are history variables the properties compare with.
  Memory is explicit where it matters: arrays with raw and constructed cells
  in `ToyVector`, node addresses that are used again in `LruCache`, the blocks in
  `HybridAllocator`.
* **StopBitCodec.** Widths are parameters. A number is a function from the positions of
  its bits to BOOLEAN, since the code only shifts, masks and ors: each operator says
  what it does to every bit. The buffer may be too short. The decoder's shift is done in a signed
  integer of `IntBits` and converted; a shift by `IntBits` or more is undefined
  and answered with either result that compilers produce.

Mutant operators (`(* Mutant: ... *)`) stand next to the definition they would
replace; each property is violated when its mutant replaces that definition.

## Runs and bounds

| Run | What it shows | Bounds, and why they are enough |
|---|---|---|
| `engine_book` | `NoCrossedBook`, `BookConsistent`, `CancelledStaysOut`; matching step by step implements matching at once | 4 orders, 2 prices, sizes 1 and 2: a partial fill, two resting orders at one price, a sweep over two prices, a cancel between |
| `engine_callback` | `LimitsRespected`, `FillsAccountForSize`, `CallsReturn` | 3 orders, sizes -1 to 2, 3 nested calls: the order that is out of its set is cancelled, matched around, or put back |
| `engine_earlier_first` | violated: see findings | 11 orders at one price: the tenth is the first with two digits |
| `pool` | `TasksRunOnce`, `NoWorkerSleepsOverWork`, `AcceptedTaskRuns` | 3 workers, 2 clients, 3 calls, a spurious wakeup: two notifications while one worker sleeps and another leaves |
| `pool_destructor` | violated: see findings | 1 worker, 1 client |
| `ring` | `NoSlotIsShared`, `SlotsUsedInTurn`, `ImplementsFifo`, `PushedIsPopped` | 4 slots, positions that wrap after 8: full, empty and wrapped states at every stale position |
| `tcp_reconnect` | violated: see findings | one line, one descriptor |
| `concurrent` | `MutualExclusion`, `SomebodyEnters`; `TakenInOrder`, `NoConsumerSleepsOverWork`, `EveryElementTaken`; `RingImplementsFifo`, `NobodySpinsForever`, `SizeIsBounded`; `DescriptorsAccountedFor`, `EachDatagramOnce`, `StopNeedsOnePacket` | 4 threads at the lock; 3 consumers and 4 elements, one pop() that throws; a ring of 2 slots with one used again; 3 datagrams, fitting and too long, for unicast and multicast, with stop, and start also after a start that failed, at any point |
| `objects` | `CountsAreExact`, `NoUseAfterFree` (with the destructor's assertions), `EverythingIsDeleted`; `OwnedOnce`; `VariantHoldsOne`; `MostRecentKept`; `ContentKept`; `BlocksApart`; `RoundTrip` | 2 threads, 4 shared pointers, 3 objects: two threads let go of the two ends of a list; 3 unique_ptrs and lists of up to 3 objects that are moved, reset and released at any node; 3 alternatives, of which 2 may throw; 4 keys in a cache of 2, and one of capacity 0; 2 vectors that grow from 2 cells to 3, used also after they were moved from; blocks of 1 to 3 on a stack of 4; every value of the encoder's type in buffers of every length |
| `market_data` | `DescriptorOwned`, `LinesInOrder`, `StopReturns`, `LineIsDelivered`; `OneAlertPerCooldown`; `MetricsAreKept` | lines of 0, 2 and 5 bytes in a buffer of 2, two lines a connection, two descriptors, and so a failed start that is retried once without stop(): every cut, and a line that fills the buffer more than once; a clock that goes back past a cooldown and past a window; two threads that set a gauge to three values |
| `processor` | violated: see findings | none needed |
| `encoder_wide` | `RoundTrip` violated: see findings | a type twice as wide as int |

Counters that only grow (orders, calls, packets, elements, clock) are cut off by
a bound in the guard of the action that raises them; these bounds are named in
the modules (`MaxOrders`, `MaxCalls`, ...). Sizes are scaled down with what they
are compared with: `MAX_BUFFER_SIZE`, `COOLDOWN_PERIOD` (60 s) and
`MAX_WINDOWS` (60) to 2; the encoder's 32 bits of type and int and 7 bits of a
group to 8, 8 and 3, and 64 to 16 in `encoder_wide`: in both scales the last
group is a partial one, and the shift reaches the sign of int just in the wide
type. `MCObjects` uses symmetry between threads, shared pointers and blocks, which
no other component tells apart; it has no liveness property.

`CHECK_DEADLOCK FALSE` stands only where the system really may stop: a
destroyed pool or queue, a terminated program, consumers that wait for ever.

## Fairness

* **Threads inside a call go on** (weak fairness of the thread's own steps):
  the engine's loop, a worker, a receiver thread, the consumer of the ring. The
  scheduler runs a thread that can run. Callers need not call, and no
  fairness is put on clients, the peer, the network or the clock.
* **A thread in stop() or the destructor** goes on when the join can return.
* `ThreadPool` puts weak fairness on a worker's and a caller's steps, on clients
  that eventually let go of the pool, and on the owner. The mutex may be passed over a
  waiting thread: nothing more is needed for `AcceptedTaskRuns`.
* `SpmcQueue`'s consumers compete for a mutex with a producer that takes it again and
  again, so `EveryElementTaken` needs strong fairness of locking: a mutex that
  starves nobody for ever. Consumers are assumed to call pop again, also when it has
  thrown; a pop() throws `MaxThrows` times at most.
* `TcpReceiver` needs strong fairness of `PollReady`: a poll that is ready again
  and again is not answered with a timeout each time. (poll answers with a
  timeout only if nothing is ready.)
* `SpscFifo`'s `PopSees(producer_pos)`: a store becomes visible to the other
  thread in finite time, as C++ asks of atomics; the spinlock's `Spin(t, state)` likewise.
  Strong fairness of its `Move`: an object whose move is tried again and again is moved in the
  end. A move that throws every time would keep `Pop` where it is, as it should.
* `BlockingRing`: the consumer calls dequeue again and again, and a producer
  that has found the ring full loops, as the code does; a store becomes visible
  to the other side in the end (`LoadPositions` of the current position, under
  strong fairness because a call of size() may come in between). The producer need not
  call enqueue.
* The sequential components, `SharedPtr` and `MarketDataProcessor` have safety
  properties only: their calls do not wait.

## Proofs

All theorems are for every value of the constants that satisfies the modules'
assumptions, and for behaviours of any length.

* **MatchingEngineProofs.** `TypeCorrect`, by `TypeInv` (the shape, and that
  frames refer to orders that exist). `LimitsAreRespected`: every execution is
  within both limits, for any notifier, any nesting and any sizes. The
  invariant `LimitInv` adds to the property that every resting order is in the
  book of its own symbol and side (`Filed`), that the order taken out for a
  trade is of the other side (`TakenFromOtherSide`) and that executions refer to
  orders that exist: without these the next trade could be with anything.
  `FillsAddUp`: what was reported as executed of an order and what is left of it are its size,
  negative sizes and nested calls included. `FillInv` says so for each order
  with sums over the trades it is a party to (`AccountHolds`); a trade adds one
  term to the sums of two orders and of no other. `IdsAreOrdered`: comparing the ids'
  digits is a strict total order, and `IdsBelowTen`: up to nine it is that of the numbers.
* **MatchingEngineBookProofs.** `NeverCrossed`, `BooksAreConsistent` and
  `CancelledForGood`, under the hypothesis `MaxDepth = 1`:
  the notifier only observes; with nested calls TLC violates `NoCrossedBook` and `CancelledStaysOut`.
  The invariant `BookInv` states the properties
  for the middle of a match, too: the order taken out counts as part of the
  book, the incoming one is in no container, what is cancelled is in none, and
  nothing in the book crosses. `FirstHasBestPrice` shows that the order at
  `begin()` has the best price, so that when the loop stops at it, nothing else crosses.
  The refinement: `EngineIsPriceIdBook` (with `MaxDepth = 1` and positive
  sizes) for a book whose `Earlier` is the order of the ids, and
  `EngineIsPriceTimeBook` for price and time, up to nine orders; from the tenth on it
  is false (see findings). While a match goes on, the abstract
  book already has its result, so the proof is that this prediction is the same
  before and after each trade: `TradeLeaves` (the first in the queue loses what the
  incoming order gets), `EmptyOrderRemoved` (an order with nothing left
  makes no difference), `NothingToMatch` (the loop ends where the prediction does). `RefineInv` adds to
  `BookInv` that quantities lie between nothing and the size.
  `EarlierFirstBelowTen` is the documented priority for the first nine orders, whatever the notifier does.
* **ThreadPoolProofs.** `TypeCorrect`, and `TasksRunExactlyOnce` for a pool with
  a worker. `RunInv`: threads in the critical section hold the mutex; each
  task is queued, in exactly one worker's hand, or done, in the order of the queue; and once a
  worker has left, stop is set and no task is left or to come (`Closing`).
  `NoLostWakeup`: `WakeupInv` adds that a worker goes to sleep on an empty queue only
  (`SleepsOnEmpty`); then the tasks, counted against workers awake and
  notifications to come (`Provided`), never outnumber them: a push brings its own
  notification, and a notification that finds no sleeper wakes nobody because nobody needs it.
* **SpscFifoProofs.** `SlotsAreHandedOver`, `SlotsTakeTurns` (the destructor's
  work included) and `RingIsFifo` (the refinement), for every capacity,
  any wrap that is a multiple of it, and any stale load. `RingInv` consists
  of: what a thread sees is never ahead of the truth, and past its test there is room even for what it sees (`InStep`); the
  two positions are as many slots apart as their difference says
  (`SlotsApart`); and objects live exactly in the slots between them, but
  for what a thread is about to publish (`SlotsOccupied`).
* **ConcurrentProofs.** `MutualExclusionHolds` at the lock for any number of
  threads: the flag is set just when a thread is inside. `ElementsTakenInOrder`, for any number of consumers:
  `QueueInv` adds that whoever is past the predicate holds the mutex, and that
  the consumer that takes finds an element. `NoElementForgotten`: a consumer goes to sleep
  over an empty queue only (`SleepsOnEmpty`), and from then on each element comes with a
  producer that will notify, and each notification moves a sleeper to those on their way. A
  pop() that throws takes one away from those on their way and leaves the element, which is
  what the count `thrown` in the property is for.
  `SizeStaysBounded` and
  `RingIsFifo`, for every capacity and any stale load: `BlockingRingInv` consists of
  `KnownIsTrue` (what a side knows of the other was once true and is no newer than
  what the other published), `WithinCapacity`, `SlotsHold` (each slot holds the element whose
  turn it is) and `SizeInStep` (the third thread's two loads); the refinement needs `InsideIsListed` too.
  `EachDescriptorAccounted`, by `Owned`: `lost` has what a start() wrote over that was called
  right after one that failed, and nothing else is ever lost. `DatagramsHandledOnce`: `DatagramInv` places
  every datagram: what waits in the socket is newer than what the thread has in
  hand (`PacketInHand`), and that than all it has handled (`HandledEarlier`), and the
  statistics count the rest.
* **SharedPtrProofs.** `CountsAreAlwaysExact`, `NothingUsedAfterFree` and
  `EverythingGetsDeleted`, for any numbers of threads, variables, objects and
  blocks, under the hypothesis `~AssignsFromInside`: an assignment like `p = p->next`
  with p the last owner is never written (with it, the second is false: see
  findings). The invariant `PtrInv` is about the calls in the middle:
  the instructions a call has still to do keep their places, counted from its
  end (`InTurn`); calls under way are about different variables
  (`NamesApart`), and write to their own only (`Targets`); what is read is held
  by a counted pointer that the call names, so that nobody deletes it before
  (`Origins`); an object or a block about to be deleted is so by one thread, once
  (`Endings`); what a pointer refers to is alive (`Living`); and the counts are
  exact (`Counts`). The heart of the proof is that a step that hands a pointer
  on (`HandsOver`) takes as many references as it gives. For
  `EverythingGetsDeleted`, exact counts are not enough, for a ring of objects would
  keep itself alive. `Ranked` says that objects can be numbered so that each has a
  higher number than the one it points to; the highest one left would then be held by a
  variable.
* **ObjectProofs.** `VariantAlwaysHoldsOne`, whatever constructors throw;
  `BlocksStayApart`, for every size of the stack, with blocks given back in any
  order. These two are nearly inductive: a variant that was destroyed has left nothing behind,
  and blocks in use end below the top of the stack.
  `ObjectsOwnedOnce`, for any number of unique_ptrs and lists of any length, under
  the hypothesis `~AssignsOwnPart`: an assignment like `p = std::move(p->next)` is
  never written (with it, the property is false: see findings). `OwnedBut` is the invariant in
  the middle of a call, when an object has lost its owner and not yet been
  deleted. What such an object takes with it is the least set that is closed under
  ownership, so that each object in it but the first is owned from within
  (`DeletedList`); hence nothing that stays refers to it (`NothingLeftBehind`), and nothing on
  the way is met twice (`Deleted`). `CacheKeepsRecent`, for any `int` as capacity and
  whatever addresses the list gets; with none above zero the first put is undefined, and no other
  cache gets there (`CacheInv`). `LruInv` says that list and history of uses stay in step,
  entry by entry, that no key or address occurs twice, and what the table
  has for each. Every operation takes at most one element out of the list and one out of the history, and
  puts one in front (`MovedUp`): the proof is that the two that leave are of the
  same key, or the last of a full list. `VectorsKeepContent`, for any numbers of
  vectors and sizes: `VectorInv` says of each vector that the cells of its array
  are the elements of the sequence it should hold and then raw memory (`Holds`), and that
  arrays are not shared; the only way out of it is to extend a vector that was moved
  from within the capacity it kept (`IntoNone`). Counting shows that a new array exists whenever one is
  asked for (`FreshExists`): the assumption that there are more of them than
  vectors is that the allocator never runs out.
  `EncodedIsDecoded`, for every width of the type up to that of `int`, every size
  of a group, value and buffer; and `BelowSignIsDecoded`, for a type of any width and
  the values below the sign bit of `int` (for others it is false: see findings).
  Each bit lies in just one group (`GroupOfBit`), the groups written are those
  that are needed (`BytesSuffice`), and so none is shifted beyond the highest bit that is set
  (`ShiftsStayBelow`): in the bits that come back nothing overlaps and nothing is missing
  (`DecodedAgain`).
* **MarketDataProofs.** `EachSocketAccounted`: the descriptors open are the one in use and those
  that a start() wrote over which was called right after one that failed. `DescriptorInv` says
  which of owner and thread is responsible for the socket at each point. `LinesDeliveredInOrder`, for all
  lengths of lines and sizes of the buffer: `LinesInv` says of what the peer has sent (`Streaming`)
  where each line begins and ends, that what is in the kernel, in the chunk in
  hand and in the message buffer is the part not yet delivered, without a gap, and
  that the buffer has dropped only what did not fit. `AlertsKeepTheirDistance`: `AlertInv`
  says the table has the last alert's time for each key. `MetricsStay`:
  `GaugeInv` (a call that has loaded the peak and is overtaken is known to overlap) and `WindowInv`
  (windows begin at increasing times, each is full of what was recorded between its begin and
  the next one's, `Fit`, wherever the clock is set).

Only model-checked: liveness, since fairness and ENABLED are out of reach of the
prover. All other properties of the runs that pass, every invariant among them,
are proved; where the theorem has a hypothesis (`MaxDepth = 1`, positive sizes, at most nine orders,
`~AssignsFromInside`, `~AssignsOwnPart`, a pool with a worker,
`UIntBits <= IntBits`), it is the one under which the run checks the property, or weaker.

## Findings

* **Earlier orders do not always have priority** (`engine_earlier_first`). The
  comparators compare ids as strings; `order-10` trades before `order-2`,
  against "Earlier orders have priority" (`order-matching-engine.cpp:56`).
* **The pool's destructor may hang** (`pool_destructor`). `stop_` is set, and
  the workers notified, without the mutex (`threadpool.h:72`): a worker between
  its test and its sleep misses both.
* **A reconnected receiver does not receive** (`tcp_reconnect`). After a
  successful reconnect() the thread's function ends
  (`market-data-system3.h:592`).
* **64-bit values are decoded wrongly** (`encoder_wide`). The groups are
  shifted as `int` (`encoder.cpp:91`): 2^31 comes back as 0xFFFFFFFF80000000.
* **The first message ends the program** (`processor`). `latency_buffer_`, the
  "Circular buffer for percentile calculations" (`market-data-system3.h:646`),
  never gets an element. `recordLatency` (line 661) writes it by index, and
  `getMetricsSummary` (line 720) reads a sorted copy by index: each message to the
  processor, each round of its monitor, and each multicast packet with a
  hardware timestamp uses memory that is not there.

Seen while modelling, and outside the runs:

* With nested calls in the notifier (`MaxDepth = 2`) a cancelled order can be
  put back by line 179, and a book can be left crossed.
* `p = p->next` with `p` the last owner reads a deleted object
  (`mypointer.h:171`; `SharedPtr` with `AssignsFromInside = TRUE`).
* `p = std::move(p->next)` with a unique_ptr deletes the list before it reads the
  source, which is in it (`mypointer.h:40`; `UniquePtr` with `AssignsOwnPart = TRUE`).
* A TCP line longer than the buffer arrives as its tail, as if complete; the unicast
  UDP receiver takes the beginning of a datagram that is too long for the whole.
* size() of the integer ring may be negative to a third thread.
* A wall clock that is set back keeps an alert quiet until it has caught up,
  and windows older than a minute stay as long as fewer than 60 newer ones come
  ("1 minute of history", line 643).
* Of two overlapping calls that set a gauge, the peak may forget the greater:
  `std::max(peak.load(), value)` is not one step (lines 688 and 693).
* start() of the receivers looks at `running_` only. Called again after it has failed with a
  socket open (`market-data-system3.h:161`, `:241`, `:465`), without stop() between, it writes over
  `socket_fd_` (lines 146, 221 and 436) and the descriptor is never closed. The models do so, and
  the properties name these descriptors, `lost`, as the only ones.
* A pop() of the SPMC queue whose move throws (`queue.cpp:45`) leaves its element with the
  notification used up: other consumers may sleep over it until the next pop() or emplace.
* `LRUCache` takes any `int` as its capacity; with zero or less the first put calls `back()` on an
  empty list (`lru.h:32`).
* A vector that was moved from keeps its capacity: push_back, or a resize below that
  capacity, then writes to null (`myvector.h:104`, `:83`).
* `reserve` gives the old array back with the new capacity (`myvector.h:71`):
  `HybridAllocator` would then not find the array's end at the top of its stack.

## What is not modelled

* **Market data processor, behind the latency buffer**: sequence tracking, the
  message queue and the monitor's alerts are never reached (see findings). The
  same holds of all three versions of the file.
* **Variant**: the implicit copy of a const variant, which duplicates the bytes
  of its value, and moving a value out of the variant it is assigned to.
* **Template exercises, `main()` functions, build files**: no behaviour of their own.
* **Formatting of alerts and statistics**, and the plain numbers beside the peaks
  of the metrics collector.
* **Custom deleters, `weak_count`** (which nothing increments) of
  `improved-shared-ptr.h`. Memory runs out only where that class rolls back.
* **Vector**: elements that throw, pushing an element of the vector into itself,
  the size named when an array is given back (`std::allocator` makes no use of it); allocators with state
  (`HybridAllocator` in `toy::vector` would be left behind by swap and move; the
  code's comment calls the allocator stateless).
* **Concurrent use of AlertManager**: receivers of several threads may share
  one, and it has no lock; the model is of one caller at a time.
* **Two clients of one ring side**, two owners of one receiver, and other uses
  against the classes' contracts.

## Plan

Done: the engine with its abstract book and proofs, the pool, the ring buffer
with its abstract queue and proofs, the lock, the receivers, the queue, the
integer ring with the same abstract queue, pointers with failing allocations,
the variant, containers, encoder, alerts, windows and gauges, and the processor
as far as it gets.

Next, in this order:

1. `ToyVector` with elements that throw and with `HybridAllocator` as its
   allocator (composition of the two modules).
2. The alternatives of `SharedPtr` for owners inside a list, as `UniquePtr` has them.
