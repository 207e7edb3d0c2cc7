------------------------------ MODULE SpscFifo ------------------------------
(***************************************************************************)
(* ringbuffer.h: SPSC_FifoQ<T, Capacity>, a ring of raw storage between    *)
(* one thread that pushes and one that pops.  Each thread owns one         *)
(* position, reads the other's with an acquire load and publishes its own  *)
(* with a release store.  An acquire load may return a value that is out   *)
(* of date, but never an earlier one than the thread has read before; the  *)
(* work on the storage between load and store is a step of its own.        *)
(***************************************************************************)
EXTENDS Integers, Sequences

CONSTANTS
  Value,     \* the objects pushed
  Raw,       \* a slot in which no object lives
  Capacity,  \* the template parameter, a power of two
  Laps       \* rounds of the ring until std::size_t overflows

ASSUME FifoConstants ==
  /\ Raw \notin Value
  /\ Capacity \in Nat \ {0}
  /\ Laps \in Nat \ {0, 1}

VARIABLES
  ring,          \* ring_, one entry for each slot of sizeof(T) bytes
  producer_pos,  \* producer_pos_
  consumer_pos,  \* consumer_pos_
  pushing,       \* how far the call of Push is
  arg,           \* the object that call constructs
  pSees,         \* the consumer position the producer acquired last
  popping,       \* how far the call of Pop is
  out,           \* the object the caller of Pop holds
  cSees,         \* the producer position the consumer acquired last
  life           \* whether the queue is in use, in its destructor, or gone

vars == <<ring, producer_pos, consumer_pos, pushing, arg, pSees, popping, out,
          cSees, life>>
producer == <<producer_pos, pushing, arg, pSees>>
consumer == <<consumer_pos, popping, out, cSees>>

(* Positions wrap round at Wrap, which is 2^64 and a multiple of Capacity. *)
Wrap == Laps * Capacity
Pos == 0 .. Wrap - 1
Slots == 0 .. Capacity - 1

(* size_t arithmetic: the next position, and the difference of two.        *)
Next1(p) == IF p = Wrap - 1 THEN 0 ELSE p + 1
Diff(p, q) == IF p >= q THEN p - q ELSE p - q + Wrap

(* Positions from p to q, both included: what a load that was last         *)
(* answered p may be answered while the variable holds q.                  *)
Since(p, q) == {r \in Pos : Diff(r, p) <= Diff(q, p)}

(* Mutants: one object too many, and one too few.                          *)
IsFullLate(p, c) == Diff(p, c) > Capacity
IsEmptyEarly(p, c) == Diff(p, c) <= 1

(* The mask is a remainder, Capacity being a power of two.                 *)
Index(p) == p % Capacity
IsFull(p, c) == Diff(p, c) >= Capacity
IsEmpty(p, c) == p = c

-----------------------------------------------------------------------------
Init ==
  /\ ring = [i \in Slots |-> Raw]
  /\ producer_pos = 0 /\ consumer_pos = 0
  /\ pushing = "no" /\ arg = Raw /\ pSees = 0
  /\ popping = "no" /\ out = Raw /\ cSees = 0
  /\ life = "used"

(* Push reads both positions; it returns false when the ring looks full.   *)
Push(v) ==
  /\ life = "used" /\ pushing = "no"
  /\ pSees' \in Since(pSees, consumer_pos)
  /\ IF IsFull(producer_pos, pSees')
       THEN UNCHANGED <<pushing, arg>>
       ELSE pushing' = "construct" /\ arg' = v
  /\ UNCHANGED <<ring, producer_pos, consumer, life>>

(* Mutant: the position is advanced before the object is there.            *)
ConstructAndPublishEarly ==
  \/ /\ pushing = "construct"
     /\ producer_pos' = Next1(producer_pos)
     /\ pushing' = "late"
     /\ UNCHANGED <<ring, arg, pSees, consumer, life>>
  \/ /\ pushing = "late"
     /\ ring' = [ring EXCEPT ![(producer_pos + Wrap - 1) % Capacity] = arg]
     /\ pushing' = "no" /\ arg' = Raw
     /\ UNCHANGED <<producer_pos, pSees, consumer, life>>

Construct ==
  /\ pushing = "construct"
  /\ ring' = [ring EXCEPT ![Index(producer_pos)] = arg]
  /\ pushing' = "publish"
  /\ UNCHANGED <<producer_pos, arg, pSees, consumer, life>>

(* The constructor of T throws: Push is left without advancing.            *)
ConstructThrows ==
  /\ pushing = "construct"
  /\ pushing' = "no" /\ arg' = Raw
  /\ UNCHANGED <<ring, producer_pos, pSees, consumer, life>>

PublishPush ==
  /\ pushing = "publish"
  /\ producer_pos' = Next1(producer_pos)
  /\ pushing' = "no" /\ arg' = Raw
  /\ UNCHANGED <<ring, pSees, consumer, life>>

(* Pop reads both positions; it returns false when the ring looks empty.   *)
PopSees(p) ==
  /\ life = "used" /\ popping = "no"
  /\ cSees' = p
  /\ popping' = IF IsEmpty(p, consumer_pos) THEN "no" ELSE "move"
  /\ UNCHANGED <<ring, consumer_pos, out, producer, life>>

Pop == \E p \in Since(cSees, producer_pos) : PopSees(p)

Move ==
  /\ popping = "move"
  /\ out' = ring[Index(consumer_pos)]
  /\ popping' = "destroy"
  /\ UNCHANGED <<ring, consumer_pos, cSees, producer, life>>

(* The move assignment of T throws: Pop is left without advancing, and the *)
(* object stays in its slot (the caller's is taken to be what it was).     *)
MoveThrows ==
  /\ popping = "move"
  /\ popping' = "no"
  /\ UNCHANGED <<ring, consumer_pos, out, cSees, producer, life>>

(* Mutant: the object that was moved from is left alive in its slot.       *)
SkipDestroy ==
  /\ popping = "destroy"
  /\ popping' = "publish"
  /\ UNCHANGED <<ring, consumer_pos, out, cSees, producer, life>>

Destroy ==
  /\ popping = "destroy"
  /\ ring' = [ring EXCEPT ![Index(consumer_pos)] = Raw]
  /\ popping' = "publish"
  /\ UNCHANGED <<consumer_pos, out, cSees, producer, life>>

PublishPop ==
  /\ popping = "publish"
  /\ consumer_pos' = Next1(consumer_pos)
  /\ popping' = "no"
  /\ UNCHANGED <<ring, out, cSees, producer, life>>

(* The owner destroys the queue once both threads are done with it; the    *)
(* destructor then destroys what was pushed and not popped.  Its copy of   *)
(* the consumer's position is local, but nobody is left to tell.           *)
BeginDestructor ==
  /\ life = "used" /\ pushing = "no" /\ popping = "no"
  /\ life' = "destructor"
  /\ UNCHANGED <<ring, producer, consumer>>

DestroyRemaining ==
  /\ life = "destructor"
  /\ IF IsEmpty(producer_pos, consumer_pos)
       THEN life' = "gone" /\ UNCHANGED <<ring, consumer_pos>>
       ELSE /\ ring' = [ring EXCEPT ![Index(consumer_pos)] = Raw]
            /\ consumer_pos' = Next1(consumer_pos)
            /\ UNCHANGED life
  /\ UNCHANGED <<popping, out, cSees, producer>>

Next ==
  \/ \E v \in Value : Push(v)
  \/ Construct \/ ConstructThrows \/ PublishPush
  \/ Pop \/ Move \/ MoveThrows \/ Destroy \/ PublishPop
  \/ BeginDestructor \/ DestroyRemaining

Spec == Init /\ [][Next]_vars

(* The consumer goes on calling Pop, threads make progress, a store is     *)
(* seen in the end, and a move does not throw for ever.                    *)
FairSpec ==
  /\ Spec
  /\ WF_vars(PopSees(producer_pos))
  /\ SF_vars(Move)
  /\ WF_vars(Destroy \/ PublishPop)
-----------------------------------------------------------------------------
TypeOK ==
  /\ ring \in [Slots -> Value \cup {Raw}]
  /\ producer_pos \in Pos /\ consumer_pos \in Pos
  /\ pSees \in Pos /\ cSees \in Pos
  /\ pushing \in {"no", "construct", "publish"}
  /\ popping \in {"no", "move", "destroy", "publish"}
  /\ arg \in Value \cup {Raw} /\ out \in Value \cup {Raw}
  /\ life \in {"used", "destructor", "gone"}

(* The two threads never touch the same slot at once: the acquire and      *)
(* release of the two positions hand every slot over, whatever stale value *)
(* a load returns.  (The accesses of Push at line 51 and Pop at 68-70.)    *)
NoSlotIsShared ==
  (pushing = "construct" /\ popping \in {"move", "destroy"})
     => Index(producer_pos) # Index(consumer_pos)

(* An object is constructed only in raw storage, and moved from or         *)
(* destroyed only where one lives, also by the destructor; and no object   *)
(* outlives the queue.                                                     *)
SlotsUsedInTurn ==
  /\ pushing = "construct" => ring[Index(producer_pos)] = Raw
  /\ popping \in {"move", "destroy"} => ring[Index(consumer_pos)] # Raw
  /\ (life = "destructor" /\ producer_pos # consumer_pos)
        => ring[Index(consumer_pos)] # Raw
  /\ life = "gone" => ring = [i \in Slots |-> Raw]

(* What is inside: from the object that Pop has not yet moved out to the   *)
(* last one published, each so many slots after the consumer's.            *)
SlotAfter(n) ==
  IF Index(consumer_pos) + n < Capacity THEN Index(consumer_pos) + n
  ELSE Index(consumer_pos) + n - Capacity

Gone == IF popping \in {"destroy", "publish"} THEN 1 ELSE 0

Inside ==
  IF life # "used" THEN <<>>
  ELSE [i \in 1 .. Diff(producer_pos, consumer_pos) - Gone |->
          ring[SlotAfter(Gone + i - 1)]]

(* Pushing and popping step by step, with stale positions, is a bounded    *)
(* first-in first-out queue: nothing is lost, repeated or reordered.       *)
Fifo == INSTANCE BoundedFifo WITH queue <- Inside
ImplementsFifo == Fifo!FifoSpec

(* An object that was pushed is popped, however often the producer's store *)
(* is missed, unless the queue is destroyed first.                         *)
PushedIsPopped ==
  \A p \in Pos :
    (consumer_pos = p /\ producer_pos # p)
       ~> (consumer_pos # p \/ life # "used")
=============================================================================
