---------------------------- MODULE BlockingRing ----------------------------
(***************************************************************************)
(* spsc_intring.h: BoundedBlockingQueue, a ring of ints whose enqueue and  *)
(* dequeue spin, between one producer and one consumer, and size(), which  *)
(* anybody may call.  An acquire load may return an older position than    *)
(* the latest, but none older than what its thread has learnt: a position  *)
(* comes with everything its writer had read when it stored it.            *)
(***************************************************************************)
EXTENDS Integers, Sequences

CONSTANTS
  RingCapacity,  \* capacity_
  MaxEnqueued    \* bound: elements enqueued, below the wrap of int

ASSUME RingConstants == RingCapacity \in Nat \ {0} /\ MaxEnqueued \in Nat

Sides == {"producer", "consumer"}
Other(s) == IF s = "producer" THEN "consumer" ELSE "producer"

VARIABLES
  at,        \* producer_ and consumer_
  readWhen,  \* the other position each side had read when it stored its k-th
  slots,     \* ring_
  side,      \* what each side does next: "load", use its "slot", or "store"
  known,     \* the least position of each side that each thread may still load
  dequeued,  \* what dequeue returned
  sized      \* what size() returned last, to whom, and its first load if in it

ringVars == <<at, readWhen, slots, side, known, dequeued, sized>>

Observers == Sides \cup {"other"}

RingInit ==
  /\ at = [s \in Sides |-> 0]
  /\ readWhen = [s \in Sides |-> <<>>]
  /\ slots = [i \in 0 .. RingCapacity - 1 |-> 0]
  /\ side = [s \in Sides |-> "load"]
  /\ known = [o \in Observers |-> [s \in Sides |-> 0]]
  /\ dequeued = <<>>
  /\ sized = [by |-> "other", first |-> 0, result |-> 0, done |-> TRUE]

Slot(position) == position % RingCapacity

(* Mutant: a ring that holds as much as fits is not full yet.              *)
FullLate(producer, consumer) == producer - consumer > RingCapacity
Full(producer, consumer) == producer - consumer >= RingCapacity

(* Mutant: an element is left to the next one's dequeue.                   *)
EmptyEarly(producer, consumer) == producer - consumer <= 1
Empty(producer, consumer) == consumer = producer

(* Observer o loads position p of side s and learns what s had read.       *)
Knows(o, s, p) ==
  known' = [known EXCEPT ![o] =
    [x \in Sides |->
       IF x = s THEN p
       ELSE LET r == IF p = 0 THEN 0 ELSE readWhen[s][p] IN
              IF r > @[x] THEN r ELSE @[x]]]

(* One turn of the loop of enqueue or dequeue: both positions are loaded,  *)
(* the own one first, the other one as p, and the call goes on unless the  *)
(* ring is full, or empty.                                                 *)
LoadPositions(s, p) ==
  /\ side[s] = "load"
  /\ s = "producer" => at[s] < MaxEnqueued
  /\ sized.done \/ sized.by # s
  /\ Knows(s, Other(s), p)
  /\ side' = [side EXCEPT ![s] =
       IF IF s = "producer" THEN Full(at[s], p) ELSE Empty(p, at[s])
       THEN "load" ELSE "slot"]
  /\ UNCHANGED <<at, readWhen, slots, dequeued, sized>>

(* The slot is written, or read; elements are known by their number.       *)
WriteSlot ==
  /\ side["producer"] = "slot"
  /\ slots' = [slots EXCEPT ![Slot(at["producer"])] = at["producer"] + 1]
  /\ side' = [side EXCEPT !["producer"] = "store"]
  /\ UNCHANGED <<at, readWhen, known, dequeued, sized>>

ReadSlot ==
  /\ side["consumer"] = "slot"
  /\ dequeued' = Append(dequeued, slots[Slot(at["consumer"])])
  /\ side' = [side EXCEPT !["consumer"] = "store"]
  /\ UNCHANGED <<at, readWhen, slots, known, sized>>

(* Then its side stores the position after it.                             *)
StorePosition(s) ==
  /\ side[s] = "store"
  /\ at' = [at EXCEPT ![s] = @ + 1]
  /\ readWhen' = [readWhen EXCEPT ![s] = Append(@, known[s][Other(s)])]
  /\ known' = [known EXCEPT ![s][s] = @ + 1]
  /\ side' = [side EXCEPT ![s] = "load"]
  /\ UNCHANGED <<slots, dequeued, sized>>

(* size() by observer o: producer_ is loaded, then consumer_.              *)
SizeBegins(o) ==
  /\ sized.done
  /\ o \in Sides => side[o] = "load"
  /\ \E p \in known[o]["producer"] .. at["producer"] :
       /\ Knows(o, "producer", p)
       /\ sized' = [by |-> o, first |-> p, result |-> 0, done |-> FALSE]
  /\ UNCHANGED <<at, readWhen, slots, side, dequeued>>

SizeReturns ==
  /\ ~sized.done
  /\ \E c \in known[sized.by]["consumer"] .. at["consumer"] :
       /\ Knows(sized.by, "consumer", c)
       /\ sized' = [by |-> sized.by, first |-> sized.first,
                    result |-> sized.first - c, done |-> TRUE]
  /\ UNCHANGED <<at, readWhen, slots, side, dequeued>>

RingNext ==
  \/ \E s \in Sides :
       \/ \E p \in known[s][Other(s)] .. at[Other(s)] : LoadPositions(s, p)
       \/ StorePosition(s)
  \/ WriteSlot \/ ReadSlot
  \/ \E o \in Observers : SizeBegins(o)
  \/ SizeReturns

RingSpec == RingInit /\ [][RingNext]_ringVars

FoundFull ==
  at["producer"] < MaxEnqueued /\ Full(at["producer"], known["producer"]["consumer"])

(* The consumer calls dequeue again and again, a producer that found the   *)
(* ring full loops, a store is seen by the other side in the end, and what *)
(* has begun goes on.  The producer need not call enqueue.                 *)
RingFairness ==
  /\ SF_ringVars(LoadPositions("consumer", at["producer"]))
  /\ SF_ringVars(FoundFull /\ LoadPositions("producer", at["consumer"]))
  /\ WF_ringVars(WriteSlot) /\ WF_ringVars(ReadSlot) /\ WF_ringVars(SizeReturns)
  /\ \A s \in Sides : WF_ringVars(StorePosition(s))
-----------------------------------------------------------------------------
(* The ring as a queue: from the store of an enqueue to the read of its    *)
(* dequeue an element is inside.                                           *)
Taken == at["consumer"] + IF side["consumer"] = "store" THEN 1 ELSE 0
Inside == [k \in 1 .. at["producer"] - Taken |-> slots[Slot(Taken + k - 1)]]
Out == IF dequeued = <<>> THEN 0 ELSE dequeued[Len(dequeued)]

Fifo == INSTANCE BoundedFifo WITH
  Value <- 1 .. MaxEnqueued, Capacity <- RingCapacity, queue <- Inside, out <- Out

(* The ring implements a bounded first-in first-out queue that is never    *)
(* done away with: the k-th enqueue puts element k, dequeue takes the one  *)
(* that has waited longest, and no slot of an element inside is written,   *)
(* whatever old positions the two sides see.                               *)
RingImplementsFifo ==
  Fifo!FifoInit /\ [][Fifo!Put(at["producer"] + 1) \/ Fifo!Take]_<<Inside, Out>>

(* Neither side spins for ever: an element that was enqueued is dequeued,  *)
(* and a producer that finds the ring full finds room.                     *)
NobodySpinsForever ==
  /\ \A k \in 1 .. MaxEnqueued : at["producer"] >= k ~> Len(dequeued) >= k
  /\ FoundFull ~> ~FoundFull

(* size() is never more than the capacity, and never negative when one of  *)
(* the two sides asks.  To a third thread it may be negative: dequeues can *)
(* fall between its two loads.                                             *)
SizeIsBounded ==
  /\ sized.result <= RingCapacity
  /\ sized.by \in Sides => sized.result >= 0
=============================================================================
