----------------------------- MODULE SpmcQueue -----------------------------
(***************************************************************************)
(* queue.cpp: SPMCQueue, an unbounded queue under a mutex.  A producer     *)
(* adds an element and notifies while it holds the mutex; a consumer waits *)
(* on the condition variable until the queue is not empty.  Elements are   *)
(* numbered in the order they enter.                                       *)
(***************************************************************************)
EXTENDS Integers, Sequences, FiniteSets

CONSTANTS
  Producers,     \* one in the intended use; the code does not depend on it
  Consumers,
  MaxElements,   \* bound: elements added in a behaviour
  MaxSpurious,   \* bound: spurious wakeups
  MaxThrows,     \* bound: calls of pop() that throw
  Nobody         \* no thread holds the mutex

Callers == Producers \cup Consumers

ASSUME QueueConstants ==
  /\ Producers \cap Consumers = {} /\ Nobody \notin Callers
  /\ IsFiniteSet(Callers)
  /\ MaxElements \in Nat /\ MaxSpurious \in Nat /\ MaxThrows \in Nat

VARIABLES
  mtx,       \* the thread that holds mtx_
  place,     \* where each thread is
  queue,     \* queue_
  added,     \* how many elements have entered queue_
  got,       \* the elements pop() has returned, in the order it took them
  spurious,  \* spurious wakeups so far
  thrown     \* calls of pop() that threw so far

queueVars == <<mtx, place, queue, added, got, spurious, thrown>>

GoesTo(t, label) == place' = [place EXCEPT ![t] = label]
Asleep == {c \in Consumers : place[c] = "asleep"}
Taking == {c \in Consumers : place[c] \in {"lock", "test", "sleep", "take"}}
Telling == {p \in Producers : place[p] = "notify"}
-----------------------------------------------------------------------------
QueueInit ==
  /\ mtx = Nobody /\ place = [t \in Callers |-> "idle"]
  /\ queue = <<>> /\ added = 0 /\ got = <<>>
  /\ spurious = 0 /\ thrown = 0

Call(t) ==
  /\ place[t] = "idle"
  /\ t \in Producers => added < MaxElements
  /\ GoesTo(t, "lock")
  /\ UNCHANGED <<mtx, queue, added, got, spurious, thrown>>

(* The lock of emplace, of pop, and of a waiter that has woken up.         *)
Locks(t) ==
  /\ place[t] = "lock" /\ mtx = Nobody
  /\ mtx' = t
  /\ GoesTo(t, IF t \in Producers THEN "emplace" ELSE "test")
  /\ UNCHANGED <<queue, added, got, spurious, thrown>>

Emplace(p) ==
  /\ place[p] = "emplace" /\ added < MaxElements
  /\ added' = added + 1 /\ queue' = Append(queue, added + 1)
  /\ GoesTo(p, "notify")
  /\ UNCHANGED <<mtx, got, spurious, thrown>>

(* The constructor of the element throws: the lock goes, nothing else.     *)
EmplaceThrows(p) ==
  /\ place[p] = "emplace"
  /\ mtx' = Nobody /\ GoesTo(p, "idle")
  /\ UNCHANGED <<queue, added, got, spurious, thrown>>

(* Mutant: nobody is told.                                                 *)
Unlocks(p) ==
  /\ place[p] = "notify"
  /\ mtx' = Nobody /\ GoesTo(p, "idle")
  /\ UNCHANGED <<queue, added, got, spurious, thrown>>

(* notify_one wakes one sleeper, if there is one; the lock goes with the   *)
(* end of emplace.                                                         *)
NotifyOne(p) ==
  /\ place[p] = "notify"
  /\ mtx' = Nobody
  /\ \/ Asleep = {} /\ GoesTo(p, "idle")
     \/ \E c \in Asleep : place' = [place EXCEPT ![p] = "idle", ![c] = "lock"]
  /\ UNCHANGED <<queue, added, got, spurious, thrown>>

TestPredicate(c) ==
  /\ place[c] = "test"
  /\ GoesTo(c, IF queue # <<>> THEN "take" ELSE "sleep")
  /\ UNCHANGED <<mtx, queue, added, got, spurious, thrown>>

(* wait() lets go of the mutex and joins the sleepers in one step.         *)
Sleep(c) ==
  /\ place[c] = "sleep"
  /\ mtx' = Nobody /\ GoesTo(c, "asleep")
  /\ UNCHANGED <<queue, added, got, spurious, thrown>>

SpuriousWakeup(c) ==
  /\ place[c] = "asleep" /\ spurious < MaxSpurious
  /\ spurious' = spurious + 1
  /\ GoesTo(c, "lock")
  /\ UNCHANGED <<mtx, queue, added, got, thrown>>

(* Mutant: the element is copied out and left in the queue.                *)
TakeCopy(c) ==
  /\ place[c] = "take"
  /\ got' = Append(got, Head(queue))
  /\ mtx' = Nobody /\ GoesTo(c, "idle")
  /\ UNCHANGED <<queue, added, spurious, thrown>>

(* front() is moved out and popped, and pop() returns without the lock.    *)
Take(c) ==
  /\ place[c] = "take"
  /\ got' = Append(got, Head(queue)) /\ queue' = Tail(queue)
  /\ mtx' = Nobody /\ GoesTo(c, "idle")
  /\ UNCHANGED <<added, spurious, thrown>>

(* Moving front() out throws: pop() is left with the lock and without the  *)
(* element, and whoever was notified of that element has left as well.     *)
TakeThrows(c) ==
  /\ place[c] = "take" /\ thrown < MaxThrows
  /\ thrown' = thrown + 1
  /\ mtx' = Nobody /\ GoesTo(c, "idle")
  /\ UNCHANGED <<queue, added, got, spurious>>

ProducerStep(p) ==
  Call(p) \/ Locks(p) \/ Emplace(p) \/ EmplaceThrows(p) \/ NotifyOne(p)

ConsumerStep(c) ==
  \/ Call(c) \/ Locks(c) \/ TestPredicate(c) \/ Sleep(c)
  \/ Take(c) \/ TakeThrows(c)

QueueNext ==
  \/ \E p \in Producers : ProducerStep(p)
  \/ \E c \in Consumers : ConsumerStep(c) \/ SpuriousWakeup(c)

QueueSpec == QueueInit /\ [][QueueNext]_queueVars

(* Threads that are inside a call go on; the mutex is granted in the end   *)
(* to each thread that keeps asking for it; consumers keep calling pop,    *)
(* also after one that threw.                                              *)
QueueFairness ==
  /\ \A t \in Callers : SF_queueVars(Locks(t))
  /\ \A p \in Producers :
       WF_queueVars(Emplace(p) \/ EmplaceThrows(p)) /\ WF_queueVars(NotifyOne(p))
  /\ \A c \in Consumers :
       /\ WF_queueVars(Call(c))
       /\ WF_queueVars(TestPredicate(c) \/ Sleep(c) \/ Take(c) \/ TakeThrows(c))
-----------------------------------------------------------------------------
(* What was taken, and what is left, are the elements added in their       *)
(* order: each is returned once, however many consumers wait.              *)
TakenInOrder == got \o queue = [k \in 1 .. added |-> k]

(* While a consumer sleeps, each element in the queue has another consumer *)
(* on its way to it, or a producer about to wake one, except for at most   *)
(* one element for each pop() that threw and used up its notification: no  *)
(* wakeup is lost in any other way.                                        *)
NoConsumerSleepsOverWork ==
  Asleep # {} =>
    Len(queue) <= Cardinality(Taking) + Cardinality(Telling) + thrown

(* With consumers calling pop(), every element is taken, also one that an  *)
(* earlier pop() threw over.                                               *)
EveryElementTaken ==
  \A k \in 1 .. MaxElements : added >= k ~> Len(got) >= k
=============================================================================
