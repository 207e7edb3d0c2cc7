-------------------------- MODULE ConcurrentProofs --------------------------
(***************************************************************************)
(* Proofs about the lock, the queue of several consumers, the integer ring *)
(* and the UDP receivers, for every value of their constants.              *)
(***************************************************************************)
EXTENDS Spinlock, SpmcQueue, BlockingRing, UdpReceiver, FiniteSetTheorems,
        SequenceTheorems, TLAPS

(* The flag is set exactly while a thread is inside.                       *)
FlagTellsTruth == state <=> \E t \in Threads : pc[t] = "in"

LockInv == TypeOK /\ MutualExclusion /\ FlagTellsTruth

LEMMA LockInvariant == Spec => []LockInv
<1>1. Init => LockInv
  BY DEF Init, LockInv, TypeOK, MutualExclusion, FlagTellsTruth
<1>2. LockInv /\ [Next]_vars => LockInv'
  <2> SUFFICES ASSUME LockInv, [Next]_vars PROVE LockInv'
    OBVIOUS
  <2> USE DEF LockInv, TypeOK, MutualExclusion, FlagTellsTruth, Goto
  <2>1. ASSUME NEW t \in Threads, Lock(t) PROVE LockInv'
    BY <2>1 DEF Lock
  <2>2. ASSUME NEW t \in Threads, Exchange(t) PROVE LockInv'
    <3>1. CASE state
      BY <2>2, <3>1 DEF Exchange
    <3>2. CASE ~state
      BY <2>2, <3>2 DEF Exchange
    <3> QED BY <3>1, <3>2
  <2>3. ASSUME NEW t \in Threads, NEW v \in BOOLEAN, Spin(t, v) PROVE LockInv'
    BY <2>3 DEF Spin
  <2>4. ASSUME NEW t \in Threads, Unlock(t) PROVE LockInv'
    BY <2>4 DEF Unlock
  <2>5. CASE UNCHANGED vars
    BY <2>5 DEF vars
  <2> QED BY <2>1, <2>2, <2>3, <2>4, <2>5 DEF Next
<1> QED BY <1>1, <1>2, PTL DEF Spec

(* Two threads never hold the lock at once, whatever stale value of the    *)
(* flag a spinning thread is shown.                                        *)
THEOREM MutualExclusionHolds == Spec => []MutualExclusion
<1>1. LockInv => MutualExclusion
  BY DEF LockInv
<1> QED BY <1>1, LockInvariant, PTL
-----------------------------------------------------------------------------
(* How elements move between sequences that are read one after the other.  *)
LEMMA CountOneMore ==
  ASSUME NEW n \in Nat
  PROVE  /\ [k \in 1 .. n |-> k] \in Seq(Nat)
         /\ Append([k \in 1 .. n |-> k], n + 1) = [k \in 1 .. n + 1 |-> k]
<1> DEFINE count(m) == [k \in 1 .. m |-> k]
<1>1. ASSUME NEW m \in Nat
      PROVE  /\ count(m) \in Seq(Nat) /\ Len(count(m)) = m
             /\ \A k \in 1 .. m : count(m)[k] = k
  OBVIOUS
<1> HIDE DEF count
<1>2. /\ Append(count(n), n + 1) \in Seq(Nat)
      /\ Len(Append(count(n), n + 1)) = n + 1
      /\ \A k \in 1 .. n + 1 : Append(count(n), n + 1)[k] = k
  BY <1>1, AppendProperties
<1>3. Append(count(n), n + 1) = count(n + 1)
  BY <1>1, <1>2, SeqEqual
<1> QED BY <1>1, <1>3 DEF count

LEMMA Bounds ==
  /\ \A a, b \in Nat : a <= b => a <= b + 1 /\ a < b + 1
  /\ \A a, b \in Nat : a < b => b \in 1 .. b /\ \A c \in 1 .. a : c \in 1 .. b /\ c < b
  /\ \A a \in Nat : \A c \in 1 .. a : c \in Nat
  /\ \A a, b \in Nat : a <= b => \A c \in 1 .. a : c \in 1 .. b
  /\ \A a, b \in Nat : a <= b /\ a # 0 => a \in 1 .. b
  /\ \A a \in Nat : \A k \in 1 .. a : k > 1 => k - 1 \in 1 .. a
  /\ \A a, b \in Nat : \A c \in a .. b : c \in Nat /\ a <= c /\ c <= b
  /\ \A a \in Nat : \A k \in 1 .. a + 1 : k = a + 1 \/ k \in 1 .. a
OBVIOUS

LEMMA AppendToSecond ==
  ASSUME NEW S, NEW s \in Seq(S), NEW t \in Seq(S), NEW e \in S
  PROVE  s \o Append(t, e) = Append(s \o t, e)
<1>1. Append(t, e) = t \o <<e>> /\ s \o t \in Seq(S) /\ <<e>> \in Seq(S)
  BY AppendIsConcat, ConcatProperties
<1>2. Append(s \o t, e) = (s \o t) \o <<e>>
  BY <1>1, AppendIsConcat
<1> QED BY <1>1, <1>2, ConcatAssociative

LEMMA MoveHeadOver ==
  ASSUME NEW S, NEW s \in Seq(S), NEW t \in Seq(S), t # <<>>
  PROVE  Append(s, Head(t)) \o Tail(t) = s \o t
<1>1. Head(t) \in S /\ Tail(t) \in Seq(S) /\ <<Head(t)>> \in Seq(S)
  BY HeadTailProperties
<1>2. Append(s, Head(t)) = s \o <<Head(t)>>
  BY <1>1, AppendIsConcat
<1>3. t = <<Head(t)>> \o Tail(t)
  <2>1. /\ Len(t) \in Nat \ {0} /\ t[1] = Head(t)
        /\ SubSeq(t, 1, Len(t)) = t /\ SubSeq(t, 2, Len(t)) = Tail(t)
    BY EmptySeq, SubSeqFull, TailIsSubSeq, LenProperties
  <2> QED BY <2>1, SubSeqRecursiveFirst
<1> QED BY <1>1, <1>2, <1>3, ConcatAssociative
-----------------------------------------------------------------------------
(* The queue of queue.cpp.  Threads past the lock hold the mutex, so that  *)
(* nobody takes the element that a consumer has seen.                      *)
HasLock(t) == place[t] \in {"emplace", "notify", "test", "sleep", "take"}

QueueTypeOK ==
  /\ place \in [Callers -> {"idle", "lock", "emplace", "notify", "test", "sleep",
                            "asleep", "take"}]
  /\ queue \in Seq(Nat) /\ got \in Seq(Nat) /\ added \in Nat /\ thrown \in Nat

MutexIsHeld == \A t \in Callers : HasLock(t) => mtx = t

TakerFindsOne == \A c \in Callers : place[c] = "take" => queue # <<>>

QueueInv == QueueTypeOK /\ MutexIsHeld /\ TakerFindsOne /\ TakenInOrder

LEMMA QueueStep == QueueInv /\ [QueueNext]_queueVars => QueueInv'
<1> SUFFICES ASSUME QueueInv, [QueueNext]_queueVars PROVE QueueInv'
  OBVIOUS
<1> USE DEF QueueInv, QueueTypeOK, MutexIsHeld, TakerFindsOne, GoesTo, HasLock
<1>1. Nobody \notin Callers
  BY QueueConstants
<1>2. ASSUME NEW t \in Callers, Call(t) PROVE QueueInv'
  BY <1>2 DEF Call, TakenInOrder
<1>3. ASSUME NEW t \in Callers, Locks(t) PROVE QueueInv'
  BY <1>1, <1>3 DEF Locks, TakenInOrder
<1>4. ASSUME NEW p \in Callers, Emplace(p) PROVE QueueInv'
  <2> USE <1>4 DEF Emplace
  <2>1. /\ queue' \in Seq(Nat) /\ added' \in Nat
        /\ queue' # <<>>
    BY AppendProperties
  <2>2. TakenInOrder'
    <3>1. got \o queue' = Append(got \o queue, added + 1)
      BY AppendToSecond
    <3> QED BY <3>1, CountOneMore DEF TakenInOrder
  <2> QED BY <2>1, <2>2
<1>5. ASSUME NEW p \in Callers, EmplaceThrows(p) PROVE QueueInv'
  BY <1>5 DEF EmplaceThrows, TakenInOrder
<1>6. ASSUME NEW p \in Callers, NotifyOne(p) PROVE QueueInv'
  BY <1>6 DEF NotifyOne, TakenInOrder, Asleep, Callers
<1>7. ASSUME NEW c \in Callers, TestPredicate(c) PROVE QueueInv'
  BY <1>7 DEF TestPredicate, TakenInOrder
<1>8. ASSUME NEW c \in Callers, Sleep(c) PROVE QueueInv'
  BY <1>8 DEF Sleep, TakenInOrder
<1>9. ASSUME NEW c \in Callers, SpuriousWakeup(c) PROVE QueueInv'
  BY <1>9 DEF SpuriousWakeup, TakenInOrder
<1>10. ASSUME NEW c \in Callers, Take(c) PROVE QueueInv'
  <2> USE <1>10 DEF Take
  <2>1. queue # <<>>
    OBVIOUS
  <2>2. queue' \in Seq(Nat) /\ got' \in Seq(Nat)
    BY <2>1, HeadTailProperties, AppendProperties
  <2>3. TakenInOrder'
    <3>1. Append(got, Head(queue)) \o Tail(queue) = got \o queue
      BY <2>1, MoveHeadOver
    <3> QED BY <3>1 DEF TakenInOrder
  <2>4. TakerFindsOne' /\ MutexIsHeld'
    BY <1>1
  <2> QED BY <2>2, <2>3, <2>4
<1>11. ASSUME NEW c \in Callers, TakeThrows(c) PROVE QueueInv'
  BY <1>11 DEF TakeThrows, TakenInOrder
<1>12. CASE UNCHANGED queueVars
  BY <1>12 DEF queueVars, TakenInOrder
<1> QED
  BY <1>2, <1>3, <1>4, <1>5, <1>6, <1>7, <1>8, <1>9, <1>10, <1>11, <1>12
  DEF QueueNext, ProducerStep, ConsumerStep, Callers

LEMMA QueueStarts == QueueInit => QueueInv
<1> SUFFICES ASSUME QueueInit PROVE QueueInv
  OBVIOUS
<1>1. <<>> \in Seq(Nat) /\ <<>> \o <<>> = <<>>
  BY EmptySeq, ConcatEmptySeq
<1>2. <<>> = [k \in 1 .. 0 |-> k]
  OBVIOUS
<1> QED
  BY <1>1, <1>2 DEF QueueInit, QueueInv, QueueTypeOK, MutexIsHeld, TakerFindsOne,
                    TakenInOrder, HasLock

(* Every element is returned once, in the order in which it was added, to  *)
(* any number of consumers, whoever is notified and whoever wakes up.      *)
THEOREM ElementsTakenInOrder == QueueSpec => []TakenInOrder
<1>1. QueueInv => TakenInOrder
  BY DEF QueueInv
<1> QED BY <1>1, QueueStarts, QueueStep, PTL DEF QueueSpec

(* A consumer goes to sleep over an empty queue, because it keeps the      *)
(* mutex from the test to the wait.                                        *)
SleepsOnEmpty == \A c \in Consumers : place[c] = "sleep" => queue = <<>>

WakeupInv == QueueInv /\ SleepsOnEmpty /\ NoConsumerSleepsOverWork

ThreadsCounted ==
  /\ IsFiniteSet(Taking) /\ Cardinality(Taking) \in Nat
  /\ IsFiniteSet(Telling) /\ Cardinality(Telling) \in Nat

LEMMA CountsOfThreads == ThreadsCounted
<1>1. IsFiniteSet(Callers)
  BY QueueConstants
<1>2. Taking \subseteq Callers /\ Telling \subseteq Callers
  BY DEF Taking, Telling, Callers
<1> QED BY <1>1, <1>2, FS_Subset, FS_CardinalityType DEF ThreadsCounted

(* Steps that leave the queue and those who tell of it alone, and put at   *)
(* most one more consumer on its way.                                      *)
LEMMA StillProvided ==
  ASSUME WakeupInv, queue' = queue, Asleep' \subseteq Asleep,
         Telling' = Telling, thrown' = thrown,
         Taking' = Taking \/ \E c : c \notin Taking /\ Taking' = Taking \cup {c}
  PROVE  NoConsumerSleepsOverWork'
<1>1. CASE Asleep' = {}
  BY <1>1 DEF NoConsumerSleepsOverWork
<1>2. CASE Asleep' # {}
  <2>1. Len(queue) <= Cardinality(Taking) + Cardinality(Telling) + thrown
    BY <1>2 DEF WakeupInv, NoConsumerSleepsOverWork
  <2>2. \/ Cardinality(Taking') = Cardinality(Taking)
        \/ Cardinality(Taking') = Cardinality(Taking) + 1
    BY CountsOfThreads, FS_AddElement DEF ThreadsCounted
  <2>3. Len(queue) \in Nat /\ thrown \in Nat
    BY DEF WakeupInv, QueueInv, QueueTypeOK
  <2>4. Len(queue') <= Cardinality(Taking') + Cardinality(Telling') + thrown'
    BY <2>1, <2>2, <2>3, CountsOfThreads DEF ThreadsCounted
  <2> QED BY <2>4 DEF NoConsumerSleepsOverWork
<1> QED BY <1>1, <1>2

LEMMA WakeupStep == WakeupInv /\ [QueueNext]_queueVars => WakeupInv'
<1> SUFFICES ASSUME WakeupInv, [QueueNext]_queueVars
             PROVE  SleepsOnEmpty' /\ NoConsumerSleepsOverWork'
  BY QueueStep DEF WakeupInv
<1> USE DEF GoesTo, Asleep, Taking, Telling
<1>0. /\ DOMAIN place = Callers /\ place = [t \in Callers |-> place[t]]
      /\ Callers = Producers \cup Consumers /\ Producers \cap Consumers = {}
      /\ queue \in Seq(Nat) /\ Len(queue) \in Nat /\ thrown \in Nat
      /\ SleepsOnEmpty
      /\ \A t \in Callers : HasLock(t) => mtx = t
  BY QueueConstants DEF WakeupInv, QueueInv, QueueTypeOK, MutexIsHeld, Callers
<1>c. /\ Cardinality(Taking') \in Nat /\ Cardinality(Telling') \in Nat
      /\ Cardinality(Taking) \in Nat /\ Cardinality(Telling) \in Nat
      /\ IsFiniteSet(Taking) /\ IsFiniteSet(Telling)
  <2> HIDE DEF Taking, Telling
  <2>1. ThreadsCounted'
    BY CountsOfThreads, PTL
  <2> QED BY <2>1, CountsOfThreads DEF ThreadsCounted
<1>n. thrown \in Nat /\ thrown' \in Nat
  BY QueueStep DEF WakeupInv, QueueInv, QueueTypeOK
<1>1. ASSUME NEW t \in Callers,
             Call(t) \/ Locks(t) \/ EmplaceThrows(t) \/ TestPredicate(t)
               \/ (SpuriousWakeup(t) /\ t \in Consumers)
      PROVE  SleepsOnEmpty' /\ NoConsumerSleepsOverWork'
  <2>1. /\ queue' = queue /\ thrown' = thrown
        /\ Asleep' \subseteq Asleep /\ Telling' = Telling
    BY <1>0, <1>1 DEF Call, Locks, EmplaceThrows, TestPredicate, SpuriousWakeup
  <2>2. \/ Taking' = Taking
        \/ t \notin Taking /\ Taking' = Taking \cup {t}
    <3>1. CASE Call(t) \/ Locks(t)
      BY <1>0, <3>1, Zenon DEF Call, Locks
    <3>2. CASE EmplaceThrows(t) \/ TestPredicate(t)
      BY <1>0, <3>2 DEF EmplaceThrows, TestPredicate
    <3>3. CASE SpuriousWakeup(t) /\ t \in Consumers
      BY <1>0, <3>3 DEF SpuriousWakeup
    <3> QED BY <1>1, <3>1, <3>2, <3>3
  <2>3. SleepsOnEmpty'
    BY <1>0, <1>1 DEF Call, Locks, EmplaceThrows, TestPredicate, SpuriousWakeup,
                      SleepsOnEmpty
  <2> HIDE DEF Asleep, Taking, Telling
  <2> QED BY <2>1, <2>2, <2>3, StillProvided
<1>2. ASSUME NEW p \in Producers, Emplace(p)
      PROVE  SleepsOnEmpty' /\ NoConsumerSleepsOverWork'
  <2>1. /\ Asleep' = Asleep /\ Taking' = Taking
        /\ p \notin Telling /\ Telling' = Telling \cup {p}
    BY <1>0, <1>2 DEF Emplace
  <2>2. SleepsOnEmpty'
    <3>1. \A c \in Consumers : place[c] # "sleep"
      BY <1>0, <1>2 DEF Emplace, HasLock
    <3> QED BY <3>1, <1>0, <1>2 DEF Emplace, SleepsOnEmpty
  <2>3. Len(queue') = Len(queue) + 1 /\ thrown' = thrown
    BY <1>0, <1>2 DEF Emplace
  <2> HIDE DEF Asleep, Taking, Telling
  <2>4. Cardinality(Telling') = Cardinality(Telling) + 1
    BY <2>1, <1>c, FS_AddElement
  <2>5. Asleep' # {} => Len(queue') <= Cardinality(Taking') + Cardinality(Telling') + thrown'
    BY <2>1, <2>3, <2>4, <1>0, <1>c, SMTT(20) DEF WakeupInv, NoConsumerSleepsOverWork
  <2> QED BY <2>2, <2>5 DEF NoConsumerSleepsOverWork
<1>3. ASSUME NEW p \in Producers, NotifyOne(p)
      PROVE  SleepsOnEmpty' /\ NoConsumerSleepsOverWork'
  <2>1. queue' = queue /\ thrown' = thrown /\ SleepsOnEmpty'
    BY <1>0, <1>3 DEF NotifyOne, SleepsOnEmpty
  <2>2. CASE Asleep = {}
    <3>1. Asleep' = {}
      BY <1>0, <1>3, <2>2 DEF NotifyOne
    <3> HIDE DEF Asleep, Taking, Telling
    <3> QED BY <2>1, <3>1 DEF NoConsumerSleepsOverWork
  <2>3. CASE Asleep # {}
    <3>1. PICK c \in Asleep : place' = [place EXCEPT ![p] = "idle", ![c] = "lock"]
      BY <1>3, <2>3 DEF NotifyOne
    <3>2. /\ c \notin Taking /\ Taking' = Taking \cup {c}
          /\ p \in Telling /\ Telling' = Telling \ {p}
      BY <1>0, <1>3, <3>1 DEF NotifyOne
    <3> HIDE DEF Asleep, Taking, Telling
    <3>3. Cardinality(Taking') = Cardinality(Taking) + 1
      BY <3>2, <1>c, FS_AddElement
    <3>4. Cardinality(Telling') = Cardinality(Telling) - 1
      BY <3>2, <1>c, FS_RemoveElement
    <3>5. Len(queue) <= Cardinality(Taking) + Cardinality(Telling) + thrown
      BY <2>3 DEF WakeupInv, NoConsumerSleepsOverWork
    <3>6. Len(queue') <= Cardinality(Taking') + Cardinality(Telling') + thrown'
      BY <2>1, <3>3, <3>4, <3>5, <1>c, <1>n
    <3> QED BY <2>1, <3>6 DEF NoConsumerSleepsOverWork
  <2> QED BY <2>2, <2>3
<1>4. ASSUME NEW c \in Consumers, Sleep(c)
      PROVE  SleepsOnEmpty' /\ NoConsumerSleepsOverWork'
  <2>1. queue' = <<>> /\ Len(queue') = 0
    BY <1>0, <1>4 DEF Sleep, SleepsOnEmpty
  <2> HIDE DEF Asleep, Taking, Telling
  <2>2. Len(queue') <= Cardinality(Taking') + Cardinality(Telling') + thrown'
    BY <2>1, <1>c, <1>n
  <2> QED BY <2>1, <2>2 DEF SleepsOnEmpty, NoConsumerSleepsOverWork
<1>5. ASSUME NEW c \in Consumers, Take(c)
      PROVE  SleepsOnEmpty' /\ NoConsumerSleepsOverWork'
  <2>1. queue # <<>> /\ queue' = Tail(queue)
    BY <1>5, <1>0 DEF Take, WakeupInv, QueueInv, TakerFindsOne
  <2>2. Len(queue') = Len(queue) - 1 /\ thrown' = thrown
    BY <2>1, <1>0, <1>5 DEF Take
  <2>3. /\ Asleep' = Asleep /\ Telling' = Telling
        /\ c \in Taking /\ Taking' = Taking \ {c}
    BY <1>0, <1>5 DEF Take
  <2>4. SleepsOnEmpty'
    <3>1. \A d \in Consumers : place[d] # "sleep"
      BY <1>0, <1>5 DEF Take, HasLock
    <3> QED BY <3>1, <1>0, <1>5 DEF Take, SleepsOnEmpty
  <2> HIDE DEF Asleep, Taking, Telling
  <2>5. Cardinality(Taking') = Cardinality(Taking) - 1
    BY <2>3, <1>c, FS_RemoveElement
  <2>6. Asleep' # {} => Len(queue') <= Cardinality(Taking') + Cardinality(Telling') + thrown'
    BY <2>2, <2>3, <2>5, <1>0, <1>c, SMTT(20) DEF WakeupInv, NoConsumerSleepsOverWork
  <2> QED BY <2>4, <2>6 DEF NoConsumerSleepsOverWork
<1>6. ASSUME NEW c \in Consumers, TakeThrows(c)
      PROVE  SleepsOnEmpty' /\ NoConsumerSleepsOverWork'
  <2>1. /\ queue' = queue /\ thrown' = thrown + 1 /\ Asleep' = Asleep
        /\ Telling' = Telling /\ c \in Taking /\ Taking' = Taking \ {c}
    BY <1>0, <1>6 DEF TakeThrows
  <2>2. SleepsOnEmpty'
    BY <1>0, <1>6 DEF TakeThrows, SleepsOnEmpty
  <2> HIDE DEF Asleep, Taking, Telling
  <2>3. Cardinality(Taking') = Cardinality(Taking) - 1
    BY <2>1, <1>c, FS_RemoveElement
  <2>4. Asleep' # {} => Len(queue') <= Cardinality(Taking') + Cardinality(Telling') + thrown'
    BY <2>1, <2>3, <1>0, <1>c, SMTT(20) DEF WakeupInv, NoConsumerSleepsOverWork
  <2> QED BY <2>2, <2>4 DEF NoConsumerSleepsOverWork
<1>7. CASE UNCHANGED queueVars
  <2>1. queue' = queue /\ place' = place /\ thrown' = thrown
    BY <1>7 DEF queueVars
  <2>2. Asleep' = Asleep /\ Taking' = Taking /\ Telling' = Telling /\ SleepsOnEmpty'
    BY <2>1, <1>0 DEF SleepsOnEmpty
  <2> HIDE DEF Asleep, Taking, Telling
  <2> QED BY <2>1, <2>2, StillProvided
<1> HIDE DEF GoesTo, Asleep, Taking, Telling
<1> QED
  BY <1>0, <1>1, <1>2, <1>3, <1>4, <1>5, <1>6, <1>7
  DEF QueueNext, ProducerStep, ConsumerStep

(* emplace tells one sleeper of each element, and that one is enough: no   *)
(* element stays behind while every consumer that could take it sleeps,    *)
(* whoever is woken, spuriously or not, and whoever is faster to the lock; *)
(* only a pop() that throws leaves one behind, and never more than one.    *)
THEOREM NoElementForgotten == QueueSpec => []NoConsumerSleepsOverWork
<1>1. QueueInit => WakeupInv
  <2> SUFFICES ASSUME QueueInit PROVE WakeupInv
    OBVIOUS
  <2>1. \A c \in Consumers : place[c] = "idle"
    BY DEF QueueInit, Callers
  <2>2. Asleep = {} /\ SleepsOnEmpty
    BY <2>1 DEF Asleep, SleepsOnEmpty
  <2> QED BY <2>2, QueueStarts DEF WakeupInv, NoConsumerSleepsOverWork
<1>2. WakeupInv => NoConsumerSleepsOverWork
  BY DEF WakeupInv
<1> QED BY <1>1, <1>2, WakeupStep, PTL DEF QueueSpec
-----------------------------------------------------------------------------
(* The ring of spsc_intring.h.                                             *)
RingTypeOK ==
  /\ at \in [Sides -> Nat] /\ readWhen \in [Sides -> Seq(Nat)]
  /\ slots \in [0 .. RingCapacity - 1 -> Nat]
  /\ side \in [Sides -> {"load", "slot", "store"}]
  /\ known \in [Observers -> [Sides -> Nat]]
  /\ dequeued \in Seq(Nat)
  /\ sized \in [by : Observers, first : Nat, result : Int, done : BOOLEAN]

(* What anybody knows has happened, also what comes with a position that   *)
(* is loaded; a side knows its own position.                               *)
KnownIsTrue ==
  /\ \A o \in Observers, s \in Sides : known[o][s] <= at[s]
  /\ \A s \in Sides :
       /\ known[s][s] = at[s] /\ Len(readWhen[s]) = at[s]
       /\ \A k \in 1 .. at[s] : readWhen[s][k] <= at[Other(s)]

(* The two sides are never further apart than the capacity, nor is a       *)
(* producer from what it knew at any of its stores.                        *)
WithinCapacity ==
  /\ \A k \in 1 .. at["producer"] : k - readWhen["producer"][k] <= RingCapacity
  /\ at["producer"] - known["producer"]["consumer"] <= RingCapacity
  /\ side["producer"] # "load"
       => at["producer"] - known["producer"]["consumer"] < RingCapacity
  /\ at["consumer"] <= known["consumer"]["producer"]
  /\ side["consumer"] # "load" => at["consumer"] < known["consumer"]["producer"]

(* Element k is in its slot until its dequeue has stored.                  *)
SlotsHold ==
  /\ \A k \in at["consumer"] + 1 .. at["producer"] : slots[Slot(k - 1)] = k
  /\ side["producer"] = "store"
       => slots[Slot(at["producer"])] = at["producer"] + 1

(* Between the two loads of size() its caller stands still.                *)
SizeInStep ==
  /\ ~sized.done =>
       /\ sized.first - known[sized.by]["consumer"] <= RingCapacity
       /\ sized.by \in Sides => side[sized.by] = "load"
       /\ sized.by = "producer" => sized.first >= at["producer"]
       /\ sized.by = "consumer" => sized.first >= at["consumer"]
  /\ SizeIsBounded

BlockingRingInv ==
  RingTypeOK /\ KnownIsTrue /\ WithinCapacity /\ SlotsHold /\ SizeInStep

LEMMA SideFacts ==
  /\ Sides = {"producer", "consumer"} /\ Sides \subseteq Observers
  /\ Other("producer") = "consumer" /\ Other("consumer") = "producer"
BY DEF Sides, Other, Observers

(* What an observer knows after a load: nothing is forgotten, and what the *)
(* writer had read is learnt.                                              *)
LEMMA LoadTeaches ==
  ASSUME RingTypeOK, KnownIsTrue, NEW o \in Observers, NEW s \in Sides,
         NEW p \in known[o][s] .. at[s], Knows(o, s, p)
  PROVE  /\ known' \in [Observers -> [Sides -> Nat]]
         /\ \A q \in Observers \ {o} : known'[q] = known[q]
         /\ known'[o][s] = p
         /\ known'[o][Other(s)] >= known[o][Other(s)]
         /\ known'[o][Other(s)] <= at[Other(s)]
         /\ p # 0 => known'[o][Other(s)] >= readWhen[s][p]
<1> USE DEF RingTypeOK, KnownIsTrue
<1> DEFINE x == Other(s)  r == IF p = 0 THEN 0 ELSE readWhen[s][p]
<1>1. /\ x \in Sides /\ x # s /\ \A y \in Sides : y = s \/ y = x
      /\ p \in Nat /\ at[s] \in Nat /\ at[x] \in Nat
      /\ known[o][s] \in Nat /\ known[o][x] \in Nat
  BY SideFacts
<1>2. r \in Nat /\ r <= at[x] /\ (p # 0 => r = readWhen[s][p])
  <2>1. CASE p = 0
    BY <2>1, <1>1
  <2>2. CASE p # 0
    <3>1. p \in 1 .. at[s] /\ readWhen[s] \in Seq(Nat) /\ Len(readWhen[s]) = at[s]
      BY <2>2, <1>1
    <3>2. readWhen[s][p] \in Nat
      BY <3>1, ElementOfSeq
    <3> QED BY <3>1, <3>2, <2>2
  <2> QED BY <2>1, <2>2
<1> DEFINE new == [y \in Sides |->
                     IF y = s THEN p ELSE IF r > known[o][y] THEN r ELSE known[o][y]]
<1>3. known' = [known EXCEPT ![o] = new]
  BY DEF Knows
<1> HIDE DEF r
<1>4. /\ new \in [Sides -> Nat] /\ new[s] = p
      /\ new[x] = IF r > known[o][x] THEN r ELSE known[o][x]
  BY <1>1, <1>2
<1>5. known'[o] = new /\ \A q \in Observers \ {o} : known'[q] = known[q]
  BY <1>3
<1>6. known' \in [Observers -> [Sides -> Nat]]
  BY <1>3, <1>4
<1>7. known[o][x] <= at[x]
  BY <1>1
<1> HIDE DEF new, RingTypeOK, KnownIsTrue
<1>8. new[x] >= known[o][x] /\ new[x] <= at[x] /\ new[x] >= r
  <2> DEFINE a == known[o][x]  b == at[x]  c == new[x]
  <2>1. a \in Nat /\ b \in Nat /\ r \in Nat /\ a <= b /\ r <= b /\ c = IF r > a THEN r ELSE a
    BY <1>1, <1>2, <1>4, <1>7
  <2> HIDE DEF a, b, c
  <2>2. c >= a /\ c <= b /\ c >= r
    BY <2>1
  <2> QED BY <2>2 DEF a, b, c
<1> QED BY <1>2, <1>4, <1>5, <1>6, <1>8

(* Two positions less than a lap apart have different slots.               *)
LEMMA SlotsOfOneLap ==
  ASSUME NEW i \in Nat, NEW j \in Nat, i < j, j < i + RingCapacity
  PROVE  Slot(i) # Slot(j)
<1> DEFINE K == RingCapacity
<1>1. K \in Nat /\ K >= 1
  BY RingConstants
<1> HIDE DEF K
<1>2. /\ i = K * (i \div K) + (i % K) /\ i \div K \in Nat
      /\ j = K * (j \div K) + (j % K) /\ j \div K \in Nat
  BY <1>1
<1> DEFINE d == j \div K - i \div K
<1>3. ASSUME i % K = j % K PROVE FALSE
  <2>1. d \in Int /\ j - i = K * d
    BY <1>1, <1>2, <1>3
  <2> HIDE DEF d
  <2>2. d <= 0 \/ d >= 1
    BY <2>1
  <2>3. j - i > 0 /\ j - i < K
    BY <1>1 DEF K
  <2>4. CASE d <= 0
    BY <2>1, <2>3, <2>4, <1>1
  <2>5. CASE d >= 1
    BY <2>1, <2>3, <2>5, <1>1
  <2> QED BY <2>2, <2>4, <2>5
<1> QED BY <1>3 DEF Slot, K

LEMMA SlotType == \A i \in Nat : Slot(i) \in 0 .. RingCapacity - 1
BY RingConstants DEF Slot

LEMMA LoadKeepsTruth ==
  ASSUME RingTypeOK, KnownIsTrue, NEW o \in Observers, NEW s \in Sides,
         NEW p \in known[o][s] .. at[s], Knows(o, s, p), UNCHANGED <<at, readWhen>>
  PROVE  /\ KnownIsTrue'
         /\ \A q \in Observers, y \in Sides : known'[q][y] >= known[q][y]
<1>1. /\ \A y \in Sides : y = s \/ y = Other(s)
      /\ Other(s) \in Sides /\ Sides \subseteq Observers
  BY SideFacts
<1>2. /\ \A q \in Observers, y \in Sides : known[q][y] \in Nat /\ known'[q][y] \in Nat
      /\ \A y \in Sides : at[y] \in Nat
  BY LoadTeaches DEF RingTypeOK
<1>3. ASSUME NEW q \in Observers, NEW y \in Sides
      PROVE  known'[q][y] >= known[q][y] /\ known'[q][y] <= at[y]
  <2>1. CASE q # o
    BY <2>1, <1>2, LoadTeaches DEF KnownIsTrue
  <2>2. CASE q = o
    <3>1. /\ known'[o][s] = p /\ known'[o][Other(s)] >= known[o][Other(s)]
          /\ known'[o][Other(s)] <= at[Other(s)]
      BY LoadTeaches
    <3>2. p >= known[o][s] /\ p <= at[s]
      BY <1>2
    <3> QED BY <3>1, <3>2, <2>2, <1>1
  <2> QED BY <2>1, <2>2
<1>4. ASSUME NEW y \in Sides PROVE known'[y][y] = at[y]
  <2>1. known[y][y] = at[y] /\ y \in Observers
    BY <1>1 DEF KnownIsTrue
  <2> QED BY <2>1, <1>2, <1>3
<1> QED BY <1>3, <1>4 DEF KnownIsTrue

LEMMA RingStep == BlockingRingInv /\ [RingNext]_ringVars => BlockingRingInv'
<1> SUFFICES ASSUME RingTypeOK, KnownIsTrue, WithinCapacity, SlotsHold, SizeInStep,
                    [RingNext]_ringVars
             PROVE  BlockingRingInv'
  BY DEF BlockingRingInv
<1> DEFINE P == at["producer"]  C == at["consumer"]
<1>t. /\ P \in Nat /\ C \in Nat /\ RingCapacity \in Nat
      /\ \A o \in Observers, s \in Sides : known[o][s] \in Nat
      /\ C <= P
  <2>1. /\ P \in Nat /\ C \in Nat /\ RingCapacity \in Nat
        /\ \A o \in Observers, s \in Sides : known[o][s] \in Nat
    BY SideFacts, RingConstants DEF RingTypeOK
  <2>2. C <= known["consumer"]["producer"] /\ known["consumer"]["producer"] <= P
    BY SideFacts DEF WithinCapacity, KnownIsTrue
  <2> QED BY <2>1, <2>2, SideFacts
<1>1. ASSUME NEW s \in Sides, NEW p \in known[s][Other(s)] .. at[Other(s)],
             LoadPositions(s, p)
      PROVE  BlockingRingInv'
  <2> USE <1>1 DEF LoadPositions
  <2>1. /\ Other(s) \in Sides /\ s \in Observers /\ Knows(s, Other(s), p)
        /\ UNCHANGED <<at, readWhen, slots, dequeued, sized>>
    BY SideFacts
  <2>2. /\ known' \in [Observers -> [Sides -> Nat]]
        /\ \A q \in Observers \ {s} : known'[q] = known[q]
        /\ known'[s][Other(s)] = p
    BY <2>1, LoadTeaches
  <2>3. RingTypeOK'
    BY <2>1, <2>2 DEF RingTypeOK
  <2>4. KnownIsTrue'
    BY <2>1, LoadKeepsTruth
  <2>5. WithinCapacity'
    <3>1. /\ \A k \in 1 .. P : k - readWhen'["producer"][k] <= RingCapacity
          /\ p \in Nat /\ p >= known[s][Other(s)]
      BY <2>1, <1>t DEF WithinCapacity
    <3>2. CASE s = "producer"
      <4>1. side'["consumer"] = side["consumer"] /\ known'["consumer"] = known["consumer"]
        BY <3>2, <2>2, SideFacts DEF RingTypeOK
      <4>2. side'["producer"] # "load" => P - p < RingCapacity
        BY <3>2, <1>t, <3>1, SideFacts, SMTT(20) DEF RingTypeOK, Full
      <4> QED BY <4>1, <4>2, <3>1, <3>2, <2>1, <2>2, <1>t, SideFacts DEF WithinCapacity
    <3>3. CASE s = "consumer"
      <4>1. side'["producer"] = side["producer"] /\ known'["producer"] = known["producer"]
        BY <3>3, <2>2, SideFacts DEF RingTypeOK
      <4>2. C <= p /\ (side'["consumer"] # "load" => C < p)
        BY <3>3, <1>t, <3>1, SideFacts DEF RingTypeOK, Empty, WithinCapacity
      <4> QED BY <4>1, <4>2, <3>1, <3>3, <2>1, <2>2, <1>t, SideFacts DEF WithinCapacity
    <3> QED BY <3>2, <3>3, SideFacts
  <2>6. SlotsHold'
    <3>1. side'["producer"] = "store" => side["producer"] = "store"
      BY SideFacts DEF RingTypeOK
    <3> QED BY <3>1, <2>1 DEF SlotsHold
  <2>7. SizeInStep'
    <3>1. ASSUME ~sized.done
          PROVE  known'[sized.by] = known[sized.by] /\ sized.by # s
      BY <3>1, <2>2 DEF RingTypeOK
    <3>2. ASSUME ~sized.done, sized.by \in Sides PROVE side'[sized.by] = side[sized.by]
      BY <3>1, <3>2 DEF RingTypeOK
    <3> QED BY <3>1, <3>2, <2>1 DEF SizeInStep, SizeIsBounded
  <2> QED BY <2>3, <2>4, <2>5, <2>6, <2>7 DEF BlockingRingInv
<1>2. CASE WriteSlot
  <2> USE <1>2 DEF WriteSlot
  <2>1. Slot(P) \in 0 .. RingCapacity - 1
    BY <1>t, SlotType
  <2>2. /\ side' \in [Sides -> {"load", "slot", "store"}]
        /\ side'["producer"] = "store" /\ side'["consumer"] = side["consumer"]
        /\ slots' \in [0 .. RingCapacity - 1 -> Nat] /\ slots'[Slot(P)] = P + 1
    BY <2>1, <1>t, SideFacts, SMTT(20) DEF RingTypeOK
  <2>3. RingTypeOK' /\ KnownIsTrue'
    BY <2>2 DEF RingTypeOK, KnownIsTrue
  <2>4. WithinCapacity'
    BY <2>2 DEF WithinCapacity
  <2>5. SlotsHold'
    <3>1. P - C < RingCapacity
      <4>1. P - known["producer"]["consumer"] < RingCapacity
        BY DEF WithinCapacity
      <4>2. known["producer"]["consumer"] <= C /\ known["producer"]["consumer"] \in Nat
        BY <1>t, SideFacts DEF KnownIsTrue
      <4> QED BY <4>1, <4>2, <1>t
    <3>2. ASSUME NEW k \in C + 1 .. P PROVE slots'[Slot(k - 1)] = k
      <4>1. k - 1 \in Nat /\ k - 1 < P /\ P < k - 1 + RingCapacity
        BY <1>t, <3>1
      <4>2. Slot(k - 1) # Slot(P)
        BY <4>1, <1>t, SlotsOfOneLap
      <4>3. slots[Slot(k - 1)] = k
        BY DEF SlotsHold
      <4>4. Slot(k - 1) \in 0 .. RingCapacity - 1
        BY <4>1, SlotType
      <4> QED BY <4>2, <4>3, <4>4, <2>1 DEF RingTypeOK
    <3> QED BY <3>2, <2>2 DEF SlotsHold
  <2>6. SizeInStep'
    BY <2>2, SideFacts DEF SizeInStep, SizeIsBounded
  <2> QED BY <2>3, <2>4, <2>5, <2>6 DEF BlockingRingInv
<1>3. CASE ReadSlot
  <2> USE <1>3 DEF ReadSlot
  <2>1. slots[Slot(C)] \in Nat
    BY <1>t, SlotType DEF RingTypeOK
  <2>2. /\ side' \in [Sides -> {"load", "slot", "store"}]
        /\ side'["consumer"] = "store" /\ side'["producer"] = side["producer"]
        /\ dequeued' \in Seq(Nat)
    BY <2>1, AppendProperties, SideFacts DEF RingTypeOK
  <2>3. RingTypeOK' /\ KnownIsTrue'
    BY <2>2 DEF RingTypeOK, KnownIsTrue
  <2>4. WithinCapacity' /\ SlotsHold'
    BY <2>2 DEF WithinCapacity, SlotsHold
  <2>5. SizeInStep'
    BY <2>2, SideFacts DEF SizeInStep, SizeIsBounded
  <2> QED BY <2>3, <2>4, <2>5 DEF BlockingRingInv
<1>4. ASSUME NEW s \in Sides, StorePosition(s) PROVE BlockingRingInv'
  <2> DEFINE x == Other(s)  n == known[s][x]
  <2>1. x \in Sides /\ x # s /\ s \in Observers /\ (\A y \in Sides : y = s \/ y = x)
    BY SideFacts
  <2>2. /\ at[s] \in Nat /\ n \in Nat /\ n <= at[x] /\ at[x] \in Nat
        /\ readWhen[s] \in Seq(Nat) /\ Len(readWhen[s]) = at[s]
    BY <2>1, <1>t DEF RingTypeOK, KnownIsTrue
  <2>3. /\ at' \in [Sides -> Nat] /\ at'[s] = at[s] + 1 /\ at'[x] = at[x]
        /\ side' \in [Sides -> {"load", "slot", "store"}]
        /\ side'[s] = "load" /\ side'[x] = side[x] /\ side[s] = "store"
        /\ UNCHANGED <<slots, dequeued, sized>>
    BY <1>4, <2>1, <2>2 DEF StorePosition, RingTypeOK
  <2>4. /\ known' \in [Observers -> [Sides -> Nat]]
        /\ known'[s][s] = at[s] + 1 /\ known'[s][x] = n
        /\ \A q \in Observers \ {s} : known'[q] = known[q]
    <3> DEFINE new == [known[s] EXCEPT ![s] = @ + 1]
    <3>1. known' = [known EXCEPT ![s] = new]
      BY <1>4 DEF StorePosition
    <3>2. new \in [Sides -> Nat] /\ new[s] = at[s] + 1 /\ new[x] = n
      BY <2>1, <2>2 DEF RingTypeOK, KnownIsTrue
    <3> HIDE DEF new
    <3> QED BY <3>1, <3>2, <2>1 DEF RingTypeOK
  <2>5. /\ readWhen' \in [Sides -> Seq(Nat)] /\ readWhen'[x] = readWhen[x]
        /\ Len(readWhen'[s]) = at[s] + 1
        /\ readWhen'[s][at[s] + 1] = n
        /\ \A k \in 1 .. at[s] : readWhen'[s][k] = readWhen[s][k]
    <3>1. /\ readWhen' = [readWhen EXCEPT ![s] = Append(readWhen[s], n)]
          /\ readWhen'[s] = Append(readWhen[s], n)
      BY <1>4 DEF StorePosition, RingTypeOK
    <3>2. Append(readWhen[s], n) \in Seq(Nat)
      BY <2>2, AppendProperties
    <3>3. readWhen' \in [Sides -> Seq(Nat)] /\ readWhen'[x] = readWhen[x]
      BY <3>1, <3>2, <2>1 DEF RingTypeOK
    <3> QED BY <3>1, <3>3, <2>2, AppendProperties
  <2>6. RingTypeOK'
    BY <2>3, <2>4, <2>5 DEF RingTypeOK
  <2>7. KnownIsTrue'
    <3>1. ASSUME NEW q \in Observers, NEW y \in Sides PROVE known'[q][y] <= at'[y]
      <4>1. known[q][y] <= at[y] /\ known[q][y] \in Nat
        BY <1>t DEF KnownIsTrue
      <4>2. CASE q = s
        <5>1. CASE y = s
          BY <4>2, <5>1, <2>2, <2>3, <2>4
        <5>2. CASE y = x
          BY <4>2, <5>2, <2>2, <2>3, <2>4
        <5> QED BY <5>1, <5>2, <2>1
      <4>3. CASE q # s
        <5>1. known'[q][y] = known[q][y]
          BY <4>3, <2>4
        <5>2. CASE y = s
          <6>1. at'[y] = at[y] + 1 /\ at[y] \in Nat
            BY <5>2, <2>2, <2>3
          <6> QED BY <4>1, <5>1, <6>1, Bounds
        <5>3. CASE y = x
          BY <4>1, <5>1, <5>3, <2>3
        <5> QED BY <5>2, <5>3, <2>1
      <4> QED BY <4>2, <4>3
    <3>2. ASSUME NEW y \in Sides
          PROVE  known'[y][y] = at'[y] /\ Len(readWhen'[y]) = at'[y]
      BY <2>1, <2>3, <2>4, <2>5, SideFacts DEF KnownIsTrue
    <3>3. Other(x) = s
      BY SideFacts
    <3>4. ASSUME NEW k \in 1 .. at[s] + 1 PROVE readWhen'[s][k] <= at'[x]
      <4>1. CASE k = at[s] + 1
        BY <4>1, <2>2, <2>3, <2>5
      <4>2. CASE k # at[s] + 1
        <5>1. k \in 1 .. at[s]
          BY <4>2, <2>2
        <5> QED BY <5>1, <2>3, <2>5 DEF KnownIsTrue
      <4> QED BY <4>1, <4>2
    <3>5. ASSUME NEW k \in 1 .. at[x] PROVE readWhen'[x][k] <= at'[s]
      <4>1. readWhen[x][k] <= at[s] /\ readWhen[x] \in Seq(Nat) /\ Len(readWhen[x]) = at[x]
        BY <3>3, <2>1 DEF KnownIsTrue, RingTypeOK
      <4>2. readWhen[x][k] \in Nat
        BY <4>1, ElementOfSeq, <2>2
      <4>3. readWhen[x][k] <= at[s] + 1
        BY <4>1, <4>2, <2>2, Bounds
      <4> QED BY <4>3, <2>3, <2>5
    <3> HIDE DEF x
    <3> QED BY <3>1, <3>2, <3>3, <3>4, <3>5, <2>1, <2>3 DEF KnownIsTrue, x
  <2>8. WithinCapacity'
    <3>1. CASE s = "producer"
      <4>1. x = "consumer" /\ P - n < RingCapacity
        BY <3>1, <2>3, SideFacts DEF WithinCapacity
      <4>2. ASSUME NEW k \in 1 .. P + 1
            PROVE  k - readWhen'["producer"][k] <= RingCapacity
        <5>1. CASE k = P + 1
          BY <5>1, <4>1, <3>1, <2>2, <2>5, <1>t
        <5>2. CASE k # P + 1
          <6>1. k \in 1 .. P
            BY <5>2, <1>t, Bounds
          <6> QED BY <6>1, <3>1, <2>5 DEF WithinCapacity
        <5> QED BY <5>1, <5>2
      <4>3. P + 1 - n <= RingCapacity
        BY <4>1, <2>2, <1>t
      <4>4. known'["consumer"] = known["consumer"]
        BY <4>1, <2>4, <3>1, SideFacts
      <4>5. at'["producer"] = P + 1 /\ at'["consumer"] = C
            /\ side'["producer"] = "load" /\ side'["consumer"] = side["consumer"]
            /\ known'["producer"]["consumer"] = n
        BY <4>1, <3>1, <2>3, <2>4
      <4>6. /\ at["consumer"] <= known["consumer"]["producer"]
            /\ side["consumer"] # "load" => at["consumer"] < known["consumer"]["producer"]
        BY DEF WithinCapacity
      <4>7. \A k \in 1 .. at'["producer"] : k - readWhen'["producer"][k] <= RingCapacity
        BY <4>2, <4>5
      <4> HIDE DEF x, n
      <4>8. at'["producer"] - known'["producer"]["consumer"] <= RingCapacity
        <5> DEFINE a == at'["producer"]  b == known'["producer"]["consumer"]
        <5>1. a = P + 1 /\ b = n /\ n \in Nat /\ P \in Nat
          BY <4>5, <2>2, <1>t DEF n
        <5> HIDE DEF a, b
        <5> QED BY <5>1, <4>3 DEF a, b
      <4> QED BY <4>4, <4>5, <4>6, <4>7, <4>8 DEF WithinCapacity
    <3>2. CASE s = "consumer"
      <4>1. x = "producer" /\ C < n
        BY <3>2, <2>3, SideFacts DEF WithinCapacity
      <4>2. C + 1 <= n
        BY <4>1, <1>t, <2>2
      <4>3. known'["producer"] = known["producer"]
        BY <4>1, <2>4, <3>2, SideFacts
      <4>4. at'["producer"] = P /\ at'["consumer"] = C + 1
            /\ side'["consumer"] = "load" /\ side'["producer"] = side["producer"]
            /\ known'["consumer"]["producer"] = n
            /\ readWhen'["producer"] = readWhen["producer"]
        BY <4>1, <3>2, <2>3, <2>4, <2>5
      <4> QED BY <4>2, <4>3, <4>4 DEF WithinCapacity
    <3> QED BY <3>1, <3>2, SideFacts
  <2>9. SlotsHold'
    <3>1. CASE s = "producer"
      <4>1. /\ at'["producer"] = P + 1 /\ at'["consumer"] = C
            /\ side'["producer"] # "store"
        BY <3>1, <2>3, SideFacts
      <4>2. ASSUME NEW k \in C + 1 .. P + 1 PROVE slots[Slot(k - 1)] = k
        <5>1. CASE k = P + 1
          BY <5>1, <3>1, <2>3, <1>t DEF SlotsHold
        <5>2. CASE k # P + 1
          <6>1. k \in C + 1 .. P
            BY <5>2, <1>t
          <6> QED BY <6>1 DEF SlotsHold
        <5> QED BY <5>1, <5>2
      <4> QED BY <4>1, <4>2, <2>3 DEF SlotsHold
    <3>2. CASE s = "consumer"
      <4>1. /\ at'["producer"] = P /\ at'["consumer"] = C + 1
            /\ side'["producer"] = side["producer"]
        BY <3>2, <2>3, SideFacts
      <4>2. \A k \in C + 2 .. P : k \in C + 1 .. P
        BY <1>t
      <4> QED BY <4>1, <4>2, <2>3, <1>t DEF SlotsHold
    <3> QED BY <3>1, <3>2, SideFacts
  <2>10. SizeInStep'
    <3>1. ASSUME ~sized.done
          PROVE  sized.by # s /\ known'[sized.by] = known[sized.by]
      BY <3>1, <2>3, <2>4 DEF SizeInStep, RingTypeOK
    <3>2. ASSUME ~sized.done, sized.by \in Sides
          PROVE  sized.by = x /\ at'[sized.by] = at[sized.by]
                 /\ side'[sized.by] = side[sized.by]
      BY <3>1, <3>2, <2>1, <2>3
    <3> QED BY <3>1, <3>2, <2>3, SideFacts DEF SizeInStep, SizeIsBounded
  <2> QED BY <2>6, <2>7, <2>8, <2>9, <2>10 DEF BlockingRingInv
<1>5. ASSUME NEW o \in Observers, SizeBegins(o) PROVE BlockingRingInv'
  <2> USE <1>5 DEF SizeBegins
  <2>1. PICK p \in known[o]["producer"] .. P :
          /\ Knows(o, "producer", p)
          /\ sized' = [by |-> o, first |-> p, result |-> 0, done |-> FALSE]
    OBVIOUS
  <2>2. /\ known' \in [Observers -> [Sides -> Nat]]
        /\ p # 0 => known'[o]["consumer"] >= readWhen["producer"][p]
    BY <2>1, LoadTeaches, SideFacts
  <2>3. KnownIsTrue' /\ \A q \in Observers, y \in Sides : known'[q][y] >= known[q][y]
    BY <2>1, LoadKeepsTruth, SideFacts
  <2>4. p \in Nat /\ p <= P /\ p >= known[o]["producer"]
    BY <1>t, SideFacts
  <2>5. RingTypeOK'
    BY <2>1, <2>2, <2>4 DEF RingTypeOK
  <2>6. /\ \A q \in Observers, y \in Sides : known'[q][y] \in Nat
        /\ known'["producer"]["consumer"] >= known["producer"]["consumer"]
        /\ known'["consumer"]["producer"] >= known["consumer"]["producer"]
    BY <2>2, <2>3, SideFacts
  <2>7. WithinCapacity' /\ SlotsHold'
    BY <2>6, <1>t, SideFacts DEF WithinCapacity, SlotsHold
  <2>8. p - known'[o]["consumer"] <= RingCapacity
    <3>1. CASE p = 0
      BY <3>1, <2>6, <1>t, SideFacts
    <3>2. CASE p # 0
      <4>1. p \in 1 .. P /\ readWhen["producer"][p] \in Nat
        BY <3>2, <2>4, <1>t, SideFacts, ElementOfSeq, SMTT(20) DEF RingTypeOK, KnownIsTrue
      <4>2. p - readWhen["producer"][p] <= RingCapacity
        BY <4>1 DEF WithinCapacity
      <4> QED BY <4>1, <4>2, <3>2, <2>2, <2>4, <2>6, <1>t, SideFacts
    <3> QED BY <3>1, <3>2
  <2>9. (o = "producer" => p >= P) /\ (o = "consumer" => p >= C)
    <3>1. CASE o = "producer"
      BY <3>1, <2>4, SideFacts DEF KnownIsTrue
    <3>2. CASE o = "consumer"
      BY <3>2, <2>4, <1>t, SideFacts DEF WithinCapacity
    <3> QED BY <3>1, <3>2
  <2>10. SizeInStep'
    BY <2>1, <2>8, <2>9, <1>t DEF SizeInStep, SizeIsBounded
  <2> QED BY <2>3, <2>5, <2>7, <2>10 DEF BlockingRingInv
<1>6. CASE SizeReturns
  <2> USE <1>6 DEF SizeReturns
  <2> DEFINE o == sized.by
  <2>1. PICK c \in known[o]["consumer"] .. C :
          /\ Knows(o, "consumer", c)
          /\ sized' = [by |-> o, first |-> sized.first, result |-> sized.first - c,
                       done |-> TRUE]
    OBVIOUS
  <2>2. o \in Observers /\ sized.first \in Nat
    BY DEF RingTypeOK
  <2>3. known' \in [Observers -> [Sides -> Nat]]
    BY <2>1, <2>2, LoadTeaches, SideFacts
  <2>4. KnownIsTrue' /\ \A q \in Observers, y \in Sides : known'[q][y] >= known[q][y]
    BY <2>1, <2>2, LoadKeepsTruth, SideFacts
  <2>5. c \in Nat /\ c <= C /\ c >= known[o]["consumer"] /\ known[o]["consumer"] \in Nat
    <3>1. known[o]["consumer"] \in Nat /\ C \in Nat
      BY <1>t, <2>2, SideFacts
    <3> QED BY <3>1, Bounds
  <2>6. /\ sized' \in [by : Observers, first : Nat, result : Int, done : BOOLEAN]
        /\ sized'.by = o /\ sized'.result = sized.first - c /\ sized'.done
    BY <2>1, <2>2, <2>5 DEF RingTypeOK
  <2>7. RingTypeOK'
    BY <2>3, <2>6 DEF RingTypeOK
  <2>8. /\ \A q \in Observers, y \in Sides : known'[q][y] \in Nat
        /\ known'["producer"]["consumer"] >= known["producer"]["consumer"]
        /\ known'["consumer"]["producer"] >= known["consumer"]["producer"]
    BY <2>3, <2>4, SideFacts
  <2>9. WithinCapacity' /\ SlotsHold'
    BY <2>8, <1>t, SideFacts DEF WithinCapacity, SlotsHold
  <2>10. sized.first - c <= RingCapacity
    BY <2>2, <2>5, <1>t DEF SizeInStep
  <2>11. o \in Sides => sized.first - c >= 0
    BY <2>2, <2>5, <1>t, SideFacts DEF SizeInStep
  <2>12. SizeInStep'
    BY <2>6, <2>10, <2>11 DEF SizeInStep, SizeIsBounded
  <2> QED BY <2>4, <2>7, <2>9, <2>12 DEF BlockingRingInv
<1>7. CASE UNCHANGED ringVars
  BY <1>7 DEF ringVars, BlockingRingInv, RingTypeOK, KnownIsTrue, WithinCapacity,
              SlotsHold, SizeInStep, SizeIsBounded
<1> QED BY <1>1, <1>2, <1>3, <1>4, <1>5, <1>6, <1>7 DEF RingNext

LEMMA RingInvariant == RingSpec => []BlockingRingInv
<1>1. RingInit => BlockingRingInv
  <2> SUFFICES ASSUME RingInit PROVE BlockingRingInv
    OBVIOUS
  <2> USE RingConstants DEF RingInit
  <2>1. RingTypeOK
    BY EmptySeq, SideFacts DEF RingTypeOK, Observers
  <2>2. KnownIsTrue
    BY EmptySeq, SideFacts DEF KnownIsTrue
  <2>3. WithinCapacity /\ SlotsHold /\ SizeInStep
    BY SideFacts DEF WithinCapacity, SlotsHold, SizeInStep, SizeIsBounded
  <2> QED BY <2>1, <2>2, <2>3 DEF BlockingRingInv
<1> QED BY <1>1, RingStep, PTL DEF RingSpec

(* size() is never more than the capacity, however old the positions it    *)
(* loads are, and never negative to either side of the ring.               *)
THEOREM SizeStaysBounded == RingSpec => []SizeIsBounded
BY RingInvariant, PTL DEF BlockingRingInv, SizeInStep

(* What is inside, as a sequence.                                          *)
InsideIsListed ==
  /\ Taken \in Nat /\ at["producer"] \in Nat /\ at["consumer"] \in Nat
  /\ RingCapacity \in Nat
  /\ at["consumer"] <= Taken /\ Taken <= at["producer"]
  /\ side["producer"] # "load"
       => at["producer"] < at["consumer"] + RingCapacity
  /\ Inside \in Seq(Nat) /\ Len(Inside) = at["producer"] - Taken
  /\ \A k \in 1 .. at["producer"] - Taken :
       /\ Taken + k - 1 \in Nat
       /\ Inside[k] = slots[Slot(Taken + k - 1)]

LEMMA InsideArithmetic ==
  ASSUME NEW T \in Nat, NEW P \in Nat, NEW C \in Nat, NEW K \in Nat, C <= T, T <= P
  PROVE  /\ P - T \in Nat
         /\ \A k \in 1 .. P - T :
              /\ T + k - 1 \in Nat /\ T + k - 1 < P
              /\ P < C + K => P < T + k - 1 + K
         /\ \A k \in 1 .. P - T - 1 : k + 1 \in 1 .. P - T
         /\ \A k \in Nat : k = P - T + 1 => T + k - 1 = P
         /\ P < C + K => P - T < K
OBVIOUS

LEMMA WhatIsInside == BlockingRingInv => InsideIsListed
<1> SUFFICES ASSUME BlockingRingInv PROVE InsideIsListed
  OBVIOUS
<1> DEFINE P == at["producer"]  C == at["consumer"]  u == known["producer"]["consumer"]
           w == known["consumer"]["producer"]
<1>1. P \in Nat /\ C \in Nat /\ u \in Nat /\ w \in Nat /\ RingCapacity \in Nat
  BY SideFacts, RingConstants DEF BlockingRingInv, RingTypeOK
<1>2. /\ u <= C /\ w <= P /\ C <= w
      /\ side["consumer"] # "load" => C < w
      /\ side["producer"] # "load" => P - u < RingCapacity
  BY SideFacts DEF BlockingRingInv, KnownIsTrue, WithinCapacity
<1>3. Taken = IF side["consumer"] = "store" THEN C + 1 ELSE C
  BY <1>1 DEF Taken
<1> HIDE DEF P, C, u, w
<1>4. /\ Taken \in Nat /\ C <= Taken /\ Taken <= P
      /\ side["producer"] # "load" => P < C + RingCapacity
  BY <1>1, <1>2, <1>3
<1>5. P - Taken \in Nat
  BY <1>1, <1>4
<1>6. ASSUME NEW k \in 1 .. P - Taken
      PROVE  Taken + k - 1 \in Nat /\ slots[Slot(Taken + k - 1)] \in Nat
  <2>1. Taken + k - 1 \in Nat
    BY <1>4, <1>5
  <2> QED BY <2>1, SlotType DEF BlockingRingInv, RingTypeOK
<1>7. Inside = [k \in 1 .. P - Taken |-> slots[Slot(Taken + k - 1)]]
  BY DEF Inside, P
<1> DEFINE inside(k) == slots[Slot(Taken + k - 1)]
<1>8. Inside = [k \in 1 .. P - Taken |-> inside(k)] /\ \A k \in 1 .. P - Taken : inside(k) \in Nat
  BY <1>6, <1>7
<1> HIDE DEF inside
<1>9. /\ Inside \in Seq(Nat) /\ Len(Inside) = P - Taken
      /\ \A k \in 1 .. P - Taken : Inside[k] = inside(k)
  BY <1>5, <1>8
<1> QED BY <1>1, <1>4, <1>6, <1>9 DEF P, C, inside, InsideIsListed

(* As long as the slots that are inside keep what they hold, so does it.   *)
LEMMA SameInside ==
  ASSUME BlockingRingInv, BlockingRingInv', Taken' = Taken,
         at'["producer"] = at["producer"],
         \A k \in 1 .. at["producer"] - Taken :
           slots'[Slot(Taken + k - 1)] = slots[Slot(Taken + k - 1)]
  PROVE  Inside' = Inside
BY DEF Inside

LEMMA OutOfAppend ==
  ASSUME dequeued \in Seq(Nat), NEW e \in Nat, dequeued' = Append(dequeued, e)
  PROVE  Out' = e
<1>1. /\ dequeued' # <<>> /\ Len(dequeued') = Len(dequeued) + 1
      /\ dequeued'[Len(dequeued) + 1] = e
  BY AppendProperties
<1> QED BY <1>1 DEF Out

(* The ring is a bounded first-in first-out queue, of any capacity and for *)
(* any old positions that the two sides load.                              *)
THEOREM RingIsFifo == RingSpec => RingImplementsFifo
<1>1. RingInit => Fifo!FifoInit
  <2> SUFFICES ASSUME RingInit PROVE Inside = <<>> /\ Out \notin 1 .. MaxEnqueued
    BY DEF Fifo!FifoInit
  <2>1. at["producer"] = 0 /\ Taken = 0 /\ Out = 0
    BY SideFacts DEF RingInit, Taken, Out
  <2>2. Inside = [k \in 1 .. 0 |-> slots[Slot(Taken + k - 1)]]
    BY <2>1 DEF Inside
  <2>3. 0 \notin 1 .. MaxEnqueued
    OBVIOUS
  <2> QED BY <2>1, <2>2, <2>3
<1>2. BlockingRingInv /\ BlockingRingInv' /\ [RingNext]_ringVars
        => [Fifo!Put(at["producer"] + 1) \/ Fifo!Take]_<<Inside, Out>>
  <2> SUFFICES ASSUME BlockingRingInv, BlockingRingInv', [RingNext]_ringVars
               PROVE  \/ UNCHANGED <<Inside, Out>>
                      \/ Fifo!Put(at["producer"] + 1) \/ Fifo!Take
    OBVIOUS
  <2> DEFINE P == at["producer"]  C == at["consumer"]  m == P - Taken
  <2>1. /\ Taken \in Nat /\ P \in Nat /\ C \in Nat /\ RingCapacity \in Nat
        /\ C <= Taken /\ Taken <= P /\ m \in Nat
        /\ side["producer"] # "load" => P < C + RingCapacity
        /\ Inside \in Seq(Nat) /\ Len(Inside) = m
    BY WhatIsInside, InsideArithmetic DEF InsideIsListed
  <2>2. \A k \in 1 .. m :
          Taken + k - 1 \in Nat /\ Inside[k] = slots[Slot(Taken + k - 1)]
    BY WhatIsInside DEF InsideIsListed
  <2>i. InsideIsListed'
    BY WhatIsInside, PTL
  <2>3. ASSUME NEW s \in Sides, NEW p, LoadPositions(s, p)
        PROVE  UNCHANGED <<Inside, Out>>
    <3>1. Taken' = Taken
      BY <2>3, SideFacts DEF LoadPositions, Taken, BlockingRingInv, RingTypeOK
    <3> QED BY <3>1, <2>3, SameInside DEF LoadPositions, Out
  <2>4. CASE WriteSlot
    <3>1. Taken' = Taken
      BY <2>4, SideFacts DEF WriteSlot, Taken, BlockingRingInv, RingTypeOK
    <3>2. ASSUME NEW k \in 1 .. m
          PROVE  slots'[Slot(Taken + k - 1)] = slots[Slot(Taken + k - 1)]
      <4> DEFINE i == Taken + k - 1
      <4>1. i \in Nat /\ i < P /\ P < i + RingCapacity
        BY <2>1, <2>4, InsideArithmetic DEF WriteSlot
      <4>2. Slot(i) # Slot(P) /\ Slot(P) \in 0 .. RingCapacity - 1
        BY <4>1, <2>1, SlotsOfOneLap, SlotType
      <4> QED BY <4>2, <2>4 DEF WriteSlot, BlockingRingInv, RingTypeOK
    <3> QED BY <3>1, <3>2, <2>4, SameInside DEF WriteSlot, Out
  <2>5. CASE ReadSlot
    <3>1. Taken = C /\ Taken' = C + 1 /\ at' = at /\ slots' = slots
      BY <2>5, <2>1, SideFacts DEF ReadSlot, Taken, BlockingRingInv, RingTypeOK
    <3>2. Taken' <= at'["producer"]
      BY <2>i DEF InsideIsListed
    <3>3. m # 0 /\ Inside # <<>>
      BY <3>1, <3>2, <2>1, EmptySeq
    <3>4. Out' = Head(Inside)
      <4>1. Inside[1] = slots[Slot(C)] /\ Head(Inside) = Inside[1]
        BY <3>1, <3>3, <2>1, <2>2, HeadTailProperties
      <4>2. slots[Slot(C)] \in Nat
        BY <2>1, SlotType DEF BlockingRingInv, RingTypeOK
      <4> QED BY <4>1, <4>2, <2>5, OutOfAppend DEF ReadSlot, BlockingRingInv, RingTypeOK
    <3>5. /\ Tail(Inside) \in Seq(Nat) /\ Len(Tail(Inside)) = m - 1
          /\ \A k \in 1 .. m - 1 : Tail(Inside)[k] = Inside[k + 1]
      BY <3>3, <2>1, HeadTailProperties
    <3>6. /\ Inside' \in Seq(Nat) /\ Len(Inside') = m - 1
          /\ \A k \in 1 .. m - 1 : Inside'[k] = slots[Slot(C + 1 + k - 1)]
      <4>1. at'["producer"] - Taken' = m - 1
        BY <3>1, <2>1
      <4>2. /\ Inside' \in Seq(Nat) /\ Len(Inside') = at'["producer"] - Taken'
            /\ \A k \in 1 .. at'["producer"] - Taken' :
                 Inside'[k] = slots'[Slot(Taken' + k - 1)]
        BY <2>i DEF InsideIsListed
      <4> QED BY <4>1, <4>2, <3>1
    <3>7. ASSUME NEW k \in 1 .. m - 1 PROVE Inside'[k] = Tail(Inside)[k]
      <4>1. k + 1 \in 1 .. m /\ k \in Nat
        BY <2>1, InsideArithmetic
      <4>2. C + 1 + k - 1 = Taken + (k + 1) - 1
        <5> HIDE DEF C, m
        <5> QED BY <4>1, <3>1, <2>1
      <4> QED BY <4>1, <4>2, <2>2, <3>5, <3>6
    <3>8. Inside' = Tail(Inside)
      BY <3>5, <3>6, <3>7, SeqEqual
    <3> QED BY <3>3, <3>4, <3>8 DEF Fifo!Take
  <2>6. CASE StorePosition("producer")
    <3>1. /\ at'["producer"] = P + 1 /\ at'["consumer"] = C /\ Taken' = Taken
          /\ slots' = slots /\ dequeued' = dequeued /\ side["producer"] = "store"
      BY <2>6, SideFacts DEF StorePosition, Taken, BlockingRingInv, RingTypeOK
    <3>2. slots[Slot(P)] = P + 1
      BY <3>1 DEF BlockingRingInv, SlotsHold
    <3>3. /\ Append(Inside, P + 1) \in Seq(Nat) /\ Len(Append(Inside, P + 1)) = m + 1
          /\ \A k \in 1 .. m + 1 :
               Append(Inside, P + 1)[k] = IF k = m + 1 THEN P + 1 ELSE Inside[k]
      BY <2>1, AppendProperties
    <3>4. /\ Inside' \in Seq(Nat) /\ Len(Inside') = m + 1
          /\ \A k \in 1 .. m + 1 : Inside'[k] = slots[Slot(Taken + k - 1)]
      <4>1. at'["producer"] - Taken' = m + 1
        BY <3>1, <2>1
      <4>2. /\ Inside' \in Seq(Nat) /\ Len(Inside') = at'["producer"] - Taken'
            /\ \A k \in 1 .. at'["producer"] - Taken' :
                 Inside'[k] = slots'[Slot(Taken' + k - 1)]
        BY <2>i DEF InsideIsListed
      <4> QED BY <4>1, <4>2, <3>1
    <3>5. ASSUME NEW k \in 1 .. m + 1 PROVE Inside'[k] = Append(Inside, P + 1)[k]
      <4>1. CASE k = m + 1
        <5>1. Taken + k - 1 = P
          BY <4>1, <2>1, InsideArithmetic
        <5> QED BY <5>1, <4>1, <3>2, <3>3, <3>4
      <4>2. CASE k # m + 1
        <5>1. k \in 1 .. m
          BY <4>2, <2>1, Bounds
        <5> QED BY <5>1, <4>2, <2>2, <3>3, <3>4
      <4> QED BY <4>1, <4>2
    <3>6. Inside' = Append(Inside, P + 1)
      BY <3>3, <3>4, <3>5, SeqEqual
    <3>7. Len(Inside) < RingCapacity
      BY <2>1, <3>1, InsideArithmetic
    <3> QED BY <3>1, <3>6, <3>7 DEF Fifo!Put, Out
  <2>7. CASE StorePosition("consumer")
    <3>1. /\ at'["producer"] = P /\ Taken' = Taken
          /\ slots' = slots /\ dequeued' = dequeued
      BY <2>7, <2>1, SideFacts DEF StorePosition, Taken, BlockingRingInv, RingTypeOK
    <3> QED BY <3>1, SameInside DEF Out
  <2>8. CASE (\E o \in Observers : SizeBegins(o)) \/ SizeReturns \/ UNCHANGED ringVars
    BY <2>8 DEF SizeBegins, SizeReturns, ringVars, Inside, Out, Taken
  <2> QED BY <2>3, <2>4, <2>5, <2>6, <2>7, <2>8, SideFacts DEF RingNext
<1> QED BY <1>1, <1>2, RingInvariant, PTL DEF RingSpec, RingImplementsFifo
-----------------------------------------------------------------------------
(* UDPReceiver and MulticastReceiver.  First who owns the descriptors.     *)
Owned ==
  /\ fd \in Fds \cup {NoFd} /\ lost \subseteq Fds /\ DescriptorsAccountedFor
  /\ owner = "idle" /\ ~running /\ fd # NoFd => failed

LEMMA OwnedStep == Owned /\ [UdpNext]_udpVars => Owned'
<1> SUFFICES ASSUME Owned, [UdpNext]_udpVars PROVE Owned'
  OBVIOUS
<1> USE UdpConstants DEF Owned, DescriptorsAccountedFor, descriptors
<1>0. ASSUME MayStart PROVE lost' = open
  <2>1. CASE failed
    BY <1>0, <2>1 DEF MayStart
  <2>2. CASE ~failed
    <3>1. fd = NoFd /\ open = lost
      BY <1>0, <2>2 DEF MayStart
    <3> QED BY <1>0, <2>2, <3>1 DEF MayStart
  <2> QED BY <2>1, <2>2
<1>1. CASE StartFails
  <2>1. /\ lost' = open /\ failed' = TRUE
        /\ running' = running /\ owner' = owner /\ thread' = thread
    BY <1>0, <1>1 DEF StartFails
  <2>2. fd' \in Fds \cup {NoFd} /\ fd' \notin open /\ open' = open \cup ({fd'} \ {NoFd})
    BY <1>1 DEF StartFails
  <2>3. thread = "none" /\ owner = "idle" /\ ~running
    BY <1>1 DEF StartFails, MayStart
  <2> QED BY <2>1, <2>2, <2>3
<1>2. CASE StartSucceeds
  <2>1. lost' = open /\ owner' = owner /\ running' = TRUE
    BY <1>0, <1>2 DEF StartSucceeds
  <2>2. fd' \in Fds \ open /\ open' = open \cup {fd'}
    BY <1>2 DEF StartSucceeds
  <2>3. fd' \in open' /\ fd' # NoFd /\ fd' \notin lost' /\ open' = lost' \cup {fd'}
    BY <2>1, <2>2
  <2>4. lost' \subseteq Fds /\ fd' \in Fds
    BY <2>1, <2>2
  <2> QED BY <2>1, <2>3, <2>4
<1>3. CASE StopBegins
  BY <1>3 DEF StopBegins
<1>4. CASE StopJoins
  BY <1>4 DEF StopJoins
<1>5. CASE ThreadStep \/ ReceiveFails
  BY <1>5 DEF ThreadStep, TestRunning, Receive, DropTruncated, CountPacket, Handle,
              HandlingCrashes, ReceiveFails, network, output
<1>6. ASSUME NEW size \in Sizes, Arrives(size) PROVE Owned'
  BY <1>6 DEF Arrives, output
<1>7. CASE UNCHANGED udpVars
  BY <1>7 DEF udpVars
<1> QED BY <1>1, <1>2, <1>3, <1>4, <1>5, <1>6, <1>7 DEF UdpNext, OwnerStep

(* Whatever fails, stops or restarts, a descriptor is lost only by a       *)
(* start() that follows a failed one without stop() between them, and      *)
(* nothing takes the one that the thread uses.                             *)
THEOREM EachDescriptorAccounted == UdpSpec => []DescriptorsAccountedFor
<1>1. UdpInit => Owned
  BY UdpConstants DEF UdpInit, Owned, DescriptorsAccountedFor
<1> QED BY <1>1, OwnedStep, PTL DEF UdpSpec, Owned

(* Then where the datagrams are.                                           *)
Packet == [number : Nat, length : Nat]

DatagramTypeOK ==
  /\ arrived \in Seq(Nat) /\ socket \in Seq(Nat) /\ discarded \in Nat
  /\ packet \in Packet /\ handled \in Seq(Packet)
  /\ stats \in [received : Nat, dropped : Nat, errors : Nat]

(* What waits in the socket came after what was received, in order.        *)
SocketInOrder ==
  /\ packet.number <= Len(arrived)
  /\ \A i \in 1 .. Len(socket) :
       packet.number < socket[i] /\ socket[i] <= Len(arrived)
  /\ \A i, j \in 1 .. Len(socket) : i < j => socket[i] < socket[j]

(* What the thread has in its hands was not handled before.                *)
HandledEarlier ==
  \A k \in 1 .. Len(handled) :
    /\ handled[k].number \in 1 .. packet.number
    /\ thread \in {"received", "handle"} => handled[k].number < packet.number

(* It is what arrived, or its beginning.                                   *)
PacketInHand ==
  /\ thread \in {"received", "handle"} =>
       /\ packet.number \in 1 .. Len(arrived)
       /\ packet.length = Least(arrived[packet.number], MAX_PACKET_SIZE)
  /\ thread = "handle" => ~(multicast /\ Truncated)

DatagramInv ==
  /\ DatagramTypeOK /\ SocketInOrder /\ HandledEarlier /\ PacketInHand
  /\ EachDatagramOnce

(* Steps that leave the datagrams and what the thread holds alone.         *)
LEMMA QuietStep ==
  ASSUME DatagramInv, UNCHANGED <<multicast, network, output>>,
         \/ thread' = thread
         \/ /\ thread \notin {"received", "handle", "terminated"}
            /\ thread' \notin {"received", "handle", "terminated"}
         \/ thread = "handle" /\ thread' = "terminated"
  PROVE  DatagramInv'
<1> USE DEF DatagramInv, network, output
<1>1. /\ thread' = "received" <=> thread = "received"
      /\ thread' = "handle" => thread = "handle"
      /\ thread' \in {"handle", "terminated"} <=> thread \in {"handle", "terminated"}
  OBVIOUS
<1>2. DatagramTypeOK' /\ SocketInOrder' /\ HandledEarlier' /\ PacketInHand'
  BY <1>1 DEF DatagramTypeOK, SocketInOrder, HandledEarlier, PacketInHand, Truncated
<1>3. HandledInOrder'
  BY DEF EachDatagramOnce, HandledInOrder
<1>4. StatsAccountForAll'
  BY <1>1 DEF EachDatagramOnce, StatsAccountForAll, InHand
<1> QED BY <1>2, <1>3, <1>4 DEF EachDatagramOnce

(* How a datagram moves from one account to the next.                      *)
LEMMA Balance ==
  ASSUME NEW a \in Nat, NEW b \in Nat, NEW c \in Nat, NEW l \in Nat, NEW i \in Nat
  PROVE  /\ a + b + c + l + 0 = a + b + (c + l) + 0 + 0
         /\ l # 0 => a + b + c + l + 0 = a + b + c + (l - 1) + 1
         /\ a + b + c + l + 1 = a + (b + 1) + c + l + 0
         /\ a + b + c + l + 1 = (a + 1) + b + c + l + 0
         /\ (a + b + c + l + i) + 1 = a + b + c + (l + 1) + i
OBVIOUS

Statistics == [received : Nat, dropped : Nat, errors : Nat]

LEMMA OneMoreError ==
  ASSUME NEW s \in Statistics
  PROVE  LET t == [s EXCEPT !.errors = @ + 1] IN
           /\ t \in Statistics /\ t.errors = s.errors + 1
           /\ t.received = s.received /\ t.dropped = s.dropped
BY DEF Statistics

LEMMA DatagramStep == Owned /\ DatagramInv /\ [UdpNext]_udpVars => DatagramInv'
<1> SUFFICES ASSUME Owned, DatagramTypeOK, SocketInOrder, HandledEarlier, PacketInHand,
                    HandledInOrder, StatsAccountForAll, DatagramInv, [UdpNext]_udpVars
             PROVE  DatagramInv'
  BY DEF DatagramInv, EachDatagramOnce
<1> DEFINE n == packet.number  N == Len(arrived)  L == Len(socket)  H == Len(handled)
<1>n. /\ n \in Nat /\ N \in Nat /\ L \in Nat /\ H \in Nat /\ discarded \in Nat
      /\ stats.received \in Nat /\ stats.dropped \in Nat /\ stats.errors \in Nat
  BY LenProperties DEF DatagramTypeOK, Packet
<1>a. \A k \in 1 .. N : arrived[k] \in Nat
  BY ElementOfSeq DEF DatagramTypeOK
<1>s. \A i \in 1 .. L : socket[i] \in Nat
  BY ElementOfSeq DEF DatagramTypeOK
<1>1. CASE StartFails \/ StopBegins \/ TestRunning \/ ReceiveFails \/ HandlingCrashes
  BY <1>1, QuietStep
  DEF StartFails, StopBegins, TestRunning, ReceiveFails, HandlingCrashes
<1>2. CASE StartSucceeds
  BY <1>2, QuietStep DEF StartSucceeds, MayStart, Owned, DescriptorsAccountedFor
<1>3. CASE StopJoins
  <2> USE <1>3 DEF StopJoins, output
  <2>1. socket' = <<>> /\ Len(socket') = 0 /\ socket' \in Seq(Nat)
    BY EmptySeq
  <2>2. DatagramTypeOK'
    BY <2>1, <1>n DEF DatagramTypeOK
  <2>3. SocketInOrder' /\ HandledEarlier' /\ PacketInHand'
    BY <2>1 DEF SocketInOrder, HandledEarlier, PacketInHand
  <2>4. HandledInOrder'
    BY DEF HandledInOrder
  <2>5. StatsAccountForAll'
    <3>2. /\ InHand = 0 /\ InHand' = 0
          /\ thread \notin {"handle", "terminated"} /\ thread' \notin {"handle", "terminated"}
      BY DEF InHand
    <3>3. N = stats.received + stats.dropped + (discarded + L) + 0 + 0
      BY <3>2, <1>n, Balance DEF StatsAccountForAll
    <3>4. Len(arrived') = N /\ stats' = stats /\ discarded' = discarded + L
          /\ handled' = handled
      OBVIOUS
    <3> QED BY <2>1, <3>2, <3>3, <3>4 DEF StatsAccountForAll
  <2> QED BY <2>2, <2>3, <2>4, <2>5 DEF DatagramInv, EachDatagramOnce
<1>4. CASE Receive
  <2> USE <1>4 DEF Receive
  <2> DEFINE h == Head(socket)  T == Tail(socket)
  <2>1. /\ L # 0 /\ h = socket[1] /\ T \in Seq(Nat) /\ Len(T) = L - 1
        /\ \A i \in 1 .. L - 1 : T[i] = socket[i + 1]
    BY EmptySeq, HeadTailProperties DEF DatagramTypeOK
  <2>2. h \in 1 .. N /\ n < h /\ arrived[h] \in Nat
    <3>1. 1 \in 1 .. L
      BY <2>1, <1>n
    <3>2. n < h /\ h <= N /\ h \in Nat
      BY <2>1, <3>1, <1>s DEF SocketInOrder
    <3>3. h \in 1 .. N
      <4>1. h # 0
        BY <3>2, <1>n
      <4> QED BY <3>2, <4>1, <1>n, Bounds
    <3> QED BY <3>2, <3>3, <1>a
  <2>3. /\ packet' = [number |-> h, length |-> Least(arrived[h], MAX_PACKET_SIZE)]
        /\ packet' \in Packet /\ packet'.number = h
        /\ packet'.length = Least(arrived[h], MAX_PACKET_SIZE)
    BY <2>2, UdpConstants DEF Least, Packet
  <2>4. DatagramTypeOK'
    BY <2>1, <2>3 DEF DatagramTypeOK
  <2>5. SocketInOrder'
    <3>1. ASSUME NEW i \in 1 .. L - 1
          PROVE  h < T[i] /\ T[i] <= N
      <4>1. i + 1 \in 1 .. L /\ 1 \in 1 .. L /\ 1 < i + 1
        BY <1>n
      <4> QED BY <4>1, <2>1 DEF SocketInOrder
    <3>2. ASSUME NEW i \in 1 .. L - 1, NEW j \in 1 .. L - 1, i < j
          PROVE  T[i] < T[j]
      <4>1. i + 1 \in 1 .. L /\ j + 1 \in 1 .. L /\ i + 1 < j + 1
        BY <3>2, <1>n
      <4> QED BY <4>1, <2>1 DEF SocketInOrder
    <3>3. h <= N
      BY <2>2
    <3> HIDE DEF h, T, L
    <3>4. socket' = T /\ Len(T) = L - 1 /\ packet'.number = h /\ arrived' = arrived
      BY <2>1, <2>3 DEF h, T, L
    <3> QED BY <3>1, <3>2, <3>3, <3>4 DEF SocketInOrder
  <2>6. HandledEarlier'
    <3>1. ASSUME NEW k \in 1 .. H
          PROVE  handled[k].number \in 1 .. h /\ handled[k].number < h
      <4>1. handled[k].number \in 1 .. n
        BY DEF HandledEarlier
      <4>2. h \in Nat
        BY <2>2, <1>n, Bounds
      <4> QED BY <4>1, <4>2, <2>2, <1>n, Bounds
    <3> QED BY <3>1, <2>3 DEF HandledEarlier
  <2>7. PacketInHand'
    BY <2>2, <2>3 DEF PacketInHand
  <2>8. HandledInOrder'
    BY DEF HandledInOrder
  <2>9. StatsAccountForAll'
    <3>1. /\ InHand = 0 /\ InHand' = 1 /\ Len(socket') = L - 1
          /\ thread \notin {"handle", "terminated"} /\ thread' \notin {"handle", "terminated"}
      BY <2>1 DEF InHand
    <3>2. N = stats.received + stats.dropped + discarded + (L - 1) + 1
      BY <3>1, <2>1, <1>n, Balance DEF StatsAccountForAll
    <3>3. Len(arrived') = N /\ stats' = stats /\ discarded' = discarded
          /\ handled' = handled
      OBVIOUS
    <3> QED BY <3>1, <3>2, <3>3 DEF StatsAccountForAll
  <2> QED BY <2>4, <2>5, <2>6, <2>7, <2>8, <2>9 DEF DatagramInv, EachDatagramOnce
<1>5. CASE DropTruncated \/ CountPacket
  <2>1. /\ thread = "received" /\ thread' \in {"test", "handle"}
        /\ UNCHANGED <<multicast, arrived, socket, discarded, packet, handled>>
        /\ thread' = "test" => stats' = [stats EXCEPT !.dropped = @ + 1]
        /\ thread' = "handle" => stats' = [stats EXCEPT !.received = @ + 1]
        /\ thread' = "handle" => ~(multicast /\ Truncated)
    BY <1>5 DEF DropTruncated, CountPacket, network
  <2>2. /\ stats' \in [received : Nat, dropped : Nat, errors : Nat]
        /\ stats'.errors = stats.errors
        /\ thread' = "test" =>
             stats'.dropped = stats.dropped + 1 /\ stats'.received = stats.received
        /\ thread' = "handle" =>
             stats'.dropped = stats.dropped /\ stats'.received = stats.received + 1
    BY <2>1, <1>n DEF DatagramTypeOK
  <2>3. DatagramTypeOK' /\ SocketInOrder' /\ HandledEarlier' /\ PacketInHand'
    BY <2>1, <2>2 DEF DatagramTypeOK, SocketInOrder, HandledEarlier, PacketInHand, Truncated
  <2>4. HandledInOrder'
    BY <2>1 DEF HandledInOrder
  <2>5. StatsAccountForAll'
    <3>1. InHand = 1 /\ InHand' = 0
      BY <2>1 DEF InHand
    <3>2. /\ N = stats.received + stats.dropped + discarded + L + 1
          /\ stats.received = H + 0 /\ stats.errors <= H
      BY <2>1, <3>1 DEF StatsAccountForAll
    <3>3. CASE thread' = "test"
      <4>1. N = stats.received + (stats.dropped + 1) + discarded + L + 0
        BY <3>2, <1>n, Balance, SMTT(20)
      <4> QED BY <3>1, <3>2, <3>3, <4>1, <2>1, <2>2 DEF StatsAccountForAll
    <3>4. CASE thread' = "handle"
      <4>1. N = (stats.received + 1) + stats.dropped + discarded + L + 0
        BY <3>2, <1>n, Balance, SMTT(20)
      <4>2. stats.received + 1 = H + 1
        BY <3>2, <1>n
      <4> QED BY <3>1, <3>2, <3>4, <4>1, <4>2, <2>1, <2>2 DEF StatsAccountForAll
    <3> QED BY <3>3, <3>4, <2>1
  <2> QED BY <2>3, <2>4, <2>5 DEF DatagramInv, EachDatagramOnce
<1>6. CASE Handle
  <2> USE <1>6 DEF Handle, network
  <2>1. /\ stats' \in [received : Nat, dropped : Nat, errors : Nat]
        /\ stats'.received = stats.received /\ stats'.dropped = stats.dropped
        /\ stats'.errors \in {stats.errors, stats.errors + 1}
    <3>1. \/ stats' = stats
          \/ stats' = [stats EXCEPT !.errors = @ + 1]
      OBVIOUS
    <3>2. CASE stats' = stats
      BY <3>2 DEF DatagramTypeOK
    <3>3. CASE stats' = [stats EXCEPT !.errors = @ + 1]
      BY <3>3, OneMoreError DEF DatagramTypeOK, Statistics
    <3> QED BY <3>1, <3>2, <3>3
  <2>2. /\ handled' \in Seq(Packet) /\ Len(handled') = H + 1
        /\ handled'[H + 1] = packet
        /\ \A k \in 1 .. H : handled'[k] = handled[k]
    BY AppendProperties DEF DatagramTypeOK
  <2>3. n \in 1 .. N /\ packet.length = Least(arrived[n], MAX_PACKET_SIZE)
    BY DEF PacketInHand
  <2>4. DatagramTypeOK' /\ SocketInOrder' /\ PacketInHand'
    BY <2>1, <2>2 DEF DatagramTypeOK, SocketInOrder, PacketInHand
  <2>5. HandledEarlier'
    <3>1. ASSUME NEW k \in 1 .. H + 1 PROVE handled'[k].number \in 1 .. n
      <4>1. CASE k = H + 1
        BY <4>1, <2>2, <2>3, <1>n
      <4>2. CASE k \in 1 .. H
        BY <4>2, <2>2 DEF HandledEarlier
      <4> QED BY <4>1, <4>2, <1>n, Bounds
    <3> QED BY <3>1, <2>2 DEF HandledEarlier
  <2>6. HandledInOrder'
    <3>1. packet.length = arrived[n] \/ (~multicast /\ arrived[n] > packet.length)
      <4>1. arrived[n] \in Nat /\ MAX_PACKET_SIZE \in Nat
        BY <2>3, <1>a, UdpConstants
      <4>2. multicast => ~(arrived[n] > MAX_PACKET_SIZE)
        BY DEF PacketInHand, Truncated
      <4>3. CASE arrived[n] > MAX_PACKET_SIZE
        BY <4>1, <4>2, <4>3, <2>3 DEF Least
      <4>4. CASE ~(arrived[n] > MAX_PACKET_SIZE)
        BY <4>1, <4>4, <2>3 DEF Least
      <4> QED BY <4>3, <4>4
    <3>2. ASSUME NEW k \in 1 .. H + 1
          PROVE  LET size == arrived[handled'[k].number] IN
                   /\ k > 1 => handled'[k - 1].number < handled'[k].number
                   /\ \/ handled'[k].length = size
                      \/ ~multicast /\ size > handled'[k].length
      <4>1. CASE k = H + 1
        <5>1. handled'[k] = packet
          BY <4>1, <2>2
        <5>2. ASSUME k > 1 PROVE handled'[k - 1].number < n
          <6>1. k - 1 \in 1 .. H
            BY <4>1, <5>2, <1>n
          <6> QED BY <6>1, <2>2 DEF HandledEarlier
        <5> QED BY <5>1, <5>2, <3>1
      <4>2. CASE k \in 1 .. H
        <5>1. handled'[k] = handled[k]
          BY <4>2, <2>2
        <5>2. ASSUME k > 1 PROVE handled'[k - 1] = handled[k - 1]
          <6>1. k - 1 \in 1 .. H
            BY <4>2, <5>2, <1>n, Bounds
          <6> QED BY <6>1, <2>2
        <5> QED BY <5>1, <5>2, <4>2 DEF HandledInOrder
      <4> QED BY <4>1, <4>2, <1>n, Bounds
    <3> QED BY <3>2, <2>2 DEF HandledInOrder
  <2>7. StatsAccountForAll'
    <3>1. InHand = 0 /\ InHand' = 0
      BY DEF InHand
    <3>2. /\ N = stats.received + stats.dropped + discarded + L + 0
          /\ stats.received = H + 1 /\ stats.errors <= H
      BY <3>1 DEF StatsAccountForAll
    <3>3. stats'.errors <= H + 1
      BY <3>2, <2>1, <1>n
    <3> QED BY <3>1, <3>2, <3>3, <2>1, <2>2, <1>n DEF StatsAccountForAll, DatagramTypeOK
  <2> QED BY <2>4, <2>5, <2>6, <2>7 DEF DatagramInv, EachDatagramOnce
<1>7. ASSUME NEW size \in Sizes, Arrives(size) PROVE DatagramInv'
  <2> USE <1>7 DEF Arrives, output
  <2>1. /\ arrived' \in Seq(Nat) /\ Len(arrived') = N + 1
        /\ \A k \in 1 .. N : arrived'[k] = arrived[k]
    BY UdpConstants, AppendProperties DEF DatagramTypeOK
  <2>2. /\ socket' \in Seq(Nat) /\ Len(socket') = L + 1
        /\ socket'[L + 1] = N + 1
        /\ \A i \in 1 .. L : socket'[i] = socket[i]
    BY <2>1, <1>n, AppendProperties DEF DatagramTypeOK
  <2>3. DatagramTypeOK'
    BY <2>1, <2>2 DEF DatagramTypeOK
  <2>4. SocketInOrder'
    <3>1. n <= N + 1 /\ n < N + 1
      BY <1>n, Bounds DEF SocketInOrder
    <3>2. ASSUME NEW i \in 1 .. L + 1
          PROVE  n < socket'[i] /\ socket'[i] <= N + 1
      <4>1. CASE i = L + 1
        BY <4>1, <2>2, <3>1, <1>n
      <4>2. CASE i \in 1 .. L
        BY <4>2, <2>2, <1>n, <1>s, Bounds DEF SocketInOrder
      <4> QED BY <4>1, <4>2, <1>n, Bounds
    <3>3. ASSUME NEW i \in 1 .. L + 1, NEW j \in 1 .. L + 1, i < j
          PROVE  socket'[i] < socket'[j]
      <4>1. i \in 1 .. L
        BY <3>3, <1>n
      <4>2. CASE j = L + 1
        <5>1. socket[i] <= N /\ socket[i] \in Nat
          BY <4>1, <1>s DEF SocketInOrder
        <5>2. socket[i] < N + 1
          BY <5>1, <1>n, Bounds
        <5>3. socket'[i] = socket[i] /\ socket'[j] = N + 1
          BY <4>1, <4>2, <2>2
        <5> QED BY <5>2, <5>3
      <4>3. CASE j \in 1 .. L
        BY <3>3, <4>1, <4>3, <2>2 DEF SocketInOrder
      <4> QED BY <4>2, <4>3, <1>n, Bounds
    <3> HIDE DEF L, N
    <3> QED BY <3>1, <3>2, <3>3, <2>1, <2>2 DEF SocketInOrder
  <2>5. HandledEarlier'
    BY DEF HandledEarlier
  <2>6. PacketInHand'
    BY <2>1, <1>n, Bounds DEF PacketInHand, Truncated
  <2>7. HandledInOrder'
    <3>1. ASSUME NEW k \in 1 .. H PROVE arrived'[handled[k].number] = arrived[handled[k].number]
      <4>1. handled[k].number \in 1 .. n /\ n <= N
        BY DEF HandledEarlier, SocketInOrder
      <4>2. handled[k].number \in 1 .. N
        BY <4>1, <1>n, Bounds
      <4> QED BY <4>2, <2>1
    <3> QED BY <3>1 DEF HandledInOrder
  <2>8. StatsAccountForAll'
    <3>1. InHand' = InHand /\ InHand \in Nat
      BY DEF InHand
    <3>2. N + 1 = stats.received + stats.dropped + discarded + (L + 1) + InHand
      <4>1. N = stats.received + stats.dropped + discarded + L + InHand
        BY DEF StatsAccountForAll
      <4>2. (stats.received + stats.dropped + discarded + L + InHand) + 1
              = stats.received + stats.dropped + discarded + (L + 1) + InHand
        BY <3>1, <1>n, Balance, SMTT(20)
      <4> QED BY <4>1, <4>2
    <3>3. stats' = stats /\ discarded' = discarded /\ handled' = handled /\ thread' = thread
      OBVIOUS
    <3> QED BY <3>1, <3>2, <3>3, <2>1, <2>2 DEF StatsAccountForAll
  <2> QED BY <2>3, <2>4, <2>5, <2>6, <2>7, <2>8 DEF DatagramInv, EachDatagramOnce
<1>8. CASE UNCHANGED udpVars
  BY <1>8, QuietStep DEF udpVars, network, output
<1> QED BY <1>1, <1>2, <1>3, <1>4, <1>5, <1>6, <1>7, <1>8
        DEF UdpNext, OwnerStep, ThreadStep

(* Whatever fails, stops or restarts, every datagram that reached a socket *)
(* is accounted for, and none is handled twice or out of order.            *)
THEOREM DatagramsHandledOnce == UdpSpec => []EachDatagramOnce
<1>1. UdpInit => Owned /\ DatagramInv
  <2> SUFFICES ASSUME UdpInit PROVE Owned /\ DatagramInv
    OBVIOUS
  <2>1. Owned
    BY UdpConstants DEF UdpInit, Owned, DescriptorsAccountedFor
  <2>2. DatagramTypeOK /\ SocketInOrder /\ HandledEarlier /\ PacketInHand
    BY EmptySeq DEF UdpInit, DatagramTypeOK, SocketInOrder, HandledEarlier, PacketInHand,
                    Packet, NoPacket
  <2>3. HandledInOrder /\ StatsAccountForAll
    BY EmptySeq DEF UdpInit, HandledInOrder, StatsAccountForAll, InHand
  <2> QED BY <2>1, <2>2, <2>3 DEF DatagramInv, EachDatagramOnce
<1> QED BY <1>1, OwnedStep, DatagramStep, PTL DEF UdpSpec, DatagramInv
=============================================================================
