--------------------------- MODULE SpscFifoProofs ---------------------------
(***************************************************************************)
(* Proofs about SpscFifo for every capacity and every width of a position. *)
(***************************************************************************)
EXTENDS SpscFifo, SequenceTheorems, TLAPS

(* The only facts used of the size of size_t: a lap fits in it twice.      *)
LEMMA WrapIsLarge ==
  Wrap \in Nat /\ Wrap >= 2 * Capacity /\ Capacity \in Nat /\ Capacity >= 1
<1> DEFINE L == Laps  K == Capacity
<1>1. L \in Nat /\ L >= 2 /\ K \in Nat /\ K >= 1
  BY FifoConstants
<1> HIDE DEF L, K
<1>2. L * K \in Nat /\ L * K >= 2 * K
  BY <1>1
<1> QED BY <1>1, <1>2 DEF Wrap, L, K

LEMMA RemainderOfMultiple ==
  ASSUME NEW m \in Nat, NEW n \in Nat \ {0}
  PROVE  (m * n) % n = 0
OBVIOUS

(* The mask takes the next position to the next slot, also where size_t    *)
(* overflows.                                                              *)
LEMMA IndexOfNext ==
  ASSUME NEW p \in Pos
  PROVE  /\ Index(p) \in Slots
         /\ Index(Next1(p)) = IF Index(p) = Capacity - 1 THEN 0 ELSE Index(p) + 1
<1> DEFINE K == Capacity  q == p \div K  r == p % K
<1>1. K \in Nat /\ K >= 1 /\ p \in Nat
  BY FifoConstants, WrapIsLarge DEF Pos
<1>2. q \in Nat /\ r \in 0 .. K - 1 /\ p = q * K + r
  BY <1>1
<1>3. CASE p = Wrap - 1
  <2>1. Laps \in Nat /\ Laps >= 2 /\ p = Laps * K - 1
    BY <1>3, FifoConstants DEF Wrap
  <2>2. (Laps - 1) * K + (K - 1) = p
    BY <2>1, <1>1
  <2>3. r = K - 1
    BY <2>1, <2>2, <1>1
  <2>4. 0 % K = 0
    BY <1>1
  <2> QED BY <2>3, <2>4, <1>1, <1>3 DEF Index, Next1, Slots
<1>4. CASE p # Wrap - 1 /\ r = K - 1
  <2>1. p + 1 = (q + 1) * K
    BY <1>2, <1>1, <1>4
  <2>2. (p + 1) % K = 0
    <3>1. q + 1 \in Nat /\ K \in Nat \ {0}
      BY <1>1, <1>2
    <3> HIDE DEF q, K
    <3>2. ((q + 1) * K) % K = 0
      BY <3>1, RemainderOfMultiple
    <3> QED BY <2>1, <3>2
  <2> QED BY <2>2, <1>1, <1>4 DEF Index, Next1, Slots
<1>5. CASE p # Wrap - 1 /\ r # K - 1
  <2>1. p + 1 = q * K + (r + 1) /\ r + 1 \in 0 .. K - 1
    BY <1>2, <1>1, <1>5
  <2>2. (p + 1) % K = r + 1
    BY <2>1, <1>1, <1>2
  <2> QED BY <2>2, <1>1, <1>2, <1>5 DEF Index, Next1, Slots
<1> QED BY <1>3, <1>4, <1>5

-----------------------------------------------------------------------------
(* The inductive invariant.  The positions that the two threads see never  *)
(* run ahead of the truth, and a producer that is past its test has room   *)
(* even for what it sees.                                                  *)
InStep ==
  /\ Diff(producer_pos, consumer_pos) <= Diff(producer_pos, pSees)
  /\ Diff(producer_pos, pSees) <= Capacity
  /\ pushing # "no" => Diff(producer_pos, pSees) < Capacity
  /\ life = "used" => Diff(cSees, consumer_pos) <= Diff(producer_pos, consumer_pos)
  /\ popping # "no" => cSees # consumer_pos

(* The two positions are as many slots apart as there are objects between. *)
SlotsApart == Index(producer_pos) = SlotAfter(Diff(producer_pos, consumer_pos))

(* How many slots after the consumer's a slot is.                          *)
Ahead(i) == LET c == Index(consumer_pos)
            IN  IF i < c THEN i - c + Capacity ELSE i - c

(* An object lives in exactly the slots between the two positions, but for *)
(* the ones that the threads are about to publish.                         *)
Occupied(i) ==
  \/ /\ Ahead(i) < Diff(producer_pos, consumer_pos)
     /\ Ahead(i) = 0 => popping # "publish"
  \/ Ahead(i) = Diff(producer_pos, consumer_pos) /\ pushing = "publish"

SlotsOccupied == \A i \in Slots : ring[i] # Raw <=> Occupied(i)

Stages ==
  /\ pushing = "construct" => arg \in Value
  /\ life # "used" => pushing = "no" /\ popping = "no"
  /\ life = "gone" => producer_pos = consumer_pos

RingInv == TypeOK /\ InStep /\ SlotsApart /\ SlotsOccupied /\ Stages

(* Arithmetic of positions on their circle: a load that is out of date by  *)
(* at most what it was before leaves the producer at a greater distance.   *)
LEMMA StaleIsFarther ==
  ASSUME NEW p \in Pos, NEW c \in Pos, NEW old \in Pos, NEW new \in Since(old, c),
         Diff(p, c) <= Diff(p, old)
  PROVE  Diff(p, c) <= Diff(p, new) /\ Diff(p, new) <= Diff(p, old)
BY WrapIsLarge DEF Since, Diff, Pos

(* Likewise what the consumer sees stays between the two positions.        *)
LEMMA StaleIsBetween ==
  ASSUME NEW p \in Pos, NEW c \in Pos, NEW old \in Pos, NEW new \in Since(old, p),
         Diff(old, c) <= Diff(p, c)
  PROVE  Diff(new, c) <= Diff(p, c)
BY WrapIsLarge DEF Since, Diff, Pos

LEMMA DiffType ==
  ASSUME NEW p \in Pos, NEW c \in Pos
  PROVE  Diff(p, c) \in Nat /\ (Diff(p, c) = 0 <=> p = c)
BY WrapIsLarge DEF Diff, Pos

LEMMA DiffOfNext ==
  ASSUME NEW p \in Pos, NEW c \in Pos
  PROVE  /\ Next1(p) \in Pos
         /\ Diff(p, c) < Capacity => Diff(Next1(p), c) = Diff(p, c) + 1
         /\ p # c => Diff(p, Next1(c)) = Diff(p, c) - 1
<1>1. Next1(p) \in Pos /\ (Next1(p) = 0 \/ Next1(p) = p + 1)
  BY WrapIsLarge DEF Pos, Next1
<1>2. ASSUME Diff(p, c) < Capacity PROVE Diff(Next1(p), c) = Diff(p, c) + 1
  <2>1. CASE p = Wrap - 1
    BY <1>2, <2>1, WrapIsLarge DEF Diff, Pos, Next1
  <2>2. CASE p # Wrap - 1
    BY <1>2, <2>2, WrapIsLarge DEF Diff, Pos, Next1
  <2> QED BY <2>1, <2>2
<1>3. ASSUME p # c PROVE Diff(p, Next1(c)) = Diff(p, c) - 1
  <2>1. CASE c = Wrap - 1
    BY <1>3, <2>1, WrapIsLarge DEF Diff, Pos, Next1
  <2>2. CASE c # Wrap - 1
    BY <1>3, <2>2, WrapIsLarge DEF Diff, Pos, Next1
  <2> QED BY <2>1, <2>2
<1> QED BY <1>1, <1>2, <1>3

(* Slots counted from the consumer's.                                      *)
LEMMA AheadOfSlots ==
  ASSUME NEW i \in Slots, Index(consumer_pos) \in Slots
  PROVE  /\ Ahead(i) \in 0 .. Capacity - 1
         /\ Ahead(i) = 0 <=> i = Index(consumer_pos)
         /\ \A n \in 0 .. Capacity - 1 : Ahead(i) = n <=> i = SlotAfter(n)
<1> DEFINE c == Index(consumer_pos)
<1>1. c \in 0 .. Capacity - 1 /\ i \in 0 .. Capacity - 1 /\ Capacity \in Nat
  BY FifoConstants DEF Slots
<1>2. Ahead(i) = IF i < c THEN i - c + Capacity ELSE i - c
  BY DEF Ahead
<1>3. \A n : SlotAfter(n) = IF c + n < Capacity THEN c + n ELSE c + n - Capacity
  BY DEF SlotAfter
<1> HIDE DEF c
<1>4. /\ Ahead(i) \in 0 .. Capacity - 1
      /\ Ahead(i) = 0 <=> i = c
  BY <1>1, <1>2
<1>5. ASSUME NEW n \in 0 .. Capacity - 1
      PROVE  Ahead(i) = n <=> i = SlotAfter(n)
  BY <1>1, <1>2, <1>3
<1> QED BY <1>4, <1>5 DEF c

LEMMA InitRing == Init => RingInv
<1> SUFFICES ASSUME Init PROVE RingInv
  OBVIOUS
<1> USE WrapIsLarge, FifoConstants
<1>1. 0 \in Pos /\ Diff(0, 0) = 0
  BY DEF Pos, Diff
<1>2. Index(0) \in Slots
  BY <1>1, IndexOfNext
<1>3. TypeOK
  BY <1>1 DEF Init, TypeOK
<1>4. InStep /\ Stages
  BY <1>1 DEF Init, InStep, Stages
<1>5. SlotsApart
  BY <1>1, <1>2 DEF Init, SlotsApart, SlotAfter, Slots
<1>6. SlotsOccupied
  BY <1>1, <1>2 DEF Init, SlotsOccupied, Occupied, Ahead, Slots
<1> QED BY <1>3, <1>4, <1>5, <1>6 DEF RingInv

LEMMA NextRing == RingInv /\ [Next]_vars => RingInv'
<1> SUFFICES ASSUME TypeOK, InStep, SlotsApart, SlotsOccupied, Stages, [Next]_vars
             PROVE  RingInv'
  BY DEF RingInv
<1> USE WrapIsLarge, FifoConstants
<1> DEFINE n == Diff(producer_pos, consumer_pos)
<1>i. /\ Index(producer_pos) \in Slots /\ Index(consumer_pos) \in Slots
      /\ n \in 0 .. Capacity
  BY IndexOfNext, DiffType DEF TypeOK, InStep
<1>p. pushing # "no" => n \in 0 .. Capacity - 1
  BY <1>i, DiffType DEF InStep, TypeOK
<1>a. \A i \in Slots :
        /\ Ahead(i) \in 0 .. Capacity - 1
        /\ Ahead(i) = 0 <=> i = Index(consumer_pos)
        /\ n < Capacity => (Ahead(i) = n <=> i = Index(producer_pos))
  BY <1>i, AheadOfSlots DEF SlotsApart
<1>1. ASSUME NEW v \in Value, Push(v) PROVE RingInv'
  <2> USE <1>1 DEF Push, producer, consumer
  <2>1. pSees' \in Pos
    BY DEF Since
  <2>2. TypeOK'
    BY <2>1 DEF TypeOK
  <2>3. /\ Diff(producer_pos, consumer_pos) <= Diff(producer_pos, pSees')
        /\ Diff(producer_pos, pSees') <= Diff(producer_pos, pSees)
    BY StaleIsFarther DEF InStep, TypeOK
  <2>4. InStep'
    <3>1. Diff(producer_pos, pSees') \in Nat /\ Diff(producer_pos, pSees) \in Nat
      BY <2>1, DiffType DEF TypeOK
    <3> QED BY <2>3, <3>1 DEF InStep, Diff, IsFull
  <2>5. SlotsApart' /\ SlotsOccupied'
    BY DEF SlotsApart, SlotAfter, SlotsOccupied, Occupied, Ahead, Index, Diff
  <2>6. Stages'
    BY DEF Stages
  <2> QED BY <2>2, <2>4, <2>5, <2>6 DEF RingInv
<1>2. CASE Construct
  <2> USE <1>2 DEF Construct, consumer
  <2>1. TypeOK'
    BY <1>i DEF TypeOK
  <2>2. InStep' /\ SlotsApart' /\ Stages'
    BY DEF InStep, SlotsApart, SlotAfter, Stages, Diff, Index
  <2>3. ASSUME NEW i \in Slots PROVE ring'[i] # Raw <=> Occupied(i)'
    <3>1. Ahead(i)' = Ahead(i) /\ Diff(producer_pos, consumer_pos)' = n
      BY DEF Ahead, Index, Diff
    <3>2. ring'[i] = IF i = Index(producer_pos) THEN arg ELSE ring[i]
      BY <1>i DEF TypeOK
    <3>3. arg # Raw /\ n < Capacity
      BY <1>p DEF Stages
    <3>4. ring[i] # Raw <=> Occupied(i)
      BY DEF SlotsOccupied
    <3> QED BY <3>1, <3>2, <3>3, <3>4, <1>a DEF Occupied
  <2> QED BY <2>1, <2>2, <2>3 DEF RingInv, SlotsOccupied
<1>3. CASE ConstructThrows
  <2> USE <1>3 DEF ConstructThrows, consumer
  <2>1. TypeOK' /\ InStep' /\ SlotsApart' /\ Stages'
    BY DEF TypeOK, InStep, SlotsApart, SlotAfter, Stages, Diff, Index
  <2>2. SlotsOccupied'
    BY DEF SlotsOccupied, Occupied, Ahead, Index, Diff
  <2> QED BY <2>1, <2>2 DEF RingInv
<1>4. CASE PublishPush
  <2> USE <1>4 DEF PublishPush, consumer
  <2>1. /\ producer_pos' \in Pos
        /\ Diff(producer_pos', consumer_pos) = n + 1
        /\ Diff(producer_pos', pSees) = Diff(producer_pos, pSees) + 1
        /\ Diff(cSees, consumer_pos) \in Nat
    BY <1>p, DiffOfNext, DiffType DEF TypeOK, InStep
  <2>2. TypeOK' /\ Stages'
    BY <2>1 DEF TypeOK, Stages
  <2>3. InStep'
    <3>1. Diff(producer_pos, pSees) \in Nat
      BY DiffType DEF TypeOK
    <3> QED BY <2>1, <3>1, <1>i DEF InStep, Diff
  <2>4. SlotsApart'
    <3>1. Index(producer_pos') = IF Index(producer_pos) = Capacity - 1 THEN 0
                                 ELSE Index(producer_pos) + 1
      BY IndexOfNext DEF TypeOK
    <3>2. Index(producer_pos) = SlotAfter(n) /\ n < Capacity
      BY <1>p DEF SlotsApart
    <3>3. Index(producer_pos') = SlotAfter(n + 1)
      BY <3>1, <3>2, <1>i DEF SlotAfter, Slots
    <3> QED BY <3>3, <2>1 DEF SlotsApart, SlotAfter, Index
  <2>5. ASSUME NEW i \in Slots PROVE ring'[i] # Raw <=> Occupied(i)'
    <3>1. Ahead(i)' = Ahead(i) /\ Diff(producer_pos, consumer_pos)' = n + 1
      BY <2>1 DEF Ahead, Index
    <3>2. ring[i] # Raw <=> Occupied(i)
      BY DEF SlotsOccupied
    <3>3. Ahead(i) \in 0 .. Capacity - 1 /\ n < Capacity
      BY <1>a, <1>p
    <3>4. popping = "publish" => n # 0
      BY DiffType DEF InStep, TypeOK, Stages
    <3> QED BY <3>1, <3>2, <3>3, <3>4, <1>i DEF Occupied
  <2> QED BY <2>2, <2>3, <2>4, <2>5 DEF RingInv, SlotsOccupied
<1>5. ASSUME NEW p \in Since(cSees, producer_pos), PopSees(p) PROVE RingInv'
  <2> USE <1>5 DEF PopSees, producer
  <2>1. p \in Pos
    BY DEF Since
  <2>2. TypeOK' /\ Stages'
    BY <2>1 DEF TypeOK, Stages
  <2>3. InStep'
    <3>1. Diff(p, consumer_pos) <= n
      BY StaleIsBetween DEF InStep, TypeOK
    <3> QED BY <3>1 DEF InStep, Diff, IsEmpty
  <2>4. SlotsApart' /\ SlotsOccupied'
    BY DEF SlotsApart, SlotAfter, SlotsOccupied, Occupied, Ahead, Index, Diff, IsEmpty
  <2> QED BY <2>2, <2>3, <2>4 DEF RingInv
<1>6. CASE Move
  <2> USE <1>6 DEF Move, producer
  <2>1. TypeOK'
    BY <1>i DEF TypeOK
  <2>2. InStep' /\ SlotsApart' /\ Stages'
    BY DEF InStep, SlotsApart, SlotAfter, Stages, Diff, Index
  <2>3. SlotsOccupied'
    BY DEF SlotsOccupied, Occupied, Ahead, Index, Diff
  <2> QED BY <2>1, <2>2, <2>3 DEF RingInv
<1>m. CASE MoveThrows
  <2> USE <1>m DEF MoveThrows, producer
  <2>1. TypeOK' /\ InStep' /\ SlotsApart' /\ Stages'
    BY DEF TypeOK, InStep, SlotsApart, SlotAfter, Stages, Diff, Index
  <2>2. SlotsOccupied'
    BY DEF SlotsOccupied, Occupied, Ahead, Index, Diff
  <2> QED BY <2>1, <2>2 DEF RingInv
<1>c. popping # "no" => n # 0
  BY DiffType DEF InStep, TypeOK, Stages
<1>7. CASE Destroy
  <2> USE <1>7 DEF Destroy, producer
  <2>1. TypeOK'
    BY <1>i DEF TypeOK
  <2>2. InStep' /\ SlotsApart' /\ Stages'
    BY DEF InStep, SlotsApart, SlotAfter, Stages, Diff, Index
  <2>3. ASSUME NEW i \in Slots PROVE ring'[i] # Raw <=> Occupied(i)'
    <3>1. Ahead(i)' = Ahead(i) /\ Diff(producer_pos, consumer_pos)' = n
      BY DEF Ahead, Index, Diff
    <3>2. ring'[i] = IF i = Index(consumer_pos) THEN Raw ELSE ring[i]
      BY <1>i DEF TypeOK
    <3>3. ring[i] # Raw <=> Occupied(i)
      BY DEF SlotsOccupied
    <3> QED BY <3>1, <3>2, <3>3, <1>a, <1>c, <1>i DEF Occupied
  <2> QED BY <2>1, <2>2, <2>3 DEF RingInv, SlotsOccupied
<1>8. ASSUME consumer_pos' = Next1(consumer_pos), n # 0, UNCHANGED producer
      PROVE  /\ consumer_pos' \in Pos
             /\ Diff(producer_pos, consumer_pos)' = n - 1
             /\ SlotsApart'
             /\ \A i \in Slots : Ahead(i)' = IF Ahead(i) = 0 THEN Capacity - 1
                                             ELSE Ahead(i) - 1
  <2> USE <1>8 DEF producer
  <2>1. consumer_pos' \in Pos /\ Diff(producer_pos, consumer_pos') = n - 1
    BY DiffOfNext, DiffType DEF TypeOK
  <2>2. Index(consumer_pos') = IF Index(consumer_pos) = Capacity - 1 THEN 0
                               ELSE Index(consumer_pos) + 1
    BY IndexOfNext DEF TypeOK
  <2>3. SlotsApart'
    <3>1. Index(producer_pos) = SlotAfter(n)
      BY DEF SlotsApart
    <3>2. SlotAfter(n) = IF Index(consumer_pos') + (n - 1) < Capacity
                         THEN Index(consumer_pos') + (n - 1)
                         ELSE Index(consumer_pos') + (n - 1) - Capacity
      BY <2>2, <1>i DEF SlotAfter, Slots
    <3> QED BY <3>1, <3>2, <2>1 DEF SlotsApart, SlotAfter, Index
  <2>4. ASSUME NEW i \in Slots
        PROVE  Ahead(i)' = IF Ahead(i) = 0 THEN Capacity - 1 ELSE Ahead(i) - 1
    <3>1. Ahead(i)' = IF i < Index(consumer_pos') THEN i - Index(consumer_pos') + Capacity
                      ELSE i - Index(consumer_pos')
      BY DEF Ahead, Index
    <3> QED BY <3>1, <2>2, <1>i DEF Ahead, Slots
  <2> QED BY <2>1, <2>3, <2>4
<1>9. CASE PublishPop
  <2> USE <1>9 DEF PublishPop
  <2>1. n # 0 /\ UNCHANGED producer
    BY <1>c
  <2>2. TypeOK' /\ Stages'
    BY <1>8, <2>1 DEF TypeOK, Stages, producer
  <2>3. InStep'
    <3>1. life = "used" /\ Diff(cSees, consumer_pos) <= n /\ cSees # consumer_pos
      BY DEF InStep, Stages
    <3>2. Diff(cSees, consumer_pos') = Diff(cSees, consumer_pos) - 1
      BY <3>1, DiffOfNext DEF TypeOK
    <3>3. Diff(cSees, consumer_pos) \in Nat /\ Diff(producer_pos, pSees) \in Nat
      BY DiffType DEF TypeOK
    <3> QED BY <3>1, <3>2, <3>3, <1>8, <1>i, <2>1 DEF InStep, Diff, producer
  <2>4. ASSUME NEW i \in Slots PROVE ring'[i] # Raw <=> Occupied(i)'
    <3>1. /\ Diff(producer_pos, consumer_pos)' = n - 1
          /\ Ahead(i)' = IF Ahead(i) = 0 THEN Capacity - 1 ELSE Ahead(i) - 1
      BY <1>8, <2>1
    <3>2. ring[i] # Raw <=> Occupied(i)
      BY DEF SlotsOccupied
    <3> QED BY <3>1, <3>2, <1>a, <1>i, <1>p, <2>1 DEF Occupied, producer
  <2> QED BY <1>8, <2>1, <2>2, <2>3, <2>4 DEF RingInv, SlotsOccupied
<1>10. CASE BeginDestructor
  <2> USE <1>10 DEF BeginDestructor, producer, consumer
  <2>1. TypeOK' /\ InStep' /\ SlotsApart' /\ Stages'
    BY DEF TypeOK, InStep, SlotsApart, SlotAfter, Stages, Diff, Index
  <2>2. SlotsOccupied'
    BY DEF SlotsOccupied, Occupied, Ahead, Index, Diff
  <2> QED BY <2>1, <2>2 DEF RingInv
<1>11. CASE DestroyRemaining
  <2> USE <1>11 DEF DestroyRemaining, producer
  <2>1. CASE producer_pos = consumer_pos
    <3>1. TypeOK' /\ InStep' /\ SlotsApart' /\ Stages'
      BY <2>1 DEF TypeOK, InStep, SlotsApart, SlotAfter, Stages, Diff, Index, IsEmpty
    <3>2. SlotsOccupied'
      BY <2>1 DEF SlotsOccupied, Occupied, Ahead, Index, Diff, IsEmpty
    <3> QED BY <3>1, <3>2 DEF RingInv
  <2>2. CASE producer_pos # consumer_pos
    <3>1. /\ ring' = [ring EXCEPT ![Index(consumer_pos)] = Raw]
          /\ consumer_pos' = Next1(consumer_pos) /\ n # 0 /\ UNCHANGED <<life, producer>>
      BY <2>2, DiffType DEF IsEmpty, TypeOK
    <3>2. TypeOK' /\ Stages'
      BY <3>1, <1>8, <1>i DEF TypeOK, Stages
    <3>3. InStep'
      <4>1. Diff(producer_pos, pSees) \in Nat
        BY DiffType DEF TypeOK
      <4> QED BY <3>1, <4>1, <1>8, <1>i DEF InStep, Stages, Diff
    <3>4. ASSUME NEW i \in Slots PROVE ring'[i] # Raw <=> Occupied(i)'
      <4>1. /\ Diff(producer_pos, consumer_pos)' = n - 1
            /\ Ahead(i)' = IF Ahead(i) = 0 THEN Capacity - 1 ELSE Ahead(i) - 1
        BY <1>8, <3>1
      <4>2. ring'[i] = IF i = Index(consumer_pos) THEN Raw ELSE ring[i]
        BY <3>1, <1>i DEF TypeOK
      <4>3. ring[i] # Raw <=> Occupied(i)
        BY DEF SlotsOccupied
      <4> QED BY <4>1, <4>2, <4>3, <1>a, <1>i, <3>1 DEF Occupied, Stages
    <3> QED BY <1>8, <3>1, <3>2, <3>3, <3>4 DEF RingInv, SlotsOccupied
  <2> QED BY <2>1, <2>2
<1>12. CASE UNCHANGED vars
  <2> USE <1>12 DEF vars
  <2>1. TypeOK' /\ InStep' /\ SlotsApart' /\ Stages'
    BY DEF TypeOK, InStep, SlotsApart, SlotAfter, Stages, Diff, Index
  <2>2. SlotsOccupied'
    BY DEF SlotsOccupied, Occupied, Ahead, Index, Diff
  <2> QED BY <2>1, <2>2 DEF RingInv
<1> QED
  BY <1>1, <1>2, <1>3, <1>4, <1>5, <1>6, <1>m, <1>7, <1>9, <1>10, <1>11,
     <1>12
  DEF Next, Pop

LEMMA RingInvariant == Spec => []RingInv
<1> QED BY InitRing, NextRing, PTL DEF Spec

-----------------------------------------------------------------------------
(* Positions stay positions and slots hold objects or nothing.             *)
THEOREM TypeCorrect == Spec => []TypeOK
<1>1. RingInv => TypeOK
  BY DEF RingInv
<1> QED BY <1>1, RingInvariant, PTL

(* Push and Pop never touch one slot at the same time, whatever capacity   *)
(* the ring has and however stale the positions are that they act on.      *)
THEOREM SlotsAreHandedOver == Spec => []NoSlotIsShared
<1>1. RingInv => NoSlotIsShared
  <2> SUFFICES ASSUME RingInv, pushing = "construct", popping \in {"move", "destroy"}
               PROVE  Index(producer_pos) # Index(consumer_pos)
    BY DEF NoSlotIsShared
  <2> DEFINE n == Diff(producer_pos, consumer_pos)
  <2>1. n \in Nat /\ n # 0
    BY DiffType DEF RingInv, InStep, Stages, TypeOK
  <2>2. n < Capacity
    BY <2>1, DiffType, WrapIsLarge DEF RingInv, InStep, TypeOK
  <2>3. Index(consumer_pos) \in Slots
    BY IndexOfNext DEF RingInv, TypeOK
  <2> QED BY <2>1, <2>2, <2>3, WrapIsLarge DEF RingInv, SlotsApart, SlotAfter, Slots
<1> QED BY <1>1, RingInvariant, PTL

(* Objects are constructed in raw storage only and taken only from slots   *)
(* where one lives; the destructor leaves none alive.                      *)
THEOREM SlotsTakeTurns == Spec => []SlotsUsedInTurn
<1>1. RingInv => SlotsUsedInTurn
  <2> SUFFICES ASSUME RingInv PROVE SlotsUsedInTurn
    OBVIOUS
  <2> DEFINE n == Diff(producer_pos, consumer_pos)
  <2>1. /\ n \in 0 .. Capacity
        /\ pushing # "no" => n < Capacity
        /\ popping # "no" => n # 0
        /\ producer_pos # consumer_pos => n # 0
    BY DiffType, WrapIsLarge DEF RingInv, InStep, Stages, TypeOK
  <2>2. Index(producer_pos) \in Slots /\ Index(consumer_pos) \in Slots
    BY IndexOfNext DEF RingInv, TypeOK
  <2>3. /\ Ahead(Index(consumer_pos)) = 0
        /\ pushing # "no" => Ahead(Index(producer_pos)) = n
    BY <2>1, <2>2, AheadOfSlots, WrapIsLarge DEF RingInv, SlotsApart
  <2>4. \A i \in Slots : ring[i] # Raw <=> Occupied(i)
    BY DEF RingInv, SlotsOccupied
  <2>5. pushing = "construct" => ring[Index(producer_pos)] = Raw
    BY <2>1, <2>2, <2>3, <2>4 DEF Occupied
  <2>6. popping \in {"move", "destroy"} => ring[Index(consumer_pos)] # Raw
    BY <2>1, <2>2, <2>3, <2>4 DEF Occupied
  <2>7. (life = "destructor" /\ producer_pos # consumer_pos)
           => ring[Index(consumer_pos)] # Raw
    BY <2>1, <2>2, <2>3, <2>4 DEF Occupied, RingInv, Stages
  <2>8. ASSUME life = "gone" PROVE ring = [i \in Slots |-> Raw]
    <3>1. Diff(producer_pos, consumer_pos) = 0 /\ pushing = "no"
      BY <2>8, DiffType DEF RingInv, Stages, TypeOK
    <3>2. ASSUME NEW i \in Slots PROVE ring[i] = Raw
      <4>1. Ahead(i) \in 0 .. Capacity - 1
        BY IndexOfNext, AheadOfSlots DEF RingInv, TypeOK
      <4> QED BY <4>1, <3>1 DEF RingInv, SlotsOccupied, Occupied
    <3> QED BY <3>2 DEF RingInv, TypeOK
  <2> QED BY <2>5, <2>6, <2>7, <2>8 DEF SlotsUsedInTurn
<1> QED BY <1>1, RingInvariant, PTL
-----------------------------------------------------------------------------
(* The ring implements a bounded queue: the lemma reads the queue off the  *)
(* ring, the theorem follows it step by step.                              *)
Object == Value \cup {Raw}

LEMMA LengthOfFunction ==
  ASSUME NEW S, NEW m \in Nat, NEW f \in [1 .. m -> S]
  PROVE  f \in Seq(S) /\ Len(f) = m
<1>1. f \in Seq(S)
  BY SeqDef
<1>2. Len(f) \in Nat /\ DOMAIN f = 1 .. Len(f)
  BY <1>1, LenProperties
<1>3. 1 .. m = 1 .. Len(f)
  BY <1>2
<1> QED BY <1>1, <1>2, <1>3

Contents(m) ==
  /\ m \in 0 .. Capacity
  /\ Inside \in Seq(Object) /\ Len(Inside) = m
  /\ \A i \in 1 .. m : Inside[i] = ring[SlotAfter(Gone + i - 1)]

InsideIsListed ==
  life = "used" => Contents(Diff(producer_pos, consumer_pos) - Gone)

LEMMA WhatIsInside == RingInv => InsideIsListed
<1> SUFFICES ASSUME RingInv, life = "used"
             PROVE  Contents(Diff(producer_pos, consumer_pos) - Gone)
  BY DEF InsideIsListed
<1> DEFINE m == Diff(producer_pos, consumer_pos) - Gone
<1>1. m \in 0 .. Capacity
  <2>1. Diff(producer_pos, consumer_pos) \in 0 .. Capacity
    BY DiffType, WrapIsLarge DEF RingInv, InStep, TypeOK
  <2>2. popping # "no" => Diff(producer_pos, consumer_pos) # 0
    BY <2>1, DiffType DEF RingInv, InStep, TypeOK
  <2> QED BY <2>1, <2>2, WrapIsLarge DEF Gone
<1>2. ASSUME NEW i \in 1 .. m
      PROVE  SlotAfter(Gone + i - 1) \in Slots
  <2>1. Index(consumer_pos) \in Slots
    BY IndexOfNext DEF RingInv, TypeOK
  <2>2. Gone + i - 1 \in 0 .. Capacity - 1
    <3>1. Diff(producer_pos, consumer_pos) \in 0 .. Capacity
      BY DiffType, WrapIsLarge DEF RingInv, InStep, TypeOK
    <3> QED BY <3>1, WrapIsLarge DEF Gone
  <2> QED BY <2>1, <2>2, WrapIsLarge DEF SlotAfter, Slots
<1>3. Inside = [i \in 1 .. m |-> ring[SlotAfter(Gone + i - 1)]]
  BY DEF Inside
<1>4. ring \in [Slots -> Object]
  BY DEF RingInv, TypeOK, Object
<1> HIDE DEF m
<1>5. Inside \in [1 .. m -> Object]
  BY <1>2, <1>3, <1>4
<1>6. Inside \in Seq(Object) /\ Len(Inside) = m
  BY <1>1, <1>5, LengthOfFunction
<1>7. \A i \in 1 .. m : Inside[i] = ring[SlotAfter(Gone + i - 1)]
  BY <1>3
<1> QED BY <1>1, <1>6, <1>7 DEF m, Contents

(* Slots at different places are different slots.                          *)
LEMMA SlotsDiffer ==
  ASSUME RingInv, NEW i \in 0 .. Capacity - 1, NEW j \in 0 .. Capacity - 1, i # j
  PROVE  SlotAfter(i) # SlotAfter(j)
<1>1. Index(consumer_pos) \in 0 .. Capacity - 1
  BY IndexOfNext DEF RingInv, TypeOK, Slots
<1> QED BY <1>1, WrapIsLarge DEF SlotAfter

(* A step leaves what is inside alone when every place counted from Gone   *)
(* still leads to the same object.                                         *)
LEMMA SameInside ==
  ASSUME RingInv, RingInv', life = "used", life' = "used",
         Diff(producer_pos, consumer_pos)' - Gone' = Diff(producer_pos, consumer_pos) - Gone,
         \A i \in 1 .. Diff(producer_pos, consumer_pos) - Gone :
           ring'[SlotAfter(Gone + i - 1)'] = ring[SlotAfter(Gone + i - 1)]
  PROVE  Inside' = Inside
<1> DEFINE m == Diff(producer_pos, consumer_pos) - Gone
<1>1. /\ m \in 0 .. Capacity
      /\ Inside \in Seq(Object) /\ Len(Inside) = m
      /\ \A i \in 1 .. m : Inside[i] = ring[SlotAfter(Gone + i - 1)]
  BY WhatIsInside DEF InsideIsListed, Contents
<1>2. /\ Inside' \in Seq(Object) /\ Len(Inside') = m'
      /\ \A i \in 1 .. m' : Inside'[i] = ring'[SlotAfter(Gone + i - 1)']
  <2>1. InsideIsListed'
    BY WhatIsInside, PTL
  <2> QED BY <2>1 DEF InsideIsListed, Contents
<1>3. m' = m
  OBVIOUS
<1>4. \A i \in 1 .. m : ring'[SlotAfter(Gone + i - 1)'] = ring[SlotAfter(Gone + i - 1)]
  OBVIOUS
<1> HIDE DEF m
<1> QED BY <1>1, <1>2, <1>3, <1>4, SeqEqual

(* The ring is a bounded queue: what is pushed is popped in that order,    *)
(* once, and no more than Capacity objects wait.                           *)
THEOREM RingIsFifo == Spec => ImplementsFifo
<1>1. Init => Fifo!FifoInit
  <2> SUFFICES ASSUME Init PROVE Fifo!FifoInit
    OBVIOUS
  <2>1. RingInv /\ life = "used"
    BY InitRing DEF Init
  <2>2. Diff(producer_pos, consumer_pos) - Gone = 0
    <3>1. Gone = 0
      BY DEF Init, Gone
    <3>2. Diff(producer_pos, consumer_pos) = 0
      BY DEF Init, Diff
    <3> QED BY <3>1, <3>2
  <2>3. Inside \in Seq(Object) /\ Len(Inside) = 0
    BY <2>1, <2>2, WhatIsInside DEF InsideIsListed, Contents
  <2>4. Inside = <<>>
    BY <2>3, EmptySeq
  <2> QED BY <2>4, FifoConstants DEF Init, Fifo!FifoInit
<1>2. RingInv /\ RingInv' /\ [Next]_vars => [Fifo!FifoNext]_(Fifo!fifoVars)
  <2> SUFFICES ASSUME RingInv, RingInv', [Next]_vars
               PROVE  [Fifo!FifoNext]_(Fifo!fifoVars)
    OBVIOUS
  <2> USE DEF Fifo!fifoVars
  <2> DEFINE n == Diff(producer_pos, consumer_pos)  m == n - Gone
  <2>1. n \in 0 .. Capacity /\ (popping # "no" => n # 0) /\ (pushing # "no" => n < Capacity)
    BY DiffType, WrapIsLarge DEF RingInv, InStep, TypeOK, Stages
  <2>2. /\ Index(producer_pos) = SlotAfter(n)
        /\ Index(consumer_pos) = SlotAfter(0)
        /\ Index(producer_pos) \in Slots /\ Index(consumer_pos) \in Slots
    BY IndexOfNext, WrapIsLarge DEF RingInv, SlotsApart, SlotAfter, TypeOK, Slots
  <2>3. life = "used" =>
          /\ m \in 0 .. Capacity /\ Inside \in Seq(Object) /\ Len(Inside) = m
          /\ \A i \in 1 .. m : Inside[i] = ring[SlotAfter(Gone + i - 1)]
    BY WhatIsInside DEF InsideIsListed, Contents
  <2>4. life' = "used" =>
          /\ m' \in 0 .. Capacity /\ Inside' \in Seq(Object) /\ Len(Inside') = m'
          /\ \A i \in 1 .. m' : Inside'[i] = ring'[SlotAfter(Gone + i - 1)']
    <3>1. InsideIsListed'
      BY WhatIsInside, PTL
    <3> QED BY <3>1 DEF InsideIsListed, Contents
  <2>5. Gone \in {0, 1}
    BY DEF Gone
  <2>6. CASE ring' = ring /\ life' = life /\ out' = out /\ Gone' = Gone
             /\ producer_pos' = producer_pos /\ consumer_pos' = consumer_pos
    BY <2>6 DEF Inside, SlotAfter, Index, Diff
  <2>7. ASSUME NEW v \in Value, Push(v) PROVE [Fifo!FifoNext]_(Fifo!fifoVars)
    BY <2>7, <2>6 DEF Push, consumer, Gone
  <2>8. CASE Construct
    <3> USE <2>8 DEF Construct, consumer
    <3>1. life = "used" /\ life' = "used"
      BY DEF RingInv, Stages
    <3>2. ASSUME NEW i \in 1 .. m
          PROVE  ring'[SlotAfter(Gone + i - 1)'] = ring[SlotAfter(Gone + i - 1)]
      <4>1. SlotAfter(Gone + i - 1) # SlotAfter(n)
        <5>1. /\ Gone + i - 1 \in 0 .. Capacity - 1 /\ n \in 0 .. Capacity - 1
              /\ Gone + i - 1 # n
          BY <2>1, <2>5, WrapIsLarge
        <5> HIDE DEF n
        <5> QED BY <5>1, SlotsDiffer
      <4>2. SlotAfter(Gone + i - 1)' = SlotAfter(Gone + i - 1)
        BY DEF SlotAfter, Index, Gone
      <4> QED BY <4>1, <4>2, <2>2 DEF RingInv, TypeOK
    <3>3. Inside' = Inside
      BY <3>1, <3>2, SameInside DEF Gone, Diff
    <3> QED BY <3>3
  <2>9. CASE ConstructThrows
    BY <2>9, <2>6 DEF ConstructThrows, consumer, Gone
  <2>10. CASE PublishPush
    <3> USE <2>10 DEF PublishPush, consumer
    <3> DEFINE v == ring[Index(producer_pos)]
    <3>1. life = "used" /\ life' = "used"
      BY DEF RingInv, Stages
    <3>2. v \in Value
      <4>1. Ahead(Index(producer_pos)) = n
        <5>1. n \in 0 .. Capacity - 1
          BY <2>1, WrapIsLarge
        <5> HIDE DEF n
        <5> QED BY <5>1, <2>2, AheadOfSlots
      <4> QED BY <4>1, <2>2 DEF RingInv, TypeOK, SlotsOccupied, Occupied
    <3>3. m' = m + 1 /\ Gone' = Gone
      BY <2>1, DiffOfNext DEF RingInv, TypeOK, Gone, Diff
    <3>4. /\ Append(Inside, v) \in Seq(Object)
          /\ Len(Append(Inside, v)) = m + 1
          /\ \A i \in 1 .. m + 1 : Append(Inside, v)[i] = IF i = m + 1 THEN v ELSE Inside[i]
      BY <3>1, <3>2, <2>3, AppendProperties DEF Object
    <3>5. ASSUME NEW i \in 1 .. m + 1
          PROVE  Inside'[i] = Append(Inside, v)[i]
      <4>1. Inside'[i] = ring[SlotAfter(Gone + i - 1)]
        <5>1. SlotAfter(Gone + i - 1)' = SlotAfter(Gone + i - 1)
          BY DEF SlotAfter, Index, Gone
        <5> QED BY <5>1, <3>1, <3>3, <2>4
      <4>2. CASE i = m + 1
        BY <4>1, <4>2, <2>1, <2>2, <2>5, <3>4
      <4>3. CASE i # m + 1
        BY <4>1, <4>3, <2>3, <3>1, <3>4
      <4> QED BY <4>2, <4>3
    <3>6. Inside' = Append(Inside, v)
      <4> HIDE DEF v, m
      <4> QED BY <3>1, <3>3, <3>4, <3>5, <2>4, SeqEqual
    <3>7. Len(Inside) < Capacity
      BY <3>1, <2>1, <2>3, <2>5, WrapIsLarge
    <3>8. Fifo!Put(v)
      BY <3>6, <3>7 DEF Fifo!Put
    <3> QED BY <3>2, <3>8 DEF Fifo!FifoNext
  <2>11. ASSUME NEW p, PopSees(p) PROVE [Fifo!FifoNext]_(Fifo!fifoVars)
    BY <2>11, <2>6 DEF PopSees, producer, Gone
  <2>12. CASE Move
    <3> USE <2>12 DEF Move, producer
    <3>1. life = "used" /\ life' = "used" /\ Gone = 0 /\ Gone' = 1
      BY DEF RingInv, Stages, Gone
    <3>2. m = n /\ m' = n - 1 /\ n # 0
      BY <3>1, <2>1 DEF Diff
    <3>3. Inside # <<>>
      BY <3>1, <3>2, <2>1, <2>3, EmptySeq
    <3>4. out' = Head(Inside)
      <4>1. Head(Inside) = Inside[1]
        BY <3>1, <3>3, <2>3, HeadTailProperties
      <4>2. Inside[1] = ring[SlotAfter(0)]
        BY <3>1, <3>2, <2>1, <2>3
      <4> QED BY <4>1, <4>2, <2>2
    <3>5. /\ Tail(Inside) \in Seq(Object) /\ Len(Tail(Inside)) = n - 1
          /\ \A i \in 1 .. n - 1 : Tail(Inside)[i] = Inside[i + 1]
      BY <3>1, <3>2, <3>3, <2>1, <2>3, HeadTailProperties
    <3>6. ASSUME NEW i \in 1 .. n - 1
          PROVE  Inside'[i] = Tail(Inside)[i]
      <4>1. SlotAfter(Gone + i - 1)' = SlotAfter(i)
        BY <3>1 DEF SlotAfter, Index
      <4>2. Inside'[i] = ring[SlotAfter(i)]
        BY <4>1, <3>1, <3>2, <2>4
      <4>3. Inside[i + 1] = ring[SlotAfter(i)]
        BY <3>1, <3>2, <2>1, <2>3
      <4> QED BY <4>2, <4>3, <3>5
    <3>7. Inside' = Tail(Inside)
      BY <3>1, <3>2, <3>5, <3>6, <2>4, SeqEqual
    <3>8. Fifo!Take
      BY <3>3, <3>4, <3>7 DEF Fifo!Take
    <3> QED BY <3>8 DEF Fifo!FifoNext
  <2>t. CASE MoveThrows
    BY <2>t, <2>6 DEF MoveThrows, producer, Gone
  <2>13. CASE Destroy
    <3> USE <2>13 DEF Destroy, producer
    <3>1. life = "used" /\ life' = "used" /\ Gone = 1 /\ Gone' = 1
      BY DEF RingInv, Stages, Gone
    <3>2. ASSUME NEW i \in 1 .. m
          PROVE  ring'[SlotAfter(Gone + i - 1)'] = ring[SlotAfter(Gone + i - 1)]
      <4>1. SlotAfter(Gone + i - 1) # SlotAfter(0)
        BY <3>1, <2>1, SlotsDiffer, WrapIsLarge
      <4>2. SlotAfter(Gone + i - 1)' = SlotAfter(Gone + i - 1)
        BY <3>1 DEF SlotAfter, Index
      <4> QED BY <4>1, <4>2, <2>2 DEF RingInv, TypeOK
    <3>3. Inside' = Inside
      BY <3>1, <3>2, SameInside DEF Diff
    <3> QED BY <3>3
  <2>14. CASE PublishPop
    <3> USE <2>14 DEF PublishPop, producer
    <3>1. life = "used" /\ life' = "used" /\ Gone = 1 /\ Gone' = 0
      BY DEF RingInv, Stages, Gone
    <3>2. Diff(producer_pos, consumer_pos)' = n - 1
      BY <2>1, DiffOfNext, DiffType DEF RingInv, TypeOK
    <3>3. ASSUME NEW i \in 1 .. m
          PROVE  ring'[SlotAfter(Gone + i - 1)'] = ring[SlotAfter(Gone + i - 1)]
      <4>1. Index(consumer_pos') = IF Index(consumer_pos) = Capacity - 1 THEN 0
                                   ELSE Index(consumer_pos) + 1
        BY IndexOfNext DEF RingInv, TypeOK
      <4>2. SlotAfter(Gone + i - 1)' = IF Index(consumer_pos') + (i - 1) < Capacity
                                       THEN Index(consumer_pos') + (i - 1)
                                       ELSE Index(consumer_pos') + (i - 1) - Capacity
        BY <3>1 DEF SlotAfter, Index
      <4>3. SlotAfter(Gone + i - 1) = IF Index(consumer_pos) + i < Capacity
                                      THEN Index(consumer_pos) + i
                                      ELSE Index(consumer_pos) + i - Capacity
        BY <3>1 DEF SlotAfter
      <4>4. SlotAfter(Gone + i - 1)' = SlotAfter(Gone + i - 1)
        BY <4>1, <4>2, <4>3, <2>1, <2>2, <3>1, WrapIsLarge DEF Slots
      <4> QED BY <4>4
    <3>4. Inside' = Inside
      BY <3>1, <3>2, <3>3, <2>1, SameInside
    <3> QED BY <3>4
  <2>15. CASE BeginDestructor
    BY <2>15 DEF BeginDestructor, consumer, Inside, Fifo!FifoNext, Fifo!Discard
  <2>16. CASE DestroyRemaining
    BY <2>16 DEF DestroyRemaining, Inside
  <2>17. CASE UNCHANGED vars
    BY <2>17, <2>6 DEF vars, Gone
  <2> QED
    BY <2>7, <2>8, <2>9, <2>10, <2>11, <2>12, <2>t, <2>13, <2>14, <2>15, <2>16,
       <2>17
    DEF Next, Pop
<1> QED
  BY <1>1, <1>2, RingInvariant, PTL DEF Spec, ImplementsFifo, Fifo!FifoSpec
=============================================================================
