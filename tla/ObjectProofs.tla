---------------------------- MODULE ObjectProofs ----------------------------
(***************************************************************************)
(* Proofs about the objects that own memory, which are the variant,        *)
(* unique_ptr, the allocator, the LRU cache and the vector, and about the  *)
(* encoder, for every value of their constants.                            *)
(***************************************************************************)
EXTENDS Variant, UniquePtr, HybridAllocator, LruCache, ToyVector,
        StopBitCodec, FiniteSetTheorems, SequenceTheorems,
        WellFoundedInduction, TLAPS

(* The variant.  One that was destroyed left nothing behind.               *)
VariantInv ==
  /\ variant \in {"none", "alive", "terminated"}
  /\ variant = "none" => type_index_ = npos /\ storage_ = npos
  /\ VariantHoldsOne

(* Whatever constructors throw, a variant holds just what its index says.  *)
THEOREM VariantAlwaysHoldsOne == VariantSpec => []VariantHoldsOne
<1>1. VariantInit => VariantInv
  BY DEF VariantInit, VariantInv, VariantHoldsOne
<1>2. VariantInv /\ [VariantNext]_variantVars => VariantInv'
  <2> SUFFICES ASSUME VariantInv, [VariantNext]_variantVars PROVE VariantInv'
    OBVIOUS
  <2> USE VariantConstants
      DEF VariantInv, VariantHoldsOne, Destroyed, UsedToDestroy
  <2>1. CASE ConstructEmpty
    BY <2>1 DEF ConstructEmpty
  <2>2. CASE DestructVariant
    BY <2>2 DEF DestructVariant
  <2>3. ASSUME NEW t \in Alternatives, ConstructFrom(t) PROVE VariantInv'
    BY <2>3 DEF ConstructFrom
  <2>4. ASSUME NEW t \in Alternatives, AssignFrom(t) PROVE VariantInv'
    BY <2>4 DEF AssignFrom
  <2>5. ASSUME NEW t \in Alternatives, AssignThrows(t) PROVE VariantInv'
    BY <2>5 DEF AssignThrows
  <2>6. ASSUME NEW t \in Alternatives, GetAlternative(t) PROVE VariantInv'
    BY <2>6 DEF GetAlternative
  <2>7. CASE UNCHANGED variantVars
    BY <2>7 DEF variantVars
  <2> QED BY <2>1, <2>2, <2>3, <2>4, <2>5, <2>6, <2>7 DEF VariantNext
<1> QED BY <1>1, <1>2, PTL DEF VariantSpec, VariantInv
-----------------------------------------------------------------------------
(* unique_ptr.  Who owns what when the pointers are m, raw pointers to r   *)
(* are held, and o was just let go of: it is pointed to by none but those  *)
(* in S, which are about to be written.                                    *)
OwnedBut(m, r, o, S) ==
  /\ DOMAIN m \subseteq Names \cup Objects
  /\ r \subseteq Objects \ {o} /\ o \in Objects \cup {NullPtr}
  /\ \A p \in DOMAIN m : m[p] \in (Objects \cup {NullPtr}) \ r
  /\ \A x \in Objects :
       x \in DOMAIN m <=> x \in r \/ x = o \/ \E p \in DOMAIN m : m[p] = x
  /\ \A p \in DOMAIN m : m[p] = o => o = NullPtr \/ p \in S
  /\ \A p, q \in DOMAIN m : m[p] = m[q] => p = q \/ m[p] = NullPtr

UniqueInv == ~misused /\ OwnedBut(ptr, raw, NullPtr, {})

(* What is destroyed is a list from o on: it goes on to the end, and what  *)
(* is in it is owned by what comes before.                                 *)
LEMMA DeletedList ==
  ASSUME NEW m, NEW o \in Objects,
         \A p \in DOMAIN m : m[p] \in Objects \cup {NullPtr}
  PROVE  LET d == DeletedWith(m, o)
         IN /\ o \in d /\ d \subseteq Objects
            /\ \A y \in d \cap DOMAIN m : m[y] \in d \cup {NullPtr}
            /\ \A x \in d \ {o} : \E y \in d \cap DOMAIN m : m[y] = x
            /\ \A S \in SUBSET Objects :
                 o \in S /\ (\A y \in S \cap DOMAIN m : m[y] \in S \cup {NullPtr})
                   => d \subseteq S
<1> DEFINE d == DeletedWith(m, o)
           Closed(S) == \A y \in S \cap DOMAIN m : m[y] \in S \cup {NullPtr}
<1>1. \A x : x \in d <=>
        x \in Objects /\ \A S \in SUBSET Objects : o \in S /\ Closed(S) => x \in S
  BY UniqueConstants DEF DeletedWith
<1> HIDE DEF d
<1>2. o \in d /\ d \subseteq Objects
  BY <1>1
<1>3. ASSUME NEW S \in SUBSET Objects, o \in S, Closed(S) PROVE d \subseteq S
  BY <1>1, <1>3
<1>4. Closed(d)
  <2> SUFFICES ASSUME NEW y \in d \cap DOMAIN m, m[y] # NullPtr PROVE m[y] \in d
    OBVIOUS
  <2>1. ASSUME NEW S \in SUBSET Objects, o \in S, Closed(S) PROVE m[y] \in S
    BY <2>1, <1>3
  <2> QED BY <1>1, <2>1
<1>5. ASSUME NEW x \in d \ {o} PROVE \E y \in d \cap DOMAIN m : m[y] = x
  <2> SUFFICES ASSUME \A y \in d \cap DOMAIN m : m[y] # x PROVE FALSE
    OBVIOUS
  <2>1. d \ {x} \in SUBSET Objects /\ o \in d \ {x}
    BY <1>2
  <2>2. Closed(d \ {x})
    BY <1>4
  <2> QED BY <2>1, <2>2, <1>3
<1>6. \A S \in SUBSET Objects : o \in S /\ Closed(S) => d \subseteq S
  BY <1>3
<1> QED BY <1>2, <1>4, <1>5, <1>6 DEF d

(* No pointer that stays refers to what is destroyed.                      *)
LEMMA NothingLeftBehind ==
  ASSUME NEW m, NEW r, NEW o, NEW S, OwnedBut(m, r, o, S),
         S \cap DeletedWith(m, o) = {}
  PROVE  LET d == DeletedWith(m, o)
         IN /\ ~DeleteFails(m, o) /\ d \subseteq DOMAIN m /\ d \cap r = {}
            /\ d \subseteq Objects /\ (o \in d \/ o = NullPtr)
            /\ \A y \in d : m[y] \in d \cup {NullPtr}
            /\ \A p \in DOMAIN m \ (d \cup S) : m[p] \notin d
<1> DEFINE d == DeletedWith(m, o)
<1>1. CASE o = NullPtr
  <2>1. d = {}
    BY <1>1 DEF DeletedWith
  <2> QED BY <2>1, <1>1 DEF DeleteFails
<1>2. CASE o \in Objects
  <2>0. o # NullPtr
    BY <1>2, UniqueConstants
  <2>1. /\ o \in d /\ d \subseteq Objects
        /\ \A y \in d \cap DOMAIN m : m[y] \in d \cup {NullPtr}
        /\ \A x \in d \ {o} : \E y \in d \cap DOMAIN m : m[y] = x
    BY <1>2, DeletedList DEF OwnedBut
  <2>2. d \subseteq DOMAIN m
    <3> DEFINE A == Objects \cap DOMAIN m
    <3>1. A \in SUBSET Objects /\ o \in A
      BY <1>2 DEF OwnedBut
    <3>2. \A y \in A \cap DOMAIN m : m[y] \in A \cup {NullPtr}
      BY DEF OwnedBut
    <3> HIDE DEF A
    <3>3. d \subseteq A
      BY <1>2, <3>1, <3>2, DeletedList DEF OwnedBut
    <3> QED BY <3>3 DEF A
  <2> HIDE DEF d
  <2>3. ASSUME NEW x \in d PROVE x \notin r
    BY <2>1, <2>2, <2>3 DEF OwnedBut
  <2>4. ASSUME NEW p \in DOMAIN m, m[p] \in d, p \notin S PROVE p \in d
    <3>1. CASE m[p] = o
      BY <3>1, <2>0, <2>4 DEF OwnedBut
    <3>2. CASE m[p] # o
      <4>1. PICK y \in d \cap DOMAIN m : m[y] = m[p]
        BY <2>1, <2>4, <3>2
      <4>2. m[p] # NullPtr
        BY <2>1, <2>4, UniqueConstants
      <4> QED BY <4>1, <4>2 DEF OwnedBut
    <3> QED BY <3>1, <3>2
  <2>5. ASSUME NEW x \in d PROVE x \in DOMAIN m /\ m[x] # o
    <3>1. x \in DOMAIN m /\ x \notin S
      BY <2>2 DEF d
    <3> QED BY <3>1, <2>0 DEF OwnedBut
  <2>6. ~DeleteFails(m, o)
    BY <2>5 DEF DeleteFails, d
  <2> QED BY <2>1, <2>2, <2>3, <2>4, <2>6 DEF d
<1> QED BY <1>1, <1>2 DEF OwnedBut

(* When nothing points to it any more, an object can be deleted.           *)
LEMMA Deleted ==
  ASSUME NEW m, NEW r, NEW o, OwnedBut(m, r, o, {})
  PROVE  /\ ~DeleteFails(m, o)
         /\ OwnedBut(Outside(DeletedWith(m, o), m), r, NullPtr, {})
<1> DEFINE d == DeletedWith(m, o)
           n == Outside(d, m)
<1>1. /\ ~DeleteFails(m, o) /\ d \subseteq DOMAIN m /\ d \cap r = {}
      /\ d \subseteq Objects /\ (o \in d \/ o = NullPtr)
      /\ \A y \in d : m[y] \in d \cup {NullPtr}
      /\ \A p \in DOMAIN m \ d : m[p] \notin d
  BY NothingLeftBehind
<1>2. DOMAIN n = DOMAIN m \ d /\ \A p \in DOMAIN n : n[p] = m[p]
  BY DEF Outside
<1> HIDE DEF d, n
<1>3. NullPtr \notin Objects /\ NullPtr \notin d
  BY <1>1, UniqueConstants
<1>4. ASSUME NEW x \in Objects
      PROVE  x \in DOMAIN n <=> x \in r \/ x = NullPtr \/ \E p \in DOMAIN n : n[p] = x
  <2>1. ASSUME x \in DOMAIN n PROVE x \in r \/ \E p \in DOMAIN n : n[p] = x
    <3>1. x \in DOMAIN m /\ x \notin d /\ x # o
      BY <2>1, <1>1, <1>2, <1>3
    <3>2. x \in r \/ \E p \in DOMAIN m : m[p] = x
      BY <3>1 DEF OwnedBut
    <3>3. ASSUME NEW p \in DOMAIN m, m[p] = x PROVE p \in DOMAIN n /\ n[p] = x
      BY <3>1, <3>3, <1>1, <1>2, <1>3
    <3> QED BY <3>2, <3>3
  <2>2. ASSUME x \in r \/ \E p \in DOMAIN n : n[p] = x PROVE x \in DOMAIN n
    <3>1. x \in DOMAIN m
      BY <2>2, <1>2 DEF OwnedBut
    <3>2. x \notin d
      BY <2>2, <1>1, <1>2
    <3> QED BY <3>1, <3>2, <1>2
  <2> QED BY <2>1, <2>2, <1>3
<1>5. /\ DOMAIN n \subseteq Names \cup Objects
      /\ r \subseteq Objects \ {NullPtr} /\ NullPtr \in Objects \cup {NullPtr}
      /\ \A p \in DOMAIN n : n[p] \in (Objects \cup {NullPtr}) \ r
      /\ \A p, q \in DOMAIN n : n[p] = n[q] => p = q \/ n[p] = NullPtr
  BY <1>2, <1>3 DEF OwnedBut
<1>6. OwnedBut(n, r, NullPtr, {})
  BY <1>4, <1>5 DEF OwnedBut
<1> QED BY <1>1, <1>6 DEF n, d

LEMMA UniqueStep ==
  ASSUME ~AssignsOwnPart, UniqueInv, [UniqueNext]_uniqueVars
  PROVE  UniqueInv'
<1>0. /\ OwnedBut(ptr, raw, NullPtr, {}) /\ ~misused
      /\ NullPtr \notin Objects /\ Names \cap Objects = {}
  BY UniqueConstants DEF UniqueInv
<1> SUFFICES OwnedBut(ptr', raw', NullPtr, {}) /\ ~misused'
  BY DEF UniqueInv, OwnedBut
<1>1. ASSUME NEW o \in Objects, NewObject(o)
      PROVE  OwnedBut(ptr', raw', NullPtr, {}) /\ ~misused'
  <2>1. /\ o \notin DOMAIN ptr /\ raw' = raw \cup {o} /\ ~misused'
        /\ DOMAIN ptr' = DOMAIN ptr \cup {o} /\ ptr'[o] = NullPtr
        /\ \A p \in DOMAIN ptr : ptr'[p] = ptr[p]
    BY <1>1, <1>0 DEF NewObject, With, Pointers
  <2> QED BY <2>1, <1>0 DEF OwnedBut
<1>2. ASSUME NEW p \in Names, NEW o \in Objects \cup {NullPtr}, ConstructUnique(p, o)
      PROVE  OwnedBut(ptr', raw', NullPtr, {}) /\ ~misused'
  <2>1. /\ p \notin DOMAIN ptr /\ o \in raw \cup {NullPtr} /\ raw' = raw \ {o}
        /\ ~misused' /\ DOMAIN ptr' = DOMAIN ptr \cup {p} /\ ptr'[p] = o
        /\ \A q \in DOMAIN ptr : ptr'[q] = ptr[q]
    BY <1>2, <1>0 DEF ConstructUnique, With, Pointers
  <2> QED BY <2>1, <1>0 DEF OwnedBut
<1>3. ASSUME NEW p \in Names, NEW q \in Pointers, MoveConstructUnique(p, q)
      PROVE  OwnedBut(ptr', raw', NullPtr, {}) /\ ~misused'
  <2>1. /\ p \notin DOMAIN ptr /\ q \in DOMAIN ptr /\ raw' = raw /\ ~misused'
        /\ DOMAIN ptr' = DOMAIN ptr \cup {p}
        /\ ptr'[p] = ptr[q] /\ ptr'[q] = NullPtr
        /\ \A x \in DOMAIN ptr \ {q} : ptr'[x] = ptr[x]
    BY <1>3, <1>0 DEF MoveConstructUnique, With, Pointers
  <2> QED BY <2>1, <1>0 DEF OwnedBut
<1>4. ASSUME NEW p \in Pointers, NEW q \in Pointers, MoveAssignUnique(p, q)
      PROVE  OwnedBut(ptr', raw', NullPtr, {}) /\ ~misused'
  <2> DEFINE d == DeletedWith(ptr, ptr[p])
  <2>1. /\ p \in DOMAIN ptr /\ q \in DOMAIN ptr /\ p # q /\ p \notin d /\ q \notin d
        /\ misused' = (misused \/ DeleteFails(ptr, ptr[p])) /\ raw' = raw
        /\ ptr' = Outside(d, [ptr EXCEPT ![p] = ptr[q], ![q] = NullPtr])
    BY <1>4 DEF MoveAssignUnique, Pointers
  <2>2. /\ DOMAIN ptr' = DOMAIN ptr \ d /\ ptr'[p] = ptr[q] /\ ptr'[q] = NullPtr
        /\ \A x \in DOMAIN ptr \ (d \cup {p, q}) : ptr'[x] = ptr[x]
    BY <2>1 DEF Outside
  <2>3. OwnedBut(ptr, raw, ptr[p], {p})
    BY <2>1, <1>0 DEF OwnedBut
  <2>4. /\ ~DeleteFails(ptr, ptr[p]) /\ d \subseteq DOMAIN ptr /\ d \cap raw = {}
        /\ d \subseteq Objects /\ (ptr[p] \in d \/ ptr[p] = NullPtr)
        /\ \A y \in d : ptr[y] \in d \cup {NullPtr}
        /\ \A x \in DOMAIN ptr \ (d \cup {p}) : ptr[x] \notin d
    BY <2>1, <2>3, NothingLeftBehind
  <2> HIDE DEF d
  <2>5. ASSUME NEW x \in Objects
        PROVE  x \in DOMAIN ptr' <=> x \in raw' \/ \E y \in DOMAIN ptr' : ptr'[y] = x
    <3>1. ASSUME x \in DOMAIN ptr'
          PROVE  x \in raw' \/ \E y \in DOMAIN ptr' : ptr'[y] = x
      <4>1. x \in DOMAIN ptr /\ x \notin d /\ x # ptr[p] /\ x # NullPtr
        BY <3>1, <2>2, <2>4, <1>0
      <4>2. x \in raw \/ \E y \in DOMAIN ptr : ptr[y] = x
        BY <4>1, <1>0 DEF OwnedBut
      <4>3. ASSUME NEW y \in DOMAIN ptr, ptr[y] = x
            PROVE  \E z \in DOMAIN ptr' : ptr'[z] = x
        <5>1. y \notin d /\ y # p
          BY <4>1, <4>3, <2>4
        <5>2. CASE y = q
          BY <5>2, <4>3, <2>1, <2>2
        <5>3. CASE y # q
          BY <5>1, <5>3, <4>3, <2>2
        <5> QED BY <5>2, <5>3
      <4> QED BY <4>2, <4>3, <2>1
    <3>2. ASSUME x \in raw' PROVE x \in DOMAIN ptr'
      BY <3>2, <2>1, <2>2, <2>4, <1>0 DEF OwnedBut
    <3>3. ASSUME NEW y \in DOMAIN ptr', ptr'[y] = x PROVE x \in DOMAIN ptr'
      <4>1. PICK z \in DOMAIN ptr \ (d \cup {p}) : ptr[z] = x
        BY <3>3, <2>1, <2>2, <1>0
      <4>2. x \in DOMAIN ptr /\ x \notin d
        BY <4>1, <2>4, <1>0 DEF OwnedBut
      <4> QED BY <4>2, <2>2
    <3> QED BY <3>1, <3>2, <3>3
  <2>6. \A x, y \in DOMAIN ptr' : ptr'[x] = ptr'[y] => x = y \/ ptr'[x] = NullPtr
    <3> SUFFICES ASSUME NEW x \in DOMAIN ptr', NEW y \in DOMAIN ptr', x # y,
                        ptr'[x] # NullPtr
                 PROVE  ptr'[x] # ptr'[y]
      OBVIOUS
    <3>1. ASSUME NEW z \in DOMAIN ptr', ptr'[z] # NullPtr
          PROVE  ptr'[z] = IF z = p THEN ptr[q] ELSE ptr[z]
      BY <3>1, <2>2
    <3>2. x # q /\ x \in DOMAIN ptr /\ y \in DOMAIN ptr
      BY <2>2
    <3>3. CASE ptr'[y] = NullPtr
      BY <3>3
    <3>4. CASE ptr'[y] # NullPtr
      <4>1. y # q
        BY <3>4, <2>2
      <4> QED BY <3>1, <3>2, <3>4, <4>1, <2>1, <1>0 DEF OwnedBut
    <3> QED BY <3>3, <3>4
  <2>7. /\ DOMAIN ptr' \subseteq Names \cup Objects
        /\ raw' \subseteq Objects \ {NullPtr}
        /\ \A x \in DOMAIN ptr' : ptr'[x] \in (Objects \cup {NullPtr}) \ raw'
    BY <2>1, <2>2, <1>0 DEF OwnedBut
  <2>8. OwnedBut(ptr', raw', NullPtr, {})
    BY <2>5, <2>6, <2>7, <1>0 DEF OwnedBut
  <2> QED BY <2>1, <2>4, <2>8, <1>0
<1>5. ASSUME NEW p \in Pointers, NEW o \in Objects \cup {NullPtr}, Reset(p, o)
      PROVE  OwnedBut(ptr', raw', NullPtr, {}) /\ ~misused'
  <2> DEFINE m == [ptr EXCEPT ![p] = o]
  <2>1. /\ p \in DOMAIN ptr /\ o \in raw \cup {NullPtr} /\ raw' = raw \ {o}
        /\ DeleteOwned(m, ptr[p])
    BY <1>5 DEF Reset, Pointers
  <2>2. /\ DOMAIN m = DOMAIN ptr /\ m[p] = o
        /\ \A x \in DOMAIN ptr \ {p} : m[x] = ptr[x]
    BY <2>1
  <2> HIDE DEF m
  <2>3. OwnedBut(m, raw', ptr[p], {})
    <3>1. \A x \in DOMAIN m : m[x] = ptr[p] => ptr[p] = NullPtr
      BY <2>1, <2>2, <1>0 DEF OwnedBut
    <3>2. \A x, y \in DOMAIN m : m[x] = m[y] => x = y \/ m[x] = NullPtr
      BY <2>1, <2>2, <1>0 DEF OwnedBut
    <3>3. /\ DOMAIN m \subseteq Names \cup Objects
          /\ raw' \subseteq Objects \ {ptr[p]} /\ ptr[p] \in Objects \cup {NullPtr}
          /\ \A x \in DOMAIN m : m[x] \in (Objects \cup {NullPtr}) \ raw'
      BY <2>1, <2>2, <1>0 DEF OwnedBut
    <3>4. ASSUME NEW x \in Objects
          PROVE  x \in DOMAIN m <=>
                   x \in raw' \/ x = ptr[p] \/ \E y \in DOMAIN m : m[y] = x
      BY <2>1, <2>2, <1>0 DEF OwnedBut
    <3> QED BY <3>1, <3>2, <3>3, <3>4 DEF OwnedBut
  <2> QED BY <2>1, <2>3, <1>0, Deleted DEF DeleteOwned
<1>6. ASSUME NEW p \in Pointers, Release(p)
      PROVE  OwnedBut(ptr', raw', NullPtr, {}) /\ ~misused'
  <2>1. /\ p \in DOMAIN ptr /\ ptr[p] # NullPtr /\ raw' = raw \cup {ptr[p]}
        /\ ~misused' /\ DOMAIN ptr' = DOMAIN ptr /\ ptr'[p] = NullPtr
        /\ \A q \in DOMAIN ptr \ {p} : ptr'[q] = ptr[q]
    BY <1>6, <1>0 DEF Release, Pointers
  <2> QED BY <2>1, <1>0 DEF OwnedBut
<1>7. ASSUME NEW p \in Pointers, p \in Names, DestructUnique(p)
      PROVE  OwnedBut(ptr', raw', NullPtr, {}) /\ ~misused'
  <2> DEFINE m == Outside({p}, ptr)
  <2>1. p \in DOMAIN ptr /\ raw' = raw /\ DeleteOwned(m, ptr[p])
    BY <1>7 DEF DestructUnique, Pointers
  <2>2. DOMAIN m = DOMAIN ptr \ {p} /\ \A x \in DOMAIN m : m[x] = ptr[x]
    BY DEF Outside
  <2> HIDE DEF m
  <2>3. p \notin Objects
    BY <1>7, <1>0
  <2>4. OwnedBut(m, raw', ptr[p], {})
    BY <2>1, <2>2, <2>3, <1>0 DEF OwnedBut
  <2> QED BY <2>1, <2>4, <1>0, Deleted DEF DeleteOwned
<1>8. CASE UNCHANGED uniqueVars
  BY <1>8, <1>0 DEF uniqueVars
<1> QED BY <1>1, <1>2, <1>3, <1>4, <1>5, <1>6, <1>7, <1>8 DEF UniqueNext

(* Whoever moves, resets, releases or destroys, in whatever lists: each    *)
(* object is deleted once, by its only owner, and nothing refers to it     *)
(* afterwards, as long as nobody assigns to a pointer a part of what it    *)
(* owns.                                                                   *)
THEOREM ObjectsOwnedOnce ==
  ASSUME ~AssignsOwnPart PROVE UniqueSpec => []OwnedOnce
<1>1. UniqueInit => UniqueInv
  BY UniqueConstants DEF UniqueInit, UniqueInv, OwnedBut
<1>2. UniqueInv /\ [UniqueNext]_uniqueVars => UniqueInv'
  BY UniqueStep
<1>3. UniqueInv => OwnedOnce
  <2> SUFFICES ASSUME UniqueInv PROVE OwnedOnce
    OBVIOUS
  <2>1. Pointers \cap Objects = raw \cup ({ptr[p] : p \in Pointers} \ {NullPtr})
    BY UniqueConstants DEF UniqueInv, OwnedBut, Pointers
  <2> QED BY <2>1 DEF UniqueInv, OwnedBut, Pointers, OwnedOnce
<1> QED BY <1>1, <1>2, <1>3, PTL DEF UniqueSpec
-----------------------------------------------------------------------------
(* The allocator.                                                          *)
AllocatorInv ==
  /\ stackCount \in Nat
  /\ \A a \in onStack : a.first \in Nat /\ a.n \in Nat \ {0}
  /\ BlocksApart

(* No two blocks in use overlap, in whatever order they are given back.    *)
THEOREM BlocksStayApart == AllocatorSpec => []BlocksApart
<1>1. AllocatorInit => AllocatorInv
  BY AllocatorConstants DEF AllocatorInit, AllocatorInv, BlocksApart
<1>2. AllocatorInv /\ [AllocatorNext]_allocatorVars => AllocatorInv'
  <2> SUFFICES ASSUME AllocatorInv, [AllocatorNext]_allocatorVars PROVE AllocatorInv'
    OBVIOUS
  <2> USE AllocatorConstants DEF AllocatorInv, BlocksApart, Top
  <2>1. ASSUME NEW n \in 1 .. MaxBlock, AllocateOnStack(n) PROVE AllocatorInv'
    <3> DEFINE b == [first |-> stackCount, n |-> n]
    <3>1. /\ n \in Nat \ {0} /\ b.first = stackCount /\ b.n = n
          /\ stackCount' = stackCount + n /\ stackCount' <= StackThreshold
          /\ onStack' = onStack \cup {b}
      BY <2>1 DEF AllocateOnStack
    <3> HIDE DEF b
    <3>2. \A a \in onStack' : a = b \/ a \in onStack
      BY <3>1
    <3>3. \A a \in onStack' :
            /\ a.first \in Nat /\ a.n \in Nat \ {0} /\ a.first + a.n <= stackCount'
            /\ a # b => a.first + a.n <= b.first
      BY <3>1, <3>2
    <3> QED BY <3>1, <3>2, <3>3
  <2>2. ASSUME NEW b \in onStack, DeallocateOnStack(b) PROVE AllocatorInv'
    <3>1. /\ b.first \in Nat /\ b.n \in Nat /\ onStack' = onStack \ {b}
          /\ b.first + b.n <= stackCount
          /\ \/ stackCount' = stackCount
             \/ b.first + b.n = stackCount /\ stackCount' = stackCount - b.n
      BY <2>2 DEF DeallocateOnStack
    <3>2. CASE stackCount' = stackCount
      BY <3>1, <3>2
    <3>3. CASE b.first + b.n = stackCount /\ stackCount' = stackCount - b.n
      <4>1. stackCount' = b.first /\ stackCount' <= StackThreshold
        BY <3>1, <3>3
      <4>2. ASSUME NEW a \in onStack \ {b} PROVE a.first + a.n <= b.first
        <5>1. /\ a.first \in Nat /\ a.n \in Nat \ {0} /\ a.first + a.n <= stackCount
              /\ a.first + a.n <= b.first \/ b.first + b.n <= a.first
          OBVIOUS
        <5>2. b.first + b.n = stackCount /\ b.first \in Nat /\ b.n \in Nat
          BY <3>1, <3>3
        <5> QED BY <5>1, <5>2
      <4> QED BY <3>1, <4>1, <4>2
    <3> QED BY <3>1, <3>2, <3>3
  <2>3. ASSUME UNCHANGED <<stackCount, onStack>> PROVE AllocatorInv'
    BY <2>3
  <2> QED
    BY <2>1, <2>2, <2>3
    DEF AllocatorNext, AllocateOnHeap, DeallocateOnHeap, allocatorVars
<1> QED BY <1>1, <1>2, PTL DEF AllocatorSpec, AllocatorInv

-----------------------------------------------------------------------------
(* The LRU cache.  Every operation takes at most one element out of a list *)
(* and puts one in front: s becomes r, the elements before the p-th move   *)
(* back by one.                                                            *)
MovedUp(r, s, x, p) ==
  /\ Len(r) = IF p <= Len(s) THEN Len(s) ELSE Len(s) + 1
  /\ r[1] = x
  /\ \A j \in 2 .. Len(r) : r[j] = IF j <= p THEN s[j - 1] ELSE s[j]

Node == [at : Address, k : Key, v : Value]
Use == [k : Key, v : Value]

(* Which keys there are, and in which order they were used last, is the    *)
(* same in the list and in the history; no address or key occurs twice.    *)
LruInv ==
  /\ capacity \in Nat \ {0}
  /\ nodes \in Seq(Node) /\ uses \in Seq(Use) /\ size = Len(nodes)
  /\ Len(nodes) = IF Len(uses) < capacity THEN Len(uses) ELSE capacity
  /\ \A i \in 1 .. Len(nodes) : uses[i] = [k |-> nodes[i].k, v |-> nodes[i].v]
  /\ \A i, j \in 1 .. Len(nodes) : nodes[i].at = nodes[j].at => i = j
  /\ \A i, j \in 1 .. Len(uses) : uses[i].k = uses[j].k => i = j
  /\ DOMAIN table = {nodes[i].k : i \in 1 .. Len(nodes)}
  /\ \A i \in 1 .. Len(nodes) : table[nodes[i].k] = nodes[i].at

LEMMA Rest ==
  ASSUME NEW S, NEW s \in Seq(S), NEW p \in 1 .. Len(s)
  PROVE  /\ RemoveAt(s, p) \in Seq(S) /\ Len(RemoveAt(s, p)) = Len(s) - 1
         /\ \A j \in 1 .. Len(s) - 1 :
              RemoveAt(s, p)[j] = IF j < p THEN s[j] ELSE s[j + 1]
<1> DEFINE b == SubSeq(s, 1, p - 1)
           e == SubSeq(s, p + 1, Len(s))
<1>1. b \in Seq(S) /\ Len(b) = p - 1 /\ \A j \in 1 .. p - 1 : b[j] = s[j]
  OBVIOUS
<1>2. /\ e \in Seq(S) /\ Len(e) = Len(s) - p
      /\ \A j \in 1 .. Len(s) - p : e[j] = s[p + j]
  OBVIOUS
<1> HIDE DEF b, e
<1> DEFINE m == b \o e
<1>3. m \in Seq(S) /\ Len(m) = Len(s) - 1
  <2>1. m \in Seq(S) /\ Len(m) = Len(b) + Len(e)
    BY <1>1, <1>2, ConcatProperties
  <2> QED BY <2>1, <1>1, <1>2
<1>4. ASSUME NEW j \in 1 .. Len(s) - 1
      PROVE  m[j] = IF j < p THEN s[j] ELSE s[j + 1]
  <2>1. CASE j < p
    BY <2>1, <1>1, <1>2
  <2>2. CASE ~ (j < p)
    <3>1. m[j] = e[j - (p - 1)]
      BY <2>2, <1>1, <1>2
    <3>2. e[j - (p - 1)] = s[p + (j - (p - 1))]
      BY <2>2, <1>2
    <3> QED BY <2>2, <3>1, <3>2
  <2> QED BY <2>1, <2>2
<1>5. RemoveAt(s, p) = m
  BY DEF RemoveAt, b, e
<1> QED BY <1>3, <1>4, <1>5

LEMMA FrontAndRest ==
  ASSUME NEW S, NEW s \in Seq(S), NEW x \in S, NEW p \in 1 .. Len(s)
  PROVE  /\ <<x>> \o RemoveAt(s, p) \in Seq(S)
         /\ MovedUp(<<x>> \o RemoveAt(s, p), s, x, p)
<1> DEFINE m == RemoveAt(s, p)
<1>1. /\ m \in Seq(S) /\ Len(m) = Len(s) - 1
      /\ \A j \in 1 .. Len(s) - 1 : m[j] = IF j < p THEN s[j] ELSE s[j + 1]
  BY Rest
<1> HIDE DEF m
<1>2. /\ <<x>> \o m \in Seq(S) /\ Len(<<x>> \o m) = Len(s)
      /\ (<<x>> \o m)[1] = x
      /\ \A j \in 2 .. Len(s) : (<<x>> \o m)[j] = m[j - 1]
  BY <1>1
<1>3. MovedUp(<<x>> \o m, s, x, p)
  BY <1>1, <1>2 DEF MovedUp
<1> QED BY <1>2, <1>3 DEF m

(* What is left is found again in the rest.                                *)
LEMMA RestFound ==
  ASSUME NEW S, NEW s \in Seq(S), NEW p \in 1 .. Len(s),
         NEW i \in 1 .. Len(s), i # p
  PROVE  \E j \in 1 .. Len(RemoveAt(s, p)) : RemoveAt(s, p)[j] = s[i]
<1> DEFINE j == IF i < p THEN i ELSE i - 1
<1>1. j \in 1 .. Len(s) - 1 /\ (IF j < p THEN j ELSE j + 1) = i
  OBVIOUS
<1> HIDE DEF j
<1>2. RemoveAt(s, p)[j] = IF j < p THEN s[j] ELSE s[j + 1]
  BY <1>1, Rest
<1>3. j \in 1 .. Len(RemoveAt(s, p)) /\ RemoveAt(s, p)[j] = s[i]
  BY <1>1, <1>2, Rest
<1> QED BY <1>3

LEMMA NodeRemoved ==
  ASSUME LruInv, NEW i \in 1 .. Len(nodes)
  PROVE  Without(nodes, nodes[i].at) = RemoveAt(nodes, i)
<1>1. {j \in 1 .. Len(nodes) : nodes[j].at = nodes[i].at} = {i}
  BY DEF LruInv
<1> QED BY <1>1 DEF Without, RemoveFirstMatch, SelectInSeq, Min

LEMMA SameKeys ==
  ASSUME LruInv, NEW i \in 1 .. Len(nodes)
  PROVE  i \in 1 .. Len(uses) /\ uses[i].k = nodes[i].k
<1>1. uses[i] = [k |-> nodes[i].k, v |-> nodes[i].v]
  BY DEF LruInv
<1>2. Len(nodes) \in Nat /\ Len(uses) \in Nat /\ Len(nodes) <= Len(uses)
  BY DEF LruInv
<1> QED BY <1>1, <1>2

LEMMA UseRemoved ==
  ASSUME LruInv, NEW i \in 1 .. Len(uses)
  PROVE  Others(uses[i].k) = RemoveAt(uses, i) /\ LastUse(uses[i].k) = uses[i]
<1>1. {j \in 1 .. Len(uses) : uses[j].k = uses[i].k} = {i}
  BY DEF LruInv
<1>2. Others(uses[i].k) = RemoveAt(uses, i)
  BY <1>1 DEF Others, RemoveFirstMatch, SelectInSeq, Min
<1>3. \A u \in {uses[j] : j \in 1 .. Len(uses)} :
        u.k = uses[i].k => u = uses[i]
  BY DEF LruInv
<1> QED BY <1>2, <1>3 DEF LastUse

(* What the history becomes when k is used, and at which place it was.     *)
LEMMA UsedNow ==
  ASSUME LruInv, NEW k \in Key, NEW v \in Value,
         \/ WasPut(k, v)
         \/ (WasFound(k) /\ \E i \in 1 .. Len(uses) :
                              uses[i] = [k |-> k, v |-> v])
  PROVE  /\ uses' \in Seq(Use)
         /\ \E q \in 1 .. Len(uses) + 1 :
              /\ MovedUp(uses', uses, [k |-> k, v |-> v], q)
              /\ \A i \in 1 .. Len(uses) : uses[i].k = k <=> i = q
<1> DEFINE u == [k |-> k, v |-> v]
<1>1. u \in Use /\ u.k = k
  BY DEF Use
<1> HIDE DEF u
<1>2. CASE \E i \in 1 .. Len(uses) : uses[i].k = k
  <2> PICK q \in 1 .. Len(uses) : uses[q].k = k
    BY <1>2
  <2>1. uses' = <<u>> \o RemoveAt(uses, q)
    <3>1. Others(k) = RemoveAt(uses, q) /\ LastUse(k) = uses[q]
      BY UseRemoved
    <3>2. ASSUME NEW i \in 1 .. Len(uses), uses[i] = u PROVE i = q
      BY <3>2, <1>1 DEF LruInv
    <3> QED BY <3>1, <3>2 DEF WasPut, WasFound, u
  <2>2. uses' \in Seq(Use) /\ MovedUp(uses', uses, u, q)
    <3>1. uses \in Seq(Use)
      BY DEF LruInv
    <3> QED BY <2>1, <3>1, <1>1, FrontAndRest
  <2> QED BY <2>2 DEF u, LruInv
<1>3. CASE ~ \E i \in 1 .. Len(uses) : uses[i].k = k
  <2>1. uses' = <<u>> \o uses
    BY <1>3, <1>1 DEF WasPut, WasFound, Others, RemoveFirstMatch, u
  <2>2. uses' \in Seq(Use) /\ MovedUp(uses', uses, u, Len(uses) + 1)
    BY <2>1, <1>1 DEF MovedUp, LruInv
  <2> QED BY <1>3, <2>2 DEF u, LruInv
<1> QED BY <1>2, <1>3

(* The list follows the history when the node that moves up, or leaves, is *)
(* the one of the key used, or the last one of a full list.                *)
LEMMA InStepAgain ==
  ASSUME LruInv, NEW k \in Key, NEW v \in Value, NEW a \in Address,
         capacity' = capacity, nodes' \in Seq(Node), uses' \in Seq(Use), size' = Len(nodes'),
         NEW p \in 1 .. Len(nodes) + 1,
         NEW q \in 1 .. Len(uses) + 1,
         MovedUp(nodes', nodes, [at |-> a, k |-> k, v |-> v], p),
         MovedUp(uses', uses, [k |-> k, v |-> v], q),
         \A i \in 1 .. Len(uses) : uses[i].k = k <=> i = q,
         \A i \in 1 .. Len(nodes) : i # p => nodes[i].at # a,
         p = q \/ (p = capacity /\ q > capacity),
         p <= capacity,
         table' = Entry(IF p = q \/ p > Len(nodes) THEN table
                        ELSE Erase(table, nodes[p].k), k, a)
  PROVE  LruInv'
<1>1. /\ capacity \in Nat \ {0} /\ Len(nodes) \in Nat /\ Len(uses) \in Nat
      /\ Len(nodes) = IF Len(uses) < capacity THEN Len(uses) ELSE capacity
  BY DEF LruInv
<1>2. /\ nodes'[1] = [at |-> a, k |-> k, v |-> v]
      /\ uses'[1] = [k |-> k, v |-> v]
      /\ Len(nodes') = IF p <= Len(nodes) THEN Len(nodes) ELSE Len(nodes) + 1
      /\ Len(uses') = IF q <= Len(uses) THEN Len(uses) ELSE Len(uses) + 1
  BY DEF MovedUp
<1>3. Len(nodes') = IF Len(uses') < capacity THEN Len(uses') ELSE capacity
  BY <1>1, <1>2
<1> DEFINE old(i, m) == IF i <= m THEN i - 1 ELSE i
<1>4. \A i \in 2 .. Len(nodes') :
        /\ nodes'[i] = nodes[old(i, p)]
        /\ old(i, p) \in 1 .. Len(nodes) /\ old(i, p) # p
  BY <1>1, <1>2 DEF MovedUp
<1>5. \A i \in 2 .. Len(uses') :
        /\ uses'[i] = uses[old(i, q)]
        /\ old(i, q) \in 1 .. Len(uses) /\ old(i, q) # q
  BY <1>1, <1>2 DEF MovedUp
<1>6. /\ \A i, j \in 1 .. Len(nodes) : nodes[i].at = nodes[j].at => i = j
      /\ \A i, j \in 1 .. Len(uses) : uses[i].k = uses[j].k => i = j
  BY DEF LruInv
<1>7. \A i, j \in Nat \ {0, 1} :
         /\ old(i, p) = old(j, p) => i = j
         /\ old(i, q) = old(j, q) => i = j
  OBVIOUS
<1>8. \A i \in 2 .. Len(nodes') : i \in 2 .. Len(uses') /\ old(i, p) = old(i, q)
  BY <1>1, <1>2
<1>9. \A i \in 1 .. Len(nodes) : i # p =>
         \E j \in 2 .. Len(nodes') : old(j, p) = i
  <2> SUFFICES ASSUME NEW i \in 1 .. Len(nodes), i # p
               PROVE  \E j \in 2 .. Len(nodes') : old(j, p) = i
    OBVIOUS
  <2>1. CASE i < p
    <3>1. i + 1 \in 2 .. Len(nodes') /\ old(i + 1, p) = i
      BY <2>1, <1>1, <1>2
    <3> QED BY <3>1
  <2>2. CASE i > p
    <3>1. i \in 2 .. Len(nodes') /\ old(i, p) = i
      BY <2>2, <1>1, <1>2
    <3> QED BY <3>1
  <2>3. i < p \/ i > p
    BY <1>1
  <2> HIDE DEF old
  <2> QED BY <2>1, <2>2, <2>3
<1>10. \A i \in 1 .. Len(nodes) :
         /\ i \in 1 .. Len(uses) /\ uses[i] = [k |-> nodes[i].k, v |-> nodes[i].v]
         /\ uses[i].k = nodes[i].k /\ uses[i].v = nodes[i].v
  <2> TAKE i \in 1 .. Len(nodes)
  <2>1. uses[i] = [k |-> nodes[i].k, v |-> nodes[i].v]
    BY DEF LruInv
  <2>2. i \in 1 .. Len(uses)
    BY <1>1
  <2> QED BY <2>1, <2>2
<1>11. \A i \in 2 .. Len(nodes') : old(i, q) # q
  BY <1>8, <1>5
<1> HIDE DEF old
<1>12. \A i \in 1 .. Len(nodes') :
        uses'[i] = [k |-> nodes'[i].k, v |-> nodes'[i].v]
  <2> TAKE i \in 1 .. Len(nodes')
  <2>1. CASE i = 1
    BY <2>1, <1>2
  <2>2. CASE i # 1
    <3>1. i \in 2 .. Len(nodes')
      BY <2>2, <1>1, <1>2
    <3>2. uses'[i] = uses[old(i, p)] /\ nodes'[i] = nodes[old(i, p)]
      BY <3>1, <1>4, <1>5, <1>8
    <3>3. old(i, p) \in 1 .. Len(nodes)
      BY <3>1, <1>4
    <3> QED BY <3>2, <3>3, <1>10
  <2> QED BY <2>1, <2>2
<1>13. \A i, j \in 1 .. Len(nodes') : nodes'[i].at = nodes'[j].at => i = j
  <2>1. \A i \in 2 .. Len(nodes') : nodes'[i].at # nodes'[1].at
    BY <1>2, <1>4
  <2>2. \A i, j \in 2 .. Len(nodes') :
          nodes'[i].at = nodes'[j].at => i = j
    <3> TAKE i, j \in 2 .. Len(nodes')
    <3> DEFINE a1 == old(i, p)
               a2 == old(j, p)
    <3>1. /\ a1 \in 1 .. Len(nodes) /\ a2 \in 1 .. Len(nodes)
          /\ nodes'[i] = nodes[a1] /\ nodes'[j] = nodes[a2]
      BY <1>4
    <3> HIDE DEF a1, a2
    <3>2. ASSUME nodes'[i].at = nodes'[j].at PROVE a1 = a2
      <4>1. nodes[a1].at = nodes[a2].at
        BY <3>1, <3>2
      <4> QED BY <3>1, <4>1, <1>6, Zenon
    <3>3. nodes'[i].at = nodes'[j].at => old(i, p) = old(j, p)
      BY <3>2 DEF a1, a2
    <3>4. i \in Nat \ {0, 1} /\ j \in Nat \ {0, 1}
      OBVIOUS
    <3> QED BY <3>3, <3>4, <1>7
  <2>3. \A i \in 1 .. Len(nodes') : i = 1 \/ i \in 2 .. Len(nodes')
    OBVIOUS
  <2> QED BY <2>1, <2>2, <2>3
<1>14. \A i, j \in 1 .. Len(uses') : uses'[i].k = uses'[j].k => i = j
  <2>1. \A i \in 2 .. Len(uses') : uses'[i].k # uses'[1].k
    BY <1>2, <1>5
  <2>2. \A i, j \in 2 .. Len(uses') :
          uses'[i].k = uses'[j].k => i = j
    <3> TAKE i, j \in 2 .. Len(uses')
    <3> DEFINE a1 == old(i, q)
               a2 == old(j, q)
    <3>1. /\ a1 \in 1 .. Len(uses) /\ a2 \in 1 .. Len(uses)
          /\ uses'[i] = uses[a1] /\ uses'[j] = uses[a2]
      BY <1>5
    <3> HIDE DEF a1, a2
    <3>2. ASSUME uses'[i].k = uses'[j].k PROVE a1 = a2
      <4>1. uses[a1].k = uses[a2].k
        BY <3>1, <3>2
      <4>2. \A b1, b2 \in 1 .. Len(uses) : uses[b1].k = uses[b2].k => b1 = b2
        BY <1>6
      <4> QED BY <3>1, <4>1, <4>2, SMT
    <3>3. uses'[i].k = uses'[j].k => old(i, q) = old(j, q)
      BY <3>2 DEF a1, a2
    <3>4. i \in Nat \ {0, 1} /\ j \in Nat \ {0, 1}
      OBVIOUS
    <3> QED BY <3>3, <3>4, <1>7
  <2>3. \A i \in 1 .. Len(uses') : i = 1 \/ i \in 2 .. Len(uses')
    OBVIOUS
  <2> QED BY <2>1, <2>2, <2>3
<1>15. /\ \A i \in 1 .. Len(nodes) : nodes[i].k = k <=> i = q
       /\ \A i, j \in 1 .. Len(nodes) : nodes[i].k = nodes[j].k => i = j
  BY <1>10, <1>6
<1>16. \A x : x \in {nodes'[i].k : i \in 1 .. Len(nodes')}
         <=> x = k \/ \E i \in 1 .. Len(nodes) : i # p /\ x = nodes[i].k
  <2>1. 1 \in 1 .. Len(nodes') /\ nodes'[1].k = k
    BY <1>1, <1>2
  <2>2. \A i \in 1 .. Len(nodes') : i = 1 \/ i \in 2 .. Len(nodes')
    OBVIOUS
  <2>3. \A i \in 1 .. Len(nodes') :
          \/ nodes'[i].k = k
          \/ \E j \in 1 .. Len(nodes) : j # p /\ nodes'[i].k = nodes[j].k
    <3> TAKE i \in 1 .. Len(nodes')
    <3>1. CASE i = 1
      BY <2>1, <3>1
    <3>2. CASE i \in 2 .. Len(nodes')
      BY <3>2, <1>4
    <3> QED BY <2>2, <3>1, <3>2
  <2>4. \A i \in 1 .. Len(nodes) : i # p =>
          \E j \in 1 .. Len(nodes') : nodes'[j].k = nodes[i].k
    <3> SUFFICES ASSUME NEW i \in 1 .. Len(nodes), i # p
                 PROVE  \E j \in 1 .. Len(nodes') : nodes'[j].k = nodes[i].k
      OBVIOUS
    <3>1. PICK j \in 2 .. Len(nodes') : old(j, p) = i
      BY <1>9
    <3>2. j \in 1 .. Len(nodes') /\ nodes'[j] = nodes[i]
      BY <3>1, <1>4
    <3> QED BY <3>2
  <2>5. ASSUME NEW x \in {nodes'[i].k : i \in 1 .. Len(nodes')}
        PROVE  x = k \/ \E i \in 1 .. Len(nodes) : i # p /\ x = nodes[i].k
    BY <2>3
  <2>6. k \in {nodes'[i].k : i \in 1 .. Len(nodes')}
    BY <2>1
  <2>7. ASSUME NEW i \in 1 .. Len(nodes), i # p
        PROVE  nodes[i].k \in {nodes'[j].k : j \in 1 .. Len(nodes')}
    BY <2>4, <2>7
  <2> QED BY <2>5, <2>6, <2>7
<1> DEFINE T == IF p = q \/ p > Len(nodes) THEN table ELSE Erase(table, nodes[p].k)
<1>17. /\ \A x : x \in DOMAIN T \cup {k}
            <=> x = k \/ \E i \in 1 .. Len(nodes) : i # p /\ x = nodes[i].k
       /\ \A i \in 1 .. Len(nodes) : i # p => T[nodes[i].k] = nodes[i].at
  <2>1. /\ DOMAIN table = {nodes[i].k : i \in 1 .. Len(nodes)}
        /\ \A i \in 1 .. Len(nodes) : table[nodes[i].k] = nodes[i].at
    BY DEF LruInv
  <2>2. CASE p = q \/ p > Len(nodes)
    <3>1. \A i \in 1 .. Len(nodes) : i = p => nodes[i].k = k
      BY <2>2, <1>1, <1>15
    <3> QED BY <2>1, <2>2, <3>1
  <2>3. CASE ~ (p = q \/ p > Len(nodes))
    <3>1. /\ DOMAIN T = DOMAIN table \ {nodes[p].k} /\ p \in 1 .. Len(nodes)
          /\ \A x \in DOMAIN table : x # nodes[p].k => T[x] = table[x]
      BY <2>3, <1>1 DEF Erase
    <3>2. \A i \in 1 .. Len(nodes) : i # p => nodes[i].k # nodes[p].k
      BY <3>1, <1>15
    <3>3. \A x : x \in DOMAIN T
             <=> \E i \in 1 .. Len(nodes) : i # p /\ x = nodes[i].k
      BY <2>1, <3>1, <3>2, Zenon
    <3>4. /\ \A x : x \in DOMAIN T \cup {k}
                <=> x = k \/ \E i \in 1 .. Len(nodes) : i # p /\ x = nodes[i].k
      BY <3>3
    <3>5. \A i \in 1 .. Len(nodes) : i # p => T[nodes[i].k] = nodes[i].at
      BY <2>1, <3>1, <3>2
    <3> HIDE DEF T
    <3> QED BY <3>4, <3>5
  <2> QED BY <2>2, <2>3
<1> HIDE DEF T
<1>18. table' = Entry(T, k, a)
  BY DEF T
<1>19. DOMAIN table' = {nodes'[i].k : i \in 1 .. Len(nodes')}
  <2>1. DOMAIN table' = DOMAIN T \cup {k}
    BY <1>18 DEF Entry
  <2> QED BY <2>1, <1>16, <1>17
<1>20. ASSUME NEW i \in 1 .. Len(nodes')
       PROVE  table'[nodes'[i].k] = nodes'[i].at
  <2>1. CASE i = 1
    BY <2>1, <1>2, <1>18 DEF Entry
  <2>2. CASE i \in 2 .. Len(nodes')
    <3>1. nodes'[i].k \in DOMAIN T \cup {k}
      BY <2>2, <1>4, <1>17
    <3>2. nodes'[i].k # k
      BY <2>2, <1>4, <1>15, <1>8, <1>11
    <3>3. table'[nodes'[i].k] = T[nodes'[i].k]
      BY <3>1, <3>2, <1>18 DEF Entry
    <3> QED BY <2>2, <3>3, <1>4, <1>17
  <2> QED BY <2>1, <2>2
<1> QED BY <1>3, <1>12, <1>13, <1>14, <1>19, <1>20 DEF LruInv

(* A put or a get leaves a cache in step in which something fits.          *)
LEMMA LruStep ==
  ASSUME LruInv, [LruNext]_lruVars
  PROVE  LruInv'
<1>1. /\ capacity \in Nat \ {0} /\ Len(nodes) \in Nat /\ Len(uses) \in Nat
      /\ Len(nodes) = IF Len(uses) < capacity THEN Len(uses) ELSE capacity
  BY DEF LruInv
<1>2. ASSUME NEW k \in Key, NEW v \in Value, InTable(k),
             PushFront(Without(nodes, table[k]), k, v),
             table' = Entry(table, k, Begin), UNCHANGED <<capacity, size>>,
             \/ WasPut(k, v)
             \/ WasFound(k) /\ v = NodeAt(table[k]).v
      PROVE  LruInv'
  <2>0. /\ DOMAIN table = {nodes[i].k : i \in 1 .. Len(nodes)}
        /\ \A i \in 1 .. Len(nodes) : table[nodes[i].k] = nodes[i].at
    BY DEF LruInv
  <2>1. PICK p \in 1 .. Len(nodes) : nodes[p].k = k /\ table[k] = nodes[p].at
    <3>1. k \in DOMAIN table
      BY <1>2 DEF InTable
    <3> QED BY <2>0, <3>1
  <2>2. p \in 1 .. Len(uses) /\ uses[p] = [k |-> nodes[p].k, v |-> nodes[p].v]
    BY <1>1 DEF LruInv
  <2>3. NodeAt(table[k]) = nodes[p]
    BY <2>1 DEF NodeAt, LruInv
  <2>4. PICK q \in 1 .. Len(uses) + 1 :
          /\ MovedUp(uses', uses, [k |-> k, v |-> v], q)
          /\ \A i \in 1 .. Len(uses) : uses[i].k = k <=> i = q
    <3>1. WasFound(k) /\ v = NodeAt(table[k]).v => uses[p] = [k |-> k, v |-> v]
      BY <2>1, <2>2, <2>3
    <3> QED BY <1>2, <2>2, <3>1, UsedNow
  <2>5. p = q
    BY <2>1, <2>2, <2>4
  <2>6. Without(nodes, table[k]) = RemoveAt(nodes, p)
    BY <2>1, NodeRemoved
  <2>7. PICK a \in Address :
          /\ \A i \in 1 .. Len(RemoveAt(nodes, p)) : RemoveAt(nodes, p)[i].at # a
          /\ nodes' = <<[at |-> a, k |-> k, v |-> v]>> \o RemoveAt(nodes, p)
    BY <1>2, <2>6 DEF PushFront
  <2>8. /\ nodes' \in Seq(Node)
        /\ MovedUp(nodes', nodes, [at |-> a, k |-> k, v |-> v], p)
    <3>1. [at |-> a, k |-> k, v |-> v] \in Node
      BY DEF Node
    <3> QED BY <2>7, <3>1, FrontAndRest DEF LruInv
  <2>9. uses' \in Seq(Use)
    <3>1. WasFound(k) /\ v = NodeAt(table[k]).v => uses[p] = [k |-> k, v |-> v]
      BY <2>1, <2>2, <2>3
    <3> QED BY <1>2, <2>2, <3>1, UsedNow
  <2>10. \A i \in 1 .. Len(nodes) : i # p => nodes[i].at # a
    <3>1. \A i \in 1 .. Len(nodes) : i # p => \E j \in 1 .. Len(RemoveAt(nodes, p)) :
              RemoveAt(nodes, p)[j] = nodes[i]
      BY RestFound DEF LruInv
    <3> QED BY <2>7, <3>1
  <2>11. Begin = a
    BY <2>7 DEF Begin
  <2>12. size' = Len(nodes') /\ p <= capacity
    BY <1>1, <1>2, <2>8 DEF LruInv, MovedUp
  <2>13. table' = Entry(IF p = q \/ p > Len(nodes) THEN table
                       ELSE Erase(table, nodes[p].k), k, a)
    BY <1>2, <2>5, <2>11
  <2>14. p \in 1 .. Len(nodes) + 1
    BY <1>1
  <2>15. capacity' = capacity
    BY <1>2
  <2> QED BY <2>4, <2>5, <2>8, <2>9, <2>10, <2>12, <2>13, <2>14, <2>15, InStepAgain
<1>3. ASSUME NEW k \in Key, NEW v \in Value, PutAgain(k, v) PROVE LruInv'
  BY <1>2, <1>3 DEF PutAgain
<1>4. ASSUME NEW k \in Key, Get(k) PROVE LruInv'
  <2>1. NodeAt(table[k]).v \in Value
    <3>1. PICK p \in 1 .. Len(nodes) : nodes[p].k = k /\ table[k] = nodes[p].at
      BY <1>4 DEF Get, InTable, LruInv
    <3>2. NodeAt(table[k]) = nodes[p]
      BY <3>1 DEF NodeAt, LruInv
    <3>3. nodes[p] \in Node
      BY DEF LruInv
    <3> QED BY <3>2, <3>3 DEF Node
  <2> QED BY <1>2, <1>4, <2>1 DEF Get
<1>5. ASSUME NEW k \in Key, NEW v \in Value, PutNew(k, v) PROVE LruInv'
  <2>1. PICK a \in Address :
          /\ \A i \in 1 .. Len(nodes) : nodes[i].at # a
          /\ nodes' = <<[at |-> a, k |-> k, v |-> v]>> \o nodes
    BY <1>5 DEF PutNew, PushFront
  <2>2. /\ nodes' \in Seq(Node)
        /\ MovedUp(nodes', nodes, [at |-> a, k |-> k, v |-> v], Len(nodes) + 1)
    BY <2>1 DEF LruInv, Node, MovedUp
  <2>3. PICK q \in 1 .. Len(uses) + 1 :
          /\ uses' \in Seq(Use)
          /\ MovedUp(uses', uses, [k |-> k, v |-> v], q)
          /\ \A i \in 1 .. Len(uses) : uses[i].k = k <=> i = q
    BY <1>5, UsedNow DEF PutNew
  <2>4. Len(nodes) = Len(uses) /\ Len(nodes) < capacity
    BY <1>5, <1>1 DEF PutNew, LruInv
  <2>5. \A i \in 1 .. Len(uses) : uses[i].k # k
    <3>1. \A i \in 1 .. Len(nodes) : nodes[i].k # k
      BY <1>5 DEF PutNew, InTable, LruInv
    <3> QED BY <2>4, <3>1, SameKeys
  <2>6. q = Len(nodes) + 1
    BY <2>3, <2>4, <2>5, <1>1
  <2>7. Begin = a
    BY <2>1 DEF Begin
  <2>8. size' = Len(nodes')
    BY <1>5, <1>1, <2>2 DEF PutNew, LruInv, MovedUp
  <2> DEFINE p == Len(nodes) + 1
  <2>9. table' = Entry(IF p = q \/ p > Len(nodes) THEN table
                       ELSE Erase(table, nodes[p].k), k, a)
    BY <1>5, <2>6, <2>7 DEF PutNew
  <2>10. p \in 1 .. Len(nodes) + 1 /\ p = q /\ p <= capacity
    BY <1>1, <2>4, <2>6
  <2>11. MovedUp(nodes', nodes, [at |-> a, k |-> k, v |-> v], p)
    BY <2>2
  <2>12. \A i \in 1 .. Len(nodes) : i # p => nodes[i].at # a
    BY <2>1
  <2>13. capacity' = capacity
    BY <1>5 DEF PutNew
  <2> HIDE DEF p
  <2> QED BY <2>2, <2>3, <2>8, <2>9, <2>10, <2>11, <2>12, <2>13, InStepAgain
<1>6. ASSUME NEW k \in Key, NEW v \in Value, PutEvicts(k, v) PROVE LruInv'
  <2> DEFINE n == Len(nodes)
  <2>1. n = capacity /\ n \in 1 .. Len(uses)
    BY <1>6, <1>1 DEF PutEvicts, LruInv
  <2>2. SubSeq(nodes, 1, n - 1) = RemoveAt(nodes, n)
    <3>1. SubSeq(nodes, n + 1, n) = <<>> /\ SubSeq(nodes, 1, n - 1) \in Seq(Node)
      BY <2>1, <1>1 DEF LruInv
    <3>2. SubSeq(nodes, 1, n - 1) \o <<>> = SubSeq(nodes, 1, n - 1)
      BY <3>1
    <3> QED BY <3>1, <3>2 DEF RemoveAt
  <2>3. PICK a \in Address :
          /\ \A i \in 1 .. Len(RemoveAt(nodes, n)) : RemoveAt(nodes, n)[i].at # a
          /\ nodes' = <<[at |-> a, k |-> k, v |-> v]>> \o RemoveAt(nodes, n)
    BY <1>6, <2>2 DEF PutEvicts, PushFront
  <2>4. /\ nodes' \in Seq(Node)
        /\ MovedUp(nodes', nodes, [at |-> a, k |-> k, v |-> v], n)
    <3>1. nodes \in Seq(Node) /\ n \in 1 .. Len(nodes)
      BY <2>1, <1>1 DEF LruInv
    <3>2. [at |-> a, k |-> k, v |-> v] \in Node
      BY DEF Node
    <3> QED BY <2>3, <3>1, <3>2, FrontAndRest
  <2>5. PICK q \in 1 .. Len(uses) + 1 :
          /\ uses' \in Seq(Use)
          /\ MovedUp(uses', uses, [k |-> k, v |-> v], q)
          /\ \A i \in 1 .. Len(uses) : uses[i].k = k <=> i = q
    BY <1>6, UsedNow DEF PutEvicts
  <2>6. \A i \in 1 .. n : uses[i].k # k
    <3>1. \A i \in 1 .. n : nodes[i].k # k
      BY <1>6 DEF PutEvicts, InTable, LruInv
    <3> QED BY <3>1, SameKeys
  <2>7. q > capacity
    BY <2>1, <2>5, <2>6, <1>1
  <2>8. \A i \in 1 .. n : i # n => nodes[i].at # a
    <3>1. nodes \in Seq(Node) /\ n \in 1 .. Len(nodes)
      BY <2>1, <1>1 DEF LruInv
    <3>2. \A i \in 1 .. n : i # n => \E j \in 1 .. Len(RemoveAt(nodes, n)) :
              RemoveAt(nodes, n)[j] = nodes[i]
      BY <3>1, RestFound
    <3> QED BY <2>3, <3>2
  <2>9. Begin = a
    BY <2>3 DEF Begin
  <2>10. size' = Len(nodes')
    BY <1>6, <1>1, <2>1, <2>4 DEF PutEvicts, LruInv, MovedUp
  <2>11. table' = Entry(IF n = q \/ n > Len(nodes) THEN table
                       ELSE Erase(table, nodes[n].k), k, a)
    BY <1>6, <2>1, <2>7, <2>9, <1>1 DEF PutEvicts
  <2>12. n \in 1 .. Len(nodes) + 1 /\ n <= capacity
    BY <1>1, <2>1
  <2>13. \A i \in 1 .. Len(nodes) : i # n => nodes[i].at # a
    BY <2>8
  <2>14. n = q \/ (n = capacity /\ q > capacity)
    BY <2>1, <2>7
  <2>15. capacity' = capacity
    BY <1>6 DEF PutEvicts
  <2> HIDE DEF n
  <2> QED BY <2>4, <2>5, <2>10, <2>11, <2>12, <2>13, <2>14, <2>15, InStepAgain
<1>7. ASSUME NEW k \in Key, PutIntoNone(k) PROVE FALSE
  BY <1>7, <1>1 DEF PutIntoNone, LruInv
<1>8. CASE UNCHANGED lruVars
  <2>1. capacity' = capacity /\ nodes' = nodes /\ table' = table /\ size' = size /\ uses' = uses
    BY <1>8 DEF lruVars
  <2>2. /\ (capacity \in Nat \ {0})' /\ (nodes \in Seq(Node))' /\ (uses \in Seq(Use))'
        /\ (size = Len(nodes))'
        /\ (Len(nodes) = IF Len(uses) < capacity THEN Len(uses) ELSE capacity)'
    BY <2>1 DEF LruInv, Node, Use
  <2>3. /\ (\A i \in 1 .. Len(nodes) : uses[i] = [k |-> nodes[i].k, v |-> nodes[i].v])'
        /\ (\A i, j \in 1 .. Len(nodes) : nodes[i].at = nodes[j].at => i = j)'
        /\ (\A i, j \in 1 .. Len(uses) : uses[i].k = uses[j].k => i = j)'
    BY <2>1 DEF LruInv
  <2>4. /\ (DOMAIN table = {nodes[i].k : i \in 1 .. Len(nodes)})'
        /\ (\A i \in 1 .. Len(nodes) : table[nodes[i].k] = nodes[i].at)'
    BY <2>1 DEF LruInv
  <2> QED BY <2>2, <2>3, <2>4 DEF LruInv
<1> QED BY <1>3, <1>4, <1>5, <1>6, <1>7, <1>8 DEF LruNext

LEMMA InStepIsRecent == LruInv /\ undefined = FALSE => MostRecentKept
<1> SUFFICES ASSUME LruInv, undefined = FALSE PROVE MostRecentKept
  OBVIOUS
<1>1. /\ capacity \in Nat \ {0} /\ Len(nodes) \in Nat /\ Len(uses) \in Nat
      /\ Len(nodes) = IF Len(uses) < capacity THEN Len(uses) ELSE capacity
  BY DEF LruInv
<1>2. Len(nodes) = Cardinality(DOMAIN table)
  <2> DEFINE f == [i \in 1 .. Len(nodes) |-> nodes[i].k]
  <2>1. \A i \in 1 .. Len(nodes) : i \in 1 .. Len(uses) /\ uses[i].k = nodes[i].k
    BY SameKeys
  <2>2. f \in Bijection(1 .. Len(nodes), DOMAIN table)
    <3>1. f \in Surjection(1 .. Len(nodes), DOMAIN table)
      BY DEF Surjection, LruInv
    <3>2. \A i, j \in 1 .. Len(nodes) : f[i] = f[j] => i = j
      BY <2>1 DEF LruInv
    <3> QED BY <3>1, <3>2 DEF Bijection, Injection, Surjection, IsInjective
  <2>3. IsFiniteSet(1 .. Len(nodes)) /\ Cardinality(1 .. Len(nodes)) = Len(nodes)
    <3> DEFINE N == Len(nodes)
    <3> HIDE DEF N
    <3>1. N \in Nat
      BY <1>1 DEF N
    <3>2. /\ IsFiniteSet(1 .. N)
          /\ Cardinality(1 .. N) = IF 1 > N THEN 0 ELSE N - 1 + 1
      BY <3>1, FS_Interval
    <3>3. Cardinality(1 .. N) = N
      BY <3>1, <3>2
    <3> QED BY <3>2, <3>3 DEF N
  <2>4. Cardinality(1 .. Len(nodes)) = Cardinality(DOMAIN table)
    BY <2>2, <2>3, FS_Bijection, Zenon DEF ExistsBijection
  <2> QED BY <2>3, <2>4
<1>3. TableFindsNodes
  <2>1. \A k \in DOMAIN table :
          \E i \in 1 .. Len(nodes) : nodes[i].at = table[k] /\ nodes[i].k = k
    BY DEF LruInv
  <2> QED BY <1>2, <2>1, Zenon DEF TableFindsNodes, LruInv
<1>4. SubSeq(uses, 1, Len(nodes)) = [i \in 1 .. Len(nodes) |-> uses[i]]
  BY <1>1 DEF LruInv
<1>5. [i \in 1 .. Len(nodes) |-> [k |-> nodes[i].k, v |-> nodes[i].v]]
        = [i \in 1 .. Len(nodes) |-> uses[i]]
  BY DEF LruInv
<1> QED BY <1>1, <1>3, <1>4, <1>5 DEF MostRecentKept, Fitting

(* In a cache in which nothing fits nothing ever is.                       *)
NothingIn == DOMAIN table = {} /\ nodes = <<>> /\ uses = <<>> /\ size = 0

CacheInv ==
  /\ capacity \in Int
  /\ capacity > 0 => LruInv /\ undefined = FALSE
  /\ capacity <= 0 => NothingIn

(* A cache of any capacity above zero always holds the most recently used  *)
(* keys, each with the value last put, and its table finds them; no put    *)
(* into it evicts from an empty list, which the first put into a cache of  *)
(* any other capacity does.                                                *)
THEOREM CacheKeepsRecent == LruSpec => []MostRecentKept
<1>1. LruInit => CacheInv
  <2> SUFFICES ASSUME LruInit PROVE CacheInv
    OBVIOUS
  <2>1. capacity \in Int /\ NothingIn /\ undefined = FALSE
    BY LruConstants DEF LruInit, NothingIn
  <2>2. capacity > 0 => LruInv
    BY <2>1 DEF LruInit, LruInv
  <2> QED BY <2>1, <2>2 DEF CacheInv
<1>2. CacheInv /\ [LruNext]_lruVars => CacheInv'
  <2> SUFFICES ASSUME CacheInv, [LruNext]_lruVars PROVE CacheInv'
    OBVIOUS
  <2>1. capacity' = capacity /\ capacity \in Int
    BY DEF CacheInv, LruNext, lruVars, Get, PutIntoNone, PutAgain, PutNew, PutEvicts
  <2>2. CASE capacity > 0
    <3>1. LruInv /\ undefined = FALSE /\ LruInv'
      BY <2>2, LruStep DEF CacheInv
    <3>2. ASSUME NEW k \in Key, PutIntoNone(k) PROVE FALSE
      BY <2>1, <2>2, <3>1, <3>2 DEF PutIntoNone, LruInv
    <3>3. undefined' = FALSE
      BY <3>1, <3>2 DEF LruNext, lruVars, Get, PutAgain, PutNew, PutEvicts
    <3> QED BY <2>1, <2>2, <3>1, <3>3 DEF CacheInv
  <2>3. CASE capacity <= 0
    <3>1. NothingIn /\ ~(size < capacity)
      BY <2>1, <2>3 DEF CacheInv, NothingIn
    <3>2. NothingIn'
      BY <3>1 DEF LruNext, lruVars, Get, PutIntoNone, PutAgain, PutNew, PutEvicts,
                  NothingIn, InTable
    <3> QED BY <2>1, <2>3, <3>2 DEF CacheInv
  <2> QED BY <2>1, <2>2, <2>3
<1>3. CacheInv => MostRecentKept
  <2> SUFFICES ASSUME CacheInv PROVE MostRecentKept
    OBVIOUS
  <2>1. CASE capacity > 0
    BY <2>1, InStepIsRecent DEF CacheInv
  <2>2. CASE capacity <= 0
    <3>1. NothingIn /\ capacity \in Int
      BY <2>2 DEF CacheInv
    <3>2. Cardinality(DOMAIN table) = 0 /\ Len(nodes) = 0 /\ Len(uses) = 0
      BY <3>1, FS_EmptySet DEF NothingIn
    <3>3. TableFindsNodes
      BY <3>1, <3>2 DEF TableFindsNodes, NothingIn
    <3>4. Fitting = capacity
      BY <2>2, <3>1, <3>2 DEF Fitting
    <3>5. SubSeq(uses, 1, Fitting) = <<>>
      BY <2>2, <3>1, <3>4, SubSeqEmpty DEF NothingIn
    <3>6. [i \in 1 .. Len(nodes) |-> [k |-> nodes[i].k, v |-> nodes[i].v]] = <<>>
      BY <3>2
    <3> QED BY <2>2, <3>3, <3>5, <3>6 DEF MostRecentKept
  <2>3. capacity \in Int
    BY DEF CacheInv
  <2> QED BY <2>1, <2>2, <2>3
<1> QED BY <1>1, <1>2, <1>3, PTL DEF LruSpec
-----------------------------------------------------------------------------
(* The vector.  The members x and the cells m of its array are those of a  *)
(* vector that holds the elements of e.                                    *)
Cells == Elements \cup {Raw}
Members(x) ==
  /\ x = Vec(x.arr, x.d_capacity, x.d_size)
  /\ x.arr \in Arrays \cup {NoArray}
  /\ x.d_capacity \in Nat /\ x.d_capacity >= 2 /\ x.d_size \in Nat

Holds(m, x, e) ==
  /\ Members(x)
  /\ e \in Seq(Elements) /\ Len(e) = x.d_size
  /\ x.arr # NoArray =>
       /\ m \in Seq(Cells) /\ Len(m) = x.d_capacity /\ x.d_size <= x.d_capacity
       /\ \A i \in 1 .. x.d_capacity :
            m[i] = IF i <= x.d_size THEN e[i] ELSE Raw
  /\ x.arr = NoArray => x.d_size = 0

VectorInv ==
  /\ Exist \subseteq Vectors /\ DOMAIN expect = Exist /\ broken = FALSE
  /\ DOMAIN memory = {vec[v].arr : v \in Exist} \ {NoArray}
  /\ \A v, w \in Exist : vec[v].arr = vec[w].arr => v = w \/ vec[v].arr = NoArray
  /\ \A v \in Exist : Holds(memory[vec[v].arr], vec[v], expect[v])

LEMMA FilledHolds ==
  ASSUME NEW e \in Seq(Elements), NEW n \in Nat, n >= 2, Len(e) <= n,
         NEW a \in Arrays
  PROVE  Holds(Filled(e, n), Vec(a, n, Len(e)), e)
<1>1. Filled(e, n) \in Seq(Cells) /\ Len(Filled(e, n)) = n
  BY DEF Filled, Cells
<1>2. \A i \in 1 .. n : Filled(e, n)[i] = IF i <= Len(e) THEN e[i] ELSE Raw
  BY DEF Filled
<1> QED BY <1>1, <1>2, VectorConstants DEF Holds, Members, Vec

LEMMA HeldIsExpected ==
  ASSUME VectorInv, NEW v \in Exist
  PROVE  Held(v) = expect[v]
<1>1. Holds(memory[vec[v].arr], vec[v], expect[v])
  BY DEF VectorInv
<1>2. expect[v] \in Seq(Elements) /\ Len(expect[v]) = vec[v].d_size
  BY <1>1 DEF Holds
<1>3. \A i \in 1 .. vec[v].d_size : memory[vec[v].arr][i] = expect[v][i]
  BY <1>1 DEF Holds, Members
<1>4. Held(v) = [i \in 1 .. Len(expect[v]) |-> expect[v][i]]
  BY <1>2, <1>3 DEF Held
<1> QED BY <1>2, <1>4

(* There is an array that no vector has.                                   *)
LEMMA FreshExists ==
  ASSUME VectorInv
  PROVE  Fresh \in Arrays \ DOMAIN memory
<1>1. \A v \in Exist : vec[v].arr \in Arrays \cup {NoArray}
  BY DEF VectorInv, Holds, Members
<1>2. IsFiniteSet(Exist) /\ Cardinality(Exist) <= Cardinality(Vectors)
  BY VectorConstants, FS_Subset DEF VectorInv
<1> DEFINE arrs == {vec[v].arr : v \in Exist}
<1>3. IsFiniteSet(arrs) /\ Cardinality(arrs) <= Cardinality(Exist)
  <2> DEFINE f == [v \in Exist |-> vec[v].arr]
  <2>1. f \in Surjection(Exist, arrs)
    BY DEF Surjection
  <2> QED BY <2>1, <1>2, FS_Surjection
<1>4. DOMAIN memory \subseteq arrs
  BY DEF VectorInv
<1>5. IsFiniteSet(DOMAIN memory) /\ Cardinality(DOMAIN memory) <= Cardinality(arrs)
  BY <1>3, <1>4, FS_Subset
<1>6. DOMAIN memory # Arrays
  <2>1. /\ Cardinality(Arrays) \in Nat /\ Cardinality(Vectors) \in Nat
        /\ Cardinality(Exist) \in Nat /\ Cardinality(arrs) \in Nat
        /\ Cardinality(DOMAIN memory) \in Nat
    BY VectorConstants, <1>2, <1>3, <1>5, FS_CardinalityType
  <2> QED BY <2>1, VectorConstants, <1>2, <1>3, <1>5
<1>7. DOMAIN memory \subseteq Arrays
  BY <1>1 DEF VectorInv
<1> QED BY <1>6, <1>7 DEF Fresh

(* One vector, new or old, gets new members and a new content.             *)
LEMMA OneReplaced ==
  ASSUME VectorInv, NEW v \in Vectors,
         Exist' = Exist \cup {v}, DOMAIN expect' = DOMAIN expect \cup {v},
         broken' = FALSE,
         \A w \in Exist \ {v} :
           /\ vec'[w] = vec[w] /\ expect'[w] = expect[w]
           /\ vec[w].arr # NoArray =>
                /\ vec[w].arr # vec'[v].arr
                /\ memory'[vec[w].arr] = memory[vec[w].arr],
         \A a : a \in DOMAIN memory' <=>
                     (a = vec'[v].arr /\ a # NoArray)
                  \/ (a \in DOMAIN memory /\ ~ (v \in Exist /\ a = vec[v].arr)),
         Holds(memory'[vec'[v].arr], vec'[v], expect'[v])
  PROVE  VectorInv'
<1> DEFINE x == vec'[v]
<1>1. (Exist \subseteq Vectors /\ DOMAIN expect = Exist /\ broken = FALSE)'
  BY DEF VectorInv
<1>2. (\A w, u \in Exist : vec[w].arr = vec[u].arr => w = u \/ vec[w].arr = NoArray)'
  BY DEF VectorInv
<1>3. ASSUME NEW w \in Exist'
      PROVE  Holds(memory[vec[w].arr], vec[w], expect[w])'
  <2>1. CASE w = v
    BY <2>1
  <2>2. CASE w # v
    <3>1. w \in Exist \ {v}
      BY <2>2
    <3>2. Holds(memory[vec[w].arr], vec[w], expect[w])
      BY <3>1 DEF VectorInv
    <3> QED BY <3>1, <3>2, SMTT(20) DEF Holds
  <2> QED BY <2>1, <2>2
<1>4. DOMAIN memory' = {vec'[w].arr : w \in Exist'} \ {NoArray}
  <2>1. ASSUME NEW a \in DOMAIN memory'
        PROVE  a # NoArray /\ \E w \in Exist' : a = vec'[w].arr
    <3>1. CASE a = x.arr /\ a # NoArray
      BY <3>1
    <3>2. CASE a \in DOMAIN memory /\ ~ (v \in Exist /\ a = vec[v].arr)
      <4>1. PICK w \in Exist : a = vec[w].arr
        BY <3>2 DEF VectorInv
      <4>2. w \in Exist \ {v} /\ a # NoArray
        BY <3>2, <4>1 DEF VectorInv
      <4> QED BY <4>1, <4>2
    <3> QED BY <3>1, <3>2
  <2>2. ASSUME NEW w \in Exist', vec'[w].arr # NoArray
        PROVE  vec'[w].arr \in DOMAIN memory'
    <3>1. CASE w = v
      BY <2>2, <3>1
    <3>2. CASE w # v
      <4>1. w \in Exist \ {v} /\ vec'[w].arr = vec[w].arr
        BY <3>2
      <4>2. vec[w].arr \in DOMAIN memory /\ ~ (v \in Exist /\ vec[w].arr = vec[v].arr)
        BY <2>2, <4>1 DEF VectorInv
      <4> QED BY <4>1, <4>2
    <3> QED BY <3>1, <3>2
  <2>3. DOMAIN memory' \subseteq {vec'[w].arr : w \in Exist'} \ {NoArray}
    BY <2>1
  <2>4. {vec'[w].arr : w \in Exist'} \ {NoArray} \subseteq DOMAIN memory'
    BY <2>2
  <2> QED BY <2>3, <2>4
<1> QED BY <1>1, <1>2, <1>3, <1>4 DEF VectorInv

(* A vector that reserves keeps its elements, in the array it had or in a  *)
(* fresh one.                                                              *)
LEMMA ReservedHolds ==
  ASSUME VectorInv, NEW v \in Exist, NEW n \in Nat,
         NEW x, NEW m, x = Reserved(v, n).members, m = Reserved(v, n).memory
  PROVE  /\ x.d_size = vec[v].d_size
         /\ x.d_capacity = IF n <= vec[v].d_capacity THEN vec[v].d_capacity ELSE n
         /\ (n > vec[v].d_capacity \/ vec[v].arr # NoArray) => x.arr # NoArray
         /\ Holds(m[x.arr], x, expect[v])
         /\ \A w \in Exist \ {v} : vec[w].arr # x.arr \/ x.arr = NoArray
         /\ \A a : a \in DOMAIN m <=> (a = x.arr /\ a # NoArray)
                 \/ (a \in DOMAIN memory /\ a # vec[v].arr)
         /\ \A w \in Exist \ {v} :
              vec[w].arr # NoArray => m[vec[w].arr] = memory[vec[w].arr]
<1>1. Holds(memory[vec[v].arr], vec[v], expect[v])
  BY DEF VectorInv
<1>2. CASE n <= vec[v].d_capacity
  <2>1. x = vec[v] /\ m = memory
    BY <1>2 DEF Reserved
  <2>2. NoArray \notin DOMAIN memory
        /\ (vec[v].arr # NoArray => vec[v].arr \in DOMAIN memory)
    BY DEF VectorInv
  <2>3. ~ (n > vec[v].d_capacity)
    BY <1>2, <1>1 DEF Holds, Members
  <2> QED BY <1>1, <1>2, <2>1, <2>2, <2>3 DEF VectorInv
<1>3. CASE ~ (n <= vec[v].d_capacity)
  <2> DEFINE c == Filled(Held(v), n)
             M == Added(memory, Fresh, c)
  <2>1. x = Vec(Fresh, n, vec[v].d_size) /\ m = Except(M, vec[v].arr)
    BY <1>3 DEF Reserved
  <2>2. Fresh \in Arrays \ DOMAIN memory /\ Fresh # NoArray
    BY FreshExists, VectorConstants
  <2>3. Held(v) = expect[v] /\ Len(expect[v]) = vec[v].d_size
        /\ expect[v] \in Seq(Elements)
    BY HeldIsExpected, <1>1 DEF Holds
  <2>4. n >= 2 /\ vec[v].d_size <= n
    BY <1>1, <1>3 DEF Holds, Members
  <2>5. Holds(c, x, expect[v])
    BY <2>1, <2>2, <2>3, <2>4, FilledHolds
  <2>6. /\ x.arr = Fresh /\ x.d_capacity = n /\ x.d_size = vec[v].d_size
    BY <2>1 DEF Vec
  <2>7. Fresh # vec[v].arr
    BY <2>2 DEF VectorInv
  <2> HIDE DEF c
  <2>8. m[Fresh] = c
    BY <2>1, <2>7 DEF Except, Added
  <2>9. \A w \in Exist \ {v} : vec[w].arr # Fresh
    BY <2>2 DEF VectorInv
  <2>10. \A w \in Exist \ {v} :
           vec[w].arr # NoArray => m[vec[w].arr] = memory[vec[w].arr]
    <3>1. \A w \in Exist \ {v} : vec[w].arr # NoArray =>
            vec[w].arr \in DOMAIN memory /\ vec[w].arr # vec[v].arr
      BY DEF VectorInv
    <3> QED BY <2>1, <2>9, <3>1 DEF Except, Added
  <2>11. \A a : a \in DOMAIN m <=>
                 a = Fresh \/ (a \in DOMAIN memory /\ a # vec[v].arr)
    BY <2>1, <2>7 DEF Except, Added
  <2> QED BY <1>3, <2>2, <2>5, <2>6, <2>8, <2>9, <2>10, <2>11
<1> QED BY <1>2, <1>3

LEMMA SizeReplaced ==
  ASSUME NEW x, NEW s, x = Vec(x.arr, x.d_capacity, x.d_size)
  PROVE  [x EXCEPT !.d_size = s] = Vec(x.arr, x.d_capacity, s)
<1>1. ASSUME NEW a, NEW c, NEW d
      PROVE  [Vec(a, c, d) EXCEPT !.d_size = s] = Vec(a, c, s)
  BY DEF Vec
<1> QED BY <1>1

LEMMA ExtendHolds ==
  ASSUME VectorInv, NEW v \in Exist, NEW n \in Nat, NEW elements \in Seq(Elements),
         n > vec[v].d_capacity \/ vec[v].arr # NoArray,
         vec[v].d_size + Len(elements)
           <= IF n <= vec[v].d_capacity THEN vec[v].d_capacity ELSE n,
         Extend(v, n, elements)
  PROVE  VectorInv'
<1> DEFINE x == Reserved(v, n).members
           m == Reserved(v, n).memory
           e == expect[v] \o elements
           y == [x EXCEPT !.d_size = @ + Len(elements)]
           fits == x.arr \in DOMAIN m /\ x.d_size + Len(elements) <= Len(m[x.arr])
           c == Filled(SubSeq(m[x.arr], 1, x.d_size) \o elements, Len(m[x.arr]))
<1>1. x = Reserved(v, n).members /\ m = Reserved(v, n).memory
  OBVIOUS
<1> HIDE DEF x, m
<1>2. /\ x.d_size = vec[v].d_size
      /\ x.d_capacity = IF n <= vec[v].d_capacity THEN vec[v].d_capacity ELSE n
      /\ x.arr # NoArray
      /\ Holds(m[x.arr], x, expect[v])
      /\ \A w \in Exist \ {v} : vec[w].arr # x.arr \/ x.arr = NoArray
      /\ \A a : a \in DOMAIN m <=> (a = x.arr /\ a # NoArray)
                 \/ (a \in DOMAIN memory /\ a # vec[v].arr)
      /\ \A w \in Exist \ {v} :
           vec[w].arr # NoArray => m[vec[w].arr] = memory[vec[w].arr]
  BY <1>1, ReservedHolds
<1>3. /\ vec' = [vec EXCEPT ![v] = y]
      /\ expect' = [expect EXCEPT ![v] = e]
      /\ broken' = ~fits
      /\ memory' = IF fits THEN [m EXCEPT ![x.arr] = c] ELSE m
  BY DEF Extend, x, m
<1>4. /\ x = Vec(x.arr, x.d_capacity, x.d_size) /\ x.arr \in Arrays
      /\ x.d_capacity \in Nat /\ x.d_capacity >= 2 /\ x.d_size \in Nat
      /\ expect[v] \in Seq(Elements) /\ Len(expect[v]) = x.d_size
      /\ m[x.arr] \in Seq(Cells) /\ Len(m[x.arr]) = x.d_capacity
      /\ x.d_size <= x.d_capacity
      /\ \A i \in 1 .. x.d_size : m[x.arr][i] = expect[v][i]
  BY <1>2 DEF Holds, Members
<1>5. fits
  BY <1>2, <1>4
<1>6. SubSeq(m[x.arr], 1, x.d_size) = expect[v]
  BY <1>4
<1>7. e \in Seq(Elements) /\ Len(e) = x.d_size + Len(elements)
  BY <1>4
<1>8. c = Filled(e, x.d_capacity)
  BY <1>4, <1>6
<1>9. y = Vec(x.arr, x.d_capacity, Len(e))
  <2>1. y = Vec(x.arr, x.d_capacity, x.d_size + Len(elements))
    BY <1>4, SizeReplaced
  <2> QED BY <2>1, <1>7
<1> HIDE DEF c, e, fits, y
<1>10. Len(e) <= x.d_capacity
  BY <1>2, <1>7
<1>11. Holds(c, y, e)
  BY <1>4, <1>7, <1>8, <1>9, <1>10, FilledHolds
<1>12. y.arr = x.arr
  BY <1>9 DEF Vec
<1>13. memory' = [m EXCEPT ![x.arr] = c] /\ broken' = FALSE
  BY <1>3, <1>5
<1>14. memory'[x.arr] = c /\ DOMAIN memory' = DOMAIN m
  BY <1>13, <1>2
<1>15. /\ Exist' = Exist \cup {v} /\ DOMAIN expect' = DOMAIN expect \cup {v}
       /\ vec'[v] = y /\ expect'[v] = e /\ v \in Vectors
       /\ \A w \in Exist \ {v} : vec'[w] = vec[w] /\ expect'[w] = expect[w]
  BY <1>3 DEF VectorInv, Exist
<1>16. \A w \in Exist \ {v} :
         vec[w].arr # NoArray =>
           /\ vec[w].arr # vec'[v].arr
           /\ memory'[vec[w].arr] = memory[vec[w].arr]
  BY <1>2, <1>12, <1>13, <1>15
<1>17. \A a : a \in DOMAIN memory' <=>
                   (a = vec'[v].arr /\ a # NoArray)
                \/ (a \in DOMAIN memory /\ ~ (v \in Exist /\ a = vec[v].arr))
  BY <1>2, <1>12, <1>14, <1>15
<1>18. Holds(memory'[vec'[v].arr], vec'[v], expect'[v])
  BY <1>11, <1>12, <1>14, <1>15
<1> QED BY <1>13, <1>15, <1>16, <1>17, <1>18, OneReplaced

(* Where there is no array, elements are built outside one.                *)
IntoNone == broken = TRUE /\ ExtendedWithoutArray

LEMMA ExtendsNone ==
  ASSUME VectorInv, NEW v \in Exist, NEW n \in Nat, NEW elements \in Seq(Elements),
         vec[v].arr = NoArray, n <= vec[v].d_capacity, Len(elements) > 0,
         Extend(v, n, elements)
  PROVE  IntoNone'
<1>1. /\ NoArray \notin DOMAIN memory
      /\ vec[v] = Vec(NoArray, vec[v].d_capacity, 0)
  BY DEF VectorInv, Holds, Members
<1>2. Reserved(v, n).members = vec[v] /\ Reserved(v, n).memory = memory
  BY DEF Reserved
<1>3. broken' = TRUE
  BY <1>1, <1>2 DEF Extend
<1>4. vec' = [vec EXCEPT ![v] = [vec[v] EXCEPT !.d_size = @ + Len(elements)]]
  BY <1>2 DEF Extend
<1>5. [vec[v] EXCEPT !.d_size = @ + Len(elements)]
        = Vec(NoArray, vec[v].d_capacity, Len(elements))
  BY <1>1 DEF Vec
<1>6. v \in Exist' /\ vec'[v] = Vec(NoArray, vec[v].d_capacity, Len(elements))
  BY <1>4, <1>5 DEF Exist
<1>7. vec'[v].arr = NoArray /\ vec'[v].d_size > 0
  BY <1>6 DEF Vec
<1> QED BY <1>3, <1>6, <1>7 DEF IntoNone, ExtendedWithoutArray

LEMMA CopyHolds ==
  ASSUME VectorInv, NEW w \in Exist
  PROVE  Holds(Filled(Held(w), vec[w].d_capacity), CopyOf(w), expect[w])
<1>1. Holds(memory[vec[w].arr], vec[w], expect[w])
  BY DEF VectorInv
<1>2. /\ Held(w) = expect[w] /\ expect[w] \in Seq(Elements)
      /\ Len(expect[w]) = vec[w].d_size
      /\ vec[w].d_capacity \in Nat /\ vec[w].d_capacity >= 2
      /\ vec[w].d_size <= vec[w].d_capacity
  BY <1>1, HeldIsExpected DEF Holds, Members
<1>3. Fresh \in Arrays
  BY FreshExists
<1> QED BY <1>2, <1>3, FilledHolds DEF CopyOf

(* A vector that was moved from is an empty one.                           *)
LEMMA MovedHolds ==
  ASSUME VectorInv, NEW w \in Exist
  PROVE  /\ MovedFrom(w).arr = NoArray
         /\ \A m : Holds(m, MovedFrom(w), <<>>)
<1>1. Members(vec[w])
  BY DEF VectorInv, Holds
<1> QED BY <1>1 DEF MovedFrom, Vec, Holds, Members

(* Vectors that are built, copied, assigned, moved, swapped, extended and  *)
(* cut always hold what a sequence would, each in storage of its own, as   *)
(* long as none is extended that was moved from.                           *)
THEOREM VectorsKeepContent == VectorSpec => []ContentKept
<1>1. VectorInit => VectorInv
  BY DEF VectorInit, VectorInv, Exist
<1>2. VectorInv /\ [VectorNext]_vectorVars => VectorInv' \/ IntoNone'
  <2> SUFFICES ASSUME VectorInv, [VectorNext]_vectorVars
               PROVE  VectorInv' \/ IntoNone'
    OBVIOUS
  <2>1. /\ Fresh \in Arrays \ DOMAIN memory /\ Fresh # NoArray
        /\ \A w \in Exist : Fresh # vec[w].arr
        /\ \A w \in Exist : vec[w].arr # NoArray => vec[w].arr \in DOMAIN memory
        /\ NoArray \notin DOMAIN memory
    BY FreshExists, VectorConstants DEF VectorInv
  <2>2. ASSUME NEW v \in Vectors, Construct(v) PROVE VectorInv'
    <3> DEFINE x == Vec(Fresh, init_capacity, 0)
               c == Filled(<<>>, init_capacity)
    <3>1. /\ v \notin Exist /\ broken' = FALSE
          /\ memory' = Added(memory, Fresh, c)
          /\ vec' = Added(vec, v, x) /\ expect' = Added(expect, v, <<>>)
      BY <2>2 DEF Construct, VectorInv
    <3>2. Holds(c, x, <<>>)
      <4> DEFINE e == <<>>
      <4>1. e \in Seq(Elements) /\ Len(e) = 0
        OBVIOUS
      <4>2. x = Vec(Fresh, init_capacity, Len(e)) /\ c = Filled(e, init_capacity)
        BY <4>1
      <4> HIDE DEF e, x, c
      <4>3. Holds(c, x, e)
        <5>1. /\ init_capacity \in Nat /\ init_capacity >= 2
              /\ Len(e) <= init_capacity /\ Fresh \in Arrays
          BY <2>1, <4>1, VectorConstants
        <5> QED BY <4>1, <4>2, <5>1, FilledHolds
      <4> QED BY <4>3 DEF e
    <3>3. x.arr = Fresh
      BY DEF Vec
    <3> HIDE DEF x, c
    <3>4. /\ Exist' = Exist \cup {v} /\ DOMAIN expect' = DOMAIN expect \cup {v}
          /\ vec'[v] = x /\ expect'[v] = <<>>
          /\ \A w \in Exist \ {v} : vec'[w] = vec[w] /\ expect'[w] = expect[w]
      BY <3>1 DEF Added, VectorInv, Exist
    <3>5. /\ memory'[Fresh] = c /\ DOMAIN memory' = DOMAIN memory \cup {Fresh}
          /\ \A a \in DOMAIN memory : memory'[a] = memory[a]
      BY <2>1, <3>1 DEF Added
    <3>6. \A a : a \in DOMAIN memory' <=>
                     (a = vec'[v].arr /\ a # NoArray)
                  \/ (a \in DOMAIN memory /\ ~ (v \in Exist /\ a = vec[v].arr))
      BY <2>1, <3>1, <3>3, <3>4, <3>5
    <3>7. \A u \in Exist \ {v} :
           /\ vec'[u] = vec[u] /\ expect'[u] = expect[u]
           /\ vec[u].arr # NoArray =>
                /\ vec[u].arr # vec'[v].arr
                /\ memory'[vec[u].arr] = memory[vec[u].arr]
      BY <2>1, <3>3, <3>4, <3>5
    <3>8. Holds(memory'[vec'[v].arr], vec'[v], expect'[v])
      BY <3>2, <3>3, <3>4, <3>5
    <3> QED BY <3>1, <3>4, <3>6, <3>7, <3>8, OneReplaced
  <2>3. ASSUME NEW v \in Vectors, NEW w \in Exist, CopyConstructVector(v, w)
        PROVE  VectorInv'
    <3> DEFINE x == CopyOf(w)
               c == Filled(Held(w), vec[w].d_capacity)
    <3>1. /\ v \notin Exist /\ broken' = FALSE
          /\ memory' = Added(memory, Fresh, c)
          /\ vec' = Added(vec, v, x) /\ expect' = Added(expect, v, expect[w])
      BY <2>3 DEF CopyConstructVector, WithCopy, VectorInv
    <3>2. Holds(c, x, expect[w])
      BY CopyHolds
    <3>3. x.arr = Fresh
      BY DEF CopyOf, Vec
    <3> HIDE DEF x, c
    <3>4. /\ Exist' = Exist \cup {v} /\ DOMAIN expect' = DOMAIN expect \cup {v}
          /\ vec'[v] = x /\ expect'[v] = expect[w]
          /\ \A u \in Exist \ {v} : vec'[u] = vec[u] /\ expect'[u] = expect[u]
      BY <3>1 DEF Added, VectorInv, Exist
    <3>5. /\ memory'[Fresh] = c /\ DOMAIN memory' = DOMAIN memory \cup {Fresh}
          /\ \A a \in DOMAIN memory : memory'[a] = memory[a]
      BY <2>1, <3>1 DEF Added
    <3>6. \A a : a \in DOMAIN memory' <=>
                     (a = vec'[v].arr /\ a # NoArray)
                  \/ (a \in DOMAIN memory /\ ~ (v \in Exist /\ a = vec[v].arr))
      BY <2>1, <3>1, <3>3, <3>4, <3>5
    <3>7. \A u \in Exist \ {v} :
           /\ vec'[u] = vec[u] /\ expect'[u] = expect[u]
           /\ vec[u].arr # NoArray =>
                /\ vec[u].arr # vec'[v].arr
                /\ memory'[vec[u].arr] = memory[vec[u].arr]
      BY <2>1, <3>3, <3>4, <3>5
    <3>8. Holds(memory'[vec'[v].arr], vec'[v], expect'[v])
      BY <3>2, <3>3, <3>4, <3>5
    <3> QED BY <3>1, <3>4, <3>6, <3>7, <3>8, OneReplaced
  <2>4. ASSUME NEW v \in Vectors, NEW w \in Exist, CopyAssignVector(v, w)
        PROVE  VectorInv'
    <3> DEFINE x == CopyOf(w)
               c == Filled(Held(w), vec[w].d_capacity)
    <3>1. /\ v \in Exist /\ broken' = FALSE
          /\ memory' = Except(Added(memory, Fresh, c), vec[v].arr)
          /\ vec' = [vec EXCEPT ![v] = x] /\ expect' = [expect EXCEPT ![v] = expect[w]]
      BY <2>4 DEF CopyAssignVector, WithCopy, VectorInv
    <3>2. Holds(c, x, expect[w])
      BY CopyHolds
    <3>3. x.arr = Fresh
      BY DEF CopyOf, Vec
    <3> HIDE DEF x, c
    <3>4. /\ Exist' = Exist \cup {v} /\ DOMAIN expect' = DOMAIN expect \cup {v}
          /\ vec'[v] = x /\ expect'[v] = expect[w]
          /\ \A u \in Exist \ {v} : vec'[u] = vec[u] /\ expect'[u] = expect[u]
      BY <3>1 DEF VectorInv, Exist
    <3>5. /\ memory'[Fresh] = c
          /\ DOMAIN memory' = (DOMAIN memory \cup {Fresh}) \ {vec[v].arr}
          /\ \A a \in DOMAIN memory : a # vec[v].arr => memory'[a] = memory[a]
      BY <2>1, <3>1 DEF Added, Except
    <3>6. \A u \in Exist \ {v} : vec[u].arr # NoArray => vec[u].arr # vec[v].arr
      BY <3>1 DEF VectorInv
    <3>7. \A a : a \in DOMAIN memory' <=>
                     (a = vec'[v].arr /\ a # NoArray)
                  \/ (a \in DOMAIN memory /\ ~ (v \in Exist /\ a = vec[v].arr))
      BY <2>1, <3>1, <3>3, <3>4, <3>5
    <3>8. \A u \in Exist \ {v} :
           /\ vec'[u] = vec[u] /\ expect'[u] = expect[u]
           /\ vec[u].arr # NoArray =>
                /\ vec[u].arr # vec'[v].arr
                /\ memory'[vec[u].arr] = memory[vec[u].arr]
      BY <2>1, <3>3, <3>4, <3>5, <3>6
    <3>9. Holds(memory'[vec'[v].arr], vec'[v], expect'[v])
      BY <3>2, <3>3, <3>4, <3>5
    <3> QED BY <3>1, <3>4, <3>7, <3>8, <3>9, OneReplaced
  <2>5. ASSUME NEW v \in Vectors, NEW w \in Exist, MoveConstructVector(v, w)
        PROVE  VectorInv'
    <3>1. v \notin Exist /\ broken' = FALSE /\ memory' = memory
      BY <2>5 DEF MoveConstructVector, VectorInv
    <3>2. /\ Exist' = Exist \cup {v} /\ DOMAIN expect' = Exist \cup {v}
          /\ vec'[v] = vec[w] /\ expect'[v] = expect[w]
          /\ vec'[w] = MovedFrom(w) /\ expect'[w] = <<>>
          /\ \A u \in Exist \ {w} : vec'[u] = vec[u] /\ expect'[u] = expect[u]
      BY <2>5, <3>1 DEF MoveConstructVector, Added, VectorInv, Exist
    <3>3. vec'[w].arr = NoArray /\ \A m : Holds(m, vec'[w], expect'[w])
      BY <3>2, MovedHolds
    <3>4. \A u \in Exist' : u = w \/ u = v \/ (u # v /\ u \in Exist \ {w})
      BY <3>2
    <3>5. \A u \in Exist \ {w} : vec[u].arr # vec[w].arr \/ vec[u].arr = NoArray
      BY DEF VectorInv
    <3>6. DOMAIN memory' = {vec'[u].arr : u \in Exist'} \ {NoArray}
      <4>1. {vec'[u].arr : u \in Exist'} \ {NoArray} \subseteq DOMAIN memory
        BY <2>1, <3>2, <3>3, <3>4
      <4>2. ASSUME NEW u \in Exist, vec[u].arr # NoArray
            PROVE  \E t \in Exist' : vec'[t].arr = vec[u].arr
        BY <3>1, <3>2
      <4> QED BY <3>1, <4>1, <4>2 DEF VectorInv
    <3>7. \A u, t \in Exist' :
            vec'[u].arr = vec'[t].arr => u = t \/ vec'[u].arr = NoArray
      BY <3>2, <3>3, <3>4, <3>5 DEF VectorInv
    <3>8. \A u \in Exist : Holds(memory[vec[u].arr], vec[u], expect[u])
      BY DEF VectorInv
    <3>9. \A u \in Exist' : Holds(memory'[vec'[u].arr], vec'[u], expect'[u])
      BY <3>1, <3>2, <3>3, <3>4, <3>8
    <3> QED BY <3>1, <3>2, <3>6, <3>7, <3>9 DEF VectorInv
  <2>6. ASSUME NEW v \in Vectors, NEW w \in Exist, MoveAssignVector(v, w)
        PROVE  VectorInv'
    <3>1. v \in Exist /\ v # w /\ broken' = FALSE /\ memory' = Except(memory, vec[v].arr)
      BY <2>6 DEF MoveAssignVector, VectorInv
    <3>2. /\ Exist' = Exist /\ DOMAIN expect' = Exist
          /\ vec'[v] = vec[w] /\ expect'[v] = expect[w]
          /\ vec'[w] = MovedFrom(w) /\ expect'[w] = <<>>
          /\ \A u \in Exist \ {v, w} : vec'[u] = vec[u] /\ expect'[u] = expect[u]
      BY <2>6, <3>1 DEF MoveAssignVector, VectorInv, Exist
    <3>3. /\ DOMAIN memory' = DOMAIN memory \ {vec[v].arr}
          /\ \A a \in DOMAIN memory : a # vec[v].arr => memory'[a] = memory[a]
      BY <3>1 DEF Except
    <3>4. \A u \in Exist \ {v} : vec[u].arr # NoArray =>
            vec[u].arr # vec[v].arr /\ memory'[vec[u].arr] = memory[vec[u].arr]
      BY <2>1, <3>1, <3>3 DEF VectorInv
    <3>5. vec'[w].arr = NoArray /\ \A m : Holds(m, vec'[w], expect'[w])
      BY <3>2, MovedHolds
    <3>6. \A u \in Exist' : u = w \/ u = v \/ u \in Exist \ {v, w}
      BY <3>2
    <3>7. \A u \in Exist \ {w} : vec[u].arr # vec[w].arr \/ vec[u].arr = NoArray
      BY DEF VectorInv
    <3>8. DOMAIN memory' = {vec'[u].arr : u \in Exist'} \ {NoArray}
      <4>1. {vec'[u].arr : u \in Exist'} \ {NoArray} \subseteq DOMAIN memory'
        BY <2>1, <3>1, <3>2, <3>3, <3>4, <3>5, <3>6
      <4>2. ASSUME NEW u \in Exist \ {v}, vec[u].arr # NoArray
            PROVE  \E t \in Exist' : vec'[t].arr = vec[u].arr
        BY <3>1, <3>2
      <4>3. \A a \in DOMAIN memory' :
              a # NoArray /\ \E u \in Exist \ {v} : a = vec[u].arr
        BY <3>3 DEF VectorInv
      <4>4. DOMAIN memory' \subseteq {vec'[u].arr : u \in Exist'} \ {NoArray}
        BY <4>2, <4>3
      <4> QED BY <4>1, <4>4
    <3>9. \A u, t \in Exist' :
            vec'[u].arr = vec'[t].arr => u = t \/ vec'[u].arr = NoArray
      BY <3>1, <3>2, <3>5, <3>6, <3>7 DEF VectorInv
    <3>10. \A u \in Exist' : Holds(memory'[vec'[u].arr], vec'[u], expect'[u])
      <4>1. ASSUME NEW u \in Exist \ {v}
            PROVE  Holds(memory'[vec[u].arr], vec[u], expect[u])
        <5>1. Holds(memory[vec[u].arr], vec[u], expect[u])
          BY DEF VectorInv
        <5>2. CASE vec[u].arr = NoArray
          BY <5>1, <5>2 DEF Holds
        <5>3. CASE vec[u].arr # NoArray
          BY <5>1, <5>3, <3>4
        <5> QED BY <5>2, <5>3
      <4> QED BY <3>1, <3>2, <3>5, <3>6, <4>1
    <3> QED BY <3>1, <3>2, <3>8, <3>9, <3>10 DEF VectorInv
  <2>7. ASSUME NEW v \in Vectors, NEW w \in Exist, SwapVectors(v, w)
        PROVE  VectorInv'
    <3>1. v \in Exist /\ broken' = FALSE /\ memory' = memory
      BY <2>7 DEF SwapVectors, VectorInv
    <3>2. /\ Exist' = Exist /\ DOMAIN expect' = Exist
          /\ vec'[v] = vec[w] /\ expect'[v] = expect[w]
          /\ vec'[w] = vec[v] /\ expect'[w] = expect[v]
          /\ \A u \in Exist \ {v, w} : vec'[u] = vec[u] /\ expect'[u] = expect[u]
      BY <2>7, <3>1 DEF SwapVectors, VectorInv, Exist
    <3>3. DOMAIN memory' = {vec'[u].arr : u \in Exist'} \ {NoArray}
      BY <3>1, <3>2 DEF VectorInv
    <3>4. \A u, t \in Exist' : vec'[u].arr = vec'[t].arr => u = t \/ vec'[u].arr = NoArray
      BY <3>1, <3>2 DEF VectorInv
    <3>5. \A u \in Exist : Holds(memory[vec[u].arr], vec[u], expect[u])
      BY DEF VectorInv
    <3>6. \A u \in Exist' : u = w \/ u = v \/ u \in Exist \ {v, w}
      BY <3>2
    <3>7. \A u \in Exist' : Holds(memory'[vec'[u].arr], vec'[u], expect'[u])
      BY <3>1, <3>2, <3>5, <3>6
    <3> QED BY <3>1, <3>2, <3>3, <3>4, <3>7 DEF VectorInv
  <2>8. ASSUME NEW v \in Exist, DestructVector(v) PROVE VectorInv'
    <3>1. /\ broken' = FALSE /\ memory' = Except(memory, vec[v].arr)
          /\ Exist' = Exist \ {v} /\ DOMAIN expect' = Exist \ {v}
          /\ \A u \in Exist \ {v} : vec'[u] = vec[u] /\ expect'[u] = expect[u]
      BY <2>8 DEF DestructVector, Except, VectorInv, Exist
    <3>2. /\ DOMAIN memory' = DOMAIN memory \ {vec[v].arr}
          /\ \A a \in DOMAIN memory : a # vec[v].arr => memory'[a] = memory[a]
      BY <3>1 DEF Except
    <3>3. \A u \in Exist \ {v} : vec[u].arr # NoArray =>
            vec[u].arr # vec[v].arr /\ memory'[vec[u].arr] = memory[vec[u].arr]
      BY <2>1, <3>2 DEF VectorInv
    <3>4. DOMAIN memory' = {vec'[u].arr : u \in Exist'} \ {NoArray}
      BY <3>1, <3>2, <3>3 DEF VectorInv
    <3>5. ASSUME NEW u \in Exist'
          PROVE  Holds(memory'[vec'[u].arr], vec'[u], expect'[u])
      <4>1. u \in Exist \ {v} /\ Holds(memory[vec[u].arr], vec[u], expect[u])
        BY <3>1 DEF VectorInv
      <4>2. CASE vec[u].arr = NoArray
        BY <3>1, <4>1, <4>2 DEF Holds
      <4>3. CASE vec[u].arr # NoArray
        BY <3>1, <3>3, <4>1, <4>3
      <4> QED BY <4>2, <4>3
    <3>6. \A u, t \in Exist' : vec'[u].arr = vec'[t].arr => u = t \/ vec'[u].arr = NoArray
      BY <3>1 DEF VectorInv
    <3> QED BY <3>1, <3>4, <3>5, <3>6 DEF VectorInv
  <2>9. ASSUME NEW v \in Exist, NEW e \in Elements, PushBack(v, e)
        PROVE  VectorInv' \/ IntoNone'
    <3>1. Holds(memory[vec[v].arr], vec[v], expect[v])
      BY DEF VectorInv
    <3> DEFINE cap == vec[v].d_capacity
               len == vec[v].d_size
               n == IF len >= cap THEN Growth(len) ELSE 0
    <3>2. /\ Extend(v, n, <<e>>)
          /\ cap \in Nat /\ len \in Nat /\ cap >= 2 /\ len <= cap
          /\ vec[v].arr = NoArray => n = 0
      BY <2>9, <3>1 DEF PushBack, Holds, Members
    <3>3. n \in Nat /\ len + 1 <= IF n <= cap THEN cap ELSE n
      <4>1. CASE len >= cap
        <5>1. n = (3 * len) \div 2 /\ len >= 2
          BY <3>2, <4>1 DEF Growth
        <5>2. n \in Nat /\ n >= len + 1
          BY <3>2, <5>1
        <5> QED BY <3>2, <4>1, <5>2
      <4>2. CASE ~ (len >= cap)
        BY <3>2, <4>2
      <4> QED BY <4>1, <4>2
    <3>4. <<e>> \in Seq(Elements) /\ Len(<<e>>) = 1
      OBVIOUS
    <3> HIDE DEF n
    <3>5. CASE vec[v].arr # NoArray
      BY <3>2, <3>3, <3>4, <3>5, ExtendHolds
    <3>6. CASE vec[v].arr = NoArray
      <4>1. n \in Nat /\ n <= vec[v].d_capacity /\ Len(<<e>>) > 0
        BY <3>2, <3>3, <3>4, <3>6
      <4>2. <<e>> \in Seq(Elements) /\ Extend(v, n, <<e>>)
        BY <3>2, <3>4
      <4> QED BY <3>6, <4>1, <4>2, ExtendsNone
    <3> QED BY <3>5, <3>6
  <2>10. ASSUME NEW v \in Exist, NEW k \in 0 .. MaxSize, Reserve(v, k) PROVE VectorInv'
    <3> DEFINE x == Reserved(v, k).members
               m == Reserved(v, k).memory
    <3>1. x = Reserved(v, k).members /\ m = Reserved(v, k).memory /\ k \in Nat
      BY VectorConstants
    <3> HIDE DEF x, m
    <3>2. /\ Holds(m[x.arr], x, expect[v])
          /\ \A w \in Exist \ {v} : vec[w].arr # x.arr \/ x.arr = NoArray
          /\ \A a : a \in DOMAIN m <=> (a = x.arr /\ a # NoArray)
                                    \/ (a \in DOMAIN memory /\ a # vec[v].arr)
          /\ \A w \in Exist \ {v} :
               vec[w].arr # NoArray => m[vec[w].arr] = memory[vec[w].arr]
      BY <3>1, ReservedHolds
    <3>3. /\ vec' = [vec EXCEPT ![v] = x] /\ memory' = m
          /\ expect' = expect /\ broken' = FALSE
      BY <2>10 DEF Reserve, VectorInv, x, m
    <3>4. /\ Exist' = Exist \cup {v} /\ DOMAIN expect' = DOMAIN expect \cup {v}
          /\ vec'[v] = x /\ v \in Vectors
          /\ \A w \in Exist \ {v} : vec'[w] = vec[w]
      BY <3>3 DEF VectorInv, Exist
    <3>5. \A a : a \in DOMAIN memory' <=>
                     (a = vec'[v].arr /\ a # NoArray)
                  \/ (a \in DOMAIN memory /\ ~ (v \in Exist /\ a = vec[v].arr))
      BY <3>2, <3>3, <3>4
    <3>6. \A w \in Exist \ {v} :
           /\ vec'[w] = vec[w] /\ expect'[w] = expect[w]
           /\ vec[w].arr # NoArray =>
                /\ vec[w].arr # vec'[v].arr
                /\ memory'[vec[w].arr] = memory[vec[w].arr]
      BY <3>2, <3>3, <3>4
    <3>7. Holds(memory'[vec'[v].arr], vec'[v], expect'[v])
      BY <3>2, <3>3, <3>4
    <3> QED BY <3>3, <3>4, <3>5, <3>6, <3>7, OneReplaced
  <2>11. ASSUME NEW v \in Exist, NEW k \in 0 .. MaxSize, ResizeUp(v, k)
         PROVE  VectorInv' \/ IntoNone'
    <3>1. Holds(memory[vec[v].arr], vec[v], expect[v])
      BY DEF VectorInv
    <3> DEFINE cap == vec[v].d_capacity
               len == vec[v].d_size
               n == IF cap > k THEN cap ELSE Growth(k)
               more == [i \in 1 .. k - len |-> Default]
    <3>2. /\ Extend(v, n, more) /\ k > len /\ k \in Nat
          /\ cap \in Nat /\ len \in Nat /\ cap >= 2
      BY <2>11, <3>1, VectorConstants DEF ResizeUp, Holds, Members
    <3>3. /\ n \in Nat /\ len + (k - len) <= IF n <= cap THEN cap ELSE n
          /\ IF k >= cap THEN n > cap ELSE n = cap
      <4>1. CASE cap > k
        BY <3>2, <4>1
      <4>2. CASE ~ (cap > k)
        <5>1. n = (3 * k) \div 2 /\ k >= 2
          BY <3>2, <4>2 DEF Growth
        <5>2. n \in Nat /\ n >= k + 1
          BY <3>2, <5>1
        <5> QED BY <3>2, <4>2, <5>2
      <4> QED BY <4>1, <4>2
    <3>4. more \in Seq(Elements) /\ Len(more) = k - len /\ k - len > 0
      BY <3>2, VectorConstants
    <3> HIDE DEF n, more
    <3>5. CASE vec[v].arr # NoArray \/ k >= cap
      BY <3>2, <3>3, <3>4, <3>5, ExtendHolds
    <3>6. CASE vec[v].arr = NoArray /\ ~ (k >= cap)
      BY <3>2, <3>3, <3>4, <3>6, ExtendsNone
    <3> QED BY <3>5, <3>6
  <2>12. ASSUME NEW v \in Exist, NEW k \in 0 .. MaxSize, ResizeDown(v, k) PROVE VectorInv'
    <3> DEFINE arr == vec[v].arr
               cap == vec[v].d_capacity
               e == SubSeq(expect[v], 1, k)
               c == Filled(SubSeq(memory[arr], 1, k), Len(memory[arr]))
               x == [vec[v] EXCEPT !.d_size = k]
    <3>1. /\ k <= vec[v].d_size /\ arr # NoArray /\ k \in Nat
          /\ vec' = [vec EXCEPT ![v] = x] /\ memory' = [memory EXCEPT ![arr] = c]
          /\ expect' = [expect EXCEPT ![v] = e] /\ broken' = FALSE
      BY <2>12, VectorConstants DEF ResizeDown, VectorInv
    <3>2. Holds(memory[arr], vec[v], expect[v]) /\ arr \in DOMAIN memory
      BY <2>1, <3>1 DEF VectorInv
    <3>3. /\ vec[v] = Vec(arr, cap, vec[v].d_size) /\ arr \in Arrays
          /\ cap \in Nat /\ cap >= 2 /\ vec[v].d_size \in Nat
          /\ expect[v] \in Seq(Elements) /\ Len(expect[v]) = vec[v].d_size
          /\ memory[arr] \in Seq(Cells) /\ Len(memory[arr]) = cap
          /\ vec[v].d_size <= cap
          /\ \A i \in 1 .. vec[v].d_size : memory[arr][i] = expect[v][i]
      BY <3>1, <3>2 DEF Holds, Members
    <3>4. e \in Seq(Elements) /\ Len(e) = k
      BY <3>1, <3>3
    <3>5. SubSeq(memory[arr], 1, k) = e
      <4>1. SubSeq(memory[arr], 1, k) = [i \in 1 .. k |-> memory[arr][i]]
        BY <3>1, <3>3
      <4>2. SubSeq(expect[v], 1, k) = [i \in 1 .. k |-> expect[v][i]]
        BY <3>1, <3>3
      <4>3. \A i \in 1 .. k : memory[arr][i] = expect[v][i]
        BY <3>1, <3>3
      <4> QED BY <4>1, <4>2, <4>3
    <3>6. c = Filled(e, cap) /\ x = Vec(arr, cap, k)
      <4>1. c = Filled(e, cap)
        BY <3>3, <3>5
      <4>2. x = Vec(arr, cap, k)
        BY <3>3, SizeReplaced
      <4> QED BY <4>1, <4>2
    <3>7. Holds(c, x, e)
      <4> HIDE DEF c, x, e
      <4> QED BY <3>1, <3>3, <3>6, <3>4, FilledHolds
    <3>8. x.arr = arr
      BY <3>6 DEF Vec
    <3> HIDE DEF c, x, e
    <3>9. /\ Exist' = Exist \cup {v} /\ DOMAIN expect' = DOMAIN expect \cup {v}
          /\ vec'[v] = x /\ expect'[v] = e /\ v \in Vectors
          /\ \A w \in Exist \ {v} : vec'[w] = vec[w] /\ expect'[w] = expect[w]
      BY <3>1 DEF VectorInv, Exist
    <3>10. memory'[arr] = c /\ DOMAIN memory' = DOMAIN memory
          /\ \A a : a # arr => memory'[a] = memory[a]
      BY <3>1, <3>2
    <3>11. \A a : a \in DOMAIN memory' <=>
                     (a = vec'[v].arr /\ a # NoArray)
                  \/ (a \in DOMAIN memory /\ ~ (v \in Exist /\ a = vec[v].arr))
      BY <3>1, <3>2, <3>8, <3>9, <3>10
    <3>12. \A w \in Exist \ {v} :
           /\ vec'[w] = vec[w] /\ expect'[w] = expect[w]
           /\ vec[w].arr # NoArray =>
                /\ vec[w].arr # vec'[v].arr
                /\ memory'[vec[w].arr] = memory[vec[w].arr]
      BY <3>8, <3>9, <3>10 DEF VectorInv
    <3>13. Holds(memory'[vec'[v].arr], vec'[v], expect'[v])
      BY <3>7, <3>8, <3>9, <3>10
    <3> QED BY <3>1, <3>9, <3>11, <3>12, <3>13, OneReplaced
  <2>13. CASE UNCHANGED vectorVars
    BY <2>13 DEF vectorVars, VectorInv, Exist, Holds
  <2> QED BY <2>2, <2>3, <2>4, <2>5, <2>6, <2>7, <2>8, <2>9, <2>10, <2>11, <2>12,
             <2>13 DEF VectorNext
<1>3. VectorInv => ContentKept
  <2> SUFFICES ASSUME VectorInv PROVE ContentKept
    OBVIOUS
  <2>1. ASSUME NEW v \in Exist
        PROVE  IF vec[v].arr = NoArray THEN vec[v].d_size = 0
               ELSE /\ Len(memory[vec[v].arr]) = vec[v].d_capacity
                    /\ \A i \in 1 .. vec[v].d_capacity :
                         memory[vec[v].arr][i] # Raw <=> i <= vec[v].d_size
    <3>1. Holds(memory[vec[v].arr], vec[v], expect[v])
      BY DEF VectorInv
    <3>2. \A i \in 1 .. vec[v].d_size : expect[v][i] # Raw
      BY <3>1, VectorConstants DEF Holds
    <3> QED BY <3>1, <3>2 DEF Holds, Members
  <2>2. \A v \in Exist : Held(v) = expect[v]
    BY HeldIsExpected
  <2> QED BY <2>1, <2>2 DEF ContentKept, StorageMatches, VectorInv
<1>4. IntoNone /\ [VectorNext]_vectorVars => IntoNone'
  BY DEF IntoNone, ExtendedWithoutArray, VectorNext, vectorVars, Exist
<1>5. IntoNone => ContentKept
  BY DEF IntoNone, ContentKept
<1> QED BY <1>1, <1>2, <1>3, <1>4, <1>5, PTL DEF VectorSpec
-----------------------------------------------------------------------------
(* The encoder.  Every position is in just one group.                      *)
LEMMA GroupOfBit ==
  ASSUME NEW b \in Nat
  PROVE  LET q == b \div GroupBits
         IN /\ q \in Nat /\ GroupBits * q <= b /\ b < GroupBits * (q + 1)
            /\ \A k \in Nat : GroupBits * k <= b => k <= q
<1> DEFINE q == b \div GroupBits
<1>1. GroupBits \in Nat \ {0}
  BY CodecConstants
<1>2. /\ b = GroupBits * q + (b % GroupBits) /\ q \in Nat
      /\ b % GroupBits \in 0 .. GroupBits - 1
  BY <1>1
<1> HIDE DEF q
<1>3. GroupBits * (q + 1) = GroupBits * q + GroupBits /\ GroupBits * q \in Nat
  BY <1>1, <1>2
<1>4. GroupBits * q <= b /\ b < GroupBits * (q + 1)
  BY <1>1, <1>2, <1>3
<1>5. ASSUME NEW k \in Nat, GroupBits * k <= b PROVE k <= q
  <2> SUFFICES ASSUME k > q PROVE FALSE
    BY <1>2
  <2> DEFINE d == k - (q + 1)
  <2>1. d \in Nat /\ k = q + 1 + d
    BY <1>2
  <2> HIDE DEF d
  <2>2. GroupBits * k = GroupBits * (q + 1) + GroupBits * d /\ GroupBits * d >= 0
    BY <2>1, <1>1, <1>2
  <2> QED BY <2>2, <1>4, <1>5, <1>1, <1>2, <1>3
<1> QED BY <1>2, <1>4, <1>5 DEF q

(* A set of numbers that is not empty has a least one.                     *)
LEMMA LeastOf ==
  ASSUME NEW S, S \subseteq Nat, S # {}
  PROVE  \E n \in S : \A k \in S : n <= k
<1>1. \E n \in S : \A k \in S : ~(<<k, n>> \in OpToRel(<, Nat))
  BY NatLessThanWellFounded, WFMin
<1>2. ASSUME NEW n \in S, NEW k \in S, ~(<<k, n>> \in OpToRel(<, Nat))
      PROVE  n <= k
  <2>1. n \in Nat /\ k \in Nat
    OBVIOUS
  <2>2. <<k, n>> \in Nat \X Nat
    BY <2>1
  <2>3. ~(k < n)
    BY <1>2, <2>2 DEF OpToRel
  <2> QED BY <2>1, <2>3
<1> QED BY <1>1, <1>2

(* Groups beyond the last one of all are never needed.                     *)
LEMMA BytesSuffice ==
  ASSUME NEW v \in UInt
  PROVE  /\ MaxBytes \in Nat \ {0} /\ EncodedBytes(v) \in 1 .. MaxBytes
         /\ Fits(v, EncodedBytes(v))
         /\ EncodedBytes(v) > 1 => ~Fits(v, EncodedBytes(v) - 1)
<1>1. /\ UIntBits \in Nat \ {0} /\ UIntBits \div GroupBits \in Nat
      /\ UIntBits < GroupBits * MaxBytes
  BY CodecConstants, GroupOfBit DEF MaxBytes
<1>2. MaxBytes \in Nat \ {0} /\ GroupBits \in Nat /\ GroupBits * MaxBytes \in Nat
  BY <1>1, CodecConstants DEF MaxBytes
<1>3. Fits(v, MaxBytes)
  BY <1>1, <1>2 DEF Fits
<1>4. PICK n \in {k \in 1 .. MaxBytes : Fits(v, k)} :
         \A k \in {j \in 1 .. MaxBytes : Fits(v, j)} : n <= k
  <2>1. {k \in 1 .. MaxBytes : Fits(v, k)} \subseteq Nat
    BY <1>2
  <2>2. MaxBytes \in {k \in 1 .. MaxBytes : Fits(v, k)}
    BY <1>2, <1>3
  <2> QED BY <2>1, <2>2, LeastOf
<1>5. n \in 1 .. MaxBytes /\ Fits(v, n) /\ (n > 1 => ~Fits(v, n - 1))
  <2>1. ASSUME n > 1, Fits(v, n - 1) PROVE FALSE
    <3>1. n - 1 \in {j \in 1 .. MaxBytes : Fits(v, j)}
      BY <2>1, <1>2
    <3> QED BY <3>1, <1>4, <1>2
  <2> QED BY <2>1
<1> HIDE DEF Fits, MaxBytes
<1> QED BY <1>2, <1>5 DEF EncodedBytes

(* The values that int has room for, or those of a type no wider than int. *)
Decodable(v) ==
  \/ UIntBits <= IntBits
  \/ \A b \in 0 .. UIntBits - 1 : v[b] => b < IntBits - 1

(* No byte is shifted beyond the value's highest bit, be it below m.       *)
LEMMA ShiftsStayBelow ==
  ASSUME NEW v \in UInt, NEW i \in 1 .. EncodedBytes(v), NEW m \in Nat \ {0},
         \A b \in 0 .. UIntBits - 1 : v[b] => b < m
  PROVE  GroupBits * (EncodedBytes(v) - i) \in 0 .. m - 1
<1> DEFINE n == EncodedBytes(v)
<1>1. /\ n \in Nat \ {0} /\ GroupBits \in Nat \ {0} /\ UIntBits \in Nat \ {0}
      /\ n > 1 => ~Fits(v, n - 1)
  BY BytesSuffice, CodecConstants
<1> HIDE DEF n
<1>2. GroupBits * (n - 1) < m
  <2>1. CASE n = 1
    BY <2>1, <1>1
  <2>2. CASE n > 1
    <3>1. PICK b \in 0 .. UIntBits - 1 : v[b] /\ ~(b < GroupBits * (n - 1))
      BY <2>2, <1>1 DEF Fits
    <3>2. GroupBits * (n - 1) \in Int /\ b < m
      BY <3>1, <1>1
    <3> QED BY <3>1, <3>2, <1>1
  <2> QED BY <2>1, <2>2, <1>1
<1>3. i - 1 \in Nat /\ n - i \in Nat
  BY <1>1 DEF n
<1>4. /\ GroupBits * (n - 1) = GroupBits * (n - i) + GroupBits * (i - 1)
      /\ GroupBits * (n - i) \in Nat /\ GroupBits * (i - 1) \in Nat
  BY <1>1, <1>3
<1> QED BY <1>2, <1>4 DEF n

(* What encodeInteger has written is decoded to what it was given.         *)
LEMMA DecodedAgain ==
  ASSUME NEW v \in UInt, Decodable(v), NEW masked \in BOOLEAN
  PROVE  Decoded(Encoded(v), masked) = v
<1> DEFINE n == EncodedBytes(v)
           bytes == Encoded(v)
<1>1. /\ n \in 1 .. MaxBytes /\ MaxBytes \in Nat /\ n \in Nat \ {0} /\ Fits(v, n)
      /\ GroupBits \in Nat \ {0} /\ UIntBits \in Nat \ {0} /\ IntBits \in Nat \ {0}
  BY BytesSuffice, CodecConstants
<1>2. /\ Len(bytes) = n
      /\ \A i \in 1 .. n :
           bytes[i] = [group |-> Group(v, n - i), stop |-> i = n]
  BY <1>1 DEF Encoded
<1>3. Accepted(bytes)
  <2>1. Len(bytes) \in 1 .. MaxBytes
    BY <1>1, <1>2
  <2>2. \A i \in 1 .. Len(bytes) : bytes[i].stop <=> i = Len(bytes)
    <3>1. \A i \in 1 .. n : bytes[i].stop = (i = n)
      BY <1>2
    <3> QED BY <3>1, <1>2
  <2> QED BY <2>1, <2>2 DEF Accepted
<1>4. ASSUME NEW i \in 1 .. n PROVE
        /\ n - i \in Nat /\ GroupBits * (n - i) \in Nat
        /\ GroupBits * (n - i) < UIntBits /\ GroupBits * (n - i) < IntBits
  <2>1. n - i \in Nat
    BY <1>1
  <2>2. GroupBits * (n - i) \in 0 .. UIntBits - 1
    BY <1>1, ShiftsStayBelow
  <2>3. CASE UIntBits <= IntBits
    BY <2>1, <2>2, <2>3, <1>1
  <2>4. CASE \A b \in 0 .. UIntBits - 1 : v[b] => b < IntBits - 1
    <3>1. IntBits - 1 \in Nat \ {0}
      BY CodecConstants
    <3>2. GroupBits * (n - i) \in 0 .. (IntBits - 1) - 1
      BY <2>4, <3>1, ShiftsStayBelow
    <3> QED BY <2>1, <2>2, <3>1, <3>2, <1>1
  <2> QED BY <2>3, <2>4 DEF Decodable
<1> HIDE DEF n, bytes
<1>5. ASSUME NEW b \in 0 .. UIntBits - 1, NEW i \in 1 .. n
      PROVE  ShiftedBit(bytes[i].group, GroupBits * (n - i), masked, b)
               <=> /\ GroupBits * (n - i) <= b
                   /\ b < GroupBits * (n - i) + GroupBits /\ v[b]
  <2> DEFINE s == GroupBits * (n - i)
             from == (IF b < IntBits THEN b ELSE IntBits - 1) - s
  <2>1. s \in Nat /\ s < UIntBits /\ s < IntBits /\ b \in Nat
    BY <1>1, <1>4
  <2>2. bytes[i].group = Group(v, n - i)
    BY <1>2
  <2>3. from \in 0 .. GroupBits - 1
          => (bytes[i].group[from] <=> s + from < UIntBits /\ v[s + from])
    BY <2>2 DEF Group
  <2> HIDE DEF s
  <2>4. ShiftedBit(bytes[i].group, s, masked, b)
          <=> from \in 0 .. GroupBits - 1 /\ bytes[i].group[from]
    BY <2>1 DEF ShiftedBit
  <2>5. CASE b < IntBits
    <3>1. s + from = b /\ b < UIntBits
      BY <2>1, <2>5, <1>1
    <3>2. from \in 0 .. GroupBits - 1 <=> s <= b /\ b < s + GroupBits
      BY <2>1, <2>5, <1>1
    <3> HIDE DEF from
    <3> QED BY <2>3, <2>4, <3>1, <3>2 DEF s
  <2>6. CASE ~(b < IntBits)
    <3>1. /\ b > IntBits - 1 /\ IntBits - 1 \in 0 .. UIntBits - 1
          /\ ~(UIntBits <= IntBits)
      BY <2>1, <2>6, <1>1
    <3>2. ~v[b] /\ ~v[IntBits - 1]
      BY <3>1, <1>1 DEF Decodable
    <3>3. s + from = IntBits - 1
      BY <2>1, <2>6, <1>1
    <3> HIDE DEF from
    <3> QED BY <2>3, <2>4, <3>2, <3>3 DEF s
  <2> QED BY <2>5, <2>6
<1>6. ASSUME NEW b \in 0 .. UIntBits - 1
      PROVE  (\E i \in 1 .. n :
                ShiftedBit(bytes[i].group, GroupBits * (n - i), masked, b)) <=> v[b]
  <2>1. ASSUME v[b]
        PROVE  \E i \in 1 .. n : /\ GroupBits * (n - i) <= b
                                 /\ b < GroupBits * (n - i) + GroupBits
    <3> DEFINE q == b \div GroupBits
    <3>1. b \in Nat
      BY <1>1
    <3>2. /\ q \in Nat /\ GroupBits * q <= b /\ b < GroupBits * (q + 1)
          /\ \A k \in Nat : GroupBits * k <= b => k <= q
      BY <3>1, GroupOfBit
    <3> HIDE DEF q
    <3>3. GroupBits * (q + 1) = GroupBits * q + GroupBits
      BY <3>2, <1>1
    <3>4. q < n
      <4>1. b < GroupBits * n
        BY <1>1, <2>1 DEF Fits
      <4>2. ASSUME q >= n PROVE FALSE
        <5>1. q - n \in Nat
          BY <4>2, <3>2, <1>1
        <5>2. /\ GroupBits * q = GroupBits * n + GroupBits * (q - n)
              /\ GroupBits * (q - n) \in Nat /\ GroupBits * n \in Nat
          BY <5>1, <3>2, <1>1
        <5> QED BY <5>2, <4>1, <3>2, <3>1
      <4> QED BY <4>2, <3>2, <1>1
    <3>5. n - q \in 1 .. n /\ n - (n - q) = q
      BY <3>2, <3>4, <1>1
    <3> QED BY <3>2, <3>3, <3>5
  <2> QED BY <2>1, <1>5
<1>7. /\ v = [b \in 0 .. UIntBits - 1 |-> v[b]]
      /\ \A b \in 0 .. UIntBits - 1 : v[b] \in BOOLEAN
  BY DEF UInt
<1>8. Decoded(bytes, masked) =
        [b \in 0 .. UIntBits - 1 |->
          \E i \in 1 .. n :
            ShiftedBit(bytes[i].group, GroupBits * (n - i), masked, b)]
  BY <1>2, <1>3 DEF Decoded
<1>9. [b \in 0 .. UIntBits - 1 |->
          \E i \in 1 .. n :
            ShiftedBit(bytes[i].group, GroupBits * (n - i), masked, b)]
        = [b \in 0 .. UIntBits - 1 |-> v[b]]
  BY <1>6, <1>7, Zenon
<1> QED BY <1>7, <1>8, <1>9 DEF bytes

CodecInv ==
  /\ val \in UInt /\ room \in Nat
  /\ codec = "encode" => buf = <<>> /\ dec = Zero
  /\ codec = "decode" =>
       buf = IF EncodedBytes(val) > room THEN <<>> ELSE Encoded(val)
  /\ Decodable(val) => RoundTrip

LEMMA CodecInvariant == CodecSpec => []CodecInv
<1>1. CodecInit => CodecInv
  <2>1. MaxBytes \in Nat
    <3>1. UIntBits \in Nat
      BY CodecConstants
    <3>2. UIntBits \div GroupBits \in Nat
      BY <3>1, GroupOfBit
    <3> QED BY <3>2 DEF MaxBytes
  <2> QED BY <2>1 DEF CodecInit, CodecInv, RoundTrip
<1>2. CodecInv /\ [CodecNext]_codecVars => CodecInv'
  <2> SUFFICES ASSUME CodecInv, [CodecNext]_codecVars PROVE CodecInv'
    OBVIOUS
  <2>1. CASE EncodeInteger
    BY <2>1 DEF EncodeInteger, CodecInv, RoundTrip
  <2>2. CASE DecodeInteger
    <3>1. PICK masked \in BOOLEAN : dec' = Decoded(buf, masked)
      BY <2>2 DEF DecodeInteger
    <3>2. /\ codec' = "done" /\ UNCHANGED <<val, room, buf>>
          /\ buf = IF EncodedBytes(val) > room THEN <<>> ELSE Encoded(val)
      BY <2>2 DEF DecodeInteger, CodecInv
    <3>3. CASE EncodedBytes(val) > room
      <4>1. Len(buf) = 0 /\ buf = <<>>
        BY <3>2, <3>3
      <4>2. ~Accepted(buf)
        BY <4>1 DEF Accepted
      <4> QED BY <3>1, <3>2, <3>3, <4>1, <4>2 DEF Decoded, CodecInv, RoundTrip
    <3>4. CASE ~(EncodedBytes(val) > room)
      <4>1. EncodedBytes(val) \in Nat /\ Len(buf) = EncodedBytes(val)
        BY <3>2, <3>4, BytesSuffice DEF CodecInv, Encoded
      <4>2. Decodable(val) => dec' = val
        BY <3>1, <3>2, <3>4, DecodedAgain DEF CodecInv
      <4> QED BY <3>2, <3>4, <4>1, <4>2 DEF CodecInv, RoundTrip
    <3> QED BY <3>3, <3>4
  <2>3. CASE UNCHANGED codecVars
    BY <2>3 DEF codecVars, CodecInv, RoundTrip
  <2> QED BY <2>1, <2>2, <2>3 DEF CodecNext
<1> QED BY <1>1, <1>2, PTL DEF CodecSpec

(* For every width of the type, up to that of int, and every value: what   *)
(* encodeInteger wrote is decoded to the same value, and a buffer that is  *)
(* too short is left alone and decoded to zero.                            *)
THEOREM EncodedIsDecoded ==
  ASSUME UIntBits <= IntBits PROVE CodecSpec => []RoundTrip
<1>1. CodecInv => RoundTrip
  BY DEF CodecInv, Decodable
<1> QED BY <1>1, CodecInvariant, PTL

(* The same holds for a type of any width, 64 bits included, of the values *)
(* that need not the sign bit of int nor any above it.                     *)
THEOREM BelowSignIsDecoded ==
  CodecSpec =>
    []((\A b \in 0 .. UIntBits - 1 : val[b] => b < IntBits - 1) => RoundTrip)
<1>1. CodecInv =>
        ((\A b \in 0 .. UIntBits - 1 : val[b] => b < IntBits - 1) => RoundTrip)
  BY DEF CodecInv, Decodable
<1> QED BY <1>1, CodecInvariant, PTL
=============================================================================
