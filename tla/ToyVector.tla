----------------------------- MODULE ToyVector -----------------------------
(***************************************************************************)
(* myvector.h: toy::vector<T> with std::allocator, for a T that does not   *)
(* throw.  An array is raw memory whose cells each hold an element or      *)
(* none: allocating it, constructing, moving and destroying elements in it *)
(* and giving it back is all the vector's own work.                        *)
(***************************************************************************)
EXTENDS Naturals, Sequences, FiniteSets

CONSTANTS
  Vectors,        \* variables
  Arrays,         \* addresses the allocator returns
  NoArray,        \* nullptr
  Elements,       \* values of T
  Default,        \* the one of T()
  init_capacity,
  MaxSize         \* bound: elements of a vector, and what is reserved

Raw == "raw"  \* a cell without an element

(* The allocator never runs out of memory: while a vector gets a new array *)
(* every vector may still have one.                                        *)
ASSUME VectorConstants ==
  /\ NoArray \notin Arrays /\ Default \in Elements /\ Raw \notin Elements
  /\ IsFiniteSet(Vectors) /\ IsFiniteSet(Arrays)
  /\ Cardinality(Arrays) > Cardinality(Vectors)
  /\ init_capacity \in Nat /\ init_capacity >= 2
  /\ MaxSize \in Nat

VARIABLES
  vec,     \* the members of each vector that exists
  memory,  \* the cells of each array that is allocated
  expect,  \* the values each vector that exists should hold
  broken   \* whether an element was constructed outside an array: behaviour
           \* is undefined from there on, and the model ends

vectorVars == <<vec, memory, expect, broken>>

Exist == DOMAIN vec
Vec(arr, capacity, size) ==
  [arr |-> arr, d_capacity |-> capacity, d_size |-> size]
Held(v) == [i \in 1 .. vec[v].d_size |-> memory[vec[v].arr][i]]

Fresh == CHOOSE a \in Arrays : a \notin DOMAIN memory
Filled(elements, n) ==
  [i \in 1 .. n |-> IF i <= Len(elements) THEN elements[i] ELSE Raw]
Added(f, x, y) == [z \in DOMAIN f \cup {x} |-> IF z = x THEN y ELSE f[z]]
Except(f, x) == [y \in DOMAIN f \ {x} |-> f[y]]

(* The allocator starts with nothing allocated.                            *)
VectorInit ==
  /\ vec = <<>> /\ memory = <<>> /\ expect = <<>>
  /\ broken = FALSE
-----------------------------------------------------------------------------
Construct(v) ==
  /\ v \notin Exist
  /\ memory' = Added(memory, Fresh, Filled(<<>>, init_capacity))
  /\ vec' = Added(vec, v, Vec(Fresh, init_capacity, 0))
  /\ expect' = Added(expect, v, <<>>)
  /\ UNCHANGED broken

(* A copy has an array of its own, as long as the one it copies.           *)
CopyOf(w) == Vec(Fresh, vec[w].d_capacity, vec[w].d_size)
WithCopy(w) == Added(memory, Fresh, Filled(Held(w), vec[w].d_capacity))

CopyConstructVector(v, w) ==
  /\ v \notin Exist
  /\ memory' = WithCopy(w)
  /\ vec' = Added(vec, v, CopyOf(w))
  /\ expect' = Added(expect, v, expect[w])
  /\ UNCHANGED broken

(* The target swaps with a temporary copy, which takes its array along.    *)
CopyAssignVector(v, w) ==
  /\ v \in Exist \ {w}
  /\ memory' = Except(WithCopy(w), vec[v].arr)
  /\ vec' = [vec EXCEPT ![v] = CopyOf(w)]
  /\ expect' = [expect EXCEPT ![v] = expect[w]]
  /\ UNCHANGED broken

(* What a move leaves: no array and no elements, and the old capacity.     *)
MovedFrom(w) == Vec(NoArray, vec[w].d_capacity, 0)

MoveConstructVector(v, w) ==
  /\ v \notin Exist
  /\ vec' = Added([vec EXCEPT ![w] = MovedFrom(w)], v, vec[w])
  /\ expect' = Added([expect EXCEPT ![w] = <<>>], v, expect[w])
  /\ UNCHANGED <<memory, broken>>

MoveAssignVector(v, w) ==
  /\ v \in Exist \ {w}
  /\ memory' = Except(memory, vec[v].arr)
  /\ vec' = [vec EXCEPT ![v] = vec[w], ![w] = MovedFrom(w)]
  /\ expect' = [expect EXCEPT ![v] = expect[w], ![w] = <<>>]
  /\ UNCHANGED broken

(* Mutant: the sizes stay where they were.                                 *)
SwapArrays(v, w) ==
  /\ v \in Exist
  /\ vec' = [vec EXCEPT ![v] = [vec[w] EXCEPT !.d_size = vec[v].d_size],
                        ![w] = [vec[v] EXCEPT !.d_size = vec[w].d_size]]
  /\ expect' = [expect EXCEPT ![v] = expect[w], ![w] = expect[v]]
  /\ UNCHANGED <<memory, broken>>

SwapVectors(v, w) ==
  /\ v \in Exist
  /\ vec' = [vec EXCEPT ![v] = vec[w], ![w] = vec[v]]
  /\ expect' = [expect EXCEPT ![v] = expect[w], ![w] = expect[v]]
  /\ UNCHANGED <<memory, broken>>

DestructVector(v) ==
  /\ memory' = Except(memory, vec[v].arr)
  /\ vec' = Except(vec, v) /\ expect' = Except(expect, v)
  /\ UNCHANGED broken
-----------------------------------------------------------------------------
(* reserve: what v and the memory are once there is room for n elements.   *)
(* The old array is given back with the new capacity for its size, which   *)
(* std::allocator makes no use of.                                         *)
Reserved(v, n) ==
  IF n <= vec[v].d_capacity THEN [members |-> vec[v], memory |-> memory]
  ELSE [members |-> Vec(Fresh, n, vec[v].d_size),
        memory |-> Except(Added(memory, Fresh, Filled(Held(v), n)), vec[v].arr)]

Reserve(v, n) ==
  /\ vec' = [vec EXCEPT ![v] = Reserved(v, n).members]
  /\ memory' = Reserved(v, n).memory
  /\ UNCHANGED <<expect, broken>>

(* Make room for n elements, and construct these behind those there are.   *)
Extend(v, n, elements) ==
  LET x == Reserved(v, n).members
      m == Reserved(v, n).memory
      fits == x.arr \in DOMAIN m /\ x.d_size + Len(elements) <= Len(m[x.arr])
  IN
    /\ vec' = [vec EXCEPT ![v] = [x EXCEPT !.d_size = @ + Len(elements)]]
    /\ expect' = [expect EXCEPT ![v] = @ \o elements]
    /\ broken' = ~fits
    /\ memory' = IF fits
                 THEN [m EXCEPT ![x.arr] =
                         Filled(SubSeq(@, 1, x.d_size) \o elements, Len(@))]
                 ELSE m

(* growth_factor, a float: exact for sizes below 2^24.                     *)
Growth(n) == (3 * n) \div 2

(* push_back and emplace_back, with a value that is not one of the         *)
(* vector's own elements.                                                  *)
PushBack(v, e) ==
  /\ vec[v].d_size < MaxSize
  /\ Extend(v, IF vec[v].d_size >= vec[v].d_capacity
               THEN Growth(vec[v].d_size) ELSE 0, <<e>>)

ResizeUp(v, n) ==
  /\ n > vec[v].d_size
  /\ Extend(v, IF vec[v].d_capacity > n THEN vec[v].d_capacity ELSE Growth(n),
            [i \in 1 .. n - vec[v].d_size |-> Default])

ResizeDown(v, n) ==
  /\ n <= vec[v].d_size /\ vec[v].arr # NoArray
  /\ vec' = [vec EXCEPT ![v].d_size = n]
  /\ memory' = [memory EXCEPT ![vec[v].arr] = Filled(SubSeq(@, 1, n), Len(@))]
  /\ expect' = [expect EXCEPT ![v] = SubSeq(@, 1, n)]
  /\ UNCHANGED broken

VectorNext ==
  /\ ~broken
  /\ \/ \E v \in Vectors : Construct(v)
     \/ \E v \in Vectors, w \in Exist :
          \/ CopyConstructVector(v, w) \/ CopyAssignVector(v, w)
          \/ MoveConstructVector(v, w) \/ MoveAssignVector(v, w)
          \/ SwapVectors(v, w)
     \/ \E v \in Exist :
          \/ DestructVector(v)
          \/ \E e \in Elements : PushBack(v, e)
          \/ \E n \in 0 .. MaxSize :
               Reserve(v, n) \/ ResizeUp(v, n) \/ ResizeDown(v, n)

VectorSpec == VectorInit /\ [][VectorNext]_vectorVars
-----------------------------------------------------------------------------
(* Every array belongs to just one vector, has the capacity that vector    *)
(* takes it to have, and holds elements in its first d_size cells and in   *)
(* no other: none is leaked, shared or destroyed twice.                    *)
StorageMatches ==
  /\ DOMAIN memory = {vec[v].arr : v \in Exist} \ {NoArray}
  /\ \A v, w \in Exist : vec[v].arr = vec[w].arr => v = w \/ vec[v].arr = NoArray
  /\ \A v \in Exist :
       IF vec[v].arr = NoArray THEN vec[v].d_size = 0
       ELSE /\ Len(memory[vec[v].arr]) = vec[v].d_capacity
            /\ \A i \in 1 .. vec[v].d_capacity :
                 memory[vec[v].arr][i] # Raw <=> i <= vec[v].d_size

(* The one way to construct an element outside an array: a vector that was *)
(* moved from has no array and a capacity, and is extended within it.      *)
ExtendedWithoutArray ==
  \E v \in Exist : vec[v].arr = NoArray /\ vec[v].d_size > 0

(* A vector holds what a sequence would, what was pushed, copied, moved or *)
(* swapped into it, through any reallocation on the way, in storage of its *)
(* own, until somebody extends one that was moved from.                    *)
ContentKept ==
  IF broken THEN ExtendedWithoutArray
  ELSE StorageMatches /\ \A v \in Exist : Held(v) = expect[v]
=============================================================================
