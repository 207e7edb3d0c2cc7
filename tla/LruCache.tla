------------------------------ MODULE LruCache ------------------------------
(***************************************************************************)
(* lru.h: LRUCache, a list of nodes with the most recently used first, and *)
(* a table of iterators into it.  An iterator is the address of a node,    *)
(* and addresses are used again: what the table says of a key and what the *)
(* list holds are separate state that every operation has to keep in step. *)
(***************************************************************************)
EXTENDS Integers, Sequences, FiniteSets, SequencesExt

CONSTANTS
  Key, Value,
  Address,     \* addresses of list nodes
  Capacities   \* what the constructor is given

ASSUME LruConstants ==
  /\ Capacities \subseteq Int
  /\ IsFiniteSet(Address) /\ \A c \in Capacities : Cardinality(Address) >= c

VARIABLES
  capacity,   \* capacity
  nodes,      \* nodes: what each address in the list holds, front to back
  table,      \* table: an address for each key it contains
  size,       \* size
  uses,       \* every key ever put, with its last value, last used first
  undefined   \* whether the behaviour of the program is undefined

lruVars == <<capacity, nodes, table, size, uses, undefined>>


InTable(k) == k \in DOMAIN table
Without(list, a) == RemoveFirstMatch(list, LAMBDA n : n.at = a)
NodeAt(a) == CHOOSE n \in {nodes[i] : i \in 1 .. Len(nodes)} : n.at = a

(* table[k] = a, and table.erase(k).                                       *)
Entry(t, k, a) == [x \in DOMAIN t \cup {k} |-> IF x = k THEN a ELSE t[x]]
Erase(t, k) == [x \in DOMAIN t \ {k} |-> t[x]]

(* push_front into a list, at an address none of its nodes has.            *)
PushFront(list, k, v) ==
  \E a \in Address :
    /\ \A i \in 1 .. Len(list) : list[i].at # a
    /\ nodes' = <<[at |-> a, k |-> k, v |-> v]>> \o list

(* The history: k was given v, or its value was looked up.                 *)
LastUse(k) == CHOOSE u \in {uses[i] : i \in 1 .. Len(uses)} : u.k = k
Others(k) == RemoveFirstMatch(uses, LAMBDA u : u.k = k)
WasPut(k, v) == uses' = <<[k |-> k, v |-> v]>> \o Others(k)
WasFound(k) == uses' = <<LastUse(k)>> \o Others(k)

Begin == Head(nodes').at
-----------------------------------------------------------------------------
LruInit ==
  /\ capacity \in Capacities /\ undefined = FALSE
  /\ nodes = <<>> /\ table = [k \in {} |-> 0] /\ size = 0
  /\ uses = <<>>

(* put of a key the cache has: its node is replaced by one in front.       *)
PutAgain(k, v) ==
  /\ InTable(k)
  /\ PushFront(Without(nodes, table[k]), k, v)
  /\ WasPut(k, v)
  /\ table' = Entry(table, k, Begin)
  /\ UNCHANGED <<capacity, size, undefined>>

(* put of a new key while there is room.                                   *)
PutNew(k, v) ==
  /\ ~InTable(k) /\ size < capacity
  /\ PushFront(nodes, k, v)
  /\ WasPut(k, v)
  /\ table' = Entry(table, k, Begin)
  /\ size' = size + 1
  /\ UNCHANGED <<capacity, undefined>>

(* Mutant: the front is evicted.                                           *)
EvictNewest(k, v) ==
  /\ ~InTable(k) /\ size >= capacity /\ nodes # <<>>
  /\ PushFront(Tail(nodes), k, v)
  /\ WasPut(k, v)
  /\ table' = Entry(Erase(table, Head(nodes).k), k, Begin)
  /\ UNCHANGED <<capacity, size, undefined>>

(* put of a new key into a full cache: the last node and its entry go.     *)
PutEvicts(k, v) ==
  /\ ~InTable(k) /\ size >= capacity /\ nodes # <<>>
  /\ PushFront(SubSeq(nodes, 1, Len(nodes) - 1), k, v)
  /\ WasPut(k, v)
  /\ table' = Entry(Erase(table, nodes[Len(nodes)].k), k, Begin)
  /\ UNCHANGED <<capacity, size, undefined>>

(* put into a cache of no capacity: there is no last node to evict.        *)
PutIntoNone(k) ==
  /\ ~InTable(k) /\ size >= capacity /\ nodes = <<>>
  /\ undefined' = TRUE
  /\ UNCHANGED <<capacity, nodes, table, size, uses>>

(* get of a key the cache has: its node moves to the front.  Of any other   *)
(* key it throws and changes nothing.                                      *)
Get(k) ==
  /\ InTable(k)
  /\ PushFront(Without(nodes, table[k]), k, NodeAt(table[k]).v)
  /\ table' = Entry(table, k, Begin)
  /\ WasFound(k)
  /\ UNCHANGED <<capacity, size, undefined>>

LruNext ==
  /\ ~undefined
  /\ \E k \in Key :
       \/ Get(k) \/ PutIntoNone(k)
       \/ \E v \in Value : PutAgain(k, v) \/ PutNew(k, v) \/ PutEvicts(k, v)

LruSpec == LruInit /\ [][LruNext]_lruVars
-----------------------------------------------------------------------------
(* The table has an entry for each key in the list and no other, and it is *)
(* the address of that key's only node: no iterator dangles.  size is the  *)
(* number of nodes.                                                        *)
TableFindsNodes ==
  /\ Len(nodes) = Cardinality(DOMAIN table) /\ size = Len(nodes)
  /\ \A k \in DOMAIN table :
       \E i \in 1 .. Len(nodes) : nodes[i].at = table[k] /\ nodes[i].k = k

(* The cache holds exactly the most recently used of all keys ever put, as *)
(* many as fit, each with the value last put, in the order of their use,   *)
(* and its table finds them.  Only a cache of no capacity is ever made to  *)
(* evict from an empty list.                                               *)
Fitting == IF Len(uses) < capacity THEN Len(uses) ELSE capacity

MostRecentKept ==
  IF undefined THEN capacity <= 0
  ELSE /\ TableFindsNodes
       /\ [i \in 1 .. Len(nodes) |-> [k |-> nodes[i].k, v |-> nodes[i].v]]
            = SubSeq(uses, 1, Fitting)
=============================================================================
