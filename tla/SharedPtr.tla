----------------------------- MODULE SharedPtr -----------------------------
(***************************************************************************)
(* mypointer.h: shared_ptr<T> under several threads, and the one of        *)
(* improved-shared-ptr.h, which counts in the same way (nothing uses its   *)
(* weak_count).  No two threads use one shared_ptr at the same time, but   *)
(* their copies share control blocks.  T is a list node: an object whose   *)
(* only member is a shared_ptr to the next one, set when it is constructed *)
(* and destroyed with it.  A call is a sequence of instructions, one access to shared    *)
(* memory each; the object and the control block made for it go by one     *)
(* number, and numbers, like addresses, are used again.                    *)
(***************************************************************************)
EXTENDS Naturals, Sequences, FiniteSets

CONSTANTS
  Threads,
  Locals,            \* shared_ptr variables
  Blocks,            \* control blocks, each with its object
  Null,              \* nullptr
  AssignsFromInside  \* whether p = p->next is ever written

Handles == Locals \cup Blocks   \* block k also names the member of object k

ASSUME PtrConstants ==
  /\ Locals \cap Blocks = {} /\ Null \notin Handles
  /\ IsFiniteSet(Handles) /\ IsFiniteSet(Threads)
  /\ AssignsFromInside \in BOOLEAN

VARIABLES
  ctrl,    \* ctrl of each shared_ptr
  count,   \* ref_count of each control block
  blocks,  \* control blocks that have not been deleted
  objects, \* objects that have not been deleted
  todo,    \* what is left of the call each thread is in
  using    \* the variables that call names

ptrVars == <<ctrl, count, blocks, objects, todo, using>>

Sub(k) == [op |-> "sub", block |-> k]
Delete(k) == [op |-> "delete", block |-> k]
Free(k) == [op |-> "free", block |-> k]
Read(h, g) == [op |-> "read", to |-> h, from |-> g]
Steal(h, g) == [op |-> "steal", to |-> h, from |-> g]
Add(h) == [op |-> "add", to |-> h]

(* What a shared_ptr does first about what it held.                        *)
LetGo(h) == IF ctrl[h] = Null THEN <<>> ELSE <<Sub(ctrl[h])>>

-----------------------------------------------------------------------------
PtrInit ==
  /\ ctrl = [h \in Handles |-> Null]
  /\ count = [k \in Blocks |-> 0]
  /\ blocks = {} /\ objects = {}
  /\ todo = [t \in Threads |-> <<>>]
  /\ using = [t \in Threads |-> {}]

(* Thread t enters a call that names these variables.                      *)
Enter(t, named, instructions) ==
  /\ todo[t] = <<>>
  /\ \A u \in Threads \ {t} : todo[u] # <<>> => using[u] \cap named = {}
  /\ todo' = [todo EXCEPT ![t] = instructions]
  /\ using' = [using EXCEPT ![t] = named]

(* What can stand on the right of a copy: a variable, or through it the    *)
(* member of its object.                                                   *)
Sources(l) == {l} \cup ({ctrl[l]} \ {Null})

(* shared_ptr(new T(g)): the node copies its member before it is held.     *)
MakeShared(t, h) ==
  \E l \in Locals \ {h}, k \in Blocks \ (blocks \cup objects) :
    /\ ctrl[h] = Null
    /\ Enter(t, {h, l}, <<Read(k, l), Add(k)>>)
    /\ ctrl' = [ctrl EXCEPT ![h] = k]
    /\ count' = [count EXCEPT ![k] = 1]
    /\ blocks' = blocks \cup {k} /\ objects' = objects \cup {k}

(* Mutant: the copy is not counted.                                        *)
CopyUncounted(t, h) ==
  \E l \in Locals \ {h} : \E g \in Sources(l) :
    /\ ctrl[h] = Null
    /\ Enter(t, {h, l}, <<Read(h, g)>>)
    /\ UNCHANGED <<ctrl, count, blocks, objects>>

CopyConstruct(t, h) ==
  \E l \in Locals \ {h} : \E g \in Sources(l) :
    /\ ctrl[h] = Null
    /\ Enter(t, {h, l}, <<Read(h, g), Add(h)>>)
    /\ UNCHANGED <<ctrl, count, blocks, objects>>

CopyAssign(t, h) ==
  \E l \in Locals : \E g \in Sources(l) \ {h} :
    /\ l = h => AssignsFromInside
    /\ Enter(t, {h, l}, LetGo(h) \o <<Read(h, g), Add(h)>>)
    /\ UNCHANGED <<ctrl, count, blocks, objects>>

MoveConstruct(t, h) ==
  \E l \in Locals \ {h} :
    /\ ctrl[h] = Null
    /\ Enter(t, {h, l}, <<Steal(h, l)>>)
    /\ UNCHANGED <<ctrl, count, blocks, objects>>

(* Mutant: what the target held is forgotten.                              *)
MoveOver(t, h) ==
  \E l \in Locals \ {h} :
    /\ Enter(t, {h, l}, <<Steal(h, l)>>)
    /\ UNCHANGED <<ctrl, count, blocks, objects>>

MoveAssign(t, h) ==
  \E l \in Locals \ {h} :
    /\ Enter(t, {h, l}, LetGo(h) \o <<Steal(h, l)>>)
    /\ UNCHANGED <<ctrl, count, blocks, objects>>

(* The destructor, and reset().                                            *)
Destruct(t, h) ==
  /\ ctrl[h] # Null
  /\ Enter(t, {h}, LetGo(h))
  /\ ctrl' = [ctrl EXCEPT ![h] = Null]
  /\ UNCHANGED <<count, blocks, objects>>

(* Of improved-shared-ptr.h: swap, and reset to nothing or to a new node,  *)
(* which is a swap with a temporary that is then destroyed.                *)
Swap(t, h) ==
  \E l \in Locals \ {h} :
    /\ Enter(t, {h, l}, <<>>)
    /\ ctrl' = [ctrl EXCEPT ![h] = ctrl[l], ![l] = ctrl[h]]
    /\ UNCHANGED <<count, blocks, objects>>

ResetToNew(t, h) ==
  \E l \in Locals \ {h}, k \in Blocks \ (blocks \cup objects) :
    /\ ctrl[h] # Null
    /\ Enter(t, {h, l}, <<Read(k, l), Add(k)>> \o LetGo(h))
    /\ ctrl' = [ctrl EXCEPT ![h] = k]
    /\ count' = [count EXCEPT ![k] = 1]
    /\ blocks' = blocks \cup {k} /\ objects' = objects \cup {k}

(* Of improved-shared-ptr.h: without memory for a control block, the       *)
(* constructor deletes the new node, and reset leaves what it should reset.*)
MakeFails(t, l) ==
  \E k \in Blocks \ (blocks \cup objects) :
    /\ Enter(t, {l}, <<Read(k, l), Add(k), Delete(k)>>)
    /\ objects' = objects \cup {k}
    /\ UNCHANGED <<ctrl, count, blocks>>
-----------------------------------------------------------------------------
Next1(t, op) == todo[t] # <<>> /\ Head(todo[t]).op = op
Then(t, more) == todo' = [todo EXCEPT ![t] = more \o Tail(@)]

(* Mutant: the count is compared as it is after the decrement.             *)
TestAfterSub(t) ==
  /\ Next1(t, "sub")
  /\ LET k == Head(todo[t]).block IN
       /\ count' = [count EXCEPT ![k] = @ - 1]
       /\ Then(t, IF count'[k] = 1 THEN <<Delete(k), Free(k)>> ELSE <<>>)
  /\ UNCHANGED <<ctrl, blocks, objects, using>>

(* decrement_ref: whoever takes the last count away deletes.               *)
DecrementRef(t) ==
  /\ Next1(t, "sub")
  /\ LET k == Head(todo[t]).block IN
       /\ count' = [count EXCEPT ![k] = @ - 1]
       /\ Then(t, IF count[k] = 1 THEN <<Delete(k), Free(k)>> ELSE <<>>)
  /\ UNCHANGED <<ctrl, blocks, objects, using>>

(* delete ptr: the object's member is destroyed with it.                   *)
DeleteObject(t) ==
  /\ Next1(t, "delete")
  /\ LET k == Head(todo[t]).block IN
       /\ objects' = objects \ {k}
       /\ ctrl' = [ctrl EXCEPT ![k] = Null]
       /\ Then(t, LetGo(k))
  /\ UNCHANGED <<count, blocks, using>>

DeleteBlock(t) ==
  /\ Next1(t, "free")
  /\ blocks' = blocks \ {Head(todo[t]).block}
  /\ Then(t, <<>>)
  /\ UNCHANGED <<ctrl, count, objects, using>>

ReadCtrl(t) ==
  /\ Next1(t, "read")
  /\ LET i == Head(todo[t]) IN ctrl' = [ctrl EXCEPT ![i.to] = ctrl[i.from]]
  /\ Then(t, <<>>)
  /\ UNCHANGED <<count, blocks, objects, using>>

StealCtrl(t) ==
  /\ Next1(t, "steal")
  /\ LET i == Head(todo[t]) IN
       ctrl' = [ctrl EXCEPT ![i.to] = ctrl[i.from], ![i.from] = Null]
  /\ Then(t, <<>>)
  /\ UNCHANGED <<count, blocks, objects, using>>

IncrementRef(t) ==
  /\ Next1(t, "add")
  /\ LET k == ctrl[Head(todo[t]).to] IN
       count' = IF k = Null THEN count ELSE [count EXCEPT ![k] = @ + 1]
  /\ Then(t, <<>>)
  /\ UNCHANGED <<ctrl, blocks, objects, using>>

PtrCall(t, h) ==
  \/ MakeShared(t, h) \/ CopyConstruct(t, h) \/ CopyAssign(t, h)
  \/ MoveConstruct(t, h) \/ MoveAssign(t, h) \/ Destruct(t, h)
  \/ Swap(t, h) \/ ResetToNew(t, h) \/ MakeFails(t, h)

PtrStep(t) ==
  \/ DecrementRef(t) \/ DeleteObject(t) \/ DeleteBlock(t)
  \/ ReadCtrl(t) \/ StealCtrl(t) \/ IncrementRef(t)

PtrNext == \E t \in Threads : PtrStep(t) \/ \E h \in Locals : PtrCall(t, h)

PtrSpec == PtrInit /\ [][PtrNext]_ptrVars
-----------------------------------------------------------------------------
Pending(t) == {todo[t][i] : i \in 1 .. Len(todo[t])}

(* shared_ptr objects that hold no count yet, or no longer.                *)
Uncounted ==
  {h \in Handles : \E t \in Threads : \E i \in Pending(t) :
     i.op \in {"read", "steal", "add"} /\ i.to = h}

PendingSubs(k) ==
  {p \in Threads \X (1 .. 5) :
     p[2] <= Len(todo[p[1]]) /\ todo[p[1]][p[2]] = Sub(k)}

(* Every count is the number of shared_ptrs that refer to the block, plus  *)
(* the decrements that threads are about to make.                          *)
CountsAreExact ==
  \A k \in blocks :
    count[k] = Cardinality({h \in Handles \ Uncounted : ctrl[h] = k})
                 + Cardinality(PendingSubs(k))

(* The assertions of ~control_block: nobody holds it, its object is gone.  *)
BlockAssertions ==
  \A t \in Threads :
    Next1(t, "free") =>
      LET k == Head(todo[t]).block IN count[k] = 0 /\ k \notin objects

(* No thread is about to touch what has been deleted, or to delete twice,  *)
(* and a block goes when nobody holds it and its object is gone.           *)
NoUseAfterFree ==
  /\ BlockAssertions
  /\ \A t \in Threads :
       todo[t] # <<>> =>
         LET i == Head(todo[t]) IN
           /\ i.op \in {"sub", "free"} => i.block \in blocks
           /\ i.op = "delete" => i.block \in objects
           /\ i.op \in {"read", "steal"} => {i.to, i.from} \cap Blocks \subseteq objects
           /\ i.op = "add" => ctrl[i.to] \in blocks \cup {Null}

(* Once no variable refers to anything, everything has been deleted: every *)
(* list, whoever of several threads let go of it last.                     *)
EverythingIsDeleted ==
  (\A l \in Locals : ctrl[l] = Null) /\ (\A t \in Threads : todo[t] = <<>>)
    => blocks = {} /\ objects = {}
=============================================================================
