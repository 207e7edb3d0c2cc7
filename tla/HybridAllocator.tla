-------------------------- MODULE HybridAllocator --------------------------
(***************************************************************************)
(* hybridallocator.h: HybridAllocator, a stack of StackThreshold elements  *)
(* inside the object and the heap for what does not fit.  Its caller gives *)
(* each block back once, with the number of elements it asked for, and     *)
(* asks for at least one.                                                  *)
(***************************************************************************)
EXTENDS Naturals, FiniteSets

CONSTANTS
  StackThreshold,
  MaxBlock,       \* bound: the n of one allocate
  MaxOnHeap       \* bound: blocks on the heap

ASSUME AllocatorConstants == {StackThreshold, MaxBlock, MaxOnHeap} \subseteq Nat

VARIABLES
  stackCount,
  onStack,   \* the blocks of stackStorage that are in use
  onHeap     \* the number of blocks from operator new that are in use

allocatorVars == <<stackCount, onStack, onHeap>>

AllocatorInit == stackCount = 0 /\ onStack = {} /\ onHeap = 0

Top(block) == block.first + block.n

AllocateOnStack(n) ==
  /\ stackCount + n <= StackThreshold
  /\ onStack' = onStack \cup {[first |-> stackCount, n |-> n]}
  /\ stackCount' = stackCount + n
  /\ UNCHANGED onHeap

AllocateOnHeap(n) ==
  /\ stackCount + n > StackThreshold
  /\ onHeap < MaxOnHeap /\ onHeap' = onHeap + 1
  /\ UNCHANGED <<stackCount, onStack>>

(* Mutant: the room of any block comes back, not only of the one on top.   *)
DeallocateAny(block) ==
  /\ stackCount' = stackCount - block.n
  /\ onStack' = onStack \ {block}
  /\ UNCHANGED onHeap

(* Only the block on top gives its room back; another is lost to the stack.*)
DeallocateOnStack(block) ==
  /\ stackCount' = IF Top(block) = stackCount THEN stackCount - block.n
                   ELSE stackCount
  /\ onStack' = onStack \ {block}
  /\ UNCHANGED onHeap

DeallocateOnHeap ==
  /\ onHeap > 0 /\ onHeap' = onHeap - 1
  /\ UNCHANGED <<stackCount, onStack>>

AllocatorNext ==
  \/ \E n \in 1 .. MaxBlock : AllocateOnStack(n) \/ AllocateOnHeap(n)
  \/ \E block \in onStack : DeallocateOnStack(block)
  \/ DeallocateOnHeap

AllocatorSpec == AllocatorInit /\ [][AllocatorNext]_allocatorVars
-----------------------------------------------------------------------------
(* Blocks that are in use never overlap, in whatever order they were given *)
(* back, and none reaches beyond the top of the stack, or the top beyond   *)
(* the storage.                                                            *)
BlocksApart ==
  /\ stackCount <= StackThreshold
  /\ \A a \in onStack : Top(a) <= stackCount
  /\ \A a, b \in onStack : a = b \/ Top(a) <= b.first \/ Top(b) <= a.first
=============================================================================
