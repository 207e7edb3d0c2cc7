----------------------------- MODULE MCObjects -----------------------------
(***************************************************************************)
(* Instances for TLC of the smart pointers, the containers and the encoder *)
(* in one run: none calls another, so a behaviour is about the one that    *)
(* focus names, and the others stand still.                                *)
(***************************************************************************)
EXTENDS SharedPtr, UniquePtr, Variant, LruCache, ToyVector, HybridAllocator,
        StopBitCodec, TLC

VARIABLE focus

allVars == <<focus, ptrVars, uniqueVars, variantVars, lruVars, vectorVars,
             allocatorVars, codecVars>>

AllInit ==
  /\ focus \in {"shared_ptr", "unique_ptr", "variant", "LRUCache", "vector",
                "HybridAllocator", "encoder"}
  /\ PtrInit /\ UniqueInit /\ VariantInit /\ LruInit /\ VectorInit
  /\ AllocatorInit
  /\ focus = "LRUCache" \/ capacity = CHOOSE c \in Capacities : TRUE
  /\ CodecInit /\ (focus = "encoder" \/ (val = Zero /\ room = 0))

(* The components other than the focus.                                    *)
StandStill ==
  /\ focus # "shared_ptr" => UNCHANGED ptrVars
  /\ focus # "unique_ptr" => UNCHANGED uniqueVars
  /\ focus # "variant" => UNCHANGED variantVars
  /\ focus # "LRUCache" => UNCHANGED lruVars
  /\ focus # "vector" => UNCHANGED vectorVars
  /\ focus # "HybridAllocator" => UNCHANGED allocatorVars
  /\ focus # "encoder" => UNCHANGED codecVars

AllNext ==
  /\ UNCHANGED focus
  /\ \/ /\ focus = "shared_ptr" /\ PtrNext
     \/ /\ focus = "unique_ptr" /\ UniqueNext
     \/ /\ focus = "variant" /\ VariantNext
     \/ /\ focus = "LRUCache" /\ LruNext
     \/ /\ focus = "vector" /\ VectorNext
     \/ /\ focus = "HybridAllocator" /\ AllocatorNext
     \/ /\ focus = "encoder" /\ CodecNext
  /\ StandStill

AllSpec == AllInit /\ [][AllNext]_allVars

(* Which thread, shared_ptr or control block it is makes no difference.    *)
Symmetry ==
  Permutations(Threads) \cup Permutations(Locals) \cup Permutations(Blocks)
=============================================================================
