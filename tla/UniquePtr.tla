----------------------------- MODULE UniquePtr -----------------------------
(***************************************************************************)
(* mypointer.h: unique_ptr, with the variables of one thread and objects   *)
(* that hold one unique_ptr each: what a pointer owns is a list.  A raw    *)
(* pointer that release returned is its caller's, who gives it to another  *)
(* unique_ptr.                                                             *)
(***************************************************************************)
EXTENDS Naturals, FiniteSets

CONSTANTS
  Names,          \* variables
  Objects,        \* what new may return; also the name of the member of each
  NullPtr,
  AssignsOwnPart  \* whether p = std::move(p->next) and the like are written

ASSUME UniqueConstants ==
  /\ NullPtr \notin Objects /\ Names \cap Objects = {}
  /\ AssignsOwnPart \in BOOLEAN

VARIABLES
  ptr,        \* ptr of each unique_ptr that exists, in variables and objects
  raw,        \* objects whose raw pointer a caller holds
  misused     \* whether memory was used, or deleted, after it was deleted

uniqueVars == <<ptr, raw, misused>>

UniqueInit == ptr = [p \in {} |-> NullPtr] /\ raw = {} /\ misused = FALSE

Pointers == DOMAIN ptr
With(p, o) == [q \in Pointers \cup {p} |-> IF q = p THEN o ELSE ptr[q]]
Outside(gone, m) == [p \in DOMAIN m \ gone |-> m[p]]

(* What delete o destroys, when the pointers are m: o, what its member     *)
(* owns, and so on; nothing if o is null.                                  *)
DeletedWith(m, o) ==
  {x \in Objects :
     o # NullPtr /\ \A S \in SUBSET Objects :
       o \in S /\ (\A y \in S \cap DOMAIN m : m[y] \in S \cup {NullPtr})
         => x \in S}

(* On the way there is something that does not exist, or again o.          *)
DeleteFails(m, o) ==
  \E x \in DeletedWith(m, o) : x \in DOMAIN m => m[x] = o

DeleteOwned(m, o) ==
  /\ ptr' = Outside(DeletedWith(m, o), m)
  /\ misused' = (misused \/ DeleteFails(m, o))

(* new.                                                                    *)
NewObject(o) ==
  /\ o \notin Pointers
  /\ ptr' = With(o, NullPtr) /\ raw' = raw \cup {o}
  /\ UNCHANGED misused

(* Both constructors: of nothing, and of a raw pointer.                    *)
ConstructUnique(p, o) ==
  /\ p \notin Pointers /\ o \in raw \cup {NullPtr}
  /\ ptr' = With(p, o) /\ raw' = raw \ {o}
  /\ UNCHANGED misused

MoveConstructUnique(p, q) ==
  /\ p \notin Pointers
  /\ ptr' = [With(p, ptr[q]) EXCEPT ![q] = NullPtr]
  /\ UNCHANGED <<raw, misused>>

(* Mutant: the source keeps its pointer.                                   *)
CopyAssignUnique(p, q) ==
  LET gone == DeletedWith(ptr, ptr[p]) IN
  /\ p # q /\ ({p, q} \cap gone = {} \/ AssignsOwnPart)
  /\ misused' = (misused \/ DeleteFails(ptr, ptr[p]) \/ {p, q} \cap gone # {})
  /\ ptr' = Outside(gone, [ptr EXCEPT ![p] = ptr[q]])
  /\ UNCHANGED raw

(* The old object goes first, perhaps with the source, or the target, in   *)
(* it; then the one is read and both are written.                          *)
MoveAssignUnique(p, q) ==
  LET gone == DeletedWith(ptr, ptr[p]) IN
  /\ p # q /\ ({p, q} \cap gone = {} \/ AssignsOwnPart)
  /\ misused' = (misused \/ DeleteFails(ptr, ptr[p]) \/ {p, q} \cap gone # {})
  /\ ptr' = Outside(gone, [ptr EXCEPT ![p] = ptr[q], ![q] = NullPtr])
  /\ UNCHANGED raw

(* The old object goes last.                                               *)
Reset(p, o) ==
  /\ o \in raw \cup {NullPtr}
  /\ raw' = raw \ {o}
  /\ DeleteOwned([ptr EXCEPT ![p] = o], ptr[p])

Release(p) ==
  /\ ptr[p] # NullPtr
  /\ raw' = raw \cup {ptr[p]} /\ ptr' = [ptr EXCEPT ![p] = NullPtr]
  /\ UNCHANGED misused

DestructUnique(p) ==
  /\ DeleteOwned(Outside({p}, ptr), ptr[p])
  /\ UNCHANGED raw

UniqueNext ==
  \/ \E o \in Objects : NewObject(o)
  \/ \E p \in Names :
       \/ \E o \in Objects \cup {NullPtr} : ConstructUnique(p, o)
       \/ \E q \in Pointers : MoveConstructUnique(p, q)
  \/ \E p \in Pointers :
       \/ \E q \in Pointers : MoveAssignUnique(p, q)
       \/ \E o \in Objects \cup {NullPtr} : Reset(p, o)
       \/ Release(p)
       \/ p \in Names /\ DestructUnique(p)

UniqueSpec == UniqueInit /\ [][UniqueNext]_uniqueVars
-----------------------------------------------------------------------------
(* Every object that exists has one owner, a unique_ptr or the caller of   *)
(* release, however objects are moved in and out of lists; nothing is      *)
(* deleted twice, used or pointed to after it was deleted.                 *)
OwnedOnce ==
  /\ ~misused
  /\ Pointers \cap Objects = raw \cup ({ptr[p] : p \in Pointers} \ {NullPtr})
  /\ \A p \in Pointers : ptr[p] \notin raw
  /\ \A p, q \in Pointers : ptr[p] = ptr[q] => p = q \/ ptr[p] = NullPtr
=============================================================================
