------------------------------ MODULE Variant ------------------------------
(***************************************************************************)
(* variant.h: toy::variant<Types...>: raw storage, and the index of the    *)
(* alternative that lives in it.  Values come as temporaries, and moving   *)
(* one in may throw; assign() takes nothing but rvalues.                   *)
(***************************************************************************)
EXTENDS Integers

CONSTANTS
  Alternatives,  \* positions in Types...
  MayThrow,      \* those whose move constructor may throw
  npos           \* std::variant_npos

ASSUME VariantConstants ==
  MayThrow \subseteq Alternatives /\ npos \notin Alternatives

VARIABLES
  variant,       \* "none", "alive", or "terminated" with the program
  type_index_,
  storage_,      \* what lives in the storage, or npos
  living,        \* objects that were constructed and not destroyed
  used           \* destructors and get()s: as what, and what was there

variantVars == <<variant, type_index_, storage_, living, used>>

VariantInit ==
  /\ variant = "none" /\ type_index_ = npos /\ storage_ = npos
  /\ living = 0 /\ used = {}

(* destroy(): the destructor that the index selects runs on the storage.   *)
Destroyed == IF type_index_ = npos THEN 0 ELSE 1
UsedToDestroy ==
  IF type_index_ = npos THEN used ELSE used \cup {<<type_index_, storage_>>}

ConstructEmpty ==
  /\ variant = "none" /\ variant' = "alive"
  /\ UNCHANGED <<type_index_, storage_, living, used>>

(* From a value; when moving it throws there is no variant to destroy.     *)
ConstructFrom(t) ==
  /\ variant = "none"
  /\ \/ /\ variant' = "alive" /\ living' = living + 1
        /\ type_index_' = t /\ storage_' = t
     \/ t \in MayThrow /\ UNCHANGED <<variant, type_index_, storage_, living>>
  /\ UNCHANGED used

AssignFrom(t) ==
  /\ variant = "alive"
  /\ used' = UsedToDestroy /\ living' = living - Destroyed + 1
  /\ type_index_' = t /\ storage_' = t
  /\ UNCHANGED variant

(* Mutant: operator= is not noexcept, the exception leaves it.             *)
ThrowsOut(t) ==
  /\ variant = "alive" /\ t \in MayThrow
  /\ used' = UsedToDestroy /\ living' = living - Destroyed
  /\ type_index_' = t /\ storage_' = npos
  /\ UNCHANGED variant

(* By then the old value is gone and the index is the new one; operator=   *)
(* is noexcept, and the program ends there.                                *)
AssignThrows(t) ==
  /\ variant = "alive" /\ t \in MayThrow
  /\ used' = UsedToDestroy /\ living' = living - Destroyed
  /\ type_index_' = t /\ storage_' = npos
  /\ variant' = "terminated"

(* get<t>() refers to the storage, or throws and changes nothing.          *)
GetAlternative(t) ==
  /\ variant = "alive" /\ type_index_ = t
  /\ used' = used \cup {<<t, storage_>>}
  /\ UNCHANGED <<variant, type_index_, storage_, living>>

DestructVariant ==
  /\ variant = "alive" /\ variant' = "none"
  /\ used' = UsedToDestroy /\ living' = living - Destroyed
  /\ type_index_' = npos /\ storage_' = npos

VariantNext ==
  \/ ConstructEmpty \/ DestructVariant
  \/ \E t \in Alternatives :
       ConstructFrom(t) \/ AssignFrom(t) \/ AssignThrows(t) \/ GetAlternative(t)

VariantSpec == VariantInit /\ [][VariantNext]_variantVars
-----------------------------------------------------------------------------
(* A variant that can be used holds just what its index says, also when    *)
(* constructors throw: nothing is destroyed or referred to as something    *)
(* else than it is, or when it is not there, and nothing is left alive.    *)
VariantHoldsOne ==
  /\ variant # "terminated" => type_index_ = storage_
  /\ living = IF storage_ = npos THEN 0 ELSE 1
  /\ \A u \in used : u[1] = u[2]
=============================================================================
