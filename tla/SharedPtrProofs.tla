-------------------------- MODULE SharedPtrProofs --------------------------
(***************************************************************************)
(* Proofs about SharedPtr for any threads, variables and control blocks,   *)
(* where p = p->next is never written: the counts are exact, nothing is    *)
(* used after it was deleted, and in the end everything has been.          *)
(***************************************************************************)
EXTENDS SharedPtr, Integers, FiniteSetTheorems, WellFoundedInduction, TLAPS

Instructions ==
  {Sub(k) : k \in Blocks} \cup {Delete(k) : k \in Blocks}
    \cup {Free(k) : k \in Blocks} \cup {Add(h) : h \in Handles}
    \cup {Read(h, g) : h \in Handles, g \in Handles}
    \cup {Steal(h, g) : h \in Locals, g \in Locals}

PtrTypeOK ==
  /\ ctrl \in [Handles -> Blocks \cup {Null}]
  /\ count \in [Blocks -> Int]
  /\ blocks \subseteq Blocks /\ objects \subseteq Blocks
  /\ todo \in [Threads -> Seq(Instructions)]
  /\ using \in [Threads -> SUBSET Locals]

(* What a thread has still to do, counted from the end of the call: in     *)
(* this way an instruction keeps its place until its turn comes.           *)
Length(t) == Len(todo[t])
Places(t) == 0 .. Len(todo[t]) - 1
Due(t, d) == todo[t][Len(todo[t]) - d]
Writes(t, d) == Due(t, d).op \in {"read", "steal", "add"}
Ends(t, d) == Due(t, d).op \in {"sub", "delete"}
IsDue(x) == \E t \in Threads : \E d \in Places(t) : Due(t, d) = x

(* A shared_ptr that holds a count of what it refers to.                   *)
Counted(h) ==
  \A t \in Threads : \A d \in Places(t) : Writes(t, d) => Due(t, d).to # h
Holders(k) == {h \in Handles : Counted(h) /\ ctrl[h] = k}
Subs(k) == {t \in Threads : \E d \in Places(t) : Due(t, d) = Sub(k)}

(* What t's call can rely on: a variable it names, or the member of what    *)
(* one of these refers to.                                                 *)
Held(t, g) ==
  Counted(g) /\ (g \in using[t] \/ \E l \in using[t] : Counted(l) /\ ctrl[l] = g)

(* A call writes one shared_ptr, at its end, or before the one thing it    *)
(* lets go of.                                                             *)
InTurn ==
  \A t \in Threads : \A d \in Places(t) :
    /\ Due(t, d).op = "read" => d > 0 /\ Due(t, d - 1) = Add(Due(t, d).to)
    /\ Due(t, d).op = "steal" => d = 0
    /\ Due(t, d).op = "add" =>
         /\ d + 1 < Length(t) => Due(t, d + 1).op = "read"
         /\ \A e \in 0 .. d - 1 : ~Writes(t, e)
    /\ Ends(t, d) =>
         d + 3 >= Length(t) /\ \A e \in Places(t) : Ends(t, e) => e = d

NamesApart ==
  \A t, u \in Threads :
    Length(t) > 0 /\ Length(u) > 0 => t = u \/ using[t] \cap using[u] = {}

(* What is written is the call's own: a variable, or the member of an      *)
(* object that nobody but this call knows.                                 *)
Targets ==
  \A t \in Threads : \A d \in Places(t) :
    Writes(t, d) =>
      LET h == Due(t, d).to IN
        /\ h \in Locals => h \in using[t]
        /\ h \in Blocks =>
             /\ h \in objects
             /\ \A l \in Handles : Counted(l) /\ ctrl[l] = h => l \in using[t]
             /\ h \in blocks => \E l \in using[t] : Counted(l) /\ ctrl[l] = h
             /\ h \notin blocks => \E e \in 0 .. d - 1 : Due(t, e) = Delete(h)

(* What is read is held until the count has been taken.                    *)
Origins ==
  \A t \in Threads : \A d \in Places(t) :
    /\ Due(t, d).op = "read" => Held(t, Due(t, d).from)
    /\ Due(t, d).op = "steal" =>
         Due(t, d).from \in using[t] /\ Counted(Due(t, d).from)
    /\ Due(t, d).op = "add" /\ d + 1 = Length(t) /\ ctrl[Due(t, d).to] # Null =>
         \E g \in Handles : Held(t, g) /\ ctrl[g] = ctrl[Due(t, d).to]

(* Objects and blocks are deleted once, by one thread, the object first.   *)
EndsOnce(t, d, k) ==
  /\ Due(t, d) = Sub(k) => k \in blocks
  /\ Due(t, d) = Delete(k) =>
       /\ k \in objects
       /\ k \in blocks => d > 0 /\ Due(t, d - 1) = Free(k)
       /\ \A u \in Threads : \A e \in Places(u) : Due(u, e) = Delete(k) => u = t
  /\ Due(t, d) = Free(k) =>
       /\ k \in blocks /\ count[k] = 0
       /\ k \in objects => d + 1 < Length(t) /\ Due(t, d + 1) = Delete(k)
       /\ \A u \in Threads : \A e \in Places(u) :
            Due(u, e) = Free(k) => u = t /\ e = d

Endings ==
  \A t \in Threads : \A d \in Places(t) : \A k \in Blocks : EndsOnce(t, d, k)

(* What is referred to is there, and what nobody refers to goes.           *)
Living ==
  /\ \A h \in Handles : Counted(h) => ctrl[h] \in blocks \cup {Null}
  /\ \A k \in Blocks \ objects : ctrl[k] = Null
  /\ \A k \in blocks : IF count[k] = 0 THEN IsDue(Free(k)) ELSE k \in objects
  /\ \A k \in objects \ blocks : IsDue(Delete(k))

Counts ==
  \A k \in blocks : count[k] = Cardinality(Holders(k)) + Cardinality(Subs(k))

PtrInv ==
  /\ PtrTypeOK /\ InTurn /\ NamesApart /\ Targets /\ Origins /\ Endings
  /\ Living /\ Counts
-----------------------------------------------------------------------------
LEMMA InstructionForms ==
  /\ \A k \in Blocks :
       Sub(k) \in Instructions /\ Delete(k) \in Instructions /\ Free(k) \in Instructions
  /\ \A h \in Handles : Add(h) \in Instructions
  /\ \A h, g \in Handles : Read(h, g) \in Instructions
  /\ \A h, g \in Locals : Steal(h, g) \in Instructions
  /\ \A x \in Instructions :
       \/ x.op = "sub" /\ x.block \in Blocks /\ x = Sub(x.block)
       \/ x.op = "delete" /\ x.block \in Blocks /\ x = Delete(x.block)
       \/ x.op = "free" /\ x.block \in Blocks /\ x = Free(x.block)
       \/ x.op = "add" /\ x.to \in Handles /\ x = Add(x.to)
       \/ x.op = "read" /\ x.to \in Handles /\ x.from \in Handles
       \/ x.op = "steal" /\ x.to \in Locals /\ x.from \in Locals
<1>1. \A k \in Blocks :
        Sub(k) \in Instructions /\ Delete(k) \in Instructions /\ Free(k) \in Instructions
  BY DEF Instructions
<1>2. \A h \in Handles : Add(h) \in Instructions
  BY DEF Instructions
<1>3. \A h, g \in Handles : Read(h, g) \in Instructions
  BY DEF Instructions
<1>4. \A h, g \in Locals : Steal(h, g) \in Instructions
  BY DEF Instructions
<1>5. ASSUME NEW x \in Instructions
      PROVE \/ x.op = "sub" /\ x.block \in Blocks /\ x = Sub(x.block)
            \/ x.op = "delete" /\ x.block \in Blocks /\ x = Delete(x.block)
            \/ x.op = "free" /\ x.block \in Blocks /\ x = Free(x.block)
            \/ x.op = "add" /\ x.to \in Handles /\ x = Add(x.to)
            \/ x.op = "read" /\ x.to \in Handles /\ x.from \in Handles
            \/ x.op = "steal" /\ x.to \in Locals /\ x.from \in Locals
  <2>1. CASE \E k \in Blocks : x = Sub(k) \/ x = Delete(k) \/ x = Free(k)
    BY <2>1 DEF Sub, Delete, Free
  <2>2. CASE \E h \in Handles : x = Add(h)
    BY <2>2 DEF Add
  <2>3. CASE \E h, g \in Handles : x = Read(h, g)
    BY <2>3 DEF Read
  <2>4. CASE \E h, g \in Locals : x = Steal(h, g)
    BY <2>4 DEF Steal
  <2> QED BY <2>1, <2>2, <2>3, <2>4 DEF Instructions
<1> QED BY <1>1, <1>2, <1>3, <1>4, <1>5

(* Names of the fields, and the forms apart.                               *)
LEMMA Fields ==
  /\ \A k : Sub(k).op = "sub" /\ Sub(k).block = k
  /\ \A k : Delete(k).op = "delete" /\ Delete(k).block = k
  /\ \A k : Free(k).op = "free" /\ Free(k).block = k
  /\ \A h : Add(h).op = "add" /\ Add(h).to = h
  /\ \A h, g : Read(h, g).op = "read" /\ Read(h, g).to = h /\ Read(h, g).from = g
  /\ \A h, g : Steal(h, g).op = "steal" /\ Steal(h, g).to = h /\ Steal(h, g).from = g
BY DEF Sub, Delete, Free, Add, Read, Steal

(* The next instruction of t is replaced by those of more.                 *)
Advances(t, more) ==
  /\ todo' \in [Threads -> Seq(Instructions)]
  /\ \A u \in Threads \ {t} :
       Length(u)' = Length(u) /\ Places(u)' = Places(u)
       /\ \A d \in Places(u) : Due(u, d)' = Due(u, d)
  /\ Length(t)' = Length(t) - 1 + Len(more)
  /\ \A d \in 0 .. Length(t) - 2 : Due(t, d)' = Due(t, d)
  /\ \A d \in Length(t) - 1 .. Length(t) - 2 + Len(more) :
       Due(t, d)' = more[Length(t) - 1 + Len(more) - d]

LEMMA ThenAdvances ==
  ASSUME PtrTypeOK, NEW t \in Threads, todo[t] # <<>>,
         NEW more \in Seq(Instructions), Then(t, more)
  PROVE  Advances(t, more)
<1> DEFINE s == todo[t]
           m == Len(more)
           n == Len(s)
<1>1. s \in Seq(Instructions) /\ n \in Nat \ {0} /\ m \in Nat
  BY DEF PtrTypeOK
<1>2. todo' = [todo EXCEPT ![t] = more \o Tail(s)]
  BY DEF Then
<1>3. /\ Tail(s) \in Seq(Instructions) /\ Len(Tail(s)) = n - 1
      /\ \A i \in 1 .. n - 1 : Tail(s)[i] = s[i + 1]
  BY <1>1
<1> DEFINE r == Tail(s)
<1> HIDE DEF r
<1>4. /\ more \o r \in Seq(Instructions) /\ Len(more \o r) = m + n - 1
      /\ \A i \in 1 .. m : (more \o r)[i] = more[i]
      /\ \A i \in m + 1 .. m + n - 1 : (more \o r)[i] = r[i - m]
  BY <1>1, <1>3 DEF r
<1>5. todo'[t] = more \o r /\ \A u \in Threads \ {t} : todo'[u] = todo[u]
  BY <1>2 DEF PtrTypeOK, r
<1>6. todo' \in [Threads -> Seq(Instructions)]
  BY <1>2, <1>4 DEF PtrTypeOK, r
<1>7. \A u \in Threads \ {t} :
        Length(u)' = Length(u) /\ Places(u)' = Places(u)
        /\ \A d \in Places(u) : Due(u, d)' = Due(u, d)
  BY <1>5 DEF Length, Places, Due
<1>8. Length(t)' = Length(t) - 1 + m
  BY <1>4, <1>5, <1>1 DEF Length
<1>9. ASSUME NEW d \in 0 .. n - 2 PROVE Due(t, d)' = Due(t, d)
  <2>1. todo'[t][m + n - 1 - d] = r[n - 1 - d]
    <3>1. m + n - 1 - d \in m + 1 .. m + n - 1 /\ m + n - 1 - d - m = n - 1 - d
      BY <1>1
    <3> QED BY <3>1, <1>4, <1>5
  <2>2. r[n - 1 - d] = s[n - d]
    BY <1>1, <1>3 DEF r
  <2>3. Len(todo'[t]) = m + n - 1
    BY <1>4, <1>5
  <2>4. Due(t, d)' = todo'[t][m + n - 1 - d]
    BY <2>3 DEF Due
  <2>5. Due(t, d) = s[n - d]
    BY DEF Due
  <2> QED BY <2>1, <2>2, <2>4, <2>5
<1>10. ASSUME NEW d \in n - 1 .. n - 2 + m PROVE Due(t, d)' = more[n - 1 + m - d]
  <2>1. todo'[t][m + n - 1 - d] = more[m + n - 1 - d]
    BY <1>1, <1>4, <1>5
  <2>2. m + n - 1 - d = n - 1 + m - d
    BY <1>1
  <2> QED BY <2>1, <2>2, <1>4, <1>5 DEF Due
<1> QED BY <1>6, <1>7, <1>8, <1>9, <1>10 DEF Advances, Length

(* A call of t begins with these instructions.                             *)
Begins(t, named, list) ==
  /\ todo' \in [Threads -> Seq(Instructions)]
  /\ \A u \in Threads \ {t} :
       /\ Length(u)' = Length(u) /\ Places(u)' = Places(u)
       /\ \A d \in Places(u) : Due(u, d)' = Due(u, d)
       /\ using'[u] = using[u] /\ (Length(u) > 0 => using[u] \cap named = {})
  /\ Length(t) = 0 /\ Places(t) = {}
  /\ Length(t)' = Len(list)
  /\ \A d \in 0 .. Len(list) - 1 : Due(t, d)' = list[Len(list) - d]
  /\ using' \in [Threads -> SUBSET Locals] /\ using'[t] = named

LEMMA EnterBegins ==
  ASSUME PtrTypeOK, NEW t \in Threads, NEW named \in SUBSET Locals,
         NEW list \in Seq(Instructions), Enter(t, named, list)
  PROVE  Begins(t, named, list)
<1>1. /\ todo'[t] = list /\ \A u \in Threads \ {t} : todo'[u] = todo[u]
      /\ using'[t] = named /\ \A u \in Threads \ {t} : using'[u] = using[u]
      /\ todo' \in [Threads -> Seq(Instructions)]
      /\ using' \in [Threads -> SUBSET Locals]
  BY DEF Enter, PtrTypeOK
<1>2. Length(t) = 0 /\ Places(t) = {}
  BY DEF Enter, Length, Places
<1>3. \A u \in Threads : Length(u) > 0 => todo[u] # <<>>
  BY DEF Length
<1>4. \A u \in Threads \ {t} : Length(u) > 0 => using[u] \cap named = {}
  BY <1>3 DEF Enter
<1>5. \A u \in Threads \ {t} :
        Length(u)' = Length(u) /\ Places(u)' = Places(u)
        /\ \A d \in Places(u) : Due(u, d)' = Due(u, d)
  BY <1>1 DEF Length, Places, Due
<1>6. Length(t)' = Len(list)
      /\ \A d \in 0 .. Len(list) - 1 : Due(t, d)' = list[Len(list) - d]
  BY <1>1 DEF Length, Due
<1> QED BY <1>1, <1>2, <1>4, <1>5, <1>6 DEF Begins
-----------------------------------------------------------------------------
(* What the invariant says of counts.                                      *)
LEMMA FiniteCounts ==
  ASSUME NEW k
  PROVE  /\ IsFiniteSet(Holders(k)) /\ Cardinality(Holders(k)) \in Nat
         /\ IsFiniteSet(Subs(k)) /\ Cardinality(Subs(k)) \in Nat
<1>1. Holders(k) \subseteq Handles /\ Subs(k) \subseteq Threads
  BY DEF Holders, Subs
<1>2. IsFiniteSet(Holders(k)) /\ IsFiniteSet(Subs(k))
  BY <1>1, FS_Subset, PtrConstants
<1> QED BY <1>2, FS_CardinalityType

(* Whoever holds a block, or is about to let go of it, keeps it.           *)
LEMMA CountedBlocks ==
  ASSUME PtrInv, NEW k \in blocks
  PROVE  /\ count[k] \in Nat
         /\ \A h \in Handles : Counted(h) /\ ctrl[h] = k => count[k] > 0
         /\ \A t \in Threads : \A d \in Places(t) : Due(t, d) = Sub(k) => count[k] > 0
         /\ count[k] = 0 => Holders(k) = {} /\ Subs(k) = {}
         /\ count[k] > 0 => k \in objects /\ ~IsDue(Delete(k)) /\ ~IsDue(Free(k))
<1> DEFINE H == Cardinality(Holders(k))
           S == Cardinality(Subs(k))
<1>1. count[k] = H + S /\ H \in Nat /\ S \in Nat
  BY FiniteCounts DEF PtrInv, Counts
<1>2. (H = 0 <=> Holders(k) = {}) /\ (S = 0 <=> Subs(k) = {})
  BY FiniteCounts, FS_EmptySet
<1> HIDE DEF H, S
<1>3. count[k] \in Nat /\ (count[k] = 0 => Holders(k) = {} /\ Subs(k) = {})
  BY <1>1, <1>2
<1>4. \A h \in Handles : Counted(h) /\ ctrl[h] = k => count[k] > 0
  <2>1. \A h \in Handles : Counted(h) /\ ctrl[h] = k => Holders(k) # {}
    BY DEF Holders
  <2> QED BY <2>1, <1>1, <1>2
<1>5. \A t \in Threads : \A d \in Places(t) : Due(t, d) = Sub(k) => count[k] > 0
  <2>1. \A t \in Threads : \A d \in Places(t) : Due(t, d) = Sub(k) => Subs(k) # {}
    BY DEF Subs
  <2> QED BY <2>1, <1>1, <1>2
<1>6. ASSUME count[k] > 0 PROVE k \in objects /\ ~IsDue(Delete(k)) /\ ~IsDue(Free(k))
  <2>1. k \in objects
    BY <1>6, <1>3 DEF PtrInv, Living
  <2>2. ~IsDue(Free(k))
    BY <1>6, Fields DEF PtrInv, PtrTypeOK, Endings, EndsOnce, IsDue
  <2>3. ~IsDue(Delete(k))
    <3>1. ASSUME NEW t \in Threads, NEW d \in Places(t), Due(t, d) = Delete(k)
          PROVE  FALSE
      <4>1. d > 0 /\ Due(t, d - 1) = Free(k)
        BY <3>1 DEF PtrInv, PtrTypeOK, Endings, EndsOnce
      <4>2. d - 1 \in Places(t)
        BY <4>1 DEF Places
      <4> QED BY <4>1, <4>2, <2>2 DEF IsDue
    <3> QED BY <3>1 DEF IsDue
  <2> QED BY <2>1, <2>2, <2>3
<1> QED BY <1>3, <1>4, <1>5, <1>6

(* What a call can rely on is alive.                                       *)
LEMMA HeldIsAlive ==
  ASSUME PtrInv, NEW t \in Threads, NEW g \in Handles, Held(t, g)
  PROVE  /\ Counted(g) /\ ctrl[g] \in blocks \cup {Null}
         /\ g \in Locals \/ (g \in blocks /\ count[g] > 0 /\ g \in objects)
<1>1. Counted(g) /\ ctrl[g] \in blocks \cup {Null}
  BY DEF PtrInv, Living, Held
<1>2. using[t] \subseteq Locals /\ Locals \subseteq Handles
  BY DEF PtrInv, PtrTypeOK, Handles
<1>3. CASE g \in using[t]
  BY <1>1, <1>2, <1>3
<1>4. CASE \E l \in using[t] : Counted(l) /\ ctrl[l] = g
  <2>1. PICK l \in using[t] : Counted(l) /\ ctrl[l] = g
    BY <1>4
  <2>2. l \in Handles
    BY <1>2
  <2>3. g = Null \/ g \in blocks
    BY <2>1, <2>2 DEF PtrInv, Living
  <2>4. g \in blocks
    BY <2>3, PtrConstants
  <2>5. count[g] > 0
    BY <2>1, <2>2, <2>4, CountedBlocks
  <2> QED BY <1>1, <2>4, <2>5, CountedBlocks
<1> QED BY <1>3, <1>4 DEF Held

(* The object that is deleted next is not written by anybody.              *)
LEMMA DeletedIsCounted ==
  ASSUME PtrInv, NEW t \in Threads, NEW k \in Blocks, Length(t) > 0,
         Due(t, Length(t) - 1) = Delete(k)
  PROVE  Counted(k)
<1> SUFFICES ASSUME NEW u \in Threads, NEW d \in Places(u), Writes(u, d), Due(u, d).to = k
             PROVE  FALSE
  BY DEF Counted
<1> DEFINE n == Length(t)
<1>0. n \in Nat /\ n - 1 \in Places(t) /\ IsDue(Delete(k))
  BY DEF Length, Places, PtrInv, PtrTypeOK, IsDue
<1>1. CASE k \in blocks
  <2>1. PICK l \in using[u] : Counted(l) /\ ctrl[l] = k
    BY <1>1 DEF PtrInv, Targets
  <2>2. l \in Handles
    BY DEF PtrInv, PtrTypeOK, Handles
  <2> QED BY <1>0, <1>1, <2>1, <2>2, CountedBlocks
<1>2. CASE k \notin blocks
  <2>1. PICK e \in 0 .. d - 1 : Due(u, e) = Delete(k)
    BY <1>2 DEF PtrInv, Targets
  <2>2. d \in 0 .. Length(u) - 1 /\ Length(u) \in Nat /\ e \in Places(u)
    BY DEF Places, Length, PtrInv, PtrTypeOK
  <2>3. u = t
    BY <1>0, <2>1, <2>2, Fields DEF PtrInv, Endings, EndsOnce
  <2>4. Ends(t, e) /\ Ends(t, n - 1)
    BY <2>1, <2>3, Fields DEF Ends
  <2>5. e = n - 1
    BY <2>2, <2>3, <2>4, <1>0 DEF PtrInv, InTurn
  <2> QED BY <2>2, <2>3, <2>5
<1> QED BY <1>1, <1>2

-----------------------------------------------------------------------------
(* A step of t that writes no shared_ptr of a call and plans no such write. *)
Quiet(t, more) ==
  /\ Length(t) > 0 /\ ~Writes(t, Length(t) - 1)
  /\ Advances(t, more) /\ using' = using
  /\ more \in Seq(Instructions)
  /\ \A i \in 1 .. Len(more) : more[i].op \in {"sub", "delete", "free"}
  /\ \A i \in 1 .. Len(more) : more[i].op \in {"sub", "delete"} => i = 1
  /\ more = <<>> \/ Ends(t, Length(t) - 1)

(* Where each instruction is before and after such a step.                 *)
LEMMA QuietPlaces ==
  ASSUME PtrInv, NEW t \in Threads, NEW more, Quiet(t, more)
  PROVE  /\ \A u \in Threads : \A d \in Places(u)' :
              Writes(u, d)' => /\ d \in Places(u) /\ Due(u, d)' = Due(u, d)
                               /\ Writes(u, d) /\ (u = t => d < Length(t) - 1)
         /\ \A u \in Threads : \A d \in Places(u) :
              Writes(u, d) => /\ d \in Places(u)' /\ Due(u, d)' = Due(u, d)
                              /\ Writes(u, d)'
         /\ \A u \in Threads : \A d \in Places(u) : u # t \/ d # Length(t) - 1 =>
              d \in Places(u)' /\ Due(u, d)' = Due(u, d)
         /\ \A u \in Threads : \A d \in Places(u)' :
              \/ d \in Places(u) /\ Due(u, d)' = Due(u, d) /\ (u = t => d < Length(t) - 1)
              \/ u = t /\ d \in Length(t) - 1 .. Length(t) - 2 + Len(more)
                 /\ Due(u, d)' = more[Length(t) - 1 + Len(more) - d]
                 /\ Length(t) - 1 + Len(more) - d \in 1 .. Len(more)
<1> DEFINE n == Length(t)
           m == Len(more)
<1>1. n \in Nat \ {0} /\ m \in Nat
  BY DEF Length, PtrInv, PtrTypeOK, Quiet
<1>2. /\ \A u \in Threads \ {t} :
           Places(u)' = Places(u) /\ \A d \in Places(u) : Due(u, d)' = Due(u, d)
      /\ Places(t) = 0 .. n - 1 /\ Places(t)' = 0 .. n - 2 + m
  <2>1. \A u \in Threads \ {t} :
           Places(u)' = Places(u) /\ \A d \in Places(u) : Due(u, d)' = Due(u, d)
    BY DEF Quiet, Advances
  <2>2. Length(t)' = n - 1 + m
    BY DEF Quiet, Advances
  <2>3. Places(t) = 0 .. n - 1 /\ Places(t)' = 0 .. (Length(t)' - 1)
    BY DEF Places, Length
  <2>4. Length(t)' - 1 = n - 2 + m
    BY <1>1, <2>2
  <2> QED BY <2>1, <2>3, <2>4, Zenon
<1>3. /\ \A d \in 0 .. n - 2 : Due(t, d)' = Due(t, d)
      /\ \A d \in n - 1 .. n - 2 + m : Due(t, d)' = more[n - 1 + m - d]
  BY DEF Quiet, Advances
<1>4. \A u \in Threads : \A d \in Places(u)' :
        \/ d \in Places(u) /\ Due(u, d)' = Due(u, d) /\ (u = t => d < n - 1)
        \/ u = t /\ d \in n - 1 .. n - 2 + m /\ Due(u, d)' = more[n - 1 + m - d]
           /\ n - 1 + m - d \in 1 .. m
  <2>1. ASSUME NEW d \in Places(t)'
        PROVE  \/ d \in Places(t) /\ Due(t, d)' = Due(t, d) /\ d < n - 1
               \/ d \in n - 1 .. n - 2 + m /\ Due(t, d)' = more[n - 1 + m - d]
                  /\ n - 1 + m - d \in 1 .. m
    <3>1. d \in Nat /\ d <= n - 2 + m
      BY <1>1, <1>2
    <3>2. CASE d <= n - 2
      BY <3>1, <3>2, <1>1, <1>2, <1>3
    <3>3. CASE d > n - 2
      <4>1. d \in n - 1 .. n - 2 + m /\ n - 1 + m - d \in 1 .. m
        BY <3>1, <3>3, <1>1
      <4> QED BY <4>1, <1>3
    <3> QED BY <3>1, <3>2, <3>3, <1>1
  <2> QED BY <2>1, <1>2
<1>5. \A u \in Threads : \A d \in Places(u) : u # t \/ d # n - 1 =>
        d \in Places(u)' /\ Due(u, d)' = Due(u, d)
  <2>1. \A d \in Places(t) : d # n - 1 => d \in 0 .. n - 2 /\ d \in 0 .. n - 2 + m
    BY <1>1, <1>2
  <2> QED BY <2>1, <1>2, <1>3
<1>6. \A i \in 1 .. m : more[i].op \notin {"read", "steal", "add"}
  BY DEF Quiet
<1>7. \A u \in Threads : \A d \in Places(u)' :
        Writes(u, d)' => /\ d \in Places(u) /\ Due(u, d)' = Due(u, d)
                         /\ Writes(u, d) /\ (u = t => d < n - 1)
  BY <1>4, <1>6, Zenon DEF Writes
<1>8. \A u \in Threads : \A d \in Places(u) :
        Writes(u, d) => d \in Places(u)' /\ Due(u, d)' = Due(u, d) /\ Writes(u, d)'
  <2>1. ~Writes(t, n - 1)
    BY DEF Quiet
  <2> QED BY <2>1, <1>5, Zenon DEF Writes
<1> QED BY <1>4, <1>5, <1>7, <1>8

LEMMA QuietKeeps ==
  ASSUME PtrInv, NEW t \in Threads, NEW more, Quiet(t, more)
  PROVE  /\ \A h : Counted(h)' <=> Counted(h)
         /\ InTurn' /\ NamesApart'
         /\ \A u \in Threads : \A d \in Places(u)' :
              Due(u, d)'.op = "add" /\ d + 1 = Length(u)' => u # t /\ d + 1 = Length(u)
<1> DEFINE n == Length(t)
           m == Len(more)
<1>0. /\ n \in Nat \ {0} /\ m \in Nat /\ Length(t)' = n - 1 + m
      /\ \A u \in Threads \ {t} : Length(u)' = Length(u)
      /\ \A u \in Threads : Length(u) \in Nat /\ Places(u) = 0 .. Length(u) - 1
      /\ \A u \in Threads : Places(u)' = 0 .. (Length(u)' - 1)
  BY DEF Length, PtrInv, PtrTypeOK, Quiet, Advances, Places
<1>1. \A h : Counted(h)' <=> Counted(h)
  <2>1. \A u \in Threads : \A d \in Places(u)' :
          Writes(u, d)' => d \in Places(u) /\ Due(u, d)' = Due(u, d) /\ Writes(u, d)
    BY QuietPlaces
  <2>2. \A u \in Threads : \A d \in Places(u) :
          Writes(u, d) => d \in Places(u)' /\ Due(u, d)' = Due(u, d) /\ Writes(u, d)'
    BY QuietPlaces
  <2>3. ASSUME NEW h, Counted(h) PROVE Counted(h)'
    BY <2>1, <2>3 DEF Counted
  <2>4. ASSUME NEW h, Counted(h)' PROVE Counted(h)
    BY <2>2, <2>4 DEF Counted
  <2> QED BY <2>3, <2>4
<1>2. NamesApart'
  BY <1>0 DEF NamesApart, PtrInv, Quiet
<1>3. \A u \in Threads : \A d \in Places(u)' :
        Due(u, d)'.op = "add" /\ d + 1 = Length(u)' => u # t /\ d + 1 = Length(u)
  <2> SUFFICES ASSUME NEW u \in Threads, NEW d \in Places(u)',
                      Due(u, d)'.op = "add", d + 1 = Length(u)'
               PROVE  u # t
    BY <1>0
  <2> SUFFICES ASSUME u = t PROVE FALSE
    OBVIOUS
  <2>1. Writes(t, d)'
    BY DEF Writes
  <2>2. d \in Places(t) /\ Due(t, d)' = Due(t, d) /\ d < n - 1
    BY <2>1, QuietPlaces
  <2>3. d + 1 < n /\ d + 1 \in Places(t) /\ d + 1 <= n - 1 /\ d \in Nat
    BY <2>2, <1>0
  <2>4. Due(t, d + 1).op = "read"
    BY <2>2, <2>3 DEF PtrInv, InTurn
  <2>5. Writes(t, d + 1) /\ ~Writes(t, n - 1)
    BY <2>4 DEF Writes, Quiet
  <2>6. d = n - 2 + m
    BY <2>3, <1>0
  <2>7. d + 1 = n - 1
    BY <2>6, <2>3, <1>0
  <2> QED BY <2>5, <2>7
<1>4. InTurn'
  <2> SUFFICES ASSUME NEW u \in Threads, NEW d \in Places(u)'
               PROVE  /\ Due(u, d)'.op = "read" => d > 0 /\ Due(u, d - 1)' = Add(Due(u, d)'.to)
                      /\ Due(u, d)'.op = "steal" => d = 0
                      /\ Due(u, d)'.op = "add" =>
                           /\ d + 1 < Length(u)' => Due(u, d + 1)'.op = "read"
                           /\ \A e \in 0 .. d - 1 : ~Writes(u, e)'
                      /\ Ends(u, d)' => d + 3 >= Length(u)'
                           /\ \A e \in Places(u)' : Ends(u, e)' => e = d
    BY Zenon DEF InTurn
  <2>0. d \in Nat /\ Length(u)' \in Nat /\ d < Length(u)'
    BY <1>0
  <2>1. ASSUME Writes(u, d)'
        PROVE  /\ d \in Places(u) /\ Due(u, d)' = Due(u, d)
               /\ Writes(u, d) /\ (u = t => d < n - 1)
    BY <2>1, QuietPlaces, Zenon
  <2>2. ASSUME Due(u, d)'.op = "read" PROVE d > 0 /\ Due(u, d - 1)' = Add(Due(u, d)'.to)
    <3>1. Writes(u, d)'
      BY <2>2 DEF Writes
    <3>2. d > 0 /\ Due(u, d - 1) = Add(Due(u, d).to)
      BY <2>2, <3>1, <2>1 DEF PtrInv, InTurn
    <3>3. d - 1 \in Places(u) /\ (u = t => d - 1 # n - 1)
      BY <3>1, <3>2, <2>1, <1>0
    <3>4. Due(u, d - 1)' = Due(u, d - 1)
      BY <3>3, QuietPlaces
    <3> QED BY <3>1, <3>2, <3>4, <2>1
  <2>3. ASSUME Due(u, d)'.op = "steal" PROVE d = 0
    BY <2>1, <2>3 DEF Writes, PtrInv, InTurn
  <2>4. ASSUME Due(u, d)'.op = "add"
        PROVE  /\ d + 1 < Length(u)' => Due(u, d + 1)'.op = "read"
               /\ \A e \in 0 .. d - 1 : ~Writes(u, e)'
    <3>1. Writes(u, d)' /\ d \in Places(u) /\ Due(u, d).op = "add"
      BY <2>1, <2>4 DEF Writes
    <3>2. ASSUME NEW e \in 0 .. d - 1, Writes(u, e)' PROVE FALSE
      <4>1. e \in Places(u)'
        BY <1>0, <2>0
      <4>2. Writes(u, e)
        BY <3>2, <4>1, QuietPlaces, Zenon
      <4> QED BY <3>1, <4>2 DEF PtrInv, InTurn
    <3>3. ASSUME d + 1 < Length(u)' PROVE Due(u, d + 1)'.op = "read"
      <4>1. d + 1 < Length(u) /\ d + 1 \in Places(u)
        BY <3>1, <3>3, <2>1, <1>0
      <4>2. Due(u, d + 1).op = "read"
        BY <3>1, <4>1 DEF PtrInv, InTurn
      <4>3. Writes(u, d + 1)
        BY <4>2 DEF Writes
      <4> QED BY <4>1, <4>2, <4>3, QuietPlaces
    <3> QED BY <3>2, <3>3
  <2>5. ASSUME Ends(u, d)'
        PROVE  d + 3 >= Length(u)' /\ \A e \in Places(u)' : Ends(u, e)' => e = d
    <3>1. CASE u # t
      BY <3>1, <2>5, QuietPlaces DEF PtrInv, InTurn, Quiet, Advances, Ends
    <3>2. CASE u = t
      <4>1. ASSUME NEW e \in Places(t)', Ends(t, e)'
            PROVE  \/ e \in Places(t) /\ Ends(t, e) /\ e < n - 1
                   \/ e = n - 2 + m /\ Ends(t, n - 1)
        <5>1. CASE e \in Places(t) /\ Due(t, e)' = Due(t, e) /\ e < n - 1
          BY <4>1, <5>1 DEF Ends
        <5>2. CASE /\ Due(t, e)' = more[n - 1 + m - e]
                   /\ n - 1 + m - e \in 1 .. m
          <6>1. n - 1 + m - e = 1
            BY <4>1, <5>2 DEF Ends, Quiet
          <6>3. Ends(t, n - 1)
            BY <5>2, <1>0 DEF Quiet
          <6>2. e \in Nat
            BY <1>0
          <6> QED BY <6>1, <6>2, <6>3, <1>0
        <5> QED BY <5>1, <5>2, QuietPlaces
      <4>2. n - 1 \in Places(t)
        BY <1>0
      <4>3. ASSUME NEW e \in Places(t), Ends(t, e), e < n - 1, Ends(t, n - 1) PROVE FALSE
        <5>1. n - 1 = e
          BY <4>2, <4>3 DEF PtrInv, InTurn
        <5> QED BY <5>1, <4>3, <1>0
      <4>4. CASE Ends(t, n - 1)
        <5>1. \A e \in Places(t)' : Ends(t, e)' => e = n - 2 + m
          BY <4>1, <4>3, <4>4
        <5> QED BY <5>1, <2>5, <3>2, <1>0
      <4>5. CASE ~Ends(t, n - 1)
        <5>1. \A e \in Places(t)' : Ends(t, e)' => e \in Places(t) /\ Ends(t, e) /\ e < n - 1
          BY <4>1, <4>5
        <5>2. d + 3 >= n /\ \A e \in Places(t)' : Ends(t, e)' => e = d
          BY <5>1, <2>5, <3>2 DEF PtrInv, InTurn
        <5>3. m = 0
          BY <4>5 DEF Quiet
        <5>4. d + 3 >= Length(t)'
          BY <5>2, <5>3, <2>0, <1>0
        <5> QED BY <5>2, <5>4, <3>2, Zenon
      <4> QED BY <4>4, <4>5
    <3> QED BY <3>1, <3>2
  <2> QED BY <2>2, <2>3, <2>4, <2>5
<1> QED BY <1>1, <1>2, <1>3, <1>4

(* Such a step touches nothing that calls write or rely on.                *)
Spares ==
  /\ \A l \in Locals : ctrl'[l] = ctrl[l]
  /\ \A h \in Handles : ctrl'[h] = ctrl[h] \/ (Counted(h) /\ ctrl'[h] = Null)
  /\ \A u \in Threads, g \in Handles : Held(u, g) => ctrl'[g] = ctrl[g]
  /\ \A u \in Threads : \A d \in Places(u) : Writes(u, d) /\ Due(u, d).to \in objects =>
       /\ Due(u, d).to \in objects'
       /\ Due(u, d).to \in blocks' <=> Due(u, d).to \in blocks

LEMMA Typed ==
  ASSUME PtrInv
  PROVE  /\ Locals \subseteq Handles /\ Blocks \subseteq Handles /\ Null \notin Handles
         /\ \A u \in Threads :
              /\ using[u] \subseteq Locals
              /\ Length(u) \in Nat /\ Places(u) = 0 .. Length(u) - 1
              /\ \A d \in Places(u) : Due(u, d) \in Instructions
         /\ \A u \in Threads : todo[u] # <<>> =>
              /\ Length(u) > 0 /\ Length(u) - 1 \in Places(u)
              /\ Due(u, Length(u) - 1) = Head(todo[u])
<1>1. Locals \subseteq Handles /\ Blocks \subseteq Handles /\ Null \notin Handles
  BY PtrConstants DEF Handles
<1>2. ASSUME NEW u \in Threads
      PROVE  /\ using[u] \subseteq Locals
             /\ Length(u) \in Nat /\ Places(u) = 0 .. Length(u) - 1
             /\ \A d \in Places(u) : Due(u, d) \in Instructions
             /\ todo[u] # <<>> => /\ Length(u) > 0 /\ Length(u) - 1 \in Places(u)
                                  /\ Due(u, Length(u) - 1) = Head(todo[u])
  <2>1. todo[u] \in Seq(Instructions) /\ using[u] \subseteq Locals
    BY DEF PtrInv, PtrTypeOK
  <2> DEFINE s == todo[u]
  <2>2. Len(s) \in Nat /\ \A i \in 1 .. Len(s) : s[i] \in Instructions
    BY <2>1
  <2>3. \A d \in 0 .. Len(s) - 1 : Len(s) - d \in 1 .. Len(s)
    BY <2>2
  <2>4. s # <<>> => Len(s) > 0 /\ Len(s) - 1 \in 0 .. Len(s) - 1
                    /\ s[Len(s) - (Len(s) - 1)] = Head(s)
    BY <2>1
  <2> QED BY <2>1, <2>2, <2>3, <2>4 DEF Length, Places, Due
<1> QED BY <1>1, <1>2

LEMMA QuietFrames ==
  ASSUME PtrInv, NEW t \in Threads, NEW more, Quiet(t, more), Spares
  PROVE  /\ Targets' /\ Origins'
         /\ \A u \in Threads : \A g : Held(u, g)' <=> Held(u, g)
<1>1. /\ \A h : Counted(h)' <=> Counted(h)
      /\ using' = using
  BY QuietKeeps DEF Quiet
<1>2. \A u \in Threads : \A g : Held(u, g)' <=> Held(u, g)
  <2>1. \A u \in Threads : \A l \in using[u] : ctrl'[l] = ctrl[l]
    BY Typed DEF Spares
  <2> QED BY <1>1, <2>1 DEF Held
<1>3. ASSUME NEW u \in Threads, NEW d \in Places(u)', Writes(u, d)'
      PROVE  /\ d \in Places(u) /\ Due(u, d)' = Due(u, d)
             /\ Writes(u, d) /\ (u = t => d < Length(t) - 1)
  BY <1>3, QuietPlaces, Zenon
<1>4. ASSUME NEW u \in Threads, NEW d \in Places(u), Writes(u, d)
      PROVE  Due(u, d).to \in Handles /\ ~Counted(Due(u, d).to)
  BY <1>4, Typed, InstructionForms DEF Writes, Counted
<1>5. Targets'
  <2> SUFFICES ASSUME NEW u \in Threads, NEW d \in Places(u)', Writes(u, d)'
               PROVE  LET h == Due(u, d)' IN
                      /\ h.to \in Locals => h.to \in using'[u]
                      /\ h.to \in Blocks =>
                           /\ h.to \in objects'
                           /\ \A l \in Handles : Counted(l)' /\ ctrl'[l] = h.to => l \in using'[u]
                           /\ h.to \in blocks' => \E l \in using'[u] : Counted(l)' /\ ctrl'[l] = h.to
                           /\ h.to \notin blocks' => \E e \in 0 .. d - 1 : Due(u, e)' = Delete(h.to)
    BY DEF Targets
  <2>0. d \in Places(u) /\ Due(u, d)' = Due(u, d)
             /\ Writes(u, d) /\ (u = t => d < Length(t) - 1)
    BY <1>3
  <2> DEFINE h == Due(u, d).to
  <2>1. h \in Locals => h \in using'[u]
    BY <2>0, <1>1 DEF PtrInv, Targets
  <2>2. ASSUME h \in Blocks
        PROVE  /\ h \in objects'
               /\ \A l \in Handles : Counted(l)' /\ ctrl'[l] = h => l \in using'[u]
               /\ h \in blocks' => \E l \in using'[u] : Counted(l)' /\ ctrl'[l] = h
               /\ h \notin blocks' => \E e \in 0 .. d - 1 : Due(u, e)' = Delete(h)
    <3>1. /\ h \in objects
          /\ \A l \in Handles : Counted(l) /\ ctrl[l] = h => l \in using[u]
          /\ h \in blocks => \E l \in using[u] : Counted(l) /\ ctrl[l] = h
          /\ h \notin blocks => \E e \in 0 .. d - 1 : Due(u, e) = Delete(h)
      BY <2>0, <2>2 DEF PtrInv, Targets
    <3>2. h \in objects' /\ (h \in blocks' <=> h \in blocks)
      BY <2>0, <3>1 DEF Spares
    <3>3. h # Null
      BY <2>2, Typed
    <3>4. \A l \in Handles : Counted(l)' /\ ctrl'[l] = h => l \in using'[u]
      BY <3>1, <3>3, <1>1 DEF Spares
    <3>5. h \in blocks' => \E l \in using'[u] : Counted(l)' /\ ctrl'[l] = h
      <4>1. \A l \in using[u] : ctrl'[l] = ctrl[l]
        BY Typed DEF Spares
      <4> QED BY <3>1, <3>2, <4>1, <1>1
    <3>6. ASSUME NEW e \in 0 .. d - 1 PROVE Due(u, e)' = Due(u, e)
      <4>1. e \in Places(u) /\ (u = t => e # Length(t) - 1)
        BY <2>0, Typed
      <4> QED BY <4>1, QuietPlaces
    <3> QED BY <3>1, <3>2, <3>4, <3>5, <3>6
  <2> QED BY <2>0, <2>1, <2>2
<1>6. Origins'
  <2> SUFFICES ASSUME NEW u \in Threads, NEW d \in Places(u)'
               PROVE  /\ Due(u, d)'.op = "read" => Held(u, Due(u, d).from)'
                      /\ Due(u, d)'.op = "steal" =>
                           Due(u, d)'.from \in using'[u] /\ Counted(Due(u, d).from)'
                      /\ Due(u, d)'.op = "add" /\ d + 1 = Length(u)' /\ ctrl'[Due(u, d)'.to] # Null =>
                           \E g \in Handles : Held(u, g)' /\ ctrl'[g] = ctrl'[Due(u, d)'.to]
    BY DEF Origins
  <2>1. ASSUME Due(u, d)'.op = "read" PROVE Held(u, Due(u, d).from)'
    BY <2>1, <1>2, <1>3 DEF Writes, PtrInv, Origins
  <2>2. ASSUME Due(u, d)'.op = "steal"
        PROVE  Due(u, d)'.from \in using'[u] /\ Counted(Due(u, d).from)'
    BY <2>2, <1>1, <1>3 DEF Writes, PtrInv, Origins
  <2>3. ASSUME Due(u, d)'.op = "add", d + 1 = Length(u)', ctrl'[Due(u, d)'.to] # Null
        PROVE  \E g \in Handles : Held(u, g)' /\ ctrl'[g] = ctrl'[Due(u, d)'.to]
    <3>1. Writes(u, d)'
      BY <2>3 DEF Writes
    <3>2. /\ d \in Places(u) /\ Due(u, d)' = Due(u, d) /\ Writes(u, d)
      BY <1>3, <3>1
    <3>3. d + 1 = Length(u)
      BY <2>3, QuietKeeps
    <3>4. ctrl'[Due(u, d).to] = ctrl[Due(u, d).to]
      BY <1>4, <3>2 DEF Spares
    <3>5. PICK g \in Handles : Held(u, g) /\ ctrl[g] = ctrl[Due(u, d).to]
      BY <2>3, <3>2, <3>3, <3>4 DEF PtrInv, Origins
    <3>6. Held(u, g)' /\ ctrl'[g] = ctrl[g]
      BY <1>2, <3>5 DEF Spares
    <3> QED BY <3>2, <3>4, <3>5, <3>6
  <2> QED BY <2>1, <2>2, <2>3
<1> QED BY <1>2, <1>5, <1>6

-----------------------------------------------------------------------------
LEMMA Pairs ==
  /\ <<>> \in Seq(Instructions) /\ Len(<<>>) = 0
  /\ \A x \in Instructions :
       <<x>> \in Seq(Instructions) /\ Len(<<x>>) = 1 /\ <<x>>[1] = x
  /\ \A x, y \in Instructions :
       /\ <<x, y>> \in Seq(Instructions) /\ Len(<<x, y>>) = 2
       /\ <<x, y>>[1] = x /\ <<x, y>>[2] = y
OBVIOUS

(* The last count of k is given up: its object is deleted, then the block. *)
LEMMA DecrementQuiet ==
  ASSUME PtrInv, NEW t \in Threads, DecrementRef(t)
  PROVE  \E k \in blocks, n \in Nat : \E more :
           /\ count[k] > 0 /\ count' = [count EXCEPT ![k] = @ - 1]
           /\ Quiet(t, more) /\ n = Length(t) /\ Due(t, n - 1) = Sub(k)
           /\ count[k] # 1 => more = <<>> /\ Length(t)' = n - 1
           /\ count[k] = 1 =>
                /\ more = <<Delete(k), Free(k)>> /\ Length(t)' = n + 1
                /\ Due(t, n)' = Delete(k) /\ Due(t, n - 1)' = Free(k)
<1>0. PICK n \in Nat : n = Length(t)
  BY Typed
<1> DEFINE x == Head(todo[t])
           k == x.block
           more == IF count[k] = 1 THEN <<Delete(k), Free(k)>> ELSE <<>>
<1>1. /\ todo[t] # <<>> /\ x.op = "sub" /\ count' = [count EXCEPT ![k] = @ - 1]
      /\ Then(t, more) /\ using' = using
  BY DEF DecrementRef, Next1
<1>2. /\ n > 0 /\ n \in Nat /\ n - 1 \in Places(t) /\ Due(t, n - 1) = x
      /\ x \in Instructions
  BY <1>0, <1>1, Typed
<1>3. k \in Blocks /\ x = Sub(k)
  BY <1>1, <1>2, InstructionForms
<1>4. k \in blocks
  BY <1>2, <1>3 DEF PtrInv, Endings, EndsOnce
<1>5. count[k] > 0 /\ count[k] \in Nat
  BY <1>2, <1>3, <1>4, CountedBlocks
<1>6. Delete(k) \in Instructions /\ Free(k) \in Instructions
  BY <1>3, InstructionForms
<1>7. more \in Seq(Instructions)
  BY <1>6, Pairs
<1>8. Advances(t, more)
  BY <1>1, <1>7, ThenAdvances DEF PtrInv
<1>9. ~Writes(t, n - 1) /\ Ends(t, n - 1)
  BY <1>1, <1>2 DEF Writes, Ends
<1>10. CASE count[k] # 1
  <2>1. more = <<>>
    BY <1>10
  <2> HIDE DEF more
  <2>2. Quiet(t, more)
    BY <2>1, <1>0, <1>1, <1>2, <1>7, <1>8, <1>9, Pairs DEF Quiet
  <2>3. Length(t)' = n - 1
    BY <2>1, <1>0, <1>2, <1>8, Pairs DEF Advances
  <2> QED BY <1>0, <2>1, <2>2, <2>3, <1>1, <1>2, <1>3, <1>4, <1>5, <1>10
<1>11. CASE count[k] = 1
  <2>1. more = <<Delete(k), Free(k)>>
    BY <1>11
  <2> HIDE DEF more
  <2>2. Len(more) = 2 /\ more[1] = Delete(k) /\ more[2] = Free(k)
    BY <2>1, <1>6, Pairs
  <2>3. \A i \in 1 .. Len(more) : i = 1 \/ i = 2
    BY <2>2
  <2>4. Quiet(t, more)
    BY <2>2, <2>3, <1>0, <1>1, <1>2, <1>7, <1>8, <1>9, Fields DEF Quiet
  <2>5. Length(t)' = n + 1
    BY <2>2, <1>0, <1>2, <1>8 DEF Advances
  <2>6. n \in n - 1 .. n - 2 + 2 /\ n - 1 \in n - 1 .. n - 2 + 2
        /\ n - 1 + 2 - n = 1 /\ n - 1 + 2 - (n - 1) = 2
    BY <1>2
  <2>7. Due(t, n)' = Delete(k) /\ Due(t, n - 1)' = Free(k)
    <3>1. \A d \in n - 1 .. n - 2 + 2 : Due(t, d)' = more[n - 1 + 2 - d]
      BY <2>2, <1>0, <1>8 DEF Advances
    <3>2. Due(t, n)' = more[n - 1 + 2 - n]
      BY <3>1, <2>6, Zenon
    <3>3. Due(t, n - 1)' = more[n - 1 + 2 - (n - 1)]
      BY <3>1, <2>6, Zenon
    <3> QED BY <3>2, <3>3, <2>2, <2>6, Zenon
  <2> QED BY <1>0, <2>1, <2>4, <2>5, <2>7, <1>1, <1>2, <1>3, <1>4, <1>5, <1>11
<1> QED BY <1>10, <1>11

LEMMA DecrementKeeps ==
  ASSUME PtrInv, NEW t \in Threads, DecrementRef(t)
  PROVE  PtrInv'
<1>1. PICK k \in blocks, n \in Nat : \E more :
        /\ count[k] > 0 /\ count' = [count EXCEPT ![k] = @ - 1]
        /\ Quiet(t, more) /\ n = Length(t) /\ Due(t, n - 1) = Sub(k)
        /\ count[k] # 1 => more = <<>> /\ Length(t)' = n - 1
        /\ count[k] = 1 =>
             /\ more = <<Delete(k), Free(k)>> /\ Length(t)' = n + 1
             /\ Due(t, n)' = Delete(k) /\ Due(t, n - 1)' = Free(k)
  BY DecrementQuiet
<1>2. /\ UNCHANGED <<ctrl, blocks, objects, using>>
      /\ k \in Blocks /\ count \in [Blocks -> Int]
      /\ count'[k] = count[k] - 1 /\ \A b \in Blocks : b # k => count'[b] = count[b]
      /\ n \in Nat \ {0} /\ n = Length(t) /\ Places(t) = 0 .. n - 1
      /\ \A u \in Threads : Places(u)' = 0 .. Length(u)' - 1 /\ Length(u)' \in Nat
  BY <1>1, Typed DEF DecrementRef, PtrInv, PtrTypeOK, Places, Length, Quiet
<1>3. k \in objects /\ ~IsDue(Delete(k)) /\ ~IsDue(Free(k)) /\ count[k] \in Nat
  BY <1>1, CountedBlocks
<1>4. PtrTypeOK'
  BY <1>1, <1>2 DEF PtrInv, PtrTypeOK, Quiet, Advances
<1>5. Spares
  BY <1>2 DEF Spares
<1>6. /\ InTurn' /\ NamesApart' /\ Targets' /\ Origins'
      /\ \A h : Counted(h)' <=> Counted(h)
  BY <1>1, <1>5, QuietKeeps, QuietFrames
<1>7. \A u \in Threads : \A d \in Places(u)' :
        \/ d \in Places(u) /\ Due(u, d)' = Due(u, d) /\ (u = t => d < n - 1)
        \/ u = t /\ count[k] = 1 /\ d = n /\ Due(u, d)' = Delete(k)
        \/ u = t /\ count[k] = 1 /\ d = n - 1 /\ Due(u, d)' = Free(k)
  <2> SUFFICES ASSUME NEW d \in Places(t)'
               PROVE  \/ d \in Places(t) /\ Due(t, d)' = Due(t, d) /\ d < n - 1
                      \/ count[k] = 1 /\ d = n /\ Due(t, d)' = Delete(k)
                      \/ count[k] = 1 /\ d = n - 1 /\ Due(t, d)' = Free(k)
    BY <1>1, QuietPlaces
  <2>1. CASE d < n - 1
    <3>1. d \in Places(t) /\ d # n - 1
      BY <2>1, <1>2
    <3> QED BY <3>1, <2>1, <1>1, QuietPlaces
  <2>2. CASE d >= n - 1
    <3>1. Length(t)' = n + 1 /\ count[k] = 1
      BY <2>2, <1>1, <1>2
    <3>2. d \in 0 .. n
      BY <3>1, <1>2
    <3>3. d = n \/ d = n - 1
      BY <3>2, <2>2
    <3> QED BY <3>1, <3>3, <1>1
  <2> QED BY <2>1, <2>2, <1>2
<1>8. \A u \in Threads : \A d \in Places(u) : Due(u, d) # Sub(k) \/ u # t =>
        d \in Places(u)' /\ Due(u, d)' = Due(u, d)
  BY <1>1, QuietPlaces
<1>9. count[k] = 1 => n \in Places(t)' /\ n - 1 \in Places(t)'
  BY <1>1, <1>2
<1>10. Endings'
  <2> SUFFICES ASSUME NEW u \in Threads, NEW d \in Places(u)', NEW b \in Blocks
               PROVE  EndsOnce(u, d, b)'
    BY DEF Endings
  <2>1. ASSUME Due(u, d)' = Sub(b) PROVE b \in blocks'
    <3>1. d \in Places(u) /\ Due(u, d) = Sub(b)
      BY <1>7, <2>1, Fields
    <3> QED BY <3>1, <1>2 DEF PtrInv, Endings, EndsOnce
  <2>2. ASSUME Due(u, d)' = Delete(b)
        PROVE  /\ b \in objects'
               /\ b \in blocks' => d > 0 /\ Due(u, d - 1)' = Free(b)
               /\ \A v \in Threads : \A e \in Places(v)' : Due(v, e)' = Delete(b) => v = u
    <3>1. CASE b = k
      <4>1. \A v \in Threads : \A e \in Places(v)' :
              Due(v, e)' = Delete(k) => v = t /\ e = n /\ count[k] = 1
        BY <1>7, <1>3, Fields DEF IsDue
      <4>2. u = t /\ d = n /\ count[k] = 1
        BY <4>1, <3>1, <2>2
      <4>3. d > 0 /\ Due(t, n - 1)' = Free(k) /\ d - 1 = n - 1
        BY <4>2, <1>1, <1>2
      <4>4. Due(u, d - 1)' = Free(b)
        BY <4>2, <4>3, <3>1
      <4> QED BY <4>1, <4>2, <4>3, <4>4, <3>1, <1>2, <1>3
    <3>2. CASE b # k
      <4>1. \A v \in Threads : \A e \in Places(v)' : Due(v, e)' = Delete(b) =>
              e \in Places(v) /\ Due(v, e) = Delete(b) /\ (v = t => e < n - 1)
        BY <1>7, <3>2, Fields
      <4>2. d \in Places(u) /\ Due(u, d) = Delete(b) /\ (u = t => d < n - 1)
        BY <4>1, <2>2
      <4>3. /\ b \in objects
            /\ b \in blocks => d > 0 /\ Due(u, d - 1) = Free(b)
            /\ \A v \in Threads : \A e \in Places(v) : Due(v, e) = Delete(b) => v = u
        BY <4>2 DEF PtrInv, Endings, EndsOnce
      <4>4. ASSUME d > 0 PROVE Due(u, d - 1)' = Due(u, d - 1)
        <5>1. d - 1 \in Places(u) /\ (u = t => d - 1 # n - 1)
          BY <4>2, <4>4, Typed
        <5> QED BY <5>1, <1>1, QuietPlaces
      <4> QED BY <4>1, <4>3, <4>4, <1>2
    <3> QED BY <3>1, <3>2
  <2>3. ASSUME Due(u, d)' = Free(b)
        PROVE  /\ b \in blocks' /\ count'[b] = 0
               /\ b \in objects' => d + 1 < Length(u)' /\ Due(u, d + 1)' = Delete(b)
               /\ \A v \in Threads : \A e \in Places(v)' :
                    Due(v, e)' = Free(b) => v = u /\ e = d
    <3>1. CASE b = k
      <4>1. \A v \in Threads : \A e \in Places(v)' :
              Due(v, e)' = Free(k) => v = t /\ e = n - 1 /\ count[k] = 1
        BY <1>7, <1>3, Fields DEF IsDue
      <4>2. u = t /\ d = n - 1 /\ count[k] = 1
        BY <4>1, <3>1, <2>3
      <4>3. d + 1 = n /\ d + 1 < Length(t)'
        BY <4>2, <1>1, <1>2
      <4> QED BY <4>1, <4>2, <4>3, <3>1, <1>1, <1>2
    <3>2. CASE b # k
      <4>1. \A v \in Threads : \A e \in Places(v)' : Due(v, e)' = Free(b) =>
              e \in Places(v) /\ Due(v, e) = Free(b)
        BY <1>7, <3>2, Fields
      <4>2. d \in Places(u) /\ Due(u, d) = Free(b)
        BY <4>1, <2>3
      <4>3. /\ b \in blocks /\ count[b] = 0
            /\ b \in objects => d + 1 < Length(u) /\ Due(u, d + 1) = Delete(b)
            /\ \A v \in Threads : \A e \in Places(v) : Due(v, e) = Free(b) => v = u /\ e = d
        BY <4>2 DEF PtrInv, Endings, EndsOnce
      <4>4. ASSUME b \in objects PROVE d + 1 < Length(u)' /\ Due(u, d + 1)' = Delete(b)
        <5>1. d + 1 \in Places(u) /\ Due(u, d + 1) # Sub(k)
          BY <4>2, <4>3, <4>4, Typed, Fields
        <5>2. d + 1 \in Places(u)' /\ Due(u, d + 1)' = Due(u, d + 1)
          BY <5>1, <1>8
        <5>3. d + 1 < Length(u)'
          BY <5>2, <4>2, <1>2, Typed
        <5> QED BY <5>2, <5>3, <4>3, <4>4
      <4> QED BY <4>1, <4>3, <4>4, <3>2, <1>2
    <3> QED BY <3>1, <3>2
  <2> QED BY <2>1, <2>2, <2>3 DEF EndsOnce
<1>11. Living'
  <2>1. \A x : IsDue(x) /\ x # Sub(k) => IsDue(x)'
    BY <1>8 DEF IsDue
  <2>2. ASSUME NEW b \in blocks, b # k
        PROVE  IF count'[b] = 0 THEN IsDue(Free(b))' ELSE b \in objects
    <3>1. IF count[b] = 0 THEN IsDue(Free(b)) ELSE b \in objects
      BY DEF PtrInv, Living
    <3>2. count'[b] = count[b]
      BY <2>2, <1>2 DEF PtrInv, PtrTypeOK
    <3> QED BY <3>1, <3>2, <2>1, Fields
  <2>3. IF count'[k] = 0 THEN IsDue(Free(k))' ELSE k \in objects
    BY <1>1, <1>2, <1>3, <1>9 DEF IsDue
  <2>4. \A b \in objects \ blocks : IsDue(Delete(b))'
    BY <2>1, Fields DEF PtrInv, Living
  <2>5. \A h \in Handles : Counted(h)' => ctrl'[h] \in blocks' \cup {Null}
    BY <1>2, <1>6 DEF PtrInv, Living
  <2>6. \A b \in Blocks \ objects' : ctrl'[b] = Null
    BY <1>2 DEF PtrInv, Living
  <2> QED BY <2>2, <2>3, <2>4, <2>5, <2>6, <1>2 DEF Living
<1>12. Counts'
  <2>1. \A b : Holders(b)' = Holders(b)
    BY <1>2, <1>6 DEF Holders
  <2>2. ASSUME NEW b, b # k PROVE Subs(b)' = Subs(b)
    <3>1. Sub(b) # Sub(k)
      BY <2>2, Fields
    <3>2. \A u \in Threads : (\E d \in Places(u) : Due(u, d) = Sub(b))
                             => \E d \in Places(u)' : Due(u, d)' = Sub(b)
      BY <3>1, <1>8
    <3>3. \A u \in Threads : (\E d \in Places(u)' : Due(u, d)' = Sub(b))
                             => \E d \in Places(u) : Due(u, d) = Sub(b)
      BY <1>7, Fields
    <3> QED BY <3>2, <3>3 DEF Subs
  <2>3. Subs(k)' = Subs(k) \ {t} /\ t \in Subs(k)
    <3>1. t \in Subs(k)
      BY <1>1, <1>2 DEF Subs
    <3>2. ASSUME NEW d \in Places(t)', Due(t, d)' = Sub(k) PROVE FALSE
      <4>1. d \in Places(t) /\ Due(t, d) = Sub(k) /\ d < n - 1
        BY <3>2, <1>7, Fields
      <4>2. Ends(t, d) /\ Ends(t, n - 1) /\ n - 1 \in Places(t)
        BY <4>1, <1>1, <1>2, Fields DEF Ends
      <4>3. n - 1 = d
        BY <4>1, <4>2 DEF PtrInv, InTurn
      <4> QED BY <4>1, <4>3, <1>2
    <3>3. \A u \in Threads \ {t} : (\E d \in Places(u) : Due(u, d) = Sub(k))
                             => \E d \in Places(u)' : Due(u, d)' = Sub(k)
      BY <1>8
    <3>4. \A u \in Threads \ {t} : (\E d \in Places(u)' : Due(u, d)' = Sub(k))
                             => \E d \in Places(u) : Due(u, d) = Sub(k)
      BY <1>7
    <3> QED BY <3>1, <3>2, <3>3, <3>4 DEF Subs
  <2>4. Cardinality(Subs(k)') = Cardinality(Subs(k)) - 1
    BY <2>3, FiniteCounts, FS_RemoveElement
  <2>5. \A b \in blocks : b \in Blocks
    BY DEF PtrInv, PtrTypeOK
  <2>6. ASSUME NEW b \in blocks, b # k
        PROVE  count'[b] = Cardinality(Holders(b)') + Cardinality(Subs(b)')
    BY <2>1, <2>2, <2>5, <2>6, <1>2 DEF PtrInv, Counts
  <2>7. count'[k] = Cardinality(Holders(k)') + Cardinality(Subs(k)')
    <3>1. /\ Cardinality(Holders(k)) \in Nat /\ Cardinality(Subs(k)) \in Nat
          /\ count[k] = Cardinality(Holders(k)) + Cardinality(Subs(k))
          /\ Holders(k)' = Holders(k)
      BY <2>1, FiniteCounts DEF PtrInv, Counts
    <3> QED BY <3>1, <2>4, <1>2
  <2> QED BY <2>6, <2>7, <1>2 DEF Counts
<1> QED BY <1>4, <1>6, <1>10, <1>11, <1>12 DEF PtrInv

(* The object is deleted, and lets go of what its member refers to.        *)
LEMMA DeleteQuiet ==
  ASSUME PtrInv, NEW t \in Threads, DeleteObject(t)
  PROVE  \E k \in Blocks, n \in Nat : \E more :
           /\ Quiet(t, more) /\ n = Length(t) /\ Due(t, n - 1) = Delete(k)
           /\ objects' = objects \ {k} /\ ctrl' = [ctrl EXCEPT ![k] = Null]
           /\ k \in objects
           /\ ctrl[k] = Null => more = <<>> /\ Length(t)' = n - 1
           /\ ctrl[k] # Null =>
                /\ more = <<Sub(ctrl[k])>> /\ Length(t)' = n
                /\ Due(t, n - 1)' = Sub(ctrl[k])
<1>0. PICK n \in Nat : n = Length(t)
  BY Typed
<1> DEFINE x == Head(todo[t])
           k == x.block
           more == LetGo(k)
<1>1. /\ todo[t] # <<>> /\ x.op = "delete" /\ objects' = objects \ {k}
      /\ ctrl' = [ctrl EXCEPT ![k] = Null] /\ Then(t, more) /\ using' = using
  BY DEF DeleteObject, Next1
<1>2. /\ n > 0 /\ n - 1 \in Places(t) /\ Due(t, n - 1) = x
      /\ x \in Instructions
  BY <1>0, <1>1, Typed
<1>3. k \in Blocks /\ x = Delete(k)
  BY <1>1, <1>2, InstructionForms
<1>4. k \in objects
  BY <1>2, <1>3 DEF PtrInv, Endings, EndsOnce
<1>5. ctrl[k] \in Blocks \cup {Null}
  BY <1>3, Typed DEF PtrInv, PtrTypeOK
<1>6. ctrl[k] # Null => Sub(ctrl[k]) \in Instructions
  BY <1>5, InstructionForms
<1>7. more \in Seq(Instructions)
  BY <1>6, Pairs DEF LetGo
<1>8. Advances(t, more)
  BY <1>1, <1>7, ThenAdvances DEF PtrInv
<1>9. ~Writes(t, n - 1) /\ Ends(t, n - 1)
  BY <1>1, <1>2 DEF Writes, Ends
<1>10. CASE ctrl[k] = Null
  <2>1. more = <<>>
    BY <1>10 DEF LetGo
  <2> HIDE DEF more
  <2>2. Quiet(t, more)
    BY <2>1, <1>0, <1>1, <1>2, <1>7, <1>8, <1>9, Pairs DEF Quiet
  <2>3. Length(t)' = n - 1
    BY <2>1, <1>0, <1>2, <1>8, Pairs DEF Advances
  <2> QED BY <1>0, <2>1, <2>2, <2>3, <1>1, <1>2, <1>3, <1>4, <1>10
<1>11. CASE ctrl[k] # Null
  <2>1. more = <<Sub(ctrl[k])>>
    BY <1>11 DEF LetGo
  <2> HIDE DEF more
  <2>2. Len(more) = 1 /\ more[1] = Sub(ctrl[k])
    BY <2>1, <1>6, <1>11, Pairs
  <2>3. \A i \in 1 .. Len(more) : i = 1
    BY <2>2
  <2>4. Quiet(t, more)
    BY <2>2, <2>3, <1>0, <1>1, <1>2, <1>7, <1>8, <1>9, Fields DEF Quiet
  <2>5. Length(t)' = n
    BY <2>2, <1>0, <1>2, <1>8 DEF Advances
  <2>6. n - 1 \in n - 1 .. n - 2 + 1 /\ n - 1 + 1 - (n - 1) = 1
    BY <1>2
  <2>7. Due(t, n - 1)' = Sub(ctrl[k])
    <3>1. \A d \in n - 1 .. n - 2 + 1 : Due(t, d)' = more[n - 1 + 1 - d]
      BY <2>2, <1>0, <1>8 DEF Advances
    <3>2. Due(t, n - 1)' = more[n - 1 + 1 - (n - 1)]
      BY <3>1, <2>6, Zenon
    <3> QED BY <3>2, <2>2, <2>6, Zenon
  <2> QED BY <1>0, <2>1, <2>4, <2>5, <2>7, <1>1, <1>2, <1>3, <1>4, <1>11
<1> QED BY <1>10, <1>11

LEMMA DeleteKeeps ==
  ASSUME PtrInv, NEW t \in Threads, DeleteObject(t)
  PROVE  PtrInv'
<1>1. PICK k \in Blocks, n \in Nat : \E more :
        /\ Quiet(t, more) /\ n = Length(t) /\ Due(t, n - 1) = Delete(k)
        /\ objects' = objects \ {k} /\ ctrl' = [ctrl EXCEPT ![k] = Null]
        /\ k \in objects
        /\ ctrl[k] = Null => more = <<>> /\ Length(t)' = n - 1
        /\ ctrl[k] # Null =>
             /\ more = <<Sub(ctrl[k])>> /\ Length(t)' = n
             /\ Due(t, n - 1)' = Sub(ctrl[k])
  BY DeleteQuiet
<1>2. /\ UNCHANGED <<count, blocks, using>> /\ objects' = objects \ {k}
      /\ ctrl'[k] = Null /\ \A h \in Handles : h # k => ctrl'[h] = ctrl[h]
      /\ ctrl' \in [Handles -> Blocks \cup {Null}] /\ k \in Handles
      /\ n \in Nat \ {0} /\ n = Length(t) /\ Places(t) = 0 .. n - 1
      /\ n - 1 \in Places(t)
      /\ \A u \in Threads : Places(u)' = 0 .. Length(u)' - 1 /\ Length(u)' \in Nat
  BY <1>1, Typed DEF DeleteObject, PtrInv, PtrTypeOK, Places, Length, Quiet
<1>3. Counted(k) /\ IsDue(Delete(k))
  BY <1>1, <1>2, DeletedIsCounted DEF IsDue
<1>4. PICK c \in blocks \cup {Null} : c = ctrl[k]
  BY <1>2, <1>3 DEF PtrInv, Living
<1>5. PtrTypeOK'
  BY <1>1, <1>2 DEF PtrInv, PtrTypeOK, Quiet, Advances
<1>6. Spares
  <2>1. ASSUME NEW u \in Threads, NEW g \in Handles, Held(u, g) PROVE g # k
    <3>1. g \in Locals \/ (g \in blocks /\ count[g] > 0)
      BY <2>1, HeldIsAlive
    <3>2. CASE g \in Locals
      BY <3>2, PtrConstants
    <3>3. CASE g \in blocks /\ count[g] > 0
      BY <3>3, <1>3, CountedBlocks
    <3> QED BY <3>1, <3>2, <3>3
  <2>2. \A u \in Threads : \A d \in Places(u) : Writes(u, d) => Due(u, d).to # k
    BY <1>3 DEF Counted
  <2>3. \A l \in Locals : l # k
    BY PtrConstants
  <2> QED BY <2>1, <2>2, <2>3, <1>2, <1>3, Typed DEF Spares
<1>7. /\ InTurn' /\ NamesApart' /\ Targets' /\ Origins'
      /\ \A h : Counted(h)' <=> Counted(h)
  BY <1>1, <1>6, QuietKeeps, QuietFrames
<1>8. \A u \in Threads : \A d \in Places(u)' :
        \/ d \in Places(u) /\ Due(u, d)' = Due(u, d) /\ (u = t => d < n - 1)
        \/ u = t /\ c # Null /\ d = n - 1 /\ Due(u, d)' = Sub(c)
  <2> SUFFICES ASSUME NEW d \in Places(t)'
               PROVE  \/ d \in Places(t) /\ Due(t, d)' = Due(t, d) /\ d < n - 1
                      \/ c # Null /\ d = n - 1 /\ Due(t, d)' = Sub(c)
    BY <1>1, QuietPlaces
  <2>1. CASE d < n - 1
    <3>1. d \in Places(t) /\ d # n - 1
      BY <2>1, <1>2
    <3> QED BY <3>1, <2>1, <1>1, QuietPlaces
  <2>2. CASE d >= n - 1
    <3>1. Length(t)' = n /\ c # Null
      BY <2>2, <1>1, <1>2, <1>4
    <3>2. d \in 0 .. n - 1
      BY <3>1, <1>2
    <3>3. d = n - 1
      BY <3>2, <2>2
    <3> QED BY <3>1, <3>3, <1>1, <1>4
  <2> QED BY <2>1, <2>2, <1>2
<1>9. \A u \in Threads : \A d \in Places(u) : Due(u, d) # Delete(k) \/ u # t =>
        d \in Places(u)' /\ Due(u, d)' = Due(u, d)
  BY <1>1, QuietPlaces
<1>10. \A u \in Threads : \A d \in Places(u) : Ends(u, d) /\ u = t => d = n - 1
  <2>1. Ends(t, n - 1)
    BY <1>1, Fields DEF Ends
  <2> QED BY <2>1, <1>2 DEF PtrInv, InTurn
<1>11. \A u \in Threads : \A d \in Places(u)' : Due(u, d)' # Delete(k)
  <2> SUFFICES ASSUME NEW u \in Threads, NEW d \in Places(u)', Due(u, d)' = Delete(k)
               PROVE  FALSE
    OBVIOUS
  <2>1. d \in Places(u) /\ Due(u, d) = Delete(k) /\ (u = t => d < n - 1)
    BY <1>8, Fields
  <2>2. u = t
    BY <2>1, <1>1, <1>2 DEF PtrInv, Endings, EndsOnce
  <2>3. d = n - 1
    BY <2>1, <2>2, <1>10, Fields DEF Ends
  <2> QED BY <2>1, <2>2, <2>3, <1>2
<1>12. Endings'
  <2> SUFFICES ASSUME NEW u \in Threads, NEW d \in Places(u)', NEW b \in Blocks
               PROVE  EndsOnce(u, d, b)'
    BY DEF Endings
  <2>1. ASSUME Due(u, d)' = Sub(b) PROVE b \in blocks'
    <3>1. CASE d \in Places(u) /\ Due(u, d)' = Due(u, d)
      <4>1. d \in Places(u) /\ Due(u, d) = Sub(b)
        BY <3>1, <2>1
      <4> QED BY <4>1, <1>2 DEF PtrInv, Endings, EndsOnce
    <3>2. CASE c # Null /\ Due(u, d)' = Sub(c)
      <4>1. Sub(b).block = Sub(c).block
        BY <3>2, <2>1
      <4>2. b = c
        BY <4>1, Fields
      <4> QED BY <4>2, <3>2, <1>2
    <3> QED BY <3>1, <3>2, <1>8
  <2>2. ASSUME Due(u, d)' = Delete(b)
        PROVE  /\ b \in objects'
               /\ b \in blocks' => d > 0 /\ Due(u, d - 1)' = Free(b)
               /\ \A v \in Threads : \A e \in Places(v)' : Due(v, e)' = Delete(b) => v = u
    <3>1. \A v \in Threads : \A e \in Places(v)' : Due(v, e)' = Delete(b) =>
              e \in Places(v) /\ Due(v, e) = Delete(b) /\ (v = t => e < n - 1)
      BY <1>8, Fields
    <3>2. d \in Places(u) /\ Due(u, d) = Delete(b) /\ (u = t => d < n - 1)
      BY <3>1, <2>2
    <3>3. /\ b \in objects
          /\ b \in blocks => d > 0 /\ Due(u, d - 1) = Free(b)
          /\ \A v \in Threads : \A e \in Places(v) : Due(v, e) = Delete(b) => v = u
      BY <3>2 DEF PtrInv, Endings, EndsOnce
    <3>4. ASSUME d > 0 PROVE Due(u, d - 1)' = Due(u, d - 1)
      <4>1. d - 1 \in Places(u) /\ (u = t => d - 1 # n - 1)
        BY <3>2, <3>4, Typed
      <4> QED BY <4>1, <1>1, QuietPlaces
    <3>5. b # k
      BY <2>2, <1>11
    <3> QED BY <3>1, <3>3, <3>4, <3>5, <1>2
  <2>3. ASSUME Due(u, d)' = Free(b)
        PROVE  /\ b \in blocks' /\ count'[b] = 0
               /\ b \in objects' => d + 1 < Length(u)' /\ Due(u, d + 1)' = Delete(b)
               /\ \A v \in Threads : \A e \in Places(v)' :
                    Due(v, e)' = Free(b) => v = u /\ e = d
    <3>1. \A v \in Threads : \A e \in Places(v)' : Due(v, e)' = Free(b) =>
              e \in Places(v) /\ Due(v, e) = Free(b)
      BY <1>8, Fields
    <3>2. d \in Places(u) /\ Due(u, d) = Free(b)
      BY <3>1, <2>3
    <3>3. /\ b \in blocks /\ count[b] = 0
          /\ b \in objects => d + 1 < Length(u) /\ Due(u, d + 1) = Delete(b)
          /\ \A v \in Threads : \A e \in Places(v) : Due(v, e) = Free(b) => v = u /\ e = d
      BY <3>2 DEF PtrInv, Endings, EndsOnce
    <3>4. ASSUME b \in objects' PROVE d + 1 < Length(u)' /\ Due(u, d + 1)' = Delete(b)
      <4>1. b \in objects /\ Delete(b) # Delete(k)
        BY <3>4, <1>2, Fields
      <4>2. d + 1 \in Places(u) /\ Due(u, d + 1) # Delete(k)
        BY <3>2, <3>3, <4>1, Typed
      <4>3. d + 1 \in Places(u)' /\ Due(u, d + 1)' = Due(u, d + 1)
        BY <4>2, <1>9
      <4>4. d + 1 < Length(u)'
        BY <4>3, <3>2, <1>2, Typed
      <4> QED BY <4>1, <4>3, <4>4, <3>3
    <3> QED BY <3>1, <3>3, <3>4, <1>2
  <2> QED BY <2>1, <2>2, <2>3 DEF EndsOnce
<1>13. Living'
  <2>1. \A x : IsDue(x) /\ x # Delete(k) => IsDue(x)'
    BY <1>9 DEF IsDue
  <2>2. ASSUME NEW b \in blocks
        PROVE  IF count'[b] = 0 THEN IsDue(Free(b))' ELSE b \in objects'
    <3>1. IF count[b] = 0 THEN IsDue(Free(b)) ELSE b \in objects
      BY DEF PtrInv, Living
    <3>2. count[b] # 0 => b # k
      BY <1>3, CountedBlocks
    <3> QED BY <3>1, <3>2, <2>1, <1>2, Fields
  <2>3. ASSUME NEW b \in objects' \ blocks' PROVE IsDue(Delete(b))'
    <3>1. b \in objects \ blocks /\ Delete(b) # Delete(k)
      BY <1>2, Fields
    <3>2. IsDue(Delete(b))
      BY <3>1 DEF PtrInv, Living
    <3> QED BY <3>1, <3>2, <2>1
  <2>4. \A h \in Handles : Counted(h)' => ctrl'[h] \in blocks' \cup {Null}
    BY <1>2, <1>7 DEF PtrInv, Living
  <2>5. \A b \in Blocks \ objects' : ctrl'[b] = Null
    BY <1>2, Typed DEF PtrInv, Living
  <2> QED BY <2>2, <2>3, <2>4, <2>5, <1>2 DEF Living
<1>14. Counts'
  <2>1. ASSUME NEW b \in blocks, b # c PROVE Holders(b)' = Holders(b) /\ Subs(b)' = Subs(b)
    <3>1. b # Null
      BY Typed DEF PtrInv, PtrTypeOK
    <3>2. Holders(b)' = Holders(b)
      BY <2>1, <3>1, <1>2, <1>4, <1>7 DEF Holders
    <3>3. Sub(b) # Sub(c) /\ Sub(b) # Delete(k)
      BY <2>1, Fields
    <3>4. \A u \in Threads : (\E d \in Places(u) : Due(u, d) = Sub(b))
                             => \E d \in Places(u)' : Due(u, d)' = Sub(b)
      BY <3>3, <1>9
    <3>5. \A u \in Threads : (\E d \in Places(u)' : Due(u, d)' = Sub(b))
                             => \E d \in Places(u) : Due(u, d) = Sub(b)
      BY <3>3, <1>8
    <3> QED BY <3>2, <3>4, <3>5 DEF Subs
  <2>2. ASSUME c # Null
        PROVE  count'[c] = Cardinality(Holders(c)') + Cardinality(Subs(c)')
    <3>1. Holders(c)' = Holders(c) \ {k} /\ k \in Holders(c)
      BY <2>2, <1>2, <1>3, <1>4, <1>7 DEF Holders
    <3>2. t \notin Subs(c)
      <4>1. \A d \in Places(t) : Due(t, d) = Sub(c) => d = n - 1
        BY <1>10, Fields DEF Ends
      <4> QED BY <4>1, <1>1, Fields DEF Subs
    <3>3. n - 1 \in Places(t)' /\ Due(t, n - 1)' = Sub(c)
      BY <2>2, <1>1, <1>2, <1>4
    <3>4. \A u \in Threads \ {t} : (\E d \in Places(u) : Due(u, d) = Sub(c))
                             => \E d \in Places(u)' : Due(u, d)' = Sub(c)
      BY <1>9
    <3>5. \A u \in Threads \ {t} : (\E d \in Places(u)' : Due(u, d)' = Sub(c))
                             => \E d \in Places(u) : Due(u, d) = Sub(c)
      BY <1>8
    <3>6. Subs(c)' = Subs(c) \cup {t}
      BY <3>3, <3>4, <3>5 DEF Subs
    <3>7. /\ Cardinality(Holders(c)') = Cardinality(Holders(c)) - 1
          /\ Cardinality(Subs(c)') = Cardinality(Subs(c)) + 1
      <4>1. IsFiniteSet(Holders(c)) /\ IsFiniteSet(Subs(c))
        BY FiniteCounts
      <4>2. Cardinality(Holders(c) \ {k}) = Cardinality(Holders(c)) - 1
        BY <3>1, <4>1, FS_RemoveElement
      <4>3. Cardinality(Subs(c) \cup {t}) = Cardinality(Subs(c)) + 1
        BY <3>2, <4>1, FS_AddElement
      <4> QED BY <3>1, <3>6, <4>2, <4>3
    <3>8. /\ Cardinality(Holders(c)) \in Nat /\ Cardinality(Subs(c)) \in Nat
          /\ count[c] = Cardinality(Holders(c)) + Cardinality(Subs(c))
      BY <2>2, FiniteCounts DEF PtrInv, Counts
    <3> QED BY <3>7, <3>8, <1>2
  <2>3. ASSUME NEW b \in blocks, b # c
        PROVE  count'[b] = Cardinality(Holders(b)') + Cardinality(Subs(b)')
    BY <2>1, <2>3, <1>2 DEF PtrInv, Counts
  <2>4. \A b \in blocks : b # Null
    BY Typed DEF PtrInv, PtrTypeOK
  <2> QED BY <2>2, <2>3, <2>4, <1>2 DEF Counts
<1> QED BY <1>5, <1>7, <1>12, <1>13, <1>14 DEF PtrInv

(* The control block is deleted.                                           *)
LEMMA FreeQuiet ==
  ASSUME PtrInv, NEW t \in Threads, DeleteBlock(t)
  PROVE  \E k \in blocks, n \in Nat :
           /\ Quiet(t, <<>>) /\ n = Length(t) /\ n > 0 /\ Due(t, n - 1) = Free(k)
           /\ blocks' = blocks \ {k} /\ Length(t)' = n - 1
<1>0. PICK n \in Nat : n = Length(t)
  BY Typed
<1> DEFINE x == Head(todo[t])
           k == x.block
<1>1. /\ todo[t] # <<>> /\ x.op = "free" /\ blocks' = blocks \ {k}
      /\ Then(t, <<>>) /\ using' = using
  BY DEF DeleteBlock, Next1
<1>2. /\ n > 0 /\ n - 1 \in Places(t) /\ Due(t, n - 1) = x
      /\ x \in Instructions
  BY <1>0, <1>1, Typed
<1>3. k \in Blocks /\ x = Free(k)
  BY <1>1, <1>2, InstructionForms
<1>4. k \in blocks
  BY <1>2, <1>3 DEF PtrInv, Endings, EndsOnce
<1>5. Advances(t, <<>>)
  BY <1>1, Pairs, ThenAdvances DEF PtrInv
<1>6. ~Writes(t, n - 1)
  BY <1>1, <1>2 DEF Writes
<1>7. Quiet(t, <<>>)
  BY <1>0, <1>1, <1>2, <1>5, <1>6, Pairs DEF Quiet
<1>8. Length(t)' = n - 1
  BY <1>0, <1>2, <1>5, Pairs DEF Advances
<1> QED BY <1>0, <1>1, <1>2, <1>3, <1>4, <1>7, <1>8

LEMMA FreeKeeps ==
  ASSUME PtrInv, NEW t \in Threads, DeleteBlock(t)
  PROVE  PtrInv'
<1>1. PICK k \in blocks, n \in Nat :
        /\ Quiet(t, <<>>) /\ n = Length(t) /\ n > 0 /\ Due(t, n - 1) = Free(k)
        /\ blocks' = blocks \ {k} /\ Length(t)' = n - 1
  BY FreeQuiet
<1>2. /\ UNCHANGED <<count, ctrl, objects, using>> /\ k \in Blocks
      /\ Places(t) = 0 .. n - 1 /\ n - 1 \in Places(t)
      /\ \A u \in Threads : Places(u)' = 0 .. Length(u)' - 1 /\ Length(u)' \in Nat
  BY <1>1, Typed DEF DeleteBlock, PtrInv, PtrTypeOK, Places, Length, Quiet, Advances
<1>3. /\ count[k] = 0 /\ k \notin objects
      /\ \A u \in Threads : \A d \in Places(u) : Due(u, d) = Free(k) => u = t /\ d = n - 1
  BY <1>1, <1>2 DEF PtrInv, Endings, EndsOnce
<1>4. Holders(k) = {} /\ Subs(k) = {}
  BY <1>3, CountedBlocks
<1>5. PtrTypeOK'
  BY <1>1, <1>2 DEF PtrInv, PtrTypeOK, Quiet, Advances
<1>6. Spares
  BY <1>1, <1>2, <1>3 DEF Spares
<1>7. /\ InTurn' /\ NamesApart' /\ Targets' /\ Origins'
      /\ \A h : Counted(h)' <=> Counted(h)
  BY <1>1, <1>6, QuietKeeps, QuietFrames
<1>8. \A u \in Threads : \A d \in Places(u)' :
        d \in Places(u) /\ Due(u, d)' = Due(u, d) /\ (u = t => d < n - 1)
  <2> SUFFICES ASSUME NEW d \in Places(t)'
               PROVE  d \in Places(t) /\ Due(t, d)' = Due(t, d) /\ d < n - 1
    BY <1>1, QuietPlaces, Pairs
  <2>1. d < n - 1 /\ d \in Places(t)
    BY <1>1, <1>2
  <2> QED BY <2>1, <1>1, QuietPlaces
<1>9. \A u \in Threads : \A d \in Places(u) : Due(u, d) # Free(k) =>
        d \in Places(u)' /\ Due(u, d)' = Due(u, d)
  BY <1>1, QuietPlaces
<1>10. Endings'
  <2> SUFFICES ASSUME NEW u \in Threads, NEW d \in Places(u)', NEW b \in Blocks
               PROVE  EndsOnce(u, d, b)'
    BY DEF Endings
  <2>0. d \in Places(u) /\ Due(u, d)' = Due(u, d) /\ (u = t => d < n - 1)
    BY <1>8
  <2>1. ASSUME Due(u, d)' = Sub(b) PROVE b \in blocks'
    <3>1. Due(u, d) = Sub(b)
      BY <2>0, <2>1
    <3>2. b \in blocks
      BY <2>0, <3>1 DEF PtrInv, Endings, EndsOnce
    <3>3. u \in Subs(b)
      BY <2>0, <3>1 DEF Subs
    <3> QED BY <3>2, <3>3, <1>1, <1>4
  <2>2. ASSUME Due(u, d)' = Delete(b)
        PROVE  /\ b \in objects'
               /\ b \in blocks' => d > 0 /\ Due(u, d - 1)' = Free(b)
               /\ \A v \in Threads : \A e \in Places(v)' : Due(v, e)' = Delete(b) => v = u
    <3>1. \A v \in Threads : \A e \in Places(v)' : Due(v, e)' = Delete(b) =>
              e \in Places(v) /\ Due(v, e) = Delete(b)
      BY <1>8
    <3>2. Due(u, d) = Delete(b)
      BY <2>0, <2>2
    <3>3. /\ b \in objects
          /\ b \in blocks => d > 0 /\ Due(u, d - 1) = Free(b)
          /\ \A v \in Threads : \A e \in Places(v) : Due(v, e) = Delete(b) => v = u
      BY <2>0, <3>2 DEF PtrInv, Endings, EndsOnce
    <3>4. ASSUME d > 0 PROVE Due(u, d - 1)' = Due(u, d - 1)
      <4>1. d - 1 \in Places(u) /\ (u = t => d - 1 # n - 1)
        BY <2>0, <3>4, <1>1, Typed
      <4> QED BY <4>1, <1>1, QuietPlaces
    <3> QED BY <3>1, <3>3, <3>4, <1>1, <1>2
  <2>3. ASSUME Due(u, d)' = Free(b)
        PROVE  /\ b \in blocks' /\ count'[b] = 0
               /\ b \in objects' => d + 1 < Length(u)' /\ Due(u, d + 1)' = Delete(b)
               /\ \A v \in Threads : \A e \in Places(v)' :
                    Due(v, e)' = Free(b) => v = u /\ e = d
    <3>1. \A v \in Threads : \A e \in Places(v)' : Due(v, e)' = Free(b) =>
              e \in Places(v) /\ Due(v, e) = Free(b)
      BY <1>8
    <3>2. Due(u, d) = Free(b)
      BY <2>0, <2>3
    <3>3. /\ b \in blocks /\ count[b] = 0
          /\ b \in objects => d + 1 < Length(u) /\ Due(u, d + 1) = Delete(b)
          /\ \A v \in Threads : \A e \in Places(v) : Due(v, e) = Free(b) => v = u /\ e = d
      BY <2>0, <3>2 DEF PtrInv, Endings, EndsOnce
    <3>4. b # k
      <4> SUFFICES ASSUME b = k PROVE FALSE
        OBVIOUS
      <4>1. u = t /\ d = n - 1
        BY <2>0, <3>2, <1>3
      <4> QED BY <4>1, <2>0, <1>1
    <3>5. ASSUME b \in objects PROVE d + 1 < Length(u)' /\ Due(u, d + 1)' = Delete(b)
      <4>1. d + 1 \in Places(u) /\ Due(u, d + 1) # Free(k)
        BY <2>0, <3>3, <3>5, Typed, Fields
      <4>2. d + 1 \in Places(u)' /\ Due(u, d + 1)' = Due(u, d + 1)
        BY <4>1, <1>9
      <4>3. d + 1 < Length(u)'
        BY <4>2, <2>0, <1>2, Typed
      <4> QED BY <4>2, <4>3, <3>3, <3>5
    <3> QED BY <3>1, <3>3, <3>4, <3>5, <1>1, <1>2
  <2> QED BY <2>1, <2>2, <2>3 DEF EndsOnce
<1>11. Living'
  <2>1. \A x : IsDue(x) /\ x # Free(k) => IsDue(x)'
    BY <1>9 DEF IsDue
  <2>2. ASSUME NEW b \in blocks'
        PROVE  IF count'[b] = 0 THEN IsDue(Free(b))' ELSE b \in objects'
    <3>1. b \in blocks /\ Free(b) # Free(k)
      BY <1>1, Fields
    <3>2. IF count[b] = 0 THEN IsDue(Free(b)) ELSE b \in objects
      BY <3>1 DEF PtrInv, Living
    <3> QED BY <3>1, <3>2, <2>1, <1>2
  <2>3. ASSUME NEW b \in objects' \ blocks' PROVE IsDue(Delete(b))'
    <3>1. b \in objects \ blocks /\ Delete(b) # Free(k)
      BY <1>1, <1>2, <1>3, Fields
    <3>2. IsDue(Delete(b))
      BY <3>1 DEF PtrInv, Living
    <3> QED BY <3>1, <3>2, <2>1
  <2>4. \A h \in Handles : Counted(h)' => ctrl'[h] \in blocks' \cup {Null}
    <3>1. \A h \in Handles : Counted(h) => ctrl[h] # k
      BY <1>4 DEF Holders
    <3> QED BY <3>1, <1>1, <1>2, <1>7 DEF PtrInv, Living
  <2>5. \A b \in Blocks \ objects' : ctrl'[b] = Null
    BY <1>2 DEF PtrInv, Living
  <2> QED BY <2>2, <2>3, <2>4, <2>5 DEF Living
<1>12. Counts'
  <2>1. ASSUME NEW b PROVE Holders(b)' = Holders(b) /\ Subs(b)' = Subs(b)
    <3>1. Holders(b)' = Holders(b)
      BY <1>2, <1>7 DEF Holders
    <3>2. \A u \in Threads : (\E d \in Places(u) : Due(u, d) = Sub(b))
                             => \E d \in Places(u)' : Due(u, d)' = Sub(b)
      BY <1>9, Fields
    <3>3. \A u \in Threads : (\E d \in Places(u)' : Due(u, d)' = Sub(b))
                             => \E d \in Places(u) : Due(u, d) = Sub(b)
      BY <1>8
    <3> QED BY <3>1, <3>2, <3>3 DEF Subs
  <2> QED BY <2>1, <1>1, <1>2 DEF PtrInv, Counts
<1> QED BY <1>5, <1>7, <1>10, <1>11, <1>12 DEF PtrInv

-----------------------------------------------------------------------------
(* A step of t that carries out what its call writes.                      *)
Wrote(t) ==
  /\ Length(t) > 0 /\ Writes(t, Length(t) - 1)
  /\ Advances(t, <<>>) /\ UNCHANGED <<blocks, objects, using>>

LEMMA WrotePlaces ==
  ASSUME PtrInv, NEW t \in Threads, Wrote(t)
  PROVE  /\ Length(t)' = Length(t) - 1
         /\ \A u \in Threads \ {t} : Length(u)' = Length(u)
         /\ \A u \in Threads : \A d \in Places(u)' :
              d \in Places(u) /\ Due(u, d)' = Due(u, d) /\ (u = t => d < Length(t) - 1)
         /\ \A u \in Threads : \A d \in Places(u) : u # t \/ d # Length(t) - 1 =>
              d \in Places(u)' /\ Due(u, d)' = Due(u, d)
<1>0. PICK n \in Nat : n = Length(t)
  BY Typed
<1>1. /\ n > 0 /\ Length(t)' = n - 1 /\ Places(t) = 0 .. n - 1
      /\ \A d \in 0 .. n - 2 : Due(t, d)' = Due(t, d)
  BY <1>0, Pairs, Typed DEF Wrote, Advances
<1>2. Places(t)' = 0 .. (Length(t)' - 1)
  BY DEF Places, Length
<1>3. Places(t)' = 0 .. n - 2
  BY <1>0, <1>1, <1>2
<1>4. \A u \in Threads \ {t} :
        Length(u)' = Length(u) /\ Places(u)' = Places(u)
        /\ \A d \in Places(u) : Due(u, d)' = Due(u, d)
  BY DEF Wrote, Advances
<1>5. \A d \in 0 .. n - 2 : d \in 0 .. n - 1 /\ d < n - 1
  BY <1>0
<1>6. \A d \in 0 .. n - 1 : d # n - 1 => d \in 0 .. n - 2
  BY <1>0
<1> QED BY <1>0, <1>1, <1>3, <1>4, <1>5, <1>6

LEMMA WroteKeeps ==
  ASSUME PtrInv, NEW t \in Threads, Wrote(t)
  PROVE  /\ InTurn' /\ NamesApart'
         /\ \A k : Subs(k)' = Subs(k)
         /\ \A k : (IsDue(Delete(k))' <=> IsDue(Delete(k))) /\ (IsDue(Free(k))' <=> IsDue(Free(k)))
         /\ \A u \in Threads : \A d \in Places(u)' : \A e \in 0 .. d - 1 :
              e \in Places(u)' /\ Due(u, e)' = Due(u, e)
         /\ (\A k \in blocks : count[k] = 0 => count'[k] = 0) => Endings'
<1>0. PICK n \in Nat : n = Length(t)
  BY Typed
<1>1. /\ n > 0 /\ Length(t)' = n - 1 /\ n - 1 \in Places(t)
      /\ \A u \in Threads \ {t} : Length(u)' = Length(u)
      /\ \A u \in Threads : \A d \in Places(u)' :
           d \in Places(u) /\ Due(u, d)' = Due(u, d) /\ (u = t => d < n - 1)
      /\ \A u \in Threads : \A d \in Places(u) : u # t \/ d # n - 1 =>
           d \in Places(u)' /\ Due(u, d)' = Due(u, d)
  BY <1>0, WrotePlaces, Typed DEF Wrote
<1>2. /\ UNCHANGED <<blocks, objects, using>>
      /\ Writes(t, n - 1) /\ Due(t, n - 1).op \notin {"sub", "delete", "free"}
  BY <1>0 DEF Wrote, Writes
<1>3. /\ \A u \in Threads : Length(u)' <= Length(u)
      /\ \A u \in Threads : Length(u) \in Nat /\ Length(u)' \in Nat
      /\ \A u \in Threads : Places(u) = 0 .. Length(u) - 1
      /\ \A u \in Threads : Places(u)' = 0 .. (Length(u)' - 1)
  <2>1. \A u \in Threads : Length(u) \in Nat /\ Places(u) = 0 .. Length(u) - 1
    BY Typed
  <2>2. \A u \in Threads : Places(u)' = 0 .. (Length(u)' - 1)
    BY DEF Places, Length
  <2>3. \A u \in Threads : Length(u)' \in Nat /\ Length(u)' <= Length(u)
    BY <1>0, <1>1, <2>1
  <2> QED BY <2>1, <2>2, <2>3
<1>4. \A u \in Threads : \A d \in Places(u) :
        Due(u, d).op \in {"sub", "delete", "free"} => d \in Places(u)' /\ Due(u, d)' = Due(u, d)
  BY <1>1, <1>2
<1>5. \A u \in Threads : \A d \in Places(u)' : \A e \in 0 .. d - 1 :
        e \in Places(u)' /\ Due(u, e)' = Due(u, e)
  <2> SUFFICES ASSUME NEW u \in Threads, NEW d \in Places(u)', NEW e \in 0 .. d - 1
               PROVE  e \in Places(u)'
    BY <1>1
  <2> QED BY <1>3
<1>6. ASSUME NEW x, x.op \in {"sub", "delete", "free"}, NEW u \in Threads
      PROVE  (\E d \in Places(u)' : Due(u, d)' = x) <=> \E d \in Places(u) : Due(u, d) = x
  BY <1>1, <1>4, <1>6
<1>7. \A k : Subs(k)' = Subs(k)
  BY <1>6, Fields DEF Subs
<1>8. \A k : (IsDue(Delete(k))' <=> IsDue(Delete(k))) /\ (IsDue(Free(k))' <=> IsDue(Free(k)))
  BY <1>6, Fields DEF IsDue
<1>9. NamesApart'
  <2>1. \A u \in Threads : Length(u)' > 0 => Length(u) > 0
    BY <1>3
  <2> QED BY <2>1, <1>2 DEF PtrInv, NamesApart
<1>10. InTurn'
  <2> SUFFICES ASSUME NEW u \in Threads, NEW d \in Places(u)'
               PROVE  /\ Due(u, d)'.op = "read" => d > 0 /\ Due(u, d - 1)' = Add(Due(u, d)'.to)
                      /\ Due(u, d)'.op = "steal" => d = 0
                      /\ Due(u, d)'.op = "add" =>
                           /\ d + 1 < Length(u)' => Due(u, d + 1)'.op = "read"
                           /\ \A e \in 0 .. d - 1 : ~Writes(u, e)'
                      /\ Ends(u, d)' => d + 3 >= Length(u)'
                           /\ \A e \in Places(u)' : Ends(u, e)' => e = d
    BY Zenon DEF InTurn
  <2>1. d \in Places(u) /\ Due(u, d)' = Due(u, d) /\ d \in Nat
    BY <1>1, <1>3
  <2>2. /\ Due(u, d).op = "read" => d > 0 /\ Due(u, d - 1) = Add(Due(u, d).to)
        /\ Due(u, d).op = "steal" => d = 0
        /\ Due(u, d).op = "add" =>
             /\ d + 1 < Length(u) => Due(u, d + 1).op = "read"
             /\ \A e \in 0 .. d - 1 : ~Writes(u, e)
        /\ Ends(u, d) => d + 3 >= Length(u)
             /\ \A e \in Places(u) : Ends(u, e) => e = d
    BY <2>1, Zenon DEF PtrInv, InTurn
  <2>3. \A e \in Places(u)' : (Ends(u, e)' => Ends(u, e)) /\ (Writes(u, e)' => Writes(u, e))
    BY <1>1 DEF Ends, Writes
  <2>4. ASSUME d > 0 PROVE Due(u, d - 1)' = Due(u, d - 1)
    <3>1. d - 1 \in 0 .. d - 1
      BY <2>1, <2>4
    <3> QED BY <3>1, <1>5
  <2>5. ASSUME d + 1 < Length(u)'
        PROVE  d + 1 < Length(u) /\ Due(u, d + 1)' = Due(u, d + 1)
    <3>1. d + 1 \in Places(u)'
      BY <2>1, <2>5, <1>3
    <3> QED BY <3>1, <2>1, <2>5, <1>1, <1>3
  <2>6. Ends(u, d)' => d + 3 >= Length(u)' /\ \A e \in Places(u)' : Ends(u, e)' => e = d
    <3>1. ASSUME Ends(u, d) PROVE d + 3 >= Length(u)'
      BY <2>1, <2>2, <3>1, <1>3
    <3> QED BY <3>1, <2>2, <2>3, <1>1
  <2>7. \A e \in 0 .. d - 1 : e \in Places(u)'
    BY <1>5
  <2> QED BY <2>1, <2>2, <2>3, <2>4, <2>5, <2>6, <2>7
<1>11. ASSUME \A k \in blocks : count[k] = 0 => count'[k] = 0
       PROVE  Endings'
  <2> SUFFICES ASSUME NEW u \in Threads, NEW d \in Places(u)', NEW b \in Blocks
               PROVE  EndsOnce(u, d, b)'
    BY DEF Endings
  <2>0. d \in Places(u) /\ Due(u, d)' = Due(u, d) /\ d \in Nat
    BY <1>1, <1>3
  <2>1. ASSUME Due(u, d)' = Sub(b) PROVE b \in blocks'
    <3>1. Due(u, d) = Sub(b)
      BY <2>0, <2>1
    <3> QED BY <2>0, <3>1, <1>2 DEF PtrInv, Endings, EndsOnce
  <2>2. ASSUME Due(u, d)' = Delete(b)
        PROVE  /\ b \in objects'
               /\ b \in blocks' => d > 0 /\ Due(u, d - 1)' = Free(b)
               /\ \A v \in Threads : \A e \in Places(v)' : Due(v, e)' = Delete(b) => v = u
    <3>1. Due(u, d) = Delete(b)
      BY <2>0, <2>2
    <3>2. /\ b \in objects
          /\ b \in blocks => d > 0 /\ Due(u, d - 1) = Free(b)
          /\ \A v \in Threads : \A e \in Places(v) : Due(v, e) = Delete(b) => v = u
      BY <2>0, <3>1 DEF PtrInv, Endings, EndsOnce
    <3>3. ASSUME d > 0 PROVE Due(u, d - 1)' = Due(u, d - 1)
      <4>1. d - 1 \in 0 .. d - 1
        BY <2>0, <3>3
      <4> QED BY <4>1, <1>5
    <3> QED BY <3>2, <3>3, <1>1, <1>2
  <2>3. ASSUME Due(u, d)' = Free(b)
        PROVE  /\ b \in blocks' /\ count'[b] = 0
               /\ b \in objects' => d + 1 < Length(u)' /\ Due(u, d + 1)' = Delete(b)
               /\ \A v \in Threads : \A e \in Places(v)' :
                    Due(v, e)' = Free(b) => v = u /\ e = d
    <3>1. Due(u, d) = Free(b)
      BY <2>0, <2>3
    <3>2. /\ b \in blocks /\ count[b] = 0
          /\ b \in objects => d + 1 < Length(u) /\ Due(u, d + 1) = Delete(b)
          /\ \A v \in Threads : \A e \in Places(v) : Due(v, e) = Free(b) => v = u /\ e = d
      BY <2>0, <3>1 DEF PtrInv, Endings, EndsOnce
    <3>3. ASSUME b \in objects PROVE d + 1 < Length(u)' /\ Due(u, d + 1)' = Delete(b)
      <4>1. d + 1 < Length(u) /\ Due(u, d + 1) = Delete(b)
        BY <3>2, <3>3
      <4>2. d + 1 \in Places(u)
        BY <4>1, <2>0, <1>3
      <4>3. d + 1 \in Places(u)' /\ Due(u, d + 1)' = Due(u, d + 1)
        BY <4>1, <4>2, <1>4, Fields
      <4>4. d + 1 < Length(u)'
        BY <4>3, <1>3
      <4> QED BY <4>1, <4>3, <4>4
    <3> QED BY <3>2, <3>3, <1>1, <1>2, <1>11
  <2> QED BY <2>1, <2>2, <2>3 DEF EndsOnce
<1> QED BY <1>5, <1>7, <1>8, <1>9, <1>10, <1>11

(* No two calls write the same shared_ptr.                                 *)
LEMMA WritersApart ==
  ASSUME PtrInv, NEW t \in Threads, NEW u \in Threads, NEW d \in Places(t), NEW e \in Places(u),
         Writes(t, d), Writes(u, e), Due(t, d).to = Due(u, e).to
  PROVE  t = u
<1> DEFINE h == Due(t, d).to
<1>1. h \in Handles /\ Length(t) > 0 /\ Length(u) > 0
  BY Typed, InstructionForms DEF Writes
<1>2. CASE h \in Locals
  <2>1. h \in using[t] \cap using[u]
    BY <1>2 DEF PtrInv, Targets
  <2> QED BY <2>1, <1>1 DEF PtrInv, NamesApart
<1>3. CASE h \in blocks
  <2>1. h \in Blocks
    BY <1>3 DEF PtrInv, PtrTypeOK
  <2>2. PICK l \in using[t] : Counted(l) /\ ctrl[l] = h
    BY <2>1, <1>3 DEF PtrInv, Targets
  <2>3. l \in Handles
    BY Typed
  <2>4. l \in using[u]
    BY <2>1, <2>2, <2>3 DEF PtrInv, Targets
  <2> QED BY <2>2, <2>4, <1>1 DEF PtrInv, NamesApart
<1>4. CASE h \in Blocks \ blocks
  <2>1. PICK i \in 0 .. d - 1 : Due(t, i) = Delete(h)
    BY <1>4 DEF PtrInv, Targets
  <2>2. PICK j \in 0 .. e - 1 : Due(u, j) = Delete(h)
    BY <1>4 DEF PtrInv, Targets
  <2>3. i \in Places(t) /\ j \in Places(u)
    BY Typed
  <2> QED BY <1>4, <2>1, <2>2, <2>3 DEF PtrInv, Endings, EndsOnce
<1> QED BY <1>1, <1>2, <1>3, <1>4 DEF Handles

LEMMA WriteNext ==
  ASSUME PtrInv, NEW t \in Threads, todo[t] # <<>>,
         Head(todo[t]).op \in {"read", "steal", "add"}, Then(t, <<>>),
         UNCHANGED <<blocks, objects, using>>
  PROVE  /\ Wrote(t) /\ Length(t) - 1 \in Places(t) /\ Length(t) > 0
         /\ Due(t, Length(t) - 1) = Head(todo[t]) /\ Head(todo[t]) \in Instructions
<1>1. /\ Length(t) > 0 /\ Length(t) - 1 \in Places(t)
      /\ Due(t, Length(t) - 1) = Head(todo[t]) /\ Head(todo[t]) \in Instructions
  BY Typed
<1>2. Advances(t, <<>>)
  BY Pairs, ThenAdvances DEF PtrInv
<1> QED BY <1>1, <1>2 DEF Wrote, Writes

LEMMA ReadKeeps ==
  ASSUME PtrInv, NEW t \in Threads, ReadCtrl(t)
  PROVE  PtrInv'
<1>0. PICK n \in Nat : n = Length(t)
  BY Typed
<1> DEFINE x == Head(todo[t])
           h == x.to
           g == x.from
<1>1. /\ todo[t] # <<>> /\ x.op = "read" /\ ctrl' = [ctrl EXCEPT ![h] = ctrl[g]]
      /\ Then(t, <<>>) /\ UNCHANGED <<count, blocks, objects, using>>
  BY DEF ReadCtrl, Next1
<1>2. /\ Wrote(t) /\ n - 1 \in Places(t) /\ n > 0
      /\ Due(t, n - 1) = x /\ h \in Handles /\ g \in Handles
  BY <1>0, <1>1, WriteNext, InstructionForms
<1> HIDE DEF x
<1>3. /\ n - 1 > 0 /\ Due(t, n - 2) = Add(h) /\ n - 2 \in Places(t)
      /\ Held(t, g)
  <2>1. n - 1 > 0 /\ Due(t, n - 1 - 1) = Add(h) /\ Held(t, g)
    BY <1>1, <1>2 DEF PtrInv, InTurn, Origins
  <2>2. n - 1 - 1 = n - 2 /\ n - 2 \in 0 .. n - 1
    BY <2>1, <1>0
  <2> QED BY <2>1, <2>2, <1>0, Typed
<1>4. Writes(t, n - 1) /\ Writes(t, n - 2) /\ Due(t, n - 2).to = h
  BY <1>1, <1>2, <1>3, Fields DEF Writes
<1>5. ~Counted(h) /\ Counted(g)
  BY <1>2, <1>3, <1>4 DEF Counted, Held
<1>6. /\ ctrl'[h] = ctrl[g] /\ \A i \in Handles : i # h => ctrl'[i] = ctrl[i]
      /\ ctrl' \in [Handles -> Blocks \cup {Null}]
  BY <1>1, <1>2 DEF PtrInv, PtrTypeOK
<1>7. /\ Length(t)' = n - 1
      /\ \A u \in Threads \ {t} : Length(u)' = Length(u)
      /\ \A u \in Threads : \A d \in Places(u)' :
           d \in Places(u) /\ Due(u, d)' = Due(u, d) /\ (u = t => d < n - 1)
      /\ \A u \in Threads : \A d \in Places(u) : u # t \/ d # n - 1 =>
           d \in Places(u)' /\ Due(u, d)' = Due(u, d)
  BY <1>0, <1>2, WrotePlaces
<1>8. \A i : Counted(i)' <=> Counted(i)
  <2>1. \A u \in Threads : \A d \in Places(u)' :
          Writes(u, d)' => d \in Places(u) /\ Writes(u, d) /\ Due(u, d)' = Due(u, d)
    BY <1>7 DEF Writes
  <2>2. \A i : Counted(i) => Counted(i)'
    BY <2>1 DEF Counted
  <2>3. \A u \in Threads : \A d \in Places(u) : Writes(u, d) /\ (u # t \/ d # n - 1) =>
          d \in Places(u)' /\ Writes(u, d)' /\ Due(u, d)' = Due(u, d)
    BY <1>7 DEF Writes
  <2>4. n - 2 # n - 1 /\ Due(t, n - 1).to = Due(t, n - 2).to
    BY <1>0, <1>2, <1>4
  <2>5. \A i : \A u \in Threads : \A d \in Places(u) : Writes(u, d) /\ Due(u, d).to = i =>
          \E e \in Places(u)' : Writes(u, e)' /\ Due(u, e)'.to = i
    BY <2>3, <2>4, <1>3, <1>4
  <2>6. \A i : Counted(i)' => Counted(i)
    BY <2>5 DEF Counted
  <2> QED BY <2>2, <2>6
<1>9. \A i \in Handles : Counted(i) => ctrl'[i] = ctrl[i]
  BY <1>5, <1>6
<1>10. \A u \in Threads : \A i : Held(u, i)' <=> Held(u, i)
  <2>1. \A u \in Threads : \A l \in using[u] : Counted(l) => ctrl'[l] = ctrl[l]
    BY <1>9, Typed
  <2> QED BY <2>1, <1>1, <1>8 DEF Held
<1>11. PtrTypeOK'
  BY <1>1, <1>2, <1>6 DEF PtrInv, PtrTypeOK, Wrote, Advances
<1>12. InTurn' /\ NamesApart' /\ Endings'
  BY <1>1, <1>2, WroteKeeps
<1>13. Targets'
  <2> SUFFICES ASSUME NEW u \in Threads, NEW d \in Places(u)', Writes(u, d)'
               PROVE  LET i == Due(u, d)' IN
                      /\ i.to \in Locals => i.to \in using'[u]
                      /\ i.to \in Blocks =>
                           /\ i.to \in objects'
                           /\ \A l \in Handles : Counted(l)' /\ ctrl'[l] = i.to => l \in using'[u]
                           /\ i.to \in blocks' => \E l \in using'[u] : Counted(l)' /\ ctrl'[l] = i.to
                           /\ i.to \notin blocks' => \E e \in 0 .. d - 1 : Due(u, e)' = Delete(i.to)
    BY DEF Targets
  <2>0. d \in Places(u) /\ Due(u, d)' = Due(u, d) /\ Writes(u, d)
    BY <1>7 DEF Writes
  <2>1. \A e \in 0 .. d - 1 : Due(u, e)' = Due(u, e)
    BY <1>2, WroteKeeps
  <2> DEFINE i == Due(u, d).to
  <2>2. i \in Locals => i \in using'[u]
    BY <2>0, <1>1 DEF PtrInv, Targets
  <2>3. ASSUME i \in Blocks
        PROVE  /\ i \in objects
               /\ \A l \in Handles : Counted(l) /\ ctrl[l] = i => l \in using[u]
               /\ i \in blocks => \E l \in using[u] : Counted(l) /\ ctrl[l] = i
               /\ i \notin blocks => \E e \in 0 .. d - 1 : Due(u, e) = Delete(i)
    BY <2>0, <2>3 DEF PtrInv, Targets
  <2>4. \A l \in using[u] : l \in Handles
    BY Typed
  <2> QED BY <2>0, <2>1, <2>2, <2>3, <2>4, <1>1, <1>8, <1>9
<1>14. Origins'
  <2> SUFFICES ASSUME NEW u \in Threads, NEW d \in Places(u)'
               PROVE  /\ Due(u, d)'.op = "read" => Held(u, Due(u, d).from)'
                      /\ Due(u, d)'.op = "steal" =>
                           Due(u, d)'.from \in using'[u] /\ Counted(Due(u, d).from)'
                      /\ Due(u, d)'.op = "add" /\ d + 1 = Length(u)' /\ ctrl'[Due(u, d)'.to] # Null =>
                           \E i \in Handles : Held(u, i)' /\ ctrl'[i] = ctrl'[Due(u, d)'.to]
    BY DEF Origins
  <2>0. d \in Places(u) /\ Due(u, d)' = Due(u, d)
    BY <1>7
  <2>1. /\ Due(u, d).op = "read" => Held(u, Due(u, d).from)
        /\ Due(u, d).op = "steal" => Due(u, d).from \in using[u] /\ Counted(Due(u, d).from)
    BY <2>0 DEF PtrInv, Origins
  <2>2. ASSUME Due(u, d)'.op = "add", d + 1 = Length(u)', ctrl'[Due(u, d)'.to] # Null
        PROVE  \E i \in Handles : Held(u, i)' /\ ctrl'[i] = ctrl'[Due(u, d)'.to]
    <3>1. Writes(u, d) /\ Due(u, d).to \in Handles
      BY <2>0, <2>2, Typed, InstructionForms DEF Writes
    <3>2. CASE u = t
      <4>1. d = n - 2
        BY <3>2, <2>0, <2>2, <1>0, <1>7, Typed
      <4> QED BY <4>1, <3>2, <2>0, <1>3, <1>4, <1>5, <1>6, <1>10, <1>2, <1>9
    <3>3. CASE u # t
      <4>1. Due(u, d).to # h
        BY <3>1, <3>3, <2>0, <1>2, <1>4, WritersApart
      <4>2. d + 1 = Length(u)
        BY <3>3, <2>2, <1>7
      <4>3. ctrl'[Due(u, d).to] = ctrl[Due(u, d).to]
        BY <4>1, <3>1, <1>6
      <4>4. PICK i \in Handles : Held(u, i) /\ ctrl[i] = ctrl[Due(u, d).to]
        BY <4>2, <4>3, <2>0, <2>2 DEF PtrInv, Origins
      <4>5. ctrl'[i] = ctrl[i]
        BY <4>4, <1>9 DEF Held
      <4> QED BY <4>3, <4>4, <4>5, <2>0, <1>10
    <3> QED BY <3>2, <3>3
  <2> QED BY <2>0, <2>1, <2>2, <1>1, <1>8, <1>10
<1>15. Living'
  <2>1. \A i \in Handles : Counted(i)' => ctrl'[i] \in blocks' \cup {Null}
    BY <1>1, <1>8, <1>9 DEF PtrInv, Living
  <2>2. h \in Blocks => h \in objects
    BY <1>2, <1>4 DEF PtrInv, Targets
  <2>3. \A k \in Blocks \ objects' : ctrl'[k] = Null
    BY <2>2, <1>1, <1>6, Typed DEF PtrInv, Living
  <2>4. \A k : (IsDue(Delete(k))' <=> IsDue(Delete(k))) /\ (IsDue(Free(k))' <=> IsDue(Free(k)))
    BY <1>2, WroteKeeps
  <2> QED BY <2>1, <2>3, <2>4, <1>1 DEF PtrInv, Living
<1>16. Counts'
  <2>1. \A k : Holders(k)' = Holders(k)
    BY <1>8, <1>9 DEF Holders
  <2>2. \A k : Subs(k)' = Subs(k)
    BY <1>2, WroteKeeps
  <2> QED BY <2>1, <2>2, <1>1 DEF PtrInv, Counts
<1> QED BY <1>11, <1>12, <1>13, <1>14, <1>15, <1>16 DEF PtrInv

(* The last write of a call: from now on its target counts.                *)
LEMMA LastWrite ==
  ASSUME PtrInv, NEW t \in Threads, NEW h \in Handles, Wrote(t),
         Due(t, Length(t) - 1).to = h,
         \A e \in 0 .. Length(t) - 2 : ~Writes(t, e)
  PROVE  /\ ~Counted(h) /\ Counted(h)'
         /\ \A i : i # h => (Counted(i)' <=> Counted(i))
         /\ \A u \in Threads : \A d \in Places(u)' : Writes(u, d)' =>
              /\ u # t /\ d \in Places(u) /\ Due(u, d)' = Due(u, d) /\ Writes(u, d)
              /\ Due(u, d).to # h
              /\ \A e \in 0 .. d - 1 : Due(u, e)' = Due(u, e)
         /\ \A u \in Threads : u # t /\ Length(u) > 0 =>
              h \notin using[u] /\ \A l \in using[u] : ctrl[l] = h => ~Counted(l)
<1>0. PICK n \in Nat : n = Length(t)
  BY Typed
<1>1. /\ n > 0 /\ n - 1 \in Places(t) /\ Writes(t, n - 1) /\ Due(t, n - 1).to = h
      /\ Places(t) = 0 .. n - 1
      /\ UNCHANGED <<blocks, objects, using>>
  BY <1>0, Typed DEF Wrote
<1>2. /\ \A u \in Threads : \A d \in Places(u)' :
           d \in Places(u) /\ Due(u, d)' = Due(u, d) /\ (u = t => d < n - 1)
      /\ \A u \in Threads : \A d \in Places(u) : u # t \/ d # n - 1 =>
           d \in Places(u)' /\ Due(u, d)' = Due(u, d)
  BY <1>0, WrotePlaces
<1>3. ~Counted(h)
  BY <1>1 DEF Counted
<1>4. \A d \in Places(t) : d < n - 1 => d \in 0 .. n - 2
  BY <1>0, <1>1
<1>5. \A u \in Threads : \A d \in Places(u)' : Writes(u, d)' =>
        /\ u # t /\ d \in Places(u) /\ Due(u, d)' = Due(u, d) /\ Writes(u, d)
  BY <1>0, <1>2, <1>4 DEF Writes
<1>6. \A u \in Threads : \A d \in Places(u) : u # t /\ Writes(u, d) => Due(u, d).to # h
  BY <1>1, WritersApart
<1>7. Counted(h)'
  BY <1>5, <1>6 DEF Counted
<1>8. ASSUME NEW i, i # h PROVE Counted(i)' <=> Counted(i)
  <2>1. \A u \in Threads : \A d \in Places(u) : Writes(u, d) /\ Due(u, d).to = i =>
          d \in Places(u)' /\ Writes(u, d)' /\ Due(u, d)'.to = i
    BY <1>1, <1>2, <1>8 DEF Writes
  <2> QED BY <2>1, <1>5 DEF Counted
<1>9. ASSUME NEW u \in Threads, u # t, Length(u) > 0
      PROVE  h \notin using[u] /\ \A l \in using[u] : ctrl[l] = h => ~Counted(l)
  <2>1. using[t] \cap using[u] = {}
    BY <1>0, <1>1, <1>9 DEF PtrInv, NamesApart
  <2>2. using[u] \subseteq Locals /\ Locals \subseteq Handles
    BY Typed
  <2>3. h \in Locals => h \in using[t]
    BY <1>1 DEF PtrInv, Targets
  <2>4. h \in Blocks => \A l \in Handles : Counted(l) /\ ctrl[l] = h => l \in using[t]
    BY <1>1 DEF PtrInv, Targets
  <2>5. \A l \in using[u] : ctrl[l] \in Blocks \cup {Null}
    BY <2>2 DEF PtrInv, PtrTypeOK
  <2>6. h # Null
    BY Typed
  <2> QED BY <2>1, <2>2, <2>3, <2>4, <2>5, <2>6
<1>10. \A u \in Threads : \A d \in Places(u)' : \A e \in 0 .. d - 1 : Due(u, e)' = Due(u, e)
  BY WroteKeeps
<1> QED BY <1>3, <1>5, <1>6, <1>7, <1>8, <1>9, <1>10

(* One holder takes the place of another.                                  *)
LEMMA Exchange ==
  ASSUME NEW S, IsFiniteSet(S), NEW a \in S, NEW b, b \notin S
  PROVE  Cardinality((S \ {a}) \cup {b}) = Cardinality(S)
<1>1. IsFiniteSet(S \ {a}) /\ Cardinality(S \ {a}) = Cardinality(S) - 1
  BY FS_RemoveElement
<1>2. b \notin S \ {a}
  OBVIOUS
<1>3. Cardinality((S \ {a}) \cup {b}) = Cardinality(S \ {a}) + 1
  BY <1>1, <1>2, FS_AddElement
<1>4. Cardinality(S) \in Nat
  BY FS_CardinalityType
<1> QED BY <1>1, <1>3, <1>4

LEMMA StealKeeps ==
  ASSUME PtrInv, NEW t \in Threads, StealCtrl(t)
  PROVE  PtrInv'
<1>0. PICK n \in Nat : n = Length(t)
  BY Typed
<1>x. PICK x : x = Head(todo[t])
  OBVIOUS
<1> DEFINE h == x.to
           g == x.from
<1>1. /\ todo[t] # <<>> /\ x.op = "steal"
      /\ ctrl' = [ctrl EXCEPT ![h] = ctrl[g], ![g] = Null]
      /\ Then(t, <<>>) /\ UNCHANGED <<count, blocks, objects, using>>
  BY <1>x DEF StealCtrl, Next1
<1>2. /\ Wrote(t) /\ n - 1 \in Places(t) /\ n > 0
      /\ Due(t, n - 1) = x /\ h \in Locals /\ g \in Locals
  BY <1>0, <1>x, <1>1, WriteNext, InstructionForms
<1>3. n - 1 = 0 /\ g \in using[t] /\ Counted(g)
  BY <1>1, <1>2 DEF PtrInv, InTurn, Origins
<1>4. h \in Handles /\ g \in Handles /\ h \notin Blocks /\ g \notin Blocks /\ Writes(t, n - 1)
  BY <1>1, <1>2, Typed, PtrConstants DEF Writes
<1>5. /\ ~Counted(h) /\ Counted(h)'
      /\ \A i : i # h => (Counted(i)' <=> Counted(i))
      /\ \A u \in Threads : \A d \in Places(u)' : Writes(u, d)' =>
           /\ u # t /\ d \in Places(u) /\ Due(u, d)' = Due(u, d) /\ Writes(u, d)
           /\ Due(u, d).to # h
           /\ \A e \in 0 .. d - 1 : Due(u, e)' = Due(u, e)
      /\ \A u \in Threads : u # t /\ Length(u) > 0 => h \notin using[u]
  <2>1. \A e \in 0 .. Length(t) - 2 : ~Writes(t, e)
    BY <1>3, <1>0
  <2>2. Due(t, Length(t) - 1).to = h
    BY <1>0, <1>2
  <2>3. Wrote(t) /\ h \in Handles
    BY <1>2, <1>4
  <2> HIDE DEF h
  <2> QED BY <2>1, <2>2, <2>3, LastWrite
<1>6. g # h
  BY <1>3, <1>5
<1>7. /\ ctrl'[h] = ctrl[g] /\ ctrl'[g] = Null
      /\ \A i \in Handles : i # h /\ i # g => ctrl'[i] = ctrl[i]
      /\ ctrl' \in [Handles -> Blocks \cup {Null}]
  BY <1>1, <1>4, <1>6 DEF PtrInv, PtrTypeOK
<1>8. \A u \in Threads : u # t /\ Length(u) > 0 => g \notin using[u]
  BY <1>0, <1>2, <1>3 DEF PtrInv, NamesApart
<1>9. ASSUME NEW u \in Threads, u # t, Length(u) > 0
      PROVE  /\ \A l \in using[u] : ctrl'[l] = ctrl[l] /\ (Counted(l)' <=> Counted(l))
             /\ \A i \in Handles : Held(u, i) => Held(u, i)' /\ ctrl'[i] = ctrl[i]
  <2>1. \A l \in using[u] : l \in Handles /\ l # h /\ l # g
    BY <1>5, <1>8, <1>9, Typed
  <2>2. \A l \in using[u] : ctrl'[l] = ctrl[l] /\ (Counted(l)' <=> Counted(l))
    BY <2>1, <1>5, <1>7
  <2>3. ASSUME NEW i \in Handles, Held(u, i) PROVE Held(u, i)' /\ ctrl'[i] = ctrl[i]
    <3>1. i # h
      BY <2>3, <1>5 DEF Held
    <3>2. i # g
      <4>1. \A l \in using[u] : ctrl[l] # g
        <5>1. \A l \in using[u] : ctrl[l] \in Blocks \cup {Null}
          BY <2>1 DEF PtrInv, PtrTypeOK
        <5> QED BY <5>1, <1>4, Typed
      <4> QED BY <4>1, <2>1, <2>3 DEF Held
    <3> QED BY <3>1, <3>2, <2>2, <2>3, <1>1, <1>5, <1>7 DEF Held
  <2> QED BY <2>2, <2>3
<1>10. \A u \in Threads : \A d \in Places(u) : Length(u) > 0
  BY Typed
<1>11. PtrTypeOK'
  BY <1>1, <1>2, <1>7 DEF PtrInv, PtrTypeOK, Wrote, Advances
<1>12. InTurn' /\ NamesApart' /\ Endings'
  BY <1>1, <1>2, WroteKeeps
<1>13. Targets'
  <2> SUFFICES ASSUME NEW u \in Threads, NEW d \in Places(u)', Writes(u, d)'
               PROVE  LET i == Due(u, d)' IN
                      /\ i.to \in Locals => i.to \in using'[u]
                      /\ i.to \in Blocks =>
                           /\ i.to \in objects'
                           /\ \A l \in Handles : Counted(l)' /\ ctrl'[l] = i.to => l \in using'[u]
                           /\ i.to \in blocks' => \E l \in using'[u] : Counted(l)' /\ ctrl'[l] = i.to
                           /\ i.to \notin blocks' => \E e \in 0 .. d - 1 : Due(u, e)' = Delete(i.to)
    BY DEF Targets
  <2>0. /\ u # t /\ d \in Places(u) /\ Due(u, d)' = Due(u, d) /\ Writes(u, d)
        /\ \A e \in 0 .. d - 1 : Due(u, e)' = Due(u, e) /\ Length(u) > 0
    BY <1>5, <1>10
  <2> DEFINE i == Due(u, d).to
  <2>1. i \in Locals => i \in using'[u]
    BY <2>0, <1>1 DEF PtrInv, Targets
  <2>2. ASSUME i \in Blocks
        PROVE  /\ i \in objects
               /\ \A l \in Handles : Counted(l) /\ ctrl[l] = i => l \in using[u]
               /\ i \in blocks => \E l \in using[u] : Counted(l) /\ ctrl[l] = i
               /\ i \notin blocks => \E e \in 0 .. d - 1 : Due(u, e) = Delete(i)
    BY <2>0, <2>2 DEF PtrInv, Targets
  <2>3. ASSUME i \in Blocks, NEW l \in Handles, Counted(l)', ctrl'[l] = i
        PROVE  l \in using[u]
    <3>1. i # Null
      BY <2>3, Typed
    <3>2. l # h
      BY <2>0, <2>2, <2>3, <1>3, <1>4, <1>7, <1>8, <1>10
    <3> QED BY <3>1, <3>2, <2>2, <2>3, <1>5, <1>7
  <2> HIDE DEF i
  <2>4. i \in blocks => i \in Blocks
    BY DEF PtrInv, PtrTypeOK
  <2>5. ASSUME i \in blocks PROVE \E l \in using[u] : Counted(l)' /\ ctrl'[l] = i
    <3>1. \A l \in using[u] : ctrl'[l] = ctrl[l] /\ (Counted(l)' <=> Counted(l))
      BY <2>0, <1>9, <1>10
    <3> QED BY <3>1, <2>2, <2>4, <2>5
  <2>6. ASSUME i \in Blocks, i \notin blocks PROVE \E e \in 0 .. d - 1 : Due(u, e)' = Delete(i)
    BY <2>0, <2>2, <2>6
  <2> QED BY <2>0, <2>1, <2>2, <2>3, <2>5, <2>6, <1>1 DEF i
<1>14. Origins'
  <2> SUFFICES ASSUME NEW u \in Threads, NEW d \in Places(u)'
               PROVE  /\ Due(u, d)'.op = "read" => Held(u, Due(u, d).from)'
                      /\ Due(u, d)'.op = "steal" =>
                           Due(u, d)'.from \in using'[u] /\ Counted(Due(u, d).from)'
                      /\ Due(u, d)'.op = "add" /\ d + 1 = Length(u)' /\ ctrl'[Due(u, d)'.to] # Null =>
                           \E i \in Handles : Held(u, i)' /\ ctrl'[i] = ctrl'[Due(u, d)'.to]
    BY DEF Origins
  <2>1. CASE ~Writes(u, d)'
    BY <2>1 DEF Writes
  <2>2. CASE Writes(u, d)'
    <3>0. /\ u # t /\ d \in Places(u) /\ Due(u, d)' = Due(u, d) /\ Writes(u, d)
          /\ Due(u, d).to # h /\ Length(u) > 0 /\ Length(u)' = Length(u)
      BY <2>2, <1>2, <1>5, <1>10, WrotePlaces
    <3>1. /\ Due(u, d).to \in Handles /\ Due(u, d).to # g
          /\ Due(u, d).op = "read" => Due(u, d).from \in Handles
      BY <3>0, <1>3, Typed, InstructionForms DEF Writes, Counted
    <3>2. ASSUME Due(u, d).op = "read" PROVE Held(u, Due(u, d).from)'
      <4>1. Held(u, Due(u, d).from)
        BY <3>0, <3>2 DEF PtrInv, Origins
      <4> QED BY <4>1, <3>0, <3>1, <3>2, <1>9
    <3>3. ASSUME Due(u, d).op = "steal"
          PROVE Due(u, d).from \in using'[u] /\ Counted(Due(u, d).from)'
      <4>1. Due(u, d).from \in using[u] /\ Counted(Due(u, d).from)
        BY <3>0, <3>3 DEF PtrInv, Origins
      <4> QED BY <4>1, <3>0, <1>1, <1>9
    <3>4. ctrl'[Due(u, d).to] = ctrl[Due(u, d).to]
      BY <3>0, <3>1, <1>7
    <3>5. ASSUME Due(u, d).op = "add", d + 1 = Length(u), ctrl[Due(u, d).to] # Null
          PROVE  \E i \in Handles : Held(u, i)' /\ ctrl'[i] = ctrl[Due(u, d).to]
      <4>1. PICK i \in Handles : Held(u, i) /\ ctrl[i] = ctrl[Due(u, d).to]
        BY <3>0, <3>5 DEF PtrInv, Origins
      <4> QED BY <4>1, <3>0, <1>9
    <3> QED BY <3>0, <3>2, <3>3, <3>4, <3>5
  <2> QED BY <2>1, <2>2
<1>15. Living'
  <2>1. \A i \in Handles : Counted(i)' => ctrl'[i] \in blocks' \cup {Null}
    BY <1>1, <1>3, <1>4, <1>5, <1>7 DEF PtrInv, Living
  <2>2. \A k \in Blocks \ objects' : ctrl'[k] = Null
    BY <1>1, <1>4, <1>7, Typed DEF PtrInv, Living
  <2>3. \A k : (IsDue(Delete(k))' <=> IsDue(Delete(k))) /\ (IsDue(Free(k))' <=> IsDue(Free(k)))
    BY <1>2, WroteKeeps
  <2> QED BY <2>1, <2>2, <2>3, <1>1 DEF PtrInv, Living
<1>16. Counts'
  <2>1. ASSUME NEW k \in blocks PROVE Cardinality(Holders(k)') = Cardinality(Holders(k))
    <3>0. k # Null
      BY Typed DEF PtrInv, PtrTypeOK
    <3>1. CASE ctrl[g] = k
      <4>1. g \in Holders(k) /\ h \notin Holders(k)
        BY <3>1, <1>3, <1>4, <1>5 DEF Holders
      <4>2. Holders(k)' = (Holders(k) \ {g}) \cup {h}
        BY <3>0, <3>1, <1>4, <1>5, <1>6, <1>7 DEF Holders
      <4> QED BY <4>1, <4>2, FiniteCounts, Exchange
    <3>2. CASE ctrl[g] # k
      <4>1. Holders(k)' = Holders(k)
        BY <3>0, <3>2, <1>4, <1>5, <1>6, <1>7 DEF Holders
      <4> QED BY <4>1
    <3> QED BY <3>1, <3>2
  <2>2. \A k : Subs(k)' = Subs(k)
    BY <1>2, WroteKeeps
  <2> QED BY <2>1, <2>2, <1>1 DEF PtrInv, Counts
<1> QED BY <1>11, <1>12, <1>13, <1>14, <1>15, <1>16 DEF PtrInv

(* What the call relies on while it counts what it has read.               *)
LEMMA AddedIsAlive ==
  ASSUME PtrInv, NEW t \in Threads, Length(t) > 0, NEW h \in Handles,
         Due(t, Length(t) - 1) = Add(h), ctrl[h] # Null
  PROVE  \E g \in Handles : /\ Held(t, g) /\ ctrl[g] = ctrl[h]
                            /\ ctrl[h] \in blocks /\ count[ctrl[h]] > 0
<1>1. Length(t) - 1 \in Places(t) /\ Length(t) - 1 + 1 = Length(t)
  BY Typed
<1>2. PICK g \in Handles : Held(t, g) /\ ctrl[g] = ctrl[h]
  BY <1>1, Fields DEF PtrInv, Origins
<1>3. Counted(g) /\ ctrl[h] \in blocks
  BY <1>2, HeldIsAlive
<1> QED BY <1>2, <1>3, CountedBlocks

LEMMA AddKeeps ==
  ASSUME PtrInv, NEW t \in Threads, IncrementRef(t)
  PROVE  PtrInv'
<1>0. PICK n \in Nat : n = Length(t)
  BY Typed
<1>1. PICK h : h = Head(todo[t]).to
  OBVIOUS
<1>2. /\ todo[t] # <<>> /\ Head(todo[t]).op = "add"
      /\ count' = IF ctrl[h] = Null THEN count ELSE [count EXCEPT ![ctrl[h]] = @ + 1]
      /\ Then(t, <<>>) /\ UNCHANGED <<ctrl, blocks, objects, using>>
  BY <1>1 DEF IncrementRef, Next1
<1>3. /\ Wrote(t) /\ n - 1 \in Places(t) /\ n > 0
      /\ Due(t, n - 1) = Add(h) /\ h \in Handles
  BY <1>0, <1>1, <1>2, WriteNext, InstructionForms
<1>4. PICK k \in blocks \cup {Null} : k = ctrl[h]
  BY <1>0, <1>3, AddedIsAlive
<1>5. /\ ~Counted(h) /\ Counted(h)'
      /\ \A i : i # h => (Counted(i)' <=> Counted(i))
      /\ \A u \in Threads : \A d \in Places(u)' : Writes(u, d)' =>
           /\ u # t /\ d \in Places(u) /\ Due(u, d)' = Due(u, d) /\ Writes(u, d)
           /\ Due(u, d).to # h
           /\ \A e \in 0 .. d - 1 : Due(u, e)' = Due(u, e)
      /\ \A u \in Threads : u # t /\ Length(u) > 0 =>
           h \notin using[u] /\ \A l \in using[u] : ctrl[l] = h => ~Counted(l)
  <2>1. \A e \in 0 .. n - 1 - 1 : ~Writes(t, e)
    BY <1>3, Fields DEF PtrInv, InTurn
  <2>2. n - 1 - 1 = n - 2
    BY <1>0
  <2>3. Due(t, n - 1).to = h
    BY <1>3, Fields
  <2> QED BY <2>1, <2>2, <2>3, <1>0, <1>3, LastWrite
<1>6. /\ k \in Blocks \cup {Null} /\ Null \notin Blocks
      /\ \A b \in Blocks : b # k => count'[b] = count[b]
      /\ k # Null => count[k] > 0 /\ count'[k] = count[k] + 1 /\ count[k] \in Nat
      /\ count' \in [Blocks -> Int]
  <2>1. k \in Blocks \cup {Null} /\ Null \notin Blocks
    BY Typed DEF PtrInv, PtrTypeOK
  <2>2. k # Null => count[k] > 0 /\ count[k] \in Nat
    BY <1>0, <1>3, <1>4, AddedIsAlive, CountedBlocks
  <2> QED BY <2>1, <2>2, <1>2, <1>4 DEF PtrInv, PtrTypeOK
<1>7. \A b \in blocks : b \in Blocks
  BY DEF PtrInv, PtrTypeOK
<1>8. ASSUME NEW u \in Threads, u # t, Length(u) > 0
      PROVE  \A i \in Handles : Held(u, i) => Held(u, i)'
  <2>1. \A l \in using[u] : l # h
    BY <1>5, <1>8
  <2>2. \A i \in Handles : Held(u, i) => i # h
    BY <1>5 DEF Held
  <2> QED BY <2>1, <2>2, <1>2, <1>5 DEF Held
<1>9. \A u \in Threads : \A d \in Places(u) : Length(u) > 0
  BY Typed
<1>10. PtrTypeOK'
  BY <1>2, <1>3, <1>6 DEF PtrInv, PtrTypeOK, Wrote, Advances
<1>11. InTurn' /\ NamesApart' /\ Endings'
  <2>1. \A b \in blocks : count[b] = 0 => count'[b] = 0
    BY <1>6, <1>7
  <2> QED BY <2>1, <1>3, WroteKeeps
<1>12. Targets'
  <2> SUFFICES ASSUME NEW u \in Threads, NEW d \in Places(u)', Writes(u, d)'
               PROVE  LET i == Due(u, d)' IN
                      /\ i.to \in Locals => i.to \in using'[u]
                      /\ i.to \in Blocks =>
                           /\ i.to \in objects'
                           /\ \A l \in Handles : Counted(l)' /\ ctrl'[l] = i.to => l \in using'[u]
                           /\ i.to \in blocks' => \E l \in using'[u] : Counted(l)' /\ ctrl'[l] = i.to
                           /\ i.to \notin blocks' => \E e \in 0 .. d - 1 : Due(u, e)' = Delete(i.to)
    BY DEF Targets
  <2>0. /\ u # t /\ d \in Places(u) /\ Due(u, d)' = Due(u, d) /\ Writes(u, d)
        /\ \A e \in 0 .. d - 1 : Due(u, e)' = Due(u, e)
        /\ Length(u) > 0
    BY <1>5, <1>9
  <2> DEFINE i == Due(u, d).to
  <2>1. i \in Locals => i \in using'[u]
    BY <2>0, <1>2 DEF PtrInv, Targets
  <2>2. ASSUME i \in Blocks
        PROVE  /\ i \in objects
               /\ \A l \in Handles : Counted(l) /\ ctrl[l] = i => l \in using[u]
               /\ i \in blocks => \E l \in using[u] : Counted(l) /\ ctrl[l] = i
               /\ i \notin blocks => \E e \in 0 .. d - 1 : Due(u, e) = Delete(i)
    BY <2>0, <2>2 DEF PtrInv, Targets
  <2>3. ASSUME i \in Blocks, ctrl[h] = i PROVE FALSE
    <3>1. PICK g \in Handles : Held(t, g) /\ ctrl[g] = i
      <4>1. ctrl[h] # Null
        BY <2>3, <1>6
      <4> QED BY <4>1, <2>3, <1>0, <1>3, AddedIsAlive
    <3>2. g \in using[u] /\ Counted(g)
      BY <2>2, <2>3, <3>1 DEF Held
    <3>3. using[t] \cap using[u] = {}
      BY <2>0, <1>0, <1>3 DEF PtrInv, NamesApart
    <3>4. g \in Locals /\ g \notin Blocks /\ g # Null
      BY <3>2, Typed, PtrConstants
    <3>5. \A l \in using[t] : ctrl[l] \in Blocks \cup {Null}
      BY Typed DEF PtrInv, PtrTypeOK
    <3> QED BY <3>1, <3>2, <3>3, <3>4, <3>5 DEF Held
  <2> HIDE DEF i
  <2>4. ASSUME i \in Blocks, NEW l \in Handles, Counted(l)', ctrl'[l] = i
        PROVE  l \in using[u]
    <3>1. l # h
      BY <2>3, <2>4, <1>2
    <3> QED BY <3>1, <2>2, <2>4, <1>2, <1>5
  <2>5. ASSUME i \in blocks PROVE \E l \in using[u] : Counted(l)' /\ ctrl'[l] = i
    <3>1. \A l \in using[u] : Counted(l) => Counted(l)'
      BY <1>5
    <3> QED BY <3>1, <2>2, <2>5, <1>2, <1>7
  <2>6. ASSUME i \in Blocks, i \notin blocks PROVE \E e \in 0 .. d - 1 : Due(u, e)' = Delete(i)
    BY <2>0, <2>2, <2>6
  <2> QED BY <2>0, <2>1, <2>2, <2>4, <2>5, <2>6, <1>2 DEF i
<1>13. Origins'
  <2> SUFFICES ASSUME NEW u \in Threads, NEW d \in Places(u)'
               PROVE  /\ Due(u, d)'.op = "read" => Held(u, Due(u, d).from)'
                      /\ Due(u, d)'.op = "steal" =>
                           Due(u, d)'.from \in using'[u] /\ Counted(Due(u, d).from)'
                      /\ Due(u, d)'.op = "add" /\ d + 1 = Length(u)' /\ ctrl'[Due(u, d)'.to] # Null =>
                           \E i \in Handles : Held(u, i)' /\ ctrl'[i] = ctrl'[Due(u, d)'.to]
    BY DEF Origins
  <2>1. CASE ~Writes(u, d)'
    BY <2>1 DEF Writes
  <2>2. CASE Writes(u, d)'
    <3>0. /\ u # t /\ d \in Places(u) /\ Due(u, d)' = Due(u, d)
          /\ Length(u) > 0 /\ Length(u)' = Length(u)
      BY <2>2, <1>3, <1>5, <1>9, WrotePlaces
    <3>1. Due(u, d).op = "read" => Due(u, d).from \in Handles
      BY <3>0, Typed, InstructionForms
    <3>2. ASSUME Due(u, d).op = "read" PROVE Held(u, Due(u, d).from)'
      <4>1. Held(u, Due(u, d).from)
        BY <3>0, <3>2 DEF PtrInv, Origins
      <4> QED BY <4>1, <3>0, <3>1, <3>2, <1>8
    <3>3. ASSUME Due(u, d).op = "steal"
          PROVE Due(u, d).from \in using'[u] /\ Counted(Due(u, d).from)'
      <4>1. Due(u, d).from \in using[u] /\ Counted(Due(u, d).from)
        BY <3>0, <3>3 DEF PtrInv, Origins
      <4>2. Due(u, d).from # h
        BY <4>1, <1>5
      <4>3. Counted(Due(u, d).from)'
        <5>1. PICK f : f = Due(u, d).from
          OBVIOUS
        <5>2. Counted(f)'
          BY <4>1, <4>2, <5>1, <1>5
        <5>3. Due(u, d)'.from = f
          BY <3>0, <5>1
        <5> QED BY <5>2, <5>3
      <4> QED BY <4>1, <4>3, <1>2
    <3>4. ASSUME Due(u, d).op = "add", d + 1 = Length(u), ctrl[Due(u, d).to] # Null
          PROVE  \E i \in Handles : Held(u, i)' /\ ctrl[i] = ctrl[Due(u, d).to]
      <4>1. PICK i \in Handles : Held(u, i) /\ ctrl[i] = ctrl[Due(u, d).to]
        BY <3>0, <3>4 DEF PtrInv, Origins
      <4> QED BY <4>1, <3>0, <1>8
    <3> QED BY <3>0, <3>2, <3>3, <3>4, <1>2
  <2> QED BY <2>1, <2>2
<1>14. Living'
  <2>1. \A i \in Handles : Counted(i)' => ctrl'[i] \in blocks' \cup {Null}
    BY <1>2, <1>4, <1>5 DEF PtrInv, Living
  <2>2. \A b \in Blocks \ objects' : ctrl'[b] = Null
    BY <1>2 DEF PtrInv, Living
  <2>3. \A b : (IsDue(Delete(b))' <=> IsDue(Delete(b))) /\ (IsDue(Free(b))' <=> IsDue(Free(b)))
    BY <1>3, WroteKeeps
  <2>4. ASSUME NEW b \in blocks
        PROVE  IF count'[b] = 0 THEN IsDue(Free(b))' ELSE b \in objects
    <3>1. IF count[b] = 0 THEN IsDue(Free(b)) ELSE b \in objects
      BY DEF PtrInv, Living
    <3>2. count'[b] = 0 <=> count[b] = 0
      BY <1>6, <1>7
    <3> QED BY <2>3, <3>1, <3>2
  <2>5. \A b \in objects \ blocks : IsDue(Delete(b))
    BY DEF PtrInv, Living
  <2> QED BY <2>1, <2>2, <2>3, <2>4, <2>5, <1>2 DEF Living
<1>15. Counts'
  <2>1. ASSUME NEW b \in blocks, b # k PROVE Holders(b)' = Holders(b)
    BY <2>1, <1>2, <1>4, <1>5 DEF Holders
  <2>2. \A b : Subs(b)' = Subs(b)
    BY <1>3, WroteKeeps
  <2>3. ASSUME k # Null PROVE Cardinality(Holders(k)') = Cardinality(Holders(k)) + 1
    <3>1. Holders(k)' = Holders(k) \cup {h} /\ h \notin Holders(k)
      BY <2>3, <1>2, <1>3, <1>4, <1>5 DEF Holders
    <3> QED BY <3>1, FiniteCounts, FS_AddElement
  <2>4. ASSUME NEW b \in blocks
        PROVE  count'[b] = Cardinality(Holders(b)') + Cardinality(Subs(b)')
    <3>1. /\ count[b] = Cardinality(Holders(b)) + Cardinality(Subs(b))
          /\ Cardinality(Holders(b)) \in Nat /\ Cardinality(Subs(b)) \in Nat
      BY FiniteCounts DEF PtrInv, Counts
    <3>2. CASE b # k
      BY <3>1, <3>2, <2>1, <2>2, <1>6, <1>7
    <3>3. CASE b = k
      <4>1. Cardinality(Holders(b)') = Cardinality(Holders(b)) + 1 /\ count'[b] = count[b] + 1
        BY <3>3, <2>3, <1>6, <1>7
      <4> QED BY <4>1, <3>1, <2>2
    <3> QED BY <3>2, <3>3
  <2> QED BY <2>4, <1>2 DEF Counts
<1> QED BY <1>10, <1>11, <1>12, <1>13, <1>14, <1>15 DEF PtrInv

-----------------------------------------------------------------------------
(* The variables a call names are nobody else's.                           *)
LEMMA NamedIsFree ==
  ASSUME PtrInv, NEW t \in Threads, NEW named \in SUBSET Locals, NEW list,
         Begins(t, named, list), NEW l \in named
  PROVE  /\ Counted(l) /\ ctrl[l] \in blocks \cup {Null}
         /\ ctrl[l] # Null =>
              /\ Counted(ctrl[l]) /\ ctrl[l] \in objects
              /\ count[ctrl[l]] \in Nat /\ count[ctrl[l]] > 0
<1>1. l \in Locals /\ l \in Handles
  BY Typed
<1>2. \A u \in Threads : \A d \in Places(u) : u # t /\ Length(u) > 0 /\ l \notin using[u]
  BY Typed DEF Begins
<1>3. Counted(l)
  BY <1>1, <1>2 DEF Counted, PtrInv, Targets
<1>4. ctrl[l] \in blocks \cup {Null}
  BY <1>1, <1>3 DEF PtrInv, Living
<1>5. ASSUME ctrl[l] # Null
      PROVE  /\ Counted(ctrl[l]) /\ ctrl[l] \in objects
             /\ count[ctrl[l]] \in Nat /\ count[ctrl[l]] > 0
  <2>1. PICK k \in blocks : k = ctrl[l]
    BY <1>4, <1>5
  <2>2. k \in Blocks
    BY DEF PtrInv, PtrTypeOK
  <2>3. count[k] \in Nat /\ count[k] > 0 /\ k \in objects
    BY <1>1, <1>3, <2>1, CountedBlocks
  <2>4. Counted(k)
    BY <1>1, <1>2, <1>3, <2>1, <2>2 DEF Counted, PtrInv, Targets
  <2> QED BY <2>1, <2>3, <2>4
<1> QED BY <1>3, <1>4, <1>5

(* Nobody knows a number that is not in use.                               *)
LEMMA NewIsUnknown ==
  ASSUME PtrInv, NEW k \in Blocks \ (blocks \cup objects)
  PROVE  /\ Counted(k) /\ ctrl[k] = Null
         /\ \A i \in Handles : Counted(i) => ctrl[i] # k
         /\ \A u \in Threads : ~Held(u, k)
         /\ \A u \in Threads : \A d \in Places(u) :
              Due(u, d) # Sub(k) /\ Due(u, d) # Delete(k) /\ Due(u, d) # Free(k)
<1>0. k \in Handles /\ k # Null
  BY Typed
<1>1. Counted(k)
  BY DEF Counted, PtrInv, Targets
<1>2. \A i \in Handles : Counted(i) => ctrl[i] # k
  BY <1>0 DEF PtrInv, Living
<1>3. \A u \in Threads : ~Held(u, k)
  BY <1>0, HeldIsAlive, PtrConstants
<1>4. \A u \in Threads : \A d \in Places(u) :
        Due(u, d) # Sub(k) /\ Due(u, d) # Delete(k) /\ Due(u, d) # Free(k)
  BY DEF PtrInv, Endings, EndsOnce
<1> QED BY <1>1, <1>2, <1>3, <1>4 DEF PtrInv, Living

(* What a call does at once, and plans to do, touches nothing of others.   *)
Unwritten(t, i) == \A d \in Places(t) : Writes(t, d) => Due(t, d).to # i

Opens(t, named) ==
  /\ \A i \in Handles \ named : ctrl'[i] = ctrl[i]
  /\ \A i \in named : \/ ctrl'[i] = Null
                      \/ \E j \in named : ctrl'[i] = ctrl[j]
                      \/ ctrl'[i] \in blocks' \ (blocks \cup objects)
  /\ blocks \subseteq blocks' /\ objects \subseteq objects'
  /\ blocks' \subseteq Blocks /\ objects' \subseteq Blocks
  /\ (blocks' \ blocks) \cap objects = {} /\ (objects' \ objects) \cap blocks = {}
  /\ \A k \in blocks : count'[k] = count[k]
  /\ \A k \in blocks' \ blocks : count'[k] = 1 /\ k \in objects'
  /\ \A k \in objects' \ (objects \cup blocks') : \E d \in Places(t)' : Due(t, d)' = Delete(k)
  /\ \A d \in Places(t)' :
       /\ Due(t, d)'.op # "free"
       /\ \A k : Due(t, d)' = Sub(k) => k \in blocks
       /\ \A k : Due(t, d)' = Delete(k) => k \in objects' \ (objects \cup blocks')
       /\ Due(t, d)'.op = "add" => d + 1 # Length(t)'
       /\ Due(t, d)'.op \in {"read", "steal"} =>
            \E l \in named : /\ ctrl'[l] = ctrl[l] /\ Unwritten(t, l)'
                             /\ Due(t, d)'.from \in Sources(l)
                             /\ Due(t, d)'.op = "steal" => Due(t, d)'.from = l
       /\ Writes(t, d)' =>
            \/ Due(t, d)'.to \in named
            \/ /\ Due(t, d)'.to \in blocks' \ (blocks \cup objects)
               /\ \E l \in named : ctrl'[l] = Due(t, d)'.to /\ Unwritten(t, l)'
            \/ /\ Due(t, d)'.to \in objects' \ (objects \cup blocks')
               /\ \E e \in 0 .. d - 1 : Due(t, e)' = Delete(Due(t, d)'.to)

LEMMA OpensOthers ==
  ASSUME PtrInv, NEW t \in Threads, NEW named \in SUBSET Locals, NEW list,
         Begins(t, named, list), Opens(t, named)
  PROVE  /\ \A i : Counted(i)' <=> Counted(i) /\ Unwritten(t, i)'
         /\ \A u \in Threads : u # t /\ Length(u) > 0 =>
              /\ \A l \in using[u] : ctrl'[l] = ctrl[l] /\ (Counted(l)' <=> Counted(l))
              /\ \A i \in Handles : Held(u, i) => Held(u, i)' /\ ctrl'[i] = ctrl[i]
         /\ \A i \in Handles : Counted(i)' => ctrl'[i] \in blocks' \cup {Null}
         /\ \A u \in Threads \ {t}, i \in Handles, k \in objects :
              Counted(i)' /\ ctrl'[i] = k =>
                \/ i \notin named /\ Counted(i) /\ ctrl[i] = k
                \/ \E j \in named : Counted(j) /\ ctrl[j] = k
<1>1. /\ \A u \in Threads \ {t} :
           /\ Length(u)' = Length(u) /\ Places(u)' = Places(u)
           /\ \A d \in Places(u) : Due(u, d)' = Due(u, d)
           /\ using'[u] = using[u] /\ (Length(u) > 0 => using[u] \cap named = {})
      /\ Places(t) = {}
  BY DEF Begins
<1>2. \A i : Counted(i)' <=> Counted(i) /\ Unwritten(t, i)'
  <2>1. \A u \in Threads : u # t => \A d \in Places(u)' :
          Due(u, d)' = Due(u, d) /\ (Writes(u, d)' <=> Writes(u, d))
    BY <1>1 DEF Writes
  <2>2. \A i : Counted(i)' => Counted(i) /\ Unwritten(t, i)'
    BY <1>1, <2>1 DEF Counted, Unwritten
  <2>3. \A i : Counted(i) /\ Unwritten(t, i)' => Counted(i)'
    BY <1>1, <2>1 DEF Counted, Unwritten
  <2> QED BY <2>2, <2>3
<1>3. \A i \in Handles : ~Unwritten(t, i)' => i \in named \/ i \in Blocks \ (blocks \cup objects)
  BY DEF Unwritten, Opens
<1>4. ASSUME NEW u \in Threads, u # t, Length(u) > 0
      PROVE  /\ \A l \in using[u] : ctrl'[l] = ctrl[l] /\ (Counted(l)' <=> Counted(l))
             /\ \A i \in Handles : Held(u, i) => Held(u, i)' /\ ctrl'[i] = ctrl[i]
  <2>1. \A l \in using[u] : l \in Handles /\ l \in Locals /\ l \notin named /\ l \notin Blocks
    BY <1>1, <1>4, Typed, PtrConstants
  <2>2. \A l \in using[u] : ctrl'[l] = ctrl[l] /\ (Counted(l)' <=> Counted(l))
    BY <2>1, <1>2, <1>3 DEF Opens
  <2>3. ASSUME NEW i \in Handles, Held(u, i) PROVE Held(u, i)' /\ ctrl'[i] = ctrl[i]
    <3>1. i \notin named
      <4>1. \A l \in using[u] : ctrl[l] \in Blocks \cup {Null}
        BY <2>1 DEF PtrInv, PtrTypeOK
      <4>2. \A j \in named : j \notin Blocks /\ j # Null /\ j \notin using[u]
        BY <2>1, Typed, PtrConstants
      <4> QED BY <4>1, <4>2, <2>3 DEF Held
    <3>2. i \notin Blocks \ (blocks \cup objects)
      BY <2>3, NewIsUnknown
    <3>3. Counted(i)'
      BY <3>1, <3>2, <1>2, <1>3, <2>3 DEF Held
    <3>4. ctrl'[i] = ctrl[i]
      BY <3>1 DEF Opens
    <3>5. i \in using[u] \/ \E l \in using[u] : Counted(l)' /\ ctrl'[l] = i
      BY <2>2, <2>3 DEF Held
    <3>6. using'[u] = using[u]
      BY <1>1, <1>4
    <3> QED BY <3>3, <3>4, <3>5, <3>6 DEF Held
  <2> QED BY <2>2, <2>3
<1>5. \A j \in named : Counted(j) /\ ctrl[j] \in blocks \cup {Null}
  BY NamedIsFree
<1>6. ASSUME NEW i \in Handles, Counted(i)' PROVE ctrl'[i] \in blocks' \cup {Null}
  <2>1. CASE i \in named
    BY <2>1, <1>5 DEF Opens
  <2>2. CASE i \notin named
    BY <2>2, <1>2, <1>6 DEF Opens, PtrInv, Living
  <2> QED BY <2>1, <2>2
<1>7. ASSUME NEW i \in Handles, NEW k \in objects, Counted(i)', ctrl'[i] = k
      PROVE  \/ i \notin named /\ Counted(i) /\ ctrl[i] = k
             \/ \E j \in named : Counted(j) /\ ctrl[j] = k
  <2>0. k # Null
    BY Typed DEF PtrInv, PtrTypeOK
  <2>1. CASE i \in named
    BY <2>0, <2>1, <1>5, <1>7 DEF Opens
  <2>2. CASE i \notin named
    BY <2>2, <1>2, <1>7 DEF Opens
  <2> QED BY <2>1, <2>2
<1> QED BY <1>2, <1>4, <1>6, <1>7

LEMMA OpensTargets ==
  ASSUME PtrInv, NEW t \in Threads, NEW named \in SUBSET Locals, NEW list,
         Begins(t, named, list), Opens(t, named)
  PROVE  Targets'
<1>1. /\ \A u \in Threads \ {t} :
           /\ Length(u)' = Length(u) /\ Places(u)' = Places(u)
           /\ \A d \in Places(u) : Due(u, d)' = Due(u, d)
           /\ using'[u] = using[u] /\ (Length(u) > 0 => using[u] \cap named = {})
      /\ Places(t) = {} /\ using'[t] = named
  BY DEF Begins
<1>2. /\ \A i : Counted(i)' <=> Counted(i) /\ Unwritten(t, i)'
      /\ \A u \in Threads : u # t /\ Length(u) > 0 =>
           /\ \A l \in using[u] : ctrl'[l] = ctrl[l] /\ (Counted(l)' <=> Counted(l))
           /\ \A i \in Handles : Held(u, i) => Held(u, i)' /\ ctrl'[i] = ctrl[i]
      /\ \A u \in Threads \ {t}, i \in Handles, k \in objects :
           Counted(i)' /\ ctrl'[i] = k =>
             \/ i \notin named /\ Counted(i) /\ ctrl[i] = k
             \/ \E j \in named : Counted(j) /\ ctrl[j] = k
  BY OpensOthers
<1> SUFFICES ASSUME NEW u \in Threads, NEW d \in Places(u)', Writes(u, d)'
             PROVE  LET i == Due(u, d)' IN
                    /\ i.to \in Locals => i.to \in using'[u]
                    /\ i.to \in Blocks =>
                         /\ i.to \in objects'
                         /\ \A l \in Handles : Counted(l)' /\ ctrl'[l] = i.to => l \in using'[u]
                         /\ i.to \in blocks' => \E l \in using'[u] : Counted(l)' /\ ctrl'[l] = i.to
                         /\ i.to \notin blocks' => \E e \in 0 .. d - 1 : Due(u, e)' = Delete(i.to)
  BY DEF Targets
<1>3. PICK i : i = Due(u, d)'.to
  OBVIOUS
<1> SUFFICES /\ i \in Locals => i \in using'[u]
             /\ i \in Blocks =>
                  /\ i \in objects'
                  /\ \A l \in Handles : Counted(l)' /\ ctrl'[l] = i => l \in using'[u]
                  /\ i \in blocks' => \E l \in using'[u] : Counted(l)' /\ ctrl'[l] = i
                  /\ i \notin blocks' => \E e \in 0 .. d - 1 : Due(u, e)' = Delete(i)
  BY <1>3
<1>4. \A l \in named : l \in Handles /\ l \in Locals /\ l \notin Blocks
  BY Typed, PtrConstants
<1>5. CASE u = t
  <2>1. \/ i \in named
        \/ /\ i \in blocks' \ (blocks \cup objects)
           /\ \E l \in named : ctrl'[l] = i /\ Unwritten(t, l)'
        \/ /\ i \in objects' \ (objects \cup blocks')
           /\ \E e \in 0 .. d - 1 : Due(t, e)' = Delete(i)
    BY <1>3, <1>5 DEF Opens
  <2>2. CASE i \in named
    BY <2>2, <1>1, <1>4, <1>5
  <2>3. ASSUME i \in objects' \ objects, NEW l \in Handles, Counted(l)', ctrl'[l] = i
        PROVE  l \in named
    <3>1. i \in Blocks \ (blocks \cup objects)
      BY <2>3 DEF Opens
    <3>2. Counted(l) => ctrl[l] # i
      BY <3>1, NewIsUnknown
    <3> QED BY <3>2, <2>3, <1>2 DEF Opens
  <2>4. CASE /\ i \in blocks' \ (blocks \cup objects)
             /\ \E l \in named : ctrl'[l] = i /\ Unwritten(t, l)'
    <3>1. i \in objects' \ objects /\ i \in Blocks /\ i \notin Locals
      BY <2>4, PtrConstants DEF Opens
    <3>2. \A l \in named : Counted(l)
      BY NamedIsFree
    <3> QED BY <3>1, <3>2, <2>3, <2>4, <1>1, <1>2, <1>5
  <2>5. CASE /\ i \in objects' \ (objects \cup blocks')
             /\ \E e \in 0 .. d - 1 : Due(t, e)' = Delete(i)
    <3>1. i \in objects' \ objects /\ i \in Blocks /\ i \notin Locals
      BY <2>5, PtrConstants DEF Opens
    <3> QED BY <3>1, <2>3, <2>5, <1>1, <1>5
  <2> QED BY <2>1, <2>2, <2>4, <2>5
<1>6. CASE u # t
  <2>1. /\ d \in Places(u) /\ Due(u, d)' = Due(u, d) /\ Writes(u, d) /\ Due(u, d).to = i
        /\ using'[u] = using[u] /\ using[u] \cap named = {}
        /\ Length(u) > 0
    BY <1>1, <1>3, <1>6, Typed DEF Writes
  <2>2. i \in Locals => i \in using[u]
    BY <2>1 DEF PtrInv, Targets
  <2>3. ASSUME i \in Blocks
        PROVE  /\ i \in objects
               /\ \A l \in Handles : Counted(l) /\ ctrl[l] = i => l \in using[u]
               /\ i \in blocks => \E l \in using[u] : Counted(l) /\ ctrl[l] = i
               /\ i \notin blocks => \E e \in 0 .. d - 1 : Due(u, e) = Delete(i)
    BY <2>1, <2>3 DEF PtrInv, Targets
  <2>4. ASSUME i \in Blocks, NEW l \in Handles, Counted(l)', ctrl'[l] = i
        PROVE  l \in using[u]
    <3>1. \/ Counted(l) /\ ctrl[l] = i
          \/ \E j \in named : Counted(j) /\ ctrl[j] = i
      BY <2>3, <2>4, <1>2, <1>6
    <3>2. ~ \E j \in named : Counted(j) /\ ctrl[j] = i
      BY <2>1, <2>3, <2>4, <1>4
    <3> QED BY <3>1, <3>2, <2>3, <2>4
  <2>5. ASSUME i \in Blocks, i \in blocks' PROVE \E l \in using[u] : Counted(l)' /\ ctrl'[l] = i
    <3>1. i \in blocks
      BY <2>3, <2>5 DEF Opens
    <3>2. \A l \in using[u] : ctrl'[l] = ctrl[l] /\ (Counted(l)' <=> Counted(l))
      BY <2>1, <1>2, <1>6
    <3> QED BY <3>1, <3>2, <2>3, <2>5
  <2>6. ASSUME i \in Blocks, i \notin blocks' PROVE \E e \in 0 .. d - 1 : Due(u, e)' = Delete(i)
    <3>1. i \notin blocks
      BY <2>6 DEF Opens
    <3>2. \A e \in 0 .. d - 1 : Due(u, e)' = Due(u, e)
      <4>1. \A e \in 0 .. d - 1 : e \in Places(u)
        BY <2>1, Typed
      <4> QED BY <4>1, <1>1, <1>6
    <3> QED BY <3>1, <3>2, <2>3, <2>6
  <2>7. i \in Blocks => i \in objects'
    BY <2>3 DEF Opens
  <2> QED BY <2>1, <2>2, <2>4, <2>5, <2>6, <2>7
<1> QED BY <1>5, <1>6

LEMMA OpensOrigins ==
  ASSUME PtrInv, NEW t \in Threads, NEW named \in SUBSET Locals, NEW list,
         Begins(t, named, list), Opens(t, named)
  PROVE  Origins'
<1>1. /\ \A u \in Threads \ {t} :
           /\ Length(u)' = Length(u) /\ Places(u)' = Places(u)
           /\ \A d \in Places(u) : Due(u, d)' = Due(u, d)
           /\ using'[u] = using[u] /\ (Length(u) > 0 => using[u] \cap named = {})
      /\ Places(t) = {} /\ using'[t] = named
  BY DEF Begins
<1>2. /\ \A i : Counted(i)' <=> Counted(i) /\ Unwritten(t, i)'
      /\ \A u \in Threads : u # t /\ Length(u) > 0 =>
           /\ \A l \in using[u] : ctrl'[l] = ctrl[l] /\ (Counted(l)' <=> Counted(l))
           /\ \A i \in Handles : Held(u, i) => Held(u, i)' /\ ctrl'[i] = ctrl[i]
  BY OpensOthers
<1> SUFFICES ASSUME NEW u \in Threads, NEW d \in Places(u)'
             PROVE  /\ Due(u, d)'.op = "read" => Held(u, Due(u, d).from)'
                    /\ Due(u, d)'.op = "steal" =>
                         Due(u, d)'.from \in using'[u] /\ Counted(Due(u, d).from)'
                    /\ Due(u, d)'.op = "add" /\ d + 1 = Length(u)' /\ ctrl'[Due(u, d)'.to] # Null =>
                         \E i \in Handles : Held(u, i)' /\ ctrl'[i] = ctrl'[Due(u, d)'.to]
  BY DEF Origins
<1>3. CASE u = t
  <2>1. Due(t, d)'.op = "add" => d + 1 # Length(t)'
    BY <1>3 DEF Opens
  <2>2. ASSUME Due(t, d)'.op \in {"read", "steal"}
        PROVE  /\ Held(t, Due(t, d).from)'
               /\ Due(t, d)'.op = "steal" => Due(t, d)'.from \in named /\ Counted(Due(t, d).from)'
    <3>1. PICK g : g = Due(t, d)'.from
      OBVIOUS
    <3>2. PICK l \in named : /\ ctrl'[l] = ctrl[l] /\ Unwritten(t, l)' /\ g \in Sources(l)
                             /\ Due(t, d)'.op = "steal" => g = l
      BY <2>2, <3>1, <1>3 DEF Opens
    <3>3. Counted(l)'
      BY <3>2, <1>2, NamedIsFree
    <3>4. CASE g = l
      BY <3>1, <3>2, <3>3, <3>4, <1>1 DEF Held
    <3>5. CASE g = ctrl[l] /\ g # Null /\ Due(t, d)'.op # "steal"
      <4>1. g \in blocks /\ Counted(g)
        BY <3>5, NamedIsFree
      <4>2. Unwritten(t, g)'
        <5>1. g \notin named
          BY <4>1, PtrConstants DEF PtrInv, PtrTypeOK
        <5>2. \A e \in Places(t)' : Writes(t, e)' =>
                Due(t, e)'.to \in named \/ Due(t, e)'.to \notin blocks
          BY DEF Opens
        <5> QED BY <5>1, <5>2, <4>1 DEF Unwritten
      <4>3. Counted(g)'
        BY <4>1, <4>2, <1>2
      <4>4. ctrl'[l] = g
        BY <3>2, <3>5
      <4>5. Held(t, g)'
        BY <3>3, <4>3, <4>4, <1>1 DEF Held
      <4> QED BY <4>5, <3>1, <3>5
    <3> QED BY <3>2, <3>4, <3>5 DEF Sources
  <2> QED BY <2>1, <2>2, <1>1, <1>3
<1>4. CASE u # t
  <2>1. /\ d \in Places(u) /\ Due(u, d)' = Due(u, d)
        /\ using'[u] = using[u] /\ Length(u) > 0 /\ Length(u)' = Length(u)
    BY <1>1, <1>4, Typed
  <2>2. /\ Due(u, d).op = "read" => Due(u, d).from \in Handles
        /\ Due(u, d).op = "add" => Due(u, d).to \in Handles
    BY <2>1, Typed, InstructionForms
  <2>3. ASSUME Due(u, d).op = "read" PROVE Held(u, Due(u, d).from)'
    <3>1. Held(u, Due(u, d).from)
      BY <2>1, <2>3 DEF PtrInv, Origins
    <3> QED BY <3>1, <2>1, <2>2, <2>3, <1>2, <1>4
  <2>4. ASSUME Due(u, d).op = "steal"
        PROVE Due(u, d).from \in using'[u] /\ Counted(Due(u, d).from)'
    <3>1. Due(u, d).from \in using[u] /\ Counted(Due(u, d).from)
      BY <2>1, <2>4 DEF PtrInv, Origins
    <3> QED BY <3>1, <2>1, <1>2, <1>4
  <2>5. ASSUME Due(u, d).op = "add", d + 1 = Length(u), ctrl'[Due(u, d).to] # Null
        PROVE  \E i \in Handles : Held(u, i)' /\ ctrl'[i] = ctrl'[Due(u, d).to]
    <3>0. PICK h \in Handles : h = Due(u, d).to
      BY <2>2, <2>5
    <3>1. h \notin named
      <4>1. ~Counted(h)
        BY <2>1, <2>5, <3>0 DEF Counted, Writes
      <4> QED BY <4>1, NamedIsFree
    <3>2. ctrl'[h] = ctrl[h]
      BY <3>1 DEF Opens
    <3>3. PICK i \in Handles : Held(u, i) /\ ctrl[i] = ctrl[h]
      BY <2>1, <2>5, <3>0, <3>2 DEF PtrInv, Origins
    <3>4. Held(u, i)' /\ ctrl'[i] = ctrl[i]
      BY <3>3, <2>1, <1>2, <1>4
    <3> QED BY <3>0, <3>2, <3>3, <3>4
  <2> QED BY <2>1, <2>3, <2>4, <2>5
<1> QED BY <1>3, <1>4

LEMMA OpensKeeps ==
  ASSUME PtrInv, NEW t \in Threads, NEW named \in SUBSET Locals, NEW list,
         Begins(t, named, list), Opens(t, named)
  PROVE  /\ NamesApart' /\ Targets' /\ Origins' /\ Endings' /\ Living'
         /\ \A b : /\ t \notin Subs(b)
                   /\ IF \E d \in Places(t)' : Due(t, d)' = Sub(b)
                        THEN Subs(b)' = Subs(b) \cup {t} ELSE Subs(b)' = Subs(b)
<1>1. /\ \A u \in Threads \ {t} :
           /\ Length(u)' = Length(u) /\ Places(u)' = Places(u)
           /\ \A d \in Places(u) : Due(u, d)' = Due(u, d)
           /\ using'[u] = using[u] /\ (Length(u) > 0 => using[u] \cap named = {})
      /\ Places(t) = {} /\ using'[t] = named
  BY DEF Begins
<1>2. NamesApart'
  BY <1>1 DEF PtrInv, NamesApart
<1>3. \A b : /\ t \notin Subs(b)
             /\ IF \E d \in Places(t)' : Due(t, d)' = Sub(b)
                  THEN Subs(b)' = Subs(b) \cup {t} ELSE Subs(b)' = Subs(b)
  <2> SUFFICES ASSUME NEW b
               PROVE  /\ t \notin Subs(b)
                      /\ IF \E d \in Places(t)' : Due(t, d)' = Sub(b)
                           THEN Subs(b)' = Subs(b) \cup {t} ELSE Subs(b)' = Subs(b)
    OBVIOUS
  <2>1. t \notin Subs(b)
    BY <1>1 DEF Subs
  <2>2. \A u \in Threads : u # t => (u \in Subs(b)' <=> u \in Subs(b))
    BY <1>1 DEF Subs
  <2>3. t \in Subs(b)' <=> \E d \in Places(t)' : Due(t, d)' = Sub(b)
    BY DEF Subs
  <2>4. Subs(b) \subseteq Threads /\ Subs(b)' \subseteq Threads
    BY DEF Subs
  <2> QED BY <2>1, <2>2, <2>3, <2>4
<1>4. \A x : IsDue(x) => IsDue(x)'
  BY <1>1 DEF IsDue
<1>5. Endings'
  <2> SUFFICES ASSUME NEW u \in Threads, NEW d \in Places(u)', NEW b \in Blocks
               PROVE  EndsOnce(u, d, b)'
    BY DEF Endings
  <2>1. CASE u = t
    <3>1. Due(t, d)' = Sub(b) => b \in blocks'
      BY <2>1 DEF Opens
    <3>2. Due(t, d)' # Free(b)
      BY <2>1, Fields DEF Opens
    <3>3. ASSUME Due(t, d)' = Delete(b)
          PROVE  /\ b \in objects' /\ b \notin blocks'
                 /\ \A v \in Threads : \A e \in Places(v)' : Due(v, e)' = Delete(b) => v = t
      <4>1. b \in objects' \ (objects \cup blocks') /\ b \in Blocks \ (blocks \cup objects)
        BY <2>1, <3>3 DEF Opens
      <4>2. \A v \in Threads : \A e \in Places(v) : Due(v, e) # Delete(b)
        BY <4>1, NewIsUnknown
      <4> QED BY <4>1, <4>2, <1>1
    <3> QED BY <2>1, <3>1, <3>2, <3>3 DEF EndsOnce
  <2>2. CASE u # t
    <3>0. d \in Places(u) /\ Due(u, d)' = Due(u, d)
      BY <2>2, <1>1
    <3>1. ASSUME Due(u, d)' = Sub(b) PROVE b \in blocks'
      <4>1. Due(u, d) = Sub(b)
        BY <3>0, <3>1
      <4>2. b \in blocks
        BY <3>0, <4>1 DEF PtrInv, Endings, EndsOnce
      <4> QED BY <4>2 DEF Opens
    <3>2. ASSUME Due(u, d)' = Delete(b)
          PROVE  /\ b \in objects'
                 /\ b \in blocks' => d > 0 /\ Due(u, d - 1)' = Free(b)
                 /\ \A v \in Threads : \A e \in Places(v)' : Due(v, e)' = Delete(b) => v = u
      <4>1. Due(u, d) = Delete(b)
        BY <3>0, <3>2
      <4>2. /\ b \in objects
            /\ b \in blocks => d > 0 /\ Due(u, d - 1) = Free(b)
            /\ \A v \in Threads : \A e \in Places(v) : Due(v, e) = Delete(b) => v = u
        BY <3>0, <4>1 DEF PtrInv, Endings, EndsOnce
      <4>3. b \in objects' /\ (b \in blocks' => b \in blocks)
        BY <4>2 DEF Opens
      <4>4. ASSUME d > 0 PROVE Due(u, d - 1)' = Due(u, d - 1)
        <5>1. d - 1 \in Places(u)
          BY <3>0, <4>4, Typed
        <5> QED BY <5>1, <2>2, <1>1
      <4>5. \A e \in Places(t)' : Due(t, e)' # Delete(b)
        BY <4>2 DEF Opens
      <4> QED BY <4>2, <4>3, <4>4, <4>5, <1>1
    <3>3. ASSUME Due(u, d)' = Free(b)
          PROVE  /\ b \in blocks' /\ count'[b] = 0
                 /\ b \in objects' => d + 1 < Length(u)' /\ Due(u, d + 1)' = Delete(b)
                 /\ \A v \in Threads : \A e \in Places(v)' :
                      Due(v, e)' = Free(b) => v = u /\ e = d
      <4>1. Due(u, d) = Free(b)
        BY <3>0, <3>3
      <4>2. /\ b \in blocks /\ count[b] = 0
            /\ b \in objects => d + 1 < Length(u) /\ Due(u, d + 1) = Delete(b)
            /\ \A v \in Threads : \A e \in Places(v) : Due(v, e) = Free(b) => v = u /\ e = d
        BY <3>0, <4>1 DEF PtrInv, Endings, EndsOnce
      <4>3. b \in blocks' /\ count'[b] = 0 /\ (b \in objects' => b \in objects)
        BY <4>2 DEF Opens
      <4>4. ASSUME b \in objects PROVE d + 1 < Length(u)' /\ Due(u, d + 1)' = Delete(b)
        <5>1. d + 1 \in Places(u)
          BY <3>0, <4>2, <4>4, Typed
        <5> QED BY <5>1, <4>2, <4>4, <2>2, <1>1
      <4>5. \A e \in Places(t)' : Due(t, e)' # Free(b)
        BY Fields DEF Opens
      <4> QED BY <4>2, <4>3, <4>4, <4>5, <1>1
    <3> QED BY <3>1, <3>2, <3>3 DEF EndsOnce
  <2> QED BY <2>1, <2>2
<1>6. Living'
  <2>1. \A i \in Handles : Counted(i)' => ctrl'[i] \in blocks' \cup {Null}
    BY OpensOthers
  <2>2. ASSUME NEW b \in Blocks \ objects' PROVE ctrl'[b] = Null
    <3>1. b \notin named /\ b \in Handles /\ b \in Blocks \ objects
      BY Typed, PtrConstants DEF Opens
    <3> QED BY <3>1 DEF Opens, PtrInv, Living
  <2>3. ASSUME NEW b \in blocks' PROVE IF count'[b] = 0 THEN IsDue(Free(b))' ELSE b \in objects'
    <3>1. CASE b \in blocks
      <4>1. IF count[b] = 0 THEN IsDue(Free(b)) ELSE b \in objects
        BY <3>1 DEF PtrInv, Living
      <4> QED BY <4>1, <3>1, <1>4 DEF Opens
    <3>2. CASE b \notin blocks
      BY <3>2, <2>3 DEF Opens
    <3> QED BY <3>1, <3>2
  <2>4. ASSUME NEW b \in objects' \ blocks' PROVE IsDue(Delete(b))'
    <3>1. CASE b \in objects
      <4>1. b \in objects \ blocks
        BY <3>1, <2>4 DEF Opens
      <4> QED BY <4>1, <1>4 DEF PtrInv, Living
    <3>2. CASE b \notin objects
      BY <3>2, <2>4 DEF Opens, IsDue
    <3> QED BY <3>1, <3>2
  <2> QED BY <2>1, <2>2, <2>3, <2>4 DEF Living
<1> QED BY <1>2, <1>3, <1>5, <1>6, OpensTargets, OpensOrigins

LEMMA ListPlaces ==
  ASSUME NEW t \in Threads, NEW named, NEW list, Begins(t, named, list)
  PROVE  /\ Len(list) = 0 => Length(t)' = 0 /\ Places(t)' = {}
         /\ Len(list) = 1 =>
              Length(t)' = 1 /\ Places(t)' = {0} /\ Due(t, 0)' = list[1]
         /\ Len(list) = 2 =>
              /\ Length(t)' = 2 /\ Places(t)' = {0, 1}
              /\ Due(t, 0)' = list[2] /\ Due(t, 1)' = list[1]
         /\ Len(list) = 3 =>
              /\ Length(t)' = 3 /\ Places(t)' = {0, 1, 2}
              /\ Due(t, 0)' = list[3] /\ Due(t, 1)' = list[2] /\ Due(t, 2)' = list[1]
<1>1. /\ Length(t)' = Len(list) /\ Places(t)' = 0 .. (Length(t)' - 1)
      /\ \A d \in 0 .. Len(list) - 1 : Due(t, d)' = list[Len(list) - d]
  BY DEF Begins, Places, Length
<1>2. /\ 0 .. -1 = {} /\ 0 .. 0 = {0} /\ 0 .. 1 = {0, 1} /\ 0 .. 2 = {0, 1, 2}
      /\ 0 - 1 = -1 /\ 1 - 1 = 0 /\ 2 - 1 = 1 /\ 3 - 1 = 2
      /\ 1 - 0 = 1 /\ 2 - 0 = 2 /\ 2 - 1 = 1 /\ 3 - 0 = 3 /\ 3 - 2 = 1
  OBVIOUS
<1> QED BY <1>1, <1>2

(* What a call that lets go of what h holds starts, or ends, with.         *)
LEMMA Joined ==
  ASSUME NEW y \in Seq(Instructions), NEW s \in Seq(Instructions)
  PROVE  /\ y \o s \in Seq(Instructions) /\ Len(y \o s) = Len(y) + Len(s)
         /\ \A i \in 1 .. Len(y) : (y \o s)[i] = y[i]
         /\ \A i \in 1 .. Len(s) : (y \o s)[Len(y) + i] = s[i]
<1>1. Len(y) \in Nat /\ Len(s) \in Nat
  OBVIOUS
<1>2. /\ y \o s \in Seq(Instructions) /\ Len(y \o s) = Len(y) + Len(s)
      /\ \A i \in 1 .. Len(y) + Len(s) :
           (y \o s)[i] = IF i <= Len(y) THEN y[i] ELSE s[i - Len(y)]
  OBVIOUS
<1>3. \A i \in 1 .. Len(y) : i \in 1 .. Len(y) + Len(s) /\ i <= Len(y)
  BY <1>1
<1>4. \A i \in 1 .. Len(s) :
        Len(y) + i \in 1 .. Len(y) + Len(s) /\ ~(Len(y) + i <= Len(y)) /\ Len(y) + i - Len(y) = i
  BY <1>1
<1> QED BY <1>2, <1>3, <1>4

LEMMA LetGoList ==
  ASSUME NEW h, NEW c, c = ctrl[h], c # Null => Sub(c) \in Instructions
  PROVE  \E y \in Seq(Instructions) :
           /\ y = LetGo(h) /\ (c = Null => Len(y) = 0)
           /\ c # Null => Len(y) = 1 /\ y[1] = Sub(c)
<1>1. CASE c = Null
  BY <1>1, Pairs DEF LetGo
<1>2. CASE c # Null
  BY <1>2, Pairs DEF LetGo
<1> QED BY <1>1, <1>2

LEMMA CallTurns ==
  ASSUME PtrInv, NEW t \in Threads, NEW named, NEW list, Begins(t, named, list),
         \A d \in Places(t)' :
           /\ Due(t, d)'.op = "read" => d > 0 /\ Due(t, d - 1)' = Add(Due(t, d)'.to)
           /\ Due(t, d)'.op = "steal" => d = 0
           /\ Due(t, d)'.op = "add" =>
                /\ d + 1 < Length(t)' => Due(t, d + 1)'.op = "read"
                /\ \A e \in 0 .. d - 1 : ~Writes(t, e)'
           /\ Ends(t, d)' => d + 3 >= Length(t)' /\ \A e \in Places(t)' : Ends(t, e)' => e = d
  PROVE  InTurn'
<1>1. \A u \in Threads \ {t} :
        /\ Length(u)' = Length(u) /\ Places(u)' = Places(u)
        /\ \A d \in Places(u) : Due(u, d)' = Due(u, d)
  BY DEF Begins
<1> SUFFICES ASSUME NEW u \in Threads, NEW d \in Places(u)'
             PROVE  /\ Due(u, d)'.op = "read" => d > 0 /\ Due(u, d - 1)' = Add(Due(u, d)'.to)
                    /\ Due(u, d)'.op = "steal" => d = 0
                    /\ Due(u, d)'.op = "add" =>
                         /\ d + 1 < Length(u)' => Due(u, d + 1)'.op = "read"
                         /\ \A e \in 0 .. d - 1 : ~Writes(u, e)'
                    /\ Ends(u, d)' => d + 3 >= Length(u)'
                         /\ \A e \in Places(u)' : Ends(u, e)' => e = d
  BY Zenon DEF InTurn
<1>2. CASE u = t
  BY <1>2
<1>3. CASE u # t
  <2>1. /\ d \in Places(u) /\ Due(u, d)' = Due(u, d)
        /\ Length(u)' = Length(u) /\ Places(u)' = Places(u)
        /\ Places(u) = 0 .. Length(u) - 1 /\ Length(u) \in Nat
    BY <1>1, <1>3, Typed
  <2>2. \A e \in Places(u) : Due(u, e)' = Due(u, e) /\ (Ends(u, e)' <=> Ends(u, e))
                             /\ (Writes(u, e)' <=> Writes(u, e))
    BY <1>1, <1>3 DEF Ends, Writes
  <2>3. \A e \in 0 .. d - 1 : e \in Places(u)
    BY <2>1
  <2>4. (d > 0 => d - 1 \in Places(u)) /\ (d + 1 < Length(u) => d + 1 \in Places(u))
    BY <2>1
  <2>5. /\ Due(u, d).op = "read" => d > 0 /\ Due(u, d - 1) = Add(Due(u, d).to)
        /\ Due(u, d).op = "steal" => d = 0
        /\ Due(u, d).op = "add" =>
             /\ d + 1 < Length(u) => Due(u, d + 1).op = "read"
             /\ \A e \in 0 .. d - 1 : ~Writes(u, e)
        /\ Ends(u, d) => d + 3 >= Length(u)
             /\ \A e \in Places(u) : Ends(u, e) => e = d
    BY <2>1, Zenon DEF PtrInv, InTurn
  <2> QED BY <2>1, <2>2, <2>3, <2>4, <2>5
<1> QED BY <1>2, <1>3

(* What the variable h refers to is let go of: a holder less, a decrement  *)
(* more.                                                                   *)
LEMMA HandsOver ==
  ASSUME PtrInv, NEW t \in Threads, NEW named \in SUBSET Locals, NEW list,
         Begins(t, named, list), Opens(t, named), NEW h \in named,
         \A b \in blocks : (\E d \in Places(t)' : Due(t, d)' = Sub(b)) <=> b = ctrl[h],
         \A i \in Handles \ {h} :
           /\ Counted(i) /\ ctrl[i] \in blocks => Counted(i)' /\ ctrl'[i] = ctrl[i]
           /\ Counted(i)' /\ ctrl'[i] \in blocks => Counted(i) /\ ctrl'[i] = ctrl[i],
         Counted(h)' => ctrl'[h] \notin blocks
  PROVE  \A b \in blocks : count'[b] = Cardinality(Holders(b)') + Cardinality(Subs(b)')
<1> SUFFICES ASSUME NEW b \in blocks
             PROVE  count'[b] = Cardinality(Holders(b)') + Cardinality(Subs(b)')
  OBVIOUS
<1>1. Counted(h) /\ h \in Handles
  BY NamedIsFree, Typed
<1>2. Holders(b)' = Holders(b) \ {h}
  BY DEF Holders
<1>3. /\ t \notin Subs(b)
      /\ Subs(b)' = IF b = ctrl[h] THEN Subs(b) \cup {t} ELSE Subs(b)
  BY OpensKeeps
<1>4. /\ count'[b] = count[b] /\ count[b] = Cardinality(Holders(b)) + Cardinality(Subs(b))
      /\ Cardinality(Holders(b)) \in Nat /\ Cardinality(Subs(b)) \in Nat
  BY FiniteCounts DEF Opens, PtrInv, Counts
<1>5. CASE b = ctrl[h]
  <2>1. h \in Holders(b)
    BY <1>1, <1>5 DEF Holders
  <2>2. Cardinality(Holders(b) \ {h}) = Cardinality(Holders(b)) - 1
    BY <2>1, FiniteCounts, FS_RemoveElement
  <2>3. Cardinality(Subs(b) \cup {t}) = Cardinality(Subs(b)) + 1
    BY <1>3, FiniteCounts, FS_AddElement
  <2> QED BY <2>2, <2>3, <1>2, <1>3, <1>4, <1>5
<1>6. CASE b # ctrl[h]
  <2>1. Holders(b)' = Holders(b)
    BY <1>2, <1>6 DEF Holders
  <2> QED BY <2>1, <1>3, <1>4, <1>6
<1> QED BY <1>5, <1>6

-----------------------------------------------------------------------------
(* A call that copies g into h, letting go of what h held.                 *)
LEMMA CopyKeeps ==
  ASSUME PtrInv, NEW t \in Threads, NEW h \in Locals, NEW l \in Locals \ {h},
         NEW g \in Sources(l), Enter(t, {h, l}, LetGo(h) \o <<Read(h, g), Add(h)>>),
         UNCHANGED <<ctrl, count, blocks, objects>>
  PROVE  PtrInv'
<1>0. /\ h \in Handles /\ l \in Handles /\ g \in Handles /\ h # g /\ h # Null
      /\ \A b \in Blocks : b # h /\ b # l
  <2>1. h \in Handles /\ l \in Handles /\ h # Null /\ \A b \in Blocks : b # h /\ b # l
    BY Typed, PtrConstants
  <2>2. ctrl[l] \in Blocks \cup {Null}
    BY <2>1 DEF PtrInv, PtrTypeOK
  <2> QED BY <2>1, <2>2, Typed DEF Sources
<1>1. PICK c \in Blocks \cup {Null} : c = ctrl[h]
  BY <1>0 DEF PtrInv, PtrTypeOK
<1>2. PICK r : r = Read(h, g)
  OBVIOUS
<1>3. PICK a : a = Add(h)
  OBVIOUS
<1>4. /\ r \in Instructions /\ a \in Instructions /\ (c # Null => Sub(c) \in Instructions)
      /\ r.op = "read" /\ r.to = h /\ r.from = g /\ a.op = "add" /\ a.to = h
      /\ Sub(c).op = "sub"
  BY <1>0, <1>2, <1>3, InstructionForms, Fields
<1>y. PICK list : list = LetGo(h) \o <<r, a>>
  OBVIOUS
<1>5. /\ list \in Seq(Instructions)
      /\ c = Null => Len(list) = 2 /\ list[1] = r /\ list[2] = a
      /\ c # Null => Len(list) = 3 /\ list[1] = Sub(c) /\ list[2] = r /\ list[3] = a
  <2>1. PICK s : s = <<r, a>>
    OBVIOUS
  <2>2. s \in Seq(Instructions) /\ Len(s) = 2 /\ s[1] = r /\ s[2] = a
    BY <2>1, <1>4, Pairs
  <2>3. PICK y \in Seq(Instructions) :
          /\ y = LetGo(h) /\ (c = Null => Len(y) = 0)
          /\ c # Null => Len(y) = 1 /\ y[1] = Sub(c)
    BY <1>1, <1>4, LetGoList
  <2>4. list = y \o s /\ s \in Seq(Instructions)
    BY <2>1, <2>2, <2>3, <1>y
  <2>5. /\ list \in Seq(Instructions) /\ Len(list) = Len(y) + Len(s)
        /\ \A i \in 1 .. Len(y) : list[i] = y[i]
        /\ \A i \in 1 .. Len(s) : list[Len(y) + i] = s[i]
    BY <2>4, Joined, Zenon
  <2>6. /\ 1 \in 1 .. 1 /\ 1 \in 1 .. 2 /\ 2 \in 1 .. 2 /\ 0 + 1 = 1 /\ 0 + 2 = 2
        /\ 1 + 1 = 2 /\ 1 + 2 = 3
    OBVIOUS
  <2>7. CASE c = Null
    BY <2>2, <2>3, <2>5, <2>6, <2>7
  <2>8. CASE c # Null
    <3>1. Len(y) = 1 /\ y[1] = Sub(c)
      BY <2>3, <2>8
    <3>2. Len(list) = 3
      BY <3>1, <2>2, <2>5
    <3>3. list[1] = Sub(c)
      BY <3>1, <2>5, <2>6
    <3>4. list[2] = r /\ list[3] = a
      <4>1. \A i \in 1 .. 2 : list[1 + i] = s[i]
        BY <3>1, <2>2, <2>5
      <4> QED BY <4>1, <2>2, <2>6
    <3> QED BY <3>2, <3>3, <3>4, <2>5, <2>8
  <2> QED BY <2>7, <2>8
<1>x. PICK named \in SUBSET Locals : named = {h, l}
  OBVIOUS
<1>6. Begins(t, named, list) /\ h \in named /\ l \in named
  BY <1>2, <1>3, <1>y, <1>5, <1>x, EnterBegins DEF PtrInv
<1>7. /\ Due(t, 0)' = a /\ Due(t, 1)' = r
      /\ c = Null => Length(t)' = 2 /\ Places(t)' = {0, 1}
      /\ c # Null => Length(t)' = 3 /\ Places(t)' = {0, 1, 2} /\ Due(t, 2)' = Sub(c)
  BY <1>5, <1>6, ListPlaces
<1>8. /\ 0 \in Places(t)' /\ 1 \in Places(t)'
      /\ \A d \in Places(t)' : d = 0 \/ d = 1 \/ (d = 2 /\ c # Null)
  BY <1>7
<1>9. /\ \A d \in Places(t)' : Writes(t, d)' <=> d = 0 \/ d = 1
      /\ \A d \in Places(t)' : Ends(t, d)' <=> d = 2
      /\ \A d \in Places(t)' : \A k : Due(t, d)' = Sub(k) <=> d = 2 /\ k = c
      /\ \A d \in Places(t)' : \A k : Due(t, d)' # Delete(k)
  <2>1. \A k : Sub(k) = Sub(c) => k = c
    BY Fields
  <2> QED BY <2>1, <1>4, <1>7, <1>8, Fields DEF Writes, Ends
<1>10. \A i : Unwritten(t, i)' <=> i # h
  <2>1. \A i : Unwritten(t, i)' <=> \A d \in Places(t)' : Writes(t, d)' => Due(t, d)'.to # i
    BY DEF Unwritten
  <2> QED BY <2>1, <1>4, <1>7, <1>8, <1>9
<1>11. c \in blocks \cup {Null}
  BY <1>1, <1>6, NamedIsFree
<1>12. Opens(t, named)
  <2>1. \A d \in Places(t)' :
          /\ Due(t, d)'.op # "free"
          /\ \A k : Due(t, d)' = Sub(k) => k \in blocks
          /\ \A k : Due(t, d)' # Delete(k)
          /\ Due(t, d)'.op = "add" => d + 1 # Length(t)'
          /\ Due(t, d)'.op \in {"read", "steal"} =>
               /\ ctrl'[l] = ctrl[l] /\ Unwritten(t, l)' /\ Due(t, d)'.from \in Sources(l)
               /\ Due(t, d)'.op # "steal"
          /\ Writes(t, d)' => Due(t, d)'.to \in named
    BY <1>6, <1>4, <1>7, <1>8, <1>9, <1>10, <1>11
  <2>2. l \in named
    BY <1>6
  <2>3. blocks \subseteq Blocks /\ objects \subseteq Blocks
    BY DEF PtrInv, PtrTypeOK
  <2> QED BY <2>1, <2>2, <2>3 DEF Opens
<1>13. InTurn'
  <2>1. \A d \in Places(t)' :
           /\ Due(t, d)'.op = "read" => d > 0 /\ Due(t, d - 1)' = Add(Due(t, d)'.to)
           /\ Due(t, d)'.op = "steal" => d = 0
           /\ Due(t, d)'.op = "add" =>
                /\ d + 1 < Length(t)' => Due(t, d + 1)'.op = "read"
                /\ \A e \in 0 .. d - 1 : ~Writes(t, e)'
           /\ Ends(t, d)' => d + 3 >= Length(t)' /\ \A e \in Places(t)' : Ends(t, e)' => e = d
    BY <1>3, <1>4, <1>7, <1>8, <1>9
  <2> QED BY <2>1, <1>6, CallTurns
<1>14. PtrTypeOK'
  BY <1>6 DEF PtrInv, PtrTypeOK, Begins
<1>15. Counts'
  <2>1. \A i : Counted(i)' <=> Counted(i) /\ i # h
    BY <1>6, <1>10, <1>12, OpensOthers
  <2>2. \A b \in blocks : (\E d \in Places(t)' : Due(t, d)' = Sub(b)) <=> b = ctrl[h]
    <3>1. \A b \in blocks : b # Null
      BY Typed DEF PtrInv, PtrTypeOK
    <3>2. c # Null => 2 \in Places(t)'
      BY <1>7
    <3> QED BY <3>1, <3>2, <1>1, <1>9
  <2>3. \A b \in blocks : count'[b] = Cardinality(Holders(b)') + Cardinality(Subs(b)')
    BY <2>1, <2>2, <1>6, <1>12, HandsOver
  <2> QED BY <2>3 DEF Counts
<1> QED BY <1>6, <1>12, <1>13, <1>14, <1>15, OpensKeeps DEF PtrInv

(* A call that moves l into h, letting go of what h held.                  *)
LEMMA MoveKeeps ==
  ASSUME PtrInv, NEW t \in Threads, NEW h \in Locals, NEW l \in Locals \ {h},
         Enter(t, {h, l}, LetGo(h) \o <<Steal(h, l)>>),
         UNCHANGED <<ctrl, count, blocks, objects>>
  PROVE  PtrInv'
<1>0. h \in Handles /\ l \in Handles
  BY Typed
<1>1. PICK c \in Blocks \cup {Null} : c = ctrl[h]
  BY <1>0 DEF PtrInv, PtrTypeOK
<1>2. PICK r : r = Steal(h, l)
  OBVIOUS
<1>4. /\ r \in Instructions /\ (c # Null => Sub(c) \in Instructions)
      /\ r.op = "steal" /\ r.to = h /\ r.from = l /\ Sub(c).op = "sub"
  BY <1>0, <1>2, InstructionForms, Fields
<1>y. PICK list : list = LetGo(h) \o <<r>>
  OBVIOUS
<1>5. /\ list \in Seq(Instructions)
      /\ c = Null => Len(list) = 1 /\ list[1] = r
      /\ c # Null => Len(list) = 2 /\ list[1] = Sub(c) /\ list[2] = r
  <2>1. PICK s : s = <<r>>
    OBVIOUS
  <2>2. s \in Seq(Instructions) /\ Len(s) = 1 /\ s[1] = r
    BY <2>1, <1>4, Pairs
  <2>3. PICK y \in Seq(Instructions) :
          /\ y = LetGo(h) /\ (c = Null => Len(y) = 0)
          /\ c # Null => Len(y) = 1 /\ y[1] = Sub(c)
    BY <1>1, <1>4, LetGoList
  <2>4. list = y \o s /\ s \in Seq(Instructions)
    BY <2>1, <2>2, <2>3, <1>y
  <2>5. /\ list \in Seq(Instructions) /\ Len(list) = Len(y) + Len(s)
        /\ \A i \in 1 .. Len(y) : list[i] = y[i]
        /\ \A i \in 1 .. Len(s) : list[Len(y) + i] = s[i]
    BY <2>4, Joined, Zenon
  <2>6. 1 \in 1 .. 1 /\ 0 + 1 = 1 /\ 1 + 1 = 2
    OBVIOUS
  <2>7. CASE c = Null
    BY <2>2, <2>3, <2>5, <2>6, <2>7
  <2>8. CASE c # Null
    <3>1. Len(y) = 1 /\ y[1] = Sub(c)
      BY <2>3, <2>8
    <3>2. Len(list) = 2
      BY <3>1, <2>2, <2>5
    <3>3. list[1] = Sub(c)
      BY <3>1, <2>5, <2>6
    <3>4. list[2] = r
      <4>1. \A i \in 1 .. 1 : list[1 + i] = s[i]
        BY <3>1, <2>2, <2>5
      <4> QED BY <4>1, <2>2, <2>6
    <3> QED BY <3>2, <3>3, <3>4, <2>5, <2>8
  <2> QED BY <2>7, <2>8
<1>x. PICK named \in SUBSET Locals : named = {h, l}
  OBVIOUS
<1>6. Begins(t, named, list) /\ h \in named /\ l \in named
  BY <1>2, <1>y, <1>5, <1>x, EnterBegins DEF PtrInv
<1>7. /\ Due(t, 0)' = r
      /\ c = Null => Length(t)' = 1 /\ Places(t)' = {0}
      /\ c # Null => Length(t)' = 2 /\ Places(t)' = {0, 1} /\ Due(t, 1)' = Sub(c)
  BY <1>5, <1>6, ListPlaces
<1>8. /\ 0 \in Places(t)'
      /\ \A d \in Places(t)' : d = 0 \/ (d = 1 /\ c # Null)
  BY <1>7
<1>9. /\ \A d \in Places(t)' : Writes(t, d)' <=> d = 0
      /\ \A d \in Places(t)' : Ends(t, d)' <=> d = 1
      /\ \A d \in Places(t)' : \A k : Due(t, d)' = Sub(k) <=> d = 1 /\ k = c
      /\ \A d \in Places(t)' : \A k : Due(t, d)' # Delete(k)
  <2>1. \A k : Sub(k) = Sub(c) => k = c
    BY Fields
  <2> QED BY <2>1, <1>4, <1>7, <1>8, Fields DEF Writes, Ends
<1>10. \A i : Unwritten(t, i)' <=> i # h
  <2>1. \A i : Unwritten(t, i)' <=> \A d \in Places(t)' : Writes(t, d)' => Due(t, d)'.to # i
    BY DEF Unwritten
  <2> QED BY <2>1, <1>4, <1>7, <1>8, <1>9
<1>11. c \in blocks \cup {Null}
  BY <1>1, <1>6, NamedIsFree
<1>12. Opens(t, named)
  <2>1. \A d \in Places(t)' :
          /\ Due(t, d)'.op # "free"
          /\ \A k : Due(t, d)' = Sub(k) => k \in blocks
          /\ \A k : Due(t, d)' # Delete(k)
          /\ Due(t, d)'.op # "add"
          /\ Due(t, d)'.op \in {"read", "steal"} =>
               /\ ctrl'[l] = ctrl[l] /\ Unwritten(t, l)' /\ Due(t, d)'.from = l
          /\ Writes(t, d)' => Due(t, d)'.to \in named
    BY <1>6, <1>4, <1>7, <1>8, <1>9, <1>10, <1>11
  <2>2. l \in named /\ l \in Sources(l)
    BY <1>6 DEF Sources
  <2>3. blocks \subseteq Blocks /\ objects \subseteq Blocks
    BY DEF PtrInv, PtrTypeOK
  <2> QED BY <2>1, <2>2, <2>3 DEF Opens
<1>13. InTurn'
  <2>1. \A d \in Places(t)' :
           /\ Due(t, d)'.op = "read" => d > 0 /\ Due(t, d - 1)' = Add(Due(t, d)'.to)
           /\ Due(t, d)'.op = "steal" => d = 0
           /\ Due(t, d)'.op = "add" =>
                /\ d + 1 < Length(t)' => Due(t, d + 1)'.op = "read"
                /\ \A e \in 0 .. d - 1 : ~Writes(t, e)'
           /\ Ends(t, d)' => d + 3 >= Length(t)' /\ \A e \in Places(t)' : Ends(t, e)' => e = d
    BY <1>4, <1>7, <1>8, <1>9
  <2> QED BY <2>1, <1>6, CallTurns
<1>14. PtrTypeOK'
  BY <1>6 DEF PtrInv, PtrTypeOK, Begins
<1>15. Counts'
  <2>1. \A i : Counted(i)' <=> Counted(i) /\ i # h
    BY <1>6, <1>10, <1>12, OpensOthers
  <2>2. \A b \in blocks : (\E d \in Places(t)' : Due(t, d)' = Sub(b)) <=> b = ctrl[h]
    <3>1. \A b \in blocks : b # Null
      BY Typed DEF PtrInv, PtrTypeOK
    <3>2. c # Null => 1 \in Places(t)'
      BY <1>7
    <3> QED BY <3>1, <3>2, <1>1, <1>9
  <2>3. \A b \in blocks : count'[b] = Cardinality(Holders(b)') + Cardinality(Subs(b)')
    BY <2>1, <2>2, <1>6, <1>12, HandsOver
  <2> QED BY <2>3 DEF Counts
<1> QED BY <1>6, <1>12, <1>13, <1>14, <1>15, OpensKeeps DEF PtrInv

LEMMA NothingToLetGo ==
  ASSUME NEW h, ctrl[h] = Null, NEW s \in Seq(Instructions)
  PROVE  LetGo(h) \o s = s /\ s \o LetGo(h) = s
<1>1. LetGo(h) = <<>>
  BY DEF LetGo
<1> QED BY <1>1

(* A call that makes a node with a copy of l, for h to hold.               *)
LEMMA MakeKeeps ==
  ASSUME PtrInv, NEW t \in Threads, NEW h \in Locals, NEW l \in Locals \ {h},
         NEW k \in Blocks \ (blocks \cup objects),
         Enter(t, {h, l}, <<Read(k, l), Add(k)>> \o LetGo(h)),
         ctrl' = [ctrl EXCEPT ![h] = k], count' = [count EXCEPT ![k] = 1],
         blocks' = blocks \cup {k}, objects' = objects \cup {k}
  PROVE  PtrInv'
<1>0. /\ h \in Handles /\ l \in Handles /\ k \in Handles /\ k # Null /\ h # k /\ l # k
      /\ Counted(k) /\ ctrl[k] = Null
      /\ \A i \in Handles : Counted(i) => ctrl[i] # k
      /\ \A u \in Threads : \A d \in Places(u) : Due(u, d) # Sub(k)
  BY Typed, NewIsUnknown, PtrConstants
<1>1. PICK c \in Blocks \cup {Null} : c = ctrl[h]
  BY <1>0 DEF PtrInv, PtrTypeOK
<1>2. PICK r : r = Read(k, l)
  OBVIOUS
<1>3. PICK a : a = Add(k)
  OBVIOUS
<1>4. /\ r \in Instructions /\ a \in Instructions /\ (c # Null => Sub(c) \in Instructions)
      /\ r.op = "read" /\ r.to = k /\ r.from = l /\ a.op = "add" /\ a.to = k
      /\ Sub(c).op = "sub"
  BY <1>0, <1>2, <1>3, InstructionForms, Fields
<1>y. PICK list : list = <<r, a>> \o LetGo(h)
  OBVIOUS
<1>5. /\ list \in Seq(Instructions)
      /\ c = Null => Len(list) = 2 /\ list[1] = r /\ list[2] = a
      /\ c # Null => Len(list) = 3 /\ list[1] = r /\ list[2] = a /\ list[3] = Sub(c)
  <2>1. PICK s : s = <<r, a>>
    OBVIOUS
  <2>2. s \in Seq(Instructions) /\ Len(s) = 2 /\ s[1] = r /\ s[2] = a
    BY <2>1, <1>4, Pairs
  <2>3. PICK y \in Seq(Instructions) :
          /\ y = LetGo(h) /\ (c = Null => Len(y) = 0)
          /\ c # Null => Len(y) = 1 /\ y[1] = Sub(c)
    BY <1>1, <1>4, LetGoList
  <2>4. list = s \o y /\ s \in Seq(Instructions)
    BY <2>1, <2>2, <2>3, <1>y
  <2>5. /\ list \in Seq(Instructions) /\ Len(list) = Len(s) + Len(y)
        /\ \A i \in 1 .. Len(s) : list[i] = s[i]
        /\ \A i \in 1 .. Len(y) : list[Len(s) + i] = y[i]
    BY <2>4, Joined, Zenon
  <2>6. 1 \in 1 .. 1 /\ 1 \in 1 .. 2 /\ 2 \in 1 .. 2 /\ 2 + 0 = 2 /\ 2 + 1 = 3
    OBVIOUS
  <2>7. list[1] = r /\ list[2] = a
    BY <2>2, <2>5, <2>6
  <2>8. c = Null => Len(list) = 2
    BY <2>2, <2>3, <2>5, <2>6
  <2>9. ASSUME c # Null PROVE Len(list) = 3 /\ list[3] = Sub(c)
    <3>1. Len(y) = 1 /\ y[1] = Sub(c)
      BY <2>3, <2>9
    <3>2. Len(list) = 3
      BY <3>1, <2>2, <2>5
    <3>3. \A i \in 1 .. 1 : list[2 + i] = y[i]
      BY <3>1, <2>2, <2>5
    <3> QED BY <3>1, <3>2, <3>3, <2>6
  <2> QED BY <2>5, <2>7, <2>8, <2>9
<1>x. PICK named \in SUBSET Locals : named = {h, l}
  OBVIOUS
<1>6. Begins(t, named, list) /\ h \in named /\ l \in named
  BY <1>2, <1>3, <1>y, <1>5, <1>x, EnterBegins DEF PtrInv
<1>z. PICK q \in {0, 1} : q = IF c = Null THEN 0 ELSE 1
  OBVIOUS
<1>7. /\ Due(t, q)' = a /\ Due(t, q + 1)' = r /\ Length(t)' = q + 2
      /\ c = Null => Places(t)' = {0, 1}
      /\ c # Null => Places(t)' = {0, 1, 2} /\ Due(t, 0)' = Sub(c)
  BY <1>z, <1>5, <1>6, ListPlaces
<1>8. /\ q \in Places(t)' /\ q + 1 \in Places(t)'
      /\ c # Null => 0 \in Places(t)' /\ q = 1
      /\ \A d \in Places(t)' : d = q \/ d = q + 1 \/ (d = 0 /\ q = 1 /\ c # Null)
  BY <1>7, <1>z
<1>9. /\ \A d \in Places(t)' : Writes(t, d)' <=> d = q \/ d = q + 1
      /\ \A d \in Places(t)' : Ends(t, d)' <=> d < q
      /\ \A d \in Places(t)' : \A b : Due(t, d)' = Sub(b) <=> d < q /\ b = c
      /\ \A d \in Places(t)' : \A b : Due(t, d)' # Delete(b)
  <2>1. \A b : Sub(b) = Sub(c) => b = c
    BY Fields
  <2> QED BY <2>1, <1>4, <1>7, <1>8, Fields DEF Writes, Ends
<1>10. \A i : Unwritten(t, i)' <=> i # k
  <2>1. \A i : Unwritten(t, i)' <=> \A d \in Places(t)' : Writes(t, d)' => Due(t, d)'.to # i
    BY DEF Unwritten
  <2> QED BY <2>1, <1>4, <1>7, <1>8, <1>9
<1>11. c \in blocks \cup {Null}
  BY <1>1, <1>6, NamedIsFree
<1>12. /\ ctrl'[h] = k /\ \A i \in Handles : i # h => ctrl'[i] = ctrl[i]
       /\ ctrl' \in [Handles -> Blocks \cup {Null}]
       /\ count'[k] = 1 /\ \A b \in Blocks : b # k => count'[b] = count[b]
       /\ count' \in [Blocks -> Int]
       /\ blocks \subseteq Blocks /\ objects \subseteq Blocks
       /\ k \notin blocks /\ k \notin objects /\ k \in Blocks
       /\ blocks' \subseteq Blocks /\ objects' \subseteq Blocks
  BY <1>0 DEF PtrInv, PtrTypeOK
<1>13. Opens(t, named)
  <2>1. \A d \in Places(t)' :
          /\ Due(t, d)'.op # "free"
          /\ \A b : Due(t, d)' = Sub(b) => b \in blocks
          /\ \A b : Due(t, d)' # Delete(b)
          /\ Due(t, d)'.op = "add" => d + 1 # Length(t)'
          /\ Due(t, d)'.op \in {"read", "steal"} =>
               /\ ctrl'[l] = ctrl[l] /\ Unwritten(t, l)' /\ Due(t, d)'.from = l
               /\ Due(t, d)'.op # "steal"
          /\ Writes(t, d)' =>
               Due(t, d)'.to = k /\ ctrl'[h] = k /\ Unwritten(t, h)'
    <3>1. \A d \in Places(t)' : \A b : Due(t, d)' = Sub(b) => b \in blocks
      BY <1>8, <1>9, <1>11
    <3> QED BY <3>1, <1>0, <1>4, <1>7, <1>8, <1>9, <1>10, <1>12
  <2>2. l \in named /\ l \in Sources(l) /\ h \in named
    BY <1>6 DEF Sources
  <2>3. \A i \in Handles \ named : ctrl'[i] = ctrl[i]
    BY <1>12, <1>x
  <2>4. \A i \in named : \/ ctrl'[i] = Null
                         \/ \E j \in named : ctrl'[i] = ctrl[j]
                         \/ ctrl'[i] \in blocks' \ (blocks \cup objects)
    BY <1>0, <1>12, <1>x
  <2>5. /\ blocks \subseteq blocks' /\ objects \subseteq objects'
        /\ (blocks' \ blocks) \cap objects = {} /\ (objects' \ objects) \cap blocks = {}
        /\ \A b \in blocks : count'[b] = count[b]
        /\ \A b \in blocks' \ blocks : count'[b] = 1 /\ b \in objects'
        /\ objects' \ (objects \cup blocks') = {}
        /\ k \in blocks' \ (blocks \cup objects)
    BY <1>12
  <2> QED BY <2>1, <2>2, <2>3, <2>4, <2>5, <1>12 DEF Opens
<1>14. InTurn'
  <2>1. \A d \in Places(t)' :
           /\ Due(t, d)'.op = "read" => d > 0 /\ Due(t, d - 1)' = Add(Due(t, d)'.to)
           /\ Due(t, d)'.op = "steal" => d = 0
           /\ Due(t, d)'.op = "add" =>
                /\ d + 1 < Length(t)' => Due(t, d + 1)'.op = "read"
                /\ \A e \in 0 .. d - 1 : ~Writes(t, e)'
           /\ Ends(t, d)' => d + 3 >= Length(t)' /\ \A e \in Places(t)' : Ends(t, e)' => e = d
    <3> SUFFICES ASSUME NEW d \in Places(t)'
                 PROVE  /\ Due(t, d)'.op = "read" => d > 0 /\ Due(t, d - 1)' = Add(Due(t, d)'.to)
                        /\ Due(t, d)'.op = "steal" => d = 0
                        /\ Due(t, d)'.op = "add" =>
                             /\ d + 1 < Length(t)' => Due(t, d + 1)'.op = "read"
                             /\ \A e \in 0 .. d - 1 : ~Writes(t, e)'
                        /\ Ends(t, d)' => d + 3 >= Length(t)' /\ \A e \in Places(t)' : Ends(t, e)' => e = d
      OBVIOUS
    <3>1. CASE d = q
      <4>1. \A e \in 0 .. d - 1 : e \in Places(t)' /\ e # q /\ e # q + 1
        BY <3>1, <1>7, <1>8
      <4> QED BY <4>1, <3>1, <1>4, <1>7, <1>8, <1>9 DEF Ends
    <3>2. CASE d = q + 1
      BY <3>2, <1>3, <1>4, <1>7, <1>8, <1>9
    <3>3. CASE d = 0 /\ q = 1 /\ c # Null
      BY <3>3, <1>4, <1>7, <1>8, <1>9
    <3> QED BY <3>1, <3>2, <3>3, <1>8
  <2> QED BY <2>1, <1>6, CallTurns
<1>15. PtrTypeOK'
  BY <1>6, <1>12 DEF PtrInv, PtrTypeOK, Begins
<1>16. \A i : Counted(i)' <=> Counted(i) /\ i # k
  BY <1>6, <1>10, <1>13, OpensOthers
<1>17. \A b \in blocks : count'[b] = Cardinality(Holders(b)') + Cardinality(Subs(b)')
  <2>1. \A b \in blocks : b # Null
    BY Typed DEF PtrInv, PtrTypeOK
  <2>2. \A b \in blocks : (\E d \in Places(t)' : Due(t, d)' = Sub(b)) <=> b = ctrl[h]
    <3>1. \A b \in blocks : (\E d \in Places(t)' : Due(t, d)' = Sub(b)) => b = ctrl[h]
      BY <1>1, <1>9
    <3>2. c # Null => 0 \in Places(t)' /\ Due(t, 0)' = Sub(c)
      BY <1>7
    <3> QED BY <2>1, <3>1, <3>2, <1>1
  <2>3. \A i \in Handles \ {h} :
           /\ Counted(i) /\ ctrl[i] \in blocks => Counted(i)' /\ ctrl'[i] = ctrl[i]
           /\ Counted(i)' /\ ctrl'[i] \in blocks => Counted(i) /\ ctrl'[i] = ctrl[i]
    <3>1. ctrl[k] \notin blocks
      BY <2>1, <1>0
    <3> QED BY <3>1, <1>12, <1>16
  <2>4. ctrl'[h] \notin blocks
    BY <1>12
  <2> QED BY <2>2, <2>3, <2>4, <1>6, <1>13, HandsOver
<1>18. count'[k] = Cardinality(Holders(k)') + Cardinality(Subs(k)')
  <2>1. \A i \in Handles : (Counted(i)' /\ ctrl'[i] = k) <=> i = h
    <3>1. Counted(h)
      BY <1>6, NamedIsFree
    <3> QED BY <3>1, <1>0, <1>12, <1>16
  <2>2. Holders(k)' = {h}
    BY <2>1, <1>0 DEF Holders
  <2>3. Subs(k) = {}
    BY <1>0 DEF Subs
  <2>4. \A d \in Places(t)' : Due(t, d)' # Sub(k)
    BY <1>0, <1>9, <1>11, <1>12
  <2>5. Subs(k)' = Subs(k)
    BY <2>4, <1>6, <1>13, OpensKeeps
  <2>6. Cardinality(Holders(k)') = 1
    BY <2>2, FS_Singleton
  <2>7. Cardinality(Subs(k)') = 0
    BY <2>3, <2>5, FS_EmptySet
  <2> QED BY <2>6, <2>7, <1>12
<1>19. Counts'
  BY <1>17, <1>18 DEF Counts
<1> QED BY <1>6, <1>13, <1>14, <1>15, <1>19, OpensKeeps DEF PtrInv

(* A call that makes a node and cannot keep it.                            *)
LEMMA MakeFailsKeeps ==
  ASSUME PtrInv, NEW t \in Threads, NEW l \in Locals, MakeFails(t, l)
  PROVE  PtrInv'
<1>0. PICK k \in Blocks \ (blocks \cup objects) :
        /\ Enter(t, {l}, <<Read(k, l), Add(k), Delete(k)>>)
        /\ objects' = objects \cup {k}
        /\ UNCHANGED <<ctrl, count, blocks>>
  BY DEF MakeFails
<1>1. /\ l \in Handles /\ k \in Handles /\ k # Null /\ l # k
      /\ ctrl[k] = Null
      /\ blocks \subseteq Blocks /\ objects \subseteq Blocks
  BY Typed, NewIsUnknown, PtrConstants DEF PtrInv, PtrTypeOK
<1>2. PICK r : r = Read(k, l)
  OBVIOUS
<1>3. PICK a : a = Add(k)
  OBVIOUS
<1>4. PICK x : x = Delete(k)
  OBVIOUS
<1>5. /\ r \in Instructions /\ a \in Instructions /\ x \in Instructions
      /\ r.op = "read" /\ r.to = k /\ r.from = l /\ a.op = "add" /\ a.to = k
      /\ x.op = "delete"
  BY <1>1, <1>2, <1>3, <1>4, InstructionForms, Fields
<1>6. PICK list : list = <<r, a, x>>
  OBVIOUS
<1>7. list \in Seq(Instructions) /\ Len(list) = 3 /\ list[1] = r /\ list[2] = a /\ list[3] = x
  BY <1>5, <1>6
<1>8. PICK named \in SUBSET Locals : named = {l}
  OBVIOUS
<1>9. Begins(t, named, list) /\ l \in named
  BY <1>0, <1>2, <1>3, <1>4, <1>6, <1>7, <1>8, EnterBegins DEF PtrInv
<1>10. /\ Due(t, 0)' = x /\ Due(t, 1)' = a /\ Due(t, 2)' = r
       /\ Length(t)' = 3 /\ Places(t)' = {0, 1, 2}
  BY <1>7, <1>9, ListPlaces
<1>11. /\ \A d \in Places(t)' : Writes(t, d)' <=> d = 1 \/ d = 2
       /\ \A d \in Places(t)' : Ends(t, d)' <=> d = 0
       /\ \A d \in Places(t)' : \A b : Due(t, d)' # Sub(b)
       /\ \A d \in Places(t)' : \A b : Due(t, d)' = Delete(b) <=> d = 0 /\ b = k
  <2>1. \A b : Delete(b) = Delete(k) => b = k
    BY Fields
  <2> QED BY <2>1, <1>4, <1>5, <1>10, Fields DEF Writes, Ends
<1>12. \A i : Unwritten(t, i)' <=> i # k
  <2>1. \A i : Unwritten(t, i)' <=> \A d \in Places(t)' : Writes(t, d)' => Due(t, d)'.to # i
    BY DEF Unwritten
  <2> QED BY <2>1, <1>5, <1>10, <1>11
<1>13. Opens(t, named)
  <2>1. k \in objects' \ (objects \cup blocks') /\ objects' \ (objects \cup blocks') = {k}
    BY <1>0
  <2>2. \A d \in Places(t)' :
          /\ Due(t, d)'.op # "free"
          /\ \A b : Due(t, d)' # Sub(b)
          /\ \A b : Due(t, d)' = Delete(b) => b = k
          /\ Due(t, d)'.op = "add" => d + 1 # Length(t)'
          /\ Due(t, d)'.op \in {"read", "steal"} =>
               /\ ctrl'[l] = ctrl[l] /\ Unwritten(t, l)' /\ Due(t, d)'.from = l
               /\ Due(t, d)'.op # "steal"
          /\ Writes(t, d)' =>
               Due(t, d)'.to = k /\ 0 \in 0 .. d - 1 /\ Due(t, 0)' = Delete(k)
    BY <1>0, <1>1, <1>4, <1>5, <1>10, <1>11, <1>12
  <2>3. l \in named /\ l \in Sources(l)
    BY <1>9 DEF Sources
  <2>4. 0 \in Places(t)' /\ Due(t, 0)' = Delete(k)
    BY <1>4, <1>10
  <2>5. /\ blocks' = blocks /\ count' = count /\ ctrl' = ctrl /\ objects \subseteq objects'
        /\ objects' \subseteq Blocks /\ (objects' \ objects) \cap blocks = {}
    BY <1>0, <1>1
  <2>6. \A d \in Places(t)' : Writes(t, d)' =>
           /\ Due(t, d)'.to \in objects' \ (objects \cup blocks')
           /\ \E e \in 0 .. d - 1 : Due(t, e)' = Delete(Due(t, d)'.to)
    BY <2>1, <2>2, Zenon
  <2>7. \A d \in Places(t)' : Due(t, d)'.op \in {"read", "steal"} =>
            \E j \in named : /\ ctrl'[j] = ctrl[j] /\ Unwritten(t, j)'
                             /\ Due(t, d)'.from \in Sources(j)
                             /\ Due(t, d)'.op = "steal" => Due(t, d)'.from = j
    BY <2>2, <2>3
  <2> QED BY <2>1, <2>2, <2>4, <2>5, <2>6, <2>7, <1>1 DEF Opens
<1>14. InTurn'
  <2>1. \A d \in Places(t)' :
           /\ Due(t, d)'.op = "read" => d > 0 /\ Due(t, d - 1)' = Add(Due(t, d)'.to)
           /\ Due(t, d)'.op = "steal" => d = 0
           /\ Due(t, d)'.op = "add" =>
                /\ d + 1 < Length(t)' => Due(t, d + 1)'.op = "read"
                /\ \A e \in 0 .. d - 1 : ~Writes(t, e)'
           /\ Ends(t, d)' => d + 3 >= Length(t)' /\ \A e \in Places(t)' : Ends(t, e)' => e = d
    BY <1>3, <1>5, <1>10, <1>11
  <2> QED BY <2>1, <1>9, CallTurns
<1>15. PtrTypeOK'
  BY <1>0, <1>9 DEF PtrInv, PtrTypeOK, Begins
<1>16. Counts'
  <2>1. \A i : Counted(i)' <=> Counted(i) /\ i # k
    BY <1>9, <1>12, <1>13, OpensOthers
  <2>2. \A b \in blocks : b # Null
    BY Typed DEF PtrInv, PtrTypeOK
  <2>3. \A b \in blocks : Holders(b)' = Holders(b)
    BY <2>1, <2>2, <1>0, <1>1 DEF Holders
  <2>4. \A b : Subs(b)' = Subs(b)
    BY <1>9, <1>11, <1>13, OpensKeeps
  <2> QED BY <2>3, <2>4, <1>0 DEF PtrInv, Counts
<1> QED BY <1>9, <1>13, <1>14, <1>15, <1>16, OpensKeeps DEF PtrInv

(* A call that lets go of what h holds, and nothing else.                  *)
LEMMA DestructKeeps ==
  ASSUME PtrInv, NEW t \in Threads, NEW h \in Locals, Destruct(t, h)
  PROVE  PtrInv'
<1>0. PICK c \in Blocks : c = ctrl[h] /\ h \in Handles
  BY Typed DEF PtrInv, PtrTypeOK, Destruct
<1>1. /\ ctrl[h] # Null /\ Enter(t, {h}, LetGo(h))
      /\ ctrl' = [ctrl EXCEPT ![h] = Null] /\ UNCHANGED <<count, blocks, objects>>
  BY DEF Destruct
<1>2. Sub(c) \in Instructions /\ Sub(c).op = "sub"
  BY <1>0, InstructionForms, Fields
<1>3. PICK list \in Seq(Instructions) :
        list = LetGo(h) /\ Len(list) = 1 /\ list[1] = Sub(c)
  BY <1>0, <1>1, <1>2, LetGoList
<1>4. PICK named \in SUBSET Locals : named = {h}
  OBVIOUS
<1>5. Begins(t, named, list) /\ h \in named
  BY <1>1, <1>3, <1>4, EnterBegins DEF PtrInv
<1>6. Due(t, 0)' = Sub(c) /\ Length(t)' = 1 /\ Places(t)' = {0}
  BY <1>3, <1>5, ListPlaces
<1>7. /\ \A d \in Places(t)' : ~Writes(t, d)'
      /\ \A d \in Places(t)' : \A b : Due(t, d)' = Sub(b) <=> b = c
      /\ \A d \in Places(t)' : \A b : Due(t, d)' # Delete(b)
  <2>1. \A b : Sub(b) = Sub(c) => b = c
    BY Fields
  <2> QED BY <2>1, <1>2, <1>6, Fields DEF Writes
<1>8. /\ ctrl'[h] = Null /\ \A i \in Handles : i # h => ctrl'[i] = ctrl[i]
      /\ ctrl' \in [Handles -> Blocks \cup {Null}]
      /\ blocks \subseteq Blocks /\ objects \subseteq Blocks
  BY <1>0, <1>1 DEF PtrInv, PtrTypeOK
<1>9. c \in blocks
  BY <1>0, <1>1, <1>5, NamedIsFree
<1>10. Opens(t, named)
  <2>1. \A d \in Places(t)' :
          /\ Due(t, d)'.op = "sub"
          /\ \A b : Due(t, d)' = Sub(b) => b \in blocks
          /\ \A b : Due(t, d)' # Delete(b)
          /\ ~Writes(t, d)'
    BY <1>2, <1>6, <1>7, <1>9
  <2> QED BY <2>1, <1>1, <1>4, <1>8 DEF Opens
<1>11. InTurn'
  BY <1>2, <1>5, <1>6, CallTurns
<1>12. PtrTypeOK'
  BY <1>1, <1>5, <1>8 DEF PtrInv, PtrTypeOK, Begins
<1>13. Counts'
  <2>1. \A i : Counted(i)' <=> Counted(i)
    <3>1. \A i : Unwritten(t, i)'
      BY <1>7 DEF Unwritten
    <3> QED BY <3>1, <1>5, <1>10, OpensOthers
  <2>2. \A b \in blocks : (\E d \in Places(t)' : Due(t, d)' = Sub(b)) <=> b = ctrl[h]
    BY <1>0, <1>6, <1>7
  <2>3. ctrl'[h] \notin blocks
    BY <1>8, Typed
  <2>4. \A b \in blocks : count'[b] = Cardinality(Holders(b)') + Cardinality(Subs(b)')
    BY <2>1, <2>2, <2>3, <1>5, <1>8, <1>10, HandsOver
  <2> QED BY <2>4, <1>1 DEF Counts
<1> QED BY <1>5, <1>10, <1>11, <1>12, <1>13, OpensKeeps DEF PtrInv

(* A call that exchanges what two variables hold.                          *)
LEMMA SwapKeeps ==
  ASSUME PtrInv, NEW t \in Threads, NEW h \in Locals, Swap(t, h)
  PROVE  PtrInv'
<1>0. PICK l \in Locals \ {h} :
        /\ Enter(t, {h, l}, <<>>)
        /\ ctrl' = [ctrl EXCEPT ![h] = ctrl[l], ![l] = ctrl[h]]
        /\ UNCHANGED <<count, blocks, objects>>
  BY DEF Swap
<1>1. h \in Handles /\ l \in Handles /\ h # l
  BY Typed
<1>2. PICK list \in Seq(Instructions) : list = <<>>
  BY Pairs
<1>3. PICK named \in SUBSET Locals : named = {h, l}
  OBVIOUS
<1>4. Begins(t, named, list) /\ h \in named /\ l \in named
  BY <1>0, <1>2, <1>3, EnterBegins DEF PtrInv
<1>5. Length(t)' = 0 /\ Places(t)' = {}
  BY <1>2, <1>4, ListPlaces
<1>6. /\ ctrl'[h] = ctrl[l] /\ ctrl'[l] = ctrl[h]
      /\ \A i \in Handles : i # h /\ i # l => ctrl'[i] = ctrl[i]
      /\ ctrl' \in [Handles -> Blocks \cup {Null}]
      /\ blocks \subseteq Blocks /\ objects \subseteq Blocks
  BY <1>0, <1>1 DEF PtrInv, PtrTypeOK
<1>7. Opens(t, named)
  BY <1>0, <1>3, <1>5, <1>6 DEF Opens
<1>8. InTurn'
  BY <1>4, <1>5, CallTurns
<1>9. PtrTypeOK'
  BY <1>0, <1>4, <1>6 DEF PtrInv, PtrTypeOK, Begins
<1>10. Counts'
  <2>1. \A i : Counted(i)' <=> Counted(i)
    <3>1. \A i : Unwritten(t, i)'
      BY <1>5 DEF Unwritten
    <3> QED BY <3>1, <1>4, <1>7, OpensOthers
  <2>2. Counted(h) /\ Counted(l)
    BY <1>4, NamedIsFree
  <2>3. ASSUME NEW b \in blocks PROVE Cardinality(Holders(b)') = Cardinality(Holders(b))
    <3>1. CASE ctrl[h] = b /\ ctrl[l] # b
      <4>1. Holders(b)' = (Holders(b) \ {h}) \cup {l} /\ h \in Holders(b) /\ l \notin Holders(b)
        BY <3>1, <2>1, <2>2, <1>1, <1>6 DEF Holders
      <4> QED BY <4>1, FiniteCounts, Exchange
    <3>2. CASE ctrl[l] = b /\ ctrl[h] # b
      <4>1. Holders(b)' = (Holders(b) \ {l}) \cup {h} /\ l \in Holders(b) /\ h \notin Holders(b)
        BY <3>2, <2>1, <2>2, <1>1, <1>6 DEF Holders
      <4> QED BY <4>1, FiniteCounts, Exchange
    <3>3. CASE ctrl[l] = b <=> ctrl[h] = b
      <4>1. Holders(b)' = Holders(b)
        BY <3>3, <2>1, <2>2, <1>1, <1>6 DEF Holders
      <4> QED BY <4>1
    <3> QED BY <3>1, <3>2, <3>3
  <2>4. \A b : Subs(b)' = Subs(b)
    BY <1>4, <1>5, <1>7, OpensKeeps
  <2> QED BY <2>3, <2>4, <1>0 DEF PtrInv, Counts
<1> QED BY <1>4, <1>7, <1>8, <1>9, <1>10, OpensKeeps DEF PtrInv

-----------------------------------------------------------------------------
LEMMA InitHolds ==
  ASSUME PtrInit
  PROVE  PtrInv
<1>1. \A t \in Threads : Length(t) = 0 /\ Places(t) = {}
  BY DEF PtrInit, Length, Places
<1>2. \A t \in Threads : \A d \in Places(t) : FALSE
  BY <1>1
<1>3. PtrTypeOK
  BY Pairs DEF PtrInit, PtrTypeOK
<1>4. InTurn /\ Targets /\ Origins /\ Endings
  BY <1>2 DEF InTurn, Targets, Origins, Endings
<1>5. NamesApart
  BY <1>1 DEF NamesApart
<1>6. blocks = {} /\ objects = {} /\ \A i \in Handles : ctrl[i] = Null
  BY DEF PtrInit
<1>7. Living /\ Counts
  BY <1>6 DEF Living, Counts, Handles
<1> QED BY <1>3, <1>4, <1>5, <1>7 DEF PtrInv

LEMMA CallKeeps ==
  ASSUME PtrInv, ~AssignsFromInside, NEW t \in Threads, NEW h \in Locals, PtrCall(t, h)
  PROVE  PtrInv'
<1>1. /\ \A i, g \in Handles :
           LET s == <<Read(i, g), Add(i)>> IN
           ctrl[h] = Null => LetGo(h) \o s = s /\ s \o LetGo(h) = s
      /\ \A l \in Locals :
           LET s == <<Steal(h, l)>> IN
           ctrl[h] = Null => LetGo(h) \o s = s
  <2>1. \A i, g \in Handles : <<Read(i, g), Add(i)>> \in Seq(Instructions)
    BY InstructionForms, Pairs
  <2>2. \A l \in Locals : <<Steal(h, l)>> \in Seq(Instructions)
    BY InstructionForms, Pairs
  <2> QED BY <2>1, <2>2, NothingToLetGo
<1>2. \A l \in Locals : l \in Handles /\ \A g \in Sources(l) : g \in Handles
  BY Typed DEF Sources, PtrInv, PtrTypeOK
<1>3. CASE MakeShared(t, h)
  <2>1. PICK l \in Locals \ {h}, k \in Blocks \ (blocks \cup objects) :
          /\ ctrl[h] = Null
          /\ Enter(t, {h, l}, <<Read(k, l), Add(k)>>)
          /\ ctrl' = [ctrl EXCEPT ![h] = k]
          /\ count' = [count EXCEPT ![k] = 1]
          /\ blocks' = blocks \cup {k} /\ objects' = objects \cup {k}
    BY <1>3 DEF MakeShared
  <2>2. k \in Handles
    BY DEF Handles
  <2>3. <<Read(k, l), Add(k)>> \o LetGo(h) = <<Read(k, l), Add(k)>>
    BY <2>1, <2>2, <1>1, <1>2
  <2>4. Enter(t, {h, l}, <<Read(k, l), Add(k)>> \o LetGo(h))
    BY <2>1, <2>3
  <2> QED BY <2>1, <2>4, MakeKeeps
<1>4. CASE CopyConstruct(t, h)
  <2>1. PICK l \in Locals \ {h} : \E g \in Sources(l) :
          /\ ctrl[h] = Null
          /\ Enter(t, {h, l}, <<Read(h, g), Add(h)>>)
          /\ UNCHANGED <<ctrl, count, blocks, objects>>
    BY <1>4 DEF CopyConstruct
  <2>2. PICK g \in Sources(l) :
          /\ ctrl[h] = Null
          /\ Enter(t, {h, l}, <<Read(h, g), Add(h)>>)
          /\ UNCHANGED <<ctrl, count, blocks, objects>>
    BY <2>1
  <2>3. LetGo(h) \o <<Read(h, g), Add(h)>> = <<Read(h, g), Add(h)>>
    BY <2>2, <1>1, <1>2
  <2>4. Enter(t, {h, l}, LetGo(h) \o <<Read(h, g), Add(h)>>)
    BY <2>2, <2>3
  <2> QED BY <2>2, <2>4, CopyKeeps
<1>5. CASE CopyAssign(t, h)
  <2>1. PICK l \in Locals : \E g \in Sources(l) \ {h} :
          /\ l = h => AssignsFromInside
          /\ Enter(t, {h, l}, LetGo(h) \o <<Read(h, g), Add(h)>>)
          /\ UNCHANGED <<ctrl, count, blocks, objects>>
    BY <1>5 DEF CopyAssign
  <2>2. l \in Locals \ {h}
    BY <2>1
  <2> QED BY <2>1, <2>2, CopyKeeps
<1>6. CASE MoveConstruct(t, h)
  <2>1. PICK l \in Locals \ {h} :
          /\ ctrl[h] = Null
          /\ Enter(t, {h, l}, <<Steal(h, l)>>)
          /\ UNCHANGED <<ctrl, count, blocks, objects>>
    BY <1>6 DEF MoveConstruct
  <2>2. LetGo(h) \o <<Steal(h, l)>> = <<Steal(h, l)>>
    BY <2>1, <1>1
  <2>3. Enter(t, {h, l}, LetGo(h) \o <<Steal(h, l)>>)
    BY <2>1, <2>2
  <2> QED BY <2>1, <2>3, MoveKeeps
<1>7. CASE MoveAssign(t, h)
  BY <1>7, MoveKeeps DEF MoveAssign
<1>8. CASE ResetToNew(t, h)
  BY <1>8, MakeKeeps DEF ResetToNew
<1> QED BY <1>3, <1>4, <1>5, <1>6, <1>7, <1>8, DestructKeeps, SwapKeeps, MakeFailsKeeps DEF PtrCall

LEMMA InvHolds ==
  ASSUME PtrInv, ~AssignsFromInside, [PtrNext]_ptrVars
  PROVE  PtrInv'
<1>1. CASE PtrNext
  <2>1. PICK t \in Threads : PtrStep(t) \/ \E h \in Locals : PtrCall(t, h)
    BY <1>1 DEF PtrNext
  <2>2. CASE PtrStep(t)
    BY <2>2, DecrementKeeps, DeleteKeeps, FreeKeeps, ReadKeeps, StealKeeps, AddKeeps DEF PtrStep
  <2> QED BY <2>1, <2>2, CallKeeps
<1>2. CASE UNCHANGED ptrVars
  <2>1. \A t : /\ Length(t)' = Length(t) /\ Places(t)' = Places(t)
               /\ \A d : /\ Due(t, d)' = Due(t, d) /\ (Writes(t, d)' <=> Writes(t, d))
                         /\ (Ends(t, d)' <=> Ends(t, d))
    BY <1>2 DEF ptrVars, Length, Places, Due, Writes, Ends
  <2>2. /\ \A x : IsDue(x)' <=> IsDue(x)
        /\ \A h : Counted(h)' <=> Counted(h)
        /\ \A k : Subs(k)' = Subs(k)
    BY <2>1 DEF IsDue, Counted, Subs
  <2>3. /\ \A k : Holders(k)' = Holders(k)
        /\ \A t, g : Held(t, g)' <=> Held(t, g)
    BY <2>2, <1>2 DEF ptrVars, Holders, Held
  <2>4. PtrTypeOK'
    BY <1>2 DEF ptrVars, PtrInv, PtrTypeOK
  <2>5. InTurn'
    BY <2>1 DEF PtrInv, InTurn
  <2>6. NamesApart'
    BY <1>2, <2>1 DEF ptrVars, PtrInv, NamesApart
  <2>7. Targets'
    BY <1>2, <2>1, <2>2 DEF ptrVars, PtrInv, Targets
  <2>8. Origins'
    BY <1>2, <2>1, <2>2, <2>3 DEF ptrVars, PtrInv, Origins
  <2>9. Endings'
    BY <1>2, <2>1 DEF ptrVars, PtrInv, Endings, EndsOnce
  <2>10. Living' /\ Counts'
    BY <1>2, <2>2, <2>3 DEF ptrVars, PtrInv, Living, Counts
  <2> QED BY <2>4, <2>5, <2>6, <2>7, <2>8, <2>9, <2>10 DEF PtrInv
<1> QED BY <1>1, <1>2

(* What a thread has still to do, by its place in the call.                *)
LEMMA PlaceIndex ==
  ASSUME PtrInv, NEW t \in Threads
  PROVE  /\ \A i \in 1 .. Len(todo[t]) :
              Length(t) - i \in Places(t) /\ Due(t, Length(t) - i) = todo[t][i]
         /\ \A d \in Places(t) :
              Length(t) - d \in 1 .. Len(todo[t]) /\ todo[t][Length(t) - d] = Due(t, d)
<1>1. Length(t) = Len(todo[t]) /\ Length(t) \in Nat /\ Places(t) = 0 .. Length(t) - 1
  BY Typed DEF Length
<1>2. \A i \in 1 .. Length(t) : Length(t) - i \in Places(t) /\ Length(t) - (Length(t) - i) = i
  BY <1>1
<1>3. \A d \in Places(t) : Length(t) - d \in 1 .. Length(t)
  BY <1>1
<1> QED BY <1>1, <1>2, <1>3 DEF Due

LEMMA HoldersAreCounted ==
  ASSUME PtrInv, NEW k
  PROVE  {h \in Handles \ Uncounted : ctrl[h] = k} = Holders(k)
<1> SUFFICES ASSUME NEW h \in Handles PROVE h \in Uncounted <=> ~Counted(h)
  BY DEF Holders
<1>1. ASSUME h \in Uncounted PROVE ~Counted(h)
  <2>1. PICK t \in Threads : \E i \in Pending(t) : i.op \in {"read", "steal", "add"} /\ i.to = h
    BY <1>1 DEF Uncounted
  <2>2. PICK j \in 1 .. Len(todo[t]) :
          todo[t][j].op \in {"read", "steal", "add"} /\ todo[t][j].to = h
    BY <2>1 DEF Pending
  <2>3. Length(t) - j \in Places(t) /\ Due(t, Length(t) - j) = todo[t][j]
    BY PlaceIndex
  <2> QED BY <2>2, <2>3 DEF Counted, Writes
<1>2. ASSUME ~Counted(h) PROVE h \in Uncounted
  <2>1. PICK t \in Threads : \E d \in Places(t) : Writes(t, d) /\ Due(t, d).to = h
    BY <1>2 DEF Counted
  <2>2. PICK d \in Places(t) : Writes(t, d) /\ Due(t, d).to = h
    BY <2>1
  <2>3. Length(t) - d \in 1 .. Len(todo[t]) /\ todo[t][Length(t) - d] = Due(t, d)
    BY PlaceIndex
  <2>4. Due(t, d) \in Pending(t)
    BY <2>3 DEF Pending
  <2> QED BY <2>2, <2>4 DEF Uncounted, Writes
<1> QED BY <1>1, <1>2

(* A call lets go of one thing, soon enough for every decrement to be seen. *)
LEMMA SubsArePending ==
  ASSUME PtrInv, NEW k \in Blocks
  PROVE  Cardinality(PendingSubs(k)) = Cardinality(Subs(k))
<1> DEFINE P == PendingSubs(k)
           S == Subs(k)
           f == [p \in P |-> p[1]]
<1>1. \A p \in P : /\ p[1] \in Threads /\ p[2] \in 1 .. 5 /\ p[2] <= Len(todo[p[1]])
                   /\ todo[p[1]][p[2]] = Sub(k) /\ p = <<p[1], p[2]>>
  BY DEF PendingSubs
<1>2. ASSUME NEW p \in P
      PROVE  /\ p[1] \in S
             /\ Length(p[1]) - p[2] \in Places(p[1])
             /\ Due(p[1], Length(p[1]) - p[2]) = Sub(k)
  <2>1. p[1] \in Threads /\ p[2] \in 1 .. Len(todo[p[1]])
    <3>1. Len(todo[p[1]]) \in Nat
      BY <1>1, Typed DEF Length
    <3> QED BY <3>1, <1>1
  <2>2. /\ Length(p[1]) - p[2] \in Places(p[1])
        /\ Due(p[1], Length(p[1]) - p[2]) = Sub(k)
    BY <2>1, <1>1, PlaceIndex
  <2> QED BY <2>1, <2>2 DEF Subs
<1>3. ASSUME NEW p \in P, NEW q \in P, p[1] = q[1] PROVE p = q
  <2>1. /\ Length(p[1]) - p[2] \in Places(p[1]) /\ Ends(p[1], Length(p[1]) - p[2])
        /\ Length(p[1]) - q[2] \in Places(p[1]) /\ Ends(p[1], Length(p[1]) - q[2])
    BY <1>2, <1>3, Fields DEF Ends
  <2>2. Length(p[1]) - p[2] = Length(p[1]) - q[2]
    BY <2>1, <1>1 DEF PtrInv, InTurn
  <2>3. p[2] = q[2]
    BY <2>2, <1>1, Typed
  <2> QED BY <2>3, <1>1, <1>3
<1>4. ASSUME NEW t \in S PROVE \E p \in P : p[1] = t
  <2>1. PICK d \in Places(t) : Due(t, d) = Sub(k)
    BY DEF Subs
  <2>2. t \in Threads /\ Ends(t, d)
    BY <2>1, Fields DEF Subs, Ends
  <2>3. d + 3 >= Length(t)
    BY <2>2 DEF PtrInv, InTurn
  <2>4. PICK i \in 1 .. Len(todo[t]) : i = Length(t) - d /\ todo[t][i] = Sub(k)
    BY <2>1, <2>2, PlaceIndex
  <2>5. i \in 1 .. 5 /\ i <= Len(todo[t])
    BY <2>2, <2>3, <2>4, Typed
  <2>6. PICK p : p = <<t, i>>
    OBVIOUS
  <2>7. p \in Threads \X (1 .. 5) /\ p[1] = t /\ p[2] = i
    BY <2>2, <2>5, <2>6
  <2>8. p \in P
    BY <2>4, <2>5, <2>7 DEF PendingSubs
  <2> QED BY <2>7, <2>8
<1> HIDE DEF P, S
<1>5. f \in [P -> S] /\ \A p \in P : f[p] = p[1]
  BY <1>2
<1> HIDE DEF f
<1>6. f \in Injection(P, S)
  BY <1>3, <1>5 DEF Injection, IsInjective
<1>7. f \in Surjection(P, S)
  BY <1>4, <1>5 DEF Surjection
<1>8. IsFiniteSet(S)
  BY FiniteCounts DEF S
<1>9. Cardinality(P) = Cardinality(S)
  BY <1>6, <1>7, <1>8, FS_Injection
<1> QED BY <1>9 DEF P, S

(* Every count is exact, however threads copy, move, assign and destroy.   *)
THEOREM CountsAreAlwaysExact ==
  ASSUME ~AssignsFromInside
  PROVE  PtrSpec => []CountsAreExact
<1>1. PtrInit => PtrInv
  BY InitHolds
<1>2. PtrInv /\ [PtrNext]_ptrVars => PtrInv'
  BY InvHolds
<1>3. PtrInv => CountsAreExact
  <2> SUFFICES ASSUME PtrInv, NEW k \in blocks
               PROVE  count[k] = Cardinality({h \in Handles \ Uncounted : ctrl[h] = k})
                                   + Cardinality(PendingSubs(k))
    BY DEF CountsAreExact
  <2>1. count[k] = Cardinality(Holders(k)) + Cardinality(Subs(k))
    BY DEF PtrInv, Counts
  <2>2. Cardinality(PendingSubs(k)) = Cardinality(Subs(k))
    BY SubsArePending DEF PtrInv, PtrTypeOK
  <2>3. {h \in Handles \ Uncounted : ctrl[h] = k} = Holders(k)
    BY HoldersAreCounted
  <2> QED BY <2>1, <2>2, <2>3
<1> QED BY <1>1, <1>2, <1>3, PTL DEF PtrSpec

(* Nothing is touched after it was deleted, or deleted twice; a control    *)
(* block goes when nobody holds it and its object has gone.                *)
THEOREM NothingUsedAfterFree ==
  ASSUME ~AssignsFromInside
  PROVE  PtrSpec => []NoUseAfterFree
<1>1. PtrInit => PtrInv
  BY InitHolds
<1>2. PtrInv /\ [PtrNext]_ptrVars => PtrInv'
  BY InvHolds
<1>3. PtrInv => NoUseAfterFree
  <2> SUFFICES ASSUME PtrInv, NEW t \in Threads, todo[t] # <<>>
               PROVE  LET i == Head(todo[t]) IN
                      /\ i.op = "free" => count[i.block] = 0 /\ i.block \notin objects
                      /\ i.op \in {"sub", "free"} => i.block \in blocks
                      /\ i.op = "delete" => i.block \in objects
                      /\ i.op \in {"read", "steal"} => {i.to, i.from} \cap Blocks \subseteq objects
                      /\ i.op = "add" => ctrl[i.to] \in blocks \cup {Null}
    BY DEF NoUseAfterFree, BlockAssertions, Next1
  <2>1. PICK i \in Instructions : i = Head(todo[t])
    BY Typed
  <2>2. PICK d \in Places(t) : d = Length(t) - 1 /\ Due(t, d) = i /\ Length(t) \in Nat
    BY <2>1, Typed
  <2>3. i.op = "sub" => i.block \in blocks
    BY <2>2, InstructionForms DEF PtrInv, Endings, EndsOnce
  <2>4. i.op = "delete" => i.block \in objects
    BY <2>2, InstructionForms DEF PtrInv, Endings, EndsOnce
  <2>5. i.op = "free" => i.block \in blocks /\ count[i.block] = 0 /\ i.block \notin objects
    BY <2>2, InstructionForms DEF PtrInv, Endings, EndsOnce
  <2>6. ASSUME i.op \in {"read", "steal"} PROVE {i.to, i.from} \cap Blocks \subseteq objects
    <3>1. i.to \in Blocks => i.to \in objects
      BY <2>2, <2>6 DEF PtrInv, Targets, Writes
    <3>2. i.op = "read" => Held(t, i.from) /\ i.from \in Handles
      BY <2>2, InstructionForms DEF PtrInv, Origins
    <3>3. i.op = "steal" => i.from \in Locals
      BY InstructionForms
    <3>4. i.from \in Blocks => i.from \in objects
      BY <2>6, <3>2, <3>3, HeldIsAlive, PtrConstants
    <3> QED BY <3>1, <3>4
  <2>7. ASSUME i.op = "add" PROVE ctrl[i.to] \in blocks \cup {Null}
    <3>1. i.to \in Handles /\ i = Add(i.to)
      BY <2>7, InstructionForms
    <3>2. Due(t, Length(t) - 1) = Add(i.to) /\ Length(t) > 0
      BY <2>2, <3>1, Typed
    <3> QED BY <3>1, <3>2, AddedIsAlive
  <2> QED BY <2>1, <2>3, <2>4, <2>5, <2>6, <2>7
<1> QED BY <1>1, <1>2, <1>3, PTL DEF PtrSpec

-----------------------------------------------------------------------------
(* A node is read into before anything is known of it, and no list of      *)
(* nodes runs into itself: each object has a rank above that of the next.  *)
Fresh ==
  \A t \in Threads : \A d \in Places(t) :
    Due(t, d).op = "read" /\ Due(t, d).to \in Blocks =>
      ctrl[Due(t, d).to] = Null /\ ctrl[Due(t, d).from] # Due(t, d).to

Ranked ==
  \E rank \in [Blocks -> Nat], top \in Nat :
    \A k \in Blocks : rank[k] <= top /\ (ctrl[k] # Null => rank[ctrl[k]] < rank[k])

LEMMA RankedKept ==
  ASSUME PtrInv, Ranked, \A k \in Blocks : ctrl'[k] = ctrl[k] \/ ctrl'[k] = Null
  PROVE  Ranked'
<1>1. PICK rank \in [Blocks -> Nat], top \in Nat :
        \A k \in Blocks : rank[k] <= top /\ (ctrl[k] # Null => rank[ctrl[k]] < rank[k])
  BY DEF Ranked
<1>2. \A k \in Blocks : rank[k] <= top /\ (ctrl'[k] # Null => rank[ctrl'[k]] < rank[k])
  BY <1>1
<1> QED BY <1>2 DEF Ranked

(* Steps that read nothing.                                                *)
LEMMA FreshKept ==
  ASSUME PtrInv, Fresh, NEW t \in Threads,
         \A u \in Threads : \A d \in Places(u)' :
           Due(u, d)'.op = "read" => d \in Places(u) /\ Due(u, d)' = Due(u, d),
         \A k \in Blocks : ctrl'[k] = ctrl[k] \/ ctrl'[k] = Null,
         \A u \in Threads : \A d \in Places(u)' : Due(u, d)'.op = "read" =>
           ctrl'[Due(u, d)'.from] \in {ctrl[Due(u, d)'.from], Null}
  PROVE  Fresh'
<1> SUFFICES ASSUME NEW u \in Threads, NEW d \in Places(u)',
                    Due(u, d)'.op = "read", Due(u, d)'.to \in Blocks
             PROVE  ctrl'[Due(u, d)'.to] = Null /\ ctrl'[Due(u, d)'.from] # Due(u, d)'.to
  BY DEF Fresh
<1>1. PICK x : x = Due(u, d)'
  OBVIOUS
<1>2. d \in Places(u) /\ Due(u, d) = x /\ x.op = "read" /\ x.to \in Blocks /\ x.to # Null
  BY <1>1, Typed
<1>3. ctrl[x.to] = Null /\ ctrl[x.from] # x.to
  BY <1>2 DEF Fresh
<1>4. ctrl'[x.to] = Null
  BY <1>2, <1>3
<1>5. ctrl'[x.from] \in {ctrl[x.from], Null}
  BY <1>1, <1>2
<1> QED BY <1>1, <1>2, <1>3, <1>4, <1>5

LEMMA QuietRanks ==
  ASSUME PtrInv, Fresh, Ranked, NEW t \in Threads,
         DecrementRef(t) \/ DeleteObject(t) \/ DeleteBlock(t)
  PROVE  Fresh' /\ Ranked'
<1>1. PICK more : Quiet(t, more)
  BY DecrementQuiet, DeleteQuiet, FreeQuiet
<1>2. \A u \in Threads : \A d \in Places(u)' :
        Due(u, d)'.op = "read" => d \in Places(u) /\ Due(u, d)' = Due(u, d)
  BY <1>1, QuietPlaces DEF Writes
<1>3. \A h \in Handles : ctrl'[h] \in {ctrl[h], Null}
  <2>1. CASE DecrementRef(t) \/ DeleteBlock(t)
    BY <2>1 DEF DecrementRef, DeleteBlock
  <2>2. CASE DeleteObject(t)
    <3>1. PICK k \in Blocks : ctrl' = [ctrl EXCEPT ![k] = Null]
      BY <2>2, DeleteQuiet
    <3> QED BY <3>1, Typed DEF PtrInv, PtrTypeOK
  <2> QED BY <2>1, <2>2
<1>4. \A u \in Threads : \A d \in Places(u)' :
        Due(u, d)'.op = "read" => Due(u, d)'.from \in Handles
  BY <1>2, Typed, InstructionForms
<1>5. \A k \in Blocks : ctrl'[k] = ctrl[k] \/ ctrl'[k] = Null
  BY <1>3, Typed
<1>6. \A u \in Threads : \A d \in Places(u)' : Due(u, d)'.op = "read" =>
        ctrl'[Due(u, d)'.from] \in {ctrl[Due(u, d)'.from], Null}
  BY <1>3, <1>4
<1> QED BY <1>2, <1>5, <1>6, FreshKept, RankedKept

LEMMA AddRanks ==
  ASSUME PtrInv, Fresh, Ranked, NEW t \in Threads, IncrementRef(t)
  PROVE  Fresh' /\ Ranked'
<1>1. /\ todo[t] # <<>> /\ Head(todo[t]).op = "add" /\ Then(t, <<>>)
      /\ UNCHANGED <<ctrl, blocks, objects, using>>
  BY DEF IncrementRef, Next1
<1>2. Wrote(t)
  BY <1>1, WriteNext
<1>3. \A u \in Threads : \A d \in Places(u)' :
        Due(u, d)'.op = "read" => d \in Places(u) /\ Due(u, d)' = Due(u, d)
  BY <1>2, WrotePlaces
<1> QED BY <1>1, <1>3, FreshKept, RankedKept

LEMMA StealRanks ==
  ASSUME PtrInv, Fresh, Ranked, NEW t \in Threads, StealCtrl(t)
  PROVE  Fresh' /\ Ranked'
<1>1. PICK x : x = Head(todo[t])
  OBVIOUS
<1>2. /\ todo[t] # <<>> /\ x.op = "steal"
      /\ ctrl' = [ctrl EXCEPT ![x.to] = ctrl[x.from], ![x.from] = Null]
      /\ Then(t, <<>>) /\ UNCHANGED <<count, blocks, objects, using>>
  BY <1>1 DEF StealCtrl, Next1
<1>3. /\ Wrote(t) /\ Length(t) - 1 \in Places(t) /\ Due(t, Length(t) - 1) = x
      /\ x.to \in Locals /\ x.from \in Locals
  BY <1>1, <1>2, WriteNext, InstructionForms
<1>4. \A u \in Threads : \A d \in Places(u)' :
        Due(u, d)'.op = "read" => d \in Places(u) /\ Due(u, d)' = Due(u, d)
  BY <1>3, WrotePlaces
<1>5. \A h \in Handles : h # x.to => ctrl'[h] \in {ctrl[h], Null}
  BY <1>2, <1>3, Typed DEF PtrInv, PtrTypeOK
<1>6. ~Counted(x.to)
  BY <1>2, <1>3 DEF Counted, Writes
<1>7. \A u \in Threads : \A d \in Places(u)' : Due(u, d)'.op = "read" =>
        Due(u, d)'.from \in Handles /\ Due(u, d)'.from # x.to
  <2>1. \A u \in Threads : \A d \in Places(u) : Due(u, d).op = "read" =>
          Due(u, d).from \in Handles /\ Counted(Due(u, d).from)
    BY Typed, InstructionForms DEF PtrInv, Origins, Held
  <2> QED BY <2>1, <1>4, <1>6
<1>8. \A k \in Blocks : ctrl'[k] = ctrl[k] \/ ctrl'[k] = Null
  BY <1>3, <1>5, Typed, PtrConstants
<1>9. \A u \in Threads : \A d \in Places(u)' : Due(u, d)'.op = "read" =>
        ctrl'[Due(u, d)'.from] \in {ctrl[Due(u, d)'.from], Null}
  BY <1>5, <1>7
<1> QED BY <1>4, <1>8, <1>9, FreshKept, RankedKept

(* No other object refers to a node that has yet to read what it holds.    *)
LEMMA NobodyRefers ==
  ASSUME PtrInv, Fresh, NEW t \in Threads, NEW d \in Places(t), d + 1 = Length(t),
         Due(t, d).op = "read", NEW h \in Blocks, Due(t, d).to = h,
         NEW k \in Blocks \ {h}
  PROVE  ctrl[k] # h
<1> SUFFICES ASSUME ctrl[k] = h PROVE FALSE
  OBVIOUS
<1>0. k \in Handles /\ k # Null /\ h # Null /\ k \notin Locals
  BY Typed, PtrConstants
<1>1. \A l \in Handles : Counted(l) /\ ctrl[l] = h => l \in using[t] /\ l \in Locals
  BY Typed DEF PtrInv, Targets, Writes
<1>2. PICK u \in Threads : \E e \in Places(u) : Writes(u, e) /\ Due(u, e).to = k
  BY <1>0, <1>1 DEF Counted
<1>3. PICK e \in Places(u) : Writes(u, e) /\ Due(u, e).to = k
  BY <1>2
<1>4. \A b \in Places(u) : Due(u, b).op = "read" => Due(u, b).to # k
  BY <1>0 DEF Fresh
<1>5. Due(u, e).op # "steal"
  BY <1>0, <1>3, Typed, InstructionForms
<1>6. Due(u, e).op = "add"
  BY <1>3, <1>4, <1>5 DEF Writes
<1>7. e + 1 = Length(u)
  <2>1. e + 1 < Length(u) => e + 1 \in Places(u) /\ e + 1 - 1 = e
    BY Typed
  <2>2. ASSUME e + 1 < Length(u) PROVE FALSE
    <3>1. Due(u, e + 1).op = "read"
      BY <1>6, <2>2 DEF PtrInv, InTurn
    <3>2. Due(u, e) = Add(Due(u, e + 1).to)
      <4>1. PICK b \in Places(u) : b = e + 1
        BY <2>1, <2>2
      <4>2. b - 1 = e
        BY <4>1, Typed
      <4>3. Due(u, b - 1) = Add(Due(u, b).to)
        BY <3>1, <4>1 DEF PtrInv, InTurn
      <4> QED BY <4>1, <4>2, <4>3
    <3>3. Due(u, e + 1).to = k
      BY <3>2, <1>3, Fields
    <3> QED BY <3>1, <3>3, <2>1, <2>2, <1>4
  <2> QED BY <2>2, Typed
<1>8. PICK i \in Handles : Held(u, i) /\ ctrl[i] = h
  BY <1>0, <1>3, <1>6, <1>7 DEF PtrInv, Origins
<1>9. i \in using[t] /\ i \in Locals /\ i \notin Blocks /\ i # Null
  BY <1>0, <1>1, <1>8, Typed, PtrConstants DEF Held
<1>10. i \in using[u]
  <2>1. \A l \in using[u] : ctrl[l] \in Blocks \cup {Null}
    BY Typed DEF PtrInv, PtrTypeOK
  <2> QED BY <2>1, <1>8, <1>9 DEF Held
<1>11. u = t
  BY <1>9, <1>10, Typed DEF PtrInv, NamesApart
<1>12. e = d
  BY <1>7, <1>11, Typed
<1> QED BY <1>6, <1>11, <1>12

LEMMA ReadRanks ==
  ASSUME PtrInv, Fresh, Ranked, NEW t \in Threads, ReadCtrl(t)
  PROVE  Fresh' /\ Ranked'
<1>1. PICK x : x = Head(todo[t])
  OBVIOUS
<1>2. PICK n \in Nat : n = Length(t)
  BY Typed
<1>3. /\ todo[t] # <<>> /\ x.op = "read" /\ ctrl' = [ctrl EXCEPT ![x.to] = ctrl[x.from]]
      /\ Then(t, <<>>) /\ UNCHANGED <<count, blocks, objects, using>>
  BY <1>1 DEF ReadCtrl, Next1
<1>4. /\ Wrote(t) /\ n - 1 \in Places(t) /\ n > 0 /\ Due(t, n - 1) = x
      /\ x.to \in Handles /\ x.from \in Handles
  BY <1>1, <1>2, <1>3, WriteNext, InstructionForms
<1>5. PICK h \in Handles, g \in Handles : h = x.to /\ g = x.from
  BY <1>4
<1>6. /\ n - 1 > 0 /\ Due(t, n - 1 - 1) = Add(h) /\ Writes(t, n - 1)
      /\ Held(t, g)
  BY <1>3, <1>4, <1>5 DEF PtrInv, InTurn, Origins, Writes
<1>7. ~Counted(h)
  BY <1>4, <1>5, <1>6 DEF Counted
<1>8. ctrl'[h] = ctrl[g] /\ \A i \in Handles : i # h => ctrl'[i] = ctrl[i]
  BY <1>3, <1>5 DEF PtrInv, PtrTypeOK
<1>9. ASSUME NEW u \in Threads, NEW d \in Places(u)', Due(u, d)'.op = "read"
      PROVE  /\ d \in Places(u) /\ Due(u, d)' = Due(u, d) /\ Writes(u, d)
             /\ u # t
  <2>1. /\ d \in Places(u) /\ Due(u, d)' = Due(u, d) /\ Writes(u, d)
        /\ u = t => d < n - 1
    BY <1>2, <1>4, <1>9, WrotePlaces DEF Writes
  <2>2. ASSUME u = t PROVE FALSE
    <3>1. n - 1 - 1 \in Places(t) /\ Due(t, n - 1 - 1).op = "add"
      BY <1>2, <1>6, Typed, Fields
    <3>2. \A e \in 0 .. n - 1 - 1 - 1 : ~Writes(t, e)
      BY <3>1 DEF PtrInv, InTurn
    <3>3. d = n - 1 - 1 \/ d \in 0 .. n - 1 - 1 - 1
      BY <2>1, <2>2, <1>2, Typed
    <3> QED BY <3>1, <3>2, <3>3, <2>1, <2>2, <1>9
  <2> QED BY <2>1, <2>2
<1>10. Fresh'
  <2> SUFFICES ASSUME NEW u \in Threads, NEW d \in Places(u)',
                      Due(u, d)'.op = "read", Due(u, d)'.to \in Blocks
               PROVE  ctrl'[Due(u, d)'.to] = Null /\ ctrl'[Due(u, d)'.from] # Due(u, d)'.to
    BY DEF Fresh
  <2>1. d \in Places(u) /\ Due(u, d)' = Due(u, d) /\ Writes(u, d) /\ u # t
    BY <1>9
  <2>2. Due(u, d).to # h
    BY <2>1, <1>4, <1>5, <1>6, WritersApart
  <2>3. Due(u, d).from \in Handles /\ Due(u, d).to \in Handles
    BY <2>1, Typed, InstructionForms
  <2>4. Counted(Due(u, d).from)
    BY <2>1 DEF PtrInv, Origins, Held
  <2>5. Due(u, d).from # h
    BY <2>4, <1>7
  <2> QED BY <2>1, <2>2, <2>3, <2>5, <1>8 DEF Fresh
<1>11. Ranked'
  <2>1. CASE h \notin Blocks \/ ctrl[g] = Null
    <3>1. \A k \in Blocks : ctrl'[k] = ctrl[k] \/ ctrl'[k] = Null
      BY <2>1, <1>8, Typed
    <3> QED BY <3>1, RankedKept
  <2>2. CASE h \in Blocks /\ ctrl[g] # Null
    <3>1. PICK v \in Blocks : v = ctrl[g]
      BY <2>2 DEF PtrInv, PtrTypeOK
    <3>2. v # h
      BY <3>1, <2>2, <1>3, <1>4, <1>5 DEF Fresh
    <3>3. \A k \in Blocks : k # h => ctrl[k] # h
      <4>1. n - 1 + 1 = Length(t)
        BY <1>2
      <4> QED BY <4>1, <2>2, <1>3, <1>4, <1>5, NobodyRefers
    <3>4. PICK rank \in [Blocks -> Nat], top \in Nat :
            \A k \in Blocks : rank[k] <= top /\ (ctrl[k] # Null => rank[ctrl[k]] < rank[k])
      BY DEF Ranked
    <3>5. PICK rank2 \in [Blocks -> Nat] :
            rank2[h] = rank[v] + 1 /\ \A k \in Blocks : k # h => rank2[k] = rank[k]
      <4>1. rank[v] + 1 \in Nat
        OBVIOUS
      <4>2. [rank EXCEPT ![h] = rank[v] + 1] \in [Blocks -> Nat]
        BY <4>1
      <4> QED BY <4>2, <2>2
    <3>6. \A k \in Blocks : rank2[k] <= top + 1
      BY <3>4, <3>5
    <3>7. ASSUME NEW k \in Blocks, ctrl'[k] # Null PROVE rank2[ctrl'[k]] < rank2[k]
      <4>1. CASE k = h
        <5>1. ctrl'[k] = v
          BY <4>1, <3>1, <1>8
        <5> QED BY <5>1, <4>1, <3>2, <3>5
      <4>2. CASE k # h
        <5>1. ctrl'[k] = ctrl[k] /\ ctrl[k] \in Blocks /\ ctrl[k] # h
          BY <4>2, <3>3, <3>7, <1>8, Typed DEF PtrInv, PtrTypeOK
        <5>2. rank[ctrl[k]] < rank[k]
          BY <5>1, <3>4, <3>7
        <5> QED BY <5>1, <5>2, <4>2, <3>5
      <4> QED BY <4>1, <4>2
    <3>8. top + 1 \in Nat
      OBVIOUS
    <3> QED BY <3>6, <3>7, <3>8 DEF Ranked
  <2> QED BY <2>1, <2>2
<1> QED BY <1>10, <1>11

(* What a call reads into a node: only into one that it makes.             *)
NewReads(named, list) ==
  \A i \in 1 .. Len(list) : list[i].op = "read" =>
    \/ list[i].to \in Locals
    \/ /\ list[i].to \in Blocks \ (blocks \cup objects)
       /\ list[i].from \in named /\ ctrl'[list[i].from] = ctrl[list[i].from]

LEMMA NewReadsJoined ==
  ASSUME NEW named, NEW y \in Seq(Instructions), NEW s \in Seq(Instructions),
         NewReads(named, y), NewReads(named, s)
  PROVE  y \o s \in Seq(Instructions) /\ NewReads(named, y \o s)
<1>1. PICK list : list = y \o s
  OBVIOUS
<1>2. /\ list \in Seq(Instructions) /\ Len(list) = Len(y) + Len(s)
      /\ \A i \in 1 .. Len(y) : list[i] = y[i]
      /\ \A i \in 1 .. Len(s) : list[Len(y) + i] = s[i]
  BY <1>1, Joined, Zenon
<1>3. ASSUME NEW i \in 1 .. Len(list)
      PROVE  (\E j \in 1 .. Len(y) : list[i] = y[j]) \/ (\E j \in 1 .. Len(s) : list[i] = s[j])
  <2>1. Len(y) \in Nat /\ Len(s) \in Nat
    OBVIOUS
  <2>2. CASE i <= Len(y)
    <3>1. i \in 1 .. Len(y)
      BY <2>1, <2>2, <1>2
    <3> QED BY <3>1, <1>2
  <2>3. CASE i > Len(y)
    <3>1. PICK j \in 1 .. Len(s) : Len(y) + j = i
      <4>1. i - Len(y) \in 1 .. Len(s) /\ Len(y) + (i - Len(y)) = i
        BY <2>1, <2>3, <1>2
      <4> QED BY <4>1
    <3> QED BY <3>1, <1>2
  <2>4. i <= Len(y) \/ i > Len(y)
    BY <2>1, <1>2
  <2> QED BY <2>2, <2>3, <2>4
<1>4. NewReads(named, list)
  BY <1>3 DEF NewReads
<1> QED BY <1>1, <1>2, <1>4

LEMMA LetGoReads ==
  ASSUME PtrInv, NEW h \in Handles, NEW named
  PROVE  LetGo(h) \in Seq(Instructions) /\ NewReads(named, LetGo(h))
<1>1. PICK c \in Blocks \cup {Null} : c = ctrl[h]
  BY DEF PtrInv, PtrTypeOK
<1>2. c # Null => Sub(c) \in Instructions /\ Sub(c).op = "sub"
  BY InstructionForms, Fields
<1>3. PICK y \in Seq(Instructions) :
        /\ y = LetGo(h) /\ (c = Null => Len(y) = 0)
        /\ c # Null => Len(y) = 1 /\ y[1] = Sub(c)
  BY <1>1, <1>2, LetGoList
<1>4. \A i \in 1 .. Len(y) : y[i].op # "read"
  BY <1>2, <1>3
<1> QED BY <1>3, <1>4 DEF NewReads

LEMMA OpeningRanks ==
  ASSUME PtrInv, Fresh, Ranked, NEW t \in Threads, NEW named \in SUBSET Locals,
         NEW list \in Seq(Instructions), Enter(t, named, list), NewReads(named, list),
         \A i \in Handles \ named : ctrl'[i] = ctrl[i]
  PROVE  Fresh' /\ Ranked'
<1>1. Begins(t, named, list)
  BY EnterBegins DEF PtrInv
<1>2. \A k \in Blocks : k \in Handles \ named
  BY Typed, PtrConstants
<1>3. Ranked'
  BY <1>2, RankedKept
<1>4. Fresh'
  <2> SUFFICES ASSUME NEW u \in Threads, NEW d \in Places(u)',
                      Due(u, d)'.op = "read", Due(u, d)'.to \in Blocks
               PROVE  ctrl'[Due(u, d)'.to] = Null /\ ctrl'[Due(u, d)'.from] # Due(u, d)'.to
    BY DEF Fresh
  <2>0. PICK x : x = Due(u, d)' /\ x.op = "read" /\ x.to \in Blocks
    OBVIOUS
  <2>1. CASE u = t
    <3>1. Places(t)' = 0 .. Len(list) - 1 /\ Len(list) \in Nat
      BY <1>1 DEF Begins, Places, Length
    <3>2. Due(t, d)' = list[Len(list) - d] /\ Len(list) - d \in 1 .. Len(list)
      <4>1. d \in Places(t)'
        BY <2>1
      <4>2. d \in 0 .. Len(list) - 1
        BY <3>1, <4>1
      <4>3. Len(list) - d \in 1 .. Len(list)
        BY <3>1, <4>2
      <4> QED BY <4>2, <4>3, <1>1 DEF Begins
    <3>3. x.to \notin Locals
      BY <2>0, PtrConstants
    <3>4. PICK k \in Blocks \ (blocks \cup objects), l \in named :
            k = x.to /\ l = x.from /\ ctrl'[l] = ctrl[l]
      BY <2>0, <2>1, <3>2, <3>3 DEF NewReads
    <3>5. Counted(l) /\ l \in Handles
      BY <1>1, NamedIsFree, Typed
    <3>6. ctrl[k] = Null /\ ctrl[l] # k
      BY <3>5, NewIsUnknown
    <3> QED BY <2>0, <3>4, <3>6, <1>2
  <2>2. CASE u # t
    <3>1. /\ d \in Places(u) /\ Due(u, d) = x /\ Length(u) > 0
          /\ using[u] \cap named = {}
      BY <2>0, <2>2, <1>1, Typed DEF Begins
    <3>2. Held(u, x.from) /\ x.from \in Handles
      BY <2>0, <3>1, Typed, InstructionForms DEF PtrInv, Origins
    <3>3. x.from \notin named
      <4>1. \A l \in using[u] : ctrl[l] \in Blocks \cup {Null}
        BY Typed DEF PtrInv, PtrTypeOK
      <4>2. \A j \in named : j \notin Blocks /\ j # Null
        BY Typed, PtrConstants
      <4> QED BY <3>1, <3>2, <4>1, <4>2 DEF Held
    <3>4. ctrl'[x.from] = ctrl[x.from] /\ ctrl'[x.to] = ctrl[x.to]
      BY <2>0, <3>2, <3>3, <1>2
    <3> QED BY <2>0, <3>1, <3>4 DEF Fresh
  <2> QED BY <2>1, <2>2
<1> QED BY <1>3, <1>4

LEMMA CallRanks ==
  ASSUME PtrInv, Fresh, Ranked, NEW t \in Threads, NEW h \in Locals, PtrCall(t, h)
  PROVE  Fresh' /\ Ranked'
<1>1. /\ h \in Handles /\ \A l \in Locals : l \in Handles /\ \A g \in Sources(l) : g \in Handles
      /\ \A k \in Blocks : k \in Handles
  BY Typed DEF Sources, PtrInv, PtrTypeOK
<1>2. LetGo(h) \in Seq(Instructions) /\ \A named : NewReads(named, LetGo(h))
  BY <1>1, LetGoReads
<1>3. ASSUME NEW named, NEW i \in Handles, NEW g \in Handles, NEW r, r = Read(i, g),
             \/ i \in Locals
             \/ i \in Blocks \ (blocks \cup objects) /\ g \in named /\ ctrl'[g] = ctrl[g]
      PROVE  <<r, Add(i)>> \in Seq(Instructions) /\ NewReads(named, <<r, Add(i)>>)
  <2>1. PICK a : a = Add(i)
    OBVIOUS
  <2>2. r \in Instructions /\ a \in Instructions /\ r.to = i /\ r.from = g /\ a.op = "add"
    BY <1>3, <2>1, InstructionForms, Fields
  <2>3. PICK s : s = <<r, a>>
    OBVIOUS
  <2>4. s \in Seq(Instructions) /\ Len(s) = 2 /\ s[1] = r /\ s[2] = a
    BY <2>2, <2>3, Pairs
  <2>5. NewReads(named, s)
    BY <1>3, <2>2, <2>4 DEF NewReads
  <2> QED BY <2>1, <2>3, <2>4, <2>5
<1>4. ASSUME NEW l \in Locals, NEW named
      PROVE  <<Steal(h, l)>> \in Seq(Instructions) /\ NewReads(named, <<Steal(h, l)>>)
  <2>1. PICK x \in Instructions : x = Steal(h, l) /\ x.op = "steal"
    BY InstructionForms, Fields
  <2>2. PICK s : s = <<x>>
    OBVIOUS
  <2>3. s \in Seq(Instructions) /\ Len(s) = 1 /\ s[1] = x
    BY <2>2, Pairs
  <2>4. NewReads(named, s)
    BY <2>1, <2>3 DEF NewReads
  <2> QED BY <2>1, <2>2, <2>3, <2>4
<1>5. CASE MakeShared(t, h) \/ ResetToNew(t, h)
  <2>1. PICK l \in Locals \ {h}, k \in Blocks \ (blocks \cup objects) :
          /\ \/ Enter(t, {h, l}, <<Read(k, l), Add(k)>>)
             \/ Enter(t, {h, l}, <<Read(k, l), Add(k)>> \o LetGo(h))
          /\ ctrl' = [ctrl EXCEPT ![h] = k]
    BY <1>5 DEF MakeShared, ResetToNew
  <2>2. PICK named \in SUBSET Locals : named = {h, l} /\ l \in named
    OBVIOUS
  <2>3. \A i \in Handles : i # h => ctrl'[i] = ctrl[i]
    BY <2>1 DEF PtrInv, PtrTypeOK
  <2>4. PICK r : r = Read(k, l)
    OBVIOUS
  <2>5. PICK s : s = <<r, Add(k)>>
    OBVIOUS
  <2>6. s \in Seq(Instructions) /\ NewReads(named, s)
    BY <2>2, <2>3, <2>4, <2>5, <1>1, <1>3
  <2>7. s \o LetGo(h) \in Seq(Instructions) /\ NewReads(named, s \o LetGo(h))
    BY <2>6, <1>2, NewReadsJoined
  <2>8. PICK list \in Seq(Instructions) : Enter(t, named, list) /\ NewReads(named, list)
    BY <2>1, <2>2, <2>4, <2>5, <2>6, <2>7
  <2>9. \A i \in Handles \ named : ctrl'[i] = ctrl[i]
    BY <2>2, <2>3
  <2> QED BY <2>8, <2>9, OpeningRanks
<1>6. CASE CopyConstruct(t, h) \/ CopyAssign(t, h)
  <2>1. PICK l \in Locals, g \in Handles :
          /\ \/ Enter(t, {h, l}, <<Read(h, g), Add(h)>>)
             \/ Enter(t, {h, l}, LetGo(h) \o <<Read(h, g), Add(h)>>)
          /\ ctrl' = ctrl
    BY <1>1, <1>6 DEF CopyConstruct, CopyAssign
  <2>2. PICK named \in SUBSET Locals : named = {h, l}
    OBVIOUS
  <2>3. PICK s : s = <<Read(h, g), Add(h)>>
    OBVIOUS
  <2>4. s \in Seq(Instructions) /\ NewReads(named, s)
    BY <2>3, <1>1, <1>3
  <2>5. LetGo(h) \o s \in Seq(Instructions) /\ NewReads(named, LetGo(h) \o s)
    BY <2>4, <1>2, NewReadsJoined
  <2>6. PICK list \in Seq(Instructions) : Enter(t, named, list) /\ NewReads(named, list)
    BY <2>1, <2>2, <2>3, <2>4, <2>5
  <2> QED BY <2>1, <2>6, OpeningRanks
<1>7. CASE MoveConstruct(t, h) \/ MoveAssign(t, h)
  <2>1. PICK l \in Locals :
          /\ \/ Enter(t, {h, l}, <<Steal(h, l)>>)
             \/ Enter(t, {h, l}, LetGo(h) \o <<Steal(h, l)>>)
          /\ ctrl' = ctrl
    BY <1>7 DEF MoveConstruct, MoveAssign
  <2>2. PICK named \in SUBSET Locals : named = {h, l}
    OBVIOUS
  <2>3. PICK s : s = <<Steal(h, l)>>
    OBVIOUS
  <2>4. s \in Seq(Instructions) /\ NewReads(named, s)
    BY <2>3, <1>4
  <2>5. LetGo(h) \o s \in Seq(Instructions) /\ NewReads(named, LetGo(h) \o s)
    BY <2>4, <1>2, NewReadsJoined
  <2>6. PICK list \in Seq(Instructions) : Enter(t, named, list) /\ NewReads(named, list)
    BY <2>1, <2>2, <2>3, <2>4, <2>5
  <2> QED BY <2>1, <2>6, OpeningRanks
<1>8. CASE Destruct(t, h)
  <2>1. PICK named \in SUBSET Locals : named = {h}
    OBVIOUS
  <2>2. Enter(t, named, LetGo(h)) /\ \A i \in Handles \ named : ctrl'[i] = ctrl[i]
    BY <1>8, <2>1 DEF Destruct, PtrInv, PtrTypeOK
  <2> QED BY <2>2, <1>2, OpeningRanks
<1>9. CASE Swap(t, h)
  <2>1. PICK l \in Locals :
          /\ Enter(t, {h, l}, <<>>)
          /\ ctrl' = [ctrl EXCEPT ![h] = ctrl[l], ![l] = ctrl[h]]
    BY <1>9 DEF Swap
  <2>2. PICK named \in SUBSET Locals : named = {h, l}
    OBVIOUS
  <2>3. PICK list \in Seq(Instructions) : list = <<>> /\ Len(list) = 0
    BY Pairs
  <2>4. NewReads(named, list)
    BY <2>3 DEF NewReads
  <2>5. \A i \in Handles \ named : ctrl'[i] = ctrl[i]
    BY <2>1, <2>2 DEF PtrInv, PtrTypeOK
  <2> QED BY <2>1, <2>2, <2>3, <2>4, <2>5, OpeningRanks
<1>10. CASE MakeFails(t, h)
  <2>1. PICK k \in Blocks \ (blocks \cup objects) :
          Enter(t, {h}, <<Read(k, h), Add(k), Delete(k)>>) /\ ctrl' = ctrl
    BY <1>10 DEF MakeFails
  <2>2. PICK named \in SUBSET Locals : named = {h} /\ h \in named
    OBVIOUS
  <2>3. PICK r, a, x : r = Read(k, h) /\ a = Add(k) /\ x = Delete(k)
    OBVIOUS
  <2>4. /\ r \in Instructions /\ a \in Instructions /\ x \in Instructions
        /\ r.to = k /\ r.from = h /\ a.op = "add" /\ x.op = "delete"
    BY <2>3, <1>1, InstructionForms, Fields
  <2>5. PICK list : list = <<r, a, x>>
    OBVIOUS
  <2>6. list \in Seq(Instructions) /\ Len(list) = 3 /\ list[1] = r /\ list[2] = a /\ list[3] = x
    BY <2>4, <2>5
  <2>7. NewReads(named, list)
    BY <2>1, <2>2, <2>4, <2>6 DEF NewReads
  <2> QED BY <2>1, <2>2, <2>3, <2>5, <2>6, <2>7, OpeningRanks
<1> QED BY <1>5, <1>6, <1>7, <1>8, <1>9, <1>10 DEF PtrCall

LEMMA RanksHold ==
  ASSUME PtrInv, Fresh, Ranked, [PtrNext]_ptrVars
  PROVE  Fresh' /\ Ranked'
<1>1. CASE PtrNext
  <2>1. PICK t \in Threads : PtrStep(t) \/ \E h \in Locals : PtrCall(t, h)
    BY <1>1 DEF PtrNext
  <2>2. CASE PtrStep(t)
    BY <2>2, QuietRanks, ReadRanks, StealRanks, AddRanks DEF PtrStep
  <2> QED BY <2>1, <2>2, CallRanks
<1>2. CASE UNCHANGED ptrVars
  <2>1. \A t : Places(t)' = Places(t) /\ \A d : Due(t, d)' = Due(t, d)
    BY <1>2 DEF ptrVars, Places, Due
  <2> QED BY <1>2, <2>1 DEF ptrVars, Fresh, Ranked
<1> QED BY <1>1, <1>2

(* An object to which nothing of higher rank refers is held by a variable. *)
LEMMA NothingLeft ==
  ASSUME PtrInv, Ranked, \A l \in Locals : ctrl[l] = Null, \A t \in Threads : todo[t] = <<>>
  PROVE  blocks = {} /\ objects = {}
<1>1. \A t \in Threads : Places(t) = {}
  BY DEF Places
<1>2. (\A h : Counted(h)) /\ (\A x : ~IsDue(x)) /\ (\A k : Subs(k) = {})
  BY <1>1 DEF Counted, IsDue, Subs
<1>3. objects \subseteq blocks /\ blocks \subseteq Blocks
  BY <1>2 DEF PtrInv, PtrTypeOK, Living
<1>4. ASSUME NEW k \in blocks PROVE \E b \in blocks : ctrl[b] = k
  <2>1. count[k] # 0
    BY <1>2 DEF PtrInv, Living
  <2>2. Subs(k) = {} /\ Cardinality(Subs(k)) = 0
    BY <1>2, FS_EmptySet
  <2>3. Holders(k) # {}
    <3>1. count[k] = Cardinality(Holders(k)) + 0
      BY <2>2 DEF PtrInv, Counts
    <3>2. Holders(k) = {} => Cardinality(Holders(k)) = 0
      BY FS_EmptySet
    <3> QED BY <2>1, <3>1, <3>2
  <2>4. PICK h \in Handles : ctrl[h] = k
    BY <2>3 DEF Holders
  <2>5. k # Null
    BY <1>3, Typed
  <2>6. h \in Blocks
    BY <2>4, <2>5 DEF Handles
  <2>7. h \in objects
    BY <2>4, <2>5, <2>6 DEF PtrInv, Living
  <2> QED BY <2>4, <2>7, <1>3
<1>5. blocks = {}
  <2> SUFFICES ASSUME blocks # {} PROVE FALSE
    OBVIOUS
  <2>1. PICK rank \in [Blocks -> Nat], top \in Nat :
          \A k \in Blocks : rank[k] <= top /\ (ctrl[k] # Null => rank[ctrl[k]] < rank[k])
    BY DEF Ranked
  <2> DEFINE R == {ss \in Nat \X Nat : ss[1] < ss[2]}
             T == {top - rank[k] : k \in blocks}
  <2>2. \A k \in blocks : top - rank[k] \in Nat /\ rank[k] \in Nat
    BY <2>1, <1>3
  <2>3. T \subseteq Nat /\ T # {}
    BY <2>2
  <2>4. IsWellFoundedOn(R, Nat)
    BY NatLessThanWellFounded DEF OpToRel
  <2> HIDE DEF R, T
  <2>5. PICK x \in T : \A y \in T : ~(<<y, x>> \in R)
    BY <2>3, <2>4, WFMin
  <2>6. PICK k \in blocks : x = top - rank[k]
    BY DEF T
  <2>7. PICK b \in blocks : ctrl[b] = k
    BY <1>4
  <2>8. rank[k] < rank[b]
    BY <2>1, <2>7, <1>3, Typed
  <2>9. PICK y \in T : y = top - rank[b]
    BY DEF T
  <2>10. x \in Nat /\ y \in Nat /\ y < x
    BY <2>2, <2>3, <2>6, <2>8, <2>9
  <2>11. <<y, x>> \in R
    BY <2>10 DEF R
  <2> QED BY <2>5, <2>11
<1> QED BY <1>3, <1>5

(* When the last variable has let go, every object and every control block *)
(* has been deleted, whoever of several threads let go of a list last.     *)
THEOREM EverythingGetsDeleted ==
  ASSUME ~AssignsFromInside
  PROVE  PtrSpec => []EverythingIsDeleted
<1>1. PtrInit => PtrInv
  BY InitHolds
<1>2. PtrInit => Fresh /\ Ranked
  <2> SUFFICES ASSUME PtrInit PROVE Fresh /\ Ranked
    OBVIOUS
  <2>1. Fresh
    BY DEF PtrInit, Fresh, Places
  <2>2. [k \in Blocks |-> 0] \in [Blocks -> Nat] /\ 0 \in Nat
    OBVIOUS
  <2>3. \A k \in Blocks : ctrl[k] = Null
    BY DEF PtrInit, Handles
  <2>4. PICK rank \in [Blocks -> Nat] : \A k \in Blocks : rank[k] = 0
    BY <2>2
  <2>5. \A k \in Blocks : rank[k] <= 0 /\ (ctrl[k] # Null => rank[ctrl[k]] < rank[k])
    BY <2>3, <2>4
  <2>6. Ranked
    BY <2>2, <2>5, Zenon DEF Ranked
  <2> QED BY <2>1, <2>6
<1>3. PtrInv /\ Fresh /\ Ranked /\ [PtrNext]_ptrVars => (PtrInv /\ Fresh /\ Ranked)'
  BY InvHolds, RanksHold
<1>4. PtrInv /\ Ranked => EverythingIsDeleted
  BY NothingLeft DEF EverythingIsDeleted
<1> QED BY <1>1, <1>2, <1>3, <1>4, PTL DEF PtrSpec
=============================================================================
