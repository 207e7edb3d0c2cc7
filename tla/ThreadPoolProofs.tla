-------------------------- MODULE ThreadPoolProofs --------------------------
(***************************************************************************)
(* Proofs about ThreadPool for any number of workers, clients and calls:   *)
(* type correctness, that no accepted task is lost or run twice, and that  *)
(* no wakeup is lost.                                                      *)
(***************************************************************************)
EXTENDS ThreadPool, FiniteSetTheorems, TLAPS

(* Threads whose call of enqueue has been counted and not yet decided.     *)
Pending == {t \in Callers : pc[t] \in {"enqueue", "check", "push"}}

(* No call is accepted that was not made: the bound on calls also bounds   *)
(* the task numbers.                                                       *)
CallsBoundTasks == accepted + Cardinality(Pending) <= enqueues

TypeInv == TypeOK /\ CallsBoundTasks

-----------------------------------------------------------------------------
(* A step that moves no thread into or out of enqueue keeps Pending.       *)
LEMMA PendingFinite == IsFiniteSet(Pending) /\ Cardinality(Pending) \in Nat
<1>1. IsFiniteSet(Callers) BY PoolConstants
<1>2. Pending \subseteq Callers BY DEF Pending
<1> QED BY <1>1, <1>2, FS_Subset, FS_CardinalityType

LEMMA InitTypeInv == Init => TypeInv
<1> SUFFICES ASSUME Init PROVE TypeInv
  OBVIOUS
<1>1. TypeOK
  <2>1. pc \in [Callers -> Labels]
    BY DEF Init, Callers, Labels
  <2>2. \A w \in Workers : pc[w] = "lock" /\ held[w] = NoTask
    BY DEF Init, Callers
  <2>3. \A c \in Clients : pc[c] = "idle"
    BY PoolConstants DEF Init, Callers
  <2>4. runs \in [TaskIds -> Nat] /\ held \in [Workers -> TaskIds \cup {NoTask}]
    BY DEF Init
  <2>5. accepted \in 0 .. MaxCalls /\ enqueues \in 0 .. MaxCalls
          /\ spurious \in 0 .. MaxSpurious
    BY PoolConstants DEF Init
  <2>6. tasks \in Seq(TaskIds)
    BY DEF Init
  <2>7. \A w \in Workers : /\ held[w] # NoTask <=> pc[w] \in InTask
                           /\ pc[w] \in WorkerLabels
    BY <2>2 DEF WorkerLabels, Labels, InTask
  <2>8. \A c \in Clients : pc[c] \in ClientLabels
    BY <2>3 DEF ClientLabels
  <2> QED
    BY <2>1, <2>4, <2>5, <2>6, <2>7, <2>8 DEF Init, TypeOK
<1>2. Pending = {}
  BY PoolConstants DEF Init, Pending, Callers
<1>3. CallsBoundTasks
  BY <1>2, FS_EmptySet DEF Init, CallsBoundTasks
<1> QED BY <1>1, <1>3 DEF TypeInv

LEMMA NextTypeInv == TypeInv /\ [Next]_vars => TypeInv'
<1> SUFFICES ASSUME TypeOK, CallsBoundTasks, [Next]_vars PROVE TypeInv'
  BY DEF TypeInv
<1> USE PoolConstants, PendingFinite
<1>1. ASSUME NEW w \in Workers, WorkerLocks(w) PROVE TypeInv'
  <2>1. TypeOK'
    BY <1>1 DEF WorkerLocks, Goto, TypeOK, Callers, Labels, WorkerLabels,
       ClientLabels, InTask
  <2>2. Pending' = Pending
    BY <1>1 DEF WorkerLocks, Goto, TypeOK, Pending, Callers
  <2> QED BY <1>1, <2>1, <2>2 DEF WorkerLocks, CallsBoundTasks, TypeInv
<1>2. ASSUME NEW w \in Workers, TestPredicate(w) PROVE TypeInv'
  <2>1. TypeOK'
    BY <1>2 DEF TestPredicate, Goto, TypeOK, Callers, Labels, WorkerLabels,
       ClientLabels, InTask
  <2>2. Pending' = Pending
    BY <1>2 DEF TestPredicate, Goto, TypeOK, Pending, Callers
  <2> QED BY <1>2, <2>1, <2>2 DEF TestPredicate, CallsBoundTasks, TypeInv
<1>3. ASSUME NEW w \in Workers, Sleep(w) PROVE TypeInv'
  <2>1. TypeOK'
    BY <1>3 DEF Sleep, Goto, TypeOK, Callers, Labels, WorkerLabels,
       ClientLabels, InTask
  <2>2. Pending' = Pending
    BY <1>3 DEF Sleep, Goto, TypeOK, Pending, Callers
  <2> QED BY <1>3, <2>1, <2>2 DEF Sleep, CallsBoundTasks, TypeInv
<1>4. ASSUME NEW w \in Workers, TakeOrExit(w) PROVE TypeInv'
  <2>1. TypeOK'
    <3>1. CASE tasks = <<>>
      BY <1>4, <3>1 DEF TakeOrExit, Goto, TypeOK, Callers, Labels,
         WorkerLabels, ClientLabels, InTask
    <3>2. CASE /\ tasks # <<>>
               /\ held' = [held EXCEPT ![w] = Head(tasks)]
               /\ tasks' = Tail(tasks)
      <4>1. Head(tasks) \in TaskIds /\ Head(tasks) # NoTask
        BY <3>2 DEF TypeOK, TaskIds, NoTask
      <4>2. tasks' \in Seq(TaskIds)
        BY <3>2 DEF TypeOK
      <4>3. pc' = [pc EXCEPT ![w] = "run"]
        BY <1>4, <3>2 DEF TakeOrExit, Goto
      <4>4. held' \in [Workers -> TaskIds \cup {NoTask}]
              /\ \A v \in Workers : held'[v] # NoTask <=> pc'[v] \in InTask
        BY <3>2, <4>1, <4>3 DEF TypeOK, Callers, InTask
      <4>5. /\ pc' \in [Callers -> Labels]
            /\ \A v \in Workers : pc'[v] \in WorkerLabels
            /\ \A c \in Clients : pc'[c] \in ClientLabels
        BY <4>3 DEF TypeOK, Callers, Labels, WorkerLabels, ClientLabels
      <4> QED BY <1>4, <4>2, <4>4, <4>5 DEF TakeOrExit, TypeOK
    <3> QED BY <1>4, <3>1, <3>2 DEF TakeOrExit
  <2>2. Pending' = Pending
    BY <1>4 DEF TakeOrExit, Goto, TypeOK, Pending, Callers
  <2> QED BY <1>4, <2>1, <2>2 DEF TakeOrExit, CallsBoundTasks, TypeInv
<1>5. ASSUME NEW w \in Workers, FinishTask(w) PROVE TypeInv'
  <2>1. held[w] \in TaskIds
    BY <1>5 DEF FinishTask, TypeOK, InTask
  <2>2. TypeOK'
    BY <1>5, <2>1 DEF FinishTask, Goto, TypeOK, Callers, Labels,
       WorkerLabels, ClientLabels, InTask, NoTask
  <2>3. Pending' = Pending
    BY <1>5 DEF FinishTask, Goto, TypeOK, Pending, Callers
  <2> QED BY <1>5, <2>2, <2>3 DEF FinishTask, CallsBoundTasks, TypeInv
<1>6. ASSUME NEW w \in Workers, SpuriousWakeup(w) PROVE TypeInv'
  <2>1. TypeOK'
    BY <1>6 DEF SpuriousWakeup, Goto, TypeOK, Callers, Labels, WorkerLabels,
       ClientLabels, InTask
  <2>2. Pending' = Pending
    BY <1>6 DEF SpuriousWakeup, Goto, TypeOK, Pending, Callers
  <2> QED BY <1>6, <2>1, <2>2 DEF SpuriousWakeup, CallsBoundTasks, TypeInv
<1>7. ASSUME NEW t \in Callers, CallEnqueue(t) PROVE TypeInv'
  <2>1. TypeOK'
    BY <1>7 DEF CallEnqueue, Goto, TypeOK, Callers, Labels, WorkerLabels,
       ClientLabels, InTask
  <2>2. Pending' = Pending \cup {t} /\ t \notin Pending
    BY <1>7 DEF CallEnqueue, Goto, TypeOK, Pending
  <2>3. Cardinality(Pending') = Cardinality(Pending) + 1
    BY <2>2, FS_AddElement
  <2> QED BY <1>7, <2>1, <2>3 DEF CallEnqueue, CallsBoundTasks, TypeInv, TypeOK
<1>8. ASSUME NEW t \in Callers, EnqueueLocks(t) PROVE TypeInv'
  <2>1. TypeOK'
    BY <1>8 DEF EnqueueLocks, Goto, TypeOK, Callers, Labels, WorkerLabels,
       ClientLabels, InTask
  <2>2. Pending' = Pending
    BY <1>8 DEF EnqueueLocks, Goto, TypeOK, Pending, Callers
  <2> QED BY <1>8, <2>1, <2>2 DEF EnqueueLocks, CallsBoundTasks, TypeInv
<1>9. ASSUME NEW t \in Callers, CheckStopped(t) PROVE TypeInv'
  <2>1. TypeOK'
    BY <1>9 DEF CheckStopped, Resume, Goto, TypeOK, Callers, Labels,
       WorkerLabels, ClientLabels, InTask
  <2>2. Pending' = Pending \/ (Pending' = Pending \ {t} /\ t \in Pending)
    BY <1>9 DEF CheckStopped, Resume, Goto, TypeOK, Pending
  <2>3. CASE Pending' = Pending
    BY <1>9, <2>1, <2>3 DEF CheckStopped, CallsBoundTasks, TypeInv
  <2>4. CASE Pending' = Pending \ {t} /\ t \in Pending
    <3>1. Cardinality(Pending') = Cardinality(Pending) - 1
      BY <2>4, FS_RemoveElement
    <3> QED
      BY <1>9, <2>1, <3>1 DEF CheckStopped, CallsBoundTasks, TypeInv, TypeOK
  <2> QED BY <2>2, <2>3, <2>4
<1>10. ASSUME NEW t \in Callers, Push(t) PROVE TypeInv'
  <2>1. Pending' = Pending \ {t} /\ t \in Pending
    BY <1>10 DEF Push, Goto, TypeOK, Pending
  <2>2. Cardinality(Pending') = Cardinality(Pending) - 1
    BY <2>1, FS_RemoveElement
  <2>3. Cardinality(Pending') \in Nat
    BY <2>1, FS_RemoveElement, FS_CardinalityType
  <2>4. accepted + 1 <= MaxCalls
    BY <2>2, <2>3 DEF CallsBoundTasks, TypeOK
  <2>5. tasks' \in Seq(TaskIds)
    BY <1>10, <2>4 DEF Push, TypeOK, TaskIds
  <2>6. TypeOK'
    BY <1>10, <2>4, <2>5 DEF Push, Goto, TypeOK, Callers, Labels,
       WorkerLabels, ClientLabels, InTask
  <2> QED BY <1>10, <2>2, <2>6 DEF Push, CallsBoundTasks, TypeInv, TypeOK
<1>11. ASSUME NEW t \in Callers, NotifyOne(t) PROVE TypeInv'
  <2>1. TypeOK'
    BY <1>11 DEF NotifyOne, Asleep, Goto, TypeOK, Callers, Labels,
       WorkerLabels, ClientLabels, InTask
  <2>2. Pending' = Pending
    BY <1>11 DEF NotifyOne, Asleep, Goto, TypeOK, Pending, Callers
  <2> QED BY <1>11, <2>1, <2>2 DEF NotifyOne, CallsBoundTasks, TypeInv
<1>12. ASSUME NEW c \in Clients, Leave(c) PROVE TypeInv'
  <2>1. TypeOK'
    BY <1>12 DEF Leave, Goto, TypeOK, Callers, Labels, WorkerLabels,
       ClientLabels, InTask
  <2>2. Pending' = Pending
    BY <1>12 DEF Leave, Goto, TypeOK, Pending, Callers
  <2> QED BY <1>12, <2>1, <2>2 DEF Leave, CallsBoundTasks, TypeInv
<1>13. CASE OwnerStep
  <2>1. TypeOK'
    BY <1>13 DEF OwnerStep, SetStop, NotifyAll, JoinWorkers, Asleep, TypeOK,
       Callers, Labels, WorkerLabels, ClientLabels, InTask
  <2>2. Pending' = Pending
    BY <1>13 DEF OwnerStep, SetStop, NotifyAll, JoinWorkers, Asleep, TypeOK,
       Pending, Callers
  <2> QED
    BY <1>13, <2>1, <2>2 DEF OwnerStep, SetStop, NotifyAll, JoinWorkers,
       CallsBoundTasks, TypeInv
<1>14. CASE UNCHANGED vars
  <2>1. TypeOK'
    BY <1>14 DEF vars, TypeOK
  <2>2. Pending' = Pending
    BY <1>14 DEF vars, Pending
  <2> QED BY <1>14, <2>1, <2>2 DEF vars, CallsBoundTasks, TypeInv
<1> QED
  BY <1>1, <1>2, <1>3, <1>4, <1>5, <1>6, <1>7, <1>8, <1>9, <1>10, <1>11,
     <1>12, <1>13, <1>14 DEF Next, WorkerStep, EnqueueStep

(* The state keeps its shape, for any numbers of threads and calls.        *)
THEOREM TypeCorrect == Spec => []TypeOK
<1>1. Spec => []TypeInv
  BY InitTypeInv, NextTypeInv, PTL DEF Spec
<1> QED BY <1>1, PTL DEF TypeInv
-----------------------------------------------------------------------------
(* What a worker leaving the pool relies on, and what it means for a task  *)
(* to be queued: the tasks taken so far are 1 .. Taken, the rest waits in  *)
(* order.                                                                  *)
Critical == {"test", "sleep", "take", "check", "push"}
Taken == accepted - Len(tasks)

MutualExclusion == \A t \in Callers : pc[t] \in Critical => mtx = t
InOrder ==
  /\ Len(tasks) <= accepted
  /\ \A i \in 1 .. Len(tasks) : tasks[i] = Taken + i
Queued(k) == k > Taken /\ runs[k] = 0 /\ \A w \in Workers : held[w] # k
InHand(k) == k <= Taken /\ runs[k] = 0 /\ \E w \in Workers : held[w] = k
Done(k)   == k <= Taken /\ runs[k] = 1 /\ \A w \in Workers : held[w] # k
Stages == \A k \in TaskIds : Queued(k) \/ InHand(k) \/ Done(k)
OneHand ==
  \A v, w \in Workers : held[v] = held[w] /\ held[v] # NoTask => v = w
(* A worker leaves an empty queue, and nobody can push after that.         *)
Closing ==
  \A w \in Workers : pc[w] = "exited" =>
    stop /\ tasks = <<>> /\ \A t \in Callers : pc[t] # "push"
Joined == owner = "destroyed" => \A w \in Workers : pc[w] = "exited"

RunInv == /\ TypeInv /\ MutualExclusion /\ InOrder /\ Stages /\ OneHand
          /\ Closing /\ Joined

LEMMA InitRunInv == Init => RunInv
<1> SUFFICES ASSUME Init PROVE RunInv
  OBVIOUS
<1>1. TypeInv
  BY InitTypeInv
<1>2. MutualExclusion /\ Closing /\ Joined
  BY PoolConstants DEF Init, MutualExclusion, Closing, Joined, Critical, Callers
<1>3. InOrder /\ OneHand
  BY DEF Init, InOrder, OneHand
<1>4. Stages
  BY DEF Init, Stages, Queued, Taken, TaskIds, NoTask
<1> QED BY <1>1, <1>2, <1>3, <1>4 DEF RunInv

(* Steps of a worker other than taking and finishing a task, calls and     *)
(* notifications move no task.                                             *)
LEMMA TasksUntouched ==
  ASSUME InOrder, Stages, OneHand,
         UNCHANGED <<tasks, held, accepted, runs>>
  PROVE  InOrder' /\ Stages' /\ OneHand'
BY DEF InOrder, Stages, OneHand, Queued, InHand, Done, Taken

LEMMA NextRunInv == RunInv /\ [Next]_vars => RunInv'
<1> SUFFICES ASSUME RunInv, [Next]_vars PROVE RunInv'
  OBVIOUS
<1>1. TypeInv'
  BY NextTypeInv DEF RunInv
<1> USE PoolConstants DEF RunInv
<1>2. ASSUME NEW w \in Workers, TakeOrExit(w) PROVE RunInv'
  <2>1. CASE stop /\ tasks = <<>> /\ Goto(w, "exited") /\ UNCHANGED <<tasks, held>>
    <3>1. InOrder' /\ Stages' /\ OneHand'
      BY <1>2, <2>1, TasksUntouched DEF TakeOrExit
    <3>2. MutualExclusion'
      BY <1>2, <2>1 DEF TakeOrExit, Goto, MutualExclusion, Critical, TypeInv,
         TypeOK, Callers
    <3>3. \A t \in Callers : pc[t] # "push"
      BY <1>2 DEF TakeOrExit, MutualExclusion, Critical, Callers
    <3>4. Closing' /\ Joined'
      BY <1>2, <2>1, <3>3 DEF TakeOrExit, Goto, Closing, Joined, TypeInv,
         TypeOK, Callers
    <3> QED BY <1>1, <3>1, <3>2, <3>4
  <2>2. CASE /\ tasks # <<>>
             /\ held' = [held EXCEPT ![w] = Head(tasks)]
             /\ tasks' = Tail(tasks)
             /\ Goto(w, "run")
    <3>1. /\ tasks \in Seq(TaskIds) /\ Len(tasks) \in Nat \ {0}
          /\ accepted \in Nat /\ accepted <= MaxCalls
          /\ held[w] = NoTask
      BY <1>2, <2>2 DEF TakeOrExit, TypeInv, TypeOK, InTask
    <3>2. Head(tasks) = Taken + 1 /\ Taken \in Nat /\ Taken + 1 \in TaskIds
      BY <3>1 DEF InOrder, Taken, TaskIds
    <3>3. Len(tasks') = Len(tasks) - 1 /\ Taken' = Taken + 1
      BY <1>2, <2>2, <3>1 DEF TakeOrExit, Taken
    <3>4. InOrder'
      <4>1. \A i \in 1 .. Len(tasks') : tasks'[i] = tasks[i + 1]
        BY <2>2, <3>1
      <4> QED BY <1>2, <3>1, <3>3, <4>1 DEF TakeOrExit, InOrder, Taken
    <3>5. Queued(Taken + 1)
      BY <3>2 DEF Stages, InHand, Done, Queued, Taken
    <3>6. held'[w] = Taken + 1 /\ \A v \in Workers \ {w} : held'[v] = held[v]
      BY <2>2, <3>2 DEF TypeInv, TypeOK
    <3>7. OneHand'
      BY <3>5, <3>6 DEF OneHand, Queued
    <3>8. ASSUME NEW k \in TaskIds PROVE (Queued(k) \/ InHand(k) \/ Done(k))'
      <4>1. k \in Nat /\ runs' = runs
        BY <1>2 DEF TakeOrExit, TaskIds
      <4>2. CASE k = Taken + 1
        BY <3>2, <3>3, <3>5, <3>6, <4>1, <4>2 DEF Queued, InHand
      <4>3. CASE k # Taken + 1 /\ Queued(k)
        BY <3>2, <3>3, <3>6, <4>1, <4>3 DEF Queued
      <4>4. CASE k # Taken + 1 /\ InHand(k)
        <5>1. PICK v \in Workers : held[v] = k
          BY <4>4 DEF InHand
        <5>2. v # w
          BY <3>1, <5>1 DEF TaskIds, NoTask
        <5> QED BY <3>2, <3>3, <3>6, <4>1, <4>4, <5>1, <5>2 DEF InHand
      <4>5. CASE k # Taken + 1 /\ Done(k)
        BY <3>2, <3>3, <3>6, <4>1, <4>5 DEF Done
      <4> QED BY <4>2, <4>3, <4>4, <4>5 DEF Stages
    <3>9. Stages'
      BY <3>8 DEF Stages
    <3>10. MutualExclusion'
      BY <1>2, <2>2 DEF TakeOrExit, Goto, MutualExclusion, Critical, TypeInv,
         TypeOK, Callers
    <3>11. Closing' /\ Joined'
      BY <1>2, <2>2 DEF TakeOrExit, Goto, Closing, Joined, TypeInv, TypeOK,
         Callers
    <3> QED BY <1>1, <3>4, <3>7, <3>9, <3>10, <3>11
  <2> QED BY <1>2, <2>1, <2>2 DEF TakeOrExit
<1>3. ASSUME NEW w \in Workers, FinishTask(w) PROVE RunInv'
  <2>1. /\ held[w] \in TaskIds /\ held[w] \in Nat
        /\ held'[w] = NoTask /\ NoTask \notin TaskIds
        /\ \A v \in Workers \ {w} : held'[v] = held[v]
    BY <1>3 DEF FinishTask, TypeInv, TypeOK, InTask, TaskIds, NoTask
  <2>2. InHand(held[w])
    BY <2>1 DEF Stages, Queued, InHand, Done
  <2>3. OneHand'
    BY <2>1 DEF OneHand
  <2>4. ASSUME NEW k \in TaskIds PROVE (Queued(k) \/ InHand(k) \/ Done(k))'
    <3>1. Taken' = Taken
      BY <1>3 DEF FinishTask, Taken
    <3>2. CASE k = held[w]
      <4>1. runs'[k] = 1
        BY <1>3, <2>1, <2>2, <3>2 DEF FinishTask, InHand, TypeInv, TypeOK
      <4>2. \A v \in Workers : held'[v] # k
        BY <2>1, <3>2 DEF OneHand
      <4> QED BY <2>2, <3>1, <3>2, <4>1, <4>2 DEF InHand, Done
    <3>3. CASE k # held[w]
      <4>1. runs'[k] = runs[k]
        BY <1>3, <3>3 DEF FinishTask, TypeInv, TypeOK
      <4>2. \A v \in Workers : held'[v] = k <=> held[v] = k
        BY <2>1, <3>3
      <4> QED BY <3>1, <4>1, <4>2 DEF Stages, Queued, InHand, Done
    <3> QED BY <3>2, <3>3
  <2>5. Stages' /\ InOrder'
    BY <1>3, <2>4 DEF Stages, FinishTask, InOrder, Taken
  <2>6. MutualExclusion' /\ Closing' /\ Joined'
    BY <1>3 DEF FinishTask, Goto, MutualExclusion, Critical, Closing, Joined,
       TypeInv, TypeOK, Callers
  <2> QED BY <1>1, <2>3, <2>5, <2>6
<1>4. ASSUME NEW t \in Callers, Push(t) PROVE RunInv'
  <2>1. tasks \in Seq(TaskIds) /\ accepted \in Nat /\ Len(tasks) \in Nat
    BY DEF TypeInv, TypeOK
  <2>2. Len(tasks') = Len(tasks) + 1 /\ Taken' = Taken
    BY <1>4, <2>1 DEF Push, Taken
  <2>3. \A i \in 1 .. Len(tasks') :
          tasks'[i] = IF i = Len(tasks) + 1 THEN accepted + 1 ELSE tasks[i]
    BY <1>4, <2>1 DEF Push
  <2>4. InOrder'
    BY <1>4, <2>1, <2>2, <2>3 DEF Push, InOrder, Taken
  <2>5. Stages' /\ OneHand'
    BY <1>4, <2>2 DEF Push, Stages, OneHand, Queued, InHand, Done
  <2>6. MutualExclusion' /\ Closing' /\ Joined'
    BY <1>4 DEF Push, Goto, MutualExclusion, Critical, Closing, Joined,
       TypeInv, TypeOK, Callers
  <2> QED BY <1>1, <2>4, <2>5, <2>6
<1>5. ASSUME UNCHANGED <<tasks, held, accepted, runs>> PROVE RunInv'
  <2>1. InOrder' /\ Stages' /\ OneHand'
    BY <1>5, TasksUntouched
  <2>2. ASSUME NEW w \in Workers,
               WorkerLocks(w) \/ TestPredicate(w) \/ Sleep(w) \/ SpuriousWakeup(w)
        PROVE  MutualExclusion' /\ Closing' /\ Joined'
    BY <1>5, <2>2 DEF WorkerLocks, TestPredicate, Sleep, SpuriousWakeup, Goto,
       MutualExclusion, Critical, Closing, Joined, TypeInv, TypeOK, Callers
  <2>3. ASSUME NEW t \in Callers,
               CallEnqueue(t) \/ EnqueueLocks(t) \/ CheckStopped(t)
        PROVE  MutualExclusion' /\ Closing' /\ Joined'
    BY <1>5, <2>3 DEF CallEnqueue, EnqueueLocks, CheckStopped, Resume, Goto,
       MutualExclusion, Critical, Closing, Joined, TypeInv, TypeOK, Callers
  <2>4. ASSUME NEW t \in Callers, NotifyOne(t)
        PROVE  MutualExclusion' /\ Closing' /\ Joined'
    BY <1>5, <2>4 DEF NotifyOne, Asleep, Goto, MutualExclusion, Critical,
       Closing, Joined, TypeInv, TypeOK, Callers
  <2>5. ASSUME NEW c \in Clients, Leave(c)
        PROVE  MutualExclusion' /\ Closing' /\ Joined'
    BY <1>5, <2>5 DEF Leave, Goto, MutualExclusion, Critical, Closing, Joined,
       TypeInv, TypeOK, Callers
  <2>6. ASSUME OwnerStep PROVE MutualExclusion' /\ Closing' /\ Joined'
    BY <1>5, <2>6 DEF OwnerStep, SetStop, NotifyAll, JoinWorkers, Asleep,
       MutualExclusion, Critical, Closing, Joined, TypeInv, TypeOK, Callers
  <2>7. ASSUME UNCHANGED vars PROVE MutualExclusion' /\ Closing' /\ Joined'
    BY <2>7 DEF vars, MutualExclusion, Closing, Joined
  <2>8. ASSUME NEW w \in Workers, TakeOrExit(w) PROVE RunInv'
    BY <1>2, <2>8
  <2>9. ASSUME NEW w \in Workers, FinishTask(w) PROVE RunInv'
    BY <1>3, <2>9
  <2>10. ASSUME NEW t \in Callers, Push(t) PROVE RunInv'
    BY <1>4, <2>10
  <2> QED
    BY <1>1, <2>1, <2>2, <2>3, <2>4, <2>5, <2>6, <2>7, <2>8, <2>9, <2>10
    DEF Next, WorkerStep, EnqueueStep
<1>6. CASE ~UNCHANGED <<tasks, held, accepted, runs>>
  <2>1. \/ \E w \in Workers : TakeOrExit(w) \/ FinishTask(w)
        \/ \E t \in Callers : Push(t)
    BY <1>6 DEF Next, vars, WorkerStep, EnqueueStep, OwnerStep, WorkerLocks,
       TestPredicate, Sleep, SpuriousWakeup, CallEnqueue, EnqueueLocks,
       CheckStopped, NotifyOne, Leave, SetStop, NotifyAll, JoinWorkers
  <2> QED BY <1>2, <1>3, <1>4, <2>1
<1> QED BY <1>5, <1>6

(* A pool with at least one worker runs every task it accepted exactly     *)
(* once before its destructor returns, however the destructor, nested      *)
(* calls of enqueue and the last workers interleave.                       *)
THEOREM TasksRunExactlyOnce ==
  ASSUME Workers # {}
  PROVE  Spec => []TasksRunOnce
<1>1. RunInv => TasksRunOnce
  <2> SUFFICES ASSUME RunInv PROVE TasksRunOnce
    OBVIOUS
  <2>1. \A k \in TaskIds : runs[k] <= 1
    BY DEF RunInv, Stages, Queued, InHand, Done
  <2>2. ASSUME owner = "destroyed", NEW k \in 1 .. accepted PROVE runs[k] = 1
    <3>1. tasks = <<>> /\ \A w \in Workers : held[w] = NoTask
      BY <2>2 DEF RunInv, Closing, Joined, TypeInv, TypeOK, InTask
    <3>2. k \in TaskIds /\ k \in Int /\ Taken \in Int /\ k <= Taken
      BY <3>1, PoolConstants DEF RunInv, TypeInv, TypeOK, TaskIds, Taken
    <3>3. ~Queued(k)
      BY <3>2 DEF Queued
    <3>4. ~InHand(k)
      BY <3>1, <3>2 DEF InHand, NoTask
    <3> QED BY <3>2, <3>3, <3>4 DEF RunInv, Stages, Done
  <2> QED BY <2>1, <2>2 DEF TasksRunOnce
<1> QED BY <1>1, InitRunInv, NextRunInv, PTL DEF Spec
-----------------------------------------------------------------------------
(* A worker goes to sleep over an empty queue, because it keeps the mutex  *)
(* from the test to the wait; what is pushed after that comes with a       *)
(* notify_one of its own.                                                  *)
SleepsOnEmpty == \A w \in Workers : pc[w] = "sleep" => tasks = <<>>

WakeupInv == RunInv /\ SleepsOnEmpty /\ NoWorkerSleepsOverWork

ThreadsCounted ==
  /\ IsFiniteSet(Idle) /\ Cardinality(Idle) \in Nat
  /\ IsFiniteSet(Notifying) /\ Cardinality(Notifying) \in Nat

LEMMA CountsOfThreads == ThreadsCounted
<1>1. IsFiniteSet(Callers) BY PoolConstants
<1>2. Idle \subseteq Callers /\ Notifying \subseteq Callers
  BY DEF Idle, Notifying, Callers
<1> QED BY <1>1, <1>2, FS_Subset, FS_CardinalityType DEF ThreadsCounted

(* Every queued task is provided for.                                      *)
Provided == Len(tasks) <= Cardinality(Idle) + Cardinality(Notifying)

LEMMA InitWakeupInv == Init => WakeupInv
<1> SUFFICES ASSUME Init PROVE WakeupInv
  OBVIOUS
<1>1. \A w \in Workers : pc[w] = "lock"
  BY DEF Init, Callers
<1>2. Asleep = {} /\ SleepsOnEmpty
  BY <1>1 DEF Asleep, SleepsOnEmpty
<1> QED BY <1>2, InitRunInv DEF WakeupInv, NoWorkerSleepsOverWork

(* Steps that leave queue and threads where they are, or only bring some   *)
(* to the queue.                                                           *)
LEMMA StillProvided ==
  ASSUME WakeupInv, tasks' = tasks, Asleep' \subseteq Asleep,
         Notifying' = Notifying,
         Idle' = Idle \/ \E w \in Workers : w \notin Idle /\ Idle' = Idle \cup {w}
  PROVE  NoWorkerSleepsOverWork'
<1>1. CASE Asleep' = {}
  BY <1>1 DEF NoWorkerSleepsOverWork
<1>2. CASE Asleep' # {}
  <2>1. Provided
    BY <1>2 DEF WakeupInv, NoWorkerSleepsOverWork, Provided
  <2>2. Cardinality(Idle') = Cardinality(Idle) \/ Cardinality(Idle') = Cardinality(Idle) + 1
    BY CountsOfThreads, FS_AddElement DEF ThreadsCounted
  <2>3. Len(tasks) \in Nat
    BY DEF WakeupInv, RunInv, TypeInv, TypeOK
  <2>4. Len(tasks') <= Cardinality(Idle') + Cardinality(Notifying')
    BY <2>1, <2>2, <2>3, CountsOfThreads DEF Provided, ThreadsCounted
  <2> QED BY <2>4 DEF NoWorkerSleepsOverWork
<1> QED BY <1>1, <1>2

LEMMA NextWakeupInv == WakeupInv /\ [Next]_vars => WakeupInv'
<1> SUFFICES ASSUME WakeupInv, [Next]_vars
             PROVE  SleepsOnEmpty' /\ NoWorkerSleepsOverWork'
  BY NextRunInv DEF WakeupInv
<1> USE DEF Goto, Asleep, Idle, Notifying
<1>0. /\ pc \in [Callers -> Labels] /\ Workers \subseteq Callers
      /\ tasks \in Seq(TaskIds) /\ Len(tasks) \in Nat
  BY DEF WakeupInv, RunInv, TypeInv, TypeOK, Callers
<1>00. SleepsOnEmpty /\ \A t \in Callers : pc[t] \in Critical => mtx = t
  BY DEF WakeupInv, RunInv, MutualExclusion
<1>1. ASSUME NEW w \in Workers, WorkerLocks(w) \/ TestPredicate(w)
      PROVE  SleepsOnEmpty' /\ NoWorkerSleepsOverWork'
  <2>1. /\ tasks' = tasks /\ Asleep' = Asleep /\ Notifying' = Notifying /\ Idle' = Idle
    BY <1>0, <1>1 DEF WorkerLocks, TestPredicate
  <2>2. SleepsOnEmpty'
    BY <1>0, <1>00, <1>1 DEF WorkerLocks, TestPredicate, SleepsOnEmpty
  <2> HIDE DEF Asleep, Idle, Notifying
  <2> QED BY <2>1, <2>2, StillProvided
<1>2. ASSUME NEW w \in Workers, Sleep(w)
      PROVE  SleepsOnEmpty' /\ NoWorkerSleepsOverWork'
  <2>1. tasks = <<>> /\ tasks' = <<>>
    BY <1>00, <1>2 DEF Sleep, SleepsOnEmpty
  <2>2. Cardinality(Idle') \in Nat /\ Cardinality(Notifying') \in Nat
    <3> HIDE DEF Idle, Notifying
    <3>1. ThreadsCounted'
      BY CountsOfThreads, PTL
    <3> QED BY <3>1 DEF ThreadsCounted
  <2> HIDE DEF Idle, Notifying
  <2>3. Len(tasks') <= Cardinality(Idle') + Cardinality(Notifying')
    BY <2>1, <2>2
  <2> QED BY <2>1, <2>3 DEF SleepsOnEmpty, NoWorkerSleepsOverWork
<1>3. ASSUME NEW w \in Workers, TakeOrExit(w)
      PROVE  SleepsOnEmpty' /\ NoWorkerSleepsOverWork'
  <2>1. /\ Asleep' = Asleep /\ Notifying' = Notifying
        /\ w \in Idle /\ Idle' = Idle \ {w}
    BY <1>0, <1>3 DEF TakeOrExit
  <2>2. \A v \in Workers : pc'[v] = "sleep" => pc[v] = "sleep"
    BY <1>0, <1>3 DEF TakeOrExit
  <2> HIDE DEF Asleep, Idle, Notifying
  <2>3. CASE tasks = <<>>
    <3>1. tasks' = <<>>
      BY <1>3, <2>3 DEF TakeOrExit
    <3>2. Cardinality(Idle') \in Nat /\ Cardinality(Notifying') \in Nat
      <4>1. ThreadsCounted'
        BY CountsOfThreads, PTL
      <4> QED BY <4>1 DEF ThreadsCounted
    <3>3. Len(tasks') <= Cardinality(Idle') + Cardinality(Notifying')
      BY <3>1, <3>2
    <3> QED BY <3>1, <3>3 DEF SleepsOnEmpty, NoWorkerSleepsOverWork
  <2>4. CASE tasks # <<>>
    <3>1. tasks' = Tail(tasks) /\ Len(tasks') = Len(tasks) - 1
      BY <1>0, <1>3, <2>4 DEF TakeOrExit
    <3>2. SleepsOnEmpty'
      BY <1>00, <2>2, <2>4 DEF SleepsOnEmpty
    <3>3. Cardinality(Idle') = Cardinality(Idle) - 1
      BY <2>1, CountsOfThreads, FS_RemoveElement DEF ThreadsCounted
    <3>4. ASSUME Asleep # {}
          PROVE  Len(tasks') <= Cardinality(Idle') + Cardinality(Notifying')
      <4>1. Len(tasks) <= Cardinality(Idle) + Cardinality(Notifying)
        BY <3>4 DEF WakeupInv, NoWorkerSleepsOverWork
      <4>2. Len(tasks') = Len(tasks) - 1 /\ Notifying' = Notifying /\ Len(tasks) \in Nat
        BY <1>0, <2>1, <3>1
      <4> QED BY <4>1, <4>2, <3>3, CountsOfThreads DEF ThreadsCounted
    <3> QED BY <2>1, <3>2, <3>4 DEF NoWorkerSleepsOverWork
  <2> QED BY <2>3, <2>4
<1>4. ASSUME NEW w \in Workers, FinishTask(w) \/ SpuriousWakeup(w)
      PROVE  SleepsOnEmpty' /\ NoWorkerSleepsOverWork'
  <2>1. /\ tasks' = tasks /\ Asleep' \subseteq Asleep /\ Notifying' = Notifying
        /\ w \notin Idle /\ Idle' = Idle \cup {w}
    BY <1>0, <1>4 DEF FinishTask, SpuriousWakeup
  <2>2. SleepsOnEmpty'
    BY <1>0, <1>00, <1>4 DEF FinishTask, SpuriousWakeup, SleepsOnEmpty
  <2> HIDE DEF Asleep, Idle, Notifying
  <2> QED BY <2>1, <2>2, StillProvided
<1>5. ASSUME NEW t \in Callers, CallEnqueue(t) \/ EnqueueLocks(t) \/ CheckStopped(t)
      PROVE  SleepsOnEmpty' /\ NoWorkerSleepsOverWork'
  <2>1. /\ tasks' = tasks /\ Asleep' = Asleep /\ Notifying' = Notifying /\ Idle' = Idle
    BY <1>0, <1>5 DEF CallEnqueue, EnqueueLocks, CheckStopped, Resume
  <2>2. SleepsOnEmpty'
    BY <1>0, <1>00, <1>5 DEF CallEnqueue, EnqueueLocks, CheckStopped, Resume,
       SleepsOnEmpty
  <2> HIDE DEF Asleep, Idle, Notifying
  <2> QED BY <2>1, <2>2, StillProvided
<1>6. ASSUME NEW t \in Callers, Push(t)
      PROVE  SleepsOnEmpty' /\ NoWorkerSleepsOverWork'
  <2>1. /\ Asleep' = Asleep /\ Idle' = Idle
        /\ t \notin Notifying /\ Notifying' = Notifying \cup {t}
    BY <1>0, <1>6 DEF Push
  <2>2. SleepsOnEmpty'
    <3>1. \A v \in Workers : pc'[v] # "sleep"
      <4>1. mtx = t /\ pc[t] = "push"
        BY <1>00, <1>6 DEF Push, Critical
      <4>2. \A v \in Workers : pc[v] # "sleep"
        BY <1>0, <1>00, <4>1 DEF Critical
      <4> QED BY <1>0, <1>6, <4>2 DEF Push
    <3> QED BY <3>1 DEF SleepsOnEmpty
  <2> HIDE DEF Asleep, Idle, Notifying
  <2>3. Len(tasks') = Len(tasks) + 1
    BY <1>0, <1>6 DEF Push
  <2>4. Cardinality(Notifying') = Cardinality(Notifying) + 1
    BY <2>1, CountsOfThreads, FS_AddElement DEF ThreadsCounted
  <2>5. ASSUME Asleep # {}
        PROVE  Len(tasks') <= Cardinality(Idle') + Cardinality(Notifying')
    <3>1. Len(tasks) <= Cardinality(Idle) + Cardinality(Notifying)
      BY <2>5 DEF WakeupInv, NoWorkerSleepsOverWork
    <3> QED BY <3>1, <2>1, <2>3, <2>4, <1>0, CountsOfThreads DEF ThreadsCounted
  <2> QED BY <2>1, <2>2, <2>5 DEF NoWorkerSleepsOverWork
<1>7. ASSUME NEW t \in Callers, NotifyOne(t)
      PROVE  SleepsOnEmpty' /\ NoWorkerSleepsOverWork'
  <2>1. tasks' = tasks /\ pc[t] = "notify"
    BY <1>7 DEF NotifyOne
  <2>2. SleepsOnEmpty'
    BY <1>0, <1>00, <1>7 DEF NotifyOne, SleepsOnEmpty
  <2>3. CASE Asleep = {}
    <3>1. Asleep' = {}
      BY <1>0, <1>7, <2>3 DEF NotifyOne
    <3> HIDE DEF Asleep, Idle, Notifying
    <3> QED BY <2>2, <3>1 DEF NoWorkerSleepsOverWork
  <2>4. CASE Asleep # {}
    <3>1. /\ \E w \in Workers : w \notin Idle /\ Idle' = Idle \cup {w}
          /\ t \in Notifying /\ Notifying' = Notifying \ {t}
      BY <1>0, <1>7, <2>4 DEF NotifyOne
    <3> HIDE DEF Asleep, Idle, Notifying
    <3>2. Cardinality(Idle') = Cardinality(Idle) + 1
      BY <3>1, CountsOfThreads, FS_AddElement DEF ThreadsCounted
    <3>3. Cardinality(Notifying') = Cardinality(Notifying) - 1
      BY <3>1, CountsOfThreads, FS_RemoveElement DEF ThreadsCounted
    <3>4. Len(tasks) <= Cardinality(Idle) + Cardinality(Notifying)
      BY <2>4 DEF WakeupInv, NoWorkerSleepsOverWork
    <3>5. Len(tasks') <= Cardinality(Idle') + Cardinality(Notifying')
      BY <1>0, <2>1, <3>2, <3>3, <3>4, CountsOfThreads DEF ThreadsCounted
    <3> QED BY <2>2, <3>5 DEF NoWorkerSleepsOverWork
  <2> QED BY <2>3, <2>4
<1>8. ASSUME NEW c \in Clients, Leave(c)
      PROVE  SleepsOnEmpty' /\ NoWorkerSleepsOverWork'
  <2>1. /\ tasks' = tasks /\ Asleep' = Asleep /\ Notifying' = Notifying /\ Idle' = Idle
    BY <1>0, <1>8 DEF Leave, Callers
  <2>2. SleepsOnEmpty'
    BY <1>0, <1>00, <1>8 DEF Leave, SleepsOnEmpty, Callers
  <2> HIDE DEF Asleep, Idle, Notifying
  <2> QED BY <2>1, <2>2, StillProvided
<1>9. CASE NotifyAll
  <2>1. Asleep' = {} /\ tasks' = tasks
    BY <1>0, <1>9 DEF NotifyAll
  <2>2. \A v \in Workers : pc'[v] = "sleep" => pc[v] = "sleep"
    BY <1>0, <1>9 DEF NotifyAll
  <2> HIDE DEF Asleep, Idle, Notifying
  <2> QED BY <1>00, <2>1, <2>2 DEF SleepsOnEmpty, NoWorkerSleepsOverWork
<1>10. CASE SetStop \/ JoinWorkers \/ UNCHANGED vars
  <2>1. pc' = pc /\ tasks' = tasks
    BY <1>10 DEF SetStop, JoinWorkers, vars
  <2>2. SleepsOnEmpty'
    BY <1>00, <2>1 DEF SleepsOnEmpty
  <2>3. Asleep' = Asleep /\ Notifying' = Notifying /\ Idle' = Idle
    BY <2>1
  <2> HIDE DEF Asleep, Idle, Notifying
  <2> QED BY <2>1, <2>2, <2>3, StillProvided
<1> HIDE DEF Goto, Asleep, Idle, Notifying
<1> QED
  BY <1>1, <1>2, <1>3, <1>4, <1>5, <1>6, <1>7, <1>8, <1>9, <1>10
  DEF Next, WorkerStep, EnqueueStep, OwnerStep

(* enqueue notifies after it has let go of the mutex, and yet no task ever *)
(* waits in the queue while the worker that should take it sleeps.         *)
THEOREM NoLostWakeup == Spec => []NoWorkerSleepsOverWork
<1>1. WakeupInv => NoWorkerSleepsOverWork
  BY DEF WakeupInv
<1> QED BY <1>1, InitWakeupInv, NextWakeupInv, PTL DEF Spec
=============================================================================
