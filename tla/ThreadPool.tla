----------------------------- MODULE ThreadPool -----------------------------
(***************************************************************************)
(* threadpool.h: worker threads take tasks from a queue under a mutex and  *)
(* sleep on a condition variable while there are none.  Clients, and tasks *)
(* themselves, enqueue; the owner destroys the pool once the clients are   *)
(* done with it.  Tasks are numbered in the order they enter the queue.    *)
(***************************************************************************)
EXTENDS Integers, Sequences, FiniteSets

CONSTANTS
  Workers,      \* the threads of workers_
  Clients,      \* threads outside the pool that call enqueue
  MaxCalls,     \* bound: calls of enqueue in a behaviour
  MaxSpurious,  \* bound: spurious wakeups of the condition variable
  Nobody        \* no thread holds the mutex

Callers == Workers \cup Clients

ASSUME PoolConstants ==
  /\ Workers \cap Clients = {}
  /\ Nobody \notin Callers
  /\ IsFiniteSet(Callers)
  /\ MaxCalls \in Nat
  /\ MaxSpurious \in Nat

VARIABLES
  mtx,       \* the thread that holds mtx_
  pc,        \* where each worker and client is
  owner,     \* how far ~threadpool is
  tasks,     \* tasks_
  stop,      \* stop_, an atomic that the destructor sets without mtx_
  held,      \* the task each worker has moved out of the queue, or none
  accepted,  \* how many tasks have entered the queue
  runs,      \* how often each task has been run
  enqueues,  \* calls of enqueue so far
  spurious   \* spurious wakeups so far

vars == <<mtx, pc, owner, tasks, stop, held, accepted, runs, enqueues, spurious>>

TaskIds == 1 .. MaxCalls
NoTask == 0

Goto(t, label) == pc' = [pc EXCEPT ![t] = label]
Asleep == {w \in Workers : pc[w] = "asleep"}
-----------------------------------------------------------------------------
Init ==
  /\ mtx = Nobody
  /\ pc = [t \in Callers |-> IF t \in Workers THEN "lock" ELSE "idle"]
  /\ owner = "alive"
  /\ tasks = <<>>
  /\ stop = FALSE
  /\ held = [w \in Workers |-> NoTask]
  /\ accepted = 0
  /\ runs = [k \in TaskIds |-> 0]
  /\ enqueues = 0
  /\ spurious = 0

(* worker_loop locks mtx_, and so does cv_.wait when it wakes up; in both  *)
(* cases the predicate is tested next.                                     *)
WorkerLocks(w) ==
  /\ pc[w] = "lock" /\ mtx = Nobody
  /\ mtx' = w
  /\ Goto(w, "test")
  /\ UNCHANGED <<owner, tasks, stop, held, accepted, runs, enqueues, spurious>>

TestPredicate(w) ==
  /\ pc[w] = "test"
  /\ Goto(w, IF stop \/ tasks # <<>> THEN "take" ELSE "sleep")
  /\ UNCHANGED <<mtx, owner, tasks, stop, held, accepted, runs, enqueues,
                 spurious>>

(* Releasing the mutex and joining the waiters is one step of cv_.wait;    *)
(* deciding to do so was an earlier one.                                   *)
Sleep(w) ==
  /\ pc[w] = "sleep"
  /\ mtx' = Nobody
  /\ Goto(w, "asleep")
  /\ UNCHANGED <<owner, tasks, stop, held, accepted, runs, enqueues, spurious>>

(* Mutant: a stopped worker leaves although tasks are queued.              *)
ExitAtOnce(w) ==
  /\ pc[w] = "take"
  /\ mtx' = Nobody
  /\ \/ /\ stop
        /\ Goto(w, "exited")
        /\ UNCHANGED <<tasks, held>>
     \/ /\ ~stop
        /\ held' = [held EXCEPT ![w] = Head(tasks)]
        /\ tasks' = Tail(tasks)
        /\ Goto(w, "run")
  /\ UNCHANGED <<owner, stop, accepted, runs, enqueues, spurious>>

(* The predicate held: the rest of the critical section.                   *)
TakeOrExit(w) ==
  /\ pc[w] = "take"
  /\ mtx' = Nobody
  /\ \/ /\ stop /\ tasks = <<>>
        /\ Goto(w, "exited")
        /\ UNCHANGED <<tasks, held>>
     \/ /\ tasks # <<>>
        /\ held' = [held EXCEPT ![w] = Head(tasks)]
        /\ tasks' = Tail(tasks)
        /\ Goto(w, "run")
  /\ UNCHANGED <<owner, stop, accepted, runs, enqueues, spurious>>

(* task() returns; whatever it threw is in its future.                     *)
FinishTask(w) ==
  /\ pc[w] = "run"
  /\ runs' = [runs EXCEPT ![held[w]] = @ + 1]
  /\ held' = [held EXCEPT ![w] = NoTask]
  /\ Goto(w, "lock")
  /\ UNCHANGED <<mtx, owner, tasks, stop, accepted, enqueues, spurious>>

SpuriousWakeup(w) ==
  /\ pc[w] = "asleep" /\ spurious < MaxSpurious
  /\ spurious' = spurious + 1
  /\ Goto(w, "lock")
  /\ UNCHANGED <<mtx, owner, tasks, stop, held, accepted, runs, enqueues>>

(* enqueue, called by a client or by the task a worker is running.         *)
CallEnqueue(t) ==
  /\ pc[t] \in {"idle", "run"} /\ enqueues < MaxCalls
  /\ enqueues' = enqueues + 1
  /\ Goto(t, "enqueue")
  /\ UNCHANGED <<mtx, owner, tasks, stop, held, accepted, runs, spurious>>

EnqueueLocks(t) ==
  /\ pc[t] = "enqueue" /\ mtx = Nobody
  /\ mtx' = t
  /\ Goto(t, "check")
  /\ UNCHANGED <<owner, tasks, stop, held, accepted, runs, enqueues, spurious>>

Resume(t) == Goto(t, IF t \in Workers THEN "run" ELSE "idle")

CheckStopped(t) ==
  /\ pc[t] = "check"
  /\ \/ stop /\ mtx' = Nobody /\ Resume(t)
     \/ ~stop /\ UNCHANGED mtx /\ Goto(t, "push")
  /\ UNCHANGED <<owner, tasks, stop, held, accepted, runs, enqueues, spurious>>

(* Mutant: notify only when the queue was empty.                           *)
PushQuietly(t) ==
  /\ pc[t] = "push"
  /\ accepted' = accepted + 1
  /\ tasks' = Append(tasks, accepted + 1)
  /\ mtx' = Nobody
  /\ IF tasks = <<>> THEN Goto(t, "notify") ELSE Resume(t)
  /\ UNCHANGED <<owner, stop, held, runs, enqueues, spurious>>

Push(t) ==
  /\ pc[t] = "push"
  /\ accepted' = accepted + 1
  /\ tasks' = Append(tasks, accepted + 1)
  /\ mtx' = Nobody
  /\ Goto(t, "notify")
  /\ UNCHANGED <<owner, stop, held, runs, enqueues, spurious>>

(* cv_.notify_one, after the lock is gone: wakes some sleeper if any.      *)
NotifyOne(t) ==
  /\ pc[t] = "notify"
  /\ LET back == IF t \in Workers THEN "run" ELSE "idle" IN
     \/ Asleep = {} /\ Goto(t, back)
     \/ \E w \in Asleep : pc' = [pc EXCEPT ![t] = back, ![w] = "lock"]
  /\ UNCHANGED <<mtx, owner, tasks, stop, held, accepted, runs, enqueues,
                 spurious>>

(* A client is through with the pool.                                      *)
Leave(c) ==
  /\ pc[c] = "idle"
  /\ Goto(c, "gone")
  /\ UNCHANGED <<mtx, owner, tasks, stop, held, accepted, runs, enqueues,
                 spurious>>

(* ~threadpool: an object is destroyed when no other thread is calling it. *)
SetStop ==
  /\ owner = "alive"
  /\ \A c \in Clients : pc[c] = "gone"
  /\ stop' = TRUE
  /\ owner' = "stopping"
  /\ UNCHANGED <<mtx, pc, tasks, held, accepted, runs, enqueues, spurious>>

NotifyAll ==
  /\ owner = "stopping"
  /\ pc' = [t \in Callers |-> IF t \in Asleep THEN "lock" ELSE pc[t]]
  /\ owner' = "joining"
  /\ UNCHANGED <<mtx, tasks, stop, held, accepted, runs, enqueues, spurious>>

JoinWorkers ==
  /\ owner = "joining"
  /\ \A w \in Workers : pc[w] = "exited"
  /\ owner' = "destroyed"
  /\ UNCHANGED <<mtx, pc, tasks, stop, held, accepted, runs, enqueues, spurious>>

WorkerStep(w) ==
  \/ WorkerLocks(w) \/ TestPredicate(w) \/ Sleep(w) \/ TakeOrExit(w)
  \/ FinishTask(w)
EnqueueStep(t) == EnqueueLocks(t) \/ CheckStopped(t) \/ Push(t) \/ NotifyOne(t)
OwnerStep == SetStop \/ NotifyAll \/ JoinWorkers

Next ==
  \/ \E w \in Workers : WorkerStep(w) \/ SpuriousWakeup(w)
  \/ \E t \in Callers : CallEnqueue(t) \/ EnqueueStep(t)
  \/ \E c \in Clients : Leave(c)
  \/ OwnerStep

Spec == Init /\ [][Next]_vars

(* Every thread keeps running; clients eventually leave, so that the pool  *)
(* is destroyed, and calls and spurious wakeups may or may not happen.     *)
FairSpec ==
  /\ Spec
  /\ \A w \in Workers : WF_vars(WorkerStep(w))
  /\ \A t \in Callers : WF_vars(EnqueueStep(t))
  /\ \A c \in Clients : WF_vars(Leave(c))
  /\ WF_vars(OwnerStep)
-----------------------------------------------------------------------------
Labels == {"lock", "test", "sleep", "asleep", "take", "run", "exited",
           "idle", "gone", "enqueue", "check", "push", "notify"}
WorkerLabels == Labels \ {"idle", "gone"}
ClientLabels == {"idle", "gone", "enqueue", "check", "push", "notify"}

InTask == {"run", "enqueue", "check", "push", "notify"}

(* Shape of the state.  Only workers sleep or exit, and a worker has a     *)
(* task in hand exactly while it is inside one.                            *)
TypeOK ==
  /\ mtx \in Callers \cup {Nobody}
  /\ pc \in [Callers -> Labels]
  /\ \A w \in Workers : pc[w] \in WorkerLabels
  /\ \A c \in Clients : pc[c] \in ClientLabels
  /\ owner \in {"alive", "stopping", "joining", "destroyed"}
  /\ tasks \in Seq(TaskIds)
  /\ stop \in BOOLEAN
  /\ held \in [Workers -> TaskIds \cup {NoTask}]
  /\ \A w \in Workers : held[w] # NoTask <=> pc[w] \in InTask
  /\ accepted \in 0 .. MaxCalls
  /\ runs \in [TaskIds -> Nat]
  /\ enqueues \in 0 .. MaxCalls
  /\ spurious \in 0 .. MaxSpurious

(* No accepted task is ever run twice, and destroying the pool drains the  *)
(* queue: whatever races with the destructor, every task that enqueue did  *)
(* not refuse has run when ~threadpool is over.                            *)
TasksRunOnce ==
  /\ \A k \in TaskIds : runs[k] <= 1
  /\ owner = "destroyed" => \A k \in 1 .. accepted : runs[k] = 1

Idle == {w \in Workers : pc[w] \in {"lock", "test", "sleep", "take"}}
Notifying == {t \in Callers : pc[t] = "notify"}

(* No wakeup for a task is lost: while a worker sleeps, every queued task  *)
(* has a worker of its own on its way to the queue or a notify_one still   *)
(* to come, although enqueue notifies after it has released the mutex.     *)
NoWorkerSleepsOverWork ==
  Asleep # {} => Len(tasks) <= Cardinality(Idle) + Cardinality(Notifying)

(* Every accepted task is run, so that get() on its future returns, pool   *)
(* destruction included.                                                   *)
AcceptedTaskRuns == \A k \in TaskIds : (accepted >= k) ~> (runs[k] = 1)

(* main.cpp builds the pool as a local of main and expects the end of its  *)
(* scope to be reached: once begun, the destructor returns.                *)
DestructorReturns == (owner = "stopping") ~> (owner = "destroyed")
=============================================================================
