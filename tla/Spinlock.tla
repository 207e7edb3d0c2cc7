------------------------------ MODULE Spinlock ------------------------------
(***************************************************************************)
(* spinlock.h: a thread that finds the flag set spins on plain loads until *)
(* it reads it clear, and only then tries the compare-and-exchange again.  *)
(* A load may be answered with an earlier value of the flag; a             *)
(* compare-and-exchange acts on the latest.                                *)
(***************************************************************************)
EXTENDS Naturals

CONSTANT Threads

VARIABLES
  state,  \* the flag
  pc      \* where each thread is

vars == <<state, pc>>

Goto(t, label) == pc' = [pc EXCEPT ![t] = label]

Init == state = FALSE /\ pc = [t \in Threads |-> "out"]

Lock(t) == pc[t] = "out" /\ Goto(t, "exchange") /\ UNCHANGED state

(* Mutant: the flag is read and set in two steps.                          *)
TestThenSet(t) ==
  \/ /\ pc[t] = "exchange"
     /\ Goto(t, IF state THEN "spin" ELSE "set")
     /\ UNCHANGED state
  \/ pc[t] = "set" /\ state' = TRUE /\ Goto(t, "in")

Exchange(t) ==
  /\ pc[t] = "exchange"
  /\ state' = TRUE
  /\ Goto(t, IF state THEN "spin" ELSE "in")

(* One load of the inner loop, answered v.                                 *)
Spin(t, v) ==
  /\ pc[t] = "spin"
  /\ Goto(t, IF v THEN "spin" ELSE "exchange")
  /\ UNCHANGED state

(* Mutant: the flag is left set.                                           *)
LeaveLocked(t) == pc[t] = "in" /\ Goto(t, "out") /\ UNCHANGED state

Unlock(t) ==
  /\ pc[t] = "in"
  /\ state' = FALSE
  /\ Goto(t, "out")

Next ==
  \E t \in Threads :
    \/ Lock(t) \/ Exchange(t) \/ Unlock(t)
    \/ \E v \in BOOLEAN : Spin(t, v)

Spec == Init /\ [][Next]_vars

(* A thread that spins reads the latest value in the end, and a thread     *)
(* that holds the lock gives it back.                                      *)
Fairness ==
  \A t \in Threads :
    WF_vars(Exchange(t)) /\ WF_vars(Spin(t, state)) /\ WF_vars(Unlock(t))
-----------------------------------------------------------------------------
TypeOK ==
  /\ state \in BOOLEAN
  /\ pc \in [Threads -> {"out", "exchange", "spin", "in"}]

(* At most one thread is between lock() and unlock().                      *)
MutualExclusion ==
  \A t, u \in Threads : pc[t] = "in" /\ pc[u] = "in" => t = u

(* While threads want the lock, one gets it: there is no deadlock, although *)
(* a single thread may be overtaken for ever.                              *)
SomebodyEnters ==
  (\E t \in Threads : pc[t] \in {"exchange", "spin"})
     ~> (\E t \in Threads : pc[t] = "in")
=============================================================================
