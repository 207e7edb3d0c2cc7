--------------------------- MODULE MCConcurrent ---------------------------
(***************************************************************************)
(* Instances for TLC of the small components that threads share, in one    *)
(* run: none calls another, so a behaviour is about the one that focus     *)
(* names, and the others stand still.                                      *)
(***************************************************************************)
EXTENDS Spinlock, SpmcQueue, BlockingRing, UdpReceiver

VARIABLE focus

allVars == <<focus, vars, queueVars, ringVars, udpVars>>

(* No caller of a queue: nothing in it is ever enabled.                    *)
NoQueue ==
  /\ place = [t \in Callers |-> "absent"] /\ mtx = Nobody
  /\ queue = <<>> /\ added = 0 /\ got = <<>> /\ spurious = 0 /\ thrown = 0

AllInit ==
  /\ focus \in {"spinlock", "SPMCQueue", "BoundedBlockingQueue", "UDPReceiver"}
  /\ Init /\ RingInit
  /\ IF focus = "SPMCQueue" THEN QueueInit ELSE NoQueue
  /\ UdpInit /\ (focus = "UDPReceiver" \/ ~multicast)

(* The components other than the focus.                                    *)
StandStill ==
  /\ focus # "spinlock" => UNCHANGED vars
  /\ focus # "SPMCQueue" => UNCHANGED queueVars
  /\ focus # "BoundedBlockingQueue" => UNCHANGED ringVars
  /\ focus # "UDPReceiver" => UNCHANGED udpVars

AllNext ==
  /\ UNCHANGED focus
  /\ \/ /\ focus = "spinlock" /\ Next
     \/ /\ focus = "SPMCQueue" /\ QueueNext
     \/ /\ focus = "BoundedBlockingQueue" /\ RingNext
     \/ /\ focus = "UDPReceiver" /\ UdpNext
  /\ StandStill

(* What fairness asks for is enabled only when the focus is on it.         *)
AllSpec ==
  /\ AllInit /\ [][AllNext]_allVars
  /\ Fairness /\ QueueFairness /\ RingFairness /\ UdpFairness
=============================================================================
