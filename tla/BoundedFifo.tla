---------------------------- MODULE BoundedFifo ----------------------------
(***************************************************************************)
(* What a bounded queue promises: values come out in the order they went   *)
(* in, each once, and never more than Capacity wait inside.                *)
(***************************************************************************)
EXTENDS Naturals, Sequences

CONSTANTS Value, Capacity

VARIABLES
  queue,  \* the values inside
  out     \* the value taken last

fifoVars == <<queue, out>>

FifoInit == queue = <<>> /\ out \notin Value

Put(v) == Len(queue) < Capacity /\ queue' = Append(queue, v) /\ UNCHANGED out

Take == queue # <<>> /\ out' = Head(queue) /\ queue' = Tail(queue)

(* The owner may do away with the queue and what is left in it. *)
Discard == queue' = <<>> /\ UNCHANGED out

FifoNext == (\E v \in Value : Put(v)) \/ Take \/ Discard

FifoSpec == FifoInit /\ [][FifoNext]_fifoVars
=============================================================================
