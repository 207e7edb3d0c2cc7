----------------------------- MODULE MCSpscFifo -----------------------------
(* Instances of SpscFifo for TLC. *)
EXTENDS SpscFifo
=============================================================================
