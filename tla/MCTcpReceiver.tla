--------------------------- MODULE MCTcpReceiver ----------------------------
(* Instances of TcpReceiver for TLC. *)
EXTENDS TcpReceiver
=============================================================================
