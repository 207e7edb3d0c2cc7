--------------------------- MODULE MCStopBitCodec ---------------------------
(* Instances of StopBitCodec for TLC. *)
EXTENDS StopBitCodec
=============================================================================
