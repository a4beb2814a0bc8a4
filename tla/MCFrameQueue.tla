---------------------------- MODULE MCFrameQueue ----------------------------
(* A ring of three slots over eight frame ids: the ring and the ids both   *)
(* wrap, and half a turn is longer than the ring.                          *)
EXTENDS FrameQueue
=============================================================================
