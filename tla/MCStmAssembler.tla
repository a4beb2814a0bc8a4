--------------------------- MODULE MCStmAssembler ---------------------------
(* Two sessions with one frame each, and up to three commands waiting, so  *)
(* that a frame is back from the fec thread before, between and after the  *)
(* commands that end its session.                                          *)
EXTENDS StmAssembler
=============================================================================
