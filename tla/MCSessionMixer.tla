--------------------------- MODULE MCSessionMixer ---------------------------
(* Six ids and twelve time-stamps that wrap; two frames a queue.  Each peer*)
(* has two units of time between its frames, and the minor peer's stamps   *)
(* are one ahead.                                                          *)
EXTENDS SessionMixer

MCLeadTs  == [f \in 0 .. 5 |-> 2 * f]
MCMinorTs == [f \in 0 .. 5 |-> 2 * f + 1]
=============================================================================
