----------------------- MODULE MCMTFixedSizeAllocator -----------------------
(* Four slots that are added two at a time, segments of two: three slots   *)
(* released make a backlog, and the fourth can be appended while Recycle   *)
(* is at work.                                                             *)
EXTENDS MTFixedSizeAllocator
=============================================================================
