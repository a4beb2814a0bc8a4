--------------------------- MODULE MCStreamRecver ---------------------------
(* One sender, an audio and a video stream, a window of two of the ids 7,  *)
(* 0 and 1 (the ids wrap).  Video frame 0 has three source symbols and is  *)
(* sent in segments of which the first two carry exactly those, the last   *)
(* two overlap, and the first and the last suffice without symbol 1; the   *)
(* other frames are sent whole.                                            *)
EXTENDS StreamRecver, TLC

MCIds == {7, 0, 1}
MCSrcNum == (7 :> 0) @@ (0 :> 3) @@ (1 :> 0)
MCSegments == {[esi |-> 0, cnt |-> 1], [esi |-> 1, cnt |-> 2], [esi |-> 2, cnt |-> 3]}
=============================================================================
