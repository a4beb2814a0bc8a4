---------------------------- MODULE MCSessionEnd ----------------------------
(* One kind: the threads, queues and locks of the two share nothing but    *)
(* what is deleted.  The peers have all that they can have when the end    *)
(* begins, so that there is all of it to destroy.                          *)
EXTENDS SessionEnd

AllMade == Parts \ ({"lead"} \X Kinds \X {"frame"})
=============================================================================
