--------------------------- MODULE MCGridChannel ---------------------------
(* Two ids, two sessions, one more than iMaxRoom, and a place for a third. *)
EXTENDS GridChannel
=============================================================================
