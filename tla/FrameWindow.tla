---------------------------- MODULE FrameWindow ----------------------------
(***************************************************************************)
(* What a FrameQueue promises to its users (StreamRecver, CAVMNetPeer),    *)
(* without slots, a ring or counters: a set of held frame ids that always  *)
(* lies within N consecutive ids.  An id before the window is refused, an  *)
(* id inside it fills a hole or is a duplicate, and an id after it moves   *)
(* the window forward and evicts what falls out of it.                     *)
(*                                                                         *)
(* FrameQueue is shown to implement this specification.                    *)
(***************************************************************************)
EXTENDS FrameIdWindow

VARIABLES
    held,   \* ids of the frames in the queue
    out     \* what the last operation returned and handed to its callback

vars == <<held, out>>

(* slot, isnew: what the call returned; freed: the ids given to a callback *)
Result(op, slot, isnew, freed) ==
    [op |-> op, slot |-> slot, isnew |-> isnew, freed |-> freed]
-----------------------------------------------------------------------------
Init == held = {} /\ out = Result("none", FALSE, FALSE, {})

Refuse(fid) ==
    /\ TooOld(held, fid)
    /\ out' = Result("insert", FALSE, FALSE, {})
    /\ UNCHANGED held

Accept(fid) ==
    /\ held = {} \/ IsInside(held, fid) \/ IsAfter(held, fid)
    /\ held' = (held \ Evicted(held, fid)) \cup {fid}
    /\ out' = Result("insert", TRUE, fid \notin held, Evicted(held, fid))

Remove(fid) ==
    /\ held' = held \ {fid}
    /\ out' = Result("remove", fid \in held, FALSE, held \cap {fid})

Drop(op, P) ==
    /\ IsPrefix(P, held)
    /\ held' = held \ P
    /\ out' = Result(op, FALSE, FALSE, P)

Next ==
    \/ \E fid \in Fid : Refuse(fid) \/ Accept(fid) \/ Remove(fid)
    \/ \E P \in SUBSET held : Drop("loop", P)
    \/ Drop("reset", held)

Spec == Init /\ [][Next]_vars
=============================================================================
