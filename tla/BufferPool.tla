----------------------------- MODULE BufferPool -----------------------------
(***************************************************************************)
(* What an MTFixedSizeAllocator promises to the threads that share frames, *)
(* without locks, chains of segments or lists: a buffer handed out is      *)
(* nobody else's, stays so until the last reference to it is dropped, and  *)
(* is reused only after that, in the order the buffers came back.          *)
(*                                                                         *)
(* MTFixedSizeAllocator is shown to implement this specification.          *)
(***************************************************************************)
EXTENDS Naturals, Sequences, SequencesExt

CONSTANTS
    Buffers,   \* all the buffers there is memory for
    MaxRef     \* bound on the references to one buffer

VARIABLES
    refs,   \* the references to each buffer
    used,   \* the buffers that may not be handed out
    back    \* the buffers that came back, in order

vars == <<refs, used, back>>
-----------------------------------------------------------------------------
Init ==
    /\ refs = [b \in Buffers |-> 0]
    /\ used = {}
    /\ back = <<>>

HandOut(b) ==
    /\ b \notin used
    /\ refs[b] = 0
    /\ refs' = [refs EXCEPT ![b] = 1]
    /\ used' = used \cup {b}
    /\ UNCHANGED back

Share(b) ==
    /\ refs[b] \in 1 .. MaxRef - 1
    /\ refs' = [refs EXCEPT ![b] = @ + 1]
    /\ UNCHANGED <<used, back>>

Drop(b) ==
    /\ refs[b] > 0
    /\ refs' = [refs EXCEPT ![b] = @ - 1]
    /\ UNCHANGED <<used, back>>

(* A buffer nobody refers to comes back, once.                             *)
ComeBack(b) ==
    /\ b \in used
    /\ refs[b] = 0
    /\ ~Contains(back, b)
    /\ back' = Append(back, b)
    /\ UNCHANGED <<refs, used>>

(* The first that came back may be handed out again.                       *)
Reuse ==
    /\ back # <<>>
    /\ used' = used \ {Head(back)}
    /\ back' = Tail(back)
    /\ UNCHANGED refs

Next ==
    \/ \E b \in Buffers : HandOut(b) \/ Share(b) \/ Drop(b) \/ ComeBack(b)
    \/ Reuse

Spec == Init /\ [][Next]_vars
=============================================================================
