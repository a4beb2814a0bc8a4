--------------------------- MODULE FrameIdWindow ---------------------------
(***************************************************************************)
(* Operators over the set of ids a FrameQueue<N, S> holds.  FrameQueue     *)
(* implements them with a ring of slots (see FrameWindow); the modules     *)
(* that keep frames in such a queue use them in its place.                 *)
(***************************************************************************)
EXTENDS FrameIdComparer

CONSTANT N   \* slots of the queue, the template parameter N

ASSUME CapacityAssumption == N \in 1 .. Half

Earliest(S) == CHOOSE f \in S : \A g \in S : Distance(g, f) < N
Latest(S)   == CHOOSE f \in S : \A g \in S : Distance(f, g) < N

(* The window after inserting fid, for the ids the queue accepts.          *)
TooOld(S, fid)   == S # {} /\ IsEarlier(fid, Earliest(S))
IsInside(S, fid) == S # {} /\ ~TooOld(S, fid) /\ IsNotLater(fid, Latest(S))
IsAfter(S, fid)  == S # {} /\ ~TooOld(S, fid) /\ IsLater(fid, Latest(S))
Evicted(S, fid)  ==
    IF IsAfter(S, fid) THEN {f \in S : Distance(fid, f) >= N} ELSE {}

(* A set of ids that leaves only later ones behind.                        *)
IsPrefix(P, S) == \A f \in P, g \in S \ P : IsEarlier(f, g)
=============================================================================
