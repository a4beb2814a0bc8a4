--------------------------- MODULE FrameCollector ---------------------------
(***************************************************************************)
(* What StmAssembler relies on of a hpsp::StreamRecver, for every packet   *)
(* it has it handle: how many segments the StreamRecver holds afterwards   *)
(* and how many it hands over with a frame.  StmAssembler is composed with *)
(* this; that StreamRecver does no more and no less is a property of it.   *)
(***************************************************************************)
EXTENDS Naturals

(* A packet brings nothing that is kept (a slice of a frame that is too    *)
(* old, delivered or a duplicate), a segment that is kept, a frame sent    *)
(* whole, or the last segment of a frame: all of its source symbols are    *)
(* there then, or it can be decoded.                                       *)
Kinds == {"nothing", "segment", "whole", "met", "decode"}
Completing == {"met", "decode"}
BringsSegment == Completing \cup {"segment"}

(* Segments held before, and the one that came, are held or handed over    *)
(* after, or given back with frames that timed out or left the window.     *)
(* The one that came is not among those, and only a frame that it          *)
(* completes is handed over with segments.                                 *)
Collects(kind, before, after, handed) ==
    /\ after \in Nat /\ handed \in Nat
    /\ after + handed <= before + (IF kind \in BringsSegment THEN 1 ELSE 0)
    /\ kind = "segment" => after > 0
    /\ kind \in Completing <=> handed > 0
=============================================================================
