-------------------------- MODULE FrameIdComparer --------------------------
(***************************************************************************)
(* Frame ids are unsigned 16 bit numbers that wrap around.  The code       *)
(* compares two of them by their distance on that circle: an id is later   *)
(* than another when it lies strictly less than half a turn ahead of it.   *)
(*                                                                         *)
(* Half is 0x8000 in the code.  A conversion to uint16_t of a sum or a     *)
(* difference of two ids is one turn added or taken away, which is what    *)
(* Distance and Ahead do.                                                  *)
(***************************************************************************)
EXTENDS Integers

CONSTANT Half   \* half the number of frame ids

ASSUME HalfAssumption == Half \in Nat \ {0}

FidMod == 2 * Half
Fid    == 0 .. FidMod - 1

(* static_cast<uint16_t>(later - prev) *)
Distance(later, prev) ==
    IF later >= prev THEN later - prev ELSE later - prev + FidMod

(* static_cast<uint16_t>(fid + n), for n in 0..FidMod *)
Ahead_NoWrap(fid, n) == fid + n
Ahead(fid, n) ==
    IF fid + n >= FidMod THEN fid + n - FidMod ELSE fid + n

IsLater(later, prev)          == later # prev /\ Distance(later, prev) < Half
IsEarlier(earlier, later)     == later # earlier /\ Distance(later, earlier) < Half
IsNotLater(notLater, prev)    == notLater = prev \/ Distance(prev, notLater) < Half
IsNotEarlier(notEarlier, prev) == notEarlier = prev \/ Distance(notEarlier, prev) < Half
=============================================================================
