----------------------------- MODULE TimeStamps -----------------------------
(***************************************************************************)
(* Comparing the time-stamps of frames.  They are unsigned 32 bit numbers  *)
(* of milliseconds that wrap around.  The test whether the frames of two   *)
(* peers belong together is made in two ways: on the circle, by TSIsSame,  *)
(* TSIsEarlier and TSIsLater, and by the plain difference, in the visitors *)
(* that look for a frame.                                                  *)
(***************************************************************************)
EXTENDS Integers

CONSTANTS
    TsHalf,    \* 0x80000000
    Duration   \* AVM_AUDIO_DURATION, AVM_VIDEO_DURATION: the adjust of the tests

ASSUME TimeStampAssumption ==
    /\ TsHalf \in Nat \ {0}
    /\ Duration \in Nat /\ Duration < TsHalf

TsMod == 2 * TsHalf
TimeStamp == 0 .. TsMod - 1

(* static_cast<uint32_t>(first - second) *)
Space(first, second) ==
    IF first >= second THEN first - second ELSE first - second + TsMod

TSIsSame(first, second) == Duration >= Space(first, second) \/ Duration >= Space(second, first)
TSIsEarlier(earlier, later) == ~TSIsSame(later, earlier) /\ Space(later, earlier) < TsHalf
TSIsLater_NotAdjusted(later, prev) == Space(later, prev) < TsHalf
TSIsLater(later, prev) == ~TSIsSame(later, prev) /\ Space(later, prev) < TsHalf

(* LoopFoundAudioDecFrameCBImp, LoopFoundVideoDecFrameCBImp                *)
IsNear(src, tmp) == src - tmp <= Duration /\ tmp - src <= Duration

(* The two on either side of the wrap.                                     *)
AcrossWrap(a, b) == a - b > TsHalf \/ b - a > TsHalf
=============================================================================
