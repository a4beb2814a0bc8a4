----------------------------- MODULE FrameQueue -----------------------------
(***************************************************************************)
(* cppcmn::FrameQueue<N, S>: the window of frames every stream keeps, over *)
(* cppcmn::FixedSizeCircleQueue, a ring of N slots.  The used slots carry  *)
(* consecutive frame ids; a slot whose frame has not arrived, or was       *)
(* removed from the middle, is marked empty.  The first and the last used  *)
(* slot always hold a frame.                                               *)
(*                                                                         *)
(* Assert() ends the process: an operation whose assertion fails sets      *)
(* failedIn, and nothing happens after it.  Every assertion of frmqueue.h  *)
(* and of the ring is a condition of the step it stands in, evaluated in   *)
(* whatever state the step finds; the two on a slot's address (fqueue.h:26 *)
(* and 45) are the type of slotBegin.                                      *)
(***************************************************************************)
EXTENDS FrameIdComparer, FiniteSets

CONSTANT N   \* slots of the ring, the template parameter N

ASSUME CapacityAssumption == N \in 1 .. Half

VARIABLES
    slotBegin,  \* _queue._slotBegin, the ring cell of the first used slot
    slotCnt,    \* _queue._slotCnt, the number of used slots
    cells,      \* _queue._buffer: the id and the empty flag of every cell
    fidBegin,   \* _fidBegin, meaningful only when frmCnt > 0
    fidEnd,     \* _fidEnd, meaningful only when frmCnt > 0
    frmCnt,     \* _frmCnt
    out,        \* what the last operation returned and handed to callbacks
    failedIn    \* the operation an assertion failed in, "none" while it runs

ring == <<slotBegin, slotCnt, cells>>
vars == <<ring, fidBegin, fidEnd, frmCnt, out, failedIn>>

Cells == 0 .. N - 1

VisitorRes == {"Continue", "DeletedContinue", "Stop", "DeletedStop"}
IsDeleted(res) == res \in {"DeletedContinue", "DeletedStop"}
IsStop(res)    == res \in {"Stop", "DeletedStop"}

Result(op, slot, isnew, freed) ==
    [op |-> op, slot |-> slot, isnew |-> isnew, freed |-> freed]
-----------------------------------------------------------------------------
(* FixedSizeCircleQueue: the cell of the slot at an index, and back.       *)

At(idx) == IF slotBegin + idx >= N THEN slotBegin + idx - N ELSE slotBegin + idx

RingDistance(c, begin) == IF c >= begin THEN c - begin ELSE c - begin + N
IndexOf(c) == RingDistance(c, slotBegin)

Held     == {c \in Cells : IndexOf(c) < slotCnt /\ ~cells[c].empty}
Fids(C)  == {cells[c].fid : c \in C}
FirstOf(C) == CHOOSE c \in C : \A d \in C : IndexOf(c) <= IndexOf(d)
LastOf(C)  == CHOOSE c \in C : \A d \in C : IndexOf(c) >= IndexOf(d)

Filled(fid) == [empty |-> FALSE, fid |-> fid]

Fail(op) ==
    /\ failedIn' = op
    /\ UNCHANGED <<ring, fidBegin, fidEnd, frmCnt, out>>

(* QuickReset *)
Clear ==
    /\ slotBegin' = 0
    /\ slotCnt' = 0
    /\ frmCnt' = 0
-----------------------------------------------------------------------------
Init ==
    /\ slotBegin = 0
    /\ slotCnt = 0
    /\ cells = [c \in Cells |-> [empty |-> FALSE, fid |-> 0]]
    /\ fidBegin \in Fid     \* not initialized by the constructor
    /\ fidEnd \in Fid
    /\ frmCnt = 0
    /\ out = Result("none", FALSE, FALSE, {})
    /\ failedIn = "none"

(* The first frame of an empty queue goes to the cell c.                   *)
StartWith(fid, c) ==
    /\ cells' = [cells EXCEPT ![c] = Filled(fid)]
    /\ slotBegin' = c
    /\ slotCnt' = 1
    /\ fidBegin' = fid
    /\ fidEnd' = fid
    /\ frmCnt' = 1

InsertFirst(fid) ==
    /\ frmCnt = 0
    /\ IF slotCnt = 0
       THEN /\ StartWith(fid, At(slotCnt))
            /\ out' = Result("insert", TRUE, TRUE, {})
            /\ UNCHANGED failedIn
       ELSE Fail("insert")

InsertTooOld(fid) ==
    /\ frmCnt # 0
    /\ IsEarlier(fid, fidBegin)
    /\ out' = Result("insert", FALSE, FALSE, {})
    /\ UNCHANGED <<ring, fidBegin, fidEnd, frmCnt, failedIn>>

(* The slot an id between fidBegin and fidEnd is looked for in is a used   *)
(* slot and carries that id: the assertions of Insert and of At(fid).      *)
SlotCarries(fid) ==
    LET idx == Distance(fid, fidBegin) IN idx < slotCnt /\ cells[At(idx)].fid = fid

InsertInside(fid) ==
    LET c == At(Distance(fid, fidBegin)) IN
    /\ frmCnt # 0
    /\ ~IsEarlier(fid, fidBegin)
    /\ IsNotLater(fid, fidEnd)
    /\ IF SlotCarries(fid)
       THEN /\ cells' = [cells EXCEPT ![c].empty = FALSE]
            /\ frmCnt' = IF cells[c].empty THEN frmCnt + 1 ELSE frmCnt
            /\ out' = Result("insert", TRUE, cells[c].empty, {})
            /\ UNCHANGED <<slotBegin, slotCnt, fidBegin, fidEnd, failedIn>>
       ELSE Fail("insert")

(* FreeSlotForNewFrame: the scan from the first slot stops at a frame that *)
(* fits in the ring together with fid, and evicts the frames before it.    *)
FitsWith_OneTooFar(fid) == {c \in Held : Distance(fid, cells[c].fid) <= N}
FitsWith(fid) == {c \in Held : Distance(fid, cells[c].fid) < N}

HeldBefore_Forgotten(first) == {}
HeldBefore(first) == {c \in Held : IndexOf(c) < IndexOf(first)}

(* When none fits, the count of frames and the slots run out together, and *)
(* the queue starts anew; else a frame is left, and empty slots are        *)
(* appended up to fid.                                                     *)
MayFree(fid) == frmCnt > 0 /\ frmCnt <= slotCnt /\ IsLater(fid, fidEnd)
RunsOut == frmCnt = Cardinality(Held) /\ At(slotCnt - 1) \in Held

InsertAfter(fid) ==
    LET fits    == FitsWith(fid)
        first   == FirstOf(fits)
        evicted == HeldBefore(first)
        left    == slotCnt - IndexOf(first)
        added   == Distance(fid, fidEnd)
        isNew(c) == RingDistance(c, first) \in left .. left + added - 1
        nextId(c) == Ahead(fidEnd, RingDistance(c, first) - left + 1)
    IN
    /\ frmCnt # 0
    /\ ~IsEarlier(fid, fidBegin)
    /\ ~IsNotLater(fid, fidEnd)
    /\ \/ /\ ~MayFree(fid)
          /\ Fail("insert")
       \/ /\ MayFree(fid)
          /\ fits = {}
          /\ IF RunsOut
             THEN /\ StartWith(fid, At(slotCnt))
                  /\ out' = Result("insert", TRUE, TRUE, Fids(Held))
                  /\ UNCHANGED failedIn
             ELSE Fail("insert")
       \/ /\ MayFree(fid)
          /\ fits # {}
          /\ IF frmCnt > Cardinality(evicted) /\ left + added <= N
             THEN /\ slotBegin' = first
                  /\ slotCnt' = left + added
                  /\ cells' = [c \in Cells |->
                        IF isNew(c) THEN [empty |-> nextId(c) # fid, fid |-> nextId(c)]
                                    ELSE cells[c]]
                  /\ fidBegin' = cells[first].fid
                  /\ fidEnd' = fid
                  /\ frmCnt' = frmCnt - Cardinality(evicted) + 1
                  /\ out' = Result("insert", TRUE, TRUE, Fids(evicted))
                  /\ UNCHANGED failedIn
             ELSE Fail("insert")

Insert(fid) ==
    InsertFirst(fid) \/ InsertTooOld(fid) \/ InsertInside(fid) \/ InsertAfter(fid)
-----------------------------------------------------------------------------
(* At(fid): the slot of a held frame.                                      *)
InRange(fid) ==
    /\ frmCnt > 0
    /\ IsNotEarlier(fid, fidBegin)
    /\ IsNotLater(fid, fidEnd)

IsHeld(fid) ==
    /\ InRange(fid)
    /\ SlotCarries(fid)
    /\ ~cells[At(Distance(fid, fidBegin))].empty

RemoveNothing(fid) ==
    /\ ~IsHeld(fid)
    /\ IF InRange(fid) => SlotCarries(fid)
       THEN /\ out' = Result("remove", FALSE, FALSE, {})
            /\ UNCHANGED <<ring, fidBegin, fidEnd, frmCnt, failedIn>>
       ELSE Fail("remove")

RemoveOnly(fid) ==
    LET c == At(Distance(fid, fidBegin)) IN
    /\ IsHeld(fid)
    /\ frmCnt = 1
    /\ IF fid = fidBegin /\ fid = fidEnd
       THEN /\ Clear
            /\ cells' = [cells EXCEPT ![c].empty = TRUE]
            /\ out' = Result("remove", TRUE, FALSE, {fid})
            /\ UNCHANGED <<fidBegin, fidEnd, failedIn>>
       ELSE Fail("remove")

(* Removing the first or the last frame also gives back the empty slots    *)
(* between it and the next frame held.                                     *)
RemoveOneOfMany_OneSlot(fid) ==
    /\ IsHeld(fid)
    /\ frmCnt > 1
    /\ fid = fidBegin
    /\ cells' = [cells EXCEPT ![slotBegin].empty = TRUE]
    /\ frmCnt' = frmCnt - 1
    /\ out' = Result("remove", TRUE, FALSE, {fid})
    /\ slotBegin' = At(1)
    /\ slotCnt' = slotCnt - 1
    /\ fidBegin' = cells[At(1)].fid
    /\ UNCHANGED <<fidEnd, failedIn>>
RemoveOneOfMany(fid) ==
    LET c       == At(Distance(fid, fidBegin))
        stay    == IF Held = {c} THEN Held ELSE Held \ {c}
        isFirst == fid = fidBegin
        isLast  == fid # fidBegin /\ fid = fidEnd
        first   == IF isFirst THEN FirstOf(stay) ELSE slotBegin
        cnt     == IF isLast THEN IndexOf(LastOf(stay)) + 1 ELSE slotCnt - IndexOf(first)
    IN
    /\ IsHeld(fid)
    /\ frmCnt > 1
    /\ IF /\ isFirst => c = slotBegin
          /\ isLast => c = At(slotCnt - 1)
          /\ frmCnt - 1 <= cnt
       THEN /\ cells' = [cells EXCEPT ![c].empty = TRUE]
            /\ frmCnt' = frmCnt - 1
            /\ slotBegin' = first
            /\ slotCnt' = cnt
            /\ fidBegin' = IF isFirst THEN cells[first].fid ELSE fidBegin
            /\ fidEnd' = IF isLast THEN cells[LastOf(stay)].fid ELSE fidEnd
            /\ out' = Result("remove", TRUE, FALSE, {fid})
            /\ UNCHANGED failedIn
       ELSE Fail("remove")

Remove(fid) == RemoveNothing(fid) \/ RemoveOnly(fid) \/ RemoveOneOfMany(fid)

Reset ==
    IF IF frmCnt > 0 THEN slotCnt >= frmCnt ELSE slotCnt = 0
    THEN /\ Clear
         /\ out' = Result("reset", FALSE, FALSE, Fids(Held))
         /\ UNCHANGED <<cells, fidBegin, fidEnd, failedIn>>
    ELSE Fail("reset")
-----------------------------------------------------------------------------
(* LoopFrames with a visitor that answers res[c] for the frame in cell c:  *)
(* frames are visited in id order until one answers a stop or the count of *)
(* frames reaches zero.                                                    *)
DeletedBefore(c, res) == {d \in Held : IndexOf(d) < IndexOf(c) /\ IsDeleted(res[d])}
Visited(res) ==
    {c \in Held : /\ \A d \in Held : IsStop(res[d]) => IndexOf(c) <= IndexOf(d)
                  /\ Cardinality(DeletedBefore(c, res)) < frmCnt}
Deleted(res) == {c \in Visited(res) : IsDeleted(res[c])}
Kept(res)    == Visited(res) \ Deleted(res)

(* The first slot is that of fidBegin and holds a frame.                   *)
LoopEnters ==
    /\ slotCnt >= frmCnt
    /\ cells[slotBegin].fid = fidBegin
    /\ ~cells[slotBegin].empty

LoopNothing ==
    /\ frmCnt = 0
    /\ IF slotCnt = 0
       THEN /\ out' = Result("loop", FALSE, FALSE, {})
            /\ UNCHANGED <<ring, fidBegin, fidEnd, frmCnt, failedIn>>
       ELSE Fail("loop")

LoopDeletesAll(res) ==
    /\ frmCnt # 0
    /\ Cardinality(Deleted(res)) = frmCnt
    /\ IF /\ LoopEnters
          /\ \A c \in Visited(res) : cells[c].fid = fidEnd => c = LastOf(Visited(res))
       THEN /\ Clear
            /\ cells' = [c \in Cells |-> [cells[c] EXCEPT !.empty = @ \/ c \in Deleted(res)]]
            /\ out' = Result("loop", FALSE, FALSE, Fids(Deleted(res)))
            /\ UNCHANGED <<fidBegin, fidEnd, failedIn>>
       ELSE Fail("loop")

(* The frame fidEnd must be in the last slot, with a frame kept.  When it  *)
(* was deleted, the slots from the last kept one on, that one included, go *)
(* at the tail.  emptyAtBegin slots go at the front.                       *)
LoopKeepsSome(res) ==
    LET emptyAtBegin == IF Kept(res) # {} THEN IndexOf(FirstOf(Kept(res)))
                                          ELSE IndexOf(LastOf(Visited(res))) + 1
        lastGone == \E c \in Deleted(res) : cells[c].fid = fidEnd
        cnt      == IF lastGone THEN IndexOf(LastOf(Kept(res))) ELSE slotCnt
        newEnd   == IF lastGone THEN cells[LastOf(Kept(res))].fid ELSE fidEnd
        newFirst == At(emptyAtBegin)
        newCnt   == frmCnt - Cardinality(Deleted(res))
    IN
    /\ frmCnt # 0
    /\ Cardinality(Deleted(res)) # frmCnt
    /\ IF /\ LoopEnters
          /\ \A c \in Visited(res) : cells[c].fid = fidEnd =>
                Kept(res) # {} /\ newCnt > 0 /\ c = At(slotCnt - 1)
          /\ emptyAtBegin < cnt
          /\ newFirst \in Held \ Deleted(res)
          /\ IsNotLater(cells[newFirst].fid, newEnd)
          /\ newCnt <= cnt - emptyAtBegin
       THEN /\ cells' = [c \in Cells |-> [cells[c] EXCEPT !.empty = @ \/ c \in Deleted(res)]]
            /\ slotBegin' = newFirst
            /\ slotCnt' = cnt - emptyAtBegin
            /\ fidBegin' = cells[newFirst].fid
            /\ fidEnd' = newEnd
            /\ frmCnt' = newCnt
            /\ out' = Result("loop", FALSE, FALSE, Fids(Deleted(res)))
            /\ UNCHANGED failedIn
       ELSE Fail("loop")

LoopFrames(res) == LoopNothing \/ LoopDeletesAll(res) \/ LoopKeepsSome(res)

(* What the visitors of this code base answer: none deletes and stops, and *)
(* none deletes a frame after keeping an earlier one.                      *)
CallerVisitor(res) ==
    \A c \in Held :
        /\ res[c] # "DeletedStop"
        /\ IsDeleted(res[c]) =>
              \A d \in Held : IndexOf(d) < IndexOf(c) => IsDeleted(res[d])
-----------------------------------------------------------------------------
Operate(fid) == Insert(fid) \/ Remove(fid)

Next ==
    /\ failedIn = "none"
    /\ \/ \E fid \in Fid : Operate(fid)
       \/ Reset
       \/ \E res \in [Held -> VisitorRes] : CallerVisitor(res) /\ LoopFrames(res)

Spec == Init /\ [][Next]_vars
-----------------------------------------------------------------------------
(* Every variable has its type.                                            *)
TypeOK ==
    /\ slotBegin \in Cells
    /\ slotCnt \in 0 .. N
    /\ cells \in [Cells -> [empty : BOOLEAN, fid : Fid]]
    /\ fidBegin \in Fid
    /\ fidEnd \in Fid
    /\ frmCnt \in 0 .. N
    /\ out \in [op : {"none", "insert", "remove", "reset", "loop"},
                slot : BOOLEAN, isnew : BOOLEAN, freed : SUBSET Fid]
    /\ failedIn \in {"none", "insert", "remove", "reset", "loop"}

(* The used slots carry consecutive ids from fidBegin, also across the end *)
(* of the ring and the wrap of the ids, so that indexing by the distance   *)
(* from fidBegin (Insert, At) finds the slot of that very frame.           *)
SlotsContiguous ==
    \A c \in Cells : IndexOf(c) < slotCnt => cells[c].fid = Ahead(fidBegin, IndexOf(c))

(* "the first slot in queue must be a valid frame if _frmCnt > 0 !!", and  *)
(* so must the last, whose id fidEnd is.                                   *)
EndsHeld ==
    frmCnt > 0 => /\ slotCnt > 0
                  /\ ~cells[slotBegin].empty
                  /\ ~cells[At(slotCnt - 1)].empty
                  /\ fidEnd = Ahead(fidBegin, slotCnt - 1)

(* _frmCnt counts the frames held: no path through Insert, Remove, Reset   *)
(* and LoopFrames forgets or counts twice one of them.                     *)
CountExact ==
    /\ frmCnt = Cardinality(Held)
    /\ frmCnt = 0 => slotCnt = 0

(* The ring keeps its shape: the used slots are a window of consecutive    *)
(* ids that begins and ends with a frame held, and the count is that of    *)
(* the frames in it.                                                       *)
RingShape == SlotsContiguous /\ EndsHeld /\ CountExact

(* Of all the assertions of the queue and of its ring only that the new id *)
(* is later than the last one (FreeSlotForNewFrame) can fail, and only for *)
(* an id exactly half a turn away from the first one.                      *)
OnlyHalfTurnFails ==
    [][failedIn' = "none" \/ \E fid \in Fid : /\ InsertAfter(fid)
                                            /\ frmCnt \in 1 .. slotCnt
                                            /\ ~IsLater(fid, fidEnd)
                                            /\ Distance(fid, fidBegin) = Half]_vars

(* The ring implements the window of ids it stands for.                    *)
Window == INSTANCE FrameWindow WITH held <- Fids(Held)
ImplementsWindow == Window!Spec

(* Assert(IsLater(fid, _fidEnd)) of FreeSlotForNewFrame.                   *)
InsertNeverFails == failedIn # "insert"
=============================================================================
