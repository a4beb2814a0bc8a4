---------------------------- MODULE StreamRecver ----------------------------
(***************************************************************************)
(* hpsp::StreamRecver: collects the frames of every stream of every sender *)
(* (identity) from the slices of its packets.  A frame sent in one slice   *)
(* is complete at once; a frame sent as forward-error-correction segments  *)
(* is complete when all its source symbols arrived, or Overhead symbols    *)
(* more than their number.  A complete frame is handed to the delegate     *)
(* (StmAssembler), which takes its segments; its record stays in the       *)
(* queue so that later slices of it are recognised and dropped.            *)
(*                                                                         *)
(* A packet carries slices of one identity, handled one after the other at *)
(* the tick of the packet.  GetRecvIdentity does nothing the second time   *)
(* in a tick, so a packet of many slices is as many packets of one slice.  *)
(***************************************************************************)
EXTENDS FrameIdWindow, FrameCollector, FiniteSets, FiniteSetsExt

CONSTANTS
    Identities,   \* senders
    Streams,      \* "audio", "thumb", "live"
    Ids,          \* the frame ids sent
    SrcNum,       \* source symbols of a video frame, 0 when it is not coded
    Segments,     \* the segments of symbols sent, [esi, cnt]
    Overhead,     \* symbolDecodeOverheadNum
    Timeout,      \* _frameTimeout and _identityTimeout
    MaxTick       \* bound of the clock

ASSUME SendersAssumption ==
    IsFiniteSet(Identities) /\ Streams \subseteq {"audio", "thumb", "live"}
(* The ids alive at one time lie within half a turn.                       *)
ASSUME IdsAssumption ==
    Ids \subseteq Fid /\ \E first \in Fid : \A f \in Ids : Distance(f, first) < Half
ASSUME CodingAssumption ==
    /\ SrcNum \in [Ids -> Nat]
    /\ \A s \in Segments : s.esi \in Nat /\ s.cnt \in Nat \ {0}
    /\ Overhead \in Nat
ASSUME ClockAssumption == Timeout \in Nat /\ MaxTick \in Nat

VARIABLES
    now,       \* the tick of the packets
    lastTick,  \* RecvIdentity::lastTick
    frames,    \* frames[identity][stream]: the queue, from ids to RecvFrames
    live,      \* what the allocators have handed out and not got back
    doneAt,    \* history: the tick every frame was last delivered at
    outcome,   \* what the last step did
    running    \* FALSE once the StreamRecver is destroyed

vars == <<now, lastTick, frames, live, doneAt, outcome, running>>

Never == -1
NoFrames == [f \in {} |-> {}]

SrcOf(st, fid) == IF st = "audio" THEN 0 ELSE SrcNum[fid]
IsCoded(st, fid) == SrcOf(st, fid) > 0

(* Which FixedSizeAllocator a stream's frames come from.                   *)
Pool(st) == IF st = "audio" THEN "audio" ELSE "video"

Did(what, since, src, segs) ==
    [what |-> what, since |-> since, src |-> src, segs |-> segs]
-----------------------------------------------------------------------------
(* IntAccumulator: the sum of the source symbols received, counted from 1. *)

GenAccumu(src) ==
    IF src % 2 = 0 THEN (src + 1) * (src \div 2) ELSE ((src + 1) \div 2) * src

RangeSum_FromZero(esi, cnt) ==
    IF cnt % 2 = 0 THEN (esi + esi + cnt - 1) * (cnt \div 2)
                   ELSE (esi + cnt \div 2) * cnt
RangeSum(esi, cnt) ==
    LET begin == esi + 1
        end   == esi + cnt
    IN  IF cnt % 2 = 0 THEN (begin + end) * (cnt \div 2)
                       ELSE (begin + cnt \div 2) * cnt

AddRange(sum, src, seg) ==
    IF sum = GenAccumu(src) \/ seg.esi >= src
    THEN sum
    ELSE sum + RangeSum(seg.esi, Min({seg.cnt, src - seg.esi}))

(* SegmentInsertComparer: neither after nor before the other one.          *)
IsDup_SameStart(seg, prev) == seg.esi = prev.esi
IsDup(seg, prev) ==
    ~(seg.esi >= prev.esi + prev.cnt) /\ ~(seg.esi + seg.cnt <= prev.esi)

(* IsMet, or enough symbols to decode.                                     *)
IsComplete(frm, src) == frm.sum = GenAccumu(src) \/ frm.recvSymNum >= src + Overhead

(* InsertFrameSegment, for a segment that is not a duplicate.              *)
WithSegment_NotListed(frm, src, seg) ==
    [frm EXCEPT !.recvSymNum = @ + seg.cnt, !.sum = AddRange(@, src, seg)]
WithSegment(frm, src, seg) ==
    [frm EXCEPT !.segs = @ \cup {seg},
                !.recvSymNum = @ + seg.cnt,
                !.sum = AddRange(@, src, seg)]

RawFrame == [done |-> TRUE, tick |-> now, segs |-> {}, recvSymNum |-> 0, sum |-> 0]
CodedFrame == [done |-> FALSE, tick |-> now, segs |-> {}, recvSymNum |-> 0, sum |-> 0]
-----------------------------------------------------------------------------
(* What the frames with ids R of a stream's queue q hold of an allocator:  *)
(* their segments, and themselves.                                         *)
HeldOf(pool, st, q, R) ==
    IF pool = "segs" THEN UNION {{f} \X q[f].segs : f \in R}
                     ELSE {f \in R : pool = Pool(st)}

(* Releasing them: the segments go back to the delegate and the frames to  *)
(* their allocator.                                                        *)
Release_FramesOnly(l, st, q, R) == [l EXCEPT ![Pool(st)] = @ - Cardinality(R)]
Release(l, st, q, R) ==
    [pool \in DOMAIN l |-> l[pool] - Cardinality(HeldOf(pool, st, q, R))]

(* ReleaseRecvIdentity: all the queues of an identity.                     *)
InQueues(pool, queues) ==
    UNION {{st} \X HeldOf(pool, st, queues[st], DOMAIN queues[st]) : st \in Streams}
ReleaseAll(l, queues) ==
    [pool \in DOMAIN l |-> l[pool] - Cardinality(InQueues(pool, queues))]

(* All the queues there are.                                               *)
Stored(pool, all) == UNION {{iden} \X InQueues(pool, all[iden]) : iden \in Identities}

Without(q, R) == [f \in DOMAIN q \ R |-> q[f]]

(* ObsoleteFrameVisitor: the frames that timed out, up to the first that   *)
(* did not.                                                                *)
Stale_Immediate(q) == {f \in DOMAIN q : q[f].done}
Stale(q) == {f \in DOMAIN q : q[f].tick + Timeout < now}
Obsolete(q) == {f \in Stale(q) : \A g \in DOMAIN q : IsEarlier(g, f) => g \in Stale(q)}

(* GetRecvIdentity: an identity not heard of for long starts afresh.  One  *)
(* that is not in the map yet is one with empty queues.                    *)
Expired(iden) == lastTick[iden] + Timeout < now

Queues(iden) ==
    IF Expired(iden) THEN [st \in Streams |-> NoFrames] ELSE frames[iden]
LiveThen(iden) ==
    IF Expired(iden) THEN ReleaseAll(live, frames[iden]) ELSE live

(* The queue ObsoleteFrames leaves to Insert.                              *)
Queue(iden, st) == Without(Queues(iden)[st], Obsolete(Queues(iden)[st]))
LiveBefore(iden, st) ==
    Release(LiveThen(iden), st, Queues(iden)[st], Obsolete(Queues(iden)[st]))

(* GetRecvFrame, for an id that is not too old: Insert evicts, and a new   *)
(* frame is allocated.                                                     *)
Inserted(q, fid, frm) ==
    [f \in (DOMAIN q \ Evicted(DOMAIN q, fid)) \cup {fid} |-> IF f = fid THEN frm ELSE q[f]]
LiveAfterInsert_NotAllocated(iden, st, fid) ==
    LET q == Queue(iden, st) IN
    Release(LiveBefore(iden, st), st, q, Evicted(DOMAIN q, fid))
LiveAfterInsert(iden, st, fid) ==
    LET q == Queue(iden, st)
        l == Release(LiveBefore(iden, st), st, q, Evicted(DOMAIN q, fid))
    IN  IF fid \in DOMAIN q THEN l ELSE [l EXCEPT ![Pool(st)] = @ + 1]

Commit(iden, st, q) ==
    /\ lastTick' = [lastTick EXCEPT ![iden] = now]
    /\ frames' = [frames EXCEPT ![iden] = [Queues(iden) EXCEPT ![st] = q]]
    /\ UNCHANGED <<now, running>>

(* HandleFrameRecved of the delegate.                                      *)
Deliver(iden, st, fid, segs) ==
    LET at == doneAt[<<iden, st, fid>>] IN
    /\ doneAt' = [doneAt EXCEPT ![<<iden, st, fid>>] = now]
    /\ outcome' = Did("delivered", IF at = Never THEN Never ELSE now - at,
                      SrcOf(st, fid), segs)

Drop(what) ==
    /\ outcome' = Did(what, Never, 0, {})
    /\ UNCHANGED doneAt
-----------------------------------------------------------------------------
Init ==
    /\ now = 0
    /\ lastTick = [iden \in Identities |-> 0]
    /\ frames = [iden \in Identities |-> [st \in Streams |-> NoFrames]]
    /\ live = [audio |-> 0, video |-> 0, segs |-> 0]
    /\ doneAt = [k \in Identities \X Streams \X Ids |-> Never]
    /\ outcome = Did("none", Never, 0, {})
    /\ running = TRUE

Tick ==
    /\ now < MaxTick
    /\ now' = now + 1
    /\ Drop("none")
    /\ UNCHANGED <<lastTick, frames, live, running>>

(* A slice of a frame older than the queue.                                *)
HandleTooLate(iden, st, fid) ==
    LET q == Queue(iden, st) IN
    /\ TooOld(DOMAIN q, fid)
    /\ Commit(iden, st, q)
    /\ live' = LiveBefore(iden, st)
    /\ Drop("too late")

HandleSliceNonFecPayload(iden, st, fid) ==
    LET q == Queue(iden, st) IN
    /\ ~IsCoded(st, fid)
    /\ ~TooOld(DOMAIN q, fid)
    /\ live' = LiveAfterInsert(iden, st, fid)
    /\ \/ /\ fid \notin DOMAIN q
          /\ Commit(iden, st, Inserted(q, fid, RawFrame))
          /\ Deliver(iden, st, fid, {})
       \/ /\ fid \in DOMAIN q
          /\ Commit(iden, st, q)
          /\ Drop("duplicate")

HandleSliceFecSegment(iden, st, fid, seg) ==
    LET q     == Queue(iden, st)
        src   == SrcOf(st, fid)
        base  == IF fid \in DOMAIN q THEN q[fid] ELSE CodedFrame
        frm   == [base EXCEPT !.tick = now]
        added == WithSegment(frm, src, seg)
        l     == LiveAfterInsert(iden, st, fid)
        dup   == \E prev \in frm.segs : IsDup(seg, prev)
    IN
    /\ IsCoded(st, fid)
    /\ ~TooOld(DOMAIN q, fid)
    /\ \/ /\ base.done
          /\ Commit(iden, st, q)
          /\ live' = l
          /\ Drop("duplicate")
       \/ /\ ~base.done
          /\ dup
          /\ Commit(iden, st, Inserted(q, fid, frm))
          /\ live' = l
          /\ Drop("duplicate segment")
       \/ /\ ~base.done
          /\ ~dup
          /\ ~IsComplete(added, src)
          /\ Commit(iden, st, Inserted(q, fid, added))
          /\ live' = [l EXCEPT !.segs = @ + 1]
          /\ Drop("segment")
       \/ /\ ~base.done
          /\ ~dup
          /\ IsComplete(added, src)
          /\ Commit(iden, st, Inserted(q, fid, [added EXCEPT !.done = TRUE, !.segs = {}]))
          /\ live' = [l EXCEPT !.segs = @ + 1 - Cardinality(added.segs)]
          /\ Deliver(iden, st, fid, added.segs)

(* ~StreamRecver                                                           *)
Destroy ==
    /\ running
    /\ running' = FALSE
    /\ frames' = [iden \in Identities |-> [st \in Streams |-> NoFrames]]
    /\ live' = [pool \in DOMAIN live |-> live[pool] - Cardinality(Stored(pool, frames))]
    /\ Drop("none")
    /\ UNCHANGED <<now, lastTick>>

HandleQPacket(iden, st, fid) ==
    /\ running
    /\ \/ HandleTooLate(iden, st, fid)
       \/ HandleSliceNonFecPayload(iden, st, fid)
       \/ \E seg \in Segments : HandleSliceFecSegment(iden, st, fid, seg)

Next ==
    \/ \E iden \in Identities, st \in Streams, fid \in Ids : HandleQPacket(iden, st, fid)
    \/ running /\ Tick
    \/ Destroy

Spec == Init /\ [][Next]_vars
-----------------------------------------------------------------------------
Frame == [done : BOOLEAN, tick : 0 .. MaxTick, segs : SUBSET Segments,
          recvSymNum : Nat, sum : Nat]

(* Every variable has its type.                                            *)
TypeOK ==
    /\ now \in 0 .. MaxTick
    /\ lastTick \in [Identities -> 0 .. MaxTick]
    /\ \A iden \in Identities : DOMAIN frames[iden] = Streams
    /\ \A iden \in Identities, st \in Streams :
          LET q == frames[iden][st] IN
          DOMAIN q \subseteq Ids /\ \A f \in DOMAIN q : q[f] \in Frame
    /\ live \in [audio : Nat, video : Nat, segs : Nat]
    /\ doneAt \in [Identities \X Streams \X Ids -> {Never} \cup 0 .. MaxTick]
    /\ running \in BOOLEAN

(* A frame is delivered again only when its record had timed out: neither  *)
(* eviction from the window, nor the time-out of other frames, nor late    *)
(* and duplicated slices bring a frame twice to the assembler before.      *)
RedeliveredOnlyAfterTimeout ==
    outcome.what = "delivered" => outcome.since = Never \/ outcome.since > Timeout

Symbols(segs) == UNION {s.esi .. s.esi + s.cnt - 1 : s \in segs}
Decodable(segs, src) ==
    \/ 0 .. src - 1 \subseteq Symbols(segs)
    \/ Cardinality(Symbols(segs)) >= src + Overhead

(* The accumulator and the symbol count agree with the symbols received: a *)
(* frame waits exactly as long as its segments do not suffice to decode.   *)
WaitsWhileUndecodable ==
    \A iden \in Identities, st \in Streams :
        LET q == frames[iden][st] IN
        \A f \in DOMAIN q : ~q[f].done => ~Decodable(q[f].segs, SrcOf(st, f))

(* The segments handed over suffice to decode their frame, and carry no    *)
(* symbol twice.                                                           *)
DeliversDecodable ==
    outcome.what = "delivered" /\ outcome.src > 0 =>
        /\ Decodable(outcome.segs, outcome.src)
        /\ \A s, t \in outcome.segs : s # t => Symbols({s}) \cap Symbols({t}) = {}

(* What the allocators miss is what the queues hold: no path through time- *)
(* out, eviction, reset, duplicates and delivery leaks or frees twice a    *)
(* frame or a segment.                                                     *)
AllocatorsExact ==
    \A pool \in DOMAIN live : live[pool] = Cardinality(Stored(pool, frames))

(* What StmAssembler takes a StreamRecver for, whatever times out, is      *)
(* evicted or starts afresh during the packet: it hands over segments with *)
(* a frame that they complete and not otherwise, and what it neither holds *)
(* nor hands over was given back.  The destructor leaves none.             *)
KindOf(o) ==
    IF o.what = "segment" THEN "segment"
    ELSE IF o.what # "delivered" THEN "nothing"
    ELSE IF o.src = 0 THEN "whole" ELSE "decode"
CollectsAsPromised ==
    [][IF running'
       THEN Collects(KindOf(outcome'), live.segs, live'.segs, Cardinality(outcome'.segs))
       ELSE live'.segs = 0]_vars

(* "we don't remove the completed frame, we need them in queue for         *)
(* placeholder": so no frame is delivered a second time.                   *)
DeliveredOnce == outcome.what = "delivered" => outcome.since = Never
=============================================================================
