------------------------------ MODULE NetPeer ------------------------------
(***************************************************************************)
(* MediaCloud::CAVMNetPeer: one sender of a session.  The recver thread    *)
(* puts its frames in a net queue; a decode thread takes them out in order *)
(* of their ids, decodes them and puts them in a decoded queue, where the  *)
(* mix threads of the session find them.  Audio and video have queues and  *)
(* threads of their own that work alike but for the key frames of video:   *)
(* kind says which of the two this is.  The other one only shows in that   *)
(* its data, too, keeps the peer alive.                                    *)
(*                                                                         *)
(* Both queues are FrameQueues.  Time is kept as the age of a time-stamp   *)
(* in seconds, up to the age after which nothing changes any more.         *)
(*                                                                         *)
(* LoopVideoNetFrameCBEntry returns nothing.  The makefile builds without  *)
(* optimisation, so the answer of the visitor it calls is still where      *)
(* LoopFrames takes its answer from, and that is the one modelled.         *)
(***************************************************************************)
EXTENDS FrameIdWindow, FiniteSets, FiniteSetsExt

CONSTANTS
    Kinds,     \* "audio", "video" or both
    Peers,     \* the peers of all the sessions of the process
    Ids,       \* the frame ids sent
    Keys,      \* the I and IDR frames among them, when they are video
    IdleTime,  \* 2 seconds: a peer not heard of for longer is reset
    WaitTime   \* AVM_MAX_AUDIO_WAIT_DEC_TIME, AVM_MAX_VIDEO_WAIT_DEC_TIME

ASSUME NetPeerAssumption ==
    /\ Kinds \subseteq {"audio", "video"}
    /\ IsFiniteSet(Peers) /\ Ids \subseteq Fid /\ Keys \subseteq Ids
    /\ IdleTime \in Nat /\ WaitTime \in Nat

VARIABLES
    kind,     \* "audio" or "video"
    net,      \* m_fqAudioNetFrame, m_fqVideoNetFrame
    dec,      \* m_fqAudioDecFrame, m_fqVideoDecFrame
    cur,      \* m_usCurAudioNetFrameID: the last id decoded, 0 for none
    idle,     \* the age of m_tickAlive
    waiting,  \* the age of tmWaitNextAudioNetFrame, a static of all threads
    pc,       \* where the decode thread is; in "loop" it holds the net lock
    adding,   \* the frame the recver thread is adding: <<peer, id>> or <<>>
    given,    \* history: the last frame given to the decoder
    live      \* frames allocated, and neither released nor taken by a mix

vars == <<kind, net, dec, cur, idle, waiting, pc, adding, given, live>>

NotWaiting == -1   \* tmWaitNextAudioNetFrame = 0
None == -1         \* nothing was given to the decoder since the start or reset
Lost == -2         \* the id of the frame was read after its release
Withheld == -3     \* a key frame did not get as far as the decoder

IsKey(f) == kind = "audio" \/ f \in Keys
IsIdle(p) == idle[p] > IdleTime
Expired == waiting >= WaitTime

(* The queues do not meet ids half a turn apart (see FrameQueue).          *)
NoHalfTurn(p, f) == \A g \in net[p] \cup dec[p] : Distance(f, g) # Half
-----------------------------------------------------------------------------
Init ==
    /\ kind \in Kinds
    /\ net = [p \in Peers |-> {}]
    /\ dec = [p \in Peers |-> {}]
    /\ cur = [p \in Peers |-> 0]
    /\ idle = [p \in Peers |-> 0]
    /\ waiting = NotWaiting
    /\ pc = [p \in Peers |-> "test"]
    /\ adding = <<>>
    /\ given = [p \in Peers |-> [last |-> None, follows |-> TRUE]]
    /\ live = 0

(* FrameQueue::Insert: the queue with the frame, and the frames released.  *)
Refused(q, f) == TooOld(q, f) \/ f \in q
Into(q, f) == IF Refused(q, f) THEN q ELSE (q \ Evicted(q, f)) \cup {f}
Released_NoEviction(q, f) == IF Refused(q, f) THEN 1 ELSE 0
Released(q, f) == IF Refused(q, f) THEN 1 ELSE Cardinality(Evicted(q, f))

(* AddAudioData, AddVideoData: the tick, then the lock and the queue.      *)
AddData(p, f) ==
    /\ adding = <<>>
    /\ NoHalfTurn(p, f)
    /\ adding' = <<p, f>>
    /\ idle' = [idle EXCEPT ![p] = 0]
    /\ live' = live + 1
    /\ UNCHANGED <<kind, net, dec, cur, waiting, pc, given>>

AddLocked ==
    /\ adding # <<>>
    /\ LET p == adding[1]
           f == adding[2]
       IN  /\ pc[p] # "loop"
           /\ net' = [net EXCEPT ![p] = Into(@, f)]
           /\ live' = live - Released(net[p], f)
    /\ adding' = <<>>
    /\ UNCHANGED <<kind, dec, cur, idle, waiting, pc, given>>

(* The other kind's data.                                                  *)
KeepAlive(p) ==
    /\ adding = <<>>
    /\ idle' = [idle EXCEPT ![p] = 0]
    /\ UNCHANGED <<kind, net, dec, cur, waiting, pc, adding, given, live>>

(* GetFirstAudioDecFrame, ExistTheSameAudioDecFrameAndPop: the leading     *)
(* peer's first frame, or a frame about as old as the leading one.         *)
Pop(p, f) ==
    /\ f \in dec[p]
    /\ dec' = [dec EXCEPT ![p] = @ \ {f}]
    /\ live' = live - 1
    /\ UNCHANGED <<kind, net, cur, idle, waiting, pc, adding, given>>
-----------------------------------------------------------------------------
(* AudioDecThreadImp, VideoDecThreadImp                                    *)

Test(p) ==
    /\ pc[p] = "test"
    /\ pc' = [pc EXCEPT ![p] = IF IsIdle(p) THEN "release" ELSE "loop"]
    /\ UNCHANGED <<kind, net, dec, cur, idle, waiting, adding, given, live>>

(* ReleaseAudioNetQueue, then ReleaseAudioDecQueue: what others do to one  *)
(* queue in between does not depend on the other queue.                    *)
Release(p) ==
    /\ pc[p] = "release"
    /\ pc' = [pc EXCEPT ![p] = "loop"]
    /\ net' = [net EXCEPT ![p] = {}]
    /\ dec' = [dec EXCEPT ![p] = {}]
    /\ live' = live - Cardinality(net[p]) - Cardinality(dec[p])
    /\ cur' = [cur EXCEPT ![p] = 0]
    /\ given' = [given EXCEPT ![p].last = None]
    /\ UNCHANGED <<kind, idle, waiting, adding>>

(* LoopFrames, one frame at a time: LoopAudioNetFrameCBImp and             *)
(* LoopVideoNetFrameCBImp for the first frame of the net queue.            *)
Visits(p, f) ==
    /\ pc[p] = "loop"
    /\ net[p] # {}
    /\ f = Earliest(net[p])
    /\ net' = [net EXCEPT ![p] = @ \ {f}]
    /\ UNCHANGED <<kind, idle, pc, adding>>

(* History, for video: the id given, and whether a P or B frame directly    *)
(* follows the one given before.                                           *)
Gives(p, f, last) ==
    IF kind = "audio" THEN UNCHANGED given
    ELSE given' = [given EXCEPT ![p] =
            [last |-> last, follows |-> IsKey(f) \/ @.last \in {f - 1, Lost, Withheld}]]

(* The frame is decoded.  InsertAudioDecFrame may release it, and its id   *)
(* is read after that.                                                     *)
DecodeSucceeds(p, f) ==
    /\ dec' = [dec EXCEPT ![p] = Into(@, f)]
    /\ live' = live - Released(dec[p], f)
    /\ IF Refused(dec[p], f)
       THEN \E id \in Fid : cur' = [cur EXCEPT ![p] = id] /\ Gives(p, f, Lost)
       ELSE cur' = [cur EXCEPT ![p] = f] /\ Gives(p, f, f)

DecodeFails_ReleasedTwice(p, f, id) ==
    /\ cur' = [cur EXCEPT ![p] = id]
    /\ live' = live - 2
    /\ Gives(p, f, f)
    /\ UNCHANGED dec
DecodeFails(p, f, id) ==
    /\ cur' = [cur EXCEPT ![p] = id]
    /\ live' = live - 1
    /\ Gives(p, f, f)
    /\ UNCHANGED dec

Drop(p, id) ==
    /\ cur' = [cur EXCEPT ![p] = id]
    /\ live' = live - 1
    /\ UNCHANGED <<dec, given>>

(* There is no decoder, or the SPS or PPS before a key frame is missing or *)
(* fails: the frame is not decoded, and is the current one all the same.   *)
Withholds(p, f) ==
    /\ kind = "video"
    /\ cur' = [cur EXCEPT ![p] = f]
    /\ live' = live - 1
    /\ given' = [given EXCEPT ![p].last = Withheld]
    /\ UNCHANGED dec

IsFirst(p) == cur[p] = 0
IsNext(p, f) == cur[p] # 0 /\ f = cur[p] + 1
IsOther(p, f) == cur[p] # 0 /\ f # cur[p] + 1

(* The queue has not reached the next id: its first frame is one that was  *)
(* passed over.                                                            *)
IsBehind(p, f) == IsLater(Ahead(cur[p], 1), f)

VisitFirst_AnyFrame(p, f) ==
    /\ IsFirst(p)
    /\ Visits(p, f)
    /\ DecodeSucceeds(p, f) \/ DecodeFails(p, f, 0)
    /\ UNCHANGED waiting
VisitFirst(p, f) ==
    /\ IsFirst(p)
    /\ Visits(p, f)
    /\ \/ IsKey(f) /\ DecodeSucceeds(p, f)
       \/ IsKey(f) /\ DecodeFails(p, f, 0)
       \/ Drop(p, 0)  \* no key frame, or one not decoded
    /\ UNCHANGED waiting

(* Here the frame is decoded whatever becomes of the SPS and the PPS.      *)
VisitNext(p, f) ==
    /\ IsNext(p, f)
    /\ Visits(p, f)
    /\ \/ DecodeSucceeds(p, f)
       \/ DecodeFails(p, f, f)
       \/ given[p].last = Withheld /\ Withholds(p, f)  \* still no decoder
    /\ UNCHANGED waiting

(* The visitor stops, and the thread sleeps.                               *)
Wait_TimerNotSet(p, f) ==
    /\ pc[p] = "loop"
    /\ net[p] # {}
    /\ f = Earliest(net[p])
    /\ IsOther(p, f)
    /\ IsBehind(p, f)
    /\ waiting = NotWaiting \/ ~Expired
    /\ pc' = [pc EXCEPT ![p] = "test"]
    /\ UNCHANGED <<kind, net, dec, cur, idle, waiting, adding, given, live>>
Wait(p, f) ==
    /\ pc[p] = "loop"
    /\ net[p] # {}
    /\ f = Earliest(net[p])
    /\ IsOther(p, f)
    /\ IsBehind(p, f)
    /\ waiting = NotWaiting \/ ~Expired
    /\ waiting' = IF waiting = NotWaiting THEN 0 ELSE waiting
    /\ pc' = [pc EXCEPT ![p] = "test"]
    /\ UNCHANGED <<kind, net, dec, cur, idle, adding, given, live>>

(* Only an id half a turn behind the next one comes here.                  *)
IsDropped(p, f) == kind = "audio" /\ ~IsBehind(p, f) /\ IsEarlier(f, cur[p])

VisitEarlier(p, f) ==
    /\ IsOther(p, f)
    /\ IsDropped(p, f)
    /\ Visits(p, f)
    /\ Drop(p, cur[p])
    /\ UNCHANGED waiting

VisitOther(p, f) ==
    /\ IsOther(p, f)
    /\ ~IsDropped(p, f)
    /\ ~IsBehind(p, f) \/ Expired
    /\ Visits(p, f)
    /\ waiting' = NotWaiting
    /\ \/ IsKey(f) /\ DecodeSucceeds(p, f)
       \/ IsKey(f) /\ DecodeFails(p, f, f)
       \/ IsKey(f) /\ Withholds(p, f)
       \/ ~IsKey(f) /\ Drop(p, 0)

EndLoop(p) ==
    /\ pc[p] = "loop"
    /\ net[p] = {}
    /\ pc' = [pc EXCEPT ![p] = "test"]
    /\ UNCHANGED <<kind, net, dec, cur, idle, waiting, adding, given, live>>

DecThread(p) ==
    \/ Test(p)
    \/ Release(p)
    \/ EndLoop(p)
    \/ \E f \in Ids :
          VisitFirst(p, f) \/ VisitNext(p, f) \/ Wait(p, f) \/ VisitEarlier(p, f) \/ VisitOther(p, f)
-----------------------------------------------------------------------------
(* A second passes.                                                        *)
Tick ==
    /\ idle' = [p \in Peers |-> Min({idle[p] + 1, IdleTime + 1})]
    /\ waiting' = IF waiting = NotWaiting THEN NotWaiting ELSE Min({waiting + 1, WaitTime})
    /\ UNCHANGED <<kind, net, dec, cur, pc, adding, given, live>>

Next ==
    \/ \E p \in Peers, f \in Ids : AddData(p, f) \/ Pop(p, f)
    \/ AddLocked
    \/ \E p \in Peers : KeepAlive(p) \/ DecThread(p)
    \/ Tick

(* The operating system runs the threads, and time passes.                 *)
Fairness == WF_vars(AddLocked) /\ WF_vars(Tick) /\ \A p \in Peers : WF_vars(DecThread(p))

Spec == Init /\ [][Next]_vars
FairSpec == Spec /\ Fairness
-----------------------------------------------------------------------------
(* Every variable has its type.                                            *)
TypeOK ==
    /\ kind \in Kinds
    /\ net \in [Peers -> SUBSET Ids] /\ dec \in [Peers -> SUBSET Ids]
    /\ cur \in [Peers -> Fid]
    /\ idle \in [Peers -> 0 .. IdleTime + 1]
    /\ waiting \in {NotWaiting} \cup 0 .. WaitTime
    /\ pc \in [Peers -> {"test", "release", "loop"}]
    /\ adding \in {<<>>} \cup Peers \X Ids
    /\ given \in [Peers -> [last : Ids \cup {None, Lost, Withheld}, follows : BOOLEAN]]
    /\ live \in Nat

(* Every frame is in one queue or with the recver thread: none leaks and   *)
(* none is released twice, whichever queue refuses or evicts it.           *)
Queued(queues) == UNION {{p} \X queues[p] : p \in Peers}
FramesExact ==
    live = (IF adding = <<>> THEN 0 ELSE 1) + Cardinality(Queued(net)) + Cardinality(Queued(dec))

(* A P or B frame is given to the decoder only directly after the frame it *)
(* follows; after a gap, a loss or a reset the thread drops frames until   *)
(* the next key frame.  There are two exceptions: the frames that come     *)
(* after a key frame whose SPS or PPS failed, which the code takes for     *)
(* decoded, and those after a read of a released id.                       *)
PFramesFollow == \A p \in Peers : given[p].follows

(* Every frame leaves the net queue: decoded, dropped or evicted.  With    *)
(* two peers the static timer can be restarted for ever.                   *)
FramesLeave == \A p \in Peers, f \in Ids : f \in net[p] ~> f \notin net[p]

(* "wait 2 seconds for the next correct audio net frame": before another   *)
(* frame is taken from the net queue in its place.                         *)
WaitsForNext ==
    [][\A p \in Peers, f \in Ids :
          pc[p] = "loop" /\ f \in net[p] \ net'[p] /\ IsOther(p, f) => Expired]_vars
=============================================================================
