---------------------------- MODULE SessionMixer ----------------------------
(***************************************************************************)
(* A mix thread of MediaCloud::CAVMSession, ProcessAudioThreadImp or       *)
(* ProcessVideoThreadImp: kind says which.  It takes the first decoded     *)
(* frame of the leading peer, looks in the decoded queue of the minor peer *)
(* for a frame of about the same time, for up to three seconds, and mixes  *)
(* what it has.  The decode threads of the peers (NetPeer) fill the queues *)
(* meanwhile, each under the lock of the queue, and the bizs thread adds   *)
(* the peers, under no lock that the mix threads take.                     *)
(*                                                                         *)
(* There is one minor peer, as AVM_MAX_NETPEER_SIZE says, and time is the  *)
(* number of seconds the thread has been waiting.                          *)
(***************************************************************************)
EXTENDS FrameIdWindow, TimeStamps, FiniteSets

CONSTANTS
    Kinds,     \* "audio", "video" or both
    Ids,       \* the frame ids decoded
    LeadTs,    \* uiTimeStamp of the leading peer's frames
    MinorTs,   \* of the minor peer's
    WaitTime   \* 2: the seconds after which the thread waits no longer

ASSUME MixerAssumption ==
    /\ Kinds \subseteq {"audio", "video"}
    /\ Ids \subseteq Fid
    /\ LeadTs \in [Ids -> TimeStamp] /\ MinorTs \in [Ids -> TimeStamp]
    /\ WaitTime \in Nat
(* The stamps of a peer follow its ids, and those of N frames in a row lie *)
(* close together: half a turn is 24 days.                                 *)
ASSUME StampsAssumption ==
    \A f, g \in Ids :
        Distance(g, f) < N => Space(MinorTs[g], MinorTs[f]) + Duration <= TsHalf

VARIABLES
    kind,     \* "audio" or "video"
    leading,  \* m_pLeadingPeer is set
    count,    \* m_usPeerCount
    stored,   \* m_pPeers[0] is set
    leadQ,    \* the leading peer's m_fqAudioDecFrame, m_fqVideoDecFrame
    minorQ,   \* the minor peer's
    pc,       \* where the mix thread is
    lead,     \* pAudioNetFrameLeading, pVideoNetFrameLeading
    cur,      \* the minor peer's m_pCurAudioDecFrame, m_pCurVideoDecFrame
    status,   \* its m_eCurAudioDecFrameStatus, m_eCurVideoDecFrameStatus
    waited,   \* tmNow - tmPre
    live,     \* decoded frames that are not released
    mixed,    \* history: the minor peer's frame in the mix just made
    failed    \* an entry of m_pPeers was used before it was stored

vars == <<kind, leading, count, stored, leadQ, minorQ, pc, lead, cur, status, waited,
          live, mixed, failed>>

None == -1
Frame == Ids \cup {None}

Same(f, g) == TSIsSame(LeadTs[f], MinorTs[g])
Near(f, g) == IsNear(LeadTs[f], MinorTs[g])
-----------------------------------------------------------------------------
Init ==
    /\ kind \in Kinds
    /\ leading = FALSE /\ count = 0 /\ stored = FALSE
    /\ leadQ = {} /\ minorQ = {}
    /\ pc = "take" /\ lead = None
    /\ cur = None /\ status = "unknown"
    /\ waited = 0
    /\ live = 0
    /\ mixed = None
    /\ failed = FALSE

(* The bizs thread: SetLeadingPeer, and the two stores of AddPeer, in      *)
(* whichever order they are made.                                          *)
SetLeadingPeer ==
    /\ ~leading
    /\ leading' = TRUE
    /\ UNCHANGED <<kind, count, stored, leadQ, minorQ, pc, lead, cur, status, waited,
                   live, mixed, failed>>

AddPeer_Count ==
    /\ leading /\ count = 0
    /\ count' = 1
    /\ UNCHANGED <<kind, leading, stored, leadQ, minorQ, pc, lead, cur, status, waited,
                   live, mixed, failed>>

AddPeer_Store ==
    /\ leading /\ ~stored
    /\ stored' = TRUE
    /\ UNCHANGED <<kind, leading, count, leadQ, minorQ, pc, lead, cur, status, waited,
                   live, mixed, failed>>

(* InsertAudioDecFrame, InsertVideoDecFrame: FrameQueue::Insert, and the   *)
(* frames it releases.  The queues do not meet ids half a turn apart.      *)
Refused(q, f) == TooOld(q, f) \/ f \in q
Into(q, f) == IF Refused(q, f) THEN q ELSE (q \ Evicted(q, f)) \cup {f}
Released(q, f) == IF Refused(q, f) THEN 1 ELSE Cardinality(Evicted(q, f))
NoHalfTurn(q, f) == \A g \in q : Distance(f, g) # Half

DecodedLead(f) ==
    /\ leading /\ NoHalfTurn(leadQ, f)
    /\ leadQ' = Into(leadQ, f)
    /\ live' = live + 1 - Released(leadQ, f)
    /\ UNCHANGED <<kind, leading, count, stored, minorQ, pc, lead, cur, status, waited,
                   mixed, failed>>

(* Frames come only when FindPeer finds the peer.                          *)
DecodedMinor(f) ==
    /\ count = 1 /\ stored /\ NoHalfTurn(minorQ, f)
    /\ minorQ' = Into(minorQ, f)
    /\ live' = live + 1 - Released(minorQ, f)
    /\ UNCHANGED <<kind, leading, count, stored, leadQ, pc, lead, cur, status, waited,
                   mixed, failed>>

(* ReleaseAudioDecQueue, ReleaseVideoDecQueue of a peer not heard of.      *)
ReleaseDecQueue_LeftInQueue ==
    /\ \/ leadQ # {} /\ live' = live - Cardinality(leadQ)
       \/ minorQ # {} /\ live' = live - Cardinality(minorQ)
    /\ UNCHANGED <<kind, leading, count, stored, leadQ, minorQ, pc, lead, cur, status,
                   waited, mixed, failed>>
ReleaseDecQueue ==
    /\ \/ leadQ # {} /\ leadQ' = {} /\ UNCHANGED minorQ
       \/ minorQ # {} /\ minorQ' = {} /\ UNCHANGED leadQ
    /\ live' = live - Cardinality(leadQ \ leadQ') - Cardinality(minorQ \ minorQ')
    /\ UNCHANGED <<kind, leading, count, stored, pc, lead, cur, status, waited, mixed,
                   failed>>
-----------------------------------------------------------------------------
(* The mix thread.  Its loops over the peers read the count and the table. *)

NoPeers == count = 0
Unset   == count = 1 /\ ~stored
HasPeer == count = 1 /\ stored

(* The frame of S that comes first in the queue.                           *)
First(S) == {f \in S : \A g \in S : Distance(g, f) < N}

(* GetFirstAudioDecFrame, GetFirstVideoDecFrame                            *)
Take ==
    /\ pc = "take"
    /\ leading
    /\ \E f \in First(leadQ) :
          /\ lead' = f
          /\ leadQ' = leadQ \ {f}
    /\ pc' = "reset"
    /\ mixed' = None
    /\ UNCHANGED <<kind, leading, count, stored, minorQ, cur, status, waited, live, failed>>

(* The statuses are reset and the waiting time begins.  Whatever an entry  *)
(* not stored yet holds, only NULL is told from a peer.                    *)
Reset ==
    /\ pc = "reset"
    /\ status' = IF HasPeer THEN "unknown" ELSE status
    /\ \/ Unset /\ failed' = TRUE
       \/ UNCHANGED failed
    /\ waited' = 0
    /\ pc' = "filter"
    /\ UNCHANGED <<kind, leading, count, stored, leadQ, minorQ, lead, cur, live, mixed>>

(* ExistTheSame...DecFrameAndPop: what it says of the leading frame, and   *)
(* the frame it finds.                                                     *)
IsDropped(f) == TSIsEarlier(LeadTs[f], MinorTs[Earliest(minorQ)])
IsLate(f)    == TSIsLater(LeadTs[f], MinorTs[Latest(minorQ)])
Matches(f)   == {g \in minorQ : Near(f, g)}

(* After a look at the peer: everything found, or waited long enough.      *)
GoOn_NoLimit(done) == pc' = IF done THEN "mix" ELSE "filter"
GoOn(done) == pc' = IF done \/ waited > WaitTime THEN "mix" ELSE "filter"

Filter_NoPeers ==
    /\ pc = "filter" /\ NoPeers
    /\ pc' = "mix"
    /\ UNCHANGED <<kind, leading, count, stored, leadQ, minorQ, lead, cur, status, waited,
                   live, mixed, failed>>

Filter_Unset ==
    /\ pc = "filter" /\ Unset
    /\ failed' = TRUE
    /\ UNCHANGED <<kind, leading, count, stored, leadQ, minorQ, pc, lead, cur, status,
                   waited, live, mixed>>

(* A peer whose frame was found, or let go, is not looked at again.  With  *)
(* one minor peer the wait is over then, so there is no second time.       *)
Filter_Done ==
    /\ pc = "filter" /\ HasPeer
    /\ status \in {"drop", "exist"}
    /\ GoOn(TRUE)
    /\ UNCHANGED <<kind, leading, count, stored, leadQ, minorQ, lead, cur, status, waited,
                   live, mixed, failed>>

(* SetCurAudioDecFrame, SetCurVideoDecFrame: the frame kept is released.   *)
SetCur_NotReleased(g) ==
    /\ cur' = g
    /\ status' = "exist"
    /\ UNCHANGED live
SetCur(g) ==
    /\ cur' = g
    /\ status' = "exist"
    /\ live' = IF cur = None THEN live ELSE live - 1

Filter_Look ==
    /\ pc = "filter" /\ HasPeer
    /\ status \notin {"drop", "exist"}
    /\ IF minorQ # {} /\ IsDropped(lead)
       THEN status' = "drop" /\ GoOn(TRUE) /\ UNCHANGED <<minorQ, cur, live>>
       ELSE IF minorQ = {} \/ IsLate(lead) \/ Matches(lead) = {}
       THEN GoOn(FALSE) /\ UNCHANGED <<minorQ, cur, status, live>>
       ELSE \E g \in First(Matches(lead)) :
               minorQ' = minorQ \ {g} /\ SetCur(g) /\ GoOn(TRUE)
    /\ UNCHANGED <<kind, leading, count, stored, leadQ, lead, waited, mixed, failed>>

(* The frames are collected and mixed, and the leading one is released.    *)
(* An audio frame counts only when it was found for this one; a picture is *)
(* shown until there is another.                                           *)
Collected_AnyStatus == cur
Collected == IF kind = "audio" /\ status # "exist" THEN None ELSE cur

Mix ==
    /\ pc = "mix"
    /\ \/ Unset /\ failed' = TRUE
       \/ UNCHANGED failed
    /\ mixed' = IF HasPeer THEN Collected ELSE None
    /\ status' = IF HasPeer /\ (kind = "audio" \/ cur # None) THEN "unknown" ELSE status
    /\ lead' = None
    /\ live' = live - 1
    /\ pc' = "take"
    /\ UNCHANGED <<kind, leading, count, stored, leadQ, minorQ, cur, waited>>

MixThread ==
    \/ Take \/ Reset \/ Mix
    \/ Filter_NoPeers \/ Filter_Unset \/ Filter_Done \/ Filter_Look

(* A second passes.                                                        *)
Tick ==
    /\ waited' = IF waited > WaitTime THEN waited ELSE waited + 1
    /\ UNCHANGED <<kind, leading, count, stored, leadQ, minorQ, pc, lead, cur, status,
                   live, mixed, failed>>

Next ==
    /\ ~failed
    /\ \/ SetLeadingPeer \/ AddPeer_Count \/ AddPeer_Store
       \/ \E f \in Ids : DecodedLead(f) \/ DecodedMinor(f)
       \/ ReleaseDecQueue
       \/ MixThread
       \/ Tick

Spec == Init /\ [][Next]_vars

(* The operating system runs the thread, and time passes.                  *)
FairSpec == Spec /\ WF_vars(~failed /\ MixThread) /\ WF_vars(~failed /\ Tick)
-----------------------------------------------------------------------------
TypeOK ==
    /\ kind \in Kinds
    /\ leading \in BOOLEAN /\ count \in 0..1 /\ stored \in BOOLEAN
    /\ leadQ \subseteq Ids /\ minorQ \subseteq Ids
    /\ pc \in {"take", "reset", "filter", "mix"}
    /\ lead \in Frame /\ cur \in Frame /\ mixed \in Frame
    /\ status \in {"unknown", "drop", "exist"}
    /\ waited \in 0..(WaitTime + 1)
    /\ live \in Nat
    /\ failed \in BOOLEAN
    /\ pc = "take" <=> lead = None

(* Every decoded frame is in a queue, being mixed, or kept for the minor   *)
(* peer: none is released twice and none is lost.                          *)
FramesExact ==
    live = Cardinality(leadQ) + Cardinality(minorQ)
             + Cardinality({lead} \ {None}) + Cardinality({cur} \ {None})

(* The minor peer's sound mixed with a frame is of the time of this frame. *)
MixedInStep ==
    [][pc = "mix" /\ kind = "audio" /\ mixed' # None => Near(lead, mixed')]_vars

(* The wait for the minor peer ends without a frame only when it has none  *)
(* of the time of the leading frame, but for one on the other side of the  *)
(* wrap: the visitors compare by the plain difference.                     *)
MissesOnlyAcrossWrap ==
    [][pc = "filter" /\ pc' = "mix" /\ HasPeer /\ status' # "exist" =>
         \A g \in minorQ : Same(lead, g) => AcrossWrap(LeadTs[lead], MinorTs[g])]_vars

(* A leading frame is mixed or let go in the end, whatever the minor peer  *)
(* does.                                                                   *)
MixGoesAhead == lead # None ~> lead = None \/ failed
=============================================================================
