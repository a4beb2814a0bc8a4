--------------------------- MODULE NetPeerProofs ----------------------------
(***************************************************************************)
(* Proofs about NetPeer for any number of peers, any ids, key frames and   *)
(* time-outs: the order of the frames given to a decoder, that its queues  *)
(* always have a first frame, and the count of the frames allocated.       *)
(***************************************************************************)
EXTENDS NetPeer, FiniteSetLemmas, FiniteSetTheorems, TLAPS

(* The types this takes: those of the queue, the id and the history.       *)
OrderTypeOK ==
    /\ kind \in Kinds
    /\ net \in [Peers -> SUBSET Ids]
    /\ cur \in [Peers -> Fid]
    /\ adding \in {<<>>} \cup (Peers \X Ids)
    /\ given \in [Peers -> [last : Ids \cup {None, Lost, Withheld}, follows : BOOLEAN]]

(* m_usCurVideoNetFrameID is the last frame given to the decoder, unless   *)
(* it is 0, was read from a frame already released, or is that of a key    *)
(* frame that did not get as far as the decoder.                           *)
CurIsLastGiven ==
    kind = "video" =>
        \A p \in Peers : cur[p] # 0 => given[p].last \in {cur[p], Lost, Withheld}

IInv == OrderTypeOK /\ PFramesFollow /\ CurIsLastGiven
-----------------------------------------------------------------------------
(* The constants as the prover uses them.                                  *)
LEMMA Constants ==
    /\ Kinds \subseteq {"audio", "video"}
    /\ Ids \subseteq Fid
    /\ 0 \in Fid
    /\ Fid \subseteq Nat
BY NetPeerAssumption, HalfAssumption DEF Fid, FidMod

(* At the start no frame was given.                                        *)
LEMMA InitInv == Init => IInv
BY Constants DEF Init, IInv, OrderTypeOK, PFramesFollow, CurIsLastGiven

(* What a decoded frame, or one that fails to decode, leaves: the id and   *)
(* the history change together, for one peer.                              *)
LEMMA GivenInv ==
    ASSUME IInv, NEW p \in Peers, NEW f \in Ids, NEW id \in Fid, NEW last \in {f, Lost},
           IsKey(f) \/ given[p].last \in {f - 1, Lost, Withheld},
           id = 0 \/ last \in {id, Lost},
           cur' = [cur EXCEPT ![p] = id], Gives(p, f, last),
           net' \in [Peers -> SUBSET Ids], UNCHANGED <<kind, adding>>
    PROVE  IInv'
<1> USE DEF IInv, OrderTypeOK
<1>1. CASE kind = "audio"
  BY <1>1 DEF Gives, PFramesFollow, CurIsLastGiven
<1>2. CASE kind # "audio"
  <2>1. given' = [given EXCEPT ![p] =
            [last |-> last, follows |-> IsKey(f) \/ given[p].last \in {f - 1, Lost, Withheld}]]
    BY <1>2 DEF Gives
  <2>2. given' \in [Peers -> [last : Ids \cup {None, Lost, Withheld}, follows : BOOLEAN]]
    BY <2>1
  <2>3. given'[p].follows /\ given'[p].last = last
    BY <2>1
  <2>4. \A q \in Peers \ {p} : given'[q] = given[q] /\ cur'[q] = cur[q]
    BY <2>1
  <2>5. cur'[p] = id /\ cur' \in [Peers -> Fid]
    OBVIOUS
  <2>6. PFramesFollow'
    BY <2>3, <2>4 DEF PFramesFollow
  <2>7. CurIsLastGiven'
    BY <2>3, <2>4, <2>5 DEF CurIsLastGiven
  <2> QED
    BY <2>2, <2>5, <2>6, <2>7
<1> QED
  BY <1>1, <1>2

(* A frame that is given when it is a key frame or the next one.           *)
LEMMA DecodeInv ==
    ASSUME IInv, NEW p \in Peers, NEW f \in Ids, NEW id \in {0, f},
           IsKey(f) \/ given[p].last \in {f - 1, Lost, Withheld},
           DecodeSucceeds(p, f) \/ DecodeFails(p, f, id),
           net' \in [Peers -> SUBSET Ids], UNCHANGED <<kind, adding>>
    PROVE  IInv'
<1>0. id \in Fid /\ f \in Fid
  BY Constants
<1>1. CASE DecodeFails(p, f, id)
  BY <1>0, <1>1, GivenInv DEF DecodeFails
<1>2. CASE DecodeSucceeds(p, f) /\ Refused(dec[p], f)
  <2>1. PICK any \in Fid : cur' = [cur EXCEPT ![p] = any] /\ Gives(p, f, Lost)
    BY <1>2 DEF DecodeSucceeds
  <2> QED
    BY <2>1, GivenInv
<1>3. CASE DecodeSucceeds(p, f) /\ ~Refused(dec[p], f)
  BY <1>0, <1>3, GivenInv DEF DecodeSucceeds
<1> QED
  BY <1>1, <1>2, <1>3

(* A frame dropped, and the id cleared.                                    *)
LEMMA DropInv ==
    ASSUME IInv, NEW p \in Peers, Drop(p, 0), net' \in [Peers -> SUBSET Ids], UNCHANGED <<kind, adding>>
    PROVE  IInv'
BY Constants DEF Drop, IInv, OrderTypeOK, PFramesFollow, CurIsLastGiven

(* A key frame that did not get as far as the decoder, and becomes the     *)
(* current one: the history says so.                                       *)
LEMMA WithholdsInv ==
    ASSUME IInv, NEW p \in Peers, NEW f \in Ids, Withholds(p, f),
           net' \in [Peers -> SUBSET Ids], UNCHANGED <<kind, adding>>
    PROVE  IInv'
<1> USE DEF IInv, OrderTypeOK
<1>1. cur' = [cur EXCEPT ![p] = f] /\ given' = [given EXCEPT ![p].last = Withheld]
  BY DEF Withholds
<1>2. /\ given' \in [Peers -> [last : Ids \cup {None, Lost, Withheld}, follows : BOOLEAN]]
      /\ given'[p].last = Withheld
      /\ \A q \in Peers : given'[q].follows = given[q].follows
      /\ \A q \in Peers \ {p} : given'[q] = given[q] /\ cur'[q] = cur[q]
  BY <1>1
<1>3. cur' \in [Peers -> Fid]
  BY <1>1, Constants
<1>4. PFramesFollow'
  BY <1>2 DEF PFramesFollow
<1>5. CurIsLastGiven'
  BY <1>2 DEF CurIsLastGiven
<1> QED
  BY <1>2, <1>3, <1>4, <1>5

(* A frame leaves the net queue when it is visited.                        *)
LEMMA VisitsTypes ==
    ASSUME IInv, NEW p \in Peers, NEW f \in Ids, Visits(p, f)
    PROVE  net' \in [Peers -> SUBSET Ids] /\ UNCHANGED <<kind, adding>>
BY DEF Visits, IInv, OrderTypeOK

(* The decode thread: only VisitNext gives a frame that is no key frame.   *)
LEMMA VisitFirstInv ==
    ASSUME IInv, NEW p \in Peers, NEW f \in Ids, VisitFirst(p, f) PROVE IInv'
BY VisitsTypes, DecodeInv, DropInv DEF VisitFirst

(* The decode thread takes the frame after the last one.                   *)
LEMMA VisitNextInv ==
    ASSUME IInv, NEW p \in Peers, NEW f \in Ids, VisitNext(p, f) PROVE IInv'
<1>1. IsKey(f) \/ given[p].last \in {f - 1, Lost, Withheld}
  <2>1. CASE kind = "audio"
    BY <2>1 DEF IsKey
  <2>2. CASE kind = "video"
    <3>1. cur[p] # 0 /\ cur[p] \in Nat /\ f = cur[p] + 1
      BY Constants DEF VisitNext, IsNext, IInv, OrderTypeOK
    <3>2. f - 1 = cur[p]
      BY <3>1
    <3> QED
      BY <2>2, <3>1, <3>2 DEF IInv, CurIsLastGiven
  <2> QED
    BY <2>1, <2>2, Constants DEF IInv, OrderTypeOK
<1> QED
  BY <1>1, VisitsTypes, DecodeInv, WithholdsInv DEF VisitNext

(* The decode thread drops an audio frame half a turn behind the next one. *)
LEMMA VisitEarlierInv ==
    ASSUME IInv, NEW p \in Peers, NEW f \in Ids, VisitEarlier(p, f) PROVE IInv'
<1>1. kind = "audio" /\ UNCHANGED <<kind, adding, given>> /\ cur' = [cur EXCEPT ![p] = cur[p]]
  BY DEF VisitEarlier, IsDropped, Visits, Drop
<1> QED
  BY <1>1, VisitsTypes DEF VisitEarlier, IInv, OrderTypeOK, PFramesFollow, CurIsLastGiven

(* The decode thread goes on after a gap, with a key frame or not.         *)
LEMMA VisitOtherInv ==
    ASSUME IInv, NEW p \in Peers, NEW f \in Ids, VisitOther(p, f) PROVE IInv'
BY VisitsTypes, DecodeInv, DropInv, WithholdsInv DEF VisitOther

(* After a long idle time both queues are released.                        *)
LEMMA ReleaseInv ==
    ASSUME IInv, NEW p \in Peers, Release(p) PROVE IInv'
BY Constants DEF Release, IInv, OrderTypeOK, PFramesFollow, CurIsLastGiven

(* Every step of the decode thread keeps the invariant.                    *)
LEMMA DecThreadInv ==
    ASSUME IInv, NEW p \in Peers, DecThread(p) PROVE IInv'
<1>1. CASE Test(p) \/ EndLoop(p) \/ \E f \in Ids : Wait(p, f)
  BY <1>1 DEF Test, EndLoop, Wait, IInv, OrderTypeOK, PFramesFollow, CurIsLastGiven
<1> QED
  BY <1>1, ReleaseInv, VisitFirstInv, VisitNextInv, VisitEarlierInv, VisitOtherInv
  DEF DecThread

(* The recver thread only adds to the net queue.                           *)
LEMMA AddLockedInv == IInv /\ AddLocked => IInv'
<1> SUFFICES ASSUME IInv, AddLocked PROVE IInv'
  OBVIOUS
<1>1. PICK p \in Peers, f \in Ids : net' = [net EXCEPT ![p] = Into(net[p], f)]
  BY DEF AddLocked, IInv, OrderTypeOK
<1>2. net' \in [Peers -> SUBSET Ids]
  BY <1>1 DEF IInv, OrderTypeOK, Into
<1> QED
  BY <1>2 DEF AddLocked, IInv, OrderTypeOK, PFramesFollow, CurIsLastGiven
-----------------------------------------------------------------------------
(* Every step keeps the invariant.                                         *)
LEMMA NextInv == IInv /\ [Next]_vars => IInv'
<1> SUFFICES ASSUME IInv, [Next]_vars PROVE IInv'
  OBVIOUS
<1> USE DEF IInv, OrderTypeOK, PFramesFollow, CurIsLastGiven
<1>1. CASE \E p \in Peers, f \in Ids : AddData(p, f) \/ Pop(p, f)
  BY <1>1 DEF AddData, Pop
<1>2. CASE AddLocked
  BY <1>2, AddLockedInv
<1>3. CASE \E p \in Peers : KeepAlive(p)
  BY <1>3 DEF KeepAlive
<1>4. CASE \E p \in Peers : DecThread(p)
  BY <1>4, DecThreadInv
<1>5. CASE Tick \/ UNCHANGED vars
  BY <1>5 DEF Tick, vars
<1> QED
  BY <1>1, <1>2, <1>3, <1>4, <1>5 DEF Next

(* The inductive invariant: the id kept is that of the last frame given.   *)
THEOREM InvHolds == Spec => []IInv
BY InitInv, NextInv, PTL DEF Spec

(* A P or B frame is given to the decoder only directly after the frame it *)
(* follows: the id the thread expects is one more than that of the frame   *)
(* last given, whatever is lost, evicted, refused or reset in between, but *)
(* after a key frame that did not get as far as the decoder.               *)
THEOREM PFramesStayInOrder == Spec => []PFramesFollow
<1>1. IInv => PFramesFollow
  BY DEF IInv
<1> QED
  BY <1>1, InvHolds, PTL
-----------------------------------------------------------------------------
(* The window of ids a queue holds.                                        *)

(* The ids of S fit in a queue: they lie in the N ids up to some id.       *)
InWindow(S) == \E last \in Fid : \A f \in S : Distance(last, f) < N

(* The sizes as the prover uses them.                                      *)
LEMMA Sizes == N \in Nat /\ Half \in Nat /\ 0 < N /\ N <= Half /\ FidMod = Half + Half
BY CapacityAssumption, HalfAssumption DEF FidMod

(* A distance is less than a turn, and 0 only from an id to itself.        *)
LEMMA DistanceType ==
    \A a, b \in Fid : Distance(a, b) \in Nat /\ Distance(a, b) < FidMod
                      /\ (Distance(a, b) = 0 <=> a = b)
BY Sizes DEF Fid, Distance

(* The ids of a window are as far apart as their distances to its last id. *)
LEMMA DistanceBetween ==
    \A a, b, c \in Fid :
        Distance(a, b) <= Distance(a, c) => Distance(b, c) = Distance(a, c) - Distance(a, b)
BY Sizes DEF Fid, Distance

(* A window without some of its ids is one.                                *)
LEMMA InWindowSubset == ASSUME NEW S, NEW T \in SUBSET S, InWindow(S) PROVE InWindow(T)
BY DEF InWindow

(* A window that is not empty has an earliest and a latest id.             *)
LEMMA WindowEnds ==
    ASSUME NEW S \in SUBSET Fid, S # {}, InWindow(S)
    PROVE  /\ Earliest(S) \in S /\ \A g \in S : Distance(g, Earliest(S)) < N
           /\ Latest(S) \in S /\ \A g \in S : Distance(Latest(S), g) < N
<1>1. PICK last \in Fid : \A f \in S : Distance(last, f) < N
  BY DEF InWindow
<1> DEFINE D == {Distance(last, f) : f \in S}
<1>2. \A f \in S : Distance(last, f) \in Nat /\ Distance(last, f) <= N - 1
  BY <1>1, DistanceType, Sizes
<1>3. D \in SUBSET Nat /\ D \in SUBSET (0 .. N - 1) /\ D # {}
  BY <1>2, Sizes
<1>4. PICK d \in D : \A e \in D : d <= e
  <2> HIDE DEF D
  <2> QED BY <1>3, SmallestOfSet
<1>5. PICK m \in D : \A e \in D : m >= e
  <2>1. N - 1 \in Nat
    BY Sizes
  <2> HIDE DEF D
  <2> QED BY <1>3, <2>1, LargestOfSet
<1>6. PICK b \in S : Distance(last, b) = d
  BY <1>4
<1>7. PICK a \in S : Distance(last, a) = m
  BY <1>5
<1>8. \A f \in S : Distance(last, b) <= Distance(last, f) /\ Distance(last, f) <= Distance(last, a)
  BY <1>2, <1>4, <1>5, <1>6, <1>7
<1>9. \A f \in S : Distance(b, f) < N /\ Distance(f, a) < N
  <2> TAKE f \in S
  <2>1. a \in Fid /\ b \in Fid /\ f \in Fid
    OBVIOUS
  <2>2. /\ Distance(b, f) = Distance(last, f) - Distance(last, b)
        /\ Distance(f, a) = Distance(last, a) - Distance(last, f)
    BY <1>8, <2>1, DistanceBetween
  <2> QED
    BY <1>2, <2>2, Sizes
<1> QED
  BY <1>9 DEF Earliest, Latest

(* An id that is neither too old nor after the window lies in it.          *)
LEMMA BetweenEnds ==
    \A a, b, f \in Fid :
        /\ Distance(b, a) < N
        /\ Distance(f, a) # Half /\ ~IsEarlier(f, a) /\ IsNotLater(f, b)
        => Distance(f, a) <= Distance(b, a) /\ Distance(b, f) <= Distance(b, a)
BY Sizes DEF Fid, Distance, IsEarlier, IsNotLater

(* A queue that accepts an id not half a turn from its ids keeps a window. *)
LEMMA InsertInWindow ==
    ASSUME NEW S \in SUBSET Fid, NEW f \in Fid, InWindow(S),
           \A g \in S : Distance(f, g) # Half
    PROVE  InWindow(Into(S, f))
<1>0. Distance(f, f) < N
  BY DistanceType, Sizes
<1>1. CASE Refused(S, f)
  BY <1>1 DEF Into
<1>2. CASE S = {}
  BY <1>0, <1>2 DEF Into, Refused, TooOld, Evicted, IsAfter, InWindow
<1>3. CASE ~Refused(S, f) /\ S # {}
  <2> DEFINE a == Earliest(S)
             b == Latest(S)
  <2>1. a \in S /\ b \in S /\ a \in Fid /\ b \in Fid /\ Distance(b, a) < N
        /\ \A g \in S : Distance(b, g) < N
    BY <1>3, WindowEnds
  <2>2. Distance(f, a) # Half /\ ~TooOld(S, f)
    BY <1>3, <2>1 DEF Refused
  <2>3. CASE IsAfter(S, f)
    <3>1. \A g \in S \ Evicted(S, f) : Distance(f, g) < N
      <4> TAKE g \in S \ Evicted(S, f)
      <4>1. ~(Distance(f, g) >= N) /\ Distance(f, g) \in Nat
        BY <2>3, DistanceType DEF Evicted
      <4> QED
        BY <4>1, Sizes
    <3> QED
      BY <1>0, <3>1 DEF Into, InWindow
  <2>4. CASE ~IsAfter(S, f)
    <3>1. ~IsEarlier(f, a) /\ ~IsLater(f, b)
      BY <1>3, <2>2, <2>4 DEF TooOld, IsAfter
    <3>2. IsNotLater(f, b)
      <4>1. f = b \/ Distance(f, b) >= Half
        BY <3>1, <2>1, DistanceType, Sizes DEF IsLater
      <4>2. Distance(f, b) # Half
        BY <2>1
      <4> QED
        BY <4>1, <4>2, <2>1, Sizes DEF Fid, Distance, IsNotLater
    <3>3. Distance(b, f) < N
      <4> HIDE DEF a, b
      <4>1. Distance(b, f) <= Distance(b, a)
        BY <2>1, <2>2, <3>1, <3>2, BetweenEnds
      <4> QED
        BY <4>1, <2>1, DistanceType, Sizes
    <3> QED
      BY <2>1, <3>3 DEF Into, InWindow
  <2> QED
    BY <2>3, <2>4
<1> QED
  BY <1>1, <1>2, <1>3
-----------------------------------------------------------------------------
(* The frames counted.                                                     *)

(* The frame being added for a peer.                                       *)
Arriving(p) == {f \in Ids : adding = <<p, f>>}

(* No two ids a peer's queues hold or are about to are half a turn apart.  *)
Apart ==
    \A p \in Peers :
        \A f, g \in net[p] \cup dec[p] \cup Arriving(p) : Distance(f, g) # Half

(* Every queue holds a window of ids.                                      *)
QueuesInWindow == \A p \in Peers : InWindow(net[p]) /\ InWindow(dec[p])

Inv == IInv /\ TypeOK /\ Apart /\ QueuesInWindow /\ FramesExact

(* Sets of ids are finite.                                                 *)
LEMMA IdsFinite == ASSUME NEW S \in SUBSET Ids PROVE IsFiniteSet(S) /\ Cardinality(S) \in Nat
<1>1. 0 \in Int /\ FidMod - 1 \in Int
  BY Sizes
<1>2. IsFiniteSet(Fid)
  BY <1>1, FS_Interval DEF Fid
<1>3. S \in SUBSET Fid
  BY Constants
<1> QED
  BY <1>2, <1>3, FS_Subset, FS_CardinalityType

(* The frames of the queues of all peers are finitely many.                *)
LEMMA QueuedFinite ==
    ASSUME NEW q \in [Peers -> SUBSET Ids]
    PROVE  /\ IsFiniteFamily(Peers, q) /\ Queued(q) = Family(Peers, q)
           /\ Cardinality(Queued(q)) \in Nat
<1>1. IsFiniteFamily(Peers, q)
  BY IdsFinite, NetPeerAssumption DEF IsFiniteFamily
<1>2. Cardinality(Family(Peers, q)) \in Nat
  BY <1>1, FamilyFinite
<1>3. Queued(q) = Family(Peers, q)
  BY DEF Queued, Family
<1> QED
  BY <1>1, <1>2, <1>3

(* Only the queue of peer p changes from queues q to r.                    *)
OnlyChanges(q, r, p) ==
    /\ r \in [Peers -> SUBSET Ids]
    /\ \A o \in Peers : o # p => r[o] = q[o]

(* Only the queue of one peer changes.                                     *)
LEMMA QueuedChange ==
    ASSUME NEW q \in [Peers -> SUBSET Ids], NEW p \in Peers,
           NEW r, OnlyChanges(q, r, p)
    PROVE  /\ Cardinality(Queued(q)) \in Nat /\ Cardinality(Queued(r)) \in Nat
           /\ Cardinality(q[p]) \in Nat /\ Cardinality(r[p]) \in Nat
           /\ Cardinality(Queued(r)) + Cardinality(q[p]) = Cardinality(Queued(q)) + Cardinality(r[p])
<1>1. r \in [Peers -> SUBSET Ids] /\ \A o \in Peers : o # p => r[o] = q[o]
  BY DEF OnlyChanges
<1>2. q[p] \in SUBSET Ids /\ r[p] \in SUBSET Ids
  BY <1>1
<1>3. IsFiniteSet(r[p]) /\ Cardinality(q[p]) \in Nat /\ Cardinality(r[p]) \in Nat
  BY <1>2, IdsFinite
<1>4. /\ IsFiniteFamily(Peers, q)
      /\ Queued(q) = Family(Peers, q) /\ Queued(r) = Family(Peers, r)
      /\ Cardinality(Queued(q)) \in Nat /\ Cardinality(Queued(r)) \in Nat
  BY <1>1, QueuedFinite
<1>5. Cardinality(Family(Peers, r)) + Cardinality(q[p])
        = Cardinality(Family(Peers, q)) + Cardinality(r[p])
  BY <1>1, <1>3, <1>4, FamilyChange
<1> QED
  BY <1>3, <1>4, <1>5

(* The queue of p is exchanged for s.                                      *)
LEMMA QueueExchanged ==
    ASSUME NEW q \in [Peers -> SUBSET Ids], NEW p \in Peers, NEW s \in SUBSET Ids,
           NEW r, r = [q EXCEPT ![p] = s]
    PROVE  OnlyChanges(q, r, p) /\ r[p] = s
BY DEF OnlyChanges

(* One frame is taken out of a queue.                                      *)
LEMMA QueuedRemove ==
    ASSUME NEW q \in [Peers -> SUBSET Ids], NEW p \in Peers, NEW f \in q[p],
           NEW r, OnlyChanges(q, r, p), r[p] = q[p] \ {f}
    PROVE  /\ Cardinality(Queued(r)) \in Nat
           /\ Cardinality(Queued(r)) + 1 = Cardinality(Queued(q))
<1>1. IsFiniteSet(q[p]) /\ Cardinality(q[p]) \in Nat
  BY IdsFinite
<1>2. Cardinality(q[p] \ {f}) = Cardinality(q[p]) - 1
  BY <1>1, FS_RemoveElement
<1>3. /\ Cardinality(Queued(q)) \in Nat /\ Cardinality(Queued(r)) \in Nat
      /\ Cardinality(Queued(r)) + Cardinality(q[p]) = Cardinality(Queued(q)) + Cardinality(r[p])
  BY QueuedChange
<1> QED
  BY <1>1, <1>2, <1>3

(* FrameQueue::Insert: what is in the queue and what is released add up.   *)
LEMMA InsertExact ==
    ASSUME NEW q \in SUBSET Ids, NEW f \in Ids
    PROVE  /\ Into(q, f) \in SUBSET (q \cup {f}) /\ Released(q, f) \in Nat
           /\ Cardinality(Into(q, f)) + Released(q, f) = Cardinality(q) + 1
<1>1. CASE Refused(q, f)
  BY <1>1, IdsFinite DEF Into, Released
<1>2. CASE ~Refused(q, f)
  <2> DEFINE e == Evicted(q, f)
  <2>1. e \in SUBSET q /\ f \notin q
    BY <1>2 DEF Evicted, Refused
  <2>2. IsFiniteSet(q) /\ Cardinality(q) \in Nat
    BY IdsFinite
  <2> HIDE DEF e
  <2>3. /\ IsFiniteSet(q \ e) /\ Cardinality(e) \in Nat /\ Cardinality(q \ e) \in Nat
        /\ Cardinality(q) = Cardinality(q \ e) + Cardinality(e)
    BY <2>1, <2>2, PartAndRest
  <2>4. Cardinality((q \ e) \cup {f}) = Cardinality(q \ e) + 1
    BY <2>1, <2>3, FS_AddElement
  <2>5. Into(q, f) = (q \ e) \cup {f} /\ Released(q, f) = Cardinality(e)
    BY <1>2 DEF Into, Released, e
  <2> QED
    BY <2>2, <2>3, <2>4, <2>5
<1> QED
  BY <1>1, <1>2

(* One frame is put in a queue.                                            *)
LEMMA QueuedInsert ==
    ASSUME NEW q \in [Peers -> SUBSET Ids], NEW p \in Peers, NEW f \in Ids,
           NEW r, OnlyChanges(q, r, p), r[p] = Into(q[p], f)
    PROVE  /\ Cardinality(Queued(r)) \in Nat /\ Released(q[p], f) \in Nat
           /\ Cardinality(Queued(r)) + Released(q[p], f) = Cardinality(Queued(q)) + 1
<1>1. q[p] \in SUBSET Ids
  OBVIOUS
<1>2. /\ Released(q[p], f) \in Nat
      /\ Cardinality(r[p]) + Released(q[p], f) = Cardinality(q[p]) + 1
  BY <1>1, InsertExact
<1>3. /\ Cardinality(Queued(q)) \in Nat /\ Cardinality(Queued(r)) \in Nat
      /\ Cardinality(q[p]) \in Nat /\ Cardinality(r[p]) \in Nat
      /\ Cardinality(Queued(r)) + Cardinality(q[p]) = Cardinality(Queued(q)) + Cardinality(r[p])
  BY QueuedChange
<1> QED
  BY <1>2, <1>3
-----------------------------------------------------------------------------
(* What a step may take from the places of frames and put in them: the ids *)
(* stay apart when none arrives.                                           *)
LEMMA ApartStays ==
    ASSUME Apart, \A p \in Peers : net'[p] \cup dec'[p] \cup Arriving(p)'
                                     \subseteq net[p] \cup dec[p] \cup Arriving(p)
    PROVE  Apart'
BY DEF Apart

(* The types that come with the places.                                    *)
PlaceTypeOK ==
    /\ dec \in [Peers -> SUBSET Ids]
    /\ idle \in [Peers -> 0 .. IdleTime + 1]
    /\ waiting \in {NotWaiting} \cup (0 .. WaitTime)
    /\ pc \in [Peers -> {"test", "release", "loop"}]

PInv == IInv /\ PlaceTypeOK /\ Apart /\ QueuesInWindow /\ FramesExact

(* The places say all the types but those of the ids and the history.      *)
LEMMA PlacesType == PInv <=> Inv
<1>1. TypeOK => PlaceTypeOK
  BY DEF TypeOK, PlaceTypeOK
<1>2. ASSUME PInv PROVE TypeOK
  <2>1. Cardinality(Queued(net)) \in Nat /\ Cardinality(Queued(dec)) \in Nat
    BY <1>2, QueuedFinite DEF PInv, IInv, OrderTypeOK, PlaceTypeOK
  <2>2. live \in Nat
    BY <1>2, <2>1 DEF PInv, FramesExact
  <2> QED
    BY <1>2, <2>2 DEF PInv, IInv, OrderTypeOK, PlaceTypeOK, TypeOK
<1> QED
  BY <1>1, <1>2 DEF PInv, Inv

(* No peer has a frame at the start.                                       *)
LEMMA InitPlaces == Init => PInv
<1> SUFFICES ASSUME Init PROVE PInv
  OBVIOUS
<1>1. /\ net = [p \in Peers |-> {}] /\ dec = [p \in Peers |-> {}]
      /\ adding = <<>> /\ live = 0
  BY DEF Init
<1>2. PlaceTypeOK
  BY NetPeerAssumption DEF Init, PlaceTypeOK, NotWaiting
<1>3. Queued(net) = {} /\ Queued(dec) = {}
  BY <1>1 DEF Queued
<1>4. FramesExact
  <2>1. Cardinality(Queued(net)) = 0 /\ Cardinality(Queued(dec)) = 0
    BY <1>3, FS_EmptySet
  <2> QED
    BY <1>1, <2>1 DEF FramesExact
<1>5. \A p \in Peers : Arriving(p) = {}
  BY <1>1 DEF Arriving
<1>6. Apart
  BY <1>1, <1>5 DEF Apart
<1>7. QueuesInWindow
  BY <1>1, Constants DEF QueuesInWindow, InWindow
<1> QED
  BY <1>2, <1>4, <1>6, <1>7, InitInv DEF PInv

(* The recver thread has a frame to add.                                   *)
LEMMA AddDataPlaces ==
    ASSUME PInv, NEW p \in Peers, NEW f \in Ids, AddData(p, f), IInv' PROVE PInv'
<1>1. /\ adding = <<>> /\ adding' = <<p, f>> /\ live' = live + 1
      /\ idle' = [idle EXCEPT ![p] = 0] /\ UNCHANGED <<net, dec, waiting, pc>>
      /\ \A g \in net[p] \cup dec[p] : Distance(f, g) # Half
  BY DEF AddData, NoHalfTurn
<1>2. net \in [Peers -> SUBSET Ids] /\ dec \in [Peers -> SUBSET Ids]
  BY DEF PInv, IInv, OrderTypeOK, PlaceTypeOK
<1>3. PlaceTypeOK'
  BY <1>1, NetPeerAssumption DEF PInv, PlaceTypeOK
<1>4. FramesExact'
  <2>1. Cardinality(Queued(net)) \in Nat /\ Cardinality(Queued(dec)) \in Nat
    BY <1>2, QueuedFinite
  <2>2. adding' # <<>>
    BY <1>1
  <2> QED
    BY <1>1, <2>1, <2>2 DEF PInv, FramesExact, Queued
<1>5. Apart'
  <2>1. f \in Fid /\ Distance(f, f) = 0 /\ 0 # Half
    BY Constants, DistanceType, Sizes
  <2>2. \A g \in Fid : Distance(f, g) # Half => Distance(g, f) # Half
    BY <2>1, Sizes DEF Fid, Distance
  <2>3. \A g \in net[p] \cup dec[p] : g \in Fid
    BY <1>2, Constants
  <2>4. Arriving(p)' \subseteq {f} /\ \A q \in Peers \ {p} : Arriving(q)' = {}
    BY <1>1 DEF Arriving
  <2> QED
    BY <1>1, <2>1, <2>2, <2>3, <2>4 DEF PInv, Apart
<1>6. QueuesInWindow'
  BY <1>1 DEF PInv, QueuesInWindow
<1> QED
  BY <1>3, <1>4, <1>5, <1>6 DEF PInv

(* The recver thread puts its frame in the net queue.                      *)
LEMMA AddLockedPlaces == ASSUME PInv, AddLocked, IInv' PROVE PInv'
<1>1. PICK p \in Peers, f \in Ids : adding = <<p, f>>
  BY DEF AddLocked, PInv, IInv, OrderTypeOK
<1>2. /\ net' = [net EXCEPT ![p] = Into(@, f)] /\ live' = live - Released(net[p], f)
      /\ adding' = <<>> /\ UNCHANGED <<dec, idle, waiting, pc>>
  BY <1>1 DEF AddLocked
<1>3. net \in [Peers -> SUBSET Ids] /\ dec \in [Peers -> SUBSET Ids]
  BY DEF PInv, IInv, OrderTypeOK, PlaceTypeOK
<1>4. PlaceTypeOK'
  BY <1>2 DEF PInv, PlaceTypeOK
<1>5. FramesExact'
  <2>1. /\ Cardinality(Queued(net)) \in Nat /\ Cardinality(Queued(dec)) \in Nat
        /\ Cardinality(Queued(net')) \in Nat /\ Released(net[p], f) \in Nat
        /\ Cardinality(Queued(net')) + Released(net[p], f) = Cardinality(Queued(net)) + 1
    <3>1. Into(net[p], f) \in SUBSET Ids
      <4>1. net[p] \in SUBSET Ids
        BY <1>3
      <4>2. Into(net[p], f) \in SUBSET (net[p] \cup {f})
        BY <4>1, InsertExact
      <4> QED
        BY <4>1, <4>2
    <3>2. OnlyChanges(net, net', p) /\ net'[p] = Into(net[p], f)
      BY <1>2, <1>3, <3>1, QueueExchanged
    <3>3. Cardinality(Queued(net)) \in Nat /\ Cardinality(Queued(dec)) \in Nat
      BY <1>3, QueuedFinite
    <3>4. /\ Cardinality(Queued(net')) \in Nat /\ Released(net[p], f) \in Nat
          /\ Cardinality(Queued(net')) + Released(net[p], f) = Cardinality(Queued(net)) + 1
      BY <1>3, <3>2, QueuedInsert
    <3> QED
      BY <3>3, <3>4
  <2>2. live = 1 + Cardinality(Queued(net)) + Cardinality(Queued(dec))
    <3>1. adding # <<>>
      BY DEF AddLocked
    <3> QED
      BY <3>1 DEF PInv, FramesExact
  <2>3. live' = Cardinality(Queued(net')) + Cardinality(Queued(dec))
    BY <1>2, <2>1, <2>2
  <2>4. Cardinality(Queued(net'))  = Cardinality(Queued(net))' /\ Queued(dec)' = Queued(dec)
    BY <1>2 DEF Queued
  <2> QED
    BY <1>2, <2>1, <2>3, <2>4 DEF FramesExact
<1>6. f \in Arriving(p) /\ Into(net[p], f) \subseteq net[p] \cup {f}
  BY <1>1, <1>3, InsertExact DEF Arriving
<1>7. Apart'
  <2>1. \A q \in Peers : Arriving(q)' = {}
    BY <1>2 DEF Arriving
  <2> QED
    BY <1>2, <1>3, <1>6, <2>1, ApartStays DEF PInv
<1>8. QueuesInWindow'
  <2>1. \A g \in net[p] : Distance(f, g) # Half
    BY <1>6 DEF PInv, Apart
  <2>2. net[p] \in SUBSET Fid /\ f \in Fid /\ InWindow(net[p])
    BY <1>3, Constants DEF PInv, QueuesInWindow
  <2>3. InWindow(Into(net[p], f))
    BY <2>1, <2>2, InsertInWindow
  <2> QED
    BY <1>2, <1>3, <2>3 DEF PInv, QueuesInWindow
<1> QED
  BY <1>4, <1>5, <1>7, <1>8 DEF PInv

(* The decode thread takes the first frame of the net queue, which it then *)
(* puts in the decoded queue or releases.                                  *)
LEMMA VisitsPlaces ==
    ASSUME PInv, NEW p \in Peers, NEW f \in Ids, Visits(p, f), IInv',
           waiting' \in {NotWaiting} \cup (0 .. WaitTime),
           DecodeSucceeds(p, f) \/ (UNCHANGED dec /\ live' = live - 1)
    PROVE  PInv'
<1>1. /\ net' = [net EXCEPT ![p] = @ \ {f}] /\ f = Earliest(net[p]) /\ net[p] # {}
      /\ UNCHANGED <<idle, pc, adding>>
  BY DEF Visits
<1>2. net \in [Peers -> SUBSET Ids] /\ dec \in [Peers -> SUBSET Ids]
  BY DEF PInv, IInv, OrderTypeOK, PlaceTypeOK
<1>3. f \in net[p]
  <2>1. net[p] \in SUBSET Fid /\ InWindow(net[p])
    BY <1>2, Constants DEF PInv, QueuesInWindow
  <2> QED
    BY <1>1, <2>1, WindowEnds
<1>4. /\ Cardinality(Queued(net')) \in Nat /\ Cardinality(Queued(net)) \in Nat
      /\ Cardinality(Queued(net')) + 1 = Cardinality(Queued(net))
  <2>1. OnlyChanges(net, net', p) /\ net'[p] = net[p] \ {f}
    <3>1. net[p] \ {f} \in SUBSET Ids
      BY <1>2
    <3> QED
      BY <1>1, <1>2, <3>1, QueueExchanged
  <2> QED
    BY <1>2, <1>3, <2>1, QueuedRemove, QueuedFinite
<1>5. /\ dec' \in [Peers -> SUBSET Ids]
      /\ Cardinality(Queued(dec)) \in Nat /\ Cardinality(Queued(dec')) \in Nat
      /\ live' = live - 1 + Cardinality(Queued(dec')) - Cardinality(Queued(dec))
      /\ \A q \in Peers : /\ dec'[q] \in SUBSET (dec[q] \cup net[q])
                          /\ InWindow(dec'[q])
  <2>1. Cardinality(Queued(dec)) \in Nat /\ live \in Int
    <3>1. Cardinality(Queued(dec)) \in Nat
      BY <1>2, QueuedFinite
    <3> QED
      BY <1>4, <3>1 DEF PInv, FramesExact
  <2>2. CASE UNCHANGED dec /\ live' = live - 1
    BY <1>2, <2>1, <2>2 DEF PInv, QueuesInWindow
  <2>3. CASE DecodeSucceeds(p, f)
    <3>1. dec' = [dec EXCEPT ![p] = Into(@, f)] /\ live' = live - Released(dec[p], f)
      BY <2>3 DEF DecodeSucceeds
    <3>2. Into(dec[p], f) \in SUBSET (dec[p] \cup {f}) /\ dec[p] \in SUBSET Ids
      BY <1>2, InsertExact
    <3>3. Into(dec[p], f) \in SUBSET Ids
      BY <3>2
    <3>4. OnlyChanges(dec, dec', p) /\ dec'[p] = Into(dec[p], f)
      BY <1>2, <3>1, <3>3, QueueExchanged
    <3>5. /\ Cardinality(Queued(dec')) \in Nat /\ Released(dec[p], f) \in Nat
          /\ Cardinality(Queued(dec')) + Released(dec[p], f) = Cardinality(Queued(dec)) + 1
      BY <1>2, <3>4, QueuedInsert
    <3>6. InWindow(dec'[p])
      <4>1. \A g \in dec[p] : Distance(f, g) # Half
        BY <1>3 DEF PInv, Apart
      <4>2. dec[p] \in SUBSET Fid /\ f \in Fid /\ InWindow(dec[p])
        BY <3>2, Constants DEF PInv, QueuesInWindow
      <4> QED
        BY <3>4, <4>1, <4>2, InsertInWindow
    <3>7. \A q \in Peers : InWindow(dec'[q]) /\ dec'[q] \in SUBSET (dec[q] \cup net[q])
      <4> TAKE q \in Peers
      <4>1. CASE q = p
        BY <1>3, <3>2, <3>4, <3>6, <4>1
      <4>2. CASE q # p
        BY <3>4, <4>2 DEF OnlyChanges, PInv, QueuesInWindow
      <4> QED
        BY <4>1, <4>2
    <3>8. live' = live - 1 + Cardinality(Queued(dec')) - Cardinality(Queued(dec))
      BY <2>1, <3>1, <3>5
    <3> QED
      BY <2>1, <3>4, <3>5, <3>7, <3>8 DEF OnlyChanges
  <2> QED
    BY <2>2, <2>3
<1>6. PlaceTypeOK'
  BY <1>1, <1>5 DEF PInv, PlaceTypeOK
<1>7. FramesExact'
  <2>1. Cardinality(Queued(net'))  = Cardinality(Queued(net))' /\ Queued(dec)' = Queued(dec')
    BY DEF Queued
  <2> DEFINE arriving == IF adding = <<>> THEN 0 ELSE 1
  <2>2. arriving \in Nat /\ arriving' = arriving
    BY <1>1
  <2>3. live = arriving + Cardinality(Queued(net)) + Cardinality(Queued(dec))
    BY DEF PInv, FramesExact
  <2>4. live' = arriving + Cardinality(Queued(net')) + Cardinality(Queued(dec'))
    <3> HIDE DEF arriving
    <3> QED BY <1>4, <1>5, <2>2, <2>3
  <2> QED
    BY <2>1, <2>2, <2>4 DEF FramesExact
<1>8. Apart'
  <2>1. \A q \in Peers : net'[q] \subseteq net[q] /\ Arriving(q)' = Arriving(q)
    BY <1>1, <1>2 DEF Arriving
  <2> QED
    BY <1>5, <2>1, ApartStays DEF PInv
<1>9. QueuesInWindow'
  <2>1. \A q \in Peers : net'[q] \in SUBSET net[q] /\ InWindow(net[q])
    BY <1>1, <1>2 DEF PInv, QueuesInWindow
  <2> QED
    BY <1>5, <2>1, InWindowSubset DEF QueuesInWindow
<1> QED
  BY <1>6, <1>7, <1>8, <1>9 DEF PInv

(* A mix takes a decoded frame.                                            *)
LEMMA PopPlaces ==
    ASSUME PInv, NEW p \in Peers, NEW f \in Ids, Pop(p, f), IInv' PROVE PInv'
<1>1. /\ f \in dec[p] /\ dec' = [dec EXCEPT ![p] = @ \ {f}] /\ live' = live - 1
      /\ UNCHANGED <<net, idle, waiting, pc, adding>>
  BY DEF Pop
<1>2. net \in [Peers -> SUBSET Ids] /\ dec \in [Peers -> SUBSET Ids]
  BY DEF PInv, IInv, OrderTypeOK, PlaceTypeOK
<1>3. /\ Cardinality(Queued(dec')) \in Nat /\ Cardinality(Queued(dec)) \in Nat
      /\ Cardinality(Queued(net)) \in Nat
      /\ Cardinality(Queued(dec')) + 1 = Cardinality(Queued(dec))
  <2>1. dec[p] \ {f} \in SUBSET Ids
    BY <1>2
  <2>2. OnlyChanges(dec, dec', p) /\ dec'[p] = dec[p] \ {f}
    BY <1>1, <1>2, <2>1, QueueExchanged
  <2>3. Cardinality(Queued(dec)) \in Nat /\ Cardinality(Queued(net)) \in Nat
    BY <1>2, QueuedFinite
  <2> QED
    BY <1>1, <1>2, <2>2, <2>3, QueuedRemove
<1>4. PlaceTypeOK'
  BY <1>1 DEF PInv, PlaceTypeOK
<1>5. FramesExact'
  <2>1. Cardinality(Queued(net))'  = Cardinality(Queued(net)) /\ Queued(dec)' = Queued(dec')
    BY <1>1 DEF Queued
  <2> DEFINE arriving == IF adding = <<>> THEN 0 ELSE 1
  <2>2. arriving \in Nat /\ arriving' = arriving
    BY <1>1
  <2>3. live = arriving + Cardinality(Queued(net)) + Cardinality(Queued(dec))
    BY DEF PInv, FramesExact
  <2>4. live' = arriving + Cardinality(Queued(net)) + Cardinality(Queued(dec'))
    <3> HIDE DEF arriving
    <3> QED BY <1>1, <1>3, <2>2, <2>3
  <2> QED
    BY <2>1, <2>2, <2>4 DEF FramesExact
<1>6. \A q \in Peers : dec'[q] \in SUBSET dec[q] /\ Arriving(q)' = Arriving(q)
  BY <1>1, <1>2 DEF Arriving
<1>7. Apart'
  BY <1>1, <1>6, ApartStays DEF PInv
<1>8. QueuesInWindow'
  BY <1>1, <1>6, InWindowSubset DEF PInv, QueuesInWindow
<1> QED
  BY <1>4, <1>5, <1>7, <1>8 DEF PInv

(* Both queues of a peer are emptied.                                      *)
LEMMA ReleasePlaces ==
    ASSUME PInv, NEW p \in Peers, Release(p), IInv' PROVE PInv'
<1>1. /\ net' = [net EXCEPT ![p] = {}] /\ dec' = [dec EXCEPT ![p] = {}]
      /\ live' = live - Cardinality(net[p]) - Cardinality(dec[p])
      /\ pc' = [pc EXCEPT ![p] = "loop"]
      /\ UNCHANGED <<idle, waiting, adding>>
  BY DEF Release
<1>2. net \in [Peers -> SUBSET Ids] /\ dec \in [Peers -> SUBSET Ids]
  BY DEF PInv, IInv, OrderTypeOK, PlaceTypeOK
<1>3. ASSUME NEW q \in [Peers -> SUBSET Ids], NEW r, r = [q EXCEPT ![p] = {}]
      PROVE  /\ Cardinality(Queued(q)) \in Nat /\ Cardinality(q[p]) \in Nat
             /\ Cardinality(Queued(r)) = Cardinality(Queued(q)) - Cardinality(q[p])
  <2>1. {} \in SUBSET Ids
    OBVIOUS
  <2>2. OnlyChanges(q, r, p) /\ r[p] = {}
    BY <1>3, <2>1, QueueExchanged
  <2>3. /\ Cardinality(Queued(q)) \in Nat /\ Cardinality(Queued(r)) \in Nat
        /\ Cardinality(q[p]) \in Nat
        /\ Cardinality(Queued(r)) + Cardinality(q[p]) = Cardinality(Queued(q)) + Cardinality(r[p])
    BY <2>2, QueuedChange
  <2>4. Cardinality(r[p]) = 0
    BY <2>2, FS_EmptySet
  <2> QED
    BY <2>3, <2>4
<1>4. PlaceTypeOK'
  BY <1>1, <1>2 DEF PInv, PlaceTypeOK
<1>5. FramesExact'
  <2>1. Queued(net)' = Queued(net') /\ Queued(dec)' = Queued(dec')
    BY DEF Queued
  <2> DEFINE arriving == IF adding = <<>> THEN 0 ELSE 1
  <2>2. arriving \in Nat /\ arriving' = arriving
    BY <1>1
  <2>3. live = arriving + Cardinality(Queued(net)) + Cardinality(Queued(dec))
    BY DEF PInv, FramesExact
  <2>4. /\ Cardinality(Queued(net)) \in Nat /\ Cardinality(net[p]) \in Nat
        /\ Cardinality(Queued(net')) = Cardinality(Queued(net)) - Cardinality(net[p])
    BY <1>1, <1>2, <1>3
  <2>5. /\ Cardinality(Queued(dec)) \in Nat /\ Cardinality(dec[p]) \in Nat
        /\ Cardinality(Queued(dec')) = Cardinality(Queued(dec)) - Cardinality(dec[p])
    BY <1>1, <1>2, <1>3
  <2>6. live' = live - Cardinality(net[p]) - Cardinality(dec[p])
    BY <1>1
  <2>7. live' = arriving + Cardinality(Queued(net')) + Cardinality(Queued(dec'))
    <3> HIDE DEF arriving
    <3> QED BY <2>2, <2>3, <2>4, <2>5, <2>6
  <2> QED
    BY <2>1, <2>2, <2>7 DEF FramesExact
<1>6. \A q \in Peers : /\ net'[q] \in SUBSET net[q] /\ dec'[q] \in SUBSET dec[q]
                       /\ Arriving(q)' = Arriving(q)
  BY <1>1, <1>2 DEF Arriving
<1>7. Apart'
  BY <1>6, ApartStays DEF PInv
<1>8. QueuesInWindow'
  BY <1>6, InWindowSubset DEF PInv, QueuesInWindow
<1> QED
  BY <1>4, <1>5, <1>7, <1>8 DEF PInv

(* A step that leaves the frames where they are.                           *)
LEMMA SamePlaces ==
    ASSUME PInv, IInv', UNCHANGED <<net, dec, adding, live>>, PlaceTypeOK' PROVE PInv'
BY DEF PInv, Apart, Arriving, QueuesInWindow, FramesExact, Queued

(* The smaller of two numbers.                                             *)
LEMMA MinOfTwo == \A a, b \in Nat : Min({a, b}) \in 0 .. b
<1> SUFFICES ASSUME NEW a \in Nat, NEW b \in Nat PROVE Min({a, b}) \in 0 .. b
  OBVIOUS
<1>1. \E x \in {a, b} : \A y \in {a, b} : x <= y
  OBVIOUS
<1>2. Min({a, b}) \in {a, b} /\ Min({a, b}) <= b
  BY <1>1 DEF Min
<1> QED
  BY <1>2

(* The steps of the decode thread.                                         *)
LEMMA DecThreadPlaces ==
    ASSUME PInv, NEW p \in Peers, DecThread(p), IInv' PROVE PInv'
<1>0. waiting \in {NotWaiting} \cup (0 .. WaitTime) /\ WaitTime \in Nat
  BY NetPeerAssumption DEF PInv, PlaceTypeOK
<1>1. CASE Test(p) \/ EndLoop(p)
  <2>1. PlaceTypeOK'
    BY <1>1 DEF Test, EndLoop, PInv, PlaceTypeOK
  <2> QED
    BY <1>1, <2>1, SamePlaces DEF Test, EndLoop
<1>2. ASSUME NEW f \in Ids, Wait(p, f) PROVE PInv'
  <2>1. PlaceTypeOK'
    BY <1>0, <1>2 DEF Wait, PInv, PlaceTypeOK
  <2> QED
    BY <1>2, <2>1, SamePlaces DEF Wait
<1>3. ASSUME NEW f \in Ids, VisitFirst(p, f) \/ VisitNext(p, f) \/ VisitEarlier(p, f) \/ VisitOther(p, f)
      PROVE  PInv'
  <2>1. Visits(p, f)
    BY <1>3 DEF VisitFirst, VisitNext, VisitEarlier, VisitOther
  <2>2. waiting' \in {NotWaiting} \cup (0 .. WaitTime)
    BY <1>0, <1>3 DEF VisitFirst, VisitNext, VisitEarlier, VisitOther
  <2>3. DecodeSucceeds(p, f) \/ (UNCHANGED dec /\ live' = live - 1)
    BY <1>3 DEF VisitFirst, VisitNext, VisitEarlier, VisitOther, DecodeFails, Drop, Withholds
  <2> QED
    BY <2>1, <2>2, <2>3, VisitsPlaces
<1> QED
  BY <1>1, <1>2, <1>3, ReleasePlaces DEF DecThread

(* Every step keeps the invariant.                                         *)
LEMMA NextPlaces == PInv /\ [Next]_vars => PInv'
<1> SUFFICES ASSUME PInv, [Next]_vars PROVE PInv'
  OBVIOUS
<1>0. IInv'
  BY NextInv DEF PInv
<1>1. ASSUME NEW p \in Peers, KeepAlive(p) PROVE PInv'
  <2>1. PlaceTypeOK'
    BY <1>1, NetPeerAssumption DEF KeepAlive, PInv, PlaceTypeOK
  <2> QED
    BY <1>0, <1>1, <2>1, SamePlaces DEF KeepAlive
<1>2. CASE Tick
  <2>1. \A q \in Peers : Min({idle[q] + 1, IdleTime + 1}) \in 0 .. IdleTime + 1
    <3> TAKE q \in Peers
    <3>1. idle[q] + 1 \in Nat /\ IdleTime + 1 \in Nat
      BY NetPeerAssumption DEF PInv, PlaceTypeOK
    <3> QED
      BY <3>1, MinOfTwo
  <2>2. waiting # NotWaiting => Min({waiting + 1, WaitTime}) \in 0 .. WaitTime
    BY NetPeerAssumption, MinOfTwo DEF PInv, PlaceTypeOK
  <2>3. PlaceTypeOK'
    BY <1>2, <2>1, <2>2 DEF Tick, PInv, PlaceTypeOK
  <2> QED
    BY <1>0, <1>2, <2>3, SamePlaces DEF Tick
<1>3. CASE UNCHANGED vars
  <2>1. PlaceTypeOK'
    BY <1>3 DEF vars, PInv, PlaceTypeOK
  <2> QED
    BY <1>0, <1>3, <2>1, SamePlaces DEF vars
<1> QED
  BY <1>0, <1>1, <1>2, <1>3, AddDataPlaces, AddLockedPlaces, PopPlaces, DecThreadPlaces DEF Next
-----------------------------------------------------------------------------
(* The inductive invariant with the places of the frames.                  *)
THEOREM PlacesHold == Spec => []Inv
BY InitPlaces, NextPlaces, PlacesType, PTL DEF Spec

(* Every variable keeps its type, the count of live frames among them.     *)
THEOREM TypeHolds == Spec => []TypeOK
<1>1. Inv => TypeOK
  BY DEF Inv
<1> QED
  BY <1>1, PlacesHold, PTL

(* Every frame allocated is with the recver thread or in one of the queues *)
(* and is released once: by a refusal, an eviction, a failed decoding, a   *)
(* drop, a release of the queue, or by the mix that took it.               *)
THEOREM FramesStayExact == Spec => []FramesExact
<1>1. Inv => FramesExact
  BY DEF Inv
<1> QED
  BY <1>1, PlacesHold, PTL

(* The ids in a queue always lie in a window of N ids, so that its first   *)
(* frame, which the decode thread takes, is one of them.                   *)
THEOREM QueuesStayInWindow ==
    Spec => [](\A p \in Peers : net[p] # {} => Earliest(net[p]) \in net[p])
<1>1. Inv => \A p \in Peers : net[p] # {} => Earliest(net[p]) \in net[p]
  <2> SUFFICES ASSUME Inv, NEW p \in Peers, net[p] # {} PROVE Earliest(net[p]) \in net[p]
    OBVIOUS
  <2>1. net[p] \in SUBSET Fid /\ InWindow(net[p])
    BY Constants DEF Inv, IInv, OrderTypeOK, QueuesInWindow
  <2> QED
    BY <2>1, WindowEnds
<1> QED
  BY <1>1, PlacesHold, PTL
=============================================================================
