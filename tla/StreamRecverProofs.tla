------------------------- MODULE StreamRecverProofs -------------------------
(***************************************************************************)
(* Proof, for any senders, streams, ids, segments, window and time-out,    *)
(* that StreamRecver delivers a frame again only after its record timed    *)
(* out; that the counters of a record tell the symbols that arrived, so    *)
(* that a frame is delivered exactly when it can be decoded; and that the  *)
(* allocators miss what the queues hold.                                   *)
(***************************************************************************)
EXTENDS StreamRecver, FiniteSetLemmas, TLAPS

(* The constants as the prover uses them.                                  *)
LEMMA Constants ==
    /\ Half \in Nat /\ 0 < Half /\ FidMod = Half + Half
    /\ N \in Nat /\ 0 < N /\ N <= Half
    /\ Ids \subseteq Fid
    /\ Timeout \in Nat /\ MaxTick \in Nat
    /\ Never \notin Nat
BY HalfAssumption, CapacityAssumption, IdsAssumption, ClockAssumption DEF FidMod, Never

-----------------------------------------------------------------------------
(* The ids alive lie within half a turn, so they have a place on a line.   *)

Anchor == CHOOSE first \in Fid : \A f \in Ids : Distance(f, first) < Half
Pos(f) == Distance(f, Anchor)

(* A place on the line tells the order and the distance of ids.            *)
LEMMA PosOrders ==
    ASSUME NEW f \in Ids, NEW g \in Ids
    PROVE  /\ Pos(f) \in Nat /\ Pos(f) < Half /\ Pos(g) \in Nat /\ Pos(g) < Half
           /\ Pos(f) = Pos(g) <=> f = g
           /\ IsEarlier(f, g) <=> Pos(f) < Pos(g)
           /\ IsLater(f, g) <=> Pos(f) > Pos(g)
           /\ IsNotLater(f, g) <=> Pos(f) <= Pos(g)
           /\ Distance(f, g) < N <=> Pos(g) <= Pos(f) /\ Pos(f) - Pos(g) < N
<1>1. Anchor \in Fid /\ \A h \in Ids : Distance(h, Anchor) < Half
  BY IdsAssumption DEF Anchor
<1>2. f \in Fid /\ g \in Fid /\ Anchor \in Fid
  BY <1>1, Constants
<1>3. /\ f \in Nat /\ f < FidMod /\ g \in Nat /\ g < FidMod
      /\ Anchor \in Nat /\ Anchor < FidMod
  BY <1>2, Constants DEF Fid
<1>4. Distance(f, Anchor) < Half /\ Distance(g, Anchor) < Half
  BY <1>1
<1>5. Pos(f) \in Nat /\ Pos(g) \in Nat /\ (Pos(f) = Pos(g) <=> f = g)
  BY <1>3, <1>4, Constants DEF Pos, Distance
<1>6. Distance(f, g) = IF Pos(f) >= Pos(g) THEN Pos(f) - Pos(g) ELSE Pos(f) - Pos(g) + FidMod
  BY <1>3, <1>4, Constants DEF Pos, Distance
<1>7. Distance(g, f) = IF Pos(g) >= Pos(f) THEN Pos(g) - Pos(f) ELSE Pos(g) - Pos(f) + FidMod
  BY <1>3, <1>4, Constants DEF Pos, Distance
<1>8. Pos(f) < Half /\ Pos(g) < Half
  BY <1>4 DEF Pos
<1> QED BY <1>5, <1>6, <1>7, <1>8, Constants DEF IsEarlier, IsLater, IsNotLater

(* Ids that fit in one queue.                                              *)
Spans(S) == S \subseteq Ids /\ \A f, g \in S : Pos(f) - Pos(g) < N

(* The earliest and the latest of them.                                    *)
LEMMA EndsOfSpan ==
    ASSUME NEW S, Spans(S), S # {}
    PROVE  /\ Earliest(S) \in S /\ \A g \in S : Pos(Earliest(S)) <= Pos(g)
           /\ Latest(S) \in S /\ \A g \in S : Pos(g) <= Pos(Latest(S))
<1> DEFINE P == {Pos(f) : f \in S}
<1>1. S \subseteq Ids /\ \A f, g \in S : Pos(f) - Pos(g) < N
  BY DEF Spans
<1>2. \A f \in S : Pos(f) \in Nat /\ Pos(f) < Half
  BY <1>1, PosOrders
<1>3. P \in SUBSET Nat /\ P \in SUBSET (0 .. Half) /\ P # {}
  BY <1>2, Constants
<1>4. PICK f \in S : \A g \in S : Pos(f) <= Pos(g)
  <2>1. PICK p \in P : \A r \in P : p <= r
    <3> HIDE DEF P
    <3> QED BY <1>3, SmallestOfSet
  <2> QED BY <2>1
<1>5. PICK l \in S : \A g \in S : Pos(l) >= Pos(g)
  <2>1. PICK p \in P : \A r \in P : p >= r
    <3> HIDE DEF P
    <3> QED BY <1>3, LargestOfSet, Constants
  <2> QED BY <2>1
<1>6. \A g \in S : Distance(g, f) < N
  BY <1>1, <1>4, PosOrders
<1>7. \A g \in S : Distance(l, g) < N
  BY <1>1, <1>5, PosOrders
<1>8. Earliest(S) \in S /\ \A g \in S : Distance(g, Earliest(S)) < N
  BY <1>6 DEF Earliest
<1>9. Latest(S) \in S /\ \A g \in S : Distance(Latest(S), g) < N
  BY <1>7 DEF Latest
<1> QED BY <1>1, <1>8, <1>9, PosOrders

(* What the guards of Insert say on the line.                              *)
LEMMA GuardsOfSpan ==
    ASSUME NEW S, Spans(S), NEW fid \in Ids
    PROVE  /\ TooOld(S, fid) <=> S # {} /\ \A g \in S : Pos(fid) < Pos(g)
           /\ IsAfter(S, fid) <=> S # {} /\ \A g \in S : Pos(g) < Pos(fid)
           /\ Evicted(S, fid) \subseteq S
           /\ \A f \in S : f \in Evicted(S, fid)
                 <=> IsAfter(S, fid) /\ Pos(fid) - Pos(f) >= N
<1>1. S \subseteq Ids /\ \A g \in S : Pos(g) \in Nat /\ Pos(fid) \in Nat
  BY PosOrders DEF Spans
<1>2. ASSUME S # {}
      PROVE  /\ TooOld(S, fid) <=> \A g \in S : Pos(fid) < Pos(g)
             /\ IsAfter(S, fid) <=> \A g \in S : Pos(g) < Pos(fid)
  <2>1. /\ Earliest(S) \in S /\ \A g \in S : Pos(Earliest(S)) <= Pos(g)
        /\ Latest(S) \in S /\ \A g \in S : Pos(g) <= Pos(Latest(S))
    BY <1>2, EndsOfSpan
  <2>2. /\ IsEarlier(fid, Earliest(S)) <=> Pos(fid) < Pos(Earliest(S))
        /\ IsLater(fid, Latest(S)) <=> Pos(fid) > Pos(Latest(S))
    BY <1>1, <2>1, PosOrders
  <2>3. TooOld(S, fid) <=> \A g \in S : Pos(fid) < Pos(g)
    BY <1>1, <1>2, <2>1, <2>2 DEF TooOld
  <2>4. IsAfter(S, fid) <=> \A g \in S : Pos(g) < Pos(fid)
    BY <1>1, <1>2, <2>1, <2>2, <2>3 DEF IsAfter
  <2> QED BY <2>3, <2>4
<1>3. ASSUME NEW f \in S, IsAfter(S, fid)
      PROVE  Distance(fid, f) >= N <=> Pos(fid) - Pos(f) >= N
  <2>1. Pos(f) < Pos(fid) /\ f \in Ids
    BY <1>1, <1>2, <1>3
  <2>2. Distance(fid, f) < N <=> Pos(fid) - Pos(f) < N
    BY <1>1, <2>1, PosOrders
  <2>3. Distance(fid, f) \in Nat
    BY <2>1, Constants DEF Distance, Fid
  <2> QED BY <1>1, <2>2, <2>3, Constants
<1> QED BY <1>2, <1>3 DEF Evicted, TooOld, IsAfter

(* A queue stays within the window when Insert has evicted.                *)
LEMMA InsertSpans ==
    ASSUME NEW S, Spans(S), NEW fid \in Ids, ~TooOld(S, fid)
    PROVE  Spans((S \ Evicted(S, fid)) \cup {fid})
<1> DEFINE T == (S \ Evicted(S, fid)) \cup {fid}
<1>1. S \subseteq Ids /\ (\A f, g \in S : Pos(f) - Pos(g) < N) /\ T \subseteq Ids
  BY DEF Spans
<1>2. \A f \in Ids : Pos(f) \in Nat
  BY PosOrders
<1>3. ASSUME NEW f \in S, f \notin Evicted(S, fid)
      PROVE  Pos(f) - Pos(fid) < N /\ Pos(fid) - Pos(f) < N
  <2>1. PICK g \in S : Pos(g) <= Pos(fid)
    BY <1>1, <1>2, <1>3, GuardsOfSpan
  <2>2. Pos(f) - Pos(fid) < N
    BY <1>1, <1>2, <2>1, Constants
  <2>3. CASE IsAfter(S, fid)
    BY <1>1, <1>2, <1>3, <2>2, <2>3, GuardsOfSpan, Constants
  <2>4. CASE ~IsAfter(S, fid)
    <3>1. PICK h \in S : Pos(h) >= Pos(fid)
      BY <1>1, <1>2, <1>3, <2>4, GuardsOfSpan
    <3> QED BY <1>1, <1>2, <2>2, <3>1, Constants
  <2> QED BY <2>3, <2>4
<1>4. \A f, g \in T : Pos(f) - Pos(g) < N
  BY <1>1, <1>2, <1>3, Constants
<1> QED BY <1>1, <1>4 DEF Spans

-----------------------------------------------------------------------------
(* The inductive invariant.                                                *)

QueueOK(q) == Spans(DOMAIN q) /\ \A f \in DOMAIN q : q[f] \in Frame

(* What keeps a slice of frame f, delivered at tick t, from delivering it  *)
(* again: its record, or a later frame the window moved on to.             *)
Remembers(q, f, t) ==
    \/ f \in DOMAIN q /\ q[f].done /\ q[f].tick >= t
    \/ \E g \in DOMAIN q : q[g].tick >= t /\ \A h \in DOMAIN q : Pos(f) < Pos(h)

IsRecent(t) == t # Never /\ t + Timeout >= now

QueuesTypeOK ==
    /\ now \in 0 .. MaxTick
    /\ lastTick \in [Identities -> 0 .. MaxTick]
    /\ DOMAIN frames = Identities
    /\ \A iden \in Identities : DOMAIN frames[iden] = Streams
    /\ \A iden \in Identities, st \in Streams : QueueOK(frames[iden][st])
    /\ doneAt \in [Identities \X Streams \X Ids -> {Never} \cup 0 .. MaxTick]

(* An identity was heard of when its frames were delivered.                *)
HeardOf ==
    \A iden \in Identities :
        /\ lastTick[iden] <= now
        /\ \A st \in Streams, f \in Ids : doneAt[<<iden, st, f>>] <= lastTick[iden]

DeliveriesRemembered ==
    running => \A iden \in Identities, st \in Streams, f \in Ids :
        IsRecent(doneAt[<<iden, st, f>>])
            => Remembers(frames[iden][st], f, doneAt[<<iden, st, f>>])

QueuesInv == QueuesTypeOK /\ HeardOf /\ DeliveriesRemembered
IInv == QueuesInv /\ RedeliveredOnlyAfterTimeout

(* The types the invariant gives.                                          *)
LEMMA InvTypes ==
    ASSUME QueuesInv
    PROVE  /\ now \in Nat /\ now <= MaxTick
           /\ \A iden \in Identities : lastTick[iden] \in Nat /\ lastTick[iden] <= now
           /\ \A iden \in Identities, st \in Streams, f \in Ids :
                 /\ doneAt[<<iden, st, f>>] \in {Never} \cup Nat
                 /\ doneAt[<<iden, st, f>>] <= lastTick[iden]
BY Constants DEF QueuesInv, QueuesTypeOK, HeardOf

(* The empty queue.                                                        *)
LEMMA NoFramesOK == QueueOK(NoFrames) /\ DOMAIN NoFrames = {}
BY DEF QueueOK, NoFrames, Spans

(* A queue without some of its frames.                                     *)
LEMMA WithoutOK ==
    ASSUME NEW q, QueueOK(q), NEW R
    PROVE  /\ QueueOK(Without(q, R))
           /\ DOMAIN Without(q, R) = DOMAIN q \ R
           /\ \A f \in DOMAIN q \ R : Without(q, R)[f] = q[f]
BY DEF QueueOK, Without, Spans

(* The queues GetRecvIdentity finds or starts afresh: frames delivered     *)
(* lately are remembered in them, since an identity that expired was not   *)
(* heard of lately.                                                        *)
LEMMA QueuesRemember ==
    ASSUME QueuesInv, running, NEW iden \in Identities
    PROVE  /\ DOMAIN Queues(iden) = Streams
           /\ \A st \in Streams :
                 /\ QueueOK(Queues(iden)[st])
                 /\ \A f \in Ids : IsRecent(doneAt[<<iden, st, f>>])
                        => Remembers(Queues(iden)[st], f, doneAt[<<iden, st, f>>])
<1>1. CASE Expired(iden)
  <2>1. Queues(iden) = [st \in Streams |-> NoFrames]
    BY <1>1 DEF Queues
  <2>2. \A st \in Streams, f \in Ids : ~IsRecent(doneAt[<<iden, st, f>>])
    BY <1>1, InvTypes, Constants DEF Expired, IsRecent
  <2> QED BY <2>1, <2>2, NoFramesOK
<1>2. CASE ~Expired(iden)
  BY <1>2 DEF Queues, QueuesInv, QueuesTypeOK, DeliveriesRemembered
<1> QED BY <1>1, <1>2

(* The queue ObsoleteFrames leaves: what remembers a frame delivered       *)
(* lately has not timed out.                                               *)
LEMMA QueueRemembers ==
    ASSUME QueuesInv, running, NEW iden \in Identities, NEW st \in Streams
    PROVE  /\ QueueOK(Queue(iden, st))
           /\ \A f \in Ids : IsRecent(doneAt[<<iden, st, f>>])
                 => Remembers(Queue(iden, st), f, doneAt[<<iden, st, f>>])
<1> DEFINE q == Queues(iden)[st]
           R == Obsolete(q)
<1>1. QueueOK(q)
  BY QueuesRemember
<1>2. /\ QueueOK(Queue(iden, st))
      /\ DOMAIN Queue(iden, st) = DOMAIN q \ R
      /\ \A f \in DOMAIN q \ R : Queue(iden, st)[f] = q[f]
  BY <1>1, WithoutOK DEF Queue
<1>3. ASSUME NEW f \in Ids, IsRecent(doneAt[<<iden, st, f>>])
      PROVE  Remembers(Queue(iden, st), f, doneAt[<<iden, st, f>>])
  <2> DEFINE t == doneAt[<<iden, st, f>>]
  <2>1. t \in Nat /\ t + Timeout >= now /\ now \in Nat
    BY <1>3, InvTypes DEF IsRecent
  <2>2. Remembers(q, f, t)
    BY <1>3, QueuesRemember
  <2>3. \A g \in DOMAIN q : q[g].tick >= t => g \notin R
    <3> SUFFICES ASSUME NEW g \in DOMAIN q, q[g].tick >= t, g \in R PROVE FALSE
      OBVIOUS
    <3>1. q[g].tick + Timeout < now
      BY DEF Obsolete, Stale
    <3>2. q[g].tick \in Nat
      BY <1>1, Constants DEF QueueOK, Frame
    <3> HIDE DEF q, t
    <3> QED BY <2>1, <3>1, <3>2, Constants
  <2> HIDE DEF q, R, t
  <2>4. Remembers(Queue(iden, st), f, t)
    BY <1>2, <2>2, <2>3 DEF Remembers
  <2> QED BY <2>4 DEF t
<1> QED BY <1>2, <1>3

(* Insert keeps remembering the other frames: what it evicts, the new      *)
(* frame has left behind.                                                  *)
LEMMA InsertRemembers ==
    ASSUME NEW q, QueueOK(q), NEW fid \in Ids, ~TooOld(DOMAIN q, fid),
           NEW frm \in Frame
    PROVE  /\ QueueOK(Inserted(q, fid, frm))
           /\ Inserted(q, fid, frm)[fid] = frm /\ fid \in DOMAIN Inserted(q, fid, frm)
           /\ \A f \in Ids \ {fid}, t \in Nat :
                 t <= frm.tick /\ Remembers(q, f, t) => Remembers(Inserted(q, fid, frm), f, t)
<1> DEFINE S == DOMAIN q
           T == (S \ Evicted(S, fid)) \cup {fid}
           r == Inserted(q, fid, frm)
<1>1. DOMAIN r = T /\ fid \in T /\ r[fid] = frm /\ \A f \in T \ {fid} : r[f] = q[f] /\ f \in S
  BY DEF Inserted
<1>2. Spans(S) /\ S \subseteq Ids /\ \A f \in S : q[f] \in Frame
  BY DEF QueueOK, Spans
<1>3. Spans(T)
  BY <1>2, InsertSpans
<1>4. QueueOK(r)
  <2> HIDE DEF r, T, S
  <2> QED BY <1>1, <1>2, <1>3 DEF QueueOK
<1>5. \A f \in Ids : Pos(f) \in Nat
  BY PosOrders
<1>6. ASSUME NEW f \in Ids \ {fid}, NEW t \in Nat, t <= frm.tick, Remembers(q, f, t)
      PROVE  Remembers(r, f, t)
  <2>1. frm.tick >= t
    BY <1>6, Constants DEF Frame
  <2>2. CASE f \in S /\ q[f].done /\ q[f].tick >= t
    <3>1. CASE f \notin Evicted(S, fid)
      <4> HIDE DEF r
      <4> QED BY <1>1, <2>2, <3>1 DEF Remembers
    <3>2. CASE f \in Evicted(S, fid)
      <4>1. IsAfter(S, fid) /\ Pos(fid) - Pos(f) >= N
        BY <1>2, <2>2, <3>2, GuardsOfSpan
      <4>2. \A h \in T : h # fid => Pos(f) < Pos(h)
        BY <1>2, <1>5, <4>1, GuardsOfSpan, Constants
      <4>3. Pos(f) < Pos(fid)
        BY <1>5, <4>1, Constants
      <4> HIDE DEF r, T
      <4> QED BY <1>1, <2>1, <4>2, <4>3 DEF Remembers
    <3> QED BY <3>1, <3>2
  <2>3. CASE \E g \in S : q[g].tick >= t /\ \A h \in S : Pos(f) < Pos(h)
    <3>1. PICK k \in S : Pos(k) <= Pos(fid)
      BY <1>2, <1>5, <2>3, GuardsOfSpan
    <3>2. Pos(f) < Pos(fid)
      BY <1>2, <1>5, <2>3, <3>1
    <3>3. \A h \in T : Pos(f) < Pos(h)
      BY <2>3, <3>2
    <3> HIDE DEF r, T
    <3> QED BY <1>1, <2>1, <3>3 DEF Remembers
  <2> QED BY <1>6, <2>2, <2>3 DEF Remembers
<1> QED BY <1>1, <1>4, <1>6

(* GetRecvFrame finds the queue and Commit stores it: the invariant of the *)
(* queues holds when it holds of the queue stored.                         *)
LEMMA CommitKeeps ==
    ASSUME QueuesInv, running, NEW iden \in Identities, NEW st \in Streams, NEW fid \in Ids,
           NEW q, Commit(iden, st, q), QueueOK(q),
           doneAt' = doneAt \/ doneAt' = [doneAt EXCEPT ![<<iden, st, fid>>] = now],
           \A f \in Ids : IsRecent(doneAt'[<<iden, st, f>>])
                => Remembers(q, f, doneAt'[<<iden, st, f>>])
    PROVE  QueuesInv'
<1>1. /\ lastTick' = [lastTick EXCEPT ![iden] = now]
      /\ frames' = [frames EXCEPT ![iden] = [Queues(iden) EXCEPT ![st] = q]]
      /\ now' = now /\ running' = running
  BY DEF Commit
<1>2. /\ now \in 0 .. MaxTick /\ now \in Nat
      /\ lastTick \in [Identities -> 0 .. MaxTick]
      /\ DOMAIN frames = Identities
      /\ \A i \in Identities : DOMAIN frames[i] = Streams
      /\ \A i \in Identities, s \in Streams : QueueOK(frames[i][s])
      /\ doneAt \in [Identities \X Streams \X Ids -> {Never} \cup 0 .. MaxTick]
  BY Constants DEF QueuesInv, QueuesTypeOK
<1>3. DOMAIN Queues(iden) = Streams /\ \A s \in Streams : QueueOK(Queues(iden)[s])
  BY QueuesRemember
<1>4. /\ DOMAIN frames' = Identities
      /\ \A i \in Identities \ {iden} : frames'[i] = frames[i]
      /\ DOMAIN frames'[iden] = Streams
      /\ frames'[iden][st] = q
      /\ \A s \in Streams \ {st} : frames'[iden][s] = Queues(iden)[s]
  BY <1>1, <1>2, <1>3
<1>5. /\ doneAt' \in [Identities \X Streams \X Ids -> {Never} \cup 0 .. MaxTick]
      /\ \A i \in Identities, s \in Streams, f \in Ids :
            \/ doneAt'[<<i, s, f>>] = doneAt[<<i, s, f>>]
            \/ i = iden /\ s = st /\ doneAt'[<<i, s, f>>] = now
  BY <1>2
<1>6. QueuesTypeOK'
  <2>1. lastTick' \in [Identities -> 0 .. MaxTick]
    BY <1>1, <1>2
  <2>2. \A i \in Identities : DOMAIN frames'[i] = Streams
    BY <1>2, <1>4
  <2>3. \A i \in Identities, s \in Streams : QueueOK(frames'[i][s])
    BY <1>2, <1>3, <1>4
  <2> QED BY <1>1, <1>2, <1>4, <1>5, <2>1, <2>2, <2>3 DEF QueuesTypeOK
<1>7. HeardOf'
  <2>1. /\ lastTick'[iden] = now
        /\ \A i \in Identities \ {iden} : lastTick'[i] = lastTick[i]
    BY <1>1, <1>2
  <2>2. \A i \in Identities, s \in Streams, f \in Ids :
           doneAt'[<<i, s, f>>] <= lastTick'[i]
    <3> TAKE i \in Identities, s \in Streams, f \in Ids
    <3>1. /\ doneAt[<<i, s, f>>] \in {-1} \cup Nat /\ doneAt[<<i, s, f>>] <= lastTick[i]
          /\ lastTick[i] \in Nat /\ lastTick[i] <= now
      BY InvTypes DEF Never
    <3> QED BY <1>2, <1>5, <2>1, <3>1
  <2>3. \A i \in Identities : lastTick'[i] <= now
    BY <1>2, <2>1, InvTypes
  <2> QED BY <1>1, <2>2, <2>3 DEF HeardOf
<1>8. DeliveriesRemembered'
  <2> SUFFICES ASSUME NEW i \in Identities, NEW s \in Streams, NEW f \in Ids,
                      IsRecent(doneAt[<<i, s, f>>])'
               PROVE  Remembers(frames'[i][s], f, doneAt'[<<i, s, f>>])
    BY DEF DeliveriesRemembered, Remembers
  <2>1. IsRecent(doneAt'[<<i, s, f>>])
    BY <1>1 DEF IsRecent
  <2>2. CASE i # iden
    BY <2>1, <2>2, <1>4, <1>5 DEF QueuesInv, DeliveriesRemembered
  <2>3. CASE i = iden /\ s # st
    BY <2>1, <2>3, <1>4, <1>5, QueuesRemember
  <2>4. CASE i = iden /\ s = st
    BY <2>1, <2>4, <1>4
  <2> QED BY <2>2, <2>3, <2>4
<1> QED BY <1>6, <1>7, <1>8 DEF QueuesInv

-----------------------------------------------------------------------------
(* The steps.                                                              *)

(* A frame that Insert would not refuse and whose record is not done was   *)
(* not delivered lately.                                                   *)
LEMMA NotRecent ==
    ASSUME QueuesInv, running, NEW iden \in Identities, NEW st \in Streams, NEW fid \in Ids,
           ~TooOld(DOMAIN Queue(iden, st), fid),
           fid \in DOMAIN Queue(iden, st) => ~Queue(iden, st)[fid].done
    PROVE  ~IsRecent(doneAt[<<iden, st, fid>>])
<1>1. Spans(DOMAIN Queue(iden, st))
  BY QueueRemembers DEF QueueOK
<1>2. SUFFICES ASSUME Remembers(Queue(iden, st), fid, doneAt[<<iden, st, fid>>]) PROVE FALSE
  BY QueueRemembers
<1>3. \A g \in DOMAIN Queue(iden, st) : Pos(fid) < Pos(g)
  BY <1>2 DEF Remembers
<1>4. DOMAIN Queue(iden, st) # {}
  BY <1>2 DEF Remembers
<1> QED BY <1>1, <1>3, <1>4, GuardsOfSpan

(* A frame delivered that was not delivered lately.                        *)
LEMMA DeliverLate ==
    ASSUME QueuesInv, NEW iden \in Identities, NEW st \in Streams, NEW fid \in Ids, NEW segs,
           Deliver(iden, st, fid, segs), ~IsRecent(doneAt[<<iden, st, fid>>])
    PROVE  RedeliveredOnlyAfterTimeout'
<1> DEFINE at == doneAt[<<iden, st, fid>>]
<1>1. at \in {Never} \cup Nat /\ now \in Nat
  BY InvTypes
<1>2. at = Never \/ now - at > Timeout
  BY <1>1, Constants DEF IsRecent
<1>3. outcome'.since = IF at = Never THEN Never ELSE now - at
  BY DEF Deliver, Did
<1> QED BY <1>2, <1>3 DEF RedeliveredOnlyAfterTimeout

(* A step that delivers nothing.                                           *)
LEMMA DropLate ==
    ASSUME NEW what, what # "delivered", Drop(what)
    PROVE  RedeliveredOnlyAfterTimeout' /\ doneAt' = doneAt
BY DEF Drop, Did, RedeliveredOnlyAfterTimeout

(* The queue of the stream is stored as ObsoleteFrames left it.            *)
LEMMA SameQueueKeeps ==
    ASSUME QueuesInv, running, NEW iden \in Identities, NEW st \in Streams, NEW fid \in Ids,
           Commit(iden, st, Queue(iden, st)), doneAt' = doneAt
    PROVE  QueuesInv'
BY QueueRemembers, CommitKeeps

(* A frame not delivered yet is stored, with its delivery or without.      *)
LEMMA StoreKeeps ==
    ASSUME QueuesInv, running, NEW iden \in Identities, NEW st \in Streams, NEW fid \in Ids,
           ~TooOld(DOMAIN Queue(iden, st), fid),
           fid \in DOMAIN Queue(iden, st) => ~Queue(iden, st)[fid].done,
           NEW frm \in Frame, frm.tick = now,
           Commit(iden, st, Inserted(Queue(iden, st), fid, frm)),
           \/ doneAt' = doneAt
           \/ frm.done /\ doneAt' = [doneAt EXCEPT ![<<iden, st, fid>>] = now]
    PROVE  QueuesInv'
<1> DEFINE q == Queue(iden, st)
           r == Inserted(q, fid, frm)
<1>1. QueueOK(q)
  BY QueueRemembers
<1>2. /\ QueueOK(r)
      /\ r[fid] = frm /\ fid \in DOMAIN r
      /\ \A f \in Ids \ {fid}, t \in Nat :
            t <= frm.tick /\ Remembers(q, f, t) => Remembers(r, f, t)
  BY <1>1, InsertRemembers
<1>3. now \in Nat
  BY InvTypes
<1>4. ASSUME NEW f \in Ids \ {fid}, IsRecent(doneAt'[<<iden, st, f>>])
      PROVE  Remembers(r, f, doneAt'[<<iden, st, f>>])
  <2>1. doneAt'[<<iden, st, f>>] = doneAt[<<iden, st, f>>]
    <3>1. doneAt \in [Identities \X Streams \X Ids -> {Never} \cup 0 .. MaxTick]
      BY DEF QueuesInv, QueuesTypeOK
    <3> QED BY <3>1
  <2>2. doneAt[<<iden, st, f>>] \in Nat /\ doneAt[<<iden, st, f>>] <= now
    <3>1. /\ doneAt[<<iden, st, f>>] \in {Never} \cup Nat
          /\ doneAt[<<iden, st, f>>] <= lastTick[iden]
          /\ lastTick[iden] \in Nat /\ lastTick[iden] <= now
      BY InvTypes
    <3>2. doneAt[<<iden, st, f>>] \in Nat
      BY <1>4, <2>1, <3>1 DEF IsRecent
    <3> QED BY <1>3, <3>1, <3>2
  <2>3. Remembers(q, f, doneAt[<<iden, st, f>>])
    BY <1>4, <2>1, QueueRemembers
  <2> HIDE DEF r, q
  <2> QED BY <1>2, <2>1, <2>2, <2>3
<1>5. ASSUME IsRecent(doneAt'[<<iden, st, fid>>])
      PROVE  Remembers(r, fid, doneAt'[<<iden, st, fid>>])
  <2>1. frm.done /\ doneAt' = [doneAt EXCEPT ![<<iden, st, fid>>] = now]
    BY <1>5, NotRecent
  <2>2. doneAt \in [Identities \X Streams \X Ids -> {Never} \cup 0 .. MaxTick]
    BY DEF QueuesInv, QueuesTypeOK
  <2>3. doneAt'[<<iden, st, fid>>] = now
    BY <2>1, <2>2
  <2> HIDE DEF r
  <2> QED BY <1>2, <1>3, <2>1, <2>3 DEF Remembers
<1>6. \A f \in Ids : IsRecent(doneAt'[<<iden, st, f>>])
          => Remembers(r, f, doneAt'[<<iden, st, f>>])
  BY <1>4, <1>5
<1> HIDE DEF r
<1> QED BY <1>2, <1>6, CommitKeeps DEF r

(* Sums of symbols are natural numbers.                                    *)
LEMMA RangeSumType == \A esi, cnt \in Nat : RangeSum(esi, cnt) \in Nat
<1> SUFFICES ASSUME NEW esi \in Nat, NEW cnt \in Nat PROVE RangeSum(esi, cnt) \in Nat
  OBVIOUS
<1>1. \A a, b \in Nat : a * b \in Nat
  OBVIOUS
<1>2. cnt \div 2 \in Nat
  OBVIOUS
<1>3. (esi + 1) + (esi + cnt) \in Nat /\ (esi + 1) + (cnt \div 2) \in Nat
  BY <1>2
<1> QED BY <1>1, <1>2, <1>3 DEF RangeSum

(* The smaller of two numbers.                                             *)
LEMMA MinOfTwo == \A a, b \in Nat : Min({a, b}) \in {a, b}
<1> SUFFICES ASSUME NEW a \in Nat, NEW b \in Nat PROVE Min({a, b}) \in {a, b}
  OBVIOUS
<1>1. \E x \in {a, b} : \A y \in {a, b} : x <= y
  OBVIOUS
<1> QED BY <1>1 DEF Min

(* A segment added to a record of a frame leaves one.                      *)
LEMMA WithSegmentType ==
    ASSUME NEW frm \in Frame, NEW src \in Nat, NEW seg \in Segments
    PROVE  /\ WithSegment(frm, src, seg) \in Frame
           /\ WithSegment(frm, src, seg).tick = frm.tick
           /\ WithSegment(frm, src, seg).done = frm.done
<1>1. seg.esi \in Nat /\ seg.cnt \in Nat
  BY CodingAssumption
<1>2. AddRange(frm.sum, src, seg) \in Nat
  <2>1. frm.sum \in Nat
    BY DEF Frame
  <2>2. ASSUME ~(seg.esi >= src)
        PROVE  RangeSum(seg.esi, Min({seg.cnt, src - seg.esi})) \in Nat
    <3>1. src - seg.esi \in Nat
      BY <1>1, <2>2
    <3>2. Min({seg.cnt, src - seg.esi}) \in Nat
      BY <1>1, <3>1, MinOfTwo
    <3> QED BY <1>1, <3>2, RangeSumType
  <2> QED BY <2>1, <2>2 DEF AddRange
<1>3. frm.recvSymNum + seg.cnt \in Nat /\ frm.segs \cup {seg} \in SUBSET Segments
  BY <1>1 DEF Frame
<1> QED BY <1>2, <1>3 DEF WithSegment, Frame

(* The records of new frames.                                              *)
LEMMA NewRecords ==
    ASSUME QueuesInv
    PROVE  /\ RawFrame \in Frame /\ RawFrame.tick = now /\ RawFrame.done
           /\ CodedFrame \in Frame /\ CodedFrame.tick = now
BY Constants DEF QueuesInv, QueuesTypeOK, RawFrame, CodedFrame, Frame

(* A slice of a frame older than the queue.                                *)
LEMMA TooLateKeeps ==
    ASSUME QueuesInv, running, NEW iden \in Identities, NEW st \in Streams, NEW fid \in Ids,
           HandleTooLate(iden, st, fid)
    PROVE  QueuesInv' /\ RedeliveredOnlyAfterTimeout'
<1>1. Commit(iden, st, Queue(iden, st)) /\ Drop("too late")
  BY DEF HandleTooLate
<1>2. RedeliveredOnlyAfterTimeout' /\ doneAt' = doneAt
  BY <1>1, DropLate
<1> QED BY <1>1, <1>2, SameQueueKeeps

(* A frame sent in one slice.                                              *)
LEMMA NonFecKeeps ==
    ASSUME QueuesInv, running, NEW iden \in Identities, NEW st \in Streams, NEW fid \in Ids,
           HandleSliceNonFecPayload(iden, st, fid)
    PROVE  QueuesInv' /\ RedeliveredOnlyAfterTimeout'
<1> DEFINE q == Queue(iden, st)
<1>1. ~TooOld(DOMAIN q, fid)
  BY DEF HandleSliceNonFecPayload
<1>2. CASE /\ fid \notin DOMAIN q
           /\ Commit(iden, st, Inserted(q, fid, RawFrame))
           /\ Deliver(iden, st, fid, {})
  <2>1. RedeliveredOnlyAfterTimeout'
    BY <1>1, <1>2, NotRecent, DeliverLate
  <2>2. doneAt' = [doneAt EXCEPT ![<<iden, st, fid>>] = now]
    BY <1>2 DEF Deliver
  <2> QED BY <1>1, <1>2, <2>1, <2>2, NewRecords, StoreKeeps
<1>3. CASE Commit(iden, st, q) /\ Drop("duplicate")
  <2>1. RedeliveredOnlyAfterTimeout' /\ doneAt' = doneAt
    BY <1>3, DropLate
  <2> QED BY <1>3, <2>1, SameQueueKeeps
<1> QED BY <1>2, <1>3 DEF HandleSliceNonFecPayload

(* A slice with a segment of a coded frame.                                *)
LEMMA FecKeeps ==
    ASSUME QueuesInv, running, NEW iden \in Identities, NEW st \in Streams, NEW fid \in Ids,
           NEW seg \in Segments, HandleSliceFecSegment(iden, st, fid, seg)
    PROVE  QueuesInv' /\ RedeliveredOnlyAfterTimeout'
<1> DEFINE q     == Queue(iden, st)
           src   == SrcOf(st, fid)
           base  == IF fid \in DOMAIN q THEN q[fid] ELSE CodedFrame
           frm   == [base EXCEPT !.tick = now]
           added == WithSegment(frm, src, seg)
           last  == [added EXCEPT !.done = TRUE, !.segs = {}]
<1>1. ~TooOld(DOMAIN q, fid)
  BY DEF HandleSliceFecSegment
<1>2. base \in Frame
  BY QueueRemembers, NewRecords DEF QueueOK
<1>3. frm \in Frame /\ frm.tick = now
  <2>1. now \in 0 .. MaxTick
    BY DEF QueuesInv, QueuesTypeOK
  <2> HIDE DEF base
  <2> QED BY <1>2, <2>1 DEF Frame
<1>4. added \in Frame /\ added.tick = now
  <2>1. src \in Nat
    BY CodingAssumption DEF SrcOf
  <2> HIDE DEF frm, src
  <2> QED BY <1>3, <2>1, WithSegmentType
<1>5. last \in Frame /\ last.tick = now /\ last.done
  <2> HIDE DEF added
  <2> QED BY <1>4 DEF Frame
<1>6. CASE base.done /\ Commit(iden, st, q) /\ Drop("duplicate")
  <2>1. RedeliveredOnlyAfterTimeout' /\ doneAt' = doneAt
    BY <1>6, DropLate
  <2> QED BY <1>6, <2>1, SameQueueKeeps
<1>7. ASSUME ~base.done
      PROVE  fid \in DOMAIN q => ~q[fid].done
  BY <1>7
<1>8. ASSUME ~base.done, NEW f \in {frm, added}, Commit(iden, st, Inserted(q, fid, f)),
             NEW what \in {"duplicate segment", "segment"}, Drop(what)
      PROVE  QueuesInv' /\ RedeliveredOnlyAfterTimeout'
  <2>1. RedeliveredOnlyAfterTimeout' /\ doneAt' = doneAt
    BY <1>8, DropLate
  <2>2. f \in Frame /\ f.tick = now
    BY <1>3, <1>4
  <2>3. fid \in DOMAIN q => ~q[fid].done
    BY <1>7, <1>8
  <2> HIDE DEF frm, added, base
  <2> QED BY <1>1, <1>8, <2>1, <2>2, <2>3, StoreKeeps
<1>9. ASSUME ~base.done, Commit(iden, st, Inserted(q, fid, last)),
             Deliver(iden, st, fid, added.segs)
      PROVE  QueuesInv' /\ RedeliveredOnlyAfterTimeout'
  <2>1. fid \in DOMAIN q => ~q[fid].done
    BY <1>7, <1>9
  <2>2. doneAt' = [doneAt EXCEPT ![<<iden, st, fid>>] = now]
    BY <1>9 DEF Deliver
  <2> HIDE DEF last, added, base
  <2>3. RedeliveredOnlyAfterTimeout'
    BY <1>1, <1>9, <2>1, NotRecent, DeliverLate
  <2> QED BY <1>1, <1>5, <1>9, <2>1, <2>2, <2>3, StoreKeeps
<1>10. \/ base.done /\ Commit(iden, st, q) /\ Drop("duplicate")
       \/ ~base.done /\ Commit(iden, st, Inserted(q, fid, frm)) /\ Drop("duplicate segment")
       \/ ~base.done /\ Commit(iden, st, Inserted(q, fid, added)) /\ Drop("segment")
       \/ /\ ~base.done
          /\ Commit(iden, st, Inserted(q, fid, last))
          /\ Deliver(iden, st, fid, added.segs)
  BY DEF HandleSliceFecSegment
<1> HIDE DEF q, base, frm, added, last
<1> QED BY <1>6, <1>8, <1>9, <1>10

(* Time passes: a delivery that is recent then is recent now.              *)
LEMMA TickKeeps ==
    ASSUME QueuesInv, Tick
    PROVE  QueuesInv' /\ RedeliveredOnlyAfterTimeout'
<1>1. /\ now < MaxTick /\ now' = now + 1 /\ Drop("none")
      /\ lastTick' = lastTick /\ frames' = frames /\ running' = running
  BY DEF Tick
<1>2. RedeliveredOnlyAfterTimeout' /\ doneAt' = doneAt
  BY <1>1, DropLate
<1>3. now \in Nat /\ now' \in 0 .. MaxTick
  BY <1>1, InvTypes, Constants
<1>4. QueuesTypeOK'
  BY <1>1, <1>2, <1>3 DEF QueuesInv, QueuesTypeOK, QueueOK
<1>5. HeardOf'
  BY <1>1, <1>2, <1>3, InvTypes DEF QueuesInv, HeardOf
<1>6. DeliveriesRemembered'
  <2> SUFFICES ASSUME running, NEW i \in Identities, NEW s \in Streams, NEW f \in Ids,
                      IsRecent(doneAt[<<i, s, f>>])'
               PROVE  Remembers(frames[i][s], f, doneAt[<<i, s, f>>])
    BY <1>1, <1>2 DEF DeliveriesRemembered, Remembers
  <2>1. doneAt[<<i, s, f>>] # Never /\ doneAt[<<i, s, f>>] + Timeout >= now + 1
    BY <1>1, <1>2 DEF IsRecent
  <2>2. IsRecent(doneAt[<<i, s, f>>])
    BY <1>3, <2>1, InvTypes, Constants DEF IsRecent
  <2> QED BY <2>2 DEF QueuesInv, DeliveriesRemembered
<1> QED BY <1>2, <1>4, <1>5, <1>6 DEF QueuesInv

(* The end of the receiver.                                                *)
LEMMA DestroyKeeps ==
    ASSUME QueuesInv, Destroy
    PROVE  QueuesInv' /\ RedeliveredOnlyAfterTimeout'
<1>1. /\ running' = FALSE /\ Drop("none")
      /\ frames' = [i \in Identities |-> [s \in Streams |-> NoFrames]]
      /\ now' = now /\ lastTick' = lastTick
  BY DEF Destroy
<1>2. RedeliveredOnlyAfterTimeout' /\ doneAt' = doneAt
  BY <1>1, DropLate
<1>3. QueuesTypeOK'
  <2>1. \A i \in Identities, s \in Streams : QueueOK(frames'[i][s])
    BY <1>1, NoFramesOK
  <2>2. \A i \in Identities : DOMAIN frames'[i] = Streams
    BY <1>1
  <2> QED BY <1>1, <1>2, <2>1, <2>2 DEF QueuesInv, QueuesTypeOK
<1>4. HeardOf'
  BY <1>1, <1>2 DEF QueuesInv, HeardOf
<1>5. DeliveriesRemembered'
  BY <1>1 DEF DeliveriesRemembered
<1> QED BY <1>2, <1>3, <1>4, <1>5 DEF QueuesInv

-----------------------------------------------------------------------------
(* The invariant holds initially.                                          *)
LEMMA InitInv == Init => IInv
<1> SUFFICES ASSUME Init PROVE IInv
  OBVIOUS
<1>1. /\ now = 0 /\ lastTick = [i \in Identities |-> 0]
      /\ frames = [i \in Identities |-> [s \in Streams |-> NoFrames]]
      /\ doneAt = [k \in Identities \X Streams \X Ids |-> Never]
      /\ outcome = Did("none", Never, 0, {})
  BY DEF Init
<1>2. QueuesTypeOK
  <2>1. \A i \in Identities, s \in Streams : QueueOK(frames[i][s])
    BY <1>1, NoFramesOK
  <2>2. 0 \in 0 .. MaxTick
    BY Constants
  <2> QED BY <1>1, <2>1, <2>2 DEF QueuesTypeOK
<1>3. HeardOf /\ DeliveriesRemembered
  BY <1>1 DEF HeardOf, DeliveriesRemembered, IsRecent, Never
<1>4. RedeliveredOnlyAfterTimeout
  BY <1>1 DEF RedeliveredOnlyAfterTimeout, Did
<1> QED BY <1>2, <1>3, <1>4 DEF IInv, QueuesInv

(* Every step keeps the invariant.                                         *)
LEMMA NextInv == IInv /\ [Next]_vars => IInv'
<1> SUFFICES ASSUME IInv, [Next]_vars PROVE IInv'
  OBVIOUS
<1>0. QueuesInv
  BY DEF IInv
<1>1. CASE UNCHANGED vars
  BY <1>1 DEF vars, IInv, QueuesInv, QueuesTypeOK, QueueOK, HeardOf, DeliveriesRemembered,
              IsRecent, Remembers, RedeliveredOnlyAfterTimeout
<1>2. ASSUME NEW iden \in Identities, NEW st \in Streams, NEW fid \in Ids,
             HandleQPacket(iden, st, fid)
      PROVE  IInv'
  BY <1>0, <1>2, TooLateKeeps, NonFecKeeps, FecKeeps DEF HandleQPacket, IInv
<1>3. CASE Tick
  BY <1>0, <1>3, TickKeeps DEF IInv
<1>4. CASE Destroy
  BY <1>0, <1>4, DestroyKeeps DEF IInv
<1> QED BY <1>1, <1>2, <1>3, <1>4 DEF Next

(* Every frame delivered within the time-out is remembered, by its record  *)
(* or by a later frame the window has moved on to, through time-outs,      *)
(* evictions and identities that start afresh.                             *)
THEOREM InvHolds == Spec => []IInv
BY InitInv, NextInv, PTL DEF Spec

(* No frame comes to the assembler a second time before its record timed   *)
(* out, whatever the loss, repetition and disorder of the slices.          *)
THEOREM RedeliveriesAreLate == Spec => []RedeliveredOnlyAfterTimeout
<1>1. IInv => RedeliveredOnlyAfterTimeout
  BY DEF IInv
<1> QED BY <1>1, InvHolds, PTL
-----------------------------------------------------------------------------
(* The accumulator and the symbols.                                        *)

(* Half of a number, doubled.                                              *)
LEMMA Halves ==
    ASSUME NEW n \in Nat
    PROVE  /\ n \div 2 \in Nat
           /\ n % 2 = 0 => n = 2 * (n \div 2)
           /\ n % 2 # 0 => n = 2 * (n \div 2) + 1 /\ (n + 1) \div 2 = (n \div 2) + 1
OBVIOUS

(* GenAccumu is the total of the source symbols, counted from 1.           *)
LEMMA AllSourceSymbols ==
    ASSUME NEW src \in Nat
    PROVE  GenAccumu(src) = Cardinality(Weights(0 .. src - 1))
<1> DEFINE k == src \div 2
           w == Cardinality(Weights(0 .. src - 1))
<1>1. w \in Nat /\ 2 * w = src * (src + 1)
  <2>1. IsFiniteSet(0 .. src - 1) /\ 0 .. src - 1 \in SUBSET Nat
    BY FS_Interval
  <2> QED
    BY <2>1, WeightsFinite, WeightsBelow
<1>2. /\ k \in Nat
      /\ src % 2 = 0 => src = 2 * k
      /\ src % 2 # 0 => src = 2 * k + 1 /\ (src + 1) \div 2 = k + 1
  BY Halves
<1>3. CASE src % 2 = 0
  <2>1. GenAccumu(src) = (src + 1) * k
    BY <1>3 DEF GenAccumu
  <2> HIDE DEF k, w
  <2>2. src * (src + 1) = 2 * ((src + 1) * k)
    BY <1>2, <1>3
  <2>3. (src + 1) * k \in Nat
    BY <1>2
  <2> QED
    BY <1>1, <2>1, <2>2, <2>3 DEF w
<1>4. CASE src % 2 # 0
  <2>1. GenAccumu(src) = (k + 1) * src
    BY <1>2, <1>4 DEF GenAccumu
  <2> HIDE DEF k, w
  <2>2. src * (src + 1) = 2 * ((k + 1) * src)
    BY <1>2, <1>4
  <2>3. (k + 1) * src \in Nat
    BY <1>2
  <2> QED
    BY <1>1, <2>1, <2>2, <2>3 DEF w
<1> QED
  BY <1>3, <1>4

(* RangeSum is the total of a range of them.                               *)
LEMMA SymbolsOfRange ==
    ASSUME NEW esi \in Nat, NEW cnt \in Nat
    PROVE  RangeSum(esi, cnt) = Cardinality(Weights(esi .. esi + cnt - 1))
<1> DEFINE k == cnt \div 2
           before == 0 .. esi - 1
           range == esi .. esi + cnt - 1
           w(X) == Cardinality(Weights(X))
           n == esi + cnt
<1>1. /\ IsFiniteSet(before) /\ before \in SUBSET Nat
      /\ IsFiniteSet(range) /\ range \in SUBSET Nat
      /\ before \cap range = {} /\ before \cup range = 0 .. n - 1
      /\ n \in Nat /\ n = esi + cnt
  BY FS_Interval
<1>2. 2 * w(before) = esi * (esi + 1) /\ 2 * w(0 .. n - 1) = n * (n + 1)
  <2> HIDE DEF n
  <2> QED
    BY <1>1, WeightsBelow
<1>3. w(0 .. n - 1) = w(before) + w(range) /\ w(before) \in Nat /\ w(range) \in Nat
  <2> HIDE DEF n, before, range
  <2> QED
    BY <1>1, WeightsAdd, WeightsFinite
<1>4. 2 * w(range) = n * (n + 1) - esi * (esi + 1)
  <2> HIDE DEF n, before, range, w
  <2> QED
    BY <1>2, <1>3
<1>5. n * (n + 1) - esi * (esi + 1) = cnt * (2 * esi + cnt + 1)
  BY <1>1
<1>6. /\ k \in Nat
      /\ cnt % 2 = 0 => cnt = 2 * k
      /\ cnt % 2 # 0 => cnt = 2 * k + 1
  BY Halves
<1>7. CASE cnt % 2 = 0
  <2>1. RangeSum(esi, cnt) = ((esi + 1) + (esi + cnt)) * k
    BY <1>7 DEF RangeSum
  <2> HIDE DEF k, w, range, n
  <2>2. cnt * (2 * esi + cnt + 1) = 2 * (((esi + 1) + (esi + cnt)) * k)
    BY <1>6, <1>7
  <2>3. ((esi + 1) + (esi + cnt)) * k \in Nat
    BY <1>6
  <2> QED
    BY <1>3, <1>4, <1>5, <2>1, <2>2, <2>3 DEF w, range
<1>8. CASE cnt % 2 # 0
  <2>1. RangeSum(esi, cnt) = ((esi + 1) + k) * cnt
    BY <1>8 DEF RangeSum
  <2> HIDE DEF k, w, range, n
  <2>2. cnt * (2 * esi + cnt + 1) = 2 * (((esi + 1) + k) * cnt)
    BY <1>6, <1>8
  <2>3. ((esi + 1) + k) * cnt \in Nat
    BY <1>6
  <2> QED
    BY <1>3, <1>4, <1>5, <2>1, <2>2, <2>3 DEF w, range
<1> QED
  BY <1>7, <1>8

(* The segments of a frame share no symbol.                                *)
Apart(segs) == \A s, t \in segs : s # t => Symbols({s}) \cap Symbols({t}) = {}

(* The counters of a frame's record agree with its symbols.                *)
Counted(frm, src) ==
    /\ IsFiniteSet(frm.segs)
    /\ Apart(frm.segs)
    /\ IsFiniteSet(Symbols(frm.segs))
    /\ frm.recvSymNum = Cardinality(Symbols(frm.segs))
    /\ frm.sum = Cardinality(Weights(Symbols(frm.segs) \cap (0 .. src - 1)))

(* A frame that is done has given its segments away; one that is not waits *)
(* for more of them.                                                       *)
RecordOK(frm, src) ==
    IF frm.done THEN frm.segs = {}
                ELSE src > 0 /\ Counted(frm, src) /\ ~IsComplete(frm, src)

(* The symbols of a segment, and of segments.                              *)
LEMMA SymbolsOf ==
    /\ \A s : Symbols({s}) = s.esi .. s.esi + s.cnt - 1
    /\ \A S, s : Symbols(S \cup {s}) = Symbols(S) \cup Symbols({s})
    /\ \A S, s : s \in S => Symbols({s}) \subseteq Symbols(S)
    /\ \A S, T : (\A s \in S : Symbols({s}) \cap T = {}) => Symbols(S) \cap T = {}
    /\ Symbols({}) = {}
BY DEF Symbols

(* Symbols are numbers.                                                    *)
LEMMA SymbolsType ==
    /\ \A s \in Segments : /\ Symbols({s}) \in SUBSET Nat /\ IsFiniteSet(Symbols({s}))
                           /\ Cardinality(Symbols({s})) = s.cnt
    /\ \A S \in SUBSET Segments : Symbols(S) \in SUBSET Nat
<1>1. ASSUME NEW s \in Segments
      PROVE  /\ Symbols({s}) \in SUBSET Nat /\ IsFiniteSet(Symbols({s}))
             /\ Cardinality(Symbols({s})) = s.cnt
  <2>1. s.esi \in Nat /\ s.cnt \in Nat \ {0}
    BY CodingAssumption
  <2>2. Symbols({s}) = s.esi .. s.esi + s.cnt - 1
    BY SymbolsOf
  <2> DEFINE a == s.esi
             b == s.esi + s.cnt - 1
  <2>3. a \in Int /\ b \in Int /\ ~(a > b) /\ b - a + 1 = s.cnt /\ a .. b \in SUBSET Nat
    BY <2>1
  <2> HIDE DEF a, b
  <2>4. IsFiniteSet(a .. b) /\ Cardinality(a .. b) = b - a + 1
    BY <2>3, FS_Interval
  <2> QED
    BY <2>2, <2>3, <2>4 DEF a, b
<1>2. ASSUME NEW S \in SUBSET Segments PROVE Symbols(S) \in SUBSET Nat
  <2>1. \A s \in S : s.esi .. s.esi + s.cnt - 1 \in SUBSET Nat
    BY CodingAssumption
  <2> QED
    BY <2>1 DEF Symbols
<1> QED
  BY <1>1, <1>2

(* A segment that is no duplicate of a frame's shares no symbol with them. *)
LEMMA NoDupApart ==
    ASSUME NEW s \in Segments, NEW t \in Segments, ~IsDup(s, t)
    PROVE  Symbols({t}) \cap Symbols({s}) = {} /\ s # t
<1>1. s.esi \in Nat /\ s.cnt \in Nat \ {0} /\ t.esi \in Nat /\ t.cnt \in Nat \ {0}
  BY CodingAssumption
<1>2. s.esi >= t.esi + t.cnt \/ s.esi + s.cnt <= t.esi
  BY DEF IsDup
<1>3. (t.esi .. t.esi + t.cnt - 1) \cap (s.esi .. s.esi + s.cnt - 1) = {}
  BY <1>1, <1>2
<1>4. Symbols({t}) \cap Symbols({s}) = {}
  BY <1>3, SymbolsOf
<1>5. s # t
  BY <1>1, <1>2
<1> QED
  BY <1>4, <1>5

(* AddRange adds the source symbols among those of the segment.            *)
LEMMA AddRangeAdds ==
    ASSUME NEW sum \in Nat, NEW src \in Nat, NEW seg \in Segments, sum # GenAccumu(src)
    PROVE  AddRange(sum, src, seg)
             = sum + Cardinality(Weights(Symbols({seg}) \cap (0 .. src - 1)))
<1>1. seg.esi \in Nat /\ seg.cnt \in Nat \ {0}
  BY CodingAssumption
<1>2. Symbols({seg}) = seg.esi .. seg.esi + seg.cnt - 1
  BY SymbolsOf
<1>3. CASE seg.esi >= src
  <2>1. Symbols({seg}) \cap (0 .. src - 1) = {}
    BY <1>1, <1>2, <1>3
  <2>2. Weights({}) = {} /\ Cardinality({}) = 0
    BY FS_EmptySet DEF Weights, Family
  <2>3. Cardinality(Weights(Symbols({seg}) \cap (0 .. src - 1))) = 0
    BY <2>1, <2>2
  <2>4. AddRange(sum, src, seg) = sum
    BY <1>3 DEF AddRange
  <2> QED
    BY <2>3, <2>4
<1>4. CASE ~(seg.esi >= src)
  <2> DEFINE m == Min({seg.cnt, src - seg.esi})
  <2>1. src - seg.esi \in Nat
    BY <1>1, <1>4
  <2>2. m \in {seg.cnt, src - seg.esi} /\ m <= seg.cnt /\ m <= src - seg.esi
    <3>1. \E x \in {seg.cnt, src - seg.esi} : \A y \in {seg.cnt, src - seg.esi} : x <= y
      BY <1>1, <2>1
    <3> QED
      BY <3>1 DEF Min
  <2>3. AddRange(sum, src, seg) = sum + RangeSum(seg.esi, m)
    BY <1>4 DEF AddRange
  <2> HIDE DEF m
  <2>4. m \in Nat
    BY <1>1, <2>1, <2>2
  <2>5. Symbols({seg}) \cap (0 .. src - 1) = seg.esi .. seg.esi + m - 1
    BY <1>1, <1>2, <1>4, <2>2, <2>4
  <2>6. RangeSum(seg.esi, m) = Cardinality(Weights(seg.esi .. seg.esi + m - 1))
    BY <1>1, <2>4, SymbolsOfRange
  <2> QED
    BY <2>3, <2>5, <2>6
<1> QED
  BY <1>3, <1>4

(* InsertFrameSegment keeps the counters right.                            *)
LEMMA SegmentCounted ==
    ASSUME NEW frm \in Frame, NEW src \in Nat, NEW seg \in Segments,
           Counted(frm, src), frm.sum # GenAccumu(src),
           \A prev \in frm.segs : ~IsDup(seg, prev)
    PROVE  /\ Counted(WithSegment(frm, src, seg), src)
           /\ WithSegment(frm, src, seg).segs = frm.segs \cup {seg} /\ seg \notin frm.segs
<1> DEFINE added == WithSegment(frm, src, seg)
           old   == Symbols(frm.segs)
           new   == Symbols({seg})
           S     == 0 .. src - 1
<1>1. /\ frm.segs \in SUBSET Segments /\ frm.recvSymNum \in Nat /\ frm.sum \in Nat
      /\ added.segs = frm.segs \cup {seg}
      /\ added.recvSymNum = frm.recvSymNum + seg.cnt
      /\ added.sum = AddRange(frm.sum, src, seg)
  BY DEF Frame, WithSegment
<1>2. \A s \in frm.segs : Symbols({s}) \cap new = {} /\ s # seg
  BY <1>1, NoDupApart
<1>3. /\ IsFiniteSet(old) /\ frm.recvSymNum = Cardinality(old)
      /\ frm.sum = Cardinality(Weights(old \cap S))
      /\ IsFiniteSet(frm.segs) /\ Apart(frm.segs)
  BY DEF Counted
<1>4. /\ IsFiniteSet(new) /\ Cardinality(new) = seg.cnt /\ new \in SUBSET Nat
      /\ old \in SUBSET Nat
  BY <1>1, SymbolsType
<1>5. old \cap new = {} /\ Symbols(added.segs) = old \cup new
  BY <1>1, <1>2, SymbolsOf
<1>6. added.sum = frm.sum + Cardinality(Weights(new \cap S))
  BY <1>1, AddRangeAdds
<1>7. IsFiniteSet(added.segs)
  BY <1>1, <1>3, FS_AddElement
<1>8. Apart(added.segs)
  BY <1>1, <1>2, <1>3 DEF Apart
<1> HIDE DEF added, old, new, S
<1>9. IsFiniteSet(old \cup new) /\ Cardinality(old \cup new) = added.recvSymNum
  <2>1. /\ IsFiniteSet(old \cup new)
        /\ Cardinality(old \cup new) = Cardinality(old) + Cardinality(new)
    BY <1>3, <1>4, <1>5, DisjointUnion
  <2> QED
    BY <1>1, <1>3, <1>4, <2>1
<1>10. Cardinality(Weights((old \cup new) \cap S)) = added.sum
  <2> DEFINE X == old \cap S
             Y == new \cap S
  <2>1. /\ X \in SUBSET Nat /\ Y \in SUBSET Nat /\ X \cap Y = {}
        /\ X \cup Y = (old \cup new) \cap S
    BY <1>4, <1>5
  <2>2. IsFiniteSet(X) /\ IsFiniteSet(Y)
    BY <1>3, <1>4, FS_Subset
  <2>3. Cardinality(Weights(X)) = frm.sum /\ added.sum = frm.sum + Cardinality(Weights(Y))
    BY <1>3, <1>6
  <2> HIDE DEF X, Y
  <2>4. Cardinality(Weights(X \cup Y)) = added.sum
    BY <2>1, <2>2, <2>3, WeightsAdd
  <2> QED
    BY <2>1, <2>4
<1>11. Counted(added, src)
  BY <1>5, <1>7, <1>8, <1>9, <1>10 DEF Counted, S
<1> QED
  BY <1>1, <1>2, <1>11 DEF added

(* IsMet or enough symbols is what it takes to decode.                     *)
LEMMA CompleteDecodes ==
    ASSUME NEW frm \in Frame, NEW src \in Nat, Counted(frm, src)
    PROVE  IsComplete(frm, src) <=> Decodable(frm.segs, src)
<1> DEFINE S == 0 .. src - 1
           X == Symbols(frm.segs) \cap S
<1>1. S \in SUBSET Nat /\ X \in SUBSET S /\ IsFiniteSet(S)
  BY FS_Interval
<1>2. frm.sum = Cardinality(Weights(X)) /\ GenAccumu(src) = Cardinality(Weights(S))
  BY AllSourceSymbols DEF Counted
<1>3. X # S => Cardinality(Weights(X)) < Cardinality(Weights(S))
  <2> HIDE DEF X, S
  <2> QED
    BY <1>1, WeightsGrow
<1>4. X = S <=> S \subseteq Symbols(frm.segs)
  OBVIOUS
<1>5. Cardinality(Weights(X)) \in Nat
  <2>1. frm.sum \in Nat
    BY DEF Frame
  <2> QED
    BY <1>2, <2>1
<1>6. frm.sum = GenAccumu(src) <=> S \subseteq Symbols(frm.segs)
  <2> HIDE DEF X, S
  <2> QED
    BY <1>2, <1>3, <1>4, <1>5
<1> QED
  BY <1>6 DEF IsComplete, Decodable, Counted

(* A new record of a coded frame.                                          *)
LEMMA CodedCounted ==
    ASSUME NEW src \in Nat, src > 0
    PROVE  Counted(CodedFrame, src) /\ ~IsComplete(CodedFrame, src)
<1>1. CodedFrame.segs = {} /\ CodedFrame.recvSymNum = 0 /\ CodedFrame.sum = 0
  BY DEF CodedFrame
<1>2. IsFiniteSet({}) /\ Cardinality({}) = 0 /\ Symbols({}) = {} /\ Weights({}) = {}
  BY FS_EmptySet, SymbolsOf DEF Weights, Family
<1>3. Counted(CodedFrame, src)
  BY <1>1, <1>2 DEF Counted, Apart
<1>4. GenAccumu(src) # 0
  <2> DEFINE S == 0 .. src - 1
  <2>0. 0 \in S /\ S \in SUBSET Nat
    OBVIOUS
  <2>4. IsFiniteSet(S)
    BY FS_Interval
  <2>1. S \in SUBSET Nat /\ IsFiniteSet(S) /\ {} \in SUBSET S /\ {} # S
    <3> HIDE DEF S
    <3> QED
      BY <2>0, <2>4
  <2>2. GenAccumu(src) = Cardinality(Weights(S))
    BY AllSourceSymbols
  <2> HIDE DEF S
  <2>3. Cardinality(Weights({})) < Cardinality(Weights(S)) /\ Cardinality(Weights({})) = 0
    BY <1>2, <2>1, WeightsGrow
  <2> QED
    BY <2>2, <2>3
<1> QED
  BY <1>1, <1>3, <1>4, CodingAssumption DEF IsComplete
-----------------------------------------------------------------------------
(* The records in the queues.                                              *)

RecordsOK(st, q) == \A f \in DOMAIN q : RecordOK(q[f], SrcOf(st, f))
RecordsHold == \A iden \in Identities, st \in Streams : RecordsOK(st, frames[iden][st])

(* The number of source symbols.                                           *)
LEMMA SrcType ==
    \A st \in Streams, f \in Ids : SrcOf(st, f) \in Nat /\ (IsCoded(st, f) <=> SrcOf(st, f) > 0)
BY CodingAssumption DEF SrcOf, IsCoded

(* GetRecvIdentity and ObsoleteFrames leave records as they were.          *)
LEMMA QueueRecords ==
    ASSUME QueuesInv, running, RecordsHold, NEW iden \in Identities, NEW st \in Streams
    PROVE  /\ \A s \in Streams : RecordsOK(s, Queues(iden)[s])
           /\ RecordsOK(st, Queue(iden, st))
<1>1. \A s \in Streams : RecordsOK(s, Queues(iden)[s]) /\ QueueOK(Queues(iden)[s])
  <2>1. CASE Expired(iden)
    BY <2>1, NoFramesOK DEF Queues, RecordsOK
  <2>2. CASE ~Expired(iden)
    BY <2>2 DEF Queues, RecordsHold, QueuesInv, QueuesTypeOK
  <2> QED
    BY <2>1, <2>2
<1>2. RecordsOK(st, Queue(iden, st))
  <2> DEFINE q == Queues(iden)[st]
             R == Obsolete(q)
  <2>1. QueueOK(q) /\ RecordsOK(st, q) /\ Queue(iden, st) = Without(q, R)
    BY <1>1 DEF Queue
  <2> HIDE DEF q, R
  <2>2. /\ DOMAIN Without(q, R) = DOMAIN q \ R
        /\ \A f \in DOMAIN q \ R : Without(q, R)[f] = q[f]
    BY <2>1, WithoutOK
  <2> QED
    BY <2>1, <2>2 DEF RecordsOK
<1> QED
  BY <1>1, <1>2

(* A record is stored.                                                     *)
LEMMA InsertRecords ==
    ASSUME NEW st \in Streams, NEW q, RecordsOK(st, q), NEW fid \in Ids, NEW frm,
           RecordOK(frm, SrcOf(st, fid))
    PROVE  RecordsOK(st, Inserted(q, fid, frm))
<1> DEFINE T == (DOMAIN q \ Evicted(DOMAIN q, fid)) \cup {fid}
<1>1. /\ DOMAIN Inserted(q, fid, frm) = T
      /\ \A f \in T : Inserted(q, fid, frm)[f] = IF f = fid THEN frm ELSE q[f]
  BY DEF Inserted
<1>2. \A f \in T : f = fid \/ f \in DOMAIN q
  OBVIOUS
<1> HIDE DEF T
<1> QED
  BY <1>1, <1>2 DEF RecordsOK

(* Commit stores the queue and leaves the others.                          *)
LEMMA CommitRecords ==
    ASSUME QueuesInv, running, RecordsHold, NEW iden \in Identities, NEW st \in Streams,
           NEW q, RecordsOK(st, q), Commit(iden, st, q)
    PROVE  RecordsHold'
<1>1. /\ frames' = [frames EXCEPT ![iden] = [Queues(iden) EXCEPT ![st] = q]]
      /\ DOMAIN frames = Identities /\ DOMAIN Queues(iden) = Streams
  BY QueuesRemember DEF Commit, QueuesInv, QueuesTypeOK
<1>2. ASSUME NEW i \in Identities, NEW s \in Streams PROVE RecordsOK(s, frames'[i][s])
  <2>1. CASE i # iden
    BY <1>1, <2>1 DEF RecordsHold
  <2>2. CASE i = iden /\ s # st
    BY <1>1, <2>2, QueueRecords
  <2>3. CASE i = iden /\ s = st
    BY <1>1, <2>3
  <2> QED
    BY <2>1, <2>2, <2>3
<1> QED
  BY <1>2 DEF RecordsHold, RecordsOK, RecordOK, Counted, Apart

(* What a slice with a segment finds: the record of its frame.             *)
FecBase(iden, st, fid) ==
    IF fid \in DOMAIN Queue(iden, st) THEN Queue(iden, st)[fid] ELSE CodedFrame
Touched(frm) == [frm EXCEPT !.tick = now]

LEMMA FecFound ==
    ASSUME QueuesInv, running, RecordsHold,
           NEW iden \in Identities, NEW st \in Streams, NEW fid \in Ids, IsCoded(st, fid)
    PROVE  LET base == FecBase(iden, st, fid)
               frm  == Touched(base)
           IN  /\ base \in Frame /\ frm \in Frame
               /\ frm.segs = base.segs /\ frm.done = base.done
               /\ RecordOK(base, SrcOf(st, fid)) /\ RecordOK(frm, SrcOf(st, fid))
<1> DEFINE base == FecBase(iden, st, fid)
           src  == SrcOf(st, fid)
<1>1. src \in Nat /\ src > 0
  BY SrcType
<1>2. base \in Frame /\ RecordOK(base, src)
  <2>1. CASE fid \in DOMAIN Queue(iden, st)
    <3>1. QueueOK(Queue(iden, st)) /\ RecordsOK(st, Queue(iden, st))
      BY QueueRemembers, QueueRecords
    <3> QED
      BY <2>1, <3>1 DEF FecBase, QueueOK, RecordsOK
  <2>2. CASE fid \notin DOMAIN Queue(iden, st)
    <3>1. base = CodedFrame /\ ~CodedFrame.done
      BY <2>2 DEF FecBase, CodedFrame
    <3>2. Counted(CodedFrame, src) /\ ~IsComplete(CodedFrame, src)
      BY <1>1, CodedCounted
    <3> QED
      BY <1>1, <3>1, <3>2, NewRecords DEF RecordOK
  <2> QED
    BY <2>1, <2>2
<1>3. now \in 0 .. MaxTick
  BY DEF QueuesInv, QueuesTypeOK
<1> HIDE DEF base, src
<1>4. LET frm == Touched(base) IN
      /\ frm \in Frame
      /\ frm.segs = base.segs /\ frm.done = base.done
      /\ frm.recvSymNum = base.recvSymNum /\ frm.sum = base.sum
  BY <1>2, <1>3 DEF Frame, Touched
<1>5. RecordOK(Touched(base), src)
  BY <1>2, <1>4 DEF RecordOK, Counted, IsComplete
<1> QED
  BY <1>2, <1>4, <1>5 DEF base, src

(* A segment is added to it.                                               *)
LEMMA FecAdded ==
    ASSUME NEW src \in Nat, NEW seg \in Segments, NEW frm \in Frame, ~frm.done,
           RecordOK(frm, src), \A prev \in frm.segs : ~IsDup(seg, prev)
    PROVE  LET added == WithSegment(frm, src, seg) IN
           /\ added \in Frame /\ ~added.done /\ Counted(added, src)
           /\ added.segs = frm.segs \cup {seg} /\ seg \notin frm.segs
           /\ IsFiniteSet(frm.segs) /\ IsFiniteSet(added.segs)
           /\ ~IsComplete(added, src) => RecordOK(added, src)
           /\ RecordOK([added EXCEPT !.done = TRUE, !.segs = {}], src)
<1> DEFINE added == WithSegment(frm, src, seg)
<1>1. src > 0 /\ Counted(frm, src) /\ frm.sum # GenAccumu(src)
  BY DEF RecordOK, IsComplete
<1>2. /\ Counted(added, src)
      /\ added.segs = frm.segs \cup {seg} /\ seg \notin frm.segs
  BY <1>1, SegmentCounted
<1>3. added \in Frame /\ ~added.done
  BY WithSegmentType
<1> HIDE DEF added
<1>4. IsFiniteSet(frm.segs) /\ IsFiniteSet(added.segs)
  BY <1>1, <1>2 DEF Counted
<1>5. ~IsComplete(added, src) => RecordOK(added, src)
  BY <1>1, <1>2, <1>3 DEF RecordOK
<1>6. RecordOK([added EXCEPT !.done = TRUE, !.segs = {}], src)
  <2>1. LET last == [added EXCEPT !.done = TRUE, !.segs = {}] IN last.done /\ last.segs = {}
    BY <1>3 DEF Frame
  <2> QED
    BY <2>1 DEF RecordOK
<1> QED
  BY <1>2, <1>3, <1>4, <1>5, <1>6 DEF added

(* The segments of a frame that is complete suffice to decode it.          *)
LEMMA DeliverComplete ==
    ASSUME NEW iden \in Identities, NEW st \in Streams, NEW fid \in Ids, NEW added \in Frame,
           Counted(added, SrcOf(st, fid)), IsComplete(added, SrcOf(st, fid)),
           Deliver(iden, st, fid, added.segs)
    PROVE  DeliversDecodable'
<1>1. SrcOf(st, fid) \in Nat
  BY SrcType
<1>2. Decodable(added.segs, SrcOf(st, fid)) /\ Apart(added.segs)
  BY <1>1, CompleteDecodes DEF Counted
<1>3. outcome'.src = SrcOf(st, fid) /\ outcome'.segs = added.segs
  BY DEF Deliver, Did
<1> QED
  BY <1>2, <1>3 DEF DeliversDecodable, Apart

(* A step that delivers nothing.                                           *)
LEMMA DropComplete ==
    ASSUME NEW what, what # "delivered", Drop(what) PROVE DeliversDecodable'
BY DEF Drop, Did, DeliversDecodable
-----------------------------------------------------------------------------
(* What the queues hold of the allocators.                                 *)

Pools == {"audio", "video", "segs"}
Held(pool, st, q) == HeldOf(pool, st, q, DOMAIN q)

(* A queue with finitely many frames and segments.                         *)
IsFiniteQueue(q) == IsFiniteSet(DOMAIN q) /\ \A f \in DOMAIN q : IsFiniteSet(q[f].segs)

SegsOf(q) == [f \in DOMAIN q |-> q[f].segs]

(* A stream's frames come from one of the allocators.                      *)
LEMMA PoolType == \A st : Pool(st) \in {"audio", "video"} /\ Pool(st) # "segs"
BY DEF Pool

(* The segments of frames, as a family of sets.                            *)
LEMMA HeldSegments ==
    ASSUME NEW q, NEW st, NEW R \in SUBSET DOMAIN q
    PROVE  HeldOf("segs", st, q, R) = Family(R, SegsOf(q))
<1>1. \A f \in R : SegsOf(q)[f] = q[f].segs
  BY DEF SegsOf
<1> QED
  BY <1>1 DEF HeldOf, Family

(* What frames hold is finite.                                             *)
LEMMA HeldFinite ==
    ASSUME NEW q, IsFiniteQueue(q), NEW st, NEW R \in SUBSET DOMAIN q, NEW pool \in Pools
    PROVE  /\ IsFiniteSet(HeldOf(pool, st, q, R)) /\ Cardinality(HeldOf(pool, st, q, R)) \in Nat
           /\ IsFiniteFamily(R, SegsOf(q))
<1>1. IsFiniteSet(R) /\ \A f \in R : IsFiniteSet(SegsOf(q)[f])
  BY FS_Subset DEF IsFiniteQueue, SegsOf
<1>2. IsFiniteFamily(R, SegsOf(q))
  BY <1>1 DEF IsFiniteFamily
<1>3. CASE pool = "segs"
  BY <1>2, <1>3, FamilyFinite, HeldSegments
<1>4. CASE pool # "segs"
  <2>1. HeldOf(pool, st, q, R) \in SUBSET R
    BY <1>4 DEF HeldOf
  <2> QED
    BY <1>1, <1>2, <2>1, FS_Subset, FS_CardinalityType
<1> QED
  BY <1>3, <1>4

(* Frames that are released take what they hold with them.                 *)
LEMMA HeldWithout ==
    ASSUME NEW q, IsFiniteQueue(q), NEW st, NEW R \in SUBSET DOMAIN q, NEW pool \in Pools
    PROVE  /\ IsFiniteQueue(Without(q, R))
           /\ Cardinality(Held(pool, st, q))
                = Cardinality(Held(pool, st, Without(q, R))) + Cardinality(HeldOf(pool, st, q, R))
<1> DEFINE rest == DOMAIN q \ R
           w == Without(q, R)
<1>1. DOMAIN w = rest /\ \A f \in rest : w[f] = q[f]
  BY DEF Without
<1>2. IsFiniteQueue(w)
  <2>1. IsFiniteSet(rest)
    BY FS_Difference DEF IsFiniteQueue
  <2> HIDE DEF w
  <2> QED
    BY <1>1, <2>1 DEF IsFiniteQueue
<1>3. Held(pool, st, w) = HeldOf(pool, st, q, rest)
  <2> HIDE DEF w
  <2> QED
    BY <1>1 DEF Held, HeldOf
<1>4. IsFiniteSet(HeldOf(pool, st, q, rest)) /\ IsFiniteSet(HeldOf(pool, st, q, R))
  <2>1. rest \in SUBSET DOMAIN q
    OBVIOUS
  <2> HIDE DEF rest
  <2> QED
    BY <2>1, HeldFinite
<1>5. HeldOf(pool, st, q, rest) \cap HeldOf(pool, st, q, R) = {}
  BY DEF HeldOf
<1>6. HeldOf(pool, st, q, DOMAIN q) = HeldOf(pool, st, q, rest) \cup HeldOf(pool, st, q, R)
  BY DEF HeldOf
<1> HIDE DEF w, rest
<1>7. Cardinality(HeldOf(pool, st, q, DOMAIN q))
        = Cardinality(HeldOf(pool, st, q, rest)) + Cardinality(HeldOf(pool, st, q, R))
  BY <1>4, <1>5, <1>6, DisjointUnion
<1> QED
  BY <1>2, <1>3, <1>7 DEF Held, w

(* The record of a frame is stored: a new one, or one in place of the old. *)
LEMMA HeldStored ==
    ASSUME NEW q, IsFiniteQueue(q), NEW r, NEW st, NEW fid, IsFiniteSet(r[fid].segs),
           DOMAIN r = DOMAIN q \cup {fid}, \A f \in DOMAIN q : f # fid => r[f] = q[f]
    PROVE  /\ IsFiniteQueue(r)
           /\ fid \notin DOMAIN q =>
                 /\ Cardinality(Held("segs", st, r))
                      = Cardinality(Held("segs", st, q)) + Cardinality(r[fid].segs)
                 /\ \A pool \in {"audio", "video"} :
                       Cardinality(Held(pool, st, r))
                         = Cardinality(Held(pool, st, q)) + (IF pool = Pool(st) THEN 1 ELSE 0)
           /\ fid \in DOMAIN q =>
                 /\ Cardinality(Held("segs", st, r)) + Cardinality(q[fid].segs)
                      = Cardinality(Held("segs", st, q)) + Cardinality(r[fid].segs)
                 /\ \A pool \in {"audio", "video"} :
                       Cardinality(Held(pool, st, r)) = Cardinality(Held(pool, st, q))
<1>1. IsFiniteQueue(r)
  <2>1. IsFiniteSet(DOMAIN r)
    BY FS_AddElement DEF IsFiniteQueue
  <2> QED
    BY <2>1 DEF IsFiniteQueue
<1> DEFINE f == SegsOf(q)
           g == SegsOf(r)
           D == DOMAIN q
<1>2. /\ IsFiniteFamily(D, f) /\ IsFiniteFamily(DOMAIN r, g)
      /\ Held("segs", st, q) = Family(D, f) /\ Held("segs", st, r) = Family(D \cup {fid}, g)
  BY <1>1, HeldFinite, HeldSegments DEF Held, Pools
<1>3. /\ \A x \in D : x # fid => g[x] = f[x]
      /\ g[fid] = r[fid].segs /\ (fid \in D => f[fid] = q[fid].segs)
      /\ IsFiniteSet(g[fid])
  BY DEF SegsOf
<1>4. \A pool \in {"audio", "video"} :
         /\ Held(pool, st, q) = IF pool = Pool(st) THEN D ELSE {}
         /\ Held(pool, st, r) = IF pool = Pool(st) THEN D \cup {fid} ELSE {}
  BY DEF Held, HeldOf
<1>5. IsFiniteSet(D) /\ Cardinality(D) \in Nat
  BY FS_CardinalityType DEF IsFiniteQueue
<1>6. CASE fid \notin D
  <2> HIDE DEF f, g, D
  <2>1. Family(D, f) = Family(D, g)
    BY <1>3, <1>6, FamilySame
  <2>2. IsFiniteFamily(D, g)
    BY <1>2, <1>3, <1>6 DEF IsFiniteFamily
  <2>3. Cardinality(Family(D \cup {fid}, g)) = Cardinality(Family(D, g)) + Cardinality(g[fid])
    BY <1>3, <1>6, <2>2, FamilyAdd
  <2>4. Cardinality(D \cup {fid}) = Cardinality(D) + 1 /\ Cardinality({}) = 0
    BY <1>5, <1>6, FS_AddElement, FS_EmptySet
  <2>5. \A pool \in {"audio", "video"} :
           Cardinality(Held(pool, st, r))
             = Cardinality(Held(pool, st, q)) + (IF pool = Pool(st) THEN 1 ELSE 0)
    BY <1>4, <2>4
  <2> QED
    BY <1>1, <1>2, <1>3, <1>6, <2>1, <2>3, <2>5 DEF D
<1>7. CASE fid \in D
  <2>1. D \cup {fid} = D
    BY <1>7
  <2> HIDE DEF f, g, D
  <2>2. Cardinality(Family(D, g)) + Cardinality(f[fid])
          = Cardinality(Family(D, f)) + Cardinality(g[fid])
    BY <1>2, <1>3, <1>7, FamilyChange
  <2>3. \A pool \in {"audio", "video"} : Held(pool, st, r) = Held(pool, st, q)
    BY <1>4, <2>1
  <2> QED
    BY <1>1, <1>2, <1>3, <1>7, <2>1, <2>2, <2>3 DEF D
<1> QED
  BY <1>6, <1>7

(* The queues of an identity, and those of all of them.                    *)
AreFinite(queues) == \A st \in Streams : IsFiniteQueue(queues[st])

HeldByStream(pool, queues) == [st \in Streams |-> Held(pool, st, queues[st])]
HeldByIdentity(pool, all) == [iden \in Identities |-> InQueues(pool, all[iden])]

(* There are at most three streams.                                        *)
LEMMA StreamsFinite == IsFiniteSet(Streams)
<1>1. IsFiniteSet({"audio", "thumb", "live"})
  <2>1. /\ IsFiniteSet({}) /\ {"audio"} = {} \cup {"audio"}
        /\ {"audio", "thumb"} = {"audio"} \cup {"thumb"}
        /\ {"audio", "thumb", "live"} = {"audio", "thumb"} \cup {"live"}
    BY FS_EmptySet
  <2>2. IsFiniteSet({"audio"})
    BY <2>1, FS_AddElement
  <2>3. IsFiniteSet({"audio", "thumb"})
    BY <2>1, <2>2, FS_AddElement
  <2> QED
    BY <2>1, <2>3, FS_AddElement
<1> QED
  BY <1>1, SendersAssumption, FS_Subset

(* An identity holds finitely many frames and segments.                    *)
LEMMA InQueuesFamily ==
    ASSUME NEW queues, AreFinite(queues), NEW pool \in Pools
    PROVE  /\ IsFiniteFamily(Streams, HeldByStream(pool, queues))
           /\ InQueues(pool, queues) = Family(Streams, HeldByStream(pool, queues))
           /\ IsFiniteSet(InQueues(pool, queues)) /\ Cardinality(InQueues(pool, queues)) \in Nat
<1>1. \A st \in Streams : IsFiniteSet(HeldByStream(pool, queues)[st])
  BY HeldFinite DEF HeldByStream, Held, AreFinite
<1>2. IsFiniteFamily(Streams, HeldByStream(pool, queues))
  BY <1>1, StreamsFinite DEF IsFiniteFamily
<1>3. InQueues(pool, queues) = Family(Streams, HeldByStream(pool, queues))
  <2>1. \A st \in Streams : HeldByStream(pool, queues)[st] = HeldOf(pool, st, queues[st], DOMAIN queues[st])
    BY DEF HeldByStream, Held
  <2> QED
    BY <2>1 DEF InQueues, Family
<1> QED
  BY <1>2, <1>3, FamilyFinite

(* One stream's queue is exchanged.                                        *)
LEMMA InQueuesChange ==
    ASSUME NEW A, NEW B, AreFinite(A), AreFinite(B), NEW st \in Streams, NEW pool \in Pools,
           \A s \in Streams : s # st => B[s] = A[s]
    PROVE  Cardinality(InQueues(pool, B)) + Cardinality(Held(pool, st, A[st]))
             = Cardinality(InQueues(pool, A)) + Cardinality(Held(pool, st, B[st]))
<1> DEFINE f == HeldByStream(pool, A)
           g == HeldByStream(pool, B)
<1>1. /\ IsFiniteFamily(Streams, f) /\ IsFiniteFamily(Streams, g)
      /\ InQueues(pool, A) = Family(Streams, f) /\ InQueues(pool, B) = Family(Streams, g)
  BY InQueuesFamily
<1>2. \A s \in Streams : s # st => g[s] = f[s]
  BY DEF HeldByStream
<1>3. f[st] = Held(pool, st, A[st]) /\ g[st] = Held(pool, st, B[st])
  BY DEF HeldByStream
<1> HIDE DEF f, g
<1>4. IsFiniteSet(g[st])
  BY <1>1 DEF IsFiniteFamily
<1> QED
  BY <1>1, <1>2, <1>3, <1>4, FamilyChange

(* All the queues hold finitely many frames and segments.                  *)
LEMMA StoredFamily ==
    ASSUME NEW all, \A iden \in Identities : AreFinite(all[iden]), NEW pool \in Pools
    PROVE  /\ IsFiniteFamily(Identities, HeldByIdentity(pool, all))
           /\ Stored(pool, all) = Family(Identities, HeldByIdentity(pool, all))
           /\ Cardinality(Stored(pool, all)) \in Nat
<1>1. \A iden \in Identities : IsFiniteSet(HeldByIdentity(pool, all)[iden])
  BY InQueuesFamily DEF HeldByIdentity
<1>2. IsFiniteFamily(Identities, HeldByIdentity(pool, all))
  BY <1>1, SendersAssumption DEF IsFiniteFamily
<1>3. Stored(pool, all) = Family(Identities, HeldByIdentity(pool, all))
  BY DEF Stored, Family, HeldByIdentity
<1> QED
  BY <1>2, <1>3, FamilyFinite

(* One identity's queues are exchanged.                                    *)
LEMMA StoredChange ==
    ASSUME NEW A, NEW B, \A i \in Identities : AreFinite(A[i]), \A i \in Identities : AreFinite(B[i]),
           NEW iden \in Identities, NEW pool \in Pools,
           \A i \in Identities : i # iden => B[i] = A[i]
    PROVE  Cardinality(Stored(pool, B)) + Cardinality(InQueues(pool, A[iden]))
             = Cardinality(Stored(pool, A)) + Cardinality(InQueues(pool, B[iden]))
<1> DEFINE f == HeldByIdentity(pool, A)
           g == HeldByIdentity(pool, B)
<1>1. /\ IsFiniteFamily(Identities, f) /\ IsFiniteFamily(Identities, g)
      /\ Stored(pool, A) = Family(Identities, f) /\ Stored(pool, B) = Family(Identities, g)
  BY StoredFamily
<1>2. \A i \in Identities : i # iden => g[i] = f[i]
  BY DEF HeldByIdentity
<1>3. f[iden] = InQueues(pool, A[iden]) /\ g[iden] = InQueues(pool, B[iden])
  BY DEF HeldByIdentity
<1> HIDE DEF f, g
<1>4. IsFiniteSet(g[iden])
  BY <1>1 DEF IsFiniteFamily
<1> QED
  BY <1>1, <1>2, <1>3, <1>4, FamilyChange

(* Empty queues hold nothing.                                              *)
LEMMA NothingHeld ==
    ASSUME NEW pool \in Pools
    PROVE  /\ IsFiniteQueue(NoFrames) /\ \A st : Held(pool, st, NoFrames) = {}
           /\ AreFinite([st \in Streams |-> NoFrames])
           /\ InQueues(pool, [st \in Streams |-> NoFrames]) = {}
           /\ Stored(pool, [iden \in Identities |-> [st \in Streams |-> NoFrames]]) = {}
<1>1. DOMAIN NoFrames = {} /\ IsFiniteSet({})
  BY FS_EmptySet DEF NoFrames
<1>2. IsFiniteQueue(NoFrames)
  BY <1>1 DEF IsFiniteQueue
<1>3. \A st, q : HeldOf(pool, st, q, {}) = {}
  BY DEF HeldOf
<1>4. InQueues(pool, [st \in Streams |-> NoFrames]) = {}
  BY <1>1, <1>3 DEF InQueues
<1>5. Stored(pool, [iden \in Identities |-> [st \in Streams |-> NoFrames]]) = {}
  BY <1>4 DEF Stored
<1> QED
  BY <1>1, <1>2, <1>3, <1>4, <1>5 DEF AreFinite, Held
-----------------------------------------------------------------------------
(* The allocators and the queues.                                          *)

IsExact == live \in [Pools -> Nat] /\ \A pool \in Pools : live[pool] = Cardinality(Stored(pool, frames))

(* The queues are finite.                                                  *)
LEMMA QueueFinite ==
    ASSUME NEW st \in Streams, NEW q, QueueOK(q), RecordsOK(st, q) PROVE IsFiniteQueue(q)
<1>1. IsFiniteSet(Fid)
  BY Constants, FS_Interval DEF Fid
<1>2. DOMAIN q \in SUBSET Fid
  BY Constants DEF QueueOK, Spans
<1>3. IsFiniteSet(DOMAIN q)
  BY <1>1, <1>2, FS_Subset
<1>4. ASSUME NEW f \in DOMAIN q PROVE IsFiniteSet(q[f].segs)
  BY FS_EmptySet DEF RecordsOK, RecordOK, Counted
<1> QED
  BY <1>3, <1>4 DEF IsFiniteQueue

(* And so are those a step finds, before and after the time-outs.          *)
LEMMA AllFinite ==
    ASSUME QueuesInv, running, RecordsHold
    PROVE  /\ \A iden \in Identities : AreFinite(frames[iden]) /\ AreFinite(Queues(iden))
           /\ \A iden \in Identities, st \in Streams : IsFiniteQueue(Queue(iden, st))
<1>1. ASSUME NEW iden \in Identities, NEW st \in Streams PROVE IsFiniteQueue(frames[iden][st])
  BY QueueFinite DEF QueuesInv, QueuesTypeOK, RecordsHold
<1>2. ASSUME NEW iden \in Identities, NEW st \in Streams
      PROVE  IsFiniteQueue(Queues(iden)[st]) /\ IsFiniteQueue(Queue(iden, st))
  BY QueuesRemember, QueueRemembers, QueueRecords, QueueFinite
<1> QED
  BY <1>1, <1>2 DEF AreFinite

(* What GetRecvIdentity and ObsoleteFrames free leaves the allocators with *)
(* what the queues hold then.                                              *)
LEMMA LiveBeforeType ==
    ASSUME QueuesInv, running, RecordsHold, IsExact, NEW iden \in Identities, NEW st \in Streams,
           NEW pool \in Pools
    PROVE  /\ DOMAIN LiveBefore(iden, st) = Pools /\ LiveBefore(iden, st)[pool] \in Int
           /\ LiveBefore(iden, st)[pool]
                = Cardinality(Stored(pool, frames)) - Cardinality(InQueues(pool, frames[iden]))
                    + Cardinality(InQueues(pool, Queues(iden)))
                    - Cardinality(HeldOf(pool, st, Queues(iden)[st], Obsolete(Queues(iden)[st])))
<1> DEFINE q == Queues(iden)[st]
           R == Obsolete(q)
           was == Cardinality(InQueues(pool, frames[iden]))
           is  == Cardinality(InQueues(pool, Queues(iden)))
<1>1. live \in [Pools -> Nat] /\ live[pool] = Cardinality(Stored(pool, frames)) /\ live[pool] \in Nat
  BY DEF IsExact
<1>2. was \in Nat /\ is \in Nat
  BY AllFinite, InQueuesFamily
<1>3. DOMAIN LiveThen(iden) = Pools /\ LiveThen(iden)[pool] = live[pool] - was + is
  <2>1. CASE Expired(iden)
    <3>1. LiveThen(iden) = [p \in Pools |-> live[p] - Cardinality(InQueues(p, frames[iden]))]
      BY <1>1, <2>1 DEF LiveThen, ReleaseAll
    <3>2. Queues(iden) = [s \in Streams |-> NoFrames]
      BY <2>1 DEF Queues
    <3>3. is = 0
      BY <3>2, NothingHeld, FS_EmptySet
    <3> QED
      BY <1>1, <1>2, <3>1, <3>3
  <2>2. CASE ~Expired(iden)
    <3>1. LiveThen(iden) = live /\ Queues(iden) = frames[iden]
      BY <2>2 DEF LiveThen, Queues
    <3> QED
      BY <1>1, <1>2, <3>1
  <2> QED
    BY <2>1, <2>2
<1>4. Cardinality(HeldOf(pool, st, q, R)) \in Nat
  <2>1. IsFiniteQueue(q)
    BY AllFinite DEF AreFinite
  <2>2. R \in SUBSET DOMAIN q
    BY DEF Obsolete, Stale
  <2> HIDE DEF q, R
  <2> QED
    BY <2>1, <2>2, HeldFinite
<1> DEFINE freed(p) == Cardinality(HeldOf(p, st, q, R))
<1>5. LiveBefore(iden, st) = [p \in Pools |-> LiveThen(iden)[p] - freed(p)]
  BY <1>3 DEF LiveBefore, Release
<1>6. LiveBefore(iden, st)[pool] = live[pool] - was + is - Cardinality(HeldOf(pool, st, q, R))
  <2>1. LiveBefore(iden, st)[pool] = LiveThen(iden)[pool] - freed(pool)
    <3> HIDE DEF freed
    <3> QED
      BY <1>5
  <2>2. LiveBefore(iden, st)[pool] = (live[pool] - was + is) - freed(pool)
    BY <1>3, <2>1
  <2>3. freed(pool) \in Nat
    BY <1>4
  <2> HIDE DEF q, R, was, is
  <2> QED
    BY <1>1, <1>2, <2>2, <2>3
<1> HIDE DEF q, R, was, is, freed
<1>7. LiveBefore(iden, st)[pool] \in Int
  BY <1>1, <1>2, <1>4, <1>6
<1>8. DOMAIN LiveBefore(iden, st) = Pools
  BY <1>5
<1>9. LiveBefore(iden, st)[pool]
        = Cardinality(Stored(pool, frames)) - was + is - Cardinality(HeldOf(pool, st, q, R))
  BY <1>1, <1>6
<1> QED
  BY <1>7, <1>8, <1>9 DEF q, R, was, is

(* A queue is stored: the allocators miss what they missed, and what the   *)
(* queue holds more than ObsoleteFrames left in it.                        *)
LEMMA CommitCounts ==
    ASSUME QueuesInv, running, RecordsHold, IsExact, NEW iden \in Identities, NEW st \in Streams,
           NEW q, IsFiniteQueue(q), Commit(iden, st, q), NEW pool \in Pools
    PROVE  /\ Cardinality(Stored(pool, frames')) \in Nat
           /\ Cardinality(Held(pool, st, q)) \in Nat
           /\ Cardinality(Held(pool, st, Queue(iden, st))) \in Nat
           /\ Cardinality(Stored(pool, frames'))
                = LiveBefore(iden, st)[pool] - Cardinality(Held(pool, st, Queue(iden, st)))
                    + Cardinality(Held(pool, st, q))
<1> DEFINE old == Queues(iden)
           new == [old EXCEPT ![st] = q]
           R   == Obsolete(old[st])
<1>1. /\ frames' = [frames EXCEPT ![iden] = new]
      /\ DOMAIN frames = Identities /\ DOMAIN old = Streams
  BY QueuesRemember DEF Commit, QueuesInv, QueuesTypeOK
<1>2. /\ \A i \in Identities : AreFinite(frames[i])
      /\ AreFinite(old) /\ IsFiniteQueue(old[st]) /\ IsFiniteQueue(Queue(iden, st))
  BY AllFinite DEF AreFinite
<1>3. new[st] = q /\ \A s \in Streams : s # st => new[s] = old[s]
  BY <1>1
<1>4. Queue(iden, st) = Without(old[st], R) /\ R \in SUBSET DOMAIN old[st]
  BY DEF Queue, Obsolete, Stale
<1>5. /\ frames'[iden] = new
      /\ \A i \in Identities : i # iden => frames'[i] = frames[i]
  BY <1>1
<1>6. LiveBefore(iden, st)[pool]
        = Cardinality(Stored(pool, frames)) - Cardinality(InQueues(pool, frames[iden]))
            + Cardinality(InQueues(pool, old)) - Cardinality(HeldOf(pool, st, old[st], R))
  BY LiveBeforeType
<1> HIDE DEF old, new, R
<1>7. AreFinite(new)
  BY <1>2, <1>3 DEF AreFinite
<1>8. \A i \in Identities : AreFinite(frames'[i])
  BY <1>2, <1>5, <1>7
<1>9. /\ Cardinality(Stored(pool, frames)) \in Nat /\ Cardinality(Stored(pool, frames')) \in Nat
      /\ Cardinality(InQueues(pool, frames[iden])) \in Nat
      /\ Cardinality(InQueues(pool, old)) \in Nat /\ Cardinality(InQueues(pool, new)) \in Nat
  BY <1>2, <1>7, <1>8, StoredFamily, InQueuesFamily
<1>10. Cardinality(Stored(pool, frames')) + Cardinality(InQueues(pool, frames[iden]))
         = Cardinality(Stored(pool, frames)) + Cardinality(InQueues(pool, new))
  <2> DEFINE F == frames
             G == frames'
  <2>1. /\ \A i \in Identities : AreFinite(F[i])
        /\ \A i \in Identities : AreFinite(G[i])
        /\ \A i \in Identities : i # iden => G[i] = F[i]
    BY <1>2, <1>5, <1>8
  <2> HIDE DEF F, G
  <2>2. Cardinality(Stored(pool, G)) + Cardinality(InQueues(pool, F[iden]))
          = Cardinality(Stored(pool, F)) + Cardinality(InQueues(pool, G[iden]))
    BY <2>1, StoredChange
  <2> QED
    BY <1>5, <2>2 DEF F, G
<1>11. Cardinality(InQueues(pool, new)) + Cardinality(Held(pool, st, old[st]))
         = Cardinality(InQueues(pool, old)) + Cardinality(Held(pool, st, q))
  <2>1. Cardinality(InQueues(pool, new)) + Cardinality(Held(pool, st, old[st]))
          = Cardinality(InQueues(pool, old)) + Cardinality(Held(pool, st, new[st]))
    BY <1>2, <1>3, <1>7, InQueuesChange
  <2> QED
    BY <1>3, <2>1
<1>12. Cardinality(Held(pool, st, old[st]))
         = Cardinality(Held(pool, st, Queue(iden, st))) + Cardinality(HeldOf(pool, st, old[st], R))
  BY <1>2, <1>4, HeldWithout
<1>13. /\ Cardinality(Held(pool, st, old[st])) \in Nat /\ Cardinality(Held(pool, st, q)) \in Nat
       /\ Cardinality(Held(pool, st, Queue(iden, st))) \in Nat
       /\ Cardinality(HeldOf(pool, st, old[st], R)) \in Nat
  BY <1>2, <1>4, HeldFinite DEF Held
<1> QED
  BY <1>6, <1>9, <1>10, <1>11, <1>12, <1>13

(* GetRecvFrame: what Insert evicts is freed, and a new frame allocated.   *)
LEMMA LiveAfterInsertType ==
    ASSUME QueuesInv, running, RecordsHold, IsExact, NEW iden \in Identities, NEW st \in Streams,
           NEW fid \in Ids
    PROVE  LET q == Queue(iden, st)
               l == LiveAfterInsert(iden, st, fid)
               freed(pool) == Cardinality(HeldOf(pool, st, q, Evicted(DOMAIN q, fid)))
           IN  /\ DOMAIN l = Pools /\ \A pool \in Pools : l[pool] \in Int
               /\ \A pool \in Pools : l[pool] = LiveBefore(iden, st)[pool] - freed(pool)
                     + (IF fid \notin DOMAIN q /\ pool = Pool(st) THEN 1 ELSE 0)
               /\ l \in [Pools -> Int]
<1> DEFINE q == Queue(iden, st)
           E == Evicted(DOMAIN q, fid)
           freed(pool) == Cardinality(HeldOf(pool, st, q, E))
           b == LiveBefore(iden, st)
           r == Release(b, st, q, E)
           l == LiveAfterInsert(iden, st, fid)
<1>1. IsFiniteQueue(q) /\ E \in SUBSET DOMAIN q
  <2>1. Spans(DOMAIN q)
    BY QueueRemembers DEF QueueOK
  <2> QED
    BY <2>1, AllFinite, GuardsOfSpan
<1>2. \A pool \in Pools : freed(pool) \in Nat
  <2> HIDE DEF q, E
  <2> QED
    BY <1>1, HeldFinite
<1>3. DOMAIN b = Pools /\ \A pool \in Pools : b[pool] \in Int
  BY LiveBeforeType DEF Pools
<1>4. r = [pool \in Pools |-> b[pool] - freed(pool)]
  <2> HIDE DEF b, q, E
  <2> QED
    BY <1>3 DEF Release
<1>5. l = IF fid \in DOMAIN q THEN r ELSE [r EXCEPT ![Pool(st)] = @ + 1]
  BY DEF LiveAfterInsert
<1>6. Pool(st) \in Pools
  BY DEF Pool, Pools
<1> HIDE DEF q, E, freed, b, r, l
<1>7. r \in [Pools -> Int] /\ \A pool \in Pools : r[pool] = b[pool] - freed(pool)
  BY <1>2, <1>3, <1>4
<1>8. l \in [Pools -> Int]
  BY <1>5, <1>6, <1>7
<1>9. \A pool \in Pools :
         l[pool] = b[pool] - freed(pool)
                     + (IF fid \notin DOMAIN q /\ pool = Pool(st) THEN 1 ELSE 0)
  BY <1>2, <1>3, <1>5, <1>6, <1>7
<1> QED
  BY <1>8, <1>9 DEF q, E, freed, b, l

(* A frame that is in the queue evicts nothing.                            *)
LEMMA InQueueEvictsNone ==
    ASSUME NEW S, Spans(S), NEW fid \in S PROVE Evicted(S, fid) = {}
<1>1. fid \in Ids /\ S \subseteq Ids
  BY DEF Spans
<1>2. Pos(fid) \in Nat
  BY <1>1, PosOrders
<1>3. ~IsAfter(S, fid)
  BY <1>1, <1>2, GuardsOfSpan
<1> QED
  BY <1>1, <1>3, GuardsOfSpan

(* The queue is stored as it was.                                          *)
LEMMA SameQueueExact ==
    ASSUME QueuesInv, running, RecordsHold, IsExact,
           NEW iden \in Identities, NEW st \in Streams, NEW fid \in Ids,
           Commit(iden, st, Queue(iden, st)),
           \/ live' = LiveBefore(iden, st)
           \/ fid \in DOMAIN Queue(iden, st) /\ live' = LiveAfterInsert(iden, st, fid)
    PROVE  IsExact'
<1> DEFINE q == Queue(iden, st)
           b == LiveBefore(iden, st)
<1>1. IsFiniteQueue(q) /\ Spans(DOMAIN q)
  BY AllFinite, QueueRemembers DEF QueueOK
<1>2. ASSUME NEW pool \in Pools
      PROVE  /\ Cardinality(Stored(pool, frames')) \in Nat
             /\ Cardinality(Stored(pool, frames')) = b[pool] /\ b[pool] \in Int
  BY <1>1, <1>2, CommitCounts, LiveBeforeType
<1>3. DOMAIN live' = Pools /\ (\A pool \in Pools : live'[pool] = b[pool]) /\ live' \in [Pools -> Int]
  <2>0. b \in [Pools -> Int]
    <3>1. /\ b = [p \in DOMAIN LiveThen(iden) |->
                     LiveThen(iden)[p] - Cardinality(HeldOf(p, st, Queues(iden)[st], Obsolete(Queues(iden)[st])))]
          /\ DOMAIN b = Pools
      BY LiveBeforeType DEF LiveBefore, Release, Pools
    <3> QED
      BY <1>2, <3>1
  <2>1. CASE live' = b
    BY <2>0, <2>1
  <2>2. CASE fid \in DOMAIN q /\ live' = LiveAfterInsert(iden, st, fid)
    <3>1. Evicted(DOMAIN q, fid) = {}
      BY <1>1, <2>2, InQueueEvictsNone
    <3>2. \A pool \in Pools : Cardinality(HeldOf(pool, st, q, Evicted(DOMAIN q, fid))) = 0
      <4>1. \A pool \in Pools : HeldOf(pool, st, q, {}) = {}
        BY DEF HeldOf
      <4> QED
        BY <3>1, <4>1, FS_EmptySet
    <3>3. /\ live' \in [Pools -> Int]
          /\ \A pool \in Pools : live'[pool] = b[pool] - 0 + 0
      BY <2>2, <3>2, LiveAfterInsertType
    <3> HIDE DEF b
    <3> QED
      BY <1>2, <3>3
  <2> QED
    BY <2>1, <2>2
<1>4. live' \in [Pools -> Nat]
  BY <1>2, <1>3
<1> QED
  BY <1>2, <1>3, <1>4 DEF IsExact

(* A record is stored, with new segments in place of the old.              *)
LEMMA InsertExact ==
    ASSUME QueuesInv, running, RecordsHold, IsExact,
           NEW iden \in Identities, NEW st \in Streams, NEW fid \in Ids,
           ~TooOld(DOMAIN Queue(iden, st), fid),
           NEW frm, IsFiniteSet(frm.segs), NEW old,
           old = IF fid \in DOMAIN Queue(iden, st) THEN Queue(iden, st)[fid].segs ELSE {},
           Commit(iden, st, Inserted(Queue(iden, st), fid, frm)),
           live' \in [Pools -> Int],
           \A pool \in {"audio", "video"} : live'[pool] = LiveAfterInsert(iden, st, fid)[pool],
           live'["segs"] + Cardinality(old)
             = LiveAfterInsert(iden, st, fid)["segs"] + Cardinality(frm.segs)
    PROVE  IsExact'
<1> DEFINE q == Queue(iden, st)
           E == Evicted(DOMAIN q, fid)
           w == Without(q, E)
           r == Inserted(q, fid, frm)
           l == LiveAfterInsert(iden, st, fid)
           b == LiveBefore(iden, st)
           freed(pool) == Cardinality(HeldOf(pool, st, q, E))
           held(pool, x) == Cardinality(Held(pool, st, x))
<1>1. IsFiniteQueue(q) /\ Spans(DOMAIN q) /\ E \in SUBSET DOMAIN q
  BY AllFinite, QueueRemembers, GuardsOfSpan DEF QueueOK
<1>2. fid \in DOMAIN q => E = {}
  BY <1>1, InQueueEvictsNone
<1>3. /\ DOMAIN w = DOMAIN q \ E /\ (\A f \in DOMAIN w : w[f] = q[f])
      /\ DOMAIN r = DOMAIN w \cup {fid} /\ r[fid] = frm
      /\ \A f \in DOMAIN w : f # fid => r[f] = w[f]
  BY DEF Without, Inserted
<1>4. fid \in DOMAIN w <=> fid \in DOMAIN q
  BY <1>1, <1>2, <1>3
<1>5. /\ \A pool \in Pools : freed(pool) \in Nat
      /\ \A pool \in Pools : b[pool] \in Int
      /\ \A pool \in Pools : l[pool] = b[pool] - freed(pool)
                               + (IF fid \notin DOMAIN q /\ pool = Pool(st) THEN 1 ELSE 0)
  <2>1. \A pool \in Pools : b[pool] \in Int
    BY LiveBeforeType
  <2>2. \A pool \in Pools : l[pool] = b[pool] - freed(pool)
                               + (IF fid \notin DOMAIN q /\ pool = Pool(st) THEN 1 ELSE 0)
    BY LiveAfterInsertType
  <2>3. \A pool \in Pools : freed(pool) \in Nat
    <3> HIDE DEF q, E
    <3> QED
      BY <1>1, HeldFinite
  <2> QED
    BY <2>1, <2>2, <2>3
<1>6. /\ IsFiniteQueue(w)
      /\ \A pool \in Pools : held(pool, q) = held(pool, w) + freed(pool)
  <2> HIDE DEF q, E, w
  <2>1. \A pool \in Pools : held(pool, q) = held(pool, w) + freed(pool)
    BY <1>1, HeldWithout DEF w
  <2>2. IsFiniteQueue(w)
    BY <1>1, HeldWithout DEF w, Pools
  <2> QED
    BY <2>1, <2>2
<1>7. old = IF fid \in DOMAIN w THEN w[fid].segs ELSE {}
  BY <1>3, <1>4
<1>8. /\ IsFiniteQueue(r)
      /\ held("segs", r) + Cardinality(old) = held("segs", w) + Cardinality(frm.segs)
      /\ \A pool \in {"audio", "video"} :
            held(pool, r) = held(pool, w)
                              + (IF fid \notin DOMAIN w /\ pool = Pool(st) THEN 1 ELSE 0)
      /\ Cardinality(old) \in Nat /\ Cardinality(frm.segs) \in Nat
  <2> HIDE DEF q, E, w, r
  <2>1. /\ IsFiniteQueue(r)
        /\ fid \notin DOMAIN w =>
                 /\ Cardinality(Held("segs", st, r))
                      = Cardinality(Held("segs", st, w)) + Cardinality(r[fid].segs)
                 /\ \A pool \in {"audio", "video"} :
                       Cardinality(Held(pool, st, r))
                         = Cardinality(Held(pool, st, w)) + (IF pool = Pool(st) THEN 1 ELSE 0)
        /\ fid \in DOMAIN w =>
                 /\ Cardinality(Held("segs", st, r)) + Cardinality(w[fid].segs)
                      = Cardinality(Held("segs", st, w)) + Cardinality(r[fid].segs)
                 /\ \A pool \in {"audio", "video"} :
                       Cardinality(Held(pool, st, r)) = Cardinality(Held(pool, st, w))
    <3>1. /\ IsFiniteQueue(w) /\ IsFiniteSet(r[fid].segs)
          /\ DOMAIN r = DOMAIN w \cup {fid}
          /\ \A f \in DOMAIN w : f # fid => r[f] = w[f]
      BY <1>3, <1>6
    <3> QED
      BY <3>1, HeldStored
  <2>2. Cardinality(frm.segs) \in Nat /\ Cardinality({}) = 0
    BY FS_CardinalityType, FS_EmptySet
  <2>3. \A pool \in Pools : held(pool, w) \in Nat /\ held(pool, r) \in Nat
    BY <1>6, <2>1, HeldFinite DEF Held
  <2>4. held("segs", w) \in Nat /\ held("segs", r) \in Nat
    BY <2>3 DEF Pools
  <2>5. \A pool \in {"audio", "video"} : held(pool, w) \in Nat
    BY <2>3 DEF Pools
  <2>6. CASE fid \notin DOMAIN w
    <3>1. old = {} /\ Cardinality(old) = 0
      BY <1>7, <2>2, <2>6
    <3>2. held("segs", r) = held("segs", w) + Cardinality(frm.segs)
      BY <1>3, <2>1, <2>6
    <3>3. held("segs", r) + Cardinality(old) = held("segs", w) + Cardinality(frm.segs)
      BY <2>4, <3>1, <3>2
    <3>4. \A pool \in {"audio", "video"} :
             held(pool, r) = held(pool, w) + (IF fid \notin DOMAIN w /\ pool = Pool(st) THEN 1 ELSE 0)
      BY <2>1, <2>6
    <3> QED
      BY <2>1, <2>2, <3>1, <3>3, <3>4
  <2>7. CASE fid \in DOMAIN w
    <3>1. IsFiniteSet(w[fid].segs) /\ old = w[fid].segs
      BY <1>6, <1>7, <2>7 DEF IsFiniteQueue
    <3>2. Cardinality(old) \in Nat
      BY <3>1, FS_CardinalityType
    <3>3. \A pool \in {"audio", "video"} : held(pool, r) = held(pool, w) + 0
      BY <2>1, <2>5, <2>7
    <3> QED
      BY <1>3, <2>1, <2>2, <2>7, <3>1, <3>2, <3>3
  <2> QED
    BY <2>6, <2>7
<1>9. ASSUME NEW pool \in Pools
      PROVE  /\ Cardinality(Stored(pool, frames')) \in Nat
             /\ held(pool, r) \in Nat /\ held(pool, q) \in Nat
             /\ Cardinality(Stored(pool, frames')) = b[pool] - held(pool, q) + held(pool, r)
  BY <1>8, <1>9, CommitCounts
<1>10. \A pool \in Pools : held(pool, w) \in Nat
  <2> HIDE DEF w
  <2> QED
    BY <1>6, HeldFinite DEF Held
<1> DEFINE in(pool) == Cardinality(Stored(pool, frames'))
<1>11. /\ \A pool \in {"audio", "video"} : live'[pool] = l[pool]
       /\ live'["segs"] + Cardinality(old) = l["segs"] + Cardinality(frm.segs)
       /\ \A pool \in Pools : in(pool) \in Nat /\ in(pool) = b[pool] - held(pool, q) + held(pool, r)
       /\ live' \in [Pools -> Int]
  BY <1>9
<1>12. Pool(st) # "segs" /\ "segs" \in Pools /\ "audio" \in Pools /\ "video" \in Pools
       /\ \A pool \in Pools : pool = "segs" \/ pool \in {"audio", "video"}
  BY PoolType DEF Pools
<1> HIDE DEF q, E, w, r, l, b, freed, held, in
<1>13. live'["segs"] = in("segs")
  <2>1. l["segs"] = b["segs"] - freed("segs") + 0 /\ live'["segs"] \in Int
    BY <1>5, <1>11, <1>12
  <2>2. held("segs", q) = held("segs", w) + freed("segs")
    BY <1>6, <1>12
  <2>3. b["segs"] \in Int /\ freed("segs") \in Nat /\ held("segs", w) \in Nat /\ held("segs", r) \in Nat
    BY <1>5, <1>9, <1>10, <1>12
  <2>4. in("segs") = b["segs"] - held("segs", q) + held("segs", r)
    BY <1>11, <1>12
  <2>5. /\ Cardinality(old) \in Nat /\ Cardinality(frm.segs) \in Nat
        /\ held("segs", r) + Cardinality(old) = held("segs", w) + Cardinality(frm.segs)
        /\ live'["segs"] + Cardinality(old) = l["segs"] + Cardinality(frm.segs)
    BY <1>8, <1>11
  <2> DEFINE a == live'["segs"]
             c == Cardinality(old)
             d == Cardinality(frm.segs)
             t == b["segs"]
             fr == freed("segs")
             hw == held("segs", w)
             hr == held("segs", r)
  <2>6. /\ a \in Int /\ c \in Nat /\ d \in Nat /\ t \in Int /\ fr \in Nat /\ hw \in Nat /\ hr \in Nat
        /\ hr + c = hw + d /\ a + c = (t - fr + 0) + d /\ in("segs") = t - (hw + fr) + hr
    BY <2>1, <2>2, <2>3, <2>4, <2>5
  <2> HIDE DEF a, c, d, t, fr, hw, hr
  <2>7. a = in("segs")
    BY <2>6
  <2> QED
    BY <2>7 DEF a
<1>14. ASSUME NEW pool \in {"audio", "video"} PROVE live'[pool] = in(pool)
  <2>1. pool \in Pools
    BY <1>12
  <2> DEFINE one == IF fid \notin DOMAIN q /\ pool = Pool(st) THEN 1 ELSE 0
  <2>2. l[pool] = b[pool] - freed(pool) + one /\ held(pool, r) = held(pool, w) + one /\ one \in Nat
    <3>1. l[pool] = b[pool] - freed(pool) + one
      BY <1>5, <2>1
    <3>2. held(pool, r) = held(pool, w) + one
      BY <1>4, <1>8
    <3> QED
      BY <3>1, <3>2
  <2> HIDE DEF one
  <2>3. /\ held(pool, q) = held(pool, w) + freed(pool)
        /\ b[pool] \in Int /\ freed(pool) \in Nat /\ held(pool, w) \in Nat
        /\ in(pool) = b[pool] - held(pool, q) + held(pool, r)
    BY <1>5, <1>6, <1>10, <1>11, <2>1
  <2>4. live'[pool] = l[pool]
    BY <1>11
  <2> QED
    BY <2>2, <2>3, <2>4
<1>15. \A pool \in Pools : live'[pool] = in(pool)
  BY <1>12, <1>13, <1>14
<1>16. live' \in [Pools -> Nat]
  BY <1>11, <1>15
<1> QED
  BY <1>15, <1>16 DEF IsExact, in
-----------------------------------------------------------------------------
(* The steps keep records and allocators in agreement.                     *)

SizesInv == QueuesInv /\ RecordsHold /\ IsExact

(* A slice of a frame older than the queue.                                *)
LEMMA TooLateSizes ==
    ASSUME SizesInv, running, NEW iden \in Identities, NEW st \in Streams, NEW fid \in Ids,
           HandleTooLate(iden, st, fid)
    PROVE  RecordsHold' /\ IsExact' /\ DeliversDecodable'
<1>1. /\ Commit(iden, st, Queue(iden, st)) /\ live' = LiveBefore(iden, st)
      /\ Drop("too late") /\ QueuesInv /\ RecordsHold /\ IsExact
  BY DEF HandleTooLate, SizesInv
<1>2. RecordsHold'
  BY <1>1, QueueRecords, CommitRecords
<1>3. IsExact'
  BY <1>1, SameQueueExact
<1> QED
  BY <1>1, <1>2, <1>3, DropComplete

(* A frame sent in one slice.                                              *)
LEMMA NonFecSizes ==
    ASSUME SizesInv, running, NEW iden \in Identities, NEW st \in Streams, NEW fid \in Ids,
           HandleSliceNonFecPayload(iden, st, fid)
    PROVE  RecordsHold' /\ IsExact' /\ DeliversDecodable'
<1> DEFINE q == Queue(iden, st)
           l == LiveAfterInsert(iden, st, fid)
<1>1. /\ ~IsCoded(st, fid) /\ ~TooOld(DOMAIN q, fid) /\ live' = l
      /\ QueuesInv /\ RecordsHold /\ IsExact
  BY DEF HandleSliceNonFecPayload, SizesInv
<1>2. CASE /\ fid \notin DOMAIN q
           /\ Commit(iden, st, Inserted(q, fid, RawFrame))
           /\ Deliver(iden, st, fid, {})
  <2>1. RawFrame.done /\ RawFrame.segs = {}
    BY DEF RawFrame
  <2>2. RecordOK(RawFrame, SrcOf(st, fid))
    BY <2>1 DEF RecordOK
  <2>3. RecordsOK(st, Inserted(q, fid, RawFrame))
    BY <1>1, <2>2, QueueRecords, InsertRecords
  <2>4. RecordsHold'
    <3> HIDE DEF q
    <3> QED
      BY <1>1, <1>2, <2>3, CommitRecords
  <2>5. IsExact'
    <3> DEFINE old == {}
    <3>1. /\ IsFiniteSet(RawFrame.segs) /\ Cardinality(RawFrame.segs) = Cardinality(old)
          /\ old = IF fid \in DOMAIN q THEN q[fid].segs ELSE {}
      BY <1>2, <2>1, FS_EmptySet
    <3>2. live' \in [Pools -> Int]
      BY <1>1, LiveAfterInsertType
    <3>3. /\ \A pool \in {"audio", "video"} : live'[pool] = l[pool]
          /\ live'["segs"] + Cardinality(old) = l["segs"] + Cardinality(RawFrame.segs)
      BY <1>1, <3>1
    <3> HIDE DEF old
    <3> QED
      BY <1>1, <1>2, <3>1, <3>2, <3>3, InsertExact
  <2>6. DeliversDecodable'
    <3>1. outcome'.src = SrcOf(st, fid) /\ ~(SrcOf(st, fid) > 0)
      BY <1>1, <1>2 DEF Deliver, Did, IsCoded
    <3> QED
      BY <3>1 DEF DeliversDecodable
  <2> QED
    BY <2>4, <2>5, <2>6
<1>3. CASE fid \in DOMAIN q /\ Commit(iden, st, q) /\ Drop("duplicate")
  <2>1. RecordsHold'
    BY <1>1, <1>3, QueueRecords, CommitRecords
  <2>2. IsExact'
    BY <1>1, <1>3, SameQueueExact
  <2> QED
    BY <1>3, <2>1, <2>2, DropComplete
<1> QED
  BY <1>2, <1>3 DEF HandleSliceNonFecPayload

(* A slice with a segment of a coded frame.                                *)
LEMMA FecSizes ==
    ASSUME SizesInv, running, NEW iden \in Identities, NEW st \in Streams, NEW fid \in Ids,
           NEW seg \in Segments, HandleSliceFecSegment(iden, st, fid, seg)
    PROVE  RecordsHold' /\ IsExact' /\ DeliversDecodable'
<1> DEFINE q     == Queue(iden, st)
           src   == SrcOf(st, fid)
           base  == FecBase(iden, st, fid)
           frm   == Touched(base)
           added == WithSegment(frm, src, seg)
           last  == [added EXCEPT !.done = TRUE, !.segs = {}]
           l     == LiveAfterInsert(iden, st, fid)
           dup   == \E prev \in frm.segs : IsDup(seg, prev)
           old   == IF fid \in DOMAIN q THEN q[fid].segs ELSE {}
<1>1. /\ IsCoded(st, fid) /\ ~TooOld(DOMAIN q, fid)
      /\ QueuesInv /\ RecordsHold /\ IsExact
      /\ \/ base.done /\ Commit(iden, st, q) /\ live' = l /\ Drop("duplicate")
         \/ /\ ~base.done /\ dup
            /\ Commit(iden, st, Inserted(q, fid, frm)) /\ live' = l /\ Drop("duplicate segment")
         \/ /\ ~base.done /\ ~dup /\ ~IsComplete(added, src)
            /\ Commit(iden, st, Inserted(q, fid, added))
            /\ live' = [l EXCEPT !.segs = @ + 1] /\ Drop("segment")
         \/ /\ ~base.done /\ ~dup /\ IsComplete(added, src)
            /\ Commit(iden, st, Inserted(q, fid, last))
            /\ live' = [l EXCEPT !.segs = @ + 1 - Cardinality(added.segs)]
            /\ Deliver(iden, st, fid, added.segs)
  BY DEF HandleSliceFecSegment, SizesInv, FecBase, Touched
<1>2. /\ base \in Frame /\ frm \in Frame /\ frm.segs = base.segs /\ frm.done = base.done
      /\ RecordOK(frm, src)
  BY <1>1, FecFound
<1>3. old = base.segs /\ (base.done => fid \in DOMAIN q)
  BY DEF FecBase, CodedFrame
<1>4. src \in Nat
  BY SrcType
<1>5. l \in [Pools -> Int]
  BY <1>1, LiveAfterInsertType
<1>6. RecordsOK(st, q)
  BY <1>1, QueueRecords
<1>0. last.segs = {}
  <2>1. added \in Frame
    <3> HIDE DEF frm, src
    <3> QED
      BY <1>2, <1>4, WithSegmentType
  <2> HIDE DEF added
  <2> QED
    BY <2>1 DEF Frame
<1>7. ASSUME ~base.done, ~dup
      PROVE  /\ added \in Frame /\ Counted(added, src)
             /\ added.segs = old \cup {seg} /\ seg \notin old
             /\ IsFiniteSet(old) /\ IsFiniteSet(added.segs)
             /\ ~IsComplete(added, src) => RecordOK(added, src)
             /\ RecordOK(last, src)
  <2> HIDE DEF frm, src, base, old
  <2> QED
    BY <1>2, <1>3, <1>4, <1>7, FecAdded
<1> HIDE DEF src, base, frm, added, last, l, dup, old
<1>8. ASSUME NEW f, RecordOK(f, src), IsFiniteSet(f.segs), Commit(iden, st, Inserted(q, fid, f)),
             live' \in [Pools -> Int],
             \A pool \in {"audio", "video"} : live'[pool] = l[pool],
             live'["segs"] + Cardinality(old) = l["segs"] + Cardinality(f.segs)
      PROVE  RecordsHold' /\ IsExact'
  <2>1. RecordsOK(st, Inserted(q, fid, f))
    BY <1>6, <1>8, InsertRecords DEF src
  <2>2. RecordsHold'
    <3> HIDE DEF q
    <3> QED
      BY <1>1, <1>8, <2>1, CommitRecords
  <2>3. old = IF fid \in DOMAIN q THEN q[fid].segs ELSE {}
    BY DEF old
  <2>4. /\ QueuesInv /\ RecordsHold /\ IsExact /\ ~TooOld(DOMAIN Queue(iden, st), fid)
        /\ IsFiniteSet(f.segs)
        /\ old = IF fid \in DOMAIN Queue(iden, st) THEN Queue(iden, st)[fid].segs ELSE {}
        /\ Commit(iden, st, Inserted(Queue(iden, st), fid, f))
        /\ live' \in [Pools -> Int]
        /\ \A pool \in {"audio", "video"} : live'[pool] = LiveAfterInsert(iden, st, fid)[pool]
        /\ live'["segs"] + Cardinality(old)
             = LiveAfterInsert(iden, st, fid)["segs"] + Cardinality(f.segs)
    BY <1>1, <1>8, <2>3 DEF l
  <2>5. IsExact'
    <3> HIDE DEF q
    <3> QED
      BY <2>4, InsertExact
  <2> QED
    BY <2>2, <2>5
<1>9. CASE base.done /\ Commit(iden, st, q) /\ live' = l /\ Drop("duplicate")
  <2>1. RecordsHold'
    BY <1>1, <1>6, <1>9, CommitRecords
  <2>2. IsExact'
    BY <1>1, <1>3, <1>9, SameQueueExact DEF l
  <2> QED
    BY <1>9, <2>1, <2>2, DropComplete
<1>10. CASE /\ ~base.done /\ dup
            /\ Commit(iden, st, Inserted(q, fid, frm)) /\ live' = l /\ Drop("duplicate segment")
  <2>1. frm.segs = old /\ IsFiniteSet(frm.segs)
    BY <1>2, <1>3, <1>10 DEF RecordOK, Counted
  <2>2. RecordsHold' /\ IsExact'
    BY <1>2, <1>5, <1>8, <1>10, <2>1
  <2> QED
    BY <1>10, <2>2, DropComplete
<1>11. ASSUME ~base.done, ~dup
       PROVE  /\ Cardinality(added.segs) = Cardinality(old) + 1
              /\ Cardinality(old) \in Nat /\ Cardinality(added.segs) \in Nat
  <2>1. /\ IsFiniteSet(old) /\ seg \notin old /\ added.segs = old \cup {seg}
        /\ IsFiniteSet(added.segs)
    BY <1>7, <1>11
  <2>2. Cardinality(old \cup {seg}) = Cardinality(old) + 1 /\ Cardinality(old) \in Nat
    BY <2>1, FS_AddElement, FS_CardinalityType
  <2> QED
    BY <2>1, <2>2
<1>12. \A n \in Int :
          LET k == [l EXCEPT !.segs = @ + n] IN
          /\ k \in [Pools -> Int] /\ k["segs"] = l["segs"] + n /\ l["segs"] \in Int
          /\ \A pool \in {"audio", "video"} : k[pool] = l[pool]
  BY <1>5 DEF Pools
<1>13. CASE /\ ~base.done /\ ~dup /\ ~IsComplete(added, src)
            /\ Commit(iden, st, Inserted(q, fid, added))
            /\ live' = [l EXCEPT !.segs = @ + 1] /\ Drop("segment")
  <2>1. /\ live' \in [Pools -> Int] /\ live'["segs"] = l["segs"] + 1 /\ l["segs"] \in Int
        /\ \A pool \in {"audio", "video"} : live'[pool] = l[pool]
    BY <1>12, <1>13
  <2>2. live'["segs"] + Cardinality(old) = l["segs"] + Cardinality(added.segs)
    BY <1>11, <1>13, <2>1
  <2>3. RecordsHold' /\ IsExact'
    BY <1>7, <1>8, <1>13, <2>1, <2>2
  <2> QED
    BY <1>13, <2>3, DropComplete
<1>14. CASE /\ ~base.done /\ ~dup /\ IsComplete(added, src)
            /\ Commit(iden, st, Inserted(q, fid, last))
            /\ live' = [l EXCEPT !.segs = @ + 1 - Cardinality(added.segs)]
            /\ Deliver(iden, st, fid, added.segs)
  <2> DEFINE n == 1 - Cardinality(added.segs)
  <2>1. n \in Int /\ n = 0 - Cardinality(old) /\ Cardinality(old) \in Nat
    BY <1>11, <1>14
  <2>2. /\ live' \in [Pools -> Int] /\ live'["segs"] = l["segs"] + n /\ l["segs"] \in Int
        /\ \A pool \in {"audio", "video"} : live'[pool] = l[pool]
    <3>1. l["segs"] + 1 - Cardinality(added.segs) = l["segs"] + n /\ l["segs"] \in Int
      BY <1>5, <1>11, <1>14 DEF Pools
    <3>2. live' = [l EXCEPT !.segs = @ + n]
      BY <1>14, <3>1
    <3> HIDE DEF n
    <3> QED
      BY <1>12, <2>1, <3>2
  <2>3. IsFiniteSet(last.segs) /\ Cardinality(last.segs) = 0
    BY <1>0, FS_EmptySet
  <2> HIDE DEF n
  <2>4. live'["segs"] + Cardinality(old) = l["segs"] + Cardinality(last.segs)
    BY <2>1, <2>2, <2>3
  <2>5. RecordsHold' /\ IsExact'
    BY <1>7, <1>8, <1>14, <2>2, <2>3, <2>4
  <2>6. DeliversDecodable'
    BY <1>7, <1>14, DeliverComplete DEF src
  <2> QED
    BY <2>5, <2>6
<1> QED
  BY <1>1, <1>9, <1>10, <1>13, <1>14

(* Time passes: no record, and nothing the allocators gave, changes.       *)
LEMMA TickSizes ==
    ASSUME RecordsHold, IsExact, Tick
    PROVE  RecordsHold' /\ IsExact' /\ DeliversDecodable'
<1>1. frames' = frames /\ live' = live /\ Drop("none")
  BY DEF Tick
<1>2. DeliversDecodable'
  BY <1>1, DropComplete
<1>3. RecordsHold'
  BY <1>1 DEF RecordsHold, RecordsOK
<1>4. IsExact'
  BY <1>1 DEF IsExact
<1> QED
  BY <1>2, <1>3, <1>4

(* Empty queues, with nothing missing, are as they should be.              *)
LEMMA EmptySizes ==
    ASSUME NEW all, all = [iden \in Identities |-> [st \in Streams |-> NoFrames]],
           NEW l, l \in [Pools -> {0}]
    PROVE  /\ \A iden \in Identities, st \in Streams : RecordsOK(st, all[iden][st])
           /\ l \in [Pools -> Nat] /\ \A pool \in Pools : l[pool] = Cardinality(Stored(pool, all))
<1>1. \A iden \in Identities, st \in Streams : RecordsOK(st, all[iden][st])
  BY NoFramesOK DEF RecordsOK
<1>2. ASSUME NEW pool \in Pools PROVE Cardinality(Stored(pool, all)) = 0
  BY NothingHeld, FS_EmptySet
<1>3. l \in [Pools -> Nat] /\ \A pool \in Pools : l[pool] = 0
  OBVIOUS
<1> QED
  BY <1>1, <1>2, <1>3

(* The end of the receiver gives back all that the allocators gave.        *)
LEMMA DestroySizes ==
    ASSUME IsExact, Destroy
    PROVE  RecordsHold' /\ IsExact' /\ DeliversDecodable'
<1>1. /\ frames' = [iden \in Identities |-> [st \in Streams |-> NoFrames]]
      /\ live' = [pool \in DOMAIN live |-> live[pool] - Cardinality(Stored(pool, frames))]
      /\ Drop("none")
  BY DEF Destroy
<1>2. DOMAIN live = Pools
      /\ \A pool \in Pools : live[pool] \in Nat /\ live[pool] = Cardinality(Stored(pool, frames))
  BY DEF IsExact
<1>3. \A pool \in Pools : live'[pool] = 0
  <2> SUFFICES ASSUME NEW pool \in Pools PROVE live'[pool] = 0
    OBVIOUS
  <2> DEFINE n == Cardinality(Stored(pool, frames))
  <2>1. live'[pool] = live[pool] - n /\ live[pool] = n /\ live[pool] \in Nat
    BY <1>1, <1>2
  <2> HIDE DEF n
  <2> QED
    BY <2>1
<1>4. live' \in [Pools -> {0}]
  BY <1>1, <1>2, <1>3
<1>5. RecordsHold' /\ IsExact'
  BY <1>1, <1>4, EmptySizes DEF RecordsHold, IsExact
<1>6. DeliversDecodable'
  BY <1>1, DropComplete
<1> QED
  BY <1>5, <1>6
-----------------------------------------------------------------------------
(* The records, the allocators and the deliveries are right in every       *)
(* state.                                                                  *)

Inv == IInv /\ RecordsHold /\ IsExact /\ DeliversDecodable /\ running \in BOOLEAN

(* The invariant holds initially.                                          *)
LEMMA InitSizes == Init => Inv
<1> SUFFICES ASSUME Init PROVE Inv
  OBVIOUS
<1>1. IInv
  BY InitInv
<1>2. /\ frames = [iden \in Identities |-> [st \in Streams |-> NoFrames]]
      /\ live \in [Pools -> {0}]
      /\ running \in BOOLEAN
  BY DEF Init, Pools
<1>3. RecordsHold /\ IsExact
  BY <1>2, EmptySizes DEF RecordsHold, IsExact
<1>4. DeliversDecodable
  BY DEF Init, Did, DeliversDecodable
<1> QED
  BY <1>1, <1>2, <1>3, <1>4 DEF Inv

(* Every step keeps the invariant.                                         *)
LEMMA NextSizes == Inv /\ [Next]_vars => Inv'
<1> SUFFICES ASSUME Inv, [Next]_vars PROVE Inv'
  OBVIOUS
<1>0. IInv' /\ SizesInv /\ RecordsHold /\ IsExact /\ running \in BOOLEAN
  BY NextInv DEF Inv, IInv, SizesInv
<1>1. CASE UNCHANGED vars
  <2>1. frames' = frames /\ live' = live /\ outcome' = outcome /\ running' = running
    BY <1>1 DEF vars
  <2>2. RecordsHold'
    BY <2>1, <1>0 DEF RecordsHold, RecordsOK
  <2>3. IsExact'
    BY <2>1, <1>0 DEF IsExact
  <2>4. DeliversDecodable'
    BY <2>1 DEF Inv, DeliversDecodable
  <2> QED
    BY <1>0, <2>1, <2>2, <2>3, <2>4 DEF Inv
<1>2. ASSUME NEW iden \in Identities, NEW st \in Streams, NEW fid \in Ids,
             HandleQPacket(iden, st, fid)
      PROVE  Inv'
  <2>1. running
    BY <1>2 DEF HandleQPacket
  <2>2. RecordsHold' /\ IsExact' /\ DeliversDecodable'
    BY <1>0, <1>2, <2>1, TooLateSizes, NonFecSizes, FecSizes DEF HandleQPacket
  <2>3. running' = running
    BY <1>2 DEF HandleQPacket, HandleTooLate, HandleSliceNonFecPayload,
                HandleSliceFecSegment, Commit
  <2> QED
    BY <1>0, <2>2, <2>3 DEF Inv
<1>3. CASE running /\ Tick
  BY <1>0, <1>3, TickSizes DEF Inv, Tick
<1>4. CASE Destroy
  BY <1>0, <1>4, DestroySizes DEF Inv, Destroy
<1> QED
  BY <1>1, <1>2, <1>3, <1>4 DEF Next

(* Every record's counters agree with its segments, a frame that is        *)
(* delivered has kept none, and every allocator misses what the queues     *)
(* hold, through time-outs, evictions, resets and deliveries.              *)
THEOREM SizesHold == Spec => []Inv
BY InitSizes, NextSizes, PTL DEF Spec

(* Every variable has its type: so no allocator gets back more than it     *)
(* gave.                                                                   *)
THEOREM TypeHolds == Spec => []TypeOK
<1>1. Inv => TypeOK
  <2> SUFFICES ASSUME Inv PROVE TypeOK
    OBVIOUS
  <2>1. QueuesTypeOK /\ IsExact /\ running \in BOOLEAN
    BY DEF Inv, IInv, QueuesInv
  <2>2. live \in [audio : Nat, video : Nat, segs : Nat]
    BY <2>1 DEF IsExact, Pools
  <2>3. \A iden \in Identities, st \in Streams :
           LET q == frames[iden][st] IN
           DOMAIN q \subseteq Ids /\ \A f \in DOMAIN q : q[f] \in Frame
    BY <2>1 DEF QueuesTypeOK, QueueOK, Spans
  <2> QED
    BY <2>1, <2>2, <2>3 DEF QueuesTypeOK, TypeOK
<1> QED
  BY <1>1, SizesHold, PTL

(* A frame waits exactly as long as its segments do not suffice to decode: *)
(* the sum of IntAccumulator and the count of symbols tell the symbols     *)
(* that arrived.                                                           *)
THEOREM WaitsAreNeeded == Spec => []WaitsWhileUndecodable
<1>1. Inv => WaitsWhileUndecodable
  <2> SUFFICES ASSUME Inv, NEW iden \in Identities, NEW st \in Streams,
                      NEW f \in DOMAIN frames[iden][st], ~frames[iden][st][f].done
               PROVE  ~Decodable(frames[iden][st][f].segs, SrcOf(st, f))
    BY DEF WaitsWhileUndecodable
  <2> DEFINE frm == frames[iden][st][f]
  <2>1. frm \in Frame /\ f \in Ids
    BY DEF Inv, IInv, QueuesInv, QueuesTypeOK, QueueOK, Spans
  <2>2. Counted(frm, SrcOf(st, f)) /\ ~IsComplete(frm, SrcOf(st, f))
    BY DEF Inv, RecordsHold, RecordsOK, RecordOK
  <2>3. SrcOf(st, f) \in Nat
    BY <2>1, SrcType
  <2> HIDE DEF frm
  <2>4. ~Decodable(frm.segs, SrcOf(st, f))
    BY <2>1, <2>2, <2>3, CompleteDecodes
  <2> QED
    BY <2>4 DEF frm
<1> QED
  BY <1>1, SizesHold, PTL

(* The segments handed to the assembler suffice to decode their frame, and *)
(* carry no symbol twice.                                                  *)
THEOREM DeliveriesDecode == Spec => []DeliversDecodable
<1>1. Inv => DeliversDecodable
  BY DEF Inv
<1> QED
  BY <1>1, SizesHold, PTL

(* No path through time-out, eviction, reset, duplicates and delivery      *)
(* leaks or frees twice a frame or a segment.                              *)
THEOREM AllocatorsStayExact == Spec => []AllocatorsExact
<1>1. Inv => AllocatorsExact
  BY DEF Inv, IsExact, AllocatorsExact
<1> QED
  BY <1>1, SizesHold, PTL
-----------------------------------------------------------------------------
(* StmAssembler may take a StreamRecver for what FrameCollector says.      *)

(* What is freed before a slice is handled, and by Insert, leaves no more  *)
(* segments than before.                                                   *)
LEMMA SegmentsFreed ==
    ASSUME SizesInv, running, NEW iden \in Identities, NEW st \in Streams
    PROVE  /\ live["segs"] \in Nat /\ LiveBefore(iden, st)["segs"] \in Int
           /\ LiveBefore(iden, st)["segs"] <= live["segs"]
           /\ \A fid \in Ids :
                 /\ LiveAfterInsert(iden, st, fid) \in [Pools -> Int]
                 /\ LiveAfterInsert(iden, st, fid)["segs"] <= live["segs"]
<1> DEFINE was == Cardinality(InQueues("segs", frames[iden]))
           is  == Cardinality(InQueues("segs", Queues(iden)))
           R   == Obsolete(Queues(iden)[st])
           out == Cardinality(HeldOf("segs", st, Queues(iden)[st], R))
           b   == LiveBefore(iden, st)
<1>0. QueuesInv /\ RecordsHold /\ IsExact /\ "segs" \in Pools
  BY DEF SizesInv, Pools
<1>1. live["segs"] \in Nat /\ live["segs"] = Cardinality(Stored("segs", frames))
  BY <1>0 DEF IsExact
<1>2. was \in Nat /\ is \in Nat /\ is <= was
  <2>1. was \in Nat /\ is \in Nat
    BY <1>0, AllFinite, InQueuesFamily
  <2>2. CASE Expired(iden)
    <3>1. is = 0
      BY <1>0, <2>2, NothingHeld, FS_EmptySet DEF Queues
    <3> QED
      BY <2>1, <3>1
  <2>3. CASE ~Expired(iden)
    BY <2>1, <2>3 DEF Queues
  <2> QED
    BY <2>2, <2>3
<1>3. out \in Nat
  <2> DEFINE q == Queues(iden)[st]
  <2>1. IsFiniteQueue(q) /\ R \in SUBSET DOMAIN q
    BY <1>0, AllFinite DEF AreFinite, Obsolete, Stale
  <2> HIDE DEF q, R
  <2>2. Cardinality(HeldOf("segs", st, q, R)) \in Nat
    BY <1>0, <2>1, HeldFinite
  <2> QED
    BY <2>2 DEF q
<1>4. b["segs"] \in Int /\ b["segs"] = live["segs"] - was + is - out
  BY <1>0, <1>1, LiveBeforeType
<1> HIDE DEF was, is, R, out, b
<1>5. b["segs"] <= live["segs"]
  BY <1>1, <1>2, <1>3, <1>4
<1>6. ASSUME NEW fid \in Ids
      PROVE  /\ LiveAfterInsert(iden, st, fid) \in [Pools -> Int]
             /\ LiveAfterInsert(iden, st, fid)["segs"] <= live["segs"]
  <2> DEFINE q == Queue(iden, st)
             l == LiveAfterInsert(iden, st, fid)
             E == Evicted(DOMAIN q, fid)
             f == Cardinality(HeldOf("segs", st, q, E))
  <2>1. IsFiniteQueue(q) /\ E \in SUBSET DOMAIN q
    BY <1>0, AllFinite, QueueRemembers, GuardsOfSpan DEF QueueOK
  <2>2. f \in Nat
    <3> HIDE DEF q, E
    <3> QED
      BY <1>0, <2>1, HeldFinite
  <2>3. /\ l \in [Pools -> Int]
        /\ \A pool \in Pools : l[pool] = b[pool] - Cardinality(HeldOf(pool, st, q, E))
                                   + (IF fid \notin DOMAIN q /\ pool = Pool(st) THEN 1 ELSE 0)
    BY <1>0, LiveAfterInsertType DEF b
  <2>4. "segs" # Pool(st)
    BY PoolType
  <2>5. l["segs"] = b["segs"] - f + 0
    BY <1>0, <2>3, <2>4
  <2> HIDE DEF l, f
  <2>6. l["segs"] <= live["segs"]
    BY <1>1, <1>4, <1>5, <2>2, <2>5
  <2> QED
    BY <2>3, <2>6 DEF l
<1> QED
  BY <1>1, <1>4, <1>5, <1>6 DEF b

(* A segment that a queue keeps counts.                                    *)
LEMMA KeptCounts ==
    ASSUME NEW all,
           \A i \in Identities, s \in Streams : QueueOK(all[i][s]) /\ RecordsOK(s, all[i][s]),
           NEW iden \in Identities, NEW st \in Streams,
           NEW fid \in DOMAIN all[iden][st], NEW seg \in all[iden][st][fid].segs
    PROVE  Cardinality(Stored("segs", all)) # 0
<1>1. \A i \in Identities : AreFinite(all[i])
  BY QueueFinite DEF AreFinite
<1>2. IsFiniteSet(Stored("segs", all))
  BY <1>1, StoredFamily, FamilyFinite DEF Pools
<1>3. <<fid, seg>> \in HeldOf("segs", st, all[iden][st], DOMAIN all[iden][st])
  BY DEF HeldOf
<1>4. <<st, <<fid, seg>>>> \in InQueues("segs", all[iden])
  BY <1>3 DEF InQueues
<1>5. <<iden, <<st, <<fid, seg>>>>>> \in Stored("segs", all)
  BY <1>4 DEF Stored
<1> QED
  BY <1>2, <1>5, FS_EmptySet

(* No segment comes, and none is handed over.                              *)
LEMMA NoSegmentCollects ==
    ASSUME NEW kind \in {"nothing", "whole"}, NEW before \in Nat, NEW after \in Nat,
           after <= before
    PROVE  Collects(kind, before, after, 0)
<1>1. kind \notin Completing /\ kind \notin BringsSegment /\ kind # "segment"
  BY DEF Completing, BringsSegment
<1>2. after + 0 <= before + 0
  OBVIOUS
<1> QED
  BY <1>1, <1>2 DEF Collects

(* A step that hands over no segment, and holds none more.                 *)
LEMMA NothingCollected ==
    ASSUME live["segs"] \in Nat, live'["segs"] \in Nat, live'["segs"] <= live["segs"],
           \/ \E what \in {"none", "too late", "duplicate", "duplicate segment"} : Drop(what)
           \/ /\ outcome'.what = "delivered" /\ outcome'.src = 0
              /\ outcome'.segs = {}
    PROVE  Collects(KindOf(outcome'), live.segs, live'.segs, Cardinality(outcome'.segs))
<1>1. KindOf(outcome') \in {"nothing", "whole"} /\ outcome'.segs = {}
  <2>1. ASSUME NEW what \in {"none", "too late", "duplicate", "duplicate segment"}, Drop(what)
        PROVE  KindOf(outcome') = "nothing" /\ outcome'.segs = {}
    <3>1. outcome' = Did(what, Never, 0, {}) /\ what # "delivered" /\ what # "segment"
      BY <2>1 DEF Drop
    <3>2. outcome'.what = what /\ outcome'.segs = {}
      BY <3>1 DEF Did
    <3> QED
      BY <3>1, <3>2 DEF KindOf
  <2>2. CASE outcome'.what = "delivered" /\ outcome'.src = 0 /\ outcome'.segs = {}
    BY <2>2 DEF KindOf
  <2> QED
    BY <2>1, <2>2
<1>2. Cardinality(outcome'.segs) = 0
  BY <1>1, FS_EmptySet
<1> QED
  BY <1>1, <1>2, NoSegmentCollects

(* A slice with a segment: the segment is kept or completes its frame.     *)
LEMMA FecCollects ==
    ASSUME Inv, Inv', running, NEW iden \in Identities, NEW st \in Streams, NEW fid \in Ids,
           NEW seg \in Segments, HandleSliceFecSegment(iden, st, fid, seg)
    PROVE  Collects(KindOf(outcome'), live.segs, live'.segs, Cardinality(outcome'.segs))
<1> DEFINE q     == Queue(iden, st)
           src   == SrcOf(st, fid)
           base  == FecBase(iden, st, fid)
           frm   == Touched(base)
           added == WithSegment(frm, src, seg)
           l     == LiveAfterInsert(iden, st, fid)
           dup   == \E prev \in frm.segs : IsDup(seg, prev)
<1>1. /\ IsCoded(st, fid) /\ SizesInv /\ QueuesInv /\ RecordsHold
      /\ \/ base.done /\ live' = l /\ Drop("duplicate")
         \/ ~base.done /\ dup /\ live' = l /\ Drop("duplicate segment")
         \/ /\ ~base.done /\ ~dup
            /\ Commit(iden, st, Inserted(q, fid, added))
            /\ live' = [l EXCEPT !.segs = @ + 1] /\ Drop("segment")
         \/ /\ ~base.done /\ ~dup
            /\ live' = [l EXCEPT !.segs = @ + 1 - Cardinality(added.segs)]
            /\ Deliver(iden, st, fid, added.segs)
  BY DEF HandleSliceFecSegment, Inv, IInv, SizesInv, FecBase, Touched
<1>2. /\ frm \in Frame /\ frm.done = base.done /\ RecordOK(frm, src)
      /\ src \in Nat /\ src > 0
  BY <1>1, FecFound, SrcType
<1>3. /\ live["segs"] \in Nat /\ l \in [Pools -> Int] /\ l["segs"] <= live["segs"]
      /\ live'["segs"] \in Nat /\ live'["segs"] = Cardinality(Stored("segs", frames'))
  BY <1>1, SegmentsFreed DEF Inv, IsExact, Pools
<1>4. ASSUME ~base.done, ~dup
      PROVE  /\ seg \in added.segs
             /\ Cardinality(added.segs) \in Nat /\ Cardinality(added.segs) > 0
  <2> HIDE DEF frm, src, base
  <2>1. added.segs = frm.segs \cup {seg} /\ IsFiniteSet(added.segs)
    <3>1. /\ frm \in Frame /\ ~frm.done /\ RecordOK(frm, src) /\ src \in Nat
          /\ \A prev \in frm.segs : ~IsDup(seg, prev)
      BY <1>2, <1>4
    <3> QED
      BY <3>1, FecAdded
  <2> HIDE DEF added
  <2>2. Cardinality(added.segs) \in Nat /\ Cardinality(added.segs) # 0
    BY <2>1, FS_CardinalityType, FS_EmptySet
  <2> QED
    BY <2>1, <2>2
<1>5. frames' = [frames EXCEPT ![iden] = [Queues(iden) EXCEPT ![st] = Inserted(q, fid, added)]]
         => /\ frames'[iden][st] = Inserted(q, fid, added)
            /\ fid \in DOMAIN frames'[iden][st] /\ frames'[iden][st][fid] = added
  <2>1. iden \in DOMAIN frames /\ st \in DOMAIN Queues(iden)
    BY <1>1, QueuesRemember DEF QueuesInv, QueuesTypeOK
  <2>2. /\ fid \in DOMAIN Inserted(q, fid, added)
        /\ Inserted(q, fid, added)[fid] = added
    BY DEF Inserted
  <2> HIDE DEF q, added
  <2> QED
    BY <2>1, <2>2
<1> HIDE DEF q, src, base, frm, added, l, dup
<1>6. CASE \/ base.done /\ live' = l /\ Drop("duplicate")
           \/ ~base.done /\ dup /\ live' = l /\ Drop("duplicate segment")
  BY <1>3, <1>6, NothingCollected
<1>7. CASE /\ ~base.done /\ ~dup
           /\ Commit(iden, st, Inserted(q, fid, added))
           /\ live' = [l EXCEPT !.segs = @ + 1] /\ Drop("segment")
  <2>1. live'["segs"] = l["segs"] + 1 /\ l["segs"] \in Int
    BY <1>3, <1>7 DEF Pools
  <2>2. live'["segs"] # 0
    <3>1. \A i \in Identities, s \in Streams :
             QueueOK(frames'[i][s]) /\ RecordsOK(s, frames'[i][s])
      BY DEF Inv, IInv, QueuesInv, QueuesTypeOK, RecordsHold
    <3>2. fid \in DOMAIN frames'[iden][st] /\ seg \in frames'[iden][st][fid].segs
      BY <1>4, <1>5, <1>7 DEF Commit
    <3> QED
      BY <1>3, <3>1, <3>2, KeptCounts
  <2>3. KindOf(outcome') = "segment" /\ Cardinality(outcome'.segs) = 0
    BY <1>7, FS_EmptySet DEF Drop, Did, KindOf
  <2> QED
    BY <1>3, <2>1, <2>2, <2>3 DEF Collects, BringsSegment, Completing
<1>8. CASE /\ ~base.done /\ ~dup
           /\ live' = [l EXCEPT !.segs = @ + 1 - Cardinality(added.segs)]
           /\ Deliver(iden, st, fid, added.segs)
  <2>1. live'["segs"] = l["segs"] + 1 - Cardinality(added.segs) /\ l["segs"] \in Int
    BY <1>3, <1>8 DEF Pools
  <2>2. outcome'.what = "delivered" /\ outcome'.src = src /\ outcome'.segs = added.segs
    BY <1>8 DEF Deliver, Did, src
  <2>3. KindOf(outcome') = "decode"
    BY <1>2, <2>2 DEF KindOf
  <2> QED
    BY <1>3, <1>4, <1>8, <2>1, <2>2, <2>3 DEF Collects, BringsSegment, Completing
<1> QED
  BY <1>1, <1>6, <1>7, <1>8

(* Every step does what FrameCollector says.                               *)
LEMMA StepCollects ==
    Inv /\ Inv' /\ [Next]_vars
      => [IF running'
          THEN Collects(KindOf(outcome'), live.segs, live'.segs, Cardinality(outcome'.segs))
          ELSE live'.segs = 0]_vars
<1> SUFFICES ASSUME Inv, Inv', Next
             PROVE  IF running'
                    THEN Collects(KindOf(outcome'), live.segs, live'.segs,
                                  Cardinality(outcome'.segs))
                    ELSE live'.segs = 0
  OBVIOUS
<1>0. /\ SizesInv /\ QueuesInv
      /\ live["segs"] \in Nat /\ live'["segs"] \in Nat
  BY DEF Inv, IInv, SizesInv, IsExact, Pools
<1>1. ASSUME NEW iden \in Identities, NEW st \in Streams, NEW fid \in Ids,
             HandleQPacket(iden, st, fid)
      PROVE  /\ running'
             /\ Collects(KindOf(outcome'), live.segs, live'.segs, Cardinality(outcome'.segs))
  <2>1. running /\ running'
    BY <1>1 DEF HandleQPacket, HandleTooLate, HandleSliceNonFecPayload,
                HandleSliceFecSegment, Commit
  <2>2. CASE HandleTooLate(iden, st, fid)
    <3>1. live' = LiveBefore(iden, st) /\ Drop("too late")
      BY <2>2 DEF HandleTooLate
    <3>2. live'["segs"] <= live["segs"]
      BY <1>0, <2>1, <3>1, SegmentsFreed
    <3> QED
      BY <1>0, <2>1, <3>1, <3>2, NothingCollected
  <2>3. CASE HandleSliceNonFecPayload(iden, st, fid)
    <3>1. /\ ~IsCoded(st, fid) /\ live' = LiveAfterInsert(iden, st, fid)
          /\ Deliver(iden, st, fid, {}) \/ Drop("duplicate")
      BY <2>3 DEF HandleSliceNonFecPayload
    <3>2. live'["segs"] <= live["segs"]
      BY <1>0, <2>1, <3>1, SegmentsFreed
    <3>3. SrcOf(st, fid) = 0
      BY <3>1, SrcType
    <3>4. Deliver(iden, st, fid, {})
            => /\ outcome'.what = "delivered" /\ outcome'.src = 0
               /\ outcome'.segs = {}
      BY <3>3 DEF Deliver, Did
    <3> QED
      BY <1>0, <2>1, <3>1, <3>2, <3>4, NothingCollected
  <2>4. ASSUME NEW seg \in Segments, HandleSliceFecSegment(iden, st, fid, seg)
        PROVE  Collects(KindOf(outcome'), live.segs, live'.segs, Cardinality(outcome'.segs))
    BY <2>1, <2>4, FecCollects
  <2> QED
    BY <1>1, <2>1, <2>2, <2>3, <2>4 DEF HandleQPacket
<1>2. CASE running /\ Tick
  <2>1. running' /\ live' = live /\ Drop("none")
    BY <1>2 DEF Tick
  <2> QED
    BY <1>0, <2>1, NothingCollected
<1>3. CASE Destroy
  <2> DEFINE n == Cardinality(Stored("segs", frames))
  <2>1. ~running' /\ live["segs"] = n /\ live'["segs"] = live["segs"] - n
    BY <1>3 DEF Destroy, Inv, IsExact, Pools
  <2> HIDE DEF n
  <2> QED
    BY <1>0, <2>1
<1> QED
  BY <1>1, <1>2, <1>3 DEF Next

(* A StreamRecver is the collector StmAssembler is composed with: it hands *)
(* over segments with the frame they complete and not otherwise, keeps the *)
(* one that came, loses none, and leaves none at its end.                  *)
THEOREM StreamRecverCollects == Spec => CollectsAsPromised
BY SizesHold, StepCollects, PTL DEF Spec, CollectsAsPromised
=============================================================================
