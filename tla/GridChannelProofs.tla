------------------------- MODULE GridChannelProofs -------------------------
(***************************************************************************)
(* Proofs about what the grid thread runs, for any number of ids, rooms    *)
(* and kinds of streams, any time-outs and any bounds: the map of sessions *)
(* (GridChannel) and the end of one of them (SessionEnd).                  *)
(***************************************************************************)
EXTENDS GridChannel, SessionEnd, FiniteSetTheorems, TLAPS

Inv == TypeOK /\ RoomsCounted

(* The sessions of the map are finitely many.                              *)
LEMMA LiveFinite == IsFiniteSet(Live) /\ Cardinality(Live) \in Nat
<1>1. Live \subseteq Places
  BY DEF Live
<1> QED
  BY <1>1, ChannelAssumption, FS_Subset, FS_CardinalityType

(* A search ends at a session, at an entry without one, or nowhere.        *)
LEMMA SearchFinds ==
    ASSUME NEW s \in Ids, NEW found \in Search(s)
    PROVE  /\ found \in Live \cup {Missing, Stray}
           /\ found = Stray => strays > 0
<1>1. Own(s) \subseteq Live /\ Live \subseteq Places
  BY DEF Own, Live
<1>2. Stray \notin Places /\ Missing # Stray
  BY ChannelAssumption
<1> QED
  BY <1>1, <1>2 DEF Search

(* A session at a place that was empty is one session more.                *)
LEMMA OneMore ==
    ASSUME NEW s \in Ids, NEW k, TypeOK, Live # Places, NewAt(s, EmptyPlace, k)
    PROVE  EmptyPlace \in Places /\ Cardinality(Live') = Cardinality(Live) + 1
<1>1. \E p \in Places : id[p] = NoId
  BY DEF Live
<1>2. EmptyPlace \in Places /\ id[EmptyPlace] = NoId
  BY <1>1 DEF EmptyPlace
<1>3. s # NoId
  BY ChannelAssumption
<1>4. id' = [id EXCEPT ![EmptyPlace] = s]
  BY DEF NewAt
<1>5. Live' = Live \cup {EmptyPlace} /\ EmptyPlace \notin Live
  BY <1>2, <1>3, <1>4 DEF Live, TypeOK
<1> QED
  BY <1>2, <1>5, LiveFinite, FS_AddElement

(* A session in place of another is as many.                               *)
LEMMA AsMany ==
    ASSUME NEW s \in Ids, NEW k, TypeOK, NEW p \in Live, NewAt(s, p, k)
    PROVE  Live' = Live
<1>1. s # NoId /\ p \in Places
  BY ChannelAssumption DEF Live
<1>2. id' = [id EXCEPT ![p] = s]
  BY DEF NewAt
<1> QED
  BY <1>1, <1>2 DEF Live, TypeOK

(* And one that ends is one less.                                          *)
LEMMA OneLess ==
    ASSUME TypeOK, NEW p \in Live, Ends(p)
    PROVE  Cardinality(Live') = Cardinality(Live) - 1
<1>1. p \in Places
  BY DEF Live
<1>2. id' = [id EXCEPT ![p] = NoId]
  BY DEF Ends
<1>3. Live' = Live \ {p}
  BY <1>1, <1>2 DEF Live, TypeOK
<1> QED
  BY <1>3, LiveFinite, FS_RemoveElement

-----------------------------------------------------------------------------
(* The invariant holds initially.                                          *)
LEMMA InitInv == Init => Inv
<1> SUFFICES ASSUME Init PROVE Inv
  OBVIOUS
<1>1. Live = {}
  BY DEF Init, Live
<1>2. Cardinality(Live) = 0
  BY <1>1, FS_EmptySet
<1>3. TypeOK
  <2>1. waited \in BOOLEAN
    BY DEF Init
  <2> QED
    BY <2>1, ChannelAssumption DEF Init, TypeOK
<1> QED
  BY <1>2, <1>3, ChannelAssumption DEF Init, Inv, RoomsCounted

(* What keeps the map and the rooms keeps the count.                       *)
LEMMA SameRooms == RoomsCounted /\ UNCHANGED <<id, rooms>> => RoomsCounted'
BY DEF RoomsCounted, rooms, Live

(* A new session stored at p.                                              *)
LEMMA NewAtType ==
    ASSUME TypeOK, NEW s \in Ids, NEW p \in Places, NEW k \in {"own", "dangling"}, NewAt(s, p, k)
    PROVE  /\ id' \in [Places -> Ids \cup {NoId}]
           /\ key' \in [Places -> {"own", "dangling"}]
           /\ age' \in [Places -> 0..(Timeout + 1)]
           /\ unheard' \in [Places -> 0..(Lease + 1)]
BY ChannelAssumption DEF TypeOK, NewAt

(* A join is refused because the rooms are in use.                         *)
LEMMA JoinFailsInv == ASSUME NEW s \in Ids PROVE Inv /\ JoinFails(s) => Inv'
<1> SUFFICES ASSUME Inv, JoinFails(s) PROVE Inv'
  OBVIOUS
<1>1. /\ UNCHANGED <<sessions, strays, lost, conn, thread>>
      /\ cur' = cur + 1 /\ refused' = refused + 1
  BY DEF JoinFails
<1>2. TypeOK'
  BY <1>1 DEF Inv, TypeOK, sessions, thread
<1>3. Live' = Live
  BY <1>1 DEF Live, sessions
<1> QED
  BY <1>1, <1>2, <1>3, LiveFinite DEF Inv, RoomsCounted, TypeOK

(* A join opens a room.                                                    *)
LEMMA JoinNewInv == ASSUME NEW s \in Ids PROVE Inv /\ JoinNew(s) => Inv'
<1> SUFFICES ASSUME Inv, JoinNew(s) PROVE Inv'
  OBVIOUS
<1> USE DEF Inv
<1>1. /\ UNCHANGED <<refused, conn, thread>> /\ cur' = cur + 1 /\ cur <= MaxRoom
      /\ StoreNew(s)
  BY DEF JoinNew, HasRoom
<1>2. PICK found \in Search(s) :
         \/ /\ found = Missing /\ Live # Places
            /\ NewAt(s, EmptyPlace, "own")
            /\ UNCHANGED <<strays, lost>>
         \/ /\ found = Stray /\ Live # Places
            /\ NewAt(s, EmptyPlace, "dangling")
            /\ strays' = strays - 1
            /\ UNCHANGED lost
         \/ /\ found \in Live
            /\ NewAt(s, found, key[found])
            /\ lost < MaxLost /\ lost' = lost + 1
            /\ UNCHANGED strays
  BY <1>1 DEF StoreNew
<1>3. /\ \E p \in Places, k \in {"own", "dangling"} : NewAt(s, p, k)
      /\ strays' \in Nat /\ lost' \in Nat
      /\ Cardinality(Live') + lost' = Cardinality(Live) + lost + 1
  <2>1. CASE found = Missing /\ Live # Places /\ NewAt(s, EmptyPlace, "own")
               /\ UNCHANGED <<strays, lost>>
    <3>1. EmptyPlace \in Places /\ Cardinality(Live') = Cardinality(Live) + 1
      BY <2>1, OneMore
    <3> QED
      BY <2>1, <3>1, LiveFinite DEF TypeOK
  <2>2. CASE found = Stray /\ Live # Places /\ NewAt(s, EmptyPlace, "dangling")
               /\ strays' = strays - 1 /\ UNCHANGED lost
    <3>1. EmptyPlace \in Places /\ Cardinality(Live') = Cardinality(Live) + 1
      BY <2>2, OneMore
    <3>2. strays > 0
      BY <2>2, SearchFinds
    <3> QED
      BY <2>2, <3>1, <3>2, LiveFinite DEF TypeOK
  <2>3. CASE found \in Live /\ NewAt(s, found, key[found]) /\ lost' = lost + 1
               /\ UNCHANGED strays
    <3>1. Live' = Live /\ found \in Places /\ key[found] \in {"own", "dangling"}
      BY <2>3, AsMany DEF Live, TypeOK
    <3> QED
      BY <2>3, <3>1, LiveFinite DEF TypeOK
  <2> QED
    BY <1>2, <2>1, <2>2, <2>3
<1>4. TypeOK'
  BY <1>1, <1>3, NewAtType DEF TypeOK, thread
<1>5. Cardinality(Live') \in Nat
  <2>1. Live' \subseteq Places
    BY DEF Live
  <2> QED
    BY <2>1, ChannelAssumption, FS_Subset, FS_CardinalityType
<1> QED
  BY <1>1, <1>3, <1>4, <1>5, LiveFinite, ChannelAssumption DEF RoomsCounted, TypeOK

(* A session is heard of.                                                  *)
LEMMA HeardInv ==
    Inv /\ ((\E s \in Ids : JoinExisting(s)) \/ (\E p \in Places : Heard(p))) => Inv'
<1> SUFFICES ASSUME Inv, (\E s \in Ids : JoinExisting(s)) \/ (\E p \in Places : Heard(p))
             PROVE  Inv'
  OBVIOUS
<1>1. /\ \E p \in Places : age' = [age EXCEPT ![p] = 0]
      /\ UNCHANGED <<id, key, unheard, strays, rooms, conn, thread>>
  BY DEF JoinExisting, Heard
<1>2. TypeOK'
  BY <1>1, ChannelAssumption DEF Inv, TypeOK, rooms, thread
<1> QED
  BY <1>1, <1>2, SameRooms DEF Inv

(* The sessions that timed out end.                                        *)
LEMMA DestoryInv == Inv /\ DestoryOldSession => Inv'
<1> SUFFICES ASSUME Inv, DestoryOldSession PROVE Inv'
  OBVIOUS
<1> USE DEF Inv
<1>1. /\ UNCHANGED <<strays, refused, lost, conn, len, sincePre, waited>> /\ pc' = "announce"
  BY DEF DestoryOldSession
<1>2. CASE UNCHANGED <<sessions, cur>>
  <2>1. TypeOK'
    BY <1>1, <1>2 DEF TypeOK, sessions
  <2> QED
    BY <1>1, <1>2, <2>1, SameRooms DEF sessions, rooms
<1>3. CASE \E p \in Places : TimedOut(p) /\ Ends(p)
  <2>1. PICK p \in Places : TimedOut(p) /\ Ends(p)
    BY <1>3
  <2>2. p \in Live
    BY <2>1 DEF TimedOut
  <2>3. Cardinality(Live') = Cardinality(Live) - 1 /\ cur' = cur - 1
    BY <2>1, <2>2, OneLess DEF Ends
  <2>4. Cardinality(Live) # 0
    BY <2>2, LiveFinite, FS_EmptySet
  <2>5. RoomsCounted' /\ cur' \in Nat
    BY <1>1, <2>3, <2>4, LiveFinite, ChannelAssumption DEF RoomsCounted, TypeOK
  <2>6. /\ id' \in [Places -> Ids \cup {NoId}]
        /\ key' \in [Places -> {"own", "dangling"}]
        /\ age' \in [Places -> 0..(Timeout + 1)]
        /\ unheard' \in [Places -> 0..(Lease + 1)]
    BY <2>1, ChannelAssumption DEF Ends, TypeOK
  <2>7. TypeOK'
    BY <1>1, <2>5, <2>6 DEF TypeOK
  <2> QED
    BY <2>5, <2>7
<1> QED
  BY <1>2, <1>3 DEF DestoryOldSession

(* The sessions are announced.                                             *)
LEMMA AnnounceInv == Inv /\ SendBeanInSession => Inv'
<1> SUFFICES ASSUME Inv, SendBeanInSession PROVE Inv'
  OBVIOUS
<1>1. UNCHANGED <<id, key, age, strays, rooms, conn>> /\ pc' = "recv" /\ waited' = FALSE
  BY DEF SendBeanInSession
<1>2. unheard' \in [Places -> 0..(Lease + 1)]
  BY ChannelAssumption DEF SendBeanInSession, Inv, TypeOK
<1>3. len' \in Nat /\ sincePre' \in 0..(Period + 1)
  BY LiveFinite, ChannelAssumption DEF SendBeanInSession, Inv, TypeOK
<1>4. TypeOK'
  BY <1>1, <1>2, <1>3 DEF Inv, TypeOK, rooms
<1> QED
  BY <1>1, <1>4, SameRooms DEF Inv

(* The grid thread reads its connection, or makes a new one.               *)
LEMMA RecvInv ==
    Inv /\ (RecvNothing \/ RecvFails \/ Reconnect \/ Close
              \/ \E s \in Ids : ProcessRecvPacket(s)) => Inv'
<1> SUFFICES ASSUME Inv, \/ RecvNothing \/ RecvFails \/ Reconnect \/ Close
                         \/ \E s \in Ids : ProcessRecvPacket(s)
             PROVE  Inv'
  OBVIOUS
<1>1. /\ UNCHANGED <<id, key, age, rooms, len, sincePre, waited>>
      /\ pc' \in {"destroy", "reconnect", pc} /\ conn' \in {"up", "closed", conn}
  BY DEF RecvNothing, RecvFails, Reconnect, Close, ProcessRecvPacket, sessions, thread
<1>2. unheard' \in [Places -> 0..(Lease + 1)]
  BY ChannelAssumption
  DEF RecvNothing, RecvFails, Reconnect, Close, ProcessRecvPacket, sessions, Inv, TypeOK
<1>3. strays' \in Nat
  BY DEF RecvNothing, RecvFails, Reconnect, Close, ProcessRecvPacket, Inv, TypeOK
<1>4. TypeOK'
  BY <1>1, <1>2, <1>3 DEF Inv, TypeOK, rooms
<1> QED
  BY <1>1, <1>4, SameRooms DEF Inv

(* Time passes.                                                            *)
LEMMA TickInv == Inv /\ Tick => Inv'
<1> SUFFICES ASSUME Inv, Tick PROVE Inv'
  OBVIOUS
<1>1. UNCHANGED <<id, key, strays, rooms, conn, pc, len>> /\ waited' = TRUE
  BY DEF Tick
<1>2. /\ age' \in [Places -> 0..(Timeout + 1)]
      /\ unheard' \in [Places -> 0..(Lease + 1)]
      /\ sincePre' \in 0..(Period + 1)
  BY ChannelAssumption DEF Tick, Later, Inv, TypeOK
<1>3. TypeOK'
  BY <1>1, <1>2 DEF Inv, TypeOK, rooms
<1> QED
  BY <1>1, <1>3, SameRooms DEF Inv

(* Every step keeps the invariant.                                         *)
LEMMA NextInv == Inv /\ [Next]_vars => Inv'
<1> SUFFICES ASSUME Inv, [Next]_vars PROVE Inv'
  OBVIOUS
<1>1. CASE UNCHANGED vars
  <2>1. TypeOK'
    BY <1>1 DEF vars, sessions, rooms, thread, Inv, TypeOK
  <2> QED
    BY <1>1, <2>1, SameRooms DEF vars, sessions, Inv
<1>2. CASE Next
  BY <1>2, JoinFailsInv, JoinNewInv, HeardInv, DestoryInv, AnnounceInv, RecvInv, TickInv
  DEF Next, InsertUserJoinMsg, GridThread
<1> QED
  BY <1>1, <1>2

(* The invariant of the map holds in every reachable state.                *)
LEMMA InvHolds == Spec => []Inv
BY InitInv, NextInv, PTL DEF Spec

(* Types, whatever the map's searches find.                                *)
THEOREM TypeHolds == Spec => []TypeOK
<1>1. Inv => TypeOK
  BY DEF Inv
<1> QED
  BY <1>1, InvHolds, PTL

(* Every room counted is a session alive or a join that made none, and     *)
(* the sessions are never more than one too many.                          *)
THEOREM RoomsStayCounted == Spec => []RoomsCounted
<1>1. Inv => RoomsCounted
  BY DEF Inv
<1> QED
  BY <1>1, InvHolds, PTL
-----------------------------------------------------------------------------
(* Only JoinNew stores a session.                                          *)
LEMMA OnlyJoinNew ==
    ASSUME TypeOK, Next, \A s \in Ids : ~JoinNew(s)
    PROVE  lost' = lost /\ \A p \in Places : id'[p] \in {id[p], NoId}
<1>1. CASE DestoryOldSession
  BY <1>1 DEF DestoryOldSession, Ends, sessions, TypeOK
<1>2. CASE ~DestoryOldSession
  <2>1. UNCHANGED <<id, lost>>
    BY <1>2
    DEF Next, InsertUserJoinMsg, JoinExisting, JoinFails, Heard, GridThread, SendBeanInSession,
        RecvNothing, RecvFails, Reconnect, ProcessRecvPacket, Close, Tick, sessions, rooms
  <2> QED
    BY <2>1
<1> QED
  BY <1>1, <1>2

(* While every key is the session's own, a search misses no session.       *)
LEMMA MissesNone ==
    ASSUME TypeOK, ~Dangling, NEW s \in Ids, JoinNew(s)
    PROVE  /\ \A q \in Live : id[q] # s
           /\ lost' = lost
           /\ id' = [id EXCEPT ![EmptyPlace] = s]
<1>1. Search(s) \cap {Missing, Stray} # {} /\ StoreNew(s)
  BY DEF JoinNew
<1>2. Own(s) \subseteq Live /\ Live \subseteq Places
  BY DEF Own, Live
<1>3. Own(s) = {} /\ Search(s) = {Missing}
  BY <1>1, <1>2, ChannelAssumption DEF Search
<1>4. \A q \in Live : key[q] = "own"
  BY <1>2 DEF Dangling, TypeOK
<1>5. Missing \notin Live
  BY <1>2, ChannelAssumption
<1>6. NewAt(s, EmptyPlace, "own") /\ lost' = lost
  <2>1. \A found \in Search(s) : found # Stray /\ found \notin Live
    BY <1>3, <1>5, ChannelAssumption
  <2> QED
    BY <1>1, <2>1 DEF StoreNew
<1> QED
  BY <1>3, <1>4, <1>6 DEF Own, NewAt

(* A session is lost or made twice only while a key dangles.               *)
THEOREM MapSplitsOnlyByStray == Spec => SplitOnlyByStray
<1> DEFINE Split == (\E p \in Places : Second(p)) \/ lost' # lost
<1>1. Inv /\ [Next]_vars => [Split => Dangling]_vars
  <2> SUFFICES ASSUME TypeOK, Next, Split, ~Dangling PROVE FALSE
    BY Zenon DEF Inv
  <2>1. CASE \A s \in Ids : ~JoinNew(s)
    BY <2>1, OnlyJoinNew DEF Second
  <2>2. CASE \E s \in Ids : JoinNew(s)
    <3>1. PICK s \in Ids : JoinNew(s)
      BY <2>2
    <3>2. /\ \A q \in Live : id[q] # s
          /\ lost' = lost
          /\ id' = [id EXCEPT ![EmptyPlace] = s]
      BY <3>1, MissesNone
    <3>3. PICK p \in Places : Second(p)
      BY <3>2
    <3>4. id'[p] = s
      BY <3>2, <3>3 DEF Second, TypeOK
    <3> QED
      BY <3>2, <3>3, <3>4 DEF Second
  <2> QED
    BY <2>1, <2>2
<1> QED
  BY <1>1, InvHolds, PTL DEF Spec, SplitOnlyByStray
-----------------------------------------------------------------------------
(* What the grid server has not heard of since, has happened since the     *)
(* last announcement; and that is due in the pass after Period is over.    *)
HeardSince ==
    \A p \in Live : conn = "up" /\ key[p] = "own" => unheard[p] <= sincePre

SoonDue == pc \in {"recv", "reconnect"} /\ ~waited => sincePre <= Period

TimeInv == Inv /\ HeardSince /\ SoonDue

(* The ages are within their limits initially.                             *)
LEMMA InitTimeInv == Init => TimeInv
BY InitInv DEF Init, TimeInv, HeardSince, SoonDue, Live

(* A join makes the session of age zero, or changes no age.                *)
LEMMA JoinTimeInv ==
    ASSUME NEW s \in Ids PROVE TimeInv /\ InsertUserJoinMsg(s) => HeardSince' /\ SoonDue'
<1> SUFFICES ASSUME TimeInv, InsertUserJoinMsg(s) PROVE HeardSince' /\ SoonDue'
  OBVIOUS
<1>1. UNCHANGED <<conn, thread>>
  BY DEF InsertUserJoinMsg, JoinExisting, JoinFails, JoinNew
<1>2. SoonDue'
  BY <1>1 DEF TimeInv, SoonDue, thread
<1>3. CASE JoinExisting(s) \/ JoinFails(s)
  <2>1. UNCHANGED <<id, key, unheard>>
    BY <1>3 DEF JoinExisting, JoinFails, sessions
  <2> QED
    BY <1>1, <1>2, <2>1 DEF TimeInv, HeardSince, Live, thread
<1>4. CASE JoinNew(s)
  <2>1. \E p \in Places, k \in {"own", "dangling"} : NewAt(s, p, k)
    <3>1. \/ Live # Places /\ \E k \in {"own", "dangling"} : NewAt(s, EmptyPlace, k)
          \/ \E found \in Live : NewAt(s, found, key[found])
      BY <1>4 DEF JoinNew, StoreNew
    <3>2. CASE Live # Places /\ \E k \in {"own", "dangling"} : NewAt(s, EmptyPlace, k)
      <4>1. EmptyPlace \in Places
        BY <3>2, OneMore DEF TimeInv, Inv
      <4> QED
        BY <3>2, <4>1
    <3>3. CASE \E found \in Live : NewAt(s, found, key[found])
      BY <3>3 DEF Live, TimeInv, Inv, TypeOK
    <3> QED
      BY <3>1, <3>2, <3>3
  <2>2. PICK p \in Places, k \in {"own", "dangling"} : NewAt(s, p, k)
    BY <2>1
  <2>3. /\ id' = [id EXCEPT ![p] = s] /\ key' = [key EXCEPT ![p] = k]
        /\ unheard' = [unheard EXCEPT ![p] = 0]
    BY <2>2 DEF NewAt
  <2> SUFFICES ASSUME NEW q \in Live', conn' = "up", key'[q] = "own"
               PROVE  unheard'[q] <= sincePre'
    BY <1>2 DEF HeardSince
  <2>4. sincePre' = sincePre /\ sincePre \in Nat /\ q \in Places
    BY <1>1, ChannelAssumption DEF thread, Live, TimeInv, Inv, TypeOK
  <2>5. CASE q = p
    BY <2>3, <2>4, <2>5 DEF TimeInv, Inv, TypeOK
  <2>6. CASE q # p
    <3>1. q \in Live /\ key[q] = "own" /\ unheard'[q] = unheard[q] /\ conn = "up"
      BY <1>1, <2>3, <2>4, <2>6 DEF Live, TimeInv, Inv, TypeOK
    <3> QED
      BY <2>4, <3>1 DEF TimeInv, HeardSince
  <2> QED
    BY <2>5, <2>6
<1> QED
  BY <1>3, <1>4 DEF InsertUserJoinMsg

(* The sessions left when others end are as old as before.                 *)
LEMMA DestoryTimeInv == TimeInv /\ DestoryOldSession => HeardSince' /\ SoonDue'
<1> SUFFICES ASSUME TimeInv, DestoryOldSession PROVE HeardSince' /\ SoonDue'
  OBVIOUS
<1>1. UNCHANGED <<conn, sincePre, waited>> /\ pc' = "announce"
  BY DEF DestoryOldSession
<1>2. CASE UNCHANGED <<sessions, cur>>
  BY <1>1, <1>2 DEF sessions, TimeInv, HeardSince, SoonDue, Live
<1>3. CASE \E p \in Places : TimedOut(p) /\ Ends(p)
  <2>1. PICK p \in Places : Ends(p)
    BY <1>3
  <2>2. \A q \in Live' : q \in Live /\ key'[q] = key[q] /\ unheard'[q] = unheard[q]
    BY <2>1 DEF Ends, Live, TimeInv, Inv, TypeOK
  <2> QED
    BY <1>1, <2>2 DEF TimeInv, HeardSince, SoonDue
<1> QED
  BY <1>2, <1>3 DEF DestoryOldSession

(* An announcement that is due is of every session; else nothing changes.  *)
LEMMA AnnounceTimeInv == TimeInv /\ SendBeanInSession => HeardSince' /\ SoonDue'
<1> SUFFICES ASSUME TimeInv, SendBeanInSession PROVE HeardSince' /\ SoonDue'
  OBVIOUS
<1>1. UNCHANGED <<id, key, conn>> /\ pc' = "recv" /\ waited' = FALSE /\ Live' = Live
  BY DEF SendBeanInSession, Live
<1>2. CASE Due
  <2>1. sincePre' = 0 /\ \A p \in Live : conn = "up" /\ key[p] = "own" => unheard'[p] = 0
    BY <1>2 DEF SendBeanInSession, Live
  <2> QED
    BY <1>1, <2>1, ChannelAssumption DEF HeardSince, SoonDue
<1>3. CASE ~Due
  <2>1. UNCHANGED <<unheard, sincePre>> /\ sincePre <= Period
    BY <1>3, ChannelAssumption DEF SendBeanInSession, Due, TimeInv, Inv, TypeOK
  <2> QED
    BY <1>1, <2>1 DEF TimeInv, HeardSince, SoonDue
<1> QED
  BY <1>2, <1>3

(* What is read from the connection makes no session older.                *)
LEMMA RecvTimeInv ==
    ASSUME TimeInv,
           \/ RecvNothing \/ RecvFails \/ Reconnect \/ Close
           \/ \E s \in Ids : ProcessRecvPacket(s)
           \/ \E p \in Places : Heard(p)
    PROVE  HeardSince' /\ SoonDue'
<1>1. UNCHANGED <<id, key, sincePre, waited>> /\ Live' = Live
  BY DEF RecvNothing, RecvFails, Reconnect, Close, ProcessRecvPacket, Heard, sessions, thread, Live
<1>2. \/ conn' \in {conn, "closed"} /\ unheard' = unheard
      \/ \A p \in Places : unheard'[p] = 0
  BY DEF RecvNothing, RecvFails, Reconnect, Close, ProcessRecvPacket, Heard, sessions
<1>3. HeardSince'
  BY <1>1, <1>2, ChannelAssumption DEF TimeInv, HeardSince, Inv, TypeOK, Live
<1>4. pc' \in {pc, "destroy"} \/ (pc = "recv" /\ pc' = "reconnect")
  BY DEF RecvNothing, RecvFails, Reconnect, Close, ProcessRecvPacket, Heard, thread
<1> QED
  BY <1>1, <1>3, <1>4 DEF TimeInv, SoonDue

(* A loop pass takes at most one unit of time.                             *)
LEMMA TickTimeInv == TimeInv /\ Tick => HeardSince' /\ SoonDue'
<1> SUFFICES ASSUME TimeInv, Tick PROVE HeardSince' /\ SoonDue'
  OBVIOUS
<1>1. /\ UNCHANGED <<id, key, conn>> /\ waited' = TRUE /\ Live' = Live
      /\ pc \in {"recv", "reconnect"} /\ ~waited
  BY DEF Tick, Live
<1>2. sincePre <= Period /\ sincePre' = sincePre + 1 /\ sincePre \in Nat
  BY <1>1, ChannelAssumption DEF Tick, Later, TimeInv, SoonDue, Inv, TypeOK
<1>3. \A p \in Live : unheard[p] \in Nat /\ unheard'[p] <= unheard[p] + 1
  BY ChannelAssumption DEF Tick, Later, Live, TimeInv, Inv, TypeOK
<1>4. SoonDue'
  BY <1>1 DEF SoonDue
<1>5. HeardSince'
  <2> SUFFICES ASSUME NEW p \in Live, conn = "up", key[p] = "own" PROVE unheard'[p] <= sincePre'
    BY <1>1 DEF HeardSince
  <2>1. unheard[p] <= sincePre
    BY DEF TimeInv, HeardSince
  <2>2. unheard'[p] \in Nat
    BY ChannelAssumption DEF Tick, Later, Live, TimeInv, Inv, TypeOK
  <2> QED
    BY <1>2, <1>3, <2>1, <2>2
<1> QED
  BY <1>4, <1>5

(* Every step keeps the ages within their limits.                          *)
LEMMA NextTimeInv == TimeInv /\ [Next]_vars => TimeInv'
<1> SUFFICES ASSUME TimeInv, [Next]_vars PROVE TimeInv'
  OBVIOUS
<1>1. Inv'
  BY NextInv DEF TimeInv
<1>2. CASE UNCHANGED vars
  BY <1>1, <1>2 DEF vars, sessions, thread, TimeInv, HeardSince, SoonDue, Live
<1>3. CASE Next
  BY <1>1, <1>3, JoinTimeInv, DestoryTimeInv, AnnounceTimeInv, RecvTimeInv, TickTimeInv
  DEF Next, GridThread, TimeInv
<1> QED
  BY <1>2, <1>3

(* An announcement is repeated before it lapses, when it is good for more  *)
(* than the time between two.                                              *)
THEOREM AnnouncedBeforeItLapses == Spec => []HeardInTime
<1>1. TimeInv => HeardInTime
  BY ChannelAssumption DEF TimeInv, HeardSince, HeardInTime, Inv, TypeOK, Live
<1>2. Spec => []TimeInv
  BY InitTimeInv, NextTimeInv, PTL DEF Spec
<1> QED
  BY <1>1, <1>2, PTL
-----------------------------------------------------------------------------
(* The end of a session, which the grid thread runs when the session is    *)
(* timed out.                                                              *)

DeleteSession == <<"delete", <<"session">> >>

(* A part of a program.                                                    *)
Tame(s) ==
    /\ s \in Seq(Commands)
    /\ \A i \in 1 .. Len(s) :
          /\ s[i][1] = "cancel" => i > 1 /\ s[i - 1] = <<"flag", s[i][2]>>
          /\ s[i] # DeleteSession

(* Cancelling follows the flag at once; deleting the session is last.      *)
FlagBeforeCancel ==
    \A i \in 1 .. Len(todo) :
        todo[i][1] = "cancel" =>
            IF i = 1 THEN todo[i][2] \in flag ELSE todo[i - 1] = <<"flag", todo[i][2]>>
DeleteAfterSpin ==
    \A i \in 1 .. Len(todo) :
        todo[i] = DeleteSession =>
            i = Len(todo) /\ (IF i = 1 THEN reg = "out" ELSE todo[i - 1] = <<"spin", <<>> >>)

(* The recver thread is out of the session before it is deleted, which is  *)
(* the last command.                                                       *)
RecverGone ==
    /\ reg = "out" => rec = <<>>
    /\ "session" \in freed => todo = <<>> /\ reg = "out"

EndInv ==
    /\ EndTypeOK /\ at \in [Workers -> MixPlaces \cup DecPlaces]
    /\ FlagBeforeCancel /\ DeleteAfterSpin /\ RecverGone

(* Parts of a program make a program.                                      *)
LEMMA TameConcat == ASSUME NEW s, NEW t, Tame(s), Tame(t) PROVE Tame(s \o t)
<1> DEFINE u == s \o t
<1>1. /\ u \in Seq(Commands) /\ Len(u) = Len(s) + Len(t)
      /\ Len(s) \in Nat /\ Len(t) \in Nat
      /\ \A i \in 1 .. Len(s) : u[i] = s[i]
      /\ \A i \in 1 .. Len(t) : u[Len(s) + i] = t[i]
  BY DEF Tame
<1> HIDE DEF u
<1>2. ASSUME NEW i \in 1 .. Len(u)
      PROVE  /\ u[i][1] = "cancel" => i > 1 /\ u[i - 1] = <<"flag", u[i][2]>>
             /\ u[i] # DeleteSession
  <2>1. CASE i <= Len(s)
    <3>1. i \in 1 .. Len(s) /\ u[i] = s[i] /\ (i > 1 => u[i - 1] = s[i - 1])
      BY <1>1, <2>1
    <3> QED
      BY <3>1 DEF Tame
  <2>2. CASE i > Len(s)
    <3> DEFINE j == i - Len(s)
    <3>1. j \in 1 .. Len(t) /\ i = Len(s) + j /\ (j > 1 => i - 1 = Len(s) + (j - 1))
      BY <1>1, <2>2
    <3>2. u[i] = t[j] /\ (j > 1 => u[i - 1] = t[j - 1])
      <4>1. j > 1 => j - 1 \in 1 .. Len(t)
        BY <3>1, <1>1
      <4> HIDE DEF j
      <4> QED
        BY <1>1, <3>1, <4>1
    <3> HIDE DEF j
    <3> QED
      BY <1>1, <3>1, <3>2 DEF Tame
  <2> QED
    BY <1>1, <2>1, <2>2
<1> QED
  BY <1>1, <1>2 DEF Tame, u

(* The commands there are.                                                 *)
LEMMA CommandsOf ==
    /\ \A h \in Workers : <<"flag", h>> \in Commands /\ <<"cancel", h>> \in Commands
    /\ \A l \in Locks : <<"release", l>> \in Commands
    /\ \A c \in Parts : <<"destroy", c>> \in Commands /\ <<"forget", c>> \in Commands
    /\ \A o \in Objects : <<"delete", <<o>> >> \in Commands
    /\ \A p \in Peers : <<"clear", <<p>> >> \in Commands
    /\ \A op \in {"begin", "uncount", "unregister", "spin"} : <<op, <<>> >> \in Commands
BY DEF Commands

(* Stopping the threads, and releasing the queues, are parts of a program. *)
LEMMA TameStop == \A h \in Peers \cup {"mix"}, k \in {"audio", "video"} : Tame(StopOf(h, k))
<1> TAKE h \in Peers \cup {"mix"}, k \in {"audio", "video"}
<1>1. CASE k \notin Kinds
  BY <1>1 DEF StopOf, Tame
<1>2. CASE k \in Kinds
  <2> DEFINE w == <<h, k>>
  <2>1. w \in Workers
    BY <1>2 DEF Workers, Mixers, Decoders
  <2>2. StopOf(h, k) = << <<"flag", w>>, <<"cancel", w>> >>
    BY <1>2 DEF StopOf
  <2> HIDE DEF w
  <2> QED
    BY <2>1, <2>2, CommandsOf DEF Tame, DeleteSession
<1> QED
  BY <1>1, <1>2

(* The queues of one kind.                                                 *)
LEMMA TameRelease == \A p \in Peers, k \in {"audio", "video"} : Tame(ReleaseOf(p, k))
<1> TAKE p \in Peers, k \in {"audio", "video"}
<1>1. CASE k \notin Kinds
  BY <1>1 DEF ReleaseOf, Tame
<1>2. CASE k \in Kinds
  <2> DEFINE m == <<p, k, "net">>
             n == <<p, k, "dec">>
  <2>1. m \in Locks /\ n \in Locks
    BY <1>2 DEF Locks
  <2>2. ReleaseOf(p, k) = << <<"release", m>>, <<"release", n>> >>
    BY <1>2 DEF ReleaseOf
  <2> HIDE DEF m, n
  <2> QED
    BY <2>1, <2>2, CommandsOf DEF Tame, DeleteSession
<1> QED
  BY <1>1, <1>2

(* A frame or a decoder.                                                   *)
LEMMA TameDestory ==
    \A p \in Peers, k \in {"audio", "video"}, x \in {"frame", "decoder"} :
        Tame(DestoryOf(p, k, x))
<1> TAKE p \in Peers, k \in {"audio", "video"}, x \in {"frame", "decoder"}
<1>1. CASE k \notin Kinds
  BY <1>1 DEF DestoryOf, Tame
<1>2. CASE k \in Kinds
  <2> DEFINE c == <<p, k, x>>
  <2>1. c \in Parts
    BY <1>2 DEF Parts
  <2>2. DestoryOf(p, k, x) = << <<"destroy", c>>, <<"forget", c>> >>
    BY <1>2 DEF DestoryOf
  <2> HIDE DEF c
  <2> QED
    BY <2>1, <2>2, CommandsOf DEF Tame, DeleteSession
<1> QED
  BY <1>1, <1>2

(* All that DestorySession does is one.                                    *)
LEMMA TameProgram == Tame(DestorySession)
<1> DEFINE minor == << <<"delete", <<"minor">> >>, <<"clear", <<"minor">> >>, <<"uncount", <<>> >> >>
           lead == << <<"delete", <<"lead">> >>, <<"clear", <<"lead">> >> >>
           mixer == << <<"delete", <<"mixer">> >> >>
<1>1. \A h \in Peers \cup {"mix"} : Tame(Stop(h))
  BY TameStop, TameConcat DEF Stop
<1>2. \A p \in Peers : Tame(ReleaseQueues(p))
  BY TameRelease, TameConcat DEF ReleaseQueues
<1>3. \A p \in Peers : Tame(DestoryNP(p))
  <2> TAKE p \in Peers
  <2> DEFINE d(k, x) == DestoryOf(p, k, x)
  <2>1. /\ Tame(d("audio", "frame")) /\ Tame(d("video", "frame"))
        /\ Tame(d("audio", "decoder")) /\ Tame(d("video", "decoder"))
    BY TameDestory
  <2>2. DestoryParts(p) = d("audio", "frame") \o d("video", "frame")
                          \o d("audio", "decoder") \o d("video", "decoder")
    BY DEF DestoryParts
  <2> HIDE DEF d
  <2>3. Tame(DestoryParts(p))
    BY <2>1, <2>2, TameConcat
  <2> QED
    BY <1>1, <1>2, <2>3, TameConcat DEF DestoryNP
<1>4. "minor" \in Peers /\ "lead" \in Peers /\ {"minor", "lead", "mixer"} \subseteq Objects
  BY DEF Peers, Objects
<1>5. <<"minor">> # <<"session">> /\ <<"lead">> # <<"session">> /\ <<"mixer">> # <<"session">>
  OBVIOUS
<1>6. Tame(minor)
  BY <1>4, <1>5, CommandsOf DEF Tame, DeleteSession
<1>7. Tame(lead)
  BY <1>4, <1>5, CommandsOf DEF Tame, DeleteSession
<1>8. Tame(mixer)
  BY <1>4, <1>5, CommandsOf DEF Tame, DeleteSession
<1>9. DestorySession = Stop("mix") \o DestoryNP("minor") \o minor \o DestoryNP("lead") \o lead \o mixer
  BY DEF DestorySession
<1> HIDE DEF minor, lead, mixer
<1>10. Tame(Stop("mix") \o DestoryNP("minor"))
  BY <1>1, <1>3, <1>4, TameConcat
<1>11. Tame(Stop("mix") \o DestoryNP("minor") \o minor)
  BY <1>6, <1>10, TameConcat
<1>12. Tame(Stop("mix") \o DestoryNP("minor") \o minor \o DestoryNP("lead"))
  BY <1>3, <1>4, <1>11, TameConcat
<1>13. Tame(Stop("mix") \o DestoryNP("minor") \o minor \o DestoryNP("lead") \o lead)
  BY <1>7, <1>12, TameConcat
<1>14. Tame(Stop("mix") \o DestoryNP("minor") \o minor \o DestoryNP("lead") \o lead \o mixer)
  BY <1>8, <1>13, TameConcat
<1> QED
  BY <1>9, <1>14

(* The program of the grid thread, once the session is timed out.          *)
LEMMA ProgramReady ==
    ASSUME todo' = DestorySession \o Destructor
    PROVE  todo' \in Seq(Commands) /\ FlagBeforeCancel' /\ DeleteAfterSpin'
<1> DEFINE s == DestorySession
           d == Destructor
           u == s \o d
<1>1. Tame(s)
  BY TameProgram
<1>2. /\ d \in Seq(Commands) /\ Len(d) = 3
      /\ d[1] = <<"unregister", <<>> >> /\ d[2] = <<"spin", <<>> >> /\ d[3] = DeleteSession
  BY CommandsOf DEF Destructor, DeleteSession, Objects
<1>3. s \in Seq(Commands)
  BY <1>1 DEF Tame
<1> HIDE DEF s, d
<1>4. /\ u \in Seq(Commands) /\ Len(u) = Len(s) + 3 /\ Len(s) \in Nat
      /\ \A i \in 1 .. Len(s) : u[i] = s[i]
      /\ \A i \in 1 .. 3 : u[Len(s) + i] = d[i]
  <2>1. d \in Seq(Commands) /\ Len(d) = 3
    BY <1>2
  <2>2. d \in Seq(Commands) /\ s \in Seq(Commands)
    BY <1>3, <2>1
  <2>3. /\ u \in Seq(Commands) /\ Len(u) = Len(s) + Len(d)
        /\ Len(s) \in Nat /\ Len(d) \in Nat
        /\ \A i \in 1 .. Len(s) : u[i] = s[i]
        /\ \A i \in 1 .. Len(d) : u[Len(s) + i] = d[i]
    BY <2>2
  <2> HIDE DEF u
  <2> QED
    BY <2>1, <2>3
<1>5. todo' = u
  BY DEF s, d
<1> HIDE DEF u
<1>6. ASSUME NEW i \in 1 .. Len(u)
      PROVE  /\ u[i][1] = "cancel" => i # 1 /\ u[i - 1] = <<"flag", u[i][2]>>
             /\ u[i] = DeleteSession =>
                   i = Len(u) /\ i # 1 /\ u[i - 1] = <<"spin", <<>> >>
  <2>1. CASE i <= Len(s)
    <3>1. i \in 1 .. Len(s) /\ u[i] = s[i] /\ (i > 1 => u[i - 1] = s[i - 1])
      BY <1>4, <2>1
    <3> QED
      BY <1>1, <3>1 DEF Tame
  <2>2. CASE i = Len(s) + 1
    BY <1>2, <1>4, <2>2 DEF DeleteSession
  <2>3. CASE i = Len(s) + 2
    BY <1>2, <1>4, <2>3 DEF DeleteSession
  <2>4. CASE i = Len(s) + 3
    <3>1. u[i] = DeleteSession
      BY <1>2, <1>4, <2>4
    <3>2. i = Len(u) /\ i # 1 /\ i - 1 = Len(s) + 2
      BY <1>4, <2>4
    <3>3. u[i - 1] = <<"spin", <<>> >>
      BY <1>2, <1>4, <3>2
    <3> QED
      BY <3>1, <3>2, <3>3 DEF DeleteSession
  <2> QED
    BY <1>4, <2>1, <2>2, <2>3, <2>4
<1> QED
  BY <1>4, <1>5, <1>6 DEF FlagBeforeCancel, DeleteAfterSpin

(* The grid thread goes on to the next command.                            *)
LEMMA TailReady ==
    ASSUME todo \in Seq(Commands), FlagBeforeCancel, DeleteAfterSpin,
           todo # <<>>, todo' = Tail(todo), flag \subseteq flag',
           Head(todo)[1] = "flag" => What \in flag',
           Head(todo)[1] = "spin" => reg' = "out"
    PROVE  todo' \in Seq(Commands) /\ FlagBeforeCancel' /\ DeleteAfterSpin'
<1>1. /\ todo' \in Seq(Commands) /\ Len(todo') = Len(todo) - 1 /\ Len(todo) \in Nat
      /\ \A i \in 1 .. Len(todo') : todo'[i] = todo[i + 1] /\ i + 1 \in 1 .. Len(todo)
      /\ Head(todo) = todo[1]
  OBVIOUS
<1>2. FlagBeforeCancel'
  <2> SUFFICES ASSUME NEW i \in 1 .. Len(todo'), todo'[i][1] = "cancel"
               PROVE  IF i = 1 THEN todo'[i][2] \in flag'
                               ELSE todo'[i - 1] = <<"flag", todo'[i][2]>>
    BY DEF FlagBeforeCancel
  <2>1. todo[i + 1][1] = "cancel" /\ i + 1 # 1 /\ i + 1 - 1 = i
    BY <1>1
  <2>2. todo[i] = <<"flag", todo[i + 1][2]>>
    BY <1>1, <2>1 DEF FlagBeforeCancel
  <2>3. CASE i = 1
    <3>1. Head(todo)[1] = "flag" /\ What = todo'[i][2]
      BY <1>1, <2>2, <2>3 DEF What
    <3> QED
      BY <2>3, <3>1
  <2>4. CASE i # 1
    <3>1. i - 1 \in 1 .. Len(todo') /\ (i - 1) + 1 = i
      BY <1>1, <2>4
    <3> QED
      BY <1>1, <2>2, <2>4, <3>1
  <2> QED
    BY <2>3, <2>4
<1>3. DeleteAfterSpin'
  <2> SUFFICES ASSUME NEW i \in 1 .. Len(todo'), todo'[i] = DeleteSession
               PROVE  i = Len(todo') /\ (IF i = 1 THEN reg' = "out"
                                         ELSE todo'[i - 1] = <<"spin", <<>> >>)
    BY DEF DeleteAfterSpin
  <2>1. todo[i + 1] = DeleteSession /\ i + 1 # 1 /\ i + 1 - 1 = i
    BY <1>1
  <2>2. i + 1 = Len(todo) /\ todo[i] = <<"spin", <<>> >>
    <3> DEFINE j == i + 1
    <3>1. j \in 1 .. Len(todo) /\ todo[j] = DeleteSession /\ j # 1 /\ j - 1 = i
      BY <1>1, <2>1
    <3> HIDE DEF j
    <3>2. j = Len(todo) /\ todo[i] = <<"spin", <<>> >>
      BY <3>1 DEF DeleteAfterSpin
    <3> QED
      BY <3>2 DEF j
  <2>3. i = Len(todo')
    <3>1. Len(todo) \in Nat /\ Len(todo') = Len(todo) - 1 /\ i \in Int
      BY <1>1
    <3>2. i + 1 = Len(todo)
      BY <2>2
    <3> QED
      BY ONLY <3>1, <3>2
  <2>4. CASE i = 1
    <3>0. Head(todo) = todo[i]
      BY <1>1, <2>4
    <3>1. Head(todo)[1] = "spin"
      <4> DEFINE h == Head(todo)
      <4>1. h = <<"spin", <<>> >>
        BY <2>2, <3>0
      <4> HIDE DEF h
      <4>2. h[1] = "spin"
        BY <4>1
      <4> QED
        BY <4>2 DEF h
    <3> QED
      BY <2>3, <2>4, <3>1
  <2>5. CASE i # 1
    <3>1. i - 1 \in 1 .. Len(todo') /\ (i - 1) + 1 = i
      BY <1>1, <2>5
    <3>2. todo'[i - 1] = todo[i]
      BY <1>1, <3>1
    <3>3. todo'[i - 1] = <<"spin", <<>> >>
      BY <2>2, <3>2
    <3> QED
      BY <2>3, <2>5, <3>3
  <2> QED
    BY <2>4, <2>5
<1> QED
  BY <1>1, <1>2, <1>3

(* The invariant holds initially.                                          *)
LEMMA InitEnd == EndInit => EndInv
<1> SUFFICES ASSUME EndInit PROVE EndInv
  OBVIOUS
<1>1. todo \in Seq(Commands) /\ FlagBeforeCancel /\ DeleteAfterSpin
  <2>1. todo = << <<"begin", <<>> >> >> /\ <<"begin", <<>> >> \in Commands
    BY CommandsOf DEF EndInit
  <2> QED
    BY <2>1 DEF FlagBeforeCancel, DeleteAfterSpin, DeleteSession
<1>2. /\ at \in [Workers -> MixPlaces \cup DecPlaces]
      /\ \A w \in Mixers : at[w] \in MixPlaces
      /\ \A w \in Decoders : at[w] \in DecPlaces
  BY DEF EndInit, Workers, MixPlaces, DecPlaces
<1>3. /\ flag \subseteq Workers /\ cancelled \subseteq flag /\ freed = {}
      /\ ptr \subseteq Peers /\ rec = <<>> /\ reg = "in" /\ failed \in BOOLEAN
  BY Zenon DEF EndInit
<1>4. /\ lock \in [Locks -> {"free", "held", "left"}] /\ count \in 0..1
      /\ part \in [Parts -> {"unset", "set", "deleted", "gone"}]
  BY DEF EndInit
<1> QED
  BY <1>1, <1>2, <1>3, <1>4 DEF EndInv, EndTypeOK, RecverGone

(* The grid thread handles its commands in order.                          *)
LEMMA GridThreadEnd == EndInv /\ EndGridThread => EndInv'
<1> SUFFICES ASSUME EndInv, EndGridThread PROVE EndInv'
  OBVIOUS
<1>0. /\ todo \in Seq(Commands) /\ FlagBeforeCancel /\ DeleteAfterSpin /\ RecverGone
      /\ EndTypeOK /\ at \in [Workers -> MixPlaces \cup DecPlaces]
  BY DEF EndInv, EndTypeOK
<1>1. todo # <<>>
  BY DEF EndGridThread, Begin, SetFlag, Cancel, ReleaseQueue, Destroy, Forget, Delete, Clear,
         Uncount,
         Unregister, Spin, Doing
<1>2. Head(todo) \in Commands /\ Head(todo) = todo[1] /\ 1 \in 1 .. Len(todo)
  BY <1>0, <1>1
<1>3. "session" \notin freed
  BY <1>0, <1>1 DEF RecverGone
<1>4. UNCHANGED <<at, lock, rec>>
  BY DEF EndGridThread, Begin, SetFlag, Cancel, ReleaseQueue, Destroy, Forget, Delete, Clear,
         Uncount,
         Unregister, Spin, workers, tables, recver
<1>5. CASE Begin
  <2>1. todo' \in Seq(Commands) /\ FlagBeforeCancel' /\ DeleteAfterSpin'
    BY <1>5, ProgramReady DEF Begin
  <2>2. UNCHANGED <<flag, cancelled, freed, ptr, count, part, rec, reg, failed>>
    BY <1>5 DEF Begin, workers, tables, recver
  <2> QED
    BY <1>0, <1>3, <1>4, <2>1, <2>2 DEF EndInv, EndTypeOK, RecverGone
<1>6. CASE SetFlag
  <2>1. /\ todo' = Tail(todo) /\ flag' = flag \cup {What} /\ Head(todo)[1] = "flag"
        /\ UNCHANGED <<cancelled, freed, ptr, count, part, rec, reg, failed>>
    BY <1>6 DEF SetFlag, Doing, Done, workers, tables, recver
  <2>2. What \in Workers
    BY <1>2, <2>1 DEF What, Commands
  <2>3. todo' \in Seq(Commands) /\ FlagBeforeCancel' /\ DeleteAfterSpin'
    BY <1>0, <1>1, <2>1, TailReady
  <2> QED
    BY <1>0, <1>3, <1>4, <2>1, <2>2, <2>3 DEF EndInv, EndTypeOK, RecverGone
<1>7. CASE Cancel
  <2>1. /\ todo' = Tail(todo) /\ cancelled' = cancelled \cup {What} /\ Head(todo)[1] = "cancel"
        /\ UNCHANGED <<flag, freed, ptr, count, part, rec, reg>> /\ failed' \in BOOLEAN
    BY <1>7 DEF Cancel, Doing, Done, tables, recver
  <2>2. What \in flag
    BY <1>0, <1>2, <2>1 DEF What, FlagBeforeCancel
  <2>3. todo' \in Seq(Commands) /\ FlagBeforeCancel' /\ DeleteAfterSpin'
    BY <1>0, <1>1, <2>1, TailReady
  <2> QED
    BY <1>0, <1>3, <1>4, <2>1, <2>2, <2>3 DEF EndInv, EndTypeOK, RecverGone
<1>8. CASE Delete
  <2>1. /\ todo' = Tail(todo) /\ freed' = freed \cup {What[1]} /\ Head(todo)[1] = "delete"
        /\ UNCHANGED <<flag, cancelled, ptr, count, part, rec, reg, failed>>
    BY <1>8 DEF Delete, Doing, Done, workers, recver
  <2>2. PICK o \in Objects : Head(todo) = <<"delete", <<o>> >>
    BY <1>2, <2>1 DEF Commands
  <2>3. What[1] = o
    BY <2>2 DEF What
  <2>4. todo' \in Seq(Commands) /\ FlagBeforeCancel' /\ DeleteAfterSpin'
    BY <1>0, <1>1, <2>1, TailReady
  <2>5. "session" \in freed' => todo' = <<>> /\ reg' = "out"
    <3> SUFFICES ASSUME o = "session" PROVE todo' = <<>> /\ reg = "out"
      BY <1>3, <2>1, <2>3
    <3>1. todo[1] = DeleteSession
      BY <1>2, <2>2 DEF DeleteSession
    <3>2. Len(todo) = 1 /\ reg = "out"
      BY <1>0, <1>2, <3>1 DEF DeleteAfterSpin
    <3> QED
      BY <1>0, <2>1, <3>2
  <2>6. reg' = "out" => rec' = <<>>
    BY <1>0, <2>1 DEF RecverGone
  <2>7. freed' \subseteq Objects
    BY <1>0, <2>1, <2>3 DEF EndTypeOK
  <2> QED
    BY <1>0, <1>4, <2>1, <2>4, <2>5, <2>6, <2>7 DEF EndInv, EndTypeOK, RecverGone
<1>9. CASE ReleaseQueue \/ Clear \/ Uncount
  <2>1. /\ todo' = Tail(todo) /\ Head(todo)[1] \in {"release", "clear", "uncount"}
        /\ UNCHANGED <<flag, cancelled, freed, part, rec, reg, failed>>
        /\ ptr' \subseteq ptr /\ count' \in {0, count}
    BY <1>9 DEF ReleaseQueue, Clear, Uncount, Doing, Done, workers, tables, recver
  <2>2. todo' \in Seq(Commands) /\ FlagBeforeCancel' /\ DeleteAfterSpin'
    BY <1>0, <1>1, <2>1, TailReady
  <2> QED
    BY <1>0, <1>3, <1>4, <2>1, <2>2 DEF EndInv, EndTypeOK, RecverGone
<1>10. CASE Unregister
  <2>1. /\ todo' = Tail(todo) /\ Head(todo)[1] = "unregister" /\ reg' = "asked"
        /\ UNCHANGED <<flag, cancelled, freed, ptr, count, part, rec, failed>>
    BY <1>10 DEF Unregister, Doing, Done, workers, tables
  <2>2. todo' \in Seq(Commands) /\ FlagBeforeCancel' /\ DeleteAfterSpin'
    BY <1>0, <1>1, <2>1, TailReady
  <2> QED
    BY <1>0, <1>3, <1>4, <2>1, <2>2 DEF EndInv, EndTypeOK, RecverGone
<1>11. CASE Spin
  <2>1. /\ todo' = Tail(todo) /\ Head(todo)[1] = "spin" /\ reg = "out"
        /\ UNCHANGED <<flag, cancelled, freed, ptr, count, part, rec, reg, failed>>
    BY <1>11 DEF Spin, Doing, Done, workers, tables, recver
  <2>2. todo' \in Seq(Commands) /\ FlagBeforeCancel' /\ DeleteAfterSpin'
    BY <1>0, <1>1, <2>1, TailReady
  <2> QED
    BY <1>0, <1>3, <1>4, <2>1, <2>2 DEF EndInv, EndTypeOK, RecverGone
<1>12. CASE Destroy \/ Forget
  <2>1. /\ todo' = Tail(todo) /\ Head(todo)[1] \in {"destroy", "forget"}
        /\ UNCHANGED <<flag, cancelled, freed, ptr, count, rec, reg, failed>>
        /\ \E x \in {"deleted", "gone"} : part' \in {part, [part EXCEPT ![What] = x]}
    BY <1>12 DEF Destroy, Forget, Doing, Done, workers, recver
  <2>2. todo' \in Seq(Commands) /\ FlagBeforeCancel' /\ DeleteAfterSpin'
    BY <1>0, <1>1, <2>1, TailReady
  <2>3. part' \in [Parts -> {"unset", "set", "deleted", "gone"}]
    BY <1>0, <2>1 DEF EndTypeOK
  <2> QED
    BY <1>0, <1>3, <1>4, <2>1, <2>2, <2>3 DEF EndInv, EndTypeOK, RecverGone
<1> QED
  BY <1>5, <1>6, <1>7, <1>8, <1>9, <1>10, <1>11, <1>12 DEF EndGridThread

(* A step that leaves the program and the recver thread alone.             *)
LEMMA PlacesEnd ==
    ASSUME EndInv, UNCHANGED <<todo, flag, cancelled, freed, ptr, count, rec, reg>>,
           part' \in [Parts -> {"unset", "set", "deleted", "gone"}],
           at' \in [Workers -> MixPlaces \cup DecPlaces],
           \A w \in Mixers : at'[w] \in MixPlaces, \A w \in Decoders : at'[w] \in DecPlaces,
           lock' \in [Locks -> {"free", "held", "left"}], failed' \in BOOLEAN
    PROVE  EndInv'
BY DEF EndInv, EndTypeOK, FlagBeforeCancel, DeleteAfterSpin, RecverGone

(* Nothing else happens when something deleted is used.                    *)
LEMMA FailsEnd == EndInv /\ Fails => EndInv'
<1> SUFFICES ASSUME EndInv, Fails PROVE EndInv'
  OBVIOUS
<1>1. failed' \in BOOLEAN
  BY Zenon DEF Fails
<1>2. UNCHANGED <<todo, flag, cancelled, at, lock, freed, ptr, count, part, rec, reg>>
  BY DEF Fails, workers, tables, recver
<1> QED
  BY <1>1, <1>2, PlacesEnd DEF EndInv, EndTypeOK

(* A thread goes on, or ends, with the locks and what the peers have in    *)
(* one of their states.                                                    *)
LEMMA MovesEnd ==
    ASSUME EndInv, NEW w \in Workers, NEW to,
           w \in Mixers => to \in MixPlaces, w \in Decoders => to \in DecPlaces,
           Goes(w, to), UNCHANGED <<todo, flag, cancelled, freed, ptr, count, rec, reg, failed>>,
           part' \in [Parts -> {"unset", "set", "deleted", "gone"}],
           lock' \in [Locks -> {"free", "held", "left"}]
    PROVE  EndInv'
<1>1. /\ at \in [Workers -> MixPlaces \cup DecPlaces] /\ failed \in BOOLEAN
      /\ \A v \in Mixers : at[v] \in MixPlaces
      /\ \A v \in Decoders : at[v] \in DecPlaces
  BY DEF EndInv, EndTypeOK
<1>2. at' = [at EXCEPT ![w] = to]
  BY DEF Goes
<1>3. to \in MixPlaces \cup DecPlaces
  BY DEF Workers
<1>4. at' \in [Workers -> MixPlaces \cup DecPlaces]
  BY <1>1, <1>2, <1>3
<1>5. \A v \in Workers : at'[v] = IF v = w THEN to ELSE at[v]
  BY <1>1, <1>2
<1>6. ASSUME NEW v \in Workers
      PROVE  (v \in Mixers => at'[v] \in MixPlaces) /\ (v \in Decoders => at'[v] \in DecPlaces)
  BY <1>1, <1>5
<1>7. failed' \in BOOLEAN
  BY <1>1
<1> QED
  <2>1. Mixers \subseteq Workers /\ Decoders \subseteq Workers
    BY DEF Workers
  <2>2. /\ \A v \in Mixers : at'[v] \in MixPlaces
        /\ \A v \in Decoders : at'[v] \in DecPlaces
    BY <1>6, <2>1
  <2> QED
    BY <1>4, <1>7, <2>2, PlacesEnd

(* A thread goes on, or ends, and the peers have what they had.            *)
LEMMA GoesEnd ==
    ASSUME EndInv, NEW w \in Workers, NEW to,
           w \in Mixers => to \in MixPlaces, w \in Decoders => to \in DecPlaces,
           Goes(w, to), UNCHANGED <<todo, flag, cancelled, tables, recver, failed>>,
           lock' \in [Locks -> {"free", "held", "left"}]
    PROVE  EndInv'
<1>1. UNCHANGED <<todo, flag, cancelled, freed, ptr, count, part, rec, reg, failed>>
  BY DEF tables, recver
<1>2. part' \in [Parts -> {"unset", "set", "deleted", "gone"}]
  BY <1>1 DEF EndInv, EndTypeOK
<1> QED
  BY <1>1, <1>2, MovesEnd

(* A thread goes on with a part set anew.                                  *)
LEMMA SetsEnd ==
    ASSUME EndInv, NEW w \in Workers, NEW to, NEW c,
           w \in Mixers => to \in MixPlaces, w \in Decoders => to \in DecPlaces,
           Goes(w, to), part' = [part EXCEPT ![c] = "set"],
           UNCHANGED <<todo, flag, cancelled, lock, freed, ptr, count, recver, failed>>
    PROVE  EndInv'
<1>1. UNCHANGED <<todo, flag, cancelled, lock, freed, ptr, count, rec, reg, failed>>
  BY DEF recver
<1>2. /\ part' \in [Parts -> {"unset", "set", "deleted", "gone"}]
      /\ lock' \in [Locks -> {"free", "held", "left"}]
  BY <1>1 DEF EndInv, EndTypeOK
<1> QED
  BY <1>1, <1>2, MovesEnd

(* The mix threads and the decode threads are different ones.              *)
LEMMA WorkersApart == Mixers \cap Decoders = {}
BY DEF Mixers, Decoders, Peers

(* A decode thread enters or leaves a lock.                                *)
LEMMA LockEnd ==
    ASSUME EndInv, NEW w \in Decoders, NEW l, NEW from, NEW to \in DecPlaces,
           Enter(w, l, from, to) \/ Leave(w, l, from, to)
    PROVE  EndInv'
<1>1. lock \in [Locks -> {"free", "held", "left"}]
  BY DEF EndInv, EndTypeOK
<1>2. lock' \in [Locks -> {"free", "held", "left"}]
  BY <1>1 DEF Enter, Leave
<1>3. Goes(w, to) /\ UNCHANGED <<todo, flag, cancelled, tables, recver, failed>>
  BY DEF Enter, Leave
<1> QED
  BY <1>2, <1>3, WorkersApart, GoesEnd DEF Workers

(* The decode threads.                                                     *)
LEMMA DecThreadEnd == ASSUME EndInv, NEW w \in Decoders, DecThread(w) PROVE EndInv'
<1>1. lock \in [Locks -> {"free", "held", "left"}] /\ w \in Workers /\ w \notin Mixers
  BY WorkersApart DEF EndInv, EndTypeOK, Workers
<1>2. CASE Test(w)
  <2>1. PICK to \in {"ended", "old", "idle"} : Goes(w, to)
    BY <1>2 DEF Test
  <2>2. UNCHANGED <<todo, flag, cancelled, lock, tables, recver, failed>>
    BY <1>2 DEF Test
  <2> QED
    BY <1>1, <2>1, <2>2, GoesEnd DEF DecPlaces
<1>3. {"in net", "between", "in dec", "released", "loop", "decode", "insert", "sleep"}
         \subseteq DecPlaces
  BY DEF DecPlaces
<1>4. CASE Decode(w)
  BY <1>1, <1>3, <1>4, FailsEnd, SetsEnd DEF Decode
<1>5. CASE Decoding(w)
  BY <1>1, <1>3, <1>5, FailsEnd, GoesEnd DEF Decoding
<1>6. CASE ReleaseNetQueue(w) \/ ReleaseDecQueue(w) \/ EndLoop(w)
           \/ (LoopFrames(w) /\ ~Decode(w) /\ ~Decoding(w))
  BY <1>3, <1>6, LockEnd DEF ReleaseNetQueue, ReleaseDecQueue, LoopFrames, EndLoop
<1> QED
  BY <1>2, <1>4, <1>5, <1>6 DEF DecThread

(* The mix threads.                                                        *)
LEMMA MixThreadEnd == ASSUME EndInv, NEW w \in Mixers, MixThread(w) PROVE EndInv'
<1>1. lock \in [Locks -> {"free", "held", "left"}] /\ w \in Workers /\ w \notin Decoders
  BY WorkersApart DEF EndInv, EndTypeOK, Workers
<1>2. ASSUME NEW to \in MixPlaces, MixGoes(w, to) PROVE EndInv'
  BY <1>1, <1>2, GoesEnd DEF MixGoes
<1>3. {"ended", "get", "got", "sleep", "filter", "wait", "collect", "mix", "mix minor"}
         \subseteq MixPlaces
  BY DEF MixPlaces
<1>4. CASE SetCur(w)
  BY <1>1, <1>3, <1>4, FailsEnd, SetsEnd DEF SetCur
<1> QED
  BY <1>2, <1>3, <1>4, FailsEnd
     DEF MixThread, MixTest, GetFirst, Reset, Filter, Collect, MixAndSend

(* What all the threads of the session do.                                 *)
LEMMA WorkerEnd == ASSUME EndInv, NEW w \in Workers, Worker(w) PROVE EndInv'
<1>1. /\ lock \in [Locks -> {"free", "held", "left"}]
      /\ w \in Mixers => at[w] \in MixPlaces
      /\ w \in Decoders => at[w] \in DecPlaces
  BY DEF EndInv, EndTypeOK
<1>2. CASE UsesDeletedHome(w)
  BY <1>2, FailsEnd DEF UsesDeletedHome
<1>3. CASE WakeUp(w)
  <2>1. UNCHANGED <<todo, flag, cancelled, lock, tables, recver, failed>>
    BY <1>3 DEF WakeUp
  <2>2. CASE Goes(w, "test")
    BY <1>1, <2>1, <2>2, GoesEnd DEF MixPlaces, DecPlaces
  <2>3. CASE at[w] = "wait" /\ Goes(w, "filter")
    <3>1. w \notin Decoders
      BY <1>1, <2>3 DEF DecPlaces
    <3> QED
      BY <1>1, <2>1, <2>3, <3>1, GoesEnd DEF MixPlaces
  <2> QED
    BY <1>3, <2>2, <2>3 DEF WakeUp
<1>4. CASE ThreadEnds(w)
  <2>1. Goes(w, "ended") /\ UNCHANGED <<todo, flag, cancelled, tables, recver, failed>>
    BY <1>4 DEF ThreadEnds
  <2>2. lock' \in [Locks -> {"free", "held", "left"}]
    BY <1>1, <1>4 DEF ThreadEnds
  <2> QED
    BY <2>1, <2>2, GoesEnd DEF MixPlaces, DecPlaces
<1> QED
  BY <1>2, <1>3, <1>4, DecThreadEnd, MixThreadEnd DEF Worker

(* The recver thread.                                                      *)
LEMMA RecverEnd ==
    ASSUME EndInv, \/ \E p \in Peers, k \in Kinds : HandleFrame(p, k)
                 \/ AddData \/ HandleUnregister
    PROVE  EndInv'
<1>1. CASE Fails
  BY <1>1, FailsEnd
<1>2. CASE ~Fails
  <2>1. /\ UNCHANGED <<todo, flag, workers, tables, failed>>
        /\ rec' \in {<<>>} \cup (Peers \X Kinds) /\ reg' \in {"in", "asked", "out"}
        /\ reg' = "out" => rec' = <<>>
        /\ reg = "out" => reg' = "out"
    BY <1>2 DEF HandleFrame, AddData, HandleUnregister, EndInv, EndTypeOK, RecverGone
  <2>2. UNCHANGED <<todo, flag, cancelled, at, lock, freed, ptr, count, part, failed>>
    BY <2>1 DEF workers, tables
  <2>3. DeleteAfterSpin'
    BY <2>1, <2>2 DEF EndInv, DeleteAfterSpin
  <2> QED
    BY <2>1, <2>2, <2>3 DEF EndInv, EndTypeOK, FlagBeforeCancel, RecverGone
<1> QED
  BY <1>1, <1>2

(* Every step keeps the invariant.                                         *)
LEMMA NextEnd == EndInv /\ [EndNext]_endVars => EndInv'
<1> SUFFICES ASSUME EndInv, [EndNext]_endVars PROVE EndInv'
  OBVIOUS
<1>1. CASE UNCHANGED endVars
  BY <1>1 DEF endVars, EndInv, EndTypeOK, FlagBeforeCancel, DeleteAfterSpin, RecverGone
<1> QED
  BY <1>1, GridThreadEnd, WorkerEnd, RecverEnd DEF EndNext

(* Every variable has its type: a thread is cancelled only after its stop  *)
(* flag is set.                                                            *)
THEOREM EndTypeHolds == EndSpec => []EndTypeOK
<1>1. EndInv => EndTypeOK
  BY DEF EndInv
<1> QED
  BY <1>1, InitEnd, NextEnd, PTL DEF EndSpec

(* When the session is deleted the recver thread is in no callback of it   *)
(* and will not be again: the spin in the assembler's destructor is        *)
(* enough, whatever the threads of the session are doing.                  *)
THEOREM SessionOutlives == EndSpec => []SessionOutlivesCallbacks
<1>1. EndInv => SessionOutlivesCallbacks
  BY DEF EndInv, RecverGone, SessionOutlivesCallbacks
<1> QED
  BY <1>1, InitEnd, NextEnd, PTL DEF EndSpec
-----------------------------------------------------------------------------
(* The locks of the decode threads.                                        *)
InNet == {"in net", "loop", "decode", "insert"}
InDec == {"in dec", "insert"}

(* A lock is held while its thread is where it took it, and left only by a *)
(* thread that was cancelled and has ended.                                *)
LocksOf(w) ==
    /\ lock[NetLock(w)] = "held" <=> at[w] \in InNet
    /\ lock[DecLock(w)] = "held" <=> at[w] \in InDec
    /\ "left" \in {lock[NetLock(w)], lock[DecLock(w)]} => at[w] = "ended" /\ w \in cancelled
LocksFollow == \A w \in Decoders : LocksOf(w)

(* Each decode thread has two locks of its own.                            *)
LEMMA LocksApart ==
    ASSUME NEW v \in Decoders
    PROVE  /\ v \in Workers /\ NetLock(v) \in Locks /\ DecLock(v) \in Locks
           /\ NetLock(v) # DecLock(v)
           /\ \A w \in Decoders :
                 /\ NetLock(v) # DecLock(w) /\ DecLock(v) # NetLock(w)
                 /\ NetLock(v) = NetLock(w) => v = w
                 /\ DecLock(v) = DecLock(w) => v = w
BY DEF Decoders, Workers, NetLock, DecLock, Locks

(* A step of one thread leaves the locks of the others.                    *)
LEMMA LocksOfOthers ==
    ASSUME EndInv, LocksFollow, NEW w \in Workers, NEW to, at' = [at EXCEPT ![w] = to],
           UNCHANGED cancelled,
           \A l \in Locks :
              (w \in Decoders /\ l \in {NetLock(w), DecLock(w)}) \/ lock'[l] = lock[l],
           w \in Decoders => LocksOf(w)'
    PROVE  LocksFollow'
<1> SUFFICES ASSUME NEW v \in Decoders, v # w PROVE LocksOf(v)'
  BY DEF LocksFollow
<1>1. at \in [Workers -> MixPlaces \cup DecPlaces]
  BY DEF EndInv
<1>2. at'[v] = at[v] /\ cancelled' = cancelled
  BY <1>1, LocksApart
<1>3. lock'[NetLock(v)] = lock[NetLock(v)] /\ lock'[DecLock(v)] = lock[DecLock(v)]
  BY LocksApart
<1>4. LocksOf(v)
  BY DEF LocksFollow
<1> QED
  BY <1>2, <1>3, <1>4 DEF LocksOf, NetLock, DecLock

(* A thread that goes on with the locks that it has.                       *)
LEMMA GoesLocks ==
    ASSUME EndInv, LocksFollow, NEW w \in Workers, NEW to, Goes(w, to),
           UNCHANGED <<cancelled, lock>>,
           w \in Decoders => /\ at[w] # "ended"
                             /\ at[w] \in InNet <=> to \in InNet
                             /\ at[w] \in InDec <=> to \in InDec
    PROVE  LocksFollow'
<1>1. at \in [Workers -> MixPlaces \cup DecPlaces] /\ at' = [at EXCEPT ![w] = to]
  BY DEF EndInv, Goes
<1>2. at'[w] = to /\ lock' = lock
  BY <1>1
<1>3. ASSUME w \in Decoders PROVE LocksOf(w)'
  <2>1. LocksOf(w)
    BY <1>3 DEF LocksFollow
  <2> QED
    BY <1>2, <1>3, <2>1 DEF LocksOf, NetLock, DecLock
<1> QED
  BY <1>1, <1>2, <1>3, LocksOfOthers

(* A decode thread enters a lock, or leaves it.                            *)
LEMMA EnterLocks ==
    ASSUME EndInv, LocksFollow, NEW w \in Decoders, NEW l, NEW from, NEW to,
           \/ Enter(w, l, from, to) /\ from # "ended"
           \/ Leave(w, l, from, to) /\ from # "ended" /\ lock[l] = "held",
           \/ /\ l = NetLock(w) /\ (from \in InDec <=> to \in InDec)
              /\ from \in InNet <=> to \notin InNet
              /\ to \in InNet <=> Enter(w, l, from, to)
           \/ /\ l = DecLock(w) /\ (from \in InNet <=> to \in InNet)
              /\ from \in InDec <=> to \notin InDec
              /\ to \in InDec <=> Enter(w, l, from, to)
    PROVE  LocksFollow'
<1>1. /\ at \in [Workers -> MixPlaces \cup DecPlaces] /\ at' = [at EXCEPT ![w] = to]
      /\ lock \in [Locks -> {"free", "held", "left"}] /\ w \in Workers
  BY LocksApart DEF EndInv, EndTypeOK, Enter, Leave, Goes
<1>2. /\ at[w] = from /\ cancelled' = cancelled
      /\ lock' = [lock EXCEPT ![l] = IF Enter(w, l, from, to) THEN "held" ELSE "free"]
  BY DEF Enter, Leave
<1>3. at'[w] = to
  BY <1>1
<1>4. NetLock(w) \in Locks /\ DecLock(w) \in Locks /\ NetLock(w) # DecLock(w)
  BY LocksApart
<1>5. lock[NetLock(w)] # "left" /\ lock[DecLock(w)] # "left"
  BY <1>2 DEF LocksFollow, LocksOf
<1>6. /\ lock[NetLock(w)] = "held" <=> from \in InNet
      /\ lock[DecLock(w)] = "held" <=> from \in InDec
  BY <1>2 DEF LocksFollow, LocksOf
<1> HIDE DEF Enter
<1>7. LocksOf(w)'
  <2> DEFINE n == NetLock(w)
             d == DecLock(w)
  <2>1. /\ lock'[n] = "held" <=> to \in InNet
        /\ lock'[d] = "held" <=> to \in InDec
        /\ lock'[n] # "left" /\ lock'[d] # "left"
    <3> HIDE DEF n, d
    <3>1. n \in Locks /\ d \in Locks /\ n # d
      BY <1>4 DEF n, d
    <3>2. CASE l = n
      <4>1. lock'[d] = lock[d] /\ lock'[n] \in {"held", "free"}
        BY <1>1, <1>2, <3>1, <3>2
      <4>2. lock'[n] = "held" <=> Enter(w, l, from, to)
        BY <1>1, <1>2, <3>1, <3>2
      <4>3. (from \in InDec <=> to \in InDec) /\ (to \in InNet <=> Enter(w, l, from, to))
        BY <3>1, <3>2 DEF n, d
      <4> QED
        BY <1>5, <1>6, <4>1, <4>2, <4>3 DEF n, d
    <3>3. CASE l = d
      <4>1. lock'[n] = lock[n] /\ lock'[d] \in {"held", "free"}
        BY <1>1, <1>2, <3>1, <3>3
      <4>2. lock'[d] = "held" <=> Enter(w, l, from, to)
        BY <1>1, <1>2, <3>1, <3>3
      <4>3. (from \in InNet <=> to \in InNet) /\ (to \in InDec <=> Enter(w, l, from, to))
        BY <3>1, <3>3 DEF n, d
      <4> QED
        BY <1>5, <1>6, <4>1, <4>2, <4>3 DEF n, d
    <3> QED
      BY <3>2, <3>3 DEF n, d
  <2> QED
    BY <1>3, <2>1 DEF LocksOf, NetLock, DecLock
<1>8. l \in {NetLock(w), DecLock(w)}
  OBVIOUS
<1>9. \A k \in Locks : k \in {NetLock(w), DecLock(w)} \/ lock'[k] = lock[k]
  BY <1>1, <1>2, <1>8
<1> QED
  BY <1>1, <1>2, <1>7, <1>9, LocksOfOthers

(* A thread that is cancelled in a lock of Enter leaves it for good; that  *)
(* of a scope is given back.                                               *)
LEMMA ThreadEndsLocks ==
    ASSUME EndInv, LocksFollow, NEW w \in Workers, ThreadEnds(w) PROVE LocksFollow'
<1>1. at' = [at EXCEPT ![w] = "ended"] /\ w \in cancelled /\ UNCHANGED cancelled
  BY DEF ThreadEnds, Goes
<1>2. at \in [Workers -> MixPlaces \cup DecPlaces]
  BY DEF EndInv
<1>3. at'[w] = "ended" /\ at[w] # "ended"
  BY <1>1, <1>2 DEF ThreadEnds
<1>4. \A l \in Locks :
         lock'[l] = IF at[w] \in {"in net", "loop", "decode", "insert"} /\ l = NetLock(w) THEN "left"
                    ELSE IF at[w] = "in dec" /\ l = DecLock(w) THEN "left"
                    ELSE IF at[w] = "insert" /\ l = DecLock(w) THEN "free"
                    ELSE lock[l]
  BY DEF ThreadEnds
<1>5. CASE w \in Decoders
  <2>1. NetLock(w) \in Locks /\ DecLock(w) \in Locks /\ NetLock(w) # DecLock(w)
    BY <1>5, LocksApart
  <2>2. /\ lock[NetLock(w)] = "held" <=> at[w] \in InNet
        /\ lock[DecLock(w)] = "held" <=> at[w] \in InDec
    BY <1>5 DEF LocksFollow, LocksOf
  <2>3. lock'[NetLock(w)] # "held" /\ lock'[DecLock(w)] # "held"
    BY <1>4, <2>1, <2>2 DEF InNet, InDec
  <2>4. LocksOf(w)'
    BY <1>1, <1>3, <2>3 DEF LocksOf, NetLock, DecLock, InNet, InDec
  <2>5. \A l \in Locks : l \in {NetLock(w), DecLock(w)} \/ lock'[l] = lock[l]
    BY <1>4
  <2> QED
    BY <1>1, <1>5, <2>4, <2>5, LocksOfOthers
<1>6. CASE w \notin Decoders
  <2>1. at[w] \in MixPlaces
    BY <1>6 DEF Workers, EndInv, EndTypeOK
  <2>2. \A l \in Locks : lock'[l] = lock[l]
    BY <1>4, <2>1 DEF MixPlaces
  <2> QED
    BY <1>1, <1>6, <2>2, LocksOfOthers
<1> QED
  BY <1>5, <1>6

(* The decode threads.                                                     *)
LEMMA DecThreadLocks ==
    ASSUME EndInv, LocksFollow, NEW w \in Decoders, DecThread(w) PROVE LocksFollow'
<1>1. /\ lock[NetLock(w)] = "held" <=> at[w] \in InNet
      /\ lock[DecLock(w)] = "held" <=> at[w] \in InDec
  BY DEF LocksFollow, LocksOf
<1>2. ASSUME NEW from, NEW to, Enter(w, NetLock(w), from, to), from \notin InNet, to \in InNet,
             from \in InDec <=> to \in InDec, from # "ended"
      PROVE  LocksFollow'
  <2> DEFINE l == NetLock(w)
  <2>1. Enter(w, l, from, to)
    BY <1>2
  <2> HIDE DEF l
  <2> QED
    BY <1>2, <2>1, EnterLocks DEF l
<1>3. ASSUME NEW from, NEW to, Enter(w, DecLock(w), from, to), from \notin InDec, to \in InDec,
             from \in InNet <=> to \in InNet, from # "ended"
      PROVE  LocksFollow'
  BY <1>3, EnterLocks
<1>4. ASSUME NEW from, NEW to, Leave(w, NetLock(w), from, to), from \in InNet, to \notin InNet,
             from \in InDec <=> to \in InDec
      PROVE  LocksFollow'
  <2>1. lock[NetLock(w)] = "held" /\ from # "ended" /\ ~Enter(w, NetLock(w), from, to)
    BY <1>1, <1>4 DEF Leave, Enter, InNet
  <2> QED
    BY <1>4, <2>1, EnterLocks
<1>5. ASSUME NEW from, NEW to, Leave(w, DecLock(w), from, to), from \in InDec, to \notin InDec,
             from \in InNet <=> to \in InNet
      PROVE  LocksFollow'
  <2>1. lock[DecLock(w)] = "held" /\ from # "ended" /\ ~Enter(w, DecLock(w), from, to)
    BY <1>1, <1>5 DEF Leave, Enter, InDec
  <2> QED
    BY <1>5, <2>1, EnterLocks
<1>6. /\ {"in net", "loop", "decode", "insert"} \subseteq InNet /\ {"in dec", "insert"} \subseteq InDec
      /\ \A p \in {"old", "between", "released", "idle", "sleep", "test"} :
            p \notin InNet /\ p \notin InDec /\ p # "ended"
      /\ \A p \in {"in net", "loop", "decode"} : p \notin InDec /\ p # "ended"
      /\ "in dec" \notin InNet
  BY DEF InNet, InDec
<1>7. CASE Test(w)
  <2>1. PICK to \in {"ended", "old", "idle"} : Goes(w, to)
    BY <1>7 DEF Test
  <2>2. UNCHANGED <<cancelled, lock>> /\ at[w] = "test"
    BY <1>7 DEF Test
  <2>3. /\ at[w] \notin InNet \cup InDec /\ at[w] # "ended"
        /\ to \notin InNet \cup InDec /\ w \in Workers
    BY <2>2, LocksApart DEF InNet, InDec
  <2> QED
    BY <2>1, <2>2, <2>3, GoesLocks
<1>8. CASE ReleaseNetQueue(w)
  BY <1>2, <1>4, <1>6, <1>8 DEF ReleaseNetQueue
<1>9. CASE ReleaseDecQueue(w)
  BY <1>3, <1>5, <1>6, <1>9 DEF ReleaseDecQueue
<1>10. CASE LoopFrames(w)
  <2>1. ASSUME Fails PROVE LocksFollow'
    BY <2>1 DEF Fails, workers, LocksFollow, LocksOf, NetLock, DecLock
  <2>2. ASSUME NEW from \in {"loop", "decode"}, NEW to \in {"loop", "decode"},
               at[w] = from, Goes(w, to), UNCHANGED <<cancelled, lock>>
        PROVE  LocksFollow'
    <3>1. /\ at[w] # "ended" /\ w \in Workers
          /\ at[w] \in InNet /\ to \in InNet /\ at[w] \notin InDec /\ to \notin InDec
      BY <1>6, <2>2, LocksApart
    <3> QED
      BY <2>2, <3>1, GoesLocks
  <2>3. CASE Decode(w) \/ Decoding(w)
    BY <2>1, <2>2, <2>3 DEF Decode, Decoding
  <2> QED
    BY <1>2, <1>3, <1>5, <1>6, <1>10, <2>3 DEF LoopFrames
<1>11. CASE EndLoop(w)
  BY <1>4, <1>6, <1>11 DEF EndLoop
<1> QED
  BY <1>7, <1>8, <1>9, <1>10, <1>11 DEF DecThread

(* All the threads of the session.                                         *)
LEMMA WorkerLocks ==
    ASSUME EndInv, LocksFollow, NEW w \in Workers, Worker(w) PROVE LocksFollow'
<1>1. CASE Fails
  BY <1>1 DEF Fails, workers, LocksFollow, LocksOf, NetLock, DecLock
<1>2. CASE WakeUp(w)
  <2>1. PICK to \in {"test", "filter"} : Goes(w, to) /\ at[w] \in {"sleep", "wait"}
    BY <1>2 DEF WakeUp
  <2>2. UNCHANGED <<cancelled, lock>>
    BY <1>2 DEF WakeUp
  <2> QED
    BY <2>1, <2>2, GoesLocks DEF InNet, InDec
<1>3. CASE w \in Mixers /\ MixThread(w)
  <2>1. w \notin Decoders
    BY <1>3, WorkersApart
  <2>2. ASSUME NEW to, Goes(w, to), UNCHANGED <<cancelled, lock>> PROVE LocksFollow'
    BY <2>1, <2>2, GoesLocks
  <2>3. ASSUME NEW to, MixGoes(w, to) PROVE LocksFollow'
    BY <2>2, <2>3 DEF MixGoes
  <2>4. CASE SetCur(w)
    BY <1>1, <2>2, <2>4 DEF SetCur
  <2> QED
    BY <1>1, <1>3, <2>3, <2>4
       DEF MixThread, MixTest, GetFirst, Reset, Filter, Collect, MixAndSend
<1> QED
  BY <1>1, <1>2, <1>3, ThreadEndsLocks, DecThreadLocks DEF Worker, UsesDeletedHome

(* Every step keeps the locks with their threads.                          *)
LEMMA NextLocks == EndInv /\ LocksFollow /\ [EndNext]_endVars => LocksFollow'
<1> SUFFICES ASSUME EndInv, LocksFollow, [EndNext]_endVars PROVE LocksFollow'
  OBVIOUS
<1>1. ASSUME UNCHANGED <<at, lock>>, cancelled \subseteq cancelled' PROVE LocksFollow'
  BY <1>1 DEF LocksFollow, LocksOf, NetLock, DecLock
<1>2. CASE EndGridThread
  <2>1. UNCHANGED <<at, lock>> /\ cancelled \subseteq cancelled'
    BY <1>2 DEF EndGridThread, Begin, SetFlag, Cancel, ReleaseQueue, Destroy, Forget, Delete, Clear,
         Uncount,
                Unregister, Spin, workers
  <2> QED
    BY <1>1, <2>1
<1>3. CASE UNCHANGED endVars \/ (\E p \in Peers, k \in Kinds : HandleFrame(p, k))
                              \/ AddData \/ HandleUnregister
  <2>1. UNCHANGED <<at, lock, cancelled>>
    BY <1>3 DEF endVars, HandleFrame, AddData, HandleUnregister, Fails, workers
  <2> QED
    BY <1>1, <2>1
<1> QED
  BY <1>2, <1>3, WorkerLocks DEF EndNext

(* At the start every lock is free.                                        *)
LEMMA InitLocks == EndInit => LocksFollow
<1> SUFFICES ASSUME EndInit, NEW w \in Decoders PROVE LocksOf(w)
  BY DEF LocksFollow
<1>1. lock[NetLock(w)] = "free" /\ lock[DecLock(w)] = "free" /\ at[w] = "sleep"
  BY LocksApart DEF EndInit
<1> QED
  BY <1>1 DEF LocksOf, InNet, InDec

(* The locks of the queues fit where the decode threads are: a lock is     *)
(* left, for the grid thread to wait for without end, only by a thread     *)
(* that pthread_cancel ended inside it.  That is the one way but a use of  *)
(* something deleted that EndReturns grants.                               *)
THEOREM LocksStayWithThreads == EndSpec => []LocksFollow
BY InitEnd, NextEnd, InitLocks, NextLocks, PTL DEF EndSpec
-----------------------------------------------------------------------------
(* The order of the commands: the threads are told to stop before anything *)
(* they use is released or deleted.                                        *)


(* The commands that come before a command.                                *)
CancelsOf(o) == {<<"cancel", w>> : w \in ThreadsOf(o)}
Requires(c) ==
    IF c[1] = "release" THEN { <<"cancel", <<c[2][1], c[2][2]>> >> }
    ELSE IF c[1] = "destroy" THEN { <<"cancel", User(c[2])>> }
    ELSE IF c[1] = "delete" THEN CancelsOf(c[2][1])
    ELSE IF c[1] = "clear" THEN { <<"delete", c[2]>> }
    ELSE {}

(* What each of these commands requires was done before, or stands before  *)
(* it among them.                                                          *)
Elements(s) == {s[i] : i \in 1 .. Len(s)}
Ordered(s, before) ==
    \A i \in 1 .. Len(s) : Requires(s[i]) \subseteq before \cup {s[j] : j \in 1 .. i - 1}

(* More may have been done before.                                         *)
LEMMA OrderedMore ==
    ASSUME NEW s, NEW before, NEW more, before \subseteq more, Ordered(s, before)
    PROVE  Ordered(s, more)
BY DEF Ordered

(* Two parts of a program, the second after the first.                     *)
LEMMA OrderedConcat ==
    ASSUME NEW s \in Seq(Commands), NEW t \in Seq(Commands), NEW before,
           Ordered(s, before), Ordered(t, before \cup Elements(s))
    PROVE  /\ s \o t \in Seq(Commands)
           /\ Ordered(s \o t, before)
           /\ Elements(s) \subseteq Elements(s \o t)
           /\ Elements(t) \subseteq Elements(s \o t)
<1> DEFINE u == s \o t
<1>1. /\ u \in Seq(Commands) /\ Len(u) = Len(s) + Len(t)
      /\ Len(s) \in Nat /\ Len(t) \in Nat
      /\ \A i \in 1 .. Len(s) : u[i] = s[i]
      /\ \A i \in 1 .. Len(t) : u[Len(s) + i] = t[i]
  OBVIOUS
<1> HIDE DEF u
<1>2. Elements(s) \subseteq Elements(u)
  <2> SUFFICES ASSUME NEW i \in 1 .. Len(s) PROVE s[i] \in Elements(u)
    BY DEF Elements
  <2>1. i \in 1 .. Len(u) /\ u[i] = s[i]
    BY <1>1
  <2> QED
    BY <2>1 DEF Elements
<1>3. Elements(t) \subseteq Elements(u)
  <2> SUFFICES ASSUME NEW i \in 1 .. Len(t) PROVE t[i] \in Elements(u)
    BY DEF Elements
  <2>1. Len(s) + i \in 1 .. Len(u) /\ u[Len(s) + i] = t[i]
    BY <1>1
  <2> QED
    BY <2>1 DEF Elements
<1>4. ASSUME NEW i \in 1 .. Len(u), NEW r \in Requires(u[i]), r \notin before
      PROVE  r \in {u[j] : j \in 1 .. i - 1}
  <2>1. CASE i <= Len(s)
    <3>1. i \in 1 .. Len(s) /\ u[i] = s[i]
      BY <1>1, <2>1
    <3>2. PICK j \in 1 .. i - 1 : r = s[j]
      BY <1>4, <3>1 DEF Ordered
    <3>3. u[j] = s[j]
      BY <1>1, <2>1
    <3> QED
      BY <3>2, <3>3
  <2>2. CASE i > Len(s)
    <3>1. PICK k \in 1 .. Len(t) : i = Len(s) + k
      <4>1. i - Len(s) \in 1 .. Len(t) /\ i = Len(s) + (i - Len(s))
        BY <1>1, <2>2
      <4> QED
        BY <4>1
    <3>2. u[i] = t[k]
      BY <1>1, <3>1
    <3>3. r \in Elements(s) \/ \E j \in 1 .. k - 1 : r = t[j]
      BY <1>4, <3>2 DEF Ordered
    <3>4. ASSUME r \in Elements(s) PROVE r \in {u[j] : j \in 1 .. i - 1}
      <4>1. PICK j \in 1 .. Len(s) : r = s[j]
        BY <3>4 DEF Elements
      <4>2. j \in 1 .. i - 1 /\ u[j] = s[j]
        BY <1>1, <2>2
      <4> QED
        BY <4>1, <4>2
    <3>5. ASSUME NEW j \in 1 .. k - 1, r = t[j] PROVE r \in {u[m] : m \in 1 .. i - 1}
      <4>1. j \in 1 .. Len(t) /\ Len(s) + j \in 1 .. i - 1
        BY <1>1, <3>1
      <4>2. u[Len(s) + j] = t[j]
        BY <1>1, <4>1
      <4> QED
        BY <3>5, <4>1, <4>2
    <3> QED
      BY <3>3, <3>4, <3>5
  <2> QED
    BY <1>1, <2>1, <2>2
<1>5. Ordered(u, before)
  BY <1>4 DEF Ordered
<1> QED
  BY <1>1, <1>2, <1>3, <1>5 DEF u

(* Once the first command is done the others are still in order.           *)
LEMMA OrderedTail ==
    ASSUME NEW s \in Seq(Commands), s # <<>>, NEW before, Ordered(s, before),
           NEW then, before \subseteq then,
           Head(s) \in then \/ Head(s)[1] \notin {"cancel", "delete"}
    PROVE  Ordered(Tail(s), then)
<1> DEFINE u == Tail(s)
<1>1. /\ Len(u) = Len(s) - 1 /\ Len(s) \in Nat \ {0} /\ Head(s) = s[1]
      /\ \A i \in 1 .. Len(u) : u[i] = s[i + 1] /\ i + 1 \in 1 .. Len(s)
  OBVIOUS
<1> HIDE DEF u
<1>2. ASSUME NEW i \in 1 .. Len(u), NEW r \in Requires(u[i]), r \notin then
      PROVE  r \in {u[j] : j \in 1 .. i - 1}
  <2>1. u[i] = s[i + 1] /\ i + 1 \in 1 .. Len(s)
    BY <1>1
  <2>2. PICK j \in 1 .. (i + 1) - 1 : r = s[j]
    BY <1>2, <2>1 DEF Ordered
  <2>3. r[1] \in {"cancel", "delete"}
    BY <1>2 DEF Requires, CancelsOf
  <2>4. j # 1
    BY <1>1, <1>2, <2>2, <2>3
  <2>5. j - 1 \in 1 .. i - 1 /\ j - 1 \in 1 .. Len(u) /\ (j - 1) + 1 = j
    BY <1>1, <2>2, <2>4
  <2>6. u[j - 1] = s[j]
    BY <1>1, <2>5
  <2> QED
    BY <2>2, <2>5, <2>6
<1> QED
  BY <1>2 DEF Ordered, u

(* Commands that require nothing, and those that a program is made of.     *)
LEMMA RequiresWhat ==
    /\ \A c \in Commands :
          c[1] \notin {"release", "destroy", "delete", "clear"} => Requires(c) = {}
    /\ \A c \in Parts : Requires(<<"destroy", c>>) = { <<"cancel", User(c)>> }
    /\ \A l \in Locks : Requires(<<"release", l>>) = { <<"cancel", <<l[1], l[2]>> >> }
    /\ \A o \in Objects : Requires(<<"delete", <<o>> >>) = CancelsOf(o)
    /\ \A p \in Peers : Requires(<<"clear", <<p>> >>) = { <<"delete", <<p>> >> }
BY DEF Requires

(* Stop cancels the threads of a peer, or the mix threads.                 *)
CancelsFor(h) == {<<"cancel", <<h, k>> >> : k \in Kinds}

LEMMA OrderedStop ==
    ASSUME NEW h \in Peers \cup {"mix"}
    PROVE  /\ Stop(h) \in Seq(Commands) /\ Ordered(Stop(h), {})
           /\ CancelsFor(h) \subseteq Elements(Stop(h))
<1>1. ASSUME NEW k \in {"audio", "video"}, NEW before
      PROVE  /\ StopOf(h, k) \in Seq(Commands) /\ Ordered(StopOf(h, k), before)
             /\ k \in Kinds => <<"cancel", <<h, k>> >> \in Elements(StopOf(h, k))
  <2>1. StopOf(h, k) \in Seq(Commands)
    BY TameStop DEF Tame
  <2>2. CASE k \notin Kinds
    <3>1. StopOf(h, k) = <<>>
      BY <2>2 DEF StopOf
    <3> QED
      BY <2>1, <2>2, <3>1 DEF Ordered
  <2>3. CASE k \in Kinds
    <3> DEFINE w == <<h, k>>
               u == StopOf(h, k)
    <3>1. w \in Workers
      BY <2>3 DEF Workers, Mixers, Decoders
    <3>2. /\ Len(u) = 2 /\ u[1] = <<"flag", w>> /\ u[2] = <<"cancel", w>>
      BY <2>3 DEF StopOf
    <3> HIDE DEF w, u
    <3>3. <<"flag", w>> \in Commands /\ <<"cancel", w>> \in Commands
      BY <3>1, CommandsOf
    <3>4. Requires(u[1]) = {} /\ Requires(u[2]) = {}
      BY <3>2, <3>3, RequiresWhat
    <3>5. Ordered(u, before) /\ u[2] \in Elements(u)
      BY <3>2, <3>4 DEF Ordered, Elements
    <3> QED
      BY <2>1, <3>2, <3>5 DEF w, u
  <2> QED
    BY <2>2, <2>3
<1> DEFINE s == StopOf(h, "audio")
           t == StopOf(h, "video")
<1>2. /\ s \in Seq(Commands) /\ t \in Seq(Commands)
      /\ Ordered(s, {}) /\ Ordered(t, {} \cup Elements(s))
      /\ "audio" \in Kinds => <<"cancel", <<h, "audio">> >> \in Elements(s)
      /\ "video" \in Kinds => <<"cancel", <<h, "video">> >> \in Elements(t)
  BY <1>1
<1>3. Stop(h) = s \o t
  BY DEF Stop
<1> HIDE DEF s, t
<1>4. /\ Stop(h) \in Seq(Commands) /\ Ordered(Stop(h), {})
      /\ Elements(s) \subseteq Elements(Stop(h)) /\ Elements(t) \subseteq Elements(Stop(h))
  BY <1>2, <1>3, OrderedConcat
<1> QED
  BY <1>2, <1>4, KindsAssumption DEF CancelsFor

(* The queues of a peer are released once its threads are cancelled.       *)
LEMMA OrderedRelease ==
    ASSUME NEW p \in Peers, NEW before, CancelsFor(p) \subseteq before
    PROVE  ReleaseQueues(p) \in Seq(Commands) /\ Ordered(ReleaseQueues(p), before)
<1>1. ASSUME NEW k \in {"audio", "video"}, NEW more, before \subseteq more
      PROVE  ReleaseOf(p, k) \in Seq(Commands) /\ Ordered(ReleaseOf(p, k), more)
  <2>1. ReleaseOf(p, k) \in Seq(Commands)
    BY TameRelease DEF Tame
  <2>2. CASE k \notin Kinds
    <3>1. ReleaseOf(p, k) = <<>>
      BY <2>2 DEF ReleaseOf
    <3> QED
      BY <2>1, <3>1 DEF Ordered
  <2>3. CASE k \in Kinds
    <3> DEFINE m == <<p, k, "net">>
               n == <<p, k, "dec">>
               u == ReleaseOf(p, k)
    <3>1. m \in Locks /\ n \in Locks /\ m[1] = p /\ m[2] = k /\ n[1] = p /\ n[2] = k
      BY <2>3 DEF Locks
    <3>2. Len(u) = 2 /\ u[1] = <<"release", m>> /\ u[2] = <<"release", n>>
      BY <2>3 DEF ReleaseOf
    <3>3. <<"cancel", <<p, k>> >> \in more
      BY <1>1, <2>3 DEF CancelsFor
    <3> HIDE DEF m, n, u
    <3>4. Requires(u[1]) \subseteq more /\ Requires(u[2]) \subseteq more
      <4> DEFINE x == <<"cancel", <<p, k>> >>
      <4>1. <<m[1], m[2]>> = <<p, k>> /\ <<n[1], n[2]>> = <<p, k>>
        BY <3>1
      <4>2. Requires(<<"release", m>>) = {x} /\ Requires(<<"release", n>>) = {x}
        BY <3>1, <4>1, RequiresWhat
      <4>3. x \in more
        BY <3>3
      <4> HIDE DEF x
      <4> QED
        BY <3>2, <4>2, <4>3
    <3>5. \A i \in 1 .. Len(u) : Requires(u[i]) \subseteq more
      <4>1. \A i \in 1 .. Len(u) : i = 1 \/ i = 2
        BY <3>2
      <4> QED
        BY <3>4, <4>1
    <3>6. Ordered(u, more)
      BY <3>5 DEF Ordered
    <3> QED
      BY <2>1, <3>6 DEF u
  <2> QED
    BY <2>2, <2>3
<1> DEFINE s == ReleaseOf(p, "audio")
           t == ReleaseOf(p, "video")
<1>2. /\ s \in Seq(Commands) /\ t \in Seq(Commands)
      /\ Ordered(s, before) /\ Ordered(t, before \cup Elements(s))
  BY <1>1
<1>3. ReleaseQueues(p) = s \o t
  BY DEF ReleaseQueues
<1> HIDE DEF s, t
<1> QED
  BY <1>2, <1>3, OrderedConcat

(* A frame is destroyed once the mix thread of its kind is cancelled, and  *)
(* a decoder once its decode thread is.                                    *)
LEMMA OrderedOfPart ==
    ASSUME NEW p \in Peers, NEW k \in {"audio", "video"}, NEW x \in {"frame", "decoder"},
           NEW before, CancelsFor("mix") \cup CancelsFor(p) \subseteq before
    PROVE  DestoryOf(p, k, x) \in Seq(Commands) /\ Ordered(DestoryOf(p, k, x), before)
<1>1. DestoryOf(p, k, x) \in Seq(Commands)
  BY TameDestory DEF Tame
<1>2. CASE k \notin Kinds
  <2>1. DestoryOf(p, k, x) = <<>>
    BY <1>2 DEF DestoryOf
  <2> QED
    BY <1>1, <2>1 DEF Ordered
<1>3. CASE k \in Kinds
  <2> DEFINE c == <<p, k, x>>
             u == DestoryOf(p, k, x)
  <2>1. c \in Parts
    BY <1>3 DEF Parts
  <2>2. Len(u) = 2 /\ u[1] = <<"destroy", c>> /\ u[2] = <<"forget", c>>
    BY <1>3 DEF DestoryOf
  <2>3. <<"cancel", User(c)>> \in before
    <3>1. <<"cancel", <<p, k>> >> \in before /\ <<"cancel", <<"mix", k>> >> \in before
      BY <1>3 DEF CancelsFor
    <3>2. User(c) \in { <<p, k>>, <<"mix", k>> }
      BY DEF User
    <3> QED
      BY <3>1, <3>2
  <2> HIDE DEF c, u
  <2>4. Requires(u[1]) \subseteq before /\ Requires(u[2]) = {}
    <3>1. <<"forget", c>> \in Commands
      BY <2>1, CommandsOf
    <3> QED
      BY <2>1, <2>2, <2>3, <3>1, RequiresWhat
  <2>5. \A i \in 1 .. Len(u) : i = 1 \/ i = 2
    BY <2>2
  <2>6. Ordered(u, before)
    BY <2>4, <2>5 DEF Ordered
  <2> QED
    BY <1>1, <2>6 DEF u
<1> QED
  BY <1>2, <1>3

(* What a peer has is destroyed once all the threads that use it are.      *)
LEMMA OrderedParts ==
    ASSUME NEW p \in Peers, NEW before, CancelsFor("mix") \cup CancelsFor(p) \subseteq before
    PROVE  DestoryParts(p) \in Seq(Commands) /\ Ordered(DestoryParts(p), before)
<1> DEFINE a == DestoryOf(p, "audio", "frame")
           b == DestoryOf(p, "video", "frame")
           d == DestoryOf(p, "audio", "decoder")
           e == DestoryOf(p, "video", "decoder")
           Good(s) == s \in Seq(Commands) /\ Ordered(s, before)
<1>1. \A more : before \subseteq more =>
         /\ a \in Seq(Commands) /\ Ordered(a, more)
         /\ b \in Seq(Commands) /\ Ordered(b, more)
         /\ d \in Seq(Commands) /\ Ordered(d, more)
         /\ e \in Seq(Commands) /\ Ordered(e, more)
  <2> TAKE more
  <2> HAVE before \subseteq more
  <2>1. CancelsFor("mix") \cup CancelsFor(p) \subseteq more
    OBVIOUS
  <2> QED
    BY <2>1, OrderedOfPart
<1>2. DestoryParts(p) = a \o b \o d \o e
  BY DEF DestoryParts
<1> HIDE DEF a, b, d, e
<1>3. Good(a)
  BY <1>1
<1>4. Good(a \o b)
  BY <1>1, <1>3, OrderedConcat
<1>5. Good(a \o b \o d)
  BY <1>1, <1>4, OrderedConcat
<1>6. Good(a \o b \o d \o e)
  BY <1>1, <1>5, OrderedConcat
<1> QED
  BY <1>2, <1>6

(* DestoryNP stops the threads of a peer, releases its queues and destroys *)
(* what it has, for which the mix threads are stopped before.              *)
LEMMA OrderedDestory ==
    ASSUME NEW p \in Peers, NEW before, CancelsFor("mix") \subseteq before
    PROVE  /\ DestoryNP(p) \in Seq(Commands) /\ Ordered(DestoryNP(p), before)
           /\ CancelsFor(p) \subseteq Elements(DestoryNP(p))
<1> DEFINE s == Stop(p)
           t == ReleaseQueues(p)
           u == DestoryParts(p)
<1>1. /\ s \in Seq(Commands) /\ Ordered(s, {}) /\ CancelsFor(p) \subseteq Elements(s)
      /\ CancelsFor(p) \subseteq before \cup Elements(s)
  BY OrderedStop
<1>2. Ordered(s, before)
  BY <1>1, OrderedMore
<1>3. t \in Seq(Commands) /\ Ordered(t, before \cup Elements(s))
  BY <1>1, OrderedRelease
<1>4. DestoryNP(p) = s \o t \o u
  BY DEF DestoryNP
<1> HIDE DEF s, t
<1>5. /\ s \o t \in Seq(Commands) /\ Ordered(s \o t, before)
      /\ Elements(s) \subseteq Elements(s \o t)
  BY <1>1, <1>2, <1>3, OrderedConcat
<1>6. u \in Seq(Commands) /\ Ordered(u, before \cup Elements(s \o t))
  <2>1. CancelsFor("mix") \cup CancelsFor(p) \subseteq before \cup Elements(s \o t)
    BY <1>1, <1>5
  <2> QED
    BY <2>1, OrderedParts
<1> HIDE DEF u
<1> QED
  BY <1>1, <1>4, <1>5, <1>6, OrderedConcat

(* The cancels that a deletion requires.                                   *)
LEMMA CancelsSplit ==
    /\ CancelsOf("mixer") = CancelsFor("mix") /\ CancelsOf("session") = CancelsFor("mix")
    /\ \A p \in Peers : CancelsOf(p) = CancelsFor("mix") \cup CancelsFor(p)
<1>1. CancelsFor("mix") = {<<"cancel", w>> : w \in Mixers}
  BY DEF CancelsFor, Mixers
<1>2. \A p \in Peers : CancelsFor(p) = {<<"cancel", w>> : w \in {v \in Decoders : v[1] = p}}
  <2> TAKE p \in Peers
  <2>1. {v \in Decoders : v[1] = p} = {<<p, k>> : k \in Kinds}
    BY DEF Decoders
  <2> QED
    BY <2>1 DEF CancelsFor
<1>3. ThreadsOf("mixer") = Mixers /\ ThreadsOf("session") = Mixers
  BY DEF ThreadsOf, Decoders, Peers
<1> QED
  BY <1>1, <1>2, <1>3 DEF CancelsOf, ThreadsOf

(* The whole of what the grid thread does is in order.                     *)
LEMMA OrderedProgram == Ordered(DestorySession \o Destructor, {})
<1> DEFINE minor == << <<"delete", <<"minor">> >>, <<"clear", <<"minor">> >>, <<"uncount", <<>> >> >>
           lead == << <<"delete", <<"lead">> >>, <<"clear", <<"lead">> >> >>
           mixer == << <<"delete", <<"mixer">> >> >>
           a == Stop("mix")
           b == DestoryNP("minor")
           d == DestoryNP("lead")
           mix == CancelsFor("mix")
<1>1. a \in Seq(Commands) /\ Ordered(a, {}) /\ mix \subseteq Elements(a)
  BY OrderedStop
<1>2. "minor" \in Peers /\ "lead" \in Peers /\ {"minor", "lead", "mixer", "session"} \subseteq Objects
  BY DEF Peers, Objects
<1>3. /\ b \in Seq(Commands) /\ \A before : mix \subseteq before => Ordered(b, before)
      /\ CancelsFor("minor") \subseteq Elements(b)
  BY <1>2, OrderedDestory
<1>4. /\ d \in Seq(Commands) /\ \A before : mix \subseteq before => Ordered(d, before)
      /\ CancelsFor("lead") \subseteq Elements(d)
  BY <1>2, OrderedDestory
<1>5. ASSUME NEW before, mix \subseteq before, CancelsFor("minor") \subseteq before
      PROVE  minor \in Seq(Commands) /\ Ordered(minor, before)
  <2>1. /\ minor[1] \in Commands /\ minor[2] \in Commands /\ minor[3] \in Commands
        /\ Requires(minor[1]) \subseteq before /\ Requires(minor[2]) = {minor[1]}
        /\ Requires(minor[3]) = {}
    BY <1>2, <1>5, CommandsOf, RequiresWhat, CancelsSplit
  <2>2. Len(minor) = 3 /\ minor \in Seq(Commands)
    BY <2>1
  <2> HIDE DEF minor
  <2> QED
    BY <2>1, <2>2 DEF Ordered
<1>6. ASSUME NEW before, mix \subseteq before, CancelsFor("lead") \subseteq before
      PROVE  lead \in Seq(Commands) /\ Ordered(lead, before)
  <2>1. /\ lead[1] \in Commands /\ lead[2] \in Commands
        /\ Requires(lead[1]) \subseteq before /\ Requires(lead[2]) = {lead[1]}
    BY <1>2, <1>6, CommandsOf, RequiresWhat, CancelsSplit
  <2>2. Len(lead) = 2 /\ lead \in Seq(Commands)
    BY <2>1
  <2> HIDE DEF lead
  <2> QED
    BY <2>1, <2>2 DEF Ordered
<1>7. ASSUME NEW before, mix \subseteq before
      PROVE  /\ mixer \in Seq(Commands) /\ Ordered(mixer, before)
             /\ Destructor \in Seq(Commands) /\ Ordered(Destructor, before)
  <2>1. mixer[1] \in Commands /\ Requires(mixer[1]) \subseteq before
    BY <1>2, <1>7, CommandsOf, RequiresWhat, CancelsSplit
  <2>2. Len(mixer) = 1 /\ mixer \in Seq(Commands)
    BY <2>1
  <2> DEFINE t == Destructor
  <2>3. /\ t[1] \in Commands /\ t[2] \in Commands /\ t[3] \in Commands
        /\ Requires(t[1]) = {} /\ Requires(t[2]) = {} /\ Requires(t[3]) \subseteq before
    <3>1. /\ t[1] = <<"unregister", <<>> >> /\ t[2] = <<"spin", <<>> >>
          /\ t[3] = <<"delete", <<"session">> >>
      BY DEF Destructor
    <3> HIDE DEF t
    <3> QED
      BY <1>2, <1>7, <3>1, CommandsOf, RequiresWhat, CancelsSplit
  <2>4. Len(t) = 3 /\ t \in Seq(Commands)
    BY <2>3 DEF Destructor
  <2> HIDE DEF mixer, t
  <2>5. Ordered(mixer, before)
    BY <2>1, <2>2 DEF Ordered
  <2>6. Ordered(t, before)
    BY <2>3, <2>4 DEF Ordered
  <2> QED
    BY <2>2, <2>4, <2>5, <2>6 DEF t
<1>8. DestorySession \o Destructor = a \o b \o minor \o d \o lead \o mixer \o Destructor
  BY DEF DestorySession
<1> DEFINE Good(s) == s \in Seq(Commands) /\ Ordered(s, {}) /\ mix \subseteq Elements(s)
<1>9. ASSUME NEW s, Good(s), NEW t \in Seq(Commands), Ordered(t, Elements(s))
      PROVE  Good(s \o t) /\ Elements(t) \subseteq Elements(s \o t)
  <2>1. Elements(s) = {} \cup Elements(s)
    OBVIOUS
  <2> HIDE DEF mix
  <2>2. Ordered(t, {} \cup Elements(s))
    BY <1>9, <2>1
  <2> QED
    BY <1>9, <2>2, OrderedConcat
<1> HIDE DEF minor, lead, mixer, a, b, d
<1>10. Good(a)
  BY <1>1
<1> HIDE DEF Good, mix
<1>11. Good(a \o b) /\ CancelsFor("minor") \subseteq Elements(a \o b)
  <2>1. mix \subseteq Elements(a)
    BY <1>10 DEF Good
  <2> QED
    BY <1>3, <1>9, <1>10, <2>1
<1>12. Good(a \o b \o minor)
  <2>1. mix \subseteq Elements(a \o b)
    BY <1>11 DEF Good
  <2> QED
    BY <1>5, <1>9, <1>11, <2>1
<1>13. Good(a \o b \o minor \o d) /\ CancelsFor("lead") \subseteq Elements(a \o b \o minor \o d)
  <2>1. mix \subseteq Elements(a \o b \o minor)
    BY <1>12 DEF Good
  <2> QED
    BY <1>4, <1>9, <1>12, <2>1
<1>14. Good(a \o b \o minor \o d \o lead)
  <2>1. mix \subseteq Elements(a \o b \o minor \o d)
    BY <1>13 DEF Good
  <2> QED
    BY <1>6, <1>9, <1>13, <2>1
<1>15. Good(a \o b \o minor \o d \o lead \o mixer)
  <2>1. mix \subseteq Elements(a \o b \o minor \o d \o lead)
    BY <1>14 DEF Good
  <2> QED
    BY <1>7, <1>9, <1>14, <2>1
<1>16. Good(a \o b \o minor \o d \o lead \o mixer \o Destructor)
  <2>1. mix \subseteq Elements(a \o b \o minor \o d \o lead \o mixer)
    BY <1>15 DEF Good
  <2> QED
    BY <1>7, <1>9, <1>15, <2>1
<1> QED
  BY <1>8, <1>16 DEF Good
-----------------------------------------------------------------------------
(* What is done, for the commands that others require.                     *)
DoneBefore == {<<"cancel", w>> : w \in cancelled} \cup {<<"delete", <<o>> >> : o \in freed}

(* What is deleted has had all its threads cancelled before, and a pointer *)
(* is cleared only when its peer is deleted.                               *)
StoppedFirst == \A o \in freed : ThreadsOf(o) \subseteq cancelled
ClearedLast == Peers \ ptr \subseteq freed

(* A frame or a decoder is destroyed once its thread is cancelled.         *)
PartsStopped == \A c \in Parts : part[c] \in {"deleted", "gone"} => User(c) \in cancelled

StopInv == Ordered(todo, DoneBefore) /\ StoppedFirst /\ ClearedLast /\ PartsStopped

(* A frame that is mixed, or a decoder that is used, was there once.       *)
PartsUsed ==
    /\ \A w \in Mixers : at[w] = "mix minor" => part[CurFrame(w)] # "unset"
    /\ \A w \in Decoders : at[w] = "decode" => part[Decoder(w)] # "unset"

(* What is done is told by the threads cancelled and the objects deleted.  *)
LEMMA DoneMeans ==
    /\ \A w : <<"cancel", w>> \in DoneBefore <=> w \in cancelled
    /\ \A o : <<"delete", <<o>> >> \in DoneBefore <=> o \in freed
<1>1. \A w, o : <<"cancel", w>> # <<"delete", <<o>> >>
  OBVIOUS
<1>2. \A v, w : <<"cancel", v>> = <<"cancel", w>> => v = w
  OBVIOUS
<1>3. \A v, w : <<"delete", <<v>> >> = <<"delete", <<w>> >> => v = w
  OBVIOUS
<1> QED
  BY <1>1, <1>2, <1>3 DEF DoneBefore

(* What the first command requires is done.                                *)
LEMMA HeadReady ==
    ASSUME todo \in Seq(Commands), todo # <<>>, Ordered(todo, DoneBefore)
    PROVE  Requires(Head(todo)) \subseteq DoneBefore
<1>1. 1 \in 1 .. Len(todo) /\ Head(todo) = todo[1] /\ {todo[j] : j \in 1 .. 1 - 1} = {}
  BY SMT
<1> QED
  BY <1>1 DEF Ordered

(* The grid thread goes on in the order of its commands.                   *)
LEMMA NextReady ==
    ASSUME todo \in Seq(Commands), todo # <<>>, Ordered(todo, DoneBefore), todo' = Tail(todo),
           cancelled \subseteq cancelled', freed \subseteq freed',
           Head(todo)[1] = "cancel" => What \in cancelled',
           Head(todo)[1] = "delete" => What[1] \in freed'
    PROVE  Ordered(todo, DoneBefore)'
<1>1. DoneBefore \subseteq DoneBefore'
  BY DEF DoneBefore
<1>2. Head(todo) \in Commands
  OBVIOUS
<1>3. ASSUME Head(todo)[1] = "cancel" PROVE Head(todo) \in DoneBefore'
  <2>1. PICK w \in Workers : Head(todo) = <<"cancel", w>>
    BY <1>2, <1>3 DEF Commands
  <2>2. What = w
    BY <2>1 DEF What
  <2> QED
    BY <1>3, <2>1, <2>2 DEF DoneBefore
<1>4. ASSUME Head(todo)[1] = "delete" PROVE Head(todo) \in DoneBefore'
  <2>1. PICK o \in Objects : Head(todo) = <<"delete", <<o>> >>
    BY <1>2, <1>4 DEF Commands
  <2>2. What[1] = o
    BY <2>1 DEF What
  <2> QED
    BY <1>4, <2>1, <2>2 DEF DoneBefore
<1> DEFINE then == DoneBefore'
<1>5. Head(todo) \in then \/ Head(todo)[1] \notin {"cancel", "delete"}
  BY <1>3, <1>4
<1>6. DoneBefore \subseteq then
  BY <1>1
<1> HIDE DEF then
<1>7. Ordered(Tail(todo), then)
  BY <1>5, <1>6, OrderedTail
<1> QED
  BY <1>7 DEF then, Ordered

(* At the start nothing is done, and the first command requires nothing.   *)
LEMMA InitStop == EndInit => StopInv
<1> SUFFICES ASSUME EndInit PROVE StopInv
  OBVIOUS
<1>1. /\ Len(todo) = 1 /\ todo[1] = <<"begin", <<>> >>
      /\ Requires(todo[1]) = {}
  BY CommandsOf, RequiresWhat DEF EndInit
<1>2. Ordered(todo, DoneBefore)
  <2>1. \A i \in 1 .. Len(todo) : i = 1
    BY <1>1
  <2> QED
    BY <1>1, <2>1 DEF Ordered
<1>3. freed = {} /\ ptr = Peers /\ \A c \in Parts : part[c] \in {"unset", "set"}
  BY DEF EndInit
<1> QED
  BY <1>2, <1>3 DEF StopInv, StoppedFirst, ClearedLast, PartsStopped

(* The steps of the grid thread.                                           *)
LEMMA GridThreadStop == EndInv /\ StopInv /\ EndGridThread => StopInv'
<1> SUFFICES ASSUME EndInv, StopInv, EndGridThread PROVE StopInv'
  OBVIOUS
<1>0. /\ todo \in Seq(Commands) /\ Ordered(todo, DoneBefore)
      /\ StoppedFirst /\ ClearedLast /\ PartsStopped
  BY DEF EndInv, EndTypeOK, StopInv
<1>1. todo # <<>>
  BY DEF EndGridThread, Begin, SetFlag, Cancel, ReleaseQueue, Destroy, Forget, Delete, Clear,
         Uncount,
         Unregister, Spin, Doing
<1>2. Head(todo) \in Commands
  BY <1>0, <1>1
<1>3. Requires(Head(todo)) \subseteq DoneBefore
  BY <1>0, <1>1, HeadReady
<1>4. CASE Begin
  <2>1. todo' = DestorySession \o Destructor /\ UNCHANGED <<cancelled, freed, ptr, part>>
    BY <1>4 DEF Begin, workers, tables
  <2>2. Ordered(todo', DoneBefore')
    <3> DEFINE s == DestorySession \o Destructor
               then == DoneBefore'
    <3>1. Ordered(s, {}) /\ {} \subseteq then
      BY OrderedProgram
    <3>2. todo' = s
      BY <2>1
    <3> HIDE DEF s, then
    <3>3. Ordered(s, then)
      BY <3>1, OrderedMore
    <3> QED
      BY <3>2, <3>3 DEF then
  <2> QED
    BY <1>0, <2>1, <2>2 DEF StopInv, StoppedFirst, ClearedLast, PartsStopped, Ordered
<1>5. CASE SetFlag \/ ReleaseQueue \/ Uncount \/ Unregister \/ Spin
  <2>1. /\ todo' = Tail(todo) /\ UNCHANGED <<cancelled, freed, ptr, part>>
        /\ Head(todo)[1] \notin {"cancel", "delete"}
    BY <1>5 DEF SetFlag, ReleaseQueue, Uncount, Unregister, Spin, Doing, Done, workers, tables
  <2>2. Ordered(todo, DoneBefore)'
    BY <1>0, <1>1, <2>1, NextReady
  <2> QED
    BY <1>0, <2>1, <2>2 DEF StopInv, StoppedFirst, ClearedLast, PartsStopped
<1>6. CASE Cancel
  <2>1. /\ todo' = Tail(todo) /\ UNCHANGED <<freed, ptr, part>> /\ Head(todo)[1] = "cancel"
        /\ cancelled' = cancelled \cup {What}
    BY <1>6 DEF Cancel, Doing, Done, tables
  <2>2. Ordered(todo, DoneBefore)'
    BY <1>0, <1>1, <2>1, NextReady
  <2> QED
    BY <1>0, <2>1, <2>2 DEF StopInv, StoppedFirst, ClearedLast, PartsStopped
<1>7. CASE Delete
  <2>1. /\ todo' = Tail(todo) /\ UNCHANGED <<cancelled, ptr, part>> /\ Head(todo)[1] = "delete"
        /\ freed' = freed \cup {What[1]}
    BY <1>7 DEF Delete, Doing, Done, workers
  <2>2. PICK o \in Objects : Head(todo) = <<"delete", <<o>> >>
    BY <1>2, <2>1 DEF Commands
  <2>3. What[1] = o
    BY <2>2 DEF What
  <2>4. ThreadsOf(o) \subseteq cancelled
    <3>1. CancelsOf(o) \subseteq DoneBefore
      BY <1>3, <2>2, RequiresWhat
    <3> QED
      BY <3>1, DoneMeans DEF CancelsOf
  <2>5. Ordered(todo, DoneBefore)'
    BY <1>0, <1>1, <2>1, NextReady
  <2> QED
    BY <1>0, <2>1, <2>3, <2>4, <2>5 DEF StopInv, StoppedFirst, ClearedLast, PartsStopped
<1>8. CASE Clear
  <2>1. /\ todo' = Tail(todo) /\ UNCHANGED <<cancelled, freed, part>> /\ Head(todo)[1] = "clear"
        /\ ptr' = ptr \ {What[1]}
    BY <1>8 DEF Clear, Doing, Done, workers
  <2>2. PICK p \in Peers : Head(todo) = <<"clear", <<p>> >>
    BY <1>2, <2>1 DEF Commands
  <2>3. What[1] = p
    BY <2>2 DEF What
  <2>4. p \in freed
    BY <1>3, <2>2, RequiresWhat, DoneMeans
  <2>5. Ordered(todo, DoneBefore)'
    BY <1>0, <1>1, <2>1, NextReady
  <2> QED
    BY <1>0, <2>1, <2>3, <2>4, <2>5 DEF StopInv, StoppedFirst, ClearedLast, PartsStopped
<1>9. CASE Destroy
  <2>1. /\ todo' = Tail(todo) /\ UNCHANGED <<cancelled, freed, ptr>> /\ Head(todo)[1] = "destroy"
        /\ part' \in {part, [part EXCEPT ![What] = "deleted"]}
    BY <1>9 DEF Destroy, Doing, Done, workers
  <2>2. PICK c \in Parts : Head(todo) = <<"destroy", c>>
    BY <1>2, <2>1 DEF Commands
  <2>3. What = c
    BY <2>2 DEF What
  <2>4. User(c) \in cancelled
    BY <1>3, <2>2, RequiresWhat, DoneMeans
  <2>5. Ordered(todo, DoneBefore)'
    BY <1>0, <1>1, <2>1, NextReady
  <2>6. PartsStopped'
    BY <1>0, <2>1, <2>3, <2>4 DEF PartsStopped, EndInv, EndTypeOK
  <2> QED
    BY <1>0, <2>1, <2>5, <2>6 DEF StopInv, StoppedFirst, ClearedLast
<1>10. CASE Forget
  <2>1. /\ todo' = Tail(todo) /\ UNCHANGED <<cancelled, freed, ptr>> /\ Head(todo)[1] = "forget"
        /\ part' = IF part[What] = "deleted" THEN [part EXCEPT ![What] = "gone"] ELSE part
    BY <1>10 DEF Forget, Doing, Done, workers
  <2>2. Ordered(todo, DoneBefore)'
    BY <1>0, <1>1, <2>1, NextReady
  <2>3. PartsStopped'
    BY <1>0, <2>1 DEF PartsStopped, EndInv, EndTypeOK
  <2> QED
    BY <1>0, <2>1, <2>2, <2>3 DEF StopInv, StoppedFirst, ClearedLast
<1> QED
  BY <1>4, <1>5, <1>6, <1>7, <1>8, <1>9, <1>10 DEF EndGridThread

(* A thread sets one part.                                                 *)
LEMMA SetsPart ==
    ASSUME EndInv, NEW c, part' = [part EXCEPT ![c] = "set"]
    PROVE  \A x \in Parts : part'[x] = IF x = c THEN "set" ELSE part[x]
BY DEF EndInv, EndTypeOK

(* Every step: the other threads cancel, delete and clear nothing.         *)
LEMMA NextStop == EndInv /\ StopInv /\ [EndNext]_endVars => StopInv'
<1> SUFFICES ASSUME EndInv, StopInv, [EndNext]_endVars, ~EndGridThread PROVE StopInv'
  BY GridThreadStop
<1>0. ASSUME UNCHANGED <<todo, cancelled, freed, ptr>>,
             \A c \in Parts : part'[c] \in {part[c], "set"}
      PROVE  StopInv'
  BY <1>0 DEF StopInv, StoppedFirst, ClearedLast, PartsStopped, Ordered, DoneBefore
<1>1. CASE UNCHANGED endVars
  BY <1>0, <1>1 DEF endVars
<1>2. CASE EndNext
  <2>1. ASSUME Fails PROVE StopInv'
    BY <1>0, <2>1 DEF Fails, workers, tables
  <2>2. ASSUME NEW w \in Workers, Worker(w) PROVE StopInv'
    <3>1. CASE WakeUp(w) \/ ThreadEnds(w)
      BY <1>0, <3>1 DEF WakeUp, ThreadEnds, tables
    <3>2. CASE DecThread(w)
      <4>1. CASE Decode(w) \/ Decoding(w)
        BY <1>0, <2>1, <4>1, SetsPart DEF Decode, Decoding, tables
      <4> QED
        BY <1>0, <3>2, <4>1 DEF DecThread, Test, ReleaseNetQueue, ReleaseDecQueue, LoopFrames,
                                EndLoop, Enter, Leave, tables
    <3>3. CASE MixThread(w)
      <4>1. ASSUME NEW to, MixGoes(w, to) PROVE StopInv'
        BY <1>0, <4>1 DEF MixGoes, tables
      <4>2. CASE SetCur(w)
        BY <1>0, <2>1, <4>2, SetsPart DEF SetCur
      <4> QED
        BY <2>1, <3>3, <4>1, <4>2
           DEF MixThread, MixTest, GetFirst, Reset, Filter, Collect, MixAndSend
    <3> QED
      BY <2>1, <2>2, <3>1, <3>2, <3>3 DEF Worker, UsesDeletedHome
  <2>3. CASE (\E p \in Peers, k \in Kinds : HandleFrame(p, k)) \/ AddData \/ HandleUnregister
    BY <1>0, <2>1, <2>3 DEF HandleFrame, AddData, HandleUnregister, workers, tables
  <2> QED
    BY <1>2, <2>2, <2>3 DEF EndNext
<1> QED
  BY <1>1, <1>2

(* The threads and what they use.                                          *)
LEMMA PartsOf ==
    /\ \A w \in Mixers : w \in Workers /\ CurFrame(w) \in Parts /\ User(CurFrame(w)) = w
    /\ \A w \in Decoders : w \in Workers /\ Decoder(w) \in Parts /\ User(Decoder(w)) = w
BY DEF Mixers, Decoders, Workers, Parts, Peers, CurFrame, Decoder, User

(* A frame is at the mix, and a net frame at the decoder, only when the    *)
(* peer has it, and has had it since.                                      *)
LEMMA UsedGoes ==
    ASSUME EndInv, PartsUsed, NEW w \in Workers, NEW to, at' = [at EXCEPT ![w] = to],
           \A c \in Parts : part[c] # "unset" => part'[c] # "unset",
           w \in Mixers /\ to = "mix minor" => part'[CurFrame(w)] # "unset",
           w \in Decoders /\ to = "decode" => part'[Decoder(w)] # "unset"
    PROVE  PartsUsed'
<1>1. \A v \in Workers : at'[v] = IF v = w THEN to ELSE at[v]
  BY DEF EndInv
<1> QED
  BY <1>1, PartsOf DEF PartsUsed, CurFrame, Decoder

(* Every step keeps it: what a peer had once is never unset again.         *)
LEMMA NextUsed == EndInv /\ PartsUsed /\ [EndNext]_endVars => PartsUsed'
<1> SUFFICES ASSUME EndInv, PartsUsed, [EndNext]_endVars PROVE PartsUsed'
  OBVIOUS
<1> DEFINE Keeps == \A c \in Parts : part[c] # "unset" => part'[c] # "unset"
<1>1. ASSUME UNCHANGED at, Keeps PROVE PartsUsed'
  BY <1>1, PartsOf DEF PartsUsed, CurFrame, Decoder
<1>2. ASSUME UNCHANGED part PROVE Keeps
  BY <1>2
<1>3. CASE EndGridThread
  <2>1. UNCHANGED at
    BY <1>3 DEF EndGridThread, Begin, SetFlag, Cancel, ReleaseQueue, Destroy, Forget, Delete,
                Clear, Uncount, Unregister, Spin, workers
  <2>2. \E x \in {"deleted", "gone"} : part' \in {part, [part EXCEPT ![What] = x]}
    BY <1>3 DEF EndGridThread, Begin, SetFlag, Cancel, ReleaseQueue, Destroy, Forget, Delete,
                Clear, Uncount, Unregister, Spin, tables
  <2>3. Keeps
    BY <2>2 DEF EndInv, EndTypeOK
  <2> QED
    BY <1>1, <2>1, <2>3
<1>4. CASE UNCHANGED endVars \/ (\E p \in Peers, k \in Kinds : HandleFrame(p, k))
                              \/ AddData \/ HandleUnregister
  <2>1. UNCHANGED <<at, part>>
    BY <1>4 DEF endVars, HandleFrame, AddData, HandleUnregister, Fails, workers, tables
  <2> QED
    BY <1>1, <2>1
<1>5. ASSUME Fails PROVE PartsUsed'
  <2>1. UNCHANGED <<at, part>>
    BY <1>5 DEF Fails, workers, tables
  <2> QED
    BY <1>1, <2>1
<1>6. ASSUME NEW w \in Workers, NEW to, Goes(w, to), UNCHANGED part,
             to # "decode",
             w \in Mixers /\ to = "mix minor" => part[CurFrame(w)] # "unset"
      PROVE  PartsUsed'
  BY <1>6, UsedGoes DEF Goes
<1>7. ASSUME NEW w \in Workers, Worker(w) PROVE PartsUsed'
  <2>1. CASE UsesDeletedHome(w)
    BY <1>5, <2>1 DEF UsesDeletedHome
  <2>2. CASE WakeUp(w) \/ ThreadEnds(w)
    BY <1>6, <2>2 DEF WakeUp, ThreadEnds, tables
  <2>3. CASE w \in Decoders /\ DecThread(w)
    <3>1. CASE Decode(w)
      <4>1. CASE Fails
        BY <1>5, <4>1
      <4>2. CASE ~Fails
        <5>1. Goes(w, "decode") /\ part' = [part EXCEPT ![Decoder(w)] = "set"]
          BY <3>1, <4>2 DEF Decode
        <5>2. \A c \in Parts : part'[c] = IF c = Decoder(w) THEN "set" ELSE part[c]
          BY <5>1, SetsPart
        <5>3. w \notin Mixers
          BY <2>3, WorkersApart
        <5> QED
          <6>1. Keeps /\ part'[Decoder(w)] # "unset"
            BY <2>3, <5>2, PartsOf
          <6>2. at' = [at EXCEPT ![w] = "decode"]
            BY <5>1 DEF Goes
          <6> HIDE DEF PartsUsed
          <6> QED
            BY <5>3, <6>1, <6>2, UsedGoes
      <4> QED
        BY <4>1, <4>2
    <3>2. CASE Decoding(w)
      BY <1>5, <1>6, <3>2 DEF Decoding, tables
    <3>3. CASE DecThread(w) /\ ~Decode(w) /\ ~Decoding(w)
      <4>1. PICK to \in {"ended", "old", "idle", "in net", "between", "in dec", "released",
                         "loop", "insert", "sleep"} : Goes(w, to)
        BY <3>3, Zenon DEF DecThread, Test, ReleaseNetQueue, ReleaseDecQueue, LoopFrames, EndLoop,
                    Enter, Leave
      <4>2. UNCHANGED part
        BY <3>3 DEF DecThread, Test, ReleaseNetQueue, ReleaseDecQueue, LoopFrames, EndLoop,
                    Enter, Leave, tables
      <4>3. w \notin Mixers
        BY <2>3, WorkersApart
      <4> QED
        BY <1>6, <4>1, <4>2, <4>3
    <3> QED
      BY <2>3, <3>1, <3>2, <3>3
  <2>4. CASE w \in Mixers /\ MixThread(w)
    <3>1. ASSUME NEW to, MixGoes(w, to), to # "decode",
                 to = "mix minor" => part[CurFrame(w)] # "unset"
          PROVE  PartsUsed'
      BY <1>6, <3>1 DEF MixGoes, tables
    <3>2. CASE SetCur(w)
      <4>1. CASE Fails
        BY <1>5, <4>1
      <4>2. CASE ~Fails
        <5>1. Goes(w, "collect") /\ part' = [part EXCEPT ![CurFrame(w)] = "set"]
          BY <3>2, <4>2 DEF SetCur
        <5>2. \A c \in Parts : part'[c] = IF c = CurFrame(w) THEN "set" ELSE part[c]
          BY <5>1, SetsPart
        <5> QED
          <6>1. Keeps
            BY <5>2
          <6>2. at' = [at EXCEPT ![w] = "collect"]
            BY <5>1 DEF Goes
          <6> HIDE DEF PartsUsed
          <6> QED
            BY <6>1, <6>2, UsedGoes
      <4> QED
        BY <4>1, <4>2
    <3>3. CASE MixTest(w) \/ GetFirst(w) \/ Reset(w) \/ MixAndSend(w)
      BY <1>5, <3>1, <3>3 DEF MixTest, GetFirst, Reset, MixAndSend
    <3>4. CASE Filter(w)
      BY <1>5, <3>1, <3>2, <3>4 DEF Filter
    <3>5. CASE Collect(w)
      <4>1. \/ Fails
            \/ MixGoes(w, "mix")
            \/ part[CurFrame(w)] \in {"set", "deleted", "gone"} /\ MixGoes(w, "mix minor")
        BY <3>5, Zenon DEF Collect
      <4> QED
        BY <1>5, <3>1, <4>1
    <3> QED
      BY <2>4, <3>2, <3>3, <3>4, <3>5 DEF MixThread
  <2> QED
    BY <1>7, <2>1, <2>2, <2>3, <2>4 DEF Worker
<1> QED
  BY <1>3, <1>4, <1>7 DEF EndNext

LEMMA InitUsed == EndInit => PartsUsed
<1> SUFFICES ASSUME EndInit PROVE PartsUsed
  OBVIOUS
<1>1. \A w \in Workers : at[w] = "sleep"
  BY DEF EndInit
<1> QED
  BY <1>1, PartsOf DEF PartsUsed

(* The inductive invariant of the end of a session.                        *)
LEMMA StopHolds == EndSpec => [](EndInv /\ LocksFollow /\ StopInv /\ PartsUsed)
BY InitEnd, NextEnd, InitLocks, NextLocks, InitStop, NextStop, InitUsed, NextUsed, PTL
   DEF EndSpec

(* DestorySession and the destructor delete nothing before they cancelled  *)
(* every thread that uses it: whatever is still at work then is so in      *)
(* spite of its cancellation.                                              *)
THEOREM ThreadsStoppedFirst == EndSpec => []StoppedFirst
<1>1. StopInv => StoppedFirst
  BY DEF StopInv
<1> QED
  BY <1>1, StopHolds, PTL

(* Where the grid thread waits for the lock of a queue, the decode thread  *)
(* of the queue was cancelled: it is inside still, or has left the lock    *)
(* for good.                                                               *)
GridWaits ==
    Doing("release") =>
        LET w == <<What[1], What[2]>> IN
        /\ w \in Decoders /\ w \in cancelled
        /\ lock[What] = "held" => at[w] \in InNet \cup InDec
        /\ lock[What] = "left" => at[w] = "ended"

(* The grid thread never waits for a thread that nobody told to stop, and  *)
(* waits for ever only where a cancelled one ended inside a lock.          *)
THEOREM WaitsForStoppedThreads == EndSpec => []GridWaits
<1>1. EndInv /\ LocksFollow /\ StopInv => GridWaits
  <2> SUFFICES ASSUME EndInv, LocksFollow, StopInv, Doing("release") PROVE GridWaits
    BY DEF GridWaits
  <2>1. /\ todo \in Seq(Commands) /\ todo # <<>> /\ Head(todo)[1] = "release"
        /\ Ordered(todo, DoneBefore)
    BY DEF EndInv, EndTypeOK, StopInv, Doing
  <2>2. Head(todo) \in Commands
    BY <2>1
  <2>3. PICK l \in Locks : Head(todo) = <<"release", l>>
    BY <2>1, <2>2 DEF Commands
  <2>4. What = l
    BY <2>3 DEF What
  <2> DEFINE w == <<l[1], l[2]>>
  <2>5. /\ w \in Decoders /\ (l = NetLock(w) \/ l = DecLock(w))
    BY DEF Locks, Decoders, NetLock, DecLock
  <2>6. w \in cancelled
    <3>1. Requires(Head(todo)) \subseteq DoneBefore
      BY <2>1, HeadReady
    <3>2. <<"cancel", w>> \in DoneBefore
      BY <2>3, <3>1, RequiresWhat
    <3> HIDE DEF w
    <3> QED
      BY <3>2, DoneMeans
  <2>7. LocksOf(w)
    BY <2>5 DEF LocksFollow
  <2> HIDE DEF w
  <2>8. /\ lock[l] = "held" => at[w] \in InNet \cup InDec
        /\ lock[l] = "left" => at[w] = "ended"
    BY <2>5, <2>7 DEF LocksOf
  <2> QED
    BY <2>4, <2>5, <2>6, <2>8 DEF GridWaits, w
<1> QED
  BY <1>1, StopHolds, PTL

(* Nothing else makes a thread use what is deleted: no thread that was not *)
(* told to stop, and not the recver thread once it is out of the session.  *)
THEOREM FailsOnlyInStoppedThreads == EndSpec => FailsOnlyWhenStopped
<1> DEFINE CancelOfEnded == Doing("cancel") /\ What \in flag /\ at[What] = "ended"
           UseOfDeleted == \E o \in freed : \E w \in ThreadsOf(o) : StoppedAtWork(w)
           UseOfPart ==
             \E c \in Parts : part[c] \in {"deleted", "gone"} /\ StoppedAtWork(User(c))
           Callback == reg # "out" /\ freed \cap Peers # {}
<1>1. EndInv /\ StopInv /\ PartsUsed /\ [EndNext]_endVars =>
        (~failed /\ failed' => CancelOfEnded \/ UseOfDeleted \/ UseOfPart \/ Callback)
  <2> SUFFICES ASSUME EndInv, StopInv, PartsUsed, [EndNext]_endVars, ~failed, failed'
               PROVE  CancelOfEnded \/ UseOfDeleted \/ UseOfPart \/ Callback
    OBVIOUS
  <2>1. failed' # failed
    BY Zenon
  <2>2. \A o \in freed : \A w \in ThreadsOf(o) : w \in cancelled
    BY DEF StopInv, StoppedFirst
  <2>3. Peers \ ptr \subseteq freed
    BY DEF StopInv, ClearedLast
  <2>4. EndNext
    BY <2>1 DEF endVars
  <2>5. CASE EndGridThread
    <3>1. Doing("cancel") /\ at[What] = "ended"
      BY <2>1, <2>5, Zenon DEF EndGridThread, Begin, SetFlag, Cancel, ReleaseQueue, Destroy,
                               Forget, Delete, Clear, Uncount, Unregister, Spin
    <3>2. What \in flag
      <4>1. /\ todo \in Seq(Commands) /\ todo # <<>> /\ Head(todo)[1] = "cancel"
            /\ FlagBeforeCancel
        BY <3>1 DEF EndInv, EndTypeOK, Doing
      <4>2. 1 \in 1 .. Len(todo) /\ Head(todo) = todo[1]
        BY <4>1
      <4> QED
        BY <4>1, <4>2 DEF FlagBeforeCancel, What
    <3> QED
      BY <3>1, <3>2
  <2>6. ASSUME NEW w \in Workers, Worker(w) PROVE UseOfDeleted \/ UseOfPart
    <3>1. ASSUME NEW o \in freed, w \in ThreadsOf(o), AtWork(w) PROVE UseOfDeleted
      BY <2>2, <3>1 DEF StoppedAtWork
    <3>2. ASSUME w \in Mixers PROVE \A o : w \in ThreadsOf(o)
      BY <3>2 DEF ThreadsOf
    <3>3. ASSUME NEW c \in Parts, User(c) = w, part[c] \in {"deleted", "gone"}, AtWork(w)
          PROVE  UseOfPart
      BY <3>3 DEF StopInv, PartsStopped, StoppedAtWork
    <3>4. \A c \in Parts : part[c] \in {"unset", "set", "deleted", "gone"}
      BY DEF EndInv, EndTypeOK
    <3>5. CASE UsesDeletedHome(w)
      <4>1. AtWork(w) /\ Home(w) \in freed
        BY <3>5 DEF UsesDeletedHome
      <4>2. w \in ThreadsOf(Home(w))
        BY DEF Workers, ThreadsOf, Home
      <4> QED
        BY <3>1, <4>1, <4>2
    <3>6. CASE WakeUp(w) \/ ThreadEnds(w)
      <4>1. UNCHANGED failed
        BY <3>6, Zenon DEF WakeUp, ThreadEnds
      <4> QED
        BY <2>1, <4>1
    <3>7. CASE w \in Decoders /\ DecThread(w)
      <4>1. \/ at[w] = "loop" /\ part[Decoder(w)] = "deleted"
            \/ at[w] = "decode" /\ part[Decoder(w)] # "set"
        BY <2>1, <3>7, Zenon DEF DecThread, Test, ReleaseNetQueue, ReleaseDecQueue, LoopFrames,
                                 Decode, Decoding, EndLoop, Enter, Leave
      <4>2. Decoder(w) \in Parts /\ User(Decoder(w)) = w
        BY <3>7, PartsOf
      <4>3. part[Decoder(w)] \in {"deleted", "gone"}
        BY <3>4, <3>7, <4>1, <4>2 DEF PartsUsed
      <4>4. AtWork(w)
        BY <4>1 DEF AtWork
      <4> QED
        BY <3>3, <4>2, <4>3, <4>4
    <3>8. CASE w \in Mixers /\ MixThread(w)
      <4>1. ASSUME NEW to, MixGoes(w, to) PROVE FALSE
        BY <2>1, <4>1, Zenon DEF MixGoes
      <4>2. CurFrame(w) \in Parts /\ User(CurFrame(w)) = w
        BY <3>8, PartsOf
      <4>3. ASSUME SetCur(w) PROVE part[CurFrame(w)] = "deleted"
        BY <2>1, <4>3, Zenon DEF SetCur
      <4>4. \/ at[w] = "get" /\ "lead" \in freed
            \/ at[w] = "got" /\ ("lead" \in freed \/ "minor" \in freed)
            \/ at[w] = "filter" /\ ("minor" \notin ptr \/ "minor" \in freed)
            \/ at[w] = "filter" /\ part[CurFrame(w)] = "deleted"
            \/ at[w] = "collect" /\ "minor" \in freed
            \/ at[w] = "mix minor" /\ part[CurFrame(w)] # "set"
            \/ at[w] \in {"mix", "mix minor"} /\ "mixer" \in freed
        BY <3>8, <4>1, <4>3
           DEF MixThread, MixTest, GetFirst, Reset, Filter, Collect, MixAndSend
      <4>5. AtWork(w)
        BY <4>4 DEF AtWork
      <4>6. ASSUME NEW o \in {"lead", "minor", "mixer"}, o \in freed PROVE UseOfDeleted
        BY <3>1, <3>2, <3>8, <4>5, <4>6
      <4>7. ASSUME "minor" \notin ptr PROVE "minor" \in freed
        BY <2>3, <4>7 DEF Peers
      <4>8. ASSUME part[CurFrame(w)] \in {"deleted", "gone"} PROVE UseOfPart
        BY <3>3, <4>2, <4>5, <4>8
      <4>9. at[w] = "mix minor" /\ part[CurFrame(w)] # "set"
              => part[CurFrame(w)] \in {"deleted", "gone"}
        BY <3>4, <3>8, <4>2 DEF PartsUsed
      <4> HIDE DEF UseOfDeleted, UseOfPart
      <4> QED
        BY <4>4, <4>6, <4>7, <4>8, <4>9
    <3> QED
      BY <2>6, <3>5, <3>6, <3>7, <3>8 DEF Worker
  <2>7. ASSUME NEW p \in Peers, NEW k \in Kinds, HandleFrame(p, k) PROVE Callback
    <3>1. reg # "out" /\ UsesDeletedPeer(p)
      BY <2>1, <2>7, Zenon DEF HandleFrame
    <3> QED
      BY <2>3, <3>1 DEF UsesDeletedPeer, Peers
  <2>8. ASSUME AddData PROVE Callback
    <3>1. rec # <<>> /\ rec[1] \in freed
      BY <2>1, <2>8, Zenon DEF AddData
    <3>2. rec \in Peers \X Kinds /\ reg # "out"
      BY <3>1 DEF EndInv, EndTypeOK, RecverGone
    <3> QED
      BY <3>1, <3>2
  <2>9. ~HandleUnregister
    BY <2>1, Zenon DEF HandleUnregister
  <2> HIDE DEF CancelOfEnded, UseOfDeleted, UseOfPart, Callback
  <2> QED
    BY <2>4, <2>5, <2>6, <2>7, <2>8, <2>9 DEF EndNext
<1> QED
  BY <1>1, StopHolds, PTL DEF EndSpec, FailsOnlyWhenStopped
=============================================================================
