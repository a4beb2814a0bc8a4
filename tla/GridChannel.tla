---------------------------- MODULE GridChannel ----------------------------
(***************************************************************************)
(* MediaCloud::CAVMGridChannel: the map of sessions, the rooms, and the    *)
(* connection to the grid server.  The bizs thread brings the users that   *)
(* join a session (InsertUserJoinMsg); the grid thread ends the sessions   *)
(* that are timed out, announces the others to the grid server, and hands  *)
(* the packets it receives to them.  All of these hold the lock of the     *)
(* map, so each is one action here.                                        *)
(*                                                                         *)
(* The map is keyed by a pointer to the id.  The key of a session is in    *)
(* the session; a packet for a session not found leaves an entry without   *)
(* a session, whose key is in the packet, and the packet is deleted.  Such *)
(* a key compares as whatever the memory holds then: it may be equal to    *)
(* any id, and a search that passes it may miss a session in the map.      *)
(*                                                                         *)
(* A unit of time is as long as a pass of the grid thread's loop.  What a  *)
(* session does with its users is in SessionMixer.                         *)
(***************************************************************************)
EXTENDS Naturals, FiniteSets

CONSTANTS
    Ids,         \* the ids of sessions
    Places,      \* room for the sessions in the map
    MaxRoom,     \* g_confFile.iMaxRoom
    Timeout,     \* CAVMSession::m_uiTimeout
    Period,      \* 10: the time between announcements
    Lease,       \* the time an announcement is good for at the grid server
    MaxStrays,   \* bound on the entries without a session
    MaxRefused,  \* bound on the joins that are refused or fail
    MaxLost,     \* bound on the sessions lost
    NoId,        \* a place without a session
    Missing,     \* a search that finds nothing
    Stray        \* a search that finds an entry without a session

ASSUME ChannelAssumption ==
    /\ IsFiniteSet(Places)
    /\ MaxRoom \in Nat /\ Timeout \in Nat /\ Period \in Nat
    /\ Lease \in Nat /\ Lease > Period
    /\ MaxStrays \in Nat /\ MaxRefused \in Nat /\ MaxLost \in Nat
    /\ NoId \notin Ids
    /\ {Missing, Stray} \cap Places = {} /\ Missing # Stray

VARIABLES
    id,       \* the id of the session at a place
    key,      \* the key of its entry: "own", or "dangling"
    age,      \* now - m_tickAlive
    unheard,  \* the time the grid server has not heard of it on this connection
    strays,   \* entries without a session
    cur,      \* g_confFile.iCurRoom
    refused,  \* history: the joins that counted a room and made no session
    lost,     \* history: the sessions alive that are in no entry
    conn,     \* the connection to the grid server: "up" or "closed"
    pc,       \* where the grid thread is
    len,      \* iSessionLen
    sincePre, \* tmNow - tmPre
    waited    \* time has passed in this pass of the loop

sessions == <<id, key, age, unheard>>
rooms    == <<cur, refused, lost>>
thread   == <<pc, len, sincePre, waited>>
vars     == <<sessions, strays, rooms, conn, thread>>

Live == {p \in Places : id[p] # NoId}
-----------------------------------------------------------------------------
Init ==
    /\ id = [p \in Places |-> NoId]
    /\ key = [p \in Places |-> "own"]
    /\ age = [p \in Places |-> 0]
    /\ unheard = [p \in Places |-> 0]
    /\ strays = 0
    /\ cur = 0 /\ refused = 0 /\ lost = 0
    /\ conn = "up"
    /\ pc = "destroy" /\ len = 0 /\ sincePre = Period + 1 /\ waited = FALSE

(* What m_mapSession.find(s) and m_mapSession[s] may find.                 *)
Dangling == strays > 0 \/ \E p \in Live : key[p] = "dangling"
Own(s) == {p \in Live : id[p] = s /\ key[p] = "own"}
Search_MayMiss(s) == Own(s) \cup {Missing}
Search(s) ==
    IF Dangling
    THEN Own(s) \cup {p \in Live : key[p] = "dangling"} \cup {Missing}
                \cup (IF strays > 0 THEN {Stray} ELSE {})
    ELSE IF Own(s) # {} THEN Own(s) ELSE {Missing}

(* InsertUserJoinMsg for a session that is found: SetTimeout.              *)
JoinExisting(s) ==
    \E p \in Search(s) \cap Places :
        /\ age' = [age EXCEPT ![p] = 0]
        /\ UNCHANGED <<id, key, unheard, strays, rooms, conn, thread>>

(* No empty room, or the mixer or an encoder cannot be created; the room   *)
(* is counted.                                                             *)
JoinFails_GivesBack(s) ==
    /\ Search(s) \cap {Missing, Stray} # {}
    /\ refused < MaxRefused
    /\ cur' = cur - 1
    /\ refused' = refused + 1
    /\ UNCHANGED <<sessions, strays, lost, conn, thread>>
JoinFails(s) ==
    /\ Search(s) \cap {Missing, Stray} # {}
    /\ refused < MaxRefused
    /\ cur' = cur + 1
    /\ refused' = refused + 1
    /\ UNCHANGED <<sessions, strays, lost, conn, thread>>

(* The new session is stored where a second search ends: in an entry of    *)
(* its own, in one without a session, or in place of another session,      *)
(* which then is in no entry.                                              *)
NewAt(s, p, k) ==
    /\ id' = [id EXCEPT ![p] = s]
    /\ key' = [key EXCEPT ![p] = k]
    /\ age' = [age EXCEPT ![p] = 0]
    /\ unheard' = [unheard EXCEPT ![p] = 0]

EmptyPlace == CHOOSE p \in Places : id[p] = NoId

StoreNew(s) ==
    \E found \in Search(s) :
        \/ /\ found = Missing /\ Live # Places
           /\ NewAt(s, EmptyPlace, "own")
           /\ UNCHANGED <<strays, lost>>
        \/ /\ found = Stray /\ Live # Places
           /\ NewAt(s, EmptyPlace, "dangling")
           /\ strays' = strays - 1
           /\ UNCHANGED lost
        \/ /\ found \in Live
           /\ NewAt(s, found, key[found])
           /\ lost < MaxLost /\ lost' = lost + 1
           /\ UNCHANGED strays

HasRoom_AsMany == cur <= MaxRoom + 1
HasRoom == cur <= MaxRoom

JoinNew(s) ==
    /\ Search(s) \cap {Missing, Stray} # {}
    /\ HasRoom
    /\ cur' = cur + 1
    /\ StoreNew(s)
    /\ UNCHANGED <<refused, conn, thread>>

InsertUserJoinMsg(s) == JoinExisting(s) \/ JoinFails(s) \/ JoinNew(s)

(* A mix thread of a session finds that a peer was heard of.               *)
Heard(p) ==
    /\ p \in Live
    /\ age' = [age EXCEPT ![p] = 0]
    /\ UNCHANGED <<id, key, unheard, strays, rooms, conn, thread>>
-----------------------------------------------------------------------------
(* The grid thread's loop.                                                 *)

(* DestoryOldSession: the first session found timed out ends.              *)
TimedOut(p) == p \in Live /\ age[p] > Timeout

Ends(p) ==
    /\ id' = [id EXCEPT ![p] = NoId]
    /\ key' = [key EXCEPT ![p] = "own"]
    /\ age' = [age EXCEPT ![p] = 0]
    /\ unheard' = [unheard EXCEPT ![p] = 0]
    /\ cur' = cur - 1

DestoryOldSession_NotFull ==
    /\ pc = "destroy"
    /\ IF cur > MaxRoom /\ \E p \in Places : TimedOut(p)
       THEN \E p \in Places : TimedOut(p) /\ Ends(p)
       ELSE UNCHANGED <<sessions, cur>>
    /\ pc' = "announce"
    /\ UNCHANGED <<strays, refused, lost, conn, len, sincePre, waited>>
DestoryOldSession ==
    /\ pc = "destroy"
    /\ IF \E p \in Places : TimedOut(p)
       THEN \E p \in Places : TimedOut(p) /\ Ends(p)
       ELSE UNCHANGED <<sessions, cur>>
    /\ pc' = "announce"
    /\ UNCHANGED <<strays, refused, lost, conn, len, sincePre, waited>>

(* SendBeanInSession, when there was no session the last time, or that is  *)
(* long ago.  What it sends for a dangling key says nothing of a session,  *)
(* and it does not look whether it was sent.                               *)
Due_OnlyWhenNone == len = 0
Due == len = 0 \/ sincePre > Period

SendBeanInSession ==
    /\ pc = "announce"
    /\ IF Due
       THEN /\ unheard' = [p \in Places |->
                              IF conn = "up" /\ key[p] = "own" THEN 0 ELSE unheard[p]]
            /\ len' = Cardinality(Live)
            /\ sincePre' = 0
       ELSE UNCHANGED <<unheard, len, sincePre>>
    /\ pc' = "recv"
    /\ waited' = FALSE
    /\ UNCHANGED <<id, key, age, strays, rooms, conn>>

(* No packet within half a second, or one that is of no session.           *)
RecvNothing ==
    /\ pc = "recv" /\ conn = "up"
    /\ pc' = "destroy"
    /\ UNCHANGED <<sessions, strays, rooms, conn, len, sincePre, waited>>

(* ProcessRecvPacket: m_mapSession[s] makes an entry when it finds none.   *)
ProcessRecvPacket(s) ==
    /\ pc = "recv" /\ conn = "up"
    /\ \E found \in Search(s) :
          IF found = Missing
          THEN strays < MaxStrays /\ strays' = strays + 1
          ELSE UNCHANGED strays
    /\ pc' = "destroy"
    /\ UNCHANGED <<sessions, rooms, conn, len, sincePre, waited>>

(* The grid server closes the connection, or it breaks.                    *)
Close ==
    /\ conn = "up"
    /\ conn' = "closed"
    /\ UNCHANGED <<sessions, strays, rooms, thread>>

RecvFails ==
    /\ pc = "recv" /\ conn = "closed"
    /\ pc' = "reconnect"
    /\ UNCHANGED <<sessions, strays, rooms, conn, len, sincePre, waited>>

(* DestoryChannel, CreateAndConnect and SendLogin; or it fails.            *)
Reconnect ==
    /\ pc = "reconnect"
    /\ \/ conn' = "up" /\ unheard' = [p \in Places |-> 0]
       \/ UNCHANGED <<conn, unheard>>
    /\ pc' = "destroy"
    /\ UNCHANGED <<id, key, age, strays, rooms, len, sincePre, waited>>

(* Time passes while the thread waits.                                     *)
Later(n, bound) == IF n > bound THEN n ELSE n + 1

Tick ==
    /\ pc \in {"recv", "reconnect"} /\ ~waited
    /\ waited' = TRUE
    /\ age' = [p \in Places |-> IF p \in Live THEN Later(age[p], Timeout) ELSE 0]
    /\ unheard' = [p \in Places |->
                      IF p \in Live /\ conn = "up" THEN Later(unheard[p], Lease) ELSE unheard[p]]
    /\ sincePre' = Later(sincePre, Period)
    /\ UNCHANGED <<id, key, strays, rooms, conn, pc, len>>

GridThread ==
    \/ DestoryOldSession \/ SendBeanInSession \/ RecvNothing \/ RecvFails \/ Reconnect
    \/ \E s \in Ids : ProcessRecvPacket(s)

Next ==
    \/ \E s \in Ids : InsertUserJoinMsg(s)
    \/ \E p \in Places : Heard(p)
    \/ GridThread
    \/ Close
    \/ Tick

Spec == Init /\ [][Next]_vars

(* The operating system runs the grid thread.                              *)
FairSpec == Spec /\ WF_vars(GridThread)
-----------------------------------------------------------------------------
TypeOK ==
    /\ id \in [Places -> Ids \cup {NoId}]
    /\ key \in [Places -> {"own", "dangling"}]
    /\ age \in [Places -> 0..(Timeout + 1)]
    /\ unheard \in [Places -> 0..(Lease + 1)]
    /\ strays \in Nat
    /\ cur \in Nat /\ refused \in Nat /\ lost \in Nat
    /\ conn \in {"up", "closed"}
    /\ pc \in {"destroy", "announce", "recv", "reconnect"}
    /\ len \in Nat
    /\ sincePre \in 0..(Period + 1)
    /\ waited \in BOOLEAN

(* iCurRoom counts the sessions of the map, those lost from it, and every  *)
(* join refused or failed, whose room is never given back; and whatever    *)
(* happens to the map, there is never more than one session too many.      *)
RoomsCounted ==
    /\ cur = Cardinality(Live) + lost + refused
    /\ Cardinality(Live) + lost <= MaxRoom + 1

(* An id gets a second session, and a session is lost from the map, only   *)
(* while the map holds a key that a packet left dangling.                  *)
Second(p) == id'[p] \notin {id[p], NoId} /\ \E q \in Live : id[q] = id'[p]

SplitOnlyByStray ==
    [][(\E p \in Places : Second(p)) \/ lost' # lost => Dangling]_vars

(* While a connection lasts the grid server hears of every session before  *)
(* what it has heard lapses, of a new one too, and of all after the        *)
(* connection was made again.                                              *)
HeardInTime ==
    \A p \in Live : conn = "up" /\ key[p] = "own" => unheard[p] <= Lease

(* A session timed out ends, though each pass ends only one, and though    *)
(* the connection may be lost again and again.                             *)
TimedOutEnds == \A p \in Places : age[p] > Timeout ~> age[p] <= Timeout
=============================================================================
