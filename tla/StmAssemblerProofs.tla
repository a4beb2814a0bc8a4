------------------------- MODULE StmAssemblerProofs -------------------------
(***************************************************************************)
(* Proofs about StmAssembler for any assemblers, frames and bounds: what   *)
(* the recver thread's table holds when a command is handled, and when a   *)
(* delegate is called.                                                     *)
(***************************************************************************)
EXTENDS StmAssembler, FiniteSetLemmas, FiniteSetTheorems, TLAPS

ClientStates == {"none", "registering", "open", "closing", "gone"}

QueuesTypeOK ==
    /\ client \in [Assemblers -> ClientStates]
    /\ finished \subseteq Assemblers
    /\ recverQ \in Seq(Commands)
    /\ fecQ \in Seq(DecodingType)
    /\ assemblers \subseteq Assemblers
    /\ held \in [Assemblers -> Nat]

IsStream(c, a) == c.cmd = "STREAM" /\ c.id = a
IsRegistration(c, a) == c.cmd = "REGISTER" /\ c.id = a

(* Only a call that spins is answered.                                     *)
AnswersAwaited == \A a \in finished : client[a] \in {"registering", "closing"}

(* The table lags behind the session by the command of a call that spins.  *)
TableFollows ==
    \A a \in Assemblers :
        a \in assemblers <=>
            \/ client[a] = "open"
            \/ client[a] = "registering" /\ a \in finished
            \/ client[a] = "closing" /\ a \notin finished

(* A call that spins has one command, until it is answered.                *)
RegistrationsFollow ==
    \A a \in Assemblers : \A i \in 1..Len(recverQ) : IsRegistration(recverQ[i], a) =>
        /\ a \notin finished
        /\ client[a] = IF recverQ[i].registered THEN "registering" ELSE "closing"
        /\ \A j \in 1..Len(recverQ) : IsRegistration(recverQ[j], a) => i = j

(* The packets of a session stand before the command that ends it.         *)
StreamsFollow ==
    \A a \in Assemblers : \A i \in 1..Len(recverQ) : IsStream(recverQ[i], a) =>
        /\ a \notin finished
        /\ client[a] \in {"open", "closing"}
        /\ \A j \in 1..Len(recverQ) : IsRegistration(recverQ[j], a) => i < j

(* A frame is decoded for a session that was open once.                    *)
Opened(a) == client[a] \in {"open", "closing", "gone"}
DecodingsFollow ==
    /\ \A i \in 1..Len(fecQ) : Opened(fecQ[i].id)
    /\ \A i \in 1..Len(recverQ) :
          recverQ[i].cmd = "DECODED" => Opened(recverQ[i].segments.id)

IInv ==
    /\ QueuesTypeOK
    /\ AnswersAwaited
    /\ TableFollows
    /\ RegistrationsFollow
    /\ StreamsFollow
    /\ DecodingsFollow
-----------------------------------------------------------------------------
(* What sending and taking a command do to the queue.                      *)
LEMMA Sent ==
    ASSUME recverQ \in Seq(Commands), NEW c \in Commands, recverQ' = Append(recverQ, c)
    PROVE  /\ recverQ' \in Seq(Commands)
           /\ Len(recverQ') = Len(recverQ) + 1 /\ Len(recverQ) \in Nat
           /\ recverQ'[Len(recverQ) + 1] = c
           /\ \A i \in 1..Len(recverQ) : recverQ'[i] = recverQ[i]
OBVIOUS

(* The recver thread takes the command at the head of its queue.           *)
LEMMA Taken ==
    ASSUME recverQ \in Seq(Commands), recverQ # <<>>, recverQ' = Tail(recverQ)
    PROVE  /\ recverQ' \in Seq(Commands)
           /\ Len(recverQ) \in Nat \ {0} /\ Len(recverQ') = Len(recverQ) - 1
           /\ Head(recverQ) = recverQ[1] /\ recverQ[1] \in Commands
           /\ \A i \in 1..Len(recverQ') : i + 1 \in 1..Len(recverQ) /\ recverQ'[i] = recverQ[i + 1]
OBVIOUS

(* The commands by what they are called.                                   *)
LEMMA CommandFields ==
    ASSUME NEW c \in Commands
    PROVE  /\ c.cmd \in {"STREAM", "REGISTER", "DECODED"}
           /\ c.cmd = "STREAM" => c.id \in Assemblers /\ c.pkt \in Packets
           /\ c.cmd = "REGISTER" => c.id \in Assemblers /\ c.registered \in BOOLEAN
           /\ c.cmd = "DECODED" => c.segments \in DecodingType /\ c.segments.id \in Assemblers
BY DEF Commands, DecodingType

(* Frames at the fec thread, and its answers, are of assemblers.           *)
LEMMA DecodingsOfAssemblers ==
    ASSUME QueuesTypeOK
    PROVE  /\ \A i \in 1..Len(fecQ) : fecQ[i].id \in Assemblers
           /\ \A i \in 1..Len(recverQ) :
                 recverQ[i].cmd = "DECODED" => recverQ[i].segments.id \in Assemblers
<1>1. \A d \in DecodingType : d.id \in Assemblers
  BY DEF DecodingType
<1>2. \A i \in 1..Len(fecQ) : fecQ[i] \in DecodingType
  BY DEF QueuesTypeOK
<1>3. \A i \in 1..Len(recverQ) : recverQ[i] \in Commands
  BY DEF QueuesTypeOK
<1> QED
  BY <1>1, <1>2, <1>3, CommandFields

(* The commands sent are commands.                                         *)
LEMMA CommandsMade ==
    /\ \A a \in Assemblers, pkt \in Packets :
          Stream(a, pkt) \in Commands /\ Stream(a, pkt).cmd = "STREAM" /\ Stream(a, pkt).id = a
    /\ \A a \in Assemblers, on \in BOOLEAN :
          LET c == Registration(a, on)
          IN  c \in Commands /\ c.cmd = "REGISTER" /\ c.id = a /\ c.registered = on
    /\ \A d \in DecodingType, suc \in BOOLEAN :
          LET c == Decoded(d, suc)
          IN  c \in Commands /\ c.cmd = "DECODED" /\ c.segments = d
BY DEF Stream, Registration, Decoded, Commands

(* At the start there are no commands and no sessions.                     *)
LEMMA InitInv == Init => IInv
BY DEF Init, IInv, QueuesTypeOK, AnswersAwaited, TableFollows, RegistrationsFollow,
       StreamsFollow, DecodingsFollow, ClientStates

-----------------------------------------------------------------------------
(* The session's thread.  A call from "none" or "open" finds no command of *)
(* its own kind in the queue.                                              *)
LEMMA CallInv ==
    ASSUME IInv, NEW a \in Assemblers, NEW on \in BOOLEAN,
           client[a] = IF on THEN "none" ELSE "open",
           client' = [client EXCEPT ![a] = IF on THEN "registering" ELSE "closing"],
           recverQ' = Append(recverQ, Registration(a, on)),
           UNCHANGED <<finished, fecQ, assemblers, held>>
    PROVE  IInv'
<1> DEFINE c == Registration(a, on)
<1>1. c \in Commands /\ c.cmd = "REGISTER" /\ c.id = a /\ c.registered = on
  BY CommandsMade
<1> HIDE DEF c
<1>2. /\ recverQ' \in Seq(Commands)
      /\ Len(recverQ') = Len(recverQ) + 1 /\ Len(recverQ) \in Nat
      /\ recverQ'[Len(recverQ) + 1] = c
      /\ \A i \in 1..Len(recverQ) : recverQ'[i] = recverQ[i]
  BY <1>1, Sent DEF c, IInv, QueuesTypeOK
<1>3. a \notin finished
  BY DEF IInv, AnswersAwaited
<1>4. \A i \in 1..Len(recverQ) : ~IsRegistration(recverQ[i], a)
  BY DEF IInv, RegistrationsFollow
<1>5. on => \A i \in 1..Len(recverQ) : ~IsStream(recverQ[i], a)
  BY DEF IInv, StreamsFollow
<1>6. /\ client' \in [Assemblers -> ClientStates]
      /\ client'[a] = IF on THEN "registering" ELSE "closing"
      /\ \A b \in Assemblers \ {a} : client'[b] = client[b]
  BY DEF IInv, QueuesTypeOK, ClientStates
<1>7. QueuesTypeOK'
  BY <1>2, <1>6 DEF IInv, QueuesTypeOK
<1>8. AnswersAwaited' /\ TableFollows'
  BY <1>3, <1>6 DEF IInv, QueuesTypeOK, AnswersAwaited, TableFollows
<1>9. RegistrationsFollow'
  BY <1>1, <1>2, <1>3, <1>4, <1>6 DEF IInv, RegistrationsFollow, IsRegistration
<1>10. StreamsFollow'
  BY <1>1, <1>2, <1>3, <1>4, <1>5, <1>6 DEF IInv, StreamsFollow, IsRegistration, IsStream
<1>11. DecodingsFollow'
  <2>1. \A b \in Assemblers : Opened(b) => Opened(b)'
    BY <1>6 DEF Opened
  <2>2. /\ \A i \in 1..Len(fecQ) : fecQ[i].id \in Assemblers
        /\ \A i \in 1..Len(recverQ) :
              recverQ[i].cmd = "DECODED" => recverQ[i].segments.id \in Assemblers
    BY DecodingsOfAssemblers DEF IInv
  <2> QED
    BY <1>1, <1>2, <2>1, <2>2 DEF IInv, DecodingsFollow, Opened
<1> QED
  BY <1>7, <1>8, <1>9, <1>10, <1>11 DEF IInv

(* A call returns when it is answered: none of its commands is left.       *)
LEMMA ReturnInv ==
    ASSUME IInv, NEW a \in finished, NEW to,
           to = IF client[a] = "registering" THEN "open" ELSE "gone",
           client' = [client EXCEPT ![a] = to], finished' = finished \ {a},
           UNCHANGED <<recverQ, fecQ, assemblers, held>>
    PROVE  IInv'
<1>1. a \in Assemblers /\ client[a] \in {"registering", "closing"}
  BY DEF IInv, QueuesTypeOK, AnswersAwaited
<1>2. \A i \in 1..Len(recverQ) : ~IsRegistration(recverQ[i], a) /\ ~IsStream(recverQ[i], a)
  BY <1>1 DEF IInv, RegistrationsFollow, StreamsFollow
<1>3. /\ client' \in [Assemblers -> ClientStates]
      /\ client'[a] = to
      /\ \A b \in Assemblers \ {a} : client'[b] = client[b]
  BY <1>1 DEF IInv, QueuesTypeOK, ClientStates
<1>4. QueuesTypeOK'
  BY <1>3 DEF IInv, QueuesTypeOK
<1>5. AnswersAwaited' /\ TableFollows'
  BY <1>1, <1>3 DEF IInv, QueuesTypeOK, AnswersAwaited, TableFollows
<1>6. RegistrationsFollow'
  BY <1>2, <1>3 DEF IInv, RegistrationsFollow
<1>7. StreamsFollow'
  BY <1>2, <1>3 DEF IInv, StreamsFollow
<1>8. DecodingsFollow'
  <2>1. \A b \in Assemblers : Opened(b) => Opened(b)'
    BY <1>1, <1>3 DEF Opened
  <2>2. /\ \A i \in 1..Len(fecQ) : fecQ[i].id \in Assemblers
        /\ \A i \in 1..Len(recverQ) :
              recverQ[i].cmd = "DECODED" => recverQ[i].segments.id \in Assemblers
    BY DecodingsOfAssemblers DEF IInv
  <2> QED
    BY <2>1, <2>2 DEF IInv, DecodingsFollow, Opened
<1> QED
  BY <1>4, <1>5, <1>6, <1>7, <1>8 DEF IInv

(* A packet is sent while the session is open, when no command to end it   *)
(* is in the queue.                                                        *)
LEMMA HandleStreamInv ==
    ASSUME IInv, NEW a \in Assemblers, NEW pkt \in Packets, HandleStream(a, pkt)
    PROVE  IInv'
<1> DEFINE c == Stream(a, pkt)
<1>1. c \in Commands /\ c.cmd = "STREAM" /\ c.id = a
  BY CommandsMade
<1>0. recverQ' = Append(recverQ, c) /\ client[a] = "open"
      /\ UNCHANGED <<client, finished, fecQ, assemblers, held>>
  BY DEF HandleStream
<1> HIDE DEF c
<1>2. /\ recverQ' \in Seq(Commands)
      /\ Len(recverQ') = Len(recverQ) + 1 /\ Len(recverQ) \in Nat
      /\ recverQ'[Len(recverQ) + 1] = c
      /\ \A i \in 1..Len(recverQ) : recverQ'[i] = recverQ[i]
  BY <1>0, <1>1, Sent DEF IInv, QueuesTypeOK
<1>3. a \notin finished
  BY <1>0 DEF IInv, AnswersAwaited
<1>4. \A i \in 1..Len(recverQ) : ~IsRegistration(recverQ[i], a)
  BY <1>0 DEF IInv, RegistrationsFollow
<1>5. QueuesTypeOK' /\ AnswersAwaited' /\ TableFollows'
  BY <1>0, <1>2 DEF IInv, QueuesTypeOK, AnswersAwaited, TableFollows
<1>6. RegistrationsFollow'
  BY <1>0, <1>1, <1>2 DEF IInv, RegistrationsFollow, IsRegistration
<1>7. StreamsFollow'
  BY <1>0, <1>1, <1>2, <1>3, <1>4 DEF IInv, StreamsFollow, IsStream, IsRegistration
<1>8. DecodingsFollow'
  BY <1>0, <1>1, <1>2 DEF IInv, DecodingsFollow, Opened
<1> QED
  BY <1>5, <1>6, <1>7, <1>8 DEF IInv

(* Every step of a session's thread keeps the invariant.                   *)
LEMMA ClientThreadInv ==
    ASSUME IInv, NEW a \in Assemblers, ClientThread(a) PROVE IInv'
<1>1. CASE Register(a)
  BY <1>1, CallInv DEF Register
<1>2. CASE Registered(a)
  BY <1>2, ReturnInv DEF Registered
<1>3. CASE Unregister(a)
  BY <1>3, CallInv DEF Unregister
<1>4. CASE Unregistered(a)
  BY <1>4, ReturnInv DEF Unregistered
<1>5. CASE \E pkt \in Packets : HandleStream(a, pkt)
  BY <1>5, HandleStreamInv
<1>6. CASE \E f \in Frames : ReleaseFramePayload(a, f)
  BY <1>6 DEF ReleaseFramePayload, IInv, QueuesTypeOK, AnswersAwaited, TableFollows,
              RegistrationsFollow, StreamsFollow, DecodingsFollow, Opened
<1> QED
  BY <1>1, <1>2, <1>3, <1>4, <1>5, <1>6 DEF ClientThread
-----------------------------------------------------------------------------
(* The recver thread takes a command that changes neither the table nor an *)
(* answer.                                                                 *)
LEMMA TakenInv ==
    ASSUME IInv, recverQ # <<>>, recverQ' = Tail(recverQ),
           UNCHANGED <<client, finished, assemblers>>,
           held' \in [Assemblers -> Nat], fecQ' \in Seq(DecodingType),
           \A i \in 1..Len(fecQ') : Opened(fecQ'[i].id)
    PROVE  IInv'
<1>1. /\ recverQ' \in Seq(Commands)
      /\ Len(recverQ) \in Nat \ {0} /\ Len(recverQ') = Len(recverQ) - 1
      /\ \A i \in 1..Len(recverQ') : i + 1 \in 1..Len(recverQ) /\ recverQ'[i] = recverQ[i + 1]
  BY Taken DEF IInv, QueuesTypeOK
<1>2. QueuesTypeOK' /\ AnswersAwaited' /\ TableFollows'
  BY <1>1 DEF IInv, QueuesTypeOK, AnswersAwaited, TableFollows
<1>3. RegistrationsFollow'
  <2> SUFFICES ASSUME NEW a \in Assemblers, NEW i \in 1..Len(recverQ'),
                      IsRegistration(recverQ'[i], a)
               PROVE  /\ a \notin finished
                      /\ client[a] = IF recverQ'[i].registered THEN "registering" ELSE "closing"
                      /\ \A j \in 1..Len(recverQ') : IsRegistration(recverQ'[j], a) => i = j
    BY DEF RegistrationsFollow
  <2>1. i + 1 \in 1..Len(recverQ) /\ IsRegistration(recverQ[i + 1], a)
    BY <1>1
  <2>2. \A j \in 1..Len(recverQ') : IsRegistration(recverQ'[j], a) => i + 1 = j + 1
    BY <1>1, <2>1 DEF IInv, RegistrationsFollow
  <2> QED
    BY <1>1, <2>1, <2>2 DEF IInv, RegistrationsFollow
<1>4. StreamsFollow'
  <2> SUFFICES ASSUME NEW a \in Assemblers, NEW i \in 1..Len(recverQ'),
                      IsStream(recverQ'[i], a)
               PROVE  /\ a \notin finished
                      /\ client[a] \in {"open", "closing"}
                      /\ \A j \in 1..Len(recverQ') : IsRegistration(recverQ'[j], a) => i < j
    BY DEF StreamsFollow
  <2>1. i + 1 \in 1..Len(recverQ) /\ IsStream(recverQ[i + 1], a)
    BY <1>1
  <2>2. \A j \in 1..Len(recverQ') : IsRegistration(recverQ'[j], a) => i + 1 < j + 1
    BY <1>1, <2>1 DEF IInv, StreamsFollow
  <2> QED
    BY <1>1, <2>1, <2>2 DEF IInv, StreamsFollow
<1>5. DecodingsFollow'
  BY <1>1 DEF IInv, DecodingsFollow, Opened
<1> QED
  BY <1>2, <1>3, <1>4, <1>5 DEF IInv

(* The first command fits the table, as all behind it will.                *)
LEMMA HeadFits ==
    ASSUME IInv, recverQ # <<>>
    PROVE  LET c == Head(recverQ) IN
           /\ c \in Commands
           /\ c.cmd = "STREAM" =>
                 c.id \in assemblers /\ client[c.id] \in {"open", "closing"}
           /\ c.cmd = "REGISTER" =>
                 /\ c.id \notin finished
                 /\ client[c.id] = IF c.registered THEN "registering" ELSE "closing"
                 /\ c.id \in assemblers <=> ~c.registered
           /\ c.cmd = "DECODED" => Opened(c.segments.id)
<1>1. Len(recverQ) \in Nat \ {0} /\ Head(recverQ) = recverQ[1] /\ recverQ[1] \in Commands
  BY DEF IInv, QueuesTypeOK
<1>2. ASSUME recverQ[1].cmd = "STREAM"
      PROVE  recverQ[1].id \in assemblers /\ client[recverQ[1].id] \in {"open", "closing"}
  BY <1>1, <1>2, CommandFields DEF IInv, StreamsFollow, TableFollows, IsStream
<1>3. ASSUME recverQ[1].cmd = "REGISTER"
      PROVE  /\ recverQ[1].id \notin finished
             /\ client[recverQ[1].id] = IF recverQ[1].registered THEN "registering" ELSE "closing"
             /\ recverQ[1].id \in assemblers <=> ~recverQ[1].registered
  BY <1>1, <1>3, CommandFields DEF IInv, RegistrationsFollow, TableFollows, IsRegistration
<1>4. recverQ[1].cmd = "DECODED" => Opened(recverQ[1].segments.id)
  BY <1>1 DEF IInv, DecodingsFollow
<1> QED
  BY <1>1, <1>2, <1>3, <1>4

(* A packet: a frame to be decoded is of a session that is still open.     *)
LEMMA RecvStreamInv == IInv /\ RecvStream => IInv'
<1> SUFFICES ASSUME IInv, RecvStream PROVE IInv'
  OBVIOUS
<1> DEFINE a == Head(recverQ).id
           pkt == Head(recverQ).pkt
<1>1. recverQ # <<>> /\ recverQ' = Tail(recverQ) /\ Head(recverQ).cmd = "STREAM"
      /\ UNCHANGED <<client, finished, assemblers>>
  BY DEF RecvStream, Takes
<1>2. a \in Assemblers /\ pkt \in Packets /\ Opened(a)
  BY <1>1, HeadFits, CommandFields DEF Opened
<1>3. held \in [Assemblers -> Nat] /\ fecQ \in Seq(DecodingType)
      /\ \A i \in 1..Len(fecQ) : Opened(fecQ[i].id)
  BY DEF IInv, QueuesTypeOK, DecodingsFollow
<1>4. CASE UNCHANGED <<held, fecQ>>
  BY <1>1, <1>3, <1>4, TakenInv
<1>5. CASE a \in assemblers /\ RecverHandlesPacket(a, pkt)
  <2> HIDE DEF a, pkt
  <2>1. PICK after, handed \in 0 .. held[a] + 1 :
           /\ held' = [held EXCEPT ![a] = after]
           /\ \/ UNCHANGED fecQ
              \/ pkt.kind = "decode" /\ fecQ' = Append(fecQ, Decoding(a, pkt.frame, handed))
    BY <1>5 DEF RecverHandlesPacket
  <2>2. held[a] \in Nat /\ after \in Nat /\ handed \in Nat
    BY <1>2, <1>3
  <2>3. held' \in [Assemblers -> Nat]
    BY <1>3, <2>1, <2>2
  <2>4. CASE UNCHANGED fecQ
    BY <1>1, <1>3, <2>3, <2>4, TakenInv
  <2>5. CASE pkt.kind = "decode" /\ fecQ' = Append(fecQ, Decoding(a, pkt.frame, handed))
    <3>1. pkt.frame \in Frames
      BY <1>2, <2>5 DEF Packets
    <3> DEFINE d == Decoding(a, pkt.frame, handed)
    <3>2. d \in DecodingType /\ d.id = a
      BY <1>2, <2>2, <3>1 DEF Decoding, DecodingType
    <3> HIDE DEF d
    <3>3. fecQ' = Append(fecQ, d)
      BY <2>5 DEF d
    <3>4. /\ fecQ' \in Seq(DecodingType) /\ Len(fecQ') = Len(fecQ) + 1 /\ Len(fecQ) \in Nat
          /\ fecQ'[Len(fecQ) + 1] = d
          /\ \A i \in 1..Len(fecQ) : fecQ'[i] = fecQ[i]
      BY <1>3, <3>2, <3>3
    <3>5. \A i \in 1..Len(fecQ') : Opened(fecQ'[i].id)
      BY <1>2, <1>3, <3>2, <3>4
    <3> QED
      BY <1>1, <2>3, <3>4, <3>5, TakenInv
  <2> QED
    BY <2>1, <2>4, <2>5
<1> QED
  BY <1>4, <1>5 DEF RecvStream

(* A frame back from the fec thread.                                       *)
LEMMA RecvDecodedInv == IInv /\ RecvDecoded => IInv'
<1> SUFFICES ASSUME IInv, RecvDecoded PROVE IInv'
  OBVIOUS
<1>1. recverQ # <<>> /\ recverQ' = Tail(recverQ)
      /\ UNCHANGED <<client, finished, assemblers, held, fecQ>>
  BY DEF RecvDecoded, Takes
<1>2. held' \in [Assemblers -> Nat] /\ fecQ' \in Seq(DecodingType)
      /\ \A i \in 1..Len(fecQ') : Opened(fecQ'[i].id)
  BY <1>1 DEF IInv, QueuesTypeOK, DecodingsFollow
<1> QED
  BY <1>1, <1>2, TakenInv

(* The answer to a call: no other command of its session is left that      *)
(* needs the table as it was.                                              *)
LEMMA AnsweredInv ==
    ASSUME IInv, recverQ # <<>>, recverQ' = Tail(recverQ), Head(recverQ).cmd = "REGISTER",
           assemblers' = IF Head(recverQ).registered THEN assemblers \cup {Head(recverQ).id}
                         ELSE assemblers \ {Head(recverQ).id},
           finished' = finished \cup {Head(recverQ).id},
           UNCHANGED <<client, fecQ>>, held' \in [Assemblers -> Nat]
    PROVE  IInv'
<1> DEFINE c == Head(recverQ)
           a == c.id
<1>1. /\ recverQ' \in Seq(Commands)
      /\ Len(recverQ) \in Nat \ {0} /\ Len(recverQ') = Len(recverQ) - 1
      /\ c = recverQ[1]
      /\ \A i \in 1..Len(recverQ') : i + 1 \in 1..Len(recverQ) /\ recverQ'[i] = recverQ[i + 1]
  BY Taken DEF IInv, QueuesTypeOK
<1>2. /\ a \in Assemblers /\ c.registered \in BOOLEAN
      /\ a \notin finished
      /\ client[a] = IF c.registered THEN "registering" ELSE "closing"
  BY HeadFits, CommandFields
<1>3. IsRegistration(recverQ[1], a)
  BY <1>1 DEF IsRegistration
<1>0. /\ assemblers' = IF c.registered THEN assemblers \cup {a} ELSE assemblers \ {a}
      /\ finished' = finished \cup {a}
  OBVIOUS
<1> HIDE DEF c, a
<1>4. \A i \in 1..Len(recverQ') : ~IsRegistration(recverQ'[i], a) /\ ~IsStream(recverQ'[i], a)
  <2> SUFFICES ASSUME NEW i \in 1..Len(recverQ')
               PROVE  ~IsRegistration(recverQ[i + 1], a) /\ ~IsStream(recverQ[i + 1], a)
    BY <1>1
  <2>1. i + 1 \in 1..Len(recverQ) /\ i + 1 > 1 /\ 1 \in 1..Len(recverQ)
    BY <1>1
  <2>2. ~IsRegistration(recverQ[i + 1], a)
    <3> SUFFICES ASSUME IsRegistration(recverQ[i + 1], a) PROVE FALSE
      OBVIOUS
    <3>1. i + 1 = 1
      BY <1>2, <1>3, <2>1 DEF IInv, RegistrationsFollow
    <3> QED
      BY <2>1, <3>1
  <2>3. ~IsStream(recverQ[i + 1], a)
    <3> SUFFICES ASSUME IsStream(recverQ[i + 1], a) PROVE FALSE
      OBVIOUS
    <3>1. i + 1 < 1
      BY <1>2, <1>3, <2>1 DEF IInv, StreamsFollow
    <3> QED
      BY <2>1, <3>1
  <2> QED
    BY <2>2, <2>3
<1>5. QueuesTypeOK' /\ AnswersAwaited' /\ TableFollows'
  BY <1>0, <1>1, <1>2 DEF IInv, QueuesTypeOK, AnswersAwaited, TableFollows
<1>6. RegistrationsFollow'
  <2> SUFFICES ASSUME NEW b \in Assemblers, NEW i \in 1..Len(recverQ'),
                      IsRegistration(recverQ'[i], b)
               PROVE  /\ b \notin finished'
                      /\ client[b] = IF recverQ'[i].registered THEN "registering" ELSE "closing"
                      /\ \A j \in 1..Len(recverQ') : IsRegistration(recverQ'[j], b) => i = j
    BY DEF RegistrationsFollow
  <2>1. i + 1 \in 1..Len(recverQ) /\ IsRegistration(recverQ[i + 1], b) /\ b # a
    BY <1>1, <1>4
  <2>2. \A j \in 1..Len(recverQ') : IsRegistration(recverQ'[j], b) => i + 1 = j + 1
    BY <1>1, <2>1 DEF IInv, RegistrationsFollow
  <2> QED
    BY <1>0, <1>1, <2>1, <2>2 DEF IInv, RegistrationsFollow
<1>7. StreamsFollow'
  <2> SUFFICES ASSUME NEW b \in Assemblers, NEW i \in 1..Len(recverQ'),
                      IsStream(recverQ'[i], b)
               PROVE  /\ b \notin finished'
                      /\ client[b] \in {"open", "closing"}
                      /\ \A j \in 1..Len(recverQ') : IsRegistration(recverQ'[j], b) => i < j
    BY DEF StreamsFollow
  <2>1. i + 1 \in 1..Len(recverQ) /\ IsStream(recverQ[i + 1], b) /\ b # a
    BY <1>1, <1>4
  <2>2. \A j \in 1..Len(recverQ') : IsRegistration(recverQ'[j], b) => i + 1 < j + 1
    BY <1>1, <2>1 DEF IInv, StreamsFollow
  <2> QED
    BY <1>0, <1>1, <2>1, <2>2 DEF IInv, StreamsFollow
<1>8. DecodingsFollow'
  BY <1>1 DEF IInv, DecodingsFollow, Opened
<1> QED
  BY <1>5, <1>6, <1>7, <1>8 DEF IInv

(* The recver thread registers an assembler.                               *)
LEMMA RecvRegisterInv == IInv /\ RecvRegister => IInv'
<1> SUFFICES ASSUME IInv, RecvRegister PROVE IInv'
  OBVIOUS
<1>1. held' \in [Assemblers -> Nat]
  BY DEF RecvRegister, IInv, QueuesTypeOK
<1> QED
  BY <1>1, AnsweredInv DEF RecvRegister, Takes

(* The recver thread unregisters an assembler.                             *)
LEMMA RecvUnregisterInv == IInv /\ RecvUnregister => IInv'
<1> SUFFICES ASSUME IInv, RecvUnregister PROVE IInv'
  OBVIOUS
<1>1. held' \in [Assemblers -> Nat]
  BY DEF RecvUnregister, IInv, QueuesTypeOK
<1> QED
  BY <1>1, AnsweredInv DEF RecvUnregister, Takes

(* The fec thread answers with the request it took.                        *)
LEMMA FecThreadInv == IInv /\ FecThread => IInv'
<1> SUFFICES ASSUME IInv, FecThread PROVE IInv'
  OBVIOUS
<1> DEFINE d == Head(fecQ)
<1>1. /\ fecQ' \in Seq(DecodingType)
      /\ Len(fecQ) \in Nat \ {0} /\ Len(fecQ') = Len(fecQ) - 1
      /\ d = fecQ[1] /\ d \in DecodingType
      /\ \A i \in 1..Len(fecQ') : i + 1 \in 1..Len(fecQ) /\ fecQ'[i] = fecQ[i + 1]
  BY DEF FecThread, IInv, QueuesTypeOK
<1>2. Opened(d.id)
  BY <1>1 DEF IInv, DecodingsFollow
<1>3. PICK suc \in BOOLEAN : recverQ' = Append(recverQ, Decoded(d, suc))
  BY DEF FecThread
<1> DEFINE c == Decoded(d, suc)
<1>4. c \in Commands /\ c.cmd = "DECODED" /\ c.segments = d
  BY <1>1, CommandsMade
<1> HIDE DEF c
<1>5. recverQ' = Append(recverQ, c)
  BY <1>3 DEF c
<1>6. /\ recverQ' \in Seq(Commands)
      /\ Len(recverQ') = Len(recverQ) + 1 /\ Len(recverQ) \in Nat
      /\ recverQ'[Len(recverQ) + 1] = c
      /\ \A i \in 1..Len(recverQ) : recverQ'[i] = recverQ[i]
  BY <1>4, <1>5, Sent DEF IInv, QueuesTypeOK
<1>7. UNCHANGED <<client, finished, assemblers, held>>
  BY DEF FecThread
<1> HIDE DEF d
<1>8. QueuesTypeOK' /\ AnswersAwaited' /\ TableFollows'
  BY <1>1, <1>6, <1>7 DEF IInv, QueuesTypeOK, AnswersAwaited, TableFollows
<1>9. RegistrationsFollow'
  BY <1>4, <1>6, <1>7 DEF IInv, RegistrationsFollow, IsRegistration
<1>10. StreamsFollow'
  BY <1>4, <1>6, <1>7 DEF IInv, StreamsFollow, IsStream, IsRegistration
<1>11. DecodingsFollow'
  <2>1. \A i \in 1..Len(fecQ') : Opened(fecQ'[i].id)
    BY <1>1 DEF IInv, DecodingsFollow
  <2>2. \A i \in 1..Len(recverQ') :
           recverQ'[i].cmd = "DECODED" => Opened(recverQ'[i].segments.id)
    <3> SUFFICES ASSUME NEW i \in 1..Len(recverQ'), recverQ'[i].cmd = "DECODED"
                 PROVE  Opened(recverQ'[i].segments.id)
      OBVIOUS
    <3>1. CASE i = Len(recverQ) + 1
      BY <1>2, <1>4, <1>6, <3>1
    <3>2. CASE i \in 1..Len(recverQ)
      BY <1>6, <3>2 DEF IInv, DecodingsFollow
    <3> QED
      BY <1>6, <3>1, <3>2
  <2> QED
    BY <1>7, <2>1, <2>2 DEF DecodingsFollow, Opened
<1> QED
  BY <1>8, <1>9, <1>10, <1>11 DEF IInv
-----------------------------------------------------------------------------
(* Every step keeps the invariant.                                         *)
LEMMA NextInv == IInv /\ [Next]_vars => IInv'
<1> SUFFICES ASSUME IInv, [Next]_vars PROVE IInv'
  OBVIOUS
<1>1. CASE \E a \in Assemblers : ClientThread(a)
  BY <1>1, ClientThreadInv
<1>2. CASE RecverThread
  BY <1>2, RecvStreamInv, RecvRegisterInv, RecvUnregisterInv, RecvDecodedInv DEF RecverThread
<1>3. CASE FecThread
  BY <1>3, FecThreadInv
<1>4. CASE UNCHANGED vars
  BY <1>4 DEF vars, IInv, QueuesTypeOK, AnswersAwaited, TableFollows, RegistrationsFollow,
              StreamsFollow, DecodingsFollow, Opened
<1> QED
  BY <1>1, <1>2, <1>3, <1>4 DEF Next

(* The inductive invariant of the commands under way and the table.        *)
THEOREM InvHolds == Spec => []IInv
BY InitInv, NextInv, PTL DEF Spec

(* Whatever the threads do, the command that is next fits the table: the   *)
(* assertions of a registration hold, and a packet finds its assembler.    *)
THEOREM CommandsAlwaysFit == Spec => []CommandsFitTable
<1>1. IInv => CommandsFitTable
  BY HeadFits DEF CommandsFitTable
<1> QED
  BY <1>1, InvHolds, PTL

(* A delegate is called only between the return of its assembler's         *)
(* constructor and that of the destructor: the spin is enough, with frames *)
(* at the fec thread as well.                                              *)
THEOREM NoCallbackIsLate == Spec => NoLateCallback
<1> DEFINE Calls == \A k \in payloads' \ payloads : client[k[1]] \in {"open", "closing"}
<1>1. IInv /\ [Next]_vars => [Calls]_vars
  <2> SUFFICES ASSUME IInv, [Next]_vars PROVE Calls
    OBVIOUS
  <2>1. CASE payloads' \subseteq payloads
    BY <2>1
  <2>2. CASE RecvStream
    <3>1. Head(recverQ).cmd = "STREAM" /\ recverQ # <<>>
      BY <2>2 DEF RecvStream, Takes
    <3>2. client[Head(recverQ).id] \in {"open", "closing"}
      BY <3>1, HeadFits
    <3>3. payloads' = payloads \/ payloads' = payloads \cup {<<Head(recverQ).id, Head(recverQ).pkt.frame>>}
      BY <2>2 DEF RecvStream, RecverHandlesPacket, CallDelegate, NoCall
    <3> QED
      BY <3>2, <3>3
  <2>3. CASE RecvDecoded
    <3> DEFINE d == Head(recverQ).segments
    <3>1. Head(recverQ).cmd = "DECODED" /\ recverQ # <<>>
      BY <2>3 DEF RecvDecoded, Takes
    <3>2. Opened(d.id)
      BY <3>1, HeadFits
    <3>3. \/ payloads' = payloads
          \/ payloads' = payloads \cup {<<d.id, d.frame>>} /\ d.id \in assemblers
      BY <2>3 DEF RecvDecoded, CallDelegate, NoCall
    <3>4. d.id \in assemblers => client[d.id] \in {"open", "closing"}
      BY <3>2 DEF IInv, QueuesTypeOK, TableFollows, Opened
    <3> QED
      BY <3>3, <3>4
  <2>4. CASE (\E a \in Assemblers : ClientThread(a)) \/ RecvRegister \/ RecvUnregister
             \/ FecThread \/ UNCHANGED vars
    <3>1. payloads' \subseteq payloads
      BY <2>4 DEF ClientThread, Register, Registered, Unregister, Unregistered, HandleStream,
                  ReleaseFramePayload, RecvRegister, RecvUnregister, FecThread, vars
    <3> QED
      BY <2>1, <3>1
  <2> QED
    BY <2>2, <2>3, <2>4 DEF Next, RecverThread
<1> QED
  BY <1>1, InvHolds, PTL DEF NoLateCallback, Spec
-----------------------------------------------------------------------------
(* The frames and their owners.                                            *)

HasFrame(c) == c.cmd = "STREAM" /\ c.pkt.kind \in {"whole", "met", "decode"}
FrameOf(c) == <<c.id, c.pkt.frame>>
KeyOf(d) == <<d.id, d.frame>>
IsDecoded(c) == c.cmd = "DECODED"

(* A frame that was sent is in one packet, or at the fec thread, or with   *)
(* its session, and never in two of these places.                          *)
FramesOnce ==
    /\ \A i \in 1..Len(recverQ) : HasFrame(recverQ[i]) =>
          /\ FrameOf(recverQ[i]) \in sent
          /\ \A j \in 1..Len(recverQ) :
                HasFrame(recverQ[j]) /\ FrameOf(recverQ[j]) = FrameOf(recverQ[i]) => i = j
          /\ \A d \in decoding : FrameOf(recverQ[i]) # KeyOf(d)
          /\ FrameOf(recverQ[i]) \notin payloads
    /\ \A d \in decoding : KeyOf(d) \in sent /\ KeyOf(d) \notin payloads
    /\ \A d, e \in decoding : KeyOf(d) = KeyOf(e) => d = e
    /\ payloads \subseteq sent

(* DecodingTracked, for the two queues one by one.                         *)
FecTracked ==
    /\ \A i \in 1..Len(fecQ) : fecQ[i] \in decoding
    /\ \A i, j \in 1..Len(fecQ) : fecQ[i] = fecQ[j] => i = j
RecverTracked ==
    /\ \A i \in 1..Len(recverQ) : IsDecoded(recverQ[i]) => recverQ[i].segments \in decoding
    /\ \A i, j \in 1..Len(recverQ) :
          IsDecoded(recverQ[i]) /\ IsDecoded(recverQ[j]) /\ recverQ[i].segments = recverQ[j].segments
             => i = j
OneWay ==
    \A i \in 1..Len(fecQ), j \in 1..Len(recverQ) :
        IsDecoded(recverQ[j]) => fecQ[i] # recverQ[j].segments
AllUnderWay ==
    \A d \in decoding :
        \/ \E i \in 1..Len(fecQ) : fecQ[i] = d
        \/ \E i \in 1..Len(recverQ) : IsDecoded(recverQ[i]) /\ recverQ[i].segments = d
Tracked == FecTracked /\ RecverTracked /\ OneWay /\ AllUnderWay

SetsTypeOK ==
    /\ decoding \subseteq DecodingType /\ IsFiniteSet(decoding)
    /\ payloads \subseteq Assemblers \X Frames
    /\ sent \subseteq Assemblers \X Frames
    /\ live \in [stream : Nat, segment : Nat, buffer : Nat]

PlacesInv == SetsTypeOK /\ FramesOnce /\ Tracked
Inv == IInv /\ PlacesInv /\ OwnersExact

(* Tracking a frame in the two queues is tracking it on its way.           *)
LEMMA TrackedOnWay == IInv => (Tracked <=> DecodingTracked)
<1> SUFFICES ASSUME IInv PROVE Tracked <=> DecodingTracked
  OBVIOUS
<1>1. DOMAIN fecQ = 1..Len(fecQ) /\ DOMAIN recverQ = 1..Len(recverQ)
  BY DEF IInv, QueuesTypeOK
<1>2. /\ \A i \in 1..Len(fecQ) : <<"fec", i>> \in UnderWay /\ FrameAt(<<"fec", i>>) = fecQ[i]
      /\ \A i \in 1..Len(recverQ) : IsDecoded(recverQ[i]) =>
            /\ <<"recver", i>> \in UnderWay
            /\ FrameAt(<<"recver", i>>) = recverQ[i].segments
  BY <1>1 DEF UnderWay, FrameAt, IsDecoded
<1>3. ASSUME NEW w \in UnderWay
      PROVE  \/ \E i \in 1..Len(fecQ) : w = <<"fec", i>>
             \/ \E i \in 1..Len(recverQ) : IsDecoded(recverQ[i]) /\ w = <<"recver", i>>
  BY <1>1 DEF UnderWay, IsDecoded
<1>4. ASSUME Tracked PROVE DecodingTracked
  <2>1. \A w \in UnderWay : FrameAt(w) \in decoding
    BY <1>2, <1>3, <1>4 DEF Tracked, FecTracked, RecverTracked
  <2>2. \A d \in decoding : \E w \in UnderWay : FrameAt(w) = d
    BY <1>2, <1>4 DEF Tracked, AllUnderWay
  <2>3. ASSUME NEW v \in UnderWay, NEW w \in UnderWay, FrameAt(v) = FrameAt(w) PROVE v = w
    BY <1>2, <1>3, <1>4, <2>3 DEF Tracked, FecTracked, RecverTracked, OneWay
  <2> QED
    BY <2>1, <2>2, <2>3 DEF DecodingTracked
<1>5. ASSUME DecodingTracked PROVE Tracked
  <2>1. \A v, w \in UnderWay : FrameAt(v) = FrameAt(w) => v = w
    BY <1>5 DEF DecodingTracked
  <2>2. \A i, j : <<"fec", i>> # <<"recver", j>>
    OBVIOUS
  <2>3. FecTracked
    <3>1. \A i \in 1..Len(fecQ) : fecQ[i] \in decoding
      BY <1>2, <1>5 DEF DecodingTracked
    <3>2. ASSUME NEW i \in 1..Len(fecQ), NEW j \in 1..Len(fecQ), fecQ[i] = fecQ[j] PROVE i = j
      <4>1. <<"fec", i>> = <<"fec", j>>
        BY <1>2, <2>1, <3>2
      <4> QED
        BY <4>1
    <3> QED
      BY <3>1, <3>2 DEF FecTracked
  <2>4. RecverTracked
    <3>1. \A i \in 1..Len(recverQ) : IsDecoded(recverQ[i]) => recverQ[i].segments \in decoding
      BY <1>2, <1>5 DEF DecodingTracked
    <3>2. ASSUME NEW i \in 1..Len(recverQ), NEW j \in 1..Len(recverQ),
                 IsDecoded(recverQ[i]), IsDecoded(recverQ[j]),
                 recverQ[i].segments = recverQ[j].segments
          PROVE  i = j
      <4>1. <<"recver", i>> = <<"recver", j>>
        BY <1>2, <2>1, <3>2
      <4> QED
        BY <4>1
    <3> QED
      BY <3>1, <3>2 DEF RecverTracked
  <2>5. OneWay
    BY <1>2, <2>1, <2>2 DEF OneWay
  <2>6. AllUnderWay
    BY <1>2, <1>3, <1>5 DEF DecodingTracked, AllUnderWay
  <2> QED
    BY <2>3, <2>4, <2>5, <2>6 DEF Tracked
<1> QED
  BY <1>4, <1>5
-----------------------------------------------------------------------------
(* Counting what the owners have.                                          *)

(* The packets in the queue are finitely many.                             *)
LEMMA StreamsFinite ==
    ASSUME recverQ \in Seq(Commands)
    PROVE  /\ Streams = {i \in 1..Len(recverQ) : recverQ[i].cmd = "STREAM"}
           /\ IsFiniteSet(Streams) /\ Cardinality(Streams) \in Nat
<1>1. Streams = {i \in 1..Len(recverQ) : recverQ[i].cmd = "STREAM"}
  BY DEF Streams
<1>2. Len(recverQ) \in Nat
  OBVIOUS
<1>3. IsFiniteSet(1..Len(recverQ))
  BY <1>2, CountTo
<1>4. IsFiniteSet(Streams)
  BY <1>1, <1>3, FS_Subset
<1> QED
  BY <1>1, <1>4, FS_CardinalityType

(* A command is sent.                                                      *)
LEMMA StreamsSent ==
    ASSUME recverQ \in Seq(Commands), NEW c \in Commands, recverQ' = Append(recverQ, c)
    PROVE  Cardinality(Streams)' = Cardinality(Streams) + (IF c.cmd = "STREAM" THEN 1 ELSE 0)
<1> DEFINE n == Len(recverQ) + 1
<1>1. /\ recverQ' \in Seq(Commands) /\ Len(recverQ') = n /\ Len(recverQ) \in Nat
      /\ recverQ'[n] = c
      /\ \A i \in 1..Len(recverQ) : recverQ'[i] = recverQ[i]
  BY Sent
<1>2. Streams' = {i \in 1..Len(recverQ') : recverQ'[i].cmd = "STREAM"}
  BY <1>1 DEF Streams
<1>3. /\ Streams = {i \in 1..Len(recverQ) : recverQ[i].cmd = "STREAM"}
      /\ IsFiniteSet(Streams) /\ Cardinality(Streams) \in Nat
  BY StreamsFinite
<1>4. n \notin Streams
  BY <1>1, <1>3
<1>5. CASE c.cmd = "STREAM"
  <2>1. Streams' = Streams \cup {n}
    <3>1. ASSUME NEW i \in 1..n PROVE i \in Streams' <=> i \in Streams \cup {n}
      BY <1>1, <1>2, <1>3, <1>5
    <3>2. Streams' \subseteq 1..n /\ Streams \cup {n} \subseteq 1..n
      BY <1>1, <1>2, <1>3
    <3> QED
      BY <3>1, <3>2
  <2>2. Cardinality(Streams \cup {n}) = Cardinality(Streams) + 1
    BY <1>3, <1>4, FS_AddElement
  <2> QED
    BY <1>5, <2>1, <2>2
<1>6. CASE c.cmd # "STREAM"
  <2>1. Streams' = Streams
    <3>1. ASSUME NEW i \in 1..n PROVE i \in Streams' <=> i \in Streams
      BY <1>1, <1>2, <1>3, <1>6
    <3>2. Streams' \subseteq 1..n /\ Streams \subseteq 1..n
      BY <1>1, <1>2, <1>3
    <3> QED
      BY <3>1, <3>2
  <2> QED
    BY <1>3, <1>6, <2>1
<1> QED
  BY <1>5, <1>6

(* The first command is taken.                                             *)
LEMMA StreamsTaken ==
    ASSUME recverQ \in Seq(Commands), recverQ # <<>>, recverQ' = Tail(recverQ)
    PROVE  /\ Cardinality(Streams)' \in Nat
           /\ Cardinality(Streams) = Cardinality(Streams)'
                                       + (IF Head(recverQ).cmd = "STREAM" THEN 1 ELSE 0)
<1>1. /\ recverQ' \in Seq(Commands)
      /\ Len(recverQ) \in Nat \ {0} /\ Len(recverQ') = Len(recverQ) - 1
      /\ Head(recverQ) = recverQ[1]
      /\ \A i \in 1..Len(recverQ') : recverQ'[i] = recverQ[i + 1]
  BY Taken
<1> DEFINE S == Streams
           T == Streams'
           R == S \ {1}
<1>2. T = {i \in 1..Len(recverQ') : recverQ'[i].cmd = "STREAM"}
  BY <1>1 DEF Streams
<1>3. /\ S = {i \in 1..Len(recverQ) : recverQ[i].cmd = "STREAM"}
      /\ IsFiniteSet(S) /\ Cardinality(S) \in Nat
  BY StreamsFinite
<1>4. /\ IsFiniteSet(R) /\ Cardinality(R) \in Nat
      /\ Cardinality(S) = Cardinality(R) + (IF 1 \in S THEN 1 ELSE 0)
  <2>1. CASE 1 \in S
    BY <1>3, <2>1, OneLess
  <2>2. CASE 1 \notin S
    <3>1. R = S
      BY <2>2
    <3> HIDE DEF R, S
    <3> QED
      BY <1>3, <2>2, <3>1
  <2> QED
    BY <2>1, <2>2
<1>5. 1 \in S <=> Head(recverQ).cmd = "STREAM"
  BY <1>1, <1>3
<1> DEFINE down == [i \in R |-> i - 1]
<1>6. ASSUME NEW i \in R PROVE i \in 2..Len(recverQ) /\ i - 1 \in T
  <2>1. i \in 2..Len(recverQ) /\ recverQ[i].cmd = "STREAM"
    BY <1>3
  <2>2. i - 1 \in 1..Len(recverQ') /\ recverQ'[i - 1] = recverQ[i]
    BY <1>1, <2>1
  <2> QED
    BY <1>2, <2>1, <2>2
<1>7. Cardinality(R) = Cardinality(T)
  <2>1. ASSUME NEW j \in T PROVE j \in Nat /\ j + 1 \in R
    BY <1>1, <1>2, <1>3
  <2> HIDE DEF R, S, T
  <2>2. /\ down \in [R -> T]
        /\ \A i, j \in R : down[i] = down[j] => i = j
    BY <1>6
  <2>3. \A j \in T : \E i \in R : down[i] = j
    <3> TAKE j \in T
    <3>1. j + 1 \in R /\ down[j + 1] = j
      BY <2>1
    <3> QED
      BY <3>1
  <2> HIDE DEF down
  <2> QED
    BY <1>4, <2>2, <2>3, MappedSet
<1> HIDE DEF S, T, R, down
<1>8. Cardinality(T) \in Nat /\ Cardinality(S) = Cardinality(T) + (IF Head(recverQ).cmd = "STREAM" THEN 1 ELSE 0)
  BY <1>4, <1>5, <1>7
<1> QED
  BY <1>8 DEF S, T

(* The segments of every StreamRecver, as a family of sets.                *)
HeldSets(h) == [a \in Assemblers |-> 1 .. h[a]]

(* The segments held are a family with finitely many members.              *)
LEMMA HeldFamily ==
    ASSUME NEW h \in [Assemblers -> Nat]
    PROVE  /\ IsFiniteFamily(Assemblers, HeldSets(h))
           /\ \A a \in Assemblers : IsFiniteSet(HeldSets(h)[a]) /\ Cardinality(HeldSets(h)[a]) = h[a]
           /\ Family(Assemblers, HeldSets(h)) = UNION {{a} \X (1 .. h[a]) : a \in Assemblers}
           /\ Cardinality(Family(Assemblers, HeldSets(h))) \in Nat
<1>1. \A a \in Assemblers : /\ IsFiniteSet(HeldSets(h)[a])
                            /\ Cardinality(HeldSets(h)[a]) = h[a]
  <2> TAKE a \in Assemblers
  <2>1. h[a] \in Nat /\ HeldSets(h)[a] = 1 .. h[a]
    BY DEF HeldSets
  <2> QED
    BY <2>1, CountTo
<1>2. IsFiniteFamily(Assemblers, HeldSets(h))
  BY <1>1, AssemblerAssumption DEF IsFiniteFamily
<1>3. Family(Assemblers, HeldSets(h)) = UNION {{a} \X (1 .. h[a]) : a \in Assemblers}
  BY DEF Family, HeldSets
<1> QED
  BY <1>1, <1>2, <1>3, FamilyFinite

(* A StreamRecver holds more segments, or fewer.                           *)
LEMMA HeldChanges ==
    ASSUME NEW h \in [Assemblers -> Nat], NEW k \in [Assemblers -> Nat], NEW a \in Assemblers,
           \A b \in Assemblers : b # a => k[b] = h[b]
    PROVE  LET total(x) == Cardinality(UNION {{b} \X (1 .. x[b]) : b \in Assemblers})
           IN  total(h) \in Nat /\ total(k) \in Nat /\ total(k) + h[a] = total(h) + k[a]
<1> DEFINE f == HeldSets(h)
           g == HeldSets(k)
<1>1. /\ IsFiniteFamily(Assemblers, f) /\ IsFiniteSet(g[a])
      /\ Cardinality(f[a]) = h[a] /\ Cardinality(g[a]) = k[a]
      /\ Cardinality(Family(Assemblers, f)) \in Nat /\ Cardinality(Family(Assemblers, g)) \in Nat
  BY HeldFamily
<1>2. \A b \in Assemblers : b # a => g[b] = f[b]
  BY DEF HeldSets
<1>3. Cardinality(Family(Assemblers, g)) + Cardinality(f[a])
        = Cardinality(Family(Assemblers, f)) + Cardinality(g[a])
  <2> HIDE DEF f, g
  <2> QED
    BY <1>1, <1>2, FamilyChange
<1>4. /\ Family(Assemblers, f) = UNION {{b} \X (1 .. h[b]) : b \in Assemblers}
      /\ Family(Assemblers, g) = UNION {{b} \X (1 .. k[b]) : b \in Assemblers}
  BY HeldFamily
<1> HIDE DEF f, g
<1> QED
  BY <1>1, <1>3, <1>4

(* The segments of every frame at the fec thread, as a family of sets.     *)
SegsOf == [d \in DecodingType |-> 1 .. d.segs]

(* The segments of frames at the fec thread are finitely many.             *)
LEMMA DecodingFamily ==
    ASSUME NEW D \in SUBSET DecodingType, IsFiniteSet(D)
    PROVE  /\ IsFiniteFamily(D, SegsOf)
           /\ Family(D, SegsOf) = UNION {{d} \X (1 .. d.segs) : d \in D}
           /\ Cardinality(Family(D, SegsOf)) \in Nat
<1>1. \A d \in D : SegsOf[d] = 1 .. d.segs /\ d.segs \in Nat
  BY DEF SegsOf, DecodingType
<1>2. \A d \in D : IsFiniteSet(SegsOf[d])
  BY <1>1, CountTo
<1>3. IsFiniteFamily(D, SegsOf)
  BY <1>2 DEF IsFiniteFamily
<1>4. Family(D, SegsOf) = UNION {{d} \X (1 .. d.segs) : d \in D}
  BY <1>1 DEF Family
<1> QED
  BY <1>3, <1>4, FamilyFinite

(* A frame goes to the fec thread, or comes back.                          *)
LEMMA DecodingAdds ==
    ASSUME NEW D \in SUBSET DecodingType, IsFiniteSet(D), NEW d \in DecodingType, d \notin D
    PROVE  LET total(X) == Cardinality(UNION {{x} \X (1 .. x.segs) : x \in X})
           IN  /\ IsFiniteSet(D \cup {d}) /\ Cardinality(D) \in Nat
               /\ Cardinality(D \cup {d}) = Cardinality(D) + 1
               /\ total(D) \in Nat /\ total(D \cup {d}) = total(D) + d.segs
<1> DEFINE E == D \cup {d}
<1>1. IsFiniteSet(E) /\ Cardinality(E) = Cardinality(D) + 1 /\ Cardinality(D) \in Nat
  BY FS_AddElement, FS_CardinalityType
<1>2. E \in SUBSET DecodingType
  OBVIOUS
<1>3. /\ IsFiniteFamily(D, SegsOf) /\ IsFiniteFamily(E, SegsOf)
      /\ Family(D, SegsOf) = UNION {{x} \X (1 .. x.segs) : x \in D}
      /\ Family(E, SegsOf) = UNION {{x} \X (1 .. x.segs) : x \in E}
      /\ Cardinality(Family(D, SegsOf)) \in Nat
  <2> HIDE DEF E
  <2> QED
    BY <1>1, <1>2, DecodingFamily
<1>4. d.segs \in Nat /\ SegsOf[d] = 1 .. d.segs
  BY DEF SegsOf, DecodingType
<1>5. IsFiniteSet(SegsOf[d]) /\ Cardinality(SegsOf[d]) = d.segs
  BY <1>4, CountTo
<1>6. Cardinality(Family(E, SegsOf)) = Cardinality(Family(D, SegsOf)) + Cardinality(SegsOf[d])
  <2> DEFINE f == SegsOf
  <2>1. d \notin D /\ IsFiniteFamily(D, f) /\ IsFiniteSet(f[d])
    BY <1>3, <1>5
  <2> HIDE DEF f
  <2>2. Cardinality(Family(D \cup {d}, f)) = Cardinality(Family(D, f)) + Cardinality(f[d])
    BY <2>1, FamilyAdd
  <2> QED
    BY <2>2 DEF f
<1> QED
  BY <1>1, <1>3, <1>5, <1>6
-----------------------------------------------------------------------------
(* What sending and taking a command do to the places of frames.           *)

(* A command of a session is sent; a frame in it was never sent before.    *)
LEMMA SentPlaces ==
    ASSUME recverQ \in Seq(Commands), FramesOnce, Tracked,
           NEW c \in Commands, ~IsDecoded(c), recverQ' = Append(recverQ, c),
           UNCHANGED <<fecQ, decoding, payloads>>,
           IF HasFrame(c) THEN FrameOf(c) \notin sent /\ sent' = sent \cup {FrameOf(c)}
                          ELSE UNCHANGED sent
    PROVE  FramesOnce' /\ Tracked'
<1> DEFINE n == Len(recverQ) + 1
<1>1. /\ Len(recverQ') = n /\ Len(recverQ) \in Nat /\ recverQ'[n] = c
      /\ \A i \in 1..Len(recverQ) : recverQ'[i] = recverQ[i]
      /\ \A i \in 1..n : i \in 1..Len(recverQ) \/ i = n
      /\ n \notin 1..Len(recverQ)
  BY Sent
<1> HIDE DEF n
<1>2. FramesOnce'
  <2>1. sent \subseteq sent' /\ (HasFrame(c) => FrameOf(c) \in sent')
    OBVIOUS
  <2>2. ASSUME NEW i \in 1..n, HasFrame(recverQ'[i])
        PROVE  /\ FrameOf(recverQ'[i]) \in sent'
               /\ \A d \in decoding : FrameOf(recverQ'[i]) # KeyOf(d)
               /\ FrameOf(recverQ'[i]) \notin payloads
    <3>1. CASE i \in 1..Len(recverQ)
      BY <1>1, <2>1, <2>2, <3>1 DEF FramesOnce
    <3>2. CASE i = n
      BY <1>1, <2>1, <2>2, <3>2 DEF FramesOnce
    <3> QED
      BY <1>1, <3>1, <3>2
  <2>3. ASSUME NEW i \in 1..n, NEW j \in 1..n, HasFrame(recverQ'[i]), HasFrame(recverQ'[j]),
               FrameOf(recverQ'[j]) = FrameOf(recverQ'[i])
        PROVE  i = j
    <3>1. \A k \in 1..Len(recverQ) : HasFrame(recverQ[k]) => FrameOf(recverQ[k]) \in sent
      BY DEF FramesOnce
    <3>2. CASE i \in 1..Len(recverQ) /\ j \in 1..Len(recverQ)
      BY <1>1, <2>3, <3>2 DEF FramesOnce
    <3>3. CASE i = n /\ j \in 1..Len(recverQ)
      BY <1>1, <2>3, <3>1, <3>3
    <3>4. CASE i \in 1..Len(recverQ) /\ j = n
      BY <1>1, <2>3, <3>1, <3>4
    <3> QED
      BY <1>1, <3>2, <3>3, <3>4
  <2> QED
    BY <1>1, <2>1, <2>2, <2>3 DEF FramesOnce
<1>3. Tracked'
  <2>1. \A i \in 1..n : IsDecoded(recverQ'[i]) =>
           i \in 1..Len(recverQ) /\ recverQ'[i] = recverQ[i]
    BY <1>1
  <2>2. \A i \in 1..Len(recverQ) : i \in 1..n /\ recverQ'[i] = recverQ[i]
    BY <1>1 DEF n
  <2> QED
    BY <1>1, <2>1, <2>2 DEF Tracked, FecTracked, RecverTracked, OneWay, AllUnderWay
<1> QED
  BY <1>2, <1>3

(* A command is taken, and no frame changes its place but by being lost.   *)
LEMMA TakenFrames ==
    ASSUME recverQ \in Seq(Commands), FramesOnce, recverQ # <<>>, recverQ' = Tail(recverQ),
           UNCHANGED <<sent, payloads>>, decoding' \subseteq decoding
    PROVE  FramesOnce'
<1>1. \A i \in 1..Len(recverQ') : /\ i + 1 \in 1..Len(recverQ) /\ recverQ'[i] = recverQ[i + 1]
                                  /\ i \in Int
  BY Taken
<1>2. ASSUME NEW i \in 1..Len(recverQ'), NEW j \in 1..Len(recverQ'),
             HasFrame(recverQ'[i]), HasFrame(recverQ'[j]),
             FrameOf(recverQ'[j]) = FrameOf(recverQ'[i])
      PROVE  i = j
  <2>1. i + 1 = j + 1
    BY <1>1, <1>2 DEF FramesOnce
  <2> QED
    BY <1>1, <2>1
<1> QED
  BY <1>1, <1>2 DEF FramesOnce

(* The frame of the packet that is taken is in no other place.             *)
LEMMA TakenFrameAlone ==
    ASSUME recverQ \in Seq(Commands), FramesOnce, recverQ # <<>>, recverQ' = Tail(recverQ),
           HasFrame(Head(recverQ))
    PROVE  LET k == FrameOf(Head(recverQ)) IN
           /\ k \in sent /\ k \notin payloads /\ \A d \in decoding : KeyOf(d) # k
           /\ \A i \in 1..Len(recverQ') : HasFrame(recverQ'[i]) => FrameOf(recverQ'[i]) # k
<1>1. /\ Len(recverQ) \in Nat \ {0} /\ Head(recverQ) = recverQ[1]
      /\ \A i \in 1..Len(recverQ') : /\ i + 1 \in 1..Len(recverQ) /\ recverQ'[i] = recverQ[i + 1]
                                     /\ i + 1 # 1
  BY Taken
<1>2. 1 \in 1..Len(recverQ)
  BY <1>1
<1> QED
  BY <1>1, <1>2 DEF FramesOnce

(* It goes to the session.                                                 *)
LEMMA TakenPayload ==
    ASSUME recverQ \in Seq(Commands), FramesOnce, recverQ # <<>>, recverQ' = Tail(recverQ),
           HasFrame(Head(recverQ)), UNCHANGED <<sent, decoding>>,
           payloads' = payloads \cup {FrameOf(Head(recverQ))}
    PROVE  FramesOnce'
<1>1. \A i \in 1..Len(recverQ') : /\ i + 1 \in 1..Len(recverQ) /\ recverQ'[i] = recverQ[i + 1]
                                  /\ i \in Int
  BY Taken
<1> DEFINE k == FrameOf(Head(recverQ))
<1>2. /\ k \in sent /\ \A d \in decoding : KeyOf(d) # k
      /\ \A i \in 1..Len(recverQ') : HasFrame(recverQ'[i]) => FrameOf(recverQ'[i]) # k
  BY TakenFrameAlone
<1>3. payloads' = payloads \cup {k}
  OBVIOUS
<1> HIDE DEF k
<1>4. ASSUME NEW i \in 1..Len(recverQ'), NEW j \in 1..Len(recverQ'),
             HasFrame(recverQ'[i]), HasFrame(recverQ'[j]),
             FrameOf(recverQ'[j]) = FrameOf(recverQ'[i])
      PROVE  i = j
  <2>1. i + 1 = j + 1
    BY <1>1, <1>4 DEF FramesOnce
  <2> QED
    BY <1>1, <2>1
<1> QED
  BY <1>1, <1>2, <1>3, <1>4 DEF FramesOnce

(* It goes to the fec thread.                                              *)
LEMMA TakenDecode ==
    ASSUME recverQ \in Seq(Commands), FramesOnce, recverQ # <<>>, recverQ' = Tail(recverQ),
           HasFrame(Head(recverQ)), UNCHANGED <<sent, payloads>>,
           NEW d, KeyOf(d) = FrameOf(Head(recverQ)), decoding' = decoding \cup {d}
    PROVE  FramesOnce' /\ d \notin decoding
<1>1. \A i \in 1..Len(recverQ') : /\ i + 1 \in 1..Len(recverQ) /\ recverQ'[i] = recverQ[i + 1]
                                  /\ i \in Int
  BY Taken
<1> DEFINE k == FrameOf(Head(recverQ))
<1>2. /\ k \in sent /\ k \notin payloads /\ \A e \in decoding : KeyOf(e) # k
      /\ \A i \in 1..Len(recverQ') : HasFrame(recverQ'[i]) => FrameOf(recverQ'[i]) # k
  BY TakenFrameAlone
<1>3. KeyOf(d) = k
  OBVIOUS
<1> HIDE DEF k
<1>4. ASSUME NEW i \in 1..Len(recverQ'), NEW j \in 1..Len(recverQ'),
             HasFrame(recverQ'[i]), HasFrame(recverQ'[j]),
             FrameOf(recverQ'[j]) = FrameOf(recverQ'[i])
      PROVE  i = j
  <2>1. i + 1 = j + 1
    BY <1>1, <1>4 DEF FramesOnce
  <2> QED
    BY <1>1, <2>1
<1> QED
  BY <1>1, <1>2, <1>3, <1>4 DEF FramesOnce

(* A frame comes back from the fec thread and goes to its session.         *)
LEMMA TakenBack ==
    ASSUME recverQ \in Seq(Commands), FramesOnce, recverQ # <<>>, recverQ' = Tail(recverQ),
           UNCHANGED sent, NEW d \in decoding, decoding' = decoding \ {d},
           payloads' = payloads \cup {KeyOf(d)}
    PROVE  FramesOnce' /\ KeyOf(d) \notin payloads
<1>1. \A i \in 1..Len(recverQ') : /\ i + 1 \in 1..Len(recverQ) /\ recverQ'[i] = recverQ[i + 1]
                                  /\ i \in Int
  BY Taken
<1>2. ASSUME NEW i \in 1..Len(recverQ'), NEW j \in 1..Len(recverQ'),
             HasFrame(recverQ'[i]), HasFrame(recverQ'[j]),
             FrameOf(recverQ'[j]) = FrameOf(recverQ'[i])
      PROVE  i = j
  <2>1. i + 1 = j + 1
    BY <1>1, <1>2 DEF FramesOnce
  <2> QED
    BY <1>1, <2>1
<1> QED
  BY <1>1, <1>2 DEF FramesOnce

(* A command of a session is taken: nothing changes for the frames under   *)
(* way, but that one more may go to the fec thread.                        *)
LEMMA TakenTracked ==
    ASSUME recverQ \in Seq(Commands), fecQ \in Seq(DecodingType), Tracked,
           recverQ # <<>>, recverQ' = Tail(recverQ), ~IsDecoded(Head(recverQ)),
           \/ UNCHANGED <<fecQ, decoding>>
           \/ \E d \in DecodingType \ decoding :
                 fecQ' = Append(fecQ, d) /\ decoding' = decoding \cup {d}
    PROVE  Tracked'
<1>1. /\ Len(recverQ) \in Nat \ {0} /\ Head(recverQ) = recverQ[1]
      /\ Len(recverQ') = Len(recverQ) - 1
      /\ \A i \in 1..Len(recverQ') : /\ i + 1 \in 1..Len(recverQ) /\ recverQ'[i] = recverQ[i + 1]
                                     /\ i \in Int
  BY Taken
<1>2. ASSUME NEW i \in 1..Len(recverQ), IsDecoded(recverQ[i])
      PROVE  i - 1 \in 1..Len(recverQ') /\ recverQ'[i - 1] = recverQ[i]
  <2>1. i # 1
    BY <1>1, <1>2
  <2> QED
    BY <1>1, <2>1
<1>3. /\ \A i \in 1..Len(recverQ') :
            IsDecoded(recverQ'[i]) => recverQ'[i].segments \in decoding
      /\ \A i, j \in 1..Len(recverQ') :
            IsDecoded(recverQ'[i]) /\ IsDecoded(recverQ'[j])
              /\ recverQ'[i].segments = recverQ'[j].segments => i = j
  <2>1. ASSUME NEW i \in 1..Len(recverQ'), NEW j \in 1..Len(recverQ'),
               IsDecoded(recverQ'[i]), IsDecoded(recverQ'[j]),
               recverQ'[i].segments = recverQ'[j].segments
        PROVE  i = j
    <3>1. i + 1 = j + 1
      BY <1>1, <2>1 DEF Tracked, RecverTracked
    <3> QED
      BY <1>1, <3>1
  <2> QED
    BY <1>1, <2>1 DEF Tracked, RecverTracked
<1>4. \A i \in 1..Len(fecQ), j \in 1..Len(recverQ') :
         IsDecoded(recverQ'[j]) => fecQ[i] # recverQ'[j].segments
  BY <1>1 DEF Tracked, OneWay
<1>5. \A d \in decoding :
         \/ \E i \in 1..Len(fecQ) : fecQ[i] = d
         \/ \E i \in 1..Len(recverQ') : IsDecoded(recverQ'[i]) /\ recverQ'[i].segments = d
  BY <1>2 DEF Tracked, AllUnderWay
<1>6. CASE UNCHANGED <<fecQ, decoding>>
  BY <1>3, <1>4, <1>5, <1>6 DEF Tracked, FecTracked, RecverTracked, OneWay, AllUnderWay
<1>7. ASSUME NEW d \in DecodingType \ decoding, fecQ' = Append(fecQ, d), decoding' = decoding \cup {d}
      PROVE  Tracked'
  <2> DEFINE n == Len(fecQ) + 1
  <2>1. /\ Len(fecQ') = n /\ Len(fecQ) \in Nat /\ fecQ'[n] = d
        /\ \A i \in 1..Len(fecQ) : i \in 1..n /\ fecQ'[i] = fecQ[i]
        /\ \A i \in 1..n : i \in 1..Len(fecQ) \/ i = n
        /\ n \in 1..n
    BY <1>7
  <2> HIDE DEF n
  <2>2. FecTracked'
    BY <1>7, <2>1 DEF Tracked, FecTracked
  <2>3. RecverTracked'
    BY <1>3, <1>7 DEF RecverTracked
  <2>4. OneWay'
    BY <1>3, <1>4, <1>7, <2>1 DEF OneWay
  <2>5. AllUnderWay'
    BY <1>5, <1>7, <2>1 DEF AllUnderWay
  <2> QED
    BY <2>2, <2>3, <2>4, <2>5 DEF Tracked
<1> QED
  BY <1>6, <1>7

(* A frame comes back from the fec thread.                                 *)
LEMMA BackTracked ==
    ASSUME recverQ \in Seq(Commands), Tracked,
           recverQ # <<>>, recverQ' = Tail(recverQ), IsDecoded(Head(recverQ)),
           UNCHANGED fecQ, decoding' = decoding \ {Head(recverQ).segments}
    PROVE  Tracked' /\ Head(recverQ).segments \in decoding
<1>1. /\ Len(recverQ) \in Nat \ {0} /\ Head(recverQ) = recverQ[1]
      /\ Len(recverQ') = Len(recverQ) - 1
      /\ \A i \in 1..Len(recverQ') : /\ i + 1 \in 1..Len(recverQ) /\ recverQ'[i] = recverQ[i + 1]
                                     /\ i \in Int /\ i + 1 # 1
  BY Taken
<1> DEFINE d == Head(recverQ).segments
<1>2. 1 \in 1..Len(recverQ) /\ IsDecoded(recverQ[1]) /\ recverQ[1].segments = d
      /\ decoding' = decoding \ {d}
  BY <1>1
<1> HIDE DEF d
<1>3. d \in decoding /\ \A i \in 1..Len(fecQ) : fecQ[i] # d
  BY <1>2 DEF Tracked, RecverTracked, OneWay
<1>4. ASSUME NEW i \in 1..Len(recverQ'), IsDecoded(recverQ'[i]) PROVE recverQ'[i].segments # d
  BY <1>1, <1>2, <1>4 DEF Tracked, RecverTracked
<1>5. ASSUME NEW i \in 1..Len(recverQ), IsDecoded(recverQ[i]), recverQ[i].segments # d
      PROVE  i - 1 \in 1..Len(recverQ') /\ recverQ'[i - 1] = recverQ[i]
  <2>1. i # 1
    BY <1>2, <1>5
  <2> QED
    BY <1>1, <2>1
<1>6. FecTracked'
  BY <1>2, <1>3 DEF Tracked, FecTracked
<1>7. RecverTracked'
  <2>1. ASSUME NEW i \in 1..Len(recverQ'), NEW j \in 1..Len(recverQ'),
               IsDecoded(recverQ'[i]), IsDecoded(recverQ'[j]),
               recverQ'[i].segments = recverQ'[j].segments
        PROVE  i = j
    <3>1. i + 1 = j + 1
      BY <1>1, <2>1 DEF Tracked, RecverTracked
    <3> QED
      BY <1>1, <3>1
  <2>2. \A i \in 1..Len(recverQ') : IsDecoded(recverQ'[i]) => recverQ'[i].segments \in decoding'
    BY <1>1, <1>2, <1>4 DEF Tracked, RecverTracked
  <2> QED
    BY <2>1, <2>2 DEF RecverTracked
<1>8. OneWay'
  BY <1>1 DEF Tracked, OneWay
<1>9. AllUnderWay'
  <2> SUFFICES ASSUME NEW e \in decoding, e # d
               PROVE  \/ \E i \in 1..Len(fecQ) : fecQ[i] = e
                      \/ \E i \in 1..Len(recverQ') :
                            IsDecoded(recverQ'[i]) /\ recverQ'[i].segments = e
    BY <1>2 DEF AllUnderWay
  <2>1. CASE \E i \in 1..Len(fecQ) : fecQ[i] = e
    BY <2>1
  <2>2. ASSUME NEW i \in 1..Len(recverQ), IsDecoded(recverQ[i]), recverQ[i].segments = e
        PROVE  IsDecoded(recverQ'[i - 1]) /\ recverQ'[i - 1].segments = e
               /\ i - 1 \in 1..Len(recverQ')
    BY <1>5, <2>2
  <2> QED
    BY <2>1, <2>2 DEF Tracked, AllUnderWay
<1> QED
  BY <1>2, <1>3, <1>6, <1>7, <1>8, <1>9 DEF Tracked

(* The fec thread answers.                                                 *)
LEMMA FecPlaces ==
    ASSUME recverQ \in Seq(Commands), fecQ \in Seq(DecodingType), FramesOnce, Tracked,
           fecQ # <<>>, fecQ' = Tail(fecQ), NEW c \in Commands, IsDecoded(c),
           c.segments = Head(fecQ), recverQ' = Append(recverQ, c),
           UNCHANGED <<decoding, payloads, sent>>
    PROVE  FramesOnce' /\ Tracked'
<1> DEFINE n == Len(recverQ) + 1
           d == Head(fecQ)
<1>1. /\ Len(recverQ') = n /\ Len(recverQ) \in Nat /\ recverQ'[n] = c
      /\ \A i \in 1..Len(recverQ) : i \in 1..n /\ recverQ'[i] = recverQ[i]
      /\ \A i \in 1..n : i \in 1..Len(recverQ) \/ i = n
      /\ n \in 1..n /\ n \notin 1..Len(recverQ)
  BY Sent
<1>2. /\ Len(fecQ) \in Nat \ {0} /\ d = fecQ[1] /\ 1 \in 1..Len(fecQ)
      /\ Len(fecQ') = Len(fecQ) - 1
      /\ \A i \in 1..Len(fecQ') : /\ i + 1 \in 1..Len(fecQ) /\ fecQ'[i] = fecQ[i + 1]
                                  /\ i \in Int /\ i + 1 # 1
      /\ \A i \in 1..Len(fecQ) : i # 1 => i - 1 \in 1..Len(fecQ') /\ fecQ'[i - 1] = fecQ[i]
  OBVIOUS
<1>0. c.segments = d
  OBVIOUS
<1> HIDE DEF n, d
<1>3. ~HasFrame(c)
  BY DEF HasFrame, IsDecoded
<1>4. FramesOnce'
  <2>1. \A i \in 1..Len(recverQ') : HasFrame(recverQ'[i]) =>
           i \in 1..Len(recverQ) /\ recverQ'[i] = recverQ[i]
    BY <1>1, <1>3
  <2> QED
    BY <2>1 DEF FramesOnce
<1>5. d \in decoding /\ \A i \in 1..Len(fecQ') : fecQ'[i] # d
  BY <1>2 DEF Tracked, FecTracked
<1>6. FecTracked'
  <2>1. ASSUME NEW i \in 1..Len(fecQ'), NEW j \in 1..Len(fecQ'), fecQ'[i] = fecQ'[j] PROVE i = j
    <3>1. i + 1 = j + 1
      BY <1>2, <2>1 DEF Tracked, FecTracked
    <3> QED
      BY <1>2, <3>1
  <2>2. \A i \in 1..Len(fecQ') : fecQ'[i] \in decoding'
    BY <1>2 DEF Tracked, FecTracked
  <2> QED
    BY <2>1, <2>2 DEF FecTracked
<1>7. \A j \in 1..Len(recverQ) : IsDecoded(recverQ[j]) => recverQ[j].segments # d
  BY <1>2 DEF Tracked, OneWay
<1>8. RecverTracked'
  <2>1. ASSUME NEW i \in 1..n, IsDecoded(recverQ'[i]) PROVE recverQ'[i].segments \in decoding
    <3>1. CASE i = n
      BY <1>0, <1>1, <1>5, <3>1
    <3>2. CASE i \in 1..Len(recverQ)
      BY <1>1, <2>1, <3>2 DEF Tracked, RecverTracked
    <3> QED
      BY <1>1, <3>1, <3>2
  <2>2. ASSUME NEW i \in 1..n, NEW j \in 1..n, IsDecoded(recverQ'[i]), IsDecoded(recverQ'[j]),
               recverQ'[i].segments = recverQ'[j].segments
        PROVE  i = j
    <3>1. CASE i \in 1..Len(recverQ) /\ j \in 1..Len(recverQ)
      BY <1>1, <2>2, <3>1 DEF Tracked, RecverTracked
    <3>2. CASE i = n /\ j \in 1..Len(recverQ)
      BY <1>0, <1>1, <1>7, <2>2, <3>2
    <3>3. CASE i \in 1..Len(recverQ) /\ j = n
      BY <1>0, <1>1, <1>7, <2>2, <3>3
    <3> QED
      BY <1>1, <3>1, <3>2, <3>3
  <2> QED
    BY <1>1, <2>1, <2>2 DEF RecverTracked
<1>9. OneWay'
  BY <1>0, <1>1, <1>2, <1>5 DEF Tracked, OneWay
<1>10. AllUnderWay'
  <2> SUFFICES ASSUME NEW e \in decoding
               PROVE  \/ \E i \in 1..Len(fecQ') : fecQ'[i] = e
                      \/ \E i \in 1..n : IsDecoded(recverQ'[i]) /\ recverQ'[i].segments = e
    BY <1>1 DEF AllUnderWay
  <2>1. CASE e = d
    BY <1>0, <1>1, <2>1
  <2>2. ASSUME NEW i \in 1..Len(fecQ), fecQ[i] = e, e # d
        PROVE  i - 1 \in 1..Len(fecQ') /\ fecQ'[i - 1] = e
    BY <1>2, <2>2
  <2>3. ASSUME NEW i \in 1..Len(recverQ), IsDecoded(recverQ[i]), recverQ[i].segments = e
        PROVE  i \in 1..n /\ IsDecoded(recverQ'[i]) /\ recverQ'[i].segments = e
    BY <1>1, <2>3
  <2> QED
    BY <2>1, <2>2, <2>3 DEF Tracked, AllUnderWay
<1> QED
  BY <1>4, <1>6, <1>8, <1>9, <1>10 DEF Tracked
-----------------------------------------------------------------------------
(* The steps.                                                              *)

(* Nothing is sent at the start.                                           *)
LEMMA InitPlaces == Init => Inv
<1> SUFFICES ASSUME Init PROVE Inv
  OBVIOUS
<1>1. /\ recverQ = <<>> /\ fecQ = <<>> /\ decoding = {} /\ payloads = {} /\ sent = {}
      /\ held = [a \in Assemblers |-> 0]
      /\ live = [stream |-> 0, segment |-> 0, buffer |-> 0]
  BY DEF Init
<1>2. IsFiniteSet({}) /\ Cardinality({}) = 0
  BY FS_EmptySet
<1>3. SetsTypeOK
  BY <1>1, <1>2 DEF SetsTypeOK
<1>4. FramesOnce /\ Tracked
  BY <1>1 DEF FramesOnce, Tracked, FecTracked, RecverTracked, OneWay, AllUnderWay
<1>5. Streams = {} /\ SegmentsHeld = {} /\ SegmentsDecoding = {}
  BY <1>1 DEF Streams, SegmentsHeld, SegmentsDecoding
<1>6. OwnersExact
  BY <1>1, <1>2, <1>5 DEF OwnersExact
<1> QED
  BY <1>3, <1>4, <1>6, InitInv DEF Inv, PlacesInv

(* The packet of a command that is sent is allocated.                      *)
LEMMA SentInv ==
    ASSUME Inv, IInv', NEW c \in Commands, ~IsDecoded(c), recverQ' = Append(recverQ, c),
           UNCHANGED <<fecQ, held, decoding, payloads>>,
           IF HasFrame(c) THEN FrameOf(c) \notin sent /\ sent' = sent \cup {FrameOf(c)}
                          ELSE UNCHANGED sent,
           sent' \subseteq Assemblers \X Frames,
           live' = IF c.cmd = "STREAM" THEN [live EXCEPT !.stream = @ + 1] ELSE live
    PROVE  Inv'
<1>1. recverQ \in Seq(Commands) /\ FramesOnce /\ Tracked /\ SetsTypeOK /\ OwnersExact
  BY DEF Inv, PlacesInv, IInv, QueuesTypeOK
<1>2. FramesOnce' /\ Tracked'
  BY <1>1, SentPlaces
<1>3. Cardinality(Streams)' = Cardinality(Streams) + (IF c.cmd = "STREAM" THEN 1 ELSE 0)
  BY <1>1, StreamsSent
<1>4. /\ live' \in [stream : Nat, segment : Nat, buffer : Nat]
      /\ live'.stream = live.stream + (IF c.cmd = "STREAM" THEN 1 ELSE 0)
      /\ live'.segment = live.segment /\ live'.buffer = live.buffer
  BY <1>1 DEF SetsTypeOK
<1>5. SetsTypeOK'
  BY <1>1, <1>4 DEF SetsTypeOK
<1>6. OwnersExact'
  BY <1>1, <1>3, <1>4 DEF OwnersExact, SegmentsHeld, SegmentsDecoding
<1> QED
  BY <1>2, <1>5, <1>6 DEF Inv, PlacesInv

(* A session releases a frame.                                             *)
LEMMA ReleaseInv ==
    ASSUME Inv, IInv', NEW a \in Assemblers, NEW f \in Frames, ReleaseFramePayload(a, f)
    PROVE  Inv'
<1> DEFINE k == <<a, f>>
<1>1. /\ k \in payloads /\ payloads' = payloads \ {k}
      /\ live' = [live EXCEPT !.buffer = @ - 1]
      /\ UNCHANGED <<recverQ, fecQ, held, decoding, sent>>
  BY DEF ReleaseFramePayload
<1> HIDE DEF k
<1>2. FramesOnce /\ Tracked /\ SetsTypeOK /\ OwnersExact
  BY DEF Inv, PlacesInv
<1>3. /\ Cardinality(payloads') \in Nat
      /\ Cardinality(payloads) = Cardinality(payloads') + 1
  <2>1. IsFiniteSet(payloads)
    BY <1>2, AssemblerAssumption, FS_Product, FS_Subset DEF SetsTypeOK
  <2> QED
    BY <1>1, <2>1, OneLess
<1>4. Cardinality(decoding) \in Nat
  BY <1>2, FS_CardinalityType DEF SetsTypeOK
<1>5. /\ live'.stream = live.stream /\ live'.segment = live.segment
      /\ live'.buffer = Cardinality(decoding) + Cardinality(payloads')
      /\ live' \in [stream : Nat, segment : Nat, buffer : Nat]
  <2>1. live.buffer = Cardinality(decoding) + Cardinality(payloads)
    BY <1>2 DEF OwnersExact
  <2>2. live.buffer - 1 = Cardinality(decoding) + Cardinality(payloads') /\ live.buffer - 1 \in Nat
    BY <1>3, <1>4, <2>1
  <2>3. live \in [stream : Nat, segment : Nat, buffer : Nat]
    BY <1>2 DEF SetsTypeOK
  <2> QED
    BY <1>1, <2>2, <2>3
<1>6. SetsTypeOK'
  BY <1>1, <1>2, <1>5 DEF SetsTypeOK
<1>7. OwnersExact'
  BY <1>1, <1>2, <1>5 DEF OwnersExact, Streams, SegmentsHeld, SegmentsDecoding
<1>8. FramesOnce' /\ Tracked'
  BY <1>1, <1>2 DEF FramesOnce, Tracked, FecTracked, RecverTracked, OneWay, AllUnderWay
<1> QED
  BY <1>6, <1>7, <1>8 DEF Inv, PlacesInv

(* Every step of a session's thread keeps the frames in their places.      *)
LEMMA ClientThreadPlaces ==
    ASSUME Inv, IInv', NEW a \in Assemblers, ClientThread(a) PROVE Inv'
<1>1. ASSUME NEW on \in BOOLEAN, recverQ' = Append(recverQ, Registration(a, on)),
             UNCHANGED <<fecQ, held, decoding, payloads, sent, live>>
      PROVE  Inv'
  <2> DEFINE c == Registration(a, on)
  <2>1. c \in Commands /\ c.cmd = "REGISTER" /\ sent' \subseteq Assemblers \X Frames
    BY <1>1, CommandsMade DEF Inv, PlacesInv, SetsTypeOK
  <2>2. recverQ' = Append(recverQ, c)
    BY <1>1
  <2> HIDE DEF c
  <2>3. ~IsDecoded(c) /\ ~HasFrame(c)
    BY <2>1 DEF IsDecoded, HasFrame
  <2> QED
    BY <1>1, <2>1, <2>2, <2>3, SentInv
<1>2. CASE Register(a) \/ Unregister(a)
  BY <1>1, <1>2 DEF Register, Unregister
<1>3. CASE Registered(a) \/ Unregistered(a)
  <2>1. UNCHANGED <<recverQ, fecQ, held, decoding, payloads, sent, live>>
    BY <1>3 DEF Registered, Unregistered
  <2>2. PlacesInv'
    BY <2>1 DEF Inv, PlacesInv, SetsTypeOK, FramesOnce, Tracked, FecTracked, RecverTracked, OneWay,
                AllUnderWay
  <2>3. OwnersExact'
    BY <2>1 DEF Inv, OwnersExact, Streams, SegmentsHeld, SegmentsDecoding
  <2> QED
    BY <2>2, <2>3 DEF Inv
<1>4. ASSUME NEW pkt \in Packets, HandleStream(a, pkt) PROVE Inv'
  <2> DEFINE c == Stream(a, pkt)
  <2>1. /\ c \in Commands /\ c.cmd = "STREAM" /\ ~IsDecoded(c)
        /\ HasFrame(c) <=> pkt.kind \in {"whole", "met", "decode"}
        /\ HasFrame(c) => FrameOf(c) = <<a, pkt.frame>>
    BY CommandsMade DEF HasFrame, IsDecoded, FrameOf, Stream
  <2>2. recverQ' = Append(recverQ, c) /\ live' = [live EXCEPT !.stream = @ + 1]
        /\ UNCHANGED <<fecQ, held, decoding, payloads>>
    BY <1>4 DEF HandleStream
  <2>3. pkt.kind \in {"whole", "met", "decode"} <=> ~(pkt.kind \in {"segment", "nothing"})
    BY DEF Packets
  <2>4. pkt.kind \in {"whole", "met", "decode"} => pkt.frame \in Frames
    BY DEF Packets
  <2> HIDE DEF c
  <2>5. /\ IF HasFrame(c) THEN FrameOf(c) \notin sent /\ sent' = sent \cup {FrameOf(c)}
                          ELSE UNCHANGED sent
        /\ sent' \subseteq Assemblers \X Frames
    <3>1. sent \subseteq Assemblers \X Frames
      BY DEF Inv, PlacesInv, SetsTypeOK
    <3>2. CASE pkt.kind \in {"segment", "nothing"}
      <4>1. ~HasFrame(c) /\ UNCHANGED sent
        BY <1>4, <2>1, <2>3, <3>2 DEF HandleStream
      <4> QED
        BY <3>1, <4>1
    <3>3. CASE pkt.kind \notin {"segment", "nothing"}
      <4>1. /\ HasFrame(c) /\ FrameOf(c) = <<a, pkt.frame>> /\ pkt.frame \in Frames
            /\ <<a, pkt.frame>> \notin sent /\ sent' = sent \cup {<<a, pkt.frame>>}
        BY <1>4, <2>1, <2>3, <2>4, <3>3 DEF HandleStream
      <4> QED
        BY <3>1, <4>1
    <3> QED
      BY <3>2, <3>3
  <2> QED
    BY <2>1, <2>2, <2>5, SentInv
<1> QED
  BY <1>2, <1>3, <1>4, ReleaseInv DEF ClientThread

(* A packet is lost, kept, or completes a frame.                           *)
LEMMA RecvStreamPlaces ==
    ASSUME Inv, IInv', RecvStream PROVE Inv'
<1> DEFINE a == Head(recverQ).id
           pkt == Head(recverQ).pkt
           c == Head(recverQ)
<1>1. /\ recverQ # <<>> /\ recverQ' = Tail(recverQ) /\ c.cmd = "STREAM" /\ UNCHANGED sent
      /\ recverQ \in Seq(Commands) /\ fecQ \in Seq(DecodingType)
      /\ held \in [Assemblers -> Nat] /\ held' \in [Assemblers -> Nat]
  BY DEF RecvStream, Takes, Inv, IInv, QueuesTypeOK
<1>2. FramesOnce /\ Tracked /\ SetsTypeOK /\ OwnersExact
  BY DEF Inv, PlacesInv
<1>3. /\ c \in Commands /\ a \in Assemblers /\ pkt \in Packets
      /\ ~IsDecoded(c)
      /\ HasFrame(c) <=> pkt.kind \in {"whole", "met", "decode"}
      /\ FrameOf(c) = <<a, pkt.frame>>
      /\ pkt.kind \in {"whole", "met", "decode"} => pkt.frame \in Frames
  <2>1. c \in Commands
    BY HeadFits, <1>1 DEF Inv
  <2>2. a \in Assemblers /\ pkt \in Packets
    BY <1>1, <2>1, CommandFields
  <2> QED
    BY <1>1, <2>1, <2>2 DEF IsDecoded, HasFrame, FrameOf, Packets
<1>4. /\ Cardinality(Streams)' \in Nat
      /\ Cardinality(Streams) = Cardinality(Streams)' + 1
  BY <1>1, StreamsTaken
<1>5. /\ live.stream = Cardinality(Streams)
      /\ live.segment = Cardinality(SegmentsHeld) + Cardinality(SegmentsDecoding)
      /\ live.buffer = Cardinality(decoding) + Cardinality(payloads)
      /\ live \in [stream : Nat, segment : Nat, buffer : Nat]
      /\ live.stream - 1 = Cardinality(Streams)' /\ live.stream - 1 \in Nat
  BY <1>2, <1>4 DEF OwnersExact, SetsTypeOK
<1>6. /\ IsFiniteSet(decoding) /\ Cardinality(decoding) \in Nat
      /\ IsFiniteSet(payloads) /\ Cardinality(payloads) \in Nat
      /\ Cardinality(SegmentsDecoding) \in Nat
  <2>1. IsFiniteSet(payloads) /\ IsFiniteSet(decoding)
    BY <1>2, AssemblerAssumption, FS_Product, FS_Subset DEF SetsTypeOK
  <2>2. Cardinality(SegmentsDecoding) \in Nat
    BY <1>2, <2>1, DecodingFamily DEF SetsTypeOK, SegmentsDecoding
  <2> QED
    BY <2>1, <2>2, FS_CardinalityType
<1>13. /\ live \in [stream : Nat, segment : Nat, buffer : Nat]
       /\ live.stream - 1 \in Nat /\ live.segment \in Nat /\ live.buffer \in Nat
       /\ live.buffer + 1 \in Nat /\ live.segment + 1 \in Nat
  BY <1>5
<1> HIDE DEF a, pkt, c
<1>7. ASSUME NEW n \in Nat, held'[a] = n, \A b \in Assemblers : b # a => held'[b] = held[b]
      PROVE  /\ Cardinality(SegmentsHeld') \in Nat /\ Cardinality(SegmentsHeld) \in Nat
             /\ Cardinality(SegmentsHeld') = Cardinality(SegmentsHeld) + n - held[a]
  <2>1. /\ Cardinality(SegmentsHeld) \in Nat /\ Cardinality(SegmentsHeld') \in Nat
        /\ Cardinality(SegmentsHeld') + held[a] = Cardinality(SegmentsHeld) + held'[a]
    BY <1>1, <1>3, <1>7, HeldChanges DEF SegmentsHeld
  <2>2. held[a] \in Nat
    BY <1>1, <1>3
  <2> QED
    BY <1>7, <2>1, <2>2
<1>8. CASE /\ UNCHANGED <<decoding, fecQ, payloads>>
           /\ live'.buffer = live.buffer /\ live'.stream = live.stream - 1
           /\ live'.segment = Cardinality(SegmentsHeld') + Cardinality(SegmentsDecoding)
           /\ live' \in [stream : Nat, segment : Nat, buffer : Nat]
  <2>1. FramesOnce' /\ Tracked'
    BY <1>1, <1>2, <1>3, <1>8, TakenFrames, TakenTracked DEF c
  <2>2. SetsTypeOK'
    BY <1>1, <1>2, <1>8 DEF SetsTypeOK
  <2>3. OwnersExact'
    BY <1>5, <1>8 DEF OwnersExact, SegmentsDecoding
  <2> QED
    BY <2>1, <2>2, <2>3 DEF Inv, PlacesInv
<1>9. CASE /\ UNCHANGED <<decoding, fecQ>> /\ HasFrame(c) /\ pkt.frame \in Frames
           /\ payloads' = payloads \cup {FrameOf(c)}
           /\ live'.buffer = live.buffer + 1 /\ live'.stream = live.stream - 1
           /\ live'.segment = Cardinality(SegmentsHeld') + Cardinality(SegmentsDecoding)
           /\ live' \in [stream : Nat, segment : Nat, buffer : Nat]
  <2>1. FramesOnce' /\ Tracked' /\ FrameOf(c) \notin payloads
    BY <1>1, <1>2, <1>3, <1>9, TakenPayload, TakenTracked, TakenFrameAlone DEF c
  <2>2. Cardinality(payloads') = Cardinality(payloads) + 1
    BY <1>6, <1>9, <2>1, FS_AddElement
  <2>3. SetsTypeOK'
    BY <1>1, <1>2, <1>3, <1>9 DEF SetsTypeOK
  <2>4. OwnersExact'
    BY <1>5, <1>6, <1>9, <2>2 DEF OwnersExact, SegmentsDecoding
  <2> QED
    BY <2>1, <2>3, <2>4 DEF Inv, PlacesInv
<1>10. ASSUME NEW n \in Nat, HasFrame(c), pkt.frame \in Frames, UNCHANGED payloads,
              decoding' = decoding \cup {Decoding(a, pkt.frame, n)},
              fecQ' = Append(fecQ, Decoding(a, pkt.frame, n)),
              live'.buffer = live.buffer + 1, live'.stream = live.stream - 1,
              live'.segment = Cardinality(SegmentsHeld') + Cardinality(SegmentsDecoding) + n,
              live' \in [stream : Nat, segment : Nat, buffer : Nat]
       PROVE  Inv'
  <2> DEFINE d == Decoding(a, pkt.frame, n)
  <2>1. d \in DecodingType /\ d.segs = n /\ KeyOf(d) = FrameOf(c)
    BY <1>3, <1>10 DEF Decoding, DecodingType, KeyOf
  <2>2. decoding' = decoding \cup {d} /\ fecQ' = Append(fecQ, d)
    BY <1>10
  <2> HIDE DEF d
  <2>3. FramesOnce' /\ d \notin decoding
    BY <1>1, <1>2, <1>10, <2>1, <2>2, TakenDecode DEF c
  <2>4. Tracked'
    BY <1>1, <1>2, <1>3, <2>1, <2>2, <2>3, TakenTracked DEF c
  <2>5. /\ IsFiniteSet(decoding') /\ Cardinality(decoding') = Cardinality(decoding) + 1
        /\ Cardinality(SegmentsDecoding') = Cardinality(SegmentsDecoding) + n
    <3>1. /\ IsFiniteSet(decoding \cup {d})
          /\ Cardinality(decoding \cup {d}) = Cardinality(decoding) + 1
          /\ Cardinality(UNION {{x} \X (1 .. x.segs) : x \in decoding \cup {d}})
               = Cardinality(SegmentsDecoding) + d.segs
      BY <1>2, <1>6, <2>1, <2>3, DecodingAdds DEF SetsTypeOK, SegmentsDecoding
    <3> QED
      BY <1>6, <2>1, <2>2, <3>1 DEF SegmentsDecoding
  <2>6. SetsTypeOK'
    BY <1>1, <1>2, <1>10, <2>1, <2>2, <2>5 DEF SetsTypeOK
  <2>7. Cardinality(SegmentsHeld') \in Nat
    BY <1>1, HeldFamily DEF SegmentsHeld
  <2>8. OwnersExact'
    <3>1. live'.stream = Cardinality(Streams)'
      BY <1>5, <1>10
    <3>2. live'.segment = Cardinality(SegmentsHeld') + Cardinality(SegmentsDecoding')
      BY <1>6, <1>10, <2>5, <2>7
    <3>3. live'.buffer = Cardinality(decoding') + Cardinality(payloads')
      BY <1>5, <1>6, <1>10, <2>5
    <3> QED
      BY <3>1, <3>2, <3>3 DEF OwnersExact
  <2> QED
    BY <2>3, <2>4, <2>6, <2>8 DEF Inv, PlacesInv
<1>11. CASE a \notin assemblers
  <2>1. live' = [live EXCEPT !.stream = @ - 1] /\ UNCHANGED <<payloads, decoding, fecQ, held>>
    BY <1>11 DEF RecvStream, NoCall, a
  <2>2. SegmentsHeld' = SegmentsHeld
    BY <2>1 DEF SegmentsHeld
  <2> QED
    BY <1>5, <1>8, <2>1, <2>2
<1>12. CASE RecverHandlesPacket(a, pkt)
  <2>1. PICK after, handed \in 0 .. held[a] + 1 :
     /\ Collects(pkt.kind, held[a], after, handed)
     /\ held' = [held EXCEPT ![a] = after]
     /\ \/ /\ pkt.kind \in {"nothing", "segment"}
           /\ live' = [live EXCEPT !.stream = @ - 1, !.segment = @ + after - held[a]]
           /\ NoCall
           /\ UNCHANGED <<decoding, fecQ>>
        \/ /\ pkt.kind \in {"whole", "met"}
           /\ live' = [live EXCEPT !.stream = @ - 1, !.segment = @ + after - held[a],
                                   !.buffer = @ + 1]
           /\ CallDelegate(a, pkt.frame)
           /\ UNCHANGED <<decoding, fecQ>>
        \/ /\ pkt.kind = "decode"
           /\ live' = [live EXCEPT !.stream = @ - 1, !.segment = @ + after - held[a] + handed,
                                   !.buffer = @ + 1]
           /\ decoding' = decoding \cup {Decoding(a, pkt.frame, handed)}
           /\ fecQ' = Append(fecQ, Decoding(a, pkt.frame, handed))
           /\ NoCall
    BY <1>12 DEF RecverHandlesPacket
  <2>2. after \in Nat /\ handed \in Nat /\ held[a] \in Nat
    BY <1>1, <1>3
  <2>3. /\ live.segment + after - held[a] = Cardinality(SegmentsHeld') + Cardinality(SegmentsDecoding)
        /\ live.segment + after - held[a] \in Nat
        /\ live.segment + after - held[a] + handed \in Nat
    <3>1. /\ held'[a] = after
          /\ \A b \in Assemblers : b # a => held'[b] = held[b]
      BY <1>1, <1>3, <2>1
    <3>2. /\ Cardinality(SegmentsHeld') \in Nat /\ Cardinality(SegmentsHeld) \in Nat
          /\ Cardinality(SegmentsHeld') = Cardinality(SegmentsHeld) + after - held[a]
      BY <1>7, <2>2, <3>1
    <3> QED
      BY <1>5, <1>6, <2>2, <3>2
  <2>4. CASE /\ pkt.kind \in {"nothing", "segment"}
             /\ live' = [live EXCEPT !.stream = @ - 1, !.segment = @ + after - held[a]]
             /\ NoCall
             /\ UNCHANGED <<decoding, fecQ>>
    BY <1>8, <1>13, <2>3, <2>4 DEF NoCall
  <2>5. CASE /\ pkt.kind \in {"whole", "met"}
             /\ live' = [live EXCEPT !.stream = @ - 1, !.segment = @ + after - held[a],
                                     !.buffer = @ + 1]
             /\ CallDelegate(a, pkt.frame)
             /\ UNCHANGED <<decoding, fecQ>>
    <3>1. HasFrame(c) /\ pkt.frame \in Frames /\ payloads' = payloads \cup {FrameOf(c)}
      BY <1>3, <2>5 DEF CallDelegate
    <3>2. /\ live'.buffer = live.buffer + 1 /\ live'.stream = live.stream - 1
          /\ live'.segment = live.segment + after - held[a]
          /\ live' \in [stream : Nat, segment : Nat, buffer : Nat]
      BY <1>13, <2>3, <2>5
    <3> QED
      BY <1>9, <2>3, <2>5, <3>1, <3>2
  <2>6. CASE /\ pkt.kind = "decode"
             /\ live' = [live EXCEPT !.stream = @ - 1, !.segment = @ + after - held[a] + handed,
                                     !.buffer = @ + 1]
             /\ decoding' = decoding \cup {Decoding(a, pkt.frame, handed)}
             /\ fecQ' = Append(fecQ, Decoding(a, pkt.frame, handed))
             /\ NoCall
    <3>1. HasFrame(c) /\ pkt.frame \in Frames
      BY <1>3, <2>6
    <3>2. /\ live'.buffer = live.buffer + 1 /\ live'.stream = live.stream - 1
          /\ live'.segment = live.segment + after - held[a] + handed
          /\ live' \in [stream : Nat, segment : Nat, buffer : Nat]
      BY <1>13, <2>3, <2>6
    <3>3. live'.segment = Cardinality(SegmentsHeld') + Cardinality(SegmentsDecoding) + handed
      BY <2>3, <3>2
    <3> QED
      BY <1>10, <2>2, <2>6, <3>1, <3>2, <3>3 DEF NoCall
  <2> QED
    BY <2>1, <2>4, <2>5, <2>6
<1> QED
  BY <1>11, <1>12 DEF RecvStream, a, pkt

(* A registration changes no frame's place; the destructor's frees what    *)
(* the StreamRecver held.                                                  *)
LEMMA RecvRegistrationPlaces ==
    ASSUME Inv, IInv', RecvRegister \/ RecvUnregister PROVE Inv'
<1> DEFINE a == Head(recverQ).id
           c == Head(recverQ)
<1>1. /\ recverQ # <<>> /\ recverQ' = Tail(recverQ) /\ c.cmd = "REGISTER"
      /\ UNCHANGED <<fecQ, decoding, payloads, sent>>
      /\ recverQ \in Seq(Commands) /\ fecQ \in Seq(DecodingType)
      /\ held \in [Assemblers -> Nat] /\ held' \in [Assemblers -> Nat]
  BY DEF RecvRegister, RecvUnregister, Takes, Inv, IInv, QueuesTypeOK
<1>2. FramesOnce /\ Tracked /\ SetsTypeOK /\ OwnersExact
  BY DEF Inv, PlacesInv
<1>3. a \in Assemblers /\ ~IsDecoded(c)
  <2>1. c \in Commands
    BY HeadFits, <1>1 DEF Inv
  <2> QED
    BY <1>1, <2>1, CommandFields DEF IsDecoded
<1>4. Cardinality(Streams)' = Cardinality(Streams)
  BY <1>1, StreamsTaken, StreamsFinite
<1>5. FramesOnce' /\ Tracked'
  BY <1>1, <1>2, <1>3, TakenFrames, TakenTracked DEF c
<1>6. /\ live.stream = Cardinality(Streams)
      /\ live.segment = Cardinality(SegmentsHeld) + Cardinality(SegmentsDecoding)
      /\ live.buffer = Cardinality(decoding) + Cardinality(payloads)
      /\ live \in [stream : Nat, segment : Nat, buffer : Nat]
      /\ Cardinality(SegmentsDecoding) \in Nat
  BY <1>2, DecodingFamily DEF OwnersExact, SetsTypeOK, SegmentsDecoding
<1> HIDE DEF a, c
<1>7. CASE RecvRegister
  <2>1. UNCHANGED <<held, live>>
    BY <1>7 DEF RecvRegister
  <2>2. SegmentsHeld' = SegmentsHeld /\ SegmentsDecoding' = SegmentsDecoding
    BY <1>1, <2>1 DEF SegmentsHeld, SegmentsDecoding
  <2>3. OwnersExact'
    BY <1>1, <1>4, <1>6, <2>1, <2>2 DEF OwnersExact
  <2>4. SetsTypeOK'
    BY <1>1, <1>2, <2>1 DEF SetsTypeOK
  <2> QED
    BY <1>5, <2>3, <2>4 DEF Inv, PlacesInv
<1>8. CASE RecvUnregister
  <2>1. held' = [held EXCEPT ![a] = 0] /\ live' = [live EXCEPT !.segment = @ - held[a]]
    BY <1>8 DEF RecvUnregister, a
  <2>2. held'[a] = 0 /\ held[a] \in Nat /\ \A b \in Assemblers : b # a => held'[b] = held[b]
    BY <1>1, <1>3, <2>1
  <2>3. /\ Cardinality(SegmentsHeld) \in Nat /\ Cardinality(SegmentsHeld') \in Nat
        /\ Cardinality(SegmentsHeld') + held[a] = Cardinality(SegmentsHeld) + held'[a]
    BY <1>1, <1>3, <2>2, HeldChanges DEF SegmentsHeld
  <2>4. /\ live.segment - held[a] = Cardinality(SegmentsHeld') + Cardinality(SegmentsDecoding)
        /\ live.segment - held[a] \in Nat
    BY <1>6, <2>2, <2>3
  <2>5. /\ live'.segment = live.segment - held[a]
        /\ live'.stream = live.stream /\ live'.buffer = live.buffer
        /\ live' \in [stream : Nat, segment : Nat, buffer : Nat]
    BY <1>6, <2>1, <2>4
  <2>6. OwnersExact'
    BY <1>1, <1>4, <1>6, <2>4, <2>5 DEF OwnersExact, SegmentsDecoding
  <2>7. SetsTypeOK'
    BY <1>1, <1>2, <2>5 DEF SetsTypeOK
  <2> QED
    BY <1>5, <2>6, <2>7 DEF Inv, PlacesInv
<1> QED
  BY <1>7, <1>8

(* A frame comes back: its segments are freed, its buffer goes to the      *)
(* session, or is freed as well.                                           *)
LEMMA RecvDecodedPlaces ==
    ASSUME Inv, IInv', RecvDecoded PROVE Inv'
<1> DEFINE c == Head(recverQ)
           d == Head(recverQ).segments
           deliver == Head(recverQ).suc /\ d.id \in assemblers
<1>1. /\ recverQ # <<>> /\ recverQ' = Tail(recverQ) /\ c.cmd = "DECODED"
      /\ UNCHANGED <<fecQ, held, sent>>
      /\ recverQ \in Seq(Commands) /\ fecQ \in Seq(DecodingType)
      /\ decoding' = decoding \ {d}
      /\ IF deliver THEN payloads' = payloads \cup {KeyOf(d)} ELSE UNCHANGED payloads
      /\ live' = [live EXCEPT !.segment = @ - d.segs,
                              !.buffer = IF deliver THEN @ ELSE @ - 1]
      /\ held \in [Assemblers -> Nat]
  BY DEF RecvDecoded, Takes, CallDelegate, NoCall, KeyOf, Inv, IInv, QueuesTypeOK
<1>2. FramesOnce /\ Tracked /\ SetsTypeOK /\ OwnersExact
  BY DEF Inv, PlacesInv
<1>3. Cardinality(Streams)' = Cardinality(Streams)
  BY <1>1, StreamsTaken, StreamsFinite
<1>4. Tracked' /\ d \in decoding
  BY <1>1, <1>2, BackTracked DEF IsDecoded
<1> HIDE DEF c, d, deliver
<1>5. FramesOnce' /\ KeyOf(d) \notin payloads
  <2>1. KeyOf(d) \notin payloads
    BY <1>2, <1>4 DEF FramesOnce
  <2>2. CASE deliver
    BY <1>1, <1>2, <1>4, <2>2, TakenBack
  <2>3. CASE ~deliver
    BY <1>1, <1>2, <2>1, <2>3, TakenFrames
  <2> QED
    BY <2>2, <2>3
<1>6. d \in DecodingType /\ d.segs \in Nat /\ KeyOf(d) \in Assemblers \X Frames
  BY <1>2, <1>4 DEF SetsTypeOK, DecodingType, KeyOf
<1>7. /\ live.stream = Cardinality(Streams)
      /\ live.segment = Cardinality(SegmentsHeld) + Cardinality(SegmentsDecoding)
      /\ live.buffer = Cardinality(decoding) + Cardinality(payloads)
      /\ live \in [stream : Nat, segment : Nat, buffer : Nat]
  BY <1>2 DEF OwnersExact, SetsTypeOK
<1>8. /\ IsFiniteSet(payloads) /\ Cardinality(payloads) \in Nat
      /\ Cardinality(SegmentsHeld) \in Nat
  <2>1. IsFiniteSet(payloads)
    BY <1>2, AssemblerAssumption, FS_Product, FS_Subset DEF SetsTypeOK
  <2>2. Cardinality(SegmentsHeld) \in Nat
    BY <1>1, HeldFamily DEF SegmentsHeld
  <2> QED
    BY <2>1, <2>2, FS_CardinalityType
<1>9. /\ IsFiniteSet(decoding') /\ Cardinality(decoding') \in Nat
      /\ Cardinality(decoding) = Cardinality(decoding') + 1
      /\ Cardinality(SegmentsDecoding') \in Nat
      /\ Cardinality(SegmentsDecoding) = Cardinality(SegmentsDecoding') + d.segs
  <2> DEFINE D == decoding \ {d}
  <2>1. D \cup {d} = decoding /\ d \notin D /\ D \in SUBSET DecodingType
    BY <1>2, <1>4 DEF SetsTypeOK
  <2>2. IsFiniteSet(D)
    BY <1>2, FS_Subset DEF SetsTypeOK
  <2>3. decoding' = D
    BY <1>1
  <2> HIDE DEF D
  <2>4. /\ Cardinality(D) \in Nat
        /\ Cardinality(D \cup {d}) = Cardinality(D) + 1
        /\ Cardinality(UNION {{x} \X (1 .. x.segs) : x \in D}) \in Nat
        /\ Cardinality(UNION {{x} \X (1 .. x.segs) : x \in D \cup {d}})
             = Cardinality(UNION {{x} \X (1 .. x.segs) : x \in D}) + d.segs
    BY <1>6, <2>1, <2>2, DecodingAdds
  <2>5. /\ SegmentsDecoding = UNION {{x} \X (1 .. x.segs) : x \in D \cup {d}}
        /\ SegmentsDecoding' = UNION {{x} \X (1 .. x.segs) : x \in D}
    BY <2>1, <2>3 DEF SegmentsDecoding
  <2> QED
    BY <2>1, <2>2, <2>3, <2>4, <2>5
<1>10. /\ live.segment - d.segs = Cardinality(SegmentsHeld) + Cardinality(SegmentsDecoding')
       /\ live.segment - d.segs \in Nat
       /\ live.buffer - 1 = Cardinality(decoding') + Cardinality(payloads)
       /\ live.buffer - 1 \in Nat
  BY <1>6, <1>7, <1>8, <1>9
<1>11. /\ live'.stream = live.stream /\ live'.segment = live.segment - d.segs
       /\ live'.buffer = IF deliver THEN live.buffer ELSE live.buffer - 1
       /\ live' \in [stream : Nat, segment : Nat, buffer : Nat]
  BY <1>1, <1>7, <1>10
<1>12. live'.buffer = Cardinality(decoding') + Cardinality(payloads')
  <2>1. CASE deliver
    <3>1. Cardinality(payloads') = Cardinality(payloads) + 1
      BY <1>1, <1>5, <1>8, <2>1, FS_AddElement
    <3> QED
      BY <1>7, <1>8, <1>9, <1>11, <2>1, <3>1
  <2>2. CASE ~deliver
    BY <1>1, <1>10, <1>11, <2>2
  <2> QED
    BY <2>1, <2>2
<1>13. SegmentsHeld' = SegmentsHeld
  BY <1>1 DEF SegmentsHeld
<1>14. OwnersExact'
  BY <1>3, <1>7, <1>10, <1>11, <1>12, <1>13 DEF OwnersExact
<1>15. SetsTypeOK'
  BY <1>1, <1>2, <1>6, <1>9, <1>11 DEF SetsTypeOK
<1> QED
  BY <1>4, <1>5, <1>14, <1>15 DEF Inv, PlacesInv

(* The fec thread's answer moves a frame from one queue to the other.      *)
LEMMA FecThreadPlaces ==
    ASSUME Inv, IInv', FecThread PROVE Inv'
<1>1. /\ recverQ \in Seq(Commands) /\ fecQ \in Seq(DecodingType) /\ fecQ # <<>>
      /\ fecQ' = Tail(fecQ)
      /\ UNCHANGED <<held, decoding, payloads, sent, live>>
      /\ Head(fecQ) \in DecodingType
  BY DEF FecThread, Inv, IInv, QueuesTypeOK
<1>2. FramesOnce /\ Tracked /\ SetsTypeOK /\ OwnersExact
  BY DEF Inv, PlacesInv
<1>3. PICK suc \in BOOLEAN : recverQ' = Append(recverQ, Decoded(Head(fecQ), suc))
  BY DEF FecThread
<1> DEFINE c == Decoded(Head(fecQ), suc)
<1>4. c \in Commands /\ IsDecoded(c) /\ c.cmd # "STREAM" /\ c.segments = Head(fecQ)
  BY <1>1, CommandsMade DEF IsDecoded
<1>5. recverQ' = Append(recverQ, c)
  BY <1>3
<1> HIDE DEF c
<1>6. FramesOnce' /\ Tracked'
  BY <1>1, <1>2, <1>4, <1>5, FecPlaces
<1>7. Cardinality(Streams)' = Cardinality(Streams)
  BY <1>1, <1>4, <1>5, StreamsSent, StreamsFinite
<1>8. OwnersExact'
  BY <1>1, <1>2, <1>7 DEF OwnersExact, SegmentsHeld, SegmentsDecoding
<1>9. SetsTypeOK'
  BY <1>1, <1>2 DEF SetsTypeOK
<1> QED
  BY <1>6, <1>8, <1>9 DEF Inv, PlacesInv

(* Every step keeps the frames in their places.                            *)
LEMMA NextPlaces == Inv /\ [Next]_vars => Inv'
<1> SUFFICES ASSUME Inv, [Next]_vars PROVE Inv'
  OBVIOUS
<1>1. IInv'
  BY NextInv DEF Inv
<1>2. CASE \E a \in Assemblers : ClientThread(a)
  BY <1>1, <1>2, ClientThreadPlaces
<1>3. CASE RecverThread
  BY <1>1, <1>3, RecvStreamPlaces, RecvRegistrationPlaces, RecvDecodedPlaces DEF RecverThread
<1>4. CASE FecThread
  BY <1>1, <1>4, FecThreadPlaces
<1>5. CASE UNCHANGED vars
  <2>1. UNCHANGED <<recverQ, fecQ, held, decoding, payloads, sent, live>>
    BY <1>5 DEF vars
  <2>2. PlacesInv'
    BY <2>1 DEF Inv, PlacesInv, SetsTypeOK, FramesOnce, Tracked, FecTracked, RecverTracked, OneWay,
                AllUnderWay
  <2>3. OwnersExact'
    BY <2>1 DEF Inv, OwnersExact, Streams, SegmentsHeld, SegmentsDecoding
  <2> QED
    BY <1>1, <2>2, <2>3 DEF Inv
<1> QED
  BY <1>2, <1>3, <1>4, <1>5 DEF Next

(* The inductive invariant of the frames and their owners.                 *)
THEOREM PlacesHold == Spec => []Inv
BY InitPlaces, NextPlaces, PTL DEF Spec

(* Every variable keeps its type.                                          *)
THEOREM TypeHolds == Spec => []TypeOK
<1>1. Inv => TypeOK
  <2> SUFFICES ASSUME Inv PROVE TypeOK
    OBVIOUS
  <2>1. QueuesTypeOK /\ SetsTypeOK
    BY DEF Inv, IInv, PlacesInv
  <2> QED
    BY <2>1 DEF TypeOK, QueuesTypeOK, SetsTypeOK, ClientStates
<1> QED
  BY <1>1, PlacesHold, PTL

(* Whatever the threads do, every segment and every buffer the allocators  *)
(* handed out is with exactly one owner: a StreamRecver, a frame at the    *)
(* fec thread, a session; and every packet with one command.               *)
THEOREM OwnersStayExact == Spec => []OwnersExact
<1>1. Inv => OwnersExact
  BY DEF Inv
<1> QED
  BY <1>1, PlacesHold, PTL

(* A frame on its way to or from the fec thread is in _decodingHdr exactly *)
(* once, and nothing else is: the assertions of HandleDecoded hold.        *)
THEOREM DecodingStaysTracked == Spec => []DecodingTracked
<1>1. Inv => DecodingTracked
  BY TrackedOnWay DEF Inv, PlacesInv
<1> QED
  BY <1>1, PlacesHold, PTL
-----------------------------------------------------------------------------
(* What the session waits for, and what it leaves behind.                  *)
Spins(a) == client[a] \in {"registering", "closing"}
CommandWaits(a) == \E i \in 1..Len(recverQ) : IsRegistration(recverQ[i], a)

(* A call that spins was answered, or its command is still in the queue:   *)
(* nothing the other threads send or take loses it.                        *)
CallsServed == \A a \in Assemblers : Spins(a) => a \in finished \/ CommandWaits(a)

(* Only a registered assembler has a StreamRecver.                         *)
HeldByTable == \A a \in Assemblers : held[a] > 0 => a \in assemblers

(* After the destructor, the session is in no table and in no command, and *)
(* no StreamRecver holds a segment of it.  What is left is at the fec      *)
(* thread, or with the session itself.                                     *)
GoneLeavesNothing ==
    \A a \in Assemblers : client[a] = "gone" =>
        /\ a \notin assemblers /\ a \notin finished /\ held[a] = 0
        /\ \A i \in 1..Len(recverQ) : ~IsRegistration(recverQ[i], a) /\ ~IsStream(recverQ[i], a)

ServedInv == IInv /\ CallsServed /\ HeldByTable

(* A command sent leaves those before it in the queue.                     *)
LEMMA WaitsWhenSent ==
    ASSUME IInv, NEW c \in Commands, recverQ' = Append(recverQ, c), NEW a
    PROVE  /\ CommandWaits(a) => CommandWaits(a)'
           /\ IsRegistration(c, a) => CommandWaits(a)'
<1>1. /\ Len(recverQ') = Len(recverQ) + 1 /\ Len(recverQ) \in Nat
      /\ recverQ'[Len(recverQ) + 1] = c
      /\ \A i \in 1..Len(recverQ) : recverQ'[i] = recverQ[i]
  BY Sent DEF IInv, QueuesTypeOK
<1>2. ASSUME NEW i \in 1..Len(recverQ), IsRegistration(recverQ[i], a) PROVE CommandWaits(a)'
  <2>1. i \in 1..Len(recverQ') /\ recverQ'[i] = recverQ[i]
    BY <1>1
  <2> QED
    BY <1>2, <2>1 DEF CommandWaits
<1>3. ASSUME IsRegistration(c, a) PROVE CommandWaits(a)'
  <2>1. Len(recverQ) + 1 \in 1..Len(recverQ')
    BY <1>1
  <2> QED
    BY <1>1, <1>3, <2>1 DEF CommandWaits
<1> QED
  BY <1>2, <1>3 DEF CommandWaits

(* A command taken leaves those of the other sessions in the queue.        *)
LEMMA WaitsWhenTaken ==
    ASSUME IInv, recverQ # <<>>, recverQ' = Tail(recverQ), NEW a,
           ~IsRegistration(Head(recverQ), a), CommandWaits(a)
    PROVE  CommandWaits(a)'
<1>1. /\ Len(recverQ) \in Nat \ {0} /\ Head(recverQ) = recverQ[1]
      /\ Len(recverQ') = Len(recverQ) - 1
      /\ \A i \in 1..Len(recverQ') : recverQ'[i] = recverQ[i + 1]
  BY Taken DEF IInv, QueuesTypeOK
<1>2. PICK i \in 1..Len(recverQ) : IsRegistration(recverQ[i], a)
  BY DEF CommandWaits
<1>3. i # 1
  BY <1>1, <1>2
<1>4. i - 1 \in 1..Len(recverQ') /\ recverQ'[i - 1] = recverQ[i]
  BY <1>1, <1>3
<1> QED
  BY <1>2, <1>4 DEF CommandWaits

(* At the start nobody spins and nothing is held.                          *)
LEMMA InitServed == Init => ServedInv
BY InitInv DEF Init, ServedInv, CallsServed, HeldByTable, Spins

(* A session's call puts its own command into the queue when it spins.     *)
LEMMA ClientThreadServed ==
    ASSUME ServedInv, NEW a \in Assemblers, ClientThread(a) PROVE CallsServed' /\ HeldByTable'
<1> USE DEF ServedInv
<1>1. ASSUME NEW on \in BOOLEAN,
             client' = [client EXCEPT ![a] = IF on THEN "registering" ELSE "closing"],
             recverQ' = Append(recverQ, Registration(a, on)),
             UNCHANGED <<finished, assemblers, held>>
      PROVE  CallsServed' /\ HeldByTable'
  <2>1. Registration(a, on) \in Commands /\ IsRegistration(Registration(a, on), a)
    BY CommandsMade DEF IsRegistration
  <2>2. CommandWaits(a)'
    BY <1>1, <2>1, WaitsWhenSent
  <2>3. ASSUME NEW b \in Assemblers \ {a}, Spins(b)' PROVE b \in finished' \/ CommandWaits(b)'
    <3>1. Spins(b)
      BY <1>1, <2>3 DEF Spins, IInv, QueuesTypeOK
    <3>2. b \in finished \/ CommandWaits(b)
      BY <3>1 DEF CallsServed
    <3>3. CommandWaits(b) => CommandWaits(b)'
      BY <1>1, <2>1, WaitsWhenSent
    <3> QED
      BY <1>1, <3>2, <3>3
  <2>4. CallsServed'
    BY <2>2, <2>3 DEF CallsServed
  <2> QED
    BY <1>1, <2>4 DEF HeldByTable
<1>2. ASSUME NEW to \in {"open", "gone"}, client' = [client EXCEPT ![a] = to],
             finished' = finished \ {a}, UNCHANGED <<recverQ, assemblers, held>>
      PROVE  CallsServed' /\ HeldByTable'
  <2>1. ASSUME NEW b \in Assemblers, Spins(b)' PROVE b \in finished' \/ CommandWaits(b)'
    <3>1. b # a /\ Spins(b)
      BY <1>2, <2>1 DEF Spins, IInv, QueuesTypeOK
    <3>2. b \in finished \/ CommandWaits(b)
      BY <3>1 DEF CallsServed
    <3> QED
      BY <1>2, <3>1, <3>2 DEF CommandWaits
  <2> QED
    BY <1>2, <2>1 DEF CallsServed, HeldByTable
<1>3. ASSUME NEW pkt \in Packets, HandleStream(a, pkt) PROVE CallsServed' /\ HeldByTable'
  <2>1. /\ Stream(a, pkt) \in Commands /\ recverQ' = Append(recverQ, Stream(a, pkt))
        /\ UNCHANGED <<client, finished, assemblers, held>>
    BY <1>3, CommandsMade DEF HandleStream
  <2>2. ASSUME NEW b \in Assemblers, Spins(b)' PROVE b \in finished' \/ CommandWaits(b)'
    <3>1. b \in finished \/ CommandWaits(b)
      BY <2>1, <2>2 DEF CallsServed, Spins
    <3> QED
      BY <2>1, <3>1, WaitsWhenSent
  <2> QED
    BY <2>1, <2>2 DEF CallsServed, HeldByTable
<1>4. ASSUME NEW f \in Frames, ReleaseFramePayload(a, f) PROVE CallsServed' /\ HeldByTable'
  BY <1>4 DEF ReleaseFramePayload, CallsServed, HeldByTable, Spins, CommandWaits
<1>5. CASE Register(a)
  BY <1>1, <1>5 DEF Register
<1>6. CASE Registered(a)
  BY <1>2, <1>6 DEF Registered
<1>7. CASE Unregister(a)
  BY <1>1, <1>7 DEF Unregister
<1>8. CASE Unregistered(a)
  BY <1>2, <1>8 DEF Unregistered
<1> QED
  BY <1>3, <1>4, <1>5, <1>6, <1>7, <1>8 DEF ClientThread

(* The recver thread answers the call whose command it takes.              *)
LEMMA RecverThreadServed ==
    ASSUME ServedInv, RecverThread PROVE CallsServed' /\ HeldByTable'
<1> USE DEF ServedInv
<1>1. /\ recverQ # <<>> /\ recverQ' = Tail(recverQ) /\ UNCHANGED client
      /\ finished \subseteq finished'
      /\ Head(recverQ).cmd = "REGISTER" => Head(recverQ).id \in finished'
  BY DEF RecverThread, RecvStream, RecvRegister, RecvUnregister, RecvDecoded, Takes
<1>2. ASSUME NEW b \in Assemblers, Spins(b)' PROVE b \in finished' \/ CommandWaits(b)'
  <2>1. b \in finished \/ CommandWaits(b)
    BY <1>1, <1>2 DEF CallsServed, Spins
  <2>2. CASE IsRegistration(Head(recverQ), b)
    BY <1>1, <2>2 DEF IsRegistration
  <2>3. CASE ~IsRegistration(Head(recverQ), b)
    BY <1>1, <2>1, <2>3, WaitsWhenTaken
  <2> QED
    BY <2>2, <2>3
<1>3. HeldByTable'
  <2> DEFINE a == Head(recverQ).id
  <2>1. CASE RecvStream
    <3>1. UNCHANGED assemblers
      BY <2>1 DEF RecvStream
    <3>2. UNCHANGED held \/ (a \in assemblers /\ \E n : held' = [held EXCEPT ![a] = n])
      BY <2>1 DEF RecvStream, RecverHandlesPacket
    <3> HIDE DEF a
    <3> QED
      BY <3>1, <3>2 DEF HeldByTable, IInv, QueuesTypeOK
  <2>2. CASE RecvRegister
    BY <2>2 DEF RecvRegister, HeldByTable
  <2>3. CASE RecvUnregister
    <3>1. assemblers' = assemblers \ {a} /\ held' = [held EXCEPT ![a] = 0]
      BY <2>3 DEF RecvUnregister
    <3> HIDE DEF a
    <3> QED
      BY <3>1 DEF HeldByTable, IInv, QueuesTypeOK
  <2>4. CASE RecvDecoded
    BY <2>4 DEF RecvDecoded, HeldByTable
  <2> QED
    BY <2>1, <2>2, <2>3, <2>4 DEF RecverThread
<1> QED
  BY <1>2, <1>3 DEF CallsServed

(* The fec thread's answers leave the commands before them in the queue.   *)
LEMMA FecThreadServed ==
    ASSUME ServedInv, FecThread PROVE CallsServed' /\ HeldByTable'
<1> USE DEF ServedInv
<1>1. Head(fecQ) \in DecodingType
  BY DEF FecThread, IInv, QueuesTypeOK
<1>2. PICK suc \in BOOLEAN : recverQ' = Append(recverQ, Decoded(Head(fecQ), suc))
  BY DEF FecThread
<1>3. Decoded(Head(fecQ), suc) \in Commands
  BY <1>1, CommandsMade
<1>4. UNCHANGED <<client, finished, assemblers, held>>
  BY DEF FecThread
<1>5. ASSUME NEW b \in Assemblers, Spins(b)' PROVE b \in finished' \/ CommandWaits(b)'
  <2>1. b \in finished \/ CommandWaits(b)
    BY <1>4, <1>5 DEF CallsServed, Spins
  <2> QED
    BY <1>2, <1>3, <1>4, <2>1, WaitsWhenSent
<1> QED
  BY <1>4, <1>5 DEF CallsServed, HeldByTable

(* Every step keeps every call served.                                     *)
LEMMA NextServed == ServedInv /\ [Next]_vars => ServedInv'
<1> SUFFICES ASSUME ServedInv, [Next]_vars PROVE ServedInv'
  OBVIOUS
<1>1. IInv'
  BY NextInv DEF ServedInv
<1>2. CallsServed' /\ HeldByTable'
  <2>1. CASE UNCHANGED vars
    BY <2>1 DEF vars, ServedInv, CallsServed, HeldByTable, Spins, CommandWaits
  <2> QED
    BY <2>1, ClientThreadServed, RecverThreadServed, FecThreadServed DEF Next
<1> QED
  BY <1>1, <1>2 DEF ServedInv

(* The constructor and the destructor of an assembler never spin in vain:  *)
(* as long as one does, the answer is there or its command is on the way,  *)
(* and only once; the safety half of CallsReturn.                          *)
THEOREM CallsAreServed == Spec => []CallsServed
<1>1. ServedInv => CallsServed
  BY DEF ServedInv
<1> QED
  BY <1>1, InitServed, NextServed, PTL DEF Spec

(* When the destructor has returned, the recver thread holds nothing of    *)
(* the session and will be asked nothing about it: its memory may go.      *)
THEOREM GoneLeaveNothing == Spec => []GoneLeavesNothing
<1>1. ServedInv => GoneLeavesNothing
  <2> SUFFICES ASSUME ServedInv, NEW a \in Assemblers, client[a] = "gone"
               PROVE  /\ a \notin assemblers /\ a \notin finished /\ held[a] = 0
                      /\ \A i \in 1..Len(recverQ) :
                            ~IsRegistration(recverQ[i], a) /\ ~IsStream(recverQ[i], a)
    BY DEF GoneLeavesNothing
  <2>1. a \notin assemblers /\ a \notin finished
    BY DEF ServedInv, IInv, TableFollows, AnswersAwaited
  <2>2. held[a] = 0
    BY <2>1 DEF ServedInv, IInv, QueuesTypeOK, HeldByTable
  <2>3. \A i \in 1..Len(recverQ) : ~IsRegistration(recverQ[i], a) /\ ~IsStream(recverQ[i], a)
    BY DEF ServedInv, IInv, RegistrationsFollow, StreamsFollow
  <2> QED
    BY <2>1, <2>2, <2>3
<1> QED
  BY <1>1, InitServed, NextServed, PTL DEF Spec
=============================================================================
