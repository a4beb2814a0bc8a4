---------------------------- MODULE StmAssembler ----------------------------
(***************************************************************************)
(* hpsp::StmAssembler and the two threads behind all of them.  A session   *)
(* owns an assembler; its calls become commands of the recver thread,      *)
(* which owns the table of assemblers and their StreamRecvers.  A frame    *)
(* whose source symbols all arrived goes to the session's delegate at      *)
(* once; one that must be decoded makes the round trip through the fec     *)
(* thread first.  The constructor and the destructor of an assembler spin  *)
(* until the recver thread has answered.                                   *)
(*                                                                         *)
(* What a packet does inside StreamRecver is its own module: here a packet *)
(* is what comes of it, one of the ways of FrameCollector.  As there, one  *)
(* of many slices is as many packets.                                      *)
(***************************************************************************)
EXTENDS FrameCollector, Sequences, FiniteSets

CONSTANTS
    Assemblers,  \* assembler ids, one for every StmAssembler ever created
    Frames,      \* frames a session's peers send
    QueueRoom,   \* bound on the commands waiting for the recver thread
    MaxHeld      \* bound on the segments a StreamRecver keeps

ASSUME AssemblerAssumption ==
    /\ IsFiniteSet(Assemblers) /\ IsFiniteSet(Frames)
    /\ QueueRoom \in Nat /\ MaxHeld \in Nat

VARIABLES
    client,      \* where the session is in the life of its assembler
    finished,    \* RegisterInfo::finished, for the calls that spin on it
    recverQ,     \* commands sent to the recver thread, in order
    fecQ,        \* commands sent to the fec thread, in order
    assemblers,  \* _assemblers: the registered ids
    held,        \* segments in the frames each StreamRecver is collecting
    decoding,    \* _decodingHdr: frames at the fec thread, with their segments
    payloads,    \* frame buffers a session has not released
    sent,        \* history: frames sent, so that none is sent twice
    live         \* what the allocators have handed out and not got back

vars == <<client, finished, recverQ, fecQ, assemblers, held, decoding, payloads,
          sent, live>>

Packets == [kind : {"segment", "nothing"}] \cup [kind : {"whole", "met", "decode"}, frame : Frames]

Stream(a, pkt)      == [cmd |-> "STREAM", id |-> a, pkt |-> pkt]
Registration(a, on) == [cmd |-> "REGISTER", id |-> a, registered |-> on]
Decoded(d, suc)     == [cmd |-> "DECODED", segments |-> d, suc |-> suc]
-----------------------------------------------------------------------------
Init ==
    /\ client = [a \in Assemblers |-> "none"]
    /\ finished = {}
    /\ recverQ = <<>>
    /\ fecQ = <<>>
    /\ assemblers = {}
    /\ held = [a \in Assemblers |-> 0]
    /\ decoding = {}
    /\ payloads = {}
    /\ sent = {}
    /\ live = [stream |-> 0, segment |-> 0, buffer |-> 0]

(* The session's thread.                                                   *)

(* RegisterAssembler and UnregisterAssembler: the command, then the spin.  *)
Register(a) ==
    /\ client[a] = "none"
    /\ Len(recverQ) < QueueRoom
    /\ client' = [client EXCEPT ![a] = "registering"]
    /\ recverQ' = Append(recverQ, Registration(a, TRUE))
    /\ UNCHANGED <<finished, fecQ, assemblers, held, decoding, payloads, sent, live>>

Registered(a) ==
    /\ client[a] = "registering"
    /\ a \in finished
    /\ client' = [client EXCEPT ![a] = "open"]
    /\ finished' = finished \ {a}
    /\ UNCHANGED <<recverQ, fecQ, assemblers, held, decoding, payloads, sent, live>>

Unregister_NoWait(a) ==
    /\ client[a] = "open"
    /\ Len(recverQ) < QueueRoom
    /\ client' = [client EXCEPT ![a] = "gone"]
    /\ recverQ' = Append(recverQ, Registration(a, FALSE))
    /\ UNCHANGED <<finished, fecQ, assemblers, held, decoding, payloads, sent, live>>
Unregister(a) ==
    /\ client[a] = "open"
    /\ Len(recverQ) < QueueRoom
    /\ client' = [client EXCEPT ![a] = "closing"]
    /\ recverQ' = Append(recverQ, Registration(a, FALSE))
    /\ UNCHANGED <<finished, fecQ, assemblers, held, decoding, payloads, sent, live>>

Unregistered(a) ==
    /\ client[a] = "closing"
    /\ a \in finished
    /\ client' = [client EXCEPT ![a] = "gone"]
    /\ finished' = finished \ {a}
    /\ UNCHANGED <<recverQ, fecQ, assemblers, held, decoding, payloads, sent, live>>

(* HandleRGridStream                                                       *)
Collected(a) ==
    held[a] + Len(SelectSeq(recverQ, LAMBDA c :
                  c.cmd = "STREAM" /\ c.id = a /\ c.pkt.kind = "segment"))

HandleStream_UntilGone(a, pkt) ==
    /\ client[a] \in {"open", "closing"}
    /\ Len(recverQ) < QueueRoom
    /\ IF pkt.kind \in {"segment", "nothing"}
       THEN (pkt.kind = "segment" => Collected(a) < MaxHeld) /\ UNCHANGED sent
       ELSE /\ <<a, pkt.frame>> \notin sent
            /\ sent' = sent \cup {<<a, pkt.frame>>}
    /\ recverQ' = Append(recverQ, Stream(a, pkt))
    /\ live' = [live EXCEPT !.stream = @ + 1]
    /\ UNCHANGED <<client, finished, fecQ, assemblers, held, decoding, payloads>>
HandleStream(a, pkt) ==
    /\ client[a] = "open"
    /\ Len(recverQ) < QueueRoom
    /\ IF pkt.kind \in {"segment", "nothing"}
       THEN (pkt.kind = "segment" => Collected(a) < MaxHeld) /\ UNCHANGED sent
       ELSE /\ <<a, pkt.frame>> \notin sent
            /\ sent' = sent \cup {<<a, pkt.frame>>}
    /\ recverQ' = Append(recverQ, Stream(a, pkt))
    /\ live' = [live EXCEPT !.stream = @ + 1]
    /\ UNCHANGED <<client, finished, fecQ, assemblers, held, decoding, payloads>>

(* ReleaseFramePayload, a static call: the assembler may be gone.          *)
ReleaseFramePayload_PointerKept(a, f) ==
    /\ <<a, f>> \in payloads
    /\ live' = [live EXCEPT !.buffer = @ - 1]
    /\ UNCHANGED <<client, finished, recverQ, fecQ, assemblers, held, decoding, payloads, sent>>
ReleaseFramePayload(a, f) ==
    /\ <<a, f>> \in payloads
    /\ payloads' = payloads \ {<<a, f>>}
    /\ live' = [live EXCEPT !.buffer = @ - 1]
    /\ UNCHANGED <<client, finished, recverQ, fecQ, assemblers, held, decoding, sent>>
-----------------------------------------------------------------------------
(* The recver thread: HandleMQThreadCommand for the first command.         *)
Takes(cmd) == recverQ # <<>> /\ Head(recverQ).cmd = cmd /\ recverQ' = Tail(recverQ)

(* HandleRGridFrameRecved of the delegate, which keeps the payload.        *)
CallDelegate(a, f) == payloads' = payloads \cup {<<a, f>>}
NoCall == UNCHANGED payloads

(* A frame with the segments handed over for it.                           *)
Decoding(a, f, n) == [id |-> a, frame |-> f, segs |-> n]

(* The StreamRecver of a registered assembler handles the packet.  It may  *)
(* give back segments of other frames meanwhile, and those of a frame that *)
(* needs no decoding are freed here.                                       *)
RecverHandlesPacket(a, pkt) == \E after, handed \in 0 .. held[a] + 1 :
    /\ Collects(pkt.kind, held[a], after, handed)
    /\ held' = [held EXCEPT ![a] = after]
    /\ \/ /\ pkt.kind \in {"nothing", "segment"}
          /\ live' = [live EXCEPT !.stream = @ - 1, !.segment = @ + after - held[a]]
          /\ NoCall
          /\ UNCHANGED <<decoding, fecQ>>
       \/ /\ pkt.kind \in {"whole", "met"}
          /\ live' = [live EXCEPT !.stream = @ - 1, !.segment = @ + after - held[a],
                                  !.buffer = @ + 1]
          /\ CallDelegate(a, pkt.frame)
          /\ UNCHANGED <<decoding, fecQ>>
       \/ /\ pkt.kind = "decode"
          /\ live' = [live EXCEPT !.stream = @ - 1, !.segment = @ + after - held[a] + handed,
                                  !.buffer = @ + 1]
          /\ decoding' = decoding \cup {Decoding(a, pkt.frame, handed)}
          /\ fecQ' = Append(fecQ, Decoding(a, pkt.frame, handed))
          /\ NoCall

RecvStream ==
    LET a == Head(recverQ).id IN
    /\ Takes("STREAM")
    /\ IF a \in assemblers
       THEN RecverHandlesPacket(a, Head(recverQ).pkt)
       ELSE /\ live' = [live EXCEPT !.stream = @ - 1]
            /\ NoCall
            /\ UNCHANGED <<decoding, fecQ, held>>
    /\ UNCHANGED <<client, finished, assemblers, sent>>

RecvRegister ==
    LET a == Head(recverQ).id IN
    /\ Takes("REGISTER")
    /\ Head(recverQ).registered
    /\ assemblers' = assemblers \cup {a}
    /\ finished' = finished \cup {a}
    /\ UNCHANGED <<client, fecQ, held, decoding, payloads, sent, live>>

(* The StreamRecver's destructor frees the segments it still holds.        *)
RecvUnregister_Unanswered ==
    LET a == Head(recverQ).id IN
    /\ Takes("REGISTER")
    /\ ~Head(recverQ).registered
    /\ assemblers' = assemblers \ {a}
    /\ held' = [held EXCEPT ![a] = 0]
    /\ live' = [live EXCEPT !.segment = @ - held[a]]
    /\ UNCHANGED <<finished, client, fecQ, decoding, payloads, sent>>
RecvUnregister ==
    LET a == Head(recverQ).id IN
    /\ Takes("REGISTER")
    /\ ~Head(recverQ).registered
    /\ assemblers' = assemblers \ {a}
    /\ held' = [held EXCEPT ![a] = 0]
    /\ live' = [live EXCEPT !.segment = @ - held[a]]
    /\ finished' = finished \cup {a}
    /\ UNCHANGED <<client, fecQ, decoding, payloads, sent>>

(* A frame that could not be decoded, or whose assembler is gone, is lost. *)
RecvDecoded_BufferLeft ==
    LET d == Head(recverQ).segments
        deliver == Head(recverQ).suc /\ d.id \in assemblers
    IN
    /\ Takes("DECODED")
    /\ decoding' = decoding \ {d}
    /\ IF deliver THEN CallDelegate(d.id, d.frame) ELSE NoCall
    /\ live' = [live EXCEPT !.segment = @ - d.segs]
    /\ UNCHANGED <<client, finished, fecQ, assemblers, held, sent>>
RecvDecoded_ListedOnFailure ==
    LET d == Head(recverQ).segments IN
    /\ Takes("DECODED")
    /\ IF Head(recverQ).suc
       THEN decoding' = decoding \ {d} /\ CallDelegate(d.id, d.frame)
       ELSE UNCHANGED decoding /\ NoCall
    /\ UNCHANGED <<client, finished, fecQ, assemblers, held, sent, live>>
RecvDecoded ==
    LET d == Head(recverQ).segments
        deliver == Head(recverQ).suc /\ d.id \in assemblers
    IN
    /\ Takes("DECODED")
    /\ decoding' = decoding \ {d}
    /\ IF deliver THEN CallDelegate(d.id, d.frame) ELSE NoCall
    /\ live' = [live EXCEPT !.segment = @ - d.segs,
                            !.buffer = IF deliver THEN @ ELSE @ - 1]
    /\ UNCHANGED <<client, finished, fecQ, assemblers, held, sent>>

RecverThread == RecvStream \/ RecvRegister \/ RecvUnregister \/ RecvDecoded

(* The fec thread decodes the first request, or fails to.                  *)
FecThread_SilentOnFailure ==
    /\ fecQ # <<>>
    /\ fecQ' = Tail(fecQ)
    /\ \/ recverQ' = Append(recverQ, Decoded(Head(fecQ), TRUE))
       \/ UNCHANGED recverQ
    /\ UNCHANGED <<client, finished, assemblers, held, decoding, payloads, sent, live>>
FecThread ==
    /\ fecQ # <<>>
    /\ fecQ' = Tail(fecQ)
    /\ \E suc \in BOOLEAN : recverQ' = Append(recverQ, Decoded(Head(fecQ), suc))
    /\ UNCHANGED <<client, finished, assemblers, held, decoding, payloads, sent, live>>
-----------------------------------------------------------------------------
ClientThread(a) ==
    \/ Register(a)
    \/ Registered(a)
    \/ Unregister(a)
    \/ Unregistered(a)
    \/ \E pkt \in Packets : HandleStream(a, pkt)
    \/ \E f \in Frames : ReleaseFramePayload(a, f)

Next ==
    \/ \E a \in Assemblers : ClientThread(a)
    \/ RecverThread
    \/ FecThread

(* The operating system runs every thread that can run; a session may keep *)
(* its assembler, or stop sending, forever.                                *)
Fairness ==
    /\ WF_vars(RecverThread)
    /\ WF_vars(FecThread)
    /\ \A a \in Assemblers : WF_vars(Registered(a)) /\ WF_vars(Unregistered(a))

Spec == Init /\ [][Next]_vars
FairSpec == Spec /\ Fairness
-----------------------------------------------------------------------------
DecodingType == [id : Assemblers, frame : Frames, segs : Nat]
Commands ==
    [cmd : {"STREAM"}, id : Assemblers, pkt : Packets]
        \cup [cmd : {"REGISTER"}, id : Assemblers, registered : BOOLEAN]
        \cup [cmd : {"DECODED"}, segments : DecodingType, suc : BOOLEAN]

(* Every variable has its type.                                            *)
TypeOK ==
    /\ client \in [Assemblers -> {"none", "registering", "open", "closing", "gone"}]
    /\ finished \subseteq Assemblers
    /\ \A i \in DOMAIN recverQ : recverQ[i] \in Commands
    /\ \A i \in DOMAIN fecQ : fecQ[i] \in DecodingType
    /\ assemblers \subseteq Assemblers
    /\ held \in [Assemblers -> Nat]
    /\ decoding \subseteq DecodingType
    /\ payloads \subseteq Assemblers \X Frames
    /\ sent \subseteq Assemblers \X Frames
    /\ live \in [stream : Nat, segment : Nat, buffer : Nat]

(* A delegate is never called before its assembler's constructor returned, *)
(* nor after its destructor did: the session may be freed then.            *)
NoLateCallback ==
    [][\A k \in payloads' \ payloads : client[k[1]] \in {"open", "closing"}]_vars

(* Every buffer and segment is with exactly one owner: a StreamRecver, a   *)
(* frame at the fec thread, a session; and a packet's copy with a command. *)
Streams == {i \in DOMAIN recverQ : recverQ[i].cmd = "STREAM"}
SegmentsHeld == UNION {{a} \X (1 .. held[a]) : a \in Assemblers}
SegmentsDecoding == UNION {{d} \X (1 .. d.segs) : d \in decoding}
OwnersExact ==
    /\ live.stream = Cardinality(Streams)
    /\ live.segment = Cardinality(SegmentsHeld) + Cardinality(SegmentsDecoding)
    /\ live.buffer = Cardinality(decoding) + Cardinality(payloads)

(* A frame under way to or from the fec thread is in _decodingHdr exactly  *)
(* once, so that ListRemove and _decodingNum > 0 hold when it is back.     *)
UnderWay ==
    ({"fec"} \X DOMAIN fecQ)
        \cup ({"recver"} \X {i \in DOMAIN recverQ : recverQ[i].cmd = "DECODED"})
FrameAt(w) == IF w[1] = "fec" THEN fecQ[w[2]] ELSE recverQ[w[2]].segments
DecodingTracked ==
    /\ \A w \in UnderWay : FrameAt(w) \in decoding
    /\ \A d \in decoding : \E w \in UnderWay : FrameAt(w) = d
    /\ \A v, w \in UnderWay : FrameAt(v) = FrameAt(w) => v = w

(* The table of assemblers fits the command the recver thread is about to  *)
(* handle: a packet finds its assembler, so that none is lost between the  *)
(* constructor and the destructor, and the assertions of REGISTER hold.    *)
CommandsFitTable ==
    recverQ # <<>> =>
        LET c == Head(recverQ) IN
        /\ c.cmd = "STREAM" => c.id \in assemblers
        /\ c.cmd = "REGISTER" => (c.id \in assemblers <=> ~c.registered)

(* The constructor and the destructor return.                              *)
CallsReturn ==
    \A a \in Assemblers :
        /\ client[a] = "registering" ~> client[a] # "registering"
        /\ client[a] = "closing" ~> client[a] = "gone"

(* Every frame sent to the fec thread comes back.                          *)
DecodingEnds ==
    \A a \in Assemblers, f \in Frames :
        (\E d \in decoding : d.id = a /\ d.frame = f)
            ~> ~ \E d \in decoding : d.id = a /\ d.frame = f
=============================================================================
