----------------------------- MODULE SessionEnd -----------------------------
(***************************************************************************)
(* The end of a CAVMSession: DestorySession and the destructor, run by the *)
(* grid thread while the mix threads of the session, the decode threads of *)
(* its peers and the recver thread are still at work.  The threads are     *)
(* told to stop, by a flag and pthread_cancel, and not waited for; then    *)
(* the peers, what is in them first, the mixer and the session are         *)
(* deleted, one after the other.                                           *)
(*                                                                         *)
(* A thread that is cancelled ends in usleep, or where it writes to the    *)
(* log.  It gives back a lock of a ScopedCriticalSection then, and leaves  *)
(* one that it entered by Enter.  A thread that uses what is deleted has   *)
(* failed, and anything may come of it: the model stops there.             *)
(*                                                                         *)
(* What the threads do with frames is in NetPeer and SessionMixer.  Locks  *)
(* that a mix thread, the recver thread or the grid thread takes and gives *)
(* back without a wait are taken in one step, and so is what a thread does *)
(* to a pointer of a peer: it tests the pointer and stores it.             *)
(***************************************************************************)
EXTENDS Naturals, Sequences

CONSTANTS
    Kinds,      \* "audio", "video" or both
    Made        \* the frames and decoders that the peers have when the end begins

ASSUME KindsAssumption == Kinds \subseteq {"audio", "video"} /\ Kinds # {}

Peers == {"lead", "minor"}
Mixers == {"mix"} \X Kinds      \* the mix threads
Decoders == Peers \X Kinds      \* the decode threads
Workers == Mixers \cup Decoders
NetLock(w) == <<w[1], w[2], "net">>    \* m_csAudioNetFrame, m_csVideoNetFrame
DecLock(w) == <<w[1], w[2], "dec">>    \* m_csAudioDecFrame, m_csVideoDecFrame
Locks == Peers \X Kinds \X {"net", "dec"}
Parts == Peers \X Kinds \X {"frame", "decoder"}   \* m_pCurAudioDecFrame, m_pAudioDecoder
CurFrame(w) == <<"minor", w[2], "frame">>           \* only minor peers have one
Decoder(w) == <<w[1], w[2], "decoder">>

ASSUME MadeAssumption == Made \subseteq Parts \ ({"lead"} \X Kinds \X {"frame"})

VARIABLES
    todo,       \* what the grid thread has to do
    flag,       \* the threads whose stop flag is set
    cancelled,  \* the threads cancelled
    at,         \* where each of these threads is
    lock,       \* "free", "held" by its decode thread, "left" by it
    freed,      \* what is deleted
    ptr,        \* the pointers that are set: m_pLeadingPeer, m_pPeers[0]
    count,      \* m_usPeerCount
    part,       \* what a peer has: "unset", "set", "deleted" but still pointed to, "gone"
    rec,        \* the peer and kind of the frame the recver thread adds, or <<>>
    reg,        \* the assembler: "in", "asked" to be removed, "out"
    failed      \* something deleted was used, or a thread gone was cancelled

endVars == <<todo, flag, cancelled, at, lock, freed, ptr, count, part, rec, reg, failed>>
-----------------------------------------------------------------------------
(* What DestorySession and ~CAVMSession do, in order.                      *)
StopOf_CancelFirst(h, k) ==
    IF k \in Kinds THEN << <<"cancel", <<h, k>> >>, <<"flag", <<h, k>> >> >> ELSE <<>>
StopOf(h, k) ==
    IF k \in Kinds THEN << <<"flag", <<h, k>> >>, <<"cancel", <<h, k>> >> >> ELSE <<>>
Stop(h) == StopOf(h, "audio") \o StopOf(h, "video")

ReleaseOf(p, k) ==
    IF k \in Kinds THEN << <<"release", <<p, k, "net">> >>, <<"release", <<p, k, "dec">> >> >>
                   ELSE <<>>
ReleaseQueues(p) == ReleaseOf(p, "audio") \o ReleaseOf(p, "video")

DestoryOf(p, k, x) ==
    IF k \in Kinds THEN << <<"destroy", <<p, k, x>> >>, <<"forget", <<p, k, x>> >> >> ELSE <<>>
DestoryParts(p) ==
    DestoryOf(p, "audio", "frame") \o DestoryOf(p, "video", "frame")
    \o DestoryOf(p, "audio", "decoder") \o DestoryOf(p, "video", "decoder")

DestoryNP_NotStopped(p) == ReleaseQueues(p) \o DestoryParts(p)
DestoryNP(p) == Stop(p) \o ReleaseQueues(p) \o DestoryParts(p)

(* What DestoryMixer destroys in the mixer is deleted with it.             *)
DestorySession ==
    Stop("mix")
    \o DestoryNP("minor") \o << <<"delete", <<"minor">> >>, <<"clear", <<"minor">> >>, <<"uncount", <<>> >> >>
    \o DestoryNP("lead")  \o << <<"delete", <<"lead">> >>, <<"clear", <<"lead">> >> >>
    \o << <<"delete", <<"mixer">> >> >>
Destructor == << <<"unregister", <<>> >>, <<"spin", <<>> >>, <<"delete", <<"session">> >> >>

EndInit ==
    /\ todo = << <<"begin", <<>> >> >>
    /\ flag = {} /\ cancelled = {}
    /\ at = [w \in Workers |-> "sleep"]
    /\ lock = [l \in Locks |-> "free"]
    /\ freed = {}
    /\ ptr = Peers /\ count = 1
    /\ part = [c \in Parts |-> IF c \in Made THEN "set" ELSE "unset"]
    /\ rec = <<>> /\ reg = "in"
    /\ failed = FALSE

workers == <<cancelled, at, lock>>
tables  == <<freed, ptr, count, part>>
recver  == <<rec, reg>>

Doing(op) == todo # <<>> /\ Head(todo)[1] = op
What == Head(todo)[2]
Done == todo' = Tail(todo)

(* The session is timed out.                                               *)
Begin ==
    /\ Doing("begin")
    /\ todo' = DestorySession \o Destructor
    /\ UNCHANGED <<flag, workers, tables, recver, failed>>

SetFlag ==
    /\ Doing("flag") /\ Done
    /\ flag' = flag \cup {What}
    /\ UNCHANGED <<workers, tables, recver, failed>>

(* The threads are detached: one that has seen the flag and ended is gone. *)
Cancel ==
    /\ Doing("cancel") /\ Done
    /\ cancelled' = cancelled \cup {What}
    /\ failed' = (at[What] = "ended")
    /\ UNCHANGED <<flag, at, lock, tables, recver>>

(* ReleaseAudioNetQueue and the like, under the lock.                      *)
ReleaseQueue ==
    /\ Doing("release") /\ Done
    /\ lock[What] = "free"
    /\ UNCHANGED <<flag, workers, tables, recver, failed>>

(* A pointer that is set: what it points to is deleted, and then it is     *)
(* cleared.                                                                *)
Destroy ==
    /\ Doing("destroy") /\ Done
    /\ part' = IF part[What] = "set" THEN [part EXCEPT ![What] = "deleted"] ELSE part
    /\ UNCHANGED <<flag, workers, freed, ptr, count, recver, failed>>

Forget ==
    /\ Doing("forget") /\ Done
    /\ part' = IF part[What] = "deleted" THEN [part EXCEPT ![What] = "gone"] ELSE part
    /\ UNCHANGED <<flag, workers, freed, ptr, count, recver, failed>>

Delete ==
    /\ Doing("delete") /\ Done
    /\ freed' = freed \cup {What[1]}
    /\ UNCHANGED <<flag, workers, ptr, count, part, recver, failed>>

Clear ==
    /\ Doing("clear") /\ Done
    /\ ptr' = ptr \ {What[1]}
    /\ UNCHANGED <<flag, workers, freed, count, part, recver, failed>>

Uncount ==
    /\ Doing("uncount") /\ Done
    /\ count' = 0
    /\ UNCHANGED <<flag, workers, freed, ptr, part, recver, failed>>

(* UnregisterAssembler: the command, and the spin until it is handled.     *)
Unregister ==
    /\ Doing("unregister") /\ Done
    /\ reg' = "asked"
    /\ UNCHANGED <<flag, workers, tables, rec, failed>>

Spin_OneLook ==
    /\ Doing("spin") /\ Done
    /\ UNCHANGED <<flag, workers, tables, recver, failed>>
Spin ==
    /\ Doing("spin") /\ Done
    /\ reg = "out"
    /\ UNCHANGED <<flag, workers, tables, recver, failed>>

EndGridThread ==
    \/ Begin \/ SetFlag \/ Cancel \/ ReleaseQueue \/ Destroy \/ Forget
    \/ Delete \/ Clear \/ Uncount
    \/ Unregister \/ Spin
-----------------------------------------------------------------------------
(* The threads that are cancelled.                                         *)
Goes(w, to) == at' = [at EXCEPT ![w] = to]

Home(w) == IF w \in Mixers THEN "session" ELSE w[1]
AtWork(w) == at[w] \notin {"sleep", "wait", "ended"}

Fails ==
    /\ failed' = TRUE
    /\ UNCHANGED <<todo, flag, workers, tables, recver>>

UsesDeletedHome(w) == AtWork(w) /\ Home(w) \in freed /\ Fails

WakeUp(w) ==
    /\ w \notin cancelled
    /\ \/ at[w] = "sleep" /\ Goes(w, "test")
       \/ at[w] = "wait" /\ Goes(w, "filter")
    /\ UNCHANGED <<todo, flag, cancelled, lock, tables, recver, failed>>

(* Where a cancelled thread ends: asleep, or at the log.                   *)
ThreadEnds(w) ==
    /\ w \in cancelled
    /\ at[w] \in {"sleep", "wait", "got", "filter", "mix", "mix minor",
                 "in net", "in dec", "released", "loop", "decode", "insert"}
    /\ Goes(w, "ended")
    /\ lock' = [l \in Locks |->
                   IF at[w] \in {"in net", "loop", "decode", "insert"} /\ l = NetLock(w) THEN "left"
                   ELSE IF at[w] = "in dec" /\ l = DecLock(w) THEN "left"
                   ELSE IF at[w] = "insert" /\ l = DecLock(w) THEN "free"
                   ELSE lock[l]]
    /\ UNCHANGED <<todo, flag, cancelled, tables, recver, failed>>

(* A decode thread: AudioDecThreadImp, VideoDecThreadImp.                  *)
Test(w) ==
    /\ at[w] = "test"
    /\ IF w \in flag THEN Goes(w, "ended") ELSE Goes(w, "old") \/ Goes(w, "idle")
    /\ UNCHANGED <<todo, flag, cancelled, lock, tables, recver, failed>>

Enter(w, l, from, to) ==
    /\ at[w] = from /\ lock[l] = "free"
    /\ Goes(w, to)
    /\ lock' = [lock EXCEPT ![l] = "held"]
    /\ UNCHANGED <<todo, flag, cancelled, tables, recver, failed>>

Leave(w, l, from, to) ==
    /\ at[w] = from
    /\ Goes(w, to)
    /\ lock' = [lock EXCEPT ![l] = "free"]
    /\ UNCHANGED <<todo, flag, cancelled, tables, recver, failed>>

(* The frames of a peer not heard of for long are released.                *)
ReleaseNetQueue(w) ==
    Enter(w, NetLock(w), "old", "in net") \/ Leave(w, NetLock(w), "in net", "between")
ReleaseDecQueue_NotLeft(w) ==
    \/ Enter(w, DecLock(w), "between", "in dec")
    \/ /\ at[w] = "in dec" /\ Goes(w, "released")
       /\ UNCHANGED <<todo, flag, cancelled, lock, tables, recver, failed>>
ReleaseDecQueue(w) ==
    Enter(w, DecLock(w), "between", "in dec") \/ Leave(w, DecLock(w), "in dec", "released")

(* DecAudioNetFrame, DecVideoNetFrame: a decoder is made when there is     *)
(* none.  It may be destroyed while the frame is in it.                    *)
Decode(w) ==
    /\ at[w] = "loop"
    /\ IF part[Decoder(w)] = "deleted" THEN Fails
       ELSE /\ Goes(w, "decode")
            /\ part' = [part EXCEPT ![Decoder(w)] = "set"]
            /\ UNCHANGED <<todo, flag, cancelled, lock, freed, ptr, count, recver, failed>>

Decoding(w) ==
    /\ at[w] = "decode"
    /\ \/ part[Decoder(w)] # "set" /\ Fails
       \/ /\ Goes(w, "loop")   \* not decoded
          /\ UNCHANGED <<todo, flag, cancelled, lock, tables, recver, failed>>

(* LoopFrames under the net lock; a decoded frame is inserted under both.  *)
LoopFrames(w) ==
    \/ \E from \in {"idle", "released"} : Enter(w, NetLock(w), from, "loop")
    \/ Decode(w) \/ Decoding(w)
    \/ Enter(w, DecLock(w), "decode", "insert") \/ Leave(w, DecLock(w), "insert", "loop")
EndLoop(w) == Leave(w, NetLock(w), "loop", "sleep")

DecThread(w) ==
    /\ Home(w) \notin freed
    /\ Test(w) \/ ReleaseNetQueue(w) \/ ReleaseDecQueue(w) \/ LoopFrames(w) \/ EndLoop(w)

(* A mix thread: ProcessAudioThreadImp, ProcessVideoThreadImp.             *)
MixGoes(w, to) ==
    Goes(w, to) /\ UNCHANGED <<todo, flag, cancelled, lock, tables, recver, failed>>

MixTest(w) ==
    /\ at[w] = "test"
    /\ IF w \in flag THEN MixGoes(w, "ended")
       ELSE IF "lead" \in ptr THEN MixGoes(w, "get") ELSE MixGoes(w, "sleep")

GetFirst(w) ==
    /\ at[w] = "get"
    /\ IF "lead" \in freed THEN Fails
       ELSE /\ lock[<<"lead", w[2], "dec">>] = "free"
            /\ MixGoes(w, "sleep") \/ MixGoes(w, "got")

(* The table as the loops over it read it: an entry that is NULL is passed *)
(* over, here and when the frames are collected.                           *)
HasMinor == count = 1 /\ "minor" \in ptr

(* The audio mix asks the leading peer again; then the statuses are reset. *)
Reset(w) ==
    /\ at[w] = "got"
    /\ IF (w[2] = "audio" /\ "lead" \in freed) \/ (HasMinor /\ "minor" \in freed)
       THEN Fails ELSE MixGoes(w, "filter")

(* SetCurAudioDecFrame, SetCurVideoDecFrame release the frame kept.        *)
SetCur(w) ==
    IF part[CurFrame(w)] = "deleted" THEN Fails
    ELSE /\ Goes(w, "collect")
         /\ part' = [part EXCEPT ![CurFrame(w)] = "set"]
         /\ UNCHANGED <<todo, flag, cancelled, lock, freed, ptr, count, recver, failed>>

Filter(w) ==
    /\ at[w] = "filter"
    /\ IF w \in flag THEN MixGoes(w, "ended")
       ELSE IF count = 0 THEN MixGoes(w, "collect")
       ELSE IF "minor" \notin ptr \/ "minor" \in freed THEN Fails
       ELSE /\ lock[<<"minor", w[2], "dec">>] = "free"
            /\ SetCur(w) \/ MixGoes(w, "collect") \/ MixGoes(w, "wait")

(* The minor peer's current frame goes with the leading one: a picture     *)
(* whenever there is one, sound when the status says so, also when the     *)
(* pointer has been cleared since.                                         *)
Collect(w) ==
    /\ at[w] = "collect"
    /\ IF HasMinor /\ "minor" \in freed THEN Fails
       ELSE \/ /\ HasMinor
               /\ \/ part[CurFrame(w)] \in {"set", "deleted"}
                  \/ part[CurFrame(w)] = "gone" /\ w[2] = "audio"
               /\ MixGoes(w, "mix minor")
            \/ /\ \/ ~HasMinor \/ w[2] = "audio"
                  \/ part[CurFrame(w)] \in {"unset", "gone"}
               /\ MixGoes(w, "mix")

MixAndSend(w) ==
    /\ at[w] \in {"mix", "mix minor"}
    /\ \/ at[w] = "mix minor" /\ part[CurFrame(w)] # "set" /\ Fails
       \/ IF "mixer" \in freed THEN Fails ELSE MixGoes(w, "sleep")

MixThread(w) ==
    /\ Home(w) \notin freed
    /\ MixTest(w) \/ GetFirst(w) \/ Reset(w) \/ Filter(w) \/ Collect(w) \/ MixAndSend(w)

Worker(w) ==
    \/ UsesDeletedHome(w) \/ WakeUp(w) \/ ThreadEnds(w)
    \/ w \in Decoders /\ DecThread(w)
    \/ w \in Mixers /\ MixThread(w)
-----------------------------------------------------------------------------
(* The recver thread calls the session back: HandleFrame finds the peer,   *)
(* and AddAudioData or AddVideoData takes the net lock.                    *)
UsesDeletedPeer(p) ==
    \/ "lead" \in ptr /\ "lead" \in freed
    \/ p = "minor" /\ count = 1 /\ (p \notin ptr \/ p \in freed)

HandleFrame(p, k) ==
    /\ rec = <<>> /\ reg # "out"
    /\ IF UsesDeletedPeer(p) THEN Fails
       ELSE /\ p \in ptr
            /\ rec' = <<p, k>>
            /\ UNCHANGED <<todo, flag, workers, tables, reg, failed>>

AddData ==
    /\ rec # <<>>
    /\ IF rec[1] \in freed THEN Fails
       ELSE /\ lock[NetLock(rec)] = "free"
            /\ rec' = <<>>
            /\ UNCHANGED <<todo, flag, workers, tables, reg, failed>>

(* The command of UnregisterAssembler.                                     *)
HandleUnregister ==
    /\ rec = <<>> /\ reg = "asked"
    /\ reg' = "out"
    /\ UNCHANGED <<todo, flag, workers, tables, rec, failed>>

EndNext ==
    /\ ~failed
    /\ \/ EndGridThread
       \/ \E w \in Workers : Worker(w)
       \/ \E p \in Peers, k \in Kinds : HandleFrame(p, k)
       \/ AddData \/ HandleUnregister

EndSpec == EndInit /\ [][EndNext]_endVars

(* The operating system runs the threads.  A loop visits the frames that   *)
(* are in the queue, none being added meanwhile, so it ends.  The recver   *)
(* thread handles its commands in order: none is behind frames for ever.   *)
Fairness ==
    /\ WF_endVars(~failed /\ EndGridThread)
    /\ \A w \in Workers : WF_endVars(~failed /\ Worker(w))
    /\ \A w \in Decoders : SF_endVars(~failed /\ Home(w) \notin freed /\ EndLoop(w))
    /\ WF_endVars(~failed /\ AddData)
    /\ SF_endVars(~failed /\ HandleUnregister)

EndFairSpec == EndSpec /\ Fairness
-----------------------------------------------------------------------------
MixPlaces == {"sleep", "test", "get", "got", "filter", "wait", "collect", "mix", "mix minor",
              "ended"}
DecPlaces == {"sleep", "test", "old", "in net", "between", "in dec", "released", "idle",
              "loop", "decode", "insert", "ended"}

Objects == Peers \cup {"mixer", "session"}
Commands ==
    {"begin", "uncount", "unregister", "spin"} \X { <<>> }
    \cup {"flag", "cancel"} \X Workers
    \cup {"release"} \X Locks
    \cup {"destroy", "forget"} \X Parts
    \cup {"delete"} \X {<<o>> : o \in Objects}
    \cup {"clear"} \X {<<p>> : p \in Peers}

EndTypeOK ==
    /\ todo \in Seq(Commands)
    /\ flag \subseteq Workers /\ cancelled \subseteq flag
    /\ \A w \in Mixers : at[w] \in MixPlaces
    /\ \A w \in Decoders : at[w] \in DecPlaces
    /\ lock \in [Locks -> {"free", "held", "left"}]
    /\ freed \subseteq Objects
    /\ ptr \subseteq Peers /\ count \in 0..1
    /\ part \in [Parts -> {"unset", "set", "deleted", "gone"}]
    /\ rec \in {<<>>} \cup (Peers \X Kinds)
    /\ reg \in {"in", "asked", "out"}
    /\ failed \in BOOLEAN

(* The recver thread is never in a callback of a session that is deleted,  *)
(* and never calls it afterwards: the spin in the assembler's destructor   *)
(* is enough for the session, though not for its peers.                    *)
SessionOutlivesCallbacks ==
    "session" \in freed => rec = <<>> /\ reg = "out"

(* What can fail: the cancel of a thread that has seen its flag and ended; *)
(* a thread at work after it was cancelled, in an object, a frame or a     *)
(* decoder that is deleted; and the recver thread in a deleted peer, while *)
(* the assembler is still registered.  No thread that nobody told to stop  *)
(* uses what is deleted.                                                   *)
ThreadsOf(o) == Mixers \cup {w \in Decoders : w[1] = o}
User(c) == IF c[3] = "frame" THEN <<"mix", c[2]>> ELSE <<c[1], c[2]>>

StoppedAtWork(w) == w \in cancelled /\ AtWork(w)

FailsOnlyWhenStopped ==
    [][~failed /\ failed' =>
         \/ Doing("cancel") /\ What \in flag /\ at[What] = "ended"
         \/ \E o \in freed : \E w \in ThreadsOf(o) : StoppedAtWork(w)
         \/ \E c \in Parts : part[c] \in {"deleted", "gone"} /\ StoppedAtWork(User(c))
         \/ reg # "out" /\ freed \cap Peers # {}]_endVars

(* Once begun, the end of a session returns, and with it the grid thread   *)
(* gives back the lock of the map: unless a thread uses what is deleted,   *)
(* or a cancelled decode thread has left a lock that it was in.            *)
EndReturns ==
    todo # <<>> ~> todo = <<>> \/ failed \/ \E l \in Locks : lock[l] = "left"
=============================================================================
