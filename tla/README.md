# CodecMixer: models and proofs

CodecMixer is a server that receives the audio and video frames of the people in
a room, mixes them and sends the mix to an RTMP server. The modules here are
translated from its C++ code under `src/src`; nothing is taken from a description
of it. `PROJECT.json` lists the components, runs, hazards, findings and theorems,
and maps every definition to the lines it stands for.

## The system

```
bizs server --TCP--> CAVMBizsChannel thread --InsertUserJoinMsg--+
                                                                  v
grid server --TCP--> CAVMGridChannel thread --packets--> map of CAVMSession
                                                                  | HandleRGridStream
                                                                  v
                                                           StmAssembler
                                               commands  |           ^ answers
                                                         v           |
                       recver thread (StreamRecver per session) <-> fec thread
                                                         | HandleRGridFrameRecved
                                                         v
             CAVMSession -> CAVMNetPeer: net queue -> decode threads -> decoded queue
                                                         |
                        audio and video mix threads of the session -> CAVMMixer -> RTMP
```

| component | state | operations | hard behaviour | correct when |
|---|---|---|---|---|
| frame queue (`frmqueue.h`, `fqueue.h`) | a ring of slots, first and last id, count | Insert, At, Remove, Reset, LoopFrames | wrapping ids, holes, eviction, callbacks | it is a window of N ids: the frame found is the frame asked for, every evicted frame is handed to the callback |
| stream receiver (`stmrecver.cpp`, `accumu.h`) | identities, a queue per stream, segments, three allocators | HandleQPacket, time-outs, destructor | loss, repetition, disorder, time-outs | every decodable frame is delivered, once, and nothing leaks |
| stream assembler (`stmassembler.cpp`) | table of assemblers, frames at the fec thread, buffers | constructor, destructor, HandleRGridStream, ReleaseFramePayload, two threads | interleaving of threads, sessions that end while a frame is decoded | no callback after the destructor, one owner per buffer, calls return |
| command threads (`mqthread.cpp`) | two command sockets | PushCmd, handler loop | order and capacity | commands are handled once, in order |
| buffer allocators (`fmtbuffer.cpp`, `fbuffer.cpp`, `fchain.h`) | reference counts, chain of freed buffers | Alloc, AddRef, DecRef, Recycle | freed by other threads than they are allocated by | no buffer is freed twice |
| net peer (`avmnetpeer.cpp`) | net and decoded queue for audio and video, last id, idle time | Add\*Data, decode threads, Get/Exist\*AndPop | two threads and a lock per queue, static timer, idle reset | frames are decoded in order, a P frame after its predecessor, none leaks or stays |
| session mixer (`avmSession.cpp`) | leading and minor peers, time-stamps, mix threads | AddPeer, ProcessDec\*, HandleRGridFrameRecved, DestorySession | a table read by four threads, end of a session under callbacks | every leading frame is mixed once, nothing is used after its end |
| grid channel (`avmGridChannel.cpp`) | map of sessions, room count, connection | InsertUserJoinMsg, ProcessRecvPacket, DestoryOldSession, reconnection | two threads, lock held while waiting for a third | rooms are counted right, no session is lost |
| bizs channel (`avmBizsChannel.cpp`) | connection, login | login, keep-alive, joins, release notices | two writers of one socket | every join is answered |

The rest (TCP framing, codecs, packet formats, the linear algebra of forward error
correction, configuration, logging, generated and vendored code, the topology
server) has no protocol of its own; `PROJECT.json` gives the reason for each part.

`PROJECT.json` lists the hazards of this code by line. The ones without a property
carry the reason.

## Plan

Done, in the order written:

1. `FrameIdComparer`, `FrameIdWindow`, `FrameWindow`, `FrameQueue`: every other
   component keeps its frames in a frame queue, so it comes first.
2. `FrameQueueProofs` (with `FiniteSetLemmas`): its safety for every size.
3. `StreamRecver`: what a packet does.
4. `StmAssembler`: the threads around it; `FrameCollector` is the contract between
   the two.
5. `NetPeer`: what becomes of a frame after it was received.
6. `MTFixedSizeAllocator`: the buffers that cross threads, and `BufferPool`, which it
   implements.
7. `TimeStamps`, `SessionMixer`: a mix thread, between the decoded queues and the
   bizs thread.
8. `SessionEnd`: the end of a session against all of its threads; this is where
   the parts of `StmAssembler`, `NetPeer` and `SessionMixer` meet.
9. `GridChannel`: the map of sessions, the rooms and the connection.
10. A proof module for each of these (the one of `SessionEnd` is the second half of
    `GridChannelProofs`, which extends it: the grid thread runs both), the refinement of
    `FrameWindow` by `FrameQueue` and of `BufferPool` by `MTFixedSizeAllocator`, and
    the contract of `FrameCollector`, for every size. Every invariant, every action
    property and every refinement that a passing run checks is a theorem; see "Proofs".

Left:

* the bizs channel: its login and keep-alive are output on one socket; worth a
  module only together with a model of the server at the other end.

What one module takes another for is stated, checked and proved in three places:

* `FrameWindow` is the abstract specification of the ring. `StreamRecver`, `NetPeer` and
  `SessionMixer` use its operators (`FrameIdWindow`) in place of the ring, which
  `RingImplementsWindow` justifies.
* `FrameCollector` is what `StmAssembler` takes a `StreamRecver` for; it builds its
  packets on it, and `StreamRecverCollects` shows that a `StreamRecver` is one.
* `BufferPool` is the abstract specification of the allocator: one owner until the
  last reference, reuse in order of return (`AllocatorImplementsPool`).

## Modules

**`FrameIdComparer`** has the comparisons of ids on a circle of `2 * Half`; Half
is 0x8000 in the code. Differences and sums wrap as `uint16_t` does.
**`FrameIdWindow`** states what a queue holds as a set of ids.

**`FrameQueue`** is the ring. `cells`, `slotBegin` and `slotCnt` are the members of
`FixedSizeCircleQueue`, `fidBegin`, `fidEnd` and `frmCnt` those of `FrameQueue`;
`out` is what the last call returned and gave to its callback. `InsertFirst`,
`InsertTooOld`, `InsertInside` and `InsertAfter` are the four ways through `Insert`;
`RemoveOnly` and `RemoveOneOfMany` those through `Remove`. `LoopFrames` takes the
visitor's answers as a function of the slots. Only visitors of the kind that exist
in the code are passed (`CallerVisitor`): a visitor that keeps a frame and then
deletes the last one would make `EraseLastNSlot(queueCnt - preIdx)` give back the
kept slot too, and no caller does so. Every `Assert` of `frmqueue.h` and of the ring is
a condition of the step it stands in (`SlotCarries`, `MayFree`, `RunsOut`,
`LoopEnters`, and conjuncts of the steps), evaluated in whatever state the step finds;
the two on a slot's address (`fqueue.h:26`, `:45`) are the type of `slotBegin`. One
that fails sets `failedIn`, after which the process is gone (`Assert` aborts in every
build, `NDEBUG` is not set). `_fidBegin` and `_fidEnd` are not initialized by the
constructor: any value in `Init`.

**`FrameWindow`** is the abstract specification: a set of ids within N consecutive
ones, with no ring, no holes and no counters. `ImplementsWindow` checks that the
ring implements it, results and callbacks included.

**`StreamRecver`** is `hpsp::StreamRecver` with the queues as windows of ids.
`HandleQPacket` handles one slice: time-outs of the identity and of the head of the
queue, insertion, the segment, the accumulator, delivery. The slices of one packet
are several such steps in one tick, which is the same, since the time-outs do
nothing the second time in a tick. A slice's length is a number of symbols, and a
frame id has one length and one format. A payload is not looked at. `live` counts
what the three allocators have handed out.

**`FrameCollector`** is the contract between `StreamRecver` and `StmAssembler`: what a
packet may bring (`Kinds`), and how many segments are held after it and handed over
with a frame, given those held before (`Collects`). Segments that time out, leave the
window or start afresh are the difference. `StreamRecver` has it as the property
`CollectsAsPromised`.

**`StmAssembler`** has the session threads (`ClientThread`), the recver thread and
the fec thread, and two FIFO queues for the command sockets of `MQThread`. The
spinning constructor and destructor are two actions each: send the command, and
leave the spin when `finished` is set. What a packet does in `StreamRecver` is
abstracted to what `FrameCollector` allows: the ways `HandleFrameRecved` tells apart,
and the segments left.

**`NetPeer`** has one peer's queues of one kind, audio or video (chosen by `Init`;
the code of the two differs in the key frames of video and in one branch for audio),
the recver thread that adds, the decode thread, and the mix threads that pop.
`LoopFrames` is one action per frame visited while the net lock is held (`pc` is
`"loop"`), because the decoded queue has a lock of its own. The decoder succeeds or
fails as it likes. `waiting` is shared by all peers, as the `static` of the code is.
A frame refused by the decoded queue is released before its id is read
(`avmnetpeer.cpp:245-246`): the id read is any. A key frame of video is decoded after
its SPS and PPS, and not at all when one of these fails (`:348`, `:417`). After a gap it
becomes the current frame all the same (`:425`): `Withholds` is that case, and `given`,
the history of the decoder, remembers it. `LoopVideoNetFrameCBEntry` (`:332-336`) and
`ReleaseVideoNetFrameCB` (`:217-224`) have no return statement. For the first the model
takes the answer of the visitor it calls, which is what the unoptimised build of the
makefile leaves to return; `Insert` does not look at the answer of the second. Branch 302-306 is only reached by an
id at distance Half - 1 behind the last one: every other earlier frame waits.

**`MTFixedSizeAllocator`** is `cppcmn::MTFixedSizeAllocator` over
`FixedSizeAllocator` and `RecycleChain`. The owner allocates and recycles; any
thread drops references, and the one that drops the last appends the buffer to the
chain under the lock. `Recycle` looks at the chain without the lock, so the
stores of an append (`StoreItem`, the count) are steps, in either order: the
hardware may show them so. The chain is flat; its segments are its runs of N.

**`BufferPool`** is the abstract specification of the allocator: references, the buffers
that may not be handed out, and the sequence of those that came back. It has no lock,
no list and no segment. The allocator's `busy` is the second, and the part of its
chain that `Recycle` has not freed is the third (`ImplementsPool`).

**`TimeStamps`** has the two ways in which the code compares time-stamps: on the
circle (`TSIsSame` and its kin) and by the plain difference (`IsNear`, in the
visitors).

**`SessionMixer`** is one mix thread, of audio or of video, one leading and one
minor peer (`AVM_MAX_NETPEER_SIZE` is 1). `Take`, `Reset`, the `Filter_*` actions
and `Mix` are the parts of the thread between which the decode threads and the bizs
thread can step in. `AddPeer_Count` and `AddPeer_Store` are the two stores of
`m_pPeers[m_usPeerCount++]=pPeer`, in either order; an entry that is counted and not
stored is used by the thread, which may go on or fail (`failed`); after a failure
nothing is claimed. `live` counts decoded frames.

**`SessionEnd`** is `DestorySession` and the destructor on the grid thread, against
the mix, decode and recver threads. `todo` is the list of operations the grid thread
has left; its head is the next action. The other threads have a place each (`at`),
with the locks they hold. A cancelled thread ends where it sleeps or writes to the
log. `Enter`/`Leave` locks stay held by a thread that ends in between (`"left"`), a
`ScopedCriticalSection` gives its lock back. `part` is what a peer has besides its
queues: the frame it keeps for the mix (minor peers only) and the decoder, each
destroyed first and its pointer cleared then (`Destroy`, `Forget`). A decode thread
makes a decoder when the pointer is NULL (`Decode`) and is inside it while a frame is
decoded (`Decoding`). A mix thread uses the minor peer and its frame when it resets
the statuses, in the filter loop, when it collects the frames and while it mixes
(`Reset`, `Filter`, `Collect`, `MixAndSend`). `failed` means that an object, a frame or
a decoder that is deleted was used, or that an ended, detached thread was cancelled:
anything may follow, so the model stops there.

**`GridChannel`** has the bizs thread (`InsertUserJoinMsg`) and the grid thread's loop
(`DestoryOldSession`, `SendBeanInSession`, receive, `Reconnect`). Each holds the
lock of the map, so each is one action. The map's keys are pointers: `key` says
whether an entry's key is in its session or in a packet that was deleted
(`"dangling"`), and `Search` is what a look-up may then find. `refused` and `lost` are
history: the joins that counted a room and made no session, and the sessions that
fell out of the map.

`FiniteSetLemmas` and the modules named `...Proofs` hold lemmas and theorems. The `MC`
modules and the `.cfg` files hold the instances.

## Runs

| run | instance | shows |
|---|---|---|
| `frame_queue` | 3 slots, 8 ids | type, the ring's shape (contiguous slots, held ends, exact count: `RingShape`), only one of all assertions can fail, refinement of `FrameWindow` |
| `frame_queue_half_turn` | the same | **violated**: `Insert` fails an assertion for an id half a turn away |
| `stream_recver` | 1 sender, audio and video, 3 ids across the wrap, window of 2, a frame of 3 symbols, ticks 0 to 2 | delivery exactly of decodable frames, again only after a time-out, no leak, segments kept and handed over as `FrameCollector` says |
| `stream_recver_once` | the same | **violated**: a completed frame is delivered again after its sender, or its record, timed out |
| `stm_assembler` | 2 sessions with a frame each, 3 commands waiting | owners, table, callbacks, termination of calls and decodes |
| `net_peer` | 1 peer, 4 ids across the wrap, 2 of them key frames, queues of 2 | owners of frames, no P frame without its predecessor (two exceptions, below), every frame leaves the net queue |
| `net_peer_wait` | 3 audio ids | **violated**: a frame behind a gap is taken without waiting |
| `net_peer_timer` | 2 peers, queues of 1 | **violated**: a waiting frame never leaves, the timer being cleared by the other peer |
| `mt_allocator` | 4 buffers, segments of 2, 3 threads | a buffer is in use, on its way back or free, and only one of these; no assertion fails; a backlog returns; refinement of `BufferPool` |
| `session_mixer` | 6 ids, 12 time-stamps that wrap, queues of 2, a minor peer one unit ahead | one owner per frame, sound in step, what is missed and why, no mix waits for ever |
| `session_end` | both peers, audio, with decoders and a kept frame | the session outlives its callbacks; what is deleted is used by stopped threads only, and the end returns, both with the exceptions below |
| `grid_channel` | 2 ids, 3 places, 1 room and the one the code allows beyond it | what the room count counts, when an id gets two sessions, announcements in time, ends of sessions |

Some properties name what the code gets wrong, so that they hold with nothing else
wrong. They permit these exceptions, which TLC reaches, and do not catch them:

* `FailsOnlyWhenStopped`. What is deleted is used, in these ways only: a mix thread that
  was cancelled uses the leading peer, the minor peer, its kept frame or the mixer; a
  cancelled decode thread uses its peer or a decoder that is being destroyed; the
  recver thread's peer is freed while it adds a frame, or `FindPeer`
  (`avmSession.cpp:1210`) uses an entry that is already NULL while `m_usPeerCount` still
  counts it; and a thread that has seen its flag and ended is cancelled. What the
  property excludes is a thread that nobody told to stop, a use after the
  unregistration, and a part destroyed before its user was cancelled.
* `EndReturns`. After one of these uses anything may happen. And a decode thread
  cancelled while it logs under `m_csAudioNetFrame` leaves the lock, on which the grid
  thread then waits for ever, holding the lock of the session map.
* `PFramesFollow`. A P frame is decoded after a key frame that did not get to the
  decoder, because its SPS or PPS failed and the code takes it for the current frame all
  the same (`avmnetpeer.cpp:425`); and after an id that was read from a released frame.
* `MissesOnlyAcrossWrap`, `SplitOnlyByStray`: a frame on the other side of the wrap of
  the time-stamps is not found; an id gets a second session, or a session leaves
  the map, through a key in a deleted packet. `RoomsCounted` says that the count keeps
  the rooms of refused joins.

### Bounds, and why they are enough

* Frame queue: with 3 slots there is a first, a middle and a last slot, so holes,
  both ends and their removal all occur; 8 ids with `Half = 4 > N` are the smallest
  circle on which a gap can be wider than the ring and still be "later". The ring
  and the ids wrap independently. Nothing is capped: the run covers all reachable
  states, and the theorems cover all sizes.
* Stream receiver: `MaxTick = 2` with `Timeout = 1` lets a frame be delivered, time
  out and come back. Segments of 1, 2 and 3 symbols over 3 source symbols give odd
  and even ranges, a range cut at the last source symbol, an overlap, completion by
  source symbols and by overhead. Several senders share nothing but the allocators'
  counts, so one suffices; frames of one stream interact through window and
  time-outs, and there are three.
* Stream assembler: two sessions are needed for the commands of one to stand behind
  those of the other. `QueueRoom = 3` holds a packet, a decoded frame and an
  unregistration in every order. `QueueRoom` limits the sessions' sends only, not
  the fec thread's answers. `MaxHeld` limits segments of unfinished frames.
* Net peer: a peer's queue of two slots evicts with ids 7, 0, 1, 2; two key frames
  let decoding start anew after a gap. Ages stop at the limits after which nothing
  changes. The two time-outs of the code are both three whole seconds long;
  the instance has one tick for both.

* Allocator: three buffers released make a backlog (more than a segment of two),
  and the fourth can be appended while `Recycle` works; slots are added two at a
  time, twice. `MaxRef = 2` references let a buffer be shared by two threads.
* Session mixer: `LeadTs` and `MinorTs` give every frame its stamp. With two units
  between the frames of a peer (`MCLeadTs`, `MCMinorTs`), the minor peer one unit ahead
  and `Duration = 1`, a minor frame is of
  the time of its own and of a neighbouring leading frame, the twelve stamps wrap
  together with the six ids, and a queue of two evicts. `WaitTime = 1` has a second in
  which the thread waits and one in which it stops waiting.
* Session end: audio and video share nothing but what is deleted, so one kind has
  every pair of steps that matters; with both the states are too many for a run. The
  kind is audio: its mix thread asks the leading peer once more, and takes the kept
  frame by its status, where that of video takes it whenever there is one. `Made` is what
  the peers have when the end begins. The instance has all of it, so that all of it is
  destroyed; a decode thread still makes a decoder anew after the destruction. The
  theorems are about both kinds and any `Made`.
* Grid channel: two ids for two sessions, and a place for a second session of an
  id. One stray entry, one refused join and one lost session suffice to reach each
  effect; ages stop above the limit they are compared with. `Period = 1` and
  `Lease = 2` keep the code's order of ten seconds against thirty
  (`avmGridChannel.cpp:323`, `:286`).

In `NetPeer`, `SessionMixer` and `StreamRecver` ids that are half a turn apart do
not meet in one queue (`NoHalfTurn`, `IdsAssumption`): the frame queue ends the
process then, which is the finding of `frame_queue_half_turn`.

Deadlock is not checked where the system may stop: after a failed assertion, a use
of a deleted object or an undefined read (`FrameQueue`, `SessionMixer`,
`SessionEnd`), and when every session is over (`StmAssembler`, `StreamRecver`,
`SessionEnd`).

### Fairness

`FrameQueue` and `StreamRecver` have safety properties only. In `StmAssembler` the
recver and the fec thread, and the spins of the sessions, are weakly fair: they are
operating system threads that block only on their queues. Sessions may do nothing
for ever. In `NetPeer` the recver thread finishes an addition, the decode threads
run, and time passes (weak fairness; a decode thread sleeps 10 ms a round, and
holds the net lock only for a bounded loop). Nothing is assumed of senders, of the
decoder or of the mix threads.

In `MTFixedSizeAllocator` a thread that releases a buffer goes on, and gets a lock
that is free again and again (strong fairness of `Append1`). The owner's loop calls
`Recycle` after every poll (`stmassembler.cpp:331-336`), whatever it does in between,
so `Recycle` is strongly fair, and so is `RemoveSegment`, which waits for the lock. In `SessionMixer` the
mix thread runs and time passes. In `GridChannel` the grid thread runs; joins,
packets and the loss of the connection may come for ever or never. In `SessionEnd`
all threads run (weak fairness). A loop over a queue visits finitely many frames,
since none is added under the lock, so it ends (strong fairness of `EndLoop`); the
recver thread takes its commands in order, so an unregistration is not behind
frames for ever (strong fairness of `HandleUnregister`).

### Mutants

Each property of a passing run has a mutant in `PROJECT.json`: a definition of the
model changed the way a slip in the code would change it, with which TLC finds the
property violated. The mutated form stands before the definition, with a suffix
(`Released_NoEviction`).

## Proofs

`FrameQueueProofs` proves for every ring size N and every number of ids with
`N <= Half` (named assumptions `HalfAssumption` and `CapacityAssumption`; in the
code N is a template parameter far below 0x8000):

| theorem | statement |
|---|---|
| `InvHolds` | `Spec => []Inv` |
| `TypeHolds` | `Spec => []TypeOK` |
| `RingKeepsShape` | `Spec => []RingShape` |
| `OnlyHalfTurnEverFails` | `Spec => OnlyHalfTurnFails` |
| `RingImplementsWindow` | `Spec => ImplementsWindow` |

The inductive invariant is `Inv == TypeOK /\ SlotsContiguous /\ EndsHeld /\
CountExact`; `RingShape` is the last three. None of the four is inductive alone. `Insert` finds a slot at its
distance from `_fidBegin`, so the count stays exact only when the slots are
contiguous; they stay contiguous when the end slots carry `_fidBegin` and `_fidEnd`,
since the new slots are counted from `_fidEnd`; the ends are held after a removal
because the count says whether another frame is left; and the arithmetic of the ring
needs the types. The proof goes operation by operation. The main lemmas are about
the circle (`DistanceAdds`, `AheadInjective`), the ring (`MovedIndex`,
`CellsBetween`), and the shapes an operation leaves (`NewShape`). The action
property follows from the same invariant: the operations evaluate the asserted
conditions, each of which may fail in states outside `Inv`; in a state of `Inv` every one
of them follows, but for `IsLater(fid, _fidEnd)`, whose negation places `fid` half
a turn from the first id.

For the refinement, the lemma on each operation also says which ids stay held. Ids of
held slots are those of the slots' places counted from `_fidBegin`, and fewer than N
apart, so the ring's guards on ends and distances are those of the window.

The other proof modules, each for any values of the constants that satisfy the
named assumptions of the module:

| module | theorems | inductive invariant |
|---|---|---|
| `StreamRecverProofs` | `InvHolds`, `RedeliveriesAreLate` | `IInv`: types of the queues, `HeardOf`, `DeliveriesRemembered`, `RedeliveredOnlyAfterTimeout` |
| | `SizesHold`, `TypeHolds`, `WaitsAreNeeded`, `DeliveriesDecode`, `AllocatorsStayExact` | `Inv`: `IInv` with `RecordsHold`, `IsExact`, `DeliversDecodable` |
| | `StreamRecverCollects` | the same |
| `StmAssemblerProofs` | `InvHolds`, `CommandsAlwaysFit`, `NoCallbackIsLate` | `IInv`: types of the queues, `AnswersAwaited`, `TableFollows`, `RegistrationsFollow`, `StreamsFollow`, `DecodingsFollow` |
| | `PlacesHold`, `TypeHolds`, `OwnersStayExact`, `DecodingStaysTracked` | `Inv`: `IInv` with types of the sets, `FramesOnce`, `Tracked`, `OwnersExact` |
| | `CallsAreServed`, `GoneLeaveNothing` | `ServedInv`: `IInv` with `CallsServed`, `HeldByTable` |
| `NetPeerProofs` | `InvHolds`, `PFramesStayInOrder` | `IInv`: types, `PFramesFollow`, `CurIsLastGiven` |
| | `PlacesHold`, `TypeHolds`, `FramesStayExact`, `QueuesStayInWindow` | `Inv`: `IInv` with `TypeOK`, `Apart`, `QueuesInWindow`, `FramesExact` |
| `MTFixedSizeAllocatorProofs` | `InvHolds`, `TypeHolds`, `SlotsStayPlaced`, `AssertsNeverFail`, `AllocatorImplementsPool` | `IInv`: all of `TypeOK`, `SlotsPlaced`, `AssertsHold`, with where the lock, the protection bits and the count stand |
| `SessionMixerProofs` | `OneTestHolds`, `NearUnlessAcrossWrap`, `InvHolds`, `TypeHolds`, `FramesStayExact`, `SoundStaysInStep` | `Inv`: `TypeOK`, `Counted`, `InStep`, `UnknownFirst`, `NothingMixed` |
| | `WaitHolds`, `MissesOnlyAtTheWrap` | `Inv` with `WaitInv` |
| `GridChannelProofs` | `TypeHolds`, `RoomsStayCounted`, `MapSplitsOnlyByStray`, `AnnouncedBeforeItLapses` | `Inv`: `TypeOK`, `RoomsCounted`; `TimeInv`: with `HeardSince`, `SoonDue` |
| (`SessionEnd`) | `EndTypeHolds`, `SessionOutlives` | `EndInv`: `EndTypeOK`, `FlagBeforeCancel`, `DeleteAfterSpin`, `RecverGone` |
| | `LocksStayWithThreads` | `EndInv` with `LocksFollow` |
| | `ThreadsStoppedFirst`, `WaitsForStoppedThreads`, `FailsOnlyInStoppedThreads` | `EndInv` with `StopInv` (`Ordered`, `StoppedFirst`, `ClearedLast`, `PartsStopped`), `LocksFollow` and `PartsUsed` |

Why each is needed:

* `StreamRecver` must not deliver a frame again while it is recent. What it keeps
  for that is a completed record, or, when the record was evicted, a later frame as
  recent in a queue whose ids are all later: the copy is then too old for the queue
  (`DeliveriesRemembered`). A queue that times out is one of an identity not heard
  of since (`HeardOf`). The ids lie within half a turn (`IdsAssumption`), so they
  have places on a line (`Pos`) and comparing them is arithmetic.
* A record of `StreamRecver` keeps a sum of indices and a count in place of the
  symbols (`IntAccumulator`). `RecordsHold` says of which set of symbols they are the
  sum and the count. That the sum of a part of 1 .. n equals n (n + 1) / 2 only when
  the part is the whole is the reason a frame is complete no sooner and no later
  than it can be decoded. `IsExact` says that each allocator misses what the queues
  hold: both together, since a release gives back the segments of the record it frees,
  and a delivered record must have none left.
* In `StmAssembler` the recver thread's table lags behind the session by the one
  command of a call that spins (`TableFollows`). A session has at most one such
  command queued (`RegistrationsFollow`), behind all of its packets
  (`StreamsFollow`); that puts every command at the head of the queue where the
  table fits it, and every callback inside the life of its session.
* The counts of `OwnersExact` change right only when what is removed was there once:
  a frame is in one command, at the fec thread or with its session, and never in two
  of these places (`FramesOnce`), and `_decodingHdr` has the frames in the two queues,
  each in one place of one of them (`Tracked`).
* In `NetPeer` the order of P frames rests on the last id being that of the last
  frame given to the decoder, but for 0, for an id read from a released frame and for a
  key frame that was withheld from the decoder; these two are the exceptions that
  `PFramesFollow` states, and the history tells them apart from a frame that was given.
  The number of live frames is that of the frames in the queues and on their way
  into them. It needs that a queue holds a window of ids
  (`QueuesInWindow`), so that an insertion evicts what the queue releases and nothing
  else, and that no id half a turn away is about to come (`Apart`).
* In the allocator a buffer is in the chain, in a hand or referenced, and the
  protection bits tell them apart; the count differs from the items by at most the
  one store not yet made, so a count above N means that a segment of N items is
  written, and `Recycle` may read them without the lock.
* In `SessionMixer` the frame found for the leading one stays the one kept until the
  mix, through the race with `AddPeer`; before the peer is in the table its status
  is still unknown. A frame of the leading one's time is not missed, because the
  tests against the ends of the queue let go of the minor peer only when all of its
  frames are later, or earlier: the queue is a window (`WaitInv`), and the stamps of
  a window follow its ids.
* In `GridChannel` the grid server has not heard of a session for no longer than
  since the last announcement (`HeardSince`), and where the thread waits the next one
  is not overdue (`SoonDue`).
* In `SessionEnd` what the grid thread has left to do is a list. The parts it is built
  from set a flag directly before they cancel the thread, and never delete the
  session (`Tame`, kept by concatenation); so in every reachable list
  a cancellation stands behind its flag (`FlagBeforeCancel`), and the deletion of the
  session is last and behind the spin (`DeleteAfterSpin`). The recver thread handles
  the unregistration outside its callbacks and does not take the session up again
  (`RecverGone`).
* The same list gives the order of the end. Some commands require others: the release
  of a queue that its decode thread is cancelled, the destruction of a kept frame or a
  decoder that the one thread using it is (`User`), the deletion of an object that all
  threads using it are, the clearing of a pointer that the peer is deleted
  (`Requires`). A program is `Ordered` when each command has what it requires before
  it or done already. That is kept when parts are put together and when the head is
  done, so it holds of what is left to do in every state, and what is deleted had its
  threads stopped first (`StoppedFirst`, and `PartsStopped` for frames and decoders). A
  thread that mixes a frame or is inside a decoder found it there, and what was there
  is never unset again (`PartsUsed`); so one it finds missing was destroyed. Hence only threads that were told to stop
  and have not yet (or the recver thread in a deleted peer) use what is deleted, and
  the grid thread waits at a lock only for a thread it cancelled. The wait has an end
  unless that thread ended inside the lock: a lock is held where its decode thread
  is inside it, and `"left"` where the thread has ended (`LocksFollow`).
* In `StreamRecver` the contract of `FrameCollector` follows from the exactness of the
  allocators: what a packet adds to the segments held is at most the one it brings,
  and a frame that it completes is handed over with all of its record's segments, of
  which there is at least the one that came. Without it the owners counted in
  `StmAssembler` would be those of a receiver that the code does not have.
* The allocator's refinement maps every store of `Recycle` and of an append to one step
  of `BufferPool` or to none. The part of the chain not yet freed is what came back, also
  while `Recycle` is between freeing a segment's buffers and taking the segment off the
  chain; a buffer may be handed out again from when it is freed, not from when the chain
  lets go of it.
* A call that spins in `StmAssembler` was answered or has its command in the queue
  (`CallsServed`). Only a registered assembler has segments at the recver thread
  (`HeldByTable`), and a session that is gone is neither registered nor named by a
  command; so it has left nothing there (`GoneLeaveNothing`). What may remain of it is
  at the fec thread, or with the session.

Sums over queues and functions (the frames of all peers, the segments of all
records, the sum of an accumulator) are stated as cardinalities, of the set of the
things summed or, for numbers, of a set with as many members. `FiniteSetLemmas` has
what the proofs need of them: a family of disjoint sets of which one
changes (`FamilyChange`), and sets of numbers of which one is part of the other
(`WeightsGrow`). So none of these theorems needs an induction over data.

Assumptions on the constants that are more than types:

* `N <= Half` and `Half > 0` (frame ids); in `StreamRecver` the ids alive at one time
  lie within half a turn (`IdsAssumption`).
* `SendersAssumption`, `NetPeerAssumption`, `AssemblerAssumption`, `ChannelAssumption`: what
  a process has of senders, peers, sessions and frames is finite.
* `StampsAssumption` of `SessionMixer`: the stamps of frames in one queue lie within
  half a turn of the 32-bit clock in milliseconds, which is 24 days. It says nothing
  of the two peers against each other.
* `ChannelAssumption`: a lease is longer than the time between two announcements, as
  thirty seconds are longer than ten.

`OneTestHolds` and `NearUnlessAcrossWrap` are about the comparisons alone: of
earlier, same and later one holds, but for stamps half a turn apart; and the two ways
of comparing differ only across the wrap.

Only model-checked, with the reason:

* all liveness: `CallsReturn`, `DecodingEnds`, `FramesLeave`, `BacklogLeaves`,
  `MixGoesAhead`, `TimedOutEnds`, `EndReturns` (the prover handles neither fairness
  nor ENABLED). Proved is what the fairness works on: that what is waited for is
  under way (`CallsServed` for `CallsReturn`, `DecodingTracked` for `DecodingEnds`,
  `GridWaits` and `LocksFollow` for `EndReturns`);
* the four findings, which are counterexamples and hold of one instance;
* that `StreamRecver`, `NetPeer` and `SessionMixer` may use windows of ids in place of
  rings: `RingImplementsWindow` is about one queue on its own, and the operators are
  shared (`FrameIdWindow`), but the composed modules are not replaced by ones with
  rings.

## Findings

* `frmqueue.h:350`: an id exactly 0x8000 away from the only frame held is "not
  earlier", "not not-later" and "not later", and fails an assertion, which ends the
  process. `OnlyHalfTurnFails` and its theorem show that it is the only one.
* `stmrecver.cpp:231`: a comment (`:212`) says that completed frames stay in the queue as
  placeholders; `GetRecvIdentity` drops them with the queues of a sender that was silent,
  and a late copy is delivered again. They also time out on their own, like others
  (`:184`).
* `avmnetpeer.cpp:289`: a comment says that the thread waits for the next correct
  frame; it waits only when an earlier frame came, not when one is missing.
* `avmnetpeer.cpp:288`: the time such a wait began is a `static` of the function,
  shared by the decode threads of all peers; while another peer meets gaps, a
  waiting frame, and the queue behind it, can stay for ever.

The exceptions listed under "Runs" are reached as well, but no doc, comment or test
says otherwise of them; they are described as hazards, with the property that
confines them.

## Not modelled

* Capacity of the command sockets: `MQThread` ends the process when a command does
  not fit.
* The process-wide start and stop of the recver and fec threads.
* Peers outside this repository that break the format of their packets (an id
  that changes its length): `StreamRecver` asserts that they do not.
* `RecycleAll` of the allocator, which has no caller.
* In `NetPeer`: the arrival of SPS and PPS frames, which are kept outside the queue. A
  key frame finds them present and decodable or not, whatever came before. The start of
  a peer; its end is in `SessionEnd`.
* In `SessionMixer`: more than one minor peer (`AVM_MAX_NETPEER_SIZE` is 1), what is
  mixed, encoded and sent.
* In `SessionEnd`: the locks of a peer are not deleted. `UninitNP`
  (`avmnetpeer.cpp:75`) deletes a lock only when its pointer is NULL, that is never.
* In `GridChannel`: the users of a join and their names (a leading peer with an
  empty name is replaced, `avmGridChannel.cpp:210`), and the notices to the bizs
  channel. A pass of the loop takes one unit of time at most: a receive that blocks
  in the middle of a packet, and a slow connect, are left out. One session ends in a
  pass, so with a time-out shorter than there are sessions the ends could starve;
  the time-out comes with the join, in seconds, and a pass without packets takes half a
  second.
* The bizs channel, but for its joins: see the plan.
* Contents of frames and symbols, decoding of the code words, logging.

The map covers a small share of the repository's lines, and can cover no large one: most
of them are a vendored RTMP library, generated protobuf code, precomputed tables
of forward error correction, headers of third-party libraries, and an SDK of
another project. These have no state machine of this program in them. The components
that do are the ones above, and their code under `src/src` and `src/include` is
what is mapped.
