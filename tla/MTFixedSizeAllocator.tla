------------------------ MODULE MTFixedSizeAllocator ------------------------
(***************************************************************************)
(* cppcmn::MTFixedSizeAllocator: buffers that one thread allocates and any *)
(* thread releases, with the FixedSizeAllocator and the Chain it is made   *)
(* of.  The free and the busy list belong to the allocating thread and     *)
(* have no lock.  A thread that drops the last reference appends the slot  *)
(* to a chain, under a lock; Recycle, on the allocating thread, takes the  *)
(* first segment of the chain back to the free list.  Recycle reads the    *)
(* chain's count and items without the lock, so the stores of an append    *)
(* are steps of their own, in whichever order they become visible.         *)
(*                                                                         *)
(* The chain is kept flat: its segments are the runs of N items, since     *)
(* items are appended at the end and whole segments leave at the front.    *)
(* RecycleAll has no caller.                                               *)
(***************************************************************************)
EXTENDS Naturals, Sequences, FiniteSets, Functions

CONSTANTS
    Slots,     \* all the slots there is memory for
    Threads,   \* the threads that hold references
    Owner,     \* the thread that allocates and recycles
    N,         \* RecycleChain::NumOfSegment
    Reserved,  \* _reservedCnt: slots added when none is free
    MaxRef,    \* bound on the references to one slot
    NoThread,  \* nobody holds the lock
    NoSlot     \* nothing in hand

ASSUME AllocatorAssumption ==
    /\ Owner \in Threads
    /\ N \in Nat \ {0} /\ Reserved \in Nat \ {0} /\ MaxRef \in Nat \ {0}
    /\ NoThread \notin Threads
    /\ NoSlot \notin Slots

VARIABLES
    free,     \* _freeHdr
    busy,     \* _busyHdr
    refcnt,   \* MTFSlotHeader::refcnt
    protect,  \* MTFSlotHeader::protect
    chain,    \* the items of _recycleChain
    count,    \* _recycleChain._count
    lock,     \* who holds _recycleLock
    pc,       \* where each thread is in DecRef, the owner also in Recycle
    hand,     \* the slot a thread in DecRef appends
    at,       \* the item of the first segment that Recycle is at
    failed    \* an assertion failed, or memory was read that holds no item

vars == <<free, busy, refcnt, protect, chain, count, lock, pc, hand, at, failed>>

Appending == {"append", "stored", "counted", "unlock"}
Recycling == {"free", "remove"}
-----------------------------------------------------------------------------
Init ==
    /\ free = {} /\ busy = {}
    /\ refcnt = [s \in Slots |-> 0]
    /\ protect = [s \in Slots |-> "unset"]
    /\ chain = <<>> /\ count = 0
    /\ lock = NoThread
    /\ pc = [t \in Threads |-> "idle"]
    /\ hand = [t \in Threads |-> NoSlot]
    /\ at = 1
    /\ failed = FALSE

(* The free slots, after new ones are added when there are none.           *)
Available(avail) ==
    IF free # {} THEN avail = free
    ELSE avail \subseteq Slots \ busy /\ Cardinality(avail) = Reserved

Alloc ==
    /\ pc[Owner] = "idle"
    /\ \E avail \in SUBSET Slots : Available(avail) /\ \E s \in avail :
          /\ free' = avail \ {s}
          /\ busy' = busy \cup {s}
          /\ refcnt' = [refcnt EXCEPT ![s] = 1]
          /\ protect' = [protect EXCEPT ![s] = "held"]
    /\ UNCHANGED <<chain, count, lock, pc, hand, at, failed>>

AddRef(s) ==
    /\ refcnt[s] \in 1..(MaxRef - 1)
    /\ refcnt' = [refcnt EXCEPT ![s] = @ + 1]
    /\ UNCHANGED <<free, busy, protect, chain, count, lock, pc, hand, at, failed>>

(* By a thread that holds a reference.                                     *)
DecRef(t, s) ==
    /\ pc[t] = "idle"
    /\ refcnt[s] > 0
    /\ refcnt' = [refcnt EXCEPT ![s] = @ - 1]
    /\ IF refcnt[s] = 1
       THEN /\ protect' = [protect EXCEPT ![s] = "freed"]
            /\ pc' = [pc EXCEPT ![t] = "lock"]
            /\ hand' = [hand EXCEPT ![t] = s]
            /\ failed' = (protect[s] # "held")
       ELSE UNCHANGED <<protect, pc, hand, failed>>
    /\ UNCHANGED <<free, busy, chain, count, lock, at>>

Lock(t) ==
    /\ pc[t] = "lock"
    /\ lock = NoThread
    /\ lock' = t
    /\ pc' = [pc EXCEPT ![t] = "append"]
    /\ UNCHANGED <<free, busy, refcnt, protect, chain, count, hand, at, failed>>

(* Chain::AppendItem: the item and the count.                              *)
StoreItem(t) ==
    /\ pc[t] \in {"append", "counted"}
    /\ chain' = Append(chain, hand[t])
    /\ pc' = [pc EXCEPT ![t] = IF pc[t] = "append" THEN "stored" ELSE "unlock"]
    /\ UNCHANGED <<free, busy, refcnt, protect, count, lock, hand, at, failed>>

StoreCount(t) ==
    /\ pc[t] \in {"append", "stored"}
    /\ count' = count + 1
    /\ pc' = [pc EXCEPT ![t] = IF pc[t] = "append" THEN "counted" ELSE "unlock"]
    /\ UNCHANGED <<free, busy, refcnt, protect, chain, lock, hand, at, failed>>

Unlock(t) ==
    /\ pc[t] = "unlock"
    /\ lock' = NoThread
    /\ pc' = [pc EXCEPT ![t] = "idle"]
    /\ hand' = [hand EXCEPT ![t] = NoSlot]
    /\ UNCHANGED <<free, busy, refcnt, protect, chain, count, at, failed>>

(* Recycle, when there is more than a segment; otherwise it does nothing.  *)
Recycle_Backlog2N ==
    /\ pc[Owner] = "idle"
    /\ count > 2 * N
    /\ pc' = [pc EXCEPT ![Owner] = "free"]
    /\ at' = 1
    /\ UNCHANGED <<free, busy, refcnt, protect, chain, count, lock, hand, failed>>
Recycle_FullSegment ==
    /\ pc[Owner] = "idle"
    /\ count >= N
    /\ pc' = [pc EXCEPT ![Owner] = "free"]
    /\ at' = 1
    /\ UNCHANGED <<free, busy, refcnt, protect, chain, count, lock, hand, failed>>
Recycle ==
    /\ pc[Owner] = "idle"
    /\ count > N
    /\ pc' = [pc EXCEPT ![Owner] = "free"]
    /\ at' = 1
    /\ UNCHANGED <<free, busy, refcnt, protect, chain, count, lock, hand, failed>>

(* What Recycle and FixedSizeAllocator::Free assert of an item.            *)
MayFree(s) == refcnt[s] = 0 /\ protect[s] = "freed" /\ s \in busy

FreeItem_NoReset ==
    /\ pc[Owner] = "free"
    /\ IF at > Len(chain) \/ ~MayFree(chain[at])
       THEN failed' = TRUE /\ UNCHANGED <<free, busy>>
       ELSE /\ free' = free \cup {chain[at]}
            /\ busy' = busy \ {chain[at]}
            /\ UNCHANGED failed
    /\ at' = at + 1
    /\ pc' = [pc EXCEPT ![Owner] = IF at = N THEN "remove" ELSE "free"]
    /\ UNCHANGED <<refcnt, protect, chain, count, lock, hand>>
FreeItem ==
    /\ pc[Owner] = "free"
    /\ IF at > Len(chain) \/ ~MayFree(chain[at])
       THEN failed' = TRUE /\ UNCHANGED <<free, busy>>
       ELSE /\ free' = free \cup {chain[at]}
            /\ busy' = busy \ {chain[at]}
            /\ UNCHANGED failed
    /\ at' = IF at = N THEN 1 ELSE at + 1
    /\ pc' = [pc EXCEPT ![Owner] = IF at = N THEN "remove" ELSE "free"]
    /\ UNCHANGED <<refcnt, protect, chain, count, lock, hand>>

(* RemoveFirstNSegment(1): all the segments there are, or the first.       *)
RemoveSegment_TwoSegments ==
    /\ pc[Owner] = "remove"
    /\ lock = NoThread
    /\ chain' = SubSeq(chain, 2 * N + 1, Len(chain))
    /\ count' = Len(chain')
    /\ pc' = [pc EXCEPT ![Owner] = "idle"]
    /\ UNCHANGED <<free, busy, refcnt, protect, lock, hand, at, failed>>
RemoveSegment ==
    /\ pc[Owner] = "remove"
    /\ lock = NoThread
    /\ IF Len(chain) <= N
       THEN chain' = <<>> /\ count' = 0
       ELSE chain' = SubSeq(chain, N + 1, Len(chain)) /\ count' = count - N
    /\ pc' = [pc EXCEPT ![Owner] = "idle"]
    /\ UNCHANGED <<free, busy, refcnt, protect, lock, hand, at, failed>>

Append1(t) == Lock(t) \/ StoreItem(t) \/ StoreCount(t) \/ Unlock(t)

Next ==
    /\ ~failed
    /\ \/ Alloc \/ Recycle \/ FreeItem \/ RemoveSegment
       \/ \E s \in Slots : AddRef(s)
       \/ \E t \in Threads :
             \/ \E s \in Slots : DecRef(t, s)
             \/ Append1(t)

Spec == Init /\ [][Next]_vars

(* A thread in DecRef goes on, and takes the lock some time when it is     *)
(* free again and again.  The owner's loop calls Recycle after each poll.  *)
Fairness ==
    /\ \A t \in Threads : SF_vars(~failed /\ Append1(t))
    /\ SF_vars(~failed /\ Recycle)
    /\ WF_vars(~failed /\ FreeItem)
    /\ SF_vars(~failed /\ RemoveSegment)

FairSpec == Spec /\ Fairness
-----------------------------------------------------------------------------
TypeOK ==
    /\ free \subseteq Slots /\ busy \subseteq Slots
    /\ refcnt \in [Slots -> Nat]
    /\ protect \in [Slots -> {"unset", "held", "freed"}]
    /\ chain \in Seq(Slots) /\ count \in Nat
    /\ lock \in Threads \cup {NoThread}
    /\ pc \in [Threads -> {"idle", "lock"} \cup Appending \cup Recycling]
    /\ hand \in [Threads -> Slots \cup {NoSlot}]
    /\ at \in 1..N
    /\ failed \in BOOLEAN

(* The items of the chain that Recycle has not freed yet are those from    *)
(* this one on.                                                            *)
FirstUnfreed ==
    IF pc[Owner] = "free" THEN at ELSE IF pc[Owner] = "remove" THEN N + 1 ELSE 1

Referenced(s) == refcnt[s] > 0
Holds(t) == pc[t] \in {"lock", "append", "counted"}   \* a slot not in the chain yet
InHand(s) == \E t \in Threads : hand[t] = s /\ Holds(t)
InChain(s) == \E i \in FirstUnfreed..Len(chain) : chain[i] = s

(* A busy slot is referenced, on its way to the chain, or in the chain,    *)
(* and only one of these; a slot that is none of these is not busy, and    *)
(* may be handed out again.  No slot stands twice in the chain, where      *)
(* Recycle would free it twice.  DecRef and Recycle neither lose a buffer  *)
(* nor give one away that is still in use.                                 *)
SlotsPlaced ==
    /\ free \cap busy = {}
    /\ \A s \in Slots :
          /\ s \in busy <=> Referenced(s) \/ InHand(s) \/ InChain(s)
          /\ ~(Referenced(s) /\ InHand(s))
          /\ ~(Referenced(s) /\ InChain(s))
          /\ ~(InHand(s) /\ InChain(s))
    /\ \A i, j \in FirstUnfreed..Len(chain) : chain[i] = chain[j] => i = j

(* The assertions of DecRef, Recycle and Free never fail, and Recycle,     *)
(* which takes no lock to read, never reads an item not yet written.       *)
AssertsHold == ~failed

(* A segment of released buffers returns to the free list once another     *)
(* buffer is released after it.                                            *)
BacklogLeaves ==
    \A s \in Slots : (count > N /\ \E i \in 1..N : i <= Len(chain) /\ chain[i] = s) ~> s \in free

(* The lists, the chain and its lock implement the pool of buffers they    *)
(* stand for: a buffer leaves the pool for one user only, and comes back   *)
(* when the last reference is dropped, whatever stores Recycle overtakes.  *)
Pool == INSTANCE BufferPool WITH
    Buffers <- Slots, refs <- refcnt, used <- busy,
    back <- SubSeq(chain, FirstUnfreed, Len(chain))
ImplementsPool == Pool!Spec
-----------------------------------------------------------------------------
(* What the invariants rest on.                                            *)

(* The lock is held by the thread that appends.                            *)
LockFollows ==
    \A t \in Threads : pc[t] \in Appending <=> lock = t

(* Only the owner recycles.                                                *)
OwnerRecycles ==
    \A t \in Threads : pc[t] \in Recycling => t = Owner

(* Each thread releases a slot of its own.                                 *)
HandsDiffer ==
    /\ \A t \in Threads : Holds(t) => hand[t] \in Slots
    /\ \A t, u \in Threads : Holds(t) /\ Holds(u) /\ hand[t] = hand[u] => t = u

(* The protection bits tell a slot in use from a released one.             *)
BitsFollow ==
    \A s \in Slots :
        /\ Referenced(s) => protect[s] = "held"
        /\ InHand(s) \/ InChain(s) => protect[s] = "freed"

(* The count is that of the items, but for the store not yet done.         *)
CountFollows ==
    /\ lock = NoThread => count = Len(chain)
    /\ \A t \in Threads :
          /\ pc[t] = "counted" => count = Len(chain) + 1
          /\ pc[t] = "stored" => count + 1 = Len(chain)
          /\ pc[t] \in {"append", "unlock"} => count = Len(chain)

(* A backlog found stays until Recycle removes it.                         *)
BacklogStays ==
    pc[Owner] \in Recycling => count > N

IInv ==
    /\ TypeOK /\ SlotsPlaced /\ AssertsHold /\ LockFollows /\ OwnerRecycles
    /\ HandsDiffer /\ BitsFollow /\ CountFollows /\ BacklogStays
=============================================================================
