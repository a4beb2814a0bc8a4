--------------------- MODULE MTFixedSizeAllocatorProofs ---------------------
(***************************************************************************)
(* Proofs about MTFixedSizeAllocator for any slots, any threads and any    *)
(* length of a segment.                                                    *)
(***************************************************************************)
EXTENDS MTFixedSizeAllocator, SequenceTheorems, TLAPS

(* The constants as the prover uses them.                                  *)
LEMMA Constants ==
    /\ Owner \in Threads /\ NoThread \notin Threads /\ NoSlot \notin Slots
    /\ N \in Nat /\ 0 < N
BY AllocatorAssumption

(* The initial state.                                                      *)
LEMMA InitInv == Init => IInv
<1> SUFFICES ASSUME Init PROVE IInv
  OBVIOUS
<1>1. TypeOK
  <2>0. chain \in Seq(Slots)
    BY DEF Init
  <2>1. count \in Nat /\ at \in 1..N
    BY Constants DEF Init
  <2>2. pc \in [Threads -> {"idle", "lock"} \cup Appending \cup Recycling]
    BY DEF Init
  <2>3. hand \in [Threads -> Slots \cup {NoSlot}]
    BY DEF Init
  <2>4. refcnt \in [Slots -> Nat] /\ protect \in [Slots -> {"unset", "held", "freed"}]
    BY DEF Init
  <2> QED
    BY <2>0, <2>1, <2>2, <2>3, <2>4 DEF Init, TypeOK
<1>2. FirstUnfreed = 1 /\ Len(chain) = 0
  BY Constants DEF Init, FirstUnfreed
<1>3. \A s \in Slots : ~Referenced(s) /\ ~InHand(s) /\ ~InChain(s)
  BY <1>2, Constants DEF Init, Referenced, InHand, InChain, Holds
<1>4. SlotsPlaced
  BY <1>2, <1>3 DEF Init, SlotsPlaced
<1>5. AssertsHold /\ LockFollows /\ OwnerRecycles /\ HandsDiffer /\ CountFollows /\ BacklogStays
  BY <1>2, Constants
  DEF Init, AssertsHold, LockFollows, OwnerRecycles, HandsDiffer, CountFollows,
      BacklogStays, Holds, Appending, Recycling
<1>6. BitsFollow
  BY <1>3 DEF BitsFollow
<1> QED
  BY <1>1, <1>4, <1>5, <1>6 DEF IInv

(* An allocated slot was free: nobody held it, and it was not in the chain. *)
LEMMA AllocInv == IInv /\ Alloc => IInv'
<1> SUFFICES ASSUME IInv, Alloc PROVE IInv'
  OBVIOUS
<1> USE DEF IInv
<1>0. PICK avail \in SUBSET Slots : Available(avail) /\ \E s \in avail :
        /\ free' = avail \ {s}
        /\ busy' = busy \cup {s}
        /\ refcnt' = [refcnt EXCEPT ![s] = 1]
        /\ protect' = [protect EXCEPT ![s] = "held"]
  BY DEF Alloc
<1>1. PICK s \in avail :
        /\ free' = avail \ {s}
        /\ busy' = busy \cup {s}
        /\ refcnt' = [refcnt EXCEPT ![s] = 1]
        /\ protect' = [protect EXCEPT ![s] = "held"]
  BY <1>0
<1>2. s \in Slots /\ avail \cap busy = {} /\ s \notin busy
  BY <1>0, <1>1 DEF Available, SlotsPlaced
<1>3. UNCHANGED <<chain, count, lock, pc, hand, at, failed>>
  BY DEF Alloc
<1>4. FirstUnfreed' = FirstUnfreed
  BY <1>3 DEF FirstUnfreed
<1>5. \A x \in Slots : /\ InHand(x)' <=> InHand(x)
                       /\ InChain(x)' <=> InChain(x)
                       /\ Referenced(x)' <=> Referenced(x) \/ x = s
  BY <1>1, <1>2, <1>3, <1>4 DEF InHand, InChain, Referenced, Holds, TypeOK
<1>6. TypeOK'
  BY <1>1, <1>2, <1>3 DEF TypeOK
<1>7. SlotsPlaced'
  <2>1. ~Referenced(s) /\ ~InHand(s) /\ ~InChain(s)
    BY <1>2 DEF SlotsPlaced
  <2>2. (free \cap busy = {})'
    BY <1>1, <1>2
  <2> QED
    BY <1>1, <1>2, <1>3, <1>4, <1>5, <2>1, <2>2 DEF SlotsPlaced
<1>8. BitsFollow'
  <2>1. ~InHand(s) /\ ~InChain(s)
    BY <1>2 DEF SlotsPlaced
  <2> QED
    BY <1>1, <1>2, <1>5, <2>1 DEF BitsFollow, TypeOK
<1>9. AssertsHold' /\ LockFollows' /\ OwnerRecycles' /\ HandsDiffer' /\ CountFollows' /\ BacklogStays'
  BY <1>3
  DEF AssertsHold, LockFollows, OwnerRecycles, HandsDiffer, CountFollows, BacklogStays, Holds
<1> QED
  BY <1>6, <1>7, <1>8, <1>9

(* Another reference to a slot in use.                                     *)
LEMMA AddRefInv == ASSUME NEW s \in Slots PROVE IInv /\ AddRef(s) => IInv'
<1> SUFFICES ASSUME IInv, AddRef(s) PROVE IInv'
  OBVIOUS
<1> USE DEF IInv
<1>1. UNCHANGED <<free, busy, protect, chain, count, lock, pc, hand, at, failed>>
  BY DEF AddRef
<1>2. /\ refcnt' = [refcnt EXCEPT ![s] = refcnt[s] + 1]
      /\ refcnt[s] > 0
  BY AllocatorAssumption DEF AddRef, TypeOK
<1>3. TypeOK'
  BY <1>1, <1>2 DEF TypeOK
<1>4. FirstUnfreed' = FirstUnfreed
  BY <1>1 DEF FirstUnfreed
<1>5. \A x \in Slots : /\ InHand(x)' <=> InHand(x)
                       /\ InChain(x)' <=> InChain(x)
                       /\ Referenced(x)' <=> Referenced(x)
  BY <1>1, <1>2, <1>4 DEF InHand, InChain, Referenced, Holds, TypeOK
<1>6. SlotsPlaced' /\ BitsFollow'
  BY <1>1, <1>4, <1>5 DEF SlotsPlaced, BitsFollow
<1>7. AssertsHold' /\ LockFollows' /\ OwnerRecycles' /\ HandsDiffer' /\ CountFollows' /\ BacklogStays'
  BY <1>1
  DEF AssertsHold, LockFollows, OwnerRecycles, HandsDiffer, CountFollows, BacklogStays, Holds
<1> QED
  BY <1>3, <1>6, <1>7

-----------------------------------------------------------------------------
(* Where Recycle stands in the chain moves only when the owner recycles.   *)
LEMMA FirstUnfreedStays ==
    ASSUME NEW t \in Threads, NEW v, TypeOK,
           pc' = [pc EXCEPT ![t] = v], at' = at,
           pc[t] \notin Recycling, v \notin Recycling
    PROVE  FirstUnfreed' = FirstUnfreed
<1>1. CASE t = Owner
  <2>1. pc'[Owner] \notin Recycling /\ pc[Owner] \notin Recycling
    BY <1>1 DEF TypeOK
  <2> QED
    BY <2>1 DEF FirstUnfreed, Recycling
<1>2. CASE t # Owner
  <2>1. pc'[Owner] = pc[Owner]
    BY <1>2, Constants DEF TypeOK
  <2> QED
    BY <2>1 DEF FirstUnfreed
<1> QED
  BY <1>1, <1>2

(* A thread that appends holds the lock alone.                             *)
LEMMA AloneInAppend ==
    ASSUME IInv, NEW t \in Threads, NEW u \in Threads,
           pc[t] \in Appending, pc[u] \in Appending
    PROVE  t = u /\ lock = t
BY DEF IInv, LockFollows

(* While Recycle is at work the items of the first segment are written.    *)
LEMMA SegmentWritten ==
    ASSUME IInv, pc[Owner] \in Recycling
    PROVE  Len(chain) \in Nat /\ N <= Len(chain) /\ (lock = NoThread => N < Len(chain))
<1> USE DEF IInv
<1>1. count \in Nat /\ Len(chain) \in Nat /\ count > N
  BY DEF TypeOK, BacklogStays
<1>2. CASE lock = NoThread
  BY <1>1, <1>2, Constants DEF CountFollows
<1>3. CASE lock # NoThread
  <2>1. lock \in Threads /\ pc[lock] \in Appending
    BY <1>3 DEF TypeOK, LockFollows
  <2> QED
    BY <1>1, <1>3, <2>1, Constants DEF CountFollows, Appending
<1> QED
  BY <1>2, <1>3

(* Recycle does not stand behind the place of the next item.               *)
LEMMA FirstUnfreedType ==
    ASSUME IInv
    PROVE  FirstUnfreed \in Nat /\ 0 < FirstUnfreed /\ FirstUnfreed <= Len(chain) + 1
<1>1. CASE pc[Owner] \in Recycling
  BY <1>1, SegmentWritten, Constants DEF FirstUnfreed, Recycling, IInv, TypeOK
<1>2. CASE pc[Owner] \notin Recycling
  BY <1>2 DEF FirstUnfreed, Recycling, IInv, TypeOK
<1> QED
  BY <1>1, <1>2

-----------------------------------------------------------------------------
(* The last reference goes: the slot is now in the thread's hand.          *)
LEMMA DecRefInv == ASSUME NEW t \in Threads, NEW s \in Slots PROVE IInv /\ DecRef(t, s) => IInv'
<1> SUFFICES ASSUME IInv, DecRef(t, s) PROVE IInv'
  OBVIOUS
<1> USE DEF IInv
<1>1. /\ pc[t] = "idle" /\ refcnt[s] > 0 /\ refcnt[s] \in Nat
      /\ refcnt' = [refcnt EXCEPT ![s] = refcnt[s] - 1]
      /\ UNCHANGED <<free, busy, chain, count, lock, at>>
  BY DEF DecRef, TypeOK
<1>2. CASE refcnt[s] # 1
  <2>1. UNCHANGED <<protect, pc, hand, failed>>
    BY <1>2 DEF DecRef
  <2>2. TypeOK'
    BY <1>1, <2>1 DEF TypeOK
  <2>3. FirstUnfreed' = FirstUnfreed
    BY <1>1, <2>1 DEF FirstUnfreed
  <2>4. \A x \in Slots : /\ InHand(x)' <=> InHand(x)
                         /\ InChain(x)' <=> InChain(x)
                         /\ Referenced(x)' <=> Referenced(x)
    BY <1>1, <1>2, <2>1, <2>3 DEF InHand, InChain, Referenced, Holds, TypeOK
  <2>5. SlotsPlaced' /\ BitsFollow'
    BY <1>1, <2>1, <2>3, <2>4 DEF SlotsPlaced, BitsFollow
  <2> QED
    BY <1>1, <2>1, <2>2, <2>5
    DEF AssertsHold, LockFollows, OwnerRecycles, HandsDiffer, CountFollows, BacklogStays, Holds
<1>3. CASE refcnt[s] = 1
  <2>1. /\ protect' = [protect EXCEPT ![s] = "freed"]
        /\ pc' = [pc EXCEPT ![t] = "lock"]
        /\ hand' = [hand EXCEPT ![t] = s]
        /\ failed' = (protect[s] # "held")
    BY <1>3 DEF DecRef
  <2>2. ~failed'
    BY <1>1, <2>1 DEF BitsFollow, Referenced
  <2>3. TypeOK'
    BY <1>1, <1>3, <2>1 DEF TypeOK
  <2>4. FirstUnfreed' = FirstUnfreed
    BY <1>1, <2>1, FirstUnfreedStays DEF Recycling
  <2>5. Referenced(s) /\ ~InHand(s) /\ ~InChain(s)
    BY <1>1 DEF Referenced, SlotsPlaced
  <2>6. \A u \in Threads : /\ Holds(u)' <=> Holds(u) \/ u = t
                           /\ u # t => hand'[u] = hand[u] /\ pc'[u] = pc[u]
        /\ hand'[t] = s /\ ~Holds(t)
    BY <1>1, <2>1 DEF Holds, TypeOK
  <2>7. \A x \in Slots : /\ InHand(x)' <=> InHand(x) \/ x = s
                         /\ InChain(x)' <=> InChain(x)
                         /\ Referenced(x)' <=> Referenced(x) /\ x # s
    <3>1. \A x \in Slots : InHand(x)' <=> InHand(x) \/ x = s
      BY <2>6 DEF InHand
    <3>2. \A x \in Slots : InChain(x)' <=> InChain(x)
      BY <1>1, <2>4 DEF InChain
    <3>3. \A x \in Slots : Referenced(x)' <=> Referenced(x) /\ x # s
      BY <1>1, <1>3 DEF Referenced, TypeOK
    <3> QED
      BY <3>1, <3>2, <3>3
  <2>8. SlotsPlaced'
    BY <1>1, <2>4, <2>5, <2>7 DEF SlotsPlaced
  <2>9. BitsFollow'
    BY <2>1, <2>5, <2>7 DEF BitsFollow, TypeOK
  <2>10. HandsDiffer'
    BY <2>5, <2>6 DEF HandsDiffer, InHand
  <2>11. LockFollows' /\ OwnerRecycles' /\ CountFollows'
    BY <1>1, <2>1 DEF LockFollows, OwnerRecycles, CountFollows, Appending, Recycling, TypeOK
  <2>12. BacklogStays'
    BY <1>1, <2>1, Constants DEF BacklogStays, Recycling, TypeOK
  <2> QED
    BY <2>2, <2>3, <2>8, <2>9, <2>10, <2>11, <2>12 DEF AssertsHold
<1> QED
  BY <1>2, <1>3

-----------------------------------------------------------------------------
(* The lock is taken by a thread when nobody appends.                      *)
LEMMA LockInv == ASSUME NEW t \in Threads PROVE IInv /\ Lock(t) => IInv'
<1> SUFFICES ASSUME IInv, Lock(t) PROVE IInv'
  OBVIOUS
<1> USE DEF IInv
<1>1. /\ pc[t] = "lock" /\ lock = NoThread /\ lock' = t
      /\ pc' = [pc EXCEPT ![t] = "append"]
      /\ UNCHANGED <<free, busy, refcnt, protect, chain, count, hand, at, failed>>
  BY DEF Lock
<1>2. TypeOK'
  BY <1>1 DEF TypeOK, Appending
<1>3. FirstUnfreed' = FirstUnfreed
  BY <1>1, FirstUnfreedStays DEF Recycling
<1>4. \A u \in Threads : Holds(u)' <=> Holds(u)
  BY <1>1 DEF Holds, TypeOK
<1>5. \A x \in Slots : /\ InHand(x)' <=> InHand(x)
                       /\ InChain(x)' <=> InChain(x)
                       /\ Referenced(x)' <=> Referenced(x)
  BY <1>1, <1>3, <1>4 DEF InHand, InChain, Referenced
<1>6. SlotsPlaced' /\ BitsFollow' /\ HandsDiffer'
  BY <1>1, <1>3, <1>4, <1>5 DEF SlotsPlaced, BitsFollow, HandsDiffer
<1>7. LockFollows'
  BY <1>1, Constants DEF LockFollows, Appending, TypeOK
<1>8. OwnerRecycles' /\ BacklogStays'
  BY <1>1, Constants DEF OwnerRecycles, BacklogStays, Recycling, TypeOK
<1>9. CountFollows'
  BY <1>1, Constants DEF CountFollows, LockFollows, Appending, TypeOK
<1> QED
  BY <1>1, <1>2, <1>6, <1>7, <1>8, <1>9 DEF AssertsHold

(* The item joins the chain at its end, and leaves the hand.               *)
LEMMA StoreItemInv == ASSUME NEW t \in Threads PROVE IInv /\ StoreItem(t) => IInv'
<1> SUFFICES ASSUME IInv, StoreItem(t) PROVE IInv'
  OBVIOUS
<1> USE DEF IInv
<1> DEFINE h == hand[t]
<1>1. /\ pc[t] \in {"append", "counted"}
      /\ chain' = Append(chain, h)
      /\ pc' = [pc EXCEPT ![t] = IF pc[t] = "append" THEN "stored" ELSE "unlock"]
      /\ UNCHANGED <<free, busy, refcnt, protect, count, lock, hand, at, failed>>
  BY DEF StoreItem
<1>2. h \in Slots /\ Holds(t) /\ lock = t /\ InHand(h)
  BY <1>1 DEF HandsDiffer, Holds, LockFollows, Appending, InHand
<1>3. ~Referenced(h) /\ ~InChain(h) /\ protect[h] = "freed" /\ h \in busy
  BY <1>2 DEF SlotsPlaced, BitsFollow
<1>4. /\ Len(chain) \in Nat /\ Len(chain') = Len(chain) + 1
      /\ chain'[Len(chain) + 1] = h
      /\ \A i \in 1..Len(chain) : chain'[i] = chain[i]
  BY <1>1, <1>2 DEF TypeOK
<1>5. TypeOK'
  <2>1. chain' \in Seq(Slots)
    BY <1>1, <1>2 DEF TypeOK
  <2> QED
    BY <1>1, <2>1 DEF TypeOK, Appending
<1>6. FirstUnfreed' = FirstUnfreed
  BY <1>1, FirstUnfreedStays DEF Recycling
<1>7. FirstUnfreed \in Nat /\ 0 < FirstUnfreed /\ FirstUnfreed <= Len(chain) + 1
  BY FirstUnfreedType
<1>8. \A u \in Threads : Holds(u)' <=> Holds(u) /\ u # t
  BY <1>1 DEF Holds, TypeOK
<1>9. \A x \in Slots : InHand(x)' <=> InHand(x) /\ x # h
  BY <1>1, <1>2, <1>8 DEF InHand, HandsDiffer
<1>10. \A x \in Slots : InChain(x)' <=> InChain(x) \/ x = h
  BY <1>4, <1>6, <1>7 DEF InChain
<1>11. \A x \in Slots : Referenced(x)' <=> Referenced(x)
  BY <1>1 DEF Referenced
<1>12. SlotsPlaced'
  <2>1. \A i, j \in FirstUnfreed..Len(chain') : chain'[i] = chain'[j] => i = j
    <3> SUFFICES ASSUME NEW i \in FirstUnfreed..Len(chain'), NEW j \in FirstUnfreed..Len(chain'),
                        chain'[i] = chain'[j]
                 PROVE  i = j
      OBVIOUS
    <3>1. \A k \in FirstUnfreed..Len(chain) : chain[k] # h /\ chain'[k] = chain[k]
      BY <1>3, <1>4, <1>7 DEF InChain
    <3>2. CASE i \in FirstUnfreed..Len(chain) /\ j \in FirstUnfreed..Len(chain)
      BY <3>1, <3>2 DEF SlotsPlaced
    <3>3. CASE i = Len(chain) + 1
      BY <1>4, <1>7, <3>1, <3>3
    <3>4. CASE j = Len(chain) + 1
      BY <1>4, <1>7, <3>1, <3>4
    <3> QED
      BY <1>4, <1>7, <3>2, <3>3, <3>4
  <2>2. (free \cap busy = {})'
    BY <1>1 DEF SlotsPlaced
  <2>3. \A x \in Slots :
          /\ (x \in busy)' <=> Referenced(x)' \/ InHand(x)' \/ InChain(x)'
          /\ ~(Referenced(x)' /\ InHand(x)')
          /\ ~(Referenced(x)' /\ InChain(x)')
          /\ ~(InHand(x)' /\ InChain(x)')
    BY <1>1, <1>2, <1>3, <1>9, <1>10, <1>11 DEF SlotsPlaced
  <2> QED
    BY <1>6, <2>1, <2>2, <2>3 DEF SlotsPlaced
<1>13. BitsFollow'
  BY <1>1, <1>3, <1>9, <1>10, <1>11 DEF BitsFollow
<1>14. HandsDiffer'
  BY <1>1, <1>8 DEF HandsDiffer
<1>15. LockFollows' /\ OwnerRecycles'
  BY <1>1 DEF LockFollows, OwnerRecycles, Appending, Recycling, TypeOK
<1>16. BacklogStays'
  BY <1>1, Constants DEF BacklogStays, Recycling, TypeOK
<1>17. CountFollows'
  <2>1. \A u \in Threads : u # t => pc'[u] \notin Appending
    BY <1>1, <1>2 DEF LockFollows, TypeOK
  <2>2. pc'[t] = IF pc[t] = "append" THEN "stored" ELSE "unlock"
    BY <1>1 DEF TypeOK
  <2>3. /\ pc[t] = "append" => count = Len(chain)
        /\ pc[t] = "counted" => count = Len(chain) + 1
        /\ count \in Nat
    BY DEF CountFollows, TypeOK
  <2>4. lock' # NoThread
    BY <1>1, <1>2, Constants
  <2> QED
    BY <1>1, <1>4, <2>1, <2>2, <2>3, <2>4 DEF CountFollows, Appending
<1> QED
  BY <1>1, <1>5, <1>12, <1>13, <1>14, <1>15, <1>16, <1>17 DEF AssertsHold

(* The count takes the item in.                                            *)
LEMMA StoreCountInv == ASSUME NEW t \in Threads PROVE IInv /\ StoreCount(t) => IInv'
<1> SUFFICES ASSUME IInv, StoreCount(t) PROVE IInv'
  OBVIOUS
<1> USE DEF IInv
<1>1. /\ pc[t] \in {"append", "stored"}
      /\ count' = count + 1
      /\ pc' = [pc EXCEPT ![t] = IF pc[t] = "append" THEN "counted" ELSE "unlock"]
      /\ UNCHANGED <<free, busy, refcnt, protect, chain, lock, hand, at, failed>>
  BY DEF StoreCount
<1>2. TypeOK'
  BY <1>1 DEF TypeOK, Appending
<1>3. FirstUnfreed' = FirstUnfreed
  BY <1>1, FirstUnfreedStays DEF Recycling
<1>4. \A u \in Threads : Holds(u)' <=> Holds(u)
  BY <1>1 DEF Holds, TypeOK
<1>5. \A x \in Slots : /\ InHand(x)' <=> InHand(x)
                       /\ InChain(x)' <=> InChain(x)
                       /\ Referenced(x)' <=> Referenced(x)
  BY <1>1, <1>3, <1>4 DEF InHand, InChain, Referenced
<1>6. SlotsPlaced' /\ BitsFollow' /\ HandsDiffer'
  BY <1>1, <1>3, <1>4, <1>5 DEF SlotsPlaced, BitsFollow, HandsDiffer
<1>7. LockFollows' /\ OwnerRecycles'
  BY <1>1 DEF LockFollows, OwnerRecycles, Appending, Recycling, TypeOK
<1>8. BacklogStays'
  BY <1>1, Constants DEF BacklogStays, Recycling, TypeOK
<1>9. CountFollows'
  <2>1. lock = t /\ \A u \in Threads : u # t => pc'[u] \notin Appending
    BY <1>1 DEF LockFollows, TypeOK, Appending
  <2>2. pc'[t] = IF pc[t] = "append" THEN "counted" ELSE "unlock"
    BY <1>1 DEF TypeOK
  <2>3. /\ pc[t] = "append" => count = Len(chain)
        /\ pc[t] = "stored" => count + 1 = Len(chain)
        /\ count \in Nat
    BY DEF CountFollows, TypeOK
  <2>4. lock' # NoThread
    BY <1>1, <2>1, Constants
  <2> QED
    BY <1>1, <2>1, <2>2, <2>3, <2>4 DEF CountFollows, Appending
<1> QED
  BY <1>1, <1>2, <1>6, <1>7, <1>8, <1>9 DEF AssertsHold

(* The lock is free again, and the items are counted.                      *)
LEMMA UnlockInv == ASSUME NEW t \in Threads PROVE IInv /\ Unlock(t) => IInv'
<1> SUFFICES ASSUME IInv, Unlock(t) PROVE IInv'
  OBVIOUS
<1> USE DEF IInv
<1>1. /\ pc[t] = "unlock" /\ lock' = NoThread
      /\ pc' = [pc EXCEPT ![t] = "idle"]
      /\ hand' = [hand EXCEPT ![t] = NoSlot]
      /\ UNCHANGED <<free, busy, refcnt, protect, chain, count, at, failed>>
  BY DEF Unlock
<1>2. TypeOK'
  BY <1>1 DEF TypeOK
<1>3. FirstUnfreed' = FirstUnfreed
  BY <1>1, FirstUnfreedStays DEF Recycling
<1>4. \A u \in Threads : /\ Holds(u)' <=> Holds(u)
                         /\ Holds(u) => hand'[u] = hand[u]
  BY <1>1 DEF Holds, TypeOK
<1>5. \A x \in Slots : /\ InHand(x)' <=> InHand(x)
                       /\ InChain(x)' <=> InChain(x)
                       /\ Referenced(x)' <=> Referenced(x)
  BY <1>1, <1>3, <1>4 DEF InHand, InChain, Referenced
<1>6. SlotsPlaced' /\ BitsFollow' /\ HandsDiffer'
  BY <1>1, <1>3, <1>4, <1>5 DEF SlotsPlaced, BitsFollow, HandsDiffer
<1>7. lock = t /\ \A u \in Threads : pc'[u] \notin Appending
  BY <1>1 DEF LockFollows, TypeOK, Appending
<1>8. LockFollows' /\ CountFollows'
  BY <1>1, <1>7, Constants DEF LockFollows, CountFollows, Appending
<1>9. OwnerRecycles' /\ BacklogStays'
  BY <1>1, Constants DEF OwnerRecycles, BacklogStays, Recycling, TypeOK
<1> QED
  BY <1>1, <1>2, <1>6, <1>8, <1>9 DEF AssertsHold

-----------------------------------------------------------------------------
(* Recycle starts at the first item.                                       *)
LEMMA RecycleInv == IInv /\ Recycle => IInv'
<1> SUFFICES ASSUME IInv, Recycle PROVE IInv'
  OBVIOUS
<1> USE DEF IInv
<1>1. /\ pc[Owner] = "idle" /\ count > N /\ at' = 1
      /\ pc' = [pc EXCEPT ![Owner] = "free"]
      /\ UNCHANGED <<free, busy, refcnt, protect, chain, count, lock, hand, failed>>
  BY DEF Recycle
<1>2. TypeOK'
  BY <1>1, Constants DEF TypeOK, Recycling
<1>3. FirstUnfreed = 1 /\ FirstUnfreed' = 1
  BY <1>1, Constants DEF FirstUnfreed, TypeOK
<1>4. \A u \in Threads : Holds(u)' <=> Holds(u)
  BY <1>1 DEF Holds, TypeOK
<1>5. \A x \in Slots : /\ InHand(x)' <=> InHand(x)
                       /\ InChain(x)' <=> InChain(x)
                       /\ Referenced(x)' <=> Referenced(x)
  BY <1>1, <1>3, <1>4 DEF InHand, InChain, Referenced
<1>6. SlotsPlaced' /\ BitsFollow' /\ HandsDiffer'
  BY <1>1, <1>3, <1>4, <1>5 DEF SlotsPlaced, BitsFollow, HandsDiffer
<1>7. LockFollows' /\ OwnerRecycles' /\ CountFollows'
  BY <1>1 DEF LockFollows, OwnerRecycles, CountFollows, Appending, Recycling, TypeOK
<1>8. BacklogStays'
  BY <1>1 DEF BacklogStays
<1> QED
  BY <1>1, <1>2, <1>6, <1>7, <1>8 DEF AssertsHold

(* The item freed is written, released and busy, and Recycle moves past it. *)
LEMMA FreeItemInv == IInv /\ FreeItem => IInv'
<1> SUFFICES ASSUME IInv, FreeItem PROVE IInv'
  OBVIOUS
<1> USE DEF IInv
<1> DEFINE s == chain[at]
<1>1. /\ pc[Owner] = "free"
      /\ at' = (IF at = N THEN 1 ELSE at + 1)
      /\ pc' = [pc EXCEPT ![Owner] = IF at = N THEN "remove" ELSE "free"]
      /\ UNCHANGED <<refcnt, protect, chain, count, lock, hand>>
  BY DEF FreeItem
<1>2. Len(chain) \in Nat /\ N <= Len(chain) /\ at \in 1..N /\ at <= Len(chain)
  BY <1>1, SegmentWritten, Constants DEF Recycling, TypeOK
<1>3. FirstUnfreed = at /\ FirstUnfreed' = at + 1
  BY <1>1, <1>2, Constants DEF FirstUnfreed, TypeOK
<1>4. s \in Slots /\ InChain(s)
  BY <1>2, <1>3 DEF InChain, TypeOK
<1>5. ~Referenced(s) /\ ~InHand(s) /\ s \in busy /\ protect[s] = "freed" /\ refcnt[s] = 0
  BY <1>4 DEF SlotsPlaced, BitsFollow, Referenced, TypeOK
<1>6. free' = free \cup {s} /\ busy' = busy \ {s} /\ UNCHANGED failed
  BY <1>2, <1>5 DEF FreeItem, MayFree
<1>7. TypeOK'
  BY <1>1, <1>2, <1>4, <1>6, Constants DEF TypeOK, Recycling
<1>8. \A u \in Threads : Holds(u)' <=> Holds(u)
  BY <1>1 DEF Holds, TypeOK
<1>9. \A x \in Slots : /\ InHand(x)' <=> InHand(x)
                       /\ Referenced(x)' <=> Referenced(x)
  BY <1>1, <1>8 DEF InHand, Referenced
<1>10. \A x \in Slots : InChain(x)' <=> InChain(x) /\ x # s
  <2>1. \A i \in (at + 1)..Len(chain) : chain[i] # s
    BY <1>2, <1>3 DEF SlotsPlaced
  <2> QED
    BY <1>1, <1>2, <1>3, <2>1 DEF InChain
<1>11. SlotsPlaced'
  <2>1. (free \cap busy = {})'
    BY <1>6 DEF SlotsPlaced
  <2>2. \A i, j \in (at + 1)..Len(chain) : chain[i] = chain[j] => i = j
    BY <1>2, <1>3 DEF SlotsPlaced
  <2> QED
    BY <1>1, <1>3, <1>5, <1>6, <1>9, <1>10, <2>1, <2>2 DEF SlotsPlaced
<1>12. BitsFollow'
  BY <1>1, <1>9, <1>10 DEF BitsFollow
<1>13. HandsDiffer'
  BY <1>1, <1>8 DEF HandsDiffer
<1>14. LockFollows' /\ OwnerRecycles' /\ CountFollows'
  BY <1>1 DEF LockFollows, OwnerRecycles, CountFollows, Appending, Recycling, TypeOK
<1>15. BacklogStays'
  BY <1>1 DEF BacklogStays, Recycling
<1> QED
  BY <1>6, <1>7, <1>11, <1>12, <1>13, <1>14, <1>15 DEF AssertsHold

(* The segment removed is the one that was freed.                          *)
LEMMA RemoveSegmentInv == IInv /\ RemoveSegment => IInv'
<1> SUFFICES ASSUME IInv, RemoveSegment PROVE IInv'
  OBVIOUS
<1> USE DEF IInv
<1>1. /\ pc[Owner] = "remove" /\ lock = NoThread
      /\ pc' = [pc EXCEPT ![Owner] = "idle"]
      /\ UNCHANGED <<free, busy, refcnt, protect, lock, hand, at, failed>>
  BY DEF RemoveSegment
<1>2. Len(chain) \in Nat /\ N < Len(chain) /\ count = Len(chain)
  BY <1>1, SegmentWritten DEF Recycling, CountFollows
<1>3. chain' = SubSeq(chain, N + 1, Len(chain)) /\ count' = count - N
  BY <1>2, Constants DEF RemoveSegment
<1>4. /\ chain' \in Seq(Slots)
      /\ Len(chain') = Len(chain) - N
      /\ \A i \in 1..Len(chain') : chain'[i] = chain[N + i]
  BY <1>2, <1>3, Constants DEF TypeOK
<1>5. TypeOK'
  BY <1>1, <1>2, <1>3, <1>4, Constants DEF TypeOK
<1>6. FirstUnfreed = N + 1 /\ FirstUnfreed' = 1
  BY <1>1, Constants DEF FirstUnfreed, TypeOK
<1>7. \A u \in Threads : Holds(u)' <=> Holds(u)
  BY <1>1 DEF Holds, TypeOK
<1>8. \A x \in Slots : /\ InHand(x)' <=> InHand(x)
                       /\ Referenced(x)' <=> Referenced(x)
  BY <1>1, <1>7 DEF InHand, Referenced
<1>9. \A x \in Slots : InChain(x)' <=> InChain(x)
  <2> SUFFICES ASSUME NEW x \in Slots PROVE InChain(x)' <=> InChain(x)
    OBVIOUS
  <2>1. ASSUME NEW i \in (N + 1)..Len(chain), chain[i] = x PROVE InChain(x)'
    <3>1. i - N \in 1..Len(chain') /\ chain'[i - N] = x
      BY <1>2, <1>4, <2>1, Constants
    <3> QED
      BY <1>6, <3>1 DEF InChain
  <2>2. ASSUME NEW i \in 1..Len(chain'), chain'[i] = x PROVE InChain(x)
    <3>1. N + i \in (N + 1)..Len(chain) /\ chain[N + i] = x
      BY <1>2, <1>4, <2>2, Constants
    <3> QED
      BY <1>6, <3>1 DEF InChain
  <2> QED
    BY <1>6, <2>1, <2>2 DEF InChain
<1>10. SlotsPlaced'
  <2>1. \A i, j \in 1..Len(chain') : chain'[i] = chain'[j] => i = j
    <3> SUFFICES ASSUME NEW i \in 1..Len(chain'), NEW j \in 1..Len(chain'), chain'[i] = chain'[j]
                 PROVE  i = j
      OBVIOUS
    <3>1. /\ N + i \in (N + 1)..Len(chain) /\ N + j \in (N + 1)..Len(chain)
          /\ chain[N + i] = chain[N + j]
      BY <1>2, <1>4, Constants
    <3>2. N + i = N + j
      BY <1>6, <3>1 DEF SlotsPlaced
    <3> QED
      BY <3>2, Constants
  <2> QED
    BY <1>1, <1>6, <1>8, <1>9, <2>1 DEF SlotsPlaced
<1>11. BitsFollow'
  BY <1>1, <1>8, <1>9 DEF BitsFollow
<1>12. HandsDiffer'
  BY <1>1, <1>7 DEF HandsDiffer
<1>13. LockFollows' /\ OwnerRecycles'
  BY <1>1 DEF LockFollows, OwnerRecycles, Appending, Recycling, TypeOK
<1>15. BacklogStays'
  BY <1>1, Constants DEF BacklogStays, Recycling, TypeOK
<1>14. CountFollows'
  BY <1>1, <1>2, <1>3, <1>4, Constants
  DEF CountFollows, LockFollows, Appending, TypeOK
<1> QED
  BY <1>1, <1>5, <1>10, <1>11, <1>12, <1>13, <1>14, <1>15 DEF AssertsHold

-----------------------------------------------------------------------------
(* Every step keeps the invariant.                                         *)
LEMMA NextInv == IInv /\ [Next]_vars => IInv'
<1> SUFFICES ASSUME IInv, [Next]_vars PROVE IInv'
  OBVIOUS
<1>1. CASE UNCHANGED vars
  <2> USE <1>1 DEF vars, IInv
  <2>1. TypeOK' /\ AssertsHold'
    BY Zenon DEF TypeOK, AssertsHold
  <2>2. FirstUnfreed' = FirstUnfreed /\ \A t \in Threads : Holds(t)' <=> Holds(t)
    BY DEF FirstUnfreed, Holds
  <2>3. \A s \in Slots : /\ InHand(s)' <=> InHand(s)
                         /\ InChain(s)' <=> InChain(s)
                         /\ Referenced(s)' <=> Referenced(s)
    BY <2>2 DEF InHand, InChain, Referenced
  <2>4. SlotsPlaced' /\ BitsFollow' /\ HandsDiffer'
    BY <2>2, <2>3 DEF SlotsPlaced, BitsFollow, HandsDiffer
  <2>5. LockFollows' /\ OwnerRecycles' /\ CountFollows' /\ BacklogStays'
    BY Zenon DEF LockFollows, OwnerRecycles, CountFollows, BacklogStays
  <2> QED
    BY <2>1, <2>4, <2>5
<1>2. CASE Alloc \/ Recycle \/ FreeItem \/ RemoveSegment
  BY <1>2, AllocInv, RecycleInv, FreeItemInv, RemoveSegmentInv
<1>3. CASE \E s \in Slots : AddRef(s)
  BY <1>3, AddRefInv
<1>4. CASE \E t \in Threads, s \in Slots : DecRef(t, s)
  BY <1>4, DecRefInv
<1>5. CASE \E t \in Threads : Append1(t)
  BY <1>5, LockInv, StoreItemInv, StoreCountInv, UnlockInv DEF Append1
<1> QED
  BY <1>1, <1>2, <1>3, <1>4, <1>5 DEF Next

(* The inductive invariant.                                                *)
THEOREM InvHolds == Spec => []IInv
<1> QED
  BY InitInv, NextInv, PTL DEF Spec

(* Every variable keeps its type, whatever the order of the stores.        *)
THEOREM TypeHolds == Spec => []TypeOK
<1>1. IInv => TypeOK
  BY DEF IInv
<1> QED
  BY <1>1, InvHolds, PTL

(* DecRef and Recycle lose no buffer, and free none that is in use or      *)
(* free already.                                                           *)
THEOREM SlotsStayPlaced == Spec => []SlotsPlaced
<1>1. IInv => SlotsPlaced
  BY DEF IInv
<1> QED
  BY <1>1, InvHolds, PTL

(* No assertion of the allocator fails, and Recycle needs no lock to read  *)
(* the first segment.                                                      *)
THEOREM AssertsNeverFail == Spec => []AssertsHold
<1>1. IInv => AssertsHold
  BY DEF IInv
<1> QED
  BY <1>1, InvHolds, PTL
-----------------------------------------------------------------------------
(* The allocator implements the pool of buffers.                           *)

(* The items of a sequence from one of them on.                            *)
From(s, f) == SubSeq(s, f, Len(s))

(* Their number and what they are.                                         *)
LEMMA FromItems ==
    ASSUME NEW S, NEW s \in Seq(S), NEW f \in Nat, 0 < f, f <= Len(s) + 1
    PROVE  /\ From(s, f) \in Seq(S) /\ Len(s) \in Nat /\ Len(From(s, f)) = Len(s) - f + 1
           /\ \A i \in 1 .. Len(s) - f + 1 : From(s, f)[i] = s[f + i - 1]
<1>1. Len(s) \in Nat /\ \A i \in 1 .. Len(s) : s[i] \in S
  BY ElementOfSeq
<1>2. \A i \in f .. Len(s) : s[i] \in S
  BY <1>1
<1> DEFINE m == Len(s)
<1>3. m \in Int /\ f \in Int
  BY <1>1
<1>4. /\ SubSeq(s, f, m) \in Seq(S)
      /\ Len(SubSeq(s, f, m)) = IF f <= m THEN m - f + 1 ELSE 0
      /\ \A i \in 1 .. m - f + 1 : SubSeq(s, f, m)[i] = s[f + i - 1]
  BY <1>2, <1>3, SubSeqProperties
<1>5. (IF f <= m THEN m - f + 1 ELSE 0) = m - f + 1
  BY <1>1
<1> QED
  BY <1>1, <1>4, <1>5 DEF From

(* One more at the end.                                                    *)
LEMMA FromAppend ==
    ASSUME NEW S, NEW s \in Seq(S), NEW f \in Nat, 0 < f, f <= Len(s) + 1, NEW e \in S
    PROVE  From(Append(s, e), f) = Append(From(s, f), e)
<1> DEFINE t == Append(s, e)
           a == From(t, f)
           b == Append(From(s, f), e)
           n == Len(s) - f + 1
<1>1. /\ t \in Seq(S) /\ Len(s) \in Nat /\ Len(t) = Len(s) + 1
      /\ \A i \in 1 .. Len(s) : t[i] = s[i]
      /\ t[Len(s) + 1] = e
  BY AppendProperties
<1>2. /\ From(s, f) \in Seq(S) /\ Len(From(s, f)) = n
      /\ \A i \in 1 .. n : From(s, f)[i] = s[f + i - 1]
  BY FromItems
<1>3. /\ b \in Seq(S) /\ Len(b) = n + 1 /\ b[n + 1] = e
      /\ \A i \in 1 .. n : b[i] = From(s, f)[i]
  <2> DEFINE r == From(s, f)
  <2>1. r \in Seq(S) /\ Len(r) = n
    BY <1>2
  <2> HIDE DEF r, n
  <2>2. /\ Append(r, e) \in Seq(S) /\ Len(Append(r, e)) = n + 1 /\ Append(r, e)[n + 1] = e
        /\ \A i \in 1 .. n : Append(r, e)[i] = r[i]
    BY <2>1, AppendProperties
  <2> QED
    BY <2>2 DEF r
<1> HIDE DEF t
<1>4. /\ a \in Seq(S) /\ Len(a) = Len(t) - f + 1
      /\ \A i \in 1 .. Len(t) - f + 1 : a[i] = t[f + i - 1]
  <2>1. t \in Seq(S) /\ f <= Len(t) + 1
    BY <1>1
  <2> QED
    BY <2>1, FromItems
<1> HIDE DEF a, b
<1>5. Len(t) - f + 1 = n + 1 /\ n \in Nat /\ f + (n + 1) - 1 = Len(s) + 1
  BY <1>1
<1>6. ASSUME NEW i \in 1 .. n + 1 PROVE a[i] = b[i]
  <2>1. CASE i = n + 1
    BY <1>1, <1>3, <1>4, <1>5, <2>1
  <2>2. CASE i # n + 1
    <3>1. i \in 1 .. n /\ f + i - 1 \in 1 .. Len(s) /\ i \in 1 .. Len(t) - f + 1
      BY <1>1, <1>5, <2>2
    <3> QED
      BY <1>1, <1>2, <1>3, <1>4, <3>1
  <2> QED
    BY <2>1, <2>2
<1>7. a = b
  BY <1>3, <1>4, <1>5, <1>6, SeqEqual
<1> QED
  BY <1>7 DEF a, b, t

(* One less at the front.                                                  *)
LEMMA FromNext ==
    ASSUME NEW S, NEW s \in Seq(S), NEW f \in Nat, 0 < f, f <= Len(s)
    PROVE  /\ From(s, f) # <<>> /\ Head(From(s, f)) = s[f]
           /\ From(s, f + 1) = Tail(From(s, f))
<1> DEFINE a == From(s, f)
           b == From(s, f + 1)
           n == Len(s) - f
<1>1. /\ a \in Seq(S) /\ Len(a) = n + 1 /\ n \in Nat /\ Len(s) \in Nat
      /\ \A i \in 1 .. n + 1 : a[i] = s[f + i - 1]
  <2>1. Len(s) \in Nat /\ f <= Len(s) + 1
    BY ElementOfSeq
  <2>2. /\ a \in Seq(S) /\ Len(a) = Len(s) - f + 1
        /\ \A i \in 1 .. Len(s) - f + 1 : a[i] = s[f + i - 1]
    BY <2>1, FromItems
  <2>3. Len(s) - f + 1 = n + 1 /\ n \in Nat
    BY <2>1
  <2> QED
    BY <2>1, <2>2, <2>3
<1>2. /\ b \in Seq(S) /\ Len(b) = n /\ \A i \in 1 .. n : b[i] = s[f + i]
  <2> DEFINE g == f + 1
  <2>1. g \in Nat /\ 0 < g /\ g <= Len(s) + 1
    BY <1>1
  <2> HIDE DEF g
  <2>2. /\ From(s, g) \in Seq(S) /\ Len(From(s, g)) = Len(s) - g + 1
        /\ \A i \in 1 .. Len(s) - g + 1 : From(s, g)[i] = s[g + i - 1]
    BY <2>1, FromItems
  <2>3. Len(s) - g + 1 = n /\ \A i \in 1 .. n : g + i - 1 = f + i
    BY <1>1 DEF g
  <2> QED
    BY <2>2, <2>3 DEF g
<1> HIDE DEF a, b, n
<1>3. a # <<>>
  BY <1>1, EmptySeq
<1>4. /\ Tail(a) \in Seq(S) /\ Len(Tail(a)) = n
      /\ \A i \in 1 .. n : Tail(a)[i] = a[i + 1]
  BY <1>1, <1>3, HeadTailProperties
<1>5. \A i \in 1 .. n : b[i] = Tail(a)[i]
  <2>1. \A i \in 1 .. n : i + 1 \in 1 .. n + 1 /\ f + (i + 1) - 1 = f + i
    BY <1>1
  <2> QED
    BY <1>1, <1>2, <1>4, <2>1
<1>6. b = Tail(a)
  BY <1>2, <1>4, <1>5, SeqEqual
<1>7. Head(a) = a[1] /\ 1 \in 1 .. n + 1 /\ f + 1 - 1 = f
  BY <1>1, <1>3
<1>8. Head(a) = s[f]
  BY <1>1, <1>7
<1> QED
  BY <1>3, <1>6, <1>8 DEF a, b

(* All of them.                                                            *)
LEMMA FromFirst ==
    ASSUME NEW S, NEW s \in Seq(S) PROVE From(s, 1) = s
<1> DEFINE a == From(s, 1)
<1>1. Len(s) \in Nat
  BY ElementOfSeq
<1>2. /\ a \in Seq(S) /\ Len(a) = Len(s) - 1 + 1
      /\ \A i \in 1 .. Len(s) - 1 + 1 : a[i] = s[1 + i - 1]
  BY <1>1, FromItems
<1> HIDE DEF a
<1>3. Len(a) = Len(s) /\ \A i \in 1 .. Len(s) : a[i] = s[i]
  BY <1>1, <1>2
<1>4. a = s
  BY <1>2, <1>3, SeqEqual
<1> QED
  BY <1>4 DEF a

-----------------------------------------------------------------------------
(* The items not yet freed.                                                *)
Backlog == From(chain, FirstUnfreed)

(* Where they are the same and nothing else of the pool changed.           *)
LEMMA PoolStutters ==
    ASSUME UNCHANGED <<refcnt, busy, chain>>, FirstUnfreed' = FirstUnfreed
    PROVE  UNCHANGED Pool!vars
BY DEF Pool!vars

(* The pool is empty at first.                                             *)
LEMMA InitPool == Init => Pool!Init
<1> SUFFICES ASSUME Init PROVE Pool!Init
  OBVIOUS
<1>1. chain = <<>> /\ chain \in Seq(Slots) /\ FirstUnfreed = 1
  BY Constants DEF Init, FirstUnfreed
<1>2. Backlog = <<>>
  BY <1>1, FromFirst DEF Backlog
<1> QED
  BY <1>2 DEF Init, Pool!Init, Backlog, From

(* Alloc hands a buffer out that nobody has.                               *)
LEMMA AllocPool == IInv /\ Alloc => Pool!Next
<1> SUFFICES ASSUME IInv, Alloc PROVE Pool!Next
  OBVIOUS
<1>1. PICK avail \in SUBSET Slots : Available(avail) /\ \E s \in avail :
        /\ busy' = busy \cup {s}
        /\ refcnt' = [refcnt EXCEPT ![s] = 1]
  BY DEF Alloc
<1>2. PICK s \in avail : busy' = busy \cup {s} /\ refcnt' = [refcnt EXCEPT ![s] = 1]
  BY <1>1
<1>3. s \in Slots /\ s \notin busy
  BY <1>1, <1>2 DEF Available, IInv, SlotsPlaced
<1>4. refcnt[s] = 0
  BY <1>3 DEF IInv, SlotsPlaced, Referenced, TypeOK
<1>5. UNCHANGED SubSeq(chain, FirstUnfreed, Len(chain))
  BY DEF Alloc, FirstUnfreed
<1>6. Pool!HandOut(s)
  BY <1>2, <1>3, <1>4, <1>5 DEF Pool!HandOut
<1> QED
  BY <1>3, <1>6 DEF Pool!Next

(* The references.                                                         *)
LEMMA AddRefPool == ASSUME NEW s \in Slots PROVE IInv /\ AddRef(s) => Pool!Next
<1> SUFFICES ASSUME AddRef(s) PROVE Pool!Next
  OBVIOUS
<1>1. Pool!Share(s)
  BY DEF AddRef, Pool!Share, FirstUnfreed
<1> QED
  BY <1>1 DEF Pool!Next

LEMMA DecRefPool ==
    ASSUME NEW t \in Threads, NEW s \in Slots PROVE IInv /\ DecRef(t, s) => Pool!Next
<1> SUFFICES ASSUME IInv, DecRef(t, s) PROVE Pool!Next
  OBVIOUS
<1>1. /\ refcnt[s] > 0 /\ refcnt' = [refcnt EXCEPT ![s] = @ - 1]
      /\ UNCHANGED <<busy, chain, at>> /\ pc[t] = "idle"
      /\ pc' = pc \/ pc' = [pc EXCEPT ![t] = "lock"]
  BY DEF DecRef
<1>2. FirstUnfreed' = FirstUnfreed
  <2>1. CASE pc' = pc
    BY <1>1, <2>1 DEF FirstUnfreed
  <2>2. CASE pc' = [pc EXCEPT ![t] = "lock"]
    BY <1>1, <2>2, FirstUnfreedStays DEF Recycling, IInv
  <2> QED
    BY <1>1, <2>1, <2>2
<1>3. Pool!Drop(s)
  BY <1>1, <1>2 DEF Pool!Drop
<1> QED
  BY <1>3 DEF Pool!Next

(* The item stored brings back the buffer in the thread's hand.            *)
LEMMA StoreItemPool == ASSUME NEW t \in Threads PROVE IInv /\ StoreItem(t) => Pool!Next
<1> SUFFICES ASSUME IInv, StoreItem(t) PROVE Pool!Next
  OBVIOUS
<1> DEFINE h == hand[t]
           f == FirstUnfreed
<1>1. /\ pc[t] \in {"append", "counted"} /\ chain' = Append(chain, h)
      /\ pc' = [pc EXCEPT ![t] = IF pc[t] = "append" THEN "stored" ELSE "unlock"]
      /\ UNCHANGED <<busy, refcnt, at>>
  BY DEF StoreItem
<1>2. h \in Slots /\ InHand(h)
  BY <1>1 DEF IInv, HandsDiffer, Holds, InHand
<1>3. h \in busy /\ refcnt[h] = 0 /\ ~InChain(h)
  BY <1>2 DEF IInv, SlotsPlaced, Referenced, TypeOK
<1>4. FirstUnfreed' = f
  BY <1>1, FirstUnfreedStays DEF Recycling, IInv
<1>5. f \in Nat /\ 0 < f /\ f <= Len(chain) + 1 /\ chain \in Seq(Slots)
  BY FirstUnfreedType DEF IInv, TypeOK
<1>6. ~Pool!Contains(Backlog, h)
  <2>1. /\ Len(chain) \in Nat /\ Len(Backlog) = Len(chain) - f + 1
        /\ \A i \in 1 .. Len(chain) - f + 1 : Backlog[i] = chain[f + i - 1]
    <3> HIDE DEF f
    <3>1. /\ Len(chain) \in Nat /\ Len(From(chain, f)) = Len(chain) - f + 1
          /\ \A i \in 1 .. Len(chain) - f + 1 : From(chain, f)[i] = chain[f + i - 1]
      BY <1>5, FromItems
    <3> QED
      BY <3>1 DEF Backlog, f
  <2>2. \A j \in f .. Len(chain) : chain[j] # h
    BY <1>3 DEF InChain
  <2> HIDE DEF f, h
  <2>3. ASSUME NEW i \in 1 .. Len(Backlog) PROVE Backlog[i] # h
    <3>1. i \in 1 .. Len(chain) - f + 1 /\ f + i - 1 \in f .. Len(chain)
      BY <1>5, <2>1
    <3> QED
      BY <2>1, <2>2, <3>1
  <2> QED
    BY <2>3 DEF Pool!Contains
<1>7. Backlog' = Append(Backlog, h)
  <2> HIDE DEF f, h
  <2>1. From(Append(chain, h), f) = Append(From(chain, f), h)
    BY <1>2, <1>5, FromAppend
  <2> QED
    BY <1>1, <1>4, <2>1 DEF Backlog, From, f
<1>8. Pool!ComeBack(h)
  BY <1>1, <1>3, <1>6, <1>7 DEF Pool!ComeBack, Backlog, From
<1> QED
  BY <1>2, <1>8 DEF Pool!Next

(* The item that Recycle frees is the first that came back.                *)
LEMMA FreeItemPool == IInv /\ FreeItem => Pool!Next
<1> SUFFICES ASSUME IInv, FreeItem PROVE Pool!Next
  OBVIOUS
<1>1. /\ pc[Owner] = "free"
      /\ at' = (IF at = N THEN 1 ELSE at + 1)
      /\ pc' = [pc EXCEPT ![Owner] = IF at = N THEN "remove" ELSE "free"]
      /\ UNCHANGED <<refcnt, chain>>
  BY DEF FreeItem
<1>2. /\ Len(chain) \in Nat /\ at \in 1..N /\ N \in Nat /\ at <= Len(chain)
      /\ chain \in Seq(Slots)
  BY <1>1, SegmentWritten, Constants DEF Recycling, TypeOK, IInv
<1>3. FirstUnfreed = at /\ FirstUnfreed' = at + 1
  BY <1>1, <1>2, Constants DEF FirstUnfreed, TypeOK, IInv
<1>4. chain[at] \in Slots /\ InChain(chain[at])
  BY <1>2, <1>3, ElementOfSeq DEF InChain
<1>5. MayFree(chain[at])
  BY <1>4 DEF IInv, SlotsPlaced, BitsFollow, Referenced, TypeOK, MayFree
<1>6. busy' = busy \ {chain[at]}
  BY <1>2, <1>5 DEF FreeItem
<1>7. /\ Backlog # <<>> /\ Head(Backlog) = chain[at] /\ Backlog' = Tail(Backlog)
  <2>1. at \in Nat /\ 0 < at
    BY <1>2
  <2>2. /\ From(chain, at) # <<>> /\ Head(From(chain, at)) = chain[at]
        /\ From(chain, at + 1) = Tail(From(chain, at))
    BY <1>2, <2>1, FromNext
  <2>3. Backlog' = From(chain, at + 1)
    BY <1>1, <1>3 DEF Backlog, From
  <2> QED
    BY <1>3, <2>2, <2>3 DEF Backlog
<1>8. Pool!Reuse
  BY <1>1, <1>6, <1>7 DEF Pool!Reuse, Backlog, From
<1> QED
  BY <1>8 DEF Pool!Next

(* The segment removed is not in the pool any more.                        *)
LEMMA RemoveSegmentPool == IInv /\ RemoveSegment => UNCHANGED Pool!vars
<1> SUFFICES ASSUME IInv, RemoveSegment PROVE UNCHANGED Pool!vars
  OBVIOUS
<1>1. /\ pc[Owner] = "remove" /\ lock = NoThread /\ pc' = [pc EXCEPT ![Owner] = "idle"]
      /\ UNCHANGED <<refcnt, busy>>
  BY DEF RemoveSegment
<1>2. Len(chain) \in Nat /\ N < Len(chain) /\ N \in Nat /\ chain \in Seq(Slots)
  BY <1>1, SegmentWritten, Constants DEF Recycling, IInv, TypeOK
<1>3. chain' = From(chain, N + 1)
  BY <1>2, Constants DEF RemoveSegment, From
<1>4. FirstUnfreed = N + 1 /\ FirstUnfreed' = 1
  BY <1>1, Constants DEF FirstUnfreed, TypeOK, IInv
<1>5. chain' \in Seq(Slots)
  BY RemoveSegmentInv DEF IInv, TypeOK
<1>6. Backlog' = chain'
  <2>1. From(chain', 1) = chain'
    BY <1>5, FromFirst
  <2> QED
    BY <1>4, <2>1 DEF Backlog, From
<1>7. Backlog' = Backlog
  BY <1>3, <1>4, <1>6 DEF Backlog
<1> QED
  BY <1>1, <1>7 DEF Pool!vars, Backlog, From

(* The steps of which the pool knows nothing: the lock, the count, and the *)
(* start of Recycle.                                                       *)
LEMMA QuietSteps ==
    ASSUME IInv, Recycle \/ \E t \in Threads : Lock(t) \/ StoreCount(t) \/ Unlock(t)
    PROVE  UNCHANGED Pool!vars
<1>1. CASE Recycle
  <2>1. FirstUnfreed = 1 /\ FirstUnfreed' = 1
    BY <1>1, Constants DEF Recycle, FirstUnfreed, TypeOK, IInv
  <2> QED
    BY <1>1, <2>1, PoolStutters DEF Recycle
<1>2. ASSUME NEW t \in Threads, Lock(t) \/ StoreCount(t) \/ Unlock(t)
      PROVE  UNCHANGED Pool!vars
  <2>1. PICK v \in {"append", "counted", "unlock", "idle"} :
           /\ pc' = [pc EXCEPT ![t] = v] /\ pc[t] \notin Recycling
           /\ UNCHANGED <<refcnt, busy, chain, at>>
    BY <1>2 DEF Lock, StoreCount, Unlock, Recycling
  <2>2. v \notin Recycling
    BY DEF Recycling
  <2>3. FirstUnfreed' = FirstUnfreed
    BY <2>1, <2>2, FirstUnfreedStays DEF IInv
  <2> QED
    BY <2>1, <2>3, PoolStutters
<1> QED
  BY <1>1, <1>2

(* Every step is one of the pool, or leaves it as it is.                   *)
LEMMA NextPool == IInv /\ [Next]_vars => [Pool!Next]_(Pool!vars)
<1> SUFFICES ASSUME IInv, [Next]_vars PROVE Pool!Next \/ UNCHANGED Pool!vars
  OBVIOUS
<1>1. CASE UNCHANGED vars
  <2>1. FirstUnfreed' = FirstUnfreed /\ UNCHANGED <<refcnt, busy, chain>>
    BY <1>1 DEF vars, FirstUnfreed
  <2> QED
    BY <2>1, PoolStutters
<1>2. CASE Alloc \/ FreeItem
  BY <1>2, AllocPool, FreeItemPool
<1>3. CASE RemoveSegment
  BY <1>3, RemoveSegmentPool
<1>4. CASE \E s \in Slots : AddRef(s)
  BY <1>4, AddRefPool
<1>5. CASE \E t \in Threads, s \in Slots : DecRef(t, s)
  BY <1>5, DecRefPool
<1>6. CASE \E t \in Threads : StoreItem(t)
  BY <1>6, StoreItemPool
<1>7. CASE Recycle \/ \E t \in Threads : Lock(t) \/ StoreCount(t) \/ Unlock(t)
  BY <1>7, QuietSteps
<1> QED
  BY <1>1, <1>2, <1>3, <1>4, <1>5, <1>6, <1>7 DEF Next, Append1

(* The free and the busy list, the chain and its lock implement a pool of  *)
(* buffers: every buffer has one user until its last reference is dropped, *)
(* and is reused in the order the buffers came back.                       *)
THEOREM AllocatorImplementsPool == Spec => ImplementsPool
BY InvHolds, InitPool, NextPool, PTL DEF Spec, ImplementsPool, Pool!Spec
=============================================================================
