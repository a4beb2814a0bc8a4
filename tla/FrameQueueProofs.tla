-------------------------- MODULE FrameQueueProofs --------------------------
(***************************************************************************)
(* Proofs about FrameQueue for every ring size N and every number of frame *)
(* ids 2 * Half with N <= Half: the invariant of the ring, which of its    *)
(* assertions can fail, and that it implements the window of ids.  A lemma *)
(* that an operation keeps the invariant also says which ids it leaves     *)
(* held, for the last of the three.                                        *)
(***************************************************************************)
EXTENDS FrameQueue, FiniteSetLemmas, FiniteSetTheorems, TLAPS

(* The constants as the prover uses them.                                  *)
LEMMA Constants == N \in Nat /\ Half \in Nat /\ 0 < N /\ N <= Half /\ FidMod = Half + Half
BY CapacityAssumption, HalfAssumption DEF FidMod

-----------------------------------------------------------------------------
(* Arithmetic of wrapping ids.                                             *)

(* A distance is less than a turn.                                         *)
LEMMA DistanceType ==
    \A a, b \in Fid : /\ Distance(a, b) \in Nat
                      /\ Distance(a, b) < FidMod
                      /\ Distance(a, b) = 0 <=> a = b
BY Constants DEF Fid, Distance

(* An id ahead of another is an id.                                        *)
LEMMA AheadType ==
    \A a \in Fid, n \in Nat : n <= FidMod => Ahead(a, n) \in Fid
BY Constants DEF Fid, Ahead

(* The id n ahead of fid is at distance n from it.                         *)
LEMMA DistanceOfAhead ==
    \A a \in Fid, n \in Nat : n < FidMod => Distance(Ahead(a, n), a) = n
BY Constants DEF Fid, Distance, Ahead

(* The id a distance ahead of the other is the first one.                  *)
LEMMA AheadOfDistance ==
    \A a, b \in Fid : Ahead(a, Distance(b, a)) = b
BY Constants DEF Fid, Distance, Ahead

(* Going m ahead and then n is going m + n ahead.                          *)
LEMMA AheadTwice ==
    \A a \in Fid, m, n \in Nat : m + n < FidMod => Ahead(Ahead(a, m), n) = Ahead(a, m + n)
BY Constants DEF Fid, Ahead

(* Ids less than a turn ahead of fid are different.                        *)
LEMMA AheadInjective ==
    \A a \in Fid, m, n \in Nat :
        m < FidMod /\ n < FidMod /\ Ahead(a, m) = Ahead(a, n) => m = n
BY Constants DEF Fid, Ahead

(* Going from a to b and on to c is going from a to c when it is less than *)
(* a turn.                                                                 *)
LEMMA DistanceAdds ==
    \A a, b, c \in Fid :
        Distance(b, a) + Distance(c, b) < FidMod
            => Distance(c, a) = Distance(b, a) + Distance(c, b)
BY Constants DEF Fid, Distance

(* The two ways around the circle make a turn.                             *)
LEMMA DistanceBack ==
    \A a, b \in Fid : a # b => Distance(a, b) + Distance(b, a) = FidMod
BY Constants DEF Fid, Distance

-----------------------------------------------------------------------------
(* Arithmetic of the ring.                                                 *)

(* A ring distance is less than a turn of the ring.                        *)
LEMMA RingDistanceType ==
    \A c, b \in Cells : RingDistance(c, b) \in 0 .. N - 1
BY Constants DEF Cells, RingDistance

(* The index of a cell is a number below N.                                *)
LEMMA IndexType ==
    slotBegin \in Cells => \A c \in Cells : IndexOf(c) \in 0 .. N - 1
BY RingDistanceType DEF IndexOf

(* The slot at an index below N is a cell with that index.                 *)
LEMMA AtType ==
    slotBegin \in Cells => \A i \in 0 .. N - 1 : At(i) \in Cells /\ IndexOf(At(i)) = i
BY Constants DEF Cells, At, IndexOf, RingDistance

(* At and IndexOf are inverse.                                             *)
LEMMA AtOfIndex ==
    slotBegin \in Cells => \A c \in Cells : At(IndexOf(c)) = c
BY Constants DEF Cells, At, IndexOf, RingDistance

(* Different cells have different indices.                                 *)
LEMMA IndexInjective ==
    slotBegin \in Cells => \A c, d \in Cells : IndexOf(c) = IndexOf(d) => c = d
BY Constants DEF Cells, IndexOf, RingDistance

(* The index of a cell after the front of the queue has moved to first.    *)
LEMMA MovedIndex ==
    slotBegin \in Cells =>
        \A c, first \in Cells :
            RingDistance(c, first) = IF IndexOf(c) >= IndexOf(first)
                                     THEN IndexOf(c) - IndexOf(first)
                                     ELSE IndexOf(c) - IndexOf(first) + N
BY Constants DEF Cells, IndexOf, RingDistance

(* The cell a ring distance from first names.                              *)
LEMMA CellAtDistance ==
    \A first \in Cells, i \in 0 .. N - 1 :
        \E c \in Cells : RingDistance(c, first) = i
<1> SUFFICES ASSUME NEW first \in Cells, NEW i \in 0 .. N - 1
             PROVE  \E c \in Cells : RingDistance(c, first) = i
  OBVIOUS
<1> DEFINE c == IF first + i >= N THEN first + i - N ELSE first + i
<1>1. c \in Cells
  BY Constants DEF Cells
<1>2. RingDistance(c, first) = i
  BY Constants DEF Cells, RingDistance
<1> QED BY <1>1, <1>2

(* The slot an index names is the cell at that ring distance.              *)
LEMMA PlaceOfDistance ==
    \A begin, c \in Cells :
        (IF begin + RingDistance(c, begin) >= N
         THEN begin + RingDistance(c, begin) - N
         ELSE begin + RingDistance(c, begin)) = c
BY Constants DEF Cells, RingDistance

(* Only a cell itself is at ring distance 0.                               *)
LEMMA SelfDistance ==
    \A b, c \in Cells : RingDistance(c, b) = 0 <=> c = b
BY Constants DEF Cells, RingDistance

-----------------------------------------------------------------------------
(* Sets of cells.                                                          *)

(* Every set of cells is finite.                                           *)
LEMMA CellsFinite ==
    ASSUME NEW C \in SUBSET Cells
    PROVE  IsFiniteSet(C) /\ Cardinality(C) \in 0 .. N
<1>1. N \in Nat /\ 0 \in Int /\ N - 1 \in Int /\ 0 < N
  BY Constants
<1>2. IsFiniteSet(Cells) /\ Cardinality(Cells) = N
  BY <1>1, FS_Interval DEF Cells
<1>3. IsFiniteSet(C) /\ Cardinality(C) <= N
  BY <1>2, FS_Subset
<1>4. Cardinality(C) \in Nat
  BY <1>3, FS_CardinalityType
<1> QED BY <1>1, <1>3, <1>4

(* Frames are held in cells of the ring.                                   *)
LEMMA HeldCells == Held \in SUBSET Cells
BY DEF Held

(* FirstOf picks the cell of the smallest index.                           *)
LEMMA FirstIsFirst ==
    ASSUME slotBegin \in Cells, NEW C \in SUBSET Cells, C # {}
    PROVE  FirstOf(C) \in C /\ \A d \in C : IndexOf(FirstOf(C)) <= IndexOf(d)
<1> DEFINE I == {IndexOf(c) : c \in C}
<1>1. \A c \in C : IndexOf(c) \in Nat
  BY IndexType, Constants
<1>2. I \in SUBSET Nat /\ I # {}
  BY <1>1
<1>3. PICK i \in I : \A j \in I : i <= j
  <2> HIDE DEF I
  <2> QED BY <1>2, SmallestOfSet
<1>4. PICK c \in C : i = IndexOf(c)
  BY <1>3
<1>5. \A d \in C : IndexOf(c) <= IndexOf(d)
  BY <1>3, <1>4
<1> QED BY <1>5 DEF FirstOf

(* LastOf picks the cell of the largest index.                             *)
LEMMA LastIsLast ==
    ASSUME slotBegin \in Cells, NEW C \in SUBSET Cells, C # {}
    PROVE  LastOf(C) \in C /\ \A d \in C : IndexOf(LastOf(C)) >= IndexOf(d)
<1> DEFINE I == {IndexOf(c) : c \in C}
<1>0. N - 1 \in Nat
  BY Constants
<1>1. \A c \in C : IndexOf(c) \in 0 .. N - 1
  BY IndexType
<1>2. I \in SUBSET (0 .. N - 1) /\ I # {}
  BY <1>1
<1>3. PICK i \in I : \A j \in I : i >= j
  <2> HIDE DEF I
  <2> QED BY <1>0, <1>2, LargestOfSet
<1>4. PICK c \in C : i = IndexOf(c)
  BY <1>3
<1>5. \A d \in C : IndexOf(c) >= IndexOf(d)
  BY <1>3, <1>4
<1> QED BY <1>5 DEF LastOf

(* Cells between two indices are at most as many as the indices.           *)
LEMMA CellsBetween ==
    ASSUME slotBegin \in Cells, NEW C \in SUBSET Cells,
           NEW i \in 0 .. N - 1, NEW j \in 0 .. N - 1, i <= j,
           \A c \in C : i <= IndexOf(c) /\ IndexOf(c) <= j
    PROVE  Cardinality(C) <= j - i + 1
<1> DEFINE f == [c \in C |-> IndexOf(c)]
<1>0. i \in Nat /\ j \in Nat /\ i \in Int /\ j \in Int
  BY Constants
<1>1. \A c \in C : IndexOf(c) \in i .. j
  BY <1>0, IndexType, Constants
<1>2. f \in Injection(C, i .. j)
  BY <1>1, IndexInjective DEF Injection, IsInjective
<1>3. IsFiniteSet(i .. j) /\ Cardinality(i .. j) = j - i + 1
  BY <1>0, FS_Interval
<1>4. Cardinality(C) <= Cardinality(i .. j)
  <2> HIDE DEF f
  <2> QED BY <1>2, <1>3, FS_Injection
<1> QED BY <1>3, <1>4

-----------------------------------------------------------------------------
(* The inductive invariant.                                                *)
Inv == TypeOK /\ SlotsContiguous /\ EndsHeld /\ CountExact

CellType == [empty : BOOLEAN, fid : Fid]
OutType  == [op : {"none", "insert", "remove", "reset", "loop"},
             slot : BOOLEAN, isnew : BOOLEAN, freed : SUBSET Fid]
FailType == {"none", "insert", "remove", "reset", "loop"}

(* The ids of cells are ids.                                               *)
LEMMA FidsType ==
    ASSUME TypeOK, NEW C \in SUBSET Cells
    PROVE  Fids(C) \in SUBSET Fid
BY DEF TypeOK, Fids

(* The types the invariant gives, one by one.                              *)
LEMMA InvTypes ==
    ASSUME Inv
    PROVE  /\ slotBegin \in Cells
           /\ slotCnt \in Nat /\ slotCnt <= N
           /\ cells \in [Cells -> CellType]
           /\ fidBegin \in Fid /\ fidEnd \in Fid
           /\ frmCnt \in Nat
           /\ frmCnt = Cardinality(Held)
           /\ frmCnt = 0 => slotCnt = 0
           /\ \A c \in Cells : IndexOf(c) < slotCnt => cells[c].fid = Ahead(fidBegin, IndexOf(c))
BY Constants DEF Inv, TypeOK, CountExact, SlotsContiguous, CellType

(* The first and the last slot of a queue that holds a frame.              *)
LEMMA InvEnds ==
    ASSUME Inv, frmCnt > 0
    PROVE  /\ slotCnt \in 1 .. N
           /\ slotBegin \in Held /\ IndexOf(slotBegin) = 0
           /\ cells[slotBegin].fid = fidBegin
           /\ At(slotCnt - 1) \in Held /\ IndexOf(At(slotCnt - 1)) = slotCnt - 1
           /\ cells[At(slotCnt - 1)].fid = fidEnd
           /\ fidEnd = Ahead(fidBegin, slotCnt - 1)
           /\ Distance(fidEnd, fidBegin) = slotCnt - 1
<1>1. slotCnt \in 1 .. N /\ ~cells[slotBegin].empty /\ ~cells[At(slotCnt - 1)].empty
  BY InvTypes, Constants DEF Inv, EndsHeld
<1>2. fidEnd = Ahead(fidBegin, slotCnt - 1)
  BY DEF Inv, EndsHeld
<1>3. slotBegin \in Cells /\ IndexOf(slotBegin) = 0
  BY InvTypes, SelfDistance DEF IndexOf
<1>4. At(slotCnt - 1) \in Cells /\ IndexOf(At(slotCnt - 1)) = slotCnt - 1
  BY <1>1, <1>3, AtType, Constants
<1>5. slotBegin \in Held /\ At(slotCnt - 1) \in Held
  BY <1>1, <1>3, <1>4 DEF Held
<1>6. cells[slotBegin].fid = Ahead(fidBegin, 0)
  BY <1>1, <1>3, InvTypes
<1>7. Ahead(fidBegin, 0) = fidBegin
  BY InvTypes, Constants DEF Ahead, Fid
<1>8. cells[At(slotCnt - 1)].fid = Ahead(fidBegin, slotCnt - 1)
  BY <1>1, <1>4, InvTypes
<1>9. Distance(fidEnd, fidBegin) = slotCnt - 1
  BY <1>1, <1>2, InvTypes, DistanceOfAhead, Constants
<1> QED BY <1>1, <1>2, <1>3, <1>4, <1>5, <1>6, <1>7, <1>8, <1>9

(* A state with first and last slots that hold frames and consecutive ids  *)
(* in between satisfies the invariant.                                     *)
LEMMA NewShape ==
    ASSUME slotBegin' \in Cells, slotCnt' \in 1 .. N, cells' \in [Cells -> CellType],
           fidBegin' \in Fid, fidEnd' \in Fid,
           out' \in OutType, failedIn' \in FailType,
           NEW last \in Cells, RingDistance(last, slotBegin') = slotCnt' - 1,
           \A c \in Cells : RingDistance(c, slotBegin') < slotCnt'
                => cells'[c].fid = Ahead(fidBegin', RingDistance(c, slotBegin')),
           ~cells'[slotBegin'].empty, ~cells'[last].empty, fidEnd' = cells'[last].fid,
           Held' \in SUBSET Cells => frmCnt' = Cardinality(Held')
    PROVE  Inv'
<1>1. Held' \in SUBSET Cells
  BY DEF Held
<1>2. frmCnt' = Cardinality(Held') /\ frmCnt' \in 0 .. N
  BY <1>1, CellsFinite
<1>3. At(slotCnt - 1)' = last
  BY PlaceOfDistance DEF At
<1>4. slotBegin' \in Held'
  BY SelfDistance DEF Held, IndexOf
<1>5. frmCnt' # 0
  BY <1>1, <1>2, <1>4, CellsFinite, FS_EmptySet
<1>6. TypeOK'
  BY <1>2 DEF TypeOK, CellType, OutType, FailType
<1>7. SlotsContiguous'
  BY DEF SlotsContiguous, IndexOf
<1>8. EndsHeld'
  <2>0. \A n \in 1 .. N : n - 1 < n /\ n > 0
    BY Constants
  <2>1. slotCnt' - 1 < slotCnt' /\ slotCnt' > 0
    BY <2>0
  <2>2. fidEnd' = Ahead(fidBegin', slotCnt' - 1)
    BY <2>1
  <2>3. ~cells'[At(slotCnt - 1)'].empty
    BY <1>3
  <2> QED BY <2>1, <2>2, <2>3 DEF EndsHeld
<1>9. CountExact'
  BY <1>2, <1>5 DEF CountExact
<1> QED BY <1>6, <1>7, <1>8, <1>9 DEF Inv

(* A queue restarted with one frame.                                       *)
LEMMA StartWithKeeps ==
    ASSUME Inv, NEW fid \in Fid, NEW c \in Cells, StartWith(fid, c),
           out' \in OutType, failedIn' \in FailType
    PROVE  Inv' /\ Fids(Held)' = {fid}
<1>1. /\ cells' = [cells EXCEPT ![c] = Filled(fid)]
      /\ slotBegin' = c /\ slotCnt' = 1 /\ fidBegin' = fid /\ fidEnd' = fid /\ frmCnt' = 1
  BY DEF StartWith
<1>2. cells' \in [Cells -> CellType] /\ cells'[c] = [empty |-> FALSE, fid |-> fid]
  BY <1>1, InvTypes DEF CellType, Filled
<1>3. slotCnt' \in 1 .. N
  BY <1>1, Constants
<1>4. RingDistance(c, c) = 0
  BY SelfDistance
<1>5. \A d \in Cells : RingDistance(d, c) < 1 => d = c
  <2> TAKE d \in Cells
  <2>1. RingDistance(d, c) \in Nat
    BY RingDistanceType, Constants
  <2> QED BY <2>1, SelfDistance
<1>6. Ahead(fid, 0) = fid
  BY Constants DEF Ahead, Fid
<1>7. Held' = {c}
  <2>1. \A d \in Cells : RingDistance(d, slotBegin') < slotCnt' /\ ~cells'[d].empty <=> d = c
    BY <1>1, <1>2, <1>4, <1>5
  <2> QED BY <2>1 DEF Held, IndexOf
<1>8. frmCnt' = Cardinality(Held')
  BY <1>1, <1>7, FS_Singleton
<1>9. \A d \in Cells : RingDistance(d, slotBegin') < slotCnt'
            => cells'[d].fid = Ahead(fidBegin', RingDistance(d, slotBegin'))
  BY <1>1, <1>2, <1>4, <1>5, <1>6
<1>10. RingDistance(c, slotBegin') = slotCnt' - 1
  BY <1>1, <1>4
<1>11. Fids(Held)' = {fid}
  BY <1>2, <1>7 DEF Fids
<1> QED BY <1>1, <1>2, <1>3, <1>8, <1>9, <1>10, <1>11, NewShape

(* A queue cut down to the frames in the set C of its cells, the slots     *)
(* before the first and after the last of them given back.                 *)
TrimmedTo(C, first, last) ==
    /\ cells' \in [Cells -> CellType]
    /\ \A c \in Cells : cells'[c].fid = cells[c].fid
    /\ \A c \in Cells : IndexOf(c) < slotCnt => (~cells'[c].empty <=> c \in C)
    /\ slotBegin' = first
    /\ slotCnt' = IndexOf(last) - IndexOf(first) + 1
    /\ fidBegin' = cells[first].fid
    /\ fidEnd' = cells[last].fid
    /\ frmCnt' = Cardinality(C)

(* A queue cut down to the cells C keeps the invariant.                    *)
LEMMA TrimmedKeeps ==
    ASSUME Inv, NEW C \in SUBSET Cells, NEW first \in C, NEW last \in C,
           \A c \in C : /\ IndexOf(first) <= IndexOf(c) /\ IndexOf(c) <= IndexOf(last)
                        /\ IndexOf(c) < slotCnt,
           TrimmedTo(C, first, last),
           out' \in OutType, failedIn' \in FailType
    PROVE  Inv' /\ Fids(Held)' = Fids(C)
<1>0. slotBegin \in Cells /\ slotCnt \in Nat /\ slotCnt <= N
  BY InvTypes
<1>1. \A c \in Cells : IndexOf(c) \in 0 .. N - 1
  BY <1>0, IndexType
<1>2. IndexOf(first) <= IndexOf(last) /\ IndexOf(last) < slotCnt
  OBVIOUS
<1>3. slotBegin' = first /\ slotCnt' = IndexOf(last) - IndexOf(first) + 1
  BY DEF TrimmedTo
<1>4. slotCnt' \in 1 .. N
  BY <1>0, <1>1, <1>2, <1>3, Constants
<1>5. \A c \in Cells : RingDistance(c, first) = IF IndexOf(c) >= IndexOf(first)
                                               THEN IndexOf(c) - IndexOf(first)
                                               ELSE IndexOf(c) - IndexOf(first) + N
  BY <1>0, MovedIndex
<1>6. RingDistance(last, slotBegin') = slotCnt' - 1
  BY <1>1, <1>2, <1>3, <1>5, Constants
<1>7. \A c \in Cells : RingDistance(c, slotBegin') < slotCnt'
            <=> IndexOf(first) <= IndexOf(c) /\ IndexOf(c) <= IndexOf(last)
  BY <1>0, <1>1, <1>2, <1>3, <1>5, Constants
<1>8. ASSUME NEW c \in Cells, RingDistance(c, slotBegin') < slotCnt'
      PROVE  cells'[c].fid = Ahead(fidBegin', RingDistance(c, slotBegin'))
  <2>1. IndexOf(first) <= IndexOf(c) /\ IndexOf(c) < slotCnt
    BY <1>0, <1>1, <1>2, <1>7, <1>8
  <2>2. cells'[c].fid = Ahead(fidBegin, IndexOf(c))
    BY <2>1, InvTypes DEF TrimmedTo
  <2>3. fidBegin' = Ahead(fidBegin, IndexOf(first))
    BY InvTypes DEF TrimmedTo
  <2>4. RingDistance(c, first) = IndexOf(c) - IndexOf(first)
    BY <2>1, <1>5
  <2>5. IndexOf(c) \in Nat /\ IndexOf(first) \in Nat /\ IndexOf(c) < N
    BY <1>1, Constants
  <2>6. /\ IndexOf(c) - IndexOf(first) \in Nat
        /\ IndexOf(first) + (IndexOf(c) - IndexOf(first)) = IndexOf(c)
        /\ IndexOf(c) < FidMod
    BY <2>1, <2>5, Constants
  <2>7. fidBegin \in Fid
    BY InvTypes
  <2>8. Ahead(Ahead(fidBegin, IndexOf(first)), IndexOf(c) - IndexOf(first))
            = Ahead(fidBegin, IndexOf(c))
    BY <2>5, <2>6, <2>7, AheadTwice
  <2> QED BY <2>2, <2>3, <2>4, <2>8, <1>3
<1>9. Held' = C
  <2>1. \A c \in Cells : RingDistance(c, slotBegin') < slotCnt' /\ ~cells'[c].empty <=> c \in C
    <3> TAKE c \in Cells
    <3>1. CASE c \in C
      <4>1. IndexOf(first) <= IndexOf(c) /\ IndexOf(c) <= IndexOf(last) /\ IndexOf(c) < slotCnt
        BY <3>1
      <4> QED BY <3>1, <4>1, <1>7 DEF TrimmedTo
    <3>2. CASE c \notin C
      <4>1. ASSUME RingDistance(c, slotBegin') < slotCnt' PROVE cells'[c].empty
        <5>1. IndexOf(c) < slotCnt
          BY <4>1, <1>0, <1>1, <1>2, <1>7
        <5> QED BY <5>1, <3>2 DEF TrimmedTo
      <4> QED BY <4>1, <3>2
    <3> QED BY <3>1, <3>2
  <2> QED BY <2>1 DEF Held, IndexOf
<1>10. frmCnt' = Cardinality(Held')
  BY <1>9 DEF TrimmedTo
<1>11. first \in Cells /\ last \in Cells /\ ~cells'[first].empty /\ ~cells'[last].empty
  BY DEF TrimmedTo
<1>12. /\ cells' \in [Cells -> CellType]
       /\ fidBegin' = cells[first].fid /\ fidEnd' = cells[last].fid
       /\ fidEnd' = cells'[last].fid
  BY <1>11 DEF TrimmedTo
<1>13. fidBegin' \in Fid /\ fidEnd' \in Fid
  BY <1>11, <1>12, InvTypes DEF CellType
<1>14. slotBegin' \in Cells /\ ~cells'[slotBegin'].empty
  BY <1>3, <1>11
<1>15. Fids(Held)' = Fids(C)
  BY <1>9 DEF TrimmedTo, Fids
<1> QED BY <1>4, <1>6, <1>8, <1>10, <1>11, <1>12, <1>13, <1>14, <1>15, NewShape

-----------------------------------------------------------------------------
(* Insert.                                                                 *)

(* The guards of Insert and At place an id in the used slots.              *)
LEMMA InsideIndex ==
    ASSUME Inv, frmCnt > 0, NEW fid \in Fid,
           ~IsEarlier(fid, fidBegin), IsNotLater(fid, fidEnd)
    PROVE  Distance(fid, fidBegin) \in 0 .. slotCnt - 1
<1>1. slotCnt \in Nat /\ 0 < slotCnt /\ slotCnt <= N
  BY InvEnds, Constants
<1>2. Distance(fidEnd, fidBegin) = slotCnt - 1
  BY InvEnds
<1>3. fidBegin \in Fid /\ fidEnd \in Fid
  BY InvTypes
<1> QED BY <1>1, <1>2, <1>3, Constants DEF IsEarlier, IsNotLater, Distance, Fid

(* The slot Insert and At find holds the id they look for.                 *)
LEMMA InsideSlot ==
    ASSUME Inv, frmCnt > 0, NEW fid \in Fid,
           Distance(fid, fidBegin) \in 0 .. slotCnt - 1
    PROVE  LET c == At(Distance(fid, fidBegin))
           IN  /\ c \in Cells
               /\ IndexOf(c) = Distance(fid, fidBegin)
               /\ IndexOf(c) < slotCnt
               /\ cells[c].fid = fid
<1> DEFINE d == Distance(fid, fidBegin)
           c == At(d)
<1>1. slotCnt \in Nat /\ slotCnt <= N /\ d \in Nat /\ d < slotCnt
  BY InvTypes, Constants
<1>2. d \in 0 .. N - 1
  BY <1>1, Constants
<1>3. c \in Cells /\ IndexOf(c) = d
  BY <1>2, InvTypes, AtType
<1>4. cells[c].fid = Ahead(fidBegin, d)
  BY <1>1, <1>3, InvTypes
<1>5. Ahead(fidBegin, d) = fid
  BY InvTypes, AheadOfDistance
<1> QED BY <1>1, <1>3, <1>4, <1>5

(* The assertions on the slot of an id within the queue hold.              *)
LEMMA InsideCarries ==
    ASSUME Inv, frmCnt > 0, NEW fid \in Fid,
           ~IsEarlier(fid, fidBegin), IsNotLater(fid, fidEnd)
    PROVE  SlotCarries(fid)
<1>1. Distance(fid, fidBegin) \in 0 .. slotCnt - 1
  BY InsideIndex
<1>2. Distance(fid, fidBegin) < slotCnt
  BY <1>1, InvTypes
<1>3. cells[At(Distance(fid, fidBegin))].fid = fid
  BY <1>1, InsideSlot
<1> QED BY <1>2, <1>3 DEF SlotCarries

(* The count is a number and at most that of the used slots.               *)
LEMMA CountInSlots ==
    ASSUME Inv
    PROVE  /\ frmCnt \in Nat /\ slotCnt \in Nat
           /\ frmCnt # 0 <=> frmCnt > 0
           /\ frmCnt <= slotCnt
<1>1. frmCnt \in Nat /\ slotCnt \in Nat /\ slotCnt <= N /\ frmCnt = Cardinality(Held)
  BY InvTypes
<1>2. CASE frmCnt = 0
  BY <1>1, <1>2
<1>3. CASE frmCnt # 0
  <2>1. slotCnt \in 1 .. N
    BY <1>1, <1>3, InvEnds
  <2>2. 0 \in 0 .. N - 1 /\ slotCnt - 1 \in 0 .. N - 1 /\ 0 <= slotCnt - 1
    BY <2>1, Constants
  <2>3. \A c \in Held : 0 <= IndexOf(c) /\ IndexOf(c) <= slotCnt - 1
    BY <1>1, InvTypes, IndexType, Constants DEF Held
  <2>4. Cardinality(Held) <= slotCnt - 1 - 0 + 1
    BY <2>2, <2>3, HeldCells, InvTypes, CellsBetween
  <2> QED BY <1>1, <1>3, <2>4
<1> QED BY <1>2, <1>3

(* Insert into an empty queue finds no slot used.                          *)
LEMMA InsertFirstRuns ==
    ASSUME Inv, NEW fid \in Fid, InsertFirst(fid)
    PROVE  /\ frmCnt = 0
           /\ StartWith(fid, At(slotCnt))
           /\ out' = Result("insert", TRUE, TRUE, {})
           /\ failedIn' = failedIn
<1>1. frmCnt = 0 /\ slotCnt = 0
  BY InvTypes DEF InsertFirst
<1> QED BY <1>1 DEF InsertFirst

(* Insert into an empty queue keeps the invariant.                         *)
LEMMA InsertFirstKeeps ==
    ASSUME Inv, NEW fid \in Fid, InsertFirst(fid), failedIn \in FailType
    PROVE  Inv' /\ Fids(Held)' = {fid}
<1>1. At(slotCnt) \in Cells
  BY InvTypes, Constants DEF At, Cells
<1>2. out' \in OutType /\ failedIn' \in FailType
  <2>1. out' = Result("insert", TRUE, TRUE, {}) /\ failedIn' = failedIn
    BY InsertFirstRuns
  <2> QED BY <2>1 DEF Result, OutType
<1> QED BY <1>1, <1>2, StartWithKeeps, InsertFirstRuns

(* Nothing but out and failedIn changes.                                   *)
LEMMA SameQueueKeeps ==
    ASSUME Inv, UNCHANGED <<ring, fidBegin, fidEnd, frmCnt>>,
           out' \in OutType, failedIn' \in FailType
    PROVE  Inv' /\ Fids(Held)' = Fids(Held)
<1> USE DEF ring
<1>1. Held' = Held /\ Fids(Held)' = Fids(Held)
  BY DEF Held, IndexOf, Fids
<1>2. TypeOK'
  BY DEF Inv, TypeOK, OutType, FailType
<1>3. SlotsContiguous'
  BY DEF Inv, SlotsContiguous, IndexOf
<1>4. EndsHeld'
  BY DEF Inv, EndsHeld, At
<1>5. CountExact'
  BY <1>1 DEF Inv, CountExact
<1> QED BY <1>1, <1>2, <1>3, <1>4, <1>5 DEF Inv

(* A failed assertion keeps the invariant.                                 *)
LEMMA FailKeeps ==
    ASSUME Inv, NEW op \in FailType, Fail(op)
    PROVE  Inv' /\ Fids(Held)' = Fids(Held)
<1>1. out' \in OutType
  BY DEF Fail, Inv, TypeOK, OutType
<1> QED BY <1>1, SameQueueKeeps DEF Fail, ring

(* Refusing an old id keeps the invariant.                                 *)
LEMMA InsertTooOldKeeps ==
    ASSUME Inv, NEW fid \in Fid, InsertTooOld(fid), failedIn \in FailType
    PROVE  Inv' /\ Fids(Held)' = Fids(Held)
<1>1. out' \in OutType
  BY DEF InsertTooOld, Result, OutType
<1> QED BY <1>1, SameQueueKeeps DEF InsertTooOld, ring

(* Insert into a used slot finds that of its id.                           *)
LEMMA InsertInsideRuns ==
    ASSUME Inv, NEW fid \in Fid, InsertInside(fid)
    PROVE  LET c == At(Distance(fid, fidBegin)) IN
           /\ frmCnt > 0 /\ ~IsEarlier(fid, fidBegin) /\ IsNotLater(fid, fidEnd)
           /\ cells' = [cells EXCEPT ![c].empty = FALSE]
           /\ frmCnt' = IF cells[c].empty THEN frmCnt + 1 ELSE frmCnt
           /\ out' = Result("insert", TRUE, cells[c].empty, {})
           /\ UNCHANGED <<slotBegin, slotCnt, fidBegin, fidEnd, failedIn>>
<1>1. frmCnt > 0 /\ ~IsEarlier(fid, fidBegin) /\ IsNotLater(fid, fidEnd)
  BY CountInSlots DEF InsertInside
<1>2. SlotCarries(fid)
  BY <1>1, InsideCarries
<1> QED BY <1>1, <1>2 DEF InsertInside

(* Insert into a used slot keeps the invariant.                            *)
LEMMA InsertInsideKeeps ==
    ASSUME Inv, NEW fid \in Fid, InsertInside(fid), failedIn \in FailType
    PROVE  Inv' /\ Fids(Held)' = Fids(Held \cup {At(Distance(fid, fidBegin))})
<1> DEFINE c == At(Distance(fid, fidBegin))
           last == At(slotCnt - 1)
           C == Held \cup {c}
<1> SUFFICES Inv' /\ Fids(Held)' = Fids(C)
  OBVIOUS
<1>1. frmCnt > 0 /\ ~IsEarlier(fid, fidBegin) /\ IsNotLater(fid, fidEnd)
  BY InsertInsideRuns
<1>2. Distance(fid, fidBegin) \in 0 .. slotCnt - 1
  BY <1>1, InsideIndex
<1>3. c \in Cells /\ IndexOf(c) < slotCnt /\ cells[c].fid = fid
  BY <1>1, <1>2, InsideSlot
<1>5. /\ cells' = [cells EXCEPT ![c].empty = FALSE]
      /\ frmCnt' = IF cells[c].empty THEN frmCnt + 1 ELSE frmCnt
      /\ out' = Result("insert", TRUE, cells[c].empty, {})
      /\ UNCHANGED <<slotBegin, slotCnt, fidBegin, fidEnd, failedIn>>
  BY InsertInsideRuns
<1>6. /\ slotBegin \in Held /\ IndexOf(slotBegin) = 0 /\ cells[slotBegin].fid = fidBegin
      /\ last \in Held /\ IndexOf(last) = slotCnt - 1 /\ cells[last].fid = fidEnd
  BY <1>1, InvEnds
<1>7. C \in SUBSET Cells
  BY <1>3, HeldCells
<1>8. frmCnt' = Cardinality(C)
  <2>1. IsFiniteSet(Held) /\ frmCnt = Cardinality(Held)
    BY HeldCells, CellsFinite, InvTypes
  <2>2. c \in Held <=> ~cells[c].empty
    BY <1>3 DEF Held
  <2>3. Cardinality(C) = IF c \in Held THEN Cardinality(Held) ELSE Cardinality(Held) + 1
    BY <2>1, FS_AddElement
  <2> QED BY <2>1, <2>2, <2>3, <1>5
<1>9. /\ cells' \in [Cells -> CellType]
      /\ \A d \in Cells : cells'[d].fid = cells[d].fid
      /\ \A d \in Cells : cells'[d].empty = (d # c /\ cells[d].empty)
  BY <1>3, <1>5, InvTypes DEF CellType
<1>10. \A d \in Cells : IndexOf(d) < slotCnt => (~cells'[d].empty <=> d \in C)
  BY <1>3, <1>9 DEF Held
<1>11. slotCnt = IndexOf(last) - IndexOf(slotBegin) + 1
  BY <1>6, InvTypes
<1>12. TrimmedTo(C, slotBegin, last)
  BY <1>5, <1>6, <1>8, <1>9, <1>10, <1>11 DEF TrimmedTo
<1>13. ASSUME NEW d \in C
       PROVE  IndexOf(slotBegin) <= IndexOf(d) /\ IndexOf(d) <= IndexOf(last) /\ IndexOf(d) < slotCnt
  <2>1. IndexOf(d) < slotCnt /\ d \in Cells
    BY <1>3 DEF Held
  <2>2. IndexOf(d) \in Nat
    BY <2>1, InvTypes, IndexType, Constants
  <2> QED BY <2>1, <2>2, <1>6, InvTypes
<1>14. out' \in OutType
  BY <1>5, <1>3, InvTypes DEF Result, OutType, CellType
<1>15. failedIn' \in FailType
  BY <1>5
<1>16. slotBegin \in C /\ last \in C
  BY <1>6
<1> HIDE DEF C, last
<1> QED BY <1>7, <1>12, <1>13, <1>14, <1>15, <1>16, TrimmedKeeps

(* The frames that stay when a later id arrives, and where it goes.        *)
LEMMA AfterShape ==
    ASSUME Inv, frmCnt > 0, NEW fid \in Fid, IsLater(fid, fidEnd), FitsWith(fid) # {}
    PROVE  LET first == FirstOf(FitsWith(fid))
               left  == slotCnt - IndexOf(first)
               added == Distance(fid, fidEnd)
           IN  /\ first \in Held
               /\ left \in 1 .. slotCnt
               /\ added \in 1 .. Half - 1
               /\ left + added <= N
<1> DEFINE first == FirstOf(FitsWith(fid))
           left  == slotCnt - IndexOf(first)
           added == Distance(fid, fidEnd)
<1>1. FitsWith(fid) \in SUBSET Held /\ FitsWith(fid) \in SUBSET Cells
  BY HeldCells DEF FitsWith
<1>2. first \in FitsWith(fid)
  BY <1>1, FirstIsFirst, InvTypes
<1>3. first \in Held /\ first \in Cells /\ Distance(fid, cells[first].fid) < N
  BY <1>1, <1>2 DEF FitsWith
<1>4. IndexOf(first) \in Nat /\ IndexOf(first) < slotCnt
  BY <1>3, InvTypes, IndexType, Constants DEF Held
<1>5. slotCnt \in Nat /\ slotCnt <= N /\ fidBegin \in Fid /\ fidEnd \in Fid
  BY InvTypes
<1>6. left \in 1 .. slotCnt
  BY <1>4, <1>5
<1>7. added \in 1 .. Half - 1
  <2>1. added \in Nat /\ added # 0 /\ added < Half
    BY <1>5, DistanceType DEF IsLater
  <2> QED BY <2>1, Constants
<1>8. cells[first].fid = Ahead(fidBegin, IndexOf(first)) /\ cells[first].fid \in Fid
  BY <1>3, <1>4, InvTypes DEF CellType
<1>9. Distance(fidEnd, cells[first].fid) = left - 1
  <2>1. fidEnd = Ahead(fidBegin, slotCnt - 1)
    BY InvEnds
  <2>2. IndexOf(first) \in Nat /\ left - 1 \in Nat /\ IndexOf(first) + (left - 1) = slotCnt - 1
    BY <1>4, <1>5
  <2>3. slotCnt - 1 < FidMod /\ left - 1 < FidMod
    BY <1>4, <1>5, Constants
  <2>4. Ahead(cells[first].fid, left - 1) = Ahead(fidBegin, slotCnt - 1)
    BY <2>2, <2>3, <1>5, <1>8, AheadTwice
  <2> QED BY <2>1, <2>2, <2>3, <2>4, <1>8, DistanceOfAhead
<1>10. Distance(fid, cells[first].fid) = left - 1 + added
  <2>1. left - 1 + added < FidMod
    BY <1>5, <1>6, <1>7, Constants
  <2> QED BY <2>1, <1>5, <1>8, <1>9, DistanceAdds
<1>11. left + added <= N
  BY <1>3, <1>6, <1>7, <1>10, <1>5, Constants
<1> QED BY <1>3, <1>6, <1>7, <1>11

(* Insert of a later id moves the window, with its evictions.              *)
Moves(fid) ==
    LET first == FirstOf(FitsWith(fid))
        left  == slotCnt - IndexOf(first)
        added == Distance(fid, fidEnd)
        isNew(c) == RingDistance(c, first) \in left .. left + added - 1
        nextId(c) == Ahead(fidEnd, RingDistance(c, first) - left + 1)
    IN
    /\ IsLater(fid, fidEnd)
    /\ FitsWith(fid) # {}
    /\ slotBegin' = first
    /\ slotCnt' = left + added
    /\ cells' = [c \in Cells |->
          IF isNew(c) THEN [empty |-> nextId(c) # fid, fid |-> nextId(c)]
                      ELSE cells[c]]
    /\ fidBegin' = cells[first].fid
    /\ fidEnd' = fid
    /\ frmCnt' = frmCnt - Cardinality(HeldBefore(first)) + 1
    /\ out' = Result("insert", TRUE, TRUE, Fids(HeldBefore(first)))
    /\ UNCHANGED failedIn

(* Insert of an id after the last one fails only when that id is not later *)
(* than it; else it starts the queue anew or moves the window.             *)
LEMMA InsertAfterCases ==
    ASSUME Inv, NEW fid \in Fid, InsertAfter(fid)
    PROVE  /\ frmCnt > 0 /\ ~IsEarlier(fid, fidBegin) /\ ~IsNotLater(fid, fidEnd)
           /\ \/ ~IsLater(fid, fidEnd) /\ Fail("insert")
              \/ /\ IsLater(fid, fidEnd)
                 /\ FitsWith(fid) = {}
                 /\ StartWith(fid, At(slotCnt))
                 /\ out' = Result("insert", TRUE, TRUE, Fids(Held))
                 /\ UNCHANGED failedIn
              \/ Moves(fid)
<1>1. /\ frmCnt > 0 /\ frmCnt <= slotCnt /\ frmCnt = Cardinality(Held)
      /\ ~IsEarlier(fid, fidBegin) /\ ~IsNotLater(fid, fidEnd)
  BY CountInSlots, InvTypes DEF InsertAfter
<1>2. CASE ~IsLater(fid, fidEnd)
  BY <1>1, <1>2 DEF InsertAfter, MayFree
<1>3. CASE IsLater(fid, fidEnd) /\ FitsWith(fid) = {}
  <2>1. At(slotCnt - 1) \in Held
    BY <1>1, InvEnds
  <2> QED BY <1>1, <1>3, <2>1 DEF InsertAfter, MayFree, RunsOut
<1>4. CASE IsLater(fid, fidEnd) /\ FitsWith(fid) # {}
  <2> DEFINE first == FirstOf(FitsWith(fid))
             E == HeldBefore(first)
  <2>1. slotCnt - IndexOf(first) + Distance(fid, fidEnd) <= N /\ first \in Held
    BY <1>1, <1>4, AfterShape
  <2>2. E \in SUBSET (Held \ {first})
    BY <2>1, HeldCells, InvTypes, IndexType, Constants DEF HeldBefore
  <2>3. IsFiniteSet(Held) /\ Cardinality(Held) \in Nat
    BY HeldCells, CellsFinite, InvTypes
  <2>4. /\ IsFiniteSet(Held \ {first})
        /\ Cardinality(Held \ {first}) = Cardinality(Held) - 1
    <3> HIDE DEF first
    <3> QED BY <2>1, <2>3, FS_RemoveElement
  <2>5. Cardinality(E) <= Cardinality(Held) - 1 /\ Cardinality(E) \in Nat
    <3> HIDE DEF first, E
    <3> QED BY <2>2, <2>4, FS_Subset, FS_CardinalityType
  <2>6. frmCnt > Cardinality(E)
    BY <1>1, <2>3, <2>5
  <2> QED BY <1>1, <1>4, <2>1, <2>6 DEF InsertAfter, MayFree, Moves
<1> QED BY <1>2, <1>3, <1>4

(* A window that moves keeps the invariant.                                *)
LEMMA MovesKeeps ==
    ASSUME Inv, NEW fid \in Fid, frmCnt > 0, Moves(fid), failedIn \in FailType
    PROVE  Inv' /\ Fids(Held)' = Fids(Held \ HeldBefore(FirstOf(FitsWith(fid)))) \cup {fid}
<1> DEFINE fits    == FitsWith(fid)
           first   == FirstOf(fits)
           evicted == HeldBefore(first)
           left    == slotCnt - IndexOf(first)
           added   == Distance(fid, fidEnd)
           isNew(c) == RingDistance(c, first) \in left .. left + added - 1
           nextId(c) == Ahead(fidEnd, RingDistance(c, first) - left + 1)
<1>4. /\ IsLater(fid, fidEnd)
      /\ fits # {}
      /\ slotBegin' = first
      /\ slotCnt' = left + added
      /\ cells' = [c \in Cells |->
            IF isNew(c) THEN [empty |-> nextId(c) # fid, fid |-> nextId(c)]
                        ELSE cells[c]]
      /\ fidBegin' = cells[first].fid
      /\ fidEnd' = fid
      /\ frmCnt' = frmCnt - Cardinality(evicted) + 1
      /\ out' = Result("insert", TRUE, TRUE, Fids(evicted))
      /\ UNCHANGED failedIn
  BY DEF Moves
<1> DEFINE dist(c) == RingDistance(c, first)
           stay    == Held \ evicted
<1>5. /\ first \in Held
      /\ left \in 1 .. slotCnt
      /\ added \in 1 .. Half - 1
      /\ left + added <= N
  BY <1>4, AfterShape
<1>6. /\ slotBegin \in Cells /\ slotCnt \in Nat /\ slotCnt <= N
      /\ fidBegin \in Fid /\ fidEnd \in Fid
      /\ cells \in [Cells -> CellType]
  BY InvTypes
<1>7. first \in Cells
  BY <1>5, HeldCells
<1>8. /\ \A c \in Cells : IndexOf(c) \in Nat /\ IndexOf(c) < N
      /\ \A c \in Cells : dist(c) \in Nat /\ dist(c) < N
  BY <1>6, <1>7, IndexType, RingDistanceType, Constants
<1>9. left \in Nat /\ added \in Nat /\ 0 < left /\ 0 < added /\ added < Half
  BY <1>5, <1>6, Constants
<1>10. IndexOf(first) \in Nat /\ IndexOf(first) + left = slotCnt
  BY <1>6, <1>7, <1>8
<1>11. \A c \in Cells : dist(c) = IF IndexOf(c) >= IndexOf(first)
                                 THEN IndexOf(c) - IndexOf(first)
                                 ELSE IndexOf(c) - IndexOf(first) + N
  BY <1>6, <1>7, MovedIndex
<1>12. \A c \in Cells : dist(c) < left
          <=> IndexOf(c) >= IndexOf(first) /\ IndexOf(c) < slotCnt
  BY <1>6, <1>7, <1>8, <1>10, <1>11, Constants
<1>13. ASSUME NEW c \in Cells, isNew(c)
      PROVE  /\ nextId(c) = Ahead(cells[first].fid, dist(c))
             /\ nextId(c) \in Fid
             /\ nextId(c) = fid <=> dist(c) = left + added - 1
  <2> DEFINE n == dist(c) - left + 1
  <2>1. n \in Nat /\ 0 < n /\ n <= added /\ dist(c) >= left
    BY <1>13, <1>8, <1>9
  <2>2. n < FidMod /\ n <= FidMod /\ added < FidMod
    BY <2>1, <1>9, Constants
  <2>3. nextId(c) \in Fid
    BY <2>1, <2>2, <1>6, AheadType
  <2>4. fid = Ahead(fidEnd, added)
    BY <1>6, AheadOfDistance
  <2>5. nextId(c) = fid <=> n = added
    BY <2>1, <2>2, <2>4, <1>6, <1>9, AheadInjective
  <2>6. n = added <=> dist(c) = left + added - 1
    BY <2>1, <1>8, <1>9
  <2>7. slotCnt - 1 \in Nat /\ slotCnt - 1 + n = IndexOf(first) + dist(c)
    BY <1>6, <1>8, <1>9, <1>10
  <2>8. IndexOf(first) + dist(c) < FidMod
    BY <1>7, <1>8, Constants
  <2>9. fidEnd = Ahead(fidBegin, slotCnt - 1)
    BY InvEnds
  <2>10. nextId(c) = Ahead(fidBegin, IndexOf(first) + dist(c))
    BY <2>1, <2>7, <2>8, <2>9, <1>6, AheadTwice
  <2>11. cells[first].fid = Ahead(fidBegin, IndexOf(first))
    BY <1>7, <1>9, <1>10, InvTypes
  <2>12. Ahead(cells[first].fid, dist(c)) = Ahead(fidBegin, IndexOf(first) + dist(c))
    BY <2>8, <2>11, <1>6, <1>8, <1>10, AheadTwice
  <2> QED BY <2>3, <2>5, <2>6, <2>10, <2>12
<1>14. ASSUME NEW c \in Cells, dist(c) < left
       PROVE  cells[c].fid = Ahead(cells[first].fid, dist(c))
  <2>1. IndexOf(c) >= IndexOf(first) /\ IndexOf(c) < slotCnt
    BY <1>12, <1>14
  <2>2. dist(c) \in Nat /\ IndexOf(first) + dist(c) = IndexOf(c)
    BY <2>1, <1>8, <1>10, <1>11
  <2>3. cells[first].fid = Ahead(fidBegin, IndexOf(first))
    BY <1>7, <1>9, <1>10, InvTypes
  <2>4. IndexOf(c) < FidMod
    BY <1>8, Constants
  <2>5. Ahead(cells[first].fid, dist(c)) = Ahead(fidBegin, IndexOf(c))
    BY <2>2, <2>3, <2>4, <1>6, <1>10, AheadTwice
  <2>6. cells[c].fid = Ahead(fidBegin, IndexOf(c))
    BY <2>1, InvTypes
  <2> QED BY <2>5, <2>6
<1>15. PICK last \in Cells : dist(last) = left + added - 1
  <2>1. left + added - 1 \in 0 .. N - 1
    BY <1>5, <1>9, Constants
  <2> QED BY <2>1, <1>7, CellAtDistance
<1>16. isNew(last) /\ nextId(last) = fid
  <2>1. isNew(last)
    BY <1>9, <1>15
  <2> QED BY <2>1, <1>13, <1>15
<1>17. \A c \in Cells : cells'[c] = IF isNew(c) THEN [empty |-> nextId(c) # fid, fid |-> nextId(c)]
                                               ELSE cells[c]
  BY <1>4
<1>31. \A c \in Cells : isNew(c) => (~cells'[c].empty <=> nextId(c) = fid) /\ cells'[c].fid = nextId(c)
  <2> SUFFICES ASSUME NEW c \in Cells, isNew(c)
               PROVE  (~cells'[c].empty <=> nextId(c) = fid) /\ cells'[c].fid = nextId(c)
    OBVIOUS
  <2>1. cells'[c] = [empty |-> nextId(c) # fid, fid |-> nextId(c)]
    BY <1>17
  <2> HIDE DEF isNew, nextId
  <2>a. \A b, f : [empty |-> b, fid |-> f].empty = b
    OBVIOUS
  <2>2. cells'[c].empty = (nextId(c) # fid)
    BY <2>1, <2>a, Zenon
  <2>3. cells'[c].fid = nextId(c)
    BY <2>1
  <2> QED BY <2>2, <2>3, Zenon
<1>18. cells' \in [Cells -> CellType]
  <2>1. \A c \in Cells : (IF isNew(c) THEN [empty |-> nextId(c) # fid, fid |-> nextId(c)]
                                     ELSE cells[c]) \in CellType
    <3> TAKE c \in Cells
    <3>1. CASE isNew(c)
      <4>1. nextId(c) \in Fid
        BY <3>1, <1>13
      <4> HIDE DEF nextId, isNew
      <4> QED BY <3>1, <4>1 DEF CellType
    <3>2. CASE ~isNew(c)
      BY <3>2, <1>6
    <3> QED BY <3>1, <3>2
  <2> HIDE DEF nextId, isNew
  <2> QED BY <2>1, <1>4
<1>19. \A c \in Cells : dist(c) < slotCnt' => (dist(c) < left \/ isNew(c))
  BY <1>4, <1>8, <1>9
<1>20. \A c \in Cells : RingDistance(c, slotBegin') < slotCnt'
            => cells'[c].fid = Ahead(fidBegin', RingDistance(c, slotBegin'))
  <2> TAKE c \in Cells
  <2>1. CASE isNew(c)
    BY <2>1, <1>13, <1>17, <1>4
  <2>2. CASE dist(c) < left
    <3>1. ~isNew(c)
      BY <2>2, <1>8, <1>9
    <3> QED BY <2>2, <3>1, <1>14, <1>17, <1>4
  <2> QED BY <2>1, <2>2, <1>19, <1>4
<1>21. stay \in SUBSET Cells /\ \A c \in Cells : c \in stay <=> dist(c) < left /\ ~cells[c].empty
  <2>1. \A c \in Cells : c \in evicted <=> c \in Held /\ ~(IndexOf(c) >= IndexOf(first))
    BY <1>7, <1>8 DEF HeldBefore
  <2>2. \A c \in Cells : c \in Held <=> IndexOf(c) < slotCnt /\ ~cells[c].empty
    BY DEF Held
  <2>3. \A c \in Cells : c \in stay <=> c \in Held /\ c \notin evicted
    OBVIOUS
  <2>4. stay \in SUBSET Cells
    BY HeldCells
  <2> HIDE DEF stay, evicted, dist, first
  <2> QED BY <2>1, <2>2, <2>3, <2>4, <1>12
<1>22. Held' = stay \cup {last}
  <2>1. ASSUME NEW c \in Cells
        PROVE  dist(c) < slotCnt' /\ ~cells'[c].empty <=> c \in stay \cup {last}
    <3>1. CASE isNew(c)
      <4>1. dist(c) < slotCnt' /\ ~(dist(c) < left)
        BY <3>1, <1>4, <1>8, <1>9
      <4>2. ~cells'[c].empty <=> dist(c) = left + added - 1
        BY <3>1, <1>13, <1>31
      <4>3. dist(c) = left + added - 1 <=> c = last
        <5>2. \A d, e \in Cells : dist(d) = dist(e) => d = e
          BY <1>7, Constants DEF RingDistance, Cells
        <5> QED BY <5>2, <1>15
      <4>4. c \notin stay
        BY <4>1, <1>21
      <4> QED BY <4>1, <4>2, <4>3, <4>4
    <3>2. CASE dist(c) < left
      <4>1. ~isNew(c) /\ dist(c) < slotCnt'
        BY <3>2, <1>4, <1>8, <1>9
      <4>2. c # last
        BY <4>1, <1>16
      <4>3. ~cells'[c].empty <=> c \in stay
        BY <3>2, <4>1, <1>17, <1>21
      <4> QED BY <4>1, <4>2, <4>3
    <3>3. CASE ~isNew(c) /\ ~(dist(c) < left)
      <4>1. ~(dist(c) < slotCnt')
        BY <3>3, <1>19
      <4>2. c \notin stay /\ c # last
        BY <3>3, <1>21, <1>16
      <4> QED BY <4>1, <4>2
    <3> QED BY <3>1, <3>2, <3>3
  <2>2. Held' = {c \in Cells : dist(c) < slotCnt' /\ ~cells'[c].empty}
    BY <1>4 DEF Held, IndexOf
  <2>3. stay \cup {last} \in SUBSET Cells
    BY <1>21
  <2> HIDE DEF stay, dist
  <2> QED BY <2>1, <2>2, <2>3
<1>23. frmCnt' = Cardinality(Held')
  <2>1. evicted \in SUBSET Held
    BY DEF HeldBefore
  <2>2. IsFiniteSet(Held) /\ frmCnt = Cardinality(Held)
    BY HeldCells, CellsFinite, InvTypes
  <2>3. IsFiniteSet(stay) /\ Cardinality(stay) = Cardinality(Held) - Cardinality(evicted)
    <3>1. evicted \cup stay = Held /\ evicted \cap stay = {}
      BY <2>1
    <3>2. IsFiniteSet(evicted) /\ IsFiniteSet(stay)
      BY <2>1, <2>2, FS_Subset
    <3>3. Cardinality(evicted) \in Nat /\ Cardinality(stay) \in Nat
      BY <3>2, FS_CardinalityType
    <3> HIDE DEF stay, evicted
    <3>4. Cardinality(Held) = Cardinality(evicted) + Cardinality(stay) - Cardinality(evicted \cap stay)
      BY <3>1, <3>2, FS_Union
    <3>5. Cardinality(evicted \cap stay) = 0
      BY <3>1, FS_EmptySet
    <3> QED BY <3>2, <3>3, <3>4, <3>5
  <2>4. last \notin stay
    <3>1. ~(dist(last) < left)
      BY <1>16, <1>8, <1>9
    <3> QED BY <3>1, <1>21
  <2> HIDE DEF stay, evicted
  <2>5. Cardinality(stay \cup {last}) = Cardinality(stay) + 1
    BY <2>3, <2>4, FS_AddElement
  <2> QED BY <2>2, <2>3, <2>5, <1>22, <1>4
<1>24. slotCnt' \in 1 .. N
  BY <1>4, <1>9, <1>5, Constants
<1>25. ~cells'[first].empty
  <2>1. dist(first) = 0
    BY <1>7, SelfDistance
  <2>2. ~isNew(first)
    BY <2>1, <1>9
  <2>3. ~cells[first].empty
    BY <1>5 DEF Held
  <2> QED BY <2>2, <2>3, <1>7, <1>17
<1>26. ~cells'[last].empty /\ cells'[last].fid = fid
  BY <1>16, <1>31
<1>27. out' \in OutType /\ failedIn' \in FailType
  <2>1. evicted \in SUBSET Cells
    BY HeldCells DEF HeldBefore
  <2>2. Fids(evicted) \in SUBSET Fid
    BY <2>1, FidsType DEF Inv
  <2> QED BY <1>4, <2>2 DEF Result, OutType
<1>28. cells[first].fid \in Fid
  BY <1>6, <1>7 DEF CellType
<1>29. RingDistance(last, slotBegin') = slotCnt' - 1
  BY <1>4, <1>9, <1>15
<1>30. /\ slotBegin' \in Cells /\ fidBegin' \in Fid /\ fidEnd' \in Fid
       /\ ~cells'[slotBegin'].empty
       /\ fidEnd' = cells'[last].fid
  BY <1>4, <1>7, <1>25, <1>26, <1>28
<1>32. Fids(Held)' = Fids(stay) \cup {fid}
  <2>1. \A c \in stay : cells'[c].fid = cells[c].fid
    <3> TAKE c \in stay
    <3>1. c \in Cells /\ dist(c) < left
      BY <1>21
    <3>2. ~isNew(c)
      BY <3>1, <1>8, <1>9
    <3> QED BY <3>1, <3>2, <1>17
  <2> HIDE DEF stay
  <2> QED BY <2>1, <1>22, <1>26 DEF Fids
<1>33. SUFFICES Inv' /\ Fids(Held)' = Fids(stay) \cup {fid}
  OBVIOUS
<1> HIDE DEF first, left, added, isNew, nextId, dist, stay, evicted
<1> QED BY <1>18, <1>20, <1>23, <1>24, <1>26, <1>27, <1>29, <1>30, <1>32, NewShape

(* Insert of a later id keeps the invariant.                               *)
LEMMA InsertAfterKeeps ==
    ASSUME Inv, NEW fid \in Fid, InsertAfter(fid), failedIn \in FailType
    PROVE  /\ Inv'
           /\ \/ Fail("insert")
              \/ FitsWith(fid) = {} /\ Fids(Held)' = {fid}
              \/ Moves(fid)
<1>1. frmCnt > 0
  BY InsertAfterCases
<1>2. CASE Fail("insert")
  BY <1>2, FailKeeps DEF FailType
<1>3. CASE /\ FitsWith(fid) = {}
           /\ StartWith(fid, At(slotCnt))
           /\ out' = Result("insert", TRUE, TRUE, Fids(Held))
           /\ UNCHANGED failedIn
  <2>1. At(slotCnt) \in Cells
    BY InvTypes, Constants DEF At, Cells
  <2>2. Fids(Held) \in SUBSET Fid
    BY HeldCells, FidsType DEF Inv
  <2>3. out' \in OutType /\ failedIn' \in FailType
    BY <1>3, <2>2 DEF Result, OutType
  <2> QED BY <1>3, <2>1, <2>3, StartWithKeeps
<1>4. CASE Moves(fid)
  BY <1>1, <1>4, MovesKeeps
<1> QED BY <1>2, <1>3, <1>4, InsertAfterCases

-----------------------------------------------------------------------------
(* Remove and Reset.                                                       *)

(* A queue that gives back all its slots.                                  *)
LEMMA ClearKeeps ==
    ASSUME Inv, Clear, cells' \in [Cells -> CellType], UNCHANGED <<fidBegin, fidEnd>>,
           out' \in OutType, failedIn' \in FailType
    PROVE  Inv' /\ Fids(Held)' = {}
<1>1. slotBegin' = 0 /\ slotCnt' = 0 /\ frmCnt' = 0
  BY DEF Clear
<1>2. 0 \in Cells /\ 0 \in 0 .. N
  BY Constants DEF Cells
<1>3. TypeOK'
  BY <1>1, <1>2, InvTypes DEF TypeOK, CellType, OutType, FailType
<1>4. \A c \in Cells : ~(RingDistance(c, 0) < 0)
  BY <1>2, RingDistanceType, Constants
<1>5. Held' = {}
  BY <1>1, <1>4 DEF Held, IndexOf
<1>6. SlotsContiguous'
  BY <1>1, <1>4 DEF SlotsContiguous, IndexOf
<1>7. EndsHeld' /\ CountExact'
  BY <1>1, <1>5, FS_EmptySet DEF EndsHeld, CountExact
<1>8. Fids(Held)' = {}
  BY <1>5 DEF Fids
<1> QED BY <1>3, <1>6, <1>7, <1>8 DEF Inv

(* Reset finds as many slots as frames, or none.                           *)
LEMMA ResetRuns ==
    ASSUME Inv, Reset
    PROVE  /\ Clear
           /\ out' = Result("reset", FALSE, FALSE, Fids(Held))
           /\ UNCHANGED <<cells, fidBegin, fidEnd, failedIn>>
<1>1. IF frmCnt > 0 THEN slotCnt >= frmCnt ELSE slotCnt = 0
  BY CountInSlots, InvTypes
<1> QED BY <1>1 DEF Reset

(* Reset keeps the invariant.                                              *)
LEMMA ResetKeeps ==
    ASSUME Inv, Reset, failedIn \in FailType
    PROVE  Inv' /\ Fids(Held)' = {}
<1>1. Fids(Held) \in SUBSET Fid
  BY HeldCells, FidsType DEF Inv
<1>2. out' \in OutType /\ failedIn' \in FailType
  <2>1. out' = Result("reset", FALSE, FALSE, Fids(Held)) /\ failedIn' = failedIn
    BY ResetRuns
  <2> QED BY <1>1, <2>1 DEF Result, OutType
<1>3. cells' \in [Cells -> CellType]
  BY InvTypes, ResetRuns
<1> QED BY <1>2, <1>3, ClearKeeps, ResetRuns

(* The assertions of At(fid) hold.                                         *)
LEMMA InRangeCarries ==
    ASSUME Inv, NEW fid \in Fid, InRange(fid)
    PROVE  SlotCarries(fid)
<1>1. frmCnt > 0 /\ IsNotEarlier(fid, fidBegin) /\ IsNotLater(fid, fidEnd)
  BY DEF InRange
<1>2. ~IsEarlier(fid, fidBegin)
  <2>1. fid \in Fid /\ fidBegin \in Fid
    BY InvTypes
  <2> QED BY <1>1, <2>1, Constants DEF IsNotEarlier, IsEarlier, Distance, Fid
<1> QED BY <1>1, <1>2, InsideCarries

(* A frame At finds is in the used slots and held.                         *)
LEMMA IsHeldSlot ==
    ASSUME Inv, NEW fid \in Fid, IsHeld(fid)
    PROVE  LET c == At(Distance(fid, fidBegin))
           IN  /\ frmCnt > 0
               /\ c \in Held /\ c \in Cells
               /\ IndexOf(c) < slotCnt
               /\ cells[c].fid = fid
<1> DEFINE d == Distance(fid, fidBegin)
<1>1. frmCnt > 0 /\ d < slotCnt /\ cells[At(d)].fid = fid /\ ~cells[At(d)].empty
  BY DEF IsHeld, InRange, SlotCarries
<1>2. d \in Nat /\ slotCnt \in Nat /\ slotCnt <= N
  BY InvTypes, DistanceType
<1>3. d \in 0 .. N - 1
  BY <1>1, <1>2, Constants
<1>4. At(d) \in Cells /\ IndexOf(At(d)) = d
  BY <1>3, InvTypes, AtType
<1> HIDE DEF d
<1> QED BY <1>1, <1>4 DEF Held, d

(* Removing an id that is not held does nothing.                           *)
LEMMA RemoveNothingRuns ==
    ASSUME Inv, NEW fid \in Fid, RemoveNothing(fid)
    PROVE  /\ ~IsHeld(fid)
           /\ out' = Result("remove", FALSE, FALSE, {})
           /\ UNCHANGED <<ring, fidBegin, fidEnd, frmCnt, failedIn>>
<1>1. InRange(fid) => SlotCarries(fid)
  BY InRangeCarries
<1> QED BY <1>1 DEF RemoveNothing

(* Removing an id that is not held keeps the invariant.                    *)
LEMMA RemoveNothingKeeps ==
    ASSUME Inv, NEW fid \in Fid, RemoveNothing(fid), failedIn \in FailType
    PROVE  Inv' /\ Fids(Held)' = Fids(Held)
<1>1. out' \in OutType /\ failedIn' \in FailType
  <2>1. out' = Result("remove", FALSE, FALSE, {}) /\ failedIn' = failedIn
    BY RemoveNothingRuns
  <2> QED BY <2>1 DEF Result, OutType
<1> QED BY <1>1, SameQueueKeeps, RemoveNothingRuns DEF ring

(* Removing the only frame keeps the invariant.                            *)
LEMMA RemoveOnlyKeeps ==
    ASSUME Inv, NEW fid \in Fid, RemoveOnly(fid), failedIn \in FailType
    PROVE  Inv' /\ (Fids(Held)' = {} \/ Fail("remove"))
<1> DEFINE c == At(Distance(fid, fidBegin))
<1>1. CASE Fail("remove")
  BY <1>1, FailKeeps DEF FailType
<1>2. CASE /\ Clear
           /\ cells' = [cells EXCEPT ![c].empty = TRUE]
           /\ out' = Result("remove", TRUE, FALSE, {fid})
           /\ UNCHANGED <<fidBegin, fidEnd, failedIn>>
  <2>1. out' \in OutType /\ failedIn' \in FailType
    BY <1>2 DEF Result, OutType
  <2>2. cells' \in [Cells -> CellType]
    BY <1>2, InvTypes DEF CellType
  <2> QED BY <1>2, <2>1, <2>2, ClearKeeps
<1> QED BY <1>1, <1>2 DEF RemoveOnly

(* When one of several frames is removed another one is held.              *)
LEMMA OthersHeld ==
    ASSUME Inv, NEW fid \in Fid, IsHeld(fid), frmCnt > 1
    PROVE  LET c == At(Distance(fid, fidBegin))
           IN  /\ c \in Held /\ c \in Cells /\ cells[c].fid = fid
               /\ Held # {c} /\ Held \ {c} # {}
               /\ frmCnt - 1 = Cardinality(Held \ {c})
<1> DEFINE c == At(Distance(fid, fidBegin))
<1>1. c \in Held /\ c \in Cells /\ cells[c].fid = fid
  BY IsHeldSlot
<1> HIDE DEF c
<1>2. IsFiniteSet(Held) /\ frmCnt = Cardinality(Held) /\ frmCnt \in Nat
  BY HeldCells, CellsFinite, InvTypes
<1>3. Cardinality(Held \ {c}) = Cardinality(Held) - 1
  BY <1>1, <1>2, FS_RemoveElement
<1>4. Held \ {c} # {}
  <2>1. Cardinality(Held \ {c}) # 0
    BY <1>2, <1>3
  <2> QED BY <2>1, FS_EmptySet
<1>5. Held # {c}
  BY <1>4
<1> QED BY <1>1, <1>2, <1>3, <1>4, <1>5 DEF c

(* The frame with the id fidBegin is in the first slot, and the one with   *)
(* the id fidEnd in the last.                                              *)
LEMMA EndSlots ==
    ASSUME Inv, frmCnt > 0
    PROVE  /\ At(Distance(fidBegin, fidBegin)) = slotBegin
           /\ At(Distance(fidEnd, fidBegin)) = At(slotCnt - 1)
<1>1. Distance(fidBegin, fidBegin) = 0
  BY InvTypes, DistanceType
<1>2. At(0) = slotBegin
  BY InvTypes, Constants DEF At, Cells
<1> QED BY <1>1, <1>2, InvEnds

(* Removing one of several frames: no assertion fails, and the slots up to *)
(* the next frame held are given back.                                     *)
LEMMA RemoveOneOfManyRuns ==
    ASSUME Inv, NEW fid \in Fid, RemoveOneOfMany(fid)
    PROVE  LET c == At(Distance(fid, fidBegin))
               C == Held \ {c}
           IN  /\ IsHeld(fid) /\ frmCnt > 1
               /\ cells' = [cells EXCEPT ![c].empty = TRUE]
               /\ frmCnt' = frmCnt - 1
               /\ out' = Result("remove", TRUE, FALSE, {fid})
               /\ failedIn' = failedIn
               /\ \/ /\ fid = fidBegin
                     /\ slotBegin' = FirstOf(C)
                     /\ slotCnt' = slotCnt - IndexOf(FirstOf(C))
                     /\ fidBegin' = cells[FirstOf(C)].fid
                     /\ UNCHANGED fidEnd
                  \/ /\ fid # fidBegin
                     /\ fid = fidEnd
                     /\ slotCnt' = IndexOf(LastOf(C)) + 1
                     /\ fidEnd' = cells[LastOf(C)].fid
                     /\ UNCHANGED <<slotBegin, fidBegin>>
                  \/ /\ fid \notin {fidBegin, fidEnd}
                     /\ UNCHANGED <<slotBegin, slotCnt, fidBegin, fidEnd>>
<1> DEFINE c == At(Distance(fid, fidBegin))
           C == Held \ {c}
           isFirst == fid = fidBegin
           isLast  == fid # fidBegin /\ fid = fidEnd
           first   == IF isFirst THEN FirstOf(C) ELSE slotBegin
           cnt     == IF isLast THEN IndexOf(LastOf(C)) + 1 ELSE slotCnt - IndexOf(first)
           last    == IF isLast THEN LastOf(C) ELSE At(slotCnt - 1)
<1>1. IsHeld(fid) /\ frmCnt > 1 /\ frmCnt > 0
  BY CountInSlots DEF RemoveOneOfMany
<1>2. c \in Held /\ Held # {c} /\ C # {} /\ frmCnt - 1 = Cardinality(C) /\ C \in SUBSET Held
  BY <1>1, OthersHeld
<1>3. (isFirst => c = slotBegin) /\ (isLast => c = At(slotCnt - 1))
  BY <1>1, EndSlots
<1>4. /\ slotBegin \in Held /\ IndexOf(slotBegin) = 0 /\ slotBegin \in Cells
      /\ At(slotCnt - 1) \in Held /\ IndexOf(At(slotCnt - 1)) = slotCnt - 1
      /\ slotCnt \in Nat
  BY <1>1, InvEnds, InvTypes
<1>5. \A d \in Held : /\ d \in Cells /\ IndexOf(d) \in 0 .. N - 1
                      /\ IndexOf(d) \in Nat /\ IndexOf(d) < slotCnt
  BY InvTypes, IndexType, Constants DEF Held
<1>6. C \in SUBSET Cells
  BY <1>2, <1>5
<1>7. FirstOf(C) \in C /\ \A d \in C : IndexOf(FirstOf(C)) <= IndexOf(d)
  <2> HIDE DEF C
  <2> QED BY <1>2, <1>4, <1>6, FirstIsFirst
<1>8. LastOf(C) \in C /\ \A d \in C : IndexOf(LastOf(C)) >= IndexOf(d)
  <2> HIDE DEF C
  <2> QED BY <1>2, <1>4, <1>6, LastIsLast
<1>9. frmCnt - 1 <= cnt
  <2>1. first \in Held /\ last \in Held
    BY <1>2, <1>4, <1>7, <1>8
  <2>2. \A d \in C : IndexOf(first) <= IndexOf(d) /\ IndexOf(d) <= IndexOf(last)
    BY <1>2, <1>4, <1>5, <1>7, <1>8
  <2>3. IndexOf(first) \in 0 .. N - 1 /\ IndexOf(last) \in 0 .. N - 1
    BY <1>5, <2>1
  <2>4. PICK d : d \in C
    BY <1>2
  <2>5. IndexOf(first) <= IndexOf(last)
    BY <1>2, <1>5, <2>1, <2>2, <2>4
  <2>6. Cardinality(C) <= IndexOf(last) - IndexOf(first) + 1
    <3> HIDE DEF C, first, last
    <3> QED BY <1>4, <1>6, <2>2, <2>3, <2>5, CellsBetween
  <2>7. IndexOf(last) - IndexOf(first) + 1 = cnt
    <3>1. CASE isLast
      <4>1. first = slotBegin /\ last = LastOf(C) /\ cnt = IndexOf(LastOf(C)) + 1
        BY <3>1
      <4> QED BY <4>1, <1>4, <1>5, <2>1
    <3>2. CASE ~isLast
      <4>1. last = At(slotCnt - 1) /\ cnt = slotCnt - IndexOf(first)
        BY <3>2
      <4>2. IndexOf(first) \in Nat
        BY <1>5, <2>1
      <4> HIDE DEF first
      <4> QED BY <4>1, <4>2, <1>4
    <3> QED BY <3>1, <3>2
  <2> QED BY <1>2, <2>6, <2>7
<1>10. /\ cells' = [cells EXCEPT ![c].empty = TRUE]
       /\ frmCnt' = frmCnt - 1
       /\ slotBegin' = first
       /\ slotCnt' = cnt
       /\ fidBegin' = IF isFirst THEN cells[first].fid ELSE fidBegin
       /\ fidEnd' = IF isLast THEN cells[LastOf(C)].fid ELSE fidEnd
       /\ out' = Result("remove", TRUE, FALSE, {fid})
       /\ failedIn' = failedIn
  BY <1>2, <1>3, <1>9 DEF RemoveOneOfMany
<1>11. IndexOf(slotBegin) = 0 /\ slotCnt - 0 = slotCnt
  BY <1>4
<1> HIDE DEF c, C
<1> QED BY <1>1, <1>10, <1>11 DEF c, C

(* Removing one of several frames keeps the invariant.                     *)
LEMMA RemoveOneOfManyKeeps ==
    ASSUME Inv, NEW fid \in Fid, RemoveOneOfMany(fid), failedIn \in FailType
    PROVE  Inv' /\ Fids(Held)' = Fids(Held \ {At(Distance(fid, fidBegin))})
<1> DEFINE c == At(Distance(fid, fidBegin))
           C == Held \ {c}
           lastSlot == At(slotCnt - 1)
<1> SUFFICES Inv' /\ Fids(Held)' = Fids(C)
  OBVIOUS
<1>1. IsHeld(fid) /\ frmCnt > 1
  BY DEF RemoveOneOfMany
<1>2. frmCnt > 0 /\ c \in Held /\ c \in Cells /\ cells[c].fid = fid
  BY <1>1, IsHeldSlot
<1>3. /\ cells' = [cells EXCEPT ![c].empty = TRUE]
      /\ frmCnt' = frmCnt - 1
      /\ out' = Result("remove", TRUE, FALSE, {fid})
      /\ failedIn' = failedIn
  BY RemoveOneOfManyRuns
<1>4. C \in SUBSET Cells
  BY HeldCells
<1>5. frmCnt' = Cardinality(C) /\ C # {}
  BY <1>1, <1>3, OthersHeld
<1>6. /\ cells' \in [Cells -> CellType]
      /\ \A d \in Cells : cells'[d].fid = cells[d].fid
      /\ \A d \in Cells : cells'[d].empty = (d = c \/ cells[d].empty)
  BY <1>2, <1>3, InvTypes DEF CellType
<1>7. \A d \in Cells : IndexOf(d) < slotCnt => (~cells'[d].empty <=> d \in C)
  BY <1>6 DEF Held
<1>8. out' \in OutType /\ failedIn' \in FailType
  BY <1>3 DEF Result, OutType
<1>9. /\ slotBegin \in Held /\ IndexOf(slotBegin) = 0 /\ cells[slotBegin].fid = fidBegin
      /\ lastSlot \in Held /\ IndexOf(lastSlot) = slotCnt - 1 /\ cells[lastSlot].fid = fidEnd
  BY <1>2, InvEnds
<1>10. \A d \in Held : d \in Cells /\ IndexOf(d) \in Nat /\ IndexOf(d) < slotCnt
  BY InvTypes, IndexType, Constants DEF Held
<1>11. slotBegin \in Cells /\ slotCnt \in Nat
  BY InvTypes
<1>12. ASSUME NEW first \in C, NEW last \in C,
              \A d \in C : IndexOf(first) <= IndexOf(d) /\ IndexOf(d) <= IndexOf(last),
              slotBegin' = first, slotCnt' = IndexOf(last) - IndexOf(first) + 1,
              fidBegin' = cells[first].fid, fidEnd' = cells[last].fid
       PROVE  Inv' /\ Fids(Held)' = Fids(C)
  <2>1. TrimmedTo(C, first, last)
    BY <1>5, <1>6, <1>7, <1>12 DEF TrimmedTo
  <2>2. \A d \in C : /\ IndexOf(first) <= IndexOf(d) /\ IndexOf(d) <= IndexOf(last)
                     /\ IndexOf(d) < slotCnt
    BY <1>10, <1>12
  <2> HIDE DEF C, c
  <2> QED BY <1>4, <1>8, <1>12, <2>1, <2>2, TrimmedKeeps
<1>13. \A d \in C : d \in Held /\ d # c
  OBVIOUS
<1>14. CASE /\ fid = fidBegin
            /\ slotBegin' = FirstOf(C)
            /\ slotCnt' = slotCnt - IndexOf(FirstOf(C))
            /\ fidBegin' = cells[FirstOf(C)].fid
            /\ UNCHANGED fidEnd
  <2>1. FirstOf(C) \in C /\ \A d \in C : IndexOf(FirstOf(C)) <= IndexOf(d)
    <3> HIDE DEF C
    <3> QED BY <1>4, <1>5, <1>11, FirstIsFirst
  <2>2. c = slotBegin
    BY <1>2, <1>14, EndSlots
  <2>3. lastSlot # c
    <3> SUFFICES ASSUME lastSlot = c PROVE FALSE
      OBVIOUS
    <3>1. slotCnt = 1
      BY <2>2, <1>9, <1>11
    <3>2. IndexOf(FirstOf(C)) = 0
      BY <2>1, <3>1, <1>10
    <3>3. FirstOf(C) = slotBegin
      BY <2>1, <3>2, <1>9, <1>10, <1>11, IndexInjective
    <3> QED BY <2>1, <2>2, <3>3
  <2>4. lastSlot \in C
    BY <2>3, <1>9
  <2>5. slotCnt' = IndexOf(lastSlot) - IndexOf(FirstOf(C)) + 1
    BY <2>1, <1>9, <1>10, <1>11, <1>14
  <2>6. \A d \in C : IndexOf(d) <= IndexOf(lastSlot)
    BY <1>9, <1>10, <1>11
  <2> HIDE DEF C, lastSlot, c
  <2> QED BY <2>1, <2>4, <2>5, <2>6, <1>9, <1>12, <1>14
<1>15. CASE /\ fid # fidBegin
            /\ fid = fidEnd
            /\ slotCnt' = IndexOf(LastOf(C)) + 1
            /\ fidEnd' = cells[LastOf(C)].fid
            /\ UNCHANGED <<slotBegin, fidBegin>>
  <2>1. LastOf(C) \in C /\ \A d \in C : IndexOf(LastOf(C)) >= IndexOf(d)
    <3> HIDE DEF C
    <3> QED BY <1>4, <1>5, <1>11, LastIsLast
  <2>2. slotBegin \in C
    BY <1>2, <1>9, <1>15
  <2>3. slotCnt' = IndexOf(LastOf(C)) - IndexOf(slotBegin) + 1
    BY <2>1, <1>9, <1>10, <1>15
  <2>4. \A d \in C : IndexOf(slotBegin) <= IndexOf(d) /\ IndexOf(d) <= IndexOf(LastOf(C))
    BY <2>1, <1>9, <1>10
  <2> HIDE DEF C, lastSlot, c
  <2> QED BY <2>1, <2>2, <2>3, <2>4, <1>9, <1>12, <1>15
<1>16. CASE /\ fid \notin {fidBegin, fidEnd}
            /\ UNCHANGED <<slotBegin, slotCnt, fidBegin, fidEnd>>
  <2>1. slotBegin \in C /\ lastSlot \in C
    BY <1>2, <1>9, <1>16
  <2>2. slotCnt' = IndexOf(lastSlot) - IndexOf(slotBegin) + 1
    BY <1>9, <1>11, <1>16
  <2>3. \A d \in C : IndexOf(slotBegin) <= IndexOf(d) /\ IndexOf(d) <= IndexOf(lastSlot)
    BY <1>9, <1>10, <1>11
  <2> HIDE DEF C, lastSlot, c
  <2> QED BY <2>1, <2>2, <2>3, <1>9, <1>12, <1>16
<1> QED BY <1>14, <1>15, <1>16, RemoveOneOfManyRuns

-----------------------------------------------------------------------------
(* LoopFrames.                                                             *)

(* While the count is exact, the loop only ends early at a stop.           *)
LEMMA VisitedIs ==
    ASSUME Inv, NEW res
    PROVE  /\ Visited(res) = {c \in Held : \A d \in Held :
                                  IsStop(res[d]) => IndexOf(c) <= IndexOf(d)}
           /\ Visited(res) \in SUBSET Held
           /\ Deleted(res) \in SUBSET Held
<1>1. ASSUME NEW c \in Held
      PROVE  Cardinality(DeletedBefore(c, res)) < frmCnt
  <2>1. IsFiniteSet(Held) /\ frmCnt = Cardinality(Held) /\ frmCnt \in Nat
    BY HeldCells, CellsFinite, InvTypes
  <2>2. IndexOf(c) \in Nat
    BY HeldCells, InvTypes, IndexType, Constants
  <2>3. DeletedBefore(c, res) \in SUBSET (Held \ {c})
    BY <2>2 DEF DeletedBefore
  <2>4. IsFiniteSet(Held \ {c}) /\ Cardinality(Held \ {c}) = Cardinality(Held) - 1
    BY <2>1, FS_RemoveElement
  <2>5. Cardinality(DeletedBefore(c, res)) <= Cardinality(Held \ {c})
    BY <2>3, <2>4, FS_Subset
  <2>6. Cardinality(DeletedBefore(c, res)) \in Nat
    BY <2>3, <2>4, FS_Subset, FS_CardinalityType
  <2> QED BY <2>1, <2>4, <2>5, <2>6
<1> QED BY <1>1 DEF Visited, Deleted

(* The count of frames reaches zero when all of them are deleted.          *)
LEMMA AllDeleted ==
    ASSUME Inv, NEW res
    PROVE  Cardinality(Deleted(res)) = frmCnt <=> Deleted(res) = Held
<1>1. IsFiniteSet(Held) /\ frmCnt = Cardinality(Held)
  BY HeldCells, CellsFinite, InvTypes
<1> QED BY <1>1, VisitedIs, FS_Subset

(* A loop over a queue that holds a frame finds it in the first slot.      *)
LEMMA LoopEntersRuns ==
    ASSUME Inv, frmCnt > 0
    PROVE  LoopEnters
BY InvEnds, CountInSlots DEF LoopEnters, Held

(* A loop over an empty queue does nothing.                                *)
LEMMA LoopNothingRuns ==
    ASSUME Inv, LoopNothing
    PROVE  /\ frmCnt = 0
           /\ out' = Result("loop", FALSE, FALSE, {})
           /\ UNCHANGED <<ring, fidBegin, fidEnd, frmCnt, failedIn>>
BY InvTypes DEF LoopNothing

(* A loop over an empty queue keeps the invariant.                         *)
LEMMA LoopNothingKeeps ==
    ASSUME Inv, LoopNothing, failedIn \in FailType
    PROVE  Inv' /\ Fids(Held)' = Fids(Held)
<1>1. out' \in OutType /\ failedIn' \in FailType
  <2>1. out' = Result("loop", FALSE, FALSE, {}) /\ failedIn' = failedIn
    BY LoopNothingRuns
  <2> QED BY <2>1 DEF Result, OutType
<1> QED BY <1>1, SameQueueKeeps, LoopNothingRuns DEF ring

(* A loop that deletes every frame: the frame fidEnd is the last one       *)
(* visited, and the queue gives back all its slots.                        *)
LEMMA LoopDeletesAllRuns ==
    ASSUME Inv, NEW res \in [Held -> VisitorRes], LoopDeletesAll(res)
    PROVE  /\ Clear
           /\ cells' = [c \in Cells |-> [cells[c] EXCEPT !.empty = @ \/ c \in Deleted(res)]]
           /\ out' = Result("loop", FALSE, FALSE, Fids(Held))
           /\ UNCHANGED <<fidBegin, fidEnd, failedIn>>
<1> DEFINE V == Visited(res)
           last == At(slotCnt - 1)
<1>1. frmCnt > 0 /\ Deleted(res) = Held
  BY CountInSlots, AllDeleted DEF LoopDeletesAll
<1>2. LoopEnters
  BY <1>1, LoopEntersRuns
<1>3. V = Held
  BY <1>1, VisitedIs DEF Deleted
<1>4. /\ last \in Held /\ IndexOf(last) = slotCnt - 1 /\ cells[last].fid = fidEnd
      /\ slotBegin \in Cells /\ slotCnt \in Nat /\ slotCnt <= N /\ slotCnt > 0
  BY <1>1, InvEnds, InvTypes, Constants
<1>5. \A c \in Held : c \in Cells /\ IndexOf(c) \in 0 .. N - 1 /\ IndexOf(c) < slotCnt
  BY HeldCells, InvTypes, IndexType DEF Held
<1>6. ASSUME NEW c \in Held, cells[c].fid = fidEnd PROVE c = LastOf(Held)
  <2>1. cells[c].fid = Ahead(fidBegin, IndexOf(c)) /\ cells[last].fid = Ahead(fidBegin, IndexOf(last))
    BY <1>4, <1>5, InvTypes
  <2>2. IndexOf(c) \in Nat /\ IndexOf(c) < FidMod /\ IndexOf(last) \in Nat /\ IndexOf(last) < FidMod
    BY <1>4, <1>5, Constants
  <2>3. IndexOf(c) = IndexOf(last)
    BY <1>4, <1>6, <2>1, <2>2, InvTypes, AheadInjective
  <2>4. LastOf(Held) \in Held /\ IndexOf(LastOf(Held)) >= IndexOf(c)
    BY <1>4, HeldCells, LastIsLast
  <2>5. IndexOf(LastOf(Held)) = IndexOf(c)
    BY <1>4, <1>5, <2>3, <2>4
  <2> QED BY <1>4, <1>5, <2>4, <2>5, IndexInjective
<1> QED BY <1>1, <1>2, <1>3, <1>6 DEF LoopDeletesAll

(* A loop that deletes every frame keeps the invariant.                    *)
LEMMA LoopDeletesAllKeeps ==
    ASSUME Inv, NEW res \in [Held -> VisitorRes], LoopDeletesAll(res), failedIn \in FailType
    PROVE  Inv' /\ Fids(Held)' = {}
<1>1. Fids(Held) \in SUBSET Fid
  BY HeldCells, FidsType DEF Inv
<1>2. out' \in OutType /\ failedIn' \in FailType
  <2>1. out' = Result("loop", FALSE, FALSE, Fids(Held)) /\ failedIn' = failedIn
    BY LoopDeletesAllRuns
  <2> QED BY <1>1, <2>1 DEF Result, OutType
<1>3. cells' \in [Cells -> CellType]
  <2>1. cells' = [c \in Cells |-> [cells[c] EXCEPT !.empty = @ \/ c \in Deleted(res)]]
    BY LoopDeletesAllRuns
  <2>2. \A c \in Cells : cells[c] \in [empty : BOOLEAN, fid : Fid]
    BY InvTypes DEF CellType
  <2> QED BY <2>1, <2>2 DEF CellType
<1> QED BY <1>2, <1>3, ClearKeeps, LoopDeletesAllRuns

(* A caller's visitor deletes a front part of the queue: a frame stays,    *)
(* and every frame that stays comes at or after the first one visited and  *)
(* kept.  In particular the last frame stays.                              *)
LEMMA CallerKeepsSuffix ==
    ASSUME Inv, NEW res \in [Held -> VisitorRes], CallerVisitor(res), Deleted(res) # Held
    PROVE  LET first == FirstOf(Kept(res))
           IN  /\ frmCnt > 0
               /\ Deleted(res) \in SUBSET Held
               /\ Kept(res) # {} /\ Kept(res) \in SUBSET Held
               /\ first \in Held \ Deleted(res)
               /\ \A c \in Held \ Deleted(res) : IndexOf(first) <= IndexOf(c)
               /\ At(slotCnt - 1) \in Held \ Deleted(res)
<1> DEFINE C == Held \ Deleted(res)
           first == FirstOf(Kept(res))
<1>0. Visited(res) = {c \in Held : \A d \in Held : IsStop(res[d]) => IndexOf(c) <= IndexOf(d)}
  BY VisitedIs
<1>1. Deleted(res) \in SUBSET Held /\ Kept(res) \in SUBSET Held /\ Visited(res) \in SUBSET Held
  BY VisitedIs DEF Kept
<1>2. \A c \in Held : c \in Cells /\ IndexOf(c) \in Nat
  BY HeldCells, InvTypes, IndexType, Constants
<1>3. C # {} /\ Held # {}
  BY <1>1
<1>4. frmCnt > 0
  <2>1. IsFiniteSet(Held) /\ frmCnt = Cardinality(Held) /\ frmCnt \in Nat
    BY HeldCells, CellsFinite, InvTypes
  <2>2. frmCnt # 0
    BY <1>3, <2>1, FS_EmptySet
  <2> QED BY <2>1, <2>2
<1>5. \A c \in Held : IsStop(res[c]) => ~IsDeleted(res[c])
  BY DEF CallerVisitor, IsStop, IsDeleted
<1>6. \A c, d \in Held : IsDeleted(res[c]) /\ IndexOf(d) < IndexOf(c) => IsDeleted(res[d])
  BY DEF CallerVisitor
<1>7. \A c \in Kept(res) : c \in Visited(res) /\ ~IsDeleted(res[c])
  BY DEF Kept, Deleted
<1>8. Kept(res) # {}
  <2> SUFFICES ASSUME Kept(res) = {} PROVE FALSE
    OBVIOUS
  <2>1. \A c \in Visited(res) : IsDeleted(res[c])
    BY DEF Kept, Deleted
  <2> DEFINE Stops == {c \in Held : IsStop(res[c])}
  <2>2. CASE Stops = {}
    <3>1. Visited(res) = Held
      BY <1>0, <2>2
    <3> QED BY <3>1, <2>1 DEF Deleted
  <2>3. CASE Stops # {}
    <3>1. Stops \in SUBSET Cells
      BY <1>2
    <3> HIDE DEF Stops
    <3>2. FirstOf(Stops) \in Stops /\ \A d \in Stops : IndexOf(FirstOf(Stops)) <= IndexOf(d)
      BY <2>3, <3>1, InvTypes, FirstIsFirst
    <3>3. FirstOf(Stops) \in Visited(res)
      BY <1>0, <3>2 DEF Stops
    <3>4. ~IsDeleted(res[FirstOf(Stops)])
      BY <3>2, <1>5 DEF Stops
    <3> QED BY <3>3, <3>4, <2>1
  <2> QED BY <2>2, <2>3
<1>9. first \in Kept(res) /\ \A d \in Kept(res) : IndexOf(first) <= IndexOf(d)
  <2>1. Kept(res) \in SUBSET Cells
    BY <1>1, <1>2
  <2> QED BY <2>1, <1>8, InvTypes, FirstIsFirst
<1>10. first \in Held /\ first \in Visited(res) /\ ~IsDeleted(res[first])
  BY <1>1, <1>7, <1>9
<1>11. first \in C
  BY <1>10 DEF Deleted
<1>12. ASSUME NEW c \in C PROVE IndexOf(first) <= IndexOf(c)
  <2>1. CASE c \in Visited(res)
    BY <2>1, <1>9 DEF Kept
  <2>2. CASE c \notin Visited(res)
    <3>1. PICK d \in Held : IsStop(res[d]) /\ ~(IndexOf(c) <= IndexOf(d))
      BY <1>0, <2>2
    <3>2. IndexOf(first) <= IndexOf(d)
      BY <1>0, <3>1, <1>10
    <3> QED BY <3>1, <3>2, <1>2, <1>10
  <2> QED BY <2>1, <2>2
<1>13. At(slotCnt - 1) \in C
  <2> DEFINE last == At(slotCnt - 1)
  <2>1. last \in Held /\ IndexOf(last) = slotCnt - 1
    BY <1>4, InvEnds
  <2>2. \A c \in Held : IndexOf(c) < slotCnt
    BY DEF Held
  <2> SUFFICES ASSUME last \in Deleted(res) PROVE FALSE
    BY <2>1
  <2>3. IsDeleted(res[last])
    BY DEF Deleted
  <2>4. first # last
    BY <2>3, <1>10
  <2>5. IndexOf(first) # IndexOf(last)
    BY <2>1, <2>4, <1>2, <1>10, InvTypes, IndexInjective
  <2>6. IndexOf(first) < IndexOf(last)
    BY <2>1, <2>2, <2>5, <1>2, <1>10, InvTypes
  <2> QED BY <2>1, <2>3, <2>6, <1>6, <1>10
<1> QED BY <1>1, <1>4, <1>8, <1>11, <1>12, <1>13

(* With such a visitor no assertion of LoopFrames fails, and the queue is  *)
(* cut down to the frames that stay.                                       *)
LEMMA LoopKeepsSomeTrims ==
    ASSUME Inv, NEW res \in [Held -> VisitorRes], CallerVisitor(res), LoopKeepsSome(res)
    PROVE  /\ TrimmedTo(Held \ Deleted(res), FirstOf(Kept(res)), At(slotCnt - 1))
           /\ out' = Result("loop", FALSE, FALSE, Fids(Deleted(res)))
           /\ out' \in OutType
           /\ failedIn' = failedIn
<1> DEFINE C     == Held \ Deleted(res)
           first == FirstOf(Kept(res))
           last  == At(slotCnt - 1)
<1>1. Deleted(res) # Held
  BY AllDeleted DEF LoopKeepsSome
<1>2. /\ frmCnt > 0
      /\ Deleted(res) \in SUBSET Held
      /\ Kept(res) # {}
      /\ first \in C
      /\ \A c \in C : IndexOf(first) <= IndexOf(c)
      /\ last \in C
  BY <1>1, CallerKeepsSuffix
<1>3. \A c \in Held : c \in Cells /\ IndexOf(c) \in 0 .. N - 1 /\ IndexOf(c) < slotCnt
  BY HeldCells, InvTypes, IndexType DEF Held
<1>4. At(IndexOf(first)) = first
  BY <1>2, <1>3, InvTypes, AtOfIndex
<1>5. slotCnt \in Nat /\ slotCnt <= N /\ IndexOf(last) = slotCnt - 1 /\ cells[last].fid = fidEnd
  BY <1>2, InvTypes, InvEnds
<1>6. IndexOf(first) \in Nat /\ IndexOf(first) < slotCnt
  BY <1>2, <1>3, Constants
<1>7. IsNotLater(cells[first].fid, fidEnd)
  <2>1. cells[first].fid = Ahead(fidBegin, IndexOf(first)) /\ first \in Cells
    BY <1>2, <1>3, InvTypes
  <2>2. fidEnd = Ahead(fidBegin, slotCnt - 1) /\ fidBegin \in Fid
    BY <1>2, InvEnds, InvTypes
  <2>3. IndexOf(first) <= slotCnt - 1 /\ slotCnt - 1 < Half
    BY <1>5, <1>6, Constants
  <2> QED BY <2>1, <2>2, <2>3, <1>5, <1>6, Constants DEF IsNotLater, Distance, Ahead, Fid
<1>8. frmCnt - Cardinality(Deleted(res)) = Cardinality(C)
  <2>1. IsFiniteSet(Held) /\ frmCnt = Cardinality(Held)
    BY HeldCells, CellsFinite, InvTypes
  <2>2. IsFiniteSet(C) /\ IsFiniteSet(Deleted(res))
    BY <1>2, <2>1, FS_Subset
  <2>3. Cardinality(C) \in Nat /\ Cardinality(Deleted(res)) \in Nat
    BY <2>2, FS_CardinalityType
  <2>4. C \cup Deleted(res) = Held /\ C \cap Deleted(res) = {}
    BY <1>2
  <2> HIDE DEF C
  <2>5. Cardinality(Held) = Cardinality(C) + Cardinality(Deleted(res))
                                - Cardinality(C \cap Deleted(res))
    BY <2>2, <2>4, FS_Union
  <2>6. Cardinality(C \cap Deleted(res)) = 0
    BY <2>4, FS_EmptySet
  <2> QED BY <2>1, <2>3, <2>5, <2>6
<1>9. Cardinality(C) <= slotCnt - IndexOf(first)
  <2>1. C \in SUBSET Cells
    BY HeldCells
  <2>2. IndexOf(first) \in 0 .. N - 1 /\ IndexOf(last) \in 0 .. N - 1
    BY <1>2, <1>3
  <2>3. IndexOf(first) <= IndexOf(last)
    BY <1>2
  <2>4. \A c \in C : IndexOf(c) <= IndexOf(last)
    BY <1>3, <1>5, Constants
  <2>5. slotBegin \in Cells
    BY InvTypes
  <2> HIDE DEF C, first, last
  <2>6. Cardinality(C) <= IndexOf(last) - IndexOf(first) + 1
    BY <2>1, <2>2, <2>3, <2>4, <2>5, <1>2, CellsBetween
  <2>7. IndexOf(last) - IndexOf(first) + 1 = slotCnt - IndexOf(first)
    BY <1>5, <1>6
  <2> QED BY <2>6, <2>7
<1>10. /\ cells' = [c \in Cells |-> [cells[c] EXCEPT !.empty = @ \/ c \in Deleted(res)]]
       /\ slotBegin' = first
       /\ slotCnt' = slotCnt - IndexOf(first)
       /\ fidBegin' = cells[first].fid
       /\ fidEnd' = fidEnd
       /\ frmCnt' = Cardinality(C)
       /\ out' = Result("loop", FALSE, FALSE, Fids(Deleted(res)))
       /\ failedIn' = failedIn
  <2>1. last \notin Deleted(res) /\ first \in Held \ Deleted(res)
    BY <1>2
  <2>2. LoopEnters
    BY <1>2, LoopEntersRuns
  <2>3. \A c \in Held : cells[c].fid = fidEnd => c = last
    <3> SUFFICES ASSUME NEW c \in Held, cells[c].fid = fidEnd PROVE c = last
      OBVIOUS
    <3>1. /\ cells[c].fid = Ahead(fidBegin, IndexOf(c))
          /\ cells[last].fid = Ahead(fidBegin, IndexOf(last)) /\ last \in Held
      BY <1>2, <1>3, InvTypes
    <3>2. /\ IndexOf(c) \in Nat /\ IndexOf(c) < FidMod
          /\ IndexOf(last) \in Nat /\ IndexOf(last) < FidMod
      BY <1>3, <3>1, Constants
    <3>3. IndexOf(c) = IndexOf(last)
      BY <1>5, <3>1, <3>2, InvTypes, AheadInjective
    <3> QED BY <1>3, <3>1, <3>3, InvTypes, IndexInjective
  <2>4. ~ \E c \in Deleted(res) : cells[c].fid = fidEnd
    BY <1>2, <2>1, <2>3
  <2>5. frmCnt - Cardinality(Deleted(res)) > 0
    <3>1. IsFiniteSet(C) /\ C # {}
      BY <1>2, HeldCells, CellsFinite
    <3>2. Cardinality(C) \in Nat /\ Cardinality(C) # 0
      <4> HIDE DEF C
      <4> QED BY <3>1, FS_CardinalityType, FS_EmptySet
    <3> QED BY <1>8, <3>2
  <2>6. \A c \in Visited(res) : cells[c].fid = fidEnd =>
           Kept(res) # {} /\ frmCnt - Cardinality(Deleted(res)) > 0 /\ c = last
    BY <1>2, <2>3, <2>5, VisitedIs
  <2> DEFINE emptyAtBegin == IndexOf(first)
  <2> QED BY <1>2, <1>4, <1>6, <1>7, <1>8, <1>9, <2>1, <2>2, <2>4, <2>6 DEF LoopKeepsSome
<1>11. Fids(Deleted(res)) \in SUBSET Fid
  <2>1. Deleted(res) \in SUBSET Cells
    BY <1>2, <1>3
  <2> QED BY <2>1, FidsType DEF Inv
<1>12. out' \in OutType
  BY <1>10, <1>11 DEF Result, OutType
<1>13. /\ cells' \in [Cells -> CellType]
       /\ \A c \in Cells : cells'[c].fid = cells[c].fid
       /\ \A c \in Cells : cells'[c].empty <=> cells[c].empty \/ c \in Deleted(res)
  <2>1. \A c \in Cells : cells[c] \in [empty : BOOLEAN, fid : Fid]
    BY InvTypes DEF CellType
  <2>2. cells' = [c \in Cells |-> [cells[c] EXCEPT !.empty = @ \/ c \in Deleted(res)]]
    BY <1>10
  <2> QED BY <2>1, <2>2 DEF CellType
<1>14. \A c \in Cells : IndexOf(c) < slotCnt => (~cells'[c].empty <=> c \in C)
  BY <1>13 DEF Held
<1>15. slotCnt' = IndexOf(last) - IndexOf(first) + 1
  BY <1>5, <1>6, <1>10
<1>16. TrimmedTo(C, first, last)
  <2> HIDE DEF C, first, last
  <2> QED BY <1>5, <1>10, <1>13, <1>14, <1>15 DEF TrimmedTo
<1> QED BY <1>10, <1>12, <1>16

(* A loop that keeps some frames keeps the invariant.                      *)
LEMMA LoopKeepsSomeKeeps ==
    ASSUME Inv, NEW res \in [Held -> VisitorRes], CallerVisitor(res), LoopKeepsSome(res),
           failedIn \in FailType
    PROVE  Inv' /\ Fids(Held)' = Fids(Held \ Deleted(res))
<1> DEFINE C     == Held \ Deleted(res)
           first == FirstOf(Kept(res))
           last  == At(slotCnt - 1)
<1> SUFFICES Inv' /\ Fids(Held)' = Fids(C)
  OBVIOUS
<1>1. TrimmedTo(C, first, last) /\ out' \in OutType /\ failedIn' = failedIn
  BY LoopKeepsSomeTrims
<1>2. Deleted(res) # Held
  BY AllDeleted DEF LoopKeepsSome
<1>3. first \in C /\ last \in C /\ frmCnt > 0 /\ \A c \in C : IndexOf(first) <= IndexOf(c)
  BY <1>2, CallerKeepsSuffix
<1>4. \A c \in C : c \in Cells /\ IndexOf(c) \in Nat /\ IndexOf(c) < slotCnt
  BY HeldCells, InvTypes, IndexType, Constants DEF Held
<1>5. \A c \in C : IndexOf(c) <= IndexOf(last)
  BY <1>3, <1>4, InvTypes, InvEnds
<1>6. C \in SUBSET Cells
  BY HeldCells
<1> HIDE DEF C, first, last
<1> QED BY <1>1, <1>3, <1>4, <1>5, <1>6, TrimmedKeeps

-----------------------------------------------------------------------------
(* The invariant holds in every reachable state.                           *)

(* The invariant holds initially.                                          *)
LEMMA InitInv == Init => Inv
<1> SUFFICES ASSUME Init PROVE Inv
  OBVIOUS
<1>1. /\ slotBegin = 0 /\ slotCnt = 0 /\ frmCnt = 0 /\ failedIn = "none"
      /\ cells = [c \in Cells |-> [empty |-> FALSE, fid |-> 0]]
      /\ fidBegin \in Fid /\ fidEnd \in Fid
      /\ out = Result("none", FALSE, FALSE, {})
  BY DEF Init
<1>2. 0 \in Cells /\ 0 \in 0 .. N /\ 0 \in Fid
  BY Constants DEF Cells, Fid
<1>3. TypeOK
  BY <1>1, <1>2 DEF TypeOK, Result
<1>4. \A c \in Cells : ~(IndexOf(c) < slotCnt)
  BY <1>1, <1>2, IndexType, Constants
<1>5. Held = {}
  BY <1>4 DEF Held
<1>6. SlotsContiguous /\ EndsHeld /\ CountExact
  BY <1>1, <1>4, <1>5, FS_EmptySet DEF SlotsContiguous, EndsHeld, CountExact
<1> QED BY <1>3, <1>6 DEF Inv

(* Every step keeps the invariant.                                         *)
LEMMA NextInv == Inv /\ [Next]_vars => Inv'
<1> SUFFICES ASSUME Inv, [Next]_vars PROVE Inv'
  OBVIOUS
<1>1. failedIn \in FailType
  BY DEF Inv, TypeOK, FailType
<1>2. CASE UNCHANGED vars
  <2>1. out' \in OutType /\ failedIn' \in FailType
    BY <1>2 DEF vars, Inv, TypeOK, OutType, FailType
  <2> QED BY <1>2, <2>1, SameQueueKeeps DEF vars, ring
<1>3. ASSUME NEW fid \in Fid, Insert(fid) PROVE Inv'
  BY <1>1, <1>3, InsertFirstKeeps, InsertTooOldKeeps, InsertInsideKeeps, InsertAfterKeeps DEF Insert
<1>4. ASSUME NEW fid \in Fid, Remove(fid) PROVE Inv'
  BY <1>1, <1>4, RemoveNothingKeeps, RemoveOnlyKeeps, RemoveOneOfManyKeeps DEF Remove
<1>5. CASE Reset
  BY <1>1, <1>5, ResetKeeps
<1>6. ASSUME NEW res \in [Held -> VisitorRes], CallerVisitor(res), LoopFrames(res) PROVE Inv'
  BY <1>1, <1>6, LoopNothingKeeps, LoopDeletesAllKeeps, LoopKeepsSomeKeeps DEF LoopFrames
<1> QED BY <1>2, <1>3, <1>4, <1>5, <1>6 DEF Next, Operate

(* The ring of slots stays well formed: types, consecutive ids from        *)
(* fidBegin, frames at both ends, an exact count, through every sequence   *)
(* of Insert, Remove, Reset and LoopFrames.                                *)
THEOREM InvHolds == Spec => []Inv
BY InitInv, NextInv, PTL DEF Spec

(* Every variable of the queue keeps its type.                             *)
THEOREM TypeHolds == Spec => []TypeOK
<1>1. Inv => TypeOK
  BY DEF Inv
<1> QED BY <1>1, InvHolds, PTL

(* The ring keeps its shape: indexing by the distance from fidBegin finds  *)
(* the slot of that frame, a queue that holds a frame holds one in its     *)
(* first and its last slot, and _frmCnt is the number of frames held.      *)
THEOREM RingKeepsShape == Spec => []RingShape
<1>1. Inv => RingShape
  BY DEF Inv, RingShape
<1> QED BY <1>1, InvHolds, PTL

-----------------------------------------------------------------------------
(* Which assertions can fail.                                              *)

(* Neither before the first frame, nor up to the last, nor after it: the   *)
(* queue holds one frame and the id is half a turn away from it.           *)
LEMMA InsertAfterFailsAtHalfTurn ==
    ASSUME Inv, NEW fid \in Fid, InsertAfter(fid), failedIn' # failedIn
    PROVE  /\ frmCnt \in 1 .. slotCnt
           /\ ~IsLater(fid, fidEnd)
           /\ Distance(fid, fidBegin) = Half
<1>1. /\ frmCnt > 0 /\ ~IsEarlier(fid, fidBegin) /\ ~IsNotLater(fid, fidEnd)
      /\ ~IsLater(fid, fidEnd)
  BY InsertAfterCases DEF Moves
<1>2. frmCnt \in 1 .. slotCnt
  BY <1>1, CountInSlots
<1>3. slotCnt \in Nat /\ slotCnt <= N /\ 0 < slotCnt
  BY <1>1, InvEnds, Constants
<1>4. Distance(fidEnd, fidBegin) = slotCnt - 1
  BY <1>1, InvEnds
<1>5. fidBegin \in Fid /\ fidEnd \in Fid
  BY InvTypes
<1> QED BY <1>1, <1>2, <1>3, <1>4, <1>5, Constants
        DEF IsEarlier, IsNotLater, IsLater, Distance, Fid

(* The only frame removed is the first and the last one.                   *)
LEMMA RemoveOnlyRuns ==
    ASSUME Inv, NEW fid \in Fid, RemoveOnly(fid)
    PROVE  failedIn' = failedIn
<1> DEFINE c == At(Distance(fid, fidBegin))
<1>1. frmCnt = 1 /\ IsHeld(fid)
  BY DEF RemoveOnly
<1>2. c \in Held /\ cells[c].fid = fid
  BY <1>1, IsHeldSlot
<1>3. /\ slotBegin \in Held /\ cells[slotBegin].fid = fidBegin
      /\ At(slotCnt - 1) \in Held /\ cells[At(slotCnt - 1)].fid = fidEnd
  BY <1>1, InvEnds
<1>4. PICK x : Held = {x}
  BY <1>1, HeldCells, CellsFinite, InvTypes, FS_Singleton
<1>5. fid = fidBegin /\ fid = fidEnd
  BY <1>2, <1>3, <1>4
<1> QED BY <1>5 DEF RemoveOnly

(* A step that fails is an Insert half a turn away.                        *)
LEMMA OnlyHalfTurnStep == Inv /\ [Next]_vars =>
    [failedIn' = "none" \/ \E fid \in Fid : /\ InsertAfter(fid)
                                          /\ frmCnt \in 1 .. slotCnt
                                          /\ ~IsLater(fid, fidEnd)
                                          /\ Distance(fid, fidBegin) = Half]_vars
<1> DEFINE HalfTurn(fid) == /\ InsertAfter(fid)
                            /\ frmCnt \in 1 .. slotCnt
                            /\ ~IsLater(fid, fidEnd)
                            /\ Distance(fid, fidBegin) = Half
<1> SUFFICES ASSUME Inv, Next
             PROVE  failedIn' = failedIn \/ \E fid \in Fid : HalfTurn(fid)
  BY DEF Next
<1>1. ASSUME NEW fid \in Fid, Insert(fid)
      PROVE  failedIn' = failedIn \/ HalfTurn(fid)
  <2>1. CASE InsertFirst(fid)
    BY <2>1, InsertFirstRuns
  <2>2. CASE InsertTooOld(fid)
    BY <2>2 DEF InsertTooOld
  <2>3. CASE InsertInside(fid)
    BY <2>3, InsertInsideRuns
  <2>4. CASE InsertAfter(fid)
    BY <2>4, InsertAfterFailsAtHalfTurn
  <2> QED BY <1>1, <2>1, <2>2, <2>3, <2>4 DEF Insert
<1>2. ASSUME NEW fid \in Fid, Remove(fid) PROVE failedIn' = failedIn
  <2>1. CASE RemoveNothing(fid)
    BY <2>1, RemoveNothingRuns
  <2>2. CASE RemoveOnly(fid)
    BY <2>2, RemoveOnlyRuns
  <2>3. CASE RemoveOneOfMany(fid)
    BY <2>3, RemoveOneOfManyRuns
  <2> QED BY <1>2, <2>1, <2>2, <2>3 DEF Remove
<1>3. CASE Reset
  BY <1>3, ResetRuns
<1>4. ASSUME NEW res \in [Held -> VisitorRes], CallerVisitor(res), LoopFrames(res)
      PROVE  failedIn' = failedIn
  <2>1. CASE LoopNothing
    BY <2>1, LoopNothingRuns
  <2>2. CASE LoopDeletesAll(res)
    BY <2>2, LoopDeletesAllRuns
  <2>3. CASE LoopKeepsSome(res)
    BY <2>3, <1>4, LoopKeepsSomeTrims
  <2> QED BY <1>4, <2>1, <2>2, <2>3 DEF LoopFrames
<1> QED BY <1>1, <1>2, <1>3, <1>4 DEF Next, Operate

(* With the visitors of this code base no assertion of the queue or of its *)
(* ring fails but IsLater(fid, _fidEnd) of FreeSlotForNewFrame, and it     *)
(* only fails for an id half a turn away from the first one.               *)
THEOREM OnlyHalfTurnEverFails == Spec => OnlyHalfTurnFails
BY InvHolds, OnlyHalfTurnStep, PTL DEF Spec, OnlyHalfTurnFails

-----------------------------------------------------------------------------
(* The ring implements the window of ids.                                  *)

(* The frames held have consecutive ids, so no two the same.               *)
LEMMA HeldIds ==
    ASSUME Inv
    PROVE  /\ \A c \in Held : /\ c \in Cells /\ cells[c].fid \in Fid
                              /\ IndexOf(c) \in Nat /\ IndexOf(c) < slotCnt
                              /\ cells[c].fid = Ahead(fidBegin, IndexOf(c))
           /\ \A c, d \in Cells :
                 IndexOf(c) <= IndexOf(d) /\ IndexOf(d) < slotCnt =>
                    Distance(cells[d].fid, cells[c].fid) = IndexOf(d) - IndexOf(c)
           /\ \A c, d \in Cells :
                 IndexOf(c) < slotCnt /\ IndexOf(d) < slotCnt /\ cells[c].fid = cells[d].fid => c = d
<1>1. /\ slotBegin \in Cells /\ slotCnt \in Nat /\ slotCnt <= N
      /\ fidBegin \in Fid /\ cells \in [Cells -> CellType]
  BY InvTypes
<1>2. \A c \in Cells : IndexOf(c) \in Nat /\ IndexOf(c) < N
  BY <1>1, IndexType, Constants
<1>3. \A c \in Cells : IndexOf(c) < slotCnt => cells[c].fid = Ahead(fidBegin, IndexOf(c))
  BY InvTypes
<1>4. \A c \in Cells : cells[c].fid \in Fid
  BY <1>1 DEF CellType
<1>5. ASSUME NEW c \in Cells, NEW d \in Cells,
             IndexOf(c) <= IndexOf(d), IndexOf(d) < slotCnt
      PROVE  Distance(cells[d].fid, cells[c].fid) = IndexOf(d) - IndexOf(c)
  <2> DEFINE n == IndexOf(d) - IndexOf(c)
  <2>1. n \in Nat /\ IndexOf(c) + n = IndexOf(d) /\ IndexOf(d) < FidMod /\ n < FidMod
    BY <1>1, <1>2, <1>5, Constants
  <2>2. cells[c].fid = Ahead(fidBegin, IndexOf(c)) /\ cells[d].fid = Ahead(fidBegin, IndexOf(d))
    BY <1>1, <1>2, <1>3, <1>5
  <2>3. cells[d].fid = Ahead(cells[c].fid, n)
    BY <1>1, <1>2, <2>1, <2>2, AheadTwice
  <2> QED BY <1>4, <2>1, <2>3, DistanceOfAhead
<1>6. ASSUME NEW c \in Cells, NEW d \in Cells, IndexOf(c) < slotCnt, IndexOf(d) < slotCnt,
             cells[c].fid = cells[d].fid
      PROVE  c = d
  <2>1. IndexOf(c) < FidMod /\ IndexOf(d) < FidMod
    BY <1>1, <1>2, Constants
  <2>2. IndexOf(c) = IndexOf(d)
    BY <1>1, <1>2, <1>3, <1>6, <2>1, AheadInjective
  <2> QED BY <1>1, <2>2, IndexInjective
<1> QED BY <1>2, <1>3, <1>4, <1>5, <1>6 DEF Held

(* The window orders ids as the queue does.                                *)
LEMMA SameOrder ==
    \A a, b : /\ Window!Distance(a, b) = Distance(a, b)
              /\ Window!IsLater(a, b) <=> IsLater(a, b)
              /\ Window!IsEarlier(a, b) <=> IsEarlier(a, b)
              /\ Window!IsNotLater(a, b) <=> IsNotLater(a, b)
BY DEF Window!Distance, Window!IsLater, Window!IsEarlier, Window!IsNotLater, Window!FidMod,
       Distance, IsLater, IsEarlier, IsNotLater, FidMod

(* Frames taken away take their ids away.                                  *)
LEMMA FidsMinus ==
    ASSUME Inv, NEW E \in SUBSET Held
    PROVE  Fids(Held \ E) = Fids(Held) \ Fids(E)
BY HeldIds DEF Fids

(* No frame is counted when none is held.                                  *)
LEMMA HeldIffCounted == Inv => (frmCnt = 0 <=> Held = {})
BY InvTypes, HeldCells, CellsFinite, FS_EmptySet

(* The ends of the window are the ends of the ring: fidBegin is the        *)
(* earliest id held and fidEnd the latest.                                 *)
LEMMA WindowEnds ==
    ASSUME Inv, frmCnt > 0
    PROVE  /\ Window!Earliest(Fids(Held)) = fidBegin
           /\ Window!Latest(Fids(Held)) = fidEnd
<1> DEFINE last == At(slotCnt - 1)
           H == Fids(Held)
<1>1. /\ slotBegin \in Held /\ IndexOf(slotBegin) = 0 /\ cells[slotBegin].fid = fidBegin
      /\ last \in Held /\ IndexOf(last) = slotCnt - 1 /\ cells[last].fid = fidEnd
      /\ slotCnt \in Nat /\ slotCnt <= N
  BY InvEnds, InvTypes
<1>2. \A c \in Held : /\ c \in Cells /\ cells[c].fid \in Fid
                      /\ IndexOf(c) \in Nat /\ IndexOf(c) < slotCnt
  BY HeldIds
<1>3. \A c, d \in Held : IndexOf(c) <= IndexOf(d) =>
         Distance(cells[d].fid, cells[c].fid) = IndexOf(d) - IndexOf(c)
  BY <1>2, HeldIds
<1>4. \A c \in Held : /\ Distance(cells[c].fid, fidBegin) < N
                      /\ Distance(fidEnd, cells[c].fid) < N
  <2> TAKE c \in Held
  <2>1. Distance(cells[c].fid, fidBegin) = IndexOf(c) - 0
    BY <1>1, <1>2, <1>3
  <2>2. Distance(fidEnd, cells[c].fid) = slotCnt - 1 - IndexOf(c)
    BY <1>1, <1>2, <1>3
  <2> QED BY <1>1, <1>2, <2>1, <2>2, Constants
<1>5. \A f, g \in Fid : f # g /\ Distance(f, g) < N => ~(Distance(g, f) < N)
  BY DistanceBack, DistanceType, Constants
<1>6. fidBegin \in H /\ fidEnd \in H /\ H \subseteq Fid
  BY <1>1, <1>2 DEF Fids
<1>7. /\ \A g \in H : Distance(g, fidBegin) < N
      /\ \A f \in H : (\A g \in H : Distance(g, f) < N) => f = fidBegin
  <2>1. \A g \in H : Distance(g, fidBegin) < N
    BY <1>4 DEF Fids
  <2> QED BY <1>5, <1>6, <2>1
<1>8. /\ \A g \in H : Distance(fidEnd, g) < N
      /\ \A f \in H : (\A g \in H : Distance(f, g) < N) => f = fidEnd
  <2>1. \A g \in H : Distance(fidEnd, g) < N
    BY <1>4 DEF Fids
  <2> QED BY <1>5, <1>6, <2>1
<1> HIDE DEF H
<1>9. Window!Earliest(H) = fidBegin
  BY <1>6, <1>7, SameOrder DEF Window!Earliest
<1>10. Window!Latest(H) = fidEnd
  BY <1>6, <1>8, SameOrder DEF Window!Latest
<1> QED BY <1>9, <1>10 DEF H

(* The window refuses, places and moves for the ids the code's guards name.*)
LEMMA WindowGuards ==
    ASSUME Inv, frmCnt > 0, NEW fid \in Fid
    PROVE  /\ Fids(Held) # {}
           /\ Window!TooOld(Fids(Held), fid) <=> IsEarlier(fid, fidBegin)
           /\ Window!IsInside(Fids(Held), fid)
                 <=> ~IsEarlier(fid, fidBegin) /\ IsNotLater(fid, fidEnd)
           /\ Window!IsAfter(Fids(Held), fid)
                 <=> ~IsEarlier(fid, fidBegin) /\ IsLater(fid, fidEnd)
<1>1. Fids(Held) # {}
  BY InvEnds DEF Fids
<1> QED BY <1>1, WindowEnds, SameOrder DEF Window!TooOld, Window!IsInside, Window!IsAfter

(* The ids and the results are the same.                                   *)
LEMMA SameNext ==
    /\ Window!Fid = Fid
    /\ \A op, slot, isnew, freed :
          Window!Result(op, slot, isnew, freed) = Result(op, slot, isnew, freed)
BY DEF Window!Fid, Window!FidMod, Fid, FidMod, Window!Result, Result

(* An empty ring is an empty window.                                       *)
LEMMA InitWindow == Init => Window!Init
<1> SUFFICES ASSUME Init PROVE Window!Init
  OBVIOUS
<1>1. Held = {}
  BY InitInv, HeldIffCounted DEF Init
<1> QED BY <1>1, SameNext DEF Init, Fids, Window!Init

(* The first frame of an empty queue enters the window.                    *)
LEMMA InsertFirstAccepts ==
    ASSUME Inv, NEW fid \in Fid, InsertFirst(fid), failedIn \in FailType
    PROVE  Window!Accept(fid)
<1>1. Fids(Held) = {}
  BY HeldIffCounted, InsertFirstRuns DEF Fids
<1>2. Window!Evicted({}, fid) = {}
  BY DEF Window!Evicted, Window!IsAfter
<1>3. Fids(Held)' = {fid} /\ out' = Result("insert", TRUE, TRUE, {})
  BY InsertFirstKeeps, InsertFirstRuns
<1> QED BY <1>1, <1>2, <1>3, SameNext DEF Window!Accept

(* An id before fidBegin is refused.                                       *)
LEMMA InsertTooOldRefuses ==
    ASSUME Inv, NEW fid \in Fid, InsertTooOld(fid), failedIn \in FailType
    PROVE  Window!Refuse(fid)
<1>1. /\ frmCnt > 0 /\ IsEarlier(fid, fidBegin)
      /\ out' = Result("insert", FALSE, FALSE, {})
  BY CountInSlots DEF InsertTooOld
<1>2. Fids(Held)' = Fids(Held)
  BY InsertTooOldKeeps
<1> QED BY <1>1, <1>2, WindowGuards, SameNext DEF Window!Refuse

(* Insert into a used slot fills a hole, or answers that it is no new one. *)
LEMMA InsertInsideAccepts ==
    ASSUME Inv, NEW fid \in Fid, InsertInside(fid), failedIn \in FailType
    PROVE  Window!Accept(fid)
<1> DEFINE c == At(Distance(fid, fidBegin))
<1>1. frmCnt > 0 /\ ~IsEarlier(fid, fidBegin) /\ IsNotLater(fid, fidEnd)
  BY InsertInsideRuns
<1>2. Distance(fid, fidBegin) \in 0 .. slotCnt - 1
  BY <1>1, InsideIndex
<1>3. c \in Cells /\ IndexOf(c) < slotCnt /\ cells[c].fid = fid
  BY <1>1, <1>2, InsideSlot
<1>5. out' = Result("insert", TRUE, cells[c].empty, {})
  BY InsertInsideRuns
<1>6. cells[c].empty \in BOOLEAN /\ (c \in Held <=> ~cells[c].empty)
  BY <1>3, InvTypes DEF CellType, Held
<1>7. c \in Held <=> fid \in Fids(Held)
  BY <1>3, HeldIds DEF Fids
<1>8. cells[c].empty = (fid \notin Fids(Held))
  BY <1>6, <1>7
<1>9. Fids(Held)' = Fids(Held) \cup {fid}
  BY <1>3, InsertInsideKeeps DEF Fids
<1>10. ~IsLater(fid, fidEnd)
  BY <1>1, InvTypes, Constants DEF IsLater, IsNotLater, Distance, Fid
<1>11. Window!Evicted(Fids(Held), fid) = {} /\ Window!IsInside(Fids(Held), fid)
  BY <1>1, <1>10, WindowGuards DEF Window!Evicted
<1>12. out' = Window!Result("insert", TRUE, fid \notin Fids(Held), {})
  BY <1>5, <1>8, SameNext, Zenon
<1>13. Fids(Held)' = (Fids(Held) \ {}) \cup {fid}
  BY <1>9
<1> HIDE DEF c
<1> QED BY <1>11, <1>12, <1>13, Zenon DEF Window!Accept

(* An id At does not find is none of the window's.                         *)
LEMMA RemoveNothingRemoves ==
    ASSUME Inv, NEW fid \in Fid, RemoveNothing(fid), failedIn \in FailType
    PROVE  Window!Remove(fid)
<1>1. ~IsHeld(fid) /\ out' = Result("remove", FALSE, FALSE, {})
  BY RemoveNothingRuns
<1>2. fid \notin Fids(Held)
  <2> SUFFICES ASSUME NEW c \in Held, cells[c].fid = fid PROVE IsHeld(fid)
    BY <1>1 DEF Fids
  <2>1. frmCnt > 0
    BY HeldIffCounted, InvTypes
  <2>2. /\ slotBegin \in Held /\ IndexOf(slotBegin) = 0 /\ cells[slotBegin].fid = fidBegin
        /\ At(slotCnt - 1) \in Held /\ IndexOf(At(slotCnt - 1)) = slotCnt - 1
        /\ cells[At(slotCnt - 1)].fid = fidEnd
    BY <2>1, InvEnds
  <2>3. \A d \in Held : d \in Cells /\ IndexOf(d) \in Nat /\ IndexOf(d) < slotCnt
    BY HeldIds
  <2>4. slotCnt \in Nat /\ slotCnt <= N /\ slotBegin \in Cells
    BY InvTypes
  <2>5. Distance(fid, fidBegin) = IndexOf(c) - 0
    BY <2>2, <2>3, HeldIds
  <2>6. Distance(fidEnd, fid) = slotCnt - 1 - IndexOf(c)
    BY <2>2, <2>3, <2>4, HeldIds
  <2>7. At(Distance(fid, fidBegin)) = c
    BY <2>3, <2>4, <2>5, AtOfIndex
  <2>8. Distance(fid, fidBegin) < Half /\ Distance(fidEnd, fid) < Half
    BY <2>3, <2>4, <2>5, <2>6, Constants
  <2>9. ~cells[c].empty
    BY DEF Held
  <2>10. Distance(fid, fidBegin) < slotCnt
    BY <2>3, <2>5
  <2> QED BY <2>1, <2>7, <2>8, <2>9, <2>10
          DEF IsHeld, InRange, SlotCarries, IsNotEarlier, IsNotLater
<1>3. Fids(Held)' = Fids(Held) \ {fid} /\ Fids(Held) \cap {fid} = {}
  BY <1>2, RemoveNothingKeeps
<1>4. (fid \in Fids(Held)) = FALSE
  BY <1>2
<1> QED BY <1>1, <1>3, <1>4, SameNext, Zenon DEF Window!Remove

(* Removing the only frame empties the window.                             *)
LEMMA RemoveOnlyRemoves ==
    ASSUME Inv, NEW fid \in Fid, RemoveOnly(fid), failedIn = "none"
    PROVE  Window!Remove(fid)
<1> DEFINE c == At(Distance(fid, fidBegin))
<1>1. frmCnt = 1 /\ IsHeld(fid) /\ failedIn' = "none"
  BY RemoveOnlyRuns DEF RemoveOnly
<1>2. c \in Held /\ cells[c].fid = fid
  BY <1>1, IsHeldSlot
<1>3. PICK x : Held = {x}
  BY <1>1, HeldCells, CellsFinite, InvTypes, FS_Singleton
<1>4. Fids(Held) = {fid}
  BY <1>2, <1>3 DEF Fids
<1>5. Fids(Held)' = {}
  BY <1>1, RemoveOnlyKeeps DEF Fail, FailType
<1>6. out' = Result("remove", TRUE, FALSE, {fid})
  BY <1>1 DEF RemoveOnly, Fail
<1>7. Fids(Held)' = Fids(Held) \ {fid} /\ Fids(Held) \cap {fid} = {fid} /\ fid \in Fids(Held)
  BY <1>4, <1>5
<1> QED BY <1>6, <1>7, SameNext DEF Window!Remove

(* Removing one of several frames takes its id and no other.               *)
LEMMA RemoveOneOfManyRemoves ==
    ASSUME Inv, NEW fid \in Fid, RemoveOneOfMany(fid), failedIn \in FailType
    PROVE  Window!Remove(fid)
<1> DEFINE c == At(Distance(fid, fidBegin))
<1>1. c \in Held /\ cells[c].fid = fid
  BY IsHeldSlot DEF RemoveOneOfMany
<1>2. Fids(Held)' = Fids(Held) \ Fids({c})
  BY <1>1, RemoveOneOfManyKeeps, FidsMinus
<1>3. Fids({c}) = {fid} /\ fid \in Fids(Held)
  BY <1>1 DEF Fids
<1>4. out' = Result("remove", TRUE, FALSE, {fid})
  BY RemoveOneOfManyRuns
<1> HIDE DEF c
<1>5. Fids(Held)' = Fids(Held) \ {fid} /\ Fids(Held) \cap {fid} = {fid} /\ fid \in Fids(Held)
  BY <1>2, <1>3
<1> QED BY <1>4, <1>5, SameNext DEF Window!Remove

(* A queue that gives up all its frames drops the whole window.            *)
LEMMA AllDropped ==
    ASSUME NEW op, Fids(Held)' = {}, out' = Result(op, FALSE, FALSE, Fids(Held))
    PROVE  Window!Drop(op, Fids(Held))
BY SameNext DEF Window!Drop, Window!IsPrefix

(* A loop with a visitor of this code base drops a prefix of the window.   *)
LEMMA LoopDrops ==
    ASSUME Inv, NEW res \in [Held -> VisitorRes], CallerVisitor(res), LoopKeepsSome(res),
           failedIn \in FailType
    PROVE  Window!Drop("loop", Fids(Deleted(res))) /\ Fids(Deleted(res)) \in SUBSET Fids(Held)
<1> DEFINE D == Deleted(res)
<1>0. Visited(res) = {c \in Held : \A d \in Held : IsStop(res[d]) => IndexOf(c) <= IndexOf(d)}
  BY VisitedIs
<1>1. D \in SUBSET Held
  BY VisitedIs
<1>2. out' = Result("loop", FALSE, FALSE, Fids(D))
  BY LoopKeepsSomeTrims
<1>3. Fids(Held)' = Fids(Held) \ Fids(D)
  BY <1>1, LoopKeepsSomeKeeps, FidsMinus
<1>4. ASSUME NEW c \in D, NEW d \in Held \ D
      PROVE  IsEarlier(cells[c].fid, cells[d].fid)
  <2>1. IsDeleted(res[c]) /\ c \in Visited(res) /\ c \in Held
    BY <1>1 DEF Deleted
  <2>2. /\ c \in Cells /\ IndexOf(c) \in Nat /\ IndexOf(c) < slotCnt
        /\ d \in Cells /\ IndexOf(d) \in Nat /\ IndexOf(d) < slotCnt
        /\ slotCnt \in Nat /\ slotCnt <= N
    BY <2>1, HeldIds, InvTypes
  <2>3. ~(IndexOf(d) < IndexOf(c))
    <3> SUFFICES ASSUME IndexOf(d) < IndexOf(c) PROVE FALSE
      OBVIOUS
    <3>1. IsDeleted(res[d])
      BY <2>1 DEF CallerVisitor
    <3>2. d \notin Visited(res)
      BY <3>1 DEF Deleted
    <3>3. PICK e \in Held : IsStop(res[e]) /\ ~(IndexOf(d) <= IndexOf(e))
      BY <1>0, <3>2
    <3>4. IndexOf(c) <= IndexOf(e) /\ IndexOf(e) \in Nat
      BY <1>0, <2>1, <3>3, HeldIds
    <3> QED BY <2>2, <3>3, <3>4
  <2>4. Distance(cells[d].fid, cells[c].fid) = IndexOf(d) - IndexOf(c)
    BY <2>2, <2>3, HeldIds
  <2>5. cells[d].fid # cells[c].fid
    BY <1>1, <2>1, <2>2, HeldIds
  <2> QED BY <2>2, <2>3, <2>4, <2>5, Constants DEF IsEarlier
<1>5. Window!IsPrefix(Fids(D), Fids(Held))
  <2>1. Fids(Held) \ Fids(D) = Fids(Held \ D)
    BY <1>1, FidsMinus
  <2> HIDE DEF D
  <2> QED BY <1>4, <2>1, SameOrder DEF Window!IsPrefix, Fids
<1>6. Fids(D) \in SUBSET Fids(Held)
  BY <1>1 DEF Fids
<1> HIDE DEF D
<1> QED BY <1>2, <1>3, <1>5, <1>6, SameNext DEF Window!Drop, D

(* Insert of a later id evicts exactly the ids a window of N ids that ends *)
(* with the new one leaves behind; a failed assertion changes nothing.     *)
LEMMA InsertAfterStep ==
    ASSUME Inv, NEW fid \in Fid, InsertAfter(fid), failedIn \in FailType
    PROVE  Window!Accept(fid) \/ UNCHANGED <<Fids(Held), out>>
<1> DEFINE H == Fids(Held)
<1>1. frmCnt > 0 /\ ~IsEarlier(fid, fidBegin) /\ ~IsNotLater(fid, fidEnd)
  BY InsertAfterCases
<1>2. CASE Fail("insert")
  BY <1>2, FailKeeps DEF FailType, Fail
<1>3. ASSUME ~Fail("insert")
      PROVE  Window!Accept(fid)
  <2>1. IsLater(fid, fidEnd)
    BY <1>3, InsertAfterCases DEF Moves
  <2>2. Window!IsAfter(H, fid)
    BY <1>1, <2>1, WindowGuards
  <2>3. Window!Evicted(H, fid) = {f \in H : Distance(fid, f) >= N}
    BY <2>2, SameOrder DEF Window!Evicted
  <2> DEFINE last == At(slotCnt - 1)
  <2>a. /\ last \in Held /\ IndexOf(last) = slotCnt - 1 /\ cells[last].fid = fidEnd
        /\ slotCnt \in Nat /\ slotCnt <= N /\ fidEnd \in Fid
    BY <1>1, InvEnds, InvTypes
  <2>b. \A c \in Held : /\ c \in Cells /\ cells[c].fid \in Fid
                        /\ IndexOf(c) \in Nat /\ IndexOf(c) < slotCnt
    BY HeldIds
  <2>c. \A c \in Held : Distance(fidEnd, cells[c].fid) = slotCnt - 1 - IndexOf(c)
    <3> TAKE c \in Held
    <3>1. IndexOf(c) <= IndexOf(last) /\ last \in Cells
      BY <2>a, <2>b
    <3> QED BY <2>a, <2>b, <3>1, HeldIds
  <2>d. \A c \in Held : Distance(fid, cells[c].fid)
                          = Distance(fid, fidEnd) + (slotCnt - 1 - IndexOf(c))
    <3> TAKE c \in Held
    <3>1. Distance(fid, fidEnd) \in Nat /\ Distance(fid, fidEnd) < Half
      BY <2>1, <2>a, DistanceType DEF IsLater
    <3>2. Distance(fidEnd, cells[c].fid) + Distance(fid, fidEnd) < FidMod
      BY <2>a, <2>b, <2>c, <3>1, Constants
    <3>3. Distance(fid, cells[c].fid) = Distance(fidEnd, cells[c].fid) + Distance(fid, fidEnd)
      BY <2>a, <2>b, <3>2, DistanceAdds
    <3> QED BY <2>a, <2>b, <2>c, <3>1, <3>3
  <2>4. fid \notin H
    <3> SUFFICES ASSUME NEW c \in Held, cells[c].fid = fid PROVE FALSE
      BY DEF Fids
    <3>1. Distance(fidEnd, fid) < Half
      BY <2>a, <2>b, <2>c, Constants
    <3> QED BY <1>1, <3>1 DEF IsNotLater
  <2>5. SUFFICES /\ Fids(Held)' = (H \ Window!Evicted(H, fid)) \cup {fid}
                 /\ out' = Result("insert", TRUE, TRUE, Window!Evicted(H, fid))
    <3>1. (fid \notin H) = TRUE
      BY <2>4
    <3> HIDE DEF H
    <3> QED BY <2>2, <2>5, <3>1, SameNext, Zenon DEF Window!Accept, H
  <2>6. CASE FitsWith(fid) = {}
    <3>1. Fids(Held)' = {fid} /\ out' = Result("insert", TRUE, TRUE, H)
      BY <1>3, <2>6, InsertAfterKeeps, InsertAfterCases DEF Moves
    <3>2. \A c \in Held : Distance(fid, cells[c].fid) >= N
      BY <2>6, <2>b, DistanceType, Constants DEF FitsWith
    <3>3. {f \in H : Distance(fid, f) >= N} = H
      BY <3>2 DEF Fids
    <3> HIDE DEF H
    <3> QED BY <2>3, <3>1, <3>3
  <2>7. CASE FitsWith(fid) # {}
    <3> DEFINE first == FirstOf(FitsWith(fid))
               E == HeldBefore(first)
    <3>1. Moves(fid)
      BY <1>3, <2>7, InsertAfterKeeps
    <3>2. Fids(Held)' = Fids(Held \ E) \cup {fid} /\ out' = Result("insert", TRUE, TRUE, Fids(E))
      BY <1>1, <3>1, MovesKeeps DEF Moves
    <3>3. E \in SUBSET Held
      BY DEF HeldBefore
    <3>4. FitsWith(fid) \in SUBSET Cells /\ slotBegin \in Cells
      BY HeldCells, InvTypes DEF FitsWith
    <3>5. first \in FitsWith(fid) /\ \A d \in FitsWith(fid) : IndexOf(first) <= IndexOf(d)
      BY <2>7, <3>4, FirstIsFirst
    <3>6. first \in Held /\ Distance(fid, cells[first].fid) < N
      BY <3>5 DEF FitsWith
    <3>7. \A c \in Held : c \in E <=> Distance(fid, cells[c].fid) >= N
      <4> TAKE c \in Held
      <4>1. Distance(fid, fidEnd) \in Nat /\ Distance(fid, cells[c].fid) \in Nat
        BY <2>a, <2>b, DistanceType
      <4>2. CASE IndexOf(c) < IndexOf(first)
        <5>1. c \notin FitsWith(fid)
          BY <2>b, <3>5, <3>6, <4>2
        <5> QED BY <4>1, <4>2, <5>1, Constants DEF FitsWith, HeldBefore
      <4>3. CASE ~(IndexOf(c) < IndexOf(first))
        <5>1. Distance(fid, cells[c].fid) <= Distance(fid, cells[first].fid)
          BY <2>a, <2>b, <2>d, <3>6, <4>1, <4>3
        <5>2. Distance(fid, cells[c].fid) < N
          BY <2>b, <3>6, <4>1, <5>1, DistanceType, Constants
        <5> QED BY <4>1, <4>3, <5>2, Constants DEF HeldBefore
      <4> QED BY <4>2, <4>3
    <3> HIDE DEF E, first
    <3>8. Fids(E) = {f \in H : Distance(fid, f) >= N}
      BY <3>3, <3>7 DEF Fids
    <3>9. Fids(Held \ E) = H \ Fids(E)
      BY <3>3, FidsMinus
    <3> HIDE DEF H
    <3> QED BY <2>3, <3>2, <3>8, <3>9
  <2> QED BY <2>6, <2>7
<1> QED BY <1>2, <1>3

(* Every step of the ring is a step of the window, or none.                *)
LEMMA NextWindow == Inv /\ [Next]_vars => [Window!Next]_(Window!vars)
<1> SUFFICES ASSUME Inv, [Next]_vars
             PROVE  Window!Next \/ UNCHANGED <<Fids(Held), out>>
  BY DEF Window!vars
<1>1. CASE UNCHANGED vars
  BY <1>1, SameQueueKeeps DEF vars, ring, Fids, Held, IndexOf
<1>2. CASE Next
  <2>1. failedIn = "none" /\ failedIn \in FailType
    BY <1>2 DEF Next, FailType
  <2>2. ASSUME NEW fid \in Fid, Operate(fid)
        PROVE  Window!Refuse(fid) \/ Window!Accept(fid) \/ Window!Remove(fid)
                 \/ UNCHANGED <<Fids(Held), out>>
    <3>1. CASE Insert(fid)
      BY <2>1, <3>1, InsertFirstAccepts, InsertTooOldRefuses, InsertInsideAccepts, InsertAfterStep
         DEF Insert
    <3>2. CASE Remove(fid)
      BY <2>1, <3>2, RemoveNothingRemoves, RemoveOnlyRemoves, RemoveOneOfManyRemoves DEF Remove
    <3> QED BY <2>2, <3>1, <3>2 DEF Operate
  <2>3. CASE Reset
    <3>1. Fids(Held)' = {} /\ out' = Result("reset", FALSE, FALSE, Fids(Held))
      BY <2>1, <2>3, ResetKeeps, ResetRuns
    <3> QED BY <3>1, AllDropped DEF Window!Next
  <2>4. ASSUME NEW res \in [Held -> VisitorRes], CallerVisitor(res), LoopFrames(res)
        PROVE  \E P \in SUBSET Fids(Held) : Window!Drop("loop", P)
    <3>0. CASE LoopNothing
      <4>1. Fids(Held)' = Fids(Held) /\ out' = Result("loop", FALSE, FALSE, {})
        BY <2>1, <3>0, LoopNothingKeeps, LoopNothingRuns
      <4>2. Window!Drop("loop", {})
        BY <4>1, SameNext DEF Window!Drop, Window!IsPrefix
      <4> QED BY <4>2
    <3>1. CASE LoopDeletesAll(res)
      <4>1. Fids(Held)' = {} /\ out' = Result("loop", FALSE, FALSE, Fids(Held))
        BY <2>1, <3>1, LoopDeletesAllKeeps, LoopDeletesAllRuns
      <4> QED BY <4>1, AllDropped
    <3>2. CASE LoopKeepsSome(res)
      BY <2>1, <2>4, <3>2, LoopDrops
    <3> QED BY <2>4, <3>0, <3>1, <3>2 DEF LoopFrames
  <2> QED BY <1>2, <2>2, <2>3, <2>4, SameNext DEF Next, Window!Next
<1> QED BY <1>1, <1>2

(* The ring implements the window: what Insert, Remove, Reset and          *)
(* LoopFrames return, keep and evict depends on nothing but the set of ids *)
(* held, whatever the ring's size, position and wrap-arounds.              *)
THEOREM RingImplementsWindow == Spec => ImplementsWindow
BY InvHolds, InitWindow, NextWindow, PTL DEF Spec, ImplementsWindow, Window!Spec
=============================================================================
