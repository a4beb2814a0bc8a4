------------------------- MODULE SessionMixerProofs -------------------------
(***************************************************************************)
(* Proofs about SessionMixer for queues of any size, any ids and any       *)
(* time-stamps.                                                            *)
(***************************************************************************)
EXTENDS SessionMixer, FiniteSetLemmas, FiniteSetTheorems, TLAPS

-----------------------------------------------------------------------------
(* Comparing time-stamps, for every width of the stamps and every Duration *)
(* less than half a turn.                                                  *)

(* The constants of the comparisons as the prover uses them.               *)
LEMMA StampConstants ==
    TsHalf \in Nat /\ 0 < TsHalf /\ Duration \in Nat /\ Duration < TsHalf
    /\ TsMod = TsHalf + TsHalf
BY TimeStampAssumption DEF TsMod

(* The two spaces between different stamps make a turn.                    *)
LEMMA SpaceBack ==
    \A a, b \in TimeStamp :
        /\ Space(a, b) \in Nat /\ Space(a, b) < TsMod
        /\ Space(a, b) = 0 <=> a = b
        /\ a # b => Space(a, b) + Space(b, a) = TsMod
BY StampConstants DEF TimeStamp, Space

(* The tests of ExistTheSame...DecFrameAndPop exclude each other: a stamp  *)
(* is never both dropped as too early and waited for as too late, nor      *)
(* either when it is the same; and one of them holds for any two stamps    *)
(* that are not exactly half a turn apart.                                 *)
THEOREM OneTestHolds ==
    \A a, b \in TimeStamp :
        /\ ~(TSIsEarlier(a, b) /\ TSIsLater(a, b))
        /\ ~(TSIsSame(a, b) /\ (TSIsEarlier(a, b) \/ TSIsLater(a, b)))
        /\ TSIsEarlier(a, b) <=> TSIsLater(b, a)
        /\ Space(a, b) # TsHalf => TSIsSame(a, b) \/ TSIsEarlier(a, b) \/ TSIsLater(a, b)
<1> SUFFICES ASSUME NEW a \in TimeStamp, NEW b \in TimeStamp
             PROVE  /\ ~(TSIsEarlier(a, b) /\ TSIsLater(a, b))
                    /\ ~(TSIsSame(a, b) /\ (TSIsEarlier(a, b) \/ TSIsLater(a, b)))
                    /\ TSIsEarlier(a, b) <=> TSIsLater(b, a)
                    /\ Space(a, b) # TsHalf
                         => TSIsSame(a, b) \/ TSIsEarlier(a, b) \/ TSIsLater(a, b)
  OBVIOUS
<1>1. /\ Space(a, b) \in Nat /\ Space(b, a) \in Nat
      /\ a # b => Space(a, b) + Space(b, a) = TsMod
      /\ a = b => Space(a, b) = 0
  BY SpaceBack
<1>2. CASE a = b
  BY <1>1, <1>2, StampConstants DEF TSIsSame, TSIsEarlier, TSIsLater
<1>3. CASE a # b
  BY <1>1, <1>3, StampConstants DEF TSIsSame, TSIsEarlier, TSIsLater
<1> QED BY <1>2, <1>3

(* The visitors that look for a frame by the plain difference find only    *)
(* what TSIsSame accepts, and miss of it just what lies across the wrap.   *)
THEOREM NearUnlessAcrossWrap ==
    \A a, b \in TimeStamp :
        /\ IsNear(a, b) => TSIsSame(a, b)
        /\ TSIsSame(a, b) => (IsNear(a, b) <=> ~AcrossWrap(a, b))
<1> SUFFICES ASSUME NEW a \in TimeStamp, NEW b \in TimeStamp
             PROVE  /\ IsNear(a, b) => TSIsSame(a, b)
                    /\ TSIsSame(a, b) => (IsNear(a, b) <=> ~AcrossWrap(a, b))
  OBVIOUS
<1>1. CASE a >= b
  BY <1>1, StampConstants DEF TimeStamp, Space, TSIsSame, IsNear, AcrossWrap
<1>2. CASE a < b
  BY <1>2, StampConstants DEF TimeStamp, Space, TSIsSame, IsNear, AcrossWrap
<1> QED BY <1>1, <1>2 DEF TimeStamp

-----------------------------------------------------------------------------
(* The mixer.                                                              *)

(* The constants as the prover uses them.                                  *)
LEMMA Constants ==
    /\ Half \in Nat /\ 0 < Half /\ Ids \subseteq Fid /\ WaitTime \in Nat
    /\ Fid \subseteq Nat /\ None \notin Ids
    /\ LeadTs \in [Ids -> TimeStamp] /\ MinorTs \in [Ids -> TimeStamp]
BY HalfAssumption, MixerAssumption DEF Fid, FidMod, None

(* Sets of ids are finite.                                                 *)
LEMMA IdsFinite == ASSUME NEW S \in SUBSET Ids PROVE IsFiniteSet(S) /\ Cardinality(S) \in Nat
<1>1. IsFiniteSet(Fid) /\ S \in SUBSET Fid
  BY Constants, FS_Interval DEF Fid, FidMod
<1> QED
  BY <1>1, FS_Subset, FS_CardinalityType

(* How many frames a place for one holds.                                  *)
Held(x) == IF x = None THEN 0 ELSE 1

(* A place for one frame holds one or none.                                *)
LEMMA HeldExact == \A x : Cardinality({x} \ {None}) = Held(x)
<1> TAKE x
<1>1. CASE x = None
  <2>1. {x} \ {None} = {}
    BY <1>1
  <2> QED
    BY <1>1, <2>1, FS_EmptySet DEF Held
<1>2. CASE x # None
  <2>1. {x} \ {None} = {x}
    BY <1>2
  <2> QED
    BY <1>2, <2>1, FS_Singleton DEF Held
<1> QED
  BY <1>1, <1>2

(* A frame comes first in a queue only when it is in it.                   *)
LEMMA FirstIsIn == \A S : First(S) \subseteq S
BY DEF First

(* FrameQueue::Insert: what is in the queue and what is released add up.   *)
LEMMA InsertExact ==
    ASSUME NEW q \in SUBSET Ids, NEW f \in Ids
    PROVE  /\ Into(q, f) \in SUBSET Ids
           /\ Released(q, f) \in Nat
           /\ Cardinality(Into(q, f)) + Released(q, f) = Cardinality(q) + 1
<1>1. CASE Refused(q, f)
  BY <1>1, IdsFinite DEF Into, Released
<1>2. CASE ~Refused(q, f)
  <2> DEFINE e == Evicted(q, f)
  <2>1. e \subseteq q /\ f \notin q
    BY <1>2 DEF Evicted, Refused
  <2>2. IsFiniteSet(q) /\ IsFiniteSet(q \ e) /\ IsFiniteSet(e)
    BY <2>1, IdsFinite
  <2>3. Cardinality(q \ e) = Cardinality(q) - Cardinality(e)
    <3>1. q \cap e = e
      BY <2>1
    <3> QED
      BY <2>2, <3>1, FS_Difference
  <2>4. Cardinality((q \ e) \cup {f}) = Cardinality(q \ e) + 1
    BY <2>1, <2>2, FS_AddElement
  <2>5. Cardinality(q) \in Nat /\ Cardinality(e) \in Nat
    BY <2>1, IdsFinite
  <2>6. Into(q, f) = (q \ e) \cup {f} /\ Released(q, f) = Cardinality(e)
    BY <1>2 DEF Into, Released
  <2> QED
    BY <2>1, <2>3, <2>4, <2>5, <2>6
<1> QED
  BY <1>1, <1>2

(* Taking a frame out of a queue.                                          *)
LEMMA RemoveExact ==
    ASSUME NEW q \in SUBSET Ids, NEW f \in q
    PROVE  Cardinality(q \ {f}) + 1 = Cardinality(q)
BY IdsFinite, FS_RemoveElement

-----------------------------------------------------------------------------
(* A frame found for the leading one stays the one kept until the mix.     *)
InStep ==
    pc \in {"filter", "mix"} /\ kind = "audio" /\ status = "exist"
        => cur # None /\ Near(lead, cur)

(* Before a peer is in the table nothing is known of it.                   *)
UnknownFirst == HasPeer \/ status = "unknown"

(* Live frames, counted by their places.                                   *)
Counted == live = Cardinality(leadQ) + Cardinality(minorQ) + Held(lead) + Held(cur)

(* Nothing is mixed yet with the frame taken.                              *)
NothingMixed == pc # "take" => mixed = None

Inv == TypeOK /\ Counted /\ InStep /\ UnknownFirst /\ NothingMixed

(* Counting is what FramesExact says.                                      *)
LEMMA CountedIsExact == Counted <=> FramesExact
BY HeldExact DEF Counted, FramesExact

(* The invariant holds initially.                                          *)
LEMMA InitInv == Init => Inv
<1> SUFFICES ASSUME Init PROVE Inv
  OBVIOUS
<1>1. /\ kind \in Kinds /\ leading \in BOOLEAN /\ stored \in BOOLEAN /\ failed \in BOOLEAN
      /\ lead = None /\ cur = None /\ mixed = None
  BY DEF Init
<1>2. /\ count \in 0..1 /\ live \in Nat /\ waited \in 0..(WaitTime + 1)
  BY Constants DEF Init
<1>3. TypeOK
  BY <1>1, <1>2 DEF Init, TypeOK, Frame
<1>4. Counted
  BY FS_EmptySet DEF Init, Counted, Held
<1> QED
  BY <1>3, <1>4 DEF Init, Inv, InStep, UnknownFirst, NothingMixed

(* The bizs thread does not touch the frames.                              *)
LEMMA AddInv == Inv /\ (SetLeadingPeer \/ AddPeer_Count \/ AddPeer_Store) => Inv'
<1> SUFFICES ASSUME Inv, SetLeadingPeer \/ AddPeer_Count \/ AddPeer_Store PROVE Inv'
  OBVIOUS
<1>1. UNCHANGED <<kind, leadQ, minorQ, pc, lead, cur, status, waited, live, mixed, failed>>
  BY DEF SetLeadingPeer, AddPeer_Count, AddPeer_Store
<1>2. leading' \in BOOLEAN /\ stored' \in BOOLEAN
  BY Zenon DEF SetLeadingPeer, AddPeer_Count, AddPeer_Store, Inv, TypeOK
<1>3. count' \in 0..1
  BY DEF SetLeadingPeer, AddPeer_Count, AddPeer_Store, Inv, TypeOK
<1>4. HasPeer => HasPeer'
  BY DEF SetLeadingPeer, AddPeer_Count, AddPeer_Store, HasPeer
<1> QED
  BY <1>1, <1>2, <1>3, <1>4 DEF Inv, TypeOK, Counted, InStep, UnknownFirst, NothingMixed, Held

(* The decode threads fill and empty the queues.                           *)
LEMMA DecodedInv == ASSUME NEW f \in Ids PROVE Inv /\ (DecodedLead(f) \/ DecodedMinor(f)) => Inv'
<1> SUFFICES ASSUME Inv, DecodedLead(f) \/ DecodedMinor(f) PROVE Inv'
  OBVIOUS
<1> USE DEF Inv
<1>1. UNCHANGED <<kind, leading, count, stored, pc, lead, cur, status, waited, mixed, failed>>
  BY DEF DecodedLead, DecodedMinor
<1>2. f \in Ids /\ leadQ \in SUBSET Ids /\ minorQ \in SUBSET Ids /\ live \in Nat
  BY Constants DEF TypeOK
<1>3. Cardinality(leadQ) \in Nat /\ Cardinality(minorQ) \in Nat
  BY <1>2, IdsFinite
<1>4. Held(lead) \in Nat /\ Held(cur) \in Nat /\ Held(lead)' = Held(lead) /\ Held(cur)' = Held(cur)
  BY <1>1 DEF Held
<1>5. /\ leadQ' \in SUBSET Ids /\ minorQ' \in SUBSET Ids
      /\ live' = Cardinality(leadQ') + Cardinality(minorQ') + Held(lead) + Held(cur)
  <2>1. CASE DecodedLead(f)
    <3>1. leadQ' = Into(leadQ, f) /\ minorQ' = minorQ /\ live' = live + 1 - Released(leadQ, f)
      BY <2>1 DEF DecodedLead
    <3>2. Cardinality(Into(leadQ, f)) \in Nat
      BY <1>2, InsertExact, IdsFinite
    <3> QED
      BY <1>2, <1>3, <1>4, <3>1, <3>2, InsertExact DEF Counted
  <2>2. CASE DecodedMinor(f)
    <3>1. minorQ' = Into(minorQ, f) /\ leadQ' = leadQ /\ live' = live + 1 - Released(minorQ, f)
      BY <2>2 DEF DecodedMinor
    <3>2. Cardinality(Into(minorQ, f)) \in Nat
      BY <1>2, InsertExact, IdsFinite
    <3> QED
      BY <1>2, <1>3, <1>4, <3>1, <3>2, InsertExact DEF Counted
  <2> QED
    BY <2>1, <2>2
<1>6. live' \in Nat
  <2>1. Cardinality(leadQ') \in Nat /\ Cardinality(minorQ') \in Nat
    BY <1>5, IdsFinite
  <2> QED
    BY <1>4, <1>5, <2>1
<1>7. TypeOK'
  BY <1>1, <1>5, <1>6 DEF TypeOK
<1> QED
  BY <1>1, <1>4, <1>5, <1>7 DEF Counted, InStep, UnknownFirst, NothingMixed, HasPeer

(* ReleaseDecQueue empties the queues of decoded frames.                   *)
LEMMA ReleaseInv == Inv /\ ReleaseDecQueue => Inv'
<1> SUFFICES ASSUME Inv, ReleaseDecQueue PROVE Inv'
  OBVIOUS
<1> USE DEF Inv
<1>1. UNCHANGED <<kind, leading, count, stored, pc, lead, cur, status, waited, mixed, failed>>
  BY DEF ReleaseDecQueue
<1>2. leadQ \in SUBSET Ids /\ minorQ \in SUBSET Ids /\ live \in Nat
  BY DEF TypeOK
<1>3. /\ Cardinality(leadQ) \in Nat /\ Cardinality(minorQ) \in Nat
      /\ Held(lead) \in Nat /\ Held(cur) \in Nat
  BY <1>2, IdsFinite DEF Held
<1>4. Cardinality({}) = 0
  BY FS_EmptySet
<1>5. /\ leadQ' \in SUBSET Ids /\ minorQ' \in SUBSET Ids
      /\ live' = Cardinality(leadQ') + Cardinality(minorQ') + Held(lead) + Held(cur)
      /\ live' \in Nat
  <2>1. CASE leadQ' = {} /\ minorQ' = minorQ
    <3>1. leadQ \ leadQ' = leadQ /\ minorQ \ minorQ' = {}
      BY <2>1
    <3>2. live' = live - Cardinality(leadQ)
      BY <1>2, <1>3, <1>4, <3>1 DEF ReleaseDecQueue
    <3> QED
      BY <1>2, <1>3, <1>4, <2>1, <3>2 DEF Counted
  <2>2. CASE minorQ' = {} /\ leadQ' = leadQ
    <3>1. minorQ \ minorQ' = minorQ /\ leadQ \ leadQ' = {}
      BY <2>2
    <3>2. live' = live - Cardinality(leadQ \ leadQ') - Cardinality(minorQ \ minorQ')
      BY DEF ReleaseDecQueue
    <3>3. live' = live - 0 - Cardinality(minorQ)
      BY <1>4, <3>1, <3>2
    <3> QED
      BY <1>2, <1>3, <1>4, <2>2, <3>3 DEF Counted
  <2> QED
    BY <2>1, <2>2 DEF ReleaseDecQueue
<1>6. TypeOK'
  BY <1>1, <1>5 DEF TypeOK
<1> QED
  BY <1>1, <1>5, <1>6 DEF Counted, InStep, UnknownFirst, NothingMixed, HasPeer, Held
-----------------------------------------------------------------------------
(* The leading frame moves from its queue to the hands of the mix thread.  *)
LEMMA TakeInv == Inv /\ Take => Inv'
<1> SUFFICES ASSUME Inv, Take PROVE Inv'
  OBVIOUS
<1> USE DEF Inv
<1>1. PICK f \in First(leadQ) : lead' = f /\ leadQ' = leadQ \ {f}
  BY DEF Take
<1>2. /\ pc = "take" /\ pc' = "reset" /\ mixed' = None
      /\ UNCHANGED <<kind, leading, count, stored, minorQ, cur, status, waited, live, failed>>
  BY DEF Take
<1>3. f \in leadQ /\ f \in Ids /\ f # None /\ lead = None
  BY <1>1, <1>2, FirstIsIn, Constants DEF TypeOK
<1>4. leadQ' \in SUBSET Ids /\ Cardinality(leadQ') + 1 = Cardinality(leadQ)
  BY <1>1, <1>3, RemoveExact DEF TypeOK
<1>5. Cardinality(leadQ') \in Nat /\ Cardinality(minorQ) \in Nat /\ Held(cur) \in Nat
  BY <1>4, IdsFinite DEF TypeOK, Held
<1>6. TypeOK'
  BY <1>1, <1>2, <1>3, <1>4 DEF TypeOK, Frame
<1>7. Counted'
  BY <1>1, <1>2, <1>3, <1>4, <1>5 DEF Counted, Held, TypeOK
<1> QED
  BY <1>2, <1>6, <1>7 DEF InStep, UnknownFirst, NothingMixed, HasPeer

(* What was found for the last frame is forgotten.                         *)
LEMMA ResetInv == Inv /\ Reset => Inv'
<1> SUFFICES ASSUME Inv, Reset PROVE Inv'
  OBVIOUS
<1> USE DEF Inv
<1>1. /\ pc = "reset" /\ pc' = "filter" /\ waited' = 0
      /\ UNCHANGED <<kind, leading, count, stored, leadQ, minorQ, lead, cur, live, mixed>>
      /\ failed' \in BOOLEAN
  BY DEF Reset, TypeOK
<1>2. status' = "unknown"
  BY DEF Reset, UnknownFirst
<1>3. TypeOK'
  BY <1>1, <1>2, Constants DEF TypeOK
<1> QED
  BY <1>1, <1>2, <1>3 DEF Counted, InStep, UnknownFirst, NothingMixed, Held

(* Waiting, and going on without the peer or with what is known of it.     *)
LEMMA FilterOtherInv == Inv /\ (Filter_NoPeers \/ Filter_Unset \/ Filter_Done) => Inv'
<1> SUFFICES ASSUME Inv, Filter_NoPeers \/ Filter_Unset \/ Filter_Done PROVE Inv'
  OBVIOUS
<1> USE DEF Inv
<1>1. /\ pc = "filter" /\ pc' \in {"filter", "mix"} /\ failed' \in BOOLEAN
      /\ UNCHANGED <<kind, leading, count, stored, leadQ, minorQ, lead, cur, status, waited,
                     live, mixed>>
  BY DEF Filter_NoPeers, Filter_Unset, Filter_Done, GoOn, TypeOK
<1>2. TypeOK'
  BY <1>1 DEF TypeOK
<1> QED
  BY <1>1, <1>2 DEF Counted, InStep, UnknownFirst, NothingMixed, HasPeer, Held

(* A frame is found only when it is near the leading one, and takes the    *)
(* place of the one kept before, which is released.                        *)
LEMMA FilterLookInv == Inv /\ Filter_Look => Inv'
<1> SUFFICES ASSUME Inv, Filter_Look PROVE Inv'
  OBVIOUS
<1> USE DEF Inv
<1>1. /\ pc = "filter" /\ HasPeer
      /\ UNCHANGED <<kind, leading, count, stored, leadQ, lead, waited, mixed, failed>>
      /\ lead # None /\ HasPeer'
  BY DEF Filter_Look, HasPeer, TypeOK
<1>2. CASE status' \in {"unknown", "drop"} /\ UNCHANGED <<minorQ, cur, live>>
           /\ pc' \in {"filter", "mix"}
  <2>1. TypeOK'
    BY <1>1, <1>2 DEF TypeOK
  <2> QED
    BY <1>1, <1>2, <2>1 DEF Counted, InStep, UnknownFirst, NothingMixed, HasPeer, Held
<1>3. CASE \E g \in First(Matches(lead)) : minorQ' = minorQ \ {g} /\ SetCur(g) /\ GoOn(TRUE)
  <2>1. PICK g \in First(Matches(lead)) : minorQ' = minorQ \ {g} /\ SetCur(g) /\ GoOn(TRUE)
    BY <1>3
  <2>2. g \in minorQ /\ Near(lead, g) /\ g \in Ids /\ g # None
    BY <2>1, FirstIsIn, Constants DEF Matches, TypeOK
  <2>3. cur' = g /\ status' = "exist" /\ live' = live - Held(cur) /\ pc' = "mix"
    BY <2>1 DEF SetCur, GoOn, Held, TypeOK
  <2>4. minorQ' \in SUBSET Ids /\ Cardinality(minorQ') + 1 = Cardinality(minorQ)
    BY <2>1, <2>2, RemoveExact DEF TypeOK
  <2>5. /\ Cardinality(leadQ) \in Nat /\ Cardinality(minorQ') \in Nat
        /\ Held(lead) \in Nat /\ Held(cur) \in Nat
    BY <2>4, IdsFinite DEF TypeOK, Held
  <2>6. Held(cur') = 1 /\ Held(lead') = Held(lead)
    BY <1>1, <2>2, <2>3 DEF Held
  <2>7. live' = Cardinality(leadQ) + Cardinality(minorQ') + Held(lead) + 1 /\ live' \in Nat
    BY <2>3, <2>4, <2>5 DEF Counted, TypeOK
  <2>8. TypeOK'
    BY <1>1, <2>2, <2>3, <2>4, <2>7 DEF TypeOK, Frame
  <2>9. Counted'
    BY <1>1, <2>6, <2>7 DEF Counted
  <2> QED
    BY <1>1, <2>2, <2>3, <2>8, <2>9 DEF InStep, UnknownFirst, NothingMixed
<1> QED
  BY <1>2, <1>3 DEF Filter_Look, GoOn, TypeOK

(* The leading frame is released; the peer's frame is kept.                *)
LEMMA MixInv == Inv /\ Mix => Inv'
<1> SUFFICES ASSUME Inv, Mix PROVE Inv'
  OBVIOUS
<1> USE DEF Inv
<1>1. /\ pc = "mix" /\ pc' = "take" /\ lead' = None /\ live' = live - 1
      /\ UNCHANGED <<kind, leading, count, stored, leadQ, minorQ, cur, waited>>
      /\ failed' \in BOOLEAN
      /\ status' \in {"unknown", status}
      /\ mixed' \in {None, cur}
      /\ lead # None
  BY DEF Mix, Collected, TypeOK
<1>2. /\ Cardinality(leadQ) \in Nat /\ Cardinality(minorQ) \in Nat /\ Held(cur) \in Nat
      /\ Held(lead) = 1 /\ Held(lead') = 0
  BY <1>1, IdsFinite DEF TypeOK, Held
<1>3. live' = Cardinality(leadQ) + Cardinality(minorQ) + Held(cur) /\ live' \in Nat
  BY <1>1, <1>2 DEF Counted, TypeOK
<1>4. TypeOK'
  BY <1>1, <1>3 DEF TypeOK, Frame
<1>5. Counted'
  BY <1>1, <1>2, <1>3 DEF Counted, Held
<1> QED
  BY <1>1, <1>4, <1>5 DEF InStep, UnknownFirst, NothingMixed, HasPeer

(* Time passes.                                                            *)
LEMMA TickInv == Inv /\ Tick => Inv'
BY Constants DEF Inv, Tick, TypeOK, Counted, InStep, UnknownFirst, NothingMixed, HasPeer, Held

(* Every step keeps the invariant.                                         *)
LEMMA NextInv == Inv /\ [Next]_vars => Inv'
<1> SUFFICES ASSUME Inv, [Next]_vars PROVE Inv'
  OBVIOUS
<1>1. CASE UNCHANGED vars
  BY <1>1 DEF vars, Inv, TypeOK, Counted, InStep, UnknownFirst, NothingMixed, HasPeer, Held
<1>2. CASE Next
  BY <1>2, AddInv, DecodedInv, ReleaseInv, TakeInv, ResetInv, FilterOtherInv,
     FilterLookInv, MixInv, TickInv
  DEF Next, MixThread
<1> QED
  BY <1>1, <1>2

(* Every popped frame is counted in one place, and the mix thread looks for*)
(* the stamp it took, through every race with AddPeer.                     *)
THEOREM InvHolds == Spec => []Inv
<1> QED
  BY InitInv, NextInv, PTL DEF Spec

(* Types, through every race of the mix thread with AddPeer.               *)
THEOREM TypeHolds == Spec => []TypeOK
<1>1. Inv => TypeOK
  BY DEF Inv
<1> QED
  BY <1>1, InvHolds, PTL

(* The queues, the mix thread and the minor peer own each decoded frame    *)
(* once.                                                                   *)
THEOREM FramesStayExact == Spec => []FramesExact
<1>1. Inv => FramesExact
  BY CountedIsExact DEF Inv
<1> QED
  BY <1>1, InvHolds, PTL

(* The sound of the minor peer is mixed only with frames of its time.      *)
THEOREM SoundStaysInStep == Spec => MixedInStep
<1> DEFINE Near_Mixed == pc = "mix" /\ kind = "audio" /\ mixed' # None => Near(lead, mixed')
<1>1. Inv /\ [Next]_vars => [Near_Mixed]_vars
  <2> SUFFICES ASSUME Inv, Next, pc = "mix", kind = "audio", mixed' # None
               PROVE  Near(lead, mixed')
    BY Zenon
  <2>1. CASE Mix
    <3>1. status = "exist" /\ mixed' = cur
      BY <2>1 DEF Mix, Collected
    <3> QED
      BY <3>1 DEF Inv, InStep
  <2>2. CASE ~Mix
    <3>1. mixed' \in {None, mixed}
      BY <2>2
      DEF Next, SetLeadingPeer, AddPeer_Count, AddPeer_Store, DecodedLead, DecodedMinor,
          ReleaseDecQueue, MixThread, Take, Reset, Filter_NoPeers, Filter_Unset, Filter_Done,
          Filter_Look, Tick
    <3> QED
      BY <3>1 DEF Inv, NothingMixed
  <2> QED
    BY <2>1, <2>2
<1> QED
  BY <1>1, InvHolds, PTL DEF Spec, MixedInStep
-----------------------------------------------------------------------------
(* The window of ids a queue holds.                                        *)

(* The ids of S fit in a queue: they lie in the N ids up to some id.       *)
InWindow(S) == \E last \in Fid : \A f \in S : Distance(last, f) < N

(* The sizes as the prover uses them.                                      *)
LEMMA Sizes == N \in Nat /\ Half \in Nat /\ 0 < N /\ N <= Half /\ FidMod = Half + Half
BY CapacityAssumption, HalfAssumption DEF FidMod

(* A distance is less than a turn, and 0 only from an id to itself.        *)
LEMMA DistanceType ==
    \A a, b \in Fid : Distance(a, b) \in Nat /\ Distance(a, b) < FidMod
                      /\ (Distance(a, b) = 0 <=> a = b)
BY Sizes DEF Fid, Distance

(* The ids of a window are as far apart as their distances to its last id. *)
LEMMA DistanceBetween ==
    \A a, b, c \in Fid :
        Distance(a, b) <= Distance(a, c) => Distance(b, c) = Distance(a, c) - Distance(a, b)
BY Sizes DEF Fid, Distance

(* A window without some of its ids is one.                                *)
LEMMA InWindowSubset == ASSUME NEW S, NEW T \in SUBSET S, InWindow(S) PROVE InWindow(T)
BY DEF InWindow

(* A window that is not empty has an earliest and a latest id.             *)
LEMMA WindowEnds ==
    ASSUME NEW S \in SUBSET Fid, S # {}, InWindow(S)
    PROVE  /\ Earliest(S) \in S /\ \A g \in S : Distance(g, Earliest(S)) < N
           /\ Latest(S) \in S /\ \A g \in S : Distance(Latest(S), g) < N
<1>1. PICK last \in Fid : \A f \in S : Distance(last, f) < N
  BY DEF InWindow
<1> DEFINE D == {Distance(last, f) : f \in S}
<1>2. \A f \in S : Distance(last, f) \in Nat /\ Distance(last, f) <= N - 1
  BY <1>1, DistanceType, Sizes
<1>3. D \in SUBSET Nat /\ D \in SUBSET (0 .. N - 1) /\ D # {}
  BY <1>2, Sizes
<1>4. PICK d \in D : \A e \in D : d <= e
  <2> HIDE DEF D
  <2> QED BY <1>3, SmallestOfSet
<1>5. PICK m \in D : \A e \in D : m >= e
  <2>1. N - 1 \in Nat
    BY Sizes
  <2> HIDE DEF D
  <2> QED BY <1>3, <2>1, LargestOfSet
<1>6. PICK b \in S : Distance(last, b) = d
  BY <1>4
<1>7. PICK a \in S : Distance(last, a) = m
  BY <1>5
<1>8. \A f \in S : Distance(last, b) <= Distance(last, f) /\ Distance(last, f) <= Distance(last, a)
  BY <1>2, <1>4, <1>5, <1>6, <1>7
<1>9. \A f \in S : Distance(b, f) < N /\ Distance(f, a) < N
  <2> TAKE f \in S
  <2>1. a \in Fid /\ b \in Fid /\ f \in Fid
    OBVIOUS
  <2>2. /\ Distance(b, f) = Distance(last, f) - Distance(last, b)
        /\ Distance(f, a) = Distance(last, a) - Distance(last, f)
    BY <1>8, <2>1, DistanceBetween
  <2> QED
    BY <1>2, <2>2, Sizes
<1> QED
  BY <1>9 DEF Earliest, Latest

(* An id that is neither too old nor after the window lies in it.          *)
LEMMA BetweenEnds ==
    \A a, b, f \in Fid :
        /\ Distance(b, a) < N
        /\ Distance(f, a) # Half /\ ~IsEarlier(f, a) /\ IsNotLater(f, b)
        => Distance(f, a) <= Distance(b, a) /\ Distance(b, f) <= Distance(b, a)
BY Sizes DEF Fid, Distance, IsEarlier, IsNotLater

(* A queue that accepts an id not half a turn from its ids keeps a window. *)
LEMMA InsertInWindow ==
    ASSUME NEW S \in SUBSET Fid, NEW f \in Fid, InWindow(S),
           \A g \in S : Distance(f, g) # Half
    PROVE  InWindow(Into(S, f))
<1>0. Distance(f, f) < N
  BY DistanceType, Sizes
<1>1. CASE Refused(S, f)
  BY <1>1 DEF Into
<1>2. CASE S = {}
  BY <1>0, <1>2 DEF Into, Refused, TooOld, Evicted, IsAfter, InWindow
<1>3. CASE ~Refused(S, f) /\ S # {}
  <2> DEFINE a == Earliest(S)
             b == Latest(S)
  <2>1. a \in S /\ b \in S /\ a \in Fid /\ b \in Fid /\ Distance(b, a) < N
        /\ \A g \in S : Distance(b, g) < N
    BY <1>3, WindowEnds
  <2>2. Distance(f, a) # Half /\ ~TooOld(S, f)
    BY <1>3, <2>1 DEF Refused
  <2>3. CASE IsAfter(S, f)
    <3>1. \A g \in S \ Evicted(S, f) : Distance(f, g) < N
      <4> TAKE g \in S \ Evicted(S, f)
      <4>1. ~(Distance(f, g) >= N) /\ Distance(f, g) \in Nat
        BY <2>3, DistanceType DEF Evicted
      <4> QED
        BY <4>1, Sizes
    <3> QED
      BY <1>0, <3>1 DEF Into, InWindow
  <2>4. CASE ~IsAfter(S, f)
    <3>1. ~IsEarlier(f, a) /\ ~IsLater(f, b)
      BY <1>3, <2>2, <2>4 DEF TooOld, IsAfter
    <3>2. IsNotLater(f, b)
      <4>1. f = b \/ Distance(f, b) >= Half
        BY <3>1, <2>1, DistanceType, Sizes DEF IsLater
      <4>2. Distance(f, b) # Half
        BY <2>1
      <4> QED
        BY <4>1, <4>2, <2>1, Sizes DEF Fid, Distance, IsNotLater
    <3>3. Distance(b, f) < N
      <4> HIDE DEF a, b
      <4>1. Distance(b, f) <= Distance(b, a)
        BY <2>1, <2>2, <3>1, <3>2, BetweenEnds
      <4> QED
        BY <4>1, <2>1, DistanceType, Sizes
    <3> QED
      BY <2>1, <3>3 DEF Into, InWindow
  <2> QED
    BY <2>3, <2>4
<1> QED
  BY <1>1, <1>2, <1>3
-----------------------------------------------------------------------------
(* The wait for the minor peer.                                            *)

(* Stamps not far after one that a stamp is earlier than, or not far       *)
(* before one that it is later than, are not the same as it.               *)
LEMMA StampsBeyond ==
    \A a, b, c \in TimeStamp :
        /\ TSIsEarlier(a, b) /\ Space(c, b) + Duration <= TsHalf => ~TSIsSame(a, c)
        /\ TSIsLater(a, b) /\ Space(b, c) + Duration <= TsHalf => ~TSIsSame(a, c)
<1> SUFFICES ASSUME NEW a \in TimeStamp, NEW b \in TimeStamp, NEW c \in TimeStamp
             PROVE  /\ TSIsEarlier(a, b) /\ Space(c, b) + Duration <= TsHalf => ~TSIsSame(a, c)
                    /\ TSIsLater(a, b) /\ Space(b, c) + Duration <= TsHalf => ~TSIsSame(a, c)
  OBVIOUS
<1>1. ASSUME TSIsEarlier(a, b), Space(c, b) + Duration <= TsHalf PROVE ~TSIsSame(a, c)
  BY <1>1, StampConstants DEF TimeStamp, Space, TSIsSame, TSIsEarlier
<1>2. ASSUME TSIsLater(a, b), Space(b, c) + Duration <= TsHalf PROVE ~TSIsSame(a, c)
  BY <1>2, StampConstants DEF TimeStamp, Space, TSIsSame, TSIsLater
<1> QED
  BY <1>1, <1>2

(* While the thread waits nothing is known of the minor peer, and its      *)
(* queue holds a window of ids.                                            *)
WaitInv ==
    /\ pc = "filter" => status = "unknown"
    /\ InWindow(minorQ)

(* What is found, or waited for in vain, ends the wait.                    *)
LEMMA InitWait == Init => WaitInv
<1>1. 0 \in Fid
  BY Sizes DEF Fid
<1> QED
  BY <1>1 DEF Init, WaitInv, InWindow

(* Every step keeps it.                                                    *)
LEMMA NextWait == Inv /\ WaitInv /\ [Next]_vars => WaitInv'
<1> SUFFICES ASSUME Inv, WaitInv, [Next]_vars PROVE WaitInv'
  OBVIOUS
<1>1. minorQ \in SUBSET Ids /\ minorQ \in SUBSET Fid /\ InWindow({}) /\ InWindow(minorQ)
  <2>1. 0 \in Fid
    BY Sizes DEF Fid
  <2> QED
    BY <2>1, Constants DEF Inv, TypeOK, WaitInv, InWindow
<1>2. InWindow(minorQ')
  <2>1. ASSUME NEW f \in Ids, DecodedMinor(f) PROVE InWindow(minorQ')
    <3>1. minorQ' = Into(minorQ, f) /\ \A g \in minorQ : Distance(f, g) # Half
      BY <2>1 DEF DecodedMinor, NoHalfTurn
    <3> QED
      BY <1>1, <3>1, Constants, InsertInWindow
  <2>2. CASE minorQ' \in SUBSET minorQ
    BY <1>1, <2>2, InWindowSubset
  <2>3. CASE UNCHANGED vars
    BY <1>1, <2>3 DEF vars
  <2>4. ASSUME NEW f \in Ids, DecodedLead(f) PROVE minorQ' \in SUBSET minorQ
    BY <2>4 DEF DecodedLead
  <2>5. ReleaseDecQueue \/ Filter_Look => minorQ' \in SUBSET minorQ
    BY DEF ReleaseDecQueue, Filter_Look
  <2>6. SetLeadingPeer \/ AddPeer_Count \/ AddPeer_Store \/ Tick \/ Take \/ Reset \/ Mix
        \/ Filter_NoPeers \/ Filter_Unset \/ Filter_Done => minorQ' \in SUBSET minorQ
    BY DEF SetLeadingPeer, AddPeer_Count, AddPeer_Store, Tick, Take, Reset, Mix,
           Filter_NoPeers, Filter_Unset, Filter_Done
  <2> QED
    BY <2>1, <2>2, <2>3, <2>4, <2>5, <2>6 DEF Next, MixThread
<1>3. pc' = "filter" => status' = "unknown"
  <2>1. CASE Reset
    BY <2>1 DEF Reset, Inv, UnknownFirst
  <2>2. CASE Filter_Look
    BY <2>2 DEF Filter_Look, SetCur, GoOn, WaitInv
  <2>3. CASE Take \/ Mix
    BY <2>3 DEF Take, Mix
  <2>4. CASE Filter_NoPeers \/ Filter_Unset \/ Filter_Done
    BY <2>4 DEF Filter_NoPeers, Filter_Unset, Filter_Done, WaitInv
  <2>5. CASE UNCHANGED <<pc, status>>
    BY <2>5 DEF WaitInv
  <2>6. \A f \in Ids : DecodedLead(f) \/ DecodedMinor(f) => UNCHANGED <<pc, status>>
    BY DEF DecodedLead, DecodedMinor
  <2>7. SetLeadingPeer \/ AddPeer_Count \/ AddPeer_Store \/ ReleaseDecQueue \/ Tick
        \/ UNCHANGED vars => UNCHANGED <<pc, status>>
    BY DEF SetLeadingPeer, AddPeer_Count, AddPeer_Store, ReleaseDecQueue, Tick, vars
  <2> QED
    BY <2>1, <2>2, <2>3, <2>4, <2>5, <2>6, <2>7 DEF Next, MixThread
<1> QED
  BY <1>2, <1>3 DEF WaitInv

(* The thread looks at the minor peer until it has found a frame of it or  *)
(* let it go, and its queue always holds a window of ids.                  *)
THEOREM WaitHolds == Spec => [](Inv /\ WaitInv)
<1>1. Init => Inv /\ WaitInv
  BY InitInv, InitWait
<1>2. Inv /\ WaitInv /\ [Next]_vars => (Inv /\ WaitInv)'
  BY NextInv, NextWait
<1> QED
  BY <1>1, <1>2, PTL DEF Spec

(* When the leading frame is earlier than the first of the minor peer's    *)
(* frames, or later than the last, it is not of the time of any of them.   *)
LEMMA NoneBeyondEnds ==
    ASSUME NEW q \in SUBSET Ids, q # {}, InWindow(q), NEW f \in Ids, NEW g \in q
    PROVE  /\ TSIsEarlier(LeadTs[f], MinorTs[Earliest(q)]) => ~Same(f, g)
           /\ TSIsLater(LeadTs[f], MinorTs[Latest(q)]) => ~Same(f, g)
<1> DEFINE a == Earliest(q)
           b == Latest(q)
<1>1. q \in SUBSET Fid
  BY Constants
<1>2. a \in q /\ b \in q /\ Distance(g, a) < N /\ Distance(b, g) < N
  BY <1>1, WindowEnds
<1> HIDE DEF a, b
<1>3. /\ Space(MinorTs[g], MinorTs[a]) + Duration <= TsHalf
      /\ Space(MinorTs[b], MinorTs[g]) + Duration <= TsHalf
  BY <1>2, StampsAssumption
<1>4. /\ MinorTs[a] \in TimeStamp /\ MinorTs[b] \in TimeStamp /\ MinorTs[g] \in TimeStamp
      /\ LeadTs[f] \in TimeStamp
  BY <1>2, Constants
<1>5. /\ TSIsEarlier(LeadTs[f], MinorTs[a]) => ~Same(f, g)
      /\ TSIsLater(LeadTs[f], MinorTs[b]) => ~Same(f, g)
  BY <1>3, <1>4, StampsBeyond DEF Same
<1> QED
  BY <1>5 DEF a, b

(* The minor peer is missed, with a frame of the time of the leading one   *)
(* in its queue, only when the stamps of the two lie on either side of the *)
(* wrap: neither the tests against the ends of the queue, nor a status     *)
(* left over, nor the three seconds let go of it.                          *)
THEOREM MissesOnlyAtTheWrap == Spec => MissesOnlyAcrossWrap
<1> DEFINE Missed == pc = "filter" /\ pc' = "mix" /\ HasPeer /\ status' # "exist"
           AtTheWrap == \A g \in minorQ : Same(lead, g) => AcrossWrap(LeadTs[lead], MinorTs[g])
<1>1. Inv /\ WaitInv /\ [Next]_vars => [Missed => AtTheWrap]_vars
  <2> SUFFICES ASSUME Inv, WaitInv, Next, Missed,
                      NEW g \in minorQ, Same(lead, g)
               PROVE  AcrossWrap(LeadTs[lead], MinorTs[g])
    BY Zenon
  <2>1. status = "unknown" /\ InWindow(minorQ)
    BY DEF WaitInv
  <2>2. lead \in Ids /\ minorQ \in SUBSET Ids /\ g \in Ids /\ minorQ # {}
    BY DEF Inv, TypeOK, Frame
  <2>3. Filter_Look
    BY <2>1 DEF Next, SetLeadingPeer, AddPeer_Count, AddPeer_Store, DecodedLead, DecodedMinor,
        ReleaseDecQueue, MixThread, Take, Reset, Mix, Filter_NoPeers, Filter_Unset, Filter_Done,
        Tick, NoPeers, HasPeer
  <2>4. ~IsDropped(lead) /\ ~IsLate(lead)
    BY <2>1, <2>2, NoneBeyondEnds DEF IsDropped, IsLate
  <2>5. Matches(lead) = {}
    BY <2>2, <2>3, <2>4 DEF Filter_Look, SetCur
  <2>6. ~Near(lead, g)
    BY <2>5 DEF Matches
  <2>7. LeadTs[lead] \in TimeStamp /\ MinorTs[g] \in TimeStamp
    BY <2>2, Constants
  <2> QED
    BY <2>6, <2>7, NearUnlessAcrossWrap DEF Near, Same
<1> QED
  BY <1>1, WaitHolds, PTL DEF Spec, MissesOnlyAcrossWrap
=============================================================================
