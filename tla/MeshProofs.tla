----------------------------- MODULE MeshProofs -----------------------------
(***************************************************************************)
(* Proofs about routing and the tables of a device that forwards for       *)
(* others, each component for every value of its constants.                *)
(***************************************************************************)
EXTENDS MeshRouting, IndirectQueue, BroadcastTable, NetworkManager, SourceRoutes,
        LeastElementProofs, FiniteSetTheorems, SequenceTheorems, TLAPS

(***************************************************************************)
(* A set holds at least as many elements as a part of it.                  *)
(***************************************************************************)
LEMMA AtLeastAsMany ==
  ASSUME NEW T, IsFiniteSet(T), NEW S \in SUBSET T, NEW n \in Nat, Cardinality(S) >= n
  PROVE  Cardinality(T) >= n
<1>1. IsFiniteSet(S) /\ Cardinality(S) <= Cardinality(T)
  BY FS_Subset
<1>2. Cardinality(S) \in Nat /\ Cardinality(T) \in Nat
  BY <1>1, FS_CardinalityType
<1> QED
  BY <1>1, <1>2

(***************************************************************************)
(* As many slots as there are hold different things: n of them.            *)
(***************************************************************************)
LEMMA DistinctAreMany ==
  ASSUME NEW n \in Nat, NEW T, IsFiniteSet(T), NEW h \in [1 .. n -> T],
         \A s, t \in 1 .. n : h[s] = h[t] => s = t
  PROVE  Cardinality(T) >= n
<1>1. h \in Injection(1 .. n, T)
  BY DEF Injection, IsInjective
<1>2. Cardinality(1 .. n) <= Cardinality(T) /\ IsFiniteSet(1 .. n)
  BY <1>1, FS_Injection
<1>3. Cardinality(1 .. n) = n
  BY FS_Interval
<1>4. Cardinality(T) \in Nat
  BY FS_CardinalityType
<1> QED
  BY <1>2, <1>3, <1>4

-----------------------------------------------------------------------------
(***************************************************************************)
(* The indirect queue.                                                     *)
(***************************************************************************)

(***************************************************************************)
(* find(), firstFree() and oldest() answer with a slot.                    *)
(***************************************************************************)
LEMMA SlotForIsSlot ==
  ASSUME QueueInv, NEW c \in SleepyChildren
  PROVE  /\ SlotFor(c) \in 1 .. QueueSlots
         /\ SlotsOf(c) # {} => SlotFor(c) \in SlotsOf(c)
         /\ SlotsOf(c) = {} /\ Vacancies # {} => SlotFor(c) \in Vacancies
         /\ SlotsOf(c) = {} /\ Vacancies = {} => SlotFor(c) \in SoonestGone
<1> USE QueueAssumption
<1>1. SlotsOf(c) \in SUBSET Nat /\ Vacancies \in SUBSET Nat /\ SoonestGone \in SUBSET Nat
  BY DEF SlotsOf, Vacancies, SoonestGone
<1>2. SlotsOf(c) # {} => First(SlotsOf(c)) \in SlotsOf(c)
  BY <1>1, FirstIsLeast
<1>3. Vacancies # {} => First(Vacancies) \in Vacancies
  BY <1>1, FirstIsLeast
<1>4. ASSUME Vacancies = {} PROVE SoonestGone # {}
  <2> DEFINE E == {accepted[queued[t]].expiry : t \in 1 .. QueueSlots}
  <2>1. \A t \in 1 .. QueueSlots : accepted[queued[t]].expiry \in Nat
    <3> TAKE t \in 1 .. QueueSlots
    <3>1. queued[t] \in 1 .. Len(accepted)
      <4>1. queued[t] \in 0 .. Len(accepted)
        BY DEF QueueInv, QueueTypeOK
      <4>2. queued[t] # 0
        BY <1>4 DEF Vacancies, NoFrame
      <4>3. Len(accepted) \in Nat
        BY LenProperties DEF QueueInv, QueueTypeOK
      <4> QED
        BY <4>1, <4>2, <4>3
    <3>2. accepted[queued[t]] \in FrameStates
      BY <3>1, ElementOfSeq DEF QueueInv, QueueTypeOK
    <3> QED
      BY <3>2 DEF FrameStates
  <2>2. E \in SUBSET Nat /\ E # {}
    BY <2>1
  <2>3. PICK m \in E : \A n \in E : m <= n
    BY <2>2, Minimum
  <2>4. PICK s \in 1 .. QueueSlots : accepted[queued[s]].expiry = m
    BY <2>3
  <2> QED
    BY <2>3, <2>4 DEF SoonestGone
<1>5. SoonestGone # {} => First(SoonestGone) \in SoonestGone
  BY <1>1, FirstIsLeast
<1> QED
  BY <1>1, <1>2, <1>3, <1>4, <1>5 DEF SlotFor, SlotsOf, Vacancies, SoonestGone

\* Finitely many frames are for finitely many children.
LEMMA ChildrenFinite ==
  ASSUME NEW D, IsFiniteSet(D), NEW frames
  PROVE  IsFiniteSet({frames[g].child : g \in D})
<1> DEFINE T == {frames[g].child : g \in D}
           p == [g \in D |-> frames[g].child]
<1>1. p \in [D -> T] /\ \A c \in T : \E g \in D : p[g] = c
  OBVIOUS
<1> HIDE DEF p, T
<1>2. p \in Surjection(D, T)
  BY <1>1 DEF Surjection
<1>3. IsFiniteSet(T)
  BY <1>2, FS_Surjection
<1> QED
  BY <1>3 DEF T

(***************************************************************************)
(* A frame that a newer one replaced, or that was crowded out, stays so    *)
(* when another frame is accepted.                                         *)
(***************************************************************************)
LEMMA ExcusesLast ==
  ASSUME QueueInv, NEW e \in FrameStates, accepted' = Append(accepted, e),
         NEW f \in 1 .. Len(accepted)
  PROVE  /\ Superseded(f) => Superseded(f)'
         /\ CrowdedOut(f) => CrowdedOut(f)'
<1>1. /\ Len(accepted) \in Nat /\ Len(accepted') = Len(accepted) + 1
      /\ \A g \in 1 .. Len(accepted) : accepted'[g] = accepted[g]
  BY AppendProperties, LenProperties DEF QueueInv, QueueTypeOK
<1>2. Superseded(f) => Superseded(f)'
  BY <1>1 DEF Superseded
<1>3. ASSUME CrowdedOut(f) PROVE CrowdedOut(f)'
  <2> DEFINE Crowd == {accepted[g].child : g \in LastingAsLong(f)}
  <2>1. Crowd \subseteq Crowd'
    BY <1>1 DEF LastingAsLong
  <2>2. IsFiniteSet(Crowd')
    <3>1. \A n \in Nat : IsFiniteSet(1 .. n)
      BY FS_Interval
    <3>2. LastingAsLong(f)' \subseteq 1 .. Len(accepted')
      BY DEF LastingAsLong
    <3>3. IsFiniteSet(LastingAsLong(f)')
      BY <1>1, <3>1, <3>2, FS_Subset
    <3>4. PICK D, frames : D = LastingAsLong(f)' /\ frames = accepted'
      OBVIOUS
    <3>5. IsFiniteSet(D)
      BY <3>3, <3>4
    <3>6. IsFiniteSet({frames[g].child : g \in D})
      BY <3>5, ChildrenFinite, Zenon
    <3>7. Crowd' = {frames[g].child : g \in D}
      BY <3>4
    <3> QED
      BY <3>6, <3>7
  <2>3. Cardinality(Crowd) >= QueueSlots
    BY <1>3 DEF CrowdedOut
  <2>4. Cardinality(Crowd') >= QueueSlots
    <3> HIDE DEF Crowd
    <3> QED
      BY <2>1, <2>2, <2>3, AtLeastAsMany, QueueAssumption
  <2> QED
    BY <2>4 DEF CrowdedOut
<1> QED
  BY <1>2, <1>3

(***************************************************************************)
(* enqueue(): only the frame whose entry is taken needs an excuse.         *)
(***************************************************************************)
LEMMA EnqueueKeeps ==
  ASSUME QueueInv, NEW c \in SleepyChildren, Enqueue(c)
  PROVE  QueueInv'
<1> DEFINE s == SlotFor(c)
           new == Len(accepted) + 1
           e == [child |-> c, expiry |-> queueClock + Persistence]
<1> USE QueueAssumption
<1>1. /\ accepted' = Append(accepted, e)
      /\ queued' = [queued EXCEPT ![s] = new]
      /\ overtaken' = IF s = onAir.slot THEN overtaken \cup {new} ELSE overtaken
      /\ UNCHANGED queueClock /\ UNCHANGED onAir /\ UNCHANGED delivered
  BY DEF Enqueue
<1>2. s \in 1 .. QueueSlots
  BY SlotForIsSlot
<1>3. e \in FrameStates
  BY DEF QueueInv, QueueTypeOK, FrameStates
<1>4. /\ Len(accepted) \in Nat /\ Len(accepted') = new /\ accepted' \in Seq(FrameStates)
      /\ \A g \in 1 .. Len(accepted) : accepted'[g] = accepted[g]
      /\ accepted'[new] = e
  BY <1>1, <1>3, AppendProperties, LenProperties DEF QueueInv, QueueTypeOK
<1>5. QueueTypeOK'
  BY <1>1, <1>2, <1>4, SMTT(30) DEF QueueInv, QueueTypeOK
<1>6. \A t \in 1 .. QueueSlots :
        /\ queued'[t] = IF t = s THEN new ELSE queued[t]
        /\ queued[t] \in 0 .. Len(accepted)
  BY <1>1 DEF QueueInv, QueueTypeOK
<1>7. OneSlotPerChild'
  <2> SUFFICES ASSUME NEW t \in 1 .. QueueSlots, NEW u \in 1 .. QueueSlots,
                      queued'[t] # NoFrame, queued'[u] # NoFrame,
                      accepted'[queued'[t]].child = accepted'[queued'[u]].child
               PROVE  t = u
    BY DEF OneSlotPerChild
  <2>1. \A v \in 1 .. QueueSlots :
          v # s /\ queued'[v] # NoFrame => /\ queued[v] # NoFrame
                                          /\ accepted'[queued'[v]] = accepted[queued[v]]
    BY <1>4, <1>6 DEF NoFrame
  <2>2. \A v \in 1 .. QueueSlots :
          queued[v] # NoFrame /\ accepted[queued[v]].child = c => v = s
    <3> TAKE v \in 1 .. QueueSlots
    <3> HAVE queued[v] # NoFrame /\ accepted[queued[v]].child = c
    <3>1. v \in SlotsOf(c)
      BY DEF SlotsOf
    <3>2. s \in SlotsOf(c)
      BY <3>1, SlotForIsSlot
    <3> QED
      BY <3>2, <1>2 DEF SlotsOf, QueueInv, OneSlotPerChild
  <2>3. accepted'[queued'[s]].child = c
    BY <1>2, <1>4, <1>6
  <2>4. CASE t # s /\ u # s
    BY <2>1, <2>4 DEF QueueInv, OneSlotPerChild
  <2>5. CASE t = s \/ u = s
    BY <2>1, <2>2, <2>3, <2>5
  <2> QED
    BY <2>4, <2>5
<1>8. NoneOutlastsTheNewest'
  BY <1>1, <1>4 DEF QueueInv, QueueTypeOK, NoneOutlastsTheNewest
<1>9. EntryOnAir'
  BY <1>1, <1>2, <1>6 DEF QueueInv, QueueTypeOK, EntryOnAir, Silent
<1>10. AcceptedIsAccountedFor'
  <2> SUFFICES ASSUME NEW f \in 1 .. Len(accepted')
               PROVE  \/ \E t \in 1 .. QueueSlots : queued'[t] = f
                      \/ f \in delivered' \/ accepted'[f].expiry <= queueClock'
                      \/ Superseded(f)' \/ CrowdedOut(f)' \/ f \in overtaken'
    BY DEF AcceptedIsAccountedFor
  <2>1. CASE f = new
    BY <2>1, <1>2, <1>6
  <2>2. CASE f \in 1 .. Len(accepted) /\ f # queued[s]
    <3>1. (\E t \in 1 .. QueueSlots : queued[t] = f) => \E t \in 1 .. QueueSlots : queued'[t] = f
      BY <2>2, <1>6
    <3>2. (Superseded(f) => Superseded(f)') /\ (CrowdedOut(f) => CrowdedOut(f)')
      BY <2>2, <1>1, <1>3, ExcusesLast
    <3>3. accepted'[f] = accepted[f] /\ overtaken \subseteq overtaken'
      BY <2>2, <1>1, <1>4
    <3> QED
      BY <2>2, <3>1, <3>2, <3>3, <1>1 DEF QueueInv, AcceptedIsAccountedFor
  <2>3. CASE f \in 1 .. Len(accepted) /\ f = queued[s]
    <3>1. CASE SlotsOf(c) # {}
      <4>1. accepted[f].child = c
        BY <2>3, <3>1, SlotForIsSlot DEF SlotsOf
      <4>2. accepted'[new].child = accepted'[f].child
        BY <2>3, <4>1, <1>4
      <4> QED
        BY <2>3, <4>2, <1>4 DEF Superseded
    <3>2. CASE SlotsOf(c) = {}
      <4>1. Vacancies = {} /\ s \in SoonestGone
        BY <2>3, <3>2, SlotForIsSlot DEF Vacancies, NoFrame
      <4>2. \A t \in 1 .. QueueSlots : queued[t] \in 1 .. Len(accepted)
        BY <4>1, <1>6 DEF Vacancies, NoFrame
      <4>3. accepted[f].child # c
        BY <2>3, <3>2, <1>2 DEF SlotsOf, NoFrame
      <4> DEFINE Crowd == {accepted'[g].child : g \in LastingAsLong(f)'}
                 child == [t \in 1 .. QueueSlots |-> accepted'[queued'[t]].child]
      <4>4. queued'[s] \in LastingAsLong(f)'
        <5>1. accepted[f] \in FrameStates
          BY <2>3, ElementOfSeq DEF QueueInv, QueueTypeOK
        <5>2. accepted[f].expiry <= queueClock + Persistence
          BY <2>3 DEF QueueInv, NoneOutlastsTheNewest
        <5>3. accepted'[new].expiry >= accepted'[f].expiry
          BY <2>3, <5>1, <5>2, <1>4, <1>3 DEF FrameStates
        <5> QED
          BY <2>3, <4>3, <5>3, <1>2, <1>4, <1>6 DEF LastingAsLong
      <4>5. ASSUME NEW t \in 1 .. QueueSlots, t # s PROVE queued'[t] \in LastingAsLong(f)'
        <5>1. accepted[queued[t]].child # accepted[f].child
          BY <2>3, <4>2, <4>5, <1>2 DEF QueueInv, OneSlotPerChild, NoFrame
        <5>2. accepted[f].expiry <= accepted[queued[t]].expiry
          BY <2>3, <4>1 DEF SoonestGone
        <5>3. accepted[f] \in FrameStates /\ accepted[queued[t]] \in FrameStates
          BY <2>3, <4>2, ElementOfSeq DEF QueueInv, QueueTypeOK
        <5>4. accepted[queued[t]].expiry >= accepted[f].expiry
          BY <5>2, <5>3 DEF FrameStates
        <5> QED
          BY <2>3, <4>2, <4>5, <5>1, <5>4, <1>4, <1>6, SMTT(30) DEF LastingAsLong
      <4>6. child \in [1 .. QueueSlots -> Crowd]
        BY <4>4, <4>5
      <4>7. \A t, u \in 1 .. QueueSlots : child[t] = child[u] => t = u
        <5>1. \A t \in 1 .. QueueSlots : queued'[t] # NoFrame
          BY <4>2, <1>4, <1>6 DEF NoFrame
        <5> QED
          BY <5>1, <1>7 DEF OneSlotPerChild
      <4>8. IsFiniteSet(Crowd)
        <5>1. \A n \in Nat : IsFiniteSet(1 .. n)
          BY FS_Interval
        <5>2. LastingAsLong(f)' \subseteq 1 .. Len(accepted')
          BY DEF LastingAsLong
        <5>3. Len(accepted') \in Nat
          BY <1>4
        <5>4. IsFiniteSet(LastingAsLong(f)')
          BY <5>1, <5>2, <5>3, FS_Subset
        <5> QED
          BY <5>4, ChildrenFinite
      <4>9. Cardinality(Crowd) >= QueueSlots
        BY <4>6, <4>7, <4>8, DistinctAreMany
      <4> QED
        BY <4>9 DEF CrowdedOut
    <3> QED
      BY <3>1, <3>2
  <2> QED
    BY <2>1, <2>2, <2>3, <1>4
<1> QED
  BY <1>5, <1>7, <1>8, <1>9, <1>10 DEF QueueInv

(***************************************************************************)
(* dequeue() clears the entry of the frame on the air, or of one that was  *)
(* written over it; expire() clears entries whose time is over.            *)
(***************************************************************************)
LEMMA QueueInvStep ==
  ASSUME QueueInv, [QueueNext]_queueVars
  PROVE  QueueInv'
<1> USE QueueAssumption
<1>1. ASSUME UNCHANGED accepted, queueClock' = queueClock \/ queueClock' = queueClock + 1,
             QueueTypeOK', EntryOnAir', delivered \subseteq delivered', overtaken \subseteq overtaken',
             \A s \in 1 .. QueueSlots :
               \/ queued'[s] = queued[s]
               \/ /\ queued'[s] = NoFrame
                  /\ \/ queued[s] \in delivered' \cup overtaken'
                     \/ queued[s] \in 1 .. Len(accepted) /\ accepted[queued[s]].expiry <= queueClock'
      PROVE  QueueInv'
  <2>1. OneSlotPerChild'
    BY <1>1 DEF QueueInv, OneSlotPerChild
  <2>2. NoneOutlastsTheNewest'
    <3> SUFFICES ASSUME NEW f \in 1 .. Len(accepted)
                 PROVE  accepted[f].expiry <= queueClock' + Persistence
      BY <1>1 DEF NoneOutlastsTheNewest
    <3>1. accepted[f] \in FrameStates
      BY ElementOfSeq DEF QueueInv, QueueTypeOK
    <3> QED
      <4>1. accepted[f].expiry <= queueClock + Persistence
        BY DEF QueueInv, NoneOutlastsTheNewest
      <4>2. queueClock \in Nat /\ Persistence \in Nat /\ accepted[f].expiry \in Nat
        BY <3>1 DEF QueueInv, QueueTypeOK, FrameStates
      <4> QED
        BY <1>1, <4>1, <4>2
  <2>3. AcceptedIsAccountedFor'
    <3> SUFFICES ASSUME NEW f \in 1 .. Len(accepted)
                 PROVE  \/ \E t \in 1 .. QueueSlots : queued'[t] = f
                        \/ f \in delivered' \/ accepted[f].expiry <= queueClock'
                        \/ Superseded(f)' \/ CrowdedOut(f)' \/ f \in overtaken'
      BY <1>1 DEF AcceptedIsAccountedFor
    <3>1. accepted[f] \in FrameStates
      BY ElementOfSeq DEF QueueInv, QueueTypeOK
    <3>2. accepted[f].expiry <= queueClock => accepted[f].expiry <= queueClock'
      BY <1>1, <3>1, SMTT(30) DEF FrameStates, QueueInv, QueueTypeOK
    <3>3. (Superseded(f) <=> Superseded(f)') /\ (CrowdedOut(f) <=> CrowdedOut(f)')
      BY <1>1 DEF Superseded, CrowdedOut, LastingAsLong
    <3>4. ASSUME NEW t \in 1 .. QueueSlots, queued[t] = f
          PROVE  queued'[t] = f \/ f \in delivered' \cup overtaken' \/ accepted[f].expiry <= queueClock'
      BY <1>1, <3>4
    <3> QED
      BY <1>1, <3>2, <3>3, <3>4 DEF QueueInv, AcceptedIsAccountedFor
  <2> QED
    BY <1>1, <2>1, <2>2, <2>3 DEF QueueInv
<1>2. ASSUME NEW c \in SleepyChildren, Poll(c) PROVE QueueInv'
  <2>1. First(SlotsOf(c)) \in SlotsOf(c)
    BY <1>2, FirstIsLeast DEF Poll, SlotsOf
  <2>2. UNCHANGED <<queueClock, queued, accepted, delivered, overtaken>>
        /\ onAir' = [slot |-> First(SlotsOf(c)), frame |-> queued[First(SlotsOf(c))]]
    BY <1>2 DEF Poll
  <2>3. First(SlotsOf(c)) \in 1 .. QueueSlots
    BY <2>1 DEF SlotsOf
  <2>4. QueueTypeOK'
    BY <2>2, <2>3, LenProperties DEF QueueInv, QueueTypeOK
  <2>5. EntryOnAir'
    BY <2>2, <2>3 DEF EntryOnAir
  <2> QED
    BY <1>1, <2>2, <2>4, <2>5
<1>3. CASE Dequeue
  <2>1. /\ onAir # Silent /\ onAir' = Silent
        /\ queued' = [queued EXCEPT ![onAir.slot] = NoFrame]
        /\ delivered' = delivered \cup {onAir.frame}
        /\ UNCHANGED <<queueClock, accepted, overtaken>>
    BY <1>3 DEF Dequeue
  <2>2. QueueTypeOK' /\ EntryOnAir'
    BY <2>1, LenProperties DEF QueueInv, QueueTypeOK, EntryOnAir, Silent, NoFrame
  <2>3. ASSUME NEW s \in 1 .. QueueSlots, s = onAir.slot
        PROVE  queued[s] = NoFrame \/ queued[s] \in delivered' \cup overtaken'
    BY <2>1, <2>3 DEF QueueInv, EntryOnAir
  <2>4. \A s \in 1 .. QueueSlots : queued'[s] = IF s = onAir.slot THEN NoFrame ELSE queued[s]
    BY <2>1 DEF QueueInv, QueueTypeOK
  <2> QED
    BY <1>1, <2>1, <2>2, <2>3, <2>4
<1>4. CASE TransmissionLost
  <2>1. onAir' = Silent /\ UNCHANGED <<queueClock, queued, accepted, delivered, overtaken>>
    BY <1>4 DEF TransmissionLost
  <2>2. QueueTypeOK' /\ EntryOnAir'
    BY <2>1 DEF QueueInv, QueueTypeOK, EntryOnAir, Silent, NoFrame
  <2> QED
    BY <1>1, <2>1, <2>2
<1>5. CASE ExpireQueue
  <2>1. /\ onAir = Silent
        /\ queued' = [s \in 1 .. QueueSlots |->
             IF queued[s] # NoFrame /\ accepted[queued[s]].expiry <= queueClock
             THEN NoFrame ELSE queued[s]]
        /\ UNCHANGED <<queueClock, accepted, onAir, delivered, overtaken>>
    BY <1>5 DEF ExpireQueue
  <2>2. QueueTypeOK' /\ EntryOnAir'
    BY <2>1, LenProperties DEF QueueInv, QueueTypeOK, EntryOnAir, NoFrame
  <2>3. \A s \in 1 .. QueueSlots : queued[s] # NoFrame => queued[s] \in 1 .. Len(accepted)
    BY LenProperties DEF QueueInv, QueueTypeOK, NoFrame
  <2> QED
    BY <1>1, <2>1, <2>2, <2>3
<1>6. CASE QueueTick
  <2>1. queueClock' = queueClock + 1 /\ UNCHANGED <<queued, accepted, onAir, delivered, overtaken>>
    BY <1>6 DEF QueueTick
  <2>2. QueueTypeOK' /\ EntryOnAir'
    BY <2>1 DEF QueueInv, QueueTypeOK, EntryOnAir
  <2> QED
    BY <1>1, <2>1, <2>2
<1>7. CASE UNCHANGED queueVars
  <2>1. UNCHANGED <<queueClock, queued, accepted, onAir, delivered, overtaken>>
    BY <1>7 DEF queueVars
  <2>2. QueueTypeOK' /\ EntryOnAir'
    BY <2>1 DEF QueueInv, QueueTypeOK, EntryOnAir
  <2> QED
    BY <1>1, <2>1, <2>2
<1> QED
  BY <1>2, <1>3, <1>4, <1>5, <1>6, <1>7, EnqueueKeeps DEF QueueNext

(***************************************************************************)
(* No accepted frame disappears without an excuse: enqueue(), dequeue()    *)
(* and expire() of ZigbeeIndirectQueue.h, for any number of children,      *)
(* slots and frames.                                                       *)
(***************************************************************************)
THEOREM AcceptedIsAccountedForAlways == QueueSpec => []AcceptedIsAccountedFor
<1>1. QueueInit => QueueInv
  BY QueueAssumption, EmptySeq
  DEF QueueInit, QueueInv, QueueTypeOK, OneSlotPerChild, NoneOutlastsTheNewest, EntryOnAir,
      AcceptedIsAccountedFor, NoFrame, Silent
<1>2. QueueInv /\ [QueueNext]_queueVars => QueueInv'
  BY QueueInvStep
<1>3. QueueInv => AcceptedIsAccountedFor
  BY DEF QueueInv
<1> QED
  BY <1>1, <1>2, <1>3, PTL DEF QueueSpec

-----------------------------------------------------------------------------
(***************************************************************************)
(* The broadcast transaction table.                                        *)
(***************************************************************************)

(***************************************************************************)
(* A slot in use holds an entry of its type, a free one holds none.        *)
(***************************************************************************)
LEMMA SlotTyped ==
  ASSUME BroadcastTypeOK, NEW s \in 1 .. Slots, transactions[s].used
  PROVE  /\ transactions[s] \in BroadcastEntries
         /\ transactions[s].tx \in Transactions
         /\ transactions[s].seen \in Nat
         /\ Counted(transactions[s].acks) \in Nat
         /\ Counted(transactions[s].retries) \in Nat
<1>1. transactions[s] \in BroadcastEntries \/ transactions[s] = Unused
  BY DEF BroadcastTypeOK
<1>2. Unused.used = FALSE
  BY DEF Unused
<1>3. transactions[s] \in BroadcastEntries
  BY <1>1, <1>2
<1>4. transactions[s].acks \in Nat /\ transactions[s].retries \in Nat
  BY <1>3 DEF BroadcastEntries
<1>5. \A n \in Nat : Counted(n) \in Nat
  BY DEF Counted
<1> QED
  BY <1>3, <1>4, <1>5 DEF BroadcastEntries

(***************************************************************************)
(* find() and allocate() answer with a slot.                               *)
(***************************************************************************)
LEMMA EntrySlots ==
  ASSUME BroadcastInv
  PROVE  /\ \A x \in Transactions : Where(x) # {} => First(Where(x)) \in Where(x)
         /\ Allocated \in 1 .. Slots
         /\ transactions[Allocated].used =>
              \A t \in 1 .. Slots : /\ transactions[t].used
                                  /\ transactions[Allocated].seen <= transactions[t].seen
<1> USE TransactionAssumption
<1>1. ASSUME NEW x \in Transactions, Where(x) # {} PROVE First(Where(x)) \in Where(x)
  BY <1>1, FirstIsLeast DEF Where
<1>2. CASE FreeSlots # {}
  <2>1. First(FreeSlots) \in FreeSlots
    BY <1>2, FirstIsLeast DEF FreeSlots
  <2> QED
    BY <1>1, <1>2, <2>1 DEF Allocated, FreeSlots
<1>3. CASE FreeSlots = {}
  <2> DEFINE Seen == {transactions[t].seen : t \in 1 .. Slots}
             Longest == {s \in 1 .. Slots : \A t \in 1 .. Slots :
                           transactions[s].seen <= transactions[t].seen}
  <2>1. \A t \in 1 .. Slots : transactions[t].used /\ transactions[t].seen \in Nat
    BY <1>3, SlotTyped DEF FreeSlots, BroadcastInv
  <2>2. Seen \in SUBSET Nat /\ Seen # {}
    BY <2>1
  <2>3. PICK m \in Seen : \A n \in Seen : m <= n
    BY <2>2, Minimum
  <2>4. Longest # {} /\ Longest \in SUBSET Nat
    BY <2>3
  <2>5. First(Longest) \in Longest
    BY <2>4, FirstIsLeast
  <2>6. Allocated = First(Longest)
    BY <1>3 DEF Allocated
  <2> QED
    BY <1>1, <2>1, <2>5, <2>6
<1> QED
  BY <1>2, <1>3

(***************************************************************************)
(* A transaction that was pushed out stays so: rivals only get newer.      *)
(***************************************************************************)
LEMMA PressureLasts ==
  ASSUME BroadcastInv, BroadcastTypeOK', NEW x \in Transactions, lastNew'[x] = lastNew[x],
         \A y \in Transactions : lastNew'[y] >= lastNew[y],
         Cardinality(Rivals(x)) >= Slots
  PROVE  Cardinality(Rivals(x)') >= Slots
<1>1. \A y \in Transactions : lastNew[y] \in Int /\ lastNew'[y] \in Int
  BY DEF BroadcastInv, BroadcastTypeOK, NotSeen
<1>2. Rivals(x) \in SUBSET Rivals(x)'
  BY <1>1 DEF Rivals
<1>3. IsFiniteSet(Rivals(x)')
  BY TransactionAssumption, FS_Subset DEF Rivals
<1> QED
  BY <1>2, <1>3, AtLeastAsMany, TransactionAssumption

(***************************************************************************)
(* The steps that admit no transaction: an entry keeps its transaction and *)
(* the time it was seen, or its delivery time is over.                     *)
(***************************************************************************)
LEMMA NothingAdmitted ==
  ASSUME BroadcastInv, BroadcastTypeOK', UNCHANGED lastNew, clock' >= clock,
         \A s \in 1 .. Slots :
           \/ /\ transactions'[s].used = transactions[s].used
              /\ transactions[s].used => /\ transactions'[s].tx = transactions[s].tx
                                         /\ transactions'[s].seen = transactions[s].seen
           \/ /\ ~transactions'[s].used /\ transactions[s].used
              /\ clock - transactions[s].seen >= DeliveryTime
  PROVE  BroadcastInv'
<1> USE TransactionAssumption
<1>1. OneEntryPerTransaction' /\ SeenWhenNew'
  <2>1. OneEntryPerTransaction'
    BY DEF BroadcastInv, OneEntryPerTransaction
  <2>2. \A s \in 1 .. Slots : transactions'[s].used
                             => transactions'[s].seen = lastNew'[transactions'[s].tx]
    BY DEF BroadcastInv, SeenWhenNew
  <2>3. \A x \in Transactions : lastNew'[x] <= clock'
    BY DEF BroadcastInv, SeenWhenNew, BroadcastTypeOK, NotSeen
  <2> QED
    BY <2>1, <2>2, <2>3 DEF SeenWhenNew
<1>2. ForgottenUnderPressure'
  <2> SUFFICES ASSUME NEW x \in Transactions, Where(x)' = {}, lastNew'[x] # NotSeen,
                      ~(clock' - lastNew'[x] >= DeliveryTime)
               PROVE  Cardinality(Rivals(x)') >= Slots
    BY DEF ForgottenUnderPressure
  <2>1. lastNew[x] \in Nat /\ clock \in Nat /\ clock' \in Nat /\ lastNew'[x] = lastNew[x]
    BY DEF BroadcastInv, BroadcastTypeOK
  <2>2. ~(clock - lastNew[x] >= DeliveryTime)
    BY <2>1
  <2>3. Where(x) = {}
    <3> SUFFICES ASSUME NEW s \in Where(x) PROVE FALSE
      OBVIOUS
    <3>1. s \in 1 .. Slots /\ transactions[s].used /\ transactions[s].tx = x
      BY DEF Where
    <3>2. transactions[s].seen = lastNew[x]
      BY <3>1 DEF BroadcastInv, SeenWhenNew
    <3>3. transactions'[s].used /\ transactions'[s].tx = x
      BY <2>2, <3>1, <3>2
    <3> QED
      BY <3>1, <3>3 DEF Where
  <2>4. Cardinality(Rivals(x)) >= Slots
    BY <2>1, <2>2, <2>3 DEF BroadcastInv, ForgottenUnderPressure
  <2>5. \A y \in Transactions : lastNew'[y] >= lastNew[y]
    BY DEF BroadcastInv, BroadcastTypeOK, NotSeen
  <2> QED
    BY <2>1, <2>4, <2>5, PressureLasts
<1> QED
  BY <1>1, <1>2 DEF BroadcastInv

(***************************************************************************)
(* The transaction that a full table gives up for a new one has as many    *)
(* rivals as there are slots: those that stay, and the new one.            *)
(***************************************************************************)
LEMMA Admitted ==
  ASSUME BroadcastInv, NEW x \in Transactions, Where(x) = {},
         transactions' = [transactions EXCEPT ![Allocated] = Entry(x)],
         lastNew' = [lastNew EXCEPT ![x] = clock], UNCHANGED clock
  PROVE  BroadcastInv'
<1> DEFINE a == Allocated
<1> USE TransactionAssumption
<1>1. a \in 1 .. Slots
  BY EntrySlots
<1>2. Entry(x) \in BroadcastEntries /\ Entry(x).tx = x /\ Entry(x).seen = clock /\ Entry(x).used
  BY DEF Entry, BroadcastEntries, BroadcastInv, BroadcastTypeOK
<1>3. \A s \in 1 .. Slots : transactions'[s] = IF s = a THEN Entry(x) ELSE transactions[s]
  BY <1>1 DEF BroadcastInv, BroadcastTypeOK
<1>4. \A y \in Transactions : lastNew'[y] = IF y = x THEN clock ELSE lastNew[y]
  BY DEF BroadcastInv, BroadcastTypeOK
<1>5. BroadcastTypeOK'
  BY <1>1, <1>2 DEF BroadcastInv, BroadcastTypeOK
<1>6. \A s \in 1 .. Slots : transactions[s].used => transactions[s].tx \in Transactions \ {x}
  BY SlotTyped DEF BroadcastInv, Where
<1>7. OneEntryPerTransaction'
  BY <1>2, <1>3, <1>6 DEF BroadcastInv, OneEntryPerTransaction
<1>8. SeenWhenNew'
  <2>1. \A s \in 1 .. Slots : transactions'[s].used
                             => transactions'[s].seen = lastNew'[transactions'[s].tx]
    BY <1>2, <1>3, <1>4, <1>6 DEF BroadcastInv, SeenWhenNew
  <2>2. \A y \in Transactions : lastNew'[y] <= clock'
    BY <1>4 DEF BroadcastInv, SeenWhenNew, BroadcastTypeOK
  <2> QED
    BY <2>1, <2>2 DEF SeenWhenNew
<1>9. \A y \in Transactions : lastNew'[y] >= lastNew[y]
  BY <1>4 DEF BroadcastInv, SeenWhenNew, BroadcastTypeOK, NotSeen
<1>10. ForgottenUnderPressure'
  <2> SUFFICES ASSUME NEW y \in Transactions, Where(y)' = {}, lastNew'[y] # NotSeen,
                      ~(clock' - lastNew'[y] >= DeliveryTime)
               PROVE  Cardinality(Rivals(y)') >= Slots
    BY DEF ForgottenUnderPressure
  <2>1. y # x /\ lastNew'[y] = lastNew[y]
    BY <1>1, <1>2, <1>3, <1>4 DEF Where
  <2>2. CASE Where(y) = {}
    <3>1. Cardinality(Rivals(y)) >= Slots
      BY <2>1, <2>2 DEF BroadcastInv, ForgottenUnderPressure
    <3> QED
      BY <2>1, <3>1, <1>5, <1>9, PressureLasts
  <2>3. CASE Where(y) # {}
    <3>1. PICK s \in 1 .. Slots : transactions[s].used /\ transactions[s].tx = y
      BY <2>3 DEF Where
    <3>2. s = a
      BY <3>1, <1>3 DEF Where
    <3>3. \A t \in 1 .. Slots : transactions[t].used /\ transactions[a].seen <= transactions[t].seen
      BY <3>1, <3>2, EntrySlots
    <3> DEFINE held == [t \in 1 .. Slots |-> transactions'[t].tx]
    <3>4. ASSUME NEW t \in 1 .. Slots PROVE held[t] \in Rivals(y)'
      <4>1. CASE t = a
        <5>1. held[t] = x /\ lastNew'[x] = clock
          BY <4>1, <1>2, <1>3, <1>4
        <5>2. clock >= lastNew'[y]
          BY <2>1 DEF BroadcastInv, SeenWhenNew, BroadcastTypeOK, NotSeen
        <5> QED
          BY <2>1, <5>1, <5>2 DEF Rivals
      <4>2. CASE t # a
        <5>1. held[t] = transactions[t].tx /\ held[t] \in Transactions \ {x}
          BY <4>2, <1>3, <1>6, <3>3
        <5>2. held[t] # y
          BY <4>2, <5>1, <3>1, <3>2, <3>3 DEF BroadcastInv, OneEntryPerTransaction
        <5>3. lastNew[y] <= lastNew[held[t]]
          BY <5>1, <3>1, <3>2, <3>3 DEF BroadcastInv, SeenWhenNew
        <5>4. lastNew'[held[t]] = lastNew[held[t]]
          BY <5>1, <1>4
        <5>5. lastNew'[held[t]] >= lastNew'[y]
          BY <5>1, <5>3, <5>4, <2>1 DEF BroadcastInv, BroadcastTypeOK, NotSeen
        <5> QED
          BY <5>1, <5>2, <5>5 DEF Rivals
      <4> QED
        BY <4>1, <4>2
    <3>5. held \in [1 .. Slots -> Rivals(y)']
      BY <3>4
    <3>6. \A t, u \in 1 .. Slots : held[t] = held[u] => t = u
      BY <1>2, <1>3, <1>7, <3>3 DEF OneEntryPerTransaction
    <3>7. IsFiniteSet(Rivals(y)')
      BY FS_Subset DEF Rivals
    <3> HIDE DEF held
    <3> QED
      BY <3>5, <3>6, <3>7, DistinctAreMany
  <2> QED
    BY <2>2, <2>3
<1> QED
  BY <1>5, <1>7, <1>8, <1>10 DEF BroadcastInv

(***************************************************************************)
(* The steps that touch an entry's counters or the time it was last sent.  *)
(***************************************************************************)
LEMMA Retouched ==
  ASSUME BroadcastInv, UNCHANGED <<clock, lastNew>>, NEW s \in 1 .. Slots, NEW e \in BroadcastEntries,
         transactions[s].used, e.tx = transactions[s].tx, e.seen = transactions[s].seen,
         transactions' = [transactions EXCEPT ![s] = e]
  PROVE  BroadcastInv'
<1>1. \A t \in 1 .. Slots : transactions'[t] = IF t = s THEN e ELSE transactions[t]
  BY DEF BroadcastInv, BroadcastTypeOK
<1>2. e.used
  BY DEF BroadcastEntries
<1>3. BroadcastTypeOK' /\ clock' >= clock
  BY DEF BroadcastInv, BroadcastTypeOK
<1>4. ASSUME NEW t \in 1 .. Slots
      PROVE  /\ transactions'[t].used = transactions[t].used
             /\ transactions[t].used => /\ transactions'[t].tx = transactions[t].tx
                                        /\ transactions'[t].seen = transactions[t].seen
  <2>1. CASE t = s
    <3>1. transactions'[t] = e /\ transactions[t].used = TRUE /\ e.used = TRUE
      BY <1>1, <2>1, SlotTyped DEF BroadcastEntries, BroadcastInv
    <3> QED
      BY <2>1, <3>1
  <2>2. CASE t # s
    BY <1>1, <2>2
  <2> QED
    BY <2>1, <2>2
<1> QED
  BY <1>3, <1>4, NothingAdmitted

(***************************************************************************)
(* Every handler of the table keeps its invariant.                         *)
(***************************************************************************)
LEMMA BroadcastInvStep ==
  ASSUME BroadcastInv, [BroadcastNext]_broadcastVars
  PROVE  BroadcastInv'
<1> USE TransactionAssumption
<1>1. ASSUME NEW x \in Transactions, Where(x) # {}, UNCHANGED <<clock, lastNew>>,
             \/ transactions' = PassiveAck(First(Where(x)))
             \/ transactions' = [transactions EXCEPT ![First(Where(x))].sent = clock]
      PROVE  BroadcastInv'
  <2> DEFINE s == First(Where(x))
             acked == [transactions[s] EXCEPT !.acks = Counted(transactions[s].acks)]
             resent == [transactions[s] EXCEPT !.sent = clock]
  <2>1. s \in 1 .. Slots /\ transactions[s].used
    BY <1>1, EntrySlots DEF Where
  <2>2. transactions[s] \in BroadcastEntries /\ Counted(transactions[s].acks) \in Nat /\ clock \in Nat
    BY <2>1, SlotTyped DEF BroadcastInv, BroadcastTypeOK
  <2>3. \/ transactions' = [transactions EXCEPT ![s] = acked]
        \/ transactions' = [transactions EXCEPT ![s] = resent]
    BY <1>1 DEF PassiveAck
  <2>4. /\ acked \in BroadcastEntries /\ acked.tx = transactions[s].tx /\ acked.seen = transactions[s].seen
        /\ resent \in BroadcastEntries /\ resent.tx = transactions[s].tx /\ resent.seen = transactions[s].seen
    BY <2>2 DEF BroadcastEntries
  <2> HIDE DEF s, acked, resent
  <2> QED
    BY <1>1, <2>1, <2>3, <2>4, Retouched
<1>2. ASSUME NEW x \in Transactions, RecordIncoming(x) \/ RecordOutgoing(x) \/ MarkPassiveAck(x)
      PROVE  BroadcastInv'
  <2>1. CASE Where(x) # {}
    BY <1>1, <1>2, <2>1 DEF RecordIncoming, RecordOutgoing, MarkPassiveAck
  <2>2. CASE Where(x) = {}
    BY <1>2, <2>2, Admitted DEF RecordIncoming, RecordOutgoing, MarkPassiveAck
  <2> QED
    BY <2>1, <2>2
<1>3. CASE MarkRebroadcast
  <2> DEFINE s == First(Due)
             resent == [transactions[s] EXCEPT !.retries = Counted(transactions[s].retries),
                                               !.sent = clock]
  <2>1. s \in Due
    BY <1>3, FirstIsLeast, SMTT(30) DEF MarkRebroadcast, Due
  <2>2. s \in 1 .. Slots /\ transactions[s].used
    BY <2>1 DEF Due
  <2>3. transactions[s] \in BroadcastEntries /\ Counted(transactions[s].retries) \in Nat /\ clock \in Nat
    BY <2>2, SlotTyped DEF BroadcastInv, BroadcastTypeOK
  <2>4. transactions' = [transactions EXCEPT ![s] = resent] /\ UNCHANGED <<clock, lastNew>>
    BY <1>3, <2>2 DEF MarkRebroadcast, BroadcastInv, BroadcastTypeOK
  <2>5. resent \in BroadcastEntries /\ resent.tx = transactions[s].tx /\ resent.seen = transactions[s].seen
    BY <2>3 DEF BroadcastEntries
  <2> HIDE DEF s, resent
  <2> QED
    BY <2>2, <2>4, <2>5, Retouched
<1>4. CASE Expire
  <2>1. /\ transactions' = [s \in 1 .. Slots |->
             IF transactions[s].used /\ clock - transactions[s].seen >= DeliveryTime
             THEN Unused ELSE transactions[s]]
        /\ UNCHANGED <<clock, lastNew>>
    BY <1>4 DEF Expire
  <2>2. BroadcastTypeOK' /\ clock' >= clock
    BY <2>1 DEF BroadcastInv, BroadcastTypeOK
  <2>3. \A s \in 1 .. Slots : \/ transactions'[s] = transactions[s]
                            \/ /\ ~transactions'[s].used /\ transactions[s].used
                               /\ clock - transactions[s].seen >= DeliveryTime
    BY <2>1 DEF Unused
  <2> QED
    BY <2>1, <2>2, <2>3, NothingAdmitted
<1>5. CASE PassTime \/ UNCHANGED broadcastVars
  <2>1. /\ clock' = clock \/ clock' = clock + 1
        /\ UNCHANGED <<transactions, lastNew>>
    BY <1>5 DEF PassTime, broadcastVars
  <2>2. BroadcastTypeOK' /\ clock' >= clock
    BY <2>1 DEF BroadcastInv, BroadcastTypeOK
  <2> QED
    BY <2>1, <2>2, NothingAdmitted
<1> QED
  BY <1>2, <1>3, <1>4, <1>5 DEF BroadcastNext

(***************************************************************************)
(* Within its delivery time a broadcast is new once, or was pushed out by  *)
(* as many newer ones as the table holds: recordIncoming, recordOutgoing,  *)
(* allocate and expire, for any number of slots and transactions.          *)
(***************************************************************************)
THEOREM NewOncePerDeliveryTimeAlways == BroadcastSpec => NewOncePerDeliveryTime
<1>1. BroadcastInit => BroadcastInv
  BY TransactionAssumption
  DEF BroadcastInit, BroadcastInv, BroadcastTypeOK, OneEntryPerTransaction, SeenWhenNew,
      ForgottenUnderPressure, Unused, NotSeen
<1>2. BroadcastInv /\ [BroadcastNext]_broadcastVars => BroadcastInv'
  BY BroadcastInvStep
<1>3. BroadcastInv => ForgottenUnderPressure
  BY DEF BroadcastInv
<1>4. ForgottenUnderPressure =>
        [\A x \in Transactions :
           \/ Where(x) # {}
           \/ Where(x)' = {}
           \/ lastNew[x] = NotSeen
           \/ clock - lastNew[x] >= DeliveryTime
           \/ Cardinality(Rivals(x)) >= Slots]_broadcastVars
  BY DEF ForgottenUnderPressure
<1> QED
  BY <1>1, <1>2, <1>3, <1>4, PTL DEF BroadcastSpec, NewOncePerDeliveryTime

-----------------------------------------------------------------------------
(***************************************************************************)
(* The network manager: the changes announced so far make one history, in  *)
(* which h[i] is the network after i changes; a node that missed no change *)
(* is where the history says.                                              *)
(***************************************************************************)
Identifiers == 0 .. UpdateIds - 1
ChangeNumbers == 0 .. MaxChanges

IsHistory(h) ==
  /\ h = [i \in ChangeNumbers |-> h[i]]
  /\ network[Manager] = h[Changes(network[Manager].id)]
  /\ \A n \in ManagedNodes \ gap : network[n] = h[Changes(network[n].id)]
  /\ \A u \in announced :
       u.epid = "ours" => /\ Changes(u.id) >= 1
                          /\ h[Changes(u.id)] = Adopted(h[Changes(u.id) - 1], u)

IdentifiersOK ==
  /\ DOMAIN network = ManagedNodes
  /\ \A n \in ManagedNodes :
       /\ network[n].id \in Identifiers /\ Changes(network[n].id) \in ChangeNumbers
       /\ Changes(network[n].id) <= Changes(network[Manager].id) + 1
       /\ pending = {} => Changes(network[n].id) <= Changes(network[Manager].id)
  /\ pending = {} \/ \E u : pending = {u}
  /\ \A u \in pending :
       /\ u.epid = "ours" /\ u \in announced
       /\ u.id = NextId(network[Manager].id)
       /\ Changes(u.id) = Changes(network[Manager].id) + 1
  /\ \A u \in announced :
       u.epid = "ours" => /\ u.id \in Identifiers /\ Changes(u.id) \in ChangeNumbers
                          /\ \/ Changes(u.id) <= Changes(network[Manager].id)
                             \/ u \in pending

ManagerInv == IdentifiersOK /\ \E h : IsHistory(h)

(***************************************************************************)
(* Fewer changes than half of the identifiers: wherever these start and    *)
(* wrap, an update is newer when it comes after more changes.              *)
(***************************************************************************)
LEMMA SmallModulo ==
  ASSUME NEW m \in Nat, NEW x \in Int, m # 0
  PROVE  /\ 0 <= x /\ x < m => x % m = x
         /\ x < 0 /\ 0 <= x + m => x % m = x + m
         /\ x = m => x % m = 0
<1>1. x = m => x % m = 0
  OBVIOUS
<1> QED
  BY <1>1

\* The identifier with which the network starts comes after no change.
LEMMA FirstIdentifier ==
  ASSUME ChangesAssumption
  PROVE  FirstId \in Identifiers /\ Changes(FirstId) = 0 /\ 0 \in ChangeNumbers
<1>1. /\ UpdateIds \in Nat /\ MaxChanges \in Nat /\ 2 * MaxChanges < UpdateIds
      /\ FirstId \in 0 .. UpdateIds - 1
  BY DEF ChangesAssumption
<1>2. FirstId - FirstId = 0 /\ UpdateIds # 0 /\ 0 \in Int /\ 0 < UpdateIds
  BY <1>1
<1>3. 0 % UpdateIds = 0
  BY <1>1, <1>2, SmallModulo
<1> QED
  BY <1>1, <1>2, <1>3 DEF Identifiers, ChangeNumbers, Changes

\* The number of changes is the distance from the first identifier, around the cycle.
LEMMA ChangesIsDistance ==
  ASSUME ChangesAssumption, NEW a \in Identifiers
  PROVE  /\ Changes(a) = a - FirstId \/ Changes(a) = (a - FirstId) + UpdateIds
         /\ Changes(a) \in Identifiers
<1>1. /\ UpdateIds \in Nat /\ FirstId \in 0 .. UpdateIds - 1 /\ a \in 0 .. UpdateIds - 1
  BY DEF ChangesAssumption, Identifiers
<1>2. a - FirstId \in Int /\ UpdateIds # 0 /\ a - FirstId < UpdateIds /\ 0 <= (a - FirstId) + UpdateIds
  BY <1>1
<1>3. /\ 0 <= a - FirstId => (a - FirstId) % UpdateIds = a - FirstId
      /\ a - FirstId < 0 => (a - FirstId) % UpdateIds = (a - FirstId) + UpdateIds
  BY <1>1, <1>2, SmallModulo
<1> QED
  BY <1>1, <1>2, <1>3 DEF Changes, Identifiers

\* Within half of the cycle, newer is after more changes.
LEMMA NewerIsLarger ==
  ASSUME ChangesAssumption, NEW a \in Identifiers, NEW b \in Identifiers,
         Changes(a) \in ChangeNumbers, Changes(b) \in ChangeNumbers, UpdateIdIsNewer(a, b)
  PROVE  Changes(b) < Changes(a)
<1>1. /\ UpdateIds \in Nat /\ MaxChanges \in Nat /\ 2 * MaxChanges < UpdateIds
      /\ FirstId \in 0 .. UpdateIds - 1
  BY DEF ChangesAssumption
<1>2. /\ a \in 0 .. UpdateIds - 1 /\ b \in 0 .. UpdateIds - 1
      /\ Changes(a) \in 0 .. MaxChanges /\ Changes(b) \in 0 .. MaxChanges
  BY DEF Identifiers, ChangeNumbers
<1>3. (a - b) % UpdateIds # 0 /\ 2 * ((a - b) % UpdateIds) < UpdateIds
  BY DEF UpdateIdIsNewer
<1>4. a - b \in Int /\ UpdateIds # 0 /\ a - b < UpdateIds /\ 0 <= (a - b) + UpdateIds
  BY <1>1, <1>2
<1>5. /\ 0 <= a - b => (a - b) % UpdateIds = a - b
      /\ a - b < 0 => (a - b) % UpdateIds = (a - b) + UpdateIds
  BY <1>1, <1>4, SmallModulo
<1>6. /\ Changes(a) = a - FirstId \/ Changes(a) = (a - FirstId) + UpdateIds
      /\ Changes(b) = b - FirstId \/ Changes(b) = (b - FirstId) + UpdateIds
  BY ChangesIsDistance
<1> QED
  BY <1>1, <1>2, <1>3, <1>5, <1>6

\* The identifier after the last announced one comes after one change more.
LEMMA NextIdentifier ==
  ASSUME ChangesAssumption, NEW k \in Identifiers, Changes(k) \in ChangeNumbers,
         Changes(k) < MaxChanges
  PROVE  /\ NextId(k) \in Identifiers
         /\ Changes(NextId(k)) = Changes(k) + 1 /\ Changes(k) + 1 \in ChangeNumbers
<1>1. /\ UpdateIds \in Nat /\ MaxChanges \in Nat /\ 2 * MaxChanges < UpdateIds
      /\ FirstId \in 0 .. UpdateIds - 1 /\ k \in 0 .. UpdateIds - 1
      /\ Changes(k) \in 0 .. MaxChanges
  BY DEF ChangesAssumption, Identifiers, ChangeNumbers
<1>2. k + 1 \in Int /\ UpdateIds # 0 /\ 0 <= k + 1 /\ (k + 1 < UpdateIds \/ k + 1 = UpdateIds)
  BY <1>1
<1>3. \/ NextId(k) = k + 1 /\ k + 1 < UpdateIds
      \/ NextId(k) = 0 /\ k + 1 = UpdateIds
  <2> DEFINE n == k + 1
  <2>1. UpdateIds \in Nat /\ UpdateIds # 0 /\ n \in Int /\ 0 <= n
    BY <1>1, <1>2
  <2>2. CASE n < UpdateIds
    <3>1. n % UpdateIds = n
      BY <2>1, <2>2, SmallModulo
    <3> QED
      BY <2>2, <3>1 DEF NextId
  <2>3. CASE n = UpdateIds
    <3>1. n % UpdateIds = 0
      BY <2>1, <2>3, SmallModulo
    <3> QED
      BY <2>3, <3>1 DEF NextId
  <2> QED
    BY <1>2, <2>2, <2>3
<1>4. NextId(k) \in 0 .. UpdateIds - 1
  BY <1>1, <1>3
<1>5. /\ Changes(k) = k - FirstId \/ Changes(k) = (k - FirstId) + UpdateIds
      /\ \/ Changes(NextId(k)) = NextId(k) - FirstId
         \/ Changes(NextId(k)) = (NextId(k) - FirstId) + UpdateIds
      /\ Changes(NextId(k)) \in 0 .. UpdateIds - 1
  BY <1>4, ChangesIsDistance DEF Identifiers
<1>6. Changes(NextId(k)) = Changes(k) + 1
  <2> DEFINE c == Changes(k)
             d == Changes(NextId(k))
             n == NextId(k)
  <2>1. /\ c \in 0 .. MaxChanges /\ d \in 0 .. UpdateIds - 1
        /\ c = k - FirstId \/ c = (k - FirstId) + UpdateIds
        /\ d = n - FirstId \/ d = (n - FirstId) + UpdateIds
        /\ \/ n = k + 1 /\ k + 1 < UpdateIds
           \/ n = 0 /\ k + 1 = UpdateIds
    BY <1>1, <1>3, <1>5
  <2> HIDE DEF c, d, n
  <2>2. d = c + 1
    BY <1>1, <1>2, <2>1
  <2> QED
    BY <2>2 DEF c, d
<1> QED
  BY <1>1, <1>4, <1>6 DEF Identifiers, ChangeNumbers

\* All nodes start in the first network of the history.
LEMMA ManagerStarts ==
  ASSUME ChangesAssumption, ManagerInit
  PROVE  ManagerInv
<1> DEFINE first == [pan |-> Smallest(PanIds), channel |-> Smallest(Channels), id |-> FirstId]
           h == [i \in ChangeNumbers |-> first]
<1>1. network = [n \in ManagedNodes |-> first] /\ pending = {} /\ announced = {}
  BY DEF ManagerInit
<1>2. first.id \in Identifiers /\ Changes(first.id) = 0 /\ 0 \in ChangeNumbers
  BY FirstIdentifier
<1> HIDE DEF first
<1>3. Manager \in ManagedNodes /\ \A n \in ManagedNodes : network[n] = first
  BY <1>1 DEF ManagedNodes
<1>4. IdentifiersOK
  BY <1>1, <1>2, <1>3 DEF IdentifiersOK
<1>5. IsHistory(h)
  BY <1>1, <1>2, <1>3 DEF IsHistory
<1> QED
  BY <1>4, <1>5 DEF ManagerInv

(***************************************************************************)
(* An announcement goes on with the history, an update that a node adopts  *)
(* or the manager commits to follows it.                                   *)
(***************************************************************************)
LEMMA ManagerKnown ==
  ASSUME ChangesAssumption, ManagerInv
  PROVE  /\ Manager \in ManagedNodes /\ network[Manager].id \in Identifiers
         /\ Changes(network[Manager].id) \in ChangeNumbers
         /\ \A i \in ChangeNumbers : i \in Int /\ i >= 0
  BY DEF ManagedNodes, ManagerInv, IdentifiersOK, ChangeNumbers, ChangesAssumption

\* What other networks announce is no part of the history.
LEMMA HearingKeeps ==
  ASSUME ChangesAssumption, ManagerInv, UNCHANGED <<network, pending, gap>>,
         \/ UNCHANGED announced
         \/ \E u : u.epid # "ours" /\ announced' = announced \cup {u}
  PROVE  ManagerInv'
<1>1. announced \subseteq announced' /\ \A u \in announced' : u.epid = "ours" => u \in announced
  OBVIOUS
<1>2. IdentifiersOK'
  BY <1>1 DEF ManagerInv, IdentifiersOK
<1>3. PICK h : IsHistory(h)
  BY DEF ManagerInv
<1>4. IsHistory(h)'
  BY <1>1, <1>3 DEF IsHistory
<1> QED
  BY <1>2, <1>4 DEF ManagerInv

\* An announcement names the network that follows the manager's.
LEMMA AnnounceKeeps ==
  ASSUME ChangesAssumption, ManagerInv, NEW type, NEW value,
         Announce(Update("ours", type, value))
  PROVE  ManagerInv'
<1> DEFINE m == network[Manager].id
           k == Changes(m)
           u == Update("ours", type, value)
<1>1. /\ pending = {} /\ k < MaxChanges /\ pending' = {u} /\ announced' = announced \cup {u}
      /\ UNCHANGED <<network, gap>>
  BY DEF Announce
<1>2. /\ m \in Identifiers /\ k \in ChangeNumbers /\ k + 1 \in ChangeNumbers /\ k \in Int
      /\ u.epid = "ours" /\ u.id = NextId(m) /\ u.id \in Identifiers /\ Changes(u.id) = k + 1
  BY <1>1, ManagerKnown, NextIdentifier DEF Update
<1> HIDE DEF u
<1>3. /\ \A n \in ManagedNodes : /\ network[n].id \in Identifiers
                                /\ Changes(network[n].id) \in ChangeNumbers
                                /\ Changes(network[n].id) <= k
      /\ \A v \in announced : v.epid = "ours" => /\ v.id \in Identifiers
                                               /\ Changes(v.id) \in ChangeNumbers
                                               /\ Changes(v.id) <= k
  BY <1>1 DEF ManagerInv, IdentifiersOK
<1>4. IdentifiersOK'
  <2>1. DOMAIN network' = ManagedNodes /\ network'[Manager].id = m
    BY <1>1 DEF ManagerInv, IdentifiersOK
  <2>2. \A n \in ManagedNodes : /\ network'[n].id \in Identifiers
                               /\ Changes(network'[n].id) \in ChangeNumbers
                               /\ Changes(network'[n].id) <= k + 1
    BY <1>1, <1>2, <1>3, ManagerKnown
  <2>3. \A v \in announced' :
          v.epid = "ours" => /\ v.id \in Identifiers /\ Changes(v.id) \in ChangeNumbers
                             /\ Changes(v.id) <= k \/ v \in pending'
    BY <1>1, <1>2, <1>3
  <2> QED
    BY <1>1, <1>2, <2>1, <2>2, <2>3 DEF IdentifiersOK
<1>5. PICK h : IsHistory(h)
  BY DEF ManagerInv
<1>6. PICK g : /\ g = [i \in ChangeNumbers |-> g[i]] /\ g[k + 1] = Adopted(h[k], u)
               /\ \A i \in ChangeNumbers : i <= k => g[i] = h[i]
  <2> DEFINE f == [i \in ChangeNumbers |-> IF i = k + 1 THEN Adopted(h[k], u) ELSE h[i]]
  <2> HIDE DEF k
  <2>1. /\ f = [i \in ChangeNumbers |-> f[i]] /\ f[k + 1] = Adopted(h[k], u)
        /\ \A i \in ChangeNumbers : i <= k => f[i] = h[i]
    BY <1>2, ManagerKnown
  <2> HIDE DEF f
  <2> QED
    BY <2>1
<1>7. \A n \in ManagedNodes \ gap : network[n] = g[Changes(network[n].id)]
  BY <1>3, <1>5, <1>6 DEF IsHistory
<1>8. network[Manager] = g[k]
  BY <1>2, <1>5, <1>6 DEF IsHistory
<1>9. ASSUME NEW v \in announced', v.epid = "ours"
      PROVE  Changes(v.id) >= 1 /\ g[Changes(v.id)] = Adopted(g[Changes(v.id) - 1], v)
  <2>1. CASE v = u
    <3>1. Changes(v.id) = k + 1 /\ k + 1 >= 1 /\ (k + 1) - 1 = k /\ g[k] = h[k]
      BY <1>2, <1>6, <2>1, ManagerKnown
    <3> QED
      BY <1>6, <2>1, <3>1
  <2>2. CASE v \in announced
    <3> DEFINE c == Changes(v.id)
    <3>1. c >= 1 /\ h[c] = Adopted(h[c - 1], v) /\ c \in ChangeNumbers /\ c <= k
      BY <1>3, <1>5, <1>9, <2>2 DEF IsHistory
    <3>2. c - 1 \in ChangeNumbers /\ c - 1 <= k
      BY <1>2, <3>1 DEF ChangeNumbers, ChangesAssumption
    <3> QED
      BY <1>6, <3>1, <3>2
  <2> QED
    BY <1>1, <2>1, <2>2
<1>10. IsHistory(g)'
  BY <1>1, <1>6, <1>7, <1>8, <1>9 DEF IsHistory
<1> QED
  BY <1>4, <1>10 DEF ManagerInv

\* A node that applies an announcement moves to a network of the history.
LEMMA ApplyKeeps ==
  ASSUME ChangesAssumption, ManagerInv, NEW n \in ManagedNodes, NEW u \in announced,
         ApplyUpdate(n, u)
  PROVE  ManagerInv'
<1> DEFINE k == Changes(network[Manager].id)
<1>1. /\ u.epid = "ours" /\ UpdateIdIsNewer(u.id, network[n].id)
      /\ network' = [network EXCEPT ![n] = Adopted(network[n], u)]
      /\ gap' = IF u.id # NextId(network[n].id) THEN gap \cup {n} ELSE gap
      /\ pending' = IF n = Manager THEN {} ELSE pending
      /\ announced' = announced
  BY DEF ApplyUpdate, MayApply
<1>2. /\ u.id \in Identifiers /\ network[n].id \in Identifiers
      /\ Changes(u.id) \in ChangeNumbers /\ Changes(network[n].id) \in ChangeNumbers
      /\ k \in ChangeNumbers /\ (Changes(u.id) <= k \/ u \in pending)
      /\ DOMAIN network = ManagedNodes /\ Manager \in ManagedNodes
      /\ Changes(u.id) \in Int /\ k \in Int /\ Changes(network[n].id) \in Int
  BY <1>1, ManagerKnown DEF ManagerInv, IdentifiersOK
<1>3. Changes(network[n].id) < Changes(u.id)
  BY <1>1, <1>2, NewerIsLarger
<1>4. u \in pending => Changes(u.id) = k + 1 /\ pending = {u}
  BY DEF ManagerInv, IdentifiersOK
<1>5. /\ \A m \in ManagedNodes : m # n => network'[m] = network[m]
      /\ network'[n] = Adopted(network[n], u) /\ network'[n].id = u.id
      /\ DOMAIN network' = ManagedNodes
  BY <1>1, <1>2 DEF Adopted
<1>6. IdentifiersOK'
  <2>1. CASE n = Manager
    <3>1. /\ u \in pending /\ Changes(u.id) = k + 1 /\ network'[Manager].id = u.id
          /\ pending' = {}
      BY <1>1, <1>2, <1>3, <1>4, <1>5, <2>1
    <3>2. \A m \in ManagedNodes : /\ network'[m].id \in Identifiers
                                 /\ Changes(network'[m].id) \in ChangeNumbers
                                 /\ Changes(network'[m].id) <= k + 1
      BY <1>2, <1>5, <2>1, <3>1 DEF ManagerInv, IdentifiersOK
    <3>3. ASSUME NEW v \in announced, v.epid = "ours"
          PROVE  v.id \in Identifiers /\ Changes(v.id) \in ChangeNumbers /\ Changes(v.id) <= k + 1
      <4>1. /\ v.id \in Identifiers /\ Changes(v.id) \in ChangeNumbers
            /\ Changes(v.id) <= k \/ v \in pending
        BY <3>3 DEF ManagerInv, IdentifiersOK
      <4>2. v \in pending => Changes(v.id) = k + 1
        BY <1>4, <3>1
      <4> QED
        BY <1>2, <4>1, <4>2, ManagerKnown
    <3>4. \A m \in ManagedNodes : Changes(network'[m].id) <= k + 1 + 1
      BY <1>2, <3>2, ManagerKnown
    <3> QED
      BY <1>1, <1>5, <3>1, <3>2, <3>3, <3>4 DEF IdentifiersOK
  <2>2. CASE n # Manager
    <3>1. network'[Manager] = network[Manager] /\ pending' = pending
      BY <1>1, <1>2, <1>5, <2>2
    <3>2. \A m \in ManagedNodes : /\ network'[m].id \in Identifiers
                                 /\ Changes(network'[m].id) \in ChangeNumbers
                                 /\ Changes(network'[m].id) <= k + 1
                                 /\ (pending = {} => Changes(network'[m].id) <= k)
      BY <1>2, <1>4, <1>5 DEF ManagerInv, IdentifiersOK
    <3> QED
      BY <1>1, <1>5, <3>1, <3>2 DEF ManagerInv, IdentifiersOK
  <2> QED
    BY <2>1, <2>2
<1>7. PICK h : IsHistory(h)
  BY DEF ManagerInv
<1>8. h[Changes(u.id)] = Adopted(h[Changes(u.id) - 1], u)
  BY <1>1, <1>7 DEF IsHistory
<1>9. ASSUME network[n] = h[Changes(network[n].id)], Changes(u.id) = Changes(network[n].id) + 1
      PROVE  network'[n] = h[Changes(network'[n].id)]
  <2>1. Changes(u.id) - 1 = Changes(network[n].id)
    BY <1>2, <1>9
  <2> QED
    BY <1>5, <1>8, <1>9, <2>1
<1>10. u.id = NextId(network[n].id) => Changes(u.id) = Changes(network[n].id) + 1
  <2>1. Changes(network[n].id) < MaxChanges
    BY <1>2, <1>3 DEF ChangeNumbers, ChangesAssumption
  <2> QED
    BY <1>2, <2>1, NextIdentifier
<1>11. \A m \in ManagedNodes \ gap' : network'[m] = h[Changes(network'[m].id)]
  BY <1>1, <1>5, <1>7, <1>9, <1>10 DEF IsHistory
<1>12. network'[Manager] = h[Changes(network'[Manager].id)]
  <2>1. CASE n = Manager
    BY <1>2, <1>3, <1>4, <1>7, <1>9, <2>1 DEF IsHistory
  <2>2. CASE n # Manager
    BY <1>2, <1>5, <1>7, <2>2 DEF IsHistory
  <2> QED
    BY <2>1, <2>2
<1>13. IsHistory(h)'
  BY <1>1, <1>7, <1>11, <1>12 DEF IsHistory
<1> QED
  BY <1>6, <1>13 DEF ManagerInv

\* The manager moves to the network it announced.
LEMMA CommitKeeps ==
  ASSUME ChangesAssumption, ManagerInv, Commit
  PROVE  ManagerInv'
<1> DEFINE m == network[Manager].id
           k == Changes(m)
<1>1. PICK u \in pending :
        network' = [network EXCEPT ![Manager] =
          [Adopted(@, u) EXCEPT !.id = NextId(network[Manager].id)]]
  BY DEF Commit
<1>2. /\ u.epid = "ours" /\ u \in announced /\ u.id = NextId(m) /\ u.id \in Identifiers
      /\ Changes(u.id) = k + 1 /\ Changes(u.id) \in ChangeNumbers
      /\ pending = {u} /\ Manager \in ManagedNodes /\ DOMAIN network = ManagedNodes
      /\ k \in ChangeNumbers /\ k \in Int
  <2>1. /\ u.epid = "ours" /\ u \in announced /\ u.id = NextId(m) /\ Changes(u.id) = k + 1
        /\ pending = {u} /\ DOMAIN network = ManagedNodes
    BY <1>1 DEF ManagerInv, IdentifiersOK
  <2>2. u.id \in Identifiers /\ Changes(u.id) \in ChangeNumbers
    BY <2>1 DEF ManagerInv, IdentifiersOK
  <2> QED
    BY <2>1, <2>2, ManagerKnown
<1>3. network' = [network EXCEPT ![Manager] = Adopted(network[Manager], u)]
  <2>1. [Adopted(network[Manager], u) EXCEPT !.id = NextId(m)] = Adopted(network[Manager], u)
    BY <1>2 DEF Adopted
  <2> QED
    BY <1>1, <2>1
<1>4. pending' = {} /\ announced' = announced /\ gap' = gap
  BY DEF Commit
<1>5. /\ \A n \in ManagedNodes : n # Manager => network'[n] = network[n]
      /\ network'[Manager] = Adopted(network[Manager], u) /\ network'[Manager].id = u.id
      /\ DOMAIN network' = ManagedNodes
  BY <1>2, <1>3 DEF Adopted
<1>6. IdentifiersOK'
  <2>1. \A n \in ManagedNodes : /\ network'[n].id \in Identifiers
                               /\ Changes(network'[n].id) \in ChangeNumbers
                               /\ Changes(network'[n].id) <= k + 1
    BY <1>2, <1>5 DEF ManagerInv, IdentifiersOK
  <2>2. ASSUME NEW n \in ManagedNodes
        PROVE  Changes(network'[n].id) <= k + 1 + 1
    <3>1. Changes(network'[n].id) <= k + 1 /\ Changes(network'[n].id) \in Int
      BY <2>1, ManagerKnown
    <3> QED
      BY <1>2, <3>1
  <2>3. ASSUME NEW v \in announced, v.epid = "ours"
        PROVE  v.id \in Identifiers /\ Changes(v.id) \in ChangeNumbers /\ Changes(v.id) <= k + 1
    <3>1. /\ v.id \in Identifiers /\ Changes(v.id) \in ChangeNumbers
          /\ Changes(v.id) <= k \/ v = u
      BY <1>2, <2>3 DEF ManagerInv, IdentifiersOK
    <3>2. Changes(v.id) \in Int
      BY <3>1, ManagerKnown
    <3> QED
      BY <1>2, <3>1, <3>2
  <2> QED
    BY <1>2, <1>4, <1>5, <2>1, <2>2, <2>3 DEF IdentifiersOK
<1>7. PICK h : IsHistory(h)
  BY DEF ManagerInv
<1>8. h[Changes(u.id)] = Adopted(h[Changes(u.id) - 1], u) /\ network[Manager] = h[k]
  BY <1>2, <1>7 DEF IsHistory
<1>9. Changes(u.id) - 1 = k
  BY <1>2
<1>10. network'[Manager] = h[Changes(network'[Manager].id)]
  BY <1>5, <1>8, <1>9
<1>11. \A n \in ManagedNodes \ gap : network'[n] = h[Changes(network'[n].id)]
  BY <1>5, <1>7, <1>10 DEF IsHistory
<1>12. IsHistory(h)'
  BY <1>4, <1>7, <1>10, <1>11 DEF IsHistory
<1> QED
  BY <1>6, <1>12 DEF ManagerInv

\* Every step keeps the history.
LEMMA ManagerStep ==
  ASSUME ChangesAssumption, ManagerInv, [ManagerNext]_managerVars
  PROVE  ManagerInv'
<1>1. ASSUME UNCHANGED managerVars PROVE ManagerInv'
  BY <1>1, HearingKeeps DEF managerVars
<1>2. ASSUME NEW p, RecordHeardPanId(p) PROVE ManagerInv'
  BY <1>2, HearingKeeps DEF RecordHeardPanId
<1>3. ASSUME NEW p, ForeignUpdate(p) PROVE ManagerInv'
  <2>1. Update("theirs", "pan", p).epid # "ours"
    BY DEF Update
  <2> QED
    BY <1>3, <2>1, HearingKeeps DEF ForeignUpdate
<1>4. ASSUME AnnouncePan \/ AnnounceChannel PROVE ManagerInv'
  BY <1>4, AnnounceKeeps DEF AnnouncePan, AnnounceChannel
<1> QED
  BY <1>1, <1>2, <1>3, <1>4, ApplyKeeps, CommitKeeps DEF ManagerNext

(***************************************************************************)
(* A node with the manager's update identifier is on the manager's network *)
(* unless it missed a change, for every number of nodes and of changes, as *)
(* long as these are fewer than half of the identifiers, and wherever the  *)
(* identifiers start and wrap.                                             *)
(***************************************************************************)
THEOREM SameIdSameNetworkAlways == ManagerSpec => []SameIdSameNetwork
<1>1. ManagerSpec => []ManagerInv
  BY ManagerStarts, ManagerStep, ChangesAssumption, PTL DEF ManagerSpec
<1>2. ManagerInv => SameIdSameNetwork
  BY DEF ManagerInv, IsHistory, SameIdSameNetwork
<1> QED
  BY <1>1, <1>2, PTL

-----------------------------------------------------------------------------
(***************************************************************************)
(* Source routes: what a Route Record lists, and what the concentrator     *)
(* stored of it, is a way that the nodes use upwards, unless a node of it  *)
(* has moved.                                                              *)
(***************************************************************************)
LastOf(d, relays) == IF relays = <<>> THEN d ELSE relays[Len(relays)]

\* The relays are the way up of d, and as long as there is room for all of
\* them the last one is just below node n.
LeadsUp(d, relays, n) ==
  /\ relays # <<>> => up[d] = relays[1]
  /\ \A i \in 1 .. Len(relays) - 1 : up[relays[i]] = relays[i + 1]
  /\ Len(relays) < RecordLimit => up[LastOf(d, relays)] = n

RelayLists == {r \in Seq(Devices) : Len(r) <= RecordLimit}
RecordsOf == [at : 0 .. LastNode, relays : RelayLists, left : BOOLEAN]
RoutesDown == [dest : Devices, relays : RelayLists, left : BOOLEAN]

GoodRecords(d) ==
  {Nowhere} \cup {r \in RecordsOf : r.left \/ LeadsUp(d, r.relays, r.at)}
GoodRoutes == {e \in RoutesDown : e.left \/ LeadsUp(e.dest, e.relays, Concentrator)}

SourceRouteInv ==
  /\ up \in [Devices -> 0 .. LastNode]
  /\ record = [d \in Devices |-> record[d]]
  /\ \A d \in Devices : record[d] \in GoodRecords(d)
  /\ sourceRoutes \in Seq(GoodRoutes)

(***************************************************************************)
(* A good route passes the test on its walk down.                          *)
(***************************************************************************)
LEMMA GoodRouteDown ==
  ASSUME SourceRouteAssumption, NEW e \in GoodRoutes, ~ e.left,
         NEW k \in 2 .. Len(Walk(e)), up \in [Devices -> 0 .. LastNode]
  PROVE  \/ up[Walk(e)[k]] = Walk(e)[k - 1]
         \/ k = 2 /\ Len(e.relays) = RecordLimit
<1> DEFINE r == e.relays
           L == Len(r)
           w == Walk(e)
<1>1. /\ r \in Seq(Devices) /\ L \in Nat /\ L <= RecordLimit /\ RecordLimit \in Nat
      /\ LeadsUp(e.dest, r, Concentrator) /\ e.dest \in Devices
  BY DEF GoodRoutes, RoutesDown, RelayLists, SourceRouteAssumption
<1> DEFINE down == Reverse(r)
<1>2. /\ down \in Seq(Devices) /\ Len(down) = L
      /\ \A i \in 1 .. L : down[i] = r[L - i + 1]
  <2>1. down = [i \in 1 .. L |-> r[L - i + 1]]
    BY Zenon DEF Reverse
  <2>2. \A i \in 1 .. L : r[L - i + 1] \in Devices
    BY <1>1
  <2> HIDE DEF down
  <2> QED
    BY <1>1, <2>1, <2>2
<1>3. w = <<Concentrator>> \o down \o <<e.dest>>
  BY Zenon DEF Walk, DownstreamRoute
<1> HIDE DEF w, down
<1>4. /\ Len(w) = L + 2 /\ w[1] = Concentrator /\ w[L + 2] = e.dest
      /\ \A i \in 2 .. L + 1 : w[i] = r[L - i + 2]
  <2> DEFINE a == <<Concentrator>> \o down
  <2>1. /\ Len(a) = L + 1 /\ a \in Seq(Devices \cup {Concentrator}) /\ a[1] = Concentrator
        /\ \A i \in 2 .. L + 1 : a[i] = down[i - 1]
    BY <1>1, <1>2, SMTT(30)
  <2> HIDE DEF a
  <2>2. w = a \o <<e.dest>>
    BY <1>3 DEF a
  <2>3. /\ Len(w) = L + 2 /\ w[L + 2] = e.dest
        /\ \A i \in 1 .. L + 1 : w[i] = a[i]
    <3> DEFINE last == <<e.dest>>
    <3>1. last \in Seq(Devices \cup {Concentrator}) /\ Len(last) = 1 /\ last[1] = e.dest
      BY <1>1
    <3> DEFINE T == Devices \cup {Concentrator}
    <3>5. a \in Seq(T) /\ last \in Seq(T)
      BY <2>1, <3>1
    <3> HIDE DEF last, T
    <3>2. /\ Len(a \o last) = Len(a) + Len(last)
          /\ \A i \in 1 .. Len(a) + Len(last) :
               (a \o last)[i] = IF i <= Len(a) THEN a[i] ELSE last[i - Len(a)]
      BY <3>5, ConcatProperties
    <3>3. w = a \o last /\ Len(a) + Len(last) = L + 2
      BY <1>1, <2>1, <2>2, <3>1 DEF last
    <3>4. /\ \A i \in 1 .. L + 1 : i \in 1 .. L + 2 /\ i <= L + 1
          /\ L + 2 \in 1 .. L + 2 /\ ~ (L + 2 <= L + 1) /\ L + 2 - (L + 1) = 1
      BY <1>1
    <3> QED
      BY <2>1, <3>1, <3>2, <3>3, <3>4
  <2>4. ASSUME NEW i \in 2 .. L + 1 PROVE w[i] = r[L - i + 2]
    <3>1. i - 1 \in 1 .. L /\ i \in 1 .. L + 1 /\ L - (i - 1) + 1 = L - i + 2
      BY <1>1
    <3>2. w[i] = down[i - 1] /\ down[i - 1] = r[L - (i - 1) + 1]
      BY <1>2, <2>1, <2>3, <3>1
    <3> QED
      BY <3>1, <3>2
  <2> QED
    BY <1>1, <2>1, <2>3, <2>4, SMTT(30)
<1>5. k \in 2 .. L + 2
  BY <1>4 DEF w
<1>6. CASE L = 0
  <2>1. k = 2 /\ w[k] = e.dest /\ w[k - 1] = Concentrator /\ r = <<>>
    BY <1>1, <1>4, <1>5, <1>6
  <2> QED
    BY <1>1, <1>6, <2>1 DEF LeadsUp, LastOf, w
<1>7. CASE L # 0 /\ k = 2
  <2>1. w[k] = r[L] /\ w[k - 1] = Concentrator /\ r # <<>>
    <3>1. 2 \in 2 .. L + 1 /\ L - 2 + 2 = L /\ k - 1 = 1
      BY <1>1, <1>7
    <3> QED
      BY <1>1, <1>4, <1>7, <3>1, SMTT(30)
  <2> QED
    BY <1>1, <1>7, <2>1 DEF LeadsUp, LastOf, w
<1>8. CASE L # 0 /\ k = L + 2
  <2>1. w[k] = e.dest /\ r # <<>> /\ k - 1 \in 2 .. L + 1 /\ L - (k - 1) + 2 = 1
    BY <1>1, <1>4, <1>8
  <2>2. w[k - 1] = r[1]
    BY <1>4, <2>1
  <2> QED
    BY <1>1, <2>1, <2>2 DEF LeadsUp, w
<1>9. CASE k # 2 /\ k # L + 2
  <2>1. k \in 2 .. L + 1 /\ k - 1 \in 2 .. L + 1 /\ L - k + 2 \in 1 .. L - 1
        /\ L - (k - 1) + 2 = (L - k + 2) + 1
    <3>1. k \in Int /\ L \in Int /\ 3 <= k /\ k <= L + 1
      BY <1>1, <1>5, <1>9
    <3> HIDE DEF L
    <3> QED
      BY <3>1
  <2>2. w[k] = r[L - k + 2] /\ w[k - 1] = r[(L - k + 2) + 1]
    BY <1>4, <2>1
  <2>3. up[r[L - k + 2]] = r[(L - k + 2) + 1]
    BY <1>1, <2>1 DEF LeadsUp
  <2> QED
    BY <2>2, <2>3 DEF w
<1> QED
  BY <1>6, <1>7, <1>8, <1>9

(***************************************************************************)
(* The table operations keep or drop entries, and add one for the record   *)
(* that came in.                                                           *)
(***************************************************************************)
LEMMA OthersAreRoutes ==
  ASSUME NEW d, NEW S, sourceRoutes \in Seq(S)
  PROVE  Others(d) \in Seq(S)
<1>1. CASE SlotOfDevice(d) = {}
  BY <1>1 DEF Others
<1>2. CASE SlotOfDevice(d) # {}
  <2> DEFINE i == CHOOSE i \in SlotOfDevice(d) : TRUE
             n == Len(sourceRoutes)
  <2>1. i \in 1 .. n /\ n \in Nat
    BY <1>2 DEF SlotOfDevice
  <2>2. Others(d) = SubSeq(sourceRoutes, 1, i - 1) \o SubSeq(sourceRoutes, i + 1, n)
    BY <1>2 DEF Others, RemoveAt
  <2> HIDE DEF i
  <2>3. \A j \in 1 .. n : sourceRoutes[j] \in S
    OBVIOUS
  <2>4. SubSeq(sourceRoutes, 1, i - 1) \in Seq(S) /\ SubSeq(sourceRoutes, i + 1, n) \in Seq(S)
    <3>1. /\ \A j \in 1 .. i - 1 : sourceRoutes[j] \in S
          /\ \A j \in i + 1 .. n : sourceRoutes[j] \in S
      BY <2>1, <2>3
    <3>2. 1 \in 1 .. n + 1 /\ i - 1 \in 0 .. n /\ i + 1 \in 1 .. n + 1 /\ n \in 0 .. n
      BY <2>1
    <3> QED
      BY <3>1, <3>2, <2>1, SubSeqProperties
  <2> QED
    BY <2>2, <2>4, ConcatProperties
<1> QED
  BY <1>1, <1>2

\* No record and no route to start with.
LEMMA SourceRoutesStart ==
  ASSUME SourceRouteAssumption, SourceRouteInit
  PROVE  SourceRouteInv
<1>1. \A n \in Devices : n - 1 \in 0 .. LastNode
  BY DEF Devices, SourceRouteAssumption
<1>2. up \in [Devices -> 0 .. LastNode]
  BY <1>1 DEF SourceRouteInit
<1>3. record = [d \in Devices |-> Nowhere]
  BY DEF SourceRouteInit
<1> QED
  BY <1>2, <1>3 DEF SourceRouteInit, SourceRouteInv, GoodRecords

\* A new record lists no relay.
LEMMA SendKeeps ==
  ASSUME SourceRouteAssumption, SourceRouteInv, NEW d \in Devices, SendRecord(d)
  PROVE  SourceRouteInv'
<1> DEFINE r == EmptyRecord(up[d])
<1>1. record' = [record EXCEPT ![d] = r] /\ UNCHANGED <<up, sourceRoutes>>
  BY DEF SendRecord
<1>2. up[d] \in 0 .. LastNode
  BY DEF SourceRouteInv
<1>3. r = [at |-> up[d], relays |-> <<>>, left |-> FALSE]
  BY DEF EmptyRecord
<1>4. <<>> \in RelayLists
  BY DEF RelayLists, SourceRouteAssumption
<1>5. LeadsUp(d, <<>>, up[d])
  BY DEF LeadsUp, LastOf
<1>6. r \in GoodRecords(d)
  BY <1>2, <1>3, <1>4, <1>5 DEF GoodRecords, RecordsOf
<1> HIDE DEF r
<1>7. record' = [c \in Devices |-> record'[c]] /\ \A c \in Devices : record'[c] \in GoodRecords(c)
  BY <1>1, <1>6 DEF SourceRouteInv
<1>8. (\A c \in Devices : record[c] \in GoodRecords(c))'
  BY <1>1, <1>7 DEF GoodRecords, LeadsUp
<1> QED
  BY <1>1, <1>7, <1>8 DEF SourceRouteInv, GoodRoutes, LeadsUp

(***************************************************************************)
(* As long as nobody moves, what is good stays good.                       *)
(***************************************************************************)
LEMMA SameWaysUp ==
  ASSUME SourceRouteInv, UNCHANGED up,
         record' = [d \in Devices |-> record'[d]],
         \A d \in Devices : record'[d] \in GoodRecords(d),
         sourceRoutes' \in Seq(GoodRoutes)
  PROVE  SourceRouteInv'
<1>1. GoodRoutes' = GoodRoutes
  BY DEF GoodRoutes, LeadsUp
<1>2. \A d \in Devices : GoodRecords(d)' = GoodRecords(d)
  BY DEF GoodRecords, LeadsUp
<1> QED
  BY <1>1, <1>2 DEF SourceRouteInv

\* A relay adds itself to a record that leads up to it.
LEMMA RelayKeeps ==
  ASSUME SourceRouteAssumption, SourceRouteInv, NEW d \in Devices, RelayRecord(d)
  PROVE  SourceRouteInv'
<1> DEFINE n == record[d].at
           r == record[d].relays
           listed == IF Len(r) < RecordLimit THEN Append(r, n) ELSE r
           new == [at |-> up[n], relays |-> listed, left |-> record[d].left]
<1>1. n > Concentrator /\ UNCHANGED <<up, sourceRoutes>>
      /\ record' = [record EXCEPT ![d] = new]
  BY DEF RelayRecord
<1>2. record[d] \in GoodRecords(d) /\ record[d] # Nowhere
  BY <1>1 DEF SourceRouteInv, Nowhere, EmptyRecord, Concentrator
<1>3. /\ record[d] \in RecordsOf /\ n \in Devices /\ r \in Seq(Devices) /\ Len(r) <= RecordLimit
      /\ RecordLimit \in Nat /\ up[n] \in 0 .. LastNode
      /\ record[d].left \/ LeadsUp(d, r, n)
  BY <1>1, <1>2 DEF GoodRecords, RecordsOf, RelayLists, Devices, Concentrator,
                    SourceRouteAssumption, SourceRouteInv
<1>5. listed \in RelayLists
  BY <1>3 DEF RelayLists
<1>6. ASSUME LeadsUp(d, r, n) PROVE LeadsUp(d, listed, up[n])
  <2>1. CASE Len(r) < RecordLimit
    <3>1. /\ listed = Append(r, n) /\ Len(listed) = Len(r) + 1 /\ listed # <<>>
          /\ listed[Len(r) + 1] = n /\ \A i \in 1 .. Len(r) : listed[i] = r[i]
      BY <1>3, <2>1
    <3>2. up[LastOf(d, r)] = n
      BY <1>6, <2>1 DEF LeadsUp
    <3>3. CASE r = <<>>
      <4>1. Len(listed) = 1 /\ listed[1] = n
        BY <3>1, <3>3
      <4> QED
        BY <3>1, <3>2, <3>3, <4>1 DEF LeadsUp, LastOf
    <3>4. CASE r # <<>>
      <4>1. Len(r) >= 1 /\ listed[1] = r[1] /\ up[r[Len(r)]] = n
        BY <1>3, <3>1, <3>2, <3>4 DEF LastOf
      <4>2. ASSUME NEW i \in 1 .. Len(listed) - 1 PROVE up[listed[i]] = listed[i + 1]
        <5>1. CASE i = Len(r)
          BY <1>3, <3>1, <4>1, <5>1
        <5>2. CASE i # Len(r)
          <6>1. i \in 1 .. Len(r) - 1 /\ i \in 1 .. Len(r) /\ i + 1 \in 1 .. Len(r)
            BY <1>3, <3>1, <5>2
          <6> QED
            BY <1>6, <3>1, <6>1 DEF LeadsUp
        <5> QED
          BY <5>1, <5>2
      <4>3. up[d] = listed[1] /\ LastOf(d, listed) = n
        BY <1>6, <3>1, <3>4, <4>1 DEF LeadsUp, LastOf
      <4> QED
        BY <4>2, <4>3 DEF LeadsUp
    <3> QED
      BY <3>3, <3>4
  <2>2. CASE ~ (Len(r) < RecordLimit)
    BY <1>6, <2>2 DEF LeadsUp
  <2> QED
    BY <2>1, <2>2
<1>7. new \in GoodRecords(d)
  BY <1>3, <1>5, <1>6 DEF GoodRecords, RecordsOf
<1> HIDE DEF new
<1>8. record' = [c \in Devices |-> record'[c]] /\ \A c \in Devices : record'[c] \in GoodRecords(c)
  BY <1>1, <1>7 DEF SourceRouteInv
<1> QED
  BY <1>1, <1>8, SameWaysUp DEF SourceRouteInv

\* A record lost, or installed as a route.
LEMMA LoseOrLearnKeeps ==
  ASSUME SourceRouteAssumption, SourceRouteInv, NEW d \in Devices,
         LoseRecord(d) \/ ConcentratorLearns(d)
  PROVE  SourceRouteInv'
<1>1. UNCHANGED up /\ record' = [record EXCEPT ![d] = Nowhere]
  BY DEF LoseRecord, ConcentratorLearns
<1>2. record' = [c \in Devices |-> record'[c]] /\ \A c \in Devices : record'[c] \in GoodRecords(c)
  BY <1>1 DEF SourceRouteInv, GoodRecords
<1>3. sourceRoutes' \in Seq(GoodRoutes)
  <2>1. CASE LoseRecord(d)
    BY <2>1 DEF LoseRecord, SourceRouteInv
  <2>2. CASE ConcentratorLearns(d)
    <3> DEFINE e == [dest |-> d, relays |-> record[d].relays, left |-> record[d].left]
               kept == IF Len(Others(d)) < SourceRouteSlots THEN Others(d) ELSE Tail(Others(d))
    <3>1. record[d] \in GoodRecords(d) /\ record[d] # Nowhere /\ record[d].at = Concentrator
      BY <2>2 DEF SourceRouteInv, Nowhere, EmptyRecord, Concentrator, ConcentratorLearns
    <3>2. e \in GoodRoutes
      BY <3>1 DEF GoodRecords, RecordsOf, GoodRoutes, RoutesDown
    <3>3. Others(d) \in Seq(GoodRoutes)
      BY OthersAreRoutes DEF SourceRouteInv
    <3>4. kept \in Seq(GoodRoutes)
      BY <3>3 DEF SourceRouteAssumption
    <3>5. sourceRoutes' = Append(kept, e)
      BY <2>2 DEF ConcentratorLearns, Install
    <3> HIDE DEF e, kept
    <3> QED
      BY <3>2, <3>4, <3>5
  <2> QED
    BY <2>1, <2>2
<1> QED
  BY <1>1, <1>2, <1>3, SameWaysUp

\* Expired and removed routes.
LEMMA ForgetRoutesKeeps ==
  ASSUME SourceRouteAssumption, SourceRouteInv,
         \/ \E d \in Devices : RemoveRoute(d)
         \/ \E k \in 1 .. Len(sourceRoutes) : ExpireRoutes(k)
  PROVE  SourceRouteInv'
<1>1. UNCHANGED <<up, record>>
  BY DEF RemoveRoute, ExpireRoutes
<1>2. ASSUME NEW d \in Devices, RemoveRoute(d) PROVE sourceRoutes' \in Seq(GoodRoutes)
  BY <1>2, OthersAreRoutes DEF RemoveRoute, SourceRouteInv
<1>3. ASSUME NEW k \in 1 .. Len(sourceRoutes), ExpireRoutes(k)
      PROVE  sourceRoutes' \in Seq(GoodRoutes)
  <2> DEFINE n == Len(sourceRoutes)
  <2>1. sourceRoutes \in Seq(GoodRoutes) /\ n \in Nat /\ \A j \in 1 .. n : sourceRoutes[j] \in GoodRoutes
    BY DEF SourceRouteInv
  <2>2. k + 1 \in 1 .. n + 1 /\ n \in 0 .. n /\ \A j \in k + 1 .. n : sourceRoutes[j] \in GoodRoutes
    BY <2>1
  <2>3. SubSeq(sourceRoutes, k + 1, n) \in Seq(GoodRoutes)
    BY <2>1, <2>2, SubSeqProperties
  <2> QED
    BY <1>3, <2>3 DEF ExpireRoutes
<1> QED
  BY <1>1, <1>2, <1>3, SameWaysUp DEF SourceRouteInv

(***************************************************************************)
(* A node that moves spoils only what it is part of, and that is marked.   *)
(***************************************************************************)
LEMMA BehindIsGood ==
  ASSUME NEW n \in Devices, NEW d \in Devices, NEW relays \in Seq(Devices), NEW at,
         n # d, ~ Contains(relays, n), up \in [Devices -> 0 .. LastNode],
         up' \in [Devices -> 0 .. LastNode],
         \A m \in Devices : m # n => up'[m] = up[m],
         LeadsUp(d, relays, at)
  PROVE  LeadsUp(d, relays, at)'
<1>1. \A i \in 1 .. Len(relays) : relays[i] \in Devices /\ up'[relays[i]] = up[relays[i]]
  BY DEF Contains
<1>2. up'[d] = up[d] /\ up'[LastOf(d, relays)] = up[LastOf(d, relays)]
  BY <1>1 DEF LastOf
<1>3. \A i \in 1 .. Len(relays) - 1 : i \in 1 .. Len(relays)
  OBVIOUS
<1> QED
  BY <1>1, <1>2, <1>3 DEF LeadsUp, LastOf

\* A node that moves marks what it leaves behind.
LEMMA MoveKeeps ==
  ASSUME SourceRouteAssumption, SourceRouteInv, NEW n \in Devices, NEW p \in 0 .. LastNode,
         MoveUp(n, p)
  PROVE  SourceRouteInv'
<1>1. /\ up' = [up EXCEPT ![n] = p]
      /\ record' = [d \in Devices |->
           IF record[d] = Nowhere THEN Nowhere ELSE Behind(n, d, record[d])]
      /\ sourceRoutes' = [i \in 1 .. Len(sourceRoutes) |->
           Behind(n, sourceRoutes[i].dest, sourceRoutes[i])]
  BY DEF MoveUp
<1>2. /\ up \in [Devices -> 0 .. LastNode] /\ up' \in [Devices -> 0 .. LastNode]
      /\ \A m \in Devices : m # n => up'[m] = up[m]
  BY <1>1 DEF SourceRouteInv
<1>3. ASSUME NEW d \in Devices PROVE record'[d] \in GoodRecords(d)'
  <2>1. CASE record[d] = Nowhere
    BY <1>1, <2>1 DEF GoodRecords
  <2>2. CASE record[d] # Nowhere
    <3> DEFINE r == record[d]
    <3>1. /\ r \in RecordsOf /\ (r.left \/ LeadsUp(d, r.relays, r.at)) /\ r.relays \in Seq(Devices)
          /\ record'[d] = [r EXCEPT !.left = @ \/ n = d \/ Contains(r.relays, n)]
      BY <1>1, <2>2 DEF SourceRouteInv, GoodRecords, RecordsOf, RelayLists, Behind
    <3>2. /\ record'[d] \in RecordsOf /\ record'[d].relays = r.relays /\ record'[d].at = r.at
          /\ record'[d].left <=> r.left \/ n = d \/ Contains(r.relays, n)
      BY <3>1 DEF RecordsOf
    <3>3. ~ record'[d].left => LeadsUp(d, r.relays, r.at)'
      BY <1>2, <3>1, <3>2, BehindIsGood
    <3> QED
      BY <3>2, <3>3 DEF GoodRecords
  <2> QED
    BY <2>1, <2>2
<1>4. ASSUME NEW i \in 1 .. Len(sourceRoutes) PROVE sourceRoutes'[i] \in GoodRoutes'
  <2> DEFINE e == sourceRoutes[i]
  <2>1. /\ e \in RoutesDown /\ (e.left \/ LeadsUp(e.dest, e.relays, Concentrator))
        /\ e.relays \in Seq(Devices) /\ e.dest \in Devices
        /\ sourceRoutes'[i] = [e EXCEPT !.left = @ \/ n = e.dest \/ Contains(e.relays, n)]
    BY <1>1 DEF SourceRouteInv, GoodRoutes, RoutesDown, RelayLists, Behind
  <2>2. /\ sourceRoutes'[i] \in RoutesDown /\ sourceRoutes'[i].relays = e.relays
        /\ sourceRoutes'[i].dest = e.dest
        /\ sourceRoutes'[i].left <=> e.left \/ n = e.dest \/ Contains(e.relays, n)
    BY <2>1 DEF RoutesDown
  <2>3. ~ sourceRoutes'[i].left => LeadsUp(e.dest, e.relays, Concentrator)'
    BY <1>2, <2>1, <2>2, BehindIsGood
  <2> QED
    BY <2>2, <2>3 DEF GoodRoutes
<1>5. sourceRoutes' \in Seq(GoodRoutes')
  <2>1. Len(sourceRoutes) \in Nat
    BY DEF SourceRouteInv
  <2>2. sourceRoutes' \in [1 .. Len(sourceRoutes) -> GoodRoutes']
    BY <1>1, <1>4
  <2> QED
    BY <2>1, <2>2, IsASeq
<1> QED
  BY <1>1, <1>2, <1>3, <1>5 DEF SourceRouteInv

\* Every step keeps the records and routes good.
LEMMA SourceRoutesStep ==
  ASSUME SourceRouteAssumption, SourceRouteInv, [SourceRouteNext]_sourceRouteVars
  PROVE  SourceRouteInv'
<1>1. ASSUME UNCHANGED sourceRouteVars PROVE SourceRouteInv'
  BY <1>1, SameWaysUp DEF sourceRouteVars, SourceRouteInv
<1> QED
  BY <1>1, SendKeeps, RelayKeeps, LoseOrLearnKeeps, ForgetRoutesKeeps, MoveKeeps DEF SourceRouteNext

(***************************************************************************)
(* Every hop of a stored route down is a link used upwards, for every      *)
(* number of nodes, every limit of a record and every table size.          *)
(***************************************************************************)
THEOREM RouteDownIsPathUpAlways == SourceRouteSpec => []RouteDownIsPathUp
<1>1. SourceRouteSpec => []SourceRouteInv
  BY SourceRoutesStart, SourceRoutesStep, SourceRouteAssumption, PTL DEF SourceRouteSpec
<1>2. SourceRouteInv => RouteDownIsPathUp
  <2> SUFFICES ASSUME SourceRouteInv, NEW i \in 1 .. Len(sourceRoutes), ~ sourceRoutes[i].left,
                      NEW k \in 2 .. Len(Walk(sourceRoutes[i]))
               PROVE  \/ up[Walk(sourceRoutes[i])[k]] = Walk(sourceRoutes[i])[k - 1]
                      \/ k = 2 /\ Len(sourceRoutes[i].relays) = RecordLimit
    BY DEF RouteDownIsPathUp
  <2>1. sourceRoutes[i] \in GoodRoutes /\ up \in [Devices -> 0 .. LastNode]
    BY DEF SourceRouteInv
  <2> QED
    BY <2>1, SourceRouteAssumption, GoodRouteDown
<1> QED
  BY <1>1, <1>2, PTL

-----------------------------------------------------------------------------
(***************************************************************************)
(* MeshRouting: a relay always has a route to the coordinator, and the way *)
(* back of the data it relays.                                             *)
(***************************************************************************)
RouteEnds == EndDevices \cup {Coordinator}
Relays == Routers \cup {Coordinator}

RouteEntries == [dst : RouteEnds, hop : Nodes \cup {NoHop}, active : BOOLEAN]
HasRoute(t, d) == \E i \in 1 .. Len(t) : t[i].dst = d /\ t[i].active

GoodTable(t) ==
  /\ t \in Seq(RouteEntries)
  /\ \A i, j \in 1 .. Len(t) : t[i].dst = t[j].dst => i = j
  /\ \A i \in 1 .. Len(t) : t[i].active =>
       t[i].hop \in Nodes /\ (t[i].dst = Coordinator => t[i].hop \in Relays)

RequestFrames ==
  {m \in [kind : {"request"}, from : Nodes, orig : EndDevices, id : Nat, cost : Nat] :
     m.from \in Routers \cup {m.orig}}
ReplyFrames(n) ==
  {m \in [kind : {"reply"}, from : Relays, orig : EndDevices, id : Nat, cost : Nat] :
     n \in Routers \cup {m.orig}}
DataFrames ==
  {m \in [kind : {"data"}, from : Nodes, src : RouteEnds, dst : RouteEnds, radius : Nat] :
     m.src = Coordinator => m.from \in Relays}
FramesFor(n) == RequestFrames \cup ReplyFrames(n) \cup DataFrames

DiscoveryEntries ==
  {e \in [orig : EndDevices, id : Nat, prev : Nodes, cost : Nat] :
     e.prev \in Routers \cup {e.orig}}

GoodBoxes(boxes) ==
  DOMAIN boxes = Nodes /\ \A n \in Nodes : boxes[n] \in Seq(FramesFor(n))

\* A device has an active route, or recycled it for another destination.
Reaches(t, lost, n, d) == HasRoute(t, d) \/ <<n, d>> \in lost

Returnable(m, tabs, lost) ==
  m.kind = "data" /\ m.src \in EndDevices /\ m.from # m.src
    => Reaches(tabs[m.from], lost, m.from, m.src)

RoutingTypes ==
  /\ DOMAIN routes = Nodes /\ DOMAIN discovery = Nodes
  /\ \A n \in Nodes : discovery[n] \in Seq(DiscoveryEntries)
  /\ requestId \in [EndDevices -> Nat] /\ restarts \in Nat

RoutingInv ==
  /\ RoutingTypes
  /\ \A n \in Nodes : GoodTable(routes[n])
  /\ \A n \in Routers : Reaches(routes[n], evicted, n, Coordinator)
  /\ GoodBoxes(inbox)
  /\ restarts = 0 =>
       \A n \in Nodes : \A i \in 1 .. Len(inbox[n]) : Returnable(inbox[n][i], routes, evicted)

(***************************************************************************)
(* An entry taken out of a table: the others move up.                      *)
(***************************************************************************)
LEMMA RemovedAt ==
  ASSUME NEW S, NEW s \in Seq(S), NEW i \in 1 .. Len(s)
  PROVE  LET r == RemoveAt(s, i)
         IN  /\ r \in Seq(S) /\ Len(r) = Len(s) - 1
             /\ \A j \in 1 .. Len(r) : r[j] = IF j < i THEN s[j] ELSE s[j + 1]
<1> SUFFICES ASSUME NEW r, r = RemoveAt(s, i)
             PROVE  /\ r \in Seq(S) /\ Len(r) = Len(s) - 1
                    /\ \A j \in 1 .. Len(r) : r[j] = IF j < i THEN s[j] ELSE s[j + 1]
  OBVIOUS
<1> DEFINE n == Len(s)
           a == SubSeq(s, 1, i - 1)
           b == SubSeq(s, i + 1, n)
<1>1. n \in Nat /\ i \in 1 .. n /\ \A j \in 1 .. n : s[j] \in S
  OBVIOUS
<1>2. r = a \o b
  BY DEF RemoveAt
<1>3. a \in Seq(S) /\ Len(a) = i - 1 /\ \A j \in 1 .. i - 1 : a[j] = s[j]
  <2>1. \A j \in 1 .. i - 1 : s[j] \in S
    BY <1>1
  <2>2. 1 \in 1 .. n + 1 /\ i - 1 \in 0 .. n
    BY <1>1
  <2> QED
    BY <1>1, <2>1, <2>2, SubSeqProperties
<1>4. b \in Seq(S) /\ Len(b) = n - i /\ \A j \in 1 .. n - i : b[j] = s[i + j]
  <2>1. \A j \in i + 1 .. n : s[j] \in S
    BY <1>1
  <2>2. i + 1 \in 1 .. n + 1 /\ n \in 0 .. n
    BY <1>1
  <2> QED
    BY <1>1, <2>1, <2>2, SubSeqProperties
<1> HIDE DEF a, b
<1>5. r \in Seq(S) /\ Len(r) = n - 1
  BY <1>1, <1>2, <1>3, <1>4
<1>6. ASSUME NEW j \in 1 .. n - 1 PROVE r[j] = IF j < i THEN s[j] ELSE s[j + 1]
  <2>1. CASE j < i
    BY <1>1, <1>2, <1>3, <1>4, <2>1
  <2>2. CASE ~ (j < i)
    <3>1. j - (i - 1) \in 1 .. n - i /\ i + (j - (i - 1)) = j + 1
      BY <1>1, <2>2
    <3>2. r[j] = b[j - (i - 1)]
      BY SMTT(30), <1>1, <1>2, <1>3, <1>4, <2>2, <3>1
    <3> QED
      BY <1>4, <2>2, <3>1, <3>2
  <2> QED
    BY <2>1, <2>2
<1> QED
  BY <1>5, <1>6

(***************************************************************************)
(* find() sees the one active entry of a destination, if there is one.     *)
(***************************************************************************)
LEMMA NextHopOf ==
  ASSUME RoleAssumption, NEW t, GoodTable(t), NEW d
  PROVE  /\ HasRoute(t, d) => NextHop(t, d) \in Nodes /\ NextHop(t, d) # NoHop
         /\ ~ HasRoute(t, d) => NextHop(t, d) = NoHop
         /\ NextHop(t, Coordinator) \in Relays \cup {NoHop}
<1>1. NoHop \notin Nodes
  BY DEF RoleAssumption
<1>2. DOMAIN t = 1 .. Len(t)
  BY DEF GoodTable
<1>3. ASSUME NEW e, HasRoute(t, e)
      PROVE  /\ NextHop(t, e) \in Nodes
             /\ e = Coordinator => NextHop(t, e) \in Relays
  <2> DEFINE i == CHOOSE i \in ActiveEntries(t, e) : TRUE
  <2>1. ActiveEntries(t, e) # {}
    BY <1>2, <1>3 DEF HasRoute, ActiveEntries
  <2>2. i \in ActiveEntries(t, e)
    BY <2>1
  <2>3. NextHop(t, e) = t[i].hop
    BY <2>1 DEF NextHop
  <2> HIDE DEF i
  <2>4. i \in 1 .. Len(t) /\ t[i].dst = e /\ t[i].active
    BY <1>2, <2>2 DEF ActiveEntries
  <2> QED
    BY <2>3, <2>4 DEF GoodTable
<1>4. ASSUME NEW e, ~ HasRoute(t, e) PROVE NextHop(t, e) = NoHop
  <2>1. ActiveEntries(t, e) = {}
    BY <1>2, <1>4 DEF HasRoute, ActiveEntries
  <2> QED
    BY <2>1 DEF NextHop
<1> QED
  BY <1>1, <1>3, <1>4

(***************************************************************************)
(* Removing the entry of a destination leaves the routes to the others.    *)
(***************************************************************************)
LEMMA RemovedKeeps ==
  ASSUME NEW t, GoodTable(t), NEW d
  PROVE  LET r == Removed(t, d)
         IN  /\ GoodTable(r)
             /\ \A j \in 1 .. Len(r) : r[j].dst # d
             /\ \A e : e # d /\ HasRoute(t, e) => HasRoute(r, e)
<1> SUFFICES ASSUME NEW r, r = Removed(t, d)
             PROVE  /\ GoodTable(r)
                    /\ \A j \in 1 .. Len(r) : r[j].dst # d
                    /\ \A e : e # d /\ HasRoute(t, e) => HasRoute(r, e)
  OBVIOUS
<1> DEFINE slots == {i \in 1 .. Len(t) : t[i].dst = d}
<1>1. t \in Seq(RouteEntries) /\ DOMAIN t = 1 .. Len(t) /\ Len(t) \in Nat
  BY DEF GoodTable
<1>2. r = IF slots = {} THEN t ELSE RemoveAt(t, CHOOSE i \in slots : TRUE)
  BY <1>1 DEF Removed, Without
<1>3. CASE slots = {}
  <2>1. r = t
    BY <1>2, <1>3
  <2> QED
    BY <1>3, <2>1
<1>4. CASE slots # {}
  <2>1. PICK i \in slots : r = RemoveAt(t, i)
    BY <1>2, <1>4
  <2>2. i \in 1 .. Len(t) /\ t[i].dst = d
    OBVIOUS
  <2>3. /\ r \in Seq(RouteEntries) /\ Len(r) = Len(t) - 1
        /\ \A j \in 1 .. Len(r) : r[j] = IF j < i THEN t[j] ELSE t[j + 1]
    BY <1>1, <2>1, <2>2, RemovedAt
  <2> DEFINE k(j) == IF j < i THEN j ELSE j + 1
  <2>4. ASSUME NEW j \in 1 .. Len(r) PROVE k(j) \in 1 .. Len(t) /\ k(j) # i /\ r[j] = t[k(j)]
    BY <1>1, <2>2, <2>3
  <2>5. \A j, l \in 1 .. Len(r) : k(j) = k(l) => j = l
    BY <1>1, <2>2, <2>3
  <2>6. ASSUME NEW l \in 1 .. Len(t), l # i PROVE \E j \in 1 .. Len(r) : r[j] = t[l]
    <3>1. CASE l < i
      <4>1. l \in 1 .. Len(r)
        BY <1>1, <2>2, <2>3, <3>1
      <4> QED
        BY <2>3, <3>1, <4>1
    <3>2. CASE ~ (l < i)
      <4>1. l - 1 \in 1 .. Len(r) /\ ~ (l - 1 < i) /\ (l - 1) + 1 = l
        BY <1>1, <2>2, <2>3, <2>6, <3>2
      <4> QED
        BY <2>3, <4>1
    <3> QED
      BY <3>1, <3>2
  <2> HIDE DEF k
  <2>7. GoodTable(r)
    <3>1. \A j, l \in 1 .. Len(r) : r[j].dst = r[l].dst => j = l
      BY <2>4, <2>5 DEF GoodTable
    <3> QED
      BY <2>3, <2>4, <3>1 DEF GoodTable
  <2>8. \A j \in 1 .. Len(r) : r[j].dst # d
    BY <2>2, <2>4 DEF GoodTable
  <2>9. ASSUME NEW e, e # d, HasRoute(t, e) PROVE HasRoute(r, e)
    <3>1. PICK l \in 1 .. Len(t) : t[l].dst = e /\ t[l].active
      BY <2>9 DEF HasRoute
    <3>2. l # i
      BY <2>2, <2>9, <3>1
    <3>3. PICK j \in 1 .. Len(r) : r[j] = t[l]
      BY <2>6, <3>2
    <3> QED
      BY <3>1, <3>3 DEF HasRoute
  <2> QED
    BY <2>7, <2>8, <2>9
<1> QED
  BY <1>3, <1>4

(***************************************************************************)
(* An upsert loses no route but the one it recycles.                       *)
(***************************************************************************)
LEMMA UpsertKeeps ==
  ASSUME CapacityAssumption, NEW t, GoodTable(t), NEW d \in RouteEnds,
         NEW hop \in Nodes \cup {NoHop}, NEW active \in BOOLEAN,
         active => hop \in Nodes /\ (d = Coordinator => hop \in Relays)
  PROVE  LET u == Upsert(t, d, hop, active)
         IN  /\ GoodTable(u)
             /\ active => HasRoute(u, d)
             /\ \A e : e # d /\ HasRoute(t, e)
                  => \/ HasRoute(u, e)
                     \/ \E v \in Recycled(Removed(t, d), RouteCapacity) : v.dst = e
<1> SUFFICES ASSUME NEW u, u = Upsert(t, d, hop, active)
             PROVE  /\ GoodTable(u)
                    /\ active => HasRoute(u, d)
                    /\ \A e : e # d /\ HasRoute(t, e)
                         => \/ HasRoute(u, e)
                            \/ \E v \in Recycled(Removed(t, d), RouteCapacity) : v.dst = e
  OBVIOUS
<1>1. PICK w : w = Removed(t, d)
  OBVIOUS
<1>2. /\ GoodTable(w) /\ \A j \in 1 .. Len(w) : w[j].dst # d
      /\ \A e : e # d /\ HasRoute(t, e) => HasRoute(w, e)
  BY <1>1, RemovedKeeps
<1>3. w \in Seq(RouteEntries) /\ Len(w) \in Nat /\ \A j \in 1 .. Len(w) : w[j] \in RouteEntries
  BY <1>2 DEF GoodTable
<1>4. PICK r : r = IF Len(w) = RouteCapacity THEN Tail(w) ELSE w
  OBVIOUS
<1>4a. /\ GoodTable(r) /\ \A j \in 1 .. Len(r) : r[j].dst # d
      /\ \A e : HasRoute(w, e)
           => HasRoute(r, e) \/ \E v \in Recycled(w, RouteCapacity) : v.dst = e
  <2>1. CASE Len(w) # RouteCapacity
    BY <1>2, <1>4, <2>1
  <2>2. CASE Len(w) = RouteCapacity
    <3>1. Len(w) # 0
      BY <2>2 DEF CapacityAssumption
    <3>2. /\ r \in Seq(RouteEntries) /\ Len(r) = Len(w) - 1 /\ Head(w) = w[1]
          /\ \A j \in 1 .. Len(r) : r[j] = w[j + 1] /\ j + 1 \in 1 .. Len(w)
      BY <1>3, <1>4, <2>2, <3>1
    <3>3. GoodTable(r)
      <4>1. ASSUME NEW j \in 1 .. Len(r), NEW l \in 1 .. Len(r), r[j].dst = r[l].dst PROVE j = l
        <5>1. PICK a \in 1 .. Len(w), b \in 1 .. Len(w) : a = j + 1 /\ b = l + 1 /\ r[j] = w[a] /\ r[l] = w[b]
          BY <3>2
        <5>2. w[a].dst = w[b].dst
          BY <4>1, <5>1
        <5>3. a = b
          BY <1>2, <5>2 DEF GoodTable
        <5> QED
          BY <5>1, <5>3
      <4>2. ASSUME NEW j \in 1 .. Len(r), r[j].active
            PROVE  r[j].hop \in Nodes /\ (r[j].dst = Coordinator => r[j].hop \in Relays)
        <5>1. PICK a \in 1 .. Len(w) : r[j] = w[a]
          BY <3>2
        <5>2. w[a].active
          BY <4>2, <5>1
        <5> QED
          BY <1>2, <5>1, <5>2 DEF GoodTable
      <4> QED
        BY <3>2, <4>1, <4>2 DEF GoodTable
    <3>4. ASSUME NEW e, HasRoute(w, e) PROVE HasRoute(r, e) \/ w[1].dst = e
      <4>1. PICK l \in 1 .. Len(w) : w[l].dst = e /\ w[l].active
        BY <3>4 DEF HasRoute
      <4>2. CASE l = 1
        BY <4>1, <4>2
      <4>3. CASE l # 1
        <5>1. l - 1 \in 1 .. Len(r) /\ r[l - 1] = w[l]
          BY <1>3, <3>2, <4>3
        <5> QED
          BY <4>1, <5>1 DEF HasRoute
      <4> QED
        BY <4>2, <4>3
    <3>5. w[1] \in Recycled(w, RouteCapacity)
      BY <2>2, <3>2 DEF Recycled
    <3> QED
      BY <1>2, <3>2, <3>3, <3>4, <3>5
  <2> QED
    BY <2>1, <2>2
<1>4b. r \in Seq(RouteEntries) /\ Len(r) \in Nat /\ \A j \in 1 .. Len(r) : r[j] \in RouteEntries
  BY <1>4a DEF GoodTable
<1>5. PICK x : x = [dst |-> d, hop |-> hop, active |-> active]
  OBVIOUS
<1>6. x \in RouteEntries /\ x.dst = d /\ x.hop = hop /\ x.active = active
  BY <1>5 DEF RouteEntries
<1>7. u = Append(r, x)
  BY <1>1, <1>4, <1>5 DEF Upsert, Put
<1>8. /\ u \in Seq(RouteEntries) /\ Len(u) = Len(r) + 1 /\ u[Len(r) + 1] = x
      /\ \A j \in 1 .. Len(r) : u[j] = r[j] /\ j \in 1 .. Len(u)
      /\ \A j \in 1 .. Len(u) : j \in 1 .. Len(r) \/ j = Len(r) + 1
      /\ Len(r) + 1 \in 1 .. Len(u)
  BY <1>4b, <1>6, <1>7
<1>9. GoodTable(u)
  <2>1. ASSUME NEW j \in 1 .. Len(u), NEW l \in 1 .. Len(u), u[j].dst = u[l].dst PROVE j = l
    <3>1. CASE j \in 1 .. Len(r) /\ l \in 1 .. Len(r)
      BY <1>4a, <1>8, <2>1, <3>1 DEF GoodTable
    <3>2. CASE j \in 1 .. Len(r) /\ l = Len(r) + 1
      <4>1. r[j].dst = d
        BY <1>6, <1>8, <2>1, <3>2
      <4> QED
        BY <1>4a, <3>2, <4>1
    <3>3. CASE l \in 1 .. Len(r) /\ j = Len(r) + 1
      <4>1. r[l].dst = d
        BY <1>6, <1>8, <2>1, <3>3
      <4> QED
        BY <1>4a, <3>3, <4>1
    <3> QED
      BY <1>8, <3>1, <3>2, <3>3
  <2>2. ASSUME NEW j \in 1 .. Len(u), u[j].active
        PROVE  u[j].hop \in Nodes /\ (u[j].dst = Coordinator => u[j].hop \in Relays)
    <3>1. CASE j \in 1 .. Len(r)
      BY <1>4a, <1>8, <2>2, <3>1 DEF GoodTable
    <3>2. CASE j = Len(r) + 1
      BY <1>6, <1>8, <2>2, <3>2
    <3> QED
      BY <1>8, <3>1, <3>2
  <2> QED
    BY <1>8, <2>1, <2>2 DEF GoodTable
<1>10. active => HasRoute(u, d)
  BY <1>6, <1>8 DEF HasRoute
<1>11. ASSUME NEW e, HasRoute(r, e) PROVE HasRoute(u, e)
  <2>1. PICK j \in 1 .. Len(r) : r[j].dst = e /\ r[j].active
    BY <1>11 DEF HasRoute
  <2> QED
    BY <1>8, <2>1 DEF HasRoute
<1> QED
  BY <1>1, <1>2, <1>4a, <1>9, <1>10, <1>11

(***************************************************************************)
(* One table written, and its routes to the end devices kept or recycled   *)
(* (those of a router to the coordinator too).                             *)
(***************************************************************************)
NoRouteLost(n, u, lost) ==
  /\ GoodTable(u)
  /\ \A e \in EndDevices : Reaches(routes[n], evicted, n, e) => Reaches(u, lost, n, e)
  /\ n \in Routers => Reaches(u, lost, n, Coordinator)
  /\ \A p \in Nodes \ {n} : \A e : <<p, e>> \in evicted => <<p, e>> \in lost

RoutesKept(tabs, lost, newTabs, newLost) ==
  /\ DOMAIN newTabs = Nodes
  /\ \A n \in Nodes : GoodTable(newTabs[n])
  /\ \A n \in Routers : Reaches(newTabs[n], newLost, n, Coordinator)
  /\ \A n \in Nodes, e \in EndDevices :
       Reaches(tabs[n], lost, n, e) => Reaches(newTabs[n], newLost, n, e)

\* A route written: what the table recycles is accounted for.
LEMMA WrittenKeeps ==
  ASSUME RoleAssumption, CapacityAssumption, RoutingInv, NEW n \in Nodes, NEW d \in RouteEnds,
         NEW hop \in Nodes \cup {NoHop}, NEW active \in BOOLEAN,
         active => hop \in Nodes /\ (d = Coordinator => hop \in Relays),
         ~ active => d = Coordinator /\ n \notin Routers
  PROVE  /\ NoRouteLost(n, Upsert(routes[n], d, hop, active), Evicted(n, d))
         /\ active => HasRoute(Upsert(routes[n], d, hop, active), d)
<1>1. PICK t : t = routes[n]
  OBVIOUS
<1>2. PICK u : u = Upsert(t, d, hop, active)
  OBVIOUS
<1>3. PICK lost : lost = Evicted(n, d)
  OBVIOUS
<1>4. GoodTable(t) /\ Coordinator \notin EndDevices
  BY <1>1 DEF RoutingInv, RoleAssumption
<1>5. /\ GoodTable(u) /\ (active => HasRoute(u, d))
      /\ \A e : e # d /\ HasRoute(t, e)
           => \/ HasRoute(u, e)
              \/ \E v \in Recycled(Removed(t, d), RouteCapacity) : v.dst = e
  BY <1>2, <1>4, UpsertKeeps
<1>6. \A p, e : <<p, e>> \in evicted /\ <<p, e>> # <<n, d>> => <<p, e>> \in lost
  BY <1>3 DEF Evicted
<1>7. \A v \in Recycled(Removed(t, d), RouteCapacity) : <<n, v.dst>> \in lost
  BY <1>1, <1>3 DEF Evicted
<1>8. ASSUME NEW e, e # d, Reaches(t, evicted, n, e) PROVE Reaches(u, lost, n, e)
  BY <1>5, <1>6, <1>7, <1>8 DEF Reaches
<1>9. active => Reaches(u, lost, n, d)
  BY <1>5 DEF Reaches
<1>10. n \in Routers => Reaches(t, evicted, n, Coordinator)
  BY <1>1 DEF RoutingInv
<1>11. NoRouteLost(n, u, lost)
  BY <1>1, <1>4, <1>5, <1>6, <1>8, <1>9, <1>10 DEF NoRouteLost
<1> QED
  BY <1>1, <1>2, <1>3, <1>5, <1>11

\* One table written without losing a route.
LEMMA OneTableWritten ==
  ASSUME RoutingInv, NEW n \in Nodes, NEW u, NoRouteLost(n, u, evicted'),
         routes' = [routes EXCEPT ![n] = u]
  PROVE  RoutesKept(routes, evicted, routes', evicted')
<1>1. /\ DOMAIN routes = Nodes /\ DOMAIN routes' = Nodes
      /\ \A p \in Nodes : routes'[p] = IF p = n THEN u ELSE routes[p]
      /\ Routers \subseteq Nodes
      /\ \A p \in Nodes : GoodTable(routes[p])
      /\ \A p \in Routers : Reaches(routes[p], evicted, p, Coordinator)
  BY DEF RoutingInv, RoutingTypes, Nodes
<1>2. \A p \in Nodes : GoodTable(routes'[p])
  BY <1>1 DEF NoRouteLost
<1>3. \A p \in Nodes : \A e : p # n /\ Reaches(routes[p], evicted, p, e) => Reaches(routes'[p], evicted', p, e)
  BY <1>1 DEF NoRouteLost, Reaches
<1>4. \A p \in Routers : Reaches(routes'[p], evicted', p, Coordinator)
  BY <1>1, <1>3 DEF NoRouteLost
<1>5. \A p \in Nodes, e \in EndDevices :
        Reaches(routes[p], evicted, p, e) => Reaches(routes'[p], evicted', p, e)
  BY <1>1, <1>3 DEF NoRouteLost
<1> QED
  BY <1>1, <1>2, <1>4, <1>5 DEF RoutesKept

\* No table written.
LEMMA NoTableWritten ==
  ASSUME RoutingInv, routes' = routes, evicted' = evicted
  PROVE  RoutesKept(routes, evicted, routes', evicted')
<1>1. /\ DOMAIN routes = Nodes
      /\ \A p \in Nodes : GoodTable(routes[p])
      /\ \A p \in Routers : Reaches(routes[p], evicted, p, Coordinator)
  BY DEF RoutingInv, RoutingTypes
<1> QED
  BY <1>1 DEF RoutesKept

(***************************************************************************)
(* The frames of a step are those there were, or the ones it sent.         *)
(***************************************************************************)
FramesFrom(boxes, newBoxes, sent) ==
  \A p \in Nodes : \A i \in 1 .. Len(newBoxes[p]) :
    newBoxes[p][i] \in sent \/ \E j \in 1 .. Len(boxes[p]) : newBoxes[p][i] = boxes[p][j]

\* A transmission puts its frame into queues where it belongs.
LEMMA TransmitKeeps ==
  ASSUME NEW boxes, GoodBoxes(boxes), NEW frame, NEW hops,
         \A p \in hops \cap Nodes : frame \in FramesFor(p)
  PROVE  LET b == Transmit(boxes, frame, hops)
         IN  GoodBoxes(b) /\ FramesFrom(boxes, b, {frame})
<1> SUFFICES ASSUME NEW b, b = Transmit(boxes, frame, hops)
             PROVE  GoodBoxes(b) /\ FramesFrom(boxes, b, {frame})
  OBVIOUS
<1>1. /\ DOMAIN b = Nodes
      /\ \A p \in Nodes : \/ b[p] = boxes[p]
                          \/ p \in hops /\ b[p] = Append(boxes[p], frame)
  BY DEF Transmit
<1>2. ASSUME NEW p \in Nodes
      PROVE  /\ b[p] \in Seq(FramesFor(p))
             /\ \A i \in 1 .. Len(b[p]) :
                  b[p][i] = frame \/ \E j \in 1 .. Len(boxes[p]) : b[p][i] = boxes[p][j]
  <2>1. boxes[p] \in Seq(FramesFor(p))
    BY DEF GoodBoxes
  <2>2. CASE b[p] = boxes[p]
    BY <2>1, <2>2
  <2>3. CASE p \in hops /\ b[p] = Append(boxes[p], frame)
    <3>1. frame \in FramesFor(p)
      BY <2>3
    <3> QED
      BY <2>1, <2>3, <3>1
  <2> QED
    BY <1>1, <2>2, <2>3
<1> QED
  BY <1>1, <1>2 DEF GoodBoxes, FramesFrom

\* A device takes the first frame of its queue.
LEMMA TakenKeeps ==
  ASSUME GoodBoxes(inbox), NEW n \in Nodes, inbox[n] # <<>>
  PROVE  /\ GoodBoxes(Taken(n)) /\ FramesFrom(inbox, Taken(n), {})
         /\ Head(inbox[n]) \in FramesFor(n) /\ Head(inbox[n]) = inbox[n][1] /\ 1 \in 1 .. Len(inbox[n])
<1>1. PICK b : b = Taken(n)
  OBVIOUS
<1>2. /\ DOMAIN b = Nodes
      /\ \A p \in Nodes : b[p] = IF p = n THEN Tail(inbox[p]) ELSE inbox[p]
  BY <1>1 DEF Taken, GoodBoxes
<1>3. ASSUME NEW p \in Nodes
      PROVE  /\ b[p] \in Seq(FramesFor(p))
             /\ \A i \in 1 .. Len(b[p]) : \E j \in 1 .. Len(inbox[p]) : b[p][i] = inbox[p][j]
  <2>1. inbox[p] \in Seq(FramesFor(p))
    BY DEF GoodBoxes
  <2>2. CASE p # n
    BY <1>2, <2>1, <2>2
  <2>3. CASE p = n
    <3>1. PICK s : s = inbox[n]
      OBVIOUS
    <3>2. s \in Seq(FramesFor(p)) /\ s # <<>> /\ b[p] = Tail(s)
      BY <1>2, <2>1, <2>3, <3>1
    <3>3. /\ Tail(s) \in Seq(FramesFor(p)) /\ Len(Tail(s)) = Len(s) - 1 /\ Len(s) \in Nat
          /\ \A i \in 1 .. Len(s) - 1 : Tail(s)[i] = s[i + 1] /\ i + 1 \in 1 .. Len(s)
      BY <3>2
    <3> QED
      BY <2>3, <3>1, <3>2, <3>3
  <2> QED
    BY <2>2, <2>3
<1>4. GoodBoxes(Taken(n)) /\ FramesFrom(inbox, Taken(n), {})
  BY <1>1, <1>2, <1>3 DEF GoodBoxes, FramesFrom
<1>5. Head(inbox[n]) \in FramesFor(n) /\ Head(inbox[n]) = inbox[n][1] /\ 1 \in 1 .. Len(inbox[n])
  <2>1. PICK s : s = inbox[n]
    OBVIOUS
  <2>2. s \in Seq(FramesFor(n)) /\ s # <<>>
    BY <2>1 DEF GoodBoxes
  <2>3. Head(s) \in FramesFor(n) /\ Head(s) = s[1] /\ 1 \in 1 .. Len(s)
    BY <2>2
  <2> QED
    BY <2>1, <2>3
<1> QED
  BY <1>4, <1>5

\* A device handles a frame and sends one.
LEMMA TakenThenSent ==
  ASSUME GoodBoxes(inbox), NEW n \in Nodes, inbox[n] # <<>>, NEW frame, NEW hops,
         \A p \in hops \cap Nodes : frame \in FramesFor(p)
  PROVE  /\ GoodBoxes(Transmit(Taken(n), frame, hops))
         /\ FramesFrom(inbox, Transmit(Taken(n), frame, hops), {frame})
<1>1. PICK a : a = Taken(n)
  OBVIOUS
<1>2. GoodBoxes(a) /\ FramesFrom(inbox, a, {})
  BY <1>1, TakenKeeps
<1>3. PICK b : b = Transmit(a, frame, hops)
  OBVIOUS
<1>4. GoodBoxes(b) /\ FramesFrom(a, b, {frame})
  BY <1>2, <1>3, TransmitKeeps
<1>5. FramesFrom(inbox, b, {frame})
  BY <1>2, <1>4 DEF FramesFrom
<1> QED
  BY <1>1, <1>3, <1>4, <1>5

(***************************************************************************)
(* What a frame in the queue of a device can be.                           *)
(***************************************************************************)
LEMMA FrameForms ==
  ASSUME RoleAssumption, TopologyAssumption, NEW n \in Nodes, NEW m \in FramesFor(n)
  PROVE  /\ m.kind = "request" => /\ m.orig \in EndDevices /\ m.from \in Routers \cup {m.orig}
                                  /\ m.id \in Nat /\ m.from \in Nodes /\ PathCost(n, m) \in Nat
         /\ m.kind = "reply" => /\ m.orig \in EndDevices /\ m.from \in Relays /\ m.id \in Nat
                                /\ n \in Routers \cup {m.orig} /\ PathCost(n, m) \in Nat
         /\ m.kind = "data" => /\ m.from \in Nodes /\ m.src \in RouteEnds /\ m.dst \in RouteEnds
                               /\ m.radius \in Nat
                               /\ (m.src = Coordinator => m.from \in Relays)
<1>1. Relays \subseteq Nodes
  BY DEF Relays, Nodes
<1>2. ASSUME m.from \in Nodes, m.cost \in Nat PROVE PathCost(n, m) \in Nat
  <2>1. LinkCost[m.from][n] \in 0 .. 7
    BY <1>2 DEF TopologyAssumption
  <2> DEFINE k == m.cost + LinkCost[m.from][n]
  <2>2. k \in Nat
    BY <1>2, <2>1
  <2> HIDE DEF k
  <2>3. k % 256 \in Nat
    BY <2>2
  <2> QED
    BY <2>3 DEF PathCost, k
<1>3. CASE m \in RequestFrames
  <2>1. /\ m.kind = "request" /\ m.from \in Nodes /\ m.orig \in EndDevices /\ m.id \in Nat
        /\ m.cost \in Nat /\ m.from \in Routers \cup {m.orig}
    BY <1>3 DEF RequestFrames
  <2> QED
    BY <1>2, <2>1
<1>4. CASE m \in ReplyFrames(n)
  <2>1. /\ m.kind = "reply" /\ m.from \in Relays /\ m.orig \in EndDevices /\ m.id \in Nat
        /\ m.cost \in Nat /\ n \in Routers \cup {m.orig}
    BY <1>4 DEF ReplyFrames
  <2> QED
    BY <1>1, <1>2, <2>1
<1>5. CASE m \in DataFrames
  <2>1. /\ m.kind = "data" /\ m.from \in Nodes /\ m.src \in RouteEnds /\ m.dst \in RouteEnds
        /\ m.radius \in Nat /\ (m.src = Coordinator => m.from \in Relays)
    BY <1>5 DEF DataFrames
  <2> QED
    BY <2>1
<1> QED
  BY <1>3, <1>4, <1>5 DEF FramesFor

(***************************************************************************)
(* The frames the handlers build.                                          *)
(***************************************************************************)
LEMMA FramesBuilt ==
  ASSUME RoleAssumption, NEW from \in Nodes, NEW c \in EndDevices, NEW id \in Nat, NEW cost \in Nat,
         NEW p
  PROVE  /\ from \in Routers \cup {c} => Request(from, c, id, cost) \in FramesFor(p)
         /\ from \in Relays /\ p \in Routers \cup {c} => Reply(from, c, id, cost) \in FramesFor(p)
<1>1. ASSUME from \in Routers \cup {c} PROVE Request(from, c, id, cost) \in RequestFrames
  BY <1>1 DEF Request, RequestFrames
<1>2. ASSUME from \in Relays, p \in Routers \cup {c} PROVE Reply(from, c, id, cost) \in ReplyFrames(p)
  BY <1>2 DEF Reply, ReplyFrames
<1> QED
  BY <1>1, <1>2 DEF FramesFor

\* A data frame sent by its source, or by a relay that knows the way back.
LEMMA DataBuilt ==
  ASSUME NEW from \in Nodes, NEW src \in RouteEnds, NEW dst \in RouteEnds, NEW radius \in Nat,
         src = Coordinator => from \in Relays, NEW p
  PROVE  /\ Data(from, src, dst, radius) \in FramesFor(p)
         /\ \A tabs, lost : from = src \/ src \notin EndDevices \/ Reaches(tabs[from], lost, from, src)
              => Returnable(Data(from, src, dst, radius), tabs, lost)
<1>1. PICK m : m = Data(from, src, dst, radius)
  OBVIOUS
<1>2. m.kind = "data" /\ m.from = from /\ m.src = src /\ m \in DataFrames
  BY <1>1 DEF Data, DataFrames
<1> QED
  BY <1>1, <1>2 DEF FramesFor, Returnable

(***************************************************************************)
(* The discovery entries of a device after an update or an expiry.         *)
(***************************************************************************)
LEMMA RecordedEntries ==
  ASSUME RoutingInv, CapacityAssumption, NEW n \in Nodes, NEW m, NEW cost \in Nat,
         m.orig \in EndDevices, m.id \in Nat, m.from \in Nodes, m.from \in Routers \cup {m.orig}
  PROVE  Recorded(n, m, cost) \in Seq(DiscoveryEntries)
<1>1. PICK t : t = discovery[n]
  OBVIOUS
<1>2. t \in Seq(DiscoveryEntries) /\ DOMAIN t = 1 .. Len(t)
  BY <1>1 DEF RoutingInv, RoutingTypes
<1>3. PICK slots : slots = Known(n, m)
  OBVIOUS
<1>4. slots \subseteq 1 .. Len(t)
  BY <1>1, <1>2, <1>3 DEF Known
<1>5. PICK w : w = Without(t, slots)
  OBVIOUS
<1>6. w \in Seq(DiscoveryEntries)
  <2>1. CASE slots = {}
    BY <1>2, <1>5, <2>1 DEF Without
  <2>2. CASE slots # {}
    <3>1. PICK i \in slots : w = RemoveAt(t, i)
      BY <1>5, <2>2 DEF Without
    <3> QED
      BY <1>2, <1>4, <3>1, RemovedAt
  <2> QED
    BY <2>1, <2>2
<1>7. PICK e : e = [orig |-> m.orig, id |-> m.id, prev |-> m.from, cost |-> cost]
  OBVIOUS
<1>8. e \in DiscoveryEntries
  BY <1>7 DEF DiscoveryEntries
<1>9. Recorded(n, m, cost) = Append(IF Len(w) = MaxDiscoveries THEN Tail(w) ELSE w, e)
  BY <1>1, <1>3, <1>5, <1>7 DEF Recorded, Put
<1>10. Len(w) = MaxDiscoveries => w # <<>> /\ Tail(w) \in Seq(DiscoveryEntries)
  BY <1>6 DEF CapacityAssumption
<1> QED
  BY <1>6, <1>8, <1>9, <1>10

\* One discovery table written.
LEMMA DiscoveryWritten ==
  ASSUME RoutingInv, NEW n \in Nodes, NEW u \in Seq(DiscoveryEntries),
         discovery' = [discovery EXCEPT ![n] = u]
  PROVE  DOMAIN discovery' = Nodes /\ \A p \in Nodes : discovery'[p] \in Seq(DiscoveryEntries)
  BY DEF RoutingInv, RoutingTypes

\* Expired discoveries.
LEMMA ExpireKeeps ==
  ASSUME RoutingInv, NEW c \in Nodes, ExpireDiscoveries(c)
  PROVE  DOMAIN discovery' = Nodes /\ \A p \in Nodes : discovery'[p] \in Seq(DiscoveryEntries)
<1>1. PICK t : t = discovery[c]
  OBVIOUS
<1>2. PICK k \in 0 .. Len(t) : discovery' = [discovery EXCEPT ![c] = SubSeq(t, k + 1, Len(t))]
  BY <1>1 DEF ExpireDiscoveries, RoutingInv, RoutingTypes
<1>3. t \in Seq(DiscoveryEntries) /\ Len(t) \in Nat
  BY <1>1 DEF RoutingInv, RoutingTypes
<1>4. SubSeq(t, k + 1, Len(t)) \in Seq(DiscoveryEntries)
  <2>1. \A i \in k + 1 .. Len(t) : t[i] \in DiscoveryEntries
    BY <1>3
  <2>2. k + 1 \in 1 .. Len(t) + 1 /\ Len(t) \in 0 .. Len(t)
    BY <1>3
  <2> QED
    BY <1>3, <2>1, <2>2, SubSeqProperties
<1> QED
  BY <1>2, <1>4, DiscoveryWritten

(***************************************************************************)
(* A step keeps the invariant when it loses no route and sends only frames *)
(* whose way back is known.                                                *)
(***************************************************************************)
LEMMA StepSafe ==
  ASSUME RoutingInv, RoutesKept(routes, evicted, routes', evicted'), DOMAIN discovery' = Nodes,
         \A n \in Nodes : discovery'[n] \in Seq(DiscoveryEntries),
         requestId' \in [EndDevices -> Nat], restarts' = restarts, NEW sent, GoodBoxes(inbox'),
         FramesFrom(inbox, inbox', sent),
         \A m \in sent : Returnable(m, routes', evicted')
  PROVE  RoutingInv'
<1>1. RoutingTypes'
  BY DEF RoutingInv, RoutingTypes, RoutesKept
<1>2. ASSUME restarts' = 0, NEW n \in Nodes, NEW i \in 1 .. Len(inbox'[n])
      PROVE  Returnable(inbox'[n][i], routes', evicted')
  <2>1. CASE inbox'[n][i] \in sent
    BY <2>1
  <2>2. ASSUME NEW j \in 1 .. Len(inbox[n]), inbox'[n][i] = inbox[n][j]
        PROVE  Returnable(inbox'[n][i], routes', evicted')
    <3>1. PICK m : m = inbox[n][j]
      OBVIOUS
    <3>2. Returnable(m, routes, evicted) /\ m \in FramesFor(n)
      BY <1>2, <3>1 DEF RoutingInv, GoodBoxes
    <3>3. m.kind = "data" => m.from \in Nodes
      BY <3>2 DEF FramesFor, DataFrames, RequestFrames, ReplyFrames
    <3>4. Returnable(m, routes', evicted')
      BY <3>2, <3>3 DEF Returnable, RoutesKept
    <3> QED
      BY <2>2, <3>1, <3>4
  <2> QED
    BY <2>1, <2>2 DEF FramesFrom
<1>3. \A n \in Nodes : GoodTable(routes'[n])
  BY DEF RoutesKept
<1>4. \A n \in Routers : Reaches(routes'[n], evicted', n, Coordinator)
  BY DEF RoutesKept
<1> QED
  BY <1>1, <1>2, <1>3, <1>4 DEF RoutingInv

(***************************************************************************)
(* Every operation keeps the invariant.                                    *)
(***************************************************************************)
RoutingAssumptions == RoleAssumption /\ TopologyAssumption /\ CapacityAssumption

\* serviceRouteDiscovery of an end device.
LEMMA OriginateKeeps ==
  ASSUME RoutingAssumptions, RoutingInv, NEW c \in EndDevices, OriginateDiscovery(c)
  PROVE  RoutingInv'
<1> USE DEF RoutingAssumptions
<1>1. PICK id : id = (requestId[c] + 1) % IdModulus
  OBVIOUS
<1>2. PICK t : t = routes[c]
  OBVIOUS
<1>3. PICK u : u = Upsert(t, Coordinator, NoHop, FALSE)
  OBVIOUS
<1>4. c \in Nodes /\ c \notin Routers /\ Coordinator \notin EndDevices /\ Coordinator \in RouteEnds
      /\ GoodTable(t) /\ DOMAIN routes = Nodes
  BY <1>2 DEF RoleAssumption, RoutingInv, RoutingTypes, Nodes, RouteEnds
<1>5. id \in Nat
  <2>1. requestId[c] \in Nat /\ IdModulus \in Nat /\ IdModulus # 0
    BY DEF RoutingInv, RoutingTypes, CapacityAssumption
  <2> QED
    BY <1>1, <2>1
<1>6. RoutesKept(routes, evicted, routes', evicted')
  <2>1. PICK lost : lost = Evicted(c, Coordinator)
    OBVIOUS
  <2>2. NoRouteLost(c, u, lost)
    BY <1>2, <1>3, <1>4, <2>1, WrittenKeeps
  <2>3. routes' = [routes EXCEPT ![c] = u] /\ evicted' = lost
    BY <1>2, <1>3, <1>4, <2>1 DEF OriginateDiscovery
  <2> QED
    BY <1>2, <1>4, <2>2, <2>3, OneTableWritten
<1>7. PICK m : m = Request(c, c, id, 0)
  OBVIOUS
<1>8. m.kind = "request" /\ \A p : m \in FramesFor(p)
  <2>1. m.kind = "request"
    BY <1>7 DEF Request
  <2>2. \A p : m \in FramesFor(p)
    BY <1>4, <1>5, <1>7, FramesBuilt
  <2> QED
    BY <2>1, <2>2
<1>9. GoodBoxes(inbox') /\ FramesFrom(inbox, inbox', {m})
  <2>1. inbox' = Transmit(inbox, m, Nodes)
    BY <1>1, <1>7 DEF OriginateDiscovery
  <2>2. GoodBoxes(inbox)
    BY DEF RoutingInv
  <2> QED
    BY <1>8, <2>1, <2>2, TransmitKeeps
<1>10. \A x \in {m} : Returnable(x, routes', evicted')
  BY <1>8 DEF Returnable
<1>11. requestId' \in [EndDevices -> Nat] /\ restarts' = restarts
  BY <1>1, <1>5 DEF OriginateDiscovery, RoutingInv, RoutingTypes, bounds
<1>12. DOMAIN discovery' = Nodes /\ \A p \in Nodes : discovery'[p] \in Seq(DiscoveryEntries)
  BY <1>4, ExpireKeeps DEF OriginateDiscovery
<1> QED
  BY <1>6, <1>9, <1>10, <1>11, <1>12, StepSafe

\* A data frame of an end device.
LEMMA SendApsKeeps ==
  ASSUME RoutingAssumptions, RoutingInv, NEW c \in EndDevices, SendApsRouted(c),
         routes' = routes, evicted' = evicted, requestId' = requestId, restarts' = restarts,
         DOMAIN discovery' = Nodes /\ \A p \in Nodes : discovery'[p] \in Seq(DiscoveryEntries)
  PROVE  RoutingInv'
<1> USE DEF RoutingAssumptions
<1>1. PICK m : m = Data(c, c, Coordinator, Radius)
  OBVIOUS
<1>2. PICK hops : inbox' = Transmit(inbox, m, hops)
  BY <1>1 DEF SendApsRouted
<1>3. (\A p : m \in FramesFor(p)) /\ Returnable(m, routes', evicted')
  <2>1. c \in Nodes /\ c \in RouteEnds /\ Coordinator \in RouteEnds /\ Radius \in Nat /\ c # Coordinator
    BY DEF Nodes, RouteEnds, CapacityAssumption, RoleAssumption
  <2>2. \A p : m \in FramesFor(p)
    BY <1>1, <2>1, DataBuilt
  <2>3. m.from = m.src
    BY <1>1 DEF Data
  <2> QED
    BY <2>2, <2>3 DEF Returnable
<1>4. GoodBoxes(inbox') /\ FramesFrom(inbox, inbox', {m})
  <2>1. GoodBoxes(inbox)
    BY DEF RoutingInv
  <2> QED
    BY <1>2, <1>3, <2>1, TransmitKeeps
<1>5. requestId' \in [EndDevices -> Nat] /\ RoutesKept(routes, evicted, routes', evicted')
  BY NoTableWritten DEF RoutingInv, RoutingTypes
<1>6. \A x \in {m} : Returnable(x, routes', evicted')
  BY <1>3
<1> QED
  BY <1>4, <1>5, <1>6, StepSafe

\* A device took the first frame of its queue, wrote one table and sent one
\* frame at most.
LEMMA HandlingKeeps ==
  ASSUME RoutingInv, NEW n \in Nodes, inbox[n] # <<>>, NEW u,
         \/ UNCHANGED <<routes, evicted>>
         \/ NoRouteLost(n, u, evicted') /\ routes' = [routes EXCEPT ![n] = u],
         requestId' = requestId, restarts' = restarts,
         DOMAIN discovery' = Nodes /\ \A p \in Nodes : discovery'[p] \in Seq(DiscoveryEntries),
         \/ inbox' = Taken(n)
         \/ \E frame, hops :
              /\ inbox' = Transmit(Taken(n), frame, hops)
              /\ \A p \in hops \cap Nodes : frame \in FramesFor(p)
              /\ Returnable(frame, routes', evicted')
  PROVE  RoutingInv'
<1>1. requestId' \in [EndDevices -> Nat] /\ RoutesKept(routes, evicted, routes', evicted') /\ GoodBoxes(inbox)
  BY NoTableWritten, OneTableWritten DEF RoutingInv, RoutingTypes
<1>2. CASE inbox' = Taken(n)
  <2>1. GoodBoxes(inbox') /\ FramesFrom(inbox, inbox', {})
    BY <1>1, <1>2, TakenKeeps
  <2> QED
    BY <1>1, <2>1, StepSafe
<1>3. ASSUME NEW frame, NEW hops, inbox' = Transmit(Taken(n), frame, hops),
             \A p \in hops \cap Nodes : frame \in FramesFor(p), Returnable(frame, routes', evicted')
      PROVE  RoutingInv'
  <2>1. GoodBoxes(inbox') /\ FramesFrom(inbox, inbox', {frame})
    BY <1>1, <1>3, TakenThenSent
  <2>2. PICK S : S = {frame}
    OBVIOUS
  <2>3. FramesFrom(inbox, inbox', S) /\ \A x \in S : Returnable(x, routes', evicted')
    BY <1>3, <2>1, <2>2
  <2> HIDE <1>3
  <2> QED
    BY <1>1, <2>1, <2>3, StepSafe
<1> QED
  BY <1>2, <1>3

\* handleRouteRequest.
LEMMA RequestKeeps ==
  ASSUME RoutingAssumptions, RoutingInv, NEW n \in Nodes, inbox[n] # <<>>, NEW m,
         m = Head(inbox[n]), HandleRouteRequest(n, m)
  PROVE  RoutingInv'
<1> USE DEF RoutingAssumptions
<1>1. PICK cost : cost = PathCost(n, m)
  OBVIOUS
<1>2. m \in FramesFor(n) /\ m.kind = "request"
  BY TakenKeeps DEF RoutingInv, HandleRouteRequest
<1>3. /\ m.orig \in EndDevices /\ m.from \in Routers \cup {m.orig} /\ m.id \in Nat
      /\ m.from \in Nodes /\ cost \in Nat
  BY <1>1, <1>2, FrameForms
<1>4. PICK t : t = routes[n]
  OBVIOUS
<1>5. PICK u : u = Upsert(t, m.orig, m.from, TRUE)
  OBVIOUS
<1>6. GoodTable(t) /\ DOMAIN routes = Nodes /\ m.orig \in RouteEnds /\ m.orig # Coordinator
  BY <1>3, <1>4 DEF RoutingInv, RoutingTypes, RouteEnds, RoleAssumption
<1>7. NoRouteLost(n, u, evicted')
  <2>1. PICK lost : lost = Evicted(n, m.orig)
    OBVIOUS
  <2>2. NoRouteLost(n, u, lost)
    BY <1>3, <1>4, <1>5, <1>6, <2>1, WrittenKeeps
  <2> QED
    BY <2>1, <2>2 DEF HandleRouteRequest
<1>8. routes' = [routes EXCEPT ![n] = u]
  BY <1>4, <1>5, <1>6 DEF HandleRouteRequest
<1>9. DOMAIN discovery' = Nodes /\ \A p \in Nodes : discovery'[p] \in Seq(DiscoveryEntries)
  <2>1. PICK d : d = Recorded(n, m, cost)
    OBVIOUS
  <2>2. d \in Seq(DiscoveryEntries)
    BY <1>3, <2>1, RecordedEntries
  <2>3. discovery' = [discovery EXCEPT ![n] = d]
    BY <1>1, <2>1 DEF HandleRouteRequest
  <2> QED
    BY <2>2, <2>3, DiscoveryWritten
<1>10. \/ inbox' = Taken(n)
       \/ \E frame, hops :
            /\ inbox' = Transmit(Taken(n), frame, hops)
            /\ \A p \in hops \cap Nodes : frame \in FramesFor(p)
            /\ Returnable(frame, routes', evicted')
  <2>1. CASE n = Coordinator /\ inbox' = Transmit(Taken(n), Reply(n, m.orig, m.id, 0), {m.from})
    <3>1. PICK f : f = Reply(n, m.orig, m.id, 0)
      OBVIOUS
    <3>2. f.kind = "reply" /\ n \in Relays
      BY <2>1, <3>1 DEF Reply, Relays
    <3>3. ASSUME NEW p \in {m.from} \cap Nodes PROVE f \in FramesFor(p)
      <4>1. p \in Routers \cup {m.orig} /\ 0 \in Nat
        BY <1>3
      <4> QED
        BY <1>3, <3>1, <3>2, <4>1, FramesBuilt
    <3> QED
      BY <2>1, <3>1, <3>2, <3>3 DEF Returnable
  <2>2. CASE n \in Routers /\ inbox' = Transmit(Taken(n), Request(n, m.orig, m.id, cost), Nodes)
    <3>1. PICK f : f = Request(n, m.orig, m.id, cost)
      OBVIOUS
    <3>2. f.kind = "request"
      BY <3>1 DEF Request
    <3>3. \A p : f \in FramesFor(p)
      BY <1>3, <2>2, <3>1, FramesBuilt
    <3> QED
      BY <2>2, <3>1, <3>2, <3>3 DEF Returnable
  <2> QED
    BY <1>1, <2>1, <2>2 DEF HandleRouteRequest
<1>11. requestId' = requestId /\ restarts' = restarts
  BY DEF HandleRouteRequest, bounds
<1> QED
  BY <1>7, <1>8, <1>9, <1>10, <1>11, HandlingKeeps

\* handleRouteReply: replies go to relays and to the originator only.
LEMMA ReplyKeeps ==
  ASSUME RoutingAssumptions, RoutingInv, NEW n \in Nodes, inbox[n] # <<>>, NEW m,
         m = Head(inbox[n]), HandleRouteReply(n, m)
  PROVE  RoutingInv'
<1> USE DEF RoutingAssumptions
<1>1. m \in FramesFor(n) /\ m.kind = "reply"
  BY TakenKeeps DEF RoutingInv, HandleRouteReply
<1>2. /\ m.orig \in EndDevices /\ m.from \in Relays /\ m.id \in Nat
      /\ n \in Routers \cup {m.orig} /\ PathCost(n, m) \in Nat
  BY <1>1, FrameForms
<1>3. PICK t : t = routes[n]
  OBVIOUS
<1>4. PICK u : u = Upsert(t, Coordinator, m.from, TRUE)
  OBVIOUS
<1>5. /\ GoodTable(t) /\ DOMAIN routes = Nodes /\ Coordinator \in RouteEnds
      /\ Coordinator \notin EndDevices /\ Relays \subseteq Nodes
  BY <1>3 DEF RoutingInv, RoutingTypes, RouteEnds, RoleAssumption, Relays, Nodes
<1>6. PICK lost : lost = Evicted(n, Coordinator)
  OBVIOUS
<1>7. NoRouteLost(n, u, lost)
  BY <1>2, <1>3, <1>4, <1>5, <1>6, WrittenKeeps
<1>8. \/ UNCHANGED <<routes, evicted>>
      \/ NoRouteLost(n, u, evicted') /\ routes' = [routes EXCEPT ![n] = u]
  <2>1. \/ UNCHANGED <<routes, evicted>>
        \/ routes' = [routes EXCEPT ![n] = u] /\ evicted' = lost
    <3>1. CASE n # m.orig /\ {discovery[n][i].prev : i \in Known(n, m)} = {}
      BY <3>1 DEF HandleRouteReply
    <3>2. CASE ~ (n # m.orig /\ {discovery[n][i].prev : i \in Known(n, m)} = {})
      <4>1. /\ routes' = [routes EXCEPT ![n] = Upsert(@, Coordinator, m.from, TRUE)]
            /\ evicted' = Evicted(n, Coordinator)
        BY <3>2 DEF HandleRouteReply
      <4> QED
        BY <1>3, <1>4, <1>5, <1>6, <4>1
    <3> QED
      BY <3>1, <3>2
  <2> QED
    BY <1>7, <2>1
<1>10. \/ inbox' = Taken(n)
       \/ \E frame, hops :
            /\ inbox' = Transmit(Taken(n), frame, hops)
            /\ \A p \in hops \cap Nodes : frame \in FramesFor(p)
            /\ Returnable(frame, routes', evicted')
  <2>1. CASE n = m.orig
    BY <2>1 DEF HandleRouteReply
  <2>2. CASE n # m.orig
    <3>1. PICK hops : hops = {discovery[n][i].prev : i \in Known(n, m)}
      OBVIOUS
    <3>2. PICK f : f = Reply(n, m.orig, m.id, PathCost(n, m))
      OBVIOUS
    <3>3. inbox' = Transmit(Taken(n), f, hops)
      BY <2>2, <3>1, <3>2 DEF HandleRouteReply
    <3>4. f.kind = "reply" /\ n \in Relays
      BY <1>2, <2>2, <3>2 DEF Reply, Relays
    <3>5. ASSUME NEW p \in hops PROVE p \in Routers \cup {m.orig}
      <4>1. PICK i \in Known(n, m) : p = discovery[n][i].prev
        BY <3>1, <3>5
      <4>2. discovery[n][i] \in DiscoveryEntries /\ discovery[n][i].orig = m.orig
        BY DEF Known, RoutingInv, RoutingTypes
      <4> QED
        BY <4>1, <4>2 DEF DiscoveryEntries
    <3>6. ASSUME NEW p \in hops \cap Nodes PROVE f \in FramesFor(p)
      BY <1>2, <3>2, <3>4, <3>5, FramesBuilt
    <3> QED
      BY <3>3, <3>4, <3>6 DEF Returnable
  <2> QED
    BY <2>1, <2>2
<1>11. /\ requestId' = requestId /\ restarts' = restarts
       /\ DOMAIN discovery' = Nodes /\ \A p \in Nodes : discovery'[p] \in Seq(DiscoveryEntries)
  BY DEF HandleRouteReply, bounds, RoutingInv, RoutingTypes
<1> QED
  BY <1>8, <1>10, <1>11, HandlingKeeps

\* Whoever receives a data frame knows the way back to its source afterwards.
LEMMA LearnedKeeps ==
  ASSUME RoutingAssumptions, RoutingInv, NEW n \in Nodes, NEW m \in FramesFor(n), m.kind = "data",
         Learn(n, m)
  PROVE  /\ NoRouteLost(n, Learned(n, m), evicted')
         /\ n # m.src => HasRoute(Learned(n, m), m.src)
<1> USE DEF RoutingAssumptions
<1>1. m.from \in Nodes /\ m.src \in RouteEnds /\ (m.src = Coordinator => m.from \in Relays)
  BY FrameForms
<1>2. PICK t : t = routes[n]
  OBVIOUS
<1>3. GoodTable(t) /\ (n \in Routers => Reaches(t, evicted, n, Coordinator))
  BY <1>2 DEF RoutingInv
<1>4. CASE m.src = n
  BY <1>2, <1>3, <1>4 DEF Learn, Learned, NoRouteLost
<1>5. CASE m.src # n
  <2>1. PICK u : u = Upsert(t, m.src, m.from, TRUE)
    OBVIOUS
  <2>2. PICK lost : lost = Evicted(n, m.src)
    OBVIOUS
  <2>3. NoRouteLost(n, u, lost) /\ HasRoute(u, m.src)
    BY <1>1, <1>2, <2>1, <2>2, WrittenKeeps
  <2>4. Learned(n, m) = u /\ evicted' = lost
    BY <1>2, <1>5, <2>1, <2>2 DEF Learn, Learned
  <2> QED
    BY <2>3, <2>4
<1> QED
  BY <1>4, <1>5

\* onNwkData: the relay, the acknowledgement and its arrival.
LEMMA DataKeeps ==
  ASSUME RoutingAssumptions, RoutingInv, NEW n \in Nodes, inbox[n] # <<>>, NEW m,
         m = Head(inbox[n]), ForwardData(n, m) \/ AcknowledgeData(n, m) \/ ReceiveAck(n, m)
  PROVE  RoutingInv'
<1> USE DEF RoutingAssumptions
<1>1. m \in FramesFor(n) /\ m.kind = "data"
  BY TakenKeeps DEF RoutingInv, ForwardData, AcknowledgeData, ReceiveAck
<1>2. /\ m.from \in Nodes /\ m.src \in RouteEnds /\ m.dst \in RouteEnds /\ m.radius \in Nat
      /\ (m.src = Coordinator => m.from \in Relays)
  BY <1>1, FrameForms
<1>3. PICK u : u = Learned(n, m)
  OBVIOUS
<1>4. NoRouteLost(n, u, evicted') /\ (n # m.src => HasRoute(u, m.src))
  <2>1. Learn(n, m)
    BY DEF ForwardData, AcknowledgeData, ReceiveAck
  <2> QED
    BY <1>1, <1>3, <2>1, LearnedKeeps
<1>5. /\ routes' = [routes EXCEPT ![n] = u] /\ requestId' = requestId /\ restarts' = restarts
      /\ DOMAIN discovery' = Nodes /\ \A p \in Nodes : discovery'[p] \in Seq(DiscoveryEntries)
  BY <1>3 DEF ForwardData, AcknowledgeData, ReceiveAck, Learn, bounds, RoutingInv, RoutingTypes
<1>6. n # m.src => Reaches(routes'[n], evicted', n, m.src)
  BY <1>4, <1>5 DEF RoutingInv, RoutingTypes, Reaches
<1>7. \/ inbox' = Taken(n)
      \/ \E frame, hops :
           /\ inbox' = Transmit(Taken(n), frame, hops)
           /\ \A p \in hops \cap Nodes : frame \in FramesFor(p)
           /\ Returnable(frame, routes', evicted')
  <2>1. CASE ForwardData(n, m) /\ m.radius > 1 /\ n \notin EndDevices
    <3>1. PICK f : f = Data(n, m.src, m.dst, m.radius - 1)
      OBVIOUS
    <3>2. m.radius - 1 \in Nat /\ n \in Relays
      BY <1>2, <2>1 DEF Nodes, Relays
    <3>3. (\A p : f \in FramesFor(p)) /\ Returnable(f, routes', evicted')
      BY <1>2, <1>6, <3>1, <3>2, DataBuilt
    <3>4. \E hops : inbox' = Transmit(Taken(n), f, hops)
      BY <2>1, <3>1 DEF ForwardData
    <3> QED
      BY <3>3, <3>4
  <2>2. CASE ForwardData(n, m) /\ ~ (m.radius > 1 /\ n \notin EndDevices)
    BY <2>2 DEF ForwardData
  <2>3. CASE AcknowledgeData(n, m)
    <3>1. PICK f : f = Data(n, n, m.src, Radius)
      OBVIOUS
    <3>2. n = Coordinator /\ n \in Relays /\ n \in RouteEnds /\ Radius \in Nat
      BY <2>3 DEF AcknowledgeData, Relays, RouteEnds, CapacityAssumption
    <3>3. (\A p : f \in FramesFor(p)) /\ Returnable(f, routes', evicted')
      BY <1>2, <3>1, <3>2, DataBuilt
    <3>4. \E hops : inbox' = Transmit(Taken(n), f, hops)
      BY <2>3, <3>1 DEF AcknowledgeData
    <3> QED
      BY <3>3, <3>4
  <2>4. CASE ReceiveAck(n, m)
    BY <2>4 DEF ReceiveAck
  <2> QED
    BY <2>1, <2>2, <2>3, <2>4
<1> QED
  BY <1>4, <1>5, <1>7, HandlingKeeps

\* Tier 1 of the route repair.
LEMMA RepairKeeps ==
  ASSUME RoutingAssumptions, RoutingInv, NEW c \in EndDevices, RepairRoute(c)
  PROVE  RoutingInv'
<1> USE DEF RoutingAssumptions
<1>1. PICK t : t = routes[c]
  OBVIOUS
<1>2. PICK r : r = Removed(t, Coordinator)
  OBVIOUS
<1>3. c \in Nodes /\ c \notin Routers /\ Coordinator \notin EndDevices /\ GoodTable(t)
      /\ DOMAIN routes = Nodes
  BY <1>1 DEF RoleAssumption, RoutingInv, RoutingTypes, Nodes
<1>4. NoRouteLost(c, r, evicted)
  <2>1. GoodTable(r) /\ \A e : e # Coordinator /\ HasRoute(t, e) => HasRoute(r, e)
    BY <1>2, <1>3, RemovedKeeps
  <2> QED
    BY <1>1, <1>3, <2>1 DEF NoRouteLost, Reaches
<1>5. routes' = [routes EXCEPT ![c] = r] /\ evicted' = evicted
  BY <1>1, <1>2, <1>3 DEF RepairRoute, history
<1>6. RoutesKept(routes, evicted, routes', evicted')
  BY <1>3, <1>4, <1>5, OneTableWritten
<1>7. /\ requestId' \in [EndDevices -> Nat] /\ restarts' = restarts
      /\ GoodBoxes(inbox') /\ FramesFrom(inbox, inbox', {})
  BY DEF RepairRoute, RoutingInv, RoutingTypes, bounds, FramesFrom
<1>8. DOMAIN discovery' = Nodes /\ \A p \in Nodes : discovery'[p] \in Seq(DiscoveryEntries)
  BY <1>3, ExpireKeeps DEF RepairRoute
<1> QED
  BY <1>6, <1>7, <1>8, StepSafe

(***************************************************************************)
(* A device that joined or restored its identity has one route, through    *)
(* its parent.                                                             *)
(***************************************************************************)
LEMMA JoinedIsGood ==
  ASSUME TopologyAssumption, NEW n \in Routers \cup EndDevices
  PROVE  GoodTable(Joined(n)) /\ HasRoute(Joined(n), Coordinator)
<1>1. PICK x : x = [dst |-> Coordinator, hop |-> Parent[n], active |-> TRUE]
  OBVIOUS
<1>2. x.dst = Coordinator /\ x.active = TRUE /\ x.hop \in Relays /\ x.hop \in Nodes
      /\ x \in RouteEntries
  <2>1. Parent[n] \in Relays /\ Relays \subseteq Nodes
    BY DEF TopologyAssumption, Relays, Nodes
  <2> QED
    BY <1>1, <2>1 DEF RouteEntries, RouteEnds
<1>3. PICK t : t = Joined(n)
  OBVIOUS
<1>4. t = <<x>>
  BY <1>1, <1>3 DEF Joined
<1>5. t \in Seq(RouteEntries) /\ Len(t) = 1 /\ t[1] = x /\ \A i \in 1 .. Len(t) : i = 1
  BY <1>2, <1>4
<1>6. GoodTable(t) /\ HasRoute(t, Coordinator)
  BY <1>2, <1>5 DEF GoodTable, HasRoute
<1> QED
  BY <1>3, <1>6

\* A device that restarts has the route through its parent again.
LEMMA RestartKeeps ==
  ASSUME RoutingAssumptions, RoutingInv, NEW n \in Routers \cup EndDevices, Restart(n)
  PROVE  RoutingInv'
<1> USE DEF RoutingAssumptions
<1>1. PICK t : t = Joined(n)
  OBVIOUS
<1>2. n \in Nodes /\ Routers \subseteq Nodes
  BY DEF Nodes
<1>3. GoodTable(t) /\ HasRoute(t, Coordinator)
  BY <1>1, JoinedIsGood
<1>4. /\ DOMAIN routes' = Nodes
      /\ \A p \in Nodes : routes'[p] = IF p = n THEN t ELSE routes[p]
  BY <1>1, <1>2 DEF Restart, RoutingInv, RoutingTypes
<1>5. \A p \in Nodes : GoodTable(routes'[p])
  BY <1>3, <1>4 DEF RoutingInv
<1>6. ASSUME NEW p \in Routers PROVE Reaches(routes'[p], evicted', p, Coordinator)
  <2>1. evicted' = evicted \ ({n} \X Nodes)
    BY DEF Restart
  <2>2. CASE p = n
    BY <1>2, <1>3, <1>4, <2>2 DEF Reaches
  <2>3. CASE p # n
    BY <1>2, <1>4, <2>1, <2>3 DEF RoutingInv, Reaches
  <2> QED
    BY <2>2, <2>3
<1>7. GoodBoxes(inbox')
  <2>1. inbox' = [inbox EXCEPT ![n] = <<>>]
    BY DEF Restart
  <2>2. \A p : <<>> \in Seq(FramesFor(p))
    OBVIOUS
  <2> QED
    BY <1>2, <2>1, <2>2 DEF RoutingInv, GoodBoxes
<1>8. restarts' \in Nat /\ restarts' # 0
  BY DEF Restart, RoutingInv, RoutingTypes
<1>9. requestId' \in [EndDevices -> Nat]
  BY DEF Restart, RoutingInv, RoutingTypes
<1>10. DOMAIN discovery' = Nodes /\ \A p \in Nodes : discovery'[p] \in Seq(DiscoveryEntries)
  <2>1. discovery' = [discovery EXCEPT ![n] = <<>>] /\ <<>> \in Seq(DiscoveryEntries)
    BY DEF Restart
  <2> QED
    BY <1>2, <2>1, DiscoveryWritten
<1> QED
  BY <1>4, <1>5, <1>6, <1>7, <1>8, <1>9, <1>10 DEF RoutingInv, RoutingTypes

\* Every device starts with the route through its parent.
LEMMA RoutingStarts ==
  ASSUME RoutingAssumptions, Init
  PROVE  RoutingInv
<1> USE DEF RoutingAssumptions
<1>1. ASSUME NEW n \in Routers \cup EndDevices
      PROVE  GoodTable(Joined(n)) /\ HasRoute(Joined(n), Coordinator)
  BY JoinedIsGood
<1>2. PICK e : e = <<>>
  OBVIOUS
<1>3. GoodTable(e) /\ Len(e) = 0
  BY <1>2 DEF GoodTable
<1>4. /\ \A n \in Nodes : GoodTable(routes[n])
      /\ \A n \in Routers : Reaches(routes[n], evicted, n, Coordinator)
  <2>1. /\ \A n \in Nodes : routes[n] = IF n = Coordinator THEN e ELSE Joined(n)
        /\ \A n \in Nodes : n # Coordinator => n \in Routers \cup EndDevices
        /\ Coordinator \notin Routers /\ Routers \subseteq Nodes
    BY <1>2 DEF Init, Nodes, RoleAssumption
  <2> QED
    BY <1>1, <1>3, <2>1 DEF Reaches
<1>5. RoutingTypes
  BY DEF Init, RoutingTypes
<1>6. GoodBoxes(inbox) /\ \A n \in Nodes : Len(inbox[n]) = 0
  BY DEF Init, GoodBoxes
<1> QED
  BY <1>4, <1>5, <1>6 DEF RoutingInv

\* Every step keeps the invariant.
LEMMA RoutingStep ==
  ASSUME RoutingAssumptions, RoutingInv, [Next]_vars
  PROVE  RoutingInv'
<1> USE DEF RoutingAssumptions
<1>1. ASSUME NEW n \in Nodes, Receive(n) PROVE RoutingInv'
  <2>1. PICK m : m = Head(inbox[n])
    OBVIOUS
  <2>2. inbox[n] # <<>> /\ Handle(n, m)
    BY <1>1, <2>1 DEF Receive
  <2>3. CASE DropDuplicateRequest(n, m)
    <3>1. /\ UNCHANGED <<routes, evicted>> /\ requestId' = requestId /\ restarts' = restarts /\ inbox' = Taken(n)
          /\ DOMAIN discovery' = Nodes /\ \A p \in Nodes : discovery'[p] \in Seq(DiscoveryEntries)
      BY <2>3 DEF DropDuplicateRequest, tables, bounds, history, RoutingInv, RoutingTypes
    <3> QED
      BY <2>2, <3>1, HandlingKeeps
  <2>4. CASE HandleRouteRequest(n, m)
    BY <2>1, <2>2, <2>4, RequestKeeps
  <2>5. CASE HandleRouteReply(n, m)
    BY <2>1, <2>2, <2>5, ReplyKeeps
  <2>6. CASE ForwardData(n, m) \/ AcknowledgeData(n, m) \/ ReceiveAck(n, m)
    BY <2>1, <2>2, <2>6, DataKeeps
  <2> QED
    BY <2>2, <2>3, <2>4, <2>5, <2>6 DEF Handle
<1>2. ASSUME NEW n \in Nodes, inbox[n] # <<>>, Lose(n) PROVE RoutingInv'
  <2>1. /\ UNCHANGED <<routes, evicted>> /\ requestId' = requestId /\ restarts' = restarts
        /\ inbox' = Taken(n)
        /\ DOMAIN discovery' = Nodes /\ \A p \in Nodes : discovery'[p] \in Seq(DiscoveryEntries)
    BY <1>2 DEF Lose, tables, history, RoutingInv, RoutingTypes
  <2> QED
    BY <1>2, <2>1, HandlingKeeps
<1>3. ASSUME NEW c \in EndDevices, OriginateDiscovery(c) PROVE RoutingInv'
  BY <1>3, OriginateKeeps
<1>4. ASSUME NEW c \in EndDevices, SendData(c) \/ Retransmit(c) PROVE RoutingInv'
  <2>1. c \in Nodes
    BY DEF Nodes
  <2>2. /\ SendApsRouted(c) /\ routes' = routes /\ evicted' = evicted
        /\ requestId' = requestId /\ restarts' = restarts
    BY <1>4 DEF SendData, Retransmit, tables, bounds, history
  <2>3. DOMAIN discovery' = Nodes /\ \A p \in Nodes : discovery'[p] \in Seq(DiscoveryEntries)
    BY <1>4, <2>1, ExpireKeeps DEF SendData, Retransmit, tables, RoutingInv, RoutingTypes
  <2> QED
    BY <2>2, <2>3, SendApsKeeps
<1>5. ASSUME NEW c \in EndDevices, RepairRoute(c) PROVE RoutingInv'
  BY <1>5, RepairKeeps
<1>6. ASSUME NEW n \in Routers \cup EndDevices, Restart(n) PROVE RoutingInv'
  BY <1>6, RestartKeeps
<1>7. CASE UNCHANGED vars
  BY <1>7 DEF vars, tables, bounds, history, RoutingInv, RoutingTypes
<1> QED
  BY <1>1, <1>2, <1>3, <1>4, <1>5, <1>6, <1>7 DEF Next

(***************************************************************************)
(* What the tables hold rules out black holes and lost ways back.          *)
(***************************************************************************)
LEMMA RoutingSafe ==
  ASSUME RoutingAssumptions, RoutingInv
  PROVE  NoBlackHole /\ WayBackIsKnown
<1> USE DEF RoutingAssumptions
<1>1. NoBlackHole
  <2> SUFFICES ASSUME NEW n \in Nodes \ {Coordinator}, NEW hop, hop = NextHop(routes[n], Coordinator)
               PROVE  \/ hop \in {NoHop, Coordinator} \/ <<hop, Coordinator>> \in evicted
                      \/ NextHop(routes[hop], Coordinator) # NoHop
    BY DEF NoBlackHole
  <2>1. PICK t : t = routes[n]
    OBVIOUS
  <2>2. GoodTable(t)
    BY <2>1 DEF RoutingInv
  <2>3. hop \in Relays \cup {NoHop}
    BY <2>1, <2>2, NextHopOf
  <2>4. ASSUME hop \in Routers, <<hop, Coordinator>> \notin evicted
        PROVE  NextHop(routes[hop], Coordinator) # NoHop
    <3>1. PICK u : u = routes[hop]
      OBVIOUS
    <3>2. GoodTable(u) /\ HasRoute(u, Coordinator)
      BY <2>4, <3>1 DEF RoutingInv, Nodes, Reaches
    <3> QED
      BY <3>1, <3>2, NextHopOf
  <2> QED
    BY <2>3, <2>4 DEF Relays
<1>2. WayBackIsKnown
  <2> SUFFICES ASSUME restarts = 0, NEW m \in Queued, m.kind = "data", m.src \in EndDevices,
                      m.from # m.src, <<m.from, m.src>> \notin evicted
               PROVE  NextHop(routes[m.from], m.src) # NoHop
    BY DEF WayBackIsKnown
  <2>1. PICK n \in Nodes : \E i \in DOMAIN inbox[n] : m = inbox[n][i]
    BY DEF Queued
  <2>2. PICK s : s = inbox[n]
    OBVIOUS
  <2>3. s \in Seq(FramesFor(n)) /\ \A i \in 1 .. Len(s) : Returnable(s[i], routes, evicted)
    BY <2>2 DEF RoutingInv, GoodBoxes
  <2>4. PICK i \in 1 .. Len(s) : m = s[i]
    BY <2>1, <2>2, <2>3
  <2>5. m \in FramesFor(n) /\ HasRoute(routes[m.from], m.src)
    BY <2>3, <2>4 DEF Returnable, Reaches
  <2>6. m.from \in Nodes
    BY <2>5, FrameForms
  <2>7. PICK t : t = routes[m.from]
    OBVIOUS
  <2>8. GoodTable(t) /\ HasRoute(t, m.src)
    BY <2>5, <2>6, <2>7 DEF RoutingInv
  <2> QED
    BY <2>7, <2>8, NextHopOf
<1> QED
  BY <1>1, <1>2

(***************************************************************************)
(* No next hop toward the coordinator is a black hole, in every mesh and   *)
(* with tables of every size, unless it recycled its own route: whatever   *)
(* discoveries, replies, data and acknowledgements overwrite, in any order *)
(* and with any losses and restarts.                                       *)
(***************************************************************************)
THEOREM NoBlackHoleAlways == Spec => []NoBlackHole
<1>1. RoutingAssumptions
  BY RoleAssumption, TopologyAssumption, CapacityAssumption DEF RoutingAssumptions
<1>2. Spec => []RoutingInv
  BY <1>1, RoutingStarts, RoutingStep, PTL DEF Spec
<1> QED
  BY <1>1, <1>2, RoutingSafe, PTL

(***************************************************************************)
(* Whoever relayed a data frame of an end device can reach that device,    *)
(* for as long as the frame is on its way, unless it recycled the route or *)
(* a device restarted.                                                     *)
(***************************************************************************)
THEOREM WayBackIsKnownAlways == Spec => []WayBackIsKnown
<1>1. RoutingAssumptions
  BY RoleAssumption, TopologyAssumption, CapacityAssumption DEF RoutingAssumptions
<1>2. Spec => []RoutingInv
  BY <1>1, RoutingStarts, RoutingStep, PTL DEF Spec
<1> QED
  BY <1>1, <1>2, RoutingSafe, PTL
(***************************************************************************)
(* What a router remembers of the requests that are on their way.          *)
(***************************************************************************)
Asked(boxes, c, id) ==
  \E p \in Nodes : \E i \in 1 .. Len(boxes[p]) :
    boxes[p][i].kind = "request" /\ boxes[p][i].orig = c /\ boxes[p][i].id = id

HasEntry(t, c, id, cost) ==
  \E i \in 1 .. Len(t) : t[i].orig = c /\ t[i].id = id /\ t[i].cost = cost

\* The requests of a device on their way are copies of one, and a router that
\* rebroadcast it and has not forgotten it holds the last cost.
FloodInv ==
  /\ flooded \in [Routers -> [EndDevices -> Seq(Nat)]]
  /\ \A c, id, other : Asked(inbox, c, id) /\ Asked(inbox, c, other) => id = other
  /\ \A n \in Routers, c \in EndDevices : \A id :
       <<n, c>> \notin forgotten /\ Len(flooded[n][c]) > 0 /\ Asked(inbox, c, id)
         => HasEntry(discovery[n], c, id, flooded[n][c][Len(flooded[n][c])])
  /\ FloodDiesOut

(***************************************************************************)
(* What is on its way after a step was so before, or was sent by the step. *)
(***************************************************************************)
LEMMA AskedBefore ==
  ASSUME NEW boxes, NEW newBoxes, NEW sent, FramesFrom(boxes, newBoxes, sent), NEW c, NEW id,
         Asked(newBoxes, c, id)
  PROVE  Asked(boxes, c, id) \/ \E m \in sent : m.kind = "request" /\ m.orig = c /\ m.id = id
<1> DEFINE asks(p, i) ==
      newBoxes[p][i].kind = "request" /\ newBoxes[p][i].orig = c /\ newBoxes[p][i].id = id
<1>0. PICK p \in Nodes : \E i \in 1 .. Len(newBoxes[p]) : asks(p, i)
  BY DEF Asked
<1>1. PICK i \in 1 .. Len(newBoxes[p]) : asks(p, i)
  BY <1>0
<1>2. CASE newBoxes[p][i] \in sent
  BY <1>1, <1>2
<1>3. ASSUME NEW j \in 1 .. Len(boxes[p]), newBoxes[p][i] = boxes[p][j] PROVE Asked(boxes, c, id)
  <2>1. boxes[p][j].kind = "request" /\ boxes[p][j].orig = c /\ boxes[p][j].id = id
    BY <1>1, <1>3
  <2> QED
    BY <2>1 DEF Asked
<1> QED
  BY <1>2, <1>3 DEF FramesFrom

\* The frames after a transmission, whatever is sent.
LEMMA SentFrames ==
  ASSUME NEW boxes, GoodBoxes(boxes), NEW frame, NEW hops
  PROVE  FramesFrom(boxes, Transmit(boxes, frame, hops), {frame})
<1>1. PICK b : b = Transmit(boxes, frame, hops)
  OBVIOUS
<1>2. \A p \in Nodes : b[p] = boxes[p] \/ b[p] = Append(boxes[p], frame)
  BY <1>1 DEF Transmit
<1>3. ASSUME NEW p \in Nodes, NEW i \in 1 .. Len(b[p])
      PROVE  b[p][i] \in {frame} \/ \E j \in 1 .. Len(boxes[p]) : b[p][i] = boxes[p][j]
  <2>1. PICK s : s = boxes[p]
    OBVIOUS
  <2>2. s \in Seq(FramesFor(p) \cup {frame})
    BY <2>1 DEF GoodBoxes
  <2>3. CASE b[p] = s
    BY <2>1, <2>3
  <2>4. CASE b[p] = Append(s, frame)
    BY <2>1, <2>2, <2>4
  <2> QED
    BY <1>2, <2>1, <2>3, <2>4
<1> QED
  BY <1>1, <1>3 DEF FramesFrom

\* The frames after one was handled and another one sent.
LEMMA HandledFrames ==
  ASSUME GoodBoxes(inbox), NEW n \in Nodes, inbox[n] # <<>>, NEW frame, NEW hops
  PROVE  FramesFrom(inbox, Transmit(Taken(n), frame, hops), {frame})
<1>1. PICK a : a = Taken(n)
  OBVIOUS
<1>2. PICK b : b = Transmit(a, frame, hops)
  OBVIOUS
<1>3. GoodBoxes(a) /\ FramesFrom(inbox, a, {})
  BY <1>1, TakenKeeps
<1>4. FramesFrom(a, b, {frame})
  BY <1>2, <1>3, SentFrames
<1>5. FramesFrom(inbox, b, {frame})
  BY <1>3, <1>4 DEF FramesFrom
<1> QED
  BY <1>1, <1>2, <1>5

(***************************************************************************)
(* A step that neither rebroadcasts nor touches what routers remember, nor *)
(* sends a request.                                                        *)
(***************************************************************************)
LEMMA FloodKept ==
  ASSUME FloodInv, flooded' = flooded, \A x \in forgotten : x \in forgotten',
         \A n \in Routers : discovery'[n] = discovery[n],
         NEW sent, FramesFrom(inbox, inbox', sent), \A m \in sent : m.kind # "request"
  PROVE  FloodInv'
<1>1. \A c, id : Asked(inbox', c, id) => Asked(inbox, c, id)
  BY AskedBefore
<1>2. flooded' \in [Routers -> [EndDevices -> Seq(Nat)]] /\ FloodDiesOut'
  BY DEF FloodInv, FloodDiesOut
<1>3. \A c, id, other : Asked(inbox', c, id) /\ Asked(inbox', c, other) => id = other
  BY <1>1 DEF FloodInv
<1>4. ASSUME NEW n \in Routers, NEW c \in EndDevices, NEW id,
             <<n, c>> \notin forgotten', Len(flooded'[n][c]) > 0, Asked(inbox', c, id)
      PROVE  HasEntry(discovery'[n], c, id, flooded'[n][c][Len(flooded'[n][c])])
  <2>1. <<n, c>> \notin forgotten /\ Len(flooded[n][c]) > 0 /\ Asked(inbox, c, id)
    BY <1>1, <1>4
  <2>2. HasEntry(discovery[n], c, id, flooded[n][c][Len(flooded[n][c])])
    BY <2>1 DEF FloodInv
  <2> QED
    BY <2>2
<1> QED
  BY <1>2, <1>3, <1>4 DEF FloodInv
(***************************************************************************)
(* The entry of a request is recorded at the cost of its own and of the    *)
(* one recycled only.                                                      *)
(***************************************************************************)
LEMMA RecordedHas ==
  ASSUME CapacityAssumption, RoutingInv, NEW n \in Nodes, NEW m, NEW cost
  PROVE  /\ HasEntry(Recorded(n, m, cost), m.orig, m.id, cost)
         /\ \A c, id, old : c # m.orig /\ HasEntry(discovery[n], c, id, old)
              => \/ HasEntry(Recorded(n, m, cost), c, id, old)
                 \/ \E v \in Recycled(Without(discovery[n], Known(n, m)), MaxDiscoveries) :
                      v.orig = c /\ v.id = id
<1>1. PICK t : t = discovery[n]
  OBVIOUS
<1>2. t \in Seq(DiscoveryEntries) /\ DOMAIN t = 1 .. Len(t) /\ Len(t) \in Nat
  BY <1>1 DEF RoutingInv, RoutingTypes
<1>3. PICK slots : slots = Known(n, m)
  OBVIOUS
<1>4. slots \subseteq 1 .. Len(t) /\ \A i \in slots : t[i].orig = m.orig
  BY <1>1, <1>2, <1>3 DEF Known
<1>5. PICK w : w = Without(t, slots)
  OBVIOUS
<1>6. /\ w \in Seq(DiscoveryEntries)
      /\ \A c, id, old : c # m.orig /\ HasEntry(t, c, id, old) => HasEntry(w, c, id, old)
  <2>1. CASE slots = {}
    BY <1>2, <1>5, <2>1 DEF Without
  <2>2. CASE slots # {}
    <3>1. PICK i \in slots : w = RemoveAt(t, i)
      BY <1>5, <2>2 DEF Without
    <3>2. i \in 1 .. Len(t) /\ t[i].orig = m.orig
      BY <1>4
    <3>3. /\ w \in Seq(DiscoveryEntries) /\ Len(w) = Len(t) - 1
          /\ \A j \in 1 .. Len(w) : w[j] = IF j < i THEN t[j] ELSE t[j + 1]
      BY <1>2, <3>1, <3>2, RemovedAt
    <3>4. ASSUME NEW c, NEW id, NEW old, c # m.orig, HasEntry(t, c, id, old)
          PROVE  HasEntry(w, c, id, old)
      <4>1. PICK l \in 1 .. Len(t) : t[l].orig = c /\ t[l].id = id /\ t[l].cost = old
        BY <3>4 DEF HasEntry
      <4>2. l # i
        BY <3>2, <3>4, <4>1
      <4>3. \E j \in 1 .. Len(w) : w[j] = t[l]
        <5>1. CASE l < i
          <6>1. l \in 1 .. Len(w)
            BY <1>2, <3>2, <3>3, <5>1
          <6> QED
            BY <3>3, <5>1, <6>1
        <5>2. CASE ~ (l < i)
          <6>1. l - 1 \in 1 .. Len(w) /\ ~ (l - 1 < i) /\ (l - 1) + 1 = l
            BY <1>2, <3>2, <3>3, <4>2, <5>2
          <6> QED
            BY <3>3, <6>1
        <5> QED
          BY <5>1, <5>2
      <4> QED
        BY <4>1, <4>3 DEF HasEntry
    <3> QED
      BY <3>3, <3>4
  <2> QED
    BY <2>1, <2>2
<1>7. PICK e : e = [orig |-> m.orig, id |-> m.id, prev |-> m.from, cost |-> cost]
  OBVIOUS
<1>8. PICK x : x = IF Len(w) = MaxDiscoveries THEN Tail(w) ELSE w
  OBVIOUS
<1>9. PICK r : r = Append(x, e)
  OBVIOUS
<1>10. Recorded(n, m, cost) = r
  BY <1>1, <1>3, <1>5, <1>7, <1>8, <1>9 DEF Recorded, Put
<1>11. /\ x \in Seq(DiscoveryEntries)
       /\ \A c, id, old : HasEntry(w, c, id, old)
            => HasEntry(x, c, id, old) \/ \E v \in Recycled(w, MaxDiscoveries) : v.orig = c /\ v.id = id
  <2>1. CASE Len(w) # MaxDiscoveries
    BY <1>6, <1>8, <2>1
  <2>2. CASE Len(w) = MaxDiscoveries
    <3>1. Len(w) # 0
      BY <2>2 DEF CapacityAssumption
    <3>2. /\ x \in Seq(DiscoveryEntries) /\ Len(x) = Len(w) - 1 /\ Head(w) = w[1] /\ Len(w) \in Nat
          /\ \A j \in 1 .. Len(x) : x[j] = w[j + 1]
      BY <1>6, <1>8, <2>2, <3>1
    <3>3. ASSUME NEW c, NEW id, NEW old, HasEntry(w, c, id, old)
          PROVE  HasEntry(x, c, id, old) \/ (w[1].orig = c /\ w[1].id = id)
      <4>1. PICK l \in 1 .. Len(w) : w[l].orig = c /\ w[l].id = id /\ w[l].cost = old
        BY <3>3 DEF HasEntry
      <4>2. CASE l = 1
        BY <4>1, <4>2
      <4>3. CASE l # 1
        <5>1. l - 1 \in 1 .. Len(x) /\ x[l - 1] = w[l]
          BY <3>2, <4>3
        <5> QED
          BY <4>1, <5>1 DEF HasEntry
      <4> QED
        BY <4>2, <4>3
    <3>4. w[1] \in Recycled(w, MaxDiscoveries)
      BY <2>2, <3>2 DEF Recycled
    <3> QED
      BY <3>2, <3>3, <3>4
  <2> QED
    BY <2>1, <2>2
<1>12. /\ Len(x) + 1 \in 1 .. Len(r) /\ r[Len(x) + 1] = e
       /\ \A j \in 1 .. Len(x) : j \in 1 .. Len(r) /\ r[j] = x[j]
  <2>1. x \in Seq(DiscoveryEntries \cup {e})
    BY <1>11
  <2> QED
    BY <1>9, <2>1
<1>13. HasEntry(r, m.orig, m.id, cost)
  BY <1>7, <1>12 DEF HasEntry
<1>14. ASSUME NEW c, NEW id, NEW old, HasEntry(x, c, id, old) PROVE HasEntry(r, c, id, old)
  <2>1. PICK l \in 1 .. Len(x) : x[l].orig = c /\ x[l].id = id /\ x[l].cost = old
    BY <1>14 DEF HasEntry
  <2> QED
    BY <1>12, <2>1 DEF HasEntry
<1> QED
  BY <1>1, <1>3, <1>5, <1>6, <1>10, <1>11, <1>13, <1>14

(***************************************************************************)
(* A request of a device under way is one of the frames queued.            *)
(***************************************************************************)
LEMMA AskedIsUnderWay ==
  ASSUME GoodBoxes(inbox), NEW e, Asked(inbox, e.orig, e.id)
  PROVE  UnderWay(e)
<1>1. PICK p \in Nodes : \E i \in 1 .. Len(inbox[p]) :
        inbox[p][i].kind = "request" /\ inbox[p][i].orig = e.orig /\ inbox[p][i].id = e.id
  BY DEF Asked
<1>2. PICK s : s = inbox[p]
  OBVIOUS
<1>3. PICK i \in 1 .. Len(s) : s[i].kind = "request" /\ s[i].orig = e.orig /\ s[i].id = e.id
  BY <1>1, <1>2
<1>4. i \in DOMAIN s
  <2>1. s \in Seq(FramesFor(p))
    BY <1>2 DEF GoodBoxes
  <2> QED
    BY <2>1
<1>5. s[i] \in Queued
  BY <1>2, <1>4 DEF Queued
<1> QED
  BY <1>3, <1>5 DEF UnderWay
(***************************************************************************)
(* A router rebroadcasts a request: at a lower cost than the last time,    *)
(* for as long as it remembers that.                                       *)
(***************************************************************************)
LEMMA RebroadcastKeeps ==
  ASSUME RoutingAssumptions, RoutingInv, FloodInv, NEW n \in Routers, inbox[n] # <<>>, NEW m,
         m = Head(inbox[n]), HandleRouteRequest(n, m)
  PROVE  FloodInv'
<1> USE DEF RoutingAssumptions
<1>1. PICK cost : cost = PathCost(n, m)
  OBVIOUS
<1>2. n \in Nodes /\ n # Coordinator /\ n \notin EndDevices
  BY DEF Nodes, RoleAssumption
<1>3. /\ m \in FramesFor(n) /\ m.kind = "request" /\ m = inbox[n][1] /\ 1 \in 1 .. Len(inbox[n])
      /\ GoodBoxes(inbox)
  BY <1>2, TakenKeeps DEF RoutingInv, HandleRouteRequest
<1>4. PICK c0 : c0 = m.orig
  OBVIOUS
<1>5. c0 \in EndDevices /\ m.id \in Nat /\ m.from \in Nodes /\ cost \in Nat
  BY <1>1, <1>2, <1>3, <1>4, FrameForms
<1>6. Asked(inbox, c0, m.id)
  BY <1>2, <1>3, <1>4 DEF Asked
<1>7. PICK r : r = Recorded(n, m, cost)
  OBVIOUS
<1>8. PICK before : before = flooded[n][c0]
  OBVIOUS
<1>9. PICK after : after = Append(before, cost)
  OBVIOUS
<1>10. /\ before \in Seq(Nat) /\ after \in Seq(Nat) /\ Len(after) = Len(before) + 1
       /\ Len(before) \in Nat /\ after[Len(after)] = cost
       /\ \A i \in 1 .. Len(before) : after[i] = before[i] /\ before[i] \in Nat
  <2>1. before \in Seq(Nat)
    BY <1>5, <1>8 DEF FloodInv
  <2> QED
    BY <1>5, <1>9, <2>1
<1>11. \A p \in Routers, c \in EndDevices :
         flooded'[p][c] = IF p = n /\ c = c0 THEN after ELSE flooded[p][c]
  <2>1. flooded' = [flooded EXCEPT ![n][c0] = after]
    BY <1>1, <1>2, <1>4, <1>8, <1>9 DEF HandleRouteRequest, FloodInv
  <2> QED
    BY <2>1 DEF FloodInv
<1>12. flooded' \in [Routers -> [EndDevices -> Seq(Nat)]]
  <2>1. flooded' = [flooded EXCEPT ![n][c0] = after]
    BY <1>1, <1>2, <1>4, <1>8, <1>9 DEF HandleRouteRequest, FloodInv
  <2> QED
    BY <1>10, <2>1 DEF FloodInv
<1>13. \A p \in Routers : discovery'[p] = IF p = n THEN r ELSE discovery[p]
  BY <1>1, <1>2, <1>7 DEF HandleRouteRequest, RoutingInv, RoutingTypes, Nodes
<1>14. /\ \A x \in forgotten : x \in forgotten'
       /\ \A v \in Recycled(Without(discovery[n], Known(n, m)), MaxDiscoveries) :
            UnderWay(v) => <<n, v.orig>> \in forgotten'
  BY DEF HandleRouteRequest, Forgotten
<1>15. ASSUME NEW c, NEW id, Asked(inbox', c, id) PROVE Asked(inbox, c, id)
  <2>1. PICK f : f = Request(n, m.orig, m.id, cost)
    OBVIOUS
  <2>2. inbox' = Transmit(Taken(n), f, Nodes)
    BY <1>1, <1>2, <2>1 DEF HandleRouteRequest
  <2>3. FramesFrom(inbox, inbox', {f})
    BY <1>2, <1>3, <2>2, HandledFrames
  <2>4. Asked(inbox, c, id) \/ (f.orig = c /\ f.id = id)
    BY <1>15, <2>3, AskedBefore
  <2> QED
    BY <1>4, <1>6, <2>1, <2>4 DEF Request
<1>16. ASSUME NEW c, NEW id, NEW other, Asked(inbox', c, id), Asked(inbox', c, other) PROVE id = other
  BY <1>15, <1>16 DEF FloodInv
<1>17. /\ HasEntry(r, c0, m.id, cost)
       /\ \A c, id, old : c # c0 /\ HasEntry(discovery[n], c, id, old)
            => \/ HasEntry(r, c, id, old)
               \/ \E v \in Recycled(Without(discovery[n], Known(n, m)), MaxDiscoveries) :
                    v.orig = c /\ v.id = id
  BY <1>2, <1>4, <1>7, RecordedHas
<1>18. ASSUME NEW p \in Routers, NEW c \in EndDevices, NEW id,
              <<p, c>> \notin forgotten', Len(flooded'[p][c]) > 0, Asked(inbox', c, id)
       PROVE  HasEntry(discovery'[p], c, id, flooded'[p][c][Len(flooded'[p][c])])
  <2>1. Asked(inbox, c, id) /\ <<p, c>> \notin forgotten
    BY <1>14, <1>15, <1>18
  <2>2. CASE p = n /\ c = c0
    <3>1. id = m.id
      BY <1>6, <2>1, <2>2 DEF FloodInv
    <3> QED
      BY <1>10, <1>11, <1>13, <1>17, <2>2, <3>1
  <2>3. CASE ~ (p = n /\ c = c0)
    <3>1. PICK k : k = flooded[p][c][Len(flooded[p][c])]
      OBVIOUS
    <3>2. flooded'[p][c] = flooded[p][c]
      BY <1>11, <2>3
    <3>3. HasEntry(discovery[p], c, id, k)
      BY <1>18, <2>1, <3>1, <3>2 DEF FloodInv
    <3>4. CASE p # n
      BY <1>13, <3>1, <3>2, <3>3, <3>4
    <3>5. CASE p = n
      <4>1. ASSUME NEW v \in Recycled(Without(discovery[n], Known(n, m)), MaxDiscoveries),
                   v.orig = c, v.id = id
            PROVE  FALSE
        <5>1. UnderWay(v)
          BY <1>3, <2>1, <4>1, AskedIsUnderWay
        <5> QED
          BY <1>14, <1>18, <3>5, <4>1, <5>1
      <4>2. HasEntry(r, c, id, k)
        BY <1>17, <2>3, <3>3, <3>5, <4>1
      <4> QED
        BY <1>13, <3>1, <3>2, <3>5, <4>2
    <3> QED
      BY <3>4, <3>5
  <2> QED
    BY <2>2, <2>3
<1>19. ASSUME <<n, c0>> \notin forgotten, Len(before) > 0 PROVE cost < before[Len(before)]
  <2>1. HasEntry(discovery[n], c0, m.id, before[Len(before)])
    BY <1>5, <1>6, <1>8, <1>19 DEF FloodInv
  <2>2. PICK i \in 1 .. Len(discovery[n]) :
          discovery[n][i].orig = c0 /\ discovery[n][i].id = m.id /\ discovery[n][i].cost = before[Len(before)]
    BY <2>1 DEF HasEntry
  <2>3. DOMAIN discovery[n] = 1 .. Len(discovery[n])
    <3>1. discovery[n] \in Seq(DiscoveryEntries)
      BY <1>2 DEF RoutingInv, RoutingTypes
    <3> QED
      BY <3>1
  <2>4. i \in Known(n, m)
    BY <1>4, <2>2, <2>3 DEF Known
  <2>5. ~ (discovery[n][i].cost <= cost)
    BY <1>1, <2>4 DEF HandleRouteRequest, IsDuplicate
  <2>6. before[Len(before)] \in Nat
    BY <1>10, <1>19
  <2> QED
    BY <1>5, <2>2, <2>5, <2>6
<1>20. FloodDiesOut'
  <2> SUFFICES ASSUME NEW p \in Routers, NEW c \in EndDevices, <<p, c>> \notin forgotten',
                      NEW i \in 2 .. Len(flooded'[p][c])
               PROVE  flooded'[p][c][i] < flooded'[p][c][i - 1]
    BY DEF FloodDiesOut
  <2>1. <<p, c>> \notin forgotten
    BY <1>14
  <2>2. CASE ~ (p = n /\ c = c0)
    BY <1>11, <2>1, <2>2 DEF FloodInv, FloodDiesOut
  <2>3. CASE p = n /\ c = c0
    <3>1. flooded'[p][c] = after /\ i \in 2 .. Len(before) + 1
      BY <1>10, <1>11, <2>3
    <3>2. CASE i = Len(before) + 1
      BY <1>10, <1>19, <2>1, <2>3, <3>1, <3>2
    <3>3. CASE i # Len(before) + 1
      <4>1. i \in 2 .. Len(before) /\ i - 1 \in 1 .. Len(before) /\ i \in 1 .. Len(before)
        BY <1>10, <3>1, <3>3
      <4>2. before[i] < before[i - 1]
        BY <1>5, <1>8, <2>1, <2>3, <4>1 DEF FloodInv, FloodDiesOut
      <4> QED
        BY <1>10, <3>1, <4>1, <4>2
    <3> QED
      BY <3>2, <3>3
  <2> QED
    BY <2>2, <2>3
<1> QED
  BY <1>12, <1>16, <1>18, <1>20 DEF FloodInv

\* A new discovery: nothing of the last one is on its way.
LEMMA DiscoveryKeeps ==
  ASSUME RoutingAssumptions, RoutingInv, FloodInv, NEW c0 \in EndDevices, OriginateDiscovery(c0)
  PROVE  FloodInv'
<1> USE DEF RoutingAssumptions
<1>1. PICK new : new = (requestId[c0] + 1) % IdModulus
  OBVIOUS
<1>2. PICK f : f = Request(c0, c0, new, 0)
  OBVIOUS
<1>3. f.kind = "request" /\ f.orig = c0 /\ f.id = new
  BY <1>2 DEF Request
<1>4. inbox' = Transmit(inbox, f, Nodes) /\ GoodBoxes(inbox)
  BY <1>1, <1>2 DEF OriginateDiscovery, RoutingInv
<1>5. \A id : ~ Asked(inbox, c0, id)
  <2> SUFFICES ASSUME NEW id, Asked(inbox, c0, id) PROVE FALSE
    OBVIOUS
  <2>1. PICK e : e = [orig |-> c0, id |-> id]
    OBVIOUS
  <2>2. UnderWay(e)
    BY <1>4, <2>1, AskedIsUnderWay
  <2>3. Discovering(c0)
    BY <2>1, <2>2 DEF UnderWay, Discovering
  <2> QED
    BY <2>3 DEF OriginateDiscovery
<1>6. \A c, id : Asked(inbox', c, id) => Asked(inbox, c, id) \/ (c = c0 /\ id = new)
  <2>1. FramesFrom(inbox, inbox', {f})
    BY <1>4, SentFrames
  <2> QED
    BY <1>3, <2>1, AskedBefore
<1>7. \A c, id, other : Asked(inbox', c, id) /\ Asked(inbox', c, other) => id = other
  BY <1>5, <1>6 DEF FloodInv
<1>8. /\ flooded' \in [Routers -> [EndDevices -> Seq(Nat)]]
      /\ \A n \in Routers, c \in EndDevices : flooded'[n][c] = IF c = c0 THEN <<>> ELSE flooded[n][c]
  <2>1. flooded' = [n \in Routers |-> [flooded[n] EXCEPT ![c0] = <<>>]]
    BY DEF OriginateDiscovery
  <2>2. <<>> \in Seq(Nat)
    OBVIOUS
  <2> QED
    BY <2>1, <2>2 DEF FloodInv
<1>9. \A n \in Routers, c \in EndDevices : c # c0 /\ <<n, c>> \notin forgotten' => <<n, c>> \notin forgotten
  BY DEF OriginateDiscovery
<1>10. \A n \in Routers : discovery'[n] = discovery[n]
  <2>1. c0 \notin Routers /\ Routers \subseteq Nodes
    BY DEF RoleAssumption, Nodes
  <2>2. ExpireDiscoveries(c0) /\ DOMAIN discovery = Nodes
    BY DEF OriginateDiscovery, RoutingInv, RoutingTypes
  <2> QED
    BY <2>1, <2>2 DEF ExpireDiscoveries
<1>11. ASSUME NEW n \in Routers, NEW c \in EndDevices, NEW id,
              <<n, c>> \notin forgotten', Len(flooded'[n][c]) > 0, Asked(inbox', c, id)
       PROVE  HasEntry(discovery'[n], c, id, flooded'[n][c][Len(flooded'[n][c])])
  <2>1. c # c0
    BY <1>8, <1>11
  <2>2. flooded'[n][c] = flooded[n][c] /\ <<n, c>> \notin forgotten /\ Asked(inbox, c, id)
    BY <1>6, <1>8, <1>9, <1>11, <2>1
  <2>3. HasEntry(discovery[n], c, id, flooded[n][c][Len(flooded[n][c])])
    BY <1>11, <2>2 DEF FloodInv
  <2> QED
    BY <1>10, <2>2, <2>3
<1>12. FloodDiesOut'
  <2> SUFFICES ASSUME NEW n \in Routers, NEW c \in EndDevices, <<n, c>> \notin forgotten',
                      NEW i \in 2 .. Len(flooded'[n][c])
               PROVE  flooded'[n][c][i] < flooded'[n][c][i - 1]
    BY DEF FloodDiesOut
  <2>1. CASE c = c0
    BY <1>8, <2>1
  <2>2. CASE c # c0
    BY <1>8, <1>9, <2>2 DEF FloodInv, FloodDiesOut
  <2> QED
    BY <2>1, <2>2
<1> QED
  BY <1>7, <1>8, <1>11, <1>12 DEF FloodInv

\* A router that restarts remembers no request and has rebroadcast none since.
LEMMA RestartFloodKeeps ==
  ASSUME RoutingInv, FloodInv, NEW n, Restart(n)
  PROVE  FloodInv'
<1>1. /\ flooded' \in [Routers -> [EndDevices -> Seq(Nat)]]
      /\ \A p \in Routers, c \in EndDevices : flooded'[p][c] = IF p = n THEN <<>> ELSE flooded[p][c]
  <2>1. flooded' = [r \in Routers |-> IF r = n THEN [c \in EndDevices |-> <<>>] ELSE flooded[r]]
    BY DEF Restart
  <2>2. [c \in EndDevices |-> <<>>] \in [EndDevices -> Seq(Nat)]
    OBVIOUS
  <2> QED
    BY <2>1, <2>2 DEF FloodInv
<1>2. /\ \A p \in Routers : p # n => discovery'[p] = discovery[p]
      /\ \A p \in Routers : \A c : p # n /\ <<p, c>> \notin forgotten' => <<p, c>> \notin forgotten
  BY DEF Restart, RoutingInv, RoutingTypes, Nodes
<1>3. FramesFrom(inbox, inbox', {})
  <2>1. \A p \in Nodes : inbox'[p] = IF p = n THEN <<>> ELSE inbox[p]
    BY DEF Restart, RoutingInv, GoodBoxes
  <2> QED
    BY <2>1 DEF FramesFrom
<1>4. \A c, id : Asked(inbox', c, id) => Asked(inbox, c, id)
  BY <1>3, AskedBefore
<1>5. \A c, id, other : Asked(inbox', c, id) /\ Asked(inbox', c, other) => id = other
  BY <1>4 DEF FloodInv
<1>6. ASSUME NEW p \in Routers, NEW c \in EndDevices, NEW id,
             <<p, c>> \notin forgotten', Len(flooded'[p][c]) > 0, Asked(inbox', c, id)
      PROVE  HasEntry(discovery'[p], c, id, flooded'[p][c][Len(flooded'[p][c])])
  <2>1. p # n
    BY <1>1, <1>6
  <2>2. flooded'[p][c] = flooded[p][c] /\ <<p, c>> \notin forgotten /\ Asked(inbox, c, id)
    BY <1>1, <1>2, <1>4, <1>6, <2>1
  <2>3. HasEntry(discovery[p], c, id, flooded[p][c][Len(flooded[p][c])])
    BY <1>6, <2>2 DEF FloodInv
  <2> QED
    BY <1>2, <2>1, <2>2, <2>3
<1>7. FloodDiesOut'
  <2> SUFFICES ASSUME NEW p \in Routers, NEW c \in EndDevices, <<p, c>> \notin forgotten',
                      NEW i \in 2 .. Len(flooded'[p][c])
               PROVE  flooded'[p][c][i] < flooded'[p][c][i - 1]
    BY DEF FloodDiesOut
  <2>1. CASE p = n
    BY <1>1, <2>1
  <2>2. CASE p # n
    BY <1>1, <1>2, <2>2 DEF FloodInv, FloodDiesOut
  <2> QED
    BY <2>1, <2>2
<1> QED
  BY <1>1, <1>5, <1>6, <1>7 DEF FloodInv

\* Nothing was rebroadcast at first.
LEMMA FloodStarts ==
  ASSUME Init
  PROVE  FloodInv
<1>1. \A n \in Nodes : Len(inbox[n]) = 0
  BY DEF Init
<1>2. \A c, id : ~ Asked(inbox, c, id)
  BY <1>1 DEF Asked
<1>3. /\ flooded \in [Routers -> [EndDevices -> Seq(Nat)]]
      /\ \A n \in Routers, c \in EndDevices : Len(flooded[n][c]) = 0
  <2>1. <<>> \in Seq(Nat) /\ Len(<<>>) = 0
    OBVIOUS
  <2> QED
    BY <2>1 DEF Init
<1> QED
  BY <1>2, <1>3 DEF FloodInv, FloodDiesOut

\* Every frame that a device handles, and every frame lost, keeps it.
LEMMA FloodHandled ==
  ASSUME RoutingAssumptions, RoutingInv, FloodInv, NEW n \in Nodes, inbox[n] # <<>>,
         Handle(n, Head(inbox[n])) \/ Lose(n)
  PROVE  FloodInv'
<1> USE DEF RoutingAssumptions
<1>1. PICK m : m = Head(inbox[n])
  OBVIOUS
<1>2. GoodBoxes(inbox) /\ FramesFrom(inbox, Taken(n), {})
  BY TakenKeeps DEF RoutingInv
<1>3. CASE HandleRouteRequest(n, m) /\ n \in Routers
  BY <1>1, <1>3, RebroadcastKeeps
<1>4. CASE ~ (HandleRouteRequest(n, m) /\ n \in Routers)
  <2>1. flooded' = flooded
    BY <1>1, <1>4 DEF Handle, DropDuplicateRequest, HandleRouteRequest, HandleRouteReply, ForwardData,
         AcknowledgeData, ReceiveAck, Lose, history
  <2>2. \A x \in forgotten : x \in forgotten'
    BY <1>1 DEF Handle, DropDuplicateRequest, HandleRouteRequest, HandleRouteReply, ForwardData,
         AcknowledgeData, ReceiveAck, Lose, history, Forgotten
  <2>3. \A p \in Routers : discovery'[p] = discovery[p]
    <3>1. CASE HandleRouteRequest(n, m)
      BY <1>4, <3>1 DEF HandleRouteRequest, RoutingInv, RoutingTypes, Nodes
    <3>2. CASE ~ HandleRouteRequest(n, m)
      BY <1>1, <3>2 DEF Handle, DropDuplicateRequest, HandleRouteReply, ForwardData,
           AcknowledgeData, ReceiveAck, Lose, tables
    <3> QED
      BY <3>1, <3>2
  <2>4. \/ inbox' = Taken(n)
        \/ \E f, hops : f.kind # "request" /\ inbox' = Transmit(Taken(n), f, hops)
    <3>1. /\ \A from, orig, id, cost : Reply(from, orig, id, cost).kind # "request"
          /\ \A from, src, dst, radius : Data(from, src, dst, radius).kind # "request"
      BY DEF Reply, Data
    <3>2. CASE HandleRouteRequest(n, m)
      BY <1>4, <3>1, <3>2 DEF HandleRouteRequest
    <3>3. CASE HandleRouteReply(n, m)
      BY <3>1, <3>3 DEF HandleRouteReply
    <3>4. CASE ForwardData(n, m)
      BY <3>1, <3>4 DEF ForwardData
    <3>5. CASE AcknowledgeData(n, m)
      BY <3>1, <3>5 DEF AcknowledgeData
    <3>6. CASE DropDuplicateRequest(n, m) \/ ReceiveAck(n, m) \/ Lose(n)
      BY <3>6 DEF DropDuplicateRequest, ReceiveAck, Lose
    <3> QED
      BY <1>1, <3>2, <3>3, <3>4, <3>5, <3>6 DEF Handle
  <2>5. CASE inbox' = Taken(n)
    BY <1>2, <2>1, <2>2, <2>3, <2>5, FloodKept
  <2>6. CASE \E f, hops : f.kind # "request" /\ inbox' = Transmit(Taken(n), f, hops)
    <3>1. PICK f, hops : f.kind # "request" /\ inbox' = Transmit(Taken(n), f, hops)
      BY <2>6
    <3>2. FramesFrom(inbox, inbox', {f})
      BY <1>2, <3>1, HandledFrames
    <3> QED
      BY <2>1, <2>2, <2>3, <3>1, <3>2, FloodKept
  <2> QED
    BY <2>4, <2>5, <2>6
<1> QED
  BY <1>3, <1>4

\* Every step keeps it.
LEMMA FloodStep ==
  ASSUME RoutingAssumptions, RoutingInv, FloodInv, [Next]_vars
  PROVE  FloodInv'
<1> USE DEF RoutingAssumptions
<1>1. ASSUME NEW n \in Nodes, Receive(n) \/ (inbox[n] # <<>> /\ Lose(n)) PROVE FloodInv'
  BY <1>1, FloodHandled DEF Receive
<1>2. ASSUME NEW c \in EndDevices, OriginateDiscovery(c) PROVE FloodInv'
  BY <1>2, DiscoveryKeeps
<1>3. ASSUME NEW c \in EndDevices, SendData(c) \/ Retransmit(c) \/ RepairRoute(c) PROVE FloodInv'
  <2>1. flooded' = flooded /\ forgotten' = forgotten
    BY <1>3 DEF SendData, Retransmit, RepairRoute, history
  <2>2. \A p \in Routers : discovery'[p] = discovery[p]
    <3>1. c \notin Routers /\ Routers \subseteq Nodes /\ DOMAIN discovery = Nodes
      BY DEF RoleAssumption, Nodes, RoutingInv, RoutingTypes
    <3>2. discovery' = discovery \/ ExpireDiscoveries(c)
      BY <1>3 DEF SendData, Retransmit, RepairRoute, tables
    <3> QED
      BY <3>1, <3>2 DEF ExpireDiscoveries
  <2>3. CASE RepairRoute(c)
    <3>1. FramesFrom(inbox, inbox', {})
      BY <2>3 DEF RepairRoute, FramesFrom
    <3> QED
      BY <2>1, <2>2, <3>1, FloodKept
  <2>4. CASE SendApsRouted(c)
    <3>1. PICK f : f = Data(c, c, Coordinator, Radius)
      OBVIOUS
    <3>2. f.kind # "request"
      BY <3>1 DEF Data
    <3>3. PICK hops : inbox' = Transmit(inbox, f, hops)
      BY <2>4, <3>1 DEF SendApsRouted
    <3>4. FramesFrom(inbox, inbox', {f})
      BY <3>3, SentFrames DEF RoutingInv
    <3> QED
      BY <2>1, <2>2, <3>2, <3>4, FloodKept
  <2> QED
    BY <1>3, <2>3, <2>4 DEF SendData, Retransmit
<1>4. ASSUME NEW n \in Routers \cup EndDevices, Restart(n) PROVE FloodInv'
  BY <1>4, RestartFloodKeeps
<1>5. CASE UNCHANGED vars
  <2>1. FramesFrom(inbox, inbox', {})
    BY <1>5 DEF vars, FramesFrom
  <2>2. flooded' = flooded /\ forgotten' = forgotten /\ discovery' = discovery
    BY <1>5 DEF vars, tables, history
  <2> QED
    BY <2>1, <2>2, FloodKept
<1> QED
  BY <1>1, <1>2, <1>3, <1>4, <1>5 DEF Next

(***************************************************************************)
(* A flood dies out, in every mesh and with tables of every size: a router *)
(* rebroadcasts a request again at a lower cost only, whatever discoveries *)
(* of other devices, losses and restarts come in between, for as long as   *)
(* it has not recycled the entry that remembers the request.               *)
(***************************************************************************)
THEOREM FloodDiesOutAlways == Spec => []FloodDiesOut
<1>1. RoutingAssumptions
  BY RoleAssumption, TopologyAssumption, CapacityAssumption DEF RoutingAssumptions
<1>2. RoutingInv /\ FloodInv /\ [Next]_vars => (RoutingInv /\ FloodInv)'
  BY <1>1, RoutingStep, FloodStep
<1>3. Init => RoutingInv /\ FloodInv
  BY <1>1, RoutingStarts, FloodStarts
<1>4. RoutingInv /\ FloodInv => FloodDiesOut
  BY DEF FloodInv
<1> QED
  BY <1>2, <1>3, <1>4, PTL DEF Spec
=============================================================================
