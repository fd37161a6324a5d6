-------------------------- MODULE ApsDeliveryProofs --------------------------
(***************************************************************************)
(* Proofs about ApsDelivery, for every table size, number of tries, length *)
(* of the counter cycle and number of outstanding frames.                  *)
(***************************************************************************)
EXTENDS ApsDelivery, LeastElementProofs, SequenceTheorems, FiniteSetTheorems, TLAPS

-----------------------------------------------------------------------------
(***************************************************************************)
(* First(S) is a slot of S.                                                *)
(***************************************************************************)
LEMMA FirstIn ==
  ASSUME NEW S \in SUBSET Slots, S # {}
  PROVE  First(S) \in S
<1>1. S \in SUBSET Nat
  BY TableAssumption DEF Slots
<1> QED
  BY <1>1, FirstIsLeast

(***************************************************************************)
(* Transmit adds at most one message, at the end.                          *)
(***************************************************************************)
LEMMA TransmitShape ==
  ASSUME NEW S, NEW q \in Seq(S), NEW m \in S
  PROVE  /\ Transmit(q, m) \in Seq(S)
         /\ \A i \in 1 .. Len(Transmit(q, m)) :
              \/ i \in 1 .. Len(q) /\ Transmit(q, m)[i] = q[i]
              \/ i = Len(q) + 1 /\ Transmit(q, m)[i] = m
<1>1. /\ Append(q, m) \in Seq(S) /\ Len(Append(q, m)) = Len(q) + 1
      /\ \A i \in 1 .. Len(q) : Append(q, m)[i] = q[i]
      /\ Append(q, m)[Len(q) + 1] = m
  BY AppendProperties
<1>2. Len(q) \in Nat
  BY LenProperties
<1>3. CASE Transmit(q, m) = Append(q, m)
  BY <1>1, <1>2, <1>3
<1>4. CASE Transmit(q, m) = q
  BY <1>4
<1> QED
  BY <1>3, <1>4 DEF Transmit

(***************************************************************************)
(* The messages left after the head moved up by one.                       *)
(***************************************************************************)
LEMMA TailShape ==
  ASSUME NEW S, NEW q \in Seq(S), q # <<>>
  PROVE  /\ Head(q) \in S /\ Head(q) = q[1] /\ 1 \in 1 .. Len(q)
         /\ Tail(q) \in Seq(S)
         /\ \A i \in 1 .. Len(Tail(q)) : i + 1 \in 1 .. Len(q) /\ Tail(q)[i] = q[i + 1]
<1>1. Len(q) \in Nat /\ Len(q) # 0
  BY EmptySeq, LenProperties
<1>2. /\ Head(q) \in S /\ Tail(q) \in Seq(S) /\ Len(Tail(q)) = Len(q) - 1
      /\ \A i \in 1 .. Len(Tail(q)) : Tail(q)[i] = q[i + 1]
  BY HeadTailProperties
<1>3. Head(q) = q[1]
  OBVIOUS
<1> QED
  BY <1>1, <1>2, <1>3

(***************************************************************************)
(* A used slot holds a registered frame.                                   *)
(***************************************************************************)
LEMMA UsedEntry ==
  ASSUME TypeOK, NEW s \in Used
  PROVE  /\ s \in Slots /\ pending[s] \in Entry
         /\ pending[s].frame \in Frames /\ pending[s].counter \in Counters
         /\ pending[s].triesLeft \in 0 .. MaxRetries
  BY DEF TypeOK, Used, Entry

-----------------------------------------------------------------------------
(***************************************************************************)
(* A sender that never sent and a receiver that never received.            *)
(***************************************************************************)
LEMMA InitInd == Init => IndInv
<1> SUFFICES ASSUME Init PROVE IndInv
  OBVIOUS
<1> USE BoundAssumption, CounterAssumption, TableAssumption
<1>1. TypeOK
  <2>1. 0 \in Counters /\ 0 \in 0 .. MaxFrames /\ 0 \in 0 .. MaxRestarts
    BY DEF Counters
  <2>2. data \in Seq(DataFrame) /\ acks \in Seq(Counters) /\ handed \in Seq(Frames)
    BY DEF Init
  <2> QED
    BY <2>1, <2>2 DEF Init, TypeOK, Outcomes
<1>2. Used = {} /\ Len(data) = 0 /\ Len(acks) = 0
  BY DEF Init, Used
<1>3. CountersTravel /\ EntryDescribesLastFrame /\ DeliveryVouched /\ PendingAccounted
  BY <1>2 DEF Init, CountersTravel, EntryDescribesLastFrame, DeliveryVouched, PendingAccounted
<1>4. TableOrder /\ MeshOrder /\ ArrivalOrder /\ RecentOrder /\ RepeatOnlyWhenOverlapping
  BY <1>2 DEF Init, TableOrder, MeshOrder, ArrivalOrder, RecentOrder, RepeatOnlyWhenOverlapping
<1> QED
  BY <1>1, <1>3, <1>4 DEF IndInv

-----------------------------------------------------------------------------
(***************************************************************************)
(* SendApsFrame: the new frame is younger than every other one, and every  *)
(* frame it may overtake is waiting with it.                               *)
(***************************************************************************)
LEMMA SendInd == IndInv /\ SendApsFrame => IndInv'
<1> SUFFICES ASSUME IndInv, SendApsFrame PROVE IndInv'
  OBVIOUS
<1> USE BoundAssumption, CounterAssumption, TableAssumption
<1> DEFINE new == sent + 1
           m == [frame |-> new, counter |-> apsCounter]
           entry == [frame |-> new, counter |-> apsCounter, triesLeft |-> MaxRetries]
           slot == First(Slots \ Used)
<1>1. /\ TypeOK /\ sent \in Nat /\ new \in Frames /\ apsCounter \in Counters
      /\ m \in DataFrame /\ entry \in Entry
  BY SMTT(30) DEF IndInv, TypeOK, SendApsFrame, Frames, DataFrame, Entry
<1>2. /\ sent' = new /\ data' = Transmit(data, m)
      /\ counterOf' = [counterOf EXCEPT ![new] = apsCounter]
      /\ overlapped' = IF Used = {} THEN overlapped
                       ELSE overlapped \union {pending[s].frame : s \in Used} \union {new}
      /\ UNCHANGED <<acks, lastCounter, handed, recent, repeated, lastFrame, restarts>>
  BY DEF SendApsFrame, receiver
<1>3. Used # Slots => /\ pending' = [pending EXCEPT ![slot] = entry]
                      /\ outcome' = [outcome EXCEPT ![new] = "pending"]
                      /\ slot \in Slots \ Used
  <2>1. Used # Slots => slot \in Slots \ Used
    BY FirstIn DEF Used
  <2> QED
    BY <1>2, <2>1 DEF SendApsFrame
<1> HIDE DEF slot
<1>4. Used = Slots => pending' = pending /\ outcome' = [outcome EXCEPT ![new] = "untracked"]
  BY <1>2 DEF SendApsFrame
<1>5. /\ data' \in Seq(DataFrame)
      /\ \A i \in 1 .. Len(data') :
           \/ i \in 1 .. Len(data) /\ data'[i] = data[i]
           \/ i = Len(data) + 1 /\ data'[i] = m
  BY <1>1, <1>2, TransmitShape DEF TypeOK
<1>6. Len(data) \in Nat /\ Len(data') \in Nat /\ \A i \in 1 .. Len(data) : data[i] \in DataFrame
  BY <1>1, <1>5, LenProperties DEF TypeOK
<1>7. /\ counterOf'[new] = apsCounter
      /\ \A f \in Frames : f # new => counterOf'[f] = counterOf[f]
  BY <1>1, <1>2 DEF TypeOK
<1>8. \A s \in Slots : \/ pending'[s] = pending[s]
                       \/ Used # Slots /\ s = slot /\ pending'[s] = entry
  BY <1>1, <1>3, <1>4 DEF TypeOK
<1>9. TypeOK'
  <2>1. pending' \in [Slots -> Entry \union {Free}]
    BY <1>1, <1>3, <1>4 DEF TypeOK
  <2>2. apsCounter' \in Counters
    BY <1>1 DEF SendApsFrame, Counters
  <2>3. outcome' \in [Frames -> Outcomes]
    BY <1>1, <1>3, <1>4 DEF TypeOK, Outcomes
  <2>4. overlapped' \in SUBSET Frames
    BY <1>1, <1>2, UsedEntry DEF TypeOK
  <2>5. counterOf' \in [Frames -> Counters] /\ sent' \in 0 .. MaxFrames
    BY <1>1, <1>2 DEF TypeOK, Frames
  <2> QED
    BY <1>1, <1>2, <1>5, <2>1, <2>2, <2>3, <2>4, <2>5 DEF TypeOK
<1>10. \A s \in Used' : \/ s \in Used /\ pending'[s] = pending[s]
                        \/ s = slot /\ pending'[s] = entry /\ Used # Slots
  <2>1. \A s \in Used' : s \in Slots /\ pending'[s] # Free
    BY DEF Used
  <2>2. \A s \in Slots : pending[s] # Free => s \in Used
    BY DEF Used
  <2> QED
    BY <1>8, <2>1, <2>2
<1>11. CountersTravel'
  <2>1. ASSUME NEW s \in Used'
        PROVE  pending'[s].frame <= sent' /\ pending'[s].counter = counterOf'[pending'[s].frame]
    <3>1. CASE s \in Used /\ pending'[s] = pending[s]
      <4>1. pending[s].frame <= sent /\ pending[s].counter = counterOf[pending[s].frame]
        BY <3>1 DEF IndInv, CountersTravel
      <4>2. pending[s].frame \in Frames
        BY <1>1, <3>1, UsedEntry
      <4> QED
        BY <1>1, <1>2, <1>7, <3>1, <4>1, <4>2 DEF Frames
    <3>2. CASE pending'[s] = entry
      BY <1>1, <1>2, <1>7, <3>2 DEF Frames
    <3> QED
      BY <1>10, <3>1, <3>2
  <2>2. ASSUME NEW i \in 1 .. Len(data')
        PROVE  data'[i].frame <= sent' /\ data'[i].counter = counterOf'[data'[i].frame]
    <3>1. CASE i \in 1 .. Len(data) /\ data'[i] = data[i]
      <4>1. data[i].frame <= sent /\ data[i].counter = counterOf[data[i].frame]
        BY <3>1 DEF IndInv, CountersTravel
      <4>2. data[i].frame \in Frames
        BY <1>6, <3>1 DEF DataFrame
      <4> QED
        BY <1>1, <1>2, <1>7, <3>1, <4>1, <4>2 DEF Frames
    <3>2. CASE data'[i] = m
      BY <1>1, <1>2, <1>7, <3>2 DEF Frames
    <3> QED
      BY <1>5, <3>1, <3>2
  <2> QED
    BY <2>1, <2>2 DEF CountersTravel
<1>12. EntryDescribesLastFrame'
  <2>1. lastFrame \in {0} \union Frames /\ recent \in SUBSET Frames
    BY <1>1 DEF TypeOK
  <2>2. EntryDescribesLastFrame
    BY DEF IndInv
  <2>3. lastFrame # 0 => counterOf'[lastFrame] = counterOf[lastFrame] /\ lastFrame <= new
    BY <1>1, <1>7, <2>1, <2>2 DEF EntryDescribesLastFrame, Frames
  <2>4. \A f \in recent : f <= new
    BY <1>1, <2>1, <2>2 DEF EntryDescribesLastFrame, Frames
  <2> QED
    BY <1>2, <2>2, <2>3, <2>4 DEF EntryDescribesLastFrame
<1>13. TableOrder'
  <2> SUFFICES ASSUME NEW s \in Used', NEW f \in Frames, f <= new, f > pending'[s].frame
               PROVE  f \in overlapped' /\ pending'[s].frame \in overlapped'
    BY <1>2 DEF TableOrder, Overtaking
  <2>1. s \in Used /\ pending'[s] = pending[s]
    BY <1>1, <1>10 DEF Frames
  <2>2. pending[s].frame \in overlapped'
    BY <1>2, <2>1
  <2>3. CASE f = new
    BY <1>2, <2>1, <2>2, <2>3
  <2>4. CASE f # new
    <3>1. f <= sent
      BY <1>1, <2>4 DEF Frames
    <3> QED
      BY <1>2, <2>1, <2>2, <3>1 DEF IndInv, TableOrder, Overtaking
  <2> QED
    BY <2>1, <2>3, <2>4
<1>14. MeshOrder'
  <2> SUFFICES ASSUME NEW i \in 1 .. Len(data'), NEW j \in 1 .. Len(data'), i < j,
                      data'[i].frame > data'[j].frame
               PROVE  data'[i].frame \in overlapped' /\ data'[j].frame \in overlapped'
    BY DEF MeshOrder, Overtaking
  <2>1. i \in 1 .. Len(data) /\ data'[i] = data[i]
    BY <1>5, <1>6
  <2>2. data[i].frame \in Frames /\ data[i].frame <= sent
    BY <1>6, <2>1 DEF IndInv, CountersTravel, DataFrame
  <2>3. j \in 1 .. Len(data) /\ data'[j] = data[j]
    BY <1>1, <1>5, <2>1, <2>2 DEF Frames
  <2> QED
    BY <1>2, <2>1, <2>3 DEF IndInv, MeshOrder, Overtaking
<1>15. ArrivalOrder'
  <2> SUFFICES ASSUME NEW f \in recent \union {lastFrame}, NEW j \in 1 .. Len(data'),
                      f > data'[j].frame
               PROVE  f \in overlapped' /\ data'[j].frame \in overlapped'
    BY <1>2 DEF ArrivalOrder, Overtaking
  <2>1. f \in Nat /\ f <= sent
    <3>1. f \in recent => f \in Nat /\ f <= sent
      BY <1>1 DEF IndInv, EntryDescribesLastFrame, TypeOK, Frames
    <3>2. lastFrame \in Nat /\ lastFrame <= sent
      BY <1>1 DEF IndInv, EntryDescribesLastFrame, TypeOK, Frames
    <3> QED
      BY <3>1, <3>2
  <2>2. j \in 1 .. Len(data) /\ data'[j] = data[j]
    BY <1>1, <1>5, <2>1 DEF Frames
  <2> QED
    BY <1>2, <2>2 DEF IndInv, ArrivalOrder, Overtaking
<1>16. RecentOrder' /\ RepeatOnlyWhenOverlapping'
  BY <1>2 DEF IndInv, RecentOrder, RepeatOnlyWhenOverlapping
<1>17. DeliveryVouched'
  <2> DEFINE VouchedNext(c) == \E g \in Processed' : g <= sent' /\ counterOf'[g] = c
  <2>1. ASSUME NEW c, Vouched(c) PROVE VouchedNext(c)
    <3> PICK g \in Processed : g <= sent /\ counterOf[g] = c
      BY <2>1 DEF Vouched
    <3>1. g \in Processed' /\ g \in Frames
      BY <1>1, <1>2, LenProperties DEF Processed, TypeOK
    <3> QED
      BY <1>1, <1>2, <1>7, <3>1 DEF Frames
  <2>2. ASSUME NEW f \in Frames, outcome'[f] = "delivered"
        PROVE  f <= sent' /\ VouchedNext(counterOf'[f])
    <3>1. f # new /\ outcome[f] = "delivered"
      BY <1>1, <1>3, <1>4, <2>2 DEF TypeOK
    <3>2. f <= sent /\ Vouched(counterOf[f])
      BY <3>1 DEF IndInv, DeliveryVouched
    <3>3. counterOf'[f] = counterOf[f] /\ f <= sent'
      BY <1>1, <1>2, <1>7, <3>1, <3>2 DEF Frames
    <3> QED
      BY <2>1, <3>2, <3>3
  <2> QED
    BY <1>2, <2>1, <2>2 DEF IndInv, DeliveryVouched, Vouched
<1>18. PendingAccounted'
  <2>1. \A s \in Used : pending[s].frame # new
    BY <1>1 DEF IndInv, CountersTravel, Frames
  <2>2. CASE Used = Slots
    BY <1>1, <1>4, <2>1, <2>2 DEF IndInv, PendingAccounted, Used, TypeOK
  <2>3. CASE Used # Slots
    <3>1. entry # Free /\ entry.frame = new
      BY <1>1 DEF Free, Frames
    <3>2. slot \in Slots /\ slot \notin Used /\ pending'[slot] = entry
      BY <1>1, <1>3, <2>3 DEF TypeOK
    <3>3. \A s \in Used : s \in Slots /\ pending'[s] = pending[s]
      BY <1>3, <1>8 DEF Used
    <3>4. Used' = Used \union {slot}
      <4>1. \A s \in Slots : pending'[s] # Free <=> s \in Used \/ s = slot
        BY <1>8, <3>1, <3>2, <3>3 DEF Used
      <4> QED
        BY <4>1, <3>2, <3>3 DEF Used
    <3>5. outcome'[new] = "pending" /\ \A f \in Frames : f # new => outcome'[f] = outcome[f]
      BY <1>1, <1>3, <2>3 DEF TypeOK
    <3>6. \A s \in Used' : pending'[s].frame = new <=> s = slot
      BY <2>1, <3>1, <3>2, <3>3, <3>4
    <3>7. \A f \in Frames : outcome'[f] = "pending" <=> \E s \in Used' : pending'[s].frame = f
      <4> SUFFICES ASSUME NEW f \in Frames, f # new
                   PROVE  outcome'[f] = "pending" <=> \E s \in Used' : pending'[s].frame = f
        BY <3>2, <3>4, <3>5, <3>6
      <4>1. (\E s \in Used' : pending'[s].frame = f) <=> \E s \in Used : pending[s].frame = f
        BY <3>3, <3>4, <3>6
      <4> QED
        BY <3>5, <4>1 DEF IndInv, PendingAccounted
    <3>8. \A s, t \in Used' : pending'[s].frame = pending'[t].frame => s = t
      BY <3>3, <3>4, <3>6 DEF IndInv, PendingAccounted
    <3> QED
      BY <3>7, <3>8 DEF PendingAccounted
  <2> QED
    BY <2>2, <2>3
<1> QED
  BY <1>9, <1>11, <1>12, <1>13, <1>14, <1>15, <1>16, <1>17, <1>18 DEF IndInv

-----------------------------------------------------------------------------
(***************************************************************************)
(* Fewer data frames on their way: what is left was ordered before.        *)
(***************************************************************************)
LEMMA MeshAfterHead ==
  ASSUME IndInv, data # <<>>, data' = Tail(data), UNCHANGED <<pending, sent, counterOf, overlapped>>
  PROVE  /\ CountersTravel' /\ TableOrder' /\ MeshOrder'
         /\ data' \in Seq(DataFrame)
         /\ \A f \in recent \union {lastFrame} : \A j \in 1 .. Len(data') :
              (f > data'[j].frame => f \in overlapped /\ data'[j].frame \in overlapped)
         /\ \A j \in 1 .. Len(data') :
              (data[1].frame > data'[j].frame =>
                data[1].frame \in overlapped /\ data'[j].frame \in overlapped)
<1>1. /\ 1 \in 1 .. Len(data) /\ data' \in Seq(DataFrame)
      /\ \A i \in 1 .. Len(data') : i + 1 \in 1 .. Len(data) /\ data'[i] = data[i + 1]
  BY TailShape DEF IndInv, TypeOK
<1>2. CountersTravel'
  BY <1>1 DEF IndInv, CountersTravel, Used
<1>3. TableOrder'
  BY DEF IndInv, TableOrder, Used, Overtaking
<1>4. MeshOrder'
  <2> SUFFICES ASSUME NEW i \in 1 .. Len(data'), NEW j \in 1 .. Len(data'), i < j
               PROVE  data'[i].frame > data'[j].frame =>
                        data'[i].frame \in overlapped /\ data'[j].frame \in overlapped
    BY DEF MeshOrder, Overtaking
  <2>1. i + 1 \in 1 .. Len(data) /\ j + 1 \in 1 .. Len(data) /\ i + 1 < j + 1
    BY <1>1
  <2> QED
    BY <1>1, <2>1 DEF IndInv, MeshOrder, Overtaking
<1>5. \A f \in recent \union {lastFrame} : \A j \in 1 .. Len(data') :
        (f > data'[j].frame => f \in overlapped /\ data'[j].frame \in overlapped)
  BY <1>1 DEF IndInv, ArrivalOrder, Overtaking
<1>6. \A j \in 1 .. Len(data') :
        (data[1].frame > data'[j].frame =>
          data[1].frame \in overlapped /\ data'[j].frame \in overlapped)
  <2>1. \A j \in 1 .. Len(data') : 1 < j + 1
    BY <1>1
  <2> QED
    BY <1>1, <2>1 DEF IndInv, MeshOrder, Overtaking
<1> QED
  BY <1>1, <1>2, <1>3, <1>4, <1>5, <1>6

(***************************************************************************)
(* A processed frame stays processed: what it vouches for stays vouched.   *)
(***************************************************************************)
LEMMA VouchedStays ==
  ASSUME UNCHANGED <<handed, sent, counterOf>>
  PROVE  \A c : Vouched(c) <=> \E g \in Processed' : g <= sent' /\ counterOf'[g] = c
  BY DEF Vouched, Processed

(***************************************************************************)
(* The mesh loses a data frame.                                            *)
(***************************************************************************)
LEMMA LoseDataInd == IndInv /\ LoseData => IndInv'
<1> SUFFICES ASSUME IndInv, LoseData PROVE IndInv'
  OBVIOUS
<1>1. /\ data # <<>> /\ data' = Tail(data)
      /\ UNCHANGED <<pending, apsCounter, sent, outcome, counterOf, overlapped>>
      /\ UNCHANGED <<lastCounter, handed, recent, repeated, lastFrame, acks, restarts>>
  BY DEF LoseData, sender, receiver
<1>2. /\ CountersTravel' /\ TableOrder' /\ MeshOrder' /\ data' \in Seq(DataFrame)
      /\ ArrivalOrder'
  BY <1>1, MeshAfterHead DEF ArrivalOrder, Overtaking
<1>3. TypeOK'
  BY <1>1, <1>2 DEF IndInv, TypeOK
<1>4. EntryDescribesLastFrame' /\ RecentOrder' /\ RepeatOnlyWhenOverlapping'
  BY <1>1 DEF IndInv, EntryDescribesLastFrame, RecentOrder, RepeatOnlyWhenOverlapping
<1>5. DeliveryVouched' /\ PendingAccounted'
  BY <1>1 DEF IndInv, DeliveryVouched, Vouched, Processed, PendingAccounted, Used
<1> QED
  BY <1>2, <1>3, <1>4, <1>5 DEF IndInv

(***************************************************************************)
(* The mesh loses an acknowledgement.                                      *)
(***************************************************************************)
LEMMA LoseAckInd == IndInv /\ LoseAck => IndInv'
<1> SUFFICES ASSUME IndInv, LoseAck PROVE IndInv'
  OBVIOUS
<1>1. /\ acks # <<>> /\ acks' = Tail(acks)
      /\ UNCHANGED <<pending, apsCounter, sent, outcome, counterOf, overlapped>>
      /\ UNCHANGED <<lastCounter, handed, recent, repeated, lastFrame, data, restarts>>
  BY DEF LoseAck, sender, receiver
<1>2. /\ acks' \in Seq(Counters)
      /\ \A i \in 1 .. Len(acks') : i + 1 \in 1 .. Len(acks) /\ acks'[i] = acks[i + 1]
  BY <1>1, TailShape DEF IndInv, TypeOK
<1>3. TypeOK'
  BY <1>1, <1>2 DEF IndInv, TypeOK
<1>4. EntryDescribesLastFrame' /\ RecentOrder' /\ RepeatOnlyWhenOverlapping' /\ ArrivalOrder'
  BY <1>1 DEF IndInv, EntryDescribesLastFrame, RecentOrder, RepeatOnlyWhenOverlapping,
              ArrivalOrder, Overtaking
<1>5. CountersTravel' /\ TableOrder' /\ MeshOrder' /\ PendingAccounted'
  BY <1>1 DEF IndInv, CountersTravel, TableOrder, MeshOrder, PendingAccounted, Used, Overtaking
<1>6. DeliveryVouched'
  BY <1>1, <1>2 DEF IndInv, DeliveryVouched, Vouched, Processed
<1> QED
  BY <1>3, <1>4, <1>5, <1>6 DEF IndInv

(***************************************************************************)
(* Steps that only free slots of the sender's table, or count their tries: *)
(* the frames left in it are the same.                                     *)
(***************************************************************************)
LEMMA TableShrinks ==
  ASSUME IndInv, UNCHANGED <<sent, counterOf, overlapped>>,
         \A s \in Slots : \/ pending'[s] = Free
                          \/ /\ pending[s] # Free
                             /\ pending'[s].frame = pending[s].frame
                             /\ pending'[s].counter = pending[s].counter
                          \/ pending'[s] = pending[s]
  PROVE  /\ TableOrder'
         /\ \A s \in Used' : /\ s \in Used
                             /\ pending'[s].frame = pending[s].frame
                             /\ pending'[s].frame <= sent'
                             /\ pending'[s].counter = counterOf'[pending'[s].frame]
<1>1. \A s \in Used' : /\ s \in Used
                       /\ pending'[s].frame = pending[s].frame
                       /\ pending'[s].counter = pending[s].counter
  BY DEF Used
<1>2. TableOrder'
  BY <1>1 DEF IndInv, TableOrder, Overtaking
<1> QED
  BY <1>1, <1>2 DEF IndInv, CountersTravel

(***************************************************************************)
(* onApsAck: one entry is cleared, and the frame in it counts delivered;   *)
(* the acknowledgement vouches for its counter.                            *)
(***************************************************************************)
LEMMA AckInd == IndInv /\ OnApsAck => IndInv'
<1> SUFFICES ASSUME IndInv, OnApsAck PROVE IndInv'
  OBVIOUS
<1> DEFINE slot == First(Matching(Head(acks)))
           frame == pending[slot].frame
<1>1. /\ acks # <<>> /\ acks' = Tail(acks)
      /\ UNCHANGED <<apsCounter, sent, counterOf, overlapped>>
      /\ UNCHANGED <<lastCounter, handed, recent, repeated, lastFrame, data, restarts>>
  BY DEF OnApsAck, receiver
<1>2. /\ acks' \in Seq(Counters) /\ Head(acks) = acks[1] /\ 1 \in 1 .. Len(acks)
      /\ \A i \in 1 .. Len(acks') : i + 1 \in 1 .. Len(acks) /\ acks'[i] = acks[i + 1]
  BY <1>1, TailShape DEF IndInv, TypeOK
<1>3. TypeOK
  BY DEF IndInv
<1>4. CASE Matching(Head(acks)) = {}
  <2>1. UNCHANGED <<pending, outcome>>
    BY <1>4 DEF OnApsAck
  <2>2. TypeOK'
    BY <1>1, <1>2, <1>3, <2>1 DEF TypeOK
  <2>3. EntryDescribesLastFrame' /\ RecentOrder' /\ RepeatOnlyWhenOverlapping' /\ ArrivalOrder'
    BY <1>1 DEF IndInv, EntryDescribesLastFrame, RecentOrder, RepeatOnlyWhenOverlapping,
                ArrivalOrder, Overtaking
  <2>4. CountersTravel' /\ TableOrder' /\ MeshOrder' /\ PendingAccounted'
    BY <1>1, <2>1 DEF IndInv, CountersTravel, TableOrder, MeshOrder, PendingAccounted, Used,
                      Overtaking
  <2>5. DeliveryVouched'
    BY <1>1, <1>2, <2>1 DEF IndInv, DeliveryVouched, Vouched, Processed
  <2> QED
    BY <2>2, <2>3, <2>4, <2>5 DEF IndInv
<1>5. CASE Matching(Head(acks)) # {}
  <2>1. slot \in Used /\ pending[slot].counter = acks[1]
    <3>1. slot \in Matching(Head(acks))
      BY <1>5, FirstIn DEF Matching, Used
    <3> QED
      BY <3>1, <1>2 DEF Matching
  <2>2. /\ pending' = [pending EXCEPT ![slot] = Free]
        /\ outcome' = [outcome EXCEPT ![frame] = "delivered"]
    BY <1>5 DEF OnApsAck
  <2> HIDE DEF slot
  <2>3. slot \in Slots /\ frame \in Frames /\ frame <= sent /\ counterOf[frame] = acks[1]
    <3>1. slot \in Slots /\ frame \in Frames
      BY <1>3, <2>1, UsedEntry
    <3>2. frame <= sent /\ pending[slot].counter = counterOf[frame]
      BY <2>1 DEF IndInv, CountersTravel
    <3> QED
      BY <2>1, <3>1, <3>2
  <2> HIDE DEF frame
  <2>4. pending'[slot] = Free /\ \A s \in Slots : s # slot => pending'[s] = pending[s]
    BY <1>3, <2>2, <2>3 DEF TypeOK
  <2>5. outcome'[frame] = "delivered" /\ \A f \in Frames : f # frame => outcome'[f] = outcome[f]
    BY <1>3, <2>2, <2>3 DEF TypeOK
  <2>6. /\ TableOrder'
        /\ \A s \in Used' : /\ pending'[s].frame <= sent'
                            /\ pending'[s].counter = counterOf'[pending'[s].frame]
    BY <1>1, <2>4, TableShrinks
  <2>7. TypeOK'
    <3>1. outcome' \in [Frames -> Outcomes]
      BY <1>3, <2>2, <2>3 DEF TypeOK, Outcomes
    <3>2. pending' \in [Slots -> Entry \union {Free}]
      BY <1>3, <2>2 DEF TypeOK
    <3> QED
      BY <1>1, <1>2, <1>3, <3>1, <3>2 DEF TypeOK
  <2>8. CountersTravel' /\ MeshOrder'
    BY <1>1, <2>6 DEF IndInv, CountersTravel, MeshOrder, Overtaking
  <2>9. EntryDescribesLastFrame' /\ RecentOrder' /\ RepeatOnlyWhenOverlapping' /\ ArrivalOrder'
    BY <1>1 DEF IndInv, EntryDescribesLastFrame, RecentOrder, RepeatOnlyWhenOverlapping,
                ArrivalOrder, Overtaking
  <2>10. DeliveryVouched'
    <3>1. Vouched(counterOf[frame])
      BY <1>2, <2>3 DEF IndInv, DeliveryVouched
    <3>2. \A f \in Frames : outcome'[f] = "delivered" => f <= sent /\ Vouched(counterOf[f])
      BY <2>3, <2>5, <3>1 DEF IndInv, DeliveryVouched
    <3> QED
      BY <1>1, <1>2, <3>2 DEF IndInv, DeliveryVouched, Vouched, Processed
  <2>11. PendingAccounted'
    <3>1. \A s \in Used' : s \in Used /\ s # slot /\ pending'[s] = pending[s]
      BY <2>4 DEF Used
    <3>2. \A s \in Used : s # slot => s \in Used' /\ pending'[s] = pending[s]
      BY <2>4 DEF Used
    <3>3. \A s \in Used : pending[s].frame = frame <=> s = slot
      BY <2>1 DEF IndInv, PendingAccounted, frame
    <3>4. \A f \in Frames : outcome'[f] = "pending" <=> \E s \in Used' : pending'[s].frame = f
      BY <2>5, <3>1, <3>2, <3>3 DEF IndInv, PendingAccounted
    <3>5. \A s, t \in Used' : pending'[s].frame = pending'[t].frame => s = t
      BY <3>1 DEF IndInv, PendingAccounted
    <3> QED
      BY <3>4, <3>5 DEF PendingAccounted
  <2> QED
    BY <2>6, <2>7, <2>8, <2>9, <2>10, <2>11 DEF IndInv
<1> QED
  BY <1>4, <1>5

(***************************************************************************)
(* The sender restarts: its table is empty, the mesh and the receiver are  *)
(* as before, and no pending frame is left.                                *)
(***************************************************************************)
LEMMA SenderRestartInd == IndInv /\ SenderRestart => IndInv'
<1> SUFFICES ASSUME IndInv, SenderRestart PROVE IndInv'
  OBVIOUS
<1> USE BoundAssumption, CounterAssumption, TableAssumption
<1>1. /\ pending' = [s \in Slots |-> Free] /\ apsCounter' = 0
      /\ restarts' = restarts + 1 /\ restarts < MaxRestarts
      /\ UNCHANGED <<sent, counterOf, overlapped, data, acks>>
      /\ UNCHANGED <<lastCounter, handed, recent, repeated, lastFrame>>
  BY DEF SenderRestart, receiver
<1>2. outcome' = [f \in Frames |-> IF outcome[f] = "pending" THEN "forgotten" ELSE outcome[f]]
  BY DEF SenderRestart
<1>3. Used' = {}
  BY <1>1 DEF Used
<1>4. TypeOK'
  <2>1. apsCounter' \in Counters /\ restarts' \in 0 .. MaxRestarts
    BY <1>1 DEF IndInv, TypeOK, Counters
  <2>2. outcome' \in [Frames -> Outcomes]
    BY <1>2 DEF IndInv, TypeOK, Outcomes
  <2>3. pending' \in [Slots -> Entry \union {Free}]
    BY <1>1
  <2> QED
    BY <1>1, <2>1, <2>2, <2>3 DEF IndInv, TypeOK
<1>5. CountersTravel' /\ TableOrder' /\ MeshOrder'
  BY <1>1, <1>3 DEF IndInv, CountersTravel, TableOrder, MeshOrder, Overtaking
<1>6. EntryDescribesLastFrame' /\ RecentOrder' /\ RepeatOnlyWhenOverlapping' /\ ArrivalOrder'
  BY <1>1 DEF IndInv, EntryDescribesLastFrame, RecentOrder, RepeatOnlyWhenOverlapping,
              ArrivalOrder, Overtaking
<1>7. DeliveryVouched'
  <2>1. \A f \in Frames : outcome'[f] = "delivered" => outcome[f] = "delivered"
    BY <1>2
  <2> QED
    BY <1>1, <2>1 DEF IndInv, DeliveryVouched, Vouched, Processed
<1>8. PendingAccounted'
  <2>1. \A f \in Frames : outcome'[f] # "pending"
    BY <1>2
  <2> QED
    BY <1>3, <2>1 DEF PendingAccounted
<1> QED
  BY <1>4, <1>5, <1>6, <1>7, <1>8 DEF IndInv

(***************************************************************************)
(* The receiver loses its entry, and with it the history of the entry.     *)
(***************************************************************************)
LEMMA ReceiverForgetsInd == IndInv /\ ReceiverForgets => IndInv'
<1> SUFFICES ASSUME IndInv, ReceiverForgets PROVE IndInv'
  OBVIOUS
<1> USE BoundAssumption, CounterAssumption, TableAssumption
<1>1. /\ lastCounter' = NoCounter /\ lastFrame' = 0 /\ recent' = {}
      /\ restarts' = restarts + 1 /\ restarts < MaxRestarts
      /\ UNCHANGED <<pending, apsCounter, sent, outcome, counterOf, overlapped>>
      /\ UNCHANGED <<data, acks, handed, repeated>>
  BY DEF ReceiverForgets, sender
<1>2. TypeOK'
  <2>1. restarts' \in 0 .. MaxRestarts
    BY <1>1 DEF IndInv, TypeOK
  <2> QED
    BY <1>1, <2>1 DEF IndInv, TypeOK
<1>3. CountersTravel' /\ TableOrder' /\ MeshOrder' /\ PendingAccounted'
  BY <1>1 DEF IndInv, CountersTravel, TableOrder, MeshOrder, PendingAccounted, Used, Overtaking
<1>4. EntryDescribesLastFrame' /\ RecentOrder' /\ RepeatOnlyWhenOverlapping'
  BY <1>1 DEF IndInv, EntryDescribesLastFrame, RecentOrder, RepeatOnlyWhenOverlapping
<1>5. ArrivalOrder'
  <2>1. \A j \in 1 .. Len(data) : data[j].frame \in Frames
    <3>1. data \in Seq(DataFrame)
      BY DEF IndInv, TypeOK
    <3>2. \A j \in 1 .. Len(data) : data[j] \in DataFrame
      BY <3>1, LenProperties
    <3> QED
      BY <3>2 DEF DataFrame
  <2> QED
    BY <1>1, <2>1 DEF ArrivalOrder, Overtaking, Frames
<1>6. DeliveryVouched'
  BY <1>1 DEF IndInv, DeliveryVouched, Vouched, Processed
<1> QED
  BY <1>2, <1>3, <1>4, <1>5, <1>6 DEF IndInv

(***************************************************************************)
(* serviceApsRetx: the retransmitted copy waits in the table, where every  *)
(* younger frame that was sent has overlapped with it; what is given up    *)
(* leaves the table and is counted dropped.                                *)
(***************************************************************************)
LEMMA RetxInd == IndInv /\ ServiceApsRetx => IndInv'
<1> SUFFICES ASSUME IndInv, ServiceApsRetx PROVE IndInv'
  OBVIOUS
<1> USE BoundAssumption, CounterAssumption, TableAssumption
<1> DEFINE Retried(S) == IF Retryable(S) = {} THEN {} ELSE {First(Retryable(S))}
           LostFrames(S) == {pending[s].frame : s \in GivenUp(S)}
<1>1. PICK timedOut \in SUBSET Used :
        /\ pending' = [s \in Slots |->
             IF s \in GivenUp(timedOut) THEN Free
             ELSE IF s \in Retried(timedOut) THEN Attempted(s) ELSE pending[s]]
        /\ outcome' = [f \in Frames |-> IF f \in LostFrames(timedOut) THEN "dropped" ELSE outcome[f]]
        /\ IF Retried(timedOut) = {} THEN UNCHANGED data
           ELSE LET e == pending[First(Retried(timedOut))] IN
                data' = Transmit(data, [frame |-> e.frame, counter |-> e.counter])
  BY DEF ServiceApsRetx
<1>2. /\ UNCHANGED <<apsCounter, sent, counterOf, overlapped>>
      /\ UNCHANGED <<lastCounter, handed, recent, repeated, lastFrame, acks, restarts>>
  BY DEF ServiceApsRetx, receiver
<1> DEFINE retried == Retried(timedOut)
           gone == GivenUp(timedOut)
           lost == LostFrames(timedOut)
<1>3. TypeOK
  BY DEF IndInv
<1>4. /\ gone \in SUBSET Used
      /\ retried \in SUBSET {s \in Used : pending[s].triesLeft > 0}
  <2>1. Retryable(timedOut) \in SUBSET Slots
    BY DEF Retryable, Used
  <2>2. Retryable(timedOut) # {} => First(Retryable(timedOut)) \in Retryable(timedOut)
    BY <2>1, FirstIn
  <2> QED
    BY <2>2 DEF GivenUp, Retryable
<1>5. lost = {pending[s].frame : s \in gone}
  OBVIOUS
<1>6. /\ pending' = [s \in Slots |-> IF s \in gone THEN Free
                                    ELSE IF s \in retried THEN Attempted(s) ELSE pending[s]]
      /\ outcome' = [f \in Frames |-> IF f \in lost THEN "dropped" ELSE outcome[f]]
  BY <1>1
<1>7. \/ data' = data
      \/ \E s \in Used : data' = Transmit(data, [frame |-> pending[s].frame,
                                                counter |-> pending[s].counter])
  <2>1. retried # {} => First(retried) \in retried
    BY <1>4, FirstIn DEF Used
  <2> QED
    BY <1>1, <1>4, <2>1
<1> HIDE DEF retried, gone, lost
<1>8. \A s \in retried : /\ Attempted(s) \in Entry
                         /\ Attempted(s).frame = pending[s].frame
                         /\ Attempted(s).counter = pending[s].counter
  <2> SUFFICES ASSUME NEW s \in retried
               PROVE  /\ Attempted(s) \in Entry
                      /\ Attempted(s).frame = pending[s].frame
                      /\ Attempted(s).counter = pending[s].counter
    OBVIOUS
  <2>1. /\ pending[s] \in Entry /\ pending[s].triesLeft \in 0 .. MaxRetries
        /\ pending[s].triesLeft > 0
    BY <1>3, <1>4, UsedEntry
  <2> QED
    BY <2>1 DEF Attempted, Entry
<1>9. \A s \in Slots : /\ s \in gone => pending'[s] = Free
                       /\ s \notin gone /\ s \in retried =>
                            /\ pending'[s] \in Entry
                            /\ pending'[s].frame = pending[s].frame
                            /\ pending'[s].counter = pending[s].counter
                       /\ s \notin gone /\ s \notin retried => pending'[s] = pending[s]
  BY <1>6, <1>8
<1>10. Free \notin Entry
  BY DEF Entry, Free, Frames
<1>11. /\ Used' = Used \ gone
       /\ \A s \in Used' : pending'[s].frame = pending[s].frame
  <2>1. \A s \in Slots : pending'[s] # Free <=> s \in Used /\ s \notin gone
    BY <1>4, <1>9, <1>10 DEF Used
  <2>2. Used' = Used \ gone
    BY <2>1 DEF Used
  <2> QED
    BY <1>9, <2>2 DEF Used
<1>12. /\ TableOrder'
       /\ \A s \in Used' : /\ pending'[s].frame <= sent'
                           /\ pending'[s].counter = counterOf'[pending'[s].frame]
  <2>1. \A s \in retried : pending[s] # Free
    BY <1>4 DEF Used
  <2>2. \A s \in Slots : \/ pending'[s] = Free
                         \/ /\ pending[s] # Free
                            /\ pending'[s].frame = pending[s].frame
                            /\ pending'[s].counter = pending[s].counter
                         \/ pending'[s] = pending[s]
    BY <1>9, <2>1
  <2> QED
    BY <1>2, <2>2, TableShrinks
<1> DEFINE Copy(i) == \E s \in Used : /\ data'[i].frame = pending[s].frame
                                      /\ data'[i].counter = pending[s].counter
<1>13. /\ data' \in Seq(DataFrame) /\ Len(data) \in Nat /\ Len(data') \in Nat
       /\ \A i \in 1 .. Len(data') :
            \/ i \in 1 .. Len(data) /\ data'[i] = data[i]
            \/ i = Len(data) + 1 /\ Copy(i)
  <2>1. data \in Seq(DataFrame)
    BY <1>3 DEF TypeOK
  <2>2. CASE data' = data
    BY <2>1, <2>2, LenProperties
  <2>3. ASSUME NEW s \in Used, data' = Transmit(data, [frame |-> pending[s].frame,
                                                     counter |-> pending[s].counter])
        PROVE  /\ data' \in Seq(DataFrame) /\ Len(data) \in Nat /\ Len(data') \in Nat
               /\ \A i \in 1 .. Len(data') :
                    \/ i \in 1 .. Len(data) /\ data'[i] = data[i]
                    \/ i = Len(data) + 1 /\ Copy(i)
    <3> DEFINE m == [frame |-> pending[s].frame, counter |-> pending[s].counter]
    <3>1. m \in DataFrame /\ m.frame = pending[s].frame /\ m.counter = pending[s].counter
      BY <1>3, UsedEntry DEF DataFrame
    <3> HIDE DEF m
    <3>2. /\ data' \in Seq(DataFrame)
          /\ \A i \in 1 .. Len(data') :
               \/ i \in 1 .. Len(data) /\ data'[i] = data[i]
               \/ i = Len(data) + 1 /\ data'[i] = m
      BY <2>1, <2>3, <3>1, TransmitShape DEF m
    <3>3. Len(data) \in Nat /\ Len(data') \in Nat
      BY <2>1, <3>2, LenProperties
    <3> QED
      BY <3>1, <3>2, <3>3
  <2> QED
    BY <1>7, <2>2, <2>3
<1>14. \A i \in 1 .. Len(data) : data[i].frame \in Frames /\ data[i].frame <= sent
  <2>1. \A i \in 1 .. Len(data) : data[i] \in DataFrame
    BY <1>3, LenProperties DEF TypeOK
  <2> QED
    BY <2>1 DEF IndInv, CountersTravel, DataFrame
<1>15. TypeOK'
  <2>1. pending' \in [Slots -> Entry \union {Free}]
    BY <1>3, <1>6, <1>8 DEF TypeOK
  <2>2. outcome' \in [Frames -> Outcomes]
    BY <1>3, <1>6 DEF TypeOK, Outcomes
  <2> QED
    BY <1>2, <1>3, <1>13, <2>1, <2>2 DEF TypeOK
<1>16. CountersTravel'
  <2>1. \A i \in 1 .. Len(data') : /\ data'[i].frame <= sent
                                   /\ data'[i].counter = counterOf[data'[i].frame]
    BY <1>13 DEF IndInv, CountersTravel
  <2> QED
    BY <1>2, <1>12, <2>1 DEF CountersTravel
<1>17. MeshOrder'
  <2> SUFFICES ASSUME NEW i \in 1 .. Len(data'), NEW j \in 1 .. Len(data'), i < j,
                      data'[i].frame > data'[j].frame
               PROVE  data'[i].frame \in overlapped /\ data'[j].frame \in overlapped
    BY <1>2 DEF MeshOrder, Overtaking
  <2>1. i \in 1 .. Len(data) /\ data'[i] = data[i]
    BY <1>13
  <2>2. CASE j \in 1 .. Len(data) /\ data'[j] = data[j]
    BY <2>1, <2>2 DEF IndInv, MeshOrder, Overtaking
  <2>3. ASSUME NEW s \in Used, data'[j].frame = pending[s].frame
        PROVE  data'[i].frame \in overlapped /\ data'[j].frame \in overlapped
    BY <1>14, <2>1, <2>3 DEF IndInv, TableOrder, Overtaking
  <2> QED
    BY <1>13, <2>2, <2>3
<1>18. ArrivalOrder'
  <2> SUFFICES ASSUME NEW f \in recent \union {lastFrame}, NEW j \in 1 .. Len(data'),
                      f > data'[j].frame
               PROVE  f \in overlapped /\ data'[j].frame \in overlapped
    BY <1>2 DEF ArrivalOrder, Overtaking
  <2>1. CASE j \in 1 .. Len(data) /\ data'[j] = data[j]
    BY <2>1 DEF IndInv, ArrivalOrder, Overtaking
  <2>2. ASSUME NEW s \in Used, data'[j].frame = pending[s].frame
        PROVE  f \in overlapped /\ data'[j].frame \in overlapped
    <3>1. pending[s].frame \in Frames
      BY <1>3, UsedEntry
    <3>2. f \in Frames
      BY <1>3, <2>2, <3>1 DEF TypeOK, Frames
    <3>3. f <= sent
      BY <3>2 DEF IndInv, EntryDescribesLastFrame, Frames
    <3> QED
      BY <2>2, <3>2, <3>3 DEF IndInv, TableOrder, Overtaking
  <2> QED
    BY <1>13, <2>1, <2>2
<1>19. EntryDescribesLastFrame' /\ RecentOrder' /\ RepeatOnlyWhenOverlapping'
  BY <1>2 DEF IndInv, EntryDescribesLastFrame, RecentOrder, RepeatOnlyWhenOverlapping
<1>20. DeliveryVouched'
  <2>1. \A f \in Frames : outcome'[f] = "delivered" => outcome[f] = "delivered"
    BY <1>6
  <2> QED
    BY <1>2, <2>1 DEF IndInv, DeliveryVouched, Vouched, Processed
<1>21. PendingAccounted'
  <2>1. \A f \in Frames : outcome'[f] = "pending" <=> outcome[f] = "pending" /\ f \notin lost
    BY <1>6
  <2>2. \A s \in Used : pending[s].frame \in lost <=> s \in gone
    BY <1>4, <1>5 DEF IndInv, PendingAccounted
  <2>3. \A f \in Frames : outcome'[f] = "pending" <=> \E s \in Used' : pending'[s].frame = f
    BY <1>11, <2>1, <2>2 DEF IndInv, PendingAccounted
  <2>4. \A s, t \in Used' : pending'[s].frame = pending'[t].frame => s = t
    BY <1>11 DEF IndInv, PendingAccounted
  <2> QED
    BY <2>3, <2>4 DEF PendingAccounted
<1> QED
  BY <1>12, <1>15, <1>16, <1>17, <1>18, <1>19, <1>20, <1>21 DEF IndInv

(***************************************************************************)
(* onApsData: a frame in recent is new only if a younger frame came in     *)
(* between, and then both overlapped.                                      *)
(***************************************************************************)
LEMMA DataInd == IndInv /\ OnApsData => IndInv'
<1> SUFFICES ASSUME IndInv, OnApsData PROVE IndInv'
  OBVIOUS
<1> USE BoundAssumption, CounterAssumption
<1> DEFINE m == data[1]
<1>1. /\ data # <<>> /\ data' = Tail(data)
      /\ UNCHANGED <<pending, apsCounter, sent, outcome, counterOf, overlapped, restarts>>
  BY DEF OnApsData, sender
<1>2. TypeOK
  BY DEF IndInv
<1>3. /\ Head(data) = m /\ 1 \in 1 .. Len(data) /\ m \in DataFrame
  BY <1>1, <1>2, TailShape DEF TypeOK
<1>4. /\ lastCounter' = m.counter /\ lastFrame' = m.frame /\ acks' = Transmit(acks, m.counter)
      /\ IsNew(m.counter) =>
           /\ handed' = Append(handed, m.frame) /\ recent' = recent \union {m.frame}
           /\ repeated' = IF m.frame \in recent THEN repeated \union {m.frame} ELSE repeated
      /\ ~IsNew(m.counter) => UNCHANGED <<handed, recent, repeated>>
  BY <1>3 DEF OnApsData, Acknowledge
<1>5. /\ m.frame \in Frames /\ m.counter \in Counters /\ m.frame <= sent
      /\ m.counter = counterOf[m.frame]
  BY <1>3 DEF IndInv, CountersTravel, DataFrame
<1>6. /\ CountersTravel' /\ TableOrder' /\ MeshOrder' /\ data' \in Seq(DataFrame)
      /\ \A f \in recent \union {lastFrame} : \A j \in 1 .. Len(data') :
           (f > data'[j].frame => f \in overlapped /\ data'[j].frame \in overlapped)
      /\ \A j \in 1 .. Len(data') :
           (m.frame > data'[j].frame => m.frame \in overlapped /\ data'[j].frame \in overlapped)
  BY <1>1, MeshAfterHead
<1>7. /\ acks' \in Seq(Counters) /\ Len(acks) \in Nat
      /\ \A i \in 1 .. Len(acks') :
           \/ i \in 1 .. Len(acks) /\ acks'[i] = acks[i]
           \/ i = Len(acks) + 1 /\ acks'[i] = m.counter
  <2>1. acks \in Seq(Counters)
    BY <1>2 DEF TypeOK
  <2> QED
    BY <1>4, <1>5, <2>1, TransmitShape, LenProperties
<1> HIDE DEF m
<1>8. /\ handed' \in Seq(Frames)
      /\ Processed' = IF IsNew(m.counter) THEN Processed \union {m.frame} ELSE Processed
  <2>1. CASE IsNew(m.counter)
    <3>1. /\ Append(handed, m.frame) \in Seq(Frames)
          /\ Len(handed) \in Nat /\ Len(Append(handed, m.frame)) = Len(handed) + 1
          /\ \A i \in 1 .. Len(handed) : Append(handed, m.frame)[i] = handed[i]
          /\ Append(handed, m.frame)[Len(handed) + 1] = m.frame
      BY <1>2, <1>5, AppendProperties, LenProperties DEF TypeOK
    <3>2. handed' = Append(handed, m.frame)
      BY <1>4, <2>1
    <3>3. \A x : x \in Processed' <=> x \in Processed \/ x = m.frame
      BY <3>1, <3>2 DEF Processed
    <3> QED
      BY <2>1, <3>1, <3>2, <3>3
  <2>2. CASE ~IsNew(m.counter)
    BY <1>2, <1>4, <2>2 DEF Processed, TypeOK
  <2> QED
    BY <2>1, <2>2
<1>9. recent' \subseteq recent \union {m.frame} /\ lastFrame' = m.frame
  BY <1>4
<1>10. TypeOK'
  <2>1. repeated' \in SUBSET Frames /\ recent' \in SUBSET Frames
    BY <1>2, <1>4, <1>5 DEF TypeOK
  <2>2. lastCounter' \in Counters \union {NoCounter} /\ lastFrame' \in {0} \union Frames
    BY <1>4, <1>5
  <2> QED
    BY <1>1, <1>2, <1>6, <1>7, <1>8, <2>1, <2>2 DEF TypeOK
<1>11. EntryDescribesLastFrame'
  <2>1. m.frame # 0
    BY <1>5 DEF Frames
  <2>2. \A f \in recent' : f <= sent
    BY <1>5, <1>9 DEF IndInv, EntryDescribesLastFrame
  <2> QED
    BY <1>1, <1>4, <1>5, <2>1, <2>2 DEF EntryDescribesLastFrame
<1>12. ArrivalOrder'
  <2> SUFFICES ASSUME NEW f \in recent' \union {lastFrame'}, NEW j \in 1 .. Len(data'),
                      f > data'[j].frame
               PROVE  f \in overlapped /\ data'[j].frame \in overlapped
    BY <1>1 DEF ArrivalOrder, Overtaking
  <2>1. f \in recent \/ f = m.frame
    BY <1>9
  <2> QED
    BY <1>6, <2>1
<1>13. \A f \in recent : f > m.frame => f \in overlapped /\ m.frame \in overlapped
  BY <1>3 DEF IndInv, ArrivalOrder, Overtaking, m
<1>14. RecentOrder'
  <2>1. ~(m.frame > m.frame)
    BY <1>5 DEF Frames
  <2> QED
    BY <1>1, <1>9, <1>13, <2>1 DEF RecentOrder
<1>15. RepeatOnlyWhenOverlapping'
  <2>1. IsNew(m.counter) /\ m.frame \in recent => m.frame \in overlapped
    <3> SUFFICES ASSUME IsNew(m.counter), m.frame \in recent
                 PROVE  m.frame \in overlapped
      OBVIOUS
    <3>1. lastFrame # 0 /\ lastCounter = counterOf[lastFrame] /\ lastFrame \in Frames
      BY <1>2 DEF IndInv, EntryDescribesLastFrame, TypeOK
    <3>2. lastFrame # m.frame
      BY <1>5, <3>1 DEF IsNew
    <3>3. CASE lastFrame > m.frame
      BY <1>3, <3>3 DEF IndInv, ArrivalOrder, Overtaking, m
    <3>4. CASE m.frame > lastFrame
      BY <3>4 DEF IndInv, RecentOrder
    <3> QED
      BY <1>5, <3>1, <3>2, <3>3, <3>4 DEF Frames
  <2> QED
    BY <1>1, <1>4, <2>1 DEF IndInv, RepeatOnlyWhenOverlapping
<1>16. DeliveryVouched'
  <2> DEFINE VouchedNext(c) == \E g \in Processed' : g <= sent' /\ counterOf'[g] = c
  <2>1. ASSUME NEW c, Vouched(c) PROVE VouchedNext(c)
    BY <1>1, <1>8, <2>1 DEF Vouched
  <2>2. VouchedNext(m.counter)
    <3>1. CASE IsNew(m.counter)
      BY <1>1, <1>5, <1>8, <3>1
    <3>2. CASE ~IsNew(m.counter)
      <4>1. lastCounter = m.counter /\ lastCounter # NoCounter
        BY <1>5, <3>2 DEF IsNew, Counters
      <4>2. Vouched(m.counter)
        BY <4>1 DEF IndInv, DeliveryVouched
      <4> QED
        BY <2>1, <4>2
    <3> QED
      BY <3>1, <3>2
  <2>3. \A i \in 1 .. Len(acks') : VouchedNext(acks'[i])
    BY <1>7, <2>1, <2>2 DEF IndInv, DeliveryVouched
  <2>4. ASSUME NEW f \in Frames, outcome'[f] = "delivered"
        PROVE  f <= sent' /\ VouchedNext(counterOf'[f])
    BY <1>1, <2>1, <2>4 DEF IndInv, DeliveryVouched
  <2> QED
    BY <1>4, <2>2, <2>3, <2>4 DEF DeliveryVouched, Vouched
<1>17. PendingAccounted'
  BY <1>1 DEF IndInv, PendingAccounted, Used
<1> QED
  BY <1>6, <1>10, <1>11, <1>12, <1>14, <1>15, <1>16, <1>17 DEF IndInv

-----------------------------------------------------------------------------
(***************************************************************************)
(* The invariant holds in every state of the system.                       *)
(***************************************************************************)
THEOREM IndInvariant == Spec => []IndInv
<1>1. IndInv /\ [Next]_vars => IndInv'
  <2> SUFFICES ASSUME IndInv, [Next]_vars PROVE IndInv'
    OBVIOUS
  <2>1. CASE SendApsFrame
    BY <2>1, SendInd
  <2>2. CASE ServiceApsRetx
    BY <2>2, RetxInd
  <2>3. CASE OnApsData
    BY <2>3, DataInd
  <2>4. CASE OnApsAck
    BY <2>4, AckInd
  <2>5. CASE LoseData
    BY <2>5, LoseDataInd
  <2>6. CASE LoseAck
    BY <2>6, LoseAckInd
  <2>7. CASE SenderRestart
    BY <2>7, SenderRestartInd
  <2>8. CASE ReceiverForgets
    BY <2>8, ReceiverForgetsInd
  <2>9. CASE UNCHANGED vars
    BY <2>9 DEF vars, IndInv, TypeOK, CountersTravel, EntryDescribesLastFrame, TableOrder,
                MeshOrder, ArrivalOrder, RecentOrder, RepeatOnlyWhenOverlapping,
                DeliveryVouched, PendingAccounted, Vouched, Processed, Used, Overtaking
  <2> QED
    BY <2>1, <2>2, <2>3, <2>4, <2>5, <2>6, <2>7, <2>8, <2>9 DEF Next
<1> QED
  BY <1>1, InitInd, PTL DEF Spec

(***************************************************************************)
(* Every variable keeps its type: the counter wraps, tries do not go below *)
(* zero, the table keeps its size.                                         *)
(***************************************************************************)
THEOREM TypeCorrect == Spec => []TypeOK
<1>1. IndInv => TypeOK
  BY DEF IndInv
<1> QED
  BY <1>1, IndInvariant, PTL

(***************************************************************************)
(* onApsData and checkAndRecord: the one counter kept per sender suffices  *)
(* for a sender that lets no two of its frames wait at a time, however     *)
(* many copies of them are lost or late.                                   *)
(***************************************************************************)
THEOREM NoRepeatWithoutOverlap == Spec => []RepeatOnlyWhenOverlapping
<1>1. IndInv => RepeatOnlyWhenOverlapping
  BY DEF IndInv
<1> QED
  BY <1>1, IndInvariant, PTL

(***************************************************************************)
(* onAck: a frame counted delivered was processed, or another frame with   *)
(* its counter was.                                                        *)
(***************************************************************************)
THEOREM DeliveredMeansProcessed == Spec => []FalseDeliveryOnlyByCounterReuse
<1>1. IndInv => FalseDeliveryOnlyByCounterReuse
  BY DEF IndInv, DeliveryVouched, Vouched, FalseDeliveryOnlyByCounterReuse
<1> QED
  BY <1>1, IndInvariant, PTL

(***************************************************************************)
(* add, onAck and due: no frame is left waiting without an entry in the    *)
(* table, and none has two.                                                *)
(***************************************************************************)
THEOREM NoEntryLeaked == Spec => []PendingAccounted
<1>1. IndInv => PendingAccounted
  BY DEF IndInv
<1> QED
  BY <1>1, IndInvariant, PTL

-----------------------------------------------------------------------------
(***************************************************************************)
(* The delivery service.  Steps that send no frame and restart nothing     *)
(* keep ServiceInv when they enter nothing into the table and no frame     *)
(* back into "unsent".                                                     *)
(***************************************************************************)
LEMMA ServiceInvKept ==
  ASSUME ServiceInv, UNCHANGED <<sent, apsCounter, counterOf, overlapped, restarts>>,
         Used' \subseteq Used,
         \A f \in Frames : outcome'[f] = "unsent" <=> outcome[f] = "unsent",
         Processed \subseteq recent => Processed' \subseteq recent'
  PROVE  ServiceInv'
BY DEF ServiceInv

\* Before the first frame nothing was used, processed or overlapped.
LEMMA ServiceInvStarts == Init => ServiceInv
<1> SUFFICES ASSUME Init PROVE ServiceInv
  OBVIOUS
<1> USE BoundAssumption, CounterAssumption
<1>1. Used = {} /\ Processed = {}
  BY DEF Init, Used, Processed
<1>2. \A f \in Frames : outcome[f] = "unsent" /\ f > sent
  BY DEF Init, Frames
<1>3. sent = 0 /\ apsCounter = 0 /\ 1 .. sent = {}
  BY DEF Init
<1> QED
  BY <1>1, <1>2, <1>3 DEF ServiceInv

(***************************************************************************)
(* SendApsFrame: without an overlap the table was empty, so the frame is   *)
(* registered; its counter is the next of the cycle.                       *)
(***************************************************************************)
LEMMA SendServes ==
  ASSUME IndInv, ServiceInv, SendApsFrame
  PROVE  ServiceInv' /\ (Undisturbed' => Service!Next)
<1> USE BoundAssumption, CounterAssumption, TableAssumption
<1> DEFINE new == sent + 1
           entry == [frame |-> new, counter |-> apsCounter, triesLeft |-> MaxRetries]
           slot == First(Slots \ Used)
<1>1. TypeOK /\ sent \in Nat /\ new \in Frames /\ apsCounter \in Counters
  BY DEF IndInv, TypeOK, SendApsFrame, Frames
<1>2. /\ sent' = new /\ apsCounter' = (apsCounter + 1) % CounterMod
      /\ counterOf' = [counterOf EXCEPT ![new] = apsCounter]
      /\ overlapped' = IF Used = {} THEN overlapped
                       ELSE overlapped \union {pending[s].frame : s \in Used} \union {new}
      /\ UNCHANGED <<handed, recent, restarts>>
  BY DEF SendApsFrame, receiver
<1>3. \/ Used # Slots /\ pending' = [pending EXCEPT ![slot] = entry]
         /\ outcome' = [outcome EXCEPT ![new] = "pending"]
      \/ Used = Slots /\ outcome' = [outcome EXCEPT ![new] = "untracked"]
  BY <1>2 DEF SendApsFrame
<1> HIDE DEF slot, entry
<1>4. \A f \in Frames : outcome'[f] = "unsent" <=> f > new
  <2>1. \A f \in Frames : outcome[f] = "unsent" <=> f > sent
    BY DEF ServiceInv
  <2>2. outcome'[new] # "unsent" /\ \A f \in Frames : f # new => outcome'[f] = outcome[f]
    BY <1>1, <1>3 DEF TypeOK
  <2> QED
    BY <1>1, <2>1, <2>2 DEF Frames
<1>5. overlapped' = {} => Used = {} /\ Used # Slots
  <2>1. Used # {} => new \in overlapped'
    BY <1>2
  <2>2. 1 \in Slots
    BY DEF Slots
  <2> QED
    BY <2>1, <2>2
<1>6. overlapped' = {} => \A s, t \in Used' : s = t
  <2> SUFFICES ASSUME overlapped' = {} PROVE \A s \in Used' : s = slot
    OBVIOUS
  <2>1. \A s \in Slots : s # slot => pending'[s] = pending[s]
    BY <1>1, <1>3, <1>5 DEF TypeOK
  <2> QED
    BY <1>5, <2>1 DEF Used
<1>7. Processed' = Processed
  BY <1>2 DEF Processed
<1>8. ASSUME restarts = 0, new <= CounterMod
      PROVE  /\ apsCounter' = IF new = CounterMod THEN 0 ELSE new
             /\ \A f \in 1 .. new : counterOf'[f] = f - 1
  <2>1. apsCounter = sent /\ \A f \in 1 .. sent : counterOf[f] = f - 1
    BY <1>1, <1>8 DEF ServiceInv
  <2>2. \A a, b \in Nat : b # 0 => (a < b => a % b = a) /\ b % b = 0
    OBVIOUS
  <2>3. apsCounter' = IF new = CounterMod THEN 0 ELSE new
    BY <1>1, <1>2, <1>8, <2>1, <2>2
  <2>4. counterOf'[new] = sent /\ \A f \in Frames : f # new => counterOf'[f] = counterOf[f]
    BY <1>1, <1>2, <2>1 DEF TypeOK
  <2>5. \A f \in 1 .. new : f = new \/ (f \in 1 .. sent /\ f \in Frames)
    BY <1>1 DEF Frames
  <2> QED
    BY <1>1, <2>1, <2>3, <2>4, <2>5
<1>9. ServiceInv'
  <2>1. restarts = 0 => Processed' \subseteq recent'
    BY <1>2, <1>7 DEF ServiceInv
  <2> QED
    BY <1>2, <1>4, <1>6, <1>8, <2>1 DEF ServiceInv
<1>10. ASSUME Undisturbed' PROVE Service!Next
  <2>1. outcome' = [outcome EXCEPT ![new] = "pending"]
    BY <1>3, <1>5, <1>10 DEF Undisturbed
  <2>2. outcome[new] = "unsent"
    BY <1>1 DEF ServiceInv
  <2>3. Service!Send(new)
    BY <1>2, <2>1, <2>2 DEF Service!Send
  <2> QED
    BY <1>1, <2>3 DEF Service!Next
<1> QED
  BY <1>9, <1>10

(***************************************************************************)
(* serviceApsRetx: what is given up is the one frame that waited.          *)
(***************************************************************************)
LEMMA RetxServes ==
  ASSUME IndInv, ServiceInv, ServiceApsRetx
  PROVE  ServiceInv' /\ (Undisturbed' => Service!Next \/ UNCHANGED Service!vars)
<1> DEFINE Retried(S) == IF Retryable(S) = {} THEN {} ELSE {First(Retryable(S))}
           LostFrames(S) == {pending[s].frame : s \in GivenUp(S)}
<1>1. PICK timedOut \in SUBSET Used :
        /\ pending' = [s \in Slots |->
             IF s \in GivenUp(timedOut) THEN Free
             ELSE IF s \in Retried(timedOut) THEN Attempted(s) ELSE pending[s]]
        /\ outcome' = [f \in Frames |-> IF f \in LostFrames(timedOut) THEN "dropped" ELSE outcome[f]]
  BY DEF ServiceApsRetx
<1>2. /\ UNCHANGED <<apsCounter, sent, counterOf, overlapped, restarts>>
      /\ UNCHANGED <<handed, recent>>
  BY DEF ServiceApsRetx, receiver
<1>3. TypeOK
  BY DEF IndInv
<1>4. GivenUp(timedOut) \subseteq Used /\ Retried(timedOut) \subseteq Used
  <2>1. Retryable(timedOut) \in SUBSET Slots /\ Retryable(timedOut) \subseteq Used
    BY DEF Retryable, Used
  <2>2. Retryable(timedOut) # {} => First(Retryable(timedOut)) \in Retryable(timedOut)
    BY <2>1, FirstIn
  <2> QED
    BY <2>1, <2>2 DEF GivenUp
<1> DEFINE lost == LostFrames(timedOut)
<1>5. /\ \A f \in lost : f \in Frames /\ outcome[f] = "pending"
      /\ outcome' = [f \in Frames |-> IF f \in lost THEN "dropped" ELSE outcome[f]]
  <2>1. \A s \in Used : pending[s].frame \in Frames
    BY <1>3, UsedEntry
  <2> QED
    BY <1>1, <1>4, <2>1 DEF IndInv, PendingAccounted
<1>6. overlapped = {} => \A f, g \in lost : f = g
  BY <1>4 DEF ServiceInv
<1>7. Used' \subseteq Used
  <2>1. \A s \in Slots : s \notin Used => pending'[s] = pending[s]
    BY <1>1, <1>4
  <2> QED
    BY <2>1 DEF Used
<1> HIDE DEF lost
<1>8. ServiceInv'
  <2>1. \A f \in Frames : outcome'[f] = "unsent" <=> outcome[f] = "unsent"
    BY <1>5
  <2>2. Processed' = Processed
    BY <1>2 DEF Processed
  <2> QED
    BY <1>2, <1>7, <2>1, <2>2, ServiceInvKept
<1>9. ASSUME Undisturbed' PROVE Service!Next \/ UNCHANGED Service!vars
  <2>1. \A f, g \in lost : f = g
    BY <1>2, <1>6, <1>9 DEF Undisturbed
  <2>2. CASE lost = {}
    <3>1. outcome' = outcome
      BY <1>3, <1>5, <2>2 DEF TypeOK
    <3> QED
      BY <1>2, <3>1 DEF Service!vars
  <2>3. CASE lost # {}
    <3>1. PICK f : f \in lost
      BY <2>3
    <3>2. f \in Frames /\ outcome[f] = "pending"
      BY <1>5, <3>1
    <3>3. outcome' = [outcome EXCEPT ![f] = "dropped"]
      <4>1. \A g \in Frames : g \in lost <=> g = f
        BY <2>1, <3>1
      <4> QED
        BY <1>3, <1>5, <4>1 DEF TypeOK
    <3>4. Service!GiveUp(f)
      BY <1>2, <3>2, <3>3 DEF Service!GiveUp
    <3> QED
      BY <3>2, <3>4 DEF Service!Next, Service!Settle
  <2> QED
    BY <2>2, <2>3
<1> QED
  BY <1>8, <1>9

(***************************************************************************)
(* onApsData: a frame that is new to the receiver is younger than every    *)
(* frame processed before.                                                 *)
(***************************************************************************)
LEMMA DataServes ==
  ASSUME IndInv, ServiceInv, OnApsData
  PROVE  ServiceInv' /\ (Undisturbed' => Service!Next \/ UNCHANGED Service!vars)
<1> USE BoundAssumption, CounterAssumption
<1> DEFINE m == data[1]
<1>1. /\ data # <<>>
      /\ UNCHANGED <<pending, apsCounter, sent, outcome, counterOf, overlapped, restarts>>
  BY DEF OnApsData, sender
<1>2. TypeOK
  BY DEF IndInv
<1>3. Head(data) = m /\ 1 \in 1 .. Len(data) /\ m \in DataFrame
  BY <1>1, <1>2, TailShape DEF TypeOK
<1>4. /\ IsNew(m.counter) => handed' = Append(handed, m.frame) /\ recent' = recent \union {m.frame}
      /\ ~IsNew(m.counter) => UNCHANGED <<handed, recent>>
  BY <1>3 DEF OnApsData
<1>5. m.frame \in Frames /\ m.frame <= sent /\ m.counter = counterOf[m.frame]
  BY <1>3 DEF IndInv, CountersTravel, DataFrame
<1>6. \A f \in recent \union {lastFrame} : f > m.frame => f \in overlapped
  BY <1>3 DEF IndInv, ArrivalOrder, Overtaking
<1> HIDE DEF m
<1>7. Processed' = IF IsNew(m.counter) THEN Processed \union {m.frame} ELSE Processed
  <2>1. CASE IsNew(m.counter)
    <3>1. /\ Len(handed) \in Nat /\ Len(Append(handed, m.frame)) = Len(handed) + 1
          /\ \A i \in 1 .. Len(handed) : Append(handed, m.frame)[i] = handed[i]
          /\ Append(handed, m.frame)[Len(handed) + 1] = m.frame
      BY <1>2, <1>5, AppendProperties, LenProperties DEF TypeOK
    <3>2. \A x : x \in Processed' <=> x \in Processed \/ x = m.frame
      BY <1>4, <2>1, <3>1 DEF Processed
    <3> QED
      BY <2>1, <3>2
  <2>2. CASE ~IsNew(m.counter)
    BY <1>4, <2>2 DEF Processed
  <2> QED
    BY <2>1, <2>2
<1>8. ServiceInv'
  <2>1. Processed \subseteq recent => Processed' \subseteq recent'
    BY <1>4, <1>7
  <2>2. Used' = Used
    BY <1>1 DEF Used
  <2> QED
    BY <1>1, <2>1, <2>2, ServiceInvKept
<1>9. ASSUME Undisturbed' PROVE Service!Next \/ UNCHANGED Service!vars
  <2>1. overlapped = {} /\ restarts = 0
    BY <1>1, <1>9 DEF Undisturbed
  <2>2. CASE ~IsNew(m.counter)
    BY <1>1, <1>4, <2>2 DEF Service!vars
  <2>3. CASE IsNew(m.counter)
    <3>1. lastFrame # m.frame
      BY <1>5, <2>3 DEF IsNew, IndInv, EntryDescribesLastFrame, Frames
    <3>2. ASSUME NEW g \in Processed PROVE g < m.frame
      <4>1. g \in recent /\ g \in Frames
        BY <1>2, <2>1, <3>2 DEF ServiceInv, TypeOK
      <4>2. lastFrame # 0 /\ lastFrame \in Frames
        BY <1>2, <4>1 DEF IndInv, EntryDescribesLastFrame, TypeOK
      <4>3. ~ (g > lastFrame) /\ ~ (lastFrame > m.frame)
        BY <1>6, <2>1, <4>1 DEF IndInv, RecentOrder
      <4> QED
        BY <1>5, <3>1, <4>1, <4>2, <4>3 DEF Frames
    <3>3. outcome[m.frame] # "unsent"
      <4>1. ~ (m.frame > sent)
        BY <1>2, <1>5 DEF TypeOK, Frames
      <4> QED
        BY <1>5, <4>1 DEF ServiceInv
    <3>4. Service!Processed = Processed
      BY DEF Service!Processed, Processed
    <3>5. Service!Process(m.frame)
      BY <1>1, <1>4, <2>3, <3>2, <3>3, <3>4 DEF Service!Process
    <3> QED
      BY <1>5, <3>5 DEF Service!Next
  <2> QED
    BY <2>2, <2>3
<1> QED
  BY <1>8, <1>9

(***************************************************************************)
(* onApsAck: in a first cycle of counters, the frame that the counter of   *)
(* an acknowledgement names is the one that was processed.                 *)
(***************************************************************************)
LEMMA AckServes ==
  ASSUME IndInv, ServiceInv, OnApsAck
  PROVE  ServiceInv' /\ (Undisturbed' => Service!Next \/ UNCHANGED Service!vars)
<1> USE BoundAssumption, CounterAssumption
<1> DEFINE slot == First(Matching(Head(acks)))
           frame == pending[slot].frame
<1>1. /\ acks # <<>> /\ UNCHANGED <<apsCounter, sent, counterOf, overlapped, restarts>>
      /\ UNCHANGED <<handed, recent>>
  BY DEF OnApsAck, receiver
<1>2. Head(acks) = acks[1] /\ 1 \in 1 .. Len(acks)
  BY <1>1, TailShape DEF IndInv, TypeOK
<1>3. TypeOK
  BY DEF IndInv
<1>4. Processed' = Processed
  BY <1>1 DEF Processed
<1>5. CASE Matching(Head(acks)) = {}
  <2>1. UNCHANGED <<pending, outcome>>
    BY <1>5 DEF OnApsAck
  <2>2. ServiceInv'
    BY <1>1, <1>4, <2>1, ServiceInvKept DEF Used
  <2> QED
    BY <1>1, <2>1, <2>2 DEF Service!vars
<1>6. CASE Matching(Head(acks)) # {}
  <2>1. slot \in Used /\ pending[slot].counter = acks[1]
    <3>1. slot \in Matching(Head(acks))
      BY <1>6, FirstIn DEF Matching, Used
    <3> QED
      BY <3>1, <1>2 DEF Matching
  <2>2. /\ pending' = [pending EXCEPT ![slot] = Free]
        /\ outcome' = [outcome EXCEPT ![frame] = "delivered"]
    BY <1>6 DEF OnApsAck
  <2> HIDE DEF slot
  <2>3. frame \in Frames /\ frame <= sent /\ counterOf[frame] = acks[1] /\ outcome[frame] = "pending"
    <3>1. frame \in Frames
      BY <1>3, <2>1, UsedEntry
    <3>2. frame <= sent /\ pending[slot].counter = counterOf[frame]
      BY <2>1 DEF IndInv, CountersTravel
    <3>3. outcome[frame] = "pending"
      BY <2>1, <3>1 DEF IndInv, PendingAccounted
    <3> QED
      BY <2>1, <3>1, <3>2, <3>3
  <2>4. Used' \subseteq Used
    BY <1>3, <2>1, <2>2 DEF Used, TypeOK
  <2> HIDE DEF frame
  <2>5. \A f \in Frames : outcome'[f] = "unsent" <=> outcome[f] = "unsent"
    BY <1>3, <2>2, <2>3 DEF TypeOK
  <2>6. ServiceInv'
    BY <1>1, <1>4, <2>4, <2>5, ServiceInvKept
  <2>7. ASSUME Undisturbed' PROVE Service!Next
    <3>1. restarts = 0 /\ sent <= CounterMod
      BY <1>1, <2>7 DEF Undisturbed
    <3>2. PICK g \in Processed : g <= sent /\ counterOf[g] = acks[1]
      BY <1>2 DEF IndInv, DeliveryVouched, Vouched
    <3>3. g \in Frames
      BY <1>3, LenProperties DEF Processed, TypeOK
    <3>4. \A f \in 1 .. sent : counterOf[f] = f - 1
      BY <3>1 DEF ServiceInv
    <3>5. g \in 1 .. sent /\ frame \in 1 .. sent
      BY <1>3, <2>3, <3>2, <3>3 DEF Frames, TypeOK
    <3>6. g = frame
      BY <2>3, <3>2, <3>4, <3>5
    <3>7. Service!Processed = Processed
      BY DEF Service!Processed, Processed
    <3>8. Service!Confirm(frame)
      BY <1>1, <2>2, <2>3, <3>6, <3>7 DEF Service!Confirm
    <3> QED
      BY <2>3, <3>8 DEF Service!Next, Service!Settle
  <2> QED
    BY <2>6, <2>7
<1> QED
  BY <1>5, <1>6

(***************************************************************************)
(* Every step is a step of the service or none, while nothing disturbs.    *)
(***************************************************************************)
LEMMA ServedStep ==
  ASSUME IndInv, ServiceInv, [Next]_vars
  PROVE  ServiceInv' /\ (Undisturbed' => Service!Next \/ UNCHANGED Service!vars)
<1> USE BoundAssumption
<1>1. CASE SendApsFrame
  BY <1>1, SendServes
<1>2. CASE ServiceApsRetx
  BY <1>2, RetxServes
<1>3. CASE OnApsData
  BY <1>3, DataServes
<1>4. CASE OnApsAck
  BY <1>4, AckServes
<1>5. CASE LoseData \/ LoseAck \/ UNCHANGED vars
  <2>1. UNCHANGED <<pending, sent, apsCounter, counterOf, overlapped, restarts, outcome, handed, recent>>
    BY <1>5 DEF LoseData, LoseAck, vars, sender, receiver
  <2>2. ServiceInv'
    BY <2>1, ServiceInvKept DEF Used, Processed
  <2> QED
    BY <2>1, <2>2 DEF Service!vars
<1>6. CASE SenderRestart
  <2>1. restarts' # 0 /\ UNCHANGED <<sent, counterOf, overlapped, handed, recent>>
    BY <1>6 DEF SenderRestart, receiver, IndInv, TypeOK
  <2>2. Used' = {}
    BY <1>6 DEF SenderRestart, Used
  <2>3. \A f \in Frames : outcome'[f] = "unsent" <=> outcome[f] = "unsent"
    BY <1>6 DEF SenderRestart
  <2> QED
    BY <2>1, <2>2, <2>3 DEF ServiceInv, Undisturbed
<1>7. CASE ReceiverForgets
  <2>1. restarts' # 0 /\ UNCHANGED <<pending, sent, overlapped, outcome>>
    BY <1>7 DEF ReceiverForgets, sender, IndInv, TypeOK
  <2> QED
    BY <2>1 DEF ServiceInv, Undisturbed, Used
<1> QED
  BY <1>1, <1>2, <1>3, <1>4, <1>5, <1>6, <1>7 DEF Next

(***************************************************************************)
(* Acknowledged delivery keeps its promise, step by step, up to the first  *)
(* overlap, restart or whole cycle of counters, for every table size and   *)
(* number of tries and whatever is lost: frames are handed up in order and *)
(* once, and a frame is reported delivered only if it was handed up.       *)
(***************************************************************************)
THEOREM ServedUntilDisturbed == Spec => ServedWhileUndisturbed
<1>1. Init => Service!Init /\ ServiceInv
  BY ServiceInvStarts DEF Init, Service!Init
<1>2. IndInv /\ ServiceInv /\ [Next]_vars
        => ServiceInv' /\ [Undisturbed' => Service!Next]_(Service!vars)
  BY ServedStep
<1> QED
  BY <1>1, <1>2, IndInvariant, PTL DEF Spec, ServedWhileUndisturbed

\* A sender that waits for one acknowledgement at a time never overlaps.
LEMMA OneAtATime ==
  ASSUME MaxOutstanding = 1, IndInv, overlapped = {}, [Next]_vars
  PROVE  overlapped' = {}
<1>1. CASE SendApsFrame
  <2>1. IsFiniteSet(Slots)
    <3>1. 1 \in Int /\ TableSize \in Int
      BY TableAssumption
    <3> QED
      BY <3>1, FS_Interval DEF Slots
  <2>2. IsFiniteSet(Used)
    <3>1. Used \in SUBSET Slots
      BY DEF Used
    <3> QED
      BY <2>1, <3>1, FS_Subset
  <2>3. Cardinality(Used) \in Nat /\ Cardinality(Used) < 1
    BY <1>1, <2>2, FS_CardinalityType DEF SendApsFrame
  <2>4. Used = {}
    BY <2>2, <2>3, FS_EmptySet
  <2> QED
    BY <1>1, <2>4 DEF SendApsFrame
<1> QED
  BY <1>1 DEF Next, ServiceApsRetx, OnApsData, OnApsAck, LoseData, LoseAck, SenderRestart,
              ReceiverForgets, vars, sender

(***************************************************************************)
(* A sender that waits for each acknowledgement, over one cycle of         *)
(* counters and without restarts, is the delivery service: every behaviour *)
(* is one of ApsService, but for what it promises to happen in the end.    *)
(***************************************************************************)
THEOREM OneAtATimeIsTheService ==
  ASSUME MaxOutstanding = 1, MaxRestarts = 0, MaxFrames <= CounterMod
  PROVE  Spec => Service!Init /\ [][Service!Next]_(Service!vars)
<1>1. IndInv => restarts = 0 /\ sent <= CounterMod
  BY BoundAssumption, CounterAssumption DEF IndInv, TypeOK
<1>2. IndInv /\ overlapped = {} /\ [Next]_vars => (overlapped = {})'
  BY OneAtATime
<1>3. Init => overlapped = {}
  BY DEF Init
<1>4. Spec => [](overlapped = {})
  BY <1>2, <1>3, IndInvariant, PTL DEF Spec
<1>5. IndInv /\ overlapped = {} => Undisturbed
  BY <1>1 DEF Undisturbed
<1>6. Spec => []Undisturbed
  BY <1>4, <1>5, IndInvariant, PTL
<1>7. Undisturbed' /\ [Undisturbed' => Service!Next]_(Service!vars) => [Service!Next]_(Service!vars)
  OBVIOUS
<1> QED
  BY <1>6, <1>7, ServedUntilDisturbed, PTL DEF ServedWhileUndisturbed
=============================================================================
