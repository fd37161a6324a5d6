---------------------------- MODULE ServiceProofs ----------------------------
(***************************************************************************)
(* Proofs about the components that share no state with each other, each   *)
(* for every value of its constants.                                       *)
(***************************************************************************)
EXTENDS FrameStack, FrameCounter, ApsFragments, KeyTransport, GreenPower, LightDevice, ZnpDriver,
        AttributeReporting, Commissioning, ParentScan, LeastElementProofs,
        FiniteSetTheorems, SequenceTheorems, TLAPS

-----------------------------------------------------------------------------
(***************************************************************************)
(* ApsFragments implements FragmentService, for payloads whose number of   *)
(* blocks fits the byte that carries it.                                   *)
(***************************************************************************)
CountedInAByte ==
  /\ AsduBlocks \in Seq(1 .. 255)
  /\ MaxBlocks \in Nat
  /\ BufferBlocks \in Nat

\* A payload of at most 255 blocks announces all of them.
LEMMA TotalIsBlocks ==
  ASSUME CountedInAByte, NEW a \in FragmentAsdus
  PROVE  TotalOf(a) = AsduBlocks[a] /\ AsduBlocks[a] \in 1 .. 255 /\ a # NoAsdu /\ a \in Nat
<1>1. AsduBlocks[a] \in 1 .. 255 /\ a \in Nat /\ a # 0
  <2>1. Len(AsduBlocks) \in Nat /\ a \in 1 .. Len(AsduBlocks)
    BY DEF CountedInAByte, FragmentAsdus
  <2>2. AsduBlocks[a] \in 1 .. 255
    BY <2>1, ElementOfSeq DEF CountedInAByte
  <2> QED
    BY <2>1, <2>2
<1>2. \A n \in 1 .. 255 : n % 256 = n
  OBVIOUS
<1> DEFINE n == AsduBlocks[a]
<1>3. n \in 1 .. 255
  BY <1>1
<1> HIDE DEF n
<1>4. n % 256 = n
  BY <1>2, <1>3
<1>5. n # 0
  BY <1>3
<1>6. TotalOf(a) = n
  BY <1>4, <1>5 DEF TotalOf, n
<1> QED
  BY <1>1, <1>6 DEF NoAsdu, n

(***************************************************************************)
(* As many blocks below n as there are numbers below n are all of them.    *)
(***************************************************************************)
LEMMA FullSet ==
  ASSUME NEW n \in Nat, NEW S \in SUBSET (0 .. n - 1), Cardinality(S) >= n
  PROVE  S = 0 .. n - 1
<1>1. IsFiniteSet(0 .. n - 1) /\ Cardinality(0 .. n - 1) = n
  <2>1. Cardinality(0 .. n - 1) = IF 0 > n - 1 THEN 0 ELSE (n - 1) - 0 + 1
    BY FS_Interval
  <2> QED
    BY <2>1, FS_Interval
<1>2. IsFiniteSet(S) /\ Cardinality(S) <= n /\ (Cardinality(S) = n => S = 0 .. n - 1)
  BY <1>1, FS_Subset
<1>3. Cardinality(S) \in Nat
  BY <1>2, FS_CardinalityType
<1> QED
  BY <1>2, <1>3

\* At the start nothing is collected.
LEMMA FragmentStart ==
  ASSUME CountedInAByte, FragmentInit
  PROVE  FragmentInv /\ Promise!ServiceInit
<1>1. FragmentInv
  <2>1. \A a \in FragmentAsdus : produced[a] = 0 /\ 0 <= TotalOf(a)
    <3> SUFFICES ASSUME NEW a \in FragmentAsdus PROVE produced[a] = 0 /\ 0 <= TotalOf(a)
      OBVIOUS
    <3>1. produced[a] = 0
      BY DEF FragmentInit
    <3>2. TotalOf(a) \in 1 .. 255
      BY TotalIsBlocks
    <3> QED
      BY <3>1, <3>2
  <2> QED
    BY <2>1 DEF FragmentInit, FragmentInv, BlocksInPlace, Vacant, NoAsdu
<1>2. Promise!ServiceInit
  <2>1. {a \in FragmentAsdus : produced[a] > 0} = {}
    BY DEF FragmentInit
  <2>2. handedUp = {}
    BY DEF FragmentInit
  <2> QED
    BY <2>1, <2>2 DEF Promise!ServiceInit
<1> QED
  BY <1>1, <1>2

(***************************************************************************)
(* The fragmenter only counts on.                                          *)
(***************************************************************************)
LEMMA FragmentProduced ==
  ASSUME CountedInAByte, FragmentInv, NEW a \in FragmentAsdus, NextFragment(a)
  PROVE  FragmentInv' /\ Promise!Begin(a)
<1>1. TotalOf(a) \in Nat
  BY TotalIsBlocks
<1>2. produced' = [produced EXCEPT ![a] = @ + 1]
      /\ UNCHANGED <<collecting, total, got, buffer, handedUp>>
  BY DEF NextFragment
<1>3. produced' \in [FragmentAsdus -> Nat]
  BY <1>2 DEF FragmentInv
<1>4. \A b \in FragmentAsdus : produced'[b] >= produced[b] /\ produced'[b] <= TotalOf(b)
  <2> SUFFICES ASSUME NEW b \in FragmentAsdus
               PROVE  produced'[b] >= produced[b] /\ produced'[b] <= TotalOf(b)
    OBVIOUS
  <2>1. CASE b = a
    BY <2>1, <1>1, <1>2 DEF FragmentInv, NextFragment
  <2>2. CASE b # a
    BY <2>2, <1>2 DEF FragmentInv
  <2> QED
    BY <2>1, <2>2
<1>5. BlocksInPlace'
  <2> SUFFICES ASSUME collecting # NoAsdu
               PROVE  /\ total \in {0, TotalOf(collecting)}
                      /\ \A i \in got :
                           /\ i \in 0 .. BufferBlocks - 1 /\ i < produced'[collecting]
                           /\ buffer[i] = [asdu |-> collecting, index |-> i]
    BY <1>2 DEF BlocksInPlace
  <2>1. collecting \in FragmentAsdus
    BY DEF FragmentInv
  <2>2. produced[collecting] \in Nat /\ produced'[collecting] \in Nat
        /\ produced'[collecting] >= produced[collecting]
    BY <2>1, <1>3, <1>4 DEF FragmentInv
  <2>3. \A i \in got : i \in Nat /\ i < produced[collecting] => i < produced'[collecting]
    BY <2>2
  <2> QED
    BY <2>3 DEF FragmentInv, BlocksInPlace
<1>6. FragmentInv'
  BY <1>2, <1>3, <1>4, <1>5 DEF FragmentInv
<1>7. {b \in FragmentAsdus : produced'[b] > 0} = {b \in FragmentAsdus : produced[b] > 0} \cup {a}
  <2>1. \A b \in FragmentAsdus : b # a => produced'[b] = produced[b]
    BY <1>2 DEF FragmentInv
  <2>2. produced'[a] > 0
    BY <1>2 DEF FragmentInv
  <2> QED
    BY <2>1, <2>2
<1>8. Promise!Begin(a)
  BY <1>2, <1>7 DEF Promise!Begin, Delivered
<1> QED
  BY <1>6, <1>8

(***************************************************************************)
(* The highest block stored, when all below n are.                         *)
(***************************************************************************)
LEMMA ExtentOfAll ==
  ASSUME NEW n \in Nat, n # 0
  PROVE  Extent(0 .. n - 1) = n
<1>1. n - 1 \in 0 .. n - 1 /\ \A j \in 0 .. n - 1 : j <= n - 1
  OBVIOUS
<1>2. \A i \in 0 .. n - 1 : (\A j \in 0 .. n - 1 : j <= i) => i = n - 1
  <2> SUFFICES ASSUME NEW i \in 0 .. n - 1, \A j \in 0 .. n - 1 : j <= i
               PROVE  i = n - 1
    OBVIOUS
  <2>1. n - 1 <= i /\ i <= n - 1
    BY <1>1
  <2> QED
    BY <2>1
<1>3. (CHOOSE i \in 0 .. n - 1 : \A j \in 0 .. n - 1 : j <= i) = n - 1
  BY <1>1, <1>2
<1> QED
  BY <1>1, <1>3 DEF Extent

(***************************************************************************)
(* A whole payload is told apart from every other one by its blocks.       *)
(***************************************************************************)
LEMMA WholeIsDelivered ==
  ASSUME CountedInAByte, NEW a \in FragmentAsdus
  PROVE  Delivered(WholeAsdu(a)) = a
<1>1. \A b \in FragmentAsdus : AsduBlocks[b] \in 1 .. 255
  BY TotalIsBlocks
<1>2. ASSUME NEW b \in FragmentAsdus, WholeAsdu(a) = WholeAsdu(b) PROVE b = a
  <2>1. 0 \in 0 .. AsduBlocks[a] - 1 /\ 0 \in 0 .. AsduBlocks[b] - 1
    BY <1>1
  <2>2. WholeAsdu(a)[0].asdu = a /\ WholeAsdu(b)[0].asdu = b
    BY <2>1 DEF WholeAsdu
  <2> QED
    BY <2>2, <1>2
<1>3. (CHOOSE b \in FragmentAsdus : WholeAsdu(a) = WholeAsdu(b)) = a
  BY <1>2
<1> QED
  BY <1>3 DEF Delivered

(***************************************************************************)
(* A block that arrives: the buffer stays in place, and a report means     *)
(* that all blocks of the payload are in it.                               *)
(***************************************************************************)
LEMMA FragmentArrived ==
  ASSUME CountedInAByte, FragmentInv, NEW a \in FragmentAsdus,
         NEW i \in 0 .. AsduBlocks[a] - 1, AddBlock(a, i)
  PROVE  FragmentInv' /\ (Promise!HandUp(a) \/ UNCHANGED Promise!service)
<1> DEFINE fits == i < MaxBlocks /\ i < BufferBlocks
           got2 == IF fits THEN Kept(a) \cup {i} ELSE Kept(a)
           total2 == IF i = 0 THEN TotalOf(a) ELSE KeptTotal(a)
           buffer2 == IF fits THEN [buffer EXCEPT ![i] = [asdu |-> a, index |-> i]]
                      ELSE buffer
           complete == total2 > 0 /\ Cardinality(got2) >= total2
           T == AsduBlocks[a]
<1>1. /\ i < produced[a] /\ UNCHANGED produced
      /\ collecting' = a /\ got' = got2 /\ total' = total2 /\ buffer' = buffer2
      /\ handedUp' = IF complete THEN handedUp \cup {Content(buffer2, Extent(got2))}
                     ELSE handedUp
  BY DEF AddBlock
<1>2. T \in 1 .. 255 /\ TotalOf(a) = T /\ a # NoAsdu /\ a \in Nat
  BY TotalIsBlocks
<1>3. i \in Nat /\ produced[a] \in Nat /\ produced[a] <= T /\ BufferBlocks \in Nat
  BY <1>2 DEF FragmentInv, CountedInAByte
<1>4. fits => i \in 0 .. BufferBlocks - 1
  BY <1>3
<1>5. \A j \in Kept(a) : /\ j \in 0 .. BufferBlocks - 1 /\ j < produced[a]
                         /\ buffer[j] = [asdu |-> a, index |-> j]
  BY <1>2 DEF FragmentInv, BlocksInPlace, Kept
<1>6. Kept(a) \in SUBSET Nat
  BY DEF FragmentInv, Kept
<1>7. total2 \in {0, T}
  BY <1>2 DEF FragmentInv, BlocksInPlace, KeptTotal
<1>8. buffer \in [0 .. BufferBlocks - 1 -> [asdu : Nat, index : Nat]]
  BY DEF FragmentInv
<1>9. buffer2 \in [0 .. BufferBlocks - 1 -> [asdu : Nat, index : Nat]]
  BY <1>2, <1>3, <1>8
<1>10. got2 \in SUBSET Nat
  BY <1>3, <1>6
<1>11. \A j \in got2 : /\ j \in 0 .. BufferBlocks - 1 /\ j < produced[a]
                       /\ buffer2[j] = [asdu |-> a, index |-> j]
  <2> SUFFICES ASSUME NEW j \in got2
               PROVE  /\ j \in 0 .. BufferBlocks - 1 /\ j < produced[a]
                      /\ buffer2[j] = [asdu |-> a, index |-> j]
    OBVIOUS
  <2>1. CASE fits /\ j = i
    BY <2>1, <1>1, <1>4, <1>8
  <2>2. CASE ~(fits /\ j = i)
    <3>1. j \in Kept(a)
      BY <2>2
    <3>2. buffer2[j] = buffer[j]
      BY <3>1, <2>2, <1>5, <1>8
    <3> QED
      BY <3>1, <3>2, <1>5
  <2> QED
    BY <2>1, <2>2
<1> HIDE DEF got2, total2, buffer2, fits
<1>12. FragmentInv'
  <2>1. BlocksInPlace'
    BY <1>1, <1>2, <1>7, <1>11 DEF BlocksInPlace
  <2> QED
    BY <2>1, <1>1, <1>9, <1>10 DEF FragmentInv
<1>13. UNCHANGED {b \in FragmentAsdus : produced[b] > 0}
  BY <1>1
<1>14. CASE complete
  <2>1. got2 \in SUBSET (0 .. T - 1)
    <3> SUFFICES ASSUME NEW j \in got2 PROVE j \in 0 .. T - 1
      OBVIOUS
    <3>1. j \in Nat /\ j < produced[a]
      BY <1>10, <1>11
    <3> QED
      BY <3>1, <1>2, <1>3
  <2>2. total2 = T
    BY <1>7, <1>14
  <2>3. got2 = 0 .. T - 1
    <3>1. T \in Nat /\ Cardinality(got2) >= T
      BY <1>2, <1>14, <2>2
    <3> HIDE DEF T
    <3> QED
      BY <2>1, <3>1, FullSet
  <2>4. Extent(got2) = T
    <3>1. T \in Nat /\ T # 0
      BY <1>2
    <3> HIDE DEF T
    <3> QED
      BY <2>3, <3>1, ExtentOfAll
  <2>5. Content(buffer2, T) = WholeAsdu(a)
    BY <2>3, <1>11 DEF Content, WholeAsdu
  <2>6. handedUp' = handedUp \cup {WholeAsdu(a)}
    BY <1>1, <1>14, <2>4, <2>5
  <2>7. {Delivered(c) : c \in handedUp}' = {Delivered(c) : c \in handedUp} \cup {a}
    <3>1. {Delivered(c) : c \in handedUp}' = {Delivered(c) : c \in handedUp'}
      BY DEF Delivered, WholeAsdu
    <3>2. Delivered(WholeAsdu(a)) = a
      BY WholeIsDelivered
    <3> QED
      BY <2>6, <3>1, <3>2
  <2>8. a \in {b \in FragmentAsdus : produced[b] > 0}
    BY <1>1, <1>3
  <2>9. Promise!HandUp(a)
    BY <2>7, <2>8, <1>13 DEF Promise!HandUp
  <2> QED
    BY <2>9, <1>12
<1>15. CASE ~complete
  <2>1. UNCHANGED handedUp
    BY <1>1, <1>15
  <2>2. {Delivered(c) : c \in handedUp}' = {Delivered(c) : c \in handedUp}
    BY <2>1 DEF Delivered, WholeAsdu
  <2>3. UNCHANGED Promise!service
    BY <2>2, <1>13 DEF Promise!service
  <2> QED
    BY <2>3, <1>12
<1> QED
  BY <1>14, <1>15

(***************************************************************************)
(* Whatever the network loses, repeats or reorders, the fragmenter and the *)
(* reassembler implement the abstract service (addBlock).                  *)
(***************************************************************************)
THEOREM FragmentsImplementService ==
  ASSUME CountedInAByte
  PROVE  FragmentSpec => HandedUpWhole
<1>1. FragmentInit => FragmentInv /\ Promise!ServiceInit
  BY FragmentStart
<1>2. FragmentInv /\ [FragmentNext]_fragmentVars
        => FragmentInv' /\ [Promise!ServiceNext]_(Promise!service)
  <2> SUFFICES ASSUME FragmentInv, [FragmentNext]_fragmentVars
               PROVE  FragmentInv' /\ [Promise!ServiceNext]_(Promise!service)
    OBVIOUS
  <2>1. ASSUME NEW a \in FragmentAsdus, NextFragment(a)
        PROVE  FragmentInv' /\ [Promise!ServiceNext]_(Promise!service)
    BY <2>1, FragmentProduced DEF Promise!ServiceNext
  <2>2. ASSUME NEW a \in FragmentAsdus, NEW i \in 0 .. AsduBlocks[a] - 1, AddBlock(a, i)
        PROVE  FragmentInv' /\ [Promise!ServiceNext]_(Promise!service)
    BY <2>2, FragmentArrived DEF Promise!ServiceNext
  <2>3. CASE UNCHANGED fragmentVars
    <3>1. UNCHANGED <<produced, collecting, total, got, buffer, handedUp>>
      BY <2>3 DEF fragmentVars
    <3>2. FragmentInv'
      BY <3>1 DEF FragmentInv, BlocksInPlace
    <3>3. UNCHANGED Promise!service
      BY <3>1 DEF Promise!service, Delivered, WholeAsdu
    <3> QED
      BY <3>2, <3>3
  <2> QED
    BY <2>1, <2>2, <2>3 DEF FragmentNext
<1> QED
  BY <1>1, <1>2, PTL DEF FragmentSpec, HandedUpWhole, Promise!ServiceSpec
-----------------------------------------------------------------------------
(***************************************************************************)
(* KeyTransport.                                                           *)
(***************************************************************************)
LEMMA KeyInvStep ==
  ASSUME KeyInv, [KeyNext]_keyVars
  PROVE  KeyInv'
<1> USE DEF KeyInv, WaitingIsServed
<1>1. ASSUME NEW d \in Joiners, NEW b \in BOOLEAN, Associate(d, b) PROVE KeyInv'
  <2>1. keyXport' = [joiner |-> {d}, tries |-> 0]
    BY <1>1 DEF Associate, TransportTo
  <2>2. displaced' = (displaced \cup keyXport.joiner) \ {d} /\ abandoned' = abandoned \ {d}
    BY <1>1 DEF Associate
  <2>3. member' = [member EXCEPT ![d].joined = TRUE, ![d].announced = FALSE]
        \/ member' = member
    BY <1>1 DEF Associate
  <2>4. member' \in [Joiners -> [joined : BOOLEAN, key : BOOLEAN, announced : BOOLEAN]]
    <3> DEFINE Records == [joined : BOOLEAN, key : BOOLEAN, announced : BOOLEAN]
    <3>1. member \in [Joiners -> Records]
      OBVIOUS
    <3>2. [member[d] EXCEPT !.joined = TRUE, !.announced = FALSE] \in Records
      BY <3>1
    <3>3. member' = [member EXCEPT ![d] = [@ EXCEPT !.joined = TRUE, !.announced = FALSE]]
          \/ member' = member
      BY <2>3
    <3> HIDE DEF Records
    <3>4. member' \in [Joiners -> Records]
      BY <3>1, <3>2, <3>3
    <3> QED
      BY <3>4 DEF Records
  <2>5. \A e \in Joiners : e # d => member'[e] = member[e]
    BY <2>3
  <2>6. WaitingIsServed'
    BY <2>1, <2>2, <2>5
  <2> QED
    BY <2>1, <2>4, <2>6
<1>2. ASSUME NEW b \in BOOLEAN, ServiceKeyTransport(b) PROVE KeyInv'
  <2>1. PICK d \in keyXport.joiner :
          /\ keyXport' = [keyXport EXCEPT !.tries = @ + 1]
          /\ member' = IF b THEN Installs(d) ELSE member
    BY <1>2 DEF ServiceKeyTransport
  <2>2. UNCHANGED displaced /\ UNCHANGED abandoned
    BY <1>2 DEF ServiceKeyTransport
  <2>3. keyXport' \in [joiner : SUBSET Joiners, tries : Nat] /\ keyXport'.joiner = keyXport.joiner
    BY <2>1
  <2>4. d \in Joiners
    BY <2>1
  <2>5. member' = [member EXCEPT ![d].key = @ \/ member[d].joined] \/ member' = member
    BY <2>1 DEF Installs
  <2>6. member' \in [Joiners -> [joined : BOOLEAN, key : BOOLEAN, announced : BOOLEAN]]
    BY <2>4, <2>5
  <2>7. \A e \in Joiners : member'[e].joined = member[e].joined /\ (member[e].key => member'[e].key)
    BY <2>4, <2>5
  <2>8. WaitingIsServed'
    BY <2>2, <2>3, <2>7
  <2> QED
    BY <2>3, <2>6, <2>8
<1>3. CASE NoConfirmation \/ TrustCenterRestarts
  <2>1. keyXport' = NoTransport /\ abandoned' = abandoned \cup keyXport.joiner
        /\ UNCHANGED member /\ UNCHANGED displaced
    BY <1>3 DEF NoConfirmation, TrustCenterRestarts
  <2>2. keyXport' \in [joiner : SUBSET Joiners, tries : Nat] /\ keyXport'.joiner = {}
    BY <2>1 DEF NoTransport
  <2>3. WaitingIsServed'
    BY <2>1
  <2> QED
    BY <2>1, <2>2, <2>3
<1>4. ASSUME NEW d \in Joiners, NEW b \in BOOLEAN, SecuredAnnounce(d, b) PROVE KeyInv'
  <2>1. member[d].key /\ member' = [member EXCEPT ![d].announced = TRUE]
        /\ UNCHANGED displaced /\ UNCHANGED abandoned
    BY <1>4 DEF SecuredAnnounce
  <2>2. \/ keyXport' = [keyXport EXCEPT !.joiner = {}] /\ d \in keyXport.joiner
        \/ keyXport' = keyXport
    BY <1>4 DEF SecuredAnnounce, Confirmed
  <2>3. keyXport' \in [joiner : SUBSET Joiners, tries : Nat]
        /\ \A c, e \in keyXport'.joiner : c = e
    BY <2>2
  <2>4. member' \in [Joiners -> [joined : BOOLEAN, key : BOOLEAN, announced : BOOLEAN]]
    BY <2>1
  <2>5. \A e \in Joiners : member'[e].joined = member[e].joined /\ member'[e].key = member[e].key
    BY <2>1
  <2>6. \A e \in keyXport.joiner : e = d \/ e \in keyXport'.joiner
    BY <2>2
  <2>7. WaitingIsServed'
    <3> SUFFICES ASSUME NEW e \in Joiners, member'[e].joined, ~member'[e].key
                 PROVE  e \in keyXport'.joiner \/ e \in displaced \/ e \in abandoned
      BY <2>1
    <3>1. e # d
      BY <2>1, <2>5
    <3> QED
      BY <3>1, <2>5, <2>6
  <2> QED
    BY <2>3, <2>4, <2>7
<1>5. ASSUME NEW d \in Joiners, LeaveToScan(d) \/ JoinerRestarts(d) PROVE KeyInv'
  <2>1. UNCHANGED keyXport /\ UNCHANGED displaced /\ UNCHANGED abandoned
    BY <1>5 DEF LeaveToScan, JoinerRestarts
  <2>2. member' = [member EXCEPT ![d].joined = FALSE] \/ member' = [member EXCEPT ![d] = Outside]
    <3>1. LeaveToScan(d) => member' = [member EXCEPT ![d].joined = FALSE]
      BY Zenon DEF LeaveToScan
    <3>2. JoinerRestarts(d) => member' = [member EXCEPT ![d] = Outside]
      BY Zenon DEF JoinerRestarts
    <3> QED
      BY <1>5, <3>1, <3>2, Zenon
  <2>3. member' \in [Joiners -> [joined : BOOLEAN, key : BOOLEAN, announced : BOOLEAN]]
    <3>1. Outside \in [joined : BOOLEAN, key : BOOLEAN, announced : BOOLEAN]
      BY DEF Outside
    <3>2. CASE member' = [member EXCEPT ![d].joined = FALSE]
      BY <3>2
    <3>3. CASE member' = [member EXCEPT ![d] = Outside]
      BY <3>1, <3>3
    <3> QED
      BY <2>2, <3>2, <3>3
  <2>4. ~member'[d].joined /\ \A e \in Joiners : e # d => member'[e] = member[e]
    <3>1. \A e \in Joiners : e # d => member'[e] = member[e]
      <4>1. CASE member' = [member EXCEPT ![d].joined = FALSE]
        BY <4>1
      <4>2. CASE member' = [member EXCEPT ![d] = Outside]
        BY <4>2
      <4> QED
        BY <4>1, <4>2, <2>2
    <3>2. member'[d] = [member[d] EXCEPT !.joined = FALSE] \/ member'[d] = Outside
      BY <2>2
    <3>3. member[d] \in [joined : BOOLEAN, key : BOOLEAN, announced : BOOLEAN]
      OBVIOUS
    <3>4. member'[d].joined = FALSE
      BY <3>2, <3>3 DEF Outside
    <3> QED
      BY <3>1, <3>4
  <2>5. WaitingIsServed'
    BY <2>1, <2>4
  <2> QED
    BY <2>1, <2>3, <2>5
<1>6. CASE UNCHANGED keyVars
  BY <1>6 DEF keyVars
<1> QED
  BY <1>1, <1>2, <1>3, <1>4, <1>5, <1>6 DEF KeyNext

(***************************************************************************)
(* A joined device without a key is the one the Trust Center serves, or    *)
(* one it was made to forget (onMacCommand, serviceKeyTransport).          *)
(***************************************************************************)
THEOREM WaitingIsServedAlways == KeySpec => []WaitingIsServed
<1>1. KeyInit => KeyInv
  BY DEF KeyInit, KeyInv, Outside, NoTransport, WaitingIsServed
<1>2. KeyInv /\ [KeyNext]_keyVars => KeyInv'
  BY KeyInvStep
<1>3. KeyInv => WaitingIsServed
  BY DEF KeyInv
<1> QED
  BY <1>1, <1>2, <1>3, PTL DEF KeySpec

-----------------------------------------------------------------------------
(***************************************************************************)
(* Green Power: MaxGpCounter bounds the runs; nothing below depends on it.   *)
(***************************************************************************)

\* Executing a command the sink's counter lets in uses up a commissioning
\* (checkAndUpdateCounter).
LEMMA ExecuteKeeps ==
  ASSUME MaxGpCounter \in Nat, GpInv,
         NEW g \in Gpds, NEW c \in 0 .. MaxGpCounter,
         sinkTable[g] # NotPaired, Advances(g, c), Execute(g, c)
  PROVE  /\ sinkTable' \in [Gpds -> Nat \cup {NotPaired}]
         /\ commissioned' \in [Gpds -> Nat]
         /\ executed' \in [Gpds -> [1 .. MaxGpCounter -> Nat]]
         /\ OncePerCommissioning'
         /\ CounterLeft'
<1> USE DEF NotPaired
<1>1. /\ sinkTable \in [Gpds -> Nat \cup {NotPaired}]
      /\ commissioned \in [Gpds -> Nat]
      /\ executed \in [Gpds -> [1 .. MaxGpCounter -> Nat]]
      /\ OncePerCommissioning
      /\ CounterLeft
  BY DEF GpInv
<1>2. sinkTable' = [sinkTable EXCEPT ![g] = c] /\ commissioned' = commissioned
  BY DEF Execute
<1>3. sinkTable[g] \in Nat /\ c \in Nat
  BY <1>1
<1>4. CASE c = 0
  <2>1. executed' = executed
    BY <1>4 DEF Execute
  <2>2. sinkTable[g] = 0
    BY <1>3, <1>4 DEF Advances
  <2>3. sinkTable' = sinkTable
    BY <1>1, <1>2, <1>4, <2>2
  <2> QED
    BY <1>1, <1>2, <2>1, <2>3 DEF OncePerCommissioning, CounterLeft
<1>5. CASE c # 0
  <2>1. c \in 1 .. MaxGpCounter
    BY <1>5
  <2>2. executed' = [executed EXCEPT ![g][c] = @ + 1]
    BY <1>5 DEF Execute
  <2>3. c > sinkTable[g]
    BY <1>3, <2>1 DEF Advances
  <2>4. executed[g][c] < commissioned[g] /\ executed[g][c] \in Nat /\ commissioned[g] \in Nat
    BY <1>1, <2>1, <2>3 DEF CounterLeft
  <2>5. executed' \in [Gpds -> [1 .. MaxGpCounter -> Nat]]
    <3> DEFINE row == [executed[g] EXCEPT ![c] = @ + 1]
    <3>1. executed[g] \in [1 .. MaxGpCounter -> Nat]
      BY <1>1
    <3>2. row \in [1 .. MaxGpCounter -> Nat]
      BY <2>1, <3>1
    <3>3. executed' = [executed EXCEPT ![g] = row]
      BY <2>2
    <3> HIDE DEF row
    <3> QED
      BY <1>1, <3>2, <3>3
  <2>6. \A h \in Gpds : \A b \in 1 .. MaxGpCounter :
          executed'[h][b] = IF h = g /\ b = c THEN executed[g][c] + 1 ELSE executed[h][b]
    BY <1>1, <2>1, <2>2
  <2>7. OncePerCommissioning'
    <3> SUFFICES ASSUME NEW h \in Gpds, NEW b \in 1 .. MaxGpCounter
                 PROVE  executed'[h][b] <= commissioned'[h]
      BY DEF OncePerCommissioning
    <3>1. executed[h][b] \in Nat /\ commissioned[h] \in Nat /\ executed[h][b] <= commissioned[h]
      BY <1>1 DEF OncePerCommissioning
    <3>2. executed'[h][b] = IF h = g /\ b = c THEN executed[g][c] + 1 ELSE executed[h][b]
      BY <2>6
    <3> QED
      BY <1>2, <2>4, <3>1, <3>2
  <2>8. CounterLeft'
    <3> SUFFICES ASSUME NEW h \in Gpds, NEW b \in 1 .. MaxGpCounter,
                        sinkTable'[h] # NotPaired, b > sinkTable'[h]
                 PROVE  executed'[h][b] < commissioned'[h]
      BY DEF CounterLeft
    <3>1. CASE h = g
      <4>1. b > c
        BY <1>1, <1>2, <3>1
      <4>2. b > sinkTable[g] /\ b # c
        BY <1>3, <2>3, <4>1
      <4> QED
        BY <1>1, <1>2, <2>6, <3>1, <4>2 DEF CounterLeft
    <3>2. CASE h # g
      BY <1>1, <1>2, <2>6, <3>2 DEF CounterLeft
    <3> QED
      BY <3>1, <3>2
  <2>9. sinkTable' \in [Gpds -> Nat \cup {NotPaired}]
    BY <1>1, <1>2
  <2> QED
    BY <1>1, <1>2, <2>5, <2>7, <2>8, <2>9
<1> QED
  BY <1>4, <1>5

\* Taking a device in starts its counter again, with one more commissioning
\* for every counter (commission).
LEMMA CommissionKeeps ==
  ASSUME MaxGpCounter \in Nat, GpInv, NEW g \in Gpds, CommissionGpd(g)
  PROVE  /\ sinkTable' \in [Gpds -> Nat \cup {NotPaired}]
         /\ commissioned' \in [Gpds -> Nat]
         /\ executed' \in [Gpds -> [1 .. MaxGpCounter -> Nat]]
         /\ OncePerCommissioning'
         /\ CounterLeft'
<1>1. /\ sinkTable \in [Gpds -> Nat \cup {NotPaired}]
      /\ commissioned \in [Gpds -> Nat]
      /\ executed \in [Gpds -> [1 .. MaxGpCounter -> Nat]]
      /\ OncePerCommissioning
      /\ CounterLeft
  BY DEF GpInv
<1>2. CASE /\ sinkTable' = [sinkTable EXCEPT ![g] = 0]
           /\ commissioned' = [commissioned EXCEPT ![g] = @ + 1]
           /\ UNCHANGED executed
  <2>1. sinkTable' \in [Gpds -> Nat \cup {NotPaired}] /\ commissioned' \in [Gpds -> Nat]
    BY <1>1, <1>2
  <2>2. \A h \in Gpds : \A c \in 1 .. MaxGpCounter :
          executed'[h][c] \in Nat /\ executed'[h][c] <= commissioned[h] /\ commissioned[h] \in Nat
    BY <1>1, <1>2 DEF OncePerCommissioning
  <2>3. \A h \in Gpds : h # g => commissioned'[h] = commissioned[h] /\ sinkTable'[h] = sinkTable[h]
    BY <1>1, <1>2
  <2>4. commissioned'[g] = commissioned[g] + 1
    BY <1>1, <1>2
  <2>5. OncePerCommissioning'
    BY <2>2, <2>3, <2>4 DEF OncePerCommissioning
  <2>6. CounterLeft'
    <3> SUFFICES ASSUME NEW h \in Gpds, NEW c \in 1 .. MaxGpCounter,
                        sinkTable'[h] # NotPaired, c > sinkTable'[h]
                 PROVE  executed'[h][c] < commissioned'[h]
      BY DEF CounterLeft, NotPaired
    <3>1. CASE h = g
      BY <2>2, <2>4, <3>1
    <3>2. CASE h # g
      BY <1>1, <1>2, <2>3, <3>2 DEF CounterLeft
    <3> QED
      BY <3>1, <3>2
  <2> QED
    BY <1>1, <1>2, <2>1, <2>5, <2>6
<1>3. CASE UNCHANGED sinkTable /\ UNCHANGED commissioned /\ UNCHANGED executed
  BY <1>1, <1>3 DEF OncePerCommissioning, CounterLeft
<1> QED
  BY <1>2, <1>3 DEF CommissionGpd

\* The frames a device broadcasts stay within the bound on the counters.
LEMMA CommandIsFrame ==
  ASSUME MaxGpCounter \in Nat, NEW g \in Gpds, NEW c \in 0 .. MaxGpCounter
  PROVE  CountedCommand(g, c) \in GpFrames
BY DEF CountedCommand, GpFrames

\* Every step keeps the invariant of Green Power.
LEMMA GpInvStep ==
  ASSUME MaxGpCounter \in Nat, GpInv, [GpNext]_gpVars
  PROVE  GpInv'
<1>1. /\ lastSent \in [Gpds -> GpFrames]
      /\ notes \subseteq [proxy : Proxies, frame : GpFrames]
      /\ sinkTable \in [Gpds -> Nat \cup {NotPaired}]
      /\ commissioned \in [Gpds -> Nat]
      /\ executed \in [Gpds -> [1 .. MaxGpCounter -> Nat]]
      /\ OncePerCommissioning
      /\ CounterLeft
  BY DEF GpInv
<1>2. ASSUME UNCHANGED sinkTable, UNCHANGED commissioned, UNCHANGED executed
      PROVE  /\ sinkTable' \in [Gpds -> Nat \cup {NotPaired}]
             /\ commissioned' \in [Gpds -> Nat]
             /\ executed' \in [Gpds -> [1 .. MaxGpCounter -> Nat]]
             /\ OncePerCommissioning'
             /\ CounterLeft'
  BY <1>1, <1>2 DEF OncePerCommissioning, CounterLeft
<1>3. ASSUME NEW g \in Gpds, Operate(g) PROVE GpInv'
  <2>1. lastSent' \in [Gpds -> GpFrames]
    <3> DEFINE c == IF lastSent[g].kind = "commissioning" THEN 0
                    ELSE lastSent[g].counter + 1
    <3>1. c <= MaxGpCounter /\ lastSent' = [lastSent EXCEPT ![g] = CountedCommand(g, c)]
      BY <1>3 DEF Operate
    <3>2. lastSent[g].counter \in Nat
      BY <1>1 DEF GpFrames
    <3>3. c \in 0 .. MaxGpCounter
      BY <3>1, <3>2
    <3> HIDE DEF c
    <3> QED
      BY <1>1, <3>1, <3>3, CommandIsFrame
  <2>2. /\ UNCHANGED notes /\ UNCHANGED sinkTable /\ UNCHANGED commissioned
        /\ UNCHANGED executed
    BY <1>3 DEF Operate
  <2> QED
    BY <1>1, <1>2, <2>1, <2>2 DEF GpInv
<1>4. ASSUME NEW p \in Proxies, NEW g \in Gpds, Forward(p, g) PROVE GpInv'
  <2>1. notes' \subseteq [proxy : Proxies, frame : GpFrames]
    BY <1>1, <1>4 DEF Forward
  <2>2. /\ UNCHANGED lastSent /\ UNCHANGED sinkTable /\ UNCHANGED commissioned
        /\ UNCHANGED executed
    BY <1>4 DEF Forward
  <2> QED
    BY <1>1, <1>2, <2>1, <2>2 DEF GpInv
<1>5. ASSUME NEW n \in notes, SinkReceives(n) PROVE GpInv'
  <2>1. notes' \subseteq [proxy : Proxies, frame : GpFrames] /\ UNCHANGED lastSent
    BY <1>1, <1>5 DEF SinkReceives
  <2>2. n.frame \in GpFrames
    BY <1>1
  <2>3. n.frame.gpd \in Gpds /\ n.frame.counter \in 0 .. MaxGpCounter
    BY <2>2 DEF GpFrames
  <2>4. CASE CommissionGpd(n.frame.gpd)
    BY <1>1, <2>1, <2>3, <2>4, CommissionKeeps DEF GpInv
  <2>5. CASE HandleNotification(n.frame)
    <3>1. CASE /\ n.frame.gpd \in Paired
               /\ Advances(n.frame.gpd, n.frame.counter)
               /\ Execute(n.frame.gpd, n.frame.counter)
      <4>1. sinkTable[n.frame.gpd] # NotPaired
        BY <3>1 DEF Paired
      <4> QED
        BY <1>1, <2>1, <2>3, <3>1, <4>1, ExecuteKeeps DEF GpInv
    <3>2. CASE UNCHANGED <<sinkTable, commissioned, executed>>
      <4>1. UNCHANGED sinkTable /\ UNCHANGED commissioned /\ UNCHANGED executed
        BY <3>2
      <4> QED
        BY <1>1, <1>2, <2>1, <4>1 DEF GpInv
    <3> QED
      BY <2>5, <3>1, <3>2 DEF HandleNotification
  <2> QED
    BY <1>5, <2>4, <2>5 DEF SinkReceives
<1>6. ASSUME NEW n \in notes, LoseNotification(n) PROVE GpInv'
  <2>1. /\ notes' \subseteq notes /\ UNCHANGED lastSent /\ UNCHANGED sinkTable
        /\ UNCHANGED commissioned /\ UNCHANGED executed
    BY <1>6 DEF LoseNotification
  <2> QED
    BY <1>1, <1>2, <2>1 DEF GpInv
<1>7. ASSUME NEW g \in Gpds, SinkHears(g) PROVE GpInv'
  <2>1. lastSent[g].counter \in 0 .. MaxGpCounter
    BY <1>1 DEF GpFrames
  <2>2. /\ sinkTable[g] # NotPaired /\ Advances(g, lastSent[g].counter)
        /\ Execute(g, lastSent[g].counter)
        /\ UNCHANGED lastSent /\ UNCHANGED notes
    BY <1>7 DEF SinkHears, Paired
  <2> QED
    BY <1>1, <2>1, <2>2, ExecuteKeeps DEF GpInv
<1>8. ASSUME NEW g \in Gpds, RemoveGpd(g) PROVE GpInv'
  <2>1. /\ sinkTable' = [sinkTable EXCEPT ![g] = NotPaired]
        /\ UNCHANGED lastSent /\ UNCHANGED notes /\ UNCHANGED commissioned
        /\ UNCHANGED executed
    BY <1>8 DEF RemoveGpd
  <2>2. sinkTable' \in [Gpds -> Nat \cup {NotPaired}]
    BY <1>1, <2>1
  <2>3. CounterLeft'
    BY <1>1, <2>1 DEF CounterLeft
  <2>4. OncePerCommissioning'
    BY <1>1, <2>1 DEF OncePerCommissioning
  <2> QED
    BY <1>1, <2>1, <2>2, <2>3, <2>4 DEF GpInv
<1>9. CASE UNCHANGED gpVars
  <2>1. /\ UNCHANGED lastSent /\ UNCHANGED notes /\ UNCHANGED sinkTable
        /\ UNCHANGED commissioned /\ UNCHANGED executed
    BY <1>9 DEF gpVars
  <2> QED
    BY <1>1, <1>2, <2>1 DEF GpInv
<1> QED
  BY <1>3, <1>4, <1>5, <1>6, <1>7, <1>8, <1>9 DEF GpNext

(***************************************************************************)
(* A counted command of a Green Power device is executed at most once for  *)
(* each time the sink took the device in (checkAndUpdateCounter,           *)
(* handleNotification, onMacGp), for any number of devices and proxies and *)
(* any size of their tables.                                               *)
(***************************************************************************)
THEOREM OncePerCommissioningAlways ==
  ASSUME MaxGpCounter \in Nat
  PROVE  GpSpec => []OncePerCommissioning
<1>1. GpInit => GpInv
  <2> SUFFICES ASSUME GpInit PROVE GpInv
    OBVIOUS
  <2>1. lastSent \in [Gpds -> GpFrames]
    BY DEF GpInit, CommissioningFrame, GpFrames
  <2>2. notes = {} /\ sinkTable = [g \in Gpds |-> NotPaired]
        /\ commissioned = [g \in Gpds |-> 0]
        /\ executed = [g \in Gpds |-> [c \in 1 .. MaxGpCounter |-> 0]]
    BY DEF GpInit
  <2>3. \A g \in Gpds : \A c \in 1 .. MaxGpCounter : executed[g][c] = 0 /\ commissioned[g] = 0
    BY <2>2
  <2>4. OncePerCommissioning
    BY <2>3 DEF OncePerCommissioning
  <2>5. CounterLeft
    BY <2>2 DEF CounterLeft
  <2>6. executed \in [Gpds -> [1 .. MaxGpCounter -> Nat]]
    BY <2>2
  <2>7. sinkTable \in [Gpds -> Nat \cup {NotPaired}] /\ commissioned \in [Gpds -> Nat]
    BY <2>2
  <2> QED
    BY <2>1, <2>2, <2>4, <2>5, <2>6, <2>7 DEF GpInv
<1>2. GpInv /\ [GpNext]_gpVars => GpInv'
  BY GpInvStep
<1>3. GpInv => OncePerCommissioning
  BY DEF GpInv
<1> QED
  BY <1>1, <1>2, <1>3, PTL DEF GpSpec

-----------------------------------------------------------------------------
(***************************************************************************)
(* The scene table, as a value: what its slots hold under a scene.         *)
(***************************************************************************)
Holding(slots, k) == {s \in 1 .. SceneSlots : slots[s].used /\ slots[s].key = k}

Unique(slots) ==
  \A s, t \in 1 .. SceneSlots :
    slots[s].used /\ slots[t].used /\ slots[s].key = slots[t].key => s = t

Captures(slots, last) ==
  \A k \in SceneKeys :
    \/ Holding(slots, k) = {} /\ last[k] = {}
    \/ \E s \in Holding(slots, k) : last[k] = {slots[s].state}

\* In a table without doubles the first slot found is the only one.
LEMMA RecallOfCaptures ==
  ASSUME NEW slots, NEW last, NEW k \in SceneKeys,
         Unique(slots), Captures(slots, last)
  PROVE  last[k] = IF Holding(slots, k) = {} THEN {}
                   ELSE {slots[First(Holding(slots, k))].state}
<1>1. CASE Holding(slots, k) = {}
  BY <1>1 DEF Captures
<1>2. ASSUME NEW s \in Holding(slots, k), last[k] = {slots[s].state}
      PROVE  First(Holding(slots, k)) = s
  <2>1. Holding(slots, k) = {s}
    BY DEF Unique, Holding
  <2>2. s \in Int
    BY DEF Holding
  <2> QED
    BY <2>1, <2>2 DEF First
<1> QED
  BY <1>1, <1>2 DEF Captures

\* The scan of a nonempty set of slots returns one of them.
LEMMA FirstSlot ==
  ASSUME NEW S \in SUBSET (1 .. SceneSlots), S # {}
  PROVE  First(S) \in S
<1>1. S \in SUBSET Nat
  OBVIOUS
<1> QED
  BY <1>1, FirstIsLeast

\* The invariant, said of the table as a value.
LEMMA CapturesNow ==
  ASSUME LightInv
  PROVE  Unique(sceneTable) /\ Captures(sceneTable, captured)
<1>1. Unique(sceneTable)
  BY DEF LightInv, OneSlotPerScene, Unique
<1>2. ASSUME NEW k \in SceneKeys, Holding(sceneTable, k) # {}
      PROVE  First(Holding(sceneTable, k)) \in Holding(sceneTable, k)
  BY <1>2, FirstSlot DEF Holding
<1>3. \A k \in SceneKeys : FoundAt(k) = Holding(sceneTable, k)
  BY DEF FoundAt, Holding
<1>4. \A k \in SceneKeys :
        captured[k] = IF FoundAt(k) = {} THEN {} ELSE {sceneTable[First(FoundAt(k))].state}
  BY DEF LightInv, RecallFindsLastCapture, Recalled, NotCaptured
<1> QED
  BY <1>1, <1>2, <1>3, <1>4 DEF Captures

\* And back, after a step.
LEMMA RecallThen ==
  ASSUME Unique(sceneTable'), Captures(sceneTable', captured')
  PROVE  OneSlotPerScene' /\ RecallFindsLastCapture'
<1>1. \A k \in SceneKeys :
        captured'[k] = IF Holding(sceneTable', k) = {} THEN {}
                       ELSE {sceneTable'[First(Holding(sceneTable', k))].state}
  BY RecallOfCaptures
<1>2. RecallFindsLastCapture'
  BY <1>1 DEF RecallFindsLastCapture, FoundAt, Recalled, NotCaptured, Holding
<1>3. OneSlotPerScene'
  BY DEF OneSlotPerScene, Unique
<1> QED
  BY <1>2, <1>3

\* Storing a scene writes the slot that holds it, or a free one (store).
LEMMA StoreKeeps ==
  ASSUME LightInv, NEW k \in SceneKeys, StoreScene(k)
  PROVE  /\ sceneTable' \in [1 .. SceneSlots -> SceneRecords \cup {NoScene}]
         /\ captured' \in [SceneKeys -> SUBSET [on : BOOLEAN, level : Int]]
         /\ Unique(sceneTable') /\ Captures(sceneTable', captured')
<1> DEFINE p == First(PlaceFor(k))
           r == [used |-> TRUE, key |-> k, state |-> Snapshot]
<1>1. /\ sceneTable \in [1 .. SceneSlots -> SceneRecords \cup {NoScene}]
      /\ captured \in [SceneKeys -> SUBSET [on : BOOLEAN, level : Int]]
      /\ light \in [on : BOOLEAN, level : Int, mode : ColorModes]
  BY DEF LightInv
<1>2. Unique(sceneTable) /\ Captures(sceneTable, captured)
  BY CapturesNow
<1>3. p \in PlaceFor(k) /\ p \in 1 .. SceneSlots
  <2>1. PlaceFor(k) # {} /\ PlaceFor(k) \in SUBSET (1 .. SceneSlots)
    BY DEF StoreScene, PlaceFor, FoundAt, FreeScenes
  <2> QED
    BY <2>1, FirstSlot
<1>4. sceneTable' = [sceneTable EXCEPT ![p] = r] /\ captured' = [captured EXCEPT ![k] = {Snapshot}]
  BY DEF StoreScene
<1>5. Snapshot \in [on : BOOLEAN, level : Int]
  BY <1>1 DEF Snapshot
<1>6. r \in SceneRecords /\ r.used /\ r.key = k /\ r.state = Snapshot
  BY <1>5 DEF SceneRecords
<1>7. sceneTable[p].used => sceneTable[p].key = k
  BY <1>3 DEF PlaceFor, FoundAt, FreeScenes
<1>8. \A s \in 1 .. SceneSlots : sceneTable[s].used /\ sceneTable[s].key = k => s = p
  <2> SUFFICES ASSUME NEW s \in 1 .. SceneSlots, sceneTable[s].used, sceneTable[s].key = k
               PROVE  s = p
    OBVIOUS
  <2>1. s \in FoundAt(k)
    BY DEF FoundAt
  <2>2. p \in FoundAt(k)
    BY <1>3, <2>1 DEF PlaceFor
  <2> QED
    BY <1>2, <1>3, <2>2 DEF FoundAt, Unique
<1> HIDE DEF p, r
<1>9. \A s \in 1 .. SceneSlots : sceneTable'[s] = IF s = p THEN r ELSE sceneTable[s]
  BY <1>1, <1>4
<1>10. Unique(sceneTable')
  BY <1>2, <1>6, <1>8, <1>9 DEF Unique
<1>11. ASSUME NEW j \in SceneKeys
       PROVE  \/ Holding(sceneTable', j) = {} /\ captured'[j] = {}
              \/ \E s \in Holding(sceneTable', j) : captured'[j] = {sceneTable'[s].state}
  <2>1. CASE j = k
    <3>1. p \in Holding(sceneTable', j)
      BY <1>3, <1>6, <1>9, <2>1 DEF Holding
    <3>2. captured'[j] = {Snapshot} /\ sceneTable'[p].state = Snapshot
      BY <1>1, <1>3, <1>4, <1>6, <1>9, <2>1
    <3> QED
      BY <3>1, <3>2
  <2>2. CASE j # k
    <3>1. Holding(sceneTable', j) = Holding(sceneTable, j)
      BY <1>3, <1>6, <1>7, <1>9, <2>2 DEF Holding
    <3>2. captured'[j] = captured[j]
      BY <1>1, <1>4, <2>2
    <3>3. \A s \in Holding(sceneTable, j) : sceneTable'[s] = sceneTable[s]
      BY <1>7, <1>9, <2>2 DEF Holding
    <3> QED
      BY <1>2, <3>1, <3>2, <3>3 DEF Captures
  <2> QED
    BY <2>1, <2>2
<1>12. sceneTable' \in [1 .. SceneSlots -> SceneRecords \cup {NoScene}]
  BY <1>1, <1>3, <1>4, <1>6
<1>13. captured' \in [SceneKeys -> SUBSET [on : BOOLEAN, level : Int]]
  BY <1>1, <1>4, <1>5
<1> QED
  BY <1>10, <1>11, <1>12, <1>13 DEF Captures

\* Removing scenes empties the slots that hold them (remove, removeAll): those
\* of the keys in gone.
LEMMA RemoveKeeps ==
  ASSUME LightInv, NEW gone \in SUBSET SceneKeys,
         sceneTable' \in [1 .. SceneSlots -> SceneRecords \cup {NoScene}],
         \A s \in 1 .. SceneSlots :
           sceneTable'[s] = IF sceneTable[s].used /\ sceneTable[s].key \in gone
                            THEN NoScene ELSE sceneTable[s],
         \A k \in SceneKeys :
           captured'[k] = IF k \in gone THEN {} ELSE captured[k]
  PROVE  Unique(sceneTable') /\ Captures(sceneTable', captured')
<1>1. Unique(sceneTable) /\ Captures(sceneTable, captured)
  BY CapturesNow
<1>2. ~NoScene.used
  BY DEF NoScene
<1>3. Unique(sceneTable')
  BY <1>1, <1>2 DEF Unique
<1>4. ASSUME NEW j \in SceneKeys
      PROVE  \/ Holding(sceneTable', j) = {} /\ captured'[j] = {}
             \/ \E s \in Holding(sceneTable', j) : captured'[j] = {sceneTable'[s].state}
  <2>1. CASE j \in gone
    BY <1>2, <2>1 DEF Holding
  <2>2. CASE j \notin gone
    <3>1. Holding(sceneTable', j) = Holding(sceneTable, j)
      BY <1>2, <2>2 DEF Holding
    <3>2. \A s \in Holding(sceneTable, j) : sceneTable'[s] = sceneTable[s]
      BY <2>2 DEF Holding
    <3> QED
      BY <1>1, <2>2, <3>1, <3>2 DEF Captures
  <2> QED
    BY <2>1, <2>2
<1> QED
  BY <1>3, <1>4 DEF Captures

\* Switching, dimming and colouring leave the light's state well formed.
LEMMA LightKeepsType ==
  ASSUME LightInv, MaxLevel \in Int,
         \/ \E b \in BOOLEAN : OnOff(b)
         \/ \E n \in Int : MoveToLevel(n)
         \/ \E m \in ColorModes : MoveToColor(m)
  PROVE  light' \in [on : BOOLEAN, level : Int, mode : ColorModes]
<1>1. light \in [on : BOOLEAN, level : Int, mode : ColorModes]
  BY DEF LightInv
<1>2. ASSUME NEW b \in BOOLEAN, OnOff(b)
      PROVE  light' \in [on : BOOLEAN, level : Int, mode : ColorModes]
  BY <1>1, <1>2 DEF OnOff
<1>3. ASSUME NEW n \in Int, MoveToLevel(n)
      PROVE  light' \in [on : BOOLEAN, level : Int, mode : ColorModes]
  BY <1>1, <1>3 DEF MoveToLevel
<1>4. ASSUME NEW m \in ColorModes, MoveToColor(m)
      PROVE  light' \in [on : BOOLEAN, level : Int, mode : ColorModes]
  BY <1>1, <1>4 DEF MoveToColor
<1> QED
  BY <1>2, <1>3, <1>4

\* Every step keeps the invariant of the light.
LEMMA LightInvStep ==
  ASSUME LightInv, MaxLevel \in Nat, [LightNext]_lightVars
  PROVE  LightInv'
<1> DEFINE LightType == [on : BOOLEAN, level : Int, mode : ColorModes]
<1>1. /\ light \in LightType
      /\ sceneTable \in [1 .. SceneSlots -> SceneRecords \cup {NoScene}]
      /\ captured \in [SceneKeys -> SUBSET [on : BOOLEAN, level : Int]]
  BY DEF LightInv
<1>2. ASSUME light' \in LightType, UNCHANGED sceneTable, UNCHANGED captured
      PROVE  LightInv'
  BY <1>2 DEF LightInv, OneSlotPerScene, RecallFindsLastCapture, FoundAt, Recalled
<1>3. ASSUME UNCHANGED light,
             sceneTable' \in [1 .. SceneSlots -> SceneRecords \cup {NoScene}],
             captured' \in [SceneKeys -> SUBSET [on : BOOLEAN, level : Int]],
             Unique(sceneTable'), Captures(sceneTable', captured')
      PROVE  LightInv'
  BY <1>1, <1>3, RecallThen DEF LightInv
<1>4. ASSUME \/ \E b \in BOOLEAN : OnOff(b)
             \/ \E n \in Int : MoveToLevel(n)
             \/ \E m \in ColorModes : MoveToColor(m)
      PROVE  LightInv'
  <2>1. light' \in LightType
    BY <1>4, LightKeepsType
  <2>2. UNCHANGED sceneTable /\ UNCHANGED captured
    BY <1>4 DEF OnOff, MoveToLevel, MoveToColor, OnlyLight
  <2> QED
    BY <1>2, <2>1, <2>2
<1>5. ASSUME Toggle PROVE LightInv'
  <2>1. (~light.on) \in BOOLEAN
    OBVIOUS
  <2> QED
    BY <1>4, <1>5, <2>1, Zenon DEF Toggle
<1>6. ASSUME NEW n \in 0 .. MaxLevel + 1, MoveToLevel(n) \/ StepUp(n) \/ StepDown(n)
      PROVE  LightInv'
  <2>1. light.level \in Int /\ n \in Int
    BY <1>1
  <2>2. light.level + n \in Int /\ (IF n >= light.level THEN 0 ELSE light.level - n) \in Int
    BY <2>1
  <2>3. \E m \in Int : MoveToLevel(m)
    BY <1>6, <2>1, <2>2, Zenon DEF StepUp, StepDown
  <2> QED
    BY <1>4, <2>3
<1>7. ASSUME UNCHANGED light /\ UNCHANGED sceneTable /\ UNCHANGED captured
      PROVE  LightInv'
  BY <1>1, <1>2, <1>7
<1>8. ASSUME \/ \E t \in 0 .. MaxIdentify : IdentifyFor(t)
             \/ TickIdentify
             \/ \E g \in GroupIds : AddGroup(g) \/ RemoveGroup(g)
             \/ RemoveAllGroups
             \/ UNCHANGED lightVars
      PROVE  LightInv'
  <2>1. UNCHANGED light /\ UNCHANGED sceneTable /\ UNCHANGED captured
    BY <1>8 DEF IdentifyFor, TickIdentify, AddGroup, RemoveGroup, RemoveAllGroups,
                OnlyGroups, lightVars
  <2> QED
    BY <1>7, <2>1
<1>9. ASSUME NEW k \in SceneKeys, StoreScene(k) PROVE LightInv'
  <2>1. UNCHANGED light
    BY <1>9 DEF StoreScene, OnlyScenes
  <2> QED
    BY <1>3, <1>9, <2>1, StoreKeeps
<1>10. ASSUME NEW k \in SceneKeys, RecallScene(k) PROVE LightInv'
  <2>1. UNCHANGED sceneTable /\ UNCHANGED captured
    BY <1>10 DEF RecallScene, OnlyLight
  <2>2. FoundAt(k) # {} /\ FoundAt(k) \in SUBSET (1 .. SceneSlots)
    BY <1>10 DEF RecallScene, FoundAt
  <2>3. First(FoundAt(k)) \in FoundAt(k)
    BY <2>2, FirstSlot
  <2>4. sceneTable[First(FoundAt(k))] \in SceneRecords
    BY <1>1, <2>3 DEF FoundAt, NoScene
  <2>5. Recalled(k) \in [on : BOOLEAN, level : Int]
    BY <2>4 DEF Recalled, SceneRecords
  <2>6. light' = [light EXCEPT !.on = Recalled(k).on, !.level = Recalled(k).level]
    BY <1>10 DEF RecallScene
  <2>7. light' \in LightType
    BY <1>1, <2>5, <2>6
  <2> QED
    BY <1>2, <2>1, <2>7
<1>11. ASSUME NEW k \in SceneKeys, RemoveScene(k) PROVE LightInv'
  <2> DEFINE p == First(FoundAt(k))
  <2>1. FoundAt(k) # {} /\ FoundAt(k) \in SUBSET (1 .. SceneSlots)
    BY <1>11 DEF RemoveScene, FoundAt
  <2>2. p \in FoundAt(k)
    BY <2>1, FirstSlot
  <2>3. /\ sceneTable' = [sceneTable EXCEPT ![p] = NoScene]
        /\ captured' = [captured EXCEPT ![k] = {}]
        /\ UNCHANGED light
    BY <1>11 DEF RemoveScene, OnlyScenes, NotCaptured
  <2>4. \A s \in 1 .. SceneSlots : sceneTable[s].used /\ sceneTable[s].key = k <=> s = p
    BY <2>2, CapturesNow DEF FoundAt, Unique
  <2> HIDE DEF p
  <2>5. \A s \in 1 .. SceneSlots :
          sceneTable'[s] = IF sceneTable[s].used /\ sceneTable[s].key \in {k}
                           THEN NoScene ELSE sceneTable[s]
    BY <1>1, <2>3, <2>4
  <2>6. \A j \in SceneKeys : captured'[j] = IF j \in {k} THEN {} ELSE captured[j]
    BY <1>1, <2>3
  <2>7. sceneTable' \in [1 .. SceneSlots -> SceneRecords \cup {NoScene}]
        /\ captured' \in [SceneKeys -> SUBSET [on : BOOLEAN, level : Int]]
    BY <1>1, <2>3
  <2>8. {k} \in SUBSET SceneKeys
    OBVIOUS
  <2>9. Unique(sceneTable') /\ Captures(sceneTable', captured')
    BY <2>5, <2>6, <2>7, <2>8, RemoveKeeps
  <2> QED
    BY <1>3, <2>3, <2>7, <2>9
<1>12. ASSUME NEW g \in GroupIds, RemoveAllScenes(g) PROVE LightInv'
  <2> DEFINE gone == {k \in SceneKeys : k[1] = g}
  <2>1. /\ sceneTable' = [s \in 1 .. SceneSlots |->
             IF sceneTable[s].used /\ sceneTable[s].key[1] = g THEN NoScene
             ELSE sceneTable[s]]
        /\ captured' = [k \in SceneKeys |-> IF k[1] = g THEN {} ELSE captured[k]]
        /\ UNCHANGED light
    BY <1>12 DEF RemoveAllScenes, OnlyScenes, NotCaptured
  <2>2. \A s \in 1 .. SceneSlots : sceneTable[s].used => sceneTable[s].key \in SceneKeys
    <3>1. \A r \in SceneRecords : r.key \in SceneKeys
      BY DEF SceneRecords
    <3>2. ~NoScene.used
      BY DEF NoScene
    <3> QED
      BY <1>1, <3>1, <3>2
  <2>3. \A s \in 1 .. SceneSlots :
          sceneTable'[s] = IF sceneTable[s].used /\ sceneTable[s].key \in gone
                           THEN NoScene ELSE sceneTable[s]
    BY <2>1, <2>2
  <2>4. \A j \in SceneKeys : captured'[j] = IF j \in gone THEN {} ELSE captured[j]
    BY <2>1
  <2>5. sceneTable' \in [1 .. SceneSlots -> SceneRecords \cup {NoScene}]
        /\ captured' \in [SceneKeys -> SUBSET [on : BOOLEAN, level : Int]]
    BY <1>1, <2>1
  <2>6. gone \in SUBSET SceneKeys
    OBVIOUS
  <2> HIDE DEF gone
  <2>7. Unique(sceneTable') /\ Captures(sceneTable', captured')
    BY <2>3, <2>4, <2>5, <2>6, RemoveKeeps
  <2> QED
    BY <1>3, <2>1, <2>5, <2>7
<1>13. ASSUME NEW g \in GroupIds, GroupToggle(g) PROVE LightInv'
  BY <1>5, <1>13 DEF GroupToggle
<1> HIDE DEF LightType
<1> QED
  BY <1>4, <1>5, <1>6, <1>8, <1>9, <1>10, <1>11, <1>12, <1>13 DEF LightNext

(***************************************************************************)
(* A Recall finds the state last captured under its group and scene, and   *)
(* nothing once that was removed (store, recall, remove, removeAll of      *)
(* ZigbeeScenesCluster), for any size of the scene table.                  *)
(***************************************************************************)
THEOREM RecallFindsLastCaptureAlways ==
  ASSUME MaxLevel \in Nat
  PROVE  LightSpec => []RecallFindsLastCapture
<1>1. LightInit => LightInv
  <2> SUFFICES ASSUME LightInit PROVE LightInv
    OBVIOUS
  <2>1. /\ light = [on |-> FALSE, level |-> MaxLevel, mode |-> "hue and saturation"]
        /\ sceneTable = [s \in 1 .. SceneSlots |-> NoScene]
        /\ captured = [k \in SceneKeys |-> {}]
    BY DEF LightInit, NotCaptured
  <2>2. light \in [on : BOOLEAN, level : Int, mode : ColorModes]
    <3>1. MaxLevel \in Int /\ "hue and saturation" \in ColorModes /\ FALSE \in BOOLEAN
      BY DEF ColorModes
    <3> QED
      BY <2>1, <3>1
  <2>3. sceneTable \in [1 .. SceneSlots -> SceneRecords \cup {NoScene}]
        /\ captured \in [SceneKeys -> SUBSET [on : BOOLEAN, level : Int]]
    BY <2>1
  <2>4. \A s \in 1 .. SceneSlots : ~sceneTable[s].used
    BY <2>1 DEF NoScene
  <2>5. OneSlotPerScene
    BY <2>4 DEF OneSlotPerScene
  <2>6. RecallFindsLastCapture
    BY <2>1, <2>4 DEF RecallFindsLastCapture, FoundAt, NotCaptured
  <2> QED
    BY <2>2, <2>3, <2>5, <2>6 DEF LightInv
<1>2. LightInv /\ [LightNext]_lightVars => LightInv'
  BY LightInvStep
<1>3. LightInv => RecallFindsLastCapture
  BY DEF LightInv
<1> QED
  BY <1>1, <1>2, <1>3, PTL DEF LightSpec

-----------------------------------------------------------------------------
(***************************************************************************)
(* The network processor's driver: what the queues hold, as sets.          *)
(***************************************************************************)
LEMMA AppendRange ==
  ASSUME NEW S, NEW q \in Seq(S), NEW e \in S
  PROVE  Append(q, e) \in Seq(S) /\ Range(Append(q, e)) = Range(q) \cup {e}
<1>1. /\ Append(q, e) \in Seq(S) /\ Len(Append(q, e)) = Len(q) + 1
      /\ \A i \in 1 .. Len(q) : Append(q, e)[i] = q[i]
      /\ Append(q, e)[Len(q) + 1] = e
  BY AppendProperties
<1>2. DOMAIN q = 1 .. Len(q) /\ DOMAIN Append(q, e) = 1 .. Len(q) + 1 /\ Len(q) \in Nat
  BY <1>1
<1> QED
  BY <1>1, <1>2 DEF Range

\* The rest of a sequence holds everything but perhaps its head.
LEMMA TailRange ==
  ASSUME NEW S, NEW q \in Seq(S), q # <<>>
  PROVE  /\ Tail(q) \in Seq(S) /\ Range(q) = Range(Tail(q)) \cup {Head(q)}
         /\ Head(q) \in S
<1>1. /\ Len(q) \in Nat \ {0} /\ DOMAIN q = 1 .. Len(q) /\ Head(q) = q[1]
      /\ Tail(q) \in Seq(S) /\ Len(Tail(q)) = Len(q) - 1
      /\ \A i \in 1 .. Len(Tail(q)) : Tail(q)[i] = q[i + 1]
  BY HeadTailProperties, EmptySeq, LenProperties
<1>2. DOMAIN Tail(q) = 1 .. Len(q) - 1
  BY <1>1
<1>3. Range(q) \subseteq Range(Tail(q)) \cup {Head(q)}
  <2> SUFFICES ASSUME NEW i \in 1 .. Len(q) PROVE q[i] \in Range(Tail(q)) \cup {Head(q)}
    BY <1>1 DEF Range
  <2>1. CASE i = 1
    BY <1>1, <2>1
  <2>2. CASE i # 1
    <3>1. i - 1 \in 1 .. Len(q) - 1 /\ Tail(q)[i - 1] = q[i]
      BY <1>1, <2>2
    <3> QED
      BY <1>2, <3>1 DEF Range
  <2> QED
    BY <2>1, <2>2
<1>4. Range(Tail(q)) \cup {Head(q)} \subseteq Range(q)
  BY <1>1, <1>2 DEF Range
<1>5. Head(q) \in S
  BY <1>1
<1> QED
  BY <1>1, <1>3, <1>4, <1>5

\* The calls around the innermost one.
LEMMA BackRange ==
  ASSUME NEW S, calls \in Seq(S), calls # <<>>
  PROVE  /\ Back \in Seq(S) /\ Range(Back) \subseteq Range(calls)
         /\ Top \in Range(calls)
<1>1. Len(calls) \in Nat \ {0} /\ DOMAIN calls = 1 .. Len(calls)
  BY EmptySeq, LenProperties
<1>2. /\ Back \in Seq(S) /\ Len(Back) = Len(calls) - 1
      /\ \A i \in 1 .. Len(calls) - 1 : Back[i] = calls[i]
  BY <1>1, SubSeqProperties DEF Back
<1>3. DOMAIN Back = 1 .. Len(calls) - 1
  BY <1>1, <1>2
<1> QED
  BY <1>1, <1>2, <1>3 DEF Range, Top

\* A frame built has the kind and command it was built with.
LEMMA FrameType ==
  ASSUME NEW kind \in {"SREQ", "SRSP", "AREQ", "wait", "callback"},
         NEW command \in MtCommands \cup {ResetReq, "AF_INCOMING_MSG"},
         NEW id \in Nat, NEW ok \in BOOLEAN
  PROVE  /\ Frame(kind, command, id, ok) \in MtFrames
         /\ Frame(kind, command, id, ok).kind = kind
         /\ Frame(kind, command, id, ok).command = command
         /\ Frame(kind, command, id, ok).id = id
         /\ Frame(kind, command, id, ok).ok = ok
BY DEF Frame, MtFrames

\* The two frames that no request asked for.
LEMMA IndicationFrames ==
  /\ Callback \in MtFrames /\ Callback.kind = "callback" /\ Callback.id = 0
  /\ Indication \in MtFrames /\ Indication.id = 0 /\ Indication.kind = "AREQ"
  /\ Indication.command = "AF_INCOMING_MSG"
<1>1. TRUE \in BOOLEAN /\ 0 \in Nat /\ "AF_INCOMING_MSG" \in MtCommands \cup {ResetReq, "AF_INCOMING_MSG"}
  OBVIOUS
<1>2. /\ Callback \in MtFrames /\ Callback.kind = "callback" /\ Callback.id = 0
  <2>1. "callback" \in {"SREQ", "SRSP", "AREQ", "wait", "callback"}
    OBVIOUS
  <2> QED
    BY <1>1, <2>1 DEF Callback, Frame, MtFrames
<1>3. /\ Indication \in MtFrames /\ Indication.id = 0 /\ Indication.kind = "AREQ"
      /\ Indication.command = "AF_INCOMING_MSG"
  <2>1. "AREQ" \in {"SREQ", "SRSP", "AREQ", "wait", "callback"}
    OBVIOUS
  <2> QED
    BY <1>1, <2>1 DEF Indication, Frame, MtFrames
<1> QED
  BY <1>2, <1>3

\* What a queue holds once it holds once without its head.
LEMMA OnceTail ==
  ASSUME NEW q \in Seq(MtFrames), q # <<>>, Once(q)
  PROVE  /\ Once(Tail(q))
         /\ Head(q).id # 0 => \A f \in Range(Tail(q)) : f.id # Head(q).id
<1>1. /\ Len(q) \in Nat \ {0} /\ Head(q) = q[1]
      /\ Len(Tail(q)) = Len(q) - 1 /\ Tail(q) \in Seq(MtFrames)
      /\ \A i \in 1 .. Len(Tail(q)) : Tail(q)[i] = q[i + 1]
  BY HeadTailProperties, EmptySeq, LenProperties
<1>2. ASSUME NEW i \in 1 .. Len(Tail(q)), NEW j \in 1 .. Len(Tail(q)), i # j, Tail(q)[i].id # 0
      PROVE  Tail(q)[i].id # Tail(q)[j].id
  <2>1. i + 1 \in 1 .. Len(q) /\ j + 1 \in 1 .. Len(q) /\ i + 1 # j + 1
    BY <1>1, <1>2
  <2>2. Tail(q)[i] = q[i + 1] /\ Tail(q)[j] = q[j + 1]
    BY <1>1
  <2> QED
    BY <1>2, <2>1, <2>2 DEF Once
<1>3. ASSUME Head(q).id # 0, NEW f \in Range(Tail(q)) PROVE f.id # Head(q).id
  <2>1. PICK i \in 1 .. Len(Tail(q)) : f = Tail(q)[i]
    BY <1>1 DEF Range
  <2>2. i + 1 \in 1 .. Len(q) /\ 1 \in 1 .. Len(q) /\ i + 1 # 1 /\ f = q[i + 1]
    BY <1>1, <2>1
  <2> QED
    BY <1>1, <1>3, <2>2 DEF Once
<1> QED
  BY <1>2, <1>3 DEF Once

\* A queue stays one that holds everything once when a new number is put into it.
LEMMA OnceAppend ==
  ASSUME NEW q \in Seq(MtFrames), NEW e \in MtFrames, Once(q),
         e.id = 0 \/ \A f \in Range(q) : f.id # e.id
  PROVE  Once(Append(q, e))
<1> DEFINE s == Append(q, e)
<1>1. /\ Len(s) = Len(q) + 1 /\ Len(q) \in Nat /\ s[Len(q) + 1] = e
      /\ \A i \in 1 .. Len(q) : s[i] = q[i] /\ q[i] \in Range(q)
  BY AppendProperties, LenProperties DEF Range
<1> HIDE DEF s
<1>2. ASSUME NEW i \in 1 .. Len(s), NEW j \in 1 .. Len(s), i # j, s[i].id # 0
      PROVE  s[i].id # s[j].id
  <2>1. CASE i = Len(q) + 1
    <3>1. j \in 1 .. Len(q) /\ s[i] = e
      BY <1>1, <1>2, <2>1
    <3> QED
      BY <1>1, <1>2, <3>1
  <2>2. CASE j = Len(q) + 1
    <3>1. i \in 1 .. Len(q) /\ s[j] = e /\ s[i] \in Range(q)
      BY <1>1, <1>2, <2>2
    <3> QED
      BY <1>2, <3>1
  <2>3. CASE i # Len(q) + 1 /\ j # Len(q) + 1
    <3>1. i \in 1 .. Len(q) /\ j \in 1 .. Len(q)
      BY <1>1, <2>3
    <3>2. s[i] = q[i] /\ s[j] = q[j]
      BY <1>1, <3>1
    <3> QED
      BY <1>2, <3>1, <3>2 DEF Once
  <2> QED
    BY <2>1, <2>2, <2>3
<1> QED
  BY <1>2 DEF Once, s

\* A step that reads, drops or dispatches frames and ends calls keeps the invariant, if
\* the answers it lets calls take are real and gone.
LEMMA ReadingKeeps ==
  ASSUME ZnpInv,
         calls' \in Seq(MtFrames), module' \in Seq(MtFrames), uart' \in Seq(MtFrames),
         Range(calls') \subseteq Range(calls) \cup {Callback},
         Range(module') \subseteq Range(module), Once(module'),
         Range(uart') \subseteq Range(uart) \cup {Indication}, Once(uart'),
         UNCHANGED issued, UNCHANGED performed, UNCHANGED overlapped,
         TrueMeansPerformed',
         \A c \in claimed' : c.by \in 1 .. issued /\ \A f \in Range(module') \cup Range(uart') : f.id # c.by
  PROVE  ZnpInv'
<1>1. issued \in Nat /\ \A f \in Range(calls) \cup InFlight : f.id <= issued
  BY DEF ZnpInv, ZnpTypes
<1>2. 0 <= issued
  BY <1>1
<1>3. ZnpTypes'
  <2>1. \A f \in Range(calls') \cup Range(module') \cup Range(uart') : f.id <= issued
    BY <1>1, <1>2, IndicationFrames DEF InFlight
  <2> QED
    BY <2>1, IndicationFrames DEF ZnpInv, ZnpTypes, InFlight
<1>4. PositiveIsPerformed'
  BY IndicationFrames DEF ZnpInv, PositiveIsPerformed
<1>5. OnItsWayOnce'
  <2>1. \A f \in Range(module'), g \in Range(uart') : f.id # g.id
    BY IndicationFrames DEF ZnpInv, ZnpTypes, OnItsWayOnce
  <2> QED
    BY <2>1 DEF OnItsWayOnce, InFlight
<1>6. AwaitedIsOwn'
  <2> SUFFICES ASSUME NEW c \in Range(calls'), NEW f \in Range(module') \cup Range(uart'),
                      c.kind = "wait", f.command = c.command
               PROVE  f.id = c.id \/ c.id \in overlapped \/ (c.command = ResetReq /\ c.id < f.id)
    BY DEF AwaitedIsOwn, InFlight
  <2>1. c \in Range(calls) /\ c.command # "AF_INCOMING_MSG"
    BY IndicationFrames, ZnpAssumption DEF ZnpInv, ZnpTypes, ResetReq
  <2>2. f \in InFlight
    BY <2>1, IndicationFrames DEF InFlight
  <2> QED
    BY <2>1, <2>2 DEF ZnpInv, AwaitedIsOwn
<1> QED
  BY <1>3, <1>4, <1>5, <1>6 DEF ZnpInv

\* A request is an exception, and makes those awaited ones, when another of its
\* command is awaited or unanswered, or a start is unread (sreq, reset).
LEMMA RequestKeeps ==
  ASSUME ZnpInv, NEW command \in MtCommands \cup {ResetReq},
         NEW input \in Seq(MtFrames), Range(input) \subseteq Range(uart), Once(input),
         Request(command, input)
  PROVE  ZnpInv'
<1> DEFINE n == issued'
           r == Frame("SREQ", command, n, TRUE)
           w == Frame("wait", command, n, TRUE)
<1>1. /\ calls \in Seq(MtFrames) /\ module \in Seq(MtFrames) /\ issued \in Nat
      /\ \A f \in InFlight : f.id # 0 \/ f = Indication
      /\ \A f \in Range(calls) \cup InFlight : f.id <= issued
      /\ \A c \in claimed : c.by \in 1 .. issued
      /\ Range(module) \subseteq MtFrames /\ Range(uart) \subseteq MtFrames
      /\ Range(calls) \subseteq MtFrames
  BY LenProperties DEF ZnpInv, ZnpTypes, InFlight, Range
<1>2. /\ n \in Nat /\ n # 0 /\ n = issued + 1
      /\ module' = Append(module, r) /\ calls' = Append(calls, w) /\ uart' = input
      /\ overlapped' = overlapped \cup Awaited(command) \cup
           {i \in {n} : Unanswered(command, input) \/ Awaited(command) # {}}
      /\ UNCHANGED performed /\ UNCHANGED claimed
  BY <1>1 DEF Request
<1>3. /\ r \in MtFrames /\ r.command = command /\ r.id = n
      /\ w \in MtFrames /\ w.command = command /\ w.id = n /\ w.kind = "wait"
  <2>1. TRUE \in BOOLEAN /\ command \in MtCommands \cup {ResetReq, "AF_INCOMING_MSG"}
    OBVIOUS
  <2>2. "SREQ" \in {"SREQ", "SRSP", "AREQ", "wait", "callback"}
        /\ "wait" \in {"SREQ", "SRSP", "AREQ", "wait", "callback"}
    OBVIOUS
  <2>3. n \in Nat
    BY <1>2
  <2> HIDE DEF n
  <2>4. /\ r \in MtFrames /\ r.command = command /\ r.id = n
    BY <2>1, <2>2, <2>3 DEF r, Frame, MtFrames
  <2>5. /\ w \in MtFrames /\ w.command = command /\ w.id = n /\ w.kind = "wait"
    BY <2>1, <2>2, <2>3 DEF w, Frame, MtFrames
  <2> QED
    BY <2>4, <2>5
<1> HIDE DEF n, r, w
<1>4. /\ module' \in Seq(MtFrames) /\ Range(module') = Range(module) \cup {r}
      /\ calls' \in Seq(MtFrames) /\ Range(calls') = Range(calls) \cup {w}
  BY <1>1, <1>2, <1>3, AppendRange
<1>5. \A f \in Range(calls) \cup InFlight : f.id \in Nat /\ f.id # n
  BY <1>1, <1>2 DEF MtFrames, InFlight
<1>6. ZnpTypes'
  <2>1. /\ \A f \in Range(module') : f.id # 0
        /\ \A f \in Range(uart') : f.id # 0 \/ f = Indication
        /\ \A c \in Range(calls') : c.kind = "wait" => c.command \in MtCommands \cup {ResetReq}
    BY <1>2, <1>3, <1>4 DEF ZnpInv, ZnpTypes
  <2>2. \A f \in Range(calls) \cup InFlight : f.id <= n
    BY <1>1, <1>2, <1>5
  <2>3. \A f \in Range(calls') \cup Range(module') \cup Range(uart') : f.id <= n
    BY <1>2, <1>3, <1>4, <2>2 DEF InFlight
  <2>4. \A c \in claimed' : c.by \in 1 .. n
    BY <1>1, <1>2
  <2> QED
    BY <1>2, <1>4, <2>1, <2>3, <2>4 DEF ZnpTypes, InFlight, n
<1>7. PositiveIsPerformed'
  BY <1>2 DEF ZnpInv, PositiveIsPerformed
<1>8. TrueMeansPerformed'
  BY <1>2 DEF ZnpInv, TrueMeansPerformed
<1>9. OnItsWayOnce'
  <2>1. Once(module')
    BY <1>1, <1>2, <1>3, <1>5, OnceAppend DEF ZnpInv, OnItsWayOnce, InFlight
  <2>2. \A f \in Range(module'), g \in Range(uart') : f.id # g.id
    BY <1>2, <1>3, <1>4, <1>5 DEF ZnpInv, OnItsWayOnce, InFlight
  <2>3. \A c \in claimed : n # c.by
    BY <1>1, <1>2
  <2>4. \A c \in claimed', f \in Range(module') \cup Range(uart') : f.id # c.by
    BY <1>2, <1>3, <1>4, <2>3 DEF ZnpInv, OnItsWayOnce, InFlight
  <2> QED
    BY <1>2, <2>1, <2>2, <2>4 DEF OnItsWayOnce, InFlight
<1>10. AwaitedIsOwn'
  <2> SUFFICES ASSUME NEW c \in Range(calls'), NEW f \in Range(module') \cup Range(uart'),
                      c.kind = "wait", f.command = c.command
               PROVE  f.id = c.id \/ c.id \in overlapped' \/ (c.command = ResetReq /\ c.id < f.id)
    BY DEF AwaitedIsOwn, InFlight
  <2>1. CASE c = w /\ f = r
    BY <1>3, <2>1
  <2>2. CASE c = w /\ f # r
    <3>1. f \in Range(module) \cup Range(input)
      BY <1>2, <1>4, <2>2
    <3>2. Unanswered(command, input)
      BY <1>3, <2>2, <3>1 DEF Unanswered
    <3> QED
      BY <1>2, <1>3, <2>2, <3>2
  <2>3. CASE c # w /\ f = r
    <3>1. c.id \in Awaited(command)
      BY <1>3, <1>4, <2>3 DEF Awaited
    <3> QED
      BY <1>2, <3>1
  <2>4. CASE c # w /\ f # r
    <3>1. c \in Range(calls) /\ f \in InFlight
      BY <1>2, <1>4, <2>4 DEF InFlight
    <3> QED
      BY <1>2, <3>1 DEF ZnpInv, AwaitedIsOwn
  <2> QED
    BY <2>1, <2>2, <2>3, <2>4
<1> QED
  BY <1>6, <1>7, <1>8, <1>9, <1>10 DEF ZnpInv

\* The network processor answers a request by its command and carries it out or not.
LEMMA TreatKeeps ==
  ASSUME ZnpInv, NEW ok \in BOOLEAN, Treat(ok)
  PROVE  ZnpInv'
<1> DEFINE r == Head(module)
           kind == IF r.command = ResetReq THEN "AREQ" ELSE "SRSP"
           a == Frame(kind, r.command, r.id, ok)
<1>1. /\ calls \in Seq(MtFrames) /\ module \in Seq(MtFrames) /\ uart \in Seq(MtFrames)
      /\ module # <<>> /\ Once(module) /\ Once(uart)
  BY DEF ZnpInv, ZnpTypes, OnItsWayOnce, Treat
<1>2. /\ Tail(module) \in Seq(MtFrames) /\ Range(module) = Range(Tail(module)) \cup {r}
      /\ r \in MtFrames
  BY <1>1, TailRange
<1>3. /\ module' = Tail(module) /\ uart' = Append(uart, a)
      /\ performed' = (IF ok THEN performed \cup {Done(r.command, r.id)} ELSE performed)
      /\ UNCHANGED calls /\ UNCHANGED issued /\ UNCHANGED claimed /\ UNCHANGED overlapped
  BY DEF Treat
<1>4. /\ r.command \in MtCommands \cup {ResetReq, "AF_INCOMING_MSG"} /\ r.id \in Nat /\ r.id # 0
      /\ kind \in {"SREQ", "SRSP", "AREQ", "wait", "callback"}
  BY <1>2 DEF MtFrames, ZnpInv, ZnpTypes
<1>5. a \in MtFrames /\ a.command = r.command /\ a.id = r.id /\ a.ok = ok
  BY <1>4, FrameType
<1>6. Once(Tail(module)) /\ \A f \in Range(Tail(module)) : f.id # r.id
  BY <1>1, <1>4, OnceTail
<1> HIDE DEF a, r, kind
<1>7. uart' \in Seq(MtFrames) /\ Range(uart') = Range(uart) \cup {a}
  BY <1>1, <1>3, <1>5, AppendRange
<1>8. r \in Range(module) /\ \A f \in Range(uart) : r.id # f.id
  BY <1>2 DEF ZnpInv, OnItsWayOnce
<1>9. ZnpTypes'
  <2>1. r \in InFlight
    BY <1>8 DEF InFlight
  <2>2. \A f \in Range(calls') \cup Range(module') \cup Range(uart') : f.id <= issued
    BY <1>2, <1>3, <1>5, <1>7, <2>1 DEF ZnpInv, ZnpTypes, InFlight
  <2> QED
    BY <1>2, <1>3, <1>4, <1>5, <1>7, <2>2 DEF ZnpInv, ZnpTypes, InFlight
<1>10. performed \subseteq performed' /\ (ok => Done(r.command, r.id) \in performed')
  BY <1>3
<1>11. PositiveIsPerformed'
  <2> SUFFICES ASSUME NEW f \in Range(uart'), f.id # 0, f.ok
               PROVE  Done(f.command, f.id) \in performed'
    BY DEF PositiveIsPerformed
  <2>1. CASE f = a
    BY <1>5, <1>10, <2>1
  <2>2. CASE f # a
    BY <1>7, <1>10, <2>2 DEF ZnpInv, PositiveIsPerformed
  <2> QED
    BY <2>1, <2>2
<1>12. TrueMeansPerformed'
  BY <1>3, <1>10 DEF ZnpInv, TrueMeansPerformed
<1>13. OnItsWayOnce'
  <2>1. Once(uart')
    BY <1>1, <1>3, <1>5, <1>8, OnceAppend
  <2>2. \A f \in Range(module'), g \in Range(uart') : f.id # g.id
    BY <1>2, <1>3, <1>5, <1>6, <1>7 DEF ZnpInv, OnItsWayOnce
  <2>3. \A c \in claimed', f \in Range(module') \cup Range(uart') : f.id # c.by
    BY <1>2, <1>3, <1>5, <1>7, <1>8 DEF ZnpInv, OnItsWayOnce, InFlight
  <2> QED
    BY <1>3, <1>6, <2>1, <2>2, <2>3 DEF OnItsWayOnce, InFlight
<1>14. AwaitedIsOwn'
  <2> SUFFICES ASSUME NEW c \in Range(calls), NEW f \in Range(module') \cup Range(uart'),
                      c.kind = "wait", f.command = c.command
               PROVE  f.id = c.id \/ c.id \in overlapped \/ (c.command = ResetReq /\ c.id < f.id)
    BY <1>3 DEF AwaitedIsOwn, InFlight
  <2>1. r \in InFlight /\ (f # a => f \in InFlight)
    BY <1>2, <1>3, <1>7 DEF InFlight
  <2>2. CASE f = a
    BY <1>5, <2>1, <2>2 DEF ZnpInv, AwaitedIsOwn
  <2>3. CASE f # a
    BY <2>1, <2>3 DEF ZnpInv, AwaitedIsOwn
  <2> QED
    BY <2>2, <2>3
<1> QED
  BY <1>9, <1>11, <1>12, <1>13, <1>14 DEF ZnpInv

\* A start of the network processor comes after every call that waits.
LEMMA ModuleStartsKeeps ==
  ASSUME ZnpInv, ModuleStarts
  PROVE  ZnpInv'
<1> DEFINE n == issued'
           a == Frame("AREQ", ResetReq, n, TRUE)
<1>1. /\ calls \in Seq(MtFrames) /\ uart \in Seq(MtFrames) /\ issued \in Nat /\ Once(uart)
      /\ \A f \in Range(calls) \cup Range(uart) : f.id <= issued
      /\ \A c \in claimed : c.by \in 1 .. issued
      /\ Range(uart) \subseteq MtFrames /\ Range(calls) \subseteq MtFrames
  BY LenProperties DEF ZnpInv, ZnpTypes, InFlight, Range, OnItsWayOnce
<1>2. /\ n \in Nat /\ n # 0 /\ n = issued + 1 /\ module' = <<>> /\ uart' = Append(uart, a)
      /\ performed' = performed \cup {Done(ResetReq, n)}
      /\ UNCHANGED calls /\ UNCHANGED claimed /\ UNCHANGED overlapped
  BY <1>1 DEF ModuleStarts
<1>3. a \in MtFrames /\ a.kind = "AREQ" /\ a.command = ResetReq /\ a.id = n
  <2>1. TRUE \in BOOLEAN /\ ResetReq \in MtCommands \cup {ResetReq, "AF_INCOMING_MSG"}
    OBVIOUS
  <2>2. "AREQ" \in {"SREQ", "SRSP", "AREQ", "wait", "callback"}
    OBVIOUS
  <2>3. n \in Nat
    BY <1>2
  <2> HIDE DEF n
  <2> QED
    BY <2>1, <2>2, <2>3 DEF a, Frame, MtFrames
<1> HIDE DEF n, a
<1>4. uart' \in Seq(MtFrames) /\ Range(uart') = Range(uart) \cup {a}
  BY <1>1, <1>2, <1>3, AppendRange
<1>5. module' \in Seq(MtFrames) /\ Range(module') = {} /\ Once(module')
  BY <1>2 DEF Range, Once
<1>6. \A f \in Range(calls) \cup Range(uart) : f.id < n /\ f.id <= n
  BY <1>1, <1>2 DEF MtFrames
<1>7. ZnpTypes'
  <2>1. \A f \in Range(calls') \cup Range(module') \cup Range(uart') : f.id <= n
    BY <1>2, <1>3, <1>4, <1>5, <1>6
  <2>2. \A c \in claimed' : c.by \in 1 .. n
    BY <1>1, <1>2
  <2>3. \A f \in Range(uart') : f.id # 0 \/ f = Indication
    BY <1>2, <1>3, <1>4 DEF ZnpInv, ZnpTypes
  <2>4. \A c \in Range(calls') : c.kind = "wait" => c.command \in MtCommands \cup {ResetReq}
    BY <1>2 DEF ZnpInv, ZnpTypes
  <2> QED
    BY <1>1, <1>2, <1>4, <1>5, <2>1, <2>2, <2>3, <2>4 DEF ZnpTypes, InFlight, n
<1>8. PositiveIsPerformed'
  <2> SUFFICES ASSUME NEW f \in Range(uart'), f.id # 0, f.ok
               PROVE  Done(f.command, f.id) \in performed'
    BY DEF PositiveIsPerformed
  <2>1. CASE f = a
    BY <1>2, <1>3, <2>1
  <2>2. CASE f # a
    BY <1>2, <1>4, <2>2 DEF ZnpInv, PositiveIsPerformed
  <2> QED
    BY <2>1, <2>2
<1>9. TrueMeansPerformed'
  BY <1>2 DEF ZnpInv, TrueMeansPerformed
<1>10. OnItsWayOnce'
  <2>1. Once(uart')
    <3>1. \A f \in Range(uart) : f.id # a.id
      BY <1>1, <1>2, <1>3, <1>6 DEF MtFrames
    <3> QED
      BY <1>1, <1>2, <1>3, <3>1, OnceAppend
  <2>2. \A c \in claimed : n # c.by
    BY <1>1, <1>2
  <2>3. \A c \in claimed', f \in Range(module') \cup Range(uart') : f.id # c.by
    BY <1>2, <1>3, <1>4, <1>5, <2>2 DEF ZnpInv, OnItsWayOnce, InFlight
  <2> QED
    BY <1>5, <2>1, <2>3 DEF OnItsWayOnce, InFlight
<1>11. AwaitedIsOwn'
  <2> SUFFICES ASSUME NEW c \in Range(calls), NEW f \in Range(uart'),
                      c.kind = "wait", f.command = c.command
               PROVE  f.id = c.id \/ c.id \in overlapped \/ (c.command = ResetReq /\ c.id < f.id)
    BY <1>2, <1>5 DEF AwaitedIsOwn, InFlight
  <2>1. CASE f = a
    BY <1>3, <1>6, <2>1
  <2>2. CASE f # a
    BY <1>4, <2>2 DEF ZnpInv, AwaitedIsOwn, InFlight
  <2> QED
    BY <2>1, <2>2
<1> QED
  BY <1>7, <1>8, <1>9, <1>10, <1>11 DEF ZnpInv

\* Every step keeps the invariant of the driver.
LEMMA ZnpInvStep ==
  ASSUME ZnpInv, [ZnpNext]_znpVars
  PROVE  ZnpInv'
<1>1. /\ calls \in Seq(MtFrames) /\ module \in Seq(MtFrames) /\ uart \in Seq(MtFrames)
      /\ Once(module) /\ Once(uart) /\ TrueMeansPerformed
      /\ \A c \in claimed : c.by \in 1 .. issued /\ \A f \in InFlight : f.id # c.by
  BY DEF ZnpInv, ZnpTypes, OnItsWayOnce
<1>2. ASSUME UNCHANGED claimed, UNCHANGED performed, UNCHANGED overlapped, UNCHANGED issued,
             Range(module') \subseteq Range(module),
             Range(uart') \subseteq Range(uart) \cup {Indication}
      PROVE  /\ TrueMeansPerformed'
             /\ \A c \in claimed' : /\ c.by \in 1 .. issued
                                    /\ \A f \in Range(module') \cup Range(uart') : f.id # c.by
  <2>1. TrueMeansPerformed'
    BY <1>1, <1>2 DEF TrueMeansPerformed
  <2>2. ASSUME NEW c \in claimed', NEW f \in Range(module') \cup Range(uart') PROVE f.id # c.by
    <3>1. c.by # 0
      BY <1>1, <1>2
    <3>2. f \in InFlight \/ f = Indication
      BY <1>2 DEF InFlight
    <3> QED
      BY <1>1, <1>2, <3>1, <3>2, IndicationFrames
  <2> QED
    BY <1>1, <1>2, <2>1, <2>2
<1>3. ASSUME \/ \E command \in MtCommands : Operation(command)
             \/ Reset \/ ZnpBegin
      PROVE  ZnpInv'
  <2>1. <<>> \in Seq(MtFrames) /\ Range(<<>>) = {} /\ Once(<<>>)
    BY DEF Range, Once
  <2> QED
    BY <1>1, <1>3, <2>1, RequestKeeps DEF Operation, Reset, ZnpBegin
<1>4. ASSUME NEW f \in MtFrames, NEW stack \in Seq(MtFrames)
      PROVE  /\ Dispatched(f, stack) \in Seq(MtFrames)
             /\ Range(Dispatched(f, stack)) \subseteq Range(stack) \cup {Callback}
  BY AppendRange, IndicationFrames DEF Dispatched
<1>5. ASSUME uart # <<>>
      PROVE  /\ Tail(uart) \in Seq(MtFrames) /\ Range(Tail(uart)) \subseteq Range(uart)
             /\ Once(Tail(uart)) /\ Head(uart) \in Range(uart) /\ Head(uart) \in MtFrames
             /\ Head(uart).id # 0 => \A f \in Range(Tail(uart)) : f.id # Head(uart).id
  BY <1>1, <1>5, TailRange, OnceTail
<1>6. ASSUME ReadInWait PROVE ZnpInv'
  <2> DEFINE f == Head(uart)
             answered == Answers(f, Top.command)
  <2>1. /\ calls # <<>> /\ Top.kind = "wait" /\ uart # <<>>
        /\ uart' = Tail(uart)
        /\ calls' = IF answered THEN Back ELSE Dispatched(f, calls)
        /\ claimed' = IF answered /\ f.ok THEN claimed \cup {Claim(Top, f)} ELSE claimed
        /\ UNCHANGED module /\ UNCHANGED issued /\ UNCHANGED performed
        /\ UNCHANGED overlapped
    BY <1>6 DEF ReadInWait
  <2>2. /\ uart' \in Seq(MtFrames) /\ Range(uart') \subseteq Range(uart) /\ Once(uart')
        /\ f \in Range(uart) /\ f \in MtFrames
        /\ f.id # 0 => \A g \in Range(uart') : g.id # f.id
    BY <1>5, <2>1
  <2>3. /\ Back \in Seq(MtFrames) /\ Range(Back) \subseteq Range(calls)
        /\ Top \in Range(calls)
    BY <1>1, <2>1, BackRange
  <2>4. calls' \in Seq(MtFrames) /\ Range(calls') \subseteq Range(calls) \cup {Callback}
    BY <1>1, <1>4, <2>1, <2>2, <2>3
  <2>5. CASE ~(answered /\ f.ok)
    <3>1. claimed' = claimed
      BY <2>1, <2>5
    <3> QED
      BY <1>1, <1>2, <2>1, <2>2, <2>4, <3>1, ReadingKeeps
  <2>6. CASE answered /\ f.ok
    <3> DEFINE new == Claim(Top, f)
    <3>1. new.command = Top.command /\ new.id = Top.id /\ new.by = f.id
      BY DEF Claim
    <3>2. claimed' = claimed \cup {new}
      BY <2>1, <2>6
    <3> HIDE DEF new
    <3>3. f.command = Top.command /\ f \in InFlight
      BY <2>2, <2>6 DEF Answers, InFlight
    <3>4. f.id # 0
      <4>1. Top.command # "AF_INCOMING_MSG"
        BY <2>1, <2>3, ZnpAssumption DEF ZnpInv, ZnpTypes, ResetReq
      <4>2. f # Indication
        BY <3>3, <4>1, IndicationFrames
      <4> QED
        BY <2>2, <4>2 DEF ZnpInv, ZnpTypes
    <3>5. f.id \in 1 .. issued
      <4>1. f.id \in Nat /\ issued \in Nat /\ f.id <= issued
        BY <2>2, <3>3 DEF MtFrames, ZnpInv, ZnpTypes
      <4> QED
        BY <3>4, <4>1
    <3>6. /\ Done(new.command, new.by) \in performed
          /\ new.by = new.id \/ new.id \in overlapped \/ (new.command = ResetReq /\ new.id < new.by)
      BY <2>1, <2>2, <2>3, <2>6, <3>1, <3>3, <3>4 DEF ZnpInv, AwaitedIsOwn, PositiveIsPerformed
    <3>7. \A c \in claimed : c.by # new.by
      BY <1>1, <3>1, <3>3
    <3>8. TrueMeansPerformed'
      BY <1>1, <2>1, <3>2, <3>6, <3>7 DEF TrueMeansPerformed
    <3>9. \A g \in Range(module') \cup Range(uart') : g.id # new.by
      <4>1. \A g \in Range(module) : g.id # f.id
        BY <2>2 DEF ZnpInv, OnItsWayOnce
      <4> QED
        BY <2>1, <2>2, <3>1, <3>4, <4>1
    <3>10. \A c \in claimed' : /\ c.by \in 1 .. issued
                              /\ \A g \in Range(module') \cup Range(uart') : g.id # c.by
      BY <1>1, <2>1, <2>2, <3>1, <3>2, <3>5, <3>9 DEF InFlight
    <3> QED
      BY <1>1, <2>1, <2>2, <2>4, <3>8, <3>10, ReadingKeeps
  <2> QED
    BY <2>5, <2>6
<1>7. ASSUME GiveUp \/ CallbackReturns PROVE ZnpInv'
  <2>1. /\ calls # <<>> /\ calls' = Back
        /\ UNCHANGED module /\ UNCHANGED uart /\ UNCHANGED issued /\ UNCHANGED performed
        /\ UNCHANGED claimed /\ UNCHANGED overlapped
    BY <1>7 DEF GiveUp, CallbackReturns
  <2>2. Back \in Seq(MtFrames) /\ Range(Back) \subseteq Range(calls)
    BY <1>1, <2>1, BackRange
  <2> QED
    BY <1>1, <1>2, <2>1, <2>2, ReadingKeeps
<1>8. ASSUME ZnpPoll \/ DropGarbled PROVE ZnpInv'
  <2>1. /\ uart # <<>> /\ uart' = Tail(uart)
        /\ calls' = calls \/ (calls = <<>> /\ calls' = Dispatched(Head(uart), calls))
        /\ UNCHANGED module /\ UNCHANGED issued /\ UNCHANGED performed
        /\ UNCHANGED claimed /\ UNCHANGED overlapped
    BY <1>8 DEF ZnpPoll, DropGarbled
  <2>2. /\ uart' \in Seq(MtFrames) /\ Range(uart') \subseteq Range(uart) /\ Once(uart')
        /\ Head(uart) \in MtFrames
    BY <1>5, <2>1
  <2>3. calls' \in Seq(MtFrames) /\ Range(calls') \subseteq Range(calls) \cup {Callback}
    BY <1>1, <1>4, <2>1, <2>2
  <2> QED
    BY <1>1, <1>2, <2>1, <2>2, <2>3, ReadingKeeps
<1>9. ASSUME Ignore PROVE ZnpInv'
  <2>1. /\ module # <<>> /\ module' = Tail(module)
        /\ UNCHANGED calls /\ UNCHANGED uart /\ UNCHANGED issued /\ UNCHANGED performed
        /\ UNCHANGED claimed /\ UNCHANGED overlapped
    BY <1>9 DEF Ignore
  <2>2. module' \in Seq(MtFrames) /\ Range(module') \subseteq Range(module) /\ Once(module')
    BY <1>1, <2>1, TailRange, OnceTail
  <2> QED
    BY <1>1, <1>2, <2>1, <2>2, ReadingKeeps
<1>10. ASSUME Indicate PROVE ZnpInv'
  <2>1. /\ uart' = Append(uart, Indication)
        /\ UNCHANGED calls /\ UNCHANGED module /\ UNCHANGED issued
        /\ UNCHANGED performed /\ UNCHANGED claimed /\ UNCHANGED overlapped
    BY <1>10 DEF Indicate
  <2>2. /\ uart' \in Seq(MtFrames) /\ Range(uart') \subseteq Range(uart) \cup {Indication}
        /\ Once(uart')
    BY <1>1, <2>1, AppendRange, OnceAppend, IndicationFrames
  <2> QED
    BY <1>1, <1>2, <2>1, <2>2, ReadingKeeps
<1>11. CASE UNCHANGED znpVars
  <2>1. /\ UNCHANGED calls /\ UNCHANGED module /\ UNCHANGED uart /\ UNCHANGED issued
        /\ UNCHANGED performed /\ UNCHANGED claimed /\ UNCHANGED overlapped
    BY <1>11 DEF znpVars
  <2> QED
    BY <1>1, <1>2, <2>1, ReadingKeeps
<1> QED
  BY <1>3, <1>6, <1>7, <1>8, <1>9, <1>10, <1>11, TreatKeeps, ModuleStartsKeeps DEF ZnpNext

(***************************************************************************)
(* A call of the network processor's driver that returned true stands on   *)
(* an answer that no other call took: to its own request, or, for reset(), *)
(* a start that came after the call, unless it overlapped another answer   *)
(* to its command (sreq, reset, readFrame, dispatchAreq).  It holds for    *)
(* any depth of nested calls and any number of requests and starts.        *)
(***************************************************************************)
THEOREM TrueMeansPerformedAlways == ZnpSpec => []TrueMeansPerformed
<1>1. ZnpInit => ZnpInv
  <2> SUFFICES ASSUME ZnpInit PROVE ZnpInv
    OBVIOUS
  <2>1. calls = <<>> /\ module = <<>> /\ uart = <<>> /\ issued = 0 /\ claimed = {}
    BY DEF ZnpInit
  <2>2. Range(calls) = {} /\ Range(module) = {} /\ Range(uart) = {}
        /\ Once(module) /\ Once(uart)
    BY <2>1 DEF Range, Once
  <2> QED
    BY <2>1, <2>2 DEF ZnpInv, ZnpTypes, OnItsWayOnce, AwaitedIsOwn, PositiveIsPerformed,
                      TrueMeansPerformed, InFlight
<1>2. ZnpInv /\ [ZnpNext]_znpVars => ZnpInv'
  BY ZnpInvStep
<1>3. ZnpInv => TrueMeansPerformed
  BY DEF ZnpInv
<1> QED
  BY <1>1, <1>2, <1>3, PTL DEF ZnpSpec


-----------------------------------------------------------------------------
(***************************************************************************)
(* The frame counter and its copy in flash, for every margin, every number *)
(* of frames per save period that the margin covers, and both roles.       *)
(***************************************************************************)
USE DEF flash, history, NetStates

-----------------------------------------------------------------------------
(***************************************************************************)
(* A board that was never programmed satisfies the inductive invariant.    *)
(***************************************************************************)
LEMMA CounterInitInd == CounterInit => CounterInv
<1> SUFFICES ASSUME CounterInit PROVE CounterInv
  OBVIOUS
<1>1. CounterTypeOK
  <2>1. haveSaved \in BOOLEAN /\ firstSave \in BOOLEAN
    BY DEF CounterInit
  <2> QED
    BY <2>1, MarginAssumption DEF CounterInit, CounterTypeOK
<1>2. CoveredByFlash /\ RunningAboveFlash /\ SentByThisBoot /\ ReuseOnlyBeforeFirstSave
  BY DEF CounterInit, CoveredByFlash, RunningAboveFlash, SentByThisBoot,
         ReuseOnlyBeforeFirstSave
<1> QED
  BY <1>1, <1>2 DEF CounterInv

(***************************************************************************)
(* setup() resumes at the stored counter: everything outside exposed is at *)
(* or below it, so the running program starts above its own past.          *)
(***************************************************************************)
LEMMA BootInd == CounterInv /\ Boot => CounterInv'
<1> SUFFICES ASSUME CounterInv, Boot PROVE CounterInv'
  OBVIOUS
<1>1. CounterTypeOK'
  BY MarginAssumption, RoleAssumption DEF Boot, CounterInv, CounterTypeOK, RestoredCounter
<1>2. RestoredCounter' = RestoredCounter
  BY DEF Boot, RestoredCounter
<1>3. CoveredByFlash' /\ SentByThisBoot' /\ ReuseOnlyBeforeFirstSave'
  BY <1>2
  DEF Boot, CounterInv, CoveredByFlash, SentByThisBoot, ReuseOnlyBeforeFirstSave
<1>4. RunningAboveFlash'
  BY <1>1, <1>2 DEF Boot, RunningAboveFlash, CounterTypeOK
<1> QED
  BY <1>1, <1>3, <1>4 DEF CounterInv

(***************************************************************************)
(* Joining and losing the parent leave counter, flash and history alone.   *)
(***************************************************************************)
LEMMA MembershipInd == CounterInv /\ (Join \/ LoseParent) => CounterInv'
<1> SUFFICES ASSUME CounterInv, Join \/ LoseParent PROVE CounterInv'
  OBVIOUS
<1>1. /\ UNCHANGED <<counter, haveSaved, savedCounter, firstSave, period>>
      /\ UNCHANGED <<onAir, tentative, exposed, reused>>
      /\ net # "off" /\ net' # "off" /\ net' \in NetStates
  BY DEF Join, LoseParent
<1>2. RestoredCounter' = RestoredCounter
  BY <1>1 DEF RestoredCounter
<1>3. CounterTypeOK' /\ CoveredByFlash' /\ ReuseOnlyBeforeFirstSave'
  BY <1>1, <1>2 DEF CounterInv, CounterTypeOK, CoveredByFlash, ReuseOnlyBeforeFirstSave
<1>4. RunningAboveFlash' /\ SentByThisBoot'
  BY <1>1, <1>2 DEF CounterInv, RunningAboveFlash, SentByThisBoot
<1> QED
  BY <1>3, <1>4 DEF CounterInv

(***************************************************************************)
(* applyTxSecurity: the counter that goes out was sent before only by a    *)
(* boot that crashed unsaved.                                              *)
(***************************************************************************)
LEMMA SecureInd == CounterInv /\ Secure => CounterInv'
<1> SUFFICES ASSUME CounterInv, Secure PROVE CounterInv'
  OBVIOUS
<1> USE MarginAssumption
<1>1. NextCounter \in Nat /\ NextCounter > counter
  BY DEF CounterInv, CounterTypeOK, NextCounter
<1>2. CounterTypeOK'
  BY <1>1 DEF CounterInv, CounterTypeOK, Secure
<1>3. CoveredByFlash'
  <2> SUFFICES ASSUME NEW c \in onAir', c \notin exposed', c \notin tentative'
               PROVE  c <= RestoredCounter'
    BY DEF CoveredByFlash
  <2>1. CASE c \in onAir
    BY <2>1 DEF CounterInv, CoveredByFlash, Secure, RestoredCounter
  <2>2. CASE c = NextCounter
    \* the frame is not tentative, so this boot has saved: the margin covers it
    <3>1. ~firstSave /\ haveSaved /\ savedCounter = counter - period + COUNTER_MARGIN
      BY <2>2 DEF Secure, CounterInv, RunningAboveFlash
    <3>2. period + 1 <= COUNTER_MARGIN
      BY DEF Secure, CounterInv, CounterTypeOK
    <3> QED
      BY <2>2, <3>1, <3>2
      DEF Secure, CounterInv, CounterTypeOK, RestoredCounter, NextCounter
  <2> QED
    BY <2>1, <2>2 DEF Secure
<1>4. RunningAboveFlash'
  BY DEF CounterInv, CounterTypeOK, RunningAboveFlash, Secure, NextCounter, RestoredCounter
<1>5. SentByThisBoot'
  BY <1>1 DEF CounterInv, CounterTypeOK, SentByThisBoot, Secure, NextCounter
<1>6. ReuseOnlyBeforeFirstSave'
  <2> SUFFICES ASSUME NextCounter \in onAir PROVE NextCounter \in exposed
    BY DEF CounterInv, ReuseOnlyBeforeFirstSave, Secure
  <2>1. CASE firstSave
    \* RestoredCounter <= counter < NextCounter, and tentative is at or below counter
    BY <1>1, <2>1
    DEF CounterInv, CounterTypeOK, CoveredByFlash, RunningAboveFlash, SentByThisBoot,
        Secure, RestoredCounter
  <2>2. CASE ~firstSave
    BY <1>1, <2>2 DEF CounterInv, CounterTypeOK, SentByThisBoot, Secure
  <2> QED
    BY <2>1, <2>2
<1> QED
  BY <1>2, <1>3, <1>4, <1>5, <1>6 DEF CounterInv

(***************************************************************************)
(* saveState: the stored counter moves above everything the boot sent.     *)
(***************************************************************************)
LEMMA SaveStateInd == CounterInv /\ SaveState => CounterInv'
<1> SUFFICES ASSUME CounterInv, SaveState PROVE CounterInv'
  OBVIOUS
<1> USE MarginAssumption
<1>1. CounterTypeOK'
  <2>1. haveSaved' \in BOOLEAN /\ firstSave' \in BOOLEAN
    BY DEF SaveState
  <2> QED
    BY <2>1 DEF CounterInv, CounterTypeOK, SaveState, StoredCounter
<1>2. RestoredCounter <= StoredCounter /\ counter <= StoredCounter
  BY DEF CounterInv, CounterTypeOK, RunningAboveFlash, SaveState, RestoredCounter, StoredCounter
<1>3. CoveredByFlash'
  BY <1>2
  DEF CounterInv, CounterTypeOK, CoveredByFlash, SentByThisBoot, SaveState, RestoredCounter,
      StoredCounter
<1>4. RunningAboveFlash'
  BY DEF CounterInv, CounterTypeOK, RunningAboveFlash, SaveState, StoredCounter
<1>5. SentByThisBoot'
  BY DEF CounterInv, CounterTypeOK, CoveredByFlash, RunningAboveFlash, SentByThisBoot, SaveState,
     RestoredCounter
<1>6. ReuseOnlyBeforeFirstSave'
  BY DEF CounterInv, ReuseOnlyBeforeFirstSave, SaveState
<1> QED
  BY <1>1, <1>3, <1>4, <1>5, <1>6 DEF CounterInv

(***************************************************************************)
(* A crash turns what was sent without a save into exposed counters.       *)
(***************************************************************************)
LEMMA CrashInd == CounterInv /\ Crash => CounterInv'
  BY MarginAssumption
  DEF Crash, CounterInv, CounterTypeOK, CoveredByFlash, RunningAboveFlash, SentByThisBoot,
      ReuseOnlyBeforeFirstSave, RestoredCounter

\* A step that changes nothing keeps the invariant.
LEMMA StutterInd == CounterInv /\ UNCHANGED counterVars => CounterInv'
  BY DEF counterVars, CounterInv, CounterTypeOK, CoveredByFlash, RunningAboveFlash, SentByThisBoot,
     ReuseOnlyBeforeFirstSave, RestoredCounter

-----------------------------------------------------------------------------
(***************************************************************************)
(* The inductive invariant holds in every reachable state.                 *)
(***************************************************************************)
THEOREM CounterInvAlways == CounterSpec => []CounterInv
<1>1. CounterInv /\ [CounterNext]_counterVars => CounterInv'
  BY BootInd, MembershipInd, SecureInd, SaveStateInd, CrashInd, StutterInd DEF CounterNext
<1> QED
  BY CounterInitInd, <1>1, PTL DEF CounterSpec

(***************************************************************************)
(* The types of the counter, the flash copy and the history are preserved. *)
(***************************************************************************)
THEOREM CounterTypeCorrect == CounterSpec => []CounterTypeOK
<1>1. CounterInv => CounterTypeOK
  BY DEF CounterInv
<1> QED
  BY CounterInvAlways, <1>1, PTL

(***************************************************************************)
(* saveState's margin works from the first save of each boot on: whatever  *)
(* the crash points, a counter is repeated only if its first use was by a  *)
(* boot that crashed before it had saved.                                  *)
(***************************************************************************)
THEOREM ReuseSafety == CounterSpec => []ReuseOnlyBeforeFirstSave
<1>1. CounterInv => ReuseOnlyBeforeFirstSave
  BY DEF CounterInv
<1> QED
  BY CounterInvAlways, <1>1, PTL

(***************************************************************************)
(* The flash copy is never overwritten by a smaller counter.               *)
(***************************************************************************)
THEOREM FlashMonotone == CounterSpec => FlashNeverRewinds
<1>1. CounterInv /\ [CounterNext]_counterVars => [haveSaved => haveSaved' /\ savedCounter' >= savedCounter]_counterVars
  <2> SUFFICES ASSUME CounterInv, CounterNext, haveSaved
               PROVE  haveSaved' /\ savedCounter' >= savedCounter
    OBVIOUS
  <2>1. CASE SaveState
    BY <2>1, MarginAssumption
    DEF CounterInv, CounterTypeOK, RunningAboveFlash, SaveState, StoredCounter, RestoredCounter
  <2>2. CASE Boot \/ Join \/ LoseParent \/ Secure \/ Crash
    <3>1. haveSaved' = haveSaved /\ savedCounter' = savedCounter
      BY <2>2 DEF Boot, Join, LoseParent, Secure, Crash
    <3>2. savedCounter \in Nat
      BY DEF CounterInv, CounterTypeOK
    <3>3. savedCounter' >= savedCounter
      BY <3>1, <3>2
    <3> QED
      BY <3>1, <3>3
  <2> QED
    BY <2>1, <2>2 DEF CounterNext
<1> QED
  BY CounterInvAlways, <1>1, PTL DEF CounterSpec, FlashNeverRewinds

-----------------------------------------------------------------------------
(***************************************************************************)
(* AttributeReporting.  Whoever is wrong about the client, the node has    *)
(* made one of its three mistakes, or the report that told the client is   *)
(* still being sent.                                                       *)
(***************************************************************************)
Sends == [arrived : BOOLEAN, age : Nat]
ReportTypeOK ==
  /\ onOff \in BOOLEAN /\ clientView \in BOOLEAN
  /\ reporter \in [configured : BOOLEAN, min : MinIntervals \cup {0}, max : MaxIntervals \cup {0},
                   last : BOOLEAN, elapsed : Nat]
  /\ reports \in Seq(Sends)
Arrived == \E i \in DOMAIN reports : reports[i].arrived
ReportInv ==
  /\ ReportTypeOK
  /\ reporter.last # clientView => mistaken # {} \/ Arrived

\* The innermost send ends: those around it stay.
LEMMA SendEnds ==
  ASSUME ReportTypeOK, reports # <<>>, reports' = SubSeq(reports, 1, Len(reports) - 1)
  PROVE  /\ reports' \in Seq(Sends) /\ Innermost \in Sends
         /\ ~Innermost.arrived => (Arrived => Arrived')
<1>1. /\ Len(reports) \in Nat \ {0} /\ DOMAIN reports = 1 .. Len(reports)
      /\ reports \in Seq(Sends) /\ \A i \in 1 .. Len(reports) : reports[i] \in Sends
  BY EmptySeq, LenProperties, ElementOfSeq DEF ReportTypeOK
<1>2. /\ reports' \in Seq(Sends) /\ Len(reports') = Len(reports) - 1
      /\ \A i \in 1 .. Len(reports) - 1 : reports'[i] = reports[i]
  <2>1. \A i \in 1 .. Len(reports) - 1 : reports[i] \in Sends
    BY <1>1
  <2> QED
    BY <1>1, <2>1, SubSeqProperties
<1>3. DOMAIN reports' = 1 .. Len(reports) - 1
  BY <1>2, LenProperties
<1>4. Innermost = reports[Len(reports)] /\ Innermost \in Sends
  BY <1>1 DEF Innermost
<1>5. ASSUME ~Innermost.arrived, NEW i \in DOMAIN reports, reports[i].arrived
      PROVE  i \in DOMAIN reports' /\ reports'[i].arrived
  <2>1. i # Len(reports)
    BY <1>4, <1>5
  <2> QED
    BY <1>1, <1>2, <1>3, <1>5, <2>1
<1> QED
  BY <1>2, <1>4, <1>5 DEF Arrived

\* Every step of attribute reporting keeps the invariant.
LEMMA ReportInvStep ==
  ASSUME ReportInv, [ReportNext]_reportVars
  PROVE  ReportInv'
<1>0. ReportTypeOK /\ reports \in Seq(Sends) /\ DOMAIN reports = 1 .. Len(reports) /\ Len(reports) \in Nat
  BY LenProperties DEF ReportInv, ReportTypeOK
<1>1. ASSUME NEW b \in BOOLEAN, StartReport(b) PROVE ReportInv'
  <2> DEFINE send == [arrived |-> b, age |-> 0]
  <2>1. /\ send \in Sends /\ send.arrived = b /\ reports' = Append(reports, send)
        /\ UNCHANGED <<onOff, reporter, mistaken>> /\ clientView' = IF b THEN onOff ELSE clientView
    BY <1>1 DEF StartReport, Sends
  <2> HIDE DEF send
  <2>2. /\ reports' \in Seq(Sends) /\ DOMAIN reports' = 1 .. Len(reports) + 1
        /\ \A i \in DOMAIN reports : reports'[i] = reports[i]
        /\ reports'[Len(reports) + 1] = send
    BY <1>0, <2>1, AppendProperties, LenProperties
  <2>3. b => Arrived'
    <3>1. Len(reports) + 1 \in DOMAIN reports'
      BY <1>0, <2>2
    <3> QED
      BY <2>1, <2>2, <3>1 DEF Arrived
  <2>4. Arrived => Arrived'
    BY <1>0, <2>2 DEF Arrived
  <2> QED
    BY <2>1, <2>2, <2>3, <2>4 DEF ReportInv, ReportTypeOK
<1>2. ASSUME NEW b \in BOOLEAN, FinishReport(b) PROVE ReportInv'
  <2>1. /\ reports' \in Seq(Sends) /\ Innermost \in Sends
        /\ ~Innermost.arrived => (Arrived => Arrived')
    BY <1>0, <1>2, SendEnds DEF FinishReport
  <2>2. UNCHANGED <<onOff, clientView>>
    BY <1>2 DEF FinishReport
  <2>3. CASE b
    <3>1. /\ reporter' \in [configured : BOOLEAN, min : MinIntervals \cup {0}, max : MaxIntervals \cup {0},
                            last : BOOLEAN, elapsed : Nat]
          /\ reporter'.last = onOff
      <4> DEFINE marked == [reporter EXCEPT !.last = onOff]
      <4>1. /\ marked \in [configured : BOOLEAN, min : MinIntervals \cup {0}, max : MaxIntervals \cup {0},
                           last : BOOLEAN, elapsed : Nat]
            /\ marked.last = onOff
        BY <1>0 DEF ReportTypeOK
      <4>2. Innermost.age \in Nat
        BY <2>1 DEF Sends
      <4>3. reporter' = [marked EXCEPT !.elapsed = Innermost.age]
        BY <1>2, <2>3 DEF FinishReport, AfterReport, MarkReported
      <4> HIDE DEF marked
      <4> QED
        BY <4>1, <4>2, <4>3
    <3>2. onOff # clientView => mistaken' # {}
      BY <1>2, <2>3, <3>1 DEF FinishReport, Mistakes
    <3> QED
      BY <1>0, <2>1, <2>2, <3>1, <3>2 DEF ReportInv, ReportTypeOK
  <2>4. CASE ~b
    <3>1. reporter' = reporter
      BY <1>2, <2>4 DEF FinishReport, AfterReport
    <3>2. reporter.last # clientView =>
            mistaken' = mistaken \cup IF Innermost.arrived THEN {"acknowledgement lost"} ELSE {}
      BY <1>2, <2>4, <3>1 DEF FinishReport, Mistakes
    <3> QED
      BY <1>0, <2>1, <2>2, <3>1, <3>2 DEF ReportInv, ReportTypeOK
  <2> QED
    BY <2>3, <2>4
<1>3. CASE ToggleAttribute
  BY <1>0, <1>3 DEF ToggleAttribute, ReportInv, ReportTypeOK, Arrived
<1>4. ASSUME NEW lo \in MinIntervals, NEW hi \in MaxIntervals, ConfigureReporting(lo, hi) PROVE ReportInv'
  <2>1. /\ UNCHANGED <<onOff, reports, clientView>> /\ reporter' = Configured(lo, hi)
        /\ reporter'.last = onOff
    BY <1>4 DEF ConfigureReporting, Configured
  <2>2. reporter' \in [configured : BOOLEAN, min : MinIntervals \cup {0}, max : MaxIntervals \cup {0},
                       last : BOOLEAN, elapsed : Nat]
    BY <1>0, <2>1 DEF Configured, ReportTypeOK
  <2>3. onOff # clientView =>
          mistaken' = mistaken \cup IF onOff # reporter.last THEN {"configured before the report"} ELSE {}
    BY <1>4, <2>1 DEF ConfigureReporting, Mistakes
  <2> QED
    BY <1>0, <2>1, <2>2, <2>3 DEF ReportInv, ReportTypeOK, Arrived
<1>5. CASE SecondPasses
  <2>1. \A t \in Nat : Older(t) \in Nat
    BY DEF Older
  <2>2. /\ UNCHANGED <<onOff, clientView, mistaken>>
        /\ reporter' = [reporter EXCEPT !.elapsed = Older(reporter.elapsed)]
        /\ reports' = [i \in DOMAIN reports |-> [reports[i] EXCEPT !.age = Older(reports[i].age)]]
    BY <1>5 DEF SecondPasses
  <2> HIDE DEF Older
  <2>3. /\ reporter' \in [configured : BOOLEAN, min : MinIntervals \cup {0}, max : MaxIntervals \cup {0},
                          last : BOOLEAN, elapsed : Nat]
        /\ reporter'.last = reporter.last
    BY <1>0, <2>1, <2>2 DEF ReportTypeOK
  <2>4. ASSUME NEW i \in DOMAIN reports
        PROVE  reports'[i] \in Sends /\ reports'[i].arrived = reports[i].arrived
    <3>1. reports[i] \in Sends /\ reports'[i] = [reports[i] EXCEPT !.age = Older(reports[i].age)]
      BY <1>0, <2>2, ElementOfSeq
    <3> QED
      BY <2>1, <3>1 DEF Sends
  <2>5. DOMAIN reports' = DOMAIN reports /\ reports' \in Seq(Sends)
    <3>1. reports' \in [1 .. Len(reports) -> Sends]
      BY <1>0, <2>2, <2>4
    <3> QED
      BY <1>0, <3>1, SeqDef
  <2> QED
    BY <1>0, <2>2, <2>3, <2>4, <2>5 DEF ReportInv, ReportTypeOK, Arrived
<1>6. CASE UNCHANGED reportVars
  BY <1>0, <1>6 DEF reportVars, ReportInv, ReportTypeOK, Arrived
<1> QED
  BY <1>1, <1>2, <1>3, <1>4, <1>5, <1>6 DEF ReportNext

(***************************************************************************)
(* sendReportIfDue: between sends the node and the client agree on the     *)
(* value reported last, or a mistake the code is known to make explains    *)
(* it; for any intervals and any nesting of sends.                         *)
(***************************************************************************)
THEOREM BelievesWhatClientKnowsAlways == ReportSpec => []BelievesWhatClientKnows
<1>1. ReportInit => ReportInv
  <2> SUFFICES ASSUME ReportInit PROVE ReportInv
    OBVIOUS
  <2>1. reports \in Seq(Sends)
    BY DEF ReportInit
  <2>2. /\ onOff = FALSE /\ clientView = FALSE
        /\ reporter = [configured |-> FALSE, min |-> 0, max |-> 0, last |-> FALSE, elapsed |-> 0]
    BY DEF ReportInit
  <2> QED
    BY <2>1, <2>2 DEF ReportInv, ReportTypeOK
<1>2. ReportInv /\ [ReportNext]_reportVars => ReportInv'
  BY ReportInvStep
<1>3. ReportInv => BelievesWhatClientKnows
  BY DEF ReportInv, BelievesWhatClientKnows, Arrived
<1> QED
  BY <1>1, <1>2, <1>3, PTL DEF ReportSpec

-----------------------------------------------------------------------------
(***************************************************************************)
(* Commissioning: the binding table holds each binding at most once, what  *)
(* finding made is stored unless the table was full, and a send to the     *)
(* bound destinations has served exactly those below its cursor.           *)
(***************************************************************************)
IsBinding(b) == \E c, t, e : b = Binding(c, t, e)

TableOK(table) ==
  /\ table = [s \in 1 .. BindingSlots |-> table[s]]
  /\ \A s \in 1 .. BindingSlots : table[s] = NoBinding \/ IsBinding(table[s])
  /\ \A s, r \in 1 .. BindingSlots : table[s] = table[r] => s = r \/ table[s] = NoBinding

StepsAccounted ==
  /\ bdb = [pending |-> bdb.pending, current |-> bdb.current, state |-> bdb.state,
            last |-> bdb.last]
  /\ bdb.state = "done" => bdb.current = "none"
  /\ bdb.current = "finding" => DueModes(bdb.pending \ {"finding"}) = {}
  /\ failed \cap NetworkSteps # {} =>
       bdb.state = "done" /\ bdb.current = "none" /\ bdb.last # "success"

FoundAreStored ==
  \/ found \subseteq Stored(bindings)
  \/ bdb.state = "done" /\ bdb.current = "none" /\ bdb.last # "success"

ServedBelowCursor ==
  /\ DOMAIN press = DOMAIN NoPress
  /\ press.cursor \in Nat /\ (press.cursor = 0 => press.cluster = {})
  /\ press.bound \subseteq Stored(bindings)
  /\ \A b \in press.bound : {b.cluster} = press.cluster
  /\ \A s \in 1 .. BindingSlots :
       bindings[s] \in press.bound => (s < press.cursor <=> bindings[s] \in press.served)
  /\ press.again \cap press.bound = {}

CommissioningInv ==
  TableOK(bindings) /\ StepsAccounted /\ FoundAreStored /\ ServedBelowCursor

(***************************************************************************)
(* A binding is marked used, and none is.                                  *)
(***************************************************************************)
LEMMA BindingIsUsed ==
  /\ NoBinding.used = FALSE
  /\ \A b : IsBinding(b) => b.used = TRUE /\ b # NoBinding
<1>1. NoBinding.used = FALSE
  BY DEF NoBinding
<1>2. ASSUME NEW b, IsBinding(b) PROVE b.used = TRUE
  BY <1>2 DEF IsBinding, Binding
<1> QED
  BY <1>1, <1>2

(***************************************************************************)
(* A search that finds slots returns one of them.                          *)
(***************************************************************************)
LEMMA LowestIsOne ==
  ASSUME NEW slots \in SUBSET Nat, slots # {}
  PROVE  LowestSlot(slots) \in slots /\ \A r \in slots : LowestSlot(slots) <= r
  BY Minimum DEF LowestSlot

(***************************************************************************)
(* The free slots are those without a binding; storing one there keeps all *)
(* the others.                                                             *)
(***************************************************************************)
LEMMA FreeIsNoBinding ==
  ASSUME NEW table, TableOK(table), NEW s \in 1 .. BindingSlots
  PROVE  (s \in FreeBindings(table) <=> table[s] = NoBinding) /\ (~table[s].used <=> table[s] = NoBinding)
<1>1. DOMAIN table = 1 .. BindingSlots
  BY DEF TableOK
<1>2. table[s] = NoBinding \/ IsBinding(table[s])
  BY DEF TableOK
<1> QED
  BY <1>1, <1>2, BindingIsUsed DEF FreeBindings

\* A binding is stored when a slot holds it.
LEMMA StoredWhere ==
  ASSUME NEW table, TableOK(table), NEW b, IsBinding(b)
  PROVE  b \in Stored(table) <=> \E s \in 1 .. BindingSlots : table[s] = b
<1>1. DOMAIN table = 1 .. BindingSlots
  BY DEF TableOK
<1> QED
  BY <1>1, BindingIsUsed DEF Stored

\* The table holds bindings.
LEMMA StoredAreBindings ==
  ASSUME NEW table, TableOK(table)
  PROVE  \A b \in Stored(table) : IsBinding(b) /\ \E s \in 1 .. BindingSlots : table[s] = b
<1>1. DOMAIN table = 1 .. BindingSlots
  BY DEF TableOK
<1> QED
  BY <1>1 DEF Stored, TableOK

(***************************************************************************)
(* What the steps do to the table: a table that keeps every binding of     *)
(* another one where it was, and puts new ones into free slots.            *)
(***************************************************************************)
Extends(new, table) ==
  /\ TableOK(new)
  /\ \A s \in 1 .. BindingSlots : table[s] # NoBinding => new[s] = table[s]
  /\ \A s \in 1 .. BindingSlots : new[s] = table[s] \/ new[s] \notin Stored(table)

\* A binding added leaves the others in their slots.
LEMMA AddBindingExtends ==
  ASSUME NEW table, TableOK(table), NEW b, IsBinding(b), BindingAssumption
  PROVE  Extends(AddBinding(table, b), table)
<1> DEFINE free == FreeBindings(table)
<1>1. DOMAIN table = 1 .. BindingSlots
  BY DEF TableOK
<1>2. CASE SlotsOfBinding(table, b) # {} \/ free = {}
  BY <1>2 DEF AddBinding, Extends
<1>3. CASE SlotsOfBinding(table, b) = {} /\ free # {}
  <2>1. free \subseteq Nat /\ free \subseteq 1 .. BindingSlots
    BY <1>1 DEF BindingAssumption, FreeBindings
  <2> DEFINE n == LowestSlot(free)
  <2>2. n \in free
    BY <2>1, <1>3, LowestIsOne
  <2> HIDE DEF n
  <2>3. n \in 1 .. BindingSlots /\ table[n] = NoBinding
    BY <2>1, <2>2, FreeIsNoBinding
  <2>4. AddBinding(table, b) = [table EXCEPT ![n] = b]
    BY <1>3 DEF AddBinding, n
  <2> DEFINE new == [table EXCEPT ![n] = b]
  <2>5. \A s \in 1 .. BindingSlots : new[s] = IF s = n THEN b ELSE table[s]
    BY <1>1
  <2>6. new = [s \in 1 .. BindingSlots |-> new[s]]
    BY <1>1
  <2> HIDE DEF new
  <2>7. \A s \in 1 .. BindingSlots : table[s] # b
    BY <1>1, <1>3 DEF SlotsOfBinding
  <2>8. b \notin Stored(table)
    BY <2>7, StoredWhere
  <2>9. \A s \in 1 .. BindingSlots : new[s] = NoBinding \/ IsBinding(new[s])
    BY <2>5 DEF TableOK
  <2>10. \A s, r \in 1 .. BindingSlots : new[s] = new[r] => s = r \/ new[s] = NoBinding
    BY <2>5, <2>7 DEF TableOK
  <2> QED
    BY <2>3, <2>4, <2>5, <2>6, <2>8, <2>9, <2>10 DEF Extends, TableOK, new
<1> QED
  BY <1>2, <1>3

(***************************************************************************)
(* Two of the slots, or of the wanted bindings, do not come at the same    *)
(* place in their order.                                                   *)
(***************************************************************************)
LEMMA RanksDiffer ==
  ASSUME NEW S, IsFiniteSet(S), S \subseteq Nat, NEW i \in S, NEW j \in S, i < j
  PROVE  Rank(i, S) # Rank(j, S)
<1> DEFINE I == {k \in S : k <= i}
           J == {k \in S : k <= j}
<1>1. I \subseteq J /\ j \in J /\ j \notin I
  <2>1. ASSUME NEW k \in S, k <= i PROVE k <= j
    <3>1. k \in Nat /\ i \in Nat /\ j \in Nat
      OBVIOUS
    <3> QED
      BY <3>1, <2>1
  <2>2. j <= j /\ ~ (j <= i)
    <3>1. i \in Nat /\ j \in Nat
      OBVIOUS
    <3> QED
      BY <3>1
  <2> QED
    BY <2>1, <2>2, Zenon
<1>2. IsFiniteSet(J) /\ IsFiniteSet(I)
  BY FS_Subset
<1>3. Cardinality(I) < Cardinality(J)
  BY <1>1, <1>2, FS_Subset, FS_CardinalityType
<1> QED
  BY <1>2, <1>3, FS_CardinalityType DEF Rank

\* Creating bindings for the clusters found leaves those there were.
LEMMA CreateBindingsExtends ==
  ASSUME NEW table, TableOK(table), NEW wanted, BindingAssumption,
         DOMAIN wanted \subseteq Nat,
         \A i \in DOMAIN wanted : IsBinding(wanted[i]),
         \A i, j \in DOMAIN wanted : wanted[i] = wanted[j] => i = j
  PROVE  Extends(CreateBindings(table, wanted), table)
<1> DEFINE new == CreateBindings(table, wanted)
           chosen(s) == CHOOSE i \in PutInto(table, wanted, s) : TRUE
<1>1. DOMAIN table = 1 .. BindingSlots
  BY DEF TableOK
<1> DEFINE slot(s) == IF PutInto(table, wanted, s) = {} THEN table[s] ELSE wanted[chosen(s)]
<1>2. /\ new = [s \in 1 .. BindingSlots |-> new[s]]
      /\ \A s \in 1 .. BindingSlots :
           new[s] = IF PutInto(table, wanted, s) = {} THEN table[s] ELSE wanted[chosen(s)]
  <2>1. new = [s \in 1 .. BindingSlots |-> slot(s)]
    BY <1>1, Zenon DEF CreateBindings
  <2> HIDE DEF new, chosen
  <2>2. \A s \in 1 .. BindingSlots : new[s] = slot(s)
    BY <2>1
  <2> QED
    BY <2>1, <2>2
<1> HIDE DEF new
<1>3. ASSUME NEW s \in 1 .. BindingSlots, PutInto(table, wanted, s) # {}
      PROVE  /\ chosen(s) \in Missing(table, wanted) /\ chosen(s) \in DOMAIN wanted
             /\ s \in FreeBindings(table) /\ table[s] = NoBinding
             /\ Rank(chosen(s), Missing(table, wanted)) = Rank(s, FreeBindings(table))
             /\ new[s] = wanted[chosen(s)] /\ new[s] \notin Stored(table) /\ IsBinding(new[s])
  <2>1. chosen(s) \in PutInto(table, wanted, s)
    BY <1>3
  <2> HIDE DEF chosen
  <2>2. /\ chosen(s) \in Missing(table, wanted) /\ ~table[s].used
        /\ Rank(chosen(s), Missing(table, wanted)) = Rank(s, FreeBindings(table))
    BY <2>1 DEF PutInto
  <2>3. chosen(s) \in DOMAIN wanted /\ wanted[chosen(s)] \notin Stored(table)
    BY <2>2 DEF Missing
  <2>4. s \in FreeBindings(table) /\ table[s] = NoBinding
    BY <2>2, <1>1, FreeIsNoBinding DEF FreeBindings
  <2>5. new[s] = wanted[chosen(s)]
    BY <1>2, <1>3 DEF chosen
  <2> QED
    BY <2>2, <2>3, <2>4, <2>5
<1> HIDE DEF chosen
<1>4. ASSUME NEW s \in 1 .. BindingSlots, PutInto(table, wanted, s) = {}
      PROVE  new[s] = table[s]
  BY <1>2, <1>4
<1>5. IsFiniteSet(FreeBindings(table)) /\ FreeBindings(table) \subseteq Nat
  <2>1. IsFiniteSet(1 .. BindingSlots)
    <3>1. 1 \in Int /\ BindingSlots \in Int
      BY DEF BindingAssumption
    <3> QED
      BY <3>1, FS_Interval
  <2>2. FreeBindings(table) \subseteq 1 .. BindingSlots
    BY <1>1 DEF FreeBindings
  <2> QED
    BY <2>1, <2>2, FS_Subset DEF BindingAssumption
<1>6. ASSUME NEW s \in 1 .. BindingSlots, NEW r \in 1 .. BindingSlots, new[s] = new[r],
             PutInto(table, wanted, s) # {}, PutInto(table, wanted, r) # {}
      PROVE  s = r
  <2>1. chosen(s) = chosen(r)
    BY <1>6, <1>3
  <2>2. Rank(s, FreeBindings(table)) = Rank(r, FreeBindings(table))
    BY <2>1, <1>3, <1>6
  <2>3. s \in FreeBindings(table) /\ r \in FreeBindings(table)
    BY <1>3, <1>6
  <2>4. ~ (s < r) /\ ~ (r < s)
    BY <2>2, <2>3, <1>5, RanksDiffer
  <2> QED
    BY <2>4, <2>3, <1>5
<1>7. ASSUME NEW s \in 1 .. BindingSlots
      PROVE  table[s] = NoBinding \/ table[s] \in Stored(table)
  BY <1>1 DEF Stored
<1>8. \A s, r \in 1 .. BindingSlots : new[s] = new[r] => s = r \/ new[s] = NoBinding
  <2> SUFFICES ASSUME NEW s \in 1 .. BindingSlots, NEW r \in 1 .. BindingSlots, new[s] = new[r],
                      new[s] # NoBinding
               PROVE  s = r
    BY Zenon
  <2>1. CASE PutInto(table, wanted, s) # {} /\ PutInto(table, wanted, r) # {}
    BY <2>1, <1>6
  <2>2. CASE PutInto(table, wanted, s) = {} /\ PutInto(table, wanted, r) = {}
    BY <2>2, <1>4 DEF TableOK
  <2>3. CASE PutInto(table, wanted, s) # {} /\ PutInto(table, wanted, r) = {}
    BY <2>3, <1>3, <1>4, <1>7
  <2>4. CASE PutInto(table, wanted, s) = {} /\ PutInto(table, wanted, r) # {}
    BY <2>4, <1>3, <1>4, <1>7
  <2> QED
    BY <2>1, <2>2, <2>3, <2>4
<1>9. \A s \in 1 .. BindingSlots : new[s] = NoBinding \/ IsBinding(new[s])
  BY <1>3, <1>4 DEF TableOK
<1>10. TableOK(new)
  BY <1>2, <1>8, <1>9 DEF TableOK
<1>11. \A s \in 1 .. BindingSlots : table[s] # NoBinding => new[s] = table[s]
  BY <1>3, <1>4
<1>12. \A s \in 1 .. BindingSlots : new[s] = table[s] \/ new[s] \notin Stored(table)
  BY <1>3, <1>4
<1> QED
  BY <1>10, <1>11, <1>12 DEF Extends, new

(***************************************************************************)
(* A table that keeps what another one had keeps what finding bound, and   *)
(* the bindings a send has to serve stay on their side of the cursor.      *)
(***************************************************************************)
LEMMA ExtendsKeeps ==
  ASSUME CommissioningInv, NEW new, Extends(new, bindings)
  PROVE  /\ Stored(bindings) \subseteq Stored(new)
         /\ \A s \in 1 .. BindingSlots :
              new[s] \in press.bound => (s < press.cursor <=> new[s] \in press.served)
<1>1. DOMAIN bindings = 1 .. BindingSlots /\ DOMAIN new = 1 .. BindingSlots
  BY DEF CommissioningInv, Extends, TableOK
<1>2. Stored(bindings) \subseteq Stored(new)
  <2>1. ASSUME NEW b \in Stored(bindings) PROVE b \in Stored(new)
    <3>1. PICK s \in 1 .. BindingSlots : b = bindings[s] /\ b # NoBinding
      BY <1>1 DEF Stored
    <3>2. new[s] = b
      BY <3>1 DEF Extends
    <3> QED
      BY <1>1, <3>1, <3>2 DEF Stored
  <2> QED
    BY <2>1
<1>3. ASSUME NEW s \in 1 .. BindingSlots, new[s] \in press.bound
      PROVE  s < press.cursor <=> new[s] \in press.served
  <2>1. new[s] = bindings[s]
    BY <1>3 DEF Extends, CommissioningInv, ServedBelowCursor
  <2> QED
    BY <1>3, <2>1 DEF CommissioningInv, ServedBelowCursor
<1> QED
  BY <1>2, <1>3

\* A table that grew serves what it served.
LEMMA ExtendedServes ==
  ASSUME CommissioningInv, NEW new, Extends(new, bindings), bindings' = new, UNCHANGED press
  PROVE  TableOK(bindings)' /\ ServedBelowCursor'
<1>1. TableOK(bindings)'
  BY DEF Extends, TableOK
<1> QED
  BY <1>1, ExtendsKeeps DEF CommissioningInv, ServedBelowCursor

(***************************************************************************)
(* Finding comes last: once it is reported nothing is due.                 *)
(***************************************************************************)
LEMMA FindingIsLast ==
  ASSUME NEW pending, Advance(pending).current = "finding"
  PROVE  DueModes(pending \ {"finding"}) = {}
<1>1. /\ DOMAIN Precedence = 1 .. 4 /\ Precedence[1] = "touchlink" /\ Precedence[2] = "steering"
      /\ Precedence[3] = "formation" /\ Precedence[4] = "finding"
  BY DEF Precedence
<1> DEFINE due == DueModes(pending)
<1>2. due # {} /\ Precedence[LowestSlot(due)] = "finding"
  BY DEF Advance
<1>3. due \subseteq Nat /\ due \subseteq 1 .. 4
  BY <1>1 DEF DueModes
<1>4. LowestSlot(due) \in due /\ \A i \in due : LowestSlot(due) <= i
  BY <1>2, <1>3, LowestIsOne
<1>5. LowestSlot(due) = 4
  BY <1>1, <1>2, <1>3, <1>4
<1>6. \A i \in 1 .. 4 : Precedence[i] \in pending => i = 4
  BY <1>1, <1>3, <1>4, <1>5 DEF DueModes
<1> QED
  BY <1>1, <1>6 DEF DueModes

\* The next commissioning mode, or the end.
LEMMA AdvanceForms ==
  ASSUME NEW pending, NEW status, NEW b, b = WithStatus(Advance(pending), status)
  PROVE  /\ b = [pending |-> b.pending, current |-> b.current, state |-> b.state, last |-> b.last]
         /\ b.state = "done" => b.current = "none"
         /\ b.current = "finding" => DueModes(b.pending \ {"finding"}) = {}
         /\ b.last = status
         /\ DueModes(pending) = {} => b.state = "done" /\ b.current = "none"
  BY FindingIsLast DEF WithStatus, Advance

(***************************************************************************)
(* A result that is reported: a failed network step ends the sequence, and *)
(* after finding nothing is left.                                          *)
(***************************************************************************)
LEMMA ReportKeepsAccount ==
  ASSUME CommissioningInv, bdb.current # "none", NEW status, ReportResult(status)
  PROVE  /\ StepsAccounted'
         /\ bdb.current = "finding" /\ status # "success" =>
              bdb'.state = "done" /\ bdb'.current = "none" /\ bdb'.last # "success"
<1>1. StepsAccounted /\ failed \cap NetworkSteps = {}
  BY DEF CommissioningInv, StepsAccounted
<1>2. CASE status # "success" /\ bdb.current \in NetworkSteps
  <2>1. bdb' = WithStatus(Abandoned, status)
    BY <1>2 DEF ReportResult
  <2>2. bdb.current # "finding"
    BY <1>2 DEF NetworkSteps
  <2> QED
    BY <1>2, <2>1, <2>2 DEF StepsAccounted, WithStatus, Abandoned
<1>3. CASE ~ (status # "success" /\ bdb.current \in NetworkSteps)
  <2>1. bdb' = WithStatus(Advance(bdb.pending \ {bdb.current}), status)
    BY <1>3 DEF ReportResult
  <2>2. failed' \cap NetworkSteps = {}
    BY <1>1, <1>3 DEF ReportResult
  <2>3. bdb.current = "finding" => DueModes(bdb.pending \ {bdb.current}) = {}
    BY <1>1 DEF StepsAccounted
  <2>4. PICK rest : rest = bdb.pending \ {bdb.current}
    OBVIOUS
  <2>5. PICK b : b = WithStatus(Advance(rest), status)
    OBVIOUS
  <2>6. /\ b = [pending |-> b.pending, current |-> b.current, state |-> b.state,
               last |-> b.last]
        /\ b.state = "done" => b.current = "none"
        /\ b.current = "finding" => DueModes(b.pending \ {"finding"}) = {}
        /\ b.last = status
        /\ DueModes(rest) = {} => b.state = "done" /\ b.current = "none"
    BY <2>5, AdvanceForms
  <2>7. bdb' = b /\ (bdb.current = "finding" => DueModes(rest) = {})
    BY <2>1, <2>3, <2>4, <2>5
  <2>8. StepsAccounted'
    BY <2>2, <2>6, <2>7 DEF StepsAccounted
  <2> QED
    BY <2>6, <2>7, <2>8
<1> QED
  BY <1>2, <1>3

(***************************************************************************)
(* The steps of commissioning.                                             *)
(***************************************************************************)
LEMMA CommissioningStarts ==
  ASSUME CommissioningInit, BindingAssumption
  PROVE  CommissioningInv
<1>1. /\ bindings = [s \in 1 .. BindingSlots |-> NoBinding] /\ found = {} /\ press = NoPress
      /\ failed = {}
      /\ bdb = [pending |-> {}, current |-> "none", state |-> "idle", last |-> "success"]
  BY DEF CommissioningInit
<1>2. \A s \in 1 .. BindingSlots : bindings[s] = NoBinding
  BY <1>1
<1>3. bindings = [s \in 1 .. BindingSlots |-> bindings[s]]
  BY <1>1
<1>4. TableOK(bindings)
  BY <1>2, <1>3 DEF TableOK
<1>5. StepsAccounted
  BY <1>1 DEF StepsAccounted
<1>6. FoundAreStored
  BY <1>1 DEF FoundAreStored
<1>7. ServedBelowCursor
  BY <1>1 DEF ServedBelowCursor, NoPress
<1> QED
  BY <1>4, <1>5, <1>6, <1>7 DEF CommissioningInv

\* Commissioning starts.
LEMMA StartKeeps ==
  ASSUME CommissioningInv, NEW modes, Start(modes)
  PROVE  CommissioningInv'
<1> DEFINE b == WithStatus(Advance(modes), "success")
<1>2. /\ b = WithStatus(Advance(modes), "success")
      /\ bdb' = b /\ failed' = {} /\ found' = {} /\ UNCHANGED <<bindings, press>>
  BY DEF Start
<1> HIDE DEF b
<1>1. /\ b = [pending |-> b.pending, current |-> b.current, state |-> b.state, last |-> b.last]
      /\ b.state = "done" => b.current = "none"
      /\ b.current = "finding" => DueModes(b.pending \ {"finding"}) = {}
  BY <1>2, AdvanceForms
<1>3. StepsAccounted'
  BY <1>1, <1>2 DEF StepsAccounted
<1>4. TableOK(bindings)' /\ ServedBelowCursor'
  BY <1>2 DEF CommissioningInv, TableOK, ServedBelowCursor
<1>5. FoundAreStored'
  BY <1>2 DEF FoundAreStored
<1> QED
  BY <1>3, <1>4, <1>5 DEF CommissioningInv

\* A network step, or finding without success, reports its result.
LEMMA NetworkStepKeeps ==
  ASSUME CommissioningInv, NEW status, NetworkStep(status) \/ FindingFails
  PROVE  CommissioningInv'
<1>1. PICK answer : ReportResult(answer)
  BY DEF NetworkStep, FindingFails
<1>2. bdb.current # "none" /\ UNCHANGED <<bindings, found, press>>
  BY DEF NetworkStep, FindingFails, NetworkSteps
<1>3. StepsAccounted'
  BY <1>1, <1>2, ReportKeepsAccount
<1>4. TableOK(bindings)' /\ ServedBelowCursor'
  BY <1>2 DEF CommissioningInv, TableOK, ServedBelowCursor
<1>5. FoundAreStored'
  BY <1>2 DEF CommissioningInv, FoundAreStored, Stored
<1> QED
  BY <1>3, <1>4, <1>5 DEF CommissioningInv

\* Finding creates a binding for every cluster that matches.
LEMMA FindAndBindKeeps ==
  ASSUME CommissioningInv, BindingAssumption, NEW t, NEW at, FindAndBind(t, at)
  PROVE  CommissioningInv'
<1> DEFINE wanted == Wanted(t, at)
           answer == IF ~(Range(wanted) \subseteq Stored(bindings')) THEN "binding table full"
                     ELSE "success"
<1>1. /\ bdb.current = "finding" /\ bindings' = CreateBindings(bindings, wanted)
      /\ ReportResult(answer) /\ found' = Range(wanted) /\ UNCHANGED press
  BY Zenon DEF FindAndBind
<1>2. /\ DOMAIN wanted \subseteq Nat
      /\ \A i \in DOMAIN wanted : IsBinding(wanted[i])
      /\ \A i, j \in DOMAIN wanted : wanted[i] = wanted[j] => i = j
  <2> DEFINE e == Offering(t, at)[1]
             matched == MatchClusters(SimpleDescriptor(t, at, e)[1].inputs)
  <2>1. wanted = [i \in matched |-> Binding(OwnOutputs[i], t, e)]
    BY Zenon DEF Wanted
  <2>2. matched \subseteq 1 .. Len(OwnOutputs) /\ Len(OwnOutputs) \in Nat
    BY DEF MatchClusters, BindingAssumption
  <2>3. \A i, j \in matched : OwnOutputs[i] = OwnOutputs[j] => ~ (j < i)
    BY <2>2 DEF MatchClusters
  <2> HIDE DEF wanted, matched, e
  <2>4. DOMAIN wanted = matched /\ \A i \in matched : wanted[i] = Binding(OwnOutputs[i], t, e)
    BY <2>1
  <2>5. \A i \in matched : IsBinding(wanted[i]) /\ wanted[i].cluster = OwnOutputs[i]
    BY <2>4 DEF IsBinding, Binding
  <2>6. ASSUME NEW i \in matched, NEW j \in matched, wanted[i] = wanted[j] PROVE i = j
    <3>1. ~ (j < i) /\ ~ (i < j)
      BY <2>3, <2>5, <2>6
    <3> QED
      BY <3>1, <2>2
  <2> QED
    BY <2>2, <2>4, <2>5, <2>6
<1> HIDE DEF wanted
<1>3. TableOK(bindings)
  BY DEF CommissioningInv
<1>4. Extends(CreateBindings(bindings, wanted), bindings)
  BY <1>2, <1>3, CreateBindingsExtends
<1>5. TableOK(bindings)' /\ ServedBelowCursor'
  BY <1>1, <1>4, ExtendedServes
<1>6. StepsAccounted' /\ (answer # "success" => bdb'.state = "done" /\ bdb'.current = "none" /\ bdb'.last # "success")
  BY <1>1, ReportKeepsAccount
<1>7. FoundAreStored'
  <2>1. CASE answer = "success"
    BY <1>1, <2>1 DEF FoundAreStored, Stored
  <2>2. CASE answer # "success"
    BY <1>6, <2>2 DEF FoundAreStored
  <2> QED
    BY <2>1, <2>2
<1> QED
  BY <1>5, <1>6, <1>7 DEF CommissioningInv

\* A bind request of another device.
LEMMA BindKeeps ==
  ASSUME CommissioningInv, BindingAssumption, NEW b \in Bindable, Bind(b)
  PROVE  CommissioningInv'
<1>1. IsBinding(b)
  BY DEF Bindable, IsBinding
<1>2. bindings' = AddBinding(bindings, b) /\ UNCHANGED <<bdb, failed, found, press>>
  BY DEF Bind
<1>3. Extends(AddBinding(bindings, b), bindings)
  BY <1>1, AddBindingExtends DEF CommissioningInv
<1>4. TableOK(bindings)' /\ ServedBelowCursor'
  BY <1>2, <1>3, ExtendedServes
<1>5. StepsAccounted'
  BY <1>2 DEF CommissioningInv, StepsAccounted
<1>6. Stored(bindings) \subseteq Stored(bindings')
  BY <1>2, <1>3, ExtendsKeeps
<1>7. FoundAreStored'
  BY <1>2, <1>6 DEF CommissioningInv, FoundAreStored
<1> QED
  BY <1>4, <1>5, <1>7 DEF CommissioningInv

\* An unbind request frees a slot and moves no other binding.
LEMMA UnbindKeeps ==
  ASSUME CommissioningInv, BindingAssumption, NEW b \in Bindable, Unbind(b)
  PROVE  CommissioningInv'
<1>1. IsBinding(b)
  BY DEF Bindable, IsBinding
<1>2. TableOK(bindings) /\ DOMAIN bindings = 1 .. BindingSlots
  BY DEF CommissioningInv, TableOK
<1> DEFINE n == LowestSlot(SlotsOfBinding(bindings, b))
<1>3. n \in 1 .. BindingSlots /\ bindings[n] = b
  <2>1. SlotsOfBinding(bindings, b) \subseteq Nat /\ SlotsOfBinding(bindings, b) # {}
    BY <1>2 DEF SlotsOfBinding, Unbind, BindingAssumption
  <2>2. n \in SlotsOfBinding(bindings, b)
    BY <2>1, LowestIsOne
  <2> QED
    BY <1>2, <2>2 DEF SlotsOfBinding
<1>4. /\ bindings' = [bindings EXCEPT ![n] = NoBinding]
      /\ found' = found \ {b} /\ press' = [press EXCEPT !.bound = @ \ {b}]
      /\ UNCHANGED <<bdb, failed>>
  BY DEF Unbind, RemoveBinding
<1> HIDE DEF n
<1>5. /\ \A s \in 1 .. BindingSlots : bindings'[s] = IF s = n THEN NoBinding ELSE bindings[s]
      /\ bindings' = [s \in 1 .. BindingSlots |-> bindings'[s]]
      /\ DOMAIN bindings' = 1 .. BindingSlots
  BY <1>2, <1>4
<1>6. TableOK(bindings)'
  <2>1. \A s \in 1 .. BindingSlots : bindings'[s] = NoBinding \/ IsBinding(bindings'[s])
    BY <1>2, <1>5 DEF TableOK
  <2>2. \A s, r \in 1 .. BindingSlots :
          bindings'[s] = bindings'[r] => s = r \/ bindings'[s] = NoBinding
    BY <1>2, <1>5 DEF TableOK
  <2> QED
    BY <1>5, <2>1, <2>2 DEF TableOK
<1>7. Stored(bindings) \ {b} \subseteq Stored(bindings')
  <2>1. ASSUME NEW c \in Stored(bindings), c # b PROVE c \in Stored(bindings')
    <3>1. PICK s \in 1 .. BindingSlots : c = bindings[s] /\ c # NoBinding
      BY <1>2 DEF Stored
    <3>2. bindings'[s] = c
      BY <1>3, <1>5, <2>1, <3>1
    <3> QED
      BY <1>5, <3>1, <3>2 DEF Stored
  <2> QED
    BY <2>1
<1>8. StepsAccounted' /\ FoundAreStored'
  BY <1>4, <1>7 DEF CommissioningInv, StepsAccounted, FoundAreStored
<1>9. ServedBelowCursor'
  <2>1. /\ DOMAIN press' = DOMAIN NoPress /\ press'.cursor = press.cursor
        /\ press'.cluster = press.cluster /\ press'.served = press.served
        /\ press'.again = press.again /\ press'.bound = press.bound \ {b}
    BY <1>4 DEF CommissioningInv, ServedBelowCursor, NoPress
  <2>2. \A s \in 1 .. BindingSlots : bindings'[s] \in press'.bound => bindings'[s] = bindings[s]
    <3>1. NoBinding \notin press.bound
      BY DEF CommissioningInv, ServedBelowCursor, Stored
    <3> QED
      BY <1>5, <2>1, <3>1
  <2> QED
    BY <1>7, <2>1, <2>2 DEF CommissioningInv, ServedBelowCursor
<1> QED
  BY <1>6, <1>8, <1>9 DEF CommissioningInv

\* A bound send starts, serves the next slot, or ends.
LEMMA ServingKeeps ==
  ASSUME CommissioningInv, BindingAssumption,
         (\E c : Press(c)) \/ ServeNext \/ PressEnds
  PROVE  CommissioningInv'
<1>1. UNCHANGED <<bdb, failed, bindings, found>>
  BY DEF Press, ServeNext, PressEnds
<1>2. TableOK(bindings)' /\ StepsAccounted'
  BY <1>1 DEF CommissioningInv, TableOK, StepsAccounted
<1>7. FoundAreStored'
  BY <1>1 DEF CommissioningInv, FoundAreStored, Stored
<1>3. TableOK(bindings) /\ DOMAIN bindings = 1 .. BindingSlots /\ Stored(bindings') = Stored(bindings)
  BY <1>1 DEF CommissioningInv, TableOK
<1>4. ASSUME NEW c, Press(c) PROVE ServedBelowCursor'
  <2>1. press' = [NoPress EXCEPT !.cursor = 1, !.cluster = {c},
                    !.bound = {b \in Stored(bindings) : b.cluster = c}]
    BY <1>4 DEF Press
  <2>2. /\ DOMAIN press' = DOMAIN NoPress /\ press'.cursor = 1 /\ press'.cluster = {c}
        /\ press'.bound = {b \in Stored(bindings) : b.cluster = c}
        /\ press'.served = {} /\ press'.again = {}
    BY <2>1 DEF NoPress
  <2>3. \A s \in 1 .. BindingSlots : ~ (s < 1)
    BY DEF BindingAssumption
  <2> QED
    BY <1>1, <1>3, <2>2, <2>3 DEF ServedBelowCursor
<1>5. ASSUME ServeNext PROVE ServedBelowCursor'
  <2> DEFINE n == LowestSlot(Ahead)
             b == bindings[n]
  <2>1. press.cursor \in Nat /\ DOMAIN press = DOMAIN NoPress
    BY DEF CommissioningInv, ServedBelowCursor
  <2>2. Ahead \subseteq Nat /\ Ahead # {} /\ \A s \in Ahead : s \in press.cursor .. BindingSlots
    BY <1>5, <2>1 DEF Ahead, ServeNext, BindingAssumption
  <2>3. n \in Ahead /\ \A r \in Ahead : n <= r
    BY <2>2, LowestIsOne
  <2>4. press' = [press EXCEPT !.cursor = n + 1, !.served = @ \cup ({b} \cap press.bound),
                               !.again = @ \cup ({b} \cap press.served)]
    BY <1>5 DEF ServeNext
  <2> HIDE DEF n
  <2>5. /\ DOMAIN press' = DOMAIN NoPress /\ press'.cursor = n + 1
        /\ press'.cluster = press.cluster /\ press'.bound = press.bound
        /\ press'.served = press.served \cup ({b} \cap press.bound)
        /\ press'.again = press.again \cup ({b} \cap press.served)
    BY <2>1, <2>4 DEF NoPress
  <2>6. n \in Nat /\ n >= press.cursor /\ n <= BindingSlots
    BY <2>1, <2>2, <2>3 DEF BindingAssumption
  <2>7. CASE n \notin 1 .. BindingSlots
    <3>1. n = 0 /\ press.cursor = 0
      BY <2>1, <2>6, <2>7 DEF BindingAssumption
    <3>2. press.cluster = {} /\ {bindings[n].cluster} = press.cluster
      BY <2>3, <3>1 DEF CommissioningInv, ServedBelowCursor, Ahead
    <3> QED
      BY <3>2
  <2>8. CASE n \in 1 .. BindingSlots
    <3>1. press.again' \cap press.bound' = {}
      BY <2>5, <2>6, <2>8 DEF CommissioningInv, ServedBelowCursor
    <3>2. ASSUME NEW s \in 1 .. BindingSlots, bindings[s] \in press.bound
          PROVE  s < n + 1 <=> bindings[s] \in press.served \cup ({b} \cap press.bound)
      <4>1. s < press.cursor <=> bindings[s] \in press.served
        BY <3>2 DEF CommissioningInv, ServedBelowCursor
      <4>2. /\ bindings[s] # NoBinding /\ IsBinding(bindings[s])
            /\ {bindings[s].cluster} = press.cluster
        BY <1>3, <3>2, StoredAreBindings DEF CommissioningInv, ServedBelowCursor, Stored
      <4>3. bindings[s] = b => s = n
        BY <1>3, <2>8, <4>2 DEF TableOK
      <4>4. s >= press.cursor => s \in Ahead
        BY <2>1, <4>2, BindingIsUsed DEF Ahead, BindingAssumption
      <4>5. s < n => s < press.cursor
        BY <2>1, <2>3, <2>6, <4>4
      <4> QED
        BY <2>1, <2>6, <3>2, <4>1, <4>3, <4>5
    <3> QED
      BY <1>1, <1>3, <2>5, <2>6, <3>1, <3>2 DEF CommissioningInv, ServedBelowCursor
  <2> QED
    BY <2>7, <2>8
<1>6. ASSUME PressEnds PROVE ServedBelowCursor'
  BY <1>6 DEF PressEnds, ServedBelowCursor, NoPress
<1> QED
  BY <1>2, <1>7, <1>4, <1>5, <1>6 DEF CommissioningInv

\* Every step keeps the invariant.
LEMMA CommissioningStep ==
  ASSUME CommissioningInv, BindingAssumption, [CommissioningNext]_commissioningVars
  PROVE  CommissioningInv'
<1>1. ASSUME UNCHANGED <<bdb, failed, bindings, found, press>> PROVE CommissioningInv'
  <2>1. TableOK(bindings)'
    BY <1>1 DEF CommissioningInv, TableOK
  <2>2. StepsAccounted' /\ FoundAreStored'
    BY <1>1 DEF CommissioningInv, StepsAccounted, FoundAreStored, Stored
  <2>3. ServedBelowCursor'
    BY <1>1 DEF CommissioningInv, ServedBelowCursor, Stored
  <2> QED
    BY <2>1, <2>2, <2>3 DEF CommissioningInv
<1>2. ASSUME NEW t \in DOMAIN Targets, NEW a \in ShortAddresses, Readdress(t, a)
      PROVE  UNCHANGED <<bdb, failed, bindings, found, press>>
  BY <1>2 DEF Readdress
<1> QED
  BY <1>1, <1>2, StartKeeps, NetworkStepKeeps, FindAndBindKeeps, BindKeeps, UnbindKeeps,
     ServingKeeps DEF CommissioningNext, commissioningVars

\* The invariant implies the two properties.
LEMMA CommissioningSafe ==
  ASSUME CommissioningInv, BindingAssumption
  PROVE  SuccessMeansCommissioned /\ BoundAreServedOnce
<1>1. SuccessMeansCommissioned
  BY DEF CommissioningInv, StepsAccounted, FoundAreStored, SuccessMeansCommissioned
<1>2. ASSUME press # NoPress, Ahead = {}, NEW b \in press.bound PROVE b \in press.served
  <2>1. PICK s \in 1 .. BindingSlots : bindings[s] = b /\ IsBinding(b)
    BY <1>2, StoredAreBindings DEF CommissioningInv, ServedBelowCursor
  <2>2. press.cursor \in Nat /\ {b.cluster} = press.cluster /\ (s < press.cursor <=> b \in press.served)
    BY <1>2, <2>1 DEF CommissioningInv, ServedBelowCursor
  <2>3. s \notin press.cursor .. BindingSlots
    BY <1>2, <2>1, <2>2, BindingIsUsed DEF Ahead
  <2> QED
    BY <2>1, <2>2, <2>3 DEF BindingAssumption
<1> QED
  BY <1>1, <1>2 DEF CommissioningInv, ServedBelowCursor, BoundAreServedOnce

(***************************************************************************)
(* When commissioning ends with SUCCESS, every requested network step      *)
(* succeeded and what finding matched is bound, for every list of output   *)
(* clusters, every set of targets and every size of the binding table.     *)
(***************************************************************************)
THEOREM SuccessMeansCommissionedAlways == CommissioningSpec => []SuccessMeansCommissioned
<1>1. CommissioningSpec => []CommissioningInv
  BY CommissioningStarts, CommissioningStep, BindingAssumption, PTL DEF CommissioningSpec
<1> QED
  BY <1>1, CommissioningSafe, BindingAssumption, PTL

(***************************************************************************)
(* A destination that stays bound during a send is served exactly once.    *)
(***************************************************************************)
THEOREM BoundAreServedOnceAlways == CommissioningSpec => []BoundAreServedOnce
<1>1. CommissioningSpec => []CommissioningInv
  BY CommissioningStarts, CommissioningStep, BindingAssumption, PTL DEF CommissioningSpec
<1> QED
  BY <1>1, CommissioningSafe, BindingAssumption, PTL

-----------------------------------------------------------------------------
(***************************************************************************)
(* The scan for a parent: the table of candidates holds, of each device in *)
(* it, the best sighting, and passes over a device only while the table is *)
(* full of devices heard no worse.                                         *)
(***************************************************************************)
Heard == {sighted[i].sender : i \in DOMAIN sighted}
InTable(s) == \E i \in 1 .. Len(candidates) : candidates[i].sender = s

PassedOver(s) ==
  /\ Len(candidates) = CandidateSlots
  /\ \A i \in 1 .. Len(candidates) : BestSighting(s).lqi <= candidates[i].lqi

ScanTypes ==
  candidates \in Seq(Beacons) /\ Len(candidates) <= CandidateSlots /\ sighted \in Seq(Beacons)

ScanInv ==
  /\ ScanTypes
  /\ \A i, j \in 1 .. Len(candidates) : candidates[i].sender = candidates[j].sender => i = j
  /\ \A i \in 1 .. Len(candidates) :
       /\ candidates[i].sender \in Heard
       /\ candidates[i] = BestSighting(candidates[i].sender)
  /\ \A s \in Heard : InTable(s) \/ PassedOver(s)

(***************************************************************************)
(* A nonempty set of bounded numbers has a greatest element.               *)
(***************************************************************************)
LEMMA Maximum ==
  ASSUME NEW B \in Nat, NEW S \in SUBSET (0 .. B), S # {}
  PROVE  \E m \in S : \A n \in S : n <= m
<1> DEFINE T == {B - x : x \in S}
<1>1. T \in SUBSET Nat /\ T # {}
  <2>1. \A x \in S : B - x \in Nat
    OBVIOUS
  <2> QED
    BY <2>1
<1>2. PICK t \in T : \A u \in T : t <= u
  BY <1>1, Minimum
<1>3. PICK m \in S : t = B - m
  OBVIOUS
<1>4. ASSUME NEW n \in S PROVE n <= m
  <2>1. B - n \in T /\ t <= B - n
    BY <1>2
  <2>2. n \in Int /\ m \in Int
    OBVIOUS
  <2> HIDE DEF T
  <2> QED
    BY <1>3, <2>1, <2>2
<1> QED
  BY <1>4

(***************************************************************************)
(* Of the places in a list of beacons that are looked at, there is a last  *)
(* one of the strongest, a first one of the weakest, and a first one of    *)
(* the best in the order of selectParent.                                  *)
(***************************************************************************)
LEMMA BeaconFields ==
  ASSUME ScanAssumption, NEW b \in Beacons
  PROVE  /\ b.lqi \in 0 .. 255 /\ b.lqi \in Int /\ b.sender \in BeaconSenders
         /\ DepthOf[b.sender] \in 0 .. 255
<1>1. b.lqi \in Qualities /\ b.sender \in BeaconSenders
  BY DEF Beacons
<1>2. b.lqi \in 0 .. 255 /\ DepthOf[b.sender] \in 0 .. 255
  BY <1>1 DEF ScanAssumption
<1> QED
  BY <1>1, <1>2

\* The last of the strongest beacons.
LEMMA LastOfStrongest ==
  ASSUME ScanAssumption, NEW h \in Seq(Beacons), NEW I \in SUBSET (1 .. Len(h)), I # {}
  PROVE  \E i \in I : \A j \in I :
           h[j].lqi < h[i].lqi \/ (h[j].lqi = h[i].lqi /\ j <= i)
<1> DEFINE Q == {h[i].lqi : i \in I}
<1>1. \A i \in I : h[i] \in Beacons /\ h[i].lqi \in 0 .. 255 /\ h[i].lqi \in Int /\ i \in Int
  <2>1. \A i \in I : h[i] \in Beacons /\ i \in Int
    OBVIOUS
  <2> QED
    BY <2>1, BeaconFields
<1>2. Q \in SUBSET (0 .. 255) /\ Q # {} /\ 255 \in Nat
  <2>1. ASSUME NEW q \in Q PROVE q \in 0 .. 255
    <3>1. PICK i \in I : q = h[i].lqi
      BY <2>1
    <3> QED
      BY <1>1, <3>1
  <2>2. PICK i \in I : TRUE
    OBVIOUS
  <2>3. h[i].lqi \in Q
    BY <2>2
  <2> HIDE DEF Q
  <2>4. Q \subseteq 0 .. 255 /\ Q # {}
    BY <2>1, <2>3, Zenon
  <2> QED
    BY <2>4
<1>3. PICK q \in Q : \A r \in Q : r <= q
  BY <1>2, Maximum
<1> DEFINE J == {i \in I : h[i].lqi = q}
<1>4. J \in SUBSET (0 .. Len(h)) /\ J # {} /\ Len(h) \in Nat
  <2>1. Len(h) \in Nat /\ 1 .. Len(h) \subseteq 0 .. Len(h)
    OBVIOUS
  <2>2. J # {}
    BY <1>3
  <2> QED
    BY <2>1, <2>2
<1>5. PICK i \in J : \A j \in J : j <= i
  BY <1>4, Maximum
<1>6. ASSUME NEW j \in I PROVE h[j].lqi < h[i].lqi \/ (h[j].lqi = h[i].lqi /\ j <= i)
  <2>1. h[j].lqi <= q /\ h[i].lqi = q /\ h[j].lqi \in Int /\ q \in Int
    BY <1>1, <1>3
  <2>2. h[j].lqi = q => j <= i
    BY <1>5
  <2> QED
    BY <2>1, <2>2
<1> QED
  BY <1>6

\* The first of the weakest beacons.
LEMMA FirstOfWeakest ==
  ASSUME ScanAssumption, NEW h \in Seq(Beacons), Len(h) # 0
  PROVE  \E i \in 1 .. Len(h) : \A j \in 1 .. Len(h) :
           h[i].lqi < h[j].lqi \/ (h[i].lqi = h[j].lqi /\ i <= j)
<1> DEFINE I == 1 .. Len(h)
           Q == {h[i].lqi : i \in I}
<1>1. /\ \A i \in I : h[i] \in Beacons /\ h[i].lqi \in 0 .. 255 /\ h[i].lqi \in Nat /\ i \in Nat
      /\ Len(h) \in Nat
  <2>1. Len(h) \in Nat /\ \A i \in I : h[i] \in Beacons /\ i \in Nat
    OBVIOUS
  <2>2. \A n \in 0 .. 255 : n \in Nat
    OBVIOUS
  <2> QED
    BY <2>1, <2>2, BeaconFields
<1>2. Q \in SUBSET Nat /\ Q # {}
  <2>1. 1 \in I
    BY <1>1
  <2> QED
    BY <1>1, <2>1
<1>3. PICK q \in Q : \A r \in Q : q <= r
  BY <1>2, Minimum
<1> DEFINE J == {i \in I : h[i].lqi = q}
<1>4. J \in SUBSET Nat /\ J # {}
  BY <1>1
<1>5. PICK i \in J : \A j \in J : i <= j
  BY <1>4, Minimum
<1>6. ASSUME NEW j \in I PROVE h[i].lqi < h[j].lqi \/ (h[i].lqi = h[j].lqi /\ i <= j)
  <2>1. q <= h[j].lqi /\ h[i].lqi = q /\ h[j].lqi \in Int /\ q \in Int
    BY <1>1, <1>3
  <2>2. h[j].lqi = q => i <= j
    BY <1>5
  <2> QED
    BY <2>1, <2>2
<1> QED
  BY <1>6

\* A best beacon in the order of selectParent.
LEMMA BestUsable ==
  ASSUME ScanAssumption, NEW h \in Seq(Beacons), NEW I \in SUBSET (1 .. Len(h)), I # {}
  PROVE  \E i \in I : \A j \in I : ~ Better(h[j], h[i])
<1> DEFINE Q == {h[i].lqi : i \in I}
<1>1. \A i \in I : /\ h[i] \in Beacons /\ h[i].lqi \in 0 .. 255 /\ h[i].lqi \in Int
                   /\ DepthOf[h[i].sender] \in 0 .. 255 /\ DepthOf[h[i].sender] \in Nat
  <2>1. \A i \in I : h[i] \in Beacons
    OBVIOUS
  <2>2. \A n \in 0 .. 255 : n \in Nat
    OBVIOUS
  <2> QED
    BY <2>1, <2>2, BeaconFields
<1>2. Q \in SUBSET (0 .. 255) /\ Q # {} /\ 255 \in Nat
  <2>1. ASSUME NEW q \in Q PROVE q \in 0 .. 255
    <3>1. PICK i \in I : q = h[i].lqi
      BY <2>1
    <3> QED
      BY <1>1, <3>1
  <2>2. PICK i \in I : TRUE
    OBVIOUS
  <2>3. h[i].lqi \in Q
    BY <2>2
  <2> HIDE DEF Q
  <2>4. Q \subseteq 0 .. 255 /\ Q # {}
    BY <2>1, <2>3, Zenon
  <2> QED
    BY <2>4
<1>3. PICK q \in Q : \A r \in Q : r <= q
  BY <1>2, Maximum
<1> DEFINE J == {i \in I : h[i].lqi = q}
           D == {DepthOf[h[i].sender] : i \in J}
<1>4. D \in SUBSET Nat /\ D # {}
  BY <1>1
<1>5. PICK d \in D : \A e \in D : d <= e
  BY <1>4, Minimum
<1>6. PICK i \in J : d = DepthOf[h[i].sender]
  OBVIOUS
<1>7. ASSUME NEW j \in I, Better(h[j], h[i]) PROVE FALSE
  <2>1. h[j].lqi <= q /\ h[i].lqi = q /\ h[j].lqi \in Int /\ q \in Int
    BY <1>1, <1>3, SMTT(30)
  <2>2. h[j].lqi = q /\ DepthOf[h[j].sender] < DepthOf[h[i].sender]
    BY <1>7, <2>1 DEF Better
  <2>3. d <= DepthOf[h[j].sender]
    BY <1>5, <2>2
  <2>4. DepthOf[h[j].sender] \in Nat /\ d = DepthOf[h[i].sender] /\ d \in Nat
    BY <1>1, <1>6
  <2> HIDE DEF D, J, Q
  <2> QED
    BY <2>2, <2>3, <2>4
<1> QED
  BY <1>7

(***************************************************************************)
(* The best sighting of a device heard is one of its sightings, and is     *)
(* replaced by a beacon that is no weaker.                                 *)
(***************************************************************************)
SightedAt(h, s) == {i \in DOMAIN h : h[i].sender = s}
SendersIn(h) == {h[i].sender : i \in DOMAIN h}
IsBestIn(h, i, s) ==
  /\ i \in SightedAt(h, s)
  /\ \A j \in SightedAt(h, s) :
       h[j].lqi < h[i].lqi \/ (h[j].lqi = h[i].lqi /\ j <= i)
BestIn(h, s) ==
  h[CHOOSE i \in SightedAt(h, s) : \A j \in SightedAt(h, s) :
      h[j].lqi < h[i].lqi \/ (h[j].lqi = h[i].lqi /\ j <= i)]

\* Sightings are a function of the beacons heard.
LEMMA SightingsNow ==
  /\ Heard = SendersIn(sighted) /\ \A s : BestSighting(s) = BestIn(sighted, s)
  /\ Heard' = SendersIn(sighted') /\ \A s : BestSighting(s)' = BestIn(sighted', s)
  BY Zenon DEF Heard, SendersIn, BestSighting, BestIn, Sightings, SightedAt

\* There is one best sighting.
LEMMA BestSightingIs ==
  ASSUME ScanAssumption, NEW h \in Seq(Beacons), NEW s, NEW i, IsBestIn(h, i, s)
  PROVE  BestIn(h, s) = h[i]
<1>1. \A j \in SightedAt(h, s) : h[j].lqi \in Int /\ j \in Int
  <2>1. \A j \in SightedAt(h, s) : h[j] \in Beacons /\ j \in Int
    BY DEF SightedAt
  <2> QED
    BY <2>1, BeaconFields
<1> DEFINE P(k) == \A j \in SightedAt(h, s) :
             h[j].lqi < h[k].lqi \/ (h[j].lqi = h[k].lqi /\ j <= k)
           c == CHOOSE k \in SightedAt(h, s) : P(k)
<1>2. i \in SightedAt(h, s) /\ P(i)
  BY DEF IsBestIn
<1>3. c \in SightedAt(h, s) /\ P(c)
  BY <1>2
<1>4. BestIn(h, s) = h[c]
  BY Zenon DEF BestIn
<1> HIDE DEF c
<1>5. c = i
  BY <1>1, <1>2, <1>3
<1> QED
  BY <1>4, <1>5

\* A device heard has a best sighting.
LEMMA BestSightingExists ==
  ASSUME ScanAssumption, NEW h \in Seq(Beacons), NEW s \in SendersIn(h)
  PROVE  \E i \in SightedAt(h, s) : IsBestIn(h, i, s) /\ BestIn(h, s) = h[i]
<1>1. SightedAt(h, s) \in SUBSET (1 .. Len(h)) /\ SightedAt(h, s) # {}
  BY DEF SendersIn, SightedAt
<1>2. PICK i \in SightedAt(h, s) : \A j \in SightedAt(h, s) :
        h[j].lqi < h[i].lqi \/ (h[j].lqi = h[i].lqi /\ j <= i)
  BY <1>1, LastOfStrongest
<1>3. IsBestIn(h, i, s)
  BY <1>2 DEF IsBestIn
<1> QED
  BY <1>3, BestSightingIs

\* The best sighting of a device is a beacon of it.
LEMMA BestSightingFields ==
  ASSUME ScanAssumption, NEW h \in Seq(Beacons), NEW s \in SendersIn(h)
  PROVE  BestIn(h, s) \in Beacons /\ BestIn(h, s).sender = s /\ BestIn(h, s).lqi \in Int
<1>1. PICK i \in SightedAt(h, s) : BestIn(h, s) = h[i]
  BY BestSightingExists
<1>2. h[i] \in Beacons /\ h[i].sender = s
  BY DEF SightedAt
<1> QED
  BY <1>1, <1>2, BeaconFields

\* A new beacon replaces the best sighting of its sender unless it is weaker.
LEMMA NewSighting ==
  ASSUME ScanAssumption, NEW h \in Seq(Beacons), NEW b \in Beacons
  PROVE  LET g == Append(h, b)
         IN  /\ g \in Seq(Beacons)
             /\ SendersIn(g) = SendersIn(h) \cup {b.sender}
             /\ \A s \in SendersIn(h) : s # b.sender => BestIn(g, s) = BestIn(h, s)
             /\ b.sender \notin SendersIn(h) => BestIn(g, b.sender) = b
             /\ b.sender \in SendersIn(h) =>
                  BestIn(g, b.sender) = IF BestIn(h, b.sender).lqi <= b.lqi THEN b
                                            ELSE BestIn(h, b.sender)
<1> SUFFICES ASSUME NEW g, g = Append(h, b)
             PROVE  /\ g \in Seq(Beacons)
                    /\ SendersIn(g) = SendersIn(h) \cup {b.sender}
                    /\ \A s \in SendersIn(h) : s # b.sender => BestIn(g, s) = BestIn(h, s)
                    /\ b.sender \notin SendersIn(h) => BestIn(g, b.sender) = b
                    /\ b.sender \in SendersIn(h) =>
                         BestIn(g, b.sender) = IF BestIn(h, b.sender).lqi <= b.lqi THEN b
                                                   ELSE BestIn(h, b.sender)
  OBVIOUS
<1> DEFINE n == Len(h)
<1>1. /\ g \in Seq(Beacons) /\ Len(g) = n + 1 /\ n \in Nat /\ g[n + 1] = b
      /\ \A i \in 1 .. n : g[i] = h[i] /\ i \in 1 .. n + 1
      /\ DOMAIN h = 1 .. n /\ DOMAIN g = 1 .. n + 1
      /\ \A i \in 1 .. n + 1 : i \in 1 .. n \/ i = n + 1
      /\ n + 1 \in 1 .. n + 1 /\ n + 1 \notin 1 .. n
  OBVIOUS
<1> HIDE DEF n
<1>2. SendersIn(g) = SendersIn(h) \cup {b.sender}
  <2>1. ASSUME NEW s \in SendersIn(g) PROVE s \in SendersIn(h) \cup {b.sender}
    BY <1>1 DEF SendersIn
  <2>2. ASSUME NEW s \in SendersIn(h) PROVE s \in SendersIn(g)
    BY <1>1 DEF SendersIn
  <2>3. b.sender \in SendersIn(g)
    BY <1>1 DEF SendersIn
  <2> QED
    BY <2>1, <2>2, <2>3
<1>3. ASSUME NEW s PROVE SightedAt(g, s) = SightedAt(h, s) \cup {i \in {n + 1} : s = b.sender}
  BY <1>1 DEF SightedAt
<1>4. ASSUME NEW s, NEW i, IsBestIn(g, i, s) PROVE BestIn(g, s) = g[i]
  <2>1. g \in Seq(Beacons)
    BY <1>1
  <2> QED
    BY <1>4, <2>1, BestSightingIs
<1>5. ASSUME NEW s \in SendersIn(h), s # b.sender PROVE BestIn(g, s) = BestIn(h, s)
  <2>1. PICK i \in SightedAt(h, s) : IsBestIn(h, i, s) /\ BestIn(h, s) = h[i]
    BY BestSightingExists
  <2>2. SightedAt(g, s) = SightedAt(h, s) /\ \A j \in SightedAt(h, s) : g[j] = h[j]
    BY <1>1, <1>3, <1>5 DEF SightedAt
  <2>3. IsBestIn(g, i, s)
    BY <2>1, <2>2 DEF IsBestIn
  <2> QED
    BY <1>4, <2>1, <2>2, <2>3
<1>6. ASSUME b.sender \notin SendersIn(h) PROVE BestIn(g, b.sender) = b
  <2>1. SightedAt(h, b.sender) = {}
    BY <1>6 DEF SendersIn, SightedAt
  <2>2. SightedAt(g, b.sender) = {n + 1}
    BY <1>3, <2>1
  <2>3. IsBestIn(g, n + 1, b.sender)
    BY <1>1, <2>2 DEF IsBestIn
  <2> QED
    BY <1>1, <1>4, <2>3
<1>7. ASSUME b.sender \in SendersIn(h)
      PROVE  BestIn(g, b.sender) = IF BestIn(h, b.sender).lqi <= b.lqi THEN b
                                       ELSE BestIn(h, b.sender)
  <2> DEFINE s == b.sender
  <2>1. PICK i \in SightedAt(h, s) : IsBestIn(h, i, s) /\ BestIn(h, s) = h[i]
    BY <1>7, BestSightingExists
  <2>2. /\ SightedAt(g, s) = SightedAt(h, s) \cup {n + 1}
        /\ \A j \in SightedAt(h, s) : /\ g[j] = h[j] /\ j \in Int /\ j <= n
                                   /\ h[j].lqi \in Int
        /\ b.lqi \in Int
    <3>1. SightedAt(h, s) \subseteq 1 .. n
      BY <1>1 DEF SightedAt
    <3>2. \A j \in SightedAt(h, s) : h[j] \in Beacons /\ g[j] = h[j] /\ j \in Int /\ j <= n
      BY <1>1, <3>1
    <3>3. \A j \in SightedAt(h, s) : h[j].lqi \in Int
      BY <3>2, BeaconFields
    <3>4. b.lqi \in Int
      BY BeaconFields
    <3> QED
      BY <1>3, <3>2, <3>3, <3>4, ZenonT(40)
  <2>3. CASE BestIn(h, s).lqi <= b.lqi
    <3>1. IsBestIn(g, n + 1, s)
      <4>1. ASSUME NEW j \in SightedAt(g, s)
            PROVE  \/ g[j].lqi < g[n + 1].lqi
                   \/ g[j].lqi = g[n + 1].lqi /\ j <= n + 1
        <5>1. CASE j = n + 1
          BY <1>1, <5>1
        <5>2. CASE j \in SightedAt(h, s)
          <6>1. h[j].lqi <= h[i].lqi /\ h[i].lqi \in Int /\ h[j].lqi \in Int /\ h[i].lqi <= b.lqi
            BY <2>1, <2>2, <2>3, <5>2 DEF IsBestIn
          <6>3. g[j] = h[j] /\ g[n + 1] = b
            BY <1>1, <2>2, <5>2
          <6>2. j <= n + 1
            <7>1. n \in Nat /\ j \in Int /\ j <= n
              BY <1>1, <2>2, <5>2
            <7> QED
              BY <7>1
          <6> QED
            BY <2>2, <6>1, <6>2, <6>3
        <5> QED
          BY <2>2, <4>1, <5>1, <5>2
      <4> QED
        BY <2>2, <4>1 DEF IsBestIn
    <3> QED
      BY <1>1, <1>4, <2>3, <3>1
  <2>4. CASE ~ (BestIn(h, s).lqi <= b.lqi)
    <3>1. IsBestIn(g, i, s)
      <4>1. ASSUME NEW j \in SightedAt(g, s)
            PROVE  \/ g[j].lqi < g[i].lqi
                   \/ g[j].lqi = g[i].lqi /\ j <= i
        <5>1. CASE j = n + 1
          <6>1. g[j] = b /\ g[i] = h[i] /\ h[i].lqi \in Int /\ ~ (h[i].lqi <= b.lqi)
            BY <1>1, <2>1, <2>2, <2>4, <5>1
          <6> QED
            BY <2>2, <6>1
        <5>2. CASE j \in SightedAt(h, s)
          BY <2>1, <2>2, <5>2 DEF IsBestIn
        <5> QED
          BY <2>2, <4>1, <5>1, <5>2
      <4> QED
        BY <2>1, <2>2, <4>1 DEF IsBestIn
    <3> QED
      BY <1>4, <2>1, <2>2, <2>4, <3>1
  <2> QED
    BY <2>3, <2>4
<1> QED
  BY <1>1, <1>2, <1>5, <1>6, <1>7

PutAt(c, b, i) == [j \in 1 .. Len(c) \cup {i} |-> IF j = i THEN b ELSE c[j]]

\* A beacon put into a slot, or behind the last one.
LEMMA PutCandidate ==
  ASSUME NEW c \in Seq(Beacons), NEW b \in Beacons, NEW i \in 1 .. Len(c) + 1
  PROVE  LET d == PutAt(c, b, i)
         IN  /\ d \in Seq(Beacons) /\ Len(d) = (IF i = Len(c) + 1 THEN Len(c) + 1 ELSE Len(c))
             /\ d[i] = b /\ i \in 1 .. Len(d)
             /\ \A j \in 1 .. Len(d) : j # i => j \in 1 .. Len(c) /\ d[j] = c[j]
<1> SUFFICES ASSUME NEW d, d = PutAt(c, b, i)
             PROVE  /\ d \in Seq(Beacons) /\ Len(d) = (IF i = Len(c) + 1 THEN Len(c) + 1 ELSE Len(c))
                    /\ d[i] = b /\ i \in 1 .. Len(d)
                    /\ \A j \in 1 .. Len(d) : j # i => j \in 1 .. Len(c) /\ d[j] = c[j]
  OBVIOUS
<1> DEFINE n == Len(c)
           m == IF i = n + 1 THEN n + 1 ELSE n
<1>1. n \in Nat /\ m \in Nat /\ 1 .. n \cup {i} = 1 .. m /\ i \in 1 .. m
  OBVIOUS
<1>2. \A j \in 1 .. m : j # i => j \in 1 .. n /\ c[j] \in Beacons
  OBVIOUS
<1>3. d = [j \in 1 .. m |-> IF j = i THEN b ELSE c[j]]
  BY <1>1 DEF PutAt
<1> HIDE DEF m
<1>4. d \in [1 .. m -> Beacons]
  BY <1>2, <1>3
<1>5. d \in Seq(Beacons) /\ Len(d) = m
  <2>1. d \in Seq(Beacons) /\ DOMAIN d = 1 .. m
    <3>1. DOMAIN d = 1 .. m
      BY <1>3
    <3>2. [1 .. m -> Beacons] \in {[1 .. k -> Beacons] : k \in Nat}
      BY <1>1, Zenon
    <3>3. d \in UNION {[1 .. k -> Beacons] : k \in Nat}
      BY <1>4, <3>2, Zenon
    <3>4. d \in Seq(Beacons)
      BY <3>3, SeqDef, Zenon
    <3> QED
      BY <3>1, <3>4
  <2>2. Len(d) \in Nat /\ 1 .. Len(d) = 1 .. m
    BY <2>1, LenProperties
  <2> QED
    BY <1>1, <2>1, <2>2
<1> QED
  BY <1>1, <1>2, <1>3, <1>5 DEF m

(***************************************************************************)
(* Whatever beacon arrives, the table keeps what it promises.              *)
(***************************************************************************)
LEMMA NoteBeaconKeeps ==
  ASSUME ScanAssumption, ScanInv, NEW b \in Beacons, NoteBeacon(b)
  PROVE  ScanInv'
<1>13. PICK c : c = candidates
  OBVIOUS
<1>14. PICK n : n = Len(c)
  OBVIOUS
<1>1. sighted \in Seq(Beacons) /\ sighted' = Append(sighted, b) /\ c \in Seq(Beacons)
      /\ n \in Nat /\ n <= CandidateSlots /\ DOMAIN candidates = 1 .. n /\ CandidateSlots \in Nat \ {0}
  BY <1>13, <1>14 DEF NoteBeacon, ScanInv, ScanTypes, ScanAssumption
<1>2. /\ sighted' \in Seq(Beacons) /\ Heard' = Heard \cup {b.sender}
      /\ \A s \in Heard : s # b.sender => BestSighting(s)' = BestSighting(s)
      /\ b.sender \notin Heard => BestSighting(b.sender)' = b
      /\ b.sender \in Heard =>
           BestSighting(b.sender)' = IF BestSighting(b.sender).lqi <= b.lqi THEN b
                                     ELSE BestSighting(b.sender)
  <2>1. \A s : BestSighting(s)' = BestIn(sighted', s) /\ BestSighting(s) = BestIn(sighted, s)
    BY SightingsNow
  <2>2. Heard' = SendersIn(sighted') /\ Heard = SendersIn(sighted)
    BY SightingsNow
  <2>3. PICK h : h = sighted
    OBVIOUS
  <2>4. PICK g : g = sighted'
    OBVIOUS
  <2>5. h \in Seq(Beacons) /\ g = Append(h, b)
    BY <1>1, <2>3, <2>4
  <2>6. /\ g \in Seq(Beacons) /\ SendersIn(g) = SendersIn(h) \cup {b.sender}
        /\ \A s \in SendersIn(h) : s # b.sender => BestIn(g, s) = BestIn(h, s)
        /\ b.sender \notin SendersIn(h) => BestIn(g, b.sender) = b
        /\ b.sender \in SendersIn(h) =>
             BestIn(g, b.sender) = IF BestIn(h, b.sender).lqi <= b.lqi THEN b
                                   ELSE BestIn(h, b.sender)
    <3>1. ScanAssumption /\ h \in Seq(Beacons) /\ b \in Beacons /\ g = Append(h, b)
      BY <2>5
    <3> QED
      BY <3>1, NewSighting
  <2> QED
    BY <2>1, <2>2, <2>3, <2>4, <2>6
<1>3. \A s \in Heard : BestSighting(s).lqi \in Int /\ BestSighting(s).sender = s
  <2>1. \A s : BestSighting(s) = BestIn(sighted, s)
    BY SightingsNow
  <2>2. Heard = SendersIn(sighted)
    BY SightingsNow
  <2> QED
    BY <1>1, <2>1, <2>2, BestSightingFields
<1>4. b.lqi \in Int /\ \A i \in 1 .. n : c[i].lqi \in Int /\ c[i] \in Beacons
  <2>1. \A i \in 1 .. n : c[i] \in Beacons
    BY <1>1, <1>14
  <2> QED
    BY <2>1, BeaconFields
<1>5. /\ \A i, j \in 1 .. n : c[i].sender = c[j].sender => i = j
      /\ \A i \in 1 .. n : c[i].sender \in Heard /\ c[i] = BestSighting(c[i].sender)
      /\ \A s \in Heard : InTable(s) \/ PassedOver(s)
  BY <1>13, <1>14 DEF ScanInv
<1>6. OwnSlots(b) = {i \in 1 .. n : c[i].sender = b.sender}
  BY <1>1, <1>13 DEF OwnSlots
<1> DEFINE i == CHOOSE i \in BeaconSlots(b) : TRUE
<1>7. candidates' = IF BeaconSlots(b) = {} THEN candidates
                    ELSE [j \in 1 .. n \cup {i} |-> IF j = i THEN b ELSE c[j]]
  BY <1>13, <1>14, Zenon DEF NoteBeacon
<1> HIDE DEF i
\* The table is as it was: its entries are still the best sightings, and only
\* the sender of this beacon may be passed over anew.
<1>8. ASSUME candidates' = candidates, \A j \in 1 .. n : c[j].sender = b.sender => ~ (c[j].lqi <= b.lqi),
             b.sender \in {c[j].sender : j \in 1 .. n}
               \/ (n = CandidateSlots /\ \A j \in 1 .. n : b.lqi <= c[j].lqi)
      PROVE  ScanInv'
  <2>1. \A j \in 1 .. n : BestSighting(c[j].sender)' = c[j]
    BY <1>2, <1>5, <1>8
  <2>2. ASSUME NEW s \in Heard' PROVE InTable(s)' \/ PassedOver(s)'
    <3>1. CASE s = b.sender /\ ~ InTable(s)
      <4>1. n = CandidateSlots /\ \A j \in 1 .. n : b.lqi <= c[j].lqi
        BY <1>13, <1>14, <1>8, <3>1 DEF InTable
      <4>2. BestSighting(s)' = b \/ (s \in Heard /\ BestSighting(s)' = BestSighting(s))
        BY <1>2, <3>1
      <4>3. s \in Heard => PassedOver(s)
        BY <1>5, <3>1
      <4> QED
        BY <1>13, <1>14, <1>8, <4>1, <4>2, <4>3 DEF PassedOver
    <3>2. CASE InTable(s)
      BY <1>13, <1>14, <1>8, <3>2 DEF InTable
    <3>3. CASE s # b.sender /\ ~ InTable(s)
      BY <1>13, <1>14, <1>2, <1>5, <1>8, <2>2, <3>3 DEF PassedOver
    <3> QED
      BY <3>1, <3>2, <3>3
  <2> QED
    BY <1>1, <1>13, <1>14, <1>2, <1>5, <1>8, <2>1, <2>2 DEF ScanInv, ScanTypes
\* The beacon takes slot i, its sender's, a new one or the weakest one.
<1>9. ASSUME candidates' = [j \in 1 .. n \cup {i} |-> IF j = i THEN b ELSE c[j]],
             i \in 1 .. n + 1, i = n + 1 => n < CandidateSlots,
             i \in 1 .. n => c[i].lqi <= b.lqi,
             \A j \in 1 .. n : c[j].sender = b.sender => j = i,
             \/ i \in 1 .. n /\ c[i].sender = b.sender
             \/ i = n + 1
             \/ n = CandidateSlots /\ \A j \in 1 .. n : c[i].lqi <= c[j].lqi
      PROVE  ScanInv'
  <2>7. PICK d : d = candidates'
    OBVIOUS
  <2>1. /\ d \in Seq(Beacons) /\ Len(d) = (IF i = n + 1 THEN n + 1 ELSE n) /\ d[i] = b
        /\ i \in 1 .. Len(d)
        /\ \A j \in 1 .. Len(d) : j # i => j \in 1 .. n /\ d[j] = c[j]
    <3>1. PICK k : k = i
      OBVIOUS
    <3>2. /\ c \in Seq(Beacons) /\ b \in Beacons /\ k \in 1 .. Len(c) + 1
          /\ d = PutAt(c, b, k)
      BY <1>1, <1>9, <1>14, <2>7, <3>1 DEF PutAt
    <3>3. /\ d \in Seq(Beacons) /\ Len(d) = (IF k = Len(c) + 1 THEN Len(c) + 1 ELSE Len(c))
          /\ d[k] = b /\ k \in 1 .. Len(d)
          /\ \A j \in 1 .. Len(d) : j # k => j \in 1 .. Len(c) /\ d[j] = c[j]
      <4> DEFINE e == PutAt(c, b, k)
      <4>1. /\ e \in Seq(Beacons) /\ Len(e) = (IF k = Len(c) + 1 THEN Len(c) + 1 ELSE Len(c))
            /\ e[k] = b /\ k \in 1 .. Len(e)
            /\ \A j \in 1 .. Len(e) : j # k => j \in 1 .. Len(c) /\ e[j] = c[j]
        <5>1. c \in Seq(Beacons) /\ b \in Beacons /\ k \in 1 .. Len(c) + 1
          BY <3>2
        <5> QED
          BY ONLY <5>1, PutCandidate
      <4>2. d = e
        BY <3>2
      <4> HIDE DEF e
      <4> QED
        BY <4>1, <4>2
    <3> QED
      BY <1>14, <3>1, <3>3
  <2>2. ScanTypes'
    <3>1. Len(d) <= CandidateSlots
      BY <1>1, <1>9, <2>1
    <3> QED
      BY <1>13, <1>14, <2>7, <1>2, <2>1, <3>1 DEF ScanTypes
  <2>3. \A j, k \in 1 .. Len(d) : d[j].sender = d[k].sender => j = k
    BY <1>5, <1>9, <2>1
  \* The beacon is its sender's best sighting.
  <2>4. BestSighting(b.sender)' = b
    <3>1. CASE b.sender \notin Heard
      BY <1>2, <3>1
    <3>2. CASE b.sender \in Heard /\ InTable(b.sender)
      <4>1. i \in 1 .. n /\ c[i].sender = b.sender
        BY <1>13, <1>14, <2>7, <1>9, <3>2 DEF InTable
      <4>2. BestSighting(b.sender) = c[i]
        BY <1>5, <4>1
      <4> QED
        BY <1>2, <1>9, <3>2, <4>1, <4>2
    <3>3. CASE b.sender \in Heard /\ ~ InTable(b.sender)
      <4>1. PassedOver(b.sender)
        BY <1>5, <3>3
      <4>2. n = CandidateSlots /\ i \in 1 .. n
        BY <1>1, <1>13, <1>14, <2>7, <1>9, <4>1 DEF PassedOver
      <4>3. BestSighting(b.sender).lqi <= c[i].lqi /\ c[i].lqi <= b.lqi
        BY <1>13, <1>14, <2>7, <1>9, <4>1, <4>2 DEF PassedOver
      <4>4. BestSighting(b.sender).lqi <= b.lqi
        BY <1>3, <1>4, <3>3, <4>2, <4>3
      <4> QED
        BY <1>2, <3>3, <4>4
    <3> QED
      BY <3>1, <3>2, <3>3
  <2>5. ASSUME NEW j \in 1 .. Len(d)
        PROVE  d[j].sender \in Heard' /\ d[j] = BestSighting(d[j].sender)'
    <3>1. CASE j = i
      BY <1>2, <2>1, <2>4, <3>1
    <3>2. CASE j # i
      <4>1. j \in 1 .. n /\ d[j] = c[j] /\ c[j].sender # b.sender
        BY <1>9, <2>1, <3>2
      <4> QED
        BY <1>2, <1>5, <4>1
    <3> QED
      BY <3>1, <3>2
  <2>6. ASSUME NEW s \in Heard' PROVE InTable(s)' \/ PassedOver(s)'
    <3>1. CASE s = b.sender
      BY <1>13, <1>14, <2>7, <2>1, <3>1 DEF InTable
    <3>2. CASE s # b.sender /\ \E j \in 1 .. n : c[j].sender = s /\ j # i
      <4>1. PICK j \in 1 .. n : c[j].sender = s /\ j # i
        BY <3>2
      <4>2. j \in 1 .. Len(d)
        BY <1>1, <2>1
      <4>3. d[j] = c[j]
        BY <2>1, <4>1, <4>2
      <4> QED
        BY <1>13, <1>14, <2>7, <4>1, <4>2, <4>3 DEF InTable
    <3>3. CASE s # b.sender /\ ~ \E j \in 1 .. n : c[j].sender = s /\ j # i
      <4>1. s \in Heard /\ BestSighting(s)' = BestSighting(s)
        BY <1>2, <2>6, <3>3
      <4>2. n = CandidateSlots /\ i \in 1 .. n /\ \A j \in 1 .. n : BestSighting(s).lqi <= c[j].lqi
        <5>1. CASE InTable(s)
          <6>1. i \in 1 .. n /\ c[i].sender = s /\ BestSighting(s) = c[i]
            BY <1>13, <1>14, <2>7, <1>5, <3>3, <5>1 DEF InTable
          <6> QED
            BY <1>1, <1>9, <3>3, <6>1
        <5>2. CASE ~ InTable(s)
          <6>1. PassedOver(s)
            BY <1>5, <4>1, <5>2
          <6> QED
            BY <1>1, <1>13, <1>14, <2>7, <1>9, <6>1 DEF PassedOver
        <5> QED
          BY <5>1, <5>2
      <4>3. Len(d) = n
        BY <1>1, <2>1, <4>2
      <4>4. ASSUME NEW j \in 1 .. Len(d) PROVE BestSighting(s).lqi <= d[j].lqi
        <5>1. CASE j = i
          <6>1. BestSighting(s).lqi <= c[i].lqi /\ c[i].lqi <= b.lqi /\ d[j] = b
            BY <1>9, <2>1, <4>2, <5>1
          <6> QED
            BY <1>3, <1>4, <4>1, <4>2, <6>1
        <5>2. CASE j # i
          BY <2>1, <4>2, <5>2
        <5> QED
          BY <5>1, <5>2
      <4> QED
        BY <1>13, <1>14, <2>7, <4>1, <4>2, <4>3, <4>4 DEF PassedOver
    <3> QED
      BY <3>1, <3>2, <3>3
  <2> QED
    BY <1>13, <1>14, <2>7, <2>2, <2>3, <2>5, <2>6 DEF ScanInv
<1>10. CASE OwnSlots(b) # {}
  <2>1. BeaconSlots(b) = {k \in OwnSlots(b) : c[k].lqi <= b.lqi}
    BY <1>13, <1>14, <1>10 DEF BeaconSlots
  <2>2. CASE BeaconSlots(b) = {}
    <3>1. \A j \in 1 .. n : c[j].sender = b.sender => ~ (c[j].lqi <= b.lqi)
      BY <1>6, <2>1, <2>2
    <3>2. b.sender \in {c[j].sender : j \in 1 .. n}
      BY <1>6, <1>10
    <3> QED
      BY <1>7, <1>8, <2>2, <3>1, <3>2
  <2>3. CASE BeaconSlots(b) # {}
    <3>1. i \in BeaconSlots(b)
      BY <2>3 DEF i
    <3>2. i \in 1 .. n /\ c[i].sender = b.sender /\ c[i].lqi <= b.lqi
      BY <1>6, <2>1, <3>1
    <3>3. i \in 1 .. n + 1 /\ i # n + 1
      BY <1>1, <3>2
    <3>4. \A j \in 1 .. n : c[j].sender = b.sender => j = i
      BY <1>5, <3>2
    <3> QED
      BY <1>7, <1>9, <2>3, <3>2, <3>3, <3>4
  <2> QED
    BY <2>2, <2>3
<1>11. CASE OwnSlots(b) = {} /\ n < CandidateSlots
  <2>1. BeaconSlots(b) = {n + 1}
    BY <1>13, <1>14, <1>11 DEF BeaconSlots
  <2>2. i = n + 1 /\ i \in 1 .. n + 1 /\ i \notin 1 .. n
    BY <1>1, <2>1 DEF i
  <2>3. \A j \in 1 .. n : c[j].sender # b.sender
    BY <1>6, <1>11
  <2> QED
    BY <1>7, <1>9, <1>11, <2>1, <2>2, <2>3
<1>12. CASE OwnSlots(b) = {} /\ ~ (n < CandidateSlots)
  <2>1. n = CandidateSlots /\ n # 0 /\ \A j \in 1 .. n : c[j].sender # b.sender
    BY <1>1, <1>6, <1>12
  <2>2. WeakestSlot \in 1 .. n /\ \A j \in 1 .. n : c[WeakestSlot].lqi <= c[j].lqi
    <3> DEFINE P(k) == \A j \in 1 .. n :
                 c[k].lqi < c[j].lqi \/ (c[k].lqi = c[j].lqi /\ k <= j)
    <3>1. \E k \in 1 .. n : P(k)
      BY <1>1, <1>14, <2>1, FirstOfWeakest, ZenonT(40)
    <3>2. WeakestSlot = CHOOSE k \in 1 .. n : P(k)
      BY <1>1, <1>13, <1>14, ZenonT(40) DEF WeakestSlot
    <3>3. WeakestSlot \in 1 .. n /\ P(WeakestSlot)
      BY <3>1, <3>2
    <3> QED
      BY <1>4, <3>3
  <2>3. BeaconSlots(b) = {k \in {WeakestSlot} : c[k].lqi < b.lqi}
    BY <1>13, <1>14, <1>12 DEF BeaconSlots
  <2>4. CASE BeaconSlots(b) = {}
    <3>1. ~ (c[WeakestSlot].lqi < b.lqi)
      BY <2>3, <2>4
    <3>2. \A j \in 1 .. n : b.lqi <= c[j].lqi
      BY <1>4, <2>2, <3>1
    <3> QED
      BY <1>7, <1>8, <2>1, <2>4, <3>2
  <2>5. CASE BeaconSlots(b) # {}
    <3>1. i \in BeaconSlots(b)
      BY <2>5 DEF i
    <3>2. i = WeakestSlot /\ c[i].lqi < b.lqi
      BY <2>3, <3>1
    <3>3. i \in 1 .. n /\ i \in 1 .. n + 1 /\ i # n + 1 /\ c[i].lqi <= b.lqi
      BY <1>1, <1>4, <2>2, <3>2
    <3> QED
      BY <1>7, <1>9, <2>1, <2>2, <2>5, <3>2, <3>3
  <2> QED
    BY <2>4, <2>5
<1> QED
  BY <1>10, <1>11, <1>12

(***************************************************************************)
(* A scan starts with nothing heard and an empty table.                    *)
(***************************************************************************)
LEMMA NothingHeard ==
  ASSUME ScanAssumption, candidates = <<>>, sighted = <<>>
  PROVE  ScanInv
<1>1. Len(candidates) = 0 /\ 1 .. Len(candidates) = {} /\ Heard = {} /\ 0 <= CandidateSlots
  BY DEF Heard, ScanAssumption
<1>2. ScanTypes
  BY <1>1 DEF ScanTypes
<1> QED
  BY <1>1, <1>2 DEF ScanInv

\* A scan starts over.
LEMMA NothingHeardNext ==
  ASSUME ScanAssumption, candidates' = <<>>, sighted' = <<>>
  PROVE  ScanInv'
<1>1. Len(candidates') = 0 /\ 1 .. Len(candidates') = {} /\ Heard' = {} /\ 0 <= CandidateSlots
  BY DEF Heard, ScanAssumption
<1>2. ScanTypes'
  BY <1>1 DEF ScanTypes
<1> QED
  BY <1>1, <1>2 DEF ScanInv

(***************************************************************************)
(* Choosing the parent leaves the table and what was heard as they are.    *)
(***************************************************************************)
LEMMA TableStays ==
  ASSUME ScanInv, candidates' = candidates, sighted' = sighted
  PROVE  ScanInv'
<1>1. Heard' = Heard /\ \A s : BestSighting(s)' = BestSighting(s)
  <2>1. /\ Heard = SendersIn(sighted) /\ Heard' = SendersIn(sighted')
        /\ \A s : BestSighting(s) = BestIn(sighted, s)
        /\ \A s : BestSighting(s)' = BestIn(sighted', s)
    BY SightingsNow
  <2> QED
    BY <2>1
<1>2. \A s : InTable(s)' = InTable(s) /\ PassedOver(s)' = PassedOver(s)
  BY <1>1 DEF InTable, PassedOver
<1> QED
  BY <1>1, <1>2 DEF ScanInv, ScanTypes

\* Every step of the scan keeps the invariant.
LEMMA ScanStep ==
  ASSUME ScanAssumption, ScanInv, [ScanNext]_scanVars
  PROVE  ScanInv'
<1>1. CASE BeginScan
  BY <1>1, NothingHeardNext DEF BeginScan
<1>2. CASE ChooseParent
  BY <1>2, TableStays DEF ChooseParent
<1>3. ASSUME NEW b \in Beacons, NoteBeacon(b) PROVE ScanInv'
  BY <1>3, NoteBeaconKeeps
<1>4. CASE UNCHANGED scanVars
  BY <1>4, TableStays DEF scanVars
<1> QED
  BY <1>1, <1>2, <1>3, <1>4 DEF ScanNext

(***************************************************************************)
(* The entries of the table are different beacons, so a full table holds   *)
(* as many of them as it has slots.                                        *)
(***************************************************************************)
LEMMA DifferentEntries ==
  ASSUME NEW c, NEW n \in Nat, DOMAIN c = 1 .. n, c = [i \in 1 .. n |-> c[i]],
         \A i, j \in 1 .. n : c[i] = c[j] => i = j
  PROVE  Cardinality(Range(c)) = n
<1>1. c \in Surjection(1 .. n, Range(c))
  BY DEF Surjection, Range
<1>2. c \in Injection(1 .. n, Range(c))
  <2>1. c \in [1 .. n -> Range(c)]
    BY DEF Range
  <2>2. \A a, b \in DOMAIN c : c[a] = c[b] => a = b
    OBVIOUS
  <2> QED
    BY <2>1, <2>2, Zenon DEF Injection, IsInjective
<1>3. ExistsBijection(1 .. n, Range(c))
  BY <1>1, <1>2 DEF ExistsBijection, Bijection
<1> QED
  BY <1>3, FS_CountingElements

(***************************************************************************)
(* What the table holds at any moment of the scan makes the choice right.  *)
(***************************************************************************)
LEMMA ScanSafe ==
  ASSUME ScanAssumption, ScanInv
  PROVE  BestHeardIsSelected
<1>1. PICK c : c = candidates
  OBVIOUS
<1>2. PICK n : n = Len(c)
  OBVIOUS
<1>3. /\ c \in Seq(Beacons) /\ n \in Nat /\ DOMAIN c = 1 .. n /\ n <= CandidateSlots
      /\ c = [i \in 1 .. n |-> c[i]]
  BY <1>1, <1>2 DEF ScanInv, ScanTypes
<1>4. /\ \A i, j \in 1 .. n : c[i].sender = c[j].sender => i = j
      /\ \A i \in 1 .. n : c[i].sender \in Heard /\ c[i] = BestSighting(c[i].sender)
      /\ \A s \in Heard : InTable(s) \/ PassedOver(s)
  BY <1>1, <1>2 DEF ScanInv
<1>5. ASSUME NEW s \in Heard, BestSighting(s).usable, InTable(s)
      PROVE  \E p \in Selected : /\ p = BestSighting(p.sender) /\ p.usable
                                 /\ ~ Better(BestSighting(s), p)
  <2> DEFINE I == {i \in 1 .. n : c[i].usable}
             best == {i \in I : \A j \in I : ~ Better(c[j], c[i])}
  <2>1. PICK k \in 1 .. n : c[k].sender = s
    BY <1>1, <1>2, <1>5 DEF InTable
  <2>2. k \in I /\ c[k] = BestSighting(s)
    BY <1>4, <1>5, <2>1
  <2>3. PICK i \in I : \A j \in I : ~ Better(c[j], c[i])
    BY <1>2, <1>3, <2>2, BestUsable, ZenonT(40)
  <2>4. best \in SUBSET Nat /\ best # {}
    BY <2>3
  <2>5. PICK m \in best : \A j \in best : m <= j
    BY <2>4, Minimum
  <2>6. SelectedSlots = {x \in best : \A j \in best : x <= j}
    BY <1>1, <1>3, Zenon DEF SelectedSlots
  <2>7. m \in SelectedSlots
    BY <2>5, <2>6
  <2>8. c[m] \in Selected
    BY <1>1, <2>7 DEF Selected
  <2>9. m \in 1 .. n /\ c[m].usable /\ ~ Better(c[k], c[m])
    BY <2>2, <2>5
  <2> QED
    BY <1>4, <2>2, <2>8, <2>9
<1>6. ASSUME NEW s \in Heard, ~ InTable(s) PROVE CrowdedByStronger(s)
  <2>1. n = CandidateSlots /\ \A i \in 1 .. n : BestSighting(s).lqi <= c[i].lqi
    BY <1>1, <1>2, <1>4, <1>6 DEF PassedOver
  <2>2. \A x \in Range(c) : BestSighting(s).lqi <= x.lqi /\ x.sender # s
    BY <1>1, <1>2, <1>3, <1>6, <2>1 DEF Range, InTable
  <2>3. {x \in Range(c) : x.sender # s} = Range(c)
    BY <2>2
  <2>4. Cardinality(Range(c)) = n
    BY <1>3, <1>4, DifferentEntries
  <2> QED
    BY <1>1, <2>1, <2>2, <2>3, <2>4 DEF CrowdedByStronger
<1>7. \A s \in Heard : BestSighting(s).usable =>
        \/ CrowdedByStronger(s)
        \/ \E p \in Selected : p = BestSighting(p.sender) /\ p.usable /\ ~ Better(BestSighting(s), p)
  BY <1>5, <1>6
<1> QED
  BY <1>7 DEF BestHeardIsSelected, Heard

(***************************************************************************)
(* Whatever the order and the quality of the beacons, the parent selected  *)
(* is the best of all devices heard, each taken at its best sighting, or   *)
(* the table was full of stronger ones: for every set of senders, every    *)
(* depth and quality they announce and every size of the table.            *)
(***************************************************************************)
THEOREM BestHeardIsSelectedAlways == ScanSpec => []BestHeardIsSelected
<1>1. ScanInit => ScanInv
  BY ScanAssumption, NothingHeard DEF ScanInit
<1>2. ScanSpec => []ScanInv
  BY <1>1, ScanStep, ScanAssumption, PTL DEF ScanSpec
<1> QED
  BY <1>2, ScanSafe, ScanAssumption, PTL

-----------------------------------------------------------------------------
(***************************************************************************)
(* FrameStack: a frame from a send call to the callback of the             *)
(* destination, for payloads of every size and any number of relays.       *)
(***************************************************************************)
Names == {"fcf", "sequence", "dstPan", "dst", "src", "srcPan", "dstIeee", "srcIeee", "radius",
          "relayCount", "relayIndex", "relay", "commandId", "control", "frameCounter", "keySeq",
          "dstEndpoint", "srcEndpoint", "cluster", "profile", "counter", "payload", "const",
          "capability", "assigned", "status", "superframe"}
Clear == [f : Names, k : Nat, i : Nat, n : Nat, s : SUBSET Nat, e : {FALSE}]

\* A function on 1 .. n is a sequence of n elements.
LEMMA AsSequence ==
  ASSUME NEW S, NEW n \in Nat, NEW q \in [1 .. n -> S]
  PROVE  q \in Seq(S) /\ Len(q) = n /\ DOMAIN q = 1 .. Len(q)
  OBVIOUS

\* A sequence of clear bytes, byte by byte.
LEMMA ClearBytes ==
  ASSUME NEW q \in Seq(Clear)
  PROVE  Len(q) \in Nat /\ DOMAIN q = 1 .. Len(q) /\ \A j \in 1 .. Len(q) : q[j] \in Clear
  BY LenProperties

\* Two sequences one after the other.
LEMMA Concatenated ==
  ASSUME NEW S, NEW a \in Seq(S), NEW b \in Seq(S)
  PROVE  /\ a \o b \in Seq(S) /\ Len(a \o b) = Len(a) + Len(b)
         /\ Len(a) \in Nat /\ Len(b) \in Nat /\ DOMAIN (a \o b) = 1 .. Len(a) + Len(b)
         /\ \A j \in 1 .. Len(a) : (a \o b)[j] = a[j]
         /\ \A j \in 1 .. Len(b) : (a \o b)[Len(a) + j] = b[j]
         /\ SubSeq(a \o b, 1, Len(a)) = a
         /\ SubSeq(a \o b, Len(a) + 1, Len(a) + Len(b)) = b
  OBVIOUS

\* Changing the number, the bits or the marking of a byte changes nothing else of it.
LEMMA ChangedNumber ==
  ASSUME NEW x \in Clear, NEW v \in Nat
  PROVE  \E y \in Clear : y = [x EXCEPT !.n = v] /\ y.n = v /\ y.f = x.f /\ y.s = x.s /\ y.k = x.k
<1>1. /\ [x EXCEPT !.n = v] \in Clear /\ [x EXCEPT !.n = v].n = v /\ [x EXCEPT !.n = v].f = x.f
      /\ [x EXCEPT !.n = v].s = x.s /\ [x EXCEPT !.n = v].k = x.k
  BY DEF Clear
<1> QED
  BY <1>1, Zenon

\* A byte with other bits: its field, its number and its place stay.
LEMMA ChangedBits ==
  ASSUME NEW x \in Clear, NEW s \in SUBSET Nat
  PROVE  \E y \in Clear : y = [x EXCEPT !.s = s] /\ y.s = s /\ y.f = x.f /\ y.n = x.n /\ y.k = x.k
<1>1. /\ [x EXCEPT !.s = s] \in Clear /\ [x EXCEPT !.s = s].s = s /\ [x EXCEPT !.s = s].f = x.f
      /\ [x EXCEPT !.s = s].n = x.n /\ [x EXCEPT !.s = s].k = x.k
  BY DEF Clear
<1> QED
  BY <1>1, Zenon

\* The bytes of a field of w bytes carry its name, and neither a number nor bits.
LEMMA FieldBytes ==
  ASSUME NEW f \in Names, NEW w \in Nat
  PROVE  /\ U(f, w) \in Seq(Clear) /\ Len(U(f, w)) = w /\ DOMAIN U(f, w) = 1 .. w
         /\ \A j \in 1 .. w : /\ U(f, w)[j] \in Clear /\ U(f, w)[j].f = f
                              /\ U(f, w)[j].n = 0 /\ U(f, w)[j].s = {}
<1>1. U(f, w) \in [1 .. w -> Clear]
  BY DEF U, AtItem, Clear
<1> QED
  BY <1>1, AsSequence DEF U, AtItem

\* A field of one byte that carries a number.
LEMMA NumberByte ==
  ASSUME NEW f \in Names, NEW v \in Nat
  PROVE  /\ Num(f, v) \in Seq(Clear) /\ Len(Num(f, v)) = 1
         /\ Num(f, v)[1] \in Clear /\ Num(f, v)[1].f = f /\ Num(f, v)[1].n = v
         /\ Num(f, v)[1].s = {}
<1>1. PICK x \in Clear : x = U(f, 1)[1] /\ x.f = f /\ x.s = {}
  <2>1. 1 \in Nat /\ 1 \in 1 .. 1
    OBVIOUS
  <2> QED
    BY <2>1, FieldBytes
<1>2. PICK y \in Clear : y = [x EXCEPT !.n = v] /\ y.n = v /\ y.f = x.f /\ y.s = x.s /\ y.k = x.k
  BY ChangedNumber
<1>3. Num(f, v) = <<y>>
  BY <1>1, <1>2, Zenon DEF Num
<1>4. y.f = f /\ y.n = v /\ y.s = {}
  BY <1>1, <1>2
<1>5. <<y>> \in Seq(Clear) /\ Len(<<y>>) = 1 /\ <<y>>[1] = y
  OBVIOUS
<1> QED
  BY <1>3, <1>4, <1>5

\* Every byte of a field of bits carries the bits of the field.
LEMMA BitBytes ==
  ASSUME NEW f \in Names, NEW w \in Nat, NEW s \in SUBSET Nat
  PROVE  /\ Bits(f, w, s) \in Seq(Clear) /\ Len(Bits(f, w, s)) = w
         /\ \A j \in 1 .. w : /\ Bits(f, w, s)[j] \in Clear /\ Bits(f, w, s)[j].f = f
                              /\ Bits(f, w, s)[j].n = 0 /\ Bits(f, w, s)[j].s = s
<1>1. ASSUME NEW j \in 1 .. w
      PROVE  /\ Bits(f, w, s)[j] \in Clear /\ Bits(f, w, s)[j].f = f
             /\ Bits(f, w, s)[j].n = 0 /\ Bits(f, w, s)[j].s = s
  <2>1. PICK x \in Clear : x = U(f, w)[j] /\ x.f = f /\ x.n = 0
    BY FieldBytes
  <2>2. PICK y \in Clear : y = [x EXCEPT !.s = s] /\ y.s = s /\ y.f = x.f /\ y.n = x.n /\ y.k = x.k
    BY ChangedBits
  <2>3. Bits(f, w, s)[j] = [U(f, w)[j] EXCEPT !.s = s]
    BY Zenon DEF Bits
  <2>4. Bits(f, w, s)[j] = y
    BY <2>1, <2>2, <2>3, Zenon
  <2>5. y.f = f /\ y.n = 0 /\ y.s = s
    BY <2>1, <2>2
  <2> QED
    BY <2>4, <2>5
<1>2. Bits(f, w, s) \in [1 .. w -> Clear]
  <2>1. Bits(f, w, s) = [j \in 1 .. w |-> Bits(f, w, s)[j]]
    BY DEF Bits
  <2> QED
    BY <1>1, <2>1
<1> QED
  BY <1>1, <1>2, AsSequence

\* Every byte of a field of several bytes carries the number of the field.
LEMMA WideBytes ==
  ASSUME NEW f \in Names, NEW w \in Nat, NEW v \in Nat
  PROVE  /\ Wide(f, w, v) \in Seq(Clear) /\ Len(Wide(f, w, v)) = w
         /\ \A j \in 1 .. w : /\ Wide(f, w, v)[j] \in Clear /\ Wide(f, w, v)[j].f = f
                              /\ Wide(f, w, v)[j].n = v /\ Wide(f, w, v)[j].s = {}
<1>1. ASSUME NEW j \in 1 .. w
      PROVE  /\ Wide(f, w, v)[j] \in Clear /\ Wide(f, w, v)[j].f = f
             /\ Wide(f, w, v)[j].n = v /\ Wide(f, w, v)[j].s = {}
  <2>1. PICK x \in Clear : x = U(f, w)[j] /\ x.f = f /\ x.s = {}
    BY FieldBytes
  <2>2. PICK y \in Clear : y = [x EXCEPT !.n = v] /\ y.n = v /\ y.f = x.f /\ y.s = x.s /\ y.k = x.k
    BY ChangedNumber
  <2>3. Wide(f, w, v)[j] = [U(f, w)[j] EXCEPT !.n = v]
    BY Zenon DEF Wide
  <2>4. Wide(f, w, v)[j] = y
    BY <2>1, <2>2, <2>3, Zenon
  <2>5. y.f = f /\ y.n = v /\ y.s = {}
    BY <2>1, <2>2
  <2> QED
    BY <2>4, <2>5
<1>2. Wide(f, w, v) \in [1 .. w -> Clear]
  <2>1. Wide(f, w, v) = [j \in 1 .. w |-> Wide(f, w, v)[j]]
    BY DEF Wide
  <2> QED
    BY <1>1, <2>1
<1> QED
  BY <1>1, <1>2, AsSequence

\* A list of n words: the first byte of the k-th one says which word it is.
LEMMA WordBytes ==
  ASSUME NEW f \in Names, NEW n \in Nat
  PROVE  /\ Words(f, n) \in Seq(Clear) /\ Len(Words(f, n)) = 2 * n
         /\ \A k \in 1 .. n : Words(f, n)[2 * k - 1].k = k
         /\ \A j \in 1 .. 2 * n : Words(f, n)[j].f = f
<1>1. \A j \in 1 .. 2 * n : /\ (j + 1) \div 2 \in 1 .. n /\ 2 - (j % 2) \in 1 .. 2
  OBVIOUS
<1>2. ASSUME NEW j \in 1 .. 2 * n
      PROVE  Words(f, n)[j] \in Clear /\ Words(f, n)[j].f = f /\ Words(f, n)[j].k = (j + 1) \div 2
  <2>1. PICK k \in 1 .. n : k = (j + 1) \div 2
    BY <1>1
  <2>i. PICK i \in 1 .. 2 : i = 2 - (j % 2)
    BY <1>1
  <2>2. Words(f, n)[j] = AtItem(f, k, 2)[i]
    BY <2>1, <2>i DEF Words
  <2>3. AtItem(f, k, 2)[i] \in Clear /\ AtItem(f, k, 2)[i].f = f /\ AtItem(f, k, 2)[i].k = k
    <3>1. AtItem(f, k, 2)[i] = [f |-> f, k |-> k, i |-> i, n |-> 0, s |-> {}, e |-> FALSE]
      BY DEF AtItem
    <3>2. PICK x : x = [f |-> f, k |-> k, i |-> i, n |-> 0, s |-> {}, e |-> FALSE]
      OBVIOUS
    <3>3. x \in Clear /\ x.f = f /\ x.k = k
      BY <3>2 DEF Clear
    <3> QED
      BY <3>1, <3>2, <3>3
  <2> QED
    BY <2>1, <2>2, <2>3, Zenon
<1>3. Words(f, n) \in [1 .. 2 * n -> Clear]
  <2>1. Words(f, n) = [j \in 1 .. 2 * n |-> Words(f, n)[j]]
    BY DEF Words
  <2> QED
    BY <1>2, <2>1
<1>4. \A k \in 1 .. n : 2 * k - 1 \in 1 .. 2 * n /\ ((2 * k - 1) + 1) \div 2 = k
  OBVIOUS
<1> QED
  BY <1>2, <1>3, <1>4, AsSequence

\* A piece of a sequence is known by its elements.
LEMMA Slice ==
  ASSUME NEW S, NEW q \in Seq(S), NEW r \in Seq(S), NEW k \in Nat,
         k + Len(r) <= Len(q), \A j \in 1 .. Len(r) : q[k + j] = r[j]
  PROVE  SubSeq(q, k + 1, k + Len(r)) = r
<1>1. SubSeq(q, k + 1, k + Len(r)) \in Seq(S) /\ Len(SubSeq(q, k + 1, k + Len(r))) = Len(r)
      /\ \A j \in 1 .. Len(r) : SubSeq(q, k + 1, k + Len(r))[j] = q[k + j]
  OBVIOUS
<1> QED
  BY <1>1, SeqEqual

\* A sequence cut in two, and put together again.
LEMMA CutInTwo ==
  ASSUME NEW S, NEW p \in Seq(S), NEW n \in Nat, n <= Len(p)
  PROVE  /\ SubSeq(p, 1, n) \in Seq(S) /\ Len(SubSeq(p, 1, n)) = n
         /\ SubSeq(p, n + 1, Len(p)) \in Seq(S) /\ Len(SubSeq(p, n + 1, Len(p))) = Len(p) - n
         /\ \A j \in 1 .. n : SubSeq(p, 1, n)[j] = p[j]
         /\ \A j \in 1 .. Len(p) - n : SubSeq(p, n + 1, Len(p))[j] = p[n + j]
         /\ SubSeq(p, 1, n) \o SubSeq(p, n + 1, Len(p)) = p
<1>1. /\ SubSeq(p, 1, n) \in Seq(S) /\ Len(SubSeq(p, 1, n)) = n
      /\ \A j \in 1 .. n : SubSeq(p, 1, n)[j] = p[j]
  OBVIOUS
<1>2. /\ SubSeq(p, n + 1, Len(p)) \in Seq(S) /\ Len(SubSeq(p, n + 1, Len(p))) = Len(p) - n
      /\ \A j \in 1 .. Len(p) - n : SubSeq(p, n + 1, Len(p))[j] = p[n + j]
  OBVIOUS
<1>3. PICK a \in Seq(S) : a = SubSeq(p, 1, n)
  BY <1>1
<1>4. PICK b \in Seq(S) : b = SubSeq(p, n + 1, Len(p))
  BY <1>2
<1>5. /\ a \o b \in Seq(S) /\ Len(a \o b) = Len(a) + Len(b)
      /\ \A j \in 1 .. Len(a) : (a \o b)[j] = a[j]
      /\ \A j \in 1 .. Len(b) : (a \o b)[Len(a) + j] = b[j]
  BY Concatenated
<1>6. Len(a) = n /\ Len(b) = Len(p) - n /\ Len(p) \in Nat
  BY <1>1, <1>2, <1>3, <1>4
<1>7. ASSUME NEW j \in 1 .. Len(p)
      PROVE  (a \o b)[j] = p[j]
  <2>1. CASE j <= n
    BY <1>1, <1>3, <1>5, <1>6, <2>1
  <2>2. CASE j > n
    <3>1. PICK i \in 1 .. Len(p) - n : j = n + i
      <4>1. j - n \in 1 .. Len(p) - n /\ j = n + (j - n)
        BY <1>6, <2>2
      <4> QED
        BY <4>1
    <3> QED
      BY <1>2, <1>4, <1>5, <1>6, <3>1
  <2> QED
    BY <2>1, <2>2, <1>6
<1>8. a \o b = p
  <2>1. PICK c \in Seq(S) : c = a \o b
    BY <1>5
  <2>2. Len(c) = Len(p)
    BY <1>5, <1>6, <2>1
  <2>3. \A j \in 1 .. Len(c) : c[j] = p[j]
    BY <1>7, <2>1, <2>2, Zenon
  <2>4. c = p
    BY <2>2, <2>3, SeqEqual
  <2> QED
    BY <2>1, <2>4
<1> QED
  BY <1>1, <1>2, <1>3, <1>4, <1>8

\* A byte of a frame control with the security bit set, and with it cleared; a byte of
\* ciphertext and the clear byte it hides.
BitSet(r) == [r EXCEPT !.s = r.s \cup {9}]
BitCleared(r) == [r EXCEPT !.s = r.s \ {9}]
Hidden(r) == [r EXCEPT !.e = TRUE]
Shown(r) == [r EXCEPT !.e = FALSE]

\* A byte that was enciphered and deciphered is the byte it was.
LEMMA MarkedByte ==
  ASSUME NEW x \in Clear
  PROVE  Shown(Hidden(x)) = x
  BY DEF Clear, Shown, Hidden

\* The security bit of a byte set, and cleared again.
LEMMA SecuredByte ==
  ASSUME NEW x \in Clear, 9 \notin x.s
  PROVE  \E y \in Clear : /\ y = BitSet(x) /\ y.s = x.s \cup {9}
                          /\ y.n = x.n /\ y.f = x.f /\ BitCleared(y) = x
<1>1. PICK y \in Clear : y = [x EXCEPT !.s = x.s \cup {9}] /\ y.s = x.s \cup {9}
                        /\ y.f = x.f /\ y.n = x.n /\ y.k = x.k
  <2>1. x.s \cup {9} \in SUBSET Nat
    BY DEF Clear
  <2> QED
    BY <2>1, ChangedBits
<1>2. [y EXCEPT !.s = x.s] = x
  BY <1>1 DEF Clear
<1>3. y.s \ {9} = x.s
  BY <1>1
<1>4. BitCleared(y) = [y EXCEPT !.s = y.s \ {9}] /\ BitSet(x) = [x EXCEPT !.s = x.s \cup {9}]
  BY DEF BitSet, BitCleared
<1>5. BitCleared(y) = x /\ BitSet(x) = y
  BY <1>1, <1>2, <1>3, <1>4, Zenon
<1> QED
  BY <1>1, <1>5

\* SecurityBit touches the two bytes of the frame control and no other.
LEMMA SecurityBitSet ==
  ASSUME NEW q, NEW n \in Nat, DOMAIN q = 1 .. n
  PROVE  /\ SecurityBit(q, TRUE) = [j \in 1 .. n |-> SecurityBit(q, TRUE)[j]]
         /\ \A j \in 3 .. n : SecurityBit(q, TRUE)[j] = q[j]
         /\ \A j \in 1 .. 2 : j <= n => SecurityBit(q, TRUE)[j] = BitSet(q[j])
<1>1. SecurityBit(q, TRUE) = [j \in 1 .. n |-> IF j > 2 THEN q[j] ELSE BitSet(q[j])]
  <2>1. SecurityBit(q, TRUE) = [j \in DOMAIN q |-> IF j > 2 THEN q[j] ELSE BitSet(q[j])]
    BY DEF SecurityBit, BitSet
  <2> QED
    BY <2>1, Zenon
<1>2. \A j \in 1 .. n : SecurityBit(q, TRUE)[j] = IF j > 2 THEN q[j] ELSE BitSet(q[j])
  BY <1>1, Zenon
<1>3. ASSUME NEW j \in 3 .. n
      PROVE  SecurityBit(q, TRUE)[j] = q[j]
  <2>1. j \in 1 .. n /\ j > 2
    OBVIOUS
  <2> QED
    BY <1>2, <2>1, Zenon
<1>4. ASSUME NEW j \in 1 .. 2, j <= n
      PROVE  SecurityBit(q, TRUE)[j] = BitSet(q[j])
  <2>1. j \in 1 .. n /\ ~(j > 2)
    BY <1>4
  <2> QED
    BY <1>2, <2>1, Zenon
<1>5. SecurityBit(q, TRUE) = [j \in 1 .. n |-> SecurityBit(q, TRUE)[j]]
  BY <1>1, Zenon
<1> QED
  BY <1>3, <1>4, <1>5

\* The same of the security bit that openNpdu clears.
LEMMA SecurityBitCleared ==
  ASSUME NEW q, NEW n \in Nat, DOMAIN q = 1 .. n
  PROVE  /\ SecurityBit(q, FALSE) = [j \in 1 .. n |-> SecurityBit(q, FALSE)[j]]
         /\ \A j \in 3 .. n : SecurityBit(q, FALSE)[j] = q[j]
         /\ \A j \in 1 .. 2 : j <= n => SecurityBit(q, FALSE)[j] = BitCleared(q[j])
<1>1. SecurityBit(q, FALSE) = [j \in 1 .. n |-> IF j > 2 THEN q[j] ELSE BitCleared(q[j])]
  <2>1. SecurityBit(q, FALSE) = [j \in DOMAIN q |-> IF j > 2 THEN q[j] ELSE BitCleared(q[j])]
    BY DEF SecurityBit, BitCleared
  <2> QED
    BY <2>1, Zenon
<1>2. \A j \in 1 .. n : SecurityBit(q, FALSE)[j] = IF j > 2 THEN q[j] ELSE BitCleared(q[j])
  BY <1>1, Zenon
<1>3. ASSUME NEW j \in 3 .. n
      PROVE  SecurityBit(q, FALSE)[j] = q[j]
  <2>1. j \in 1 .. n /\ j > 2
    OBVIOUS
  <2> QED
    BY <1>2, <2>1, Zenon
<1>4. ASSUME NEW j \in 1 .. 2, j <= n
      PROVE  SecurityBit(q, FALSE)[j] = BitCleared(q[j])
  <2>1. j \in 1 .. n /\ ~(j > 2)
    BY <1>4
  <2> QED
    BY <1>2, <2>1, Zenon
<1>5. SecurityBit(q, FALSE) = [j \in 1 .. n |-> SecurityBit(q, FALSE)[j]]
  BY <1>1, Zenon
<1> QED
  BY <1>3, <1>4, <1>5

\* The header secureNpdu sends: as long, with the numbers it had; openNpdu gets it back.
LEMMA SecuredHeader ==
  ASSUME NEW h \in Seq(Clear), Len(h) >= 2, 9 \notin h[1].s, 9 \notin h[2].s
  PROVE  \E g \in Seq(Clear) :
           /\ g = SecurityBit(h, TRUE) /\ Len(g) = Len(h)
           /\ \A j \in 1 .. Len(h) : g[j].n = h[j].n
           /\ g[1].s = h[1].s \cup {9} /\ g[2].s = h[2].s \cup {9}
           /\ SecurityBit(g, FALSE) = h
<1> DEFINE g == SecurityBit(h, TRUE)
           back == SecurityBit(g, FALSE)
<1>1. Len(h) \in Nat /\ DOMAIN h = 1 .. Len(h) /\ \A j \in 1 .. Len(h) : h[j] \in Clear
  BY ClearBytes
<1>2. /\ g = [j \in 1 .. Len(h) |-> g[j]] /\ \A j \in 3 .. Len(h) : g[j] = h[j]
      /\ \A j \in 1 .. 2 : j <= Len(h) => g[j] = BitSet(h[j])
  BY <1>1, SecurityBitSet, Zenon
<1> HIDE DEF g
<1>3. /\ back = [j \in 1 .. Len(h) |-> back[j]] /\ \A j \in 3 .. Len(h) : back[j] = g[j]
      /\ \A j \in 1 .. 2 : j <= Len(h) => back[j] = BitCleared(g[j])
  <2>1. DOMAIN g = 1 .. Len(h)
    BY <1>2
  <2> QED
    BY <1>1, <2>1, SecurityBitCleared, Zenon
<1> HIDE DEF back
<1>4. ASSUME NEW j \in {1, 2}
      PROVE  /\ g[j] \in Clear /\ g[j].n = h[j].n /\ g[j].s = h[j].s \cup {9}
             /\ BitCleared(g[j]) = h[j]
  <2>1. PICK x \in Clear : x = h[j] /\ 9 \notin x.s
    BY <1>1
  <2>2. PICK y \in Clear : /\ y = BitSet(x) /\ y.s = x.s \cup {9}
                           /\ y.n = x.n /\ y.f = x.f /\ BitCleared(y) = x
    BY <2>1, SecuredByte
  <2>3. g[j] = BitSet(h[j])
    BY <1>1, <1>2
  <2> QED
    BY <2>1, <2>2, <2>3
<1>5. \A j \in 3 .. Len(h) : g[j] = h[j]
  BY <1>2
<1>6. 1 .. Len(h) = {1, 2} \cup (3 .. Len(h))
  BY <1>1
<1>7. \A j \in 1 .. Len(h) : g[j] \in Clear /\ g[j].n = h[j].n /\ back[j] = h[j]
  <2>1. \A j \in {1, 2} : g[j] \in Clear /\ g[j].n = h[j].n /\ back[j] = h[j]
    BY <1>1, <1>3, <1>4
  <2>2. \A j \in 3 .. Len(h) : h[j] \in Clear
    BY <1>1
  <2>3. \A j \in 3 .. Len(h) : g[j] \in Clear /\ g[j].n = h[j].n /\ back[j] = h[j]
    BY <1>3, <1>5, <2>2, Zenon
  <2> QED
    BY <1>6, <2>1, <2>3, Zenon
<1>8. g \in [1 .. Len(h) -> Clear]
  BY <1>2, <1>7
<1>9. g \in Seq(Clear) /\ Len(g) = Len(h)
  BY <1>1, <1>8, AsSequence
<1>10. back = [j \in 1 .. Len(h) |-> back[j]] /\ h = [j \in 1 .. Len(h) |-> h[j]]
  BY <1>1, <1>3
<1>11. back = h
  BY <1>7, <1>10
<1>12. g[1].s = h[1].s \cup {9} /\ g[2].s = h[2].s \cup {9}
  BY <1>4
<1> QED
  BY <1>7, <1>9, <1>11, <1>12 DEF g, back

\* Deciphering is the inverse of enciphering, and neither changes the length.
LEMMA Ciphered ==
  ASSUME NEW b \in Seq(Clear)
  PROVE  /\ Plain(Cipher(b)) = b
         /\ \E S : Clear \subseteq S /\ Cipher(b) \in Seq(S)
         /\ Len(Cipher(b)) = Len(b)
<1>1. Len(b) \in Nat /\ DOMAIN b = 1 .. Len(b) /\ \A j \in 1 .. Len(b) : b[j] \in Clear
  BY ClearBytes
<1> DEFINE c == Cipher(b)
<1>2. c = [j \in 1 .. Len(b) |-> c[j]] /\ DOMAIN c = 1 .. Len(b)
      /\ \A j \in 1 .. Len(b) : c[j] = Hidden(b[j])
  BY <1>1, Zenon DEF Cipher, Hidden
<1>3. ASSUME NEW j \in 1 .. Len(b)
      PROVE  Plain(c)[j] = b[j]
  <2>1. Plain(c)[j] = Shown(c[j])
    BY <1>2, Zenon DEF Plain, Shown
  <2>2. PICK x \in Clear : x = b[j]
    BY <1>1
  <2>3. Shown(Hidden(x)) = x
    BY MarkedByte
  <2> QED
    BY <1>2, <2>1, <2>2, <2>3, Zenon
<1>4. Plain(c) = [j \in 1 .. Len(b) |-> Plain(c)[j]] /\ b = [j \in 1 .. Len(b) |-> b[j]]
  BY <1>1, <1>2 DEF Plain
<1>5. Plain(c) = b
  BY <1>3, <1>4
<1> HIDE DEF c
<1> DEFINE S == Clear \cup {c[j] : j \in 1 .. Len(b)}
<1>6. c \in [1 .. Len(b) -> S]
  BY <1>2
<1>7. c \in Seq(S) /\ Len(c) = Len(b) /\ Clear \subseteq S
  BY <1>1, <1>6, AsSequence
<1> QED
  BY <1>5, <1>7 DEF c

\* The MIC is four bytes, and is the same over a payload and over its ciphertext.
LEMMA MicBytes ==
  ASSUME NEW h, NEW b, NEW c, Len(b) = Len(c)
  PROVE  /\ Mic(h, b) = Mic(h, c)
         /\ \E S : Clear \subseteq S /\ Mic(h, b) \in Seq(S) /\ Len(Mic(h, b)) = 4
<1>1. Mic(h, b) = Mic(h, c)
  BY DEF Mic
<1>2. PICK m : m = Mic(h, b)
  OBVIOUS
<1>3. m = [j \in 1 .. 4 |-> m[j]]
  <2>1. PICK v : m = Wide("mic", 4, v)
    BY <1>2 DEF Mic
  <2> QED
    BY <2>1, Zenon DEF Wide
<1>4. PICK S : S = Clear \cup {m[j] : j \in 1 .. 4}
  OBVIOUS
<1>5. Clear \subseteq S /\ \A j \in 1 .. 4 : m[j] \in S
  BY <1>4
<1>6. m \in [1 .. 4 -> S]
  BY <1>3, <1>5
<1>7. m \in Seq(S) /\ Len(m) = 4
  <2>1. PICK w \in Nat : w = 4
    OBVIOUS
  <2>2. m \in [1 .. w -> S]
    BY <1>6, <2>1
  <2>3. m \in Seq(S) /\ Len(m) = w
    BY <2>2, AsSequence
  <2> QED
    BY <2>1, <2>3
<1> QED
  BY <1>1, <1>2, <1>5, <1>7, Zenon

\* A sequence of bytes is one of any larger set of bytes.
LEMMA Wider ==
  ASSUME NEW S, NEW T, S \subseteq T, NEW q \in Seq(S)
  PROVE  q \in Seq(T)
<1>1. Len(q) \in Nat /\ q \in [1 .. Len(q) -> S]
  BY LenProperties
<1>2. q \in [1 .. Len(q) -> T]
  BY <1>1
<1> QED
  BY <1>1, <1>2, AsSequence

\* c is a with b behind it, byte by byte.
Appends(c, a, b) == c = a \o b
Follows(c, a, b) ==
  /\ Appends(c, a, b) /\ Len(a) \in Nat /\ Len(b) \in Nat /\ Len(c) = Len(a) + Len(b)
  /\ \A j \in 1 .. Len(a) : c[j] = a[j]
  /\ \A j \in 1 .. Len(b) : c[Len(a) + j] = b[j]

\* Two sequences one behind the other, as a sequence with a name of its own.
LEMMA Behind ==
  ASSUME NEW S, NEW a \in Seq(S), NEW b \in Seq(S)
  PROVE  \E c \in Seq(S) : Follows(c, a, b)
<1>1. PICK c : c = a \o b
  OBVIOUS
<1>2. /\ c \in Seq(S) /\ Len(c) = Len(a) + Len(b) /\ Len(a) \in Nat /\ Len(b) \in Nat
      /\ \A j \in 1 .. Len(a) : c[j] = a[j]
      /\ \A j \in 1 .. Len(b) : c[Len(a) + j] = b[j]
  BY <1>1, Concatenated
<1>3. Follows(c, a, b)
  BY <1>1, <1>2, Zenon DEF Follows, Appends
<1> QED
  BY <1>2, <1>3, Zenon

\* The bytes of a named field, for numbers and names written out.
FieldOf(b, f, w) ==
  /\ b = U(f, w) /\ Len(b) = w
  /\ \A j \in 1 .. w : b[j].f = f /\ b[j].n = 0 /\ b[j].s = {}

\* FieldBytes, of a sequence with a name of its own.
LEMMA Field ==
  ASSUME NEW f \in Names, NEW w \in Nat
  PROVE  \E b \in Seq(Clear) : FieldOf(b, f, w)
<1>1. PICK b : b = U(f, w)
  OBVIOUS
<1>2. /\ b \in Seq(Clear) /\ Len(b) = w
      /\ \A j \in 1 .. w : b[j].f = f /\ b[j].n = 0 /\ b[j].s = {}
  BY <1>1, FieldBytes
<1>3. FieldOf(b, f, w)
  BY <1>1, <1>2, Zenon DEF FieldOf
<1> QED
  BY <1>2, <1>3, Zenon

\* The names of the fields used below.
LEMMA OfNames ==
  /\ "fcf" \in Names /\ "sequence" \in Names /\ "dstPan" \in Names /\ "dst" \in Names
  /\ "src" \in Names /\ "srcPan" \in Names /\ "dstIeee" \in Names /\ "srcIeee" \in Names
  /\ "radius" \in Names /\ "relayCount" \in Names /\ "relayIndex" \in Names
  /\ "relay" \in Names /\ "commandId" \in Names /\ "control" \in Names
  /\ "frameCounter" \in Names /\ "keySeq" \in Names /\ "dstEndpoint" \in Names
  /\ "srcEndpoint" \in Names /\ "cluster" \in Names /\ "profile" \in Names
  /\ "counter" \in Names /\ "payload" \in Names /\ "const" \in Names
  /\ "capability" \in Names /\ "assigned" \in Names /\ "status" \in Names
  /\ "superframe" \in Names
  BY DEF Names

\* The auxiliary header after the NWK header.
LEMMA WithAuxiliary ==
  ASSUME NEW g \in Seq(Clear)
  PROVE  \E a \in Seq(Clear) :
           /\ a = g \o U("control", 1) \o U("frameCounter", 4) \o U("srcIeee", 8) \o U("keySeq", 1)
           /\ Len(a) = Len(g) + 14 /\ \A j \in 1 .. Len(g) : a[j] = g[j]
<1>1. PICK b1 \in Seq(Clear) : FieldOf(b1, "control", 1)
  BY Field, OfNames
<1>2. PICK b2 \in Seq(Clear) : FieldOf(b2, "frameCounter", 4)
  BY Field, OfNames
<1>3. PICK b3 \in Seq(Clear) : FieldOf(b3, "srcIeee", 8)
  BY Field, OfNames
<1>4. PICK b4 \in Seq(Clear) : FieldOf(b4, "keySeq", 1)
  BY Field, OfNames
<1>5. PICK a1 \in Seq(Clear) : Follows(a1, g, b1)
  BY Behind
<1>6. PICK a2 \in Seq(Clear) : Follows(a2, a1, b2)
  BY Behind
<1>7. PICK a3 \in Seq(Clear) : Follows(a3, a2, b3)
  BY Behind
<1>8. PICK a4 \in Seq(Clear) : Follows(a4, a3, b4)
  BY Behind
<1>9. a4 = g \o U("control", 1) \o U("frameCounter", 4) \o U("srcIeee", 8) \o U("keySeq", 1)
  BY <1>1, <1>2, <1>3, <1>4, <1>5, <1>6, <1>7, <1>8, Zenon DEF Follows, Appends, FieldOf
<1>10. /\ Len(g) \in Nat /\ Len(a1) = Len(g) + 1 /\ Len(a2) = Len(g) + 5
       /\ Len(a3) = Len(g) + 13 /\ Len(a4) = Len(g) + 14
  <2>1. Len(b1) = 1 /\ Len(b2) = 4 /\ Len(b3) = 8 /\ Len(b4) = 1
    BY <1>1, <1>2, <1>3, <1>4, Zenon DEF FieldOf
  <2>2. /\ Len(g) \in Nat /\ Len(a1) = Len(g) + Len(b1) /\ Len(a2) = Len(a1) + Len(b2)
        /\ Len(a3) = Len(a2) + Len(b3) /\ Len(a4) = Len(a3) + Len(b4)
    BY <1>5, <1>6, <1>7, <1>8, Zenon DEF Follows
  <2> QED
    BY <2>1, <2>2
<1>11. ASSUME NEW j \in 1 .. Len(g)
       PROVE  a4[j] = g[j]
  <2>1. j \in 1 .. Len(a1) /\ j \in 1 .. Len(a2) /\ j \in 1 .. Len(a3)
    BY <1>10
  <2> QED
    BY <1>5, <1>6, <1>7, <1>8, <2>1, Zenon DEF Follows
<1> QED
  BY <1>9, <1>10, <1>11, Zenon

\* Three sequences one after the other, and how each is cut out again.
Parts(w, a, c, m) ==
  /\ w = a \o c \o m /\ Len(w) = Len(a) + Len(c) + Len(m)
  /\ Len(a) \in Nat /\ Len(c) \in Nat /\ Len(m) \in Nat
  /\ \A j \in 1 .. Len(a) : w[j] = a[j]
  /\ SubSeq(w, Len(a) + 1, Len(a) + Len(c)) = c
  /\ SubSeq(w, Len(a) + Len(c) + 1, Len(w)) = m

\* Three sequences one behind the other, each found again where it was put.
LEMMA ThreeParts ==
  ASSUME NEW S, NEW a \in Seq(S), NEW c \in Seq(S), NEW m \in Seq(S)
  PROVE  \E w \in Seq(S) : Parts(w, a, c, m)
<1>1. PICK d \in Seq(S) : Follows(d, a, c)
  BY Behind
<1>2. PICK w \in Seq(S) : Follows(w, d, m)
  BY Behind
<1>3. w = a \o c \o m
  BY <1>1, <1>2, Zenon DEF Follows, Appends
<1>4. /\ Len(w) = Len(a) + Len(c) + Len(m) /\ Len(d) = Len(a) + Len(c)
      /\ Len(a) \in Nat /\ Len(c) \in Nat /\ Len(m) \in Nat
  BY <1>1, <1>2 DEF Follows
<1>5. ASSUME NEW j \in 1 .. Len(a)
      PROVE  w[j] = a[j]
  BY <1>1, <1>2, <1>4 DEF Follows
<1>6. SubSeq(w, Len(a) + 1, Len(a) + Len(c)) = c
  <2>1. ASSUME NEW j \in 1 .. Len(c)
        PROVE  w[Len(a) + j] = c[j]
    BY <1>1, <1>2, <1>4 DEF Follows
  <2>2. Len(a) + Len(c) <= Len(w)
    BY <1>4
  <2> QED
    BY <1>4, <2>1, <2>2, Slice
<1>7. SubSeq(w, Len(a) + Len(c) + 1, Len(w)) = m
  <2>1. ASSUME NEW j \in 1 .. Len(m)
        PROVE  w[Len(d) + j] = m[j]
    BY <1>2, <1>4 DEF Follows
  <2>2. Len(d) + Len(m) <= Len(w) /\ Len(d) \in Nat /\ Len(d) + Len(m) = Len(w)
    BY <1>4
  <2>3. SubSeq(w, Len(d) + 1, Len(d) + Len(m)) = m
    BY <2>1, <2>2, Slice
  <2> QED
    BY <1>4, <2>2, <2>3
<1> QED
  BY <1>3, <1>4, <1>5, <1>6, <1>7, Zenon DEF Parts

\* The length of the NWK header: eight bytes, and the relay list of a source route.
LEMMA HeaderLength ==
  ASSUME NEW p, Len(p) \in Nat, Len(p) >= 8
  PROVE  /\ 10 \notin p[1].s => nwkHeaderLength(p) = 8
         /\ 10 \in p[1].s /\ Len(p) > 8 => nwkHeaderLength(p) = 8 + (2 + 2 * p[9].n)
<1>1. nwkHeaderLength(p) = 8 + (IF 10 \in p[1].s /\ Len(p) > 8 THEN 2 + 2 * p[9].n ELSE 0)
  BY DEF nwkHeaderLength
<1>2. CASE 10 \notin p[1].s
  BY <1>1, <1>2
<1>3. CASE 10 \in p[1].s /\ Len(p) > 8
  BY <1>1, <1>3
<1> QED
  BY <1>2, <1>3

\* An NPDU whose header has no security bit yet.
Plaintexts(p) ==
  /\ p \in Seq(Clear) /\ Len(p) >= 8 /\ 9 \notin p[1].s /\ 9 \notin p[2].s
  /\ 10 \in p[1].s => Len(p) > 8
Securable(p) == nwkHeaderLength(p) <= Len(p) /\ nwkHeaderLength(p) + 14 <= 40

\* What NWK security wraps it unwraps again, when the frame has the security bit clear
\* and, if it is source routed, a relay count to find.
LEMMA OpensAgain ==
  ASSUME NEW p, Plaintexts(p), Securable(p)
  PROVE  \E q : /\ q = secureNpdu(p) /\ \E S : q \in Seq(S)
                /\ Len(q) = Len(p) + 18 /\ 9 \in q[2].s /\ openNpdu(q) = p
<1>p. /\ p \in Seq(Clear) /\ Len(p) >= 8 /\ 9 \notin p[1].s /\ 9 \notin p[2].s
      /\ 10 \in p[1].s => Len(p) > 8
  BY DEF Plaintexts
<1>1. Len(p) \in Nat /\ \A j \in 1 .. Len(p) : p[j] \in Clear /\ p[j].n \in Nat
  BY <1>p, ClearBytes DEF Clear
<1>2. PICK n : n = nwkHeaderLength(p)
  OBVIOUS
<1>3. n \in Nat /\ n >= 8 /\ (10 \in p[1].s => n >= 10 /\ n = 8 + (2 + 2 * p[9].n))
      /\ (10 \notin p[1].s => n = 8)
  <2>1. CASE 10 \in p[1].s
    <3>1. n = 8 + (2 + 2 * p[9].n) /\ p[9].n \in Nat
      BY <1>p, <1>1, <1>2, <2>1, HeaderLength
    <3> QED
      BY <2>1, <3>1
  <2>2. CASE 10 \notin p[1].s
    BY <1>p, <1>1, <1>2, <2>2, HeaderLength
  <2> QED
    BY <2>1, <2>2
<1>4. PICK h, b : h = SubSeq(p, 1, n) /\ b = SubSeq(p, n + 1, Len(p))
  OBVIOUS
<1>5. PICK g, c, m : g = SecurityBit(h, TRUE) /\ c = Cipher(b) /\ m = Mic(AuthenticatedHeader(g), b)
  OBVIOUS
<1>6. /\ n <= Len(p) /\ n + 14 <= 40
      /\ secureNpdu(p) = g \o U("control", 1) \o U("frameCounter", 4) \o U("srcIeee", 8)
                           \o U("keySeq", 1) \o c \o m
  <2>1. secureNpdu(p) = When(n <= Len(p) /\ n + kAuxLen <= kMaxAad,
            g \o U("control", 1) \o U("frameCounter", 4) \o U("srcIeee", 8)
              \o U("keySeq", 1) \o c \o m)
    BY <1>2, <1>4, <1>5, Zenon DEF secureNpdu
  <2>2. n <= Len(p) /\ n + 14 <= 40
    BY <1>2 DEF Securable
  <2> QED
    BY <2>1, <2>2, Zenon DEF When, kAuxLen, kMaxAad
<1>6a. n <= Len(p) /\ n + 14 <= 40
  BY <1>6, Zenon
<1>7. h \in Seq(Clear) /\ Len(h) = n /\ b \in Seq(Clear) /\ \A j \in 1 .. n : h[j] = p[j]
  BY <1>p, <1>3, <1>4, <1>6a, CutInTwo
<1>8. h \o b = p
  BY <1>p, <1>3, <1>4, <1>6a, CutInTwo
<1>9. h[1] = p[1] /\ h[2] = p[2]
  BY <1>3, <1>7
<1>10. /\ g \in Seq(Clear) /\ Len(g) = n /\ \A j \in 1 .. n : g[j].n = p[j].n
       /\ g[1].s = p[1].s \cup {9} /\ g[2].s = p[2].s \cup {9}
       /\ SecurityBit(g, FALSE) = h
  <2>1. PICK x \in Seq(Clear) :
           /\ x = SecurityBit(h, TRUE) /\ Len(x) = Len(h)
           /\ \A j \in 1 .. Len(h) : x[j].n = h[j].n
           /\ x[1].s = h[1].s \cup {9} /\ x[2].s = h[2].s \cup {9}
           /\ SecurityBit(x, FALSE) = h
    <3>1. Len(h) >= 2
      BY <1>3, <1>7
    <3> QED
      BY <1>p, <1>7, <1>9, <3>1, SecuredHeader
  <2>2. x = g
    BY <1>5, <2>1
  <2> QED
    BY <1>7, <1>9, <2>1, <2>2
<1>11. Plain(c) = b /\ Len(c) = Len(b) /\ \E S : Clear \subseteq S /\ c \in Seq(S)
  BY <1>5, <1>7, Ciphered
<1>12. PICK S1 : Clear \subseteq S1 /\ c \in Seq(S1)
  BY <1>11
<1>13. /\ m = Mic(AuthenticatedHeader(g), c)
       /\ \E S : Clear \subseteq S /\ m \in Seq(S) /\ Len(m) = 4
  BY <1>5, <1>11, MicBytes
<1>14. PICK S2 : Clear \subseteq S2 /\ m \in Seq(S2) /\ Len(m) = 4
  BY <1>13
<1>15. PICK S : S1 \subseteq S /\ S2 \subseteq S
  <2>1. S1 \subseteq (S1 \cup S2) /\ S2 \subseteq (S1 \cup S2)
    OBVIOUS
  <2> QED
    BY <2>1, Zenon
<1>16. PICK a \in Seq(Clear) :
         /\ a = g \o U("control", 1) \o U("frameCounter", 4) \o U("srcIeee", 8) \o U("keySeq", 1)
         /\ Len(a) = Len(g) + 14 /\ \A j \in 1 .. Len(g) : a[j] = g[j]
  BY <1>10, WithAuxiliary
<1>17. c \in Seq(S) /\ m \in Seq(S) /\ a \in Seq(S) /\ g \in Seq(S)
  <2>1. Clear \subseteq S
    BY <1>12, <1>15
  <2> QED
    BY <1>10, <1>12, <1>14, <1>15, <1>16, <2>1, Wider
<1>18. PICK w \in Seq(S) : Parts(w, a, c, m)
  BY <1>17, ThreeParts
<1>19. w = secureNpdu(p)
  BY <1>6, <1>16, <1>18, Zenon DEF Parts
<1>20. Len(a) = n + 14 /\ (\A j \in 1 .. n : a[j] = g[j]) /\ Len(m) = 4 /\ Len(g) = n
  BY <1>10, <1>14, <1>16, Zenon
<1>21. /\ Len(w) = n + 14 + Len(c) + 4 /\ Len(w) \in Nat /\ Len(c) \in Nat
       /\ Len(w) - 4 = n + 14 + Len(c) /\ Len(w) - 3 = n + 14 + Len(c) + 1
  <2>1. /\ Len(w) = Len(a) + Len(c) + Len(m) /\ Len(c) \in Nat
    BY <1>18, Zenon DEF Parts
  <2> QED
    BY <1>3, <1>20, <2>1
<1>22. /\ \A j \in 1 .. Len(a) : w[j] = a[j]
       /\ SubSeq(w, Len(a) + 1, Len(a) + Len(c)) = c
       /\ SubSeq(w, Len(a) + Len(c) + 1, Len(w)) = m
  BY <1>18, Zenon DEF Parts
<1>23. SubSeq(w, n + 14 + 1, Len(w) - 4) = c /\ SubSeq(w, Len(w) - 3, Len(w)) = m
  BY <1>20, <1>21, <1>22, Zenon
<1>24. ASSUME NEW j \in 1 .. n
       PROVE  w[j] = g[j]
  <2>1. j \in 1 .. n + 14
    BY <1>3
  <2> QED
    BY <1>20, <1>22, <2>1, Zenon
<1>25. SubSeq(w, 1, n) = g
  <2>1. /\ 0 + Len(g) <= Len(w) /\ \A j \in 1 .. Len(g) : w[0 + j] = g[j]
    BY <1>3, <1>20, <1>21, <1>24
  <2>2. 0 + 1 = 1 /\ 0 + Len(g) = n /\ 0 \in Nat
    BY <1>3, <1>20
  <2>3. SubSeq(w, 0 + 1, 0 + Len(g)) = g
    BY <1>17, <2>1, <2>2, Slice
  <2> QED
    BY <2>2, <2>3
<1>26. w[1].s = p[1].s \cup {9} /\ w[2].s = p[2].s \cup {9}
  <2>1. 1 \in 1 .. n /\ 2 \in 1 .. n
    BY <1>3
  <2>2. w[1] = g[1] /\ w[2] = g[2]
    BY <1>24, <2>1, Zenon
  <2> QED
    BY <1>10, <2>2, Zenon
<1>27. nwkHeaderLength(w) = n
  <2>1. Len(w) > 8 /\ Len(w) >= 8 /\ Len(w) \in Nat
    BY <1>3, <1>21
  <2>2. (10 \in w[1].s) <=> (10 \in p[1].s)
    BY <1>26
  <2>3. CASE 10 \in p[1].s
    <3>1. w[9].n = p[9].n
      BY <1>3, <1>10, <1>24, <2>3
    <3> QED
      BY <1>3, <2>1, <2>2, <2>3, <3>1, HeaderLength
  <2>4. CASE 10 \notin p[1].s
    BY <1>3, <2>1, <2>2, <2>4, HeaderLength
  <2> QED
    BY <2>3, <2>4, Zenon
<1>28. openNpdu(w) = p
  <2>1. ~(Len(w) < n + 14 + 4) /\ ~(n + 14 > 40)
    <3>1. n \in Nat
      BY <1>3, Zenon
    <3>2. ~(Len(w) < n + 14 + 4)
      BY <1>21, <3>1
    <3> QED
      BY <1>6a, <3>1, <3>2
  <2>2. openNpdu(w) = SecurityBit(g, FALSE) \o Plain(c)
    BY <1>13, <1>23, <1>25, <1>27, <2>1, Zenon DEF openNpdu, When, kAuxLen, kMaxAad
  <2> QED
    BY <1>8, <1>10, <1>11, <2>2, Zenon
<1>29. Len(w) = Len(p) + 18 /\ 9 \in w[2].s
  <2>1. Len(c) = Len(p) - n
    BY <1>p, <1>1, <1>3, <1>4, <1>6a, <1>11, CutInTwo
  <2> QED
    BY <1>1, <1>3, <1>21, <1>26, <2>1
<1> QED
  BY <1>19, <1>28, <1>29, Zenon

\* A MAC header starts with the frame control.
MacHeadOf(h, s) == h = MacHead(s) /\ Len(h) = 3 /\ h[1].s = s

\* MacHead is three bytes, of which the first carries the frame control.
LEMMA MacHeadBytes ==
  ASSUME NEW s \in SUBSET Nat
  PROVE  \E h \in Seq(Clear) : MacHeadOf(h, s)
<1>1. PICK b : b = Bits("fcf", 2, s)
  OBVIOUS
<1>2. b \in Seq(Clear) /\ Len(b) = 2 /\ b[1].s = s
  <2>1. PICK w \in Nat : w = 2
    OBVIOUS
  <2>2. PICK f \in Names : f = "fcf"
    BY OfNames
  <2>3. b = Bits(f, w, s)
    BY <1>1, <2>1, <2>2, Zenon
  <2>4. b \in Seq(Clear) /\ Len(b) = w /\ \A j \in 1 .. w : b[j].s = s
    <3>1. /\ Bits(f, w, s) \in Seq(Clear) /\ Len(Bits(f, w, s)) = w
          /\ \A j \in 1 .. w : /\ Bits(f, w, s)[j] \in Clear /\ Bits(f, w, s)[j].f = f
                               /\ Bits(f, w, s)[j].n = 0 /\ Bits(f, w, s)[j].s = s
      BY BitBytes
    <3> QED
      BY <2>3, <3>1, Zenon
  <2>5. 1 \in 1 .. w
    BY <2>1
  <2> QED
    BY <2>1, <2>4, <2>5, Zenon
<1>3. PICK q \in Seq(Clear) : FieldOf(q, "sequence", 1)
  BY Field, OfNames
<1>4. PICK h \in Seq(Clear) : Follows(h, b, q)
  BY <1>2, Behind
<1>5. h = MacHead(s)
  BY <1>1, <1>3, <1>4, Zenon DEF Follows, Appends, FieldOf, MacHead
<1>6. Len(h) = 3 /\ h[1] = b[1]
  BY <1>2, <1>3, <1>4 DEF Follows, FieldOf
<1> QED
  BY <1>2, <1>5, <1>6, Zenon DEF MacHeadOf

\* The fields of a frame control, from its set bits.
LEMMA SubFields ==
  ASSUME NEW s, NEW lo \in Nat
  PROVE  /\ lo \notin s /\ lo + 1 \notin s => SubField(s, lo, 2) = {}
         /\ lo \in s /\ lo + 1 \notin s => SubField(s, lo, 2) = {0}
         /\ lo \notin s /\ lo + 1 \in s => SubField(s, lo, 2) = {1}
         /\ lo \in s /\ lo + 1 \in s => SubField(s, lo, 2) = {0, 1}
         /\ lo \in s /\ lo + 1 \notin s /\ lo + 2 \notin s => SubField(s, lo, 3) = {0}
         /\ lo \in s /\ lo + 1 \in s /\ lo + 2 \notin s => SubField(s, lo, 3) = {0, 1}
         /\ lo \notin s /\ lo + 1 \notin s /\ lo + 2 \notin s => SubField(s, lo, 3) = {}
<1>1. SubField(s, lo, 2) = {b \in {0, 1} : (b + lo) \in s}
  <2>1. 0 .. (2 - 1) = {0, 1}
    OBVIOUS
  <2> QED
    BY <2>1, Zenon DEF SubField
<1>2. SubField(s, lo, 3) = {b \in {0, 1, 2} : (b + lo) \in s}
  <2>1. 0 .. (3 - 1) = {0, 1, 2}
    OBVIOUS
  <2> QED
    BY <2>1, Zenon DEF SubField
<1>3. 0 + lo = lo /\ 1 + lo = lo + 1 /\ 2 + lo = lo + 2
  OBVIOUS
<1> QED
  BY <1>1, <1>2, <1>3

\* What the frame control of the MAC says: the type, the addresses, the PAN compression.
LEMMA MacFields ==
  ASSUME NEW s, NEW p, p[1].s = s
  PROVE  /\ 0 \in s /\ 1 \notin s /\ 2 \notin s => MacType(p) = Data
         /\ 0 \in s /\ 1 \in s /\ 2 \notin s => MacType(p) = Command
         /\ 0 \notin s /\ 1 \notin s /\ 2 \notin s => MacType(p) = Beacon
         /\ 10 \notin s /\ 11 \in s => DstMode(p) = Short
         /\ 10 \in s /\ 11 \in s => DstMode(p) = Extended
         /\ 10 \notin s /\ 11 \notin s => DstMode(p) = None
         /\ 14 \notin s /\ 15 \in s => SrcMode(p) = Short
         /\ 14 \in s /\ 15 \in s => SrcMode(p) = Extended
         /\ 14 \notin s /\ 15 \notin s => SrcMode(p) = None
         /\ 6 \in s <=> Compressed(p)
<1>1. PICK a \in Nat, b \in Nat, c \in Nat : a = 0 /\ b = 10 /\ c = 14
  OBVIOUS
<1>2. MacType(p) = SubField(s, a, 3) /\ DstMode(p) = SubField(s, b, 2) /\ SrcMode(p) = SubField(s, c, 2)
  BY <1>1 DEF MacType, DstMode, SrcMode
<1> QED
  BY <1>1, <1>2, SubFields DEF Compressed, Data, Command, Beacon, Short, Extended, None

\* A MAC data frame with two short addresses is accepted with its payload after nine bytes.
LEMMA ShortDataParsed ==
  ASSUME NEW p, Len(p) \in Nat, Len(p) >= 9, MacType(p) = Data, DstMode(p) = Short,
         SrcMode(p) = Short, Compressed(p)
  PROVE  ParseShortDataFrame(p).ok /\ ParseShortDataFrame(p).rest = 9
  BY DEF ParseShortDataFrame, AcceptIf, Accept

\* What sendData puts into a MAC frame the receiver takes out of it again.
LEMMA MacUnwraps ==
  ASSUME NEW T, NEW q \in Seq(T), q # <<>>, Len(q) <= 116
  PROVE  /\ sendData(q) # <<>>
         /\ ParseShortDataFrame(sendData(q)).ok
         /\ Rest(sendData(q), ParseShortDataFrame(sendData(q))) = q
<1>1. PICK s : s = {0, 6, 11, 12, 15} \cup {5}
  OBVIOUS
<1>2. PICK h \in Seq(Clear) : MacHeadOf(h, s)
  <2>1. s \in SUBSET Nat
    BY <1>1
  <2> QED
    BY <2>1, MacHeadBytes
<1>3. PICK b1 \in Seq(Clear) : FieldOf(b1, "dstPan", 2)
  BY Field, OfNames
<1>4. PICK b2 \in Seq(Clear) : FieldOf(b2, "dst", 2)
  BY Field, OfNames
<1>5. PICK b3 \in Seq(Clear) : FieldOf(b3, "src", 2)
  BY Field, OfNames
<1>6. PICK h1 \in Seq(Clear) : Follows(h1, h, b1)
  BY Behind
<1>7. PICK h2 \in Seq(Clear) : Follows(h2, h1, b2)
  BY Behind
<1>8. PICK h3 \in Seq(Clear) : Follows(h3, h2, b3)
  BY Behind
<1>9. Len(h3) = 9 /\ h3[1].s = s
  <2>1. Len(h) = 3 /\ h[1].s = s
    BY <1>2, Zenon DEF MacHeadOf
  <2>2. Len(b1) = 2 /\ Len(b2) = 2 /\ Len(b3) = 2
    BY <1>3, <1>4, <1>5, Zenon DEF FieldOf
  <2>3. Len(h1) = 5 /\ h1[1] = h[1]
    BY <1>6, <2>1, <2>2 DEF Follows
  <2>4. Len(h2) = 7 /\ h2[1] = h1[1]
    BY <1>7, <2>2, <2>3 DEF Follows
  <2>5. Len(h3) = 9 /\ h3[1] = h2[1]
    BY <1>8, <2>2, <2>4 DEF Follows
  <2> QED
    BY <2>1, <2>3, <2>4, <2>5, Zenon
<1>10. PICK S : Clear \subseteq S /\ T \subseteq S
  <2>1. Clear \subseteq (Clear \cup T) /\ T \subseteq (Clear \cup T)
    OBVIOUS
  <2> QED
    BY <2>1, Zenon
<1>11. h3 \in Seq(S) /\ q \in Seq(S)
  BY <1>10, Wider
<1>12. PICK p \in Seq(S) : Follows(p, h3, q)
  BY <1>11, Behind
<1>13. p = MacHead(s) \o U("dstPan", 2) \o U("dst", 2) \o U("src", 2) \o q
  BY <1>2, <1>3, <1>4, <1>5, <1>6, <1>7, <1>8, <1>12, Zenon DEF Follows, Appends, FieldOf, MacHeadOf
<1>14. sendData(q) = p
  <2>1. sendData(q) = When(Len(q) <= kMaxPsdu - 9, p)
    BY <1>1, <1>13, Zenon DEF sendData, BuildShortDataFrame, When
  <2>2. Len(q) <= kMaxPsdu - 9
    BY DEF kMaxPsdu
  <2> QED
    BY <2>1, <2>2, Zenon DEF When
<1>15. Len(p) = 9 + Len(q) /\ Len(q) \in Nat /\ Len(p) \in Nat /\ p[1].s = s
  <2>1. Len(p) = 9 + Len(q) /\ Len(q) \in Nat /\ p[1] = h3[1]
    BY <1>9, <1>12 DEF Follows
  <2>2. Len(p) \in Nat
    BY <2>1
  <2> QED
    BY <1>9, <2>1, <2>2, Zenon
<1>16. MacType(p) = Data /\ DstMode(p) = Short /\ SrcMode(p) = Short /\ Compressed(p)
  <2>1. /\ 0 \in s /\ 1 \notin s /\ 2 \notin s /\ 10 \notin s /\ 11 \in s
        /\ 14 \notin s /\ 15 \in s /\ 6 \in s
    BY <1>1
  <2>2. p[1].s = s
    BY <1>15
  <2> QED
    BY <2>1, <2>2, MacFields
<1>17. ParseShortDataFrame(p).ok /\ ParseShortDataFrame(p).rest = 9
  BY <1>15, <1>16, ShortDataParsed
<1>18. SubSeq(p, 9 + 1, Len(p)) = q
  <2>1. PICK k \in Nat : k = Len(h3)
    BY <1>9
  <2>2. k + Len(q) <= Len(p) /\ k = 9 /\ k + Len(q) = Len(p)
    BY <1>9, <1>15, <2>1
  <2>3. \A j \in 1 .. Len(q) : p[k + j] = q[j]
    BY <1>12, <2>1, Zenon DEF Follows
  <2>4. SubSeq(p, k + 1, k + Len(q)) = q
    BY <1>11, <2>2, <2>3, Slice
  <2> QED
    BY <2>2, <2>4
<1>19. p # <<>>
  BY <1>15
<1> QED
  BY <1>14, <1>17, <1>18, <1>19, Zenon DEF Rest

\* When security and the MAC take a frame.
LEMMA Taken ==
  ASSUME NEW p
  PROVE  /\ secureNpdu(p) # <<>> => Securable(p)
         /\ sendData(p) # <<>> => p # <<>> /\ Len(p) <= 116
<1>1. secureNpdu(p) # <<>> => nwkHeaderLength(p) <= Len(p) /\ nwkHeaderLength(p) + kAuxLen <= kMaxAad
  BY Zenon DEF secureNpdu, When
<1>2. sendData(p) # <<>> => p # <<>> /\ Len(p) <= kMaxPsdu - 9
  BY Zenon DEF sendData, BuildShortDataFrame, When
<1> QED
  BY <1>1, <1>2 DEF kAuxLen, kMaxAad, kMaxPsdu, Securable

\* The sizes with which a frame is taken, with security and without.
Fits(p) ==
  IF keyed THEN Securable(p) /\ Len(p) + 18 <= 116
  ELSE Len(p) <= 116

\* A frame is accepted exactly when it fits, and is then received as it was built,
\* with security and without.
LEMMA Received ==
  ASSUME NEW p, Plaintexts(p)
  PROVE  /\ sendData(applyTxSecurity(p)) # <<>> <=> Fits(p)
         /\ Fits(p) => /\ ParseShortDataFrame(sendData(applyTxSecurity(p))).ok
                       /\ Npdu(sendData(applyTxSecurity(p))) = p
         /\ sendData(p) # <<>> => /\ ParseShortDataFrame(sendData(p)).ok
                                  /\ Npdu(sendData(p)) = p
<1>1. p # <<>> /\ p \in Seq(Clear) /\ Len(p) \in Nat
  BY DEF Plaintexts
<1>2. ASSUME NEW q, NEW T, q \in Seq(T), q # <<>>, Len(q) <= 116
      PROVE  sendData(q) # <<>> /\ ParseShortDataFrame(sendData(q)).ok /\ Npdu(sendData(q)) = Plaintext(q)
  BY <1>2, MacUnwraps, Zenon DEF Npdu
<1>3. Plaintext(p) = p
  BY Zenon DEF Plaintext, Plaintexts
<1>4. sendData(p) # <<>> => /\ ParseShortDataFrame(sendData(p)).ok
                           /\ Npdu(sendData(p)) = p
  BY <1>1, <1>2, <1>3, Taken, Zenon
<1>5. CASE ~keyed
  <2>1. applyTxSecurity(p) = p
    BY <1>5, Zenon DEF applyTxSecurity
  <2>2. Fits(p) <=> Len(p) <= 116
    BY <1>5 DEF Fits
  <2>3. sendData(p) # <<>> <=> Len(p) <= 116
    BY <1>1, <1>2, Taken, Zenon
  <2> QED
    BY <1>4, <2>1, <2>2, <2>3, Zenon
<1>6. CASE keyed
  <2>1. applyTxSecurity(p) = secureNpdu(p)
    BY <1>1, <1>6, Zenon DEF applyTxSecurity
  <2>2. Fits(p) <=> Securable(p) /\ Len(p) + 18 <= 116
    BY <1>6 DEF Fits
  <2>3. ASSUME Securable(p)
        PROVE  \E q : /\ q = secureNpdu(p) /\ \E S : q \in Seq(S)
                      /\ Len(q) = Len(p) + 18 /\ 9 \in q[2].s /\ openNpdu(q) = p
    BY <2>3, OpensAgain
  <2>4. ASSUME Fits(p)
        PROVE  /\ sendData(secureNpdu(p)) # <<>> /\ ParseShortDataFrame(sendData(secureNpdu(p))).ok
               /\ Npdu(sendData(secureNpdu(p))) = p
    <3>1. PICK q : /\ q = secureNpdu(p) /\ \E S : q \in Seq(S)
                   /\ Len(q) = Len(p) + 18 /\ 9 \in q[2].s /\ openNpdu(q) = p
      BY <2>2, <2>3, <2>4
    <3>2. PICK T : q \in Seq(T)
      BY <3>1
    <3>3. Len(q) = Len(p) + 18 /\ Len(p) + 18 <= 116
      BY <2>2, <2>4, <3>1
    <3>4. Len(q) <= 116 /\ Len(q) >= 8 /\ q # <<>>
      BY <1>1, <3>3
    <3>5. Plaintext(q) = p
      BY <1>6, <3>1, <3>4, Zenon DEF Plaintext
    <3> QED
      BY <1>2, <3>1, <3>2, <3>4, <3>5, Zenon
  <2>5. ASSUME sendData(secureNpdu(p)) # <<>>
        PROVE  Fits(p)
    <3>1. secureNpdu(p) # <<>> /\ Len(secureNpdu(p)) <= 116
      BY <2>5, Taken
    <3>2. Securable(p)
      BY <3>1, Taken
    <3>3. Len(secureNpdu(p)) = Len(p) + 18
      BY <2>3, <3>2, Zenon
    <3> QED
      BY <2>2, <3>1, <3>2, <3>3
  <2> QED
    BY <1>4, <2>1, <2>4, <2>5, Zenon
<1> QED
  BY <1>5, <1>6

\* A NWK header: the frame control, then the destination.
NwkHeadOf(h, s) ==
  /\ h = NwkHead(s) /\ Len(h) = 8 /\ h[1].s = s \cup {3} /\ h[2].s = s \cup {3}
  /\ h[3].f = "dst"

\* NwkHead is eight bytes, with the destination behind the frame control.
LEMMA NwkHeadBytes ==
  ASSUME NEW s \in SUBSET Nat
  PROVE  \E h \in Seq(Clear) : NwkHeadOf(h, s)
<1>0. PICK t : t = s \cup {3}
  OBVIOUS
<1>1. t \in SUBSET Nat /\ t = s \cup {3}
  BY <1>0
<1>2. PICK b : b = Bits("fcf", 2, t)
  OBVIOUS
<1>3. b \in Seq(Clear) /\ Len(b) = 2 /\ b[1].s = t /\ b[2].s = t
  <2>1. PICK w \in Nat : w = 2
    OBVIOUS
  <2>2. PICK f \in Names : f = "fcf"
    BY OfNames
  <2>3. PICK d : d = Bits(f, w, t)
    OBVIOUS
  <2>4. d \in Seq(Clear) /\ Len(d) = w /\ \A j \in 1 .. w : d[j].s = t
    BY <1>1, <2>3, BitBytes
  <2>5. d = b /\ 1 \in 1 .. w /\ 2 \in 1 .. w
    BY <1>2, <2>1, <2>2, <2>3
  <2> QED
    BY <2>1, <2>4, <2>5
<1>4. PICK b1 \in Seq(Clear) : FieldOf(b1, "dst", 2)
  BY Field, OfNames
<1>5. PICK b2 \in Seq(Clear) : FieldOf(b2, "src", 2)
  BY Field, OfNames
<1>6. PICK b3 \in Seq(Clear) : FieldOf(b3, "radius", 1)
  BY Field, OfNames
<1>7. PICK b4 \in Seq(Clear) : FieldOf(b4, "sequence", 1)
  BY Field, OfNames
<1>8. PICK h1 \in Seq(Clear) : Follows(h1, b, b1)
  BY <1>3, Behind
<1>9. PICK h2 \in Seq(Clear) : Follows(h2, h1, b2)
  BY Behind
<1>10. PICK h3 \in Seq(Clear) : Follows(h3, h2, b3)
  BY Behind
<1>11. PICK h4 \in Seq(Clear) : Follows(h4, h3, b4)
  BY Behind
<1>12. h4 = NwkHead(s)
  BY <1>1, <1>2, <1>4, <1>5, <1>6, <1>7, <1>8, <1>9, <1>10, <1>11, Zenon
     DEF Follows, Appends, FieldOf, NwkHead
<1>13. Len(h1) = 4 /\ h1[1] = b[1] /\ h1[2] = b[2] /\ h1[3].f = "dst"
  <2>1. /\ Len(b1) = 2 /\ \A j \in 1 .. 2 : b1[j].f = "dst"
    BY <1>4, Zenon DEF FieldOf
  <2>2. /\ Len(h1) = Len(b) + Len(b1)
        /\ \A j \in 1 .. Len(b) : h1[j] = b[j]
        /\ \A j \in 1 .. Len(b1) : h1[Len(b) + j] = b1[j]
    BY <1>8, Zenon DEF Follows
  <2>3. Len(h1) = 4 /\ h1[1] = b[1] /\ h1[2] = b[2] /\ h1[2 + 1] = b1[1]
    BY <1>3, <2>1, <2>2
  <2>4. b1[1].f = "dst" /\ 2 + 1 = 3
    BY <2>1
  <2> QED
    BY <2>3, <2>4
<1>14. Len(h2) = 6 /\ h2[1] = h1[1] /\ h2[2] = h1[2] /\ h2[3] = h1[3]
  <2>1. Len(h2) = Len(h1) + Len(b2) /\ Len(b2) = 2
    BY <1>5, <1>9, Zenon DEF Follows, FieldOf
  <2>2. 1 \in 1 .. Len(h1) /\ 2 \in 1 .. Len(h1) /\ 3 \in 1 .. Len(h1) /\ Len(h2) = 6
    BY <1>13, <2>1
  <2> QED
    BY <1>9, <2>2, Zenon DEF Follows
<1>15. Len(h3) = 7 /\ h3[1] = h2[1] /\ h3[2] = h2[2] /\ h3[3] = h2[3]
  <2>1. Len(h3) = Len(h2) + Len(b3) /\ Len(b3) = 1
    BY <1>6, <1>10, Zenon DEF Follows, FieldOf
  <2>2. 1 \in 1 .. Len(h2) /\ 2 \in 1 .. Len(h2) /\ 3 \in 1 .. Len(h2) /\ Len(h3) = 7
    BY <1>14, <2>1
  <2> QED
    BY <1>10, <2>2, Zenon DEF Follows
<1>16. Len(h4) = 8 /\ h4[1] = h3[1] /\ h4[2] = h3[2] /\ h4[3] = h3[3]
  <2>1. Len(h4) = Len(h3) + Len(b4) /\ Len(b4) = 1
    BY <1>7, <1>11, Zenon DEF Follows, FieldOf
  <2>2. 1 \in 1 .. Len(h3) /\ 2 \in 1 .. Len(h3) /\ 3 \in 1 .. Len(h3) /\ Len(h4) = 8
    BY <1>15, <2>1
  <2> QED
    BY <1>11, <2>2, Zenon DEF Follows
<1>17. h4[1].s = t /\ h4[2].s = t /\ h4[3].f = "dst"
  BY <1>3, <1>13, <1>14, <1>15, <1>16
<1> QED
  BY <1>1, <1>12, <1>16, <1>17, Zenon DEF NwkHeadOf

\* The destination of a frame written into its header.
LEMMA AddressedBytes ==
  ASSUME NEW p \in Seq(Clear), Len(p) >= 8, p[3].f = "dst"
  PROVE  \E q \in Seq(Clear) :
           /\ q = Addressed(p, Target) /\ Len(q) = Len(p) /\ q[3].n = Target
           /\ \A j \in 1 .. Len(p) : j \notin {3, 4} => q[j] = p[j]
<1>1. Len(p) \in Nat /\ DOMAIN p = 1 .. Len(p) /\ \A j \in 1 .. Len(p) : p[j] \in Clear
  BY ClearBytes
<1>2. PICK q : q = Addressed(p, Target)
  OBVIOUS
<1> DEFINE To(r) == [r EXCEPT !.n = Target]
<1>3. /\ q = [j \in 1 .. Len(p) |-> q[j]]
      /\ \A j \in 1 .. Len(p) : q[j] = IF j \in {3, 4} /\ p[j].f = "dst" THEN To(p[j]) ELSE p[j]
  BY <1>1, <1>2, Zenon DEF Addressed
<1>4. ASSUME NEW x \in Clear
      PROVE  To(x) \in Clear /\ To(x).n = Target
  BY DEF Clear, Target
<1> HIDE DEF To
<1>5. ASSUME NEW j \in 1 .. Len(p)
      PROVE  q[j] \in Clear
  BY <1>1, <1>3, <1>4, Zenon
<1>6. ASSUME NEW j \in 1 .. Len(p), j \notin {3, 4}
      PROVE  q[j] = p[j]
  BY <1>3, <1>6, Zenon
<1>7. q[3].n = Target
  <2>1. 3 \in 1 .. Len(p) /\ 3 \in {3, 4}
    BY <1>1
  <2>2. PICK x \in Clear : x = p[3]
    BY <1>1, <2>1
  <2>3. q[3] = To(p[3])
    BY <1>3, <2>1, Zenon
  <2>4. q[3] = To(x)
    BY <2>2, <2>3
  <2>5. To(x).n = Target
    BY <1>4
  <2> QED
    BY <2>4, <2>5
<1>8. q \in [1 .. Len(p) -> Clear]
  BY <1>3, <1>5
<1>9. q \in Seq(Clear) /\ Len(q) = Len(p)
  BY <1>1, <1>8, AsSequence
<1> QED
  BY <1>2, <1>6, <1>7, <1>9, Zenon

\* A frame p for the destination: frame control s, then x behind a header of k bytes.
Carries(p, s, k, x) ==
  /\ p \in Seq(Clear) /\ x \in Seq(Clear) /\ Len(x) \in Nat /\ Len(p) = k + Len(x)
  /\ p[1].s = s /\ p[2].s = s /\ p[3].n = Target
  /\ SubSeq(p, k + 1, Len(p)) = x

\* The bytes of the header that the address leaves as they were.
KeptAfter(p, h, k) == \A j \in 5 .. k : p[j] = h[j]

\* A header h, then x, addressed.
LEMMA Carried ==
  ASSUME NEW h \in Seq(Clear), NEW s, NEW k \in Nat, NEW x \in Seq(Clear), Len(h) = k, k >= 8,
         h[1].s = s, h[2].s = s, h[3].f = "dst"
  PROVE  \E p \in Seq(Clear) : /\ p = Addressed(h \o x, Target) /\ Carries(p, s, k, x)
                             /\ KeptAfter(p, h, k)
<1>1. PICK q \in Seq(Clear) : Follows(q, h, x)
  BY Behind
<1>2. Len(q) = k + Len(x) /\ Len(x) \in Nat /\ q = h \o x
  BY <1>1 DEF Follows, Appends
<1>3. /\ \A j \in 1 .. k : q[j] = h[j]
      /\ \A j \in 1 .. Len(x) : q[k + j] = x[j]
  BY <1>1 DEF Follows
<1>4. q[1] = h[1] /\ q[2] = h[2] /\ q[3] = h[3]
  BY <1>3
<1>5. PICK p \in Seq(Clear) :
           /\ p = Addressed(q, Target) /\ Len(p) = Len(q) /\ p[3].n = Target
           /\ \A j \in 1 .. Len(q) : j \notin {3, 4} => p[j] = q[j]
  <2>1. Len(q) >= 8 /\ q[3].f = "dst"
    BY <1>2, <1>4
  <2> QED
    BY <2>1, AddressedBytes
<1>6. p[1] = q[1] /\ p[2] = q[2]
  BY <1>2, <1>5
<1>7. ASSUME NEW j \in 5 .. k
      PROVE  p[j] = h[j]
  BY <1>2, <1>3, <1>5
<1>8. SubSeq(p, k + 1, Len(p)) = x
  <2>1. ASSUME NEW j \in 1 .. Len(x)
        PROVE  p[k + j] = x[j]
    <3>1. k + j \in 1 .. Len(q) /\ k + j \notin {3, 4}
      BY <1>2
    <3> QED
      BY <1>3, <1>5, <3>1, Zenon
  <2>2. k + Len(x) <= Len(p) /\ k + Len(x) = Len(p)
    BY <1>2, <1>5
  <2> QED
    BY <2>1, <2>2, Slice
<1>9. Carries(p, s, k, x)
  BY <1>2, <1>4, <1>5, <1>6, <1>8 DEF Carries
<1>10. KeptAfter(p, h, k)
  BY <1>7 DEF KeptAfter
<1> QED
  BY <1>2, <1>5, <1>9, <1>10

\* What the receiver of a frame finds in it once the MAC and NWK security are off.
Arrives(psdu, p) == psdu # <<>> /\ ParseShortDataFrame(psdu).ok /\ Npdu(psdu) = p

\* A data frame that is accepted arrives with its payload behind the NWK header.
LEMMA DataFrames ==
  ASSUME NEW x \in Seq(Clear)
  PROVE  /\ sendNwkData(x) # <<>> => \E p : Carries(p, {3}, 8, x) /\ Arrives(sendNwkData(x), p)
         /\ sendNwkDataUnsecured(x) # <<>> =>
              \E p : Carries(p, {3}, 8, x) /\ Arrives(sendNwkDataUnsecured(x), p)
<1>1. CASE x # <<>> /\ Len(x) <= 108
  <2>1. PICK h \in Seq(Clear) : NwkHeadOf(h, {})
    BY NwkHeadBytes
  <2>2. /\ h = NwkHead({}) /\ Len(h) = 8 /\ h[1].s = {3} /\ h[2].s = {3} /\ h[3].f = "dst"
    BY <2>1 DEF NwkHeadOf
  <2>3. PICK p \in Seq(Clear) : p = Addressed(h \o x, Target) /\ Carries(p, {3}, 8, x)
    <3>1. PICK k \in Nat : k = 8
      OBVIOUS
    <3>2. Len(h) = k /\ k >= 8
      BY <2>2, <3>1
    <3>3. PICK p \in Seq(Clear) : p = Addressed(h \o x, Target) /\ Carries(p, {3}, k, x)
      BY <2>2, <3>2, Carried
    <3> QED
      BY <3>1, <3>3
  <2>4. Plaintexts(p)
    BY <2>3 DEF Plaintexts, Carries
  <2>5. Addressed(BuildNwkDataFrame(x), Target) = p
    <3>1. Len(x) <= kNwkMaxPayload
      BY <1>1 DEF kNwkMaxPayload, kNwkMaxFrame
    <3> QED
      BY <2>2, <2>3, <3>1, Zenon DEF BuildNwkDataFrame, When
  <2>6. sendNwkData(x) = sendData(applyTxSecurity(p)) /\ sendNwkDataUnsecured(x) = sendData(p)
    BY <1>1, <2>5, Zenon DEF sendNwkData, sendNwkDataUnsecured, When
  <2>7. /\ sendData(applyTxSecurity(p)) # <<>> => Arrives(sendData(applyTxSecurity(p)), p)
        /\ sendData(p) # <<>> => Arrives(sendData(p), p)
    BY <2>4, Received, Zenon DEF Arrives
  <2> QED
    BY <2>3, <2>6, <2>7, Zenon
<1>2. CASE ~(x # <<>> /\ Len(x) <= 108)
  <2>1. When(x # <<>>, Addressed(BuildNwkDataFrame(x), Target)) = <<>>
    <3>1. CASE x = <<>>
      BY <3>1, Zenon DEF When
    <3>2. CASE ~(Len(x) <= 108)
      <4>1. BuildNwkDataFrame(x) = <<>>
        BY <3>2 DEF BuildNwkDataFrame, When, kNwkMaxPayload, kNwkMaxFrame
      <4>2. Addressed(<<>>, Target) = <<>>
        BY DEF Addressed
      <4> QED
        BY <4>1, <4>2, Zenon DEF When
    <3> QED
      BY <1>2, <3>1, <3>2
  <2>2. applyTxSecurity(<<>>) = <<>> /\ sendData(<<>>) = <<>>
    BY Zenon DEF applyTxSecurity, sendData, When
  <2> QED
    BY <2>1, <2>2, Zenon DEF sendNwkData, sendNwkDataUnsecured
<1> QED
  BY <1>1, <1>2

\* The same for a NWK command, whose payload follows the command identifier.
LEMMA CommandFrames ==
  ASSUME NEW x \in Seq(Clear)
  PROVE  sendNwkCommand(x) # <<>> =>
           \E p : Carries(p, {3, 0}, 9, x) /\ Arrives(sendNwkCommand(x), p)
<1>1. CASE Len(x) <= 107
  <2>1. PICK h \in Seq(Clear) : NwkHeadOf(h, {0})
    <3>1. {0} \in SUBSET Nat
      OBVIOUS
    <3> QED
      BY <3>1, NwkHeadBytes
  <2>2. PICK b \in Seq(Clear) : b = Num("commandId", 5) /\ Len(b) = 1
    <3>1. PICK f \in Names, v \in Nat : f = "commandId" /\ v = 5
      BY OfNames
    <3>2. Num(f, v) \in Seq(Clear) /\ Len(Num(f, v)) = 1
      BY NumberByte
    <3>3. PICK b : b = Num(f, v)
      OBVIOUS
    <3>4. b = Num("commandId", 5) /\ b \in Seq(Clear) /\ Len(b) = 1
      BY <3>1, <3>2, <3>3
    <3> QED
      BY <3>4
  <2>3. PICK g \in Seq(Clear) : Follows(g, h, b)
    BY Behind
  <2>4. Len(h) = 8 /\ h[1].s = {3, 0} /\ h[2].s = {3, 0} /\ h[3].f = "dst" /\ h = NwkHead({0})
    BY <2>1 DEF NwkHeadOf
  <2>5. Len(g) = 9 /\ g[1] = h[1] /\ g[2] = h[2] /\ g[3] = h[3]
    BY <2>2, <2>3, <2>4 DEF Follows
  <2>6. g = NwkHead({0}) \o Num("commandId", 5)
    BY <2>2, <2>3, <2>4, Zenon DEF Follows, Appends
  <2>7. PICK p \in Seq(Clear) : p = Addressed(g \o x, Target) /\ Carries(p, {3, 0}, 9, x)
    <3>1. PICK k \in Nat : k = 9
      OBVIOUS
    <3>2. Len(g) = k /\ k >= 8 /\ g[1].s = {3, 0} /\ g[2].s = {3, 0} /\ g[3].f = "dst"
      BY <2>4, <2>5, <3>1
    <3>3. PICK p \in Seq(Clear) : p = Addressed(g \o x, Target) /\ Carries(p, {3, 0}, k, x)
      BY <3>2, Carried
    <3> QED
      BY <3>1, <3>3
  <2>8. Plaintexts(p)
    BY <2>7 DEF Plaintexts, Carries
  <2>9. Len(p) >= 9 /\ Len(p) \in Nat
    BY <2>7 DEF Carries
  <2>10. BuildNwkCommandFrame(5, x) = g \o x
    <3>1. Len(x) <= kNwkMaxPayload - 1
      BY <1>1 DEF kNwkMaxPayload, kNwkMaxFrame
    <3> QED
      BY <2>6, <3>1, Zenon DEF BuildNwkCommandFrame, When
  <2>11. g \o x # <<>>
    <3>1. g \o x \in Seq(Clear) /\ Len(g \o x) = Len(g) + Len(x) /\ Len(x) \in Nat
      BY Concatenated
    <3> QED
      BY <2>5, <3>1
  <2>12. sendNwkCommand(x) = sendData(applyTxSecurity(p))
    BY <2>7, <2>10, <2>11, Zenon DEF sendNwkCommand, When
  <2>13. sendData(applyTxSecurity(p)) # <<>> => Arrives(sendData(applyTxSecurity(p)), p)
    BY <2>8, Received, Zenon DEF Arrives
  <2> QED
    BY <2>7, <2>12, <2>13, Zenon
<1>2. CASE ~(Len(x) <= 107)
  <2>1. BuildNwkCommandFrame(5, x) = <<>>
    BY <1>2 DEF BuildNwkCommandFrame, When, kNwkMaxPayload, kNwkMaxFrame
  <2>2. applyTxSecurity(<<>>) = <<>> /\ sendData(<<>>) = <<>>
    BY Zenon DEF applyTxSecurity, sendData, When
  <2> QED
    BY <2>1, <2>2, Zenon DEF sendNwkCommand, When
<1> QED
  BY <1>1, <1>2

\* The header of a source-routed frame over m relays.
RoutedHeadOf(h, m) ==
  /\ h = NwkHead({10}) \o Num("relayCount", m) \o U("relayIndex", 1) \o Words("relay", m)
  /\ Len(h) = 10 + 2 * m /\ h[1].s = {3, 10} /\ h[2].s = {3, 10} /\ h[3].f = "dst"
  /\ h[9].n = m /\ \A k \in 1 .. m : h[10 + 2 * (k - 1) + 1].k = k

\* The header of a source route: the relays behind their count and their index.
LEMMA RoutedHeadBytes ==
  ASSUME NEW m \in Nat
  PROVE  \E h \in Seq(Clear) : RoutedHeadOf(h, m)
<1>1. PICK a \in Seq(Clear) : NwkHeadOf(a, {10})
  <2>1. {10} \in SUBSET Nat
    OBVIOUS
  <2> QED
    BY <2>1, NwkHeadBytes
<1>2. Len(a) = 8 /\ a[1].s = {3, 10} /\ a[2].s = {3, 10} /\ a[3].f = "dst" /\ a = NwkHead({10})
  BY <1>1 DEF NwkHeadOf
<1>3. PICK b1 \in Seq(Clear) : b1 = Num("relayCount", m) /\ Len(b1) = 1 /\ b1[1].n = m
  <2>1. PICK f \in Names : f = "relayCount"
    BY OfNames
  <2>2. Num(f, m) \in Seq(Clear) /\ Len(Num(f, m)) = 1 /\ Num(f, m)[1].n = m
    BY NumberByte
  <2>3. PICK b : b = Num(f, m)
    OBVIOUS
  <2>4. b = Num("relayCount", m) /\ b \in Seq(Clear) /\ Len(b) = 1 /\ b[1].n = m
    BY <2>1, <2>2, <2>3
  <2> QED
    BY <2>4
<1>4. PICK b2 \in Seq(Clear) : FieldOf(b2, "relayIndex", 1)
  BY Field, OfNames
<1>5. PICK b3 \in Seq(Clear) :
        b3 = Words("relay", m) /\ Len(b3) = 2 * m /\ \A k \in 1 .. m : b3[2 * k - 1].k = k
  <2>1. PICK f \in Names : f = "relay"
    BY OfNames
  <2>2. PICK b : b = Words(f, m)
    OBVIOUS
  <2>3. b \in Seq(Clear) /\ Len(b) = 2 * m /\ \A k \in 1 .. m : b[2 * k - 1].k = k
    BY <2>2, WordBytes
  <2>4. b = Words("relay", m)
    BY <2>1, <2>2
  <2> QED
    BY <2>3, <2>4
<1>6. PICK h1 \in Seq(Clear) : Follows(h1, a, b1)
  BY Behind
<1>7. PICK h2 \in Seq(Clear) : Follows(h2, h1, b2)
  BY Behind
<1>8. PICK h \in Seq(Clear) : Follows(h, h2, b3)
  BY Behind
<1>9. h = NwkHead({10}) \o Num("relayCount", m) \o U("relayIndex", 1) \o Words("relay", m)
  BY <1>2, <1>3, <1>4, <1>5, <1>6, <1>7, <1>8, Zenon DEF Follows, Appends, FieldOf
<1>10. Len(h1) = 9 /\ h1[1] = a[1] /\ h1[2] = a[2] /\ h1[3] = a[3] /\ h1[9] = b1[1]
  <2>1. /\ Len(h1) = Len(a) + Len(b1)
        /\ \A j \in 1 .. Len(a) : h1[j] = a[j]
        /\ \A j \in 1 .. Len(b1) : h1[Len(a) + j] = b1[j]
    BY <1>6, Zenon DEF Follows
  <2>2. Len(h1) = 9 /\ h1[1] = a[1] /\ h1[2] = a[2] /\ h1[3] = a[3] /\ h1[8 + 1] = b1[1]
    <3>1. Len(a) = 8 /\ Len(b1) = 1
      BY <1>2, <1>3, Zenon
    <3> QED
      BY <2>1, <3>1
  <2> QED
    BY <2>2
<1>11. Len(h2) = 10 /\ h2[1] = h1[1] /\ h2[2] = h1[2] /\ h2[3] = h1[3] /\ h2[9] = h1[9]
  <2>1. Len(b2) = 1
    BY <1>4, Zenon DEF FieldOf
  <2>2. /\ Len(h2) = Len(h1) + Len(b2) /\ \A j \in 1 .. Len(h1) : h2[j] = h1[j]
    BY <1>7, Zenon DEF Follows
  <2>3. /\ Len(h2) = 10 /\ 1 \in 1 .. Len(h1) /\ 2 \in 1 .. Len(h1) /\ 3 \in 1 .. Len(h1)
        /\ 9 \in 1 .. Len(h1)
    BY <1>10, <2>1, <2>2
  <2> QED
    BY <2>2, <2>3, Zenon
<1>12. /\ Len(h) = 10 + 2 * m /\ h[1] = h2[1] /\ h[2] = h2[2] /\ h[3] = h2[3] /\ h[9] = h2[9]
       /\ \A j \in 1 .. 2 * m : h[10 + j] = b3[j]
  <2>1. /\ Len(h) = Len(h2) + Len(b3) /\ \A j \in 1 .. Len(h2) : h[j] = h2[j]
        /\ \A j \in 1 .. Len(b3) : h[Len(h2) + j] = b3[j]
    BY <1>8, Zenon DEF Follows
  <2>2. Len(b3) = 2 * m /\ Len(h2) = 10
    BY <1>5, <1>11, Zenon
  <2> QED
    BY <2>1, <2>2
<1>13. ASSUME NEW k \in 1 .. m
       PROVE  h[10 + 2 * (k - 1) + 1].k = k
  <2>1. 2 * k - 1 \in 1 .. 2 * m /\ 10 + 2 * (k - 1) + 1 = 10 + (2 * k - 1)
    OBVIOUS
  <2>2. h[10 + (2 * k - 1)] = b3[2 * k - 1] /\ b3[2 * k - 1].k = k
    BY <1>5, <1>12, <2>1
  <2> QED
    BY <2>1, <2>2
<1>14. h[1].s = {3, 10} /\ h[2].s = {3, 10} /\ h[3].f = "dst" /\ h[9].n = m
  BY <1>2, <1>3, <1>10, <1>11, <1>12
<1> QED
  BY <1>9, <1>12, <1>13, <1>14, Zenon DEF RoutedHeadOf

\* A byte of a frame with another number.
OtherNumber(q, p, t, v) ==
  /\ q = [p EXCEPT ![t] = [@ EXCEPT !.n = v]] /\ Len(q) = Len(p) /\ q[t].n = v
  /\ \A j \in 1 .. Len(p) : j # t => q[j] = p[j]

\* A byte changed in place, as sendNwkDataSourceRouted changes the relay index.
LEMMA Renumbered ==
  ASSUME NEW p \in Seq(Clear), NEW t \in Nat, t >= 1, t <= Len(p), NEW v \in Nat
  PROVE  \E q \in Seq(Clear) : OtherNumber(q, p, t, v)
<1>1. Len(p) \in Nat /\ DOMAIN p = 1 .. Len(p) /\ t \in 1 .. Len(p)
      /\ \A j \in 1 .. Len(p) : p[j] \in Clear
  BY ClearBytes
<1>2. PICK x \in Clear : x = p[t]
  BY <1>1
<1>3. PICK y \in Clear : y = [x EXCEPT !.n = v] /\ y.n = v
  BY ChangedNumber
<1>4. PICK q : q = [p EXCEPT ![t] = y]
  OBVIOUS
<1>5. q = [p EXCEPT ![t] = [@ EXCEPT !.n = v]]
  BY <1>2, <1>3, <1>4, Zenon
<1>6. /\ q = [j \in 1 .. Len(p) |-> q[j]] /\ q[t] = y
      /\ \A j \in 1 .. Len(p) : j # t => q[j] = p[j]
  BY <1>1, <1>4
<1>7. q \in [1 .. Len(p) -> Clear]
  BY <1>1, <1>6
<1>8. q \in Seq(Clear) /\ Len(q) = Len(p)
  BY <1>1, <1>7, AsSequence
<1> QED
  BY <1>3, <1>5, <1>6, <1>8, Zenon DEF OtherNumber

\* A source-routed frame: m relays, of which the one at index i is next.
Routes(p, m, i, x) ==
  /\ Carries(p, {3, 10}, 10 + 2 * m, x) /\ p[9].n = m /\ p[10].n = i
  /\ \A k \in 1 .. m : p[10 + 2 * (k - 1) + 1].k = k

\* What the network layer makes of a send call with a source route.
RoutedFrame(p, m, i, x) ==
  Routes(p, m, i, x) /\ sendNwkDataSourceRouted(m, i, x) = sendData(applyTxSecurity(p))

\* A source-routed payload that fits the network layer becomes such a frame.
LEMMA RoutedFrames ==
  ASSUME NEW m \in Nat, NEW i \in Nat, NEW x \in Seq(Clear), 10 + 2 * m + Len(x) <= 116
  PROVE  \E p : RoutedFrame(p, m, i, x)
<1>1. PICK h \in Seq(Clear) : RoutedHeadOf(h, m)
  BY RoutedHeadBytes
<1>2. /\ Len(h) = 10 + 2 * m /\ h[1].s = {3, 10} /\ h[2].s = {3, 10} /\ h[3].f = "dst"
      /\ h[9].n = m /\ \A k \in 1 .. m : h[10 + 2 * (k - 1) + 1].k = k
  BY <1>1, Zenon DEF RoutedHeadOf
<1>3. PICK c \in Nat : c = 10 + 2 * m
  OBVIOUS
<1>4. PICK a \in Seq(Clear) : /\ a = Addressed(h \o x, Target) /\ Carries(a, {3, 10}, c, x)
                            /\ KeptAfter(a, h, c)
  <2>1. Len(h) = c /\ c >= 8
    BY <1>2, <1>3
  <2>2. h[1].s = {3, 10} /\ h[2].s = {3, 10} /\ h[3].f = "dst"
    BY <1>2, Zenon
  <2> QED
    BY <2>1, <2>2, Carried
<1>5. /\ Len(a) = c + Len(x) /\ Len(x) \in Nat /\ a[1].s = {3, 10} /\ a[2].s = {3, 10}
      /\ a[3].n = Target /\ SubSeq(a, c + 1, Len(a)) = x
  BY <1>4, Zenon DEF Carries
<1>0. PICK p \in Seq(Clear) : OtherNumber(p, a, 10, i)
  <2>1. PICK t \in Nat : t = 10
    OBVIOUS
  <2>2. t >= 1 /\ t <= Len(a)
    BY <1>3, <1>5, <2>1
  <2>3. PICK q \in Seq(Clear) : OtherNumber(q, a, t, i)
    BY <2>2, Renumbered
  <2> QED
    BY <2>1, <2>3, Zenon
<1>6. /\ Len(p) = Len(a) /\ p[10].n = i
      /\ \A j \in 1 .. Len(a) : j # 10 => p[j] = a[j]
  BY <1>0, Zenon DEF OtherNumber
<1>7. p[1] = a[1] /\ p[2] = a[2] /\ p[3] = a[3] /\ p[9] = a[9]
  BY <1>3, <1>5, <1>6
<1>e. /\ \A j \in 1 .. Len(a) : j # 10 => p[j] = a[j]
      /\ \A j \in 5 .. c : a[j] = h[j]
  BY <1>4, <1>6, Zenon DEF KeptAfter
<1>8. p[9].n = m
  <2>1. 9 \in 5 .. c
    BY <1>3
  <2> QED
    BY <1>2, <1>e, <1>7, <2>1
<1>9. ASSUME NEW k \in 1 .. m
      PROVE  p[10 + 2 * (k - 1) + 1].k = k
  <2>1. PICK j \in 5 .. c : j = 10 + 2 * (k - 1) + 1 /\ j # 10
    BY <1>3
  <2>2. p[j] = a[j] /\ a[j] = h[j]
    <3>1. j \in 1 .. Len(a)
      BY <1>5
    <3> QED
      BY <1>e, <2>1, <3>1, Zenon
  <2>3. h[j].k = k
    BY <1>2, <2>1
  <2> QED
    BY <2>1, <2>2, <2>3
<1>10. SubSeq(p, c + 1, Len(p)) = x
  <2>1. ASSUME NEW j \in 1 .. Len(x)
        PROVE  p[c + j] = x[j]
    <3>1. c + j \in 1 .. Len(a) /\ c + j # 10
      BY <1>3, <1>5
    <3>2. a[c + j] = x[j]
      <4>1. c <= Len(a) /\ Len(a) - c = Len(x)
        BY <1>5
      <4>2. \A l \in 1 .. Len(a) - c : SubSeq(a, c + 1, Len(a))[l] = a[c + l]
        BY <4>1, CutInTwo
      <4> QED
        BY <1>5, <4>1, <4>2, Zenon
    <3> QED
      BY <1>6, <3>1, <3>2, Zenon
  <2>2. c + Len(x) <= Len(p) /\ c + Len(x) = Len(p)
    BY <1>5, <1>6
  <2> QED
    BY <2>1, <2>2, Slice
<1>11. Carries(p, {3, 10}, 10 + 2 * m, x)
  <2>1. Carries(p, {3, 10}, c, x)
    BY <1>5, <1>6, <1>7, <1>10 DEF Carries
  <2> QED
    BY <1>3, <2>1
<1>12. sendNwkDataSourceRouted(m, i, x) = sendData(applyTxSecurity(p))
  <2>1. BuildDataFrameSourceRouted(m, x) = h \o x
    <3>1. 10 + 2 * m + Len(x) <= kNwkMaxFrame
      BY DEF kNwkMaxFrame
    <3>2. h = NwkHead({10}) \o Num("relayCount", m) \o U("relayIndex", 1) \o Words("relay", m)
      BY <1>1, Zenon DEF RoutedHeadOf
    <3> QED
      BY <3>1, <3>2, Zenon DEF BuildDataFrameSourceRouted, When
  <2>2. h \o x # <<>>
    <3>1. h \o x \in Seq(Clear) /\ Len(h \o x) = Len(h) + Len(x)
      BY Concatenated
    <3> QED
      BY <1>2, <1>5, <3>1
  <2> QED
    BY <1>0, <1>4, <2>1, <2>2, Zenon DEF sendNwkDataSourceRouted, When, OtherNumber
<1> QED
  BY <1>6, <1>8, <1>9, <1>11, <1>12, Zenon DEF Routes, RoutedFrame

\* The room a source route of m relays and a payload need.
Room(m, x) ==
  /\ 10 + 2 * m + Len(x) <= IF keyed THEN 98 ELSE 116
  /\ keyed => m <= 8

\* Whether a source-routed frame is accepted does not depend on the hop, and it arrives.
LEMMA RoutedSends ==
  ASSUME NEW m \in Nat, NEW i \in Nat, NEW x \in Seq(Clear)
  PROVE  /\ sendNwkDataSourceRouted(m, i, x) # <<>> <=> Room(m, x)
         /\ Room(m, x) => \E p : Routes(p, m, i, x) /\ Arrives(sendNwkDataSourceRouted(m, i, x), p)
<1>0. Len(x) \in Nat
  OBVIOUS
<1>1. CASE 10 + 2 * m + Len(x) <= 116
  <2>1. PICK p : RoutedFrame(p, m, i, x)
    BY <1>1, RoutedFrames
  <2>2. /\ Routes(p, m, i, x) /\ sendNwkDataSourceRouted(m, i, x) = sendData(applyTxSecurity(p))
    BY <2>1, Zenon DEF RoutedFrame
  <2>3. Carries(p, {3, 10}, 10 + 2 * m, x) /\ p[9].n = m
    BY <2>2, Zenon DEF Routes
  <2>4. /\ p \in Seq(Clear) /\ Len(p) = 10 + 2 * m + Len(x) /\ p[1].s = {3, 10} /\ p[2].s = {3, 10}
    BY <2>3, Zenon DEF Carries
  <2>5. Plaintexts(p)
    BY <1>0, <2>4 DEF Plaintexts
  <2>6. nwkHeaderLength(p) = 10 + 2 * m
    <3>1. Len(p) \in Nat /\ Len(p) >= 8 /\ Len(p) > 8 /\ 10 \in p[1].s
      BY <1>0, <2>4
    <3>2. nwkHeaderLength(p) = 8 + (2 + 2 * p[9].n)
      BY <3>1, HeaderLength
    <3> QED
      BY <2>3, <3>2
  <2>7. Fits(p) <=> Room(m, x)
    <3>1. Securable(p) <=> m <= 8
      BY <1>0, <2>4, <2>6 DEF Securable
    <3>2. Len(p) + 18 <= 116 <=> 10 + 2 * m + Len(x) <= 98
      BY <1>0, <2>4
    <3>3. Len(p) <= 116
      BY <1>1, <2>4
    <3>4. CASE keyed
      BY <3>1, <3>2, <3>4, Zenon DEF Fits, Room
    <3>5. CASE ~keyed
      BY <1>1, <3>3, <3>5, Zenon DEF Fits, Room
    <3> QED
      BY <3>4, <3>5
  <2>8. /\ sendData(applyTxSecurity(p)) # <<>> <=> Fits(p)
        /\ Fits(p) => Arrives(sendData(applyTxSecurity(p)), p)
    BY <2>5, Received, Zenon DEF Arrives
  <2> QED
    BY <2>2, <2>7, <2>8, Zenon
<1>2. CASE ~(10 + 2 * m + Len(x) <= 116)
  <2>1. BuildDataFrameSourceRouted(m, x) = <<>>
    BY <1>2 DEF BuildDataFrameSourceRouted, When, kNwkMaxFrame
  <2>2. applyTxSecurity(<<>>) = <<>> /\ sendData(<<>>) = <<>>
    BY Zenon DEF applyTxSecurity, sendData, When
  <2>3. sendNwkDataSourceRouted(m, i, x) = <<>>
    BY <2>1, <2>2, Zenon DEF sendNwkDataSourceRouted, When
  <2>4. ~Room(m, x)
    BY <1>0, <1>2 DEF Room
  <2> QED
    BY <2>3, <2>4
<1> QED
  BY <1>1, <1>2

\* A relay copies eight relays at most, which never takes more room.
LEMMA RoomLeft ==
  ASSUME NEW m \in Nat, NEW x \in Seq(Clear), Room(m, x)
  PROVE  Room(IF m < 8 THEN m ELSE 8, x)
<1>1. Len(x) \in Nat
  OBVIOUS
<1>2. CASE m < 8
  BY <1>2
<1>3. CASE ~(m < 8)
  <2>1. Room(8, x)
    BY <1>1, <1>3 DEF Room
  <2> QED
    BY <1>3, <2>1
<1> QED
  BY <1>2, <1>3

\* What the NWK header tells: a data frame, a routed data frame or a command.
LEMMA DataParsed ==
  ASSUME NEW p, NEW x, Carries(p, {3}, 8, x)
  PROVE  /\ ParseNwkDataFrame(p).ok /\ Rest(p, ParseNwkDataFrame(p)) = x
         /\ ~ParseNwkCommandFrame(p).ok /\ 10 \notin p[1].s /\ p[3].n = Target
<1>1. /\ Len(p) >= 8 /\ p[1].s = {3} /\ p[3].n = Target /\ SubSeq(p, 8 + 1, Len(p)) = x
  BY DEF Carries
<1>2. SubField(p[1].s, 0, 2) = {}
  <2>1. PICK z \in Nat : z = 0
    OBVIOUS
  <2>2. z \notin p[1].s /\ z + 1 \notin p[1].s
    BY <1>1, <2>1
  <2>3. SubField(p[1].s, z, 2) = {}
    BY <2>2, SubFields
  <2> QED
    BY <2>1, <2>3
<1>3. p[1].s \cap {8, 9, 11, 12} = {} /\ 10 \notin p[1].s
  BY <1>1
<1>4. ParseNwkDataFrame(p) = Accept(NwkReads, 8)
  BY <1>1, <1>2, <1>3 DEF ParseNwkDataFrame
<1>5. ParseNwkDataFrame(p).ok /\ ParseNwkDataFrame(p).rest = 8
  BY <1>4 DEF Accept
<1>6. ~ParseNwkCommandFrame(p).ok
  <2>1. SubField(p[1].s, 0, 2) # {0}
    BY <1>2
  <2> QED
    BY <2>1 DEF ParseNwkCommandFrame, AcceptIf, Reject
<1> QED
  BY <1>1, <1>3, <1>5, <1>6, Zenon DEF Rest

\* The same of a source-routed data frame.
LEMMA RoutedParsed ==
  ASSUME NEW m \in Nat, NEW i \in Nat, NEW p, NEW x, Routes(p, m, i, x)
  PROVE  /\ ParseNwkDataFrame(p).ok /\ Rest(p, ParseNwkDataFrame(p)) = x
         /\ ~ParseNwkCommandFrame(p).ok /\ 10 \in p[1].s /\ p[3].n = Target
<1>1. /\ Len(x) \in Nat /\ Len(p) = 10 + 2 * m + Len(x) /\ p[1].s = {3, 10} /\ p[3].n = Target
      /\ SubSeq(p, 10 + 2 * m + 1, Len(p)) = x /\ p[9].n = m
  BY Zenon DEF Routes, Carries
<1>2. SubField(p[1].s, 0, 2) = {}
  <2>1. PICK z \in Nat : z = 0
    OBVIOUS
  <2>2. z \notin p[1].s /\ z + 1 \notin p[1].s
    BY <1>1, <2>1
  <2>3. SubField(p[1].s, z, 2) = {}
    BY <2>2, SubFields
  <2> QED
    BY <2>1, <2>3
<1>3. p[1].s \cap {8, 9, 11, 12} = {} /\ 10 \in p[1].s
  BY <1>1
<1>4. ~(Len(p) < 8) /\ ~(Len(p) < 10) /\ Len(p) >= Trunc8(10 + 2 * p[9].n)
  <2>1. (10 + 2 * m) % 256 <= 10 + 2 * m
    OBVIOUS
  <2> QED
    BY <1>1, <2>1 DEF Trunc8
<1>5. PICK reads : ParseNwkDataFrame(p) = AcceptIf(Len(p) >= Trunc8(10 + 2 * p[9].n), reads, 10 + 2 * p[9].n)
  BY <1>2, <1>3, <1>4, Zenon DEF ParseNwkDataFrame
<1>6. ParseNwkDataFrame(p) = Accept(reads, 10 + 2 * p[9].n)
  BY <1>4, <1>5, Zenon DEF AcceptIf
<1>7. ParseNwkDataFrame(p).ok /\ ParseNwkDataFrame(p).rest = 10 + 2 * p[9].n
  BY <1>6 DEF Accept
<1>8. ~ParseNwkCommandFrame(p).ok
  <2>1. SubField(p[1].s, 0, 2) # {0}
    BY <1>2
  <2> QED
    BY <2>1 DEF ParseNwkCommandFrame, AcceptIf, Reject
<1>9. Rest(p, ParseNwkDataFrame(p)) = x
  BY <1>1, <1>7, Zenon DEF Rest
<1> QED
  BY <1>1, <1>3, <1>7, <1>8, <1>9

\* The same of a command.
LEMMA CommandParsed ==
  ASSUME NEW p, NEW x, Carries(p, {3, 0}, 9, x)
  PROVE  /\ ~ParseNwkDataFrame(p).ok
         /\ ParseNwkCommandFrame(p).ok /\ Rest(p, ParseNwkCommandFrame(p)) = x
<1>1. /\ Len(p) >= 9 /\ p[1].s = {3, 0} /\ SubSeq(p, 9 + 1, Len(p)) = x
  BY DEF Carries
<1>2. SubField(p[1].s, 0, 2) = {0}
  <2>1. PICK z \in Nat : z = 0
    OBVIOUS
  <2>2. z \in p[1].s /\ z + 1 \notin p[1].s
    BY <1>1, <2>1
  <2>3. SubField(p[1].s, z, 2) = {0}
    BY <2>2, SubFields
  <2> QED
    BY <2>1, <2>3
<1>3. p[1].s \cap (8 .. 12) = {}
  BY <1>1
<1>4. PICK reads : ParseNwkCommandFrame(p) = Accept(reads, 9)
  BY <1>1, <1>2, <1>3 DEF ParseNwkCommandFrame, AcceptIf
<1>5. ParseNwkCommandFrame(p).ok /\ ParseNwkCommandFrame(p).rest = 9
  BY <1>4 DEF Accept
<1>6. ~ParseNwkDataFrame(p).ok
  <2>1. SubField(p[1].s, 0, 2) # {}
    BY <1>2
  <2>2. ParseNwkDataFrame(p) = Reject
    BY <2>1, Zenon DEF ParseNwkDataFrame
  <2> QED
    BY <2>2 DEF Reject
<1> QED
  BY <1>1, <1>5, <1>6, Zenon DEF Rest

\* An APS header: the frame control, the endpoint and the profile.
ApsHeadOf(h, s, app) ==
  h = ApsHead(s, app) /\ Len(h) = 8 /\ h[1].s = s /\ h[2].n = app /\ h[5].n = app

\* ApsHead is eight bytes, with the endpoint and the profile where the receiver reads them.
LEMMA ApsHeadBytes ==
  ASSUME NEW s \in SUBSET Nat, NEW app \in Nat
  PROVE  \E h \in Seq(Clear) : ApsHeadOf(h, s, app)
<1>1. PICK b1 \in Seq(Clear) : b1 = Bits("fcf", 1, s) /\ Len(b1) = 1 /\ b1[1].s = s
  <2>1. PICK w \in Nat : w = 1
    OBVIOUS
  <2>2. PICK f \in Names : f = "fcf"
    BY OfNames
  <2>3. PICK b : b = Bits(f, w, s)
    OBVIOUS
  <2>4. b \in Seq(Clear) /\ Len(b) = w /\ \A j \in 1 .. w : b[j].s = s
    BY <2>3, BitBytes
  <2>5. b = Bits("fcf", 1, s) /\ 1 \in 1 .. w
    BY <2>1, <2>2, <2>3
  <2> QED
    BY <2>1, <2>4, <2>5
<1>2. PICK b2 \in Seq(Clear) : b2 = Num("dstEndpoint", app) /\ Len(b2) = 1 /\ b2[1].n = app
  <2>1. PICK f \in Names : f = "dstEndpoint"
    BY OfNames
  <2>2. Num(f, app) \in Seq(Clear) /\ Len(Num(f, app)) = 1 /\ Num(f, app)[1].n = app
    BY NumberByte
  <2>3. PICK b : b = Num(f, app)
    OBVIOUS
  <2>4. b = Num("dstEndpoint", app) /\ b \in Seq(Clear) /\ Len(b) = 1 /\ b[1].n = app
    BY <2>1, <2>2, <2>3
  <2> QED
    BY <2>4
<1>3. PICK b3 \in Seq(Clear) : FieldOf(b3, "cluster", 2)
  BY Field, OfNames
<1>4. PICK b4 \in Seq(Clear) : b4 = Wide("profile", 2, app) /\ Len(b4) = 2 /\ b4[1].n = app
  <2>1. PICK w \in Nat : w = 2
    OBVIOUS
  <2>2. PICK f \in Names : f = "profile"
    BY OfNames
  <2>3. PICK b : b = Wide(f, w, app)
    OBVIOUS
  <2>4. b \in Seq(Clear) /\ Len(b) = w /\ \A j \in 1 .. w : b[j].n = app
    BY <2>3, WideBytes
  <2>5. b = Wide("profile", 2, app) /\ 1 \in 1 .. w
    BY <2>1, <2>2, <2>3
  <2> QED
    BY <2>1, <2>4, <2>5
<1>5. PICK b5 \in Seq(Clear) : FieldOf(b5, "srcEndpoint", 1)
  BY Field, OfNames
<1>6. PICK b6 \in Seq(Clear) : FieldOf(b6, "counter", 1)
  BY Field, OfNames
<1>7. PICK h2 \in Seq(Clear) : Follows(h2, b1, b2)
  BY Behind
<1>8. PICK h3 \in Seq(Clear) : Follows(h3, h2, b3)
  BY Behind
<1>9. PICK h4 \in Seq(Clear) : Follows(h4, h3, b4)
  BY Behind
<1>10. PICK h5 \in Seq(Clear) : Follows(h5, h4, b5)
  BY Behind
<1>11. PICK h \in Seq(Clear) : Follows(h, h5, b6)
  BY Behind
<1>12. h = ApsHead(s, app)
  BY <1>1, <1>2, <1>3, <1>4, <1>5, <1>6, <1>7, <1>8, <1>9, <1>10, <1>11, Zenon
     DEF Follows, Appends, FieldOf, ApsHead
<1>13. Len(b1) = 1 /\ Len(b2) = 1 /\ Len(b3) = 2 /\ Len(b4) = 2 /\ Len(b5) = 1 /\ Len(b6) = 1
  BY <1>1, <1>2, <1>3, <1>4, <1>5, <1>6, Zenon DEF FieldOf
<1>14. Len(h2) = 2 /\ h2[1] = b1[1] /\ h2[1 + 1] = b2[1]
  BY <1>7, <1>13 DEF Follows
<1>15. Len(h3) = 4 /\ h3[1] = h2[1] /\ h3[2] = h2[2]
  BY <1>8, <1>13, <1>14 DEF Follows
<1>16. Len(h4) = 6 /\ h4[1] = h3[1] /\ h4[2] = h3[2] /\ h4[4 + 1] = b4[1]
  BY <1>9, <1>13, <1>15 DEF Follows
<1>17. Len(h5) = 7 /\ h5[1] = h4[1] /\ h5[2] = h4[2] /\ h5[5] = h4[5]
  BY <1>10, <1>13, <1>16 DEF Follows
<1>18. Len(h) = 8 /\ h[1] = h5[1] /\ h[2] = h5[2] /\ h[5] = h5[5]
  BY <1>11, <1>13, <1>17 DEF Follows
<1>19. 1 + 1 = 2 /\ 4 + 1 = 5
  OBVIOUS
<1>20. h[1].s = s /\ h[2].n = app /\ h[5].n = app
  BY <1>1, <1>2, <1>4, <1>14, <1>15, <1>16, <1>17, <1>18, <1>19
<1> QED
  BY <1>12, <1>18, <1>20, Zenon DEF ApsHeadOf

\* An APS data frame, and an acknowledgement.
ApsFrame(a, app, x) ==
  /\ a \in Seq(Clear) /\ a # <<>> /\ Len(a) >= 8 /\ a[1].s = {} /\ a[2].n = app /\ a[5].n = app
  /\ SubSeq(a, 8 + 1, Len(a)) = x

\* BuildApsDataFrame refuses the payload or puts it behind such a header.
LEMMA ApsFrames ==
  ASSUME NEW app \in Nat, NEW x \in Seq(Clear)
  PROVE  \/ BuildApsDataFrame({}, app, x) = <<>>
         \/ ApsFrame(BuildApsDataFrame({}, app, x), app, x)
<1>1. PICK h \in Seq(Clear) : ApsHeadOf(h, {}, app)
  BY ApsHeadBytes
<1>2. /\ h = ApsHead({}, app) /\ Len(h) = 8 /\ h[1].s = {} /\ h[2].n = app /\ h[5].n = app
  BY <1>1, Zenon DEF ApsHeadOf
<1>3. PICK a \in Seq(Clear) : Follows(a, h, x)
  BY Behind
<1>4. /\ Len(a) = 8 + Len(x) /\ Len(x) \in Nat
      /\ \A j \in 1 .. 8 : a[j] = h[j]
      /\ \A j \in 1 .. Len(x) : a[8 + j] = x[j]
  <2>1. Len(h) = 8
    BY <1>2, Zenon
  <2>2. /\ Len(a) = Len(h) + Len(x) /\ Len(x) \in Nat
        /\ \A j \in 1 .. Len(h) : a[j] = h[j]
        /\ \A j \in 1 .. Len(x) : a[Len(h) + j] = x[j]
    BY <1>3, Zenon DEF Follows
  <2> QED
    BY <2>1, <2>2, Zenon
<1>5. SubSeq(a, 8 + 1, Len(a)) = x
  <2>1. PICK k \in Nat : k = 8
    OBVIOUS
  <2>2. k + Len(x) <= Len(a) /\ k + Len(x) = Len(a)
    BY <1>4, <2>1
  <2>3. \A j \in 1 .. Len(x) : a[k + j] = x[j]
    BY <1>4, <2>1, Zenon
  <2>4. SubSeq(a, k + 1, k + Len(x)) = x
    BY <2>2, <2>3, Slice
  <2> QED
    BY <2>1, <2>2, <2>4, Zenon
<1>6. Len(a) >= 8 /\ a[1] = h[1] /\ a[2] = h[2] /\ a[5] = h[5] /\ a # <<>>
  BY <1>4
<1>7. ApsFrame(a, app, x)
  BY <1>2, <1>5, <1>6 DEF ApsFrame
<1>8. BuildApsDataFrame({}, app, x) = a \/ BuildApsDataFrame({}, app, x) = <<>>
  <2>1. a = ApsHead({}, app) \o x
    BY <1>2, <1>3, Zenon DEF Follows, Appends
  <2> QED
    BY <2>1, Zenon DEF BuildApsDataFrame, When
<1> QED
  BY <1>7, <1>8, Zenon

\* The frame control of an APS frame, as the parsers read it.
LEMMA ApsTypes ==
  ASSUME NEW a
  PROVE  /\ a[1].s = {} => ApsType(a) = {} /\ SubField(a[1].s, 2, 2) = {}
         /\ a[1].s = {1} => ApsType(a) = {1}
<1>1. PICK z \in Nat, t \in Nat : z = 0 /\ t = 2
  OBVIOUS
<1>2. ApsType(a) = SubField(a[1].s, z, 2) /\ SubField(a[1].s, 2, 2) = SubField(a[1].s, t, 2)
  BY <1>1 DEF ApsType
<1>3. CASE a[1].s = {}
  <2>1. z \notin a[1].s /\ z + 1 \notin a[1].s /\ t \notin a[1].s /\ t + 1 \notin a[1].s /\ 1 \notin a[1].s
    BY <1>3
  <2> QED
    BY <1>2, <1>3, <2>1, SubFields
<1>4. CASE a[1].s = {1}
  <2>1. z \notin a[1].s /\ z + 1 \in a[1].s /\ a[1].s # {}
    BY <1>1, <1>4
  <2> QED
    BY <1>2, <1>4, <2>1, SubFields
<1> QED
  BY <1>3, <1>4

\* What the layers above the network layer are handed of an APS data frame.
LEMMA ApsHanded ==
  ASSUME NEW app \in Nat, NEW a, NEW x, ApsFrame(a, app, x)
  PROVE  /\ <<"aps", x>> \in UpperLayers(a)
         /\ app = 0 => <<"zdo", x>> \in UpperLayers(a)
         /\ ParseZclFrame(x).ok => <<"zcl", Rest(x, ParseZclFrame(x))>> \in UpperLayers(a)
         /\ \A h \in UpperLayers(a) : /\ h[1] \in {"aps", "zdo", "zcl"}
                                      /\ h[1] = "zdo" => app = 0
<1>1. /\ Len(a) >= 8 /\ a[1].s = {} /\ a[2].n = app /\ a[5].n = app /\ SubSeq(a, 8 + 1, Len(a)) = x
  BY Zenon DEF ApsFrame
<1>2. ApsType(a) = {} /\ SubField(a[1].s, 2, 2) = {}
  BY <1>1, ApsTypes
<1>3. ~ParseAckFrame(a).ok
  <2>1. ApsType(a) # {1}
    BY <1>2
  <2> QED
    BY <2>1 DEF ParseAckFrame, AcceptIf, Reject
<1>4. ParseApsDataFrame(a).ok /\ ParseApsDataFrame(a).rest = 8
  <2>1. SubField(a[1].s, 2, 2) # GroupMode
    BY <1>2 DEF GroupMode
  <2>2. 5 \notin a[1].s /\ 7 \notin a[1].s
    BY <1>1
  <2>3. ParseApsDataFrame(a) = Accept(ApsReads \cup {}, 8)
    BY <1>1, <1>2, <2>1, <2>2 DEF ParseApsDataFrame, AcceptIf
  <2> QED
    BY <2>3 DEF Accept
<1>5. Rest(a, ParseApsDataFrame(a)) = x
  BY <1>1, <1>4, Zenon DEF Rest
<1>6. PICK z : z = Rest(x, ParseZclFrame(x))
  OBVIOUS
<1>7. UpperLayers(a) = {<<"aps", x>>} \cup (IF app = 0 /\ app = 0 THEN {<<"zdo", x>>} ELSE {})
                         \cup (IF ParseZclFrame(x).ok THEN {<<"zcl", z>>} ELSE {})
  BY <1>1, <1>3, <1>4, <1>5, <1>6, Zenon DEF UpperLayers
<1> QED
  BY <1>6, <1>7

\* An acknowledgement is handed up as one and as nothing else.
LEMMA AckHanded ==
  /\ BuildAckFrame \in Seq(Clear) /\ BuildAckFrame # <<>>
  /\ UpperLayers(BuildAckFrame) = {<<"apsAck", <<>>>>}
<1>1. PICK h \in Seq(Clear) : ApsHeadOf(h, {1}, 1)
  <2>1. {1} \in SUBSET Nat /\ 1 \in Nat
    OBVIOUS
  <2> QED
    BY <2>1, ApsHeadBytes
<1>2. h = BuildAckFrame /\ Len(h) = 8 /\ h[1].s = {1}
  BY <1>1, Zenon DEF ApsHeadOf, BuildAckFrame
<1>3. ApsType(h) = {1}
  BY <1>2, ApsTypes
<1>4. ParseAckFrame(h).ok
  BY <1>2, <1>3 DEF ParseAckFrame, AcceptIf, Accept
<1>5. ~ParseApsDataFrame(h).ok
  <2>1. ApsType(h) # {}
    BY <1>3
  <2>2. ParseApsDataFrame(h) = Reject
    BY <2>1, Zenon DEF ParseApsDataFrame
  <2> QED
    BY <2>2 DEF Reject
<1>6. UpperLayers(h) = {<<"apsAck", <<>>>>} \cup {}
  BY <1>4, <1>5, Zenon DEF UpperLayers
<1>7. h # <<>>
  BY <1>2
<1> QED
  BY <1>2, <1>6, <1>7

\* A ZCL frame in an APS frame is handed on without its header.
LEMMA ZclFrames ==
  ASSUME NEW x \in Seq(Clear)
  PROVE  \/ BuildZclCommandFrame({0}, x) = <<>>
         \/ /\ BuildZclCommandFrame({0}, x) \in Seq(Clear)
            /\ ParseZclFrame(BuildZclCommandFrame({0}, x)).ok
            /\ Rest(BuildZclCommandFrame({0}, x), ParseZclFrame(BuildZclCommandFrame({0}, x))) = x
<1>1. PICK b1 \in Seq(Clear) : b1 = Bits("fcf", 1, {0}) /\ Len(b1) = 1 /\ b1[1].s = {0}
  <2>1. PICK w \in Nat : w = 1
    OBVIOUS
  <2>2. PICK f \in Names : f = "fcf"
    BY OfNames
  <2>3. PICK s \in SUBSET Nat : s = {0}
    <3>1. {0} \in SUBSET Nat
      OBVIOUS
    <3> QED
      BY <3>1
  <2>4. PICK b : b = Bits(f, w, s)
    OBVIOUS
  <2>5. b \in Seq(Clear) /\ Len(b) = w /\ \A j \in 1 .. w : b[j].s = s
    BY <2>4, BitBytes
  <2>6. b = Bits("fcf", 1, {0}) /\ 1 \in 1 .. w
    BY <2>1, <2>2, <2>3, <2>4
  <2> QED
    BY <2>1, <2>3, <2>5, <2>6
<1>2. PICK b2 \in Seq(Clear) : FieldOf(b2, "sequence", 1)
  BY Field, OfNames
<1>3. PICK b3 \in Seq(Clear) : FieldOf(b3, "commandId", 1)
  BY Field, OfNames
<1>4. PICK h2 \in Seq(Clear) : Follows(h2, b1, b2)
  BY Behind
<1>5. PICK h3 \in Seq(Clear) : Follows(h3, h2, b3)
  BY Behind
<1>6. PICK z \in Seq(Clear) : Follows(z, h3, x)
  BY Behind
<1>7. z = Bits("fcf", 1, {0}) \o U("sequence", 1) \o U("commandId", 1) \o x
  BY <1>1, <1>2, <1>3, <1>4, <1>5, <1>6, Zenon DEF Follows, Appends, FieldOf
<1>8. BuildZclCommandFrame({0}, x) = z \/ BuildZclCommandFrame({0}, x) = <<>>
  BY <1>7, Zenon DEF BuildZclCommandFrame, When
<1>9. Len(b1) = 1 /\ Len(b2) = 1 /\ Len(b3) = 1
  BY <1>1, <1>2, <1>3, Zenon DEF FieldOf
<1>10. Len(h3) = 3 /\ h3[1] = b1[1]
  BY <1>4, <1>5, <1>9 DEF Follows
<1>11. /\ Len(z) = 3 + Len(x) /\ Len(x) \in Nat /\ z[1] = b1[1]
       /\ \A j \in 1 .. Len(x) : z[3 + j] = x[j]
  BY <1>6, <1>10 DEF Follows
<1>12. ParseZclFrame(z).ok /\ ParseZclFrame(z).rest = 3
  <2>1. 1 \notin z[1].s /\ 2 \notin z[1].s
    BY <1>1, <1>11
  <2>2. PICK at : at = IF 2 \in z[1].s THEN 3 ELSE 1
    OBVIOUS
  <2>3. at = 1 /\ ~(Len(z) < 3) /\ Len(z) >= at + 2 /\ at + 2 = 3
    BY <1>11, <2>1, <2>2
  <2>4. PICK reads : ParseZclFrame(z) = AcceptIf(Len(z) >= at + 2, reads, at + 2)
    BY <2>1, <2>2, <2>3, Zenon DEF ParseZclFrame
  <2>5. ParseZclFrame(z) = Accept(reads, 3)
    BY <2>3, <2>4 DEF AcceptIf
  <2> QED
    BY <2>5 DEF Accept
<1>13. SubSeq(z, 3 + 1, Len(z)) = x
  <2>1. PICK k \in Nat : k = 3
    OBVIOUS
  <2>2. k + Len(x) <= Len(z) /\ k + Len(x) = Len(z) /\ \A j \in 1 .. Len(x) : z[k + j] = x[j]
    BY <1>11, <2>1
  <2>3. SubSeq(z, k + 1, k + Len(x)) = x
    BY <2>2, Slice
  <2> QED
    BY <2>1, <2>2, <2>3
<1>14. Rest(z, ParseZclFrame(z)) = x
  BY <1>12, <1>13, Zenon DEF Rest
<1> QED
  BY <1>8, <1>12, <1>14, Zenon

\* What the MAC hands up of a frame that is no data frame: of a command, of a beacon.
MacHands(p, what, x) ==
  /\ p # <<>> /\ ~ParseShortDataFrame(p).ok /\ MacLayer(p) = {<<what, x>>}

\* A frame of the command type is handed up as a command and not as a beacon.
LEMMA CommandHanded ==
  ASSUME NEW p, p # <<>>, MacType(p) = Command, ParseMacCommandFrame(p).ok, NEW x,
         Rest(p, ParseMacCommandFrame(p)) = x
  PROVE  MacHands(p, "macCommand", x)
<1>1. ~ParseShortDataFrame(p).ok
  <2>1. ParseShortDataFrame(p) = Reject
    BY DEF ParseShortDataFrame, Data, Command
  <2> QED
    BY <2>1 DEF Reject
<1>2. ~ParseBeacon(p).ok
  <2>1. ParseBeacon(p) = Reject
    BY DEF ParseBeacon, Beacon, Command
  <2> QED
    BY <2>1 DEF Reject
<1>3. /\ {m \in {p} : ParseMacCommandFrame(m).ok} = {p} /\ {m \in {p} : ParseBeacon(m).ok} = {}
  BY <1>2
<1>4. MacLayer(p) = {<<"macCommand", x>> : c \in {p}} \cup {<<"beacon", Rest(p, ParseBeacon(p))>> : c \in {}}
  BY <1>3, Zenon DEF MacLayer
<1>5. MacLayer(p) = {<<"macCommand", x>>}
  BY <1>4
<1> QED
  BY <1>1, <1>5 DEF MacHands

\* A frame of the beacon type is handed up as a beacon and not as a command.
LEMMA BeaconHanded ==
  ASSUME NEW p, p # <<>>, MacType(p) = Beacon, ParseBeacon(p).ok, NEW x,
         Rest(p, ParseBeacon(p)) = x
  PROVE  MacHands(p, "beacon", x)
<1>1. ~ParseShortDataFrame(p).ok
  <2>1. ParseShortDataFrame(p) = Reject
    BY DEF ParseShortDataFrame, Data, Beacon
  <2> QED
    BY <2>1 DEF Reject
<1>2. ~ParseMacCommandFrame(p).ok
  <2>1. ParseMacCommandFrame(p) = Reject
    BY DEF ParseMacCommandFrame, Beacon, Command
  <2> QED
    BY <2>1 DEF Reject
<1>3. /\ {m \in {p} : ParseMacCommandFrame(m).ok} = {} /\ {m \in {p} : ParseBeacon(m).ok} = {p}
  BY <1>2
<1>4. MacLayer(p) = {<<"macCommand", Rest(p, ParseMacCommandFrame(p))>> : c \in {}}
                      \cup {<<"beacon", x>> : c \in {p}}
  BY <1>3, Zenon DEF MacLayer
<1>5. MacLayer(p) = {<<"beacon", x>>}
  BY <1>4
<1> QED
  BY <1>1, <1>5 DEF MacHands

\* A MAC header, four address fields or fewer, then the payload x at offset k.
MacCarries(p, s, k, x) ==
  p \in Seq(Clear) /\ p # <<>> /\ Len(p) = k + Len(x) /\ Len(x) \in Nat /\ p[1].s = s
  /\ SubSeq(p, k + 1, Len(p)) = x

\* A MAC header and the payload behind it.
LEMMA MacCarried ==
  ASSUME NEW h \in Seq(Clear), NEW s, NEW k \in Nat, NEW x \in Seq(Clear), Len(h) = k, k >= 1,
         h[1].s = s
  PROVE  \E p \in Seq(Clear) : Follows(p, h, x) /\ MacCarries(p, s, k, x)
<1>1. PICK p \in Seq(Clear) : Follows(p, h, x)
  BY Behind
<1>2. /\ Len(p) = k + Len(x) /\ Len(x) \in Nat
      /\ \A j \in 1 .. k : p[j] = h[j] /\ \A i \in 1 .. Len(x) : p[k + i] = x[i]
  BY <1>1 DEF Follows
<1>3. p[1] = h[1] /\ p # <<>>
  BY <1>2
<1>4. SubSeq(p, k + 1, Len(p)) = x
  <2>1. ASSUME NEW i \in 1 .. Len(x)
        PROVE  p[k + i] = x[i]
    BY <1>1 DEF Follows
  <2>2. k + Len(x) <= Len(p) /\ k + Len(x) = Len(p)
    BY <1>2
  <2> QED
    BY <2>1, <2>2, Slice
<1>5. MacCarries(p, s, k, x)
  BY <1>2, <1>3, <1>4 DEF MacCarries
<1> QED
  BY <1>1, <1>5

\* The widths of the two kinds of address.
LEMMA Widths ==
  /\ AddressWidth(Short) = 2 /\ AddressWidth(Extended) = 8
  /\ Short # None /\ Extended # None
<1>1. {0, 1} # {1} /\ {0, 1} # {} /\ {1} # {}
  <2>1. 0 \in {0, 1} /\ 0 \notin {1} /\ 1 \in {1}
    OBVIOUS
  <2> QED
    BY <2>1
<1> QED
  BY <1>1, Zenon DEF AddressWidth, Short, Extended, None

\* Where the payload of a MAC command begins, from its address modes.
LEMMA MacCommandParsed ==
  ASSUME NEW p, MacType(p) = Command, DstMode(p) \in {Short, Extended},
         SrcMode(p) \in {None, Short, Extended}, SrcMode(p) # None => Compressed(p),
         NEW at \in Nat, at = 5 + AddressWidth(DstMode(p))
                             + (IF SrcMode(p) = None THEN 0 ELSE AddressWidth(SrcMode(p))),
         Len(p) >= at + 1
  PROVE  ParseMacCommandFrame(p).ok /\ ParseMacCommandFrame(p).rest = at + 1
<1>1. DstMode(p) # None
  BY DEF Short, Extended, None
<1>2. PICK dw, pan, sw : /\ dw = IF DstMode(p) = None THEN 0 ELSE 2 + AddressWidth(DstMode(p))
                         /\ pan = IF SrcMode(p) = None \/ Compressed(p) THEN 0 ELSE 2
                         /\ sw = IF SrcMode(p) = None THEN 0 ELSE AddressWidth(SrcMode(p))
  OBVIOUS
<1>3. AddressWidth(DstMode(p)) \in {2, 8} /\ sw \in {0, 2, 8} /\ pan = 0
  <2>1. AddressWidth(DstMode(p)) \in {2, 8}
    BY DEF AddressWidth
  <2>2. AddressWidth(SrcMode(p)) \in {2, 8}
    BY DEF AddressWidth
  <2> QED
    BY <1>2, <2>1, <2>2
<1>4. dw = 2 + AddressWidth(DstMode(p))
  BY <1>1, <1>2
<1>5. 3 + dw + pan + sw = at
  <2>1. PICK w \in {2, 8} : w = AddressWidth(DstMode(p))
    BY <1>3
  <2>2. at = 5 + w + sw
    BY <1>2, <2>1, Zenon
  <2> QED
    BY <1>3, <1>4, <2>1, <2>2
<1>6. ~(Len(p) < 4) /\ Len(p) >= at + 1
  <2>1. at >= 7
    <3>1. PICK w \in {2, 8} : dw = 2 + w
      BY <1>3, <1>4
    <3>2. sw \in Nat /\ pan = 0
      BY <1>3
    <3> QED
      BY <1>5, <3>1, <3>2
  <2>2. Len(p) >= at + 1
    OBVIOUS
  <2> QED
    BY <2>1, <2>2
<1>7. {DstMode(p), SrcMode(p)} \subseteq {None, Short, Extended}
  OBVIOUS
<1>8. PICK reads : ParseMacCommandFrame(p) =
         AcceptIf({DstMode(p), SrcMode(p)} \subseteq {None, Short, Extended} /\ Len(p) >= at + 1,
                  reads, at + 1)
  <2>1. ~(Len(p) < 4 \/ MacType(p) # Command)
    BY <1>6
  <2> QED
    BY <1>2, <1>5, <2>1, Zenon DEF ParseMacCommandFrame
<1>9. ParseMacCommandFrame(p) = Accept(reads, at + 1)
  BY <1>6, <1>7, <1>8, Zenon DEF AcceptIf
<1> QED
  BY <1>9 DEF Accept

\* The command identifier of a MAC command.
LEMMA CommandIdByte ==
  ASSUME NEW v \in Nat
  PROVE  \E b \in Seq(Clear) : b = Num("commandId", v) /\ Len(b) = 1
<1>1. PICK f \in Names : f = "commandId"
  BY OfNames
<1>2. Num(f, v) \in Seq(Clear) /\ Len(Num(f, v)) = 1
  BY NumberByte
<1>3. PICK b : b = Num(f, v)
  OBVIOUS
<1>4. b = Num("commandId", v) /\ b \in Seq(Clear) /\ Len(b) = 1
  BY <1>1, <1>2, <1>3
<1> QED
  BY <1>4

\* The association request reaches the command callback with its capability byte.
LEMMA AssociationRequestHanded ==
  MacHands(sendAssociationRequest, "macCommand", U("capability", 1))
<1>1. PICK s : s = {0, 1, 6, 11, 12, 14, 15} \cup {5}
  OBVIOUS
<1>2. PICK h \in Seq(Clear) : MacHeadOf(h, s)
  <2>1. s \in SUBSET Nat
    BY <1>1
  <2> QED
    BY <2>1, MacHeadBytes
<1>3. PICK b1 \in Seq(Clear) : FieldOf(b1, "dstPan", 2)
  BY Field, OfNames
<1>4. PICK b2 \in Seq(Clear) : FieldOf(b2, "dst", 2)
  BY Field, OfNames
<1>5. PICK b3 \in Seq(Clear) : FieldOf(b3, "srcIeee", 8)
  BY Field, OfNames
<1>6. PICK b4 \in Seq(Clear) : b4 = Num("commandId", 1) /\ Len(b4) = 1
  BY CommandIdByte
<1>7. PICK x \in Seq(Clear) : FieldOf(x, "capability", 1)
  BY Field, OfNames
<1>9. PICK h1 \in Seq(Clear) : Follows(h1, h, b1)
  BY Behind
<1>10. PICK h2 \in Seq(Clear) : Follows(h2, h1, b2)
  BY Behind
<1>11. PICK h3 \in Seq(Clear) : Follows(h3, h2, b3)
  BY Behind
<1>12. PICK h4 \in Seq(Clear) : Follows(h4, h3, b4)
  BY Behind
<1>13. PICK k \in Nat : k = 16 /\ Len(h4) = k /\ k >= 1 /\ h4[1].s = s
  <2>1. Len(h) = 3 /\ h[1].s = s
    BY <1>2, Zenon DEF MacHeadOf
  <2>2. Len(b1) = 2 /\ Len(b2) = 2 /\ Len(b3) = 8 /\ Len(b4) = 1
    BY <1>3, <1>4, <1>5, <1>6, Zenon DEF FieldOf
  <2>3. Len(h4) = 16 /\ h4[1] = h[1]
    BY <1>9, <1>10, <1>11, <1>12, <2>1, <2>2 DEF Follows
  <2> QED
    BY <2>1, <2>3
<1>14. PICK p \in Seq(Clear) : Follows(p, h4, x) /\ MacCarries(p, s, k, x)
  BY <1>13, MacCarried, Zenon
<1>15. p = sendAssociationRequest /\ x = U("capability", 1)
  BY <1>1, <1>2, <1>3, <1>4, <1>5, <1>6, <1>7, <1>9, <1>10, <1>11, <1>12, <1>14, Zenon
     DEF Follows, Appends, FieldOf, MacHeadOf, sendAssociationRequest, BuildAssociationRequest
<1>16. MacType(p) = Command /\ DstMode(p) = Short /\ SrcMode(p) = Extended /\ Compressed(p)
  <2>1. /\ 0 \in s /\ 1 \in s /\ 2 \notin s /\ 10 \notin s /\ 11 \in s
        /\ 14 \in s /\ 15 \in s /\ 6 \in s
    BY <1>1
  <2>2. p[1].s = s
    BY <1>14, Zenon DEF MacCarries
  <2> QED
    BY <2>1, <2>2, MacFields
<1>17. ParseMacCommandFrame(p).ok /\ ParseMacCommandFrame(p).rest = k
  <2>1. AddressWidth(Short) = 2 /\ AddressWidth(Extended) = 8 /\ Extended # None
    BY Widths
  <2>2. Len(p) >= 16
    BY <1>13, <1>14 DEF MacCarries
  <2>3. PICK at \in Nat : at = 15
    OBVIOUS
  <2>4. at + 1 = k /\ Len(p) >= at + 1
    BY <1>13, <2>2, <2>3
  <2>5. at = 5 + AddressWidth(DstMode(p))
               + (IF SrcMode(p) = None THEN 0 ELSE AddressWidth(SrcMode(p)))
    BY <1>16, <2>1, <2>3
  <2>6. ParseMacCommandFrame(p).ok /\ ParseMacCommandFrame(p).rest = at + 1
    BY <1>16, <2>4, <2>5, MacCommandParsed
  <2> QED
    BY <2>4, <2>6
<1>18. Rest(p, ParseMacCommandFrame(p)) = x /\ p # <<>>
  BY <1>14, <1>17, Zenon DEF Rest, MacCarries
<1> QED
  BY <1>15, <1>16, <1>17, <1>18, CommandHanded, Zenon

\* How a concatenation is grouped makes no difference.
LEMMA Grouped ==
  ASSUME NEW S, NEW a \in Seq(S), NEW b \in Seq(S), NEW c \in Seq(S), NEW d \in Seq(S),
         NEW e \in Seq(S), NEW f \in Seq(S), NEW g \in Seq(S),
         Follows(d, b, c), Follows(e, a, d), Follows(f, a, b), Follows(g, f, c)
  PROVE  e = g
<1>1. /\ Len(a) \in Nat /\ Len(b) \in Nat /\ Len(c) \in Nat
      /\ Len(d) = Len(b) + Len(c) /\ Len(f) = Len(a) + Len(b)
      /\ Len(e) = Len(a) + Len(b) + Len(c) /\ Len(g) = Len(a) + Len(b) + Len(c)
  BY DEF Follows
<1>2. ASSUME NEW j \in 1 .. Len(e)
      PROVE  e[j] = g[j]
  <2>1. CASE j <= Len(a)
    BY <1>1, <2>1 DEF Follows
  <2>2. CASE j > Len(a) /\ j <= Len(a) + Len(b)
    <3>1. PICK i \in 1 .. Len(b) : j = Len(a) + i
      <4>1. j - Len(a) \in 1 .. Len(b) /\ j = Len(a) + (j - Len(a))
        BY <1>1, <2>2
      <4> QED
        BY <4>1
    <3>2. i \in 1 .. Len(d) /\ j \in 1 .. Len(f)
      BY <1>1, <2>2
    <3>3. e[Len(a) + i] = d[i] /\ d[i] = b[i]
      BY <3>2, Zenon DEF Follows
    <3>4. g[j] = f[j] /\ f[Len(a) + i] = b[i]
      BY <3>2, Zenon DEF Follows
    <3> QED
      BY <3>1, <3>3, <3>4
  <2>3. CASE j > Len(a) + Len(b)
    <3>1. PICK i \in 1 .. Len(c) : j = Len(a) + Len(b) + i
      <4>1. j - (Len(a) + Len(b)) \in 1 .. Len(c)
            /\ j = Len(a) + Len(b) + (j - (Len(a) + Len(b)))
        BY <1>1, <2>3
      <4> QED
        BY <4>1
    <3>2. PICK k \in 1 .. Len(d) : k = Len(b) + i /\ j = Len(a) + k /\ j = Len(f) + i
      <4>1. Len(b) + i \in 1 .. Len(d) /\ j = Len(a) + (Len(b) + i) /\ j = Len(f) + i
        BY <1>1, <3>1
      <4> QED
        BY <4>1
    <3>3. e[Len(a) + k] = d[k] /\ d[Len(b) + i] = c[i]
      BY Zenon DEF Follows
    <3>4. g[Len(f) + i] = c[i]
      BY Zenon DEF Follows
    <3> QED
      BY <3>2, <3>3, <3>4
  <2> QED
    BY <1>1, <2>1, <2>2, <2>3
<1> QED
  BY <1>1, <1>2, SeqEqual

\* The association response reaches the command callback with address and status.
LEMMA AssociationResponseHanded ==
  MacHands(sendAssociationResponse, "macCommand", U("assigned", 2) \o U("status", 1))
<1>1. PICK s : s = {0, 1, 6, 10, 11, 12, 15} \cup {5}
  OBVIOUS
<1>2. PICK h \in Seq(Clear) : MacHeadOf(h, s)
  <2>1. s \in SUBSET Nat
    BY <1>1
  <2> QED
    BY <2>1, MacHeadBytes
<1>3. PICK b1 \in Seq(Clear) : FieldOf(b1, "dstPan", 2)
  BY Field, OfNames
<1>4. PICK b2 \in Seq(Clear) : FieldOf(b2, "dstIeee", 8)
  BY Field, OfNames
<1>5. PICK b3 \in Seq(Clear) : FieldOf(b3, "src", 2)
  BY Field, OfNames
<1>6. PICK b4 \in Seq(Clear) : b4 = Num("commandId", 2) /\ Len(b4) = 1
  BY CommandIdByte
<1>7. PICK x1 \in Seq(Clear) : FieldOf(x1, "assigned", 2)
  BY Field, OfNames
<1>8. PICK x2 \in Seq(Clear) : FieldOf(x2, "status", 1)
  BY Field, OfNames
<1>x. PICK x \in Seq(Clear) : Follows(x, x1, x2)
  BY Behind
<1>9. PICK h1 \in Seq(Clear) : Follows(h1, h, b1)
  BY Behind
<1>10. PICK h2 \in Seq(Clear) : Follows(h2, h1, b2)
  BY Behind
<1>11. PICK h3 \in Seq(Clear) : Follows(h3, h2, b3)
  BY Behind
<1>12. PICK h4 \in Seq(Clear) : Follows(h4, h3, b4)
  BY Behind
<1>13. PICK k \in Nat : k = 16 /\ Len(h4) = k /\ k >= 1 /\ h4[1].s = s
  <2>1. Len(h) = 3 /\ h[1].s = s
    BY <1>2, Zenon DEF MacHeadOf
  <2>2. Len(b1) = 2 /\ Len(b2) = 8 /\ Len(b3) = 2 /\ Len(b4) = 1
    BY <1>3, <1>4, <1>5, <1>6, Zenon DEF FieldOf
  <2>3. Len(h4) = 16 /\ h4[1] = h[1]
    BY <1>9, <1>10, <1>11, <1>12, <2>1, <2>2 DEF Follows
  <2> QED
    BY <2>1, <2>3
<1>14. PICK p \in Seq(Clear) : Follows(p, h4, x) /\ MacCarries(p, s, k, x)
  BY <1>13, MacCarried, Zenon
<1>15. p = sendAssociationResponse /\ x = U("assigned", 2) \o U("status", 1)
  <2>1. x = x1 \o x2 /\ x1 = U("assigned", 2) /\ x2 = U("status", 1)
    BY <1>7, <1>8, <1>x, <1>14, Zenon DEF Follows, Appends, FieldOf
  <2>a. PICK f \in Seq(Clear) : Follows(f, h4, x1)
    BY Behind
  <2>b. PICK g \in Seq(Clear) : Follows(g, f, x2)
    BY Behind
  <2>2. p = (h4 \o x1) \o x2
    <3>1. p = g
      BY <1>x, <1>14, <2>a, <2>b, Grouped
    <3> QED
      BY <2>a, <2>b, <3>1, Zenon DEF Follows, Appends
  <2>3. h4 = MacHead(s) \o U("dstPan", 2) \o U("dstIeee", 8) \o U("src", 2) \o Num("commandId", 2)
    BY <1>2, <1>3, <1>4, <1>5, <1>6, <1>9, <1>10, <1>11, <1>12, Zenon
       DEF Follows, Appends, FieldOf, MacHeadOf
  <2> QED
    BY <1>1, <2>1, <2>2, <2>3, Zenon DEF sendAssociationResponse, BuildAssociationResponse
<1>16. MacType(p) = Command /\ DstMode(p) = Extended /\ SrcMode(p) = Short /\ Compressed(p)
  <2>1. /\ 0 \in s /\ 1 \in s /\ 2 \notin s /\ 10 \in s /\ 11 \in s
        /\ 14 \notin s /\ 15 \in s /\ 6 \in s
    BY <1>1
  <2>2. p[1].s = s
    BY <1>14, Zenon DEF MacCarries
  <2> QED
    BY <2>1, <2>2, MacFields
<1>17. ParseMacCommandFrame(p).ok /\ ParseMacCommandFrame(p).rest = k
  <2>1. AddressWidth(Short) = 2 /\ AddressWidth(Extended) = 8 /\ Short # None
    BY Widths
  <2>2. Len(p) >= 16
    BY <1>13, <1>14 DEF MacCarries
  <2>3. PICK at \in Nat : at = 15
    OBVIOUS
  <2>4. at + 1 = k /\ Len(p) >= at + 1
    BY <1>13, <2>2, <2>3
  <2>5. at = 5 + AddressWidth(DstMode(p))
               + (IF SrcMode(p) = None THEN 0 ELSE AddressWidth(SrcMode(p)))
    BY <1>16, <2>1, <2>3
  <2>6. ParseMacCommandFrame(p).ok /\ ParseMacCommandFrame(p).rest = at + 1
    BY <1>16, <2>4, <2>5, MacCommandParsed
  <2> QED
    BY <2>4, <2>6
<1>18. Rest(p, ParseMacCommandFrame(p)) = x /\ p # <<>>
  BY <1>14, <1>17, Zenon DEF Rest, MacCarries
<1> QED
  BY <1>15, <1>16, <1>17, <1>18, CommandHanded, Zenon

\* The beacon request reaches the command callback with nothing behind the command.
LEMMA BeaconRequestHanded ==
  MacHands(sendBeaconRequest, "macCommand", <<>>)
<1>1. PICK s : s = {0, 1, 11}
  OBVIOUS
<1>2. PICK h \in Seq(Clear) : MacHeadOf(h, s)
  <2>1. s \in SUBSET Nat
    BY <1>1
  <2> QED
    BY <2>1, MacHeadBytes
<1>3. PICK b1 \in Seq(Clear) : FieldOf(b1, "dstPan", 2)
  BY Field, OfNames
<1>4. PICK b2 \in Seq(Clear) : FieldOf(b2, "dst", 2)
  BY Field, OfNames
<1>5. PICK b3 \in Seq(Clear) : b3 = Num("commandId", 7) /\ Len(b3) = 1
  BY CommandIdByte
<1>6. PICK h1 \in Seq(Clear) : Follows(h1, h, b1)
  BY Behind
<1>7. PICK h2 \in Seq(Clear) : Follows(h2, h1, b2)
  BY Behind
<1>8. PICK p \in Seq(Clear) : Follows(p, h2, b3)
  BY Behind
<1>9. Len(p) = 8 /\ p[1].s = s
  <2>1. Len(h) = 3 /\ h[1].s = s
    BY <1>2, Zenon DEF MacHeadOf
  <2>2. Len(b1) = 2 /\ Len(b2) = 2 /\ Len(b3) = 1
    BY <1>3, <1>4, <1>5, Zenon DEF FieldOf
  <2>3. Len(p) = 8 /\ p[1] = h[1]
    BY <1>6, <1>7, <1>8, <2>1, <2>2 DEF Follows
  <2> QED
    BY <2>1, <2>3
<1>10. p = sendBeaconRequest
  BY <1>1, <1>2, <1>3, <1>4, <1>5, <1>6, <1>7, <1>8, Zenon
     DEF Follows, Appends, FieldOf, MacHeadOf, sendBeaconRequest, BuildBeaconRequest
<1>11. MacType(p) = Command /\ DstMode(p) = Short /\ SrcMode(p) = None
  <2>1. /\ 0 \in s /\ 1 \in s /\ 2 \notin s /\ 10 \notin s /\ 11 \in s
        /\ 14 \notin s /\ 15 \notin s
    BY <1>1
  <2> QED
    BY <1>9, <2>1, MacFields
<1>12. ParseMacCommandFrame(p).ok /\ ParseMacCommandFrame(p).rest = 8
  <2>1. AddressWidth(Short) = 2
    BY Widths
  <2>2. PICK at \in Nat : at = 7
    OBVIOUS
  <2>3. at + 1 = 8 /\ Len(p) >= at + 1
    BY <1>9, <2>2
  <2>4. at = 5 + AddressWidth(DstMode(p))
               + (IF SrcMode(p) = None THEN 0 ELSE AddressWidth(SrcMode(p)))
    BY <1>11, <2>1, <2>2
  <2>5. ParseMacCommandFrame(p).ok /\ ParseMacCommandFrame(p).rest = at + 1
    BY <1>11, <2>3, <2>4, MacCommandParsed
  <2> QED
    BY <2>3, <2>5
<1>13. Rest(p, ParseMacCommandFrame(p)) = <<>> /\ p # <<>>
  <2>1. SubSeq(p, 8 + 1, Len(p)) = <<>>
    BY <1>9
  <2>2. p # <<>>
    <3>1. Len(<<>>) = 0 /\ 0 # 8
      OBVIOUS
    <3> QED
      BY <1>9, <3>1, Zenon
  <2> QED
    BY <1>12, <2>1, <2>2, Zenon DEF Rest
<1> QED
  BY <1>10, <1>11, <1>12, <1>13, CommandHanded, Zenon

\* The two counts of a beacon's lists, both 0 here.
LEMMA CountByte ==
  \E b \in Seq(Clear) : b = Const(0) /\ Len(b) = 1 /\ b[1].n = 0
<1>1. PICK f \in Names, v \in Nat : f = "const" /\ v = 0
  BY OfNames
<1>2. Num(f, v) \in Seq(Clear) /\ Len(Num(f, v)) = 1 /\ Num(f, v)[1].n = v
  BY NumberByte
<1>3. PICK b : b = Num(f, v)
  OBVIOUS
<1>4. b = Const(0) /\ b \in Seq(Clear) /\ Len(b) = 1 /\ b[1].n = 0
  <2>1. b = Const(0)
    BY <1>1, <1>3, Zenon DEF Const
  <2> QED
    BY <1>1, <1>2, <1>3, <2>1
<1> QED
  BY <1>4

\* A beacon is refused, or reaches the beacon callback with its payload.
LEMMA BeaconFramesHanded ==
  ASSUME NEW x \in Seq(Clear)
  PROVE  sendBeacon(x) = <<>> \/ MacHands(sendBeacon(x), "beacon", x)
<1>1. PICK s : s = {15}
  OBVIOUS
<1>2. PICK h \in Seq(Clear) : MacHeadOf(h, s)
  <2>1. s \in SUBSET Nat
    BY <1>1
  <2> QED
    BY <2>1, MacHeadBytes
<1>3. PICK b1 \in Seq(Clear) : FieldOf(b1, "srcPan", 2)
  BY Field, OfNames
<1>4. PICK b2 \in Seq(Clear) : FieldOf(b2, "src", 2)
  BY Field, OfNames
<1>5. PICK b3 \in Seq(Clear) : b3 = Bits("superframe", 2, 0 .. 11 \cup {15}) /\ Len(b3) = 2
  <2>1. PICK w \in Nat : w = 2
    OBVIOUS
  <2>2. PICK f \in Names : f = "superframe"
    BY OfNames
  <2>3. PICK t \in SUBSET Nat : t = 0 .. 11 \cup {15}
    <3>1. 0 .. 11 \cup {15} \in SUBSET Nat
      OBVIOUS
    <3> QED
      BY <3>1
  <2>4. PICK b : b = Bits(f, w, t)
    OBVIOUS
  <2>5. b \in Seq(Clear) /\ Len(b) = w
    BY <2>4, BitBytes
  <2>6. b = Bits("superframe", 2, 0 .. 11 \cup {15})
    BY <2>1, <2>2, <2>3, <2>4
  <2> QED
    BY <2>1, <2>5, <2>6
<1>6. PICK b4 \in Seq(Clear) : b4 = Const(0) /\ Len(b4) = 1 /\ b4[1].n = 0
  BY CountByte
<1>7. PICK b5 \in Seq(Clear) : b5 = Const(0) /\ Len(b5) = 1 /\ b5[1].n = 0
  BY CountByte
<1>9. PICK h1 \in Seq(Clear) : Follows(h1, h, b1)
  BY Behind
<1>10. PICK h2 \in Seq(Clear) : Follows(h2, h1, b2)
  BY Behind
<1>11. PICK h3 \in Seq(Clear) : Follows(h3, h2, b3)
  BY Behind
<1>12. PICK h4 \in Seq(Clear) : Follows(h4, h3, b4)
  BY Behind
<1>13. PICK h5 \in Seq(Clear) : Follows(h5, h4, b5)
  BY Behind
<1>14. PICK k \in Nat : /\ k = 11 /\ Len(h5) = k /\ k >= 1 /\ h5[1].s = s
                        /\ h5[10].n = 0 /\ h5[11].n = 0
  <2>1. Len(h) = 3 /\ h[1].s = s
    BY <1>2, Zenon DEF MacHeadOf
  <2>2. Len(b1) = 2 /\ Len(b2) = 2 /\ Len(b3) = 2 /\ Len(b4) = 1 /\ Len(b5) = 1
    BY <1>3, <1>4, <1>5, <1>6, <1>7, Zenon DEF FieldOf
  <2>3. Len(h3) = 9 /\ h3[1] = h[1]
    BY <1>9, <1>10, <1>11, <2>1, <2>2 DEF Follows
  <2>4. Len(h4) = 10 /\ h4[1] = h3[1] /\ h4[9 + 1] = b4[1]
    <3>1. 1 \in 1 .. Len(h3) /\ 1 \in 1 .. Len(b4) /\ 9 + 1 = 10
      BY <2>2, <2>3
    <3> QED
      BY <1>12, <2>2, <2>3, <3>1, Zenon DEF Follows
  <2>5. Len(h5) = 11 /\ h5[1] = h4[1] /\ h5[10] = h4[10] /\ h5[10 + 1] = b5[1]
    <3>1. 1 \in 1 .. Len(h4) /\ 10 \in 1 .. Len(h4) /\ 1 \in 1 .. Len(b5) /\ 10 + 1 = 11
      BY <2>2, <2>4
    <3> QED
      BY <1>13, <2>2, <2>4, <3>1, Zenon DEF Follows
  <2>6. 9 + 1 = 10 /\ 10 + 1 = 11 /\ 11 \in Nat /\ 11 >= 1
    OBVIOUS
  <2>7. h5[1].s = s /\ h5[10].n = 0 /\ h5[11].n = 0
    BY <1>6, <1>7, <2>1, <2>3, <2>4, <2>5, <2>6, Zenon
  <2> QED
    BY <2>5, <2>6, <2>7, Zenon
<1>15. PICK p \in Seq(Clear) : Follows(p, h5, x) /\ MacCarries(p, s, k, x)
  BY <1>14, MacCarried, Zenon
<1>16. sendBeacon(x) = <<>> \/ sendBeacon(x) = p
  <2>1. p = MacHead({15}) \o U("srcPan", 2) \o U("src", 2)
              \o Bits("superframe", 2, 0 .. 11 \cup {15}) \o Const(0) \o Const(0) \o x
    BY <1>1, <1>2, <1>3, <1>4, <1>5, <1>6, <1>7, <1>9, <1>10, <1>11, <1>12, <1>13, <1>15, Zenon
       DEF Follows, Appends, FieldOf, MacHeadOf
  <2> QED
    BY <2>1, Zenon DEF sendBeacon, BuildBeacon, When
<1>17. MacType(p) = Beacon /\ DstMode(p) = None /\ SrcMode(p) = Short
  <2>1. /\ 0 \notin s /\ 1 \notin s /\ 2 \notin s /\ 10 \notin s /\ 11 \notin s
        /\ 14 \notin s /\ 15 \in s
    BY <1>1
  <2>2. p[1].s = s
    BY <1>15, Zenon DEF MacCarries
  <2> QED
    BY <2>1, <2>2, MacFields
<1>18. Len(p) = 11 + Len(x) /\ Len(x) \in Nat /\ p[10].n = 0 /\ p[11].n = 0
  <2>1. Len(p) = 11 + Len(x) /\ Len(x) \in Nat
    BY <1>14, <1>15, Zenon DEF MacCarries
  <2>2. p[10] = h5[10] /\ p[11] = h5[11]
    BY <1>14, <1>15 DEF Follows
  <2> QED
    BY <1>14, <2>1, <2>2
<1>19. ParseBeacon(p).ok /\ ParseBeacon(p).rest = k
  <2>1. PICK gts : gts = p[10].n % 8
    OBVIOUS
  <2>2. PICK at : at = 10 + (IF gts > 0 THEN 1 + 3 * gts ELSE 0)
    OBVIOUS
  <2>3. gts = 0 /\ at = 10
    BY <1>18, <2>1, <2>2
  <2>4. PICK pend : pend = 2 * (p[at + 1].n % 8) + 8 * ((p[at + 1].n \div 16) % 8)
    OBVIOUS
  <2>5. pend = 0
    <3>1. PICK v : v = p[at + 1].n
      OBVIOUS
    <3>2. v = 0
      BY <1>18, <2>3, <3>1
    <3>3. pend = 2 * (v % 8) + 8 * ((v \div 16) % 8)
      BY <2>4, <3>1, Zenon
    <3>4. 2 * (0 % 8) + 8 * ((0 \div 16) % 8) = 0
      OBVIOUS
    <3> QED
      BY <3>2, <3>3, <3>4, Zenon
  <2>6. ~(Len(p) < 11) /\ ~(Len(p) < at + 1) /\ Len(p) >= at + 1 + pend /\ at + 1 + pend = k
    BY <1>14, <1>18, <2>3, <2>5
  <2>7. PICK reads : ParseBeacon(p) = AcceptIf(Len(p) >= at + 1 + pend, reads, at + 1 + pend)
    BY <1>17, <2>1, <2>2, <2>4, <2>6, Zenon DEF ParseBeacon
  <2>8. ParseBeacon(p) = Accept(reads, k)
    BY <2>6, <2>7, Zenon DEF AcceptIf
  <2> QED
    BY <2>8 DEF Accept
<1>20. Rest(p, ParseBeacon(p)) = x /\ p # <<>>
  BY <1>15, <1>19, Zenon DEF Rest, MacCarries
<1>21. MacHands(p, "beacon", x)
  BY <1>17, <1>19, <1>20, BeaconHanded, Zenon
<1> QED
  BY <1>16, <1>21, Zenon

\* What a node is handed of a data frame: the payload, and at the destination the layers above.
LEMMA DataFed ==
  ASSUME NEW a, NEW p, NEW psdu, Carries(p, {3}, 8, a), Arrives(psdu, p), NEW self
  PROVE  /\ \A h \in feed(psdu, self) :
               \/ h = <<self, "nwk", a>>
               \/ self = Target /\ \E u \in UpperLayers(a) : h = <<self, u[1], u[2]>>
         /\ self = Target => \A u \in UpperLayers(a) : <<self, u[1], u[2]>> \in feed(psdu, self)
<1>1. /\ ParseNwkDataFrame(p).ok /\ Rest(p, ParseNwkDataFrame(p)) = a
      /\ ~ParseNwkCommandFrame(p).ok /\ p[3].n = Target
  BY DataParsed
<1>2. Dispatch(p, self) = {} \cup ({<<"nwk", a>>} \cup (IF Target = self THEN UpperLayers(a) ELSE {}))
  BY <1>1, Zenon DEF Dispatch, LocalNwkDestination
<1>3. feed(psdu, self) = {<<self, h[1], h[2]>> : h \in Dispatch(p, self)}
  BY Zenon DEF Arrives, feed
<1>4. ASSUME NEW d \in Dispatch(p, self)
      PROVE  d = <<"nwk", a>> \/ (self = Target /\ d \in UpperLayers(a))
  BY <1>2
<1>5. \A u \in UpperLayers(a) : self = Target => u \in Dispatch(p, self)
  BY <1>2
<1>6. ASSUME NEW h \in feed(psdu, self)
      PROVE  \/ h = <<self, "nwk", a>>
             \/ self = Target /\ \E u \in UpperLayers(a) : h = <<self, u[1], u[2]>>
  <2>1. PICK d \in Dispatch(p, self) : h = <<self, d[1], d[2]>>
    BY <1>3
  <2>2. CASE d = <<"nwk", a>>
    <3>1. d[1] = "nwk" /\ d[2] = a
      BY <2>2
    <3> QED
      BY <2>1, <3>1
  <2>3. CASE self = Target /\ d \in UpperLayers(a)
    BY <2>1, <2>3, Zenon
  <2> QED
    BY <1>4, <2>2, <2>3
<1>7. ASSUME self = Target, NEW u \in UpperLayers(a)
      PROVE  <<self, u[1], u[2]>> \in feed(psdu, self)
  BY <1>3, <1>5, <1>7
<1> QED
  BY <1>6, <1>7, Zenon

\* The same for a source-routed frame, whose payload the destination also takes for an APS frame.
LEMMA RoutedFed ==
  ASSUME NEW m \in Nat, NEW i \in Nat, NEW x, NEW p, NEW psdu, Routes(p, m, i, x),
         Arrives(psdu, p), NEW self
  PROVE  /\ <<self, "nwk", x>> \in feed(psdu, self)
         /\ \A h \in feed(psdu, self) :
               \/ h = <<self, "nwk", x>>
               \/ self = Target /\ \E u \in UpperLayers(x) : h = <<self, u[1], u[2]>>
<1>1. /\ ParseNwkDataFrame(p).ok /\ Rest(p, ParseNwkDataFrame(p)) = x
      /\ ~ParseNwkCommandFrame(p).ok /\ p[3].n = Target
  BY RoutedParsed
<1>2. Dispatch(p, self) = {} \cup ({<<"nwk", x>>} \cup (IF Target = self THEN UpperLayers(x) ELSE {}))
  BY <1>1, Zenon DEF Dispatch, LocalNwkDestination
<1>3. feed(psdu, self) = {<<self, h[1], h[2]>> : h \in Dispatch(p, self)}
  BY Zenon DEF Arrives, feed
<1>4. ASSUME NEW d \in Dispatch(p, self)
      PROVE  d = <<"nwk", x>> \/ (self = Target /\ d \in UpperLayers(x))
  BY <1>2
<1>5. <<self, "nwk", x>> \in feed(psdu, self)
  <2>1. PICK d : d = <<"nwk", x>>
    OBVIOUS
  <2>2. d \in Dispatch(p, self) /\ d[1] = "nwk" /\ d[2] = x
    BY <1>2, <2>1
  <2>3. <<self, d[1], d[2]>> \in feed(psdu, self)
    BY <1>3, <2>2
  <2> QED
    BY <2>2, <2>3
<1>6. ASSUME NEW h \in feed(psdu, self)
      PROVE  \/ h = <<self, "nwk", x>>
             \/ self = Target /\ \E u \in UpperLayers(x) : h = <<self, u[1], u[2]>>
  <2>1. PICK d \in Dispatch(p, self) : h = <<self, d[1], d[2]>>
    BY <1>3
  <2>2. CASE d = <<"nwk", x>>
    <3>1. d[1] = "nwk" /\ d[2] = x
      BY <2>2
    <3> QED
      BY <2>1, <3>1
  <2>3. CASE self = Target /\ d \in UpperLayers(x)
    BY <2>1, <2>3, Zenon
  <2> QED
    BY <1>4, <2>2, <2>3
<1> QED
  BY <1>5, <1>6, Zenon

\* Of a NWK command, and of a frame of the MAC, one callback hears.
LEMMA CommandFed ==
  ASSUME NEW p, NEW x, NEW psdu, Carries(p, {3, 0}, 9, x), Arrives(psdu, p), NEW self
  PROVE  feed(psdu, self) = {<<self, "nwkCommand", x>>}
<1>1. /\ ~ParseNwkDataFrame(p).ok
      /\ ParseNwkCommandFrame(p).ok /\ Rest(p, ParseNwkCommandFrame(p)) = x
  BY CommandParsed
<1>2. Dispatch(p, self) = {<<"nwkCommand", x>>} \cup {}
  BY <1>1, Zenon DEF Dispatch
<1>3. feed(psdu, self) = {<<self, h[1], h[2]>> : h \in Dispatch(p, self)}
  BY Zenon DEF Arrives, feed
<1>4. PICK d : d = <<"nwkCommand", x>>
  OBVIOUS
<1>5. Dispatch(p, self) = {d} /\ d[1] = "nwkCommand" /\ d[2] = x
  BY <1>2, <1>4
<1>6. feed(psdu, self) = {<<self, d[1], d[2]>>}
  BY <1>3, <1>5
<1> QED
  BY <1>5, <1>6

\* feed of such a frame calls that callback alone.
LEMMA MacFed ==
  ASSUME NEW p, NEW what, NEW x, MacHands(p, what, x), NEW self
  PROVE  feed(p, self) = {<<self, what, x>>}
<1>1. feed(p, self) = {<<self, h[1], h[2]>> : h \in MacLayer(p)} /\ MacLayer(p) = {<<what, x>>}
  BY Zenon DEF MacHands, feed
<1>2. PICK d : d = <<what, x>>
  OBVIOUS
<1>3. MacLayer(p) = {d} /\ d[1] = what /\ d[2] = x
  BY <1>1, <1>2
<1>4. feed(p, self) = {<<self, d[1], d[2]>>}
  BY <1>1, <1>3
<1> QED
  BY <1>3, <1>4

\* What the layers above may make of the APS frame of a call.
HeardAsMeant(call, a) ==
  /\ <<MeantFor(call)[2], MeantFor(call)[3]>> \in UpperLayers(a)
  /\ \A u \in UpperLayers(a) : /\ u[1] \in {"aps", "zdo", "zcl", "apsAck"}
                               /\ u[1] = "zdo" => call.kind = "zdo"
                               /\ call.kind = "apsAck" => u[1] = "apsAck"

\* The calls whose frames relays carry by the route table.
Relayed == {"aps", "zcl", "zdo", "apsAck"}

\* The caller's payload is a sequence of clear bytes.
LEMMA PayloadBytes ==
  ASSUME NEW n \in Nat
  PROVE  Payload(n) \in Seq(Clear)
<1>1. PICK f \in Names : f = "payload"
  BY OfNames
<1>2. U(f, n) \in Seq(Clear)
  BY FieldBytes
<1> QED
  BY <1>1, <1>2 DEF Payload

\* The types of the fields of a call.
LEMMA SizesOfCalls ==
  ASSUME NEW call \in Calls
  PROVE  call.size \in Nat /\ call.relays \in Nat /\ call.kind \in Kinds
<1>1. call \in [kind : Kinds, size : Sizes, relays : 0 .. MaxRelays]
  BY Zenon DEF Calls
<1>2. call.kind \in Kinds /\ call.size \in Sizes /\ call.relays \in 0 .. MaxRelays
  BY <1>1
<1>3. call.size \in Nat
  BY <1>2, SizesAssumption, Zenon
<1>4. \A r \in 0 .. MaxRelays : r \in Nat
  BY SizesAssumption
<1> QED
  BY <1>2, <1>3, <1>4, Zenon

\* A send call for an APS payload that succeeds puts an APS frame on the air that is
\* heard as it is meant.
LEMMA ApsCalls ==
  ASSUME NEW call \in Calls, call.kind \in {"aps", "zdo", "unsecured"},
         NEW app \in Nat, app = IF call.kind = "zdo" THEN 0 ELSE 1,
         ApsFrame(BuildApsDataFrame({}, app, Payload(call.size)), app, Payload(call.size))
  PROVE  HeardAsMeant(call, BuildApsDataFrame({}, app, Payload(call.size)))
<1>1. PICK a, x : a = BuildApsDataFrame({}, app, Payload(call.size)) /\ x = Payload(call.size)
  OBVIOUS
<1>2. /\ <<"aps", x>> \in UpperLayers(a)
      /\ app = 0 => <<"zdo", x>> \in UpperLayers(a)
      /\ \A h \in UpperLayers(a) : /\ h[1] \in {"aps", "zdo", "zcl"}
                                   /\ h[1] = "zdo" => app = 0
  BY <1>1, ApsHanded
<1>3. \A u \in UpperLayers(a) : /\ u[1] \in {"aps", "zdo", "zcl", "apsAck"}
                                /\ u[1] = "zdo" => call.kind = "zdo"
                                /\ call.kind = "apsAck" => u[1] = "apsAck"
  BY <1>2
<1>4. <<MeantFor(call)[2], MeantFor(call)[3]>> \in UpperLayers(a)
  <2>1. CASE call.kind = "zdo"
    <3>1. MeantFor(call) = <<Target, "zdo", x>>
      BY <1>1, <2>1 DEF MeantFor
    <3>2. app = 0
      BY <2>1
    <3>3. MeantFor(call)[2] = "zdo" /\ MeantFor(call)[3] = x
      BY <3>1
    <3> QED
      BY <1>2, <3>2, <3>3
  <2>2. CASE call.kind \in {"aps", "unsecured"}
    <3>1. MeantFor(call) = <<Target, "aps", x>>
      BY <1>1, <2>2 DEF MeantFor
    <3>3. MeantFor(call)[2] = "aps" /\ MeantFor(call)[3] = x
      BY <3>1
    <3> QED
      BY <1>2, <3>3
  <2> QED
    BY <2>1, <2>2
<1>5. HeardAsMeant(call, a)
  BY <1>3, <1>4, Zenon DEF HeardAsMeant
<1> QED
  BY <1>1, <1>5

\* Nothing is sent where the layer above built nothing.
LEMMA NoFrame ==
  sendNwkData(<<>>) = <<>> /\ sendNwkDataUnsecured(<<>>) = <<>>
<1>1. applyTxSecurity(<<>>) = <<>> /\ sendData(<<>>) = <<>>
  BY Zenon DEF applyTxSecurity, sendData, When
<1> QED
  BY <1>1, Zenon DEF sendNwkData, sendNwkDataUnsecured, When

\* An acknowledgement is heard as the call meant it.
LEMMA AckCalled ==
  ASSUME NEW call \in Calls, call.kind = "apsAck"
  PROVE  HeardAsMeant(call, BuildAckFrame)
<1>1. UpperLayers(BuildAckFrame) = {<<"apsAck", <<>>>>}
  BY AckHanded
<1>2. MeantFor(call) = <<Target, "apsAck", <<>>>>
  BY DEF MeantFor
<1>3. PICK u : u = <<"apsAck", <<>>>>
  OBVIOUS
<1>4. u[1] = "apsAck" /\ u[2] = <<>> /\ UpperLayers(BuildAckFrame) = {u}
  BY <1>1, <1>3
<1>5. MeantFor(call)[2] = "apsAck" /\ MeantFor(call)[3] = <<>>
  BY <1>2
<1>6. <<MeantFor(call)[2], MeantFor(call)[3]>> \in UpperLayers(BuildAckFrame)
  BY <1>1, <1>5
<1>7. \A v \in UpperLayers(BuildAckFrame) : /\ v[1] \in {"aps", "zdo", "zcl", "apsAck"}
                                            /\ v[1] = "zdo" => call.kind = "zdo"
                                            /\ call.kind = "apsAck" => v[1] = "apsAck"
  BY <1>4
<1> QED
  BY <1>6, <1>7, Zenon DEF HeardAsMeant

\* A ZCL command is heard as the call meant it.
LEMMA ZclCalled ==
  ASSUME NEW call \in Calls, call.kind = "zcl", NEW z, z # <<>>,
         z = BuildZclCommandFrame({0}, Payload(call.size)), NEW a, ApsFrame(a, 1, z)
  PROVE  HeardAsMeant(call, a)
<1>1. Payload(call.size) \in Seq(Clear)
  BY SizesOfCalls, PayloadBytes
<1>2. ParseZclFrame(z).ok /\ Rest(z, ParseZclFrame(z)) = Payload(call.size)
  BY <1>1, ZclFrames, Zenon
<1>3. /\ ParseZclFrame(z).ok => <<"zcl", Rest(z, ParseZclFrame(z))>> \in UpperLayers(a)
      /\ \A h \in UpperLayers(a) : /\ h[1] \in {"aps", "zdo", "zcl"}
                                   /\ h[1] = "zdo" => 1 = 0
  <2>1. PICK app \in Nat : app = 1
    OBVIOUS
  <2>2. ApsFrame(a, app, z)
    BY <2>1
  <2> QED
    BY <2>1, <2>2, ApsHanded
<1>4. <<"zcl", Payload(call.size)>> \in UpperLayers(a)
  BY <1>2, <1>3, Zenon
<1>5. MeantFor(call) = <<Target, "zcl", Payload(call.size)>>
  BY DEF MeantFor
<1>6. MeantFor(call)[2] = "zcl" /\ MeantFor(call)[3] = Payload(call.size)
  BY <1>5
<1>7. <<MeantFor(call)[2], MeantFor(call)[3]>> \in UpperLayers(a)
  BY <1>4, <1>6, Zenon
<1>8. \A u \in UpperLayers(a) : /\ u[1] \in {"aps", "zdo", "zcl", "apsAck"}
                                /\ u[1] = "zdo" => call.kind = "zdo"
                                /\ call.kind = "apsAck" => u[1] = "apsAck"
  BY <1>3
<1> QED
  BY <1>7, <1>8, Zenon DEF HeardAsMeant

\* The calls that send an APS frame by the route table.
LEMMA RelayedCalls ==
  ASSUME NEW call \in Calls, call.kind \in Relayed, Psdu(call) # <<>>
  PROVE  \E a \in Seq(Clear) : Psdu(call) = sendNwkData(a) /\ HeardAsMeant(call, a)
<1>1. Payload(call.size) \in Seq(Clear)
  BY SizesOfCalls, PayloadBytes
<1>2. CASE call.kind = "aps"
  <2>1. PICK app \in Nat : app = 1
    OBVIOUS
  <2>2. PICK a : a = BuildApsDataFrame({}, app, Payload(call.size))
    OBVIOUS
  <2>3. Psdu(call) = sendNwkData(a)
    BY <1>2, <2>1, <2>2 DEF Psdu, sendApsData
  <2>4. ApsFrame(a, app, Payload(call.size))
    BY <1>1, <2>2, <2>3, ApsFrames, NoFrame, Zenon
  <2>5. app = IF call.kind = "zdo" THEN 0 ELSE 1
    BY <1>2, <2>1
  <2>6. HeardAsMeant(call, a)
    BY <1>2, <2>2, <2>4, <2>5, ApsCalls
  <2>7. a \in Seq(Clear)
    BY <2>4 DEF ApsFrame
  <2> QED
    BY <2>3, <2>6, <2>7, Zenon
<1>3. CASE call.kind = "zdo"
  <2>1. PICK app \in Nat : app = 0
    OBVIOUS
  <2>2. PICK a : a = BuildApsDataFrame({}, app, Payload(call.size))
    OBVIOUS
  <2>3. Psdu(call) = sendNwkData(a)
    BY <1>3, <2>1, <2>2 DEF Psdu, sendZdoCommand
  <2>4. ApsFrame(a, app, Payload(call.size))
    BY <1>1, <2>2, <2>3, ApsFrames, NoFrame, Zenon
  <2>5. app = IF call.kind = "zdo" THEN 0 ELSE 1
    BY <1>3, <2>1
  <2>6. HeardAsMeant(call, a)
    BY <1>3, <2>2, <2>4, <2>5, ApsCalls
  <2>7. a \in Seq(Clear)
    BY <2>4 DEF ApsFrame
  <2> QED
    BY <2>3, <2>6, <2>7, Zenon
<1>4. CASE call.kind = "zcl"
  <2>1. PICK z : z = BuildZclCommandFrame({0}, Payload(call.size))
    OBVIOUS
  <2>2. PICK a : a = BuildApsDataFrame({}, 1, z)
    OBVIOUS
  <2>3. Psdu(call) = sendNwkData(When(z # <<>>, a))
    BY <1>4, <2>1, <2>2 DEF Psdu, sendZclCommand
  <2>4. z # <<>> /\ Psdu(call) = sendNwkData(a)
    BY <2>3, NoFrame, Zenon DEF When
  <2>5. z \in Seq(Clear)
    BY <1>1, <2>1, <2>4, ZclFrames, Zenon
  <2>6. ApsFrame(a, 1, z)
    <3>1. 1 \in Nat
      OBVIOUS
    <3> QED
      BY <2>2, <2>4, <2>5, <3>1, ApsFrames, NoFrame, Zenon
  <2>7. HeardAsMeant(call, a)
    BY <1>4, <2>1, <2>4, <2>6, ZclCalled
  <2>8. a \in Seq(Clear)
    BY <2>6 DEF ApsFrame
  <2> QED
    BY <2>4, <2>7, <2>8, Zenon
<1>5. CASE call.kind = "apsAck"
  <2>1. Psdu(call) = sendNwkData(BuildAckFrame)
    BY <1>5 DEF Psdu
  <2> QED
    BY <1>5, <2>1, AckHanded, AckCalled, Zenon
<1> QED
  BY <1>2, <1>3, <1>4, <1>5 DEF Relayed

\* A call without NWK security that is accepted sends an APS frame heard as the call meant it.
LEMMA UnsecuredCalls ==
  ASSUME NEW call \in Calls, call.kind = "unsecured", Psdu(call) # <<>>
  PROVE  \E a \in Seq(Clear) : Psdu(call) = sendNwkDataUnsecured(a) /\ HeardAsMeant(call, a)
<1>1. Payload(call.size) \in Seq(Clear)
  BY SizesOfCalls, PayloadBytes
<1>2. PICK app \in Nat : app = 1
  OBVIOUS
<1>3. PICK a : a = BuildApsDataFrame({}, app, Payload(call.size))
  OBVIOUS
<1>4. Psdu(call) = sendNwkDataUnsecured(a)
  BY <1>2, <1>3 DEF Psdu
<1>5. ApsFrame(a, app, Payload(call.size))
  BY <1>1, <1>3, <1>4, ApsFrames, NoFrame, Zenon
<1>6. app = IF call.kind = "zdo" THEN 0 ELSE 1
  BY <1>2
<1>7. HeardAsMeant(call, a)
  BY <1>3, <1>5, <1>6, ApsCalls
<1>8. a \in Seq(Clear)
  BY <1>5 DEF ApsFrame
<1> QED
  BY <1>4, <1>7, <1>8, Zenon

\* A frame whose call neither relays nor the route table concern.
LEMMA NeighbourCalls ==
  ASSUME NEW call \in Calls, call.kind \in MacKinds \cup {"nwkCommand"}, Psdu(call) # <<>>,
         NEW self
  PROVE  \E what, x : /\ feed(Psdu(call), self) = {<<self, what, x>>}
                      /\ MeantFor(call) = <<Target, what, x>>
                      /\ what = "nwkCommand" <=> call.kind = "nwkCommand"
                      /\ what = "beacon" <=> call.kind = "beacon"
                      /\ what = "macCommand" <=> call.kind \in MacKinds \ {"beacon"}
                      /\ what \in {"nwkCommand", "beacon", "macCommand"}
<1>1. Payload(call.size) \in Seq(Clear)
  BY SizesOfCalls, PayloadBytes
<1>2. CASE call.kind = "nwkCommand"
  <2>1. PICK x : x = Payload(call.size)
    OBVIOUS
  <2>2. Psdu(call) = sendNwkCommand(x) /\ MeantFor(call) = <<Target, "nwkCommand", x>>
    BY <1>2, <2>1 DEF Psdu, MeantFor
  <2>3. PICK p : Carries(p, {3, 0}, 9, x) /\ Arrives(sendNwkCommand(x), p)
    BY <1>1, <2>1, <2>2, CommandFrames, Zenon
  <2>4. feed(Psdu(call), self) = {<<self, "nwkCommand", x>>}
    BY <2>2, <2>3, CommandFed
  <2> QED
    BY <1>2, <2>2, <2>4 DEF MacKinds
<1>3. CASE call.kind = "beacon"
  <2>1. PICK x : x = Payload(call.size)
    OBVIOUS
  <2>2. Psdu(call) = sendBeacon(x) /\ MeantFor(call) = <<Target, "beacon", x>>
    BY <1>3, <2>1 DEF Psdu, MeantFor
  <2>3. feed(Psdu(call), self) = {<<self, "beacon", x>>}
    <3>1. MacHands(Psdu(call), "beacon", x)
      BY <1>1, <2>1, <2>2, BeaconFramesHanded, Zenon
    <3> QED
      BY <3>1, MacFed
  <2> QED
    BY <1>3, <2>2, <2>3 DEF MacKinds
<1>4. CASE call.kind = "associationRequest"
  <2>1. PICK x : x = U("capability", 1)
    OBVIOUS
  <2>2. Psdu(call) = sendAssociationRequest /\ MeantFor(call) = <<Target, "macCommand", x>>
    BY <1>4, <2>1 DEF Psdu, MeantFor
  <2>3. feed(Psdu(call), self) = {<<self, "macCommand", x>>}
    <3>1. MacHands(Psdu(call), "macCommand", x)
      BY <2>1, <2>2, AssociationRequestHanded, Zenon
    <3> QED
      BY <3>1, MacFed
  <2> QED
    BY <1>4, <2>2, <2>3 DEF MacKinds
<1>5. CASE call.kind = "associationResponse"
  <2>1. PICK x : x = U("assigned", 2) \o U("status", 1)
    OBVIOUS
  <2>2. Psdu(call) = sendAssociationResponse /\ MeantFor(call) = <<Target, "macCommand", x>>
    BY <1>5, <2>1 DEF Psdu, MeantFor
  <2>3. feed(Psdu(call), self) = {<<self, "macCommand", x>>}
    <3>1. MacHands(Psdu(call), "macCommand", x)
      BY <2>1, <2>2, AssociationResponseHanded, Zenon
    <3> QED
      BY <3>1, MacFed
  <2> QED
    BY <1>5, <2>2, <2>3 DEF MacKinds
<1>6. CASE call.kind = "beaconRequest"
  <2>2. Psdu(call) = sendBeaconRequest /\ MeantFor(call) = <<Target, "macCommand", <<>>>>
    BY <1>6 DEF Psdu, MeantFor
  <2>3. feed(Psdu(call), self) = {<<self, "macCommand", <<>>>>}
    <3>1. MacHands(Psdu(call), "macCommand", <<>>)
      BY <2>2, BeaconRequestHanded, Zenon
    <3> QED
      BY <3>1, MacFed
  <2> QED
    BY <1>6, <2>2, <2>3 DEF MacKinds
<1> QED
  BY <1>2, <1>3, <1>4, <1>5, <1>6 DEF MacKinds

\* The layers above the network layer call these callbacks and no others.
LEMMA UpperKinds ==
  ASSUME NEW a
  PROVE  \A u \in UpperLayers(a) : u[1] \in {"aps", "zdo", "zcl", "apsAck"}
<1>1. PICK x, z : x = Rest(a, ParseApsDataFrame(a)) /\ z = Rest(x, ParseZclFrame(x))
  <2>1. PICK x : x = Rest(a, ParseApsDataFrame(a))
    OBVIOUS
  <2> QED
    BY <2>1, Zenon
<1>2. UpperLayers(a) =
        (IF ParseAckFrame(a).ok THEN {<<"apsAck", <<>>>>} ELSE {})
          \cup (IF ~ParseApsDataFrame(a).ok THEN {}
                ELSE {<<"aps", x>>}
                       \cup (IF a[2].n = 0 /\ a[5].n = 0 THEN {<<"zdo", x>>} ELSE {})
                       \cup (IF ParseZclFrame(x).ok THEN {<<"zcl", z>>} ELSE {}))
  BY <1>1, Zenon DEF UpperLayers
<1>3. UpperLayers(a) \subseteq {<<"apsAck", <<>>>>, <<"aps", x>>, <<"zdo", x>>, <<"zcl", z>>}
  BY <1>2, Zenon
<1>4. \A u \in {<<"apsAck", <<>>>>, <<"aps", x>>, <<"zdo", x>>, <<"zcl", z>>} :
         u[1] \in {"aps", "zdo", "zcl", "apsAck"}
  OBVIOUS
<1> QED
  BY <1>3, <1>4, Zenon

\* The frame of a call between two nodes: the one the caller built, or, with a source
\* route, one over as many relays as before with the index of the relay it goes to.
OnItsWay(call) ==
  /\ call.kind = "sourceRouted" =>
       \E m \in Nat, i \in Nat :
         /\ Room(m, Payload(call.size))
         /\ air = sendNwkDataSourceRouted(m, i, Payload(call.size))
         /\ hop # Target => hop = i + 1 /\ i < m /\ (m > 8 => i = 0)
  /\ call.kind # "sourceRouted" => air = Psdu(call) /\ air # <<>>
  /\ hop # Target => call.kind \in Relayed \cup {"sourceRouted"}

\* OnlyTheAddressee of one thing handed up.
Rightly(h, call) ==
  /\ h[1] # Target => h[2] = "nwk"
  /\ h[2] = "zdo" => call.kind \in {"zdo", "sourceRouted"}
  /\ h[2] = "nwkCommand" <=> call.kind = "nwkCommand"
  /\ call.kind = "apsAck" => h[2] \in {"nwk", "apsAck"}
  /\ h[2] = "beacon" <=> call.kind = "beacon"
  /\ h[2] = "macCommand" <=> call.kind \in MacKinds \ {"beacon"}

\* A source-routed frame, at a relay and at the destination.
LEMMA RoutedHands ==
  ASSUME NEW call \in Calls, call.kind = "sourceRouted", OnItsWay(call)
  PROVE  /\ \A h \in feed(air, hop) : Rightly(h, call)
         /\ hop = Target => MeantFor(call) \in feed(air, hop)
<1>1. PICK x \in Seq(Clear) : x = Payload(call.size)
  BY SizesOfCalls, PayloadBytes
<1>2. PICK m \in Nat, i \in Nat : Room(m, x) /\ air = sendNwkDataSourceRouted(m, i, x)
  BY <1>1, Zenon DEF OnItsWay
<1>3. PICK p : Routes(p, m, i, x) /\ Arrives(air, p)
  BY <1>2, RoutedSends, Zenon
<1>4. /\ <<hop, "nwk", x>> \in feed(air, hop)
      /\ \A h \in feed(air, hop) :
               \/ h = <<hop, "nwk", x>>
               \/ hop = Target /\ \E u \in UpperLayers(x) : h = <<hop, u[1], u[2]>>
  <2>1. Routes(p, m, i, x) /\ Arrives(air, p)
    BY <1>3
  <2>2. PICK psdu, self : psdu = air /\ self = hop
    OBVIOUS
  <2>3. Arrives(psdu, p)
    BY <2>1, <2>2
  <2>4. /\ <<self, "nwk", x>> \in feed(psdu, self)
        /\ \A h \in feed(psdu, self) :
               \/ h = <<self, "nwk", x>>
               \/ self = Target /\ \E u \in UpperLayers(x) : h = <<self, u[1], u[2]>>
    BY <2>1, <2>3, RoutedFed
  <2> QED
    BY <2>2, <2>4, Zenon
<1>5. MeantFor(call) = <<Target, "nwk", x>>
  BY <1>1 DEF MeantFor
<1>6. hop = Target => MeantFor(call) \in feed(air, hop)
  BY <1>4, <1>5, Zenon
<1>7. ASSUME NEW h \in feed(air, hop)
      PROVE  Rightly(h, call)
  <2>1. CASE h = <<hop, "nwk", x>>
    <3>1. h[2] = "nwk"
      BY <2>1
    <3> QED
      BY <3>1 DEF Rightly, MacKinds
  <2>2. CASE hop = Target /\ \E u \in UpperLayers(x) : h = <<hop, u[1], u[2]>>
    <3>1. PICK u \in UpperLayers(x) : h = <<hop, u[1], u[2]>>
      BY <2>2
    <3>2. u[1] \in {"aps", "zdo", "zcl", "apsAck"}
      BY UpperKinds
    <3>3. h[1] = Target /\ h[2] = u[1]
      BY <2>2, <3>1
    <3> QED
      BY <3>2, <3>3 DEF Rightly, MacKinds
  <2> QED
    BY <1>4, <2>1, <2>2
<1> QED
  BY <1>6, <1>7

\* An APS frame, of a call that is heard as it is meant.
LEMMA DataHands ==
  ASSUME NEW call \in Calls, call.kind \in Relayed \cup {"unsecured"},
         NEW a, HeardAsMeant(call, a), NEW p, Carries(p, {3}, 8, a), Arrives(air, p)
  PROVE  /\ \A h \in feed(air, hop) : Rightly(h, call)
         /\ hop = Target => MeantFor(call) \in feed(air, hop)
<1>1. /\ \A h \in feed(air, hop) :
               \/ h = <<hop, "nwk", a>>
               \/ hop = Target /\ \E u \in UpperLayers(a) : h = <<hop, u[1], u[2]>>
      /\ hop = Target => \A u \in UpperLayers(a) : <<hop, u[1], u[2]>> \in feed(air, hop)
  BY DataFed, Zenon
<1>2. ASSUME NEW h \in feed(air, hop)
      PROVE  Rightly(h, call)
  <2>1. CASE h = <<hop, "nwk", a>>
    <3>1. h[2] = "nwk"
      BY <2>1
    <3> QED
      BY <3>1 DEF Rightly, MacKinds, Relayed
  <2>2. CASE hop = Target /\ \E u \in UpperLayers(a) : h = <<hop, u[1], u[2]>>
    <3>1. PICK u \in UpperLayers(a) : h = <<hop, u[1], u[2]>>
      BY <2>2
    <3>2. /\ u[1] \in {"aps", "zdo", "zcl", "apsAck"}
          /\ u[1] = "zdo" => call.kind = "zdo"
          /\ call.kind = "apsAck" => u[1] = "apsAck"
      BY Zenon DEF HeardAsMeant
    <3>3. h[1] = Target /\ h[2] = u[1]
      BY <2>2, <3>1
    <3> QED
      BY <3>2, <3>3 DEF Rightly, MacKinds, Relayed
  <2> QED
    BY <1>1, <2>1, <2>2
<1>3. ASSUME hop = Target
      PROVE  MeantFor(call) \in feed(air, hop)
  <2>1. PICK v : v = <<MeantFor(call)[2], MeantFor(call)[3]>> /\ v \in UpperLayers(a)
    BY Zenon DEF HeardAsMeant
  <2>2. <<hop, v[1], v[2]>> \in feed(air, hop)
    BY <1>1, <1>3, <2>1, Zenon
  <2>3. v[1] = MeantFor(call)[2] /\ v[2] = MeantFor(call)[3]
    BY <2>1
  <2>4. PICK x, y : MeantFor(call) = <<Target, x, y>>
    BY DEF MeantFor, Relayed
  <2>5. MeantFor(call)[2] = x /\ MeantFor(call)[3] = y
    BY <2>4
  <2> QED
    BY <1>3, <2>2, <2>3, <2>4, <2>5, Zenon
<1> QED
  BY <1>2, <1>3

\* What a node is handed is handed rightly, and the destination is handed what is meant for it.
LEMMA HandsRightly ==
  ASSUME NEW call \in Calls, OnItsWay(call)
  PROVE  /\ \A h \in feed(air, hop) : Rightly(h, call)
         /\ hop = Target => MeantFor(call) \in feed(air, hop)
<1>1. CASE call.kind = "sourceRouted"
  BY <1>1, RoutedHands
<1>2. CASE call.kind \in Relayed
  <2>1. air = Psdu(call) /\ air # <<>>
    BY <1>2 DEF OnItsWay, Relayed
  <2>2. PICK a \in Seq(Clear) : Psdu(call) = sendNwkData(a) /\ HeardAsMeant(call, a)
    BY <1>2, <2>1, RelayedCalls
  <2>3. PICK p : Carries(p, {3}, 8, a) /\ Arrives(air, p)
    BY <2>1, <2>2, DataFrames, Zenon
  <2> QED
    BY <1>2, <2>2, <2>3, DataHands
<1>3. CASE call.kind = "unsecured"
  <2>1. air = Psdu(call) /\ air # <<>>
    BY <1>3 DEF OnItsWay
  <2>2. PICK a \in Seq(Clear) : Psdu(call) = sendNwkDataUnsecured(a) /\ HeardAsMeant(call, a)
    BY <1>3, <2>1, UnsecuredCalls
  <2>3. PICK p : Carries(p, {3}, 8, a) /\ Arrives(air, p)
    BY <2>1, <2>2, DataFrames, Zenon
  <2> QED
    BY <1>3, <2>2, <2>3, DataHands
<1>4. CASE call.kind \in MacKinds \cup {"nwkCommand"}
  <2>1. air = Psdu(call) /\ air # <<>> /\ hop = Target
    BY <1>4 DEF OnItsWay, MacKinds, Relayed
  <2>2. PICK what, x :
          /\ feed(Psdu(call), hop) = {<<hop, what, x>>}
          /\ MeantFor(call) = <<Target, what, x>>
          /\ what = "nwkCommand" <=> call.kind = "nwkCommand"
          /\ what = "beacon" <=> call.kind = "beacon"
          /\ what = "macCommand" <=> call.kind \in MacKinds \ {"beacon"}
          /\ what \in {"nwkCommand", "beacon", "macCommand"}
    BY <1>4, <2>1, NeighbourCalls, Zenon
  <2>h. PICK h : h = <<hop, what, x>>
    OBVIOUS
  <2>3. h = <<hop, what, x>> /\ h[1] = hop /\ h[2] = what
    BY <2>h
  <2>4. feed(air, hop) = {h} /\ MeantFor(call) = h
    BY <2>1, <2>2, <2>3, Zenon
  <2>5. Rightly(h, call)
    BY <1>4, <2>1, <2>2, <2>3 DEF Rightly, MacKinds
  <2> QED
    BY <2>4, <2>5
<1> QED
  BY <1>1, <1>2, <1>3, <1>4, SizesOfCalls DEF Kinds, Relayed, MacKinds

\* The invariant: nobody has called, or a call's frame is on its way or done with, and
\* whatever was handed up so far was handed rightly.
StackInv ==
  /\ hop \in Nat
  /\ \/ asked = {} /\ hop = 0 /\ handed = {}
     \/ \E call \in Calls : /\ asked = {call}
                            /\ hop # 0 => OnItsWay(call)
                            /\ \A h \in handed : Rightly(h, call)

\* What a call and a relay send depends on the state only in the key.
LEMMA SameKey ==
  ASSUME keyed' = keyed
  PROVE  /\ \A call \in Calls : Psdu(call)' = Psdu(call)
         /\ \A m, x : Room(m, x)' <=> Room(m, x)
         /\ \A m, i, x : sendNwkDataSourceRouted(m, i, x)' = sendNwkDataSourceRouted(m, i, x)
<1>1. \A p : applyTxSecurity(p)' = applyTxSecurity(p)
  BY Zenon DEF applyTxSecurity
<1>2. ASSUME NEW m, NEW i, NEW x
      PROVE  sendNwkDataSourceRouted(m, i, x)' = sendNwkDataSourceRouted(m, i, x)
  BY Zenon DEF sendNwkDataSourceRouted, applyTxSecurity
<1>3. \A x : sendNwkData(x)' = sendNwkData(x)
  BY Zenon DEF sendNwkData, applyTxSecurity
<1>4. \A x : sendNwkCommand(x)' = sendNwkCommand(x)
  BY Zenon DEF sendNwkCommand, applyTxSecurity
<1>5. ASSUME NEW call \in Calls
      PROVE  Psdu(call)' = Psdu(call)
  BY Zenon DEF Psdu, sendZclCommand, sendApsData, sendZdoCommand, sendNwkDataUnsecured,
     sendNwkData, sendNwkCommand, sendNwkDataSourceRouted, applyTxSecurity
<1>6. ASSUME NEW m, NEW x
      PROVE  Room(m, x)' <=> Room(m, x)
  BY Zenon DEF Room
<1> QED
  BY <1>2, <1>5, <1>6, Zenon

\* The next hop is a relay of the route or the destination, and never nobody.
LEMMA NextHops ==
  ASSUME NEW i \in Nat, NEW n \in Nat
  PROVE  /\ NextHop(i, n) \in Nat /\ NextHop(i, n) # 0
         /\ NextHop(i, n) # Target => NextHop(i, n) = i + 1 /\ i < n
<1>1. Target \in Nat /\ Target # 0
  BY DEF Target
<1>2. CASE i < n
  <2>1. NextHop(i, n) = i + 1
    BY <1>2, Zenon DEF NextHop
  <2> QED
    BY <1>2, <2>1
<1>3. CASE ~(i < n)
  <2>1. NextHop(i, n) = Target
    BY <1>3, Zenon DEF NextHop
  <2> QED
    BY <1>1, <2>1
<1> QED
  BY <1>2, <1>3

\* A send call that succeeds puts its frame on the way.
LEMMA SendStarts ==
  ASSUME NEW call \in Calls, Send(call)
  PROVE  hop' \in Nat /\ (hop' # 0 => OnItsWay(call)')
<1>1. call.relays \in Nat /\ call.kind \in Kinds
  BY SizesOfCalls
<1>2. /\ air' = Psdu(call) /\ keyed' = keyed
      /\ hop' = IF Psdu(call) = <<>> THEN 0 ELSE NextHop(0, call.relays)
  BY Zenon DEF Send
<1>3. PICK z \in Nat : z = 0
  OBVIOUS
<1>4. /\ NextHop(z, call.relays) \in Nat /\ NextHop(z, call.relays) # 0
      /\ NextHop(z, call.relays) # Target => NextHop(z, call.relays) = z + 1 /\ z < call.relays
  BY <1>1, <1>3, NextHops
<1>5. hop' \in Nat
  <2>1. 0 \in Nat
    OBVIOUS
  <2> QED
    BY <1>2, <1>3, <1>4, <2>1, Zenon
<1>6. ASSUME hop' # 0
      PROVE  OnItsWay(call)'
  <2>1. Psdu(call) # <<>> /\ hop' = NextHop(z, call.relays)
    BY <1>2, <1>3, <1>6, Zenon
  <2>2. Psdu(call)' = Psdu(call)
    BY <1>2, SameKey
  <2>3. ASSUME hop' # Target
        PROVE  hop' = z + 1 /\ z < call.relays
    BY <1>4, <2>1, <2>3
  <2>4. ASSUME hop' # Target
        PROVE  call.kind \in Relayed \cup {"sourceRouted"}
    <3>1. call.relays # 0
      BY <1>1, <1>3, <2>3, <2>4
    <3>2. call.kind \notin MacKinds \cup {"nwkCommand", "unsecured"}
      BY <3>1, Zenon DEF Calls
    <3> QED
      BY <1>1, <3>2 DEF Kinds, Relayed
  <2>5. ASSUME call.kind = "sourceRouted"
        PROVE  /\ Room(call.relays, Payload(call.size))'
               /\ air' = sendNwkDataSourceRouted(call.relays, z, Payload(call.size))'
    <3>1. Psdu(call) = sendNwkDataSourceRouted(call.relays, z, Payload(call.size))
      BY <1>3, <2>5 DEF Psdu
    <3>2. Room(call.relays, Payload(call.size))
      <4>1. Payload(call.size) \in Seq(Clear)
        BY SizesOfCalls, PayloadBytes
      <4> QED
        BY <1>1, <2>1, <3>1, <4>1, RoutedSends
    <3>3. Room(call.relays, Payload(call.size))'
      BY <1>2, <3>2, SameKey, Zenon
    <3>4. sendNwkDataSourceRouted(call.relays, z, Payload(call.size))'
            = sendNwkDataSourceRouted(call.relays, z, Payload(call.size))
      BY <1>2, SameKey, Zenon
    <3> QED
      BY <1>2, <3>1, <3>3, <3>4, Zenon
  <2>6. ASSUME call.kind = "sourceRouted"
        PROVE  \E m \in Nat, i \in Nat :
                 /\ Room(m, Payload(call.size))'
                 /\ air' = sendNwkDataSourceRouted(m, i, Payload(call.size))'
                 /\ hop' # Target => hop' = i + 1 /\ i < m /\ (m > 8 => i = 0)
    <3>1. hop' # Target => hop' = z + 1 /\ z < call.relays /\ (call.relays > 8 => z = 0)
      BY <1>3, <2>3, Zenon
    <3> QED
      BY <1>1, <2>5, <2>6, <3>1, Zenon
  <2>7. call.kind # "sourceRouted" => air' = Psdu(call)' /\ air' # <<>>
    BY <1>2, <2>1, <2>2, Zenon
  <2> QED
    BY <2>4, <2>6, <2>7, Zenon DEF OnItsWay
<1> QED
  BY <1>5, <1>6

\* What a relay sends on, once it reads the frame and has somebody to send it to.
LEMMA RelayUnfolded ==
  ASSUME Relay, NEW p, p = Npdu(air), ParseNwkDataFrame(p).ok,
         NEW x, Rest(p, ParseNwkDataFrame(p)) = x,
         NEW next, next = IF 10 \in p[1].s THEN sourceRouteAction(p, hop)
                          ELSE NextHop(hop, (CHOOSE c \in asked : TRUE).relays),
         NEW psdu, psdu = IF 10 \in p[1].s
                          THEN sendNwkDataSourceRouted(IF p[9].n < 8 THEN p[9].n ELSE 8,
                                                       p[10].n + 1, x)
                          ELSE sendNwkData(x),
         next # 0, psdu # <<>>
  PROVE  air' = psdu /\ hop' = next
BY Zenon DEF Relay

\* A relay sends an APS frame on as it came.
LEMMA DataRelayed ==
  ASSUME NEW call \in Calls, asked = {call}, hop \in Nat, OnItsWay(call), Relay,
         call.kind # "sourceRouted"
  PROVE  hop' \in Nat /\ hop' # 0 /\ OnItsWay(call)'
<1>1. hop # Target /\ keyed' = keyed
  BY SizesAssumption DEF Relay
<1>2. call.kind \in Relayed /\ air = Psdu(call) /\ air # <<>> /\ call.relays \in Nat
  <2>1. call.kind \in Relayed /\ air = Psdu(call) /\ air # <<>>
    BY <1>1 DEF OnItsWay
  <2> QED
    BY <2>1, SizesOfCalls
<1>3. PICK a \in Seq(Clear) : Psdu(call) = sendNwkData(a)
  BY <1>2, RelayedCalls
<1>4. PICK p : Carries(p, {3}, 8, a) /\ Arrives(air, p)
  BY <1>2, <1>3, DataFrames, Zenon
<1>5. /\ ParseNwkDataFrame(p).ok /\ Rest(p, ParseNwkDataFrame(p)) = a /\ 10 \notin p[1].s
  BY <1>4, DataParsed
<1>6. p = Npdu(air)
  BY <1>4, Zenon DEF Arrives
<1>7. (CHOOSE c \in asked : TRUE) = call
  OBVIOUS
<1>8. PICK next : next = NextHop(hop, call.relays)
  OBVIOUS
<1>9. next \in Nat /\ next # 0
  BY <1>2, <1>8, NextHops
<1>10. air' = air /\ hop' = next
  <2>1. next = IF 10 \in p[1].s THEN sourceRouteAction(p, hop)
               ELSE NextHop(hop, (CHOOSE c \in asked : TRUE).relays)
    BY <1>5, <1>7, <1>8, Zenon
  <2>2. air = IF 10 \in p[1].s
              THEN sendNwkDataSourceRouted(IF p[9].n < 8 THEN p[9].n ELSE 8, p[10].n + 1, a)
              ELSE sendNwkData(a)
    BY <1>2, <1>3, <1>5, Zenon
  <2> QED
    BY <1>2, <1>5, <1>6, <1>9, <2>1, <2>2, RelayUnfolded, Zenon
<1>11. Psdu(call)' = Psdu(call)
  BY <1>1, SameKey
<1>12. OnItsWay(call)'
  <2>1. air' = Psdu(call)' /\ air' # <<>>
    BY <1>2, <1>10, <1>11, Zenon
  <2> QED
    BY <1>2, <2>1, Zenon DEF OnItsWay
<1> QED
  BY <1>9, <1>10, <1>12

\* A relay sends a source-routed frame on with the index of the next relay.
LEMMA RouteRelayed ==
  ASSUME NEW call \in Calls, asked = {call}, hop \in Nat, OnItsWay(call), Relay,
         call.kind = "sourceRouted"
  PROVE  hop' \in Nat /\ hop' # 0 /\ OnItsWay(call)'
<1>1. hop # Target /\ keyed' = keyed
  BY SizesAssumption DEF Relay
<1>2. PICK x \in Seq(Clear) : x = Payload(call.size)
  BY SizesOfCalls, PayloadBytes
<1>3. PICK m \in Nat, i \in Nat : /\ Room(m, x) /\ air = sendNwkDataSourceRouted(m, i, x)
                                  /\ hop = i + 1 /\ i < m /\ (m > 8 => i = 0)
  BY <1>1, <1>2, Zenon DEF OnItsWay
<1>4. PICK p : Routes(p, m, i, x) /\ Arrives(air, p)
  BY <1>3, RoutedSends, Zenon
<1>5. ParseNwkDataFrame(p).ok /\ Rest(p, ParseNwkDataFrame(p)) = x /\ 10 \in p[1].s
  BY <1>4, RoutedParsed
<1>6. p = Npdu(air)
  BY <1>4, Zenon DEF Arrives
<1>7. p[9].n = m /\ p[10].n = i /\ p[10 + 2 * i + 1].k = hop
  <2>1. p[9].n = m /\ p[10].n = i /\ \A k \in 1 .. m : p[10 + 2 * (k - 1) + 1].k = k
    BY <1>4, Zenon DEF Routes
  <2>2. PICK k \in 1 .. m : k = i + 1
    BY <1>3
  <2>3. p[10 + 2 * (k - 1) + 1].k = k
    BY <2>1
  <2>4. k - 1 = i
    BY <2>2
  <2>5. p[10 + 2 * i + 1].k = k
    BY <2>3, <2>4, Zenon
  <2> QED
    BY <1>3, <2>1, <2>2, <2>5, Zenon
<1>8. PICK j \in Nat : j = i + 1
  OBVIOUS
<1>9. PICK w \in Nat : w = IF m < 8 THEN m ELSE 8
  OBVIOUS
<1>10. PICK next : next = NextHop(j, m)
  OBVIOUS
<1>11. /\ next \in Nat /\ next # 0
       /\ next # Target => next = j + 1 /\ j < m
  BY <1>8, <1>10, NextHops
<1>12. sourceRouteAction(p, hop) = next
  <2>1. sourceRouteAction(p, hop) = IF i < m /\ p[10 + 2 * i + 1].k = hop
                                    THEN NextHop(i + 1, m) ELSE 0
    BY <1>7, Zenon DEF sourceRouteAction
  <2> QED
    BY <1>3, <1>7, <1>8, <1>10, <2>1, Zenon
<1>13. PICK psdu : psdu = sendNwkDataSourceRouted(w, j, x)
  OBVIOUS
<1>14. Room(w, x) /\ psdu # <<>>
  <2>1. Room(w, x)
    BY <1>3, <1>9, RoomLeft, Zenon
  <2> QED
    BY <1>13, <2>1, RoutedSends
<1>15. air' = psdu /\ hop' = next
  <2>1. next = IF 10 \in p[1].s THEN sourceRouteAction(p, hop)
               ELSE NextHop(hop, (CHOOSE c \in asked : TRUE).relays)
    BY <1>5, <1>12, Zenon
  <2>2. psdu = IF 10 \in p[1].s
               THEN sendNwkDataSourceRouted(IF p[9].n < 8 THEN p[9].n ELSE 8, p[10].n + 1, x)
               ELSE sendNwkData(x)
    BY <1>5, <1>7, <1>8, <1>9, <1>13, Zenon
  <2> QED
    BY <1>5, <1>6, <1>11, <1>14, <2>1, <2>2, RelayUnfolded, Zenon
<1>16. Room(w, x)' /\ sendNwkDataSourceRouted(w, j, x)' = sendNwkDataSourceRouted(w, j, x)
  BY <1>1, <1>14, SameKey, Zenon
<1>17. hop' # Target => hop' = j + 1 /\ j < w /\ (w > 8 => j = 0)
  BY <1>3, <1>8, <1>9, <1>11, <1>15
<1>18. OnItsWay(call)'
  <2>1. /\ Room(w, Payload(call.size))'
        /\ air' = sendNwkDataSourceRouted(w, j, Payload(call.size))'
    <3>1. Room(w, Payload(call.size))'
      BY <1>2, <1>14, <1>1, SameKey, Zenon
    <3>2. sendNwkDataSourceRouted(w, j, Payload(call.size))'
            = sendNwkDataSourceRouted(w, j, Payload(call.size))
      BY <1>1, SameKey, Zenon
    <3> QED
      BY <1>2, <1>13, <1>15, <3>1, <3>2, Zenon
  <2> QED
    BY <1>17, <2>1, Zenon DEF OnItsWay
<1> QED
  BY <1>11, <1>15, <1>18

\* A relay never refuses a frame that is on its way.
LEMMA RelayStep ==
  ASSUME NEW call \in Calls, asked = {call}, hop \in Nat, OnItsWay(call), Relay
  PROVE  hop' \in Nat /\ hop' # 0 /\ OnItsWay(call)'
BY DataRelayed, RouteRelayed

\* The invariant holds at the start.
LEMMA StackInvStarts == StackInit => StackInv
BY DEF StackInit, StackInv

\* Every step of the stack keeps the invariant.
LEMMA StackInvKept == StackInv /\ [StackNext]_stackVars => StackInv'
<1> SUFFICES ASSUME StackInv, [StackNext]_stackVars
             PROVE  StackInv'
  OBVIOUS
<1>1. ASSUME NEW call \in Calls, Send(call)
      PROVE  StackInv'
  <2>1. hop' \in Nat /\ (hop' # 0 => OnItsWay(call)')
    BY <1>1, SendStarts
  <2>2. asked' = {call} /\ handed' = {}
    BY <1>1 DEF Send, StackInv
  <2> QED
    BY <2>1, <2>2 DEF StackInv
<1>2. ASSUME Relay \/ Arrive
      PROVE  StackInv'
  <2>1. hop \in Nat /\ hop # 0
    BY <1>2, SizesAssumption DEF Relay, Arrive, Target
  <2>2. PICK call \in Calls : asked = {call} /\ OnItsWay(call) /\ \A h \in handed : Rightly(h, call)
    BY <2>1 DEF StackInv
  <2>3. \A h \in feed(air, hop) : Rightly(h, call)
    BY <2>2, HandsRightly
  <2>4. asked' = {call} /\ handed' = handed \cup feed(air, hop)
    BY <1>2, <2>2 DEF Relay, Arrive
  <2>5. \A h \in handed' : Rightly(h, call)
    BY <2>2, <2>3, <2>4
  <2>6. hop' \in Nat /\ (hop' # 0 => OnItsWay(call)')
    <3>1. CASE Relay
      BY <2>1, <2>2, <3>1, RelayStep
    <3>2. CASE Arrive
      BY <3>2 DEF Arrive
    <3> QED
      BY <1>2, <3>1, <3>2
  <2> QED
    BY <2>4, <2>5, <2>6, Zenon DEF StackInv, Rightly
<1>3. ASSUME UNCHANGED stackVars
      PROVE  StackInv'
  <2>1. keyed' = keyed /\ asked' = asked /\ air' = air /\ hop' = hop /\ handed' = handed
    BY <1>3 DEF stackVars
  <2>2. ASSUME NEW call \in Calls, OnItsWay(call)
        PROVE  OnItsWay(call)'
    <3>1. /\ Psdu(call)' = Psdu(call)
          /\ \A m, x : Room(m, x)' <=> Room(m, x)
          /\ \A m, i, x : sendNwkDataSourceRouted(m, i, x)' = sendNwkDataSourceRouted(m, i, x)
      BY <2>1, SameKey
    <3> QED
      BY <2>1, <2>2, <3>1, Zenon DEF OnItsWay
  <2>3. \A call \in Calls : OnItsWay(call) => OnItsWay(call)'
    BY <2>2
  <2> QED
    BY <2>1, <2>3 DEF StackInv
<1> QED
  BY <1>1, <1>2, <1>3 DEF StackNext

\* The invariant holds in every state.
LEMMA StackInvAlways == StackSpec => []StackInv
BY StackInvStarts, StackInvKept, PTL DEF StackSpec

\* A relay hands nothing up above the network layer, and the destination takes no frame for
\* one of another kind, for payloads of every size and any number of relays.
THEOREM OnlyTheAddresseeAlways == StackSpec => []OnlyTheAddressee
<1>1. StackInv => OnlyTheAddressee
  BY DEF StackInv, OnlyTheAddressee, Rightly
<1> QED
  BY <1>1, StackInvAlways, PTL

\* A call that was accepted ends at the handler it is meant for, with the caller's payload:
\* no relay refuses what the sender could build, and nothing on the way changes it.
THEOREM AcceptedReachesHandlerAlways == StackSpec => AcceptedReachesHandler
<1>1. ASSUME StackInv, StackNext, hop # 0, hop' = 0, NEW c \in asked
      PROVE  MeantFor(c) \in handed'
  <2>1. PICK call \in Calls : asked = {call} /\ OnItsWay(call)
    BY <1>1 DEF StackInv
  <2>2. c = call /\ hop \in Nat
    BY <1>1, <2>1 DEF StackInv
  <2>3. ~Relay
    BY <1>1, <2>1, <2>2, RelayStep
  <2>4. Arrive
    BY <1>1, <2>1, <2>3 DEF StackNext, Send
  <2>5. MeantFor(call) \in feed(air, hop) /\ handed' = handed \cup feed(air, hop)
    BY <2>1, <2>4, HandsRightly DEF Arrive
  <2> QED
    BY <2>2, <2>5
<1>2. StackInv /\ [StackNext]_stackVars
        => [hop # 0 /\ hop' = 0 => \A call \in asked : MeantFor(call) \in handed']_stackVars
  BY <1>1
<1> QED
  BY <1>2, StackInvAlways, PTL DEF StackSpec, AcceptedReachesHandler
=============================================================================
