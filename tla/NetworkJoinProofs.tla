-------------------------- MODULE NetworkJoinProofs --------------------------
(***************************************************************************)
(* Proofs about NetworkJoin, for any set of parents, any number of         *)
(* attempts and any bounds.  Every step of the device keeps the inductive  *)
(* invariant; the safety properties of the runs follow from it.            *)
(***************************************************************************)
EXTENDS NetworkJoin, TLAPS

\* The part of the invariant that says who was chosen, and by whom.
Choice ==
  /\ state = "off" \/ ~scanReady => requests = {} /\ responses = {}
  /\ ~scanReady => chosen = None
  /\ scanReady /\ state \in {"joining", "joined"} => chosen # None
  /\ requests \union responses # {} => chosen # None

\* The Boolean part of the types.
Flags ==
  /\ announced \in BOOLEAN
  /\ scanReady \in BOOLEAN
  /\ told \in BOOLEAN
  /\ savedTold \in BOOLEAN

\* The invariant is made of these four parts.
LEMMA InvParts == IndInv <=> /\ TypeOK
                             /\ Choice
                             /\ NeverJoinedToNobody
                             /\ AnnounceLostOnlyByEarlySave
BY DEF IndInv, Choice

(***************************************************************************)
(* What a scan leaves behind: the device scans, or it is joining the       *)
(* parent it chose.                                                        *)
(***************************************************************************)
LEMMA ScanResult ==
  ASSUME TypeOK, NEW heard \in SUBSET Parents, Scan(heard)
  PROVE  /\ state' \in {"scanning", "joining"}
         /\ addr' = None
         /\ parent' \in Parents \union {None}
         /\ chosen' \in Parents \union {None}
         /\ state' = "joining" => chosen' \in Parents
         /\ ~scanReady => chosen' = chosen
         /\ chosen # None => chosen' # None
<1>1. CASE heard = {}
  <2>1. state' = "scanning" /\ parent' = None /\ UNCHANGED chosen
    BY <1>1 DEF Scan
  <2> QED BY <2>1 DEF Scan, TypeOK
<1>2. CASE heard # {}
  <2>1. scanReady
    BY <1>2 DEF Scan
  <2>2. PICK p \in heard : chosen' = p /\ state' = "joining" /\ parent' = p
    BY <1>2 DEF Scan
  <2>3. p \in Parents /\ p # None
    BY ParentAssumption
  <2> QED BY <2>1, <2>2, <2>3 DEF Scan
<1> QED BY <1>1, <1>2

\* The invariant holds at the start.
LEMMA InitInv == Init => IndInv
<1> SUFFICES ASSUME Init PROVE IndInv
  OBVIOUS
<1>1. Flags
  BY DEF Init, Flags
<1>2. TypeOK
  BY <1>1, AttemptAssumption, BoundAssumption DEF Init, TypeOK, Flags, States
<1>3. Choice /\ NeverJoinedToNobody
  BY DEF Init, Choice, NeverJoinedToNobody
<1>4. AnnounceLostOnlyByEarlySave
  BY DEF Init, AnnounceLostOnlyByEarlySave
<1> QED BY <1>2, <1>3, <1>4, InvParts

\* A step that changes nothing keeps the invariant.
LEMMA StutterInv == IndInv /\ UNCHANGED vars => IndInv'
BY DEF vars, network, watch, stored, environment, IndInv, TypeOK,
   NeverJoinedToNobody, AnnounceLostOnlyByEarlySave

(***************************************************************************)
(* Types.                                                                  *)
(***************************************************************************)
LEMMA TypeStep == TypeOK /\ Choice /\ NeverJoinedToNobody /\ Next => TypeOK'
<1> SUFFICES ASSUME TypeOK, Choice, NeverJoinedToNobody, Next PROVE TypeOK'
  OBVIOUS
<1> USE AttemptAssumption, BoundAssumption
<1>1. CASE BootFresh
  <2>1. Flags'
    BY <1>1 DEF BootFresh, TypeOK, Flags, stored
  <2> QED BY <1>1, <2>1 DEF BootFresh, ColdVariables, TypeOK, Flags, States, stored, environment
<1>2. CASE BootRestored
  <2>1. Flags'
    BY <1>2 DEF BootRestored, TypeOK, Flags, stored
  <2>2. flash.addr \in Parents /\ flash.parent \in Parents
    BY <1>2 DEF BootRestored, TypeOK, Identity
  <2>3. state' \in States /\ attempts' \in 0 .. MaxAttempts
    BY <1>2 DEF BootRestored, ColdVariables, States
  <2> QED
    BY <1>2, <2>1, <2>2, <2>3
    DEF BootRestored, ColdVariables, TypeOK, Flags, stored, environment
<1>3. CASE Crash
  BY <1>3 DEF Crash, TypeOK, States, watch, stored
<1>4. ASSUME NEW heard \in SUBSET Parents, RunActiveScan(heard) PROVE TypeOK'
  <2>1. Scan(heard) /\ attempts' \in 0 .. MaxAttempts
    BY <1>4 DEF RunActiveScan, ScanWhileUnjoined, ScanAfterAttempts, TypeOK
  <2>2. state' \in States /\ addr' \in Parents \union {None}
        /\ parent' \in Parents \union {None} /\ chosen' \in Parents \union {None}
    BY <2>1, ScanResult DEF States
  <2> QED BY <1>4, <2>1, <2>2 DEF RunActiveScan, TypeOK, watch, stored, environment
<1>5. ASSUME NEW heard \in SUBSET Parents, RepairByScan(heard) PROVE TypeOK'
  <2>1. state' \in States /\ addr' \in Parents \union {None}
        /\ parent' \in Parents \union {None} /\ chosen' \in Parents \union {None}
    BY <1>5, ScanResult DEF RepairByScan, States
  <2> QED BY <1>5, <2>1 DEF RepairByScan, TypeOK, stored, environment
<1>6. CASE Associate
  <2>1. chosen \in Parents \union {None} /\ requests \subseteq Parents
    BY DEF TypeOK
  <2>2. requests' \subseteq Parents
    BY <1>6, <2>1 DEF Associate
  <2>3. attempts' \in 0 .. MaxAttempts
    BY <1>6 DEF Associate, AttemptsUsedUp, NextAttempt, TypeOK
  <2> QED BY <1>6, <2>2, <2>3 DEF Associate, TypeOK, watch, stored, environment
<1>7. ASSUME NEW p \in Parents, Answer(p) PROVE TypeOK'
  BY <1>7 DEF Answer, TypeOK, network, watch, stored, environment
<1>8. ASSUME NEW p \in Parents, OnAssociationResponse(p) PROVE TypeOK'
  <2>1. responses' \subseteq Parents
    BY <1>8 DEF OnAssociationResponse, TypeOK
  <2>2. CASE Accepts
    <3>1. Flags'
      BY <1>8, <2>2 DEF OnAssociationResponse, TypeOK, Flags, stored
    <3> QED
      BY <1>8, <2>1, <2>2, <3>1
      DEF OnAssociationResponse, TypeOK, Flags, States, stored, environment
  <2>3. CASE ~Accepts
    BY <1>8, <2>1, <2>3 DEF OnAssociationResponse, TypeOK, watch, stored, environment
  <2> QED BY <2>2, <2>3
<1>9. CASE Announce
  BY <1>9 DEF Announce, TypeOK, network, watch, stored, environment
<1>10. CASE SaveState
  <2>1. flash' \in Identity /\ savedTold' \in BOOLEAN
    BY <1>10 DEF SaveState, MaySave, Identity, TypeOK, NeverJoinedToNobody
  <2> QED BY <1>10, <2>1 DEF SaveState, TypeOK, network, watch, environment
<1>11. CASE HearParent
  BY <1>11 DEF HearParent, TypeOK, network, stored, environment
<1>12. CASE EntryGetsStale
  BY <1>12 DEF EntryGetsStale, TypeOK, network, stored, environment
<1>13. CASE RecycleParentEntry
  BY <1>13 DEF RecycleParentEntry, TypeOK, network, stored, environment
<1>14. CASE AgeNeighbors
  BY <1>14 DEF AgeNeighbors, TypeOK, States, watch, stored, environment
<1>15. CASE DeliverySucceeds
  BY <1>15 DEF DeliverySucceeds, TypeOK, network, stored, environment
<1>16. CASE DeliveriesStall
  BY <1>16 DEF DeliveriesStall, TypeOK, network, stored, environment
<1>17. ASSUME NEW p \in Parents, ParentMoves(p) PROVE TypeOK'
  <2>1. up' \subseteq Parents /\ moves' \in 0 .. MaxMoves
    BY <1>17 DEF ParentMoves, TypeOK
  <2> QED BY <1>17, <2>1 DEF ParentMoves, TypeOK, network, watch, stored
<1>18. ASSUME NEW p \in Parents, LoseFrame(p) PROVE TypeOK'
  <2>1. requests' \subseteq Parents /\ responses' \subseteq Parents
    BY <1>18 DEF LoseFrame, TypeOK
  <2> QED BY <1>18, <2>1 DEF LoseFrame, TypeOK, network, watch, stored, environment
<1> QED
  BY <1>1, <1>2, <1>3, <1>4, <1>5, <1>6, <1>7, <1>8, <1>9, <1>10, <1>11, <1>12,
     <1>13, <1>14, <1>15, <1>16, <1>17, <1>18 DEF Next

(***************************************************************************)
(* Choices.  A restored device has chosen nobody, so it never sends an     *)
(* association request that could be answered.                             *)
(***************************************************************************)
LEMMA ChoiceStep == TypeOK /\ Choice /\ Next => Choice'
<1> SUFFICES ASSUME TypeOK, Choice, Next PROVE Choice'
  OBVIOUS
<1> USE ParentAssumption
<1>1. CASE BootFresh
  BY <1>1 DEF BootFresh, ColdVariables, Choice
<1>2. CASE BootRestored
  BY <1>2 DEF BootRestored, ColdVariables, Choice
<1>3. CASE Crash
  BY <1>3 DEF Crash, Choice
<1>4. ASSUME NEW heard \in SUBSET Parents, RunActiveScan(heard) \/ RepairByScan(heard)
      PROVE  Choice'
  <2>1. Scan(heard) /\ UNCHANGED <<scanReady, requests, responses>>
    BY <1>4 DEF RunActiveScan, RepairByScan, ScanWhileUnjoined, ScanAfterAttempts
  <2>2. state # "off"
    BY <1>4 DEF RunActiveScan, RepairByScan, ScanWhileUnjoined, ScanAfterAttempts
  <2>3. /\ state' \in {"scanning", "joining"}
        /\ state' = "joining" => chosen' # None
        /\ ~scanReady => chosen' = chosen
        /\ chosen # None => chosen' # None
    BY <2>1, ScanResult
  <2> QED BY <2>1, <2>2, <2>3 DEF Choice
<1>5. CASE Associate
  BY <1>5 DEF Associate, Choice, TypeOK
<1>6. ASSUME NEW p \in Parents, Answer(p) PROVE Choice'
  BY <1>6 DEF Answer, Choice, network
<1>7. ASSUME NEW p \in Parents, OnAssociationResponse(p) PROVE Choice'
  <2>1. p \in responses /\ responses' \subseteq responses
    BY <1>7 DEF OnAssociationResponse
  <2>2. UNCHANGED <<chosen, scanReady, requests>>
    BY <1>7 DEF OnAssociationResponse
  <2>3. chosen # None /\ scanReady /\ state # "off"
    BY <2>1 DEF Choice
  <2>4. state' # "off"
    BY <1>7, <2>3 DEF OnAssociationResponse
  <2> QED BY <2>1, <2>2, <2>3, <2>4 DEF Choice
<1>8. CASE Announce \/ SaveState \/ HearParent \/ RecycleParentEntry \/ DeliverySucceeds
  <2>1. UNCHANGED <<state, chosen, scanReady, requests, responses>>
    BY <1>8 DEF Announce, SaveState, HearParent, RecycleParentEntry, DeliverySucceeds,
                network
  <2> QED BY <2>1 DEF Choice
<1>9. CASE EntryGetsStale \/ DeliveriesStall
  <2>1. UNCHANGED <<state, chosen, scanReady>> /\ requests' = {} /\ responses' = {}
    BY <1>9 DEF EntryGetsStale, DeliveriesStall, network
  <2> QED BY <2>1 DEF Choice
<1>10. CASE AgeNeighbors
  BY <1>10 DEF AgeNeighbors, Choice
<1>11. ASSUME NEW p \in Parents, ParentMoves(p) PROVE Choice'
  BY <1>11 DEF ParentMoves, network, Choice
<1>12. ASSUME NEW p \in Parents, LoseFrame(p) PROVE Choice'
  <2>1. requests' \subseteq requests /\ responses' \subseteq responses
    BY <1>12 DEF LoseFrame
  <2> QED BY <1>12, <2>1 DEF LoseFrame, network, Choice
<1> QED
  BY <1>1, <1>2, <1>3, <1>4, <1>5, <1>6, <1>7, <1>8, <1>9, <1>10, <1>11, <1>12 DEF Next

(***************************************************************************)
(* A device becomes joined by a restored identity or by a response that it *)
(* accepts; in the second case it has chosen a parent.                     *)
(***************************************************************************)
LEMMA IdentityStep ==
  TypeOK /\ Choice /\ NeverJoinedToNobody /\ Next => NeverJoinedToNobody'
<1> SUFFICES ASSUME TypeOK, Choice, NeverJoinedToNobody, Next, state' = "joined"
             PROVE  addr' # None /\ parent' # None
  BY DEF NeverJoinedToNobody
<1> USE ParentAssumption
<1>1. CASE BootRestored
  BY <1>1 DEF BootRestored, TypeOK, Identity
<1>2. ASSUME NEW p \in Parents, OnAssociationResponse(p)
      PROVE  addr' # None /\ parent' # None
  <2>1. chosen # None
    BY <1>2 DEF OnAssociationResponse, Choice
  <2> QED BY <1>2, <2>1 DEF OnAssociationResponse, NeverJoinedToNobody
<1>3. ASSUME NEW heard \in SUBSET Parents, RunActiveScan(heard) \/ RepairByScan(heard)
      PROVE  FALSE
  BY <1>3, ScanResult DEF RunActiveScan, RepairByScan, ScanWhileUnjoined, ScanAfterAttempts
<1>4. CASE BootFresh \/ Crash \/ AgeNeighbors
  BY <1>4 DEF BootFresh, Crash, AgeNeighbors
<1>5. CASE \/ Associate \/ Announce \/ SaveState \/ HearParent \/ EntryGetsStale
           \/ RecycleParentEntry \/ DeliverySucceeds \/ DeliveriesStall
           \/ \E p \in Parents : Answer(p) \/ ParentMoves(p) \/ LoseFrame(p)
  <2>1. UNCHANGED <<state, addr, parent>>
    BY <1>5 DEF Associate, Announce, SaveState, HearParent, EntryGetsStale,
                RecycleParentEntry, DeliverySucceeds, DeliveriesStall, Answer,
                ParentMoves, LoseFrame, network
  <2> QED BY <2>1 DEF NeverJoinedToNobody
<1> QED BY <1>1, <1>2, <1>3, <1>4, <1>5 DEF Next

(***************************************************************************)
(* announced is only set by the broadcast itself, or by setup().           *)
(***************************************************************************)
LEMMA AnnounceStep ==
  TypeOK /\ Choice /\ AnnounceLostOnlyByEarlySave /\ Next => AnnounceLostOnlyByEarlySave'
<1> SUFFICES ASSUME TypeOK, Choice, AnnounceLostOnlyByEarlySave, Next,
                    state' = "joined", announced', ~told'
             PROVE  ~scanReady' /\ ~savedTold'
  BY DEF AnnounceLostOnlyByEarlySave
<1>1. CASE BootRestored
  BY <1>1 DEF BootRestored, stored
<1>2. ASSUME NEW p \in Parents, OnAssociationResponse(p)
      PROVE  ~scanReady' /\ ~savedTold'
  <2>1. ~Accepts
    BY <1>2 DEF OnAssociationResponse
  <2> QED BY <1>2, <2>1 DEF OnAssociationResponse, AnnounceLostOnlyByEarlySave, stored
<1>3. ASSUME NEW heard \in SUBSET Parents, RunActiveScan(heard) \/ RepairByScan(heard)
      PROVE  FALSE
  BY <1>3, ScanResult DEF RunActiveScan, RepairByScan, ScanWhileUnjoined, ScanAfterAttempts
<1>4. CASE BootFresh \/ Crash \/ AgeNeighbors \/ Announce
  BY <1>4 DEF BootFresh, Crash, AgeNeighbors, Announce
<1>5. CASE SaveState
  BY <1>5 DEF SaveState, network, AnnounceLostOnlyByEarlySave
<1>6. CASE \/ Associate \/ HearParent \/ EntryGetsStale
           \/ RecycleParentEntry \/ DeliverySucceeds \/ DeliveriesStall
           \/ \E p \in Parents : Answer(p) \/ ParentMoves(p) \/ LoseFrame(p)
  <2>1. UNCHANGED <<state, announced, scanReady, told, savedTold>>
    BY <1>6 DEF Associate, HearParent, EntryGetsStale, RecycleParentEntry,
                DeliverySucceeds, DeliveriesStall, Answer, ParentMoves, LoseFrame,
                network, stored
  <2> QED BY <2>1 DEF AnnounceLostOnlyByEarlySave
<1> QED BY <1>1, <1>2, <1>3, <1>4, <1>5, <1>6 DEF Next

\* Every step keeps the invariant.
LEMMA NextInv == IndInv /\ [Next]_vars => IndInv'
<1>1. IndInv /\ Next => IndInv'
  BY InvParts, TypeStep, ChoiceStep, IdentityStep, AnnounceStep
  DEF IndInv, Choice
<1> QED BY <1>1, StutterInv

(***************************************************************************)
(* The inductive invariant of the joiner holds in every reachable state:   *)
(* a restored device has nobody it could associate with.                   *)
(***************************************************************************)
THEOREM IndInvariant == Spec => []IndInv
BY InitInv, NextInv, PTL DEF Spec

(***************************************************************************)
(* A device that takes itself for joined has an address and a parent.      *)
(***************************************************************************)
THEOREM JoinedToSomebody == Spec => []NeverJoinedToNobody
<1>1. IndInv => NeverJoinedToNobody
  BY DEF IndInv
<1> QED BY <1>1, IndInvariant, PTL

(***************************************************************************)
(* The announcement of an identity is skipped only after a restore from a  *)
(* copy that was saved before it.                                          *)
(***************************************************************************)
THEOREM AnnouncedOrSavedEarly == Spec => []AnnounceLostOnlyByEarlySave
<1>1. IndInv => AnnounceLostOnlyByEarlySave
  BY DEF IndInv
<1> QED BY <1>1, IndInvariant, PTL

(***************************************************************************)
(* No step takes a joined device to another address or parent: only an     *)
(* accepted response and setup() set them, and both start unjoined.        *)
(***************************************************************************)
LEMMA IdentityKept ==
  TypeOK /\ Next /\ state = "joined" /\ state' = "joined" => addr' = addr /\ parent' = parent
<1> SUFFICES ASSUME TypeOK, Next, state = "joined", state' = "joined"
             PROVE  addr' = addr /\ parent' = parent
  OBVIOUS
<1>1. CASE BootFresh \/ BootRestored \/ Crash \/ AgeNeighbors
  BY <1>1 DEF BootFresh, BootRestored, Crash, AgeNeighbors
<1>2. ASSUME NEW p \in Parents, OnAssociationResponse(p)
      PROVE  addr' = addr /\ parent' = parent
  BY <1>2 DEF OnAssociationResponse, Accepts
<1>3. ASSUME NEW heard \in SUBSET Parents, RunActiveScan(heard) \/ RepairByScan(heard)
      PROVE  FALSE
  BY <1>3, ScanResult DEF RunActiveScan, RepairByScan, ScanWhileUnjoined, ScanAfterAttempts
<1>4. CASE \/ Associate \/ Announce \/ SaveState \/ HearParent \/ EntryGetsStale
           \/ RecycleParentEntry \/ DeliverySucceeds \/ DeliveriesStall
           \/ \E p \in Parents : Answer(p) \/ ParentMoves(p) \/ LoseFrame(p)
  BY <1>4 DEF Associate, Announce, SaveState, HearParent, EntryGetsStale,
              RecycleParentEntry, DeliverySucceeds, DeliveriesStall, Answer,
              ParentMoves, LoseFrame, network
<1> QED BY <1>1, <1>2, <1>3, <1>4 DEF Next

(***************************************************************************)
(* While a device stays joined, neither its address nor its parent change. *)
(***************************************************************************)
THEOREM JoinedIdentityStable == Spec => IdentityStable
<1>1. IndInv /\ [Next]_vars =>
        [state = "joined" /\ state' = "joined" => addr' = addr /\ parent' = parent]_vars
  BY IdentityKept DEF IndInv
<1> QED BY <1>1, IndInvariant, PTL DEF Spec, IdentityStable
=============================================================================
