----------------------------- MODULE NetworkJoin -----------------------------
(***************************************************************************)
(* One device that joins the network, loses its parent and joins again:    *)
(* the joiner's half of ZigbeeNetwork with the scan, association, ageing,  *)
(* route repair and persistence of CC2530_BeaconJoin.  Its potential       *)
(* parents come and go, frames are lost, and the device may crash.         *)
(*                                                                         *)
(* An address is represented by the parent that leased it, and the time    *)
(* thresholds of the sketch by the steps that pass them (EntryGetsStale,   *)
(* DeliveriesStall, the free choice of when a timer of loop() is due).     *)
(***************************************************************************)
EXTENDS Naturals

CONSTANTS
  Parents,         \* devices that answer beacon and association requests
  None,            \* no parent, no address, an empty neighbor or flash entry
  MaxAttempts,     \* MAX_ASSOC_ATTEMPTS
  MaxCrashes,      \* bound: crashes of the device
  MaxMoves         \* bound: times that a parent comes or goes

ASSUME ParentAssumption == None \notin Parents
ASSUME AttemptAssumption == MaxAttempts \in Nat \ {0}
ASSUME BoundAssumption == MaxCrashes \in Nat /\ MaxMoves \in Nat

Roles == {"router", "end device"}
States == {"off", "idle", "scanning", "joining", "joined"}
Identity == [addr : Parents, parent : Parents]

VARIABLES
  role,       \* what the device was built as
  state,      \* info_.state; "joined" stands for ROUTER and END_DEVICE, "off" for no power
  addr,       \* info_.nwkAddress
  parent,     \* info_.parentAddress
  chosen,     \* the sketch's chosenParent; None while it is all zeros
  attempts,   \* joinAttempts_
  announced,  \* the sketch's announced
  scanReady,  \* onBeacon is registered with the radio
  parentSeen, \* neighbor entry of the parent: "fresh", "stale" or None
  lastApsOk,  \* age of lastApsOkAt: "never" (0), "recent" or "stalled"
  flash,      \* the saved identity
  up,         \* the parents in range
  requests,   \* parents an association request is on its way to
  responses,  \* parents an association response is on its way from
  crashes,    \* crashes so far, for the bound
  moves,      \* comings and goings of parents so far, for the bound
  told,       \* history: this identity was broadcast in a Device_annce
  savedTold   \* history: the value of told when flash was written

network == <<state, addr, parent, chosen, attempts>>
watch == <<parentSeen, lastApsOk>>
stored == <<flash, savedTold>>
environment == <<up, crashes, moves>>
vars == <<role, network, announced, scanReady, watch, stored, environment,
          requests, responses, told>>

TypeOK ==
  /\ role \in Roles
  /\ state \in States
  /\ addr \in Parents \union {None}
  /\ parent \in Parents \union {None}
  /\ chosen \in Parents \union {None}
  /\ attempts \in 0 .. MaxAttempts
  /\ announced \in BOOLEAN
  /\ scanReady \in BOOLEAN
  /\ parentSeen \in {"fresh", "stale", None}
  /\ lastApsOk \in {"never", "recent", "stalled"}
  /\ flash \in Identity \union {None}
  /\ up \in SUBSET Parents
  /\ requests \in SUBSET Parents
  /\ responses \in SUBSET Parents
  /\ crashes \in 0 .. MaxCrashes
  /\ moves \in 0 .. MaxMoves
  /\ told \in BOOLEAN
  /\ savedTold \in BOOLEAN

\* What the global variables of the sketch hold when setup() begins.
ColdVariables ==
  /\ chosen' = None
  /\ attempts' = 0
  /\ parentSeen' = None
  /\ lastApsOk' = "never"

Init ==
  /\ role \in Roles
  /\ state = "off"
  /\ addr = None
  /\ parent = None
  /\ chosen = None
  /\ attempts = 0
  /\ announced = FALSE
  /\ scanReady = FALSE
  /\ parentSeen = None
  /\ lastApsOk = "never"
  /\ flash = None
  /\ up = Parents
  /\ requests = {}
  /\ responses = {}
  /\ crashes = 0
  /\ moves = 0
  /\ told = FALSE
  /\ savedTold = FALSE

-----------------------------------------------------------------------------
(***************************************************************************)
(* setup() with an empty flash: the first scan of loop() follows.          *)
(***************************************************************************)
BootFresh ==
  /\ state = "off"
  /\ flash = None
  /\ state' = "idle"
  /\ scanReady' = TRUE
  /\ announced' = FALSE
  /\ told' = FALSE
  /\ addr' = None
  /\ parent' = None
  /\ ColdVariables
  /\ UNCHANGED <<role, stored, environment, requests, responses>>

(***************************************************************************)
(* setup() with a saved identity: beginJoinedDevice, and no onBeacon.      *)
(***************************************************************************)
BootRestored ==
  /\ state = "off"
  /\ flash # None
  /\ state' = "joined"
  /\ addr' = flash.addr
  /\ parent' = flash.parent
  /\ announced' = TRUE
  /\ told' = savedTold
  /\ scanReady' = FALSE
  /\ ColdVariables
  /\ UNCHANGED <<role, stored, environment, requests, responses>>

\* Power loss.  Frames on their way are gone before the radio is up again.
Crash ==
  /\ state # "off"
  /\ crashes < MaxCrashes
  /\ crashes' = crashes + 1
  /\ state' = "off"
  /\ requests' = {}
  /\ responses' = {}
  /\ UNCHANGED <<role, addr, parent, chosen, attempts, announced, scanReady,
                 watch, stored, up, moves, told>>

-----------------------------------------------------------------------------
(***************************************************************************)
(* runActiveScan, when the beacons of the parents in heard are recorded.   *)
(* Which of them selectParent prefers is a matter of their link quality.   *)
(***************************************************************************)
Scan(heard) ==
  /\ heard \subseteq up
  /\ ~scanReady => heard = {}
  /\ addr' = None
  /\ \/ /\ heard = {}
        /\ state' = "scanning"
        /\ parent' = None
        /\ UNCHANGED chosen
     \/ \E p \in heard :
          /\ chosen' = p
          /\ state' = "joining"
          /\ parent' = p

\* loop(): no network yet, or the last scan found none.
ScanWhileUnjoined(heard) ==
  /\ state \in {"idle", "scanning"}
  /\ Scan(heard)
  /\ UNCHANGED attempts

\* Whether the association with the chosen parent is to be given up.
AttemptsUsedUp == attempts >= MaxAttempts

\* loop(): association keeps failing.
ScanAfterAttempts(heard) ==
  /\ state = "joining"
  /\ AttemptsUsedUp
  /\ attempts' = 0
  /\ Scan(heard)

RunActiveScan(heard) ==
  /\ \/ ScanWhileUnjoined(heard)
     \/ ScanAfterAttempts(heard)
  /\ UNCHANGED <<role, announced, scanReady, watch, stored, environment,
                 requests, responses, told>>

(***************************************************************************)
(* serviceRouteDiscovery, second tier: an end device whose deliveries have *)
(* stalled for a minute gives its parent up.                               *)
(***************************************************************************)
RepairByScan(heard) ==
  /\ role = "end device"
  /\ state = "joined"
  /\ lastApsOk = "stalled"
  /\ lastApsOk' = "recent"
  /\ Scan(heard)
  /\ UNCHANGED <<role, attempts, announced, scanReady, parentSeen, stored,
                 environment, requests, responses, told>>

\* Mutant: noteJoinAttempt is forgotten.
NextAttemptForgotten(n) == n

(***************************************************************************)
(* loop(): one more association request.  To a chosenParent of all zeros   *)
(* it goes out on PAN 0, where nobody is.                                  *)
(***************************************************************************)
NextAttempt(n) == n + 1

Associate ==
  /\ state = "joining"
  /\ ~AttemptsUsedUp
  /\ attempts' = NextAttempt(attempts)
  /\ requests' = requests \union ({chosen} \ {None})
  /\ UNCHANGED <<role, state, addr, parent, chosen, announced, scanReady, watch,
                 stored, environment, responses, told>>

(***************************************************************************)
(* A parent in range answers.  The request may be repeated by the MAC.     *)
(***************************************************************************)
Answer(p) ==
  /\ p \in requests
  /\ p \in up
  /\ requests' \in {requests, requests \ {p}}
  /\ responses' = responses \union {p}
  /\ UNCHANGED <<role, network, announced, scanReady, watch, stored, environment,
                 told>>

\* completeJoin refuses a response unless the device is joining.
Accepts == state = "joining"

\* Mutant: a completed join does not ask for an announcement.
OnAssociationResponseUnannounced(p) ==
  /\ p \in responses
  /\ responses' \in {responses, responses \ {p}}
  /\ IF Accepts
     THEN /\ state' = "joined"
          /\ addr' = p
          /\ parent' = chosen
          /\ attempts' = 0
          /\ told' = FALSE
          /\ parentSeen' = "fresh"
          /\ lastApsOk' = "recent"
     ELSE UNCHANGED <<state, addr, parent, attempts, told, watch>>
  /\ UNCHANGED <<role, chosen, announced, scanReady, stored, environment, requests>>

(***************************************************************************)
(* onMacCommand with an association response.  It is completed with        *)
(* chosenParent, whoever sent it.                                          *)
(***************************************************************************)
OnAssociationResponse(p) ==
  /\ p \in responses
  /\ responses' \in {responses, responses \ {p}}
  /\ IF Accepts
     THEN /\ state' = "joined"
          /\ addr' = p
          /\ parent' = chosen
          /\ attempts' = 0
          /\ announced' = FALSE
          /\ told' = FALSE
          /\ parentSeen' = "fresh"
          /\ lastApsOk' = "recent"
     ELSE UNCHANGED <<state, addr, parent, attempts, announced, told, watch>>
  /\ UNCHANGED <<role, chosen, scanReady, stored, environment, requests>>

\* loop(): sendDeviceAnnounce.
Announce ==
  /\ state = "joined"
  /\ ~announced
  /\ announced' = TRUE
  /\ told' = TRUE
  /\ UNCHANGED <<role, network, scanReady, watch, stored, environment, requests,
                 responses>>

\* Mutant: the save does not ask whether the device is joined.
MaySaveAlways == state # "off"

\* loop() saves whenever the device is joined, and at no other time.
MaySave == state = "joined"

(***************************************************************************)
(* saveState.                                                              *)
(***************************************************************************)
SaveState ==
  /\ MaySave
  /\ flash' = [addr |-> addr, parent |-> parent]
  /\ savedTold' = told
  /\ UNCHANGED <<role, network, announced, scanReady, watch, environment, requests,
                 responses, told>>

-----------------------------------------------------------------------------
\* handleLinkStatus of the parent refreshes its entry, or makes one.
HearParent ==
  /\ state = "joined"
  /\ parent \in up
  /\ parentSeen # "fresh"
  /\ parentSeen' = "fresh"
  /\ UNCHANGED <<role, network, announced, scanReady, lastApsOk, stored,
                 environment, requests, responses, told>>

\* Three Link Status periods pass without a word from the parent, which is
\* longer than any frame is on its way.
EntryGetsStale ==
  /\ state = "joined"
  /\ parentSeen = "fresh"
  /\ parent \notin up
  /\ parentSeen' = "stale"
  /\ requests' = {}
  /\ responses' = {}
  /\ UNCHANGED <<role, network, announced, scanReady, lastApsOk, stored,
                 environment, told>>

\* The full neighbor table recycles the entry it has not heard of for longest.
RecycleParentEntry ==
  /\ state = "joined"
  /\ parentSeen # None
  /\ parentSeen' = None
  /\ UNCHANGED <<role, network, announced, scanReady, lastApsOk, stored,
                 environment, requests, responses, told>>

(***************************************************************************)
(* serviceLinkStatusAndAging of a router: ageNeighbors reports a parent    *)
(* whose entry is stale, and rejoinParent associates with it again.        *)
(***************************************************************************)
AgeNeighbors ==
  /\ role = "router"
  /\ state = "joined"
  /\ parentSeen = "stale"
  /\ state' = "joining"
  /\ addr' = None
  /\ announced' = FALSE
  /\ UNCHANGED <<role, parent, chosen, attempts, scanReady, watch, stored,
                 environment, requests, responses, told>>

\* onApsAck of an end device: a delivery went through its parent.
DeliverySucceeds ==
  /\ role = "end device"
  /\ state = "joined"
  /\ parent \in up
  /\ lastApsOk # "recent"
  /\ lastApsOk' = "recent"
  /\ UNCHANGED <<role, network, announced, scanReady, parentSeen, stored,
                 environment, requests, responses, told>>

\* A minute passes without a delivery, which is longer than any frame is on
\* its way; nothing is measured before the first delivery.
DeliveriesStall ==
  /\ role = "end device"
  /\ state = "joined"
  /\ parent \notin up
  /\ lastApsOk = "recent"
  /\ lastApsOk' = "stalled"
  /\ requests' = {}
  /\ responses' = {}
  /\ UNCHANGED <<role, network, announced, scanReady, parentSeen, stored,
                 environment, told>>

-----------------------------------------------------------------------------
ParentMoves(p) ==
  /\ moves < MaxMoves
  /\ moves' = moves + 1
  /\ up' = IF p \in up THEN up \ {p} ELSE up \union {p}
  /\ UNCHANGED <<role, network, announced, scanReady, watch, stored, crashes,
                 requests, responses, told>>

LoseFrame(p) ==
  /\ \/ /\ p \in requests
        /\ requests' = requests \ {p}
        /\ UNCHANGED responses
     \/ /\ p \in responses
        /\ responses' = responses \ {p}
        /\ UNCHANGED requests
  /\ UNCHANGED <<role, network, announced, scanReady, watch, stored, environment,
                 told>>

Boot == BootFresh \/ BootRestored

Next ==
  \/ BootFresh
  \/ BootRestored
  \/ Crash
  \/ \E heard \in SUBSET Parents : RunActiveScan(heard) \/ RepairByScan(heard)
  \/ Associate
  \/ \E p \in Parents : Answer(p) \/ OnAssociationResponse(p)
  \/ Announce
  \/ SaveState
  \/ HearParent
  \/ EntryGetsStale
  \/ RecycleParentEntry
  \/ AgeNeighbors
  \/ DeliverySucceeds
  \/ DeliveriesStall
  \/ \E p \in Parents : ParentMoves(p) \/ LoseFrame(p)

Spec == Init /\ [][Next]_vars

(***************************************************************************)
(* Fairness.  loop() keeps running, so its timers and services are weakly  *)
(* fair; time passes.  Frames are lost, but not every beacon, request and  *)
(* response for ever: an answer takes milliseconds and an attempt lasts    *)
(* 3 s, so again and again it comes while the device waits for it.         *)
(***************************************************************************)
Fairness ==
  /\ WF_vars(Boot)
  /\ WF_vars(\E heard \in SUBSET Parents : RunActiveScan(heard))
  /\ WF_vars(\E heard \in SUBSET Parents : RepairByScan(heard))
  /\ SF_vars(RunActiveScan(up))
  /\ WF_vars(Associate)
  /\ \A p \in Parents :
       /\ SF_vars(Answer(p) /\ state = "joining" /\ chosen = p)
       /\ SF_vars(OnAssociationResponse(p) /\ state = "joining")
  /\ WF_vars(HearParent)
  /\ WF_vars(EntryGetsStale)
  /\ WF_vars(AgeNeighbors)
  /\ WF_vars(DeliverySucceeds)
  /\ WF_vars(DeliveriesStall)

FairSpec == Spec /\ Fairness

-----------------------------------------------------------------------------
(***************************************************************************)
(* A device that takes itself for joined has an address and a parent: the  *)
(* guards of completeJoin, saveState and the zero chosenParent of a        *)
(* restored device leave no way to be joined to nobody.                    *)
(***************************************************************************)
NeverJoinedToNobody == state = "joined" => addr # None /\ parent # None

(***************************************************************************)
(* A device takes its identity for announced though no Device_annce left   *)
(* it only after it was restored from a copy saved before the announcement *)
(* (loop() saves before it announces, and setup() sets announced).         *)
(***************************************************************************)
AnnounceLostOnlyByEarlySave ==
  state = "joined" /\ announced => told \/ (~scanReady /\ ~savedTold)

(***************************************************************************)
(* A joined device never slips from one address or parent to another: late *)
(* and repeated association responses do not move it (completeJoin).       *)
(***************************************************************************)
IdentityStable ==
  [][state = "joined" /\ state' = "joined" => addr' = addr /\ parent' = parent]_vars

(***************************************************************************)
(* The inductive invariant.  A device that scans no more (it was restored) *)
(* has no chosenParent, hence no request and no response on its way; any   *)
(* other one that joins or is joined has chosen a parent.                  *)
(***************************************************************************)
IndInv ==
  /\ TypeOK
  /\ state = "off" \/ ~scanReady => requests = {} /\ responses = {}
  /\ ~scanReady => chosen = None
  /\ scanReady /\ state \in {"joining", "joined"} => chosen # None
  /\ requests \union responses # {} => chosen # None
  /\ NeverJoinedToNobody
  /\ AnnounceLostOnlyByEarlySave

Connected == state = "joined" /\ parent \in up

(***************************************************************************)
(* The self-healing loop that docs/VERIFIED_BEHAVIOR.md describes: a       *)
(* device that lost its parent falls back to scanning, and when a parent   *)
(* is in range for good it does not scan for ever.                         *)
(***************************************************************************)
ScanFindsParent == <>[](up # {}) => []<>(state # "scanning")

\* A router looks for its parent in the neighbor table, and finds no entry.
Unwatched == role = "router" /\ state = "joined" /\ parentSeen = None

(***************************************************************************)
(* The self-healing that holds: a device fails to connect only if it was   *)
(* restored from flash, or if it is a router whose neighbor table lost the *)
(* parent's entry before ageNeighbors saw it stale.                        *)
(***************************************************************************)
HealsUnlessBlind ==
  <>[](up # {}) => <>[](Connected \/ ~scanReady \/ Unwatched)

=============================================================================
