---------------------------- MODULE FrameCounter ----------------------------
(***************************************************************************)
(* The outgoing NWK security frame counter of one node and its copy in     *)
(* flash: CC2530Radio::applyTxSecurity, and saveState / loadState / setup  *)
(* / loop of CC2530_BeaconJoin.                                            *)
(*                                                                         *)
(* Every secured frame carries ++securityCounter_.  The counter lives in   *)
(* RAM; loop() stores counter + COUNTER_MARGIN in flash every              *)
(* SAVE_PERIOD_MS while the node is joined, and setup() resumes from the   *)
(* stored value.  A crash may come between any two steps.                  *)
(*                                                                         *)
(* The history variables (onAir, tentative, exposed, reused) record which  *)
(* counters went out; no action reads them.                                *)
(***************************************************************************)
EXTENDS Integers

CONSTANTS
  COUNTER_MARGIN,   \* what saveState adds to the counter it stores
  MaxPerPeriod,     \* secured frames a node sends between two saves, at most
  Coordinator,      \* TRUE for the coordinator, which is joined from setup()
  MaxCounter        \* bound: no frame is sent and no boot starts from here on

ASSUME MarginAssumption ==
  /\ COUNTER_MARGIN \in Nat
  /\ MaxPerPeriod \in Nat
  /\ MaxPerPeriod <= COUNTER_MARGIN

ASSUME RoleAssumption == Coordinator \in BOOLEAN

ASSUME BoundAssumption == MaxCounter \in Nat

VARIABLES
  net,          \* "off", or the join state of the running program
  counter,      \* radio.securityCounter_
  haveSaved,    \* flash holds a blob that loadState accepts
  savedCounter, \* its outgoingFrameCounter
  firstSave,    \* nextSaveAt is still 0: this boot has not saved yet
  period,       \* frames secured since the last save or boot
  onAir,        \* history: counters of all frames ever sent
  tentative,    \* history: counters sent by this boot before its first save
  exposed,      \* history: counters of boots that crashed before saving
  reused        \* history: counters sent more than once

flash == <<haveSaved, savedCounter>>
history == <<onAir, tentative, exposed, reused>>
counterVars == <<net, counter, haveSaved, savedCounter, firstSave, period,
          onAir, tentative, exposed, reused>>

NetStates == {"off", "unjoined", "joined", "rejoining"}

CounterTypeOK ==
  /\ net \in NetStates
  /\ counter \in Nat
  /\ haveSaved \in BOOLEAN
  /\ savedCounter \in Nat
  /\ firstSave \in BOOLEAN
  /\ period \in 0 .. MaxPerPeriod
  /\ onAir \in SUBSET Nat
  /\ tentative \in SUBSET Nat
  /\ exposed \in SUBSET Nat
  /\ reused \in SUBSET Nat

-----------------------------------------------------------------------------
\* A board that was never programmed with this network before.
CounterInit ==
  /\ net = "off"
  /\ counter = 0
  /\ haveSaved = FALSE
  /\ savedCounter = 0
  /\ firstSave = TRUE
  /\ period = 0
  /\ onAir = {}
  /\ tentative = {}
  /\ exposed = {}
  /\ reused = {}

(***************************************************************************)
(* setup(): a valid blob gives back the counter (and, to a joiner, its     *)
(* network identity); without one the counter starts at 0 and a joiner     *)
(* must scan and associate.                                                *)
(***************************************************************************)
RestoredCounter == IF haveSaved THEN savedCounter ELSE 0

\* Mutant of Boot: the restored counter is not handed to the radio.
BootAtZero ==
  /\ net = "off"
  /\ counter' = 0
  /\ net' = IF Coordinator \/ haveSaved THEN "joined" ELSE "unjoined"
  /\ firstSave' = TRUE
  /\ period' = 0
  /\ UNCHANGED <<flash, history>>

Boot ==
  /\ net = "off"
  /\ RestoredCounter < MaxCounter
  /\ counter' = RestoredCounter
  /\ net' = IF Coordinator \/ haveSaved THEN "joined" ELSE "unjoined"
  /\ firstSave' = TRUE
  /\ period' = 0
  /\ UNCHANGED <<flash, history>>

\* completeJoin succeeded on an association response.
Join ==
  /\ net \in {"unjoined", "rejoining"}
  /\ net' = "joined"
  /\ UNCHANGED <<counter, flash, firstSave, period, history>>

\* rejoinParent after a lost parent, or the re-scan of a stalled end device.
LoseParent ==
  /\ ~Coordinator
  /\ net = "joined"
  /\ net' = "rejoining"
  /\ UNCHANGED <<counter, flash, firstSave, period, history>>

(***************************************************************************)
(* applyTxSecurity.  APS acknowledgements and serviceApsRetx do not ask    *)
(* isJoined, so a node that is rejoining still sends.                      *)
(***************************************************************************)
NextCounter == counter + 1

Secure ==
  /\ net \in {"joined", "rejoining"}
  /\ period < MaxPerPeriod
  /\ counter < MaxCounter
  /\ counter' = NextCounter
  /\ period' = period + 1
  /\ onAir' = onAir \union {NextCounter}
  /\ reused' = IF NextCounter \in onAir THEN reused \union {NextCounter} ELSE reused
  /\ tentative' = IF firstSave THEN tentative \union {NextCounter} ELSE tentative
  /\ UNCHANGED <<net, flash, firstSave, exposed>>

\* Mutant of StoredCounter: the counter is stored without its margin.
StoredCounterNoMargin == counter

\* The value saveState writes.
StoredCounter == counter + COUNTER_MARGIN

\* The periodic save in loop(): only while joined.
SaveState ==
  /\ net = "joined"
  /\ haveSaved' = TRUE
  /\ savedCounter' = StoredCounter
  /\ firstSave' = FALSE
  /\ period' = 0
  /\ tentative' = {}
  /\ UNCHANGED <<net, counter, onAir, exposed, reused>>

\* Power loss or reset: RAM is gone, flash stays.
Crash ==
  /\ net # "off"
  /\ net' = "off"
  /\ counter' = 0
  /\ firstSave' = TRUE
  /\ period' = 0
  /\ exposed' = exposed \union tentative
  /\ tentative' = {}
  /\ UNCHANGED <<flash, onAir, reused>>

CounterNext == Boot \/ Join \/ LoseParent \/ Secure \/ SaveState \/ Crash

CounterSpec == CounterInit /\ [][CounterNext]_counterVars

-----------------------------------------------------------------------------
(***************************************************************************)
(* A frame counter is sent twice only if its first sender crashed before   *)
(* the first save of its boot: from that save on, COUNTER_MARGIN covers    *)
(* every frame of the boot, whatever the crash point.                      *)
(***************************************************************************)
ReuseOnlyBeforeFirstSave == reused \subseteq exposed

(***************************************************************************)
(* The counter in flash, from which every later boot resumes, never goes   *)
(* backwards.                                                              *)
(***************************************************************************)
FlashNeverRewinds ==
  [][haveSaved => haveSaved' /\ savedCounter' >= savedCounter]_counterVars

(***************************************************************************)
(* The inductive strengthening of ReuseOnlyBeforeFirstSave.  Frames that   *)
(* are neither exposed nor tentative lie at or below the point the next    *)
(* boot resumes from; the running counter is at or above that point until  *)
(* the first save of the boot, and at most COUNTER_MARGIN below it after.  *)
(***************************************************************************)
CoveredByFlash ==
  \A c \in onAir : c \notin exposed /\ c \notin tentative => c <= RestoredCounter

RunningAboveFlash ==
  net # "off" =>
    /\ firstSave => counter = RestoredCounter + period
    /\ ~firstSave => /\ haveSaved
                     /\ savedCounter = counter - period + COUNTER_MARGIN

SentByThisBoot ==
  /\ \A c \in tentative : c <= counter
  /\ \A c \in onAir : net # "off" /\ ~firstSave /\ c \notin exposed => c <= counter
  /\ net = "off" \/ ~firstSave => tentative = {}

CounterInv ==
  /\ CounterTypeOK
  /\ CoveredByFlash
  /\ RunningAboveFlash
  /\ SentByThisBoot
  /\ ReuseOnlyBeforeFirstSave
=============================================================================
