----------------------------- MODULE ParentScan -----------------------------
(***************************************************************************)
(* The active scan of a joiner: the table of parent candidates that the    *)
(* beacons fill, in the order they come and with the quality they happen   *)
(* to arrive with, and the choice at the end of the scan.                  *)
(***************************************************************************)
EXTENDS Integers, Sequences, SequencesExt, FiniteSets

CONSTANTS BeaconSenders,    \* the coordinators and routers in range
          DepthOf,          \* the depth each announces
          Qualities,        \* the link qualities of a beacon
          CandidateSlots,   \* kMaxParentCandidates
          MaxBeacons,       \* bound: beacons in a scan
          MaxScans          \* bound: scans

\* Link quality and depth are bytes.
ASSUME ScanAssumption ==
  /\ Qualities \subseteq 0 .. 255 /\ DepthOf \in [BeaconSenders -> 0 .. 255]
  /\ CandidateSlots \in Nat \ {0} /\ MaxBeacons \in Nat /\ MaxScans \in Nat

VARIABLES candidates,  \* candidates_, the used slots in order
          sighted,     \* the beacons of this scan, in order
          chosenParent,\* the candidate that beginJoiningCandidate was given, if any
          scans

scanVars == <<candidates, sighted, chosenParent, scans>>

\* A beacon; usable is candidateUsableFor: association permitted, room for this
\* type of device, the stack profile known.
Beacons == [sender : BeaconSenders, lqi : Qualities, usable : BOOLEAN]
-----------------------------------------------------------------------------
\* Where noteBeacon records a beacon: the sender's slot unless it was heard better,
\* else a free one, else the weakest one if that is weaker.
OwnSlots(b) == {i \in DOMAIN candidates : candidates[i].sender = b.sender}
WeakestSlot ==
  CHOOSE i \in DOMAIN candidates :
    \A j \in DOMAIN candidates :
      candidates[i].lqi < candidates[j].lqi \/ (candidates[i].lqi = candidates[j].lqi /\ i <= j)

\* Mutant: a full table always gives up its weakest entry.
BeaconSlotsAlways(b) ==
  IF OwnSlots(b) # {} THEN {i \in OwnSlots(b) : candidates[i].lqi <= b.lqi}
  ELSE IF Len(candidates) < CandidateSlots THEN {Len(candidates) + 1} ELSE {WeakestSlot}

BeaconSlots(b) ==
  IF OwnSlots(b) # {} THEN {i \in OwnSlots(b) : candidates[i].lqi <= b.lqi}
  ELSE IF Len(candidates) < CandidateSlots THEN {Len(candidates) + 1}
  ELSE {i \in {WeakestSlot} : candidates[i].lqi < b.lqi}

\* selectParent prefers quality, then a small depth, then the first slot.
Better(b, c) ==
  b.lqi > c.lqi \/ (b.lqi = c.lqi /\ DepthOf[b.sender] < DepthOf[c.sender])
SelectedSlots ==
  LET usable == {i \in DOMAIN candidates : candidates[i].usable}
      best == {i \in usable : \A j \in usable : ~Better(candidates[j], candidates[i])}
  IN  {i \in best : \A j \in best : i <= j}
Selected == {candidates[i] : i \in SelectedSlots}

ScanInit == candidates = <<>> /\ sighted = <<>> /\ chosenParent = {} /\ scans = 0

\* The first scan, or one after nothing was found or the association was given up.
BeginScan ==
  /\ scans < MaxScans
  /\ scans' = scans + 1
  /\ candidates' = <<>> /\ sighted' = <<>> /\ chosenParent' = {}

\* onBeacon, of a device that is scanning.
NoteBeacon(b) ==
  /\ scans > 0 /\ chosenParent = {} /\ Len(sighted) < MaxBeacons
  /\ sighted' = Append(sighted, b)
  /\ candidates' = IF BeaconSlots(b) = {} THEN candidates
                   ELSE LET i == CHOOSE i \in BeaconSlots(b) : TRUE
                        IN  [j \in 1..Len(candidates) \cup {i} |-> IF j = i THEN b ELSE candidates[j]]
  /\ UNCHANGED <<chosenParent, scans>>

\* The dwell time of the last channel is over.
ChooseParent ==
  /\ scans > 0 /\ chosenParent = {} /\ Selected # {}
  /\ chosenParent' = Selected
  /\ UNCHANGED <<candidates, sighted, scans>>

ScanNext ==
  \/ BeginScan \/ ChooseParent
  \/ \E b \in Beacons : NoteBeacon(b)

ScanSpec == ScanInit /\ [][ScanNext]_scanVars
-----------------------------------------------------------------------------
\* The best sighting of a sender: the last of its strongest beacons.
Sightings(s) == {i \in DOMAIN sighted : sighted[i].sender = s}
BestSighting(s) ==
  sighted[CHOOSE i \in Sightings(s) : \A j \in Sightings(s) :
            sighted[j].lqi < sighted[i].lqi \/ (sighted[j].lqi = sighted[i].lqi /\ j <= i)]
CrowdedByStronger(s) ==
  /\ Cardinality({c \in Range(candidates) : c.sender # s}) = CandidateSlots
  /\ \A c \in Range(candidates) : BestSighting(s).lqi <= c.lqi

\* Whatever the order of the beacons, the parent selected is the best of all devices
\* heard, each taken at its best sighting; only a device weaker than a whole table
\* of others, joinable or not, is passed over.
BestHeardIsSelected ==
  \A s \in {sighted[i].sender : i \in DOMAIN sighted} :
    BestSighting(s).usable =>
      \/ CrowdedByStronger(s)
      \/ \E p \in Selected : p = BestSighting(p.sender) /\ p.usable /\ ~Better(BestSighting(s), p)
=============================================================================
