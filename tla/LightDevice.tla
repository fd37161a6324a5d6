---------------------------- MODULE LightDevice ----------------------------
(***************************************************************************)
(* A dimmable colour light (ZigbeeLight.h) and the clusters it dispatches  *)
(* commands to: On/Off, Level Control, Color Control, Identify, Groups and *)
(* Scenes, with their tables.  Malformed payloads change nothing and are   *)
(* left out; so are transition times, which the clusters ignore.           *)
(***************************************************************************)
EXTENDS Integers, Sequences, FiniteSets, LeastElement

CONSTANTS
  GroupIds, SceneIds,
  GroupSlots, SceneSlots,  \* kGroups, kScenes
  MaxLevel,                \* 254 in the code
  MaxIdentify              \* bound on the identify times asked for

VARIABLES
  light,      \* on_, level_ and the mode of color_
  identify,   \* identifyTime_
  groupTable, \* groups_[0 .. count_)
  sceneTable, \* [slot -> scene captured there]
  captured    \* [group and scene -> what was last captured under them]

lightVars == <<light, identify, groupTable, sceneTable, captured>>

ColorModes == {"hue and saturation", "xy", "temperature"}
SceneKeys == GroupIds \X SceneIds
NoScene == [used |-> FALSE]
NotCaptured == {}

LightInit ==
  /\ light = [on |-> FALSE, level |-> MaxLevel, mode |-> "hue and saturation"]
  /\ identify = 0
  /\ groupTable = <<>>
  /\ sceneTable = [s \in 1 .. SceneSlots |-> NoScene]
  /\ captured = [k \in SceneKeys |-> NotCaptured]

OnlyLight == UNCHANGED <<identify, groupTable, sceneTable, captured>>

\* applyOnOffCommand(): off, on, toggle.
OnOff(b) == light' = [light EXCEPT !.on = b] /\ OnlyLight
Toggle == OnOff(~light.on)

\* ZigbeeLevelControlCluster::applyCommand(), and setLevel() of the sketch.
MoveToLevel(n) ==
  /\ light' = [light EXCEPT !.level = IF n > MaxLevel THEN MaxLevel ELSE n]
  /\ OnlyLight
StepUp(n) == MoveToLevel(light.level + n)
StepDown(n) == MoveToLevel(IF n >= light.level THEN 0 ELSE light.level - n)

MoveToColor(m) == light' = [light EXCEPT !.mode = m] /\ OnlyLight

IdentifyFor(t) ==
  /\ identify' = t
  /\ UNCHANGED <<light, groupTable, sceneTable, captured>>
TickIdentify == identify > 0 /\ IdentifyFor(identify - 1)

IsMember(g) == \E i \in 1 .. Len(groupTable) : groupTable[i] = g
OnlyGroups == UNCHANGED <<light, identify, sceneTable, captured>>

\* Add Group, and Add Group If Identifying, which asks for nothing more.
AddGroup(g) ==
  /\ ~IsMember(g) /\ Len(groupTable) < GroupSlots
  /\ groupTable' = Append(groupTable, g)
  /\ OnlyGroups

\* The last group moves into the place of the removed one.
SwapRemoved(i) ==
  SubSeq([groupTable EXCEPT ![i] = groupTable[Len(groupTable)]],
         1, Len(groupTable) - 1)

RemoveGroup(g) ==
  /\ \E i \in 1 .. Len(groupTable) :
        /\ groupTable[i] = g
        /\ \A j \in 1 .. i - 1 : groupTable[j] # g
        /\ groupTable' = SwapRemoved(i)
  /\ OnlyGroups

RemoveAllGroups == groupTable' = <<>> /\ OnlyGroups

\* A group-addressed Toggle reaches the light only as a member.
GroupToggle(g) == IsMember(g) /\ Toggle

FoundAt(k) == {s \in 1 .. SceneSlots :
                 sceneTable[s].used /\ sceneTable[s].key = k}
FreeScenes == {s \in 1 .. SceneSlots : ~sceneTable[s].used}
\* Mutant: a scene stored again takes a free slot.
PlaceFirstFree(k) == IF FreeScenes # {} THEN FreeScenes ELSE FoundAt(k)

PlaceFor(k) == IF FoundAt(k) # {} THEN FoundAt(k) ELSE FreeScenes

Snapshot == [on |-> light.on, level |-> light.level]
OnlyScenes == UNCHANGED <<light, identify, groupTable>>

StoreScene(k) ==
  /\ PlaceFor(k) # {}
  /\ sceneTable' = [sceneTable EXCEPT
       ![First(PlaceFor(k))] = [used |-> TRUE, key |-> k, state |-> Snapshot]]
  /\ captured' = [captured EXCEPT ![k] = {Snapshot}]
  /\ OnlyScenes

Recalled(k) == sceneTable[First(FoundAt(k))].state

RecallScene(k) ==
  /\ FoundAt(k) # {}
  /\ light' = [light EXCEPT !.on = Recalled(k).on, !.level = Recalled(k).level]
  /\ OnlyLight

RemoveScene(k) ==
  /\ FoundAt(k) # {}
  /\ sceneTable' = [sceneTable EXCEPT ![First(FoundAt(k))] = NoScene]
  /\ captured' = [captured EXCEPT ![k] = NotCaptured]
  /\ OnlyScenes

RemoveAllScenes(g) ==
  /\ sceneTable' = [s \in 1 .. SceneSlots |->
       IF sceneTable[s].used /\ sceneTable[s].key[1] = g THEN NoScene
       ELSE sceneTable[s]]
  /\ captured' = [k \in SceneKeys |-> IF k[1] = g THEN NotCaptured ELSE captured[k]]
  /\ OnlyScenes

LightNext ==
  \/ \E b \in BOOLEAN : OnOff(b)
  \/ Toggle
  \/ \E n \in 0 .. MaxLevel + 1 : MoveToLevel(n) \/ StepUp(n) \/ StepDown(n)
  \/ \E m \in ColorModes : MoveToColor(m)
  \/ \E t \in 0 .. MaxIdentify : IdentifyFor(t)
  \/ TickIdentify
  \/ \E g \in GroupIds : \/ AddGroup(g)
                         \/ RemoveGroup(g)
                         \/ GroupToggle(g)
                         \/ RemoveAllScenes(g)
  \/ RemoveAllGroups
  \/ \E k \in SceneKeys : StoreScene(k) \/ RecallScene(k) \/ RemoveScene(k)

LightSpec == LightInit /\ [][LightNext]_lightVars

-----------------------------------------------------------------------------
\* Whatever order scenes are stored, stored again, removed and crowded out by
\* a full table, a Recall finds under a group and a scene exactly the state
\* last captured under them, and nothing once it was removed, so that no stale
\* capture in another slot comes back; leaving the group does not remove it
\* (ZigbeeScenesCluster.h:62-128).
RecallFindsLastCapture ==
  \A k \in SceneKeys :
    captured[k] = IF FoundAt(k) = {} THEN NotCaptured ELSE {Recalled(k)}
\* What makes it inductive: no two slots hold the same scene.
OneSlotPerScene ==
  \A s, t \in 1 .. SceneSlots :
    sceneTable[s].used /\ sceneTable[t].used /\ sceneTable[s].key = sceneTable[t].key
      => s = t

SceneRecords == [used : {TRUE}, key : SceneKeys, state : [on : BOOLEAN, level : Int]]

LightInv ==
  /\ light \in [on : BOOLEAN, level : Int, mode : ColorModes]
  /\ sceneTable \in [1 .. SceneSlots -> SceneRecords \cup {NoScene}]
  /\ captured \in [SceneKeys -> SUBSET [on : BOOLEAN, level : Int]]
  /\ OneSlotPerScene
  /\ RecallFindsLastCapture
=============================================================================
