---------------------------- MODULE ClusterFrames ----------------------------
(***************************************************************************)
(* The payloads of the cluster headers (Identify, Level Control, Color     *)
(* Control, Groups, Scenes, IAS Zone, Thermostat, Window Covering), read   *)
(* as the cluster servers read them, and the answers to Read Attributes.   *)
(***************************************************************************)
EXTENDS WireFormat

(***************************************************************************)
(* Transition times and an empty group name are written and never read.    *)
(***************************************************************************)
Plainly(min, wire) ==
    Fixed(FlattenSeq([j \in DOMAIN wire |-> IF wire[j][1] = "ignored" THEN Ignored(wire[j][2])
                                            ELSE U(wire[j][1], wire[j][2])]),
          min, {},
          {<<wire[j][1], FoldLeft(LAMBDA n, f : n + f[2], 0, SubSeq(wire, 1, j - 1)), wire[j][2]>> :
             j \in {m \in DOMAIN wire : wire[m][1] # "ignored"}})

Identify == Plainly(2, << <<"seconds", 2>> >>)
MoveToLevelCommand == Plainly(1, << <<"level", 1>>, <<"ignored", 2>> >>)
StepCommand == Plainly(2, << <<"mode", 1>>, <<"size", 1>>, <<"ignored", 2>> >>)
MoveToHueSat == Plainly(2, << <<"hue", 1>>, <<"saturation", 1>>, <<"ignored", 2>> >>)
MoveToColorCommand == Plainly(4, << <<"x", 2>>, <<"y", 2>>, <<"ignored", 2>> >>)
MoveToTemperature == Plainly(2, << <<"mireds", 2>>, <<"ignored", 2>> >>)
AddGroupCommand == Plainly(2, << <<"group", 2>>, <<"ignored", 1>> >>)
RemoveGroupCommand == Plainly(2, << <<"group", 2>> >>)
GroupScene == Plainly(3, << <<"group", 2>>, <<"scene", 1>> >>)
RemoveAllScenesCommand == Plainly(2, << <<"group", 2>> >>)
StatusChangeNotification ==
    Plainly(6, << <<"zoneStatus", 2>>, <<"ignored", 1>>, <<"zone", 1>>, <<"delay", 2>> >>)
EnrollRequest == Plainly(4, << <<"zoneType", 2>>, <<"manufacturer", 2>> >>)
EnrollResponse == Plainly(2, << <<"response", 1>>, <<"zone", 1>> >>)
SetpointRaiseLower == Plainly(2, << <<"mode", 1>>, <<"amount", 1>> >>)
GoToPercentage == Plainly(1, << <<"percent", 1>> >>)

(***************************************************************************)
(* Get Group Membership lists the groups it asks for; the server reads as  *)
(* many as arrived.                                                        *)
(***************************************************************************)
BuildGetMembership(n) == Num("count", n) \o Words("group", n)
ParseGetMembership(p) ==
    IF Len(p) < 1 THEN Reject
    ELSE Accept({R("count", 0, 1)} \cup
                {RItem("group", k, 2 * k - 1, 2) :
                   k \in {j \in 1..p[1].n : 2 * j + 1 <= Len(p)}}, NoRest)

(***************************************************************************)
(* The widths of the values a cluster server knows, by attribute; text has *)
(* a length byte.                                                          *)
(***************************************************************************)
Text(n) == [w |-> n + 1, text |-> n]
Value(w) == [w |-> w, text |-> 0]
OnOffAttributes == <<Value(1)>>
BasicAttributes ==
    <<Value(1), Value(1), Value(1), Value(1), Text(12), Text(17), Text(10), Value(1)>>
TemperatureAttributes == <<Value(2), Value(2), Value(2), Value(2)>>
HumidityAttributes == <<Value(2), Value(2), Value(2)>>
OccupancyAttributes == <<Value(1), Value(1), Value(1)>>
DoorLockAttributes == <<Value(1), Value(1), Value(1)>>
ElectricalAttributes == <<Value(2), Value(2), Value(2), Value(2)>>

kUnsupported == 134
kCharString == 66
ItemNum(f, k, v) == <<[AtItem(f, k, 1)[1] EXCEPT !.n = v]>>
AttributeStatusRecord(k) == AtItem("attribute", k, 2) \o ItemNum("status", k, kUnsupported)
ValueRecord(k, v) ==
    AtItem("attribute", k, 2) \o ItemNum("status", k, 0) \o ItemNum("type", k, v.w)
      \o AtItem("value", k, v.w)
CharStringRecord(k, v) ==
    AtItem("attribute", k, 2) \o ItemNum("status", k, 0) \o ItemNum("type", k, kCharString)
      \o <<[AtItem("value", k, 1)[1] EXCEPT !.n = v.text]>> \o Tail(AtItem("value", k, v.w))

AttributeRecord(server, a, k) ==
    IF a \notin DOMAIN server THEN AttributeStatusRecord(k)
    ELSE IF server[a].text > 0 THEN CharStringRecord(k, server[a])
    ELSE ValueRecord(k, server[a])

(***************************************************************************)
(* One record per attribute asked for, in order; when they do not all fit  *)
(* there is no answer.                                                     *)
(***************************************************************************)
ReadAttributesResponse(server, asked, max) ==
    LET answer == List(Len(asked), LAMBDA k : AttributeRecord(server, asked[k], k))
    IN When(Len(answer) <= max, answer)

(***************************************************************************)
(* A client reads record after record: three bytes, or the value as well   *)
(* when the status is success.                                             *)
(***************************************************************************)
RecordLength(p, at) ==
    IF p[at + 3].n # 0 THEN 3
    ELSE IF Len(p) < at + 5 THEN Len(p) + 1
    ELSE IF p[at + 4].n = kCharString THEN 5 + p[at + 5].n ELSE 4 + p[at + 4].n

RecordReads(p, at, k) ==
    {RItem("attribute", k, at, 2), RItem("status", k, at + 2, 1)}
      \cup (IF p[at + 3].n # 0 THEN {}
            ELSE {RItem("type", k, at + 3, 1), RItem("value", k, at + 4, RecordLength(p, at) - 4)})

ReadRecords(p) ==
    LET next(s, k) ==
          IF Len(p) < s.at + 3 \/ Len(p) < s.at + RecordLength(p, s.at) THEN s
          ELSE [at |-> s.at + RecordLength(p, s.at), reads |-> s.reads \cup RecordReads(p, s.at, k)]
    IN Accept(FoldLeft(next, [at |-> 0, reads |-> {}], [k \in 1..Len(p) |-> k]).reads, NoRest)
=============================================================================
