------------------------------ MODULE ZdoFrames ------------------------------
(***************************************************************************)
(* The payloads of the device object and of network management:            *)
(* ZigbeeZdo.cpp, ZigbeeZdoMgmt.h and the frames of ZigbeePanIdConflict.h. *)
(***************************************************************************)
EXTENDS WireFormat

Seq1 == U("sequence", 1)
SeqRead == <<"sequence", 0, 1>>

NwkAddressRequest ==
    Fixed(Seq1 \o U("ieee", 8) \o U("requestType", 1) \o U("startIndex", 1), 11, {},
          {SeqRead, <<"ieee", 1, 8>>, <<"requestType", 9, 1>>, <<"startIndex", 10, 1>>})

IeeeAddressRequest ==
    Fixed(Seq1 \o U("nwk", 2) \o U("requestType", 1) \o U("startIndex", 1), 5, {},
          {SeqRead, <<"nwk", 1, 2>>, <<"requestType", 3, 1>>, <<"startIndex", 4, 1>>})

BuildAddressResponse(n) ==
    Seq1 \o U("status", 1) \o U("ieee", 8) \o U("nwk", 2) \o Num("count", n)
      \o U("startIndex", 1) \o Words("device", n)

(***************************************************************************)
(* The list part is optional: it is looked at from 14 bytes on.            *)
(***************************************************************************)
ParseAddressResponse(p) ==
    LET base == {R("sequence", 0, 1), R("status", 1, 1), R("ieee", 2, 8), R("nwk", 10, 2)}
    IN IF Len(p) < 12 THEN Reject
       ELSE IF Len(p) < 14 THEN Accept(base, NoRest)
       ELSE AcceptIf(Len(p) >= Trunc8(14 + 2 * p[13].n),
                base \cup {R("count", 12, 1), R("startIndex", 13, 1)}
                  \cup {RItem("device", k, 12 + 2 * k, 2) : k \in 1..p[13].n}, NoRest)

ActiveEndpointRequest ==
    Fixed(Seq1 \o U("nwk", 2), 3, {}, {SeqRead, <<"nwk", 1, 2>>})

(***************************************************************************)
(* Active_EP_rsp and Match_Desc_rsp share the layout.                      *)
(***************************************************************************)
BuildEndpointListResponse(n) ==
    Seq1 \o U("status", 1) \o U("nwk", 2) \o Num("count", n) \o U("endpoints", n)

ParseEndpointListResponse(p) ==
    IF Len(p) < 5 THEN Reject
    ELSE AcceptIf(Len(p) >= Trunc8(5 + p[5].n),
             {R("sequence", 0, 1), R("status", 1, 1), R("nwk", 2, 2), R("count", 4, 1),
              R("endpoints", 5, p[5].n)}, NoRest)

(***************************************************************************)
(* Two cluster lists behind a head of h bytes: count, ids, count, ids.     *)
(***************************************************************************)
ClusterLists(i, o) ==
    Num("inputCount", i) \o Words("input", i)
      \o Num("outputCount", o) \o Words("output", o)

ParseClusterLists(p, min, h, head) ==
    IF Len(p) < min \/ Len(p) < Trunc8(h + 2 + 2 * p[h + 1].n) THEN Reject
    ELSE LET i == p[h + 1].n
             at == h + 1 + 2 * i
             o == p[at + 1].n
         IN AcceptIf(Len(p) >= Trunc8(at + 1 + 2 * o),
                head \cup {R("inputCount", h, 1), R("outputCount", at, 1)}
                  \cup {RItem("input", k, h - 1 + 2 * k, 2) : k \in 1..i}
                  \cup {RItem("output", k, at - 1 + 2 * k, 2) : k \in 1..o}, NoRest)

BuildSimpleDescriptor(i, o) ==
    U("endpoint", 1) \o U("profile", 2) \o U("device", 2) \o U("version", 1)
      \o ClusterLists(i, o)

ParseSimpleDescriptor(p) ==
    ParseClusterLists(p, 8, 6, {R("endpoint", 0, 1), R("profile", 1, 2),
                                R("device", 3, 2), R("version", 5, 1)})

SimpleDescriptorRequest ==
    Fixed(Seq1 \o U("nwk", 2) \o U("endpoint", 1), 4, {},
          {SeqRead, <<"nwk", 1, 2>>, <<"endpoint", 3, 1>>})

(***************************************************************************)
(* The descriptor is absent (n = 0) unless the status is success; d is its *)
(* bytes.  Its reads are shifted behind the head.                          *)
(***************************************************************************)
BuildSimpleDescriptorResponse(d) ==
    Seq1 \o U("status", 1) \o U("nwk", 2) \o Num("length", Len(d)) \o d

Shifted(reads, by) == {[r EXCEPT !.off = @ + by] : r \in reads}

ParseSimpleDescriptorResponse(p) ==
    LET head == {R("sequence", 0, 1), R("status", 1, 1), R("nwk", 2, 2), R("length", 4, 1)}
    IN IF Len(p) < 5 THEN Reject
       ELSE IF Len(p) < Trunc8(5 + p[5].n) THEN Reject
       ELSE IF p[5].n = 0 THEN Accept(head, NoRest)
       ELSE LET d == ParseSimpleDescriptor(SubSeq(p, 6, 5 + p[5].n))
            IN AcceptIf(d.ok, head \cup Shifted(d.reads, 5), NoRest)

BuildMatchDescriptorRequest(i, o) ==
    Seq1 \o U("nwk", 2) \o U("profile", 2) \o ClusterLists(i, o)

ParseMatchDescriptorRequest(p) ==
    ParseClusterLists(p, 6, 5, {R("sequence", 0, 1), R("nwk", 1, 2), R("profile", 3, 2)})

DeviceAnnounce ==
    Fixed(Seq1 \o U("nwk", 2) \o U("ieee", 8) \o U("capability", 1), 12, {},
          {SeqRead, <<"nwk", 1, 2>>, <<"ieee", 3, 8>>, <<"capability", 11, 1>>})

(***************************************************************************)
(* A bind destination is a group (mode 1) or a device (mode 3).            *)
(***************************************************************************)
kBindAddrModeGroup == 1
kBindAddrModeIeee == 3

BuildBindRequest(mode) ==
    Seq1 \o U("srcAddress", 8) \o U("srcEndpoint", 1) \o U("cluster", 2) \o Num("mode", mode)
      \o (IF mode = kBindAddrModeGroup THEN U("group", 2)
          ELSE U("dstAddress", 8) \o U("dstEndpoint", 1))

ParseBindRequest(p) ==
    IF Len(p) < 13 THEN Reject
    ELSE LET group == p[13].n = kBindAddrModeGroup
         IN AcceptIf(IF group THEN Len(p) >= 15
                     ELSE p[13].n = kBindAddrModeIeee /\ Len(p) >= 22,
                {R("sequence", 0, 1), R("srcAddress", 1, 8), R("srcEndpoint", 9, 1),
                 R("cluster", 10, 2), R("mode", 12, 1)}
                  \cup (IF group THEN {R("group", 13, 2)}
                        ELSE {R("dstAddress", 13, 8), R("dstEndpoint", 21, 1)}), NoRest)

StatusResponse == Fixed(Seq1 \o U("status", 1), 2, {}, {SeqRead, <<"status", 1, 1>>})
MgmtRequest == Fixed(Seq1 \o U("startIndex", 1), 2, {}, {SeqRead, <<"startIndex", 1, 1>>})

(***************************************************************************)
(* Mgmt_Lqi and Mgmt_Rtg responses: a head of 5 bytes and n entries; the   *)
(* required length is computed in 16 bits.                                 *)
(***************************************************************************)
kNeighborEntryLen == 22
kRoutingEntryLen == 5

MgmtHead(n) ==
    Seq1 \o U("status", 1) \o U("entries", 1) \o U("startIndex", 1) \o Num("count", n)
MgmtReads ==
    {R("sequence", 0, 1), R("status", 1, 1), R("entries", 2, 1), R("startIndex", 3, 1),
     R("count", 4, 1)}
ItemReads(n, off, w, fields) ==
    {RItem(t[1], k, off + w * (k - 1) + t[2], t[3]) : k \in 1..n, t \in fields}
ParseMgmtList(p, w, fields) ==
    IF Len(p) < 5 THEN Reject
    ELSE AcceptIf(Len(p) >= 5 + p[5].n * w,
                  MgmtReads \cup ItemReads(p[5].n, 5, w, fields), NoRest)

BuildMgmtLqiResponse(n) ==
    MgmtHead(n) \o List(n, LAMBDA k :
        AtItem("extendedPanId", k, 8) \o AtItem("extendedAddress", k, 8)
          \o AtItem("nwkAddress", k, 2) \o AtItem("kind", k, 1) \o AtItem("permit", k, 1)
          \o AtItem("depth", k, 1) \o AtItem("lqi", k, 1))

ParseMgmtLqiResponse(p) ==
    ParseMgmtList(p, kNeighborEntryLen,
        {<<"extendedPanId", 0, 8>>, <<"extendedAddress", 8, 8>>, <<"nwkAddress", 16, 2>>,
         <<"kind", 18, 1>>, <<"permit", 19, 1>>, <<"depth", 20, 1>>, <<"lqi", 21, 1>>})

BuildMgmtRtgResponse(n) ==
    MgmtHead(n) \o List(n, LAMBDA k :
        AtItem("destination", k, 2) \o AtItem("state", k, 1) \o AtItem("nextHop", k, 2))

ParseMgmtRtgResponse(p) ==
    ParseMgmtList(p, kRoutingEntryLen,
        {<<"destination", 0, 2>>, <<"state", 2, 1>>, <<"nextHop", 3, 2>>})

MgmtLeaveRequest ==
    Fixed(Seq1 \o U("ieee", 8) \o U("flags", 1), 10, {},
          {SeqRead, <<"ieee", 1, 8>>, <<"flags", 9, 1>>})

NodeDescRequest == Fixed(Seq1 \o U("nwk", 2), 3, {}, {SeqRead, <<"nwk", 1, 2>>})

NodeDescResponse ==
    Fixed(Seq1 \o U("status", 1) \o U("nwk", 2) \o U("logicalType", 1) \o Const(0)
            \o U("macCapability", 1) \o U("manufacturer", 2) \o U("maxBuffer", 1)
            \o U("maxIncoming", 2) \o U("serverMask", 2) \o U("maxOutgoing", 2)
            \o U("descriptorCapability", 1), 17, {},
          {SeqRead, <<"status", 1, 1>>, <<"nwk", 2, 2>>, <<"logicalType", 4, 1>>,
           <<"macCapability", 6, 1>>, <<"manufacturer", 7, 2>>, <<"maxBuffer", 9, 1>>,
           <<"maxIncoming", 10, 2>>, <<"serverMask", 12, 2>>, <<"maxOutgoing", 14, 2>>,
           <<"descriptorCapability", 16, 1>>})

(***************************************************************************)
(* Network Report and Network Update (the type in bits 5-7 of the options, *)
(* a count in bits 0-4).                                                   *)
(***************************************************************************)
kMaxPanIds == 8
kUpdateChannel == 1

BuildReport(n) ==
    When(n <= kMaxPanIds,
         Num("options", n) \o U("epid", 8) \o Words("panId", n))

ParseReport(p) ==
    IF Len(p) < 9 THEN Reject
    ELSE AcceptIf(p[1].n <= kMaxPanIds /\ Len(p) >= Trunc8(9 + 2 * p[1].n),
             {R("options", 0, 1), R("epid", 1, 8)}
               \cup {RItem("panId", k, 7 + 2 * k, 2) : k \in 1..p[1].n}, NoRest)

PanIdUpdate ==
    Fixed(Num("type", 0) \o U("epid", 8) \o U("updateId", 1) \o U("newPanId", 2), 12, {},
          {<<"type", 0, 1>>, <<"epid", 1, 8>>, <<"updateId", 9, 1>>, <<"newPanId", 10, 2>>})

ChannelUpdate ==
    Fixed(Num("type", kUpdateChannel) \o U("epid", 8) \o U("updateId", 1)
            \o U("newChannel", 1), 11, {<<0, kUpdateChannel>>},
          {<<"type", 0, 1>>, <<"epid", 1, 8>>, <<"updateId", 9, 1>>, <<"newChannel", 10, 1>>})
=============================================================================
