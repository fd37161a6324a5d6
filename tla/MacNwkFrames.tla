---------------------------- MODULE MacNwkFrames ----------------------------
(***************************************************************************)
(* The MAC and NWK frames: ZigbeeMac.cpp, ZigbeeNwk.cpp and the NWK        *)
(* commands of ZigbeeEndDeviceTimeout.h.  BuildX(...) is the byte string   *)
(* buildX writes, <<>> when it refuses; ParseX(p) is what parseX reads.    *)
(***************************************************************************)
EXTENDS WireFormat

kMaxPsdu == 125
kNwkMaxFrame == 116
kNwkMaxPayload == kNwkMaxFrame - 8

(***************************************************************************)
(* MAC frame control: type in bits 0-2, acknowledgement request 5, PAN ID  *)
(* compression 6, destination mode 10-11, version 12-13, source mode 14-15.*)
(***************************************************************************)
MacType(p) == SubField(p[1].s, 0, 3)
DstMode(p) == SubField(p[1].s, 10, 2)
SrcMode(p) == SubField(p[1].s, 14, 2)
Compressed(p) == 6 \in p[1].s
Beacon == {}
Data == {0}
Command == {0, 1}
None == {}
Short == {1}
Extended == {0, 1}

MacHead(s) == Bits("fcf", 2, s) \o U("sequence", 1)

BuildShortDataFrame(ack, payload) ==
    When(Len(payload) <= kMaxPsdu - 9,
         MacHead({0, 6, 11, 12, 15} \cup ack) \o U("dstPan", 2) \o U("dst", 2)
           \o U("src", 2) \o payload)

ParseShortDataFrame(p) ==
    IF Len(p) < 9 \/ MacType(p) # Data \/ DstMode(p) # Short \/ SrcMode(p) # Short
    THEN Reject
    ELSE LET at == IF Compressed(p) THEN 7 ELSE 9
         IN AcceptIf(Len(p) >= at + 2,
                {R("fcf", 0, 2), R("sequence", 2, 1), R("dstPan", 3, 2),
                 R("dst", 5, 2), R("src", at, 2)}
                  \cup (IF Compressed(p) THEN {} ELSE {R("srcPan", 7, 2)}),
                at + 2)

BuildAssociationRequest(ack) ==
    MacHead({0, 1, 6, 11, 12, 14, 15} \cup ack) \o U("dstPan", 2) \o U("dst", 2)
      \o U("srcIeee", 8) \o Num("commandId", 1) \o U("capability", 1)

BuildAssociationResponse(ack) ==
    MacHead({0, 1, 6, 10, 11, 12, 15} \cup ack) \o U("dstPan", 2) \o U("dstIeee", 8)
      \o U("src", 2) \o Num("commandId", 2) \o U("assigned", 2) \o U("status", 1)

BuildBeaconRequest ==
    MacHead({0, 1, 11}) \o U("dstPan", 2) \o U("dst", 2) \o Num("commandId", 7)

BuildDataRequest ==
    MacHead({0, 1, 5, 6, 11, 15}) \o U("dstPan", 2) \o U("dst", 2) \o U("src", 2)
      \o Num("commandId", 4)

(***************************************************************************)
(* The addresses of a command frame come one after the other, each absent, *)
(* short or extended; a mode of 1 is refused.                              *)
(***************************************************************************)
AddressWidth(mode) == IF mode = Short THEN 2 ELSE 8
AddressName(mode, short, long) == IF mode = Short THEN short ELSE long

ParseMacCommandFrame(p) ==
    IF Len(p) < 4 \/ MacType(p) # Command THEN Reject
    ELSE LET dm == DstMode(p)
             sm == SrcMode(p)
             dw == IF dm = None THEN 0 ELSE 2 + AddressWidth(dm)
             pan == IF sm = None \/ Compressed(p) THEN 0 ELSE 2
             sw == IF sm = None THEN 0 ELSE AddressWidth(sm)
             at == 3 + dw + pan + sw
         IN AcceptIf({dm, sm} \subseteq {None, Short, Extended} /\ Len(p) >= at + 1,
                {R("fcf", 0, 2), R("sequence", 2, 1), R("commandId", at, 1)}
                  \cup (IF dm = None THEN {}
                        ELSE {R("dstPan", 3, 2),
                              R(AddressName(dm, "dst", "dstIeee"), 5, dw - 2)})
                  \cup (IF pan = 0 THEN {} ELSE {R("srcPan", 3 + dw, 2)})
                  \cup (IF sm = None THEN {}
                        ELSE {R(AddressName(sm, "src", "srcIeee"), 3 + dw + pan, sw)}),
                at + 1)

(***************************************************************************)
(* A command's payload, read on from the command frame.                    *)
(***************************************************************************)
Then(p, a, id, min, fields) ==
    IF ~a.ok \/ Len(p) - a.rest < min \/ p[a.rest].n # id THEN Reject
    ELSE Accept(a.reads \cup {R(t[1], a.rest + t[2], t[3]) : t \in fields}, NoRest)

ParseAssociationRequest(p) ==
    Then(p, ParseMacCommandFrame(p), 1, 1, {<<"capability", 0, 1>>})
ParseAssociationResponse(p) ==
    Then(p, ParseMacCommandFrame(p), 2, 3, {<<"assigned", 0, 2>>, <<"status", 2, 1>>})

BuildInterPanFrame(mode, ack, payload) ==
    When(Len(payload) <= kMaxPsdu - (15 + AddressWidth(mode)),
         MacHead({0, 14, 15} \cup {b + 10 : b \in mode} \cup ack) \o U("dstPan", 2)
           \o U(AddressName(mode, "dst", "dstIeee"), AddressWidth(mode))
           \o U("srcPan", 2) \o U("srcIeee", 8) \o payload)

ParseInterPanFrame(p) ==
    IF Len(p) < 5 \/ MacType(p) # Data \/ SrcMode(p) # Extended \/ Compressed(p)
       \/ DstMode(p) \notin {Short, Extended}
    THEN Reject
    ELSE LET w == AddressWidth(DstMode(p))
         IN AcceptIf(Len(p) >= 15 + w,
                {R("fcf", 0, 2), R("sequence", 2, 1), R("dstPan", 3, 2),
                 R(AddressName(DstMode(p), "dst", "dstIeee"), 5, w),
                 R("srcPan", 5 + w, 2), R("srcIeee", 7 + w, 8)}, 15 + w)

(***************************************************************************)
(* A beacon of this stack has no GTS and no pending addresses; the parser  *)
(* skips those of other stacks (gts and pend are their numbers).           *)
(***************************************************************************)
BuildBeacon(flags, payload) ==
    When(Len(payload) <= kMaxPsdu - 11,
         MacHead({15}) \o U("srcPan", 2) \o U("src", 2)
           \o Bits("superframe", 2, 0..11 \cup flags) \o Const(0) \o Const(0) \o payload)

ForeignBeacon(gts, pend, payload) ==
    MacHead({15}) \o U("srcPan", 2) \o U("src", 2) \o Bits("superframe", 2, 0..11)
      \o Const(gts) \o When(gts > 0, [i \in 1..(1 + 3 * gts) |-> Const(0)[1]])
      \o Const(pend) \o [i \in 1..(2 * pend) |-> Const(0)[1]] \o payload

ParseBeacon(p) ==
    IF Len(p) < 11 \/ MacType(p) # Beacon \/ DstMode(p) # None \/ SrcMode(p) # Short
    THEN Reject
    ELSE LET gts == p[10].n % 8
             at == 10 + (IF gts > 0 THEN 1 + 3 * gts ELSE 0)
         IN IF Len(p) < at + 1 THEN Reject
            ELSE LET pend == 2 * (p[at + 1].n % 8) + 8 * ((p[at + 1].n \div 16) % 8)
                 IN AcceptIf(Len(p) >= at + 1 + pend,
                        {R("fcf", 0, 2), R("sequence", 2, 1), R("srcPan", 3, 2),
                         R("src", 5, 2), R("superframe", 7, 2)}, at + 1 + pend)

(***************************************************************************)
(* NWK frame control: type in bits 0-1, protocol version (2) 2-5, discover *)
(* route 6-7, multicast 8, security 9, source route 10, IEEE addresses     *)
(* 11 and 12.                                                              *)
(***************************************************************************)
NwkHead(s) ==
    Bits("fcf", 2, s \cup {3}) \o U("dst", 2) \o U("src", 2) \o U("radius", 1)
      \o U("sequence", 1)
NwkReads ==
    {R("fcf", 0, 2), R("dst", 2, 2), R("src", 4, 2), R("radius", 6, 1),
     R("sequence", 7, 1)}

BuildNwkDataFrame(payload) ==
    When(Len(payload) <= kNwkMaxPayload, NwkHead({}) \o payload)

BuildDataFrameSourceRouted(relays, payload) ==
    When(10 + 2 * relays + Len(payload) <= kNwkMaxFrame,
         NwkHead({10}) \o Num("relayCount", relays) \o U("relayIndex", 1)
           \o Words("relay", relays) \o payload)

RelayReads(n, off) == {RItem("relay", k, off + 2 * (k - 1), 2) : k \in 1..n}

ParseNwkDataFrame(p) ==
    IF Len(p) < 8 \/ SubField(p[1].s, 0, 2) # {} \/ p[1].s \cap {8, 9, 11, 12} # {}
    THEN Reject
    ELSE IF 10 \notin p[1].s THEN Accept(NwkReads, 8)
    ELSE IF Len(p) < 10 THEN Reject
    ELSE LET n == p[9].n
         IN AcceptIf(Len(p) >= Trunc8(10 + 2 * n),
                NwkReads \cup {R("relayCount", 8, 1), R("relayIndex", 9, 1)}
                  \cup RelayReads(n, 10), 10 + 2 * n)

BuildNwkCommandFrame(id, payload) ==
    When(Len(payload) <= kNwkMaxPayload - 1,
         NwkHead({0}) \o Num("commandId", id) \o payload)

ParseNwkCommandFrame(p) ==
    AcceptIf(Len(p) >= 9 /\ SubField(p[1].s, 0, 2) = {0} /\ p[1].s \cap (8..12) = {},
             NwkReads \cup {R("commandId", 8, 1)}, 9)

BuildRouteRequestPayload(options) ==
    Bits("options", 1, options) \o U("id", 1) \o U("destination", 2) \o U("cost", 1)
      \o When(4 \in options, U("ieee", 8))

ParseRouteRequestPayload(p) ==
    IF Len(p) < 5 THEN Reject
    ELSE LET ieee == 4 \in p[1].s
         IN AcceptIf(ieee => Len(p) >= 13,
                {R("options", 0, 1), R("id", 1, 1), R("destination", 2, 2), R("cost", 4, 1)}
                  \cup (IF ieee THEN {R("ieee", 5, 8)} ELSE {}), NoRest)

\* Mutant: the two long addresses change places.
BuildRouteReplySwapped(options) ==
    Bits("options", 1, options) \o U("id", 1) \o U("originator", 2) \o U("responder", 2)
      \o U("cost", 1) \o When(5 \in options, U("responderIeee", 8))
      \o When(4 \in options, U("originatorIeee", 8))

BuildRouteReplyPayload(options) ==
    Bits("options", 1, options) \o U("id", 1) \o U("originator", 2) \o U("responder", 2)
      \o U("cost", 1) \o When(4 \in options, U("originatorIeee", 8))
      \o When(5 \in options, U("responderIeee", 8))

ParseRouteReplyPayload(p) ==
    IF Len(p) < 7 THEN Reject
    ELSE LET o == 4 \in p[1].s
             r == 5 \in p[1].s
             at == IF o THEN 15 ELSE 7
         IN AcceptIf((o => Len(p) >= 15) /\ (r => Len(p) >= at + 8),
                {R("options", 0, 1), R("id", 1, 1), R("originator", 2, 2),
                 R("responder", 4, 2), R("cost", 6, 1)}
                  \cup (IF o THEN {R("originatorIeee", 7, 8)} ELSE {})
                  \cup (IF r THEN {R("responderIeee", at, 8)} ELSE {}), NoRest)

NetworkStatus ==
    Fixed(U("status", 1) \o U("destination", 2), 3, {},
          {<<"status", 0, 1>>, <<"destination", 1, 2>>})

BuildRouteRecordPayload(relays) ==
    Num("relayCount", relays) \o Words("relay", relays)

ParseRouteRecordPayload(p) ==
    IF Len(p) < 1 THEN Reject
    ELSE AcceptIf(Len(p) >= Trunc8(1 + 2 * p[1].n),
                  {R("relayCount", 0, 1)} \cup RelayReads(p[1].n, 1), NoRest)

Leave == Fixed(U("options", 1), 1, {}, {<<"options", 0, 1>>})
RejoinRequest == Fixed(U("capability", 1), 1, {}, {<<"capability", 0, 1>>})
RejoinResponse ==
    Fixed(U("nwkAddress", 2) \o U("status", 1), 3, {},
          {<<"nwkAddress", 0, 2>>, <<"status", 2, 1>>})

BuildLinkStatusPayload(n) ==
    When(n <= 31, Num("count", n)
         \o List(n, LAMBDA k : AtItem("address", k, 2) \o AtItem("costs", k, 1)))

\* Mutant: the number of entries is believed.
ParseLinkStatusUnchecked(p) ==
    IF Len(p) < 1 THEN Reject
    ELSE Accept({R("count", 0, 1)}
           \cup {RItem("address", k, 3 * k - 2, 2) : k \in 1..p[1].n}
           \cup {RItem("costs", k, 3 * k, 1) : k \in 1..p[1].n}, NoRest)

ParseLinkStatusPayload(p) ==
    IF Len(p) < 1 THEN Reject
    ELSE AcceptIf(Len(p) >= 1 + 3 * p[1].n,
             {R("count", 0, 1)}
               \cup {RItem("address", k, 3 * k - 2, 2) : k \in 1..p[1].n}
               \cup {RItem("costs", k, 3 * k, 1) : k \in 1..p[1].n}, NoRest)

BeaconPayload ==
    Fixed(Const(0) \o U("profile", 1) \o U("capacity", 1) \o U("extendedPanId", 8)
            \o U("txOffset", 3) \o U("updateId", 1), 15, {<<0, 0>>},
          {<<"profile", 1, 1>>, <<"capacity", 2, 1>>, <<"extendedPanId", 3, 8>>,
           <<"txOffset", 11, 3>>, <<"updateId", 14, 1>>})

(***************************************************************************)
(* End Device Timeout: an index beyond 14 is refused on both sides.        *)
(***************************************************************************)
kMaxTimeoutIndex == 14
BuildTimeoutRequest(index) ==
    When(index <= kMaxTimeoutIndex, Num("timeoutIndex", index) \o U("configuration", 1))
ParseTimeoutRequest(p) ==
    AcceptIf(Len(p) >= 2 /\ p[1].n <= kMaxTimeoutIndex,
             {R("timeoutIndex", 0, 1), R("configuration", 1, 1)}, NoRest)
TimeoutResponse ==
    Fixed(U("status", 1) \o U("parentInfo", 1), 2, {},
          {<<"status", 0, 1>>, <<"parentInfo", 1, 1>>})
=============================================================================
