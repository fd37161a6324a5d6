---------------------------- MODULE ApsZclFrames ----------------------------
(***************************************************************************)
(* The frames above the network layer: ZigbeeAps.cpp, the fragments of     *)
(* ZigbeeApsFragment.h, ZigbeeInterPan.h, ZigbeeApsKey.h, the envelope of  *)
(* ZigbeeApsSecurity.h, ZigbeeZcl.cpp, and the OTA, Green Power, Touchlink *)
(* and persistence formats.                                                *)
(***************************************************************************)
EXTENDS WireFormat

kApsMaxFrame == 108
kApsMaxPayload == kApsMaxFrame - 8
kZclMaxPayload == 97

(***************************************************************************)
(* APS frame control: type in bits 0-1 (data 0, command 1, ack 2),         *)
(* delivery mode 2-3 (unicast 0, group 3), security 5, ack request 6,      *)
(* extended header 7.  app is the number of the destination endpoint and   *)
(* of the profile: 0 for the device object, 1 for an application.          *)
(***************************************************************************)
GroupMode == {0, 1}
ApsType(p) == SubField(p[1].s, 0, 2)
ApsHead(s, app) ==
    Bits("fcf", 1, s) \o Num("dstEndpoint", app) \o U("cluster", 2)
      \o Wide("profile", 2, app) \o U("srcEndpoint", 1) \o U("counter", 1)
ApsReads ==
    {R("fcf", 0, 1), R("dstEndpoint", 1, 1), R("cluster", 2, 2), R("profile", 4, 2),
     R("srcEndpoint", 6, 1), R("counter", 7, 1)}

BuildApsDataFrame(ack, app, payload) ==
    When(Len(payload) <= kApsMaxPayload, ApsHead(ack, app) \o payload)

BuildGroupDataFrame(ack, payload) ==
    When(Len(payload) <= kApsMaxFrame - 9,
         Bits("fcf", 1, {2, 3} \cup ack) \o U("group", 2) \o U("cluster", 2)
           \o U("profile", 2) \o U("srcEndpoint", 1) \o U("counter", 1) \o payload)

BuildAckFrame == ApsHead({1}, 1)

ParseAckFrame(p) == AcceptIf(Len(p) >= 8 /\ ApsType(p) = {1}, ApsReads, NoRest)

ParseApsDataFrame(p) ==
    IF Len(p) < 8 \/ ApsType(p) # {} \/ 5 \in p[1].s
       \/ SubField(p[1].s, 2, 2) \notin {{}, GroupMode}
    THEN Reject
    ELSE LET group == SubField(p[1].s, 2, 2) = GroupMode
             h == IF group THEN 9 ELSE 8
             ext == 7 \in p[1].s
             head == IF group
                     THEN {R("fcf", 0, 1), R("group", 1, 2), R("cluster", 3, 2),
                           R("profile", 5, 2), R("srcEndpoint", 7, 1), R("counter", 8, 1)}
                     ELSE ApsReads
         IN AcceptIf(Len(p) >= h /\ (ext => h + 2 <= Len(p)),
                head \cup (IF ext THEN {R("extFcf", h, 1), R("block", h + 1, 1)} ELSE {}),
                IF ext THEN h + 2 ELSE h)

BuildFragment(ack, payload) ==
    ApsHead({7} \cup ack, 1) \o U("extFcf", 1) \o U("block", 1) \o payload

ParseFragment(p) ==
    AcceptIf(Len(p) >= 10 /\ 7 \in p[1].s /\ ApsType(p) = {},
             ApsReads \cup {R("extFcf", 8, 1), R("block", 9, 1)}, 10)

(***************************************************************************)
(* Inter-PAN: stub network octet, stub APS control, optional group.        *)
(***************************************************************************)
kStubNwkHeader == 11

BuildInterPan(mode, payload) ==
    Const(kStubNwkHeader) \o Bits("fc", 1, {0, 1} \cup {b + 2 : b \in mode})
      \o When(mode = GroupMode, U("group", 2)) \o U("cluster", 2) \o U("profile", 2)
      \o payload

ParseInterPan(p) ==
    IF Len(p) < 6 \/ p[1].n # kStubNwkHeader \/ SubField(p[2].s, 0, 2) # {0, 1}
    THEN Reject
    ELSE LET group == SubField(p[2].s, 2, 2) = GroupMode
             at == IF group THEN 4 ELSE 2
         IN AcceptIf(Trunc8(at + 4) <= Len(p),
                {R("fc", 1, 1), R("cluster", at, 2), R("profile", at + 2, 2)}
                  \cup (IF group THEN {R("group", 2, 2)} ELSE {}), at + 4)

(***************************************************************************)
(* Key transport.  keyType 3 is an application link key, 1 and 5 network   *)
(* keys.                                                                   *)
(***************************************************************************)
BuildTransportNetworkKey(type) ==
    Const(5) \o Num("keyType", type) \o U("key", 16) \o U("keySeq", 1) \o U("dst", 8)
      \o U("src", 8)

ParseTransportNetworkKey(p) ==
    AcceptIf(Len(p) >= 35 /\ p[1].n = 5 /\ p[2].n \in {1, 5},
             {R("keyType", 1, 1), R("key", 2, 16), R("keySeq", 18, 1), R("dst", 19, 8),
              R("src", 27, 8)}, NoRest)

BuildRequestKey(type) ==
    Const(8) \o Num("keyType", type) \o When(type = 3, U("partner", 8))

ParseRequestKey(p) ==
    AcceptIf(Len(p) >= 2 /\ p[1].n = 8 /\ (p[2].n = 3 => Len(p) >= 10),
             {R("keyType", 1, 1)} \cup (IF p[2].n = 3 THEN {R("partner", 2, 8)} ELSE {}),
             NoRest)

SwitchKeyCommand ==
    Fixed(Const(9) \o U("keySeq", 1), 2, {<<0, 9>>}, {<<"keySeq", 1, 1>>})

(***************************************************************************)
(* A CCM* envelope: header, auxiliary header, ciphertext of the payload,   *)
(* 4 bytes of MIC.  The MIC fits exactly the header and payload it was     *)
(* computed over: its n digests the numbers of the header and both lengths.*)
(***************************************************************************)
Cipher(q) == [j \in DOMAIN q |-> [q[j] EXCEPT !.e = TRUE]]
Plain(q) == [j \in DOMAIN q |-> [q[j] EXCEPT !.e = FALSE]]
Digest(q) == FoldLeft(LAMBDA d, b : (31 * d + b.n + 1) % 65521, Len(q), q)
Mic(header, payload) == Wide("mic", 4, Digest(header) + 65536 * Len(payload))
Authentic(header, cipher, mic) ==
    mic = Mic(header, cipher) /\ \A j \in DOMAIN cipher : cipher[j].e

BuildSecureCommand(header, payload) ==
    header \o U("control", 1) \o U("counter32", 4) \o U("srcIeee", 8) \o Cipher(payload)
      \o Mic(header, payload)

OpenCommand(p, h) ==
    IF Len(p) < h + 17 THEN <<>>
    ELSE LET cipher == SubSeq(p, h + 14, Len(p) - 4)
         IN When(Authentic(SubSeq(p, 1, h), cipher, SubSeq(p, Len(p) - 3, Len(p))),
                 Plain(cipher))

SecureDataFrame(apdu) ==
    BuildSecureCommand(<<[apdu[1] EXCEPT !.s = @ \cup {5}]>> \o SubSeq(apdu, 2, 8),
                       SubSeq(apdu, 9, Len(apdu)))

(***************************************************************************)
(* A plaintext of no bytes is told apart from a failure by nobody: both    *)
(* are the length 0, and the frame is dropped.                             *)
(***************************************************************************)
OpenDataFrame(p) ==
    LET plain == OpenCommand(p, 8)
    IN IF Len(p) < 8 \/ plain = <<>> THEN <<>>
       ELSE <<[p[1] EXCEPT !.s = @ \ {5}]>> \o SubSeq(p, 2, 8) \o plain

(***************************************************************************)
(* ZCL.  Frame control: type in bits 0-1, manufacturer specific 2,         *)
(* direction 3, disable default response 4.                                *)
(***************************************************************************)
BuildZclCommandFrame(s, payload) ==
    When(Len(payload) <= kZclMaxPayload,
         Bits("fcf", 1, s) \o U("sequence", 1) \o U("commandId", 1) \o payload)

ManufacturerFrame(payload) ==
    Bits("fcf", 1, {0, 2}) \o U("manufacturer", 2) \o U("sequence", 1)
      \o U("commandId", 1) \o payload

ParseZclFrame(p) ==
    IF Len(p) < 3 \/ 1 \in p[1].s THEN Reject
    ELSE LET m == 2 \in p[1].s
             at == IF m THEN 3 ELSE 1
         IN AcceptIf(Len(p) >= at + 2,
                {R("fcf", 0, 1), R("sequence", at, 1), R("commandId", at + 1, 1)}
                  \cup (IF m THEN {R("manufacturer", 1, 2)} ELSE {}), at + 2)

BuildReadAttributesPayload(n) == Words("attribute", n)
ParseReadAttributes(p) ==
    Accept({RItem("attribute", k, 2 * k - 2, 2) : k \in 1..(Len(p) \div 2)}, NoRest)

DefaultResponse ==
    Fixed(U("commandId", 1) \o U("status", 1), 2, {},
          {<<"commandId", 0, 1>>, <<"status", 1, 1>>})

kTypeBoolean == 16
ReportBool ==
    Fixed(U("attribute", 2) \o Const(kTypeBoolean) \o U("value", 1), 4,
          {<<2, kTypeBoolean>>}, {<<"attribute", 0, 2>>, <<"value", 3, 1>>})
ConfigureReportingBool ==
    Fixed(Const(0) \o U("attribute", 2) \o Const(kTypeBoolean) \o U("min", 2) \o U("max", 2),
          8, {<<0, 0>>, <<3, kTypeBoolean>>},
          {<<"attribute", 1, 2>>, <<"min", 4, 2>>, <<"max", 6, 2>>})
ConfigureReportingStatus ==
    Fixed(U("status", 1) \o U("direction", 1) \o U("attribute", 2), 4, {},
          {<<"status", 0, 1>>, <<"direction", 1, 1>>, <<"attribute", 2, 2>>})

(***************************************************************************)
(* OTA upgrade.  A response other than success (0) is its status alone.    *)
(***************************************************************************)
Image == U("manufacturer", 2) \o U("imageType", 2) \o U("version", 4)
ImageReads == {<<"manufacturer", 1, 2>>, <<"imageType", 3, 2>>, <<"version", 5, 4>>}

QueryNextImageRequest == Fixed(Const(0) \o Image, 9, {}, ImageReads)
ImageBlockRequest ==
    Fixed(Const(0) \o Image \o U("offset", 4) \o U("maxData", 1), 14, {},
          ImageReads \cup {<<"offset", 9, 4>>, <<"maxData", 13, 1>>})
UpgradeEndRequest == Fixed(U("status", 1) \o Image, 9, {}, ImageReads \cup {<<"status", 0, 1>>})

BuildQueryNextImageResponse(status) ==
    Num("status", status) \o When(status = 0, Image \o U("size", 4))
ParseQueryNextImageResponse(p) ==
    IF Len(p) < 1 THEN Reject
    ELSE IF p[1].n # 0 THEN Accept({R("status", 0, 1)}, NoRest)
    ELSE AcceptIf(Len(p) >= 13, {R("status", 0, 1), R("size", 9, 4)}
             \cup {R(t[1], t[2], t[3]) : t \in ImageReads}, NoRest)

BuildImageBlockResponse(status, n) ==
    Num("status", status)
      \o When(status = 0, Image \o U("offset", 4) \o Num("dataSize", n) \o U("data", n))
ParseImageBlockResponse(p) ==
    IF Len(p) < 1 THEN Reject
    ELSE IF p[1].n # 0 THEN Accept({R("status", 0, 1)}, NoRest)
    ELSE IF Len(p) < 14 THEN Reject
    ELSE AcceptIf(Len(p) >= Trunc8(14 + p[14].n),
             {R("status", 0, 1), R("offset", 9, 4), R("dataSize", 13, 1),
              R("data", 14, p[14].n)} \cup {R(t[1], t[2], t[3]) : t \in ImageReads}, NoRest)

(***************************************************************************)
(* Green Power.  Frame control: version 3 in bits 2-5, extension 7; the    *)
(* extended control has the security level in bits 3-4 (0, or 3 for        *)
(* encrypted with counter and MIC).                                        *)
(***************************************************************************)
GpHead(level) == Bits("fc", 1, {2, 3, 7}) \o Bits("extFc", 1, level) \o U("srcId", 4)

BuildUnsecured(payload) == GpHead({}) \o U("gpCommand", 1) \o payload
SecureGpdf(n) ==
    LET head == GpHead({3, 4}) \o U("counter32", 4)
        plain == U("gpCommand", 1) \o U("gpPayload", n)
    IN When(n < 48, head \o Cipher(plain) \o Mic(head, plain))

ParseGpdf(p) ==
    IF Len(p) < 6 \/ SubField(p[1].s, 2, 4) # {0, 1} THEN Reject
    ELSE LET secured == {4} \subseteq p[2].s
             at == IF secured THEN 10 ELSE 6
         IN AcceptIf(IF secured THEN Len(p) >= 10 ELSE Len(p) > 6 /\ Len(p) - 7 <= 48,
                {R("fc", 0, 1), R("extFc", 1, 1), R("srcId", 2, 4)}
                  \cup (IF secured THEN {R("counter32", 6, 4)} ELSE {R("gpCommand", 6, 1)}),
                IF secured THEN 10 ELSE 7)

OpenGpdf(p) ==
    IF ~ParseGpdf(p).ok \/ ~({3, 4} \subseteq p[2].s) \/ Len(p) < 15 \/ Len(p) > 62 THEN <<>>
    ELSE LET cipher == SubSeq(p, 11, Len(p) - 4)
         IN When(Authentic(SubSeq(p, 1, 10), cipher, SubSeq(p, Len(p) - 3, Len(p))),
                 Plain(cipher))

BuildCommissioning(options) ==
    U("device", 1) \o Bits("options", 1, options) \o When(5 \in options, U("key", 16))
      \o When(6 \in options, U("outgoingCounter", 4))
ParseCommissioning(p) ==
    IF Len(p) < 2 THEN Reject
    ELSE LET k == 5 \in p[2].s
             c == 6 \in p[2].s
             at == IF k THEN 18 ELSE 2
         IN AcceptIf((k => Len(p) >= 18) /\ (c => Len(p) >= at + 4),
                {R("device", 0, 1), R("options", 1, 1)}
                  \cup (IF k THEN {R("key", 2, 16)} ELSE {})
                  \cup (IF c THEN {R("outgoingCounter", at, 4)} ELSE {}), NoRest)

BuildNotification(options, n) ==
    Bits("options", 2, options) \o U("srcId", 4) \o U("counter32", 4) \o U("gpCommand", 1)
      \o Num("length", n) \o U("gpPayload", n) \o When(8 \in options, U("mic", 4))
      \o When(9 \in options, U("gppShort", 2) \o U("gppLink", 1))
ParseNotification(p) ==
    IF Len(p) < 12 THEN Reject
    ELSE LET n == p[12].n
             m == 8 \in p[1].s
             x == 9 \in p[1].s
             at == IF m THEN 16 + n ELSE 12 + n
         IN AcceptIf(n <= 48 /\ Trunc8(12 + n) <= Len(p) /\ (m => Trunc8(16 + n) <= Len(p))
                       /\ (x => Trunc8(at + 3) <= Len(p)),
                {R("options", 0, 2), R("srcId", 2, 4), R("counter32", 6, 4),
                 R("gpCommand", 10, 1), R("length", 11, 1), R("gpPayload", 12, n)}
                  \cup (IF m THEN {R("mic", 12 + n, 4)} ELSE {})
                  \cup (IF x THEN {R("gppShort", at, 2), R("gppLink", at + 2, 1)} ELSE {}),
                NoRest)

BuildPairing(options) ==
    Bits("options", 3, options) \o U("srcId", 4) \o U("sink", 2) \o U("device", 1)
      \o When(12 \in options, U("counter32", 4)) \o When(13 \in options, U("key", 16))
ParsePairing(p) ==
    IF Len(p) < 10 THEN Reject
    ELSE LET c == 12 \in p[1].s
             k == 13 \in p[1].s
             at == IF c THEN 14 ELSE 10
         IN AcceptIf((c => Len(p) >= 14) /\ (k => Len(p) >= at + 16),
                {R("options", 0, 3), R("srcId", 3, 4), R("sink", 7, 2), R("device", 9, 1)}
                  \cup (IF c THEN {R("counter32", 10, 4)} ELSE {})
                  \cup (IF k THEN {R("key", at, 16)} ELSE {}), NoRest)

(***************************************************************************)
(* Touchlink.                                                              *)
(***************************************************************************)
Transaction == <<"transaction", 0, 4>>
ScanRequest ==
    Fixed(U("transaction", 4) \o U("zigbeeInfo", 1) \o U("zllInfo", 1), 6, {},
          {Transaction, <<"zigbeeInfo", 4, 1>>, <<"zllInfo", 5, 1>>})
ScanResponse ==
    Fixed(U("transaction", 4) \o U("rssi", 1) \o U("zigbeeInfo", 1) \o U("zllInfo", 1)
            \o U("keyBitmask", 2) \o U("response", 4) \o U("epid", 8) \o U("updateId", 1)
            \o U("channel", 1) \o U("pan", 2) \o U("address", 2) \o U("subDevices", 1),
          28, {},
          {Transaction, <<"rssi", 4, 1>>, <<"zigbeeInfo", 5, 1>>, <<"zllInfo", 6, 1>>,
           <<"keyBitmask", 7, 2>>, <<"response", 9, 4>>, <<"epid", 13, 8>>,
           <<"updateId", 21, 1>>, <<"channel", 22, 1>>, <<"pan", 23, 2>>,
           <<"address", 25, 2>>, <<"subDevices", 27, 1>>})
IdentifyRequest ==
    Fixed(U("transaction", 4) \o U("duration", 2), 6, {}, {Transaction, <<"duration", 4, 2>>})
NetworkJoinRouterRequest ==
    Fixed(U("transaction", 4) \o U("keyIndex", 1) \o U("encryptedKey", 16)
            \o U("updateId", 1) \o U("channel", 1) \o U("pan", 2) \o U("address", 2), 27, {},
          {Transaction, <<"keyIndex", 4, 1>>, <<"encryptedKey", 5, 16>>,
           <<"updateId", 21, 1>>, <<"channel", 22, 1>>, <<"pan", 23, 2>>,
           <<"address", 25, 2>>})

(***************************************************************************)
(* The flash blob of save number g: its checksum fits when every byte      *)
(* before it is of the same save.                                          *)
(***************************************************************************)
kBlobSize == 37
SerializedState(g) ==
    AtItem("magic", g, 4) \o AtItem("blobVersion", g, 1) \o AtItem("panId", g, 2)
      \o AtItem("epid", g, 8) \o AtItem("channel", g, 1) \o AtItem("nwkAddress", g, 2)
      \o AtItem("parent", g, 2) \o AtItem("depth", g, 1) \o AtItem("deviceType", g, 1)
      \o AtItem("ieee", g, 8) \o AtItem("frameCounter", g, 4)
      \o AtItem("keySequence", g, 1) \o AtItem("crc", g, 2)
ChecksumFits(p) == \A j \in 1..kBlobSize : p[j].k = p[kBlobSize].k
Deserialize(p) ==
    IF Len(p) < kBlobSize THEN Reject
    ELSE LET g == p[kBlobSize].k
         IN AcceptIf(p[1].f = "magic" /\ p[5].f = "blobVersion" /\ ChecksumFits(p),
                {RItem(t[1], g, t[2], t[3]) :
                   t \in {<<"magic", 0, 4>>, <<"blobVersion", 4, 1>>, <<"panId", 5, 2>>,
                          <<"epid", 7, 8>>, <<"channel", 15, 1>>, <<"nwkAddress", 16, 2>>,
                          <<"parent", 18, 2>>, <<"depth", 20, 1>>, <<"deviceType", 21, 1>>,
                          <<"ieee", 22, 8>>, <<"frameCounter", 30, 4>>,
                          <<"keySequence", 34, 1>>, <<"crc", 35, 2>>}}, NoRest)
=============================================================================
