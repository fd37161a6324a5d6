----------------------------- MODULE FrameCodecs -----------------------------
(***************************************************************************)
(* One frame from its builder to its parser: Cases is what the builders    *)
(* produce (every format, its optional parts, lists from empty to longer   *)
(* than one item, payloads from empty to the longest accepted), and the    *)
(* frame that arrives is whole, cut short, or, for the blob in flash, torn *)
(* between two saves.                                                      *)
(***************************************************************************)
EXTENDS MacNwkFrames, ZdoFrames, ApsZclFrames, ClusterFrames, ZnpFrames

CONSTANT Lengths

VARIABLES sent, parsed
codecVars == <<sent, parsed>>

P(n) == U("payload", n)
Case(codec, wire, payload) == [codec |-> codec, wire |-> wire, payload |-> payload]

FixedFormats ==
    [NetworkStatus |-> NetworkStatus, Leave |-> Leave, RejoinRequest |-> RejoinRequest,
     RejoinResponse |-> RejoinResponse, BeaconPayload |-> BeaconPayload,
     TimeoutResponse |-> TimeoutResponse, NwkAddressRequest |-> NwkAddressRequest,
     IeeeAddressRequest |-> IeeeAddressRequest,
     ActiveEndpointRequest |-> ActiveEndpointRequest,
     SimpleDescriptorRequest |-> SimpleDescriptorRequest, DeviceAnnounce |-> DeviceAnnounce,
     StatusResponse |-> StatusResponse, MgmtRequest |-> MgmtRequest,
     MgmtLeaveRequest |-> MgmtLeaveRequest, NodeDescRequest |-> NodeDescRequest,
     NodeDescResponse |-> NodeDescResponse, PanIdUpdate |-> PanIdUpdate,
     ChannelUpdate |-> ChannelUpdate, SwitchKeyCommand |-> SwitchKeyCommand,
     DefaultResponse |-> DefaultResponse, ReportBool |-> ReportBool,
     ConfigureReportingBool |-> ConfigureReportingBool,
     ConfigureReportingStatus |-> ConfigureReportingStatus,
     QueryNextImageRequest |-> QueryNextImageRequest,
     ImageBlockRequest |-> ImageBlockRequest, UpgradeEndRequest |-> UpgradeEndRequest,
     ScanRequest |-> ScanRequest, ScanResponse |-> ScanResponse,
     IdentifyRequest |-> IdentifyRequest,
     NetworkJoinRouterRequest |-> NetworkJoinRouterRequest,
     Identify |-> Identify, MoveToLevel |-> MoveToLevelCommand, Step |-> StepCommand,
     MoveToHueSat |-> MoveToHueSat, MoveToColor |-> MoveToColorCommand,
     MoveToTemperature |-> MoveToTemperature, AddGroup |-> AddGroupCommand,
     RemoveGroup |-> RemoveGroupCommand, GroupScene |-> GroupScene,
     RemoveAllScenes |-> RemoveAllScenesCommand,
     StatusChangeNotification |-> StatusChangeNotification,
     EnrollRequest |-> EnrollRequest, EnrollResponse |-> EnrollResponse,
     SetpointRaiseLower |-> SetpointRaiseLower, GoToPercentage |-> GoToPercentage,
     PingResponse |-> PingResponse, VersionResponse |-> VersionResponse,
     DeviceInfoResponse |-> DeviceInfoResponse, DataConfirm |-> DataConfirm]

Acks(bit) == {{}, {bit}}

MacCases ==
    {Case("ShortData", BuildShortDataFrame(a, P(n)), P(n)) : a \in Acks(5), n \in Lengths}
      \cup {Case("InterPanMac", BuildInterPanFrame(m, a, P(n)), P(n)) :
              m \in {Short, Extended}, a \in Acks(5), n \in Lengths}
      \cup {Case("Beacon", BuildBeacon(f, P(n)), P(n)) :
              f \in {{}, {14}, {14, 15}}, n \in Lengths}
      \cup {Case("Beacon", ForeignBeacon(g, d, P(n)), P(n)) :
              g \in {0, 2}, d \in {0, 3}, n \in {0, 15}}
      \cup {Case("AssociationRequest", BuildAssociationRequest(a), <<>>) : a \in Acks(5)}
      \cup {Case("AssociationResponse", BuildAssociationResponse(a), <<>>) : a \in Acks(5)}
      \cup {Case("MacCommand", BuildBeaconRequest, <<>>),
            Case("MacCommand", BuildDataRequest, <<>>)}

NwkCases ==
    {Case("NwkData", BuildNwkDataFrame(P(n)), P(n)) : n \in Lengths}
      \cup {Case("NwkData", BuildDataFrameSourceRouted(r, P(n)), P(n)) :
              r \in {0, 1, 3, 8}, n \in Lengths}
      \cup {Case("NwkCommand", BuildNwkCommandFrame(5, P(n)), P(n)) : n \in Lengths}
      \cup {Case("RouteRequest", BuildRouteRequestPayload(o), <<>>) : o \in {{}, {4}, {3, 4}}}
      \cup {Case("RouteReply", BuildRouteReplyPayload(o), <<>>) : o \in SUBSET {4, 5}}
      \cup {Case("RouteRecord", BuildRouteRecordPayload(r), <<>>) : r \in {0, 1, 7}}
      \cup {Case("LinkStatus", BuildLinkStatusPayload(n), <<>>) : n \in {0, 1, 4, 31, 32}}
      \cup {Case("TimeoutRequest", BuildTimeoutRequest(i), <<>>) : i \in {0, 14, 15}}

ZdoCases ==
    {Case("AddressResponse", BuildAddressResponse(n), <<>>) : n \in 0..2}
      \cup {Case("EndpointList", BuildEndpointListResponse(n), <<>>) : n \in 0..3}
      \cup {Case("SimpleDescriptor", BuildSimpleDescriptor(i, o), <<>>) :
              i \in 0..2, o \in 0..2}
      \cup {Case("SimpleDescriptorResponse", BuildSimpleDescriptorResponse(d), <<>>) :
              d \in {<<>>, BuildSimpleDescriptor(0, 0), BuildSimpleDescriptor(2, 1)}}
      \cup {Case("MatchDescriptor", BuildMatchDescriptorRequest(i, o), <<>>) :
              i \in 0..2, o \in 0..2}
      \cup {Case("BindRequest", BuildBindRequest(m), <<>>) :
              m \in {kBindAddrModeGroup, kBindAddrModeIeee}}
      \cup {Case("MgmtLqi", BuildMgmtLqiResponse(n), <<>>) : n \in 0..3}
      \cup {Case("MgmtRtg", BuildMgmtRtgResponse(n), <<>>) : n \in 0..3}
      \cup {Case("Report", BuildReport(n), <<>>) : n \in {0, 1, 8, 9}}

SecuredHeader == BuildApsDataFrame({6}, 1, <<>>)

ApsCases ==
    {Case("ApsData", BuildApsDataFrame(a, 1, P(n)), P(n)) : a \in Acks(6), n \in Lengths}
      \cup {Case("ApsData", BuildGroupDataFrame(a, P(n)), P(n)) : a \in Acks(6), n \in Lengths}
      \cup {Case("ApsData", BuildFragment(a, P(n)), P(n)) : a \in Acks(6), n \in {0, 16}}
      \cup {Case("Fragment", BuildFragment(a, P(n)), P(n)) : a \in Acks(6), n \in {0, 16}}
      \cup {Case("ApsAck", BuildAckFrame, <<>>)}
      \cup {Case("InterPan", BuildInterPan(m, P(n)), P(n)) :
              m \in {{}, {1}, GroupMode}, n \in {0, 16}}
      \cup {Case("NetworkKey", BuildTransportNetworkKey(t), <<>>) : t \in {1, 5}}
      \cup {Case("RequestKey", BuildRequestKey(t), <<>>) : t \in {2, 3, 4}}
      \cup {Case("SecuredCommand", BuildSecureCommand(P(h), P(n)), P(n)) :
              h \in {2, 8}, n \in {1, 16, 35}}
      \cup {Case("SecuredData", SecureDataFrame(SecuredHeader \o P(n)), SecuredHeader \o P(n)) :
              n \in {1, 16}}

ZclCases ==
    {Case("Zcl", BuildZclCommandFrame(s, P(n)), P(n)) : s \in {{}, {0}, {0, 3}}, n \in Lengths}
      \cup {Case("Zcl", ManufacturerFrame(P(n)), P(n)) : n \in {0, 16}}
      \cup {Case("ReadAttributes", BuildReadAttributesPayload(n), <<>>) : n \in 1..3}
      \cup {Case("QueryNextImageResponse", BuildQueryNextImageResponse(t), <<>>) :
              t \in {0, 152}}
      \cup {Case("ImageBlockResponse", BuildImageBlockResponse(t, n), <<>>) :
              t \in {0, 151}, n \in {0, 16, 48}}

\* Attributes known and unknown, up to an answer that is too long.
Servers == {OnOffAttributes, BasicAttributes, TemperatureAttributes, HumidityAttributes,
            OccupancyAttributes, DoorLockAttributes, ElectricalAttributes}
ClusterCases ==
    {Case("GetMembership", BuildGetMembership(n), <<>>) : n \in 0..3}
      \cup {Case("ReadResponse", ReadAttributesResponse(v, asked, kZclMaxPayload), <<>>) :
              v \in Servers, asked \in {<<1>>, <<9>>, <<1, 9, 2>>, <<6, 5, 7, 9, 8>>,
                                       <<5, 6, 7, 5, 6, 7>>}}

GreenPowerCases ==
    {Case("Gpdf", BuildUnsecured(P(n)), P(n)) : n \in {0, 1, 16}}
      \cup {Case("SecuredGpdf", SecureGpdf(n), U("gpCommand", 1) \o U("gpPayload", n)) :
              n \in {0, 1, 47, 48}}
      \cup {Case("Commissioning", BuildCommissioning(o), <<>>) : o \in SUBSET {5, 6}}
      \cup {Case("Notification", BuildNotification(o, n), <<>>) :
              o \in SUBSET {8, 9}, n \in {0, 1, 48}}
      \cup {Case("Pairing", BuildPairing(o), <<>>) : o \in SUBSET {12, 13}}

\* Every request travels in an MT frame.
ZnpCases ==
    {Case("MtFrame", EncodeFrame(data), data) :
       data \in {NvWrite(1), NvWrite(4), NvWrite(32), StartupFromApp, PermitJoin}
                \cup {RegisterEndpoint(i, o) : i \in 0..2, o \in 0..2}
                \cup {AfDataRequest(P(n)) : n \in {0, 16, kMaxAfPayload}}}
      \cup {Case("IncomingMessage", IncomingMessage(P(n)), P(n)) : n \in Lengths}

Cases ==
    {c \in MacCases \cup NwkCases \cup ZdoCases \cup ApsCases \cup ZclCases
             \cup ClusterCases \cup GreenPowerCases \cup ZnpCases \cup {Case("Blob", SerializedState(1), <<>>)}
             \cup {Case(n, FixedFormats[n].wire, <<>>) : n \in DOMAIN FixedFormats} :
        c.wire # <<>>}

(***************************************************************************)
(* What decryption leaves is handed on whole.  The receiver of a secured   *)
(* command knows the length of its header.                                 *)
(***************************************************************************)
Opened(plain) == IF plain = <<>> THEN Reject ELSE Accept({}, 0)

Decoded(codec, p) ==
    CASE codec = "SecuredCommand" -> OpenCommand(p, Len(sent.wire) - 17 - Len(sent.payload))
      [] codec = "SecuredData" -> OpenDataFrame(p)
      [] codec = "SecuredGpdf" -> OpenGpdf(p)
      [] codec = "MtFrame" -> DecodeFrame(p)
      [] OTHER -> p

Parse(codec, p) ==
    CASE codec \in DOMAIN FixedFormats -> ParseFixed(FixedFormats[codec], p)
      [] codec = "ShortData" -> ParseShortDataFrame(p)
      [] codec = "InterPanMac" -> ParseInterPanFrame(p)
      [] codec = "Beacon" -> ParseBeacon(p)
      [] codec = "MacCommand" -> ParseMacCommandFrame(p)
      [] codec = "AssociationRequest" -> ParseAssociationRequest(p)
      [] codec = "AssociationResponse" -> ParseAssociationResponse(p)
      [] codec = "NwkData" -> ParseNwkDataFrame(p)
      [] codec = "NwkCommand" -> ParseNwkCommandFrame(p)
      [] codec = "RouteRequest" -> ParseRouteRequestPayload(p)
      [] codec = "RouteReply" -> ParseRouteReplyPayload(p)
      [] codec = "RouteRecord" -> ParseRouteRecordPayload(p)
      [] codec = "LinkStatus" -> ParseLinkStatusPayload(p)
      [] codec = "TimeoutRequest" -> ParseTimeoutRequest(p)
      [] codec = "AddressResponse" -> ParseAddressResponse(p)
      [] codec = "EndpointList" -> ParseEndpointListResponse(p)
      [] codec = "SimpleDescriptor" -> ParseSimpleDescriptor(p)
      [] codec = "SimpleDescriptorResponse" -> ParseSimpleDescriptorResponse(p)
      [] codec = "MatchDescriptor" -> ParseMatchDescriptorRequest(p)
      [] codec = "BindRequest" -> ParseBindRequest(p)
      [] codec = "MgmtLqi" -> ParseMgmtLqiResponse(p)
      [] codec = "MgmtRtg" -> ParseMgmtRtgResponse(p)
      [] codec = "Report" -> ParseReport(p)
      [] codec = "ApsData" -> ParseApsDataFrame(p)
      [] codec = "Fragment" -> ParseFragment(p)
      [] codec = "ApsAck" -> ParseAckFrame(p)
      [] codec = "InterPan" -> ParseInterPan(p)
      [] codec = "NetworkKey" -> ParseTransportNetworkKey(p)
      [] codec = "RequestKey" -> ParseRequestKey(p)
      [] codec = "Zcl" -> ParseZclFrame(p)
      [] codec = "ReadAttributes" -> ParseReadAttributes(p)
      [] codec = "QueryNextImageResponse" -> ParseQueryNextImageResponse(p)
      [] codec = "ImageBlockResponse" -> ParseImageBlockResponse(p)
      [] codec = "Gpdf" -> ParseGpdf(p)
      [] codec = "Commissioning" -> ParseCommissioning(p)
      [] codec = "Notification" -> ParseNotification(p)
      [] codec = "Pairing" -> ParsePairing(p)
      [] codec = "GetMembership" -> ParseGetMembership(p)
      [] codec = "ReadResponse" -> ReadRecords(p)
      [] codec = "IncomingMessage" -> ParseIncomingMessage(p)
      [] codec = "Blob" -> Deserialize(p)
      [] OTHER -> Opened(p)

Answer(p) ==
    LET over == Decoded(sent.codec, p)
    IN [from |-> p, over |-> over, a |-> Parse(sent.codec, over)]

Nothing == [from |-> <<>>, over |-> <<>>, a |-> Reject]

CodecInit == sent \in Cases /\ parsed = Nothing

(***************************************************************************)
(* The first n bytes arrive.                                               *)
(***************************************************************************)
Receive(n) ==
    /\ parsed = Nothing
    /\ parsed' = Answer(SubSeq(sent.wire, 1, n))
    /\ UNCHANGED sent

(***************************************************************************)
(* Power is lost when n bytes of the blob are written over the older one.  *)
(***************************************************************************)
LoadTorn(n) ==
    /\ sent.codec = "Blob" /\ parsed = Nothing
    /\ parsed' = Answer(SubSeq(SerializedState(2), 1, n) \o SubSeq(sent.wire, n + 1, kBlobSize))
    /\ UNCHANGED sent

CodecNext ==
    \/ \E n \in 0..Len(sent.wire) : Receive(n)
    \/ \E n \in 1..(kBlobSize - 1) : LoadTorn(n)

CodecSpec == CodecInit /\ [][CodecNext]_codecVars

(***************************************************************************)
(* A frame that arrives whole is accepted, every field the builder wrote   *)
(* is read, each from its own bytes, and the payload handed to the layer   *)
(* above is the payload that was given to the builder.                     *)
(***************************************************************************)
Header == SubSeq(sent.wire, 1, Len(sent.wire) - Len(sent.payload))

RoundTrip ==
    parsed # Nothing /\ parsed.from = sent.wire =>
        /\ parsed.a.ok
        /\ parsed.over = sent.wire =>
             Fields(Header) \subseteq {<<r.f, r.k>> : r \in parsed.a.reads}
        /\ \A r \in parsed.a.reads : Right(parsed.over, r)
        /\ parsed.a.rest # NoRest => Rest(parsed.over, parsed.a) = sent.payload

(***************************************************************************)
(* A frame that lost its tail is refused, or everything the parser reads   *)
(* lies inside the bytes that arrived, is what the builder put there, and  *)
(* what is handed on is a beginning of the payload; a secured frame, an    *)
(* MT frame or a saved state that is not whole is never accepted.          *)
(***************************************************************************)
NoOverread ==
    parsed.a.ok =>
        /\ \A r \in parsed.a.reads : Right(parsed.over, r)
        /\ parsed.a.rest # NoRest =>
             /\ parsed.a.rest <= Len(parsed.over)
             /\ IsPrefix(Rest(parsed.over, parsed.a), sent.payload)
        /\ sent.codec \in {"SecuredCommand", "SecuredData", "SecuredGpdf", "MtFrame", "Blob"} =>
             parsed.from \in {sent.wire, SerializedState(2)}
=============================================================================
