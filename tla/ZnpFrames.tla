------------------------------ MODULE ZnpFrames ------------------------------
(***************************************************************************)
(* The frames between the host and the Z-Stack network processor: the      *)
(* envelope of every MT frame, the requests as the driver lays them out,   *)
(* and the responses and indications as the driver reads them.             *)
(***************************************************************************)
EXTENDS WireFormat

kMtMaxData == 250
kMaxAfPayload == 100

(***************************************************************************)
(* SOF, LEN, the two command bytes, the data and their check sequence,     *)
(* known by the length of what it covers: frames are cut short, their      *)
(* bytes not changed.                                                      *)
(***************************************************************************)
ComputeFcs(body) == Num("fcs", Len(body))
MtBody(data) == Num("mtLength", Len(data)) \o U("cmd0", 1) \o U("cmd1", 1) \o data
EncodeFrame(data) ==
    When(Len(data) <= kMtMaxData, Const(254) \o MtBody(data) \o ComputeFcs(MtBody(data)))
DecodeFrame(p) ==
    When(/\ Len(p) >= 5 /\ p[1].n = 254 /\ p[2].n + 5 = Len(p)
         /\ ComputeFcs(SubSeq(p, 2, Len(p) - 1)) = <<p[Len(p)]>>,
         SubSeq(p, 5, Len(p) - 1))

(***************************************************************************)
(* The data of the requests, <<>> where the call refuses its arguments.    *)
(***************************************************************************)
NvWrite(n) ==
    When(n <= 32, U("nvId", 2) \o U("nvOffset", 1) \o Num("nvLength", n) \o U("nvValue", n))
StartupFromApp == U("startDelay", 2)
PermitJoin == U("addrMode", 1) \o U("destination", 2) \o U("seconds", 1) \o U("significance", 1)
RegisterEndpoint(inputs, outputs) ==
    U("endpoint", 1) \o U("profile", 2) \o U("deviceId", 2) \o U("deviceVersion", 1)
      \o U("latency", 1) \o Num("inCount", inputs)
      \o Words("inCluster", inputs)
      \o Num("outCount", outputs) \o Words("outCluster", outputs)
AfDataRequest(payload) ==
    When(Len(payload) <= kMaxAfPayload,
         U("destination", 2) \o U("dstEndpoint", 1) \o U("srcEndpoint", 1) \o U("cluster", 2)
           \o U("transaction", 1) \o U("options", 1) \o U("radius", 1)
           \o Num("afLength", Len(payload)) \o payload)

(***************************************************************************)
(* What the network processor sends, and the shortest of it that is read.  *)
(***************************************************************************)
PingResponse == Fixed(U("capabilities", 2), 2, {}, {<<"capabilities", 0, 2>>})
VersionResponse ==
    Fixed(U("transportRev", 1) \o U("product", 1) \o U("major", 1) \o U("minor", 1)
            \o U("maint", 1), 5, {},
          {<<"transportRev", 0, 1>>, <<"product", 1, 1>>, <<"major", 2, 1>>,
           <<"minor", 3, 1>>, <<"maint", 4, 1>>})
DeviceInfoResponse ==
    Fixed(U("status", 1) \o U("ieee", 8) \o U("shortAddr", 2) \o U("deviceType", 1)
            \o U("deviceState", 1) \o U("assocDevices", 1), 14, {},
          {<<"status", 0, 1>>, <<"ieee", 1, 8>>, <<"shortAddr", 9, 2>>,
           <<"deviceType", 11, 1>>, <<"deviceState", 12, 1>>, <<"assocDevices", 13, 1>>})
DataConfirm ==
    Fixed(U("status", 1) \o U("endpoint", 1) \o U("transaction", 1), 3, {},
          {<<"status", 0, 1>>, <<"endpoint", 1, 1>>, <<"transaction", 2, 1>>})
IncomingMessage(payload) ==
    U("group", 2) \o U("cluster", 2) \o U("srcAddr", 2) \o U("srcEndpoint", 1)
      \o U("dstEndpoint", 1) \o U("broadcast", 1) \o U("linkQuality", 1) \o Ignored(5)
      \o U("transaction", 1) \o Num("afLength", Len(payload)) \o payload
ParseIncomingMessage(p) ==
    IF Len(p) < 17 THEN Reject
    ELSE AcceptIf(17 + p[17].n <= Len(p),
                  {R("group", 0, 2), R("cluster", 2, 2), R("srcAddr", 4, 2),
                   R("srcEndpoint", 6, 1), R("dstEndpoint", 7, 1), R("broadcast", 8, 1),
                   R("linkQuality", 9, 1), R("transaction", 15, 1), R("afLength", 16, 1)}, 17)
=============================================================================
