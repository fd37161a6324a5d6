----------------------------- MODULE FrameStack -----------------------------
(***************************************************************************)
(* The stack of CC2530Radio.cpp from a send call to the callback of the    *)
(* destination: ZCL in APS in NWK, NWK security, MAC, over relays that     *)
(* open, rebuild and secure the frame again, up through the receiver's     *)
(* dispatch.  Node 0 sends, the relays are 1..n, the destination is Target.*)
(***************************************************************************)
EXTENDS MacNwkFrames, ApsZclFrames

CONSTANTS Sizes, MaxRelays

Target == 99

ASSUME SizesAssumption == Sizes \subseteq Nat /\ MaxRelays \in Nat /\ MaxRelays < Target

(***************************************************************************)
(* keyed says whether the network is secured; asked is the call, air the   *)
(* frame on its way to node hop, handed what callbacks were given: triples *)
(* of node, handler and bytes.                                             *)
(***************************************************************************)
VARIABLES keyed, asked, air, hop, handed
stackVars == <<keyed, asked, air, hop, handed>>

MacKinds == {"associationRequest", "associationResponse", "beaconRequest", "beacon"}
Kinds == MacKinds \cup
  {"aps", "zcl", "zdo", "apsAck", "nwkCommand", "sourceRouted", "unsecured"}

(***************************************************************************)
(* The bytes of the NWK destination carry its address.                     *)
(***************************************************************************)
Addressed(npdu, d) ==
    [j \in DOMAIN npdu |->
        IF j \in {3, 4} /\ npdu[j].f = "dst" THEN [npdu[j] EXCEPT !.n = d] ELSE npdu[j]]

nwkHeaderLength(p) ==
    IF Len(p) < 8 THEN 8
    ELSE 8 + (IF 10 \in p[1].s /\ Len(p) > 8 THEN 2 + 2 * p[9].n ELSE 0)

(***************************************************************************)
(* NWK security.  The relay index of a source route is not authenticated;  *)
(* header and auxiliary header together may have 40 bytes.                 *)
(***************************************************************************)
kAuxLen == 14
kMaxAad == 40

SecurityBit(p, on) ==
    [j \in DOMAIN p |-> IF j > 2 THEN p[j]
                        ELSE [p[j] EXCEPT !.s = IF on THEN @ \cup {9} ELSE @ \ {9}]]

AuthenticatedHeader(h) ==
    [j \in DOMAIN h |-> IF h[j].f = "relayIndex" THEN [h[j] EXCEPT !.n = 0] ELSE h[j]]

secureNpdu(p) ==
    LET n == nwkHeaderLength(p)
        header == SecurityBit(SubSeq(p, 1, n), TRUE)
        body == SubSeq(p, n + 1, Len(p))
    IN When(n <= Len(p) /\ n + kAuxLen <= kMaxAad,
            header \o U("control", 1) \o U("frameCounter", 4) \o U("srcIeee", 8)
              \o U("keySeq", 1) \o Cipher(body) \o Mic(AuthenticatedHeader(header), body))

openNpdu(p) ==
    LET n == nwkHeaderLength(p)
        header == SubSeq(p, 1, n)
        cipher == SubSeq(p, n + kAuxLen + 1, Len(p) - 4)
    IN IF Len(p) < n + kAuxLen + 4 \/ n + kAuxLen > kMaxAad THEN <<>>
       ELSE When(SubSeq(p, Len(p) - 3, Len(p)) = Mic(AuthenticatedHeader(header), cipher),
                 SecurityBit(header, FALSE) \o Plain(cipher))

applyTxSecurity(p) == IF keyed /\ p # <<>> THEN secureNpdu(p) ELSE p

(***************************************************************************)
(* The send calls; <<>> is a call that returned false.                     *)
(***************************************************************************)
sendData(npdu) == When(npdu # <<>>, BuildShortDataFrame({5}, npdu))
sendNwkData(apdu) ==
    sendData(applyTxSecurity(When(apdu # <<>>, Addressed(BuildNwkDataFrame(apdu), Target))))
sendNwkDataUnsecured(apdu) ==
    sendData(When(apdu # <<>>, Addressed(BuildNwkDataFrame(apdu), Target)))
sendNwkDataSourceRouted(relays, index, payload) ==
    LET npdu == BuildDataFrameSourceRouted(relays, payload)
    IN sendData(applyTxSecurity(When(npdu # <<>>,
           [Addressed(npdu, Target) EXCEPT ![10] = [@ EXCEPT !.n = index]])))
sendNwkCommand(payload) ==
    LET npdu == BuildNwkCommandFrame(5, payload)
    IN sendData(applyTxSecurity(When(npdu # <<>>, Addressed(npdu, Target))))
sendApsData(payload) == sendNwkData(BuildApsDataFrame({}, 1, payload))
sendZdoCommand(payload) == sendNwkData(BuildApsDataFrame({}, 0, payload))
sendZclCommand(payload) ==
    LET zcl == BuildZclCommandFrame({0}, payload)
    IN sendNwkData(When(zcl # <<>>, BuildApsDataFrame({}, 1, zcl)))

sendAssociationRequest == BuildAssociationRequest({5})
sendAssociationResponse == BuildAssociationResponse({5})
sendBeaconRequest == BuildBeaconRequest
sendBeacon(payload) == BuildBeacon({15}, payload)

Payload(n) == U("payload", n)

Psdu(call) ==
    CASE call.kind = "zcl" -> sendZclCommand(Payload(call.size))
      [] call.kind = "aps" -> sendApsData(Payload(call.size))
      [] call.kind = "zdo" -> sendZdoCommand(Payload(call.size))
      [] call.kind = "associationRequest" -> sendAssociationRequest
      [] call.kind = "associationResponse" -> sendAssociationResponse
      [] call.kind = "beaconRequest" -> sendBeaconRequest
      [] call.kind = "beacon" -> sendBeacon(Payload(call.size))
      [] call.kind = "apsAck" -> sendNwkData(BuildAckFrame)
      [] call.kind = "nwkCommand" -> sendNwkCommand(Payload(call.size))
      [] call.kind = "sourceRouted" ->
           sendNwkDataSourceRouted(call.relays, 0, Payload(call.size))
      [] OTHER -> sendNwkDataUnsecured(BuildApsDataFrame({}, 1, Payload(call.size)))

(***************************************************************************)
(* What feed() hands to which callback: MAC data, the NPDU once opened,    *)
(* and, when this node is the NWK destination, the layers above.  The ZCL  *)
(* callback sees every APS payload that parses as ZCL, those of the device *)
(* object too.                                                             *)
(***************************************************************************)
UpperLayers(apdu) ==
    LET aps == ParseApsDataFrame(apdu)
        asdu == Rest(apdu, aps)
        zcl == ParseZclFrame(asdu)
    IN (IF ParseAckFrame(apdu).ok THEN {<<"apsAck", <<>>>>} ELSE {})
         \cup (IF ~aps.ok THEN {}
               ELSE {<<"aps", asdu>>}
                      \cup (IF apdu[2].n = 0 /\ apdu[5].n = 0 THEN {<<"zdo", asdu>>} ELSE {})
                      \cup (IF zcl.ok THEN {<<"zcl", Rest(asdu, zcl)>>} ELSE {}))

Plaintext(npdu) ==
    IF keyed /\ Len(npdu) >= 8 /\ 9 \in npdu[2].s THEN openNpdu(npdu) ELSE npdu

\* Mutant: a relay hands everything up.
LocalEverywhere(npdu, self) == TRUE

LocalNwkDestination(npdu, self) == npdu[3].n = self

Dispatch(npdu, self) ==
    LET data == ParseNwkDataFrame(npdu)
        command == ParseNwkCommandFrame(npdu)
    IN (IF command.ok THEN {<<"nwkCommand", Rest(npdu, command)>>} ELSE {})
         \cup (IF ~data.ok THEN {}
               ELSE {<<"nwk", Rest(npdu, data)>>}
                      \cup (IF LocalNwkDestination(npdu, self) THEN UpperLayers(Rest(npdu, data)) ELSE {}))

Npdu(psdu) == Plaintext(Rest(psdu, ParseShortDataFrame(psdu)))

\* A frame that is no data frame with short addresses: a MAC command or a beacon.
MacLayer(psdu) ==
    {<<"macCommand", Rest(psdu, ParseMacCommandFrame(psdu))>> :
        c \in {m \in {psdu} : ParseMacCommandFrame(m).ok}}
      \cup {<<"beacon", Rest(psdu, ParseBeacon(psdu))>> :
        c \in {m \in {psdu} : ParseBeacon(m).ok}}

feed(psdu, self) ==
    {<<self, h[1], h[2]>> : h \in IF ParseShortDataFrame(psdu).ok
                                  THEN Dispatch(Npdu(psdu), self) ELSE MacLayer(psdu)}

(***************************************************************************)
(* The next hop of a frame: along the source route the relay named at the  *)
(* index must be this node (sourceRouteAction); other frames go by the     *)
(* route table, here from relay to relay.  0 stands for nobody.            *)
(***************************************************************************)
NextHop(i, n) == IF i < n THEN i + 1 ELSE Target

\* Mutant: the last relay does not find itself.
sourceRouteShort(npdu, self) ==
    LET n == npdu[9].n
        i == npdu[10].n
    IN IF i + 1 < n /\ npdu[10 + 2 * i + 1].k = self THEN NextHop(i + 1, n) ELSE 0

sourceRouteAction(npdu, self) ==
    LET n == npdu[9].n
        i == npdu[10].n
    IN IF i < n /\ npdu[10 + 2 * i + 1].k = self THEN NextHop(i + 1, n) ELSE 0

StackInit ==
    /\ keyed \in BOOLEAN
    /\ asked = {} /\ air = <<>> /\ hop = 0 /\ handed = {}

Send(call) ==
    /\ asked = {}
    /\ asked' = {call}
    /\ air' = Psdu(call)
    /\ hop' = IF Psdu(call) = <<>> THEN 0 ELSE NextHop(0, call.relays)
    /\ UNCHANGED <<keyed, handed>>

(***************************************************************************)
(* A relay hands the NPDU to onNwkData, which builds the frame again for   *)
(* the next hop: with the relay index advanced, or plainly.                *)
(***************************************************************************)
Relay ==
    /\ hop \in 1..MaxRelays
    /\ handed' = handed \cup feed(air, hop)
    /\ LET npdu == Npdu(air)
           data == ParseNwkDataFrame(npdu)
           routed == 10 \in npdu[1].s
           next == IF routed THEN sourceRouteAction(npdu, hop)
                   ELSE NextHop(hop, (CHOOSE c \in asked : TRUE).relays)
           psdu == IF routed
                   THEN sendNwkDataSourceRouted(IF npdu[9].n < 8 THEN npdu[9].n ELSE 8,
                                                npdu[10].n + 1, Rest(npdu, data))
                   ELSE sendNwkData(Rest(npdu, data))
       IN IF data.ok /\ next # 0 /\ psdu # <<>>
          THEN air' = psdu /\ hop' = next
          ELSE air' = <<>> /\ hop' = 0
    /\ UNCHANGED <<keyed, asked>>

Arrive ==
    /\ hop = Target
    /\ handed' = handed \cup feed(air, Target)
    /\ air' = <<>> /\ hop' = 0
    /\ UNCHANGED <<keyed, asked>>

(***************************************************************************)
(* A route command, an unsecured key transport and the frames of the MAC   *)
(* go to a neighbour.                                                      *)
(***************************************************************************)
Calls ==
    {c \in [kind : Kinds, size : Sizes, relays : 0..MaxRelays] :
        /\ c.kind \in MacKinds \cup {"nwkCommand", "unsecured"} => c.relays = 0
        /\ c.kind \in (MacKinds \ {"beacon"}) \cup {"apsAck"} => c.size = 0}

StackNext ==
    \/ \E call \in Calls : Send(call)
    \/ Relay
    \/ Arrive

StackSpec == StackInit /\ [][StackNext]_stackVars

(***************************************************************************)
(* A call that was accepted is done when nothing of it is left on air; by  *)
(* then the callback it is meant for has run at the destination with the   *)
(* caller's payload.  A frame accepted by the sender is never refused by a *)
(* relay, whether the route is in the frame or in the tables.              *)
(***************************************************************************)
MeantFor(call) ==
    CASE call.kind = "sourceRouted" -> <<Target, "nwk", Payload(call.size)>>
      [] call.kind = "unsecured" -> <<Target, "aps", Payload(call.size)>>
      [] call.kind = "apsAck" -> <<Target, "apsAck", <<>>>>
      [] call.kind = "associationRequest" -> <<Target, "macCommand", U("capability", 1)>>
      [] call.kind = "associationResponse" ->
           <<Target, "macCommand", U("assigned", 2) \o U("status", 1)>>
      [] call.kind = "beaconRequest" -> <<Target, "macCommand", <<>>>>
      [] OTHER -> <<Target, call.kind, Payload(call.size)>>

AcceptedReachesHandler ==
    [][hop # 0 /\ hop' = 0 => \A call \in asked : MeantFor(call) \in handed']_stackVars

(***************************************************************************)
(* A relay hands nothing to the layers above the network layer, and at the *)
(* destination an acknowledgement is never taken for data, a command never *)
(* for a data frame, an application's frame never for the device object's  *)
(* (a source-routed payload is raw and may look like any APS frame).       *)
(***************************************************************************)
OnlyTheAddressee ==
    \A h \in handed :
        /\ h[1] # Target => h[2] = "nwk"
        /\ \A call \in asked :
             /\ h[2] = "zdo" => call.kind \in {"zdo", "sourceRouted"}
             /\ h[2] = "nwkCommand" <=> call.kind = "nwkCommand"
             /\ call.kind = "apsAck" => h[2] \in {"nwk", "apsAck"}
             /\ h[2] = "beacon" <=> call.kind = "beacon"
             /\ h[2] = "macCommand" <=> call.kind \in MacKinds \ {"beacon"}
=============================================================================
