----------------------------- MODULE MeshRouting -----------------------------
(***************************************************************************)
(* Route discovery and data forwarding over a mesh: ZigbeeRouting and      *)
(* ZigbeeRouteTable with the handlers of CC2530_BeaconJoin that send what  *)
(* they decide.  End devices keep an acknowledged APS exchange with the    *)
(* coordinator going; routers relay requests, replies and data.            *)
(*                                                                         *)
(* Both tables are sequences ordered by the time an entry was last         *)
(* written, so the entry that the code finds by its smallest timestamp is  *)
(* the first one.  Every discovery asks for the coordinator, as in the     *)
(* sketch; the quality of a link is constant.                              *)
(***************************************************************************)
EXTENDS Integers, Sequences, SequencesExt, FiniteSets

CONSTANTS
  Coordinator,     \* ZB_NWK_ADDR_COORDINATOR
  Routers,         \* devices built as ROLE_ROUTER
  EndDevices,      \* devices built as ROLE_END
  NoHop,           \* kNoNextHop
  Parent,          \* the parent each device joined through
  LinkCost,        \* costFromLqi of the frames from one device to another; 0: out of range
  RouteCapacity,   \* entries of a route table
  MaxDiscoveries,  \* kMaxDiscoveries
  IdModulus,       \* request identifiers before the uint8_t wraps
  Radius,          \* kDefaultRadius
  MaxFaults        \* bound: frames lost and devices restarted

Nodes == {Coordinator} \union Routers \union EndDevices

ASSUME RoleAssumption ==
  /\ NoHop \notin Nodes /\ Coordinator \notin Routers \union EndDevices
  /\ Routers \intersect EndDevices = {}
ASSUME TopologyAssumption ==
  /\ LinkCost \in [Nodes -> [Nodes -> 0..7]]
  /\ Parent \in [Routers \union EndDevices -> {Coordinator} \union Routers]
ASSUME CapacityAssumption ==
  /\ {RouteCapacity, MaxDiscoveries, IdModulus, Radius} \subseteq Nat \ {0}
  /\ IdModulus > MaxDiscoveries

VARIABLES
  routes,     \* per device: <<[dst, hop, active]>>, oldest first
  discovery,  \* per device: <<[orig, id, prev, cost]>>, oldest first
  requestId,  \* requestId_ of each end device
  waiting,    \* end devices with an APS frame that is not acknowledged
  everAcked,  \* end devices whose lastApsOkAt is not 0
  inbox,      \* frames received by a device and not handled yet, in order
  losses, restarts, \* how often each fault happened, for the bound
  flooded,    \* history: costs at which a router rebroadcast an end device's current request
  forgotten,  \* history: routers whose entry of that request was recycled while it was on its way
  evicted     \* history: devices and destinations whose route was recycled, and not written since

tables == <<routes, discovery, requestId>>
exchange == <<waiting, everAcked>>
bounds == <<losses, restarts>>
history == <<flooded, forgotten, evicted>>
vars == <<tables, exchange, inbox, bounds, history>>

Neighbors(n) == {p \in Nodes : LinkCost[n][p] > 0}

Request(from, orig, id, cost) ==
  [kind |-> "request", from |-> from, orig |-> orig, id |-> id, cost |-> cost]
Reply(from, orig, id, cost) ==
  [kind |-> "reply", from |-> from, orig |-> orig, id |-> id, cost |-> cost]
Data(from, src, dst, radius) ==
  [kind |-> "data", from |-> from, src |-> src, dst |-> dst, radius |-> radius]

\* A transmission: a broadcast to all neighbors, a unicast to one of them.
\* Frames on the channel do not overtake each other.
Transmit(boxes, frame, hops) ==
  [p \in Nodes |-> IF p \in hops \intersect Neighbors(frame.from)
                  THEN Append(boxes[p], frame) ELSE boxes[p]]
Taken(n) == [inbox EXCEPT ![n] = Tail(@)]

Queued == UNION {{inbox[n][i] : i \in DOMAIN inbox[n]} : n \in Nodes}
Discovering(c) == \E m \in Queued : m.kind # "data" /\ m.orig = c
Exchanging(c) == \E m \in Queued : m.kind = "data" /\ c \in {m.src, m.dst}

(***************************************************************************)
(* The tables.                                                             *)
(***************************************************************************)
\* An entry takes the slot of its key, of which there is one at most and which is
\* not among the others, else a free one, else the oldest one.
Put(others, entry, capacity) ==
  Append(IF Len(others) = capacity THEN Tail(others) ELSE others, entry)

\* The entry that Put recycles.
Recycled(others, capacity) == IF Len(others) = capacity THEN {Head(others)} ELSE {}

Without(table, slots) ==
  IF slots = {} THEN table ELSE RemoveAt(table, CHOOSE i \in slots : TRUE)

Removed(table, dst) == Without(table, {i \in DOMAIN table : table[i].dst = dst})

Upsert(table, dst, hop, active) ==
  Put(Removed(table, dst), [dst |-> dst, hop |-> hop, active |-> active], RouteCapacity)

\* Device n writes its route to dst.
Evicted(n, dst) ==
  (evicted \ {<<n, dst>>})
    \union {<<n, e.dst>> : e \in Recycled(Removed(routes[n], dst), RouteCapacity)}

ActiveEntries(table, dst) ==
  {i \in DOMAIN table : table[i].dst = dst /\ table[i].active}
NextHop(table, dst) ==
  IF ActiveEntries(table, dst) = {} THEN NoHop
  ELSE table[CHOOSE i \in ActiveEntries(table, dst) : TRUE].hop

\* Mutant: copies of one request from different neighbors are told apart.
KnownPerNeighbor(n, m) ==
  {i \in DOMAIN discovery[n] : /\ discovery[n][i].orig = m.orig /\ discovery[n][i].id = m.id
                               /\ discovery[n][i].prev = m.from}

\* findDiscovery.
Known(n, m) == {i \in DOMAIN discovery[n] :
                  discovery[n][i].orig = m.orig /\ discovery[n][i].id = m.id}

\* findDiscovery or allocDiscovery, then the assignments to the entry.
Recorded(n, m, cost) ==
  Put(Without(discovery[n], Known(n, m)),
      [orig |-> m.orig, id |-> m.id, prev |-> m.from, cost |-> cost], MaxDiscoveries)

\* Device n records request m, at the cost of an entry of a request that is on its way.
UnderWay(e) == \E m \in Queued : m.kind = "request" /\ m.orig = e.orig /\ m.id = e.id
Forgotten(n, m) ==
  forgotten \union {<<n, e.orig>> : e \in {r \in Recycled(Without(discovery[n], Known(n, m)), MaxDiscoveries) :
                                           UnderWay(r)}}

\* Mutant: the route table is empty after a reboot.
JoinedWithoutRoute(n) == <<>>

\* The parent is the next hop toward the coordinator after a join or a restore.
Joined(n) == <<[dst |-> Coordinator, hop |-> Parent[n], active |-> TRUE]>>

Init ==
  /\ routes = [n \in Nodes |-> IF n = Coordinator THEN <<>> ELSE Joined(n)]
  /\ discovery = [n \in Nodes |-> <<>>]
  /\ requestId = [c \in EndDevices |-> 0]
  /\ waiting = {} /\ everAcked = EndDevices
  /\ inbox = [n \in Nodes |-> <<>>]
  /\ losses = 0 /\ restarts = 0
  /\ flooded = [n \in Routers |-> [c \in EndDevices |-> <<>>]]
  /\ forgotten = {} /\ evicted = {}

(***************************************************************************)
(* Route discovery.                                                        *)
(***************************************************************************)
\* routing.expire() at the start of serviceRouteDiscovery, which only end
\* devices run: entries time out oldest first, and their routes are left alone.
ExpireDiscoveries(c) ==
  \E k \in 0..Len(discovery[c]) :
    discovery' = [discovery EXCEPT ![c] = SubSeq(@, k + 1, Len(@))]

\* Mutant: every request carries the same identifier.
OriginateSameId(c) ==
  /\ NextHop(routes[c], Coordinator) = NoHop
  /\ ~Discovering(c)
  /\ routes' = [routes EXCEPT ![c] = Upsert(@, Coordinator, NoHop, FALSE)]
  /\ inbox' = Transmit(inbox, Request(c, c, requestId[c], 0), Nodes)
  /\ flooded' = [n \in Routers |-> [flooded[n] EXCEPT ![c] = <<>>]]
  /\ forgotten' = forgotten \ (Routers \X {c})
  /\ evicted' = Evicted(c, Coordinator)
  /\ ExpireDiscoveries(c)
  /\ UNCHANGED <<requestId, exchange, bounds>>

\* serviceRouteDiscovery of an end device without an active route.  The 8 s
\* between two requests outlast every frame of the first.
OriginateDiscovery(c) ==
  LET id == (requestId[c] + 1) % IdModulus
  IN  /\ NextHop(routes[c], Coordinator) = NoHop
      /\ ~Discovering(c)
      /\ requestId' = [requestId EXCEPT ![c] = id]
      /\ routes' = [routes EXCEPT ![c] = Upsert(@, Coordinator, NoHop, FALSE)]
      /\ inbox' = Transmit(inbox, Request(c, c, id, 0), Nodes)
      /\ flooded' = [n \in Routers |-> [flooded[n] EXCEPT ![c] = <<>>]]
      /\ forgotten' = forgotten \ (Routers \X {c})
      /\ evicted' = Evicted(c, Coordinator)
      /\ ExpireDiscoveries(c)
      /\ UNCHANGED <<exchange, bounds>>

PathCost(n, m) == (m.cost + LinkCost[m.from][n]) % 256

\* Its own request, or one already seen over a path that is not longer.
IsDuplicate(n, m) ==
  \/ m.orig = n
  \/ \E i \in Known(n, m) : discovery[n][i].cost <= PathCost(n, m)

DropDuplicateRequest(n, m) ==
  /\ m.kind = "request" /\ IsDuplicate(n, m)
  /\ inbox' = Taken(n)
  /\ UNCHANGED <<tables, exchange, bounds, history>>

\* handleRouteRequest records the way back; the coordinator then answers and
\* a router rebroadcasts, an end device does neither.
HandleRouteRequest(n, m) ==
  LET cost == PathCost(n, m)
  IN  /\ m.kind = "request" /\ ~IsDuplicate(n, m)
      /\ discovery' = [discovery EXCEPT ![n] = Recorded(n, m, cost)]
      /\ forgotten' = Forgotten(n, m)
      /\ routes' = [routes EXCEPT ![n] = Upsert(@, m.orig, m.from, TRUE)]
      /\ evicted' = Evicted(n, m.orig)
      /\ \/ /\ n = Coordinator
            /\ inbox' = Transmit(Taken(n), Reply(n, m.orig, m.id, 0), {m.from})
            /\ UNCHANGED flooded
         \/ /\ n \in Routers
            /\ inbox' = Transmit(Taken(n), Request(n, m.orig, m.id, cost), Nodes)
            /\ flooded' = [flooded EXCEPT ![n][m.orig] = Append(@, cost)]
         \/ /\ n \in EndDevices
            /\ inbox' = Taken(n)
            /\ UNCHANGED flooded
      /\ UNCHANGED <<requestId, exchange, bounds>>

\* handleRouteReply: the originator and every relay that recorded the request
\* install the route to the coordinator; other devices drop the reply.
HandleRouteReply(n, m) ==
  LET relays == {discovery[n][i].prev : i \in Known(n, m)}
  IN  /\ m.kind = "reply"
      /\ \/ /\ n = m.orig \/ relays # {}
            /\ routes' = [routes EXCEPT ![n] = Upsert(@, Coordinator, m.from, TRUE)]
            /\ evicted' = Evicted(n, Coordinator)
         \/ /\ n # m.orig /\ relays = {}
            /\ UNCHANGED <<routes, evicted>>
      /\ inbox' = IF n = m.orig THEN Taken(n)
                  ELSE Transmit(Taken(n), Reply(n, m.orig, m.id, PathCost(n, m)), relays)
      /\ UNCHANGED <<discovery, requestId, exchange, bounds, flooded, forgotten>>

(***************************************************************************)
(* Data.                                                                   *)
(***************************************************************************)
\* sendApsRouted: to the route's next hop, else to the destination itself.
SendApsRouted(c) ==
  LET hop == NextHop(routes[c], Coordinator)
  IN  inbox' = Transmit(inbox, Data(c, c, Coordinator, Radius),
                        {IF hop = NoHop THEN Coordinator ELSE hop})

SendData(c) ==
  /\ c \notin waiting /\ ~Exchanging(c)
  /\ NextHop(routes[c], Coordinator) # NoHop
  /\ waiting' = waiting \union {c}
  /\ SendApsRouted(c)
  /\ ExpireDiscoveries(c)
  /\ UNCHANGED <<routes, requestId, everAcked, bounds, history>>

\* serviceApsRetx, while nothing of the exchange is on its way.
Retransmit(c) ==
  /\ c \in waiting /\ ~Exchanging(c)
  /\ SendApsRouted(c)
  /\ UNCHANGED <<tables, exchange, bounds, history>>

\* Mutant: only the destination learns the way back.
LearnedAtDestination(n, m) ==
  IF m.dst # n THEN routes[n] ELSE Upsert(routes[n], m.src, m.from, TRUE)

\* onNwkData learns the way back to the source from every frame it receives.
Learned(n, m) ==
  IF m.src = n THEN routes[n] ELSE Upsert(routes[n], m.src, m.from, TRUE)
Learn(n, m) ==
  /\ routes' = [routes EXCEPT ![n] = Learned(n, m)]
  /\ evicted' = IF m.src = n THEN evicted ELSE Evicted(n, m.src)

\* The relay of onNwkData: one hop on, with a smaller radius.
ForwardData(n, m) ==
  /\ m.kind = "data" /\ m.dst # n
  /\ Learn(n, m)
  /\ inbox' = IF m.radius > 1 /\ n \notin EndDevices
              THEN Transmit(Taken(n), Data(n, m.src, m.dst, m.radius - 1),
                            {NextHop(Learned(n, m), m.dst)})
              ELSE Taken(n)
  /\ UNCHANGED <<discovery, requestId, exchange, bounds, flooded, forgotten>>

\* onApsData answers with an APS acknowledgement over the route just learned.
AcknowledgeData(n, m) ==
  /\ m.kind = "data" /\ m.dst = n /\ n = Coordinator
  /\ Learn(n, m)
  /\ inbox' = Transmit(Taken(n), Data(n, n, m.src, Radius), {NextHop(Learned(n, m), m.src)})
  /\ UNCHANGED <<discovery, requestId, exchange, bounds, flooded, forgotten>>

\* onApsAck clears the pending frame and restarts the stall timer.
ReceiveAck(n, m) ==
  /\ m.kind = "data" /\ m.dst = n /\ n \in EndDevices
  /\ Learn(n, m)
  /\ inbox' = Taken(n)
  /\ waiting' = waiting \ {n}
  /\ everAcked' = everAcked \union ({n} \intersect waiting)
  /\ UNCHANGED <<discovery, requestId, bounds, flooded, forgotten>>

\* Tier 1 of the route repair: deliveries stalled for 25 s, the route is dropped.
RepairRoute(c) ==
  /\ c \in waiting /\ c \in everAcked /\ ~Exchanging(c)
  /\ routes' = [routes EXCEPT ![c] = Removed(@, Coordinator)]
  /\ ExpireDiscoveries(c)
  /\ UNCHANGED <<requestId, exchange, inbox, bounds, history>>

(***************************************************************************)
(* Faults.                                                                 *)
(***************************************************************************)
Lose(n) ==
  /\ losses + restarts < MaxFaults
  /\ losses' = losses + 1
  /\ inbox' = Taken(n)
  /\ UNCHANGED <<tables, exchange, restarts, history>>

\* setup restores the identity from flash and the route through the parent.
Restart(n) ==
  /\ losses + restarts < MaxFaults
  /\ restarts' = restarts + 1
  /\ routes' = [routes EXCEPT ![n] = Joined(n)]
  /\ discovery' = [discovery EXCEPT ![n] = <<>>]
  /\ requestId' = [c \in EndDevices |-> IF c = n THEN 0 ELSE requestId[c]]
  /\ waiting' = waiting \ {n} /\ everAcked' = everAcked \ {n}
  /\ inbox' = [inbox EXCEPT ![n] = <<>>]
  /\ flooded' = [r \in Routers |-> IF r = n THEN [c \in EndDevices |-> <<>>] ELSE flooded[r]]
  /\ forgotten' = forgotten \ ({n} \X EndDevices) /\ evicted' = evicted \ ({n} \X Nodes)
  /\ UNCHANGED losses

Handle(n, m) ==
  \/ DropDuplicateRequest(n, m) \/ HandleRouteRequest(n, m) \/ HandleRouteReply(n, m)
  \/ ForwardData(n, m) \/ AcknowledgeData(n, m) \/ ReceiveAck(n, m)

Receive(n) == inbox[n] # <<>> /\ Handle(n, Head(inbox[n]))

Next ==
  \/ \E n \in Nodes : Receive(n) \/ (inbox[n] # <<>> /\ Lose(n))
  \/ \E c \in EndDevices :
       OriginateDiscovery(c) \/ SendData(c) \/ Retransmit(c) \/ RepairRoute(c)
  \/ \E n \in Routers \union EndDevices : Restart(n)

Spec == Init /\ [][Next]_vars

\* Every device polls its radio, and loop() of an end device comes back to
\* each of its timers.
Fairness ==
  /\ \A n \in Nodes : WF_vars(Receive(n))
  /\ \A c \in EndDevices : /\ WF_vars(OriginateDiscovery(c))
                           /\ SF_vars(Retransmit(c)) /\ SF_vars(RepairRoute(c))
FairSpec == Spec /\ Fairness

(***************************************************************************)
(* Properties.                                                             *)
(***************************************************************************)
\* A flood dies out: a router rebroadcasts one request again only at a lower
\* cost, however the copies of several discoveries interleave in its table,
\* unless it recycled the entry of the request for another one meanwhile
\* (handleRouteRequest, allocDiscovery).  The relayed radius never reaches 0,
\* so nothing else ends a flood.
FloodDiesOut ==
  \A n \in Routers, c \in EndDevices : <<n, c>> \notin forgotten =>
    \A i \in 2..Len(flooded[n][c]) : flooded[n][c][i] < flooded[n][c][i - 1]

\* No black hole: the next hop of an active route to the coordinator has an
\* active route to it itself, so onNwkData of no relay drops data for want of
\* a route, whatever replies, data and restarts overwrote in between.  Only a
\* next hop that recycled that route for another destination is one (upsert).
NoBlackHole ==
  \A n \in Nodes \ {Coordinator} :
    LET hop == NextHop(routes[n], Coordinator)
    IN  \/ hop \in {NoHop, Coordinator} \/ <<hop, Coordinator>> \in evicted
        \/ NextHop(routes[hop], Coordinator) # NoHop

\* The way back exists while the frame is still on its way: whoever relayed a
\* data frame can reach its source, so an acknowledgement sent on arrival is
\* not lost for want of a route (reverse-route learning of onNwkData).
\* A device that restarted since, or recycled the route, has forgotten it.
WayBackIsKnown ==
  restarts = 0 =>
    \A m \in Queued :
      m.kind = "data" /\ m.src \in EndDevices /\ m.from # m.src
        => <<m.from, m.src>> \in evicted \/ NextHop(routes[m.from], m.src) # NoHop

\* Route repair works: an end device whose deliveries stalled, after a frame
\* was lost or a relay restarted with its tables empty, gets through again
\* (serviceRouteDiscovery, tier 1; a route left DISCOVERY_UNDERWAY and requests
\* that the relays remember do not stop the next discovery).  It needs one
\* acknowledgement since boot: with lastApsOkAt still 0 nothing is repaired.
RepairGetsThrough ==
  \A c \in EndDevices : (c \in waiting /\ c \in everAcked) ~> (c \notin waiting)

\* The recorded way back leads to the originator: no two relays name each
\* other as previous hop of one request ("relay toward the originator along
\* the reverse path", handleRouteReply).  A reply caught between them is sent
\* to and fro for good, each hop giving it a new kDefaultRadius.
ReversePathLeadsBack ==
  \A p, q \in Routers : \A i \in DOMAIN discovery[p], j \in DOMAIN discovery[q] :
    /\ discovery[p][i].orig = discovery[q][j].orig
    /\ discovery[p][i].id = discovery[q][j].id
    /\ discovery[p][i].prev = q
      => discovery[q][j].prev # p
=============================================================================
