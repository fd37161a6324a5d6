# NiusZigbee in TLA+

TLA+ models, TLC runs and TLAPS proofs for the Zigbee stack of this repository:
the library (`src/`), its two radio drivers (`src/modules/`), the firmware of the
CC2530 co-processor (`extras/firmware/`) and the sketches that use them, foremost
the full-stack `examples/CC2530_BeaconJoin`.

## The system

| Component | State | Operations | Hard behaviour |
|---|---|---|---|
| Frame counter and persistence (`CC2530Radio`, `ZigbeePersistence`, sketch) | `securityCounter_`, flash blob, `nextSaveAt` | secure a frame, save, restore | crash between two steps, torn blob |
| NWK security (`ZigbeeSecurity`) | active and alternate key, replay table of 8 entries | set, switch keys; open with replay check; reset table or peer | MAC retransmissions, rotation in progress, full table, restarted peers |
| Acknowledged APS delivery (`ZigbeeApsRetransmit`, `ZigbeeApsDuplicateTable`) | pending table, duplicate table, 8-bit counter | send, retransmit, acknowledge, drop duplicates | lost, late and repeated frames; wrap; restarts |
| Routing (`ZigbeeRouting`, route table) | discovery and route entries | request, reply, expire, relay, repair | crossing discoveries, stale routes, loops |
| Joining (`ZigbeeNetwork`, neighbor table, sketch) | join state, candidates, address pool, neighbor entries | scan, associate, announce, age, rejoin | late responses, full tables, lost parents |
| Trust Center key transport (sketch) | one pending transport | schedule, retry, confirm, give up | two joiners at once, restarts |
| Broadcast table, indirect queue, source routes | slots with times | record, retry, expire | full tables, a pointer held across a send |
| APS fragmentation | reassembly buffer | split, add block | lost, repeated, reordered blocks |
| Network manager | PAN, channel, update id | report, announce, adopt | ids that wrap, late and missed announcements |
| CC2530 radio driver and firmware MAC | waits in progress, cached settings; parser, MAC state | every command; acknowledge, retry, forward | callbacks inside waits, late responses, lost bytes, resets |
| ZNP radio driver | requests in progress | request, wait, dispatch, reset | callbacks inside waits, late responses without a number, a module that starts by itself |
| Green Power | proxy and sink tables | forward, commission, execute | notifications that overtake each other |
| Light: groups, scenes, level, colour, identify | five small tables | cluster commands | full tables, repeated commands |
| Attribute reporting | last reported value and time | configure, change, report | changes while a report is under way |
| BDB commissioning, finding and binding | step, status, binding table | next step, result, bind, unbind | failed steps, changes during an iteration |
| Frame codecs and stack | none (the callbacks called) | build, parse, secure, dispatch | lengths, truncation, what each layer adds |
| Cryptography, touchlink exchange, OTA transfer, ZDO servers | | | see Not modelled |

One node is a single thread: `loop()` polls the radio, which calls the receive
callbacks, and then runs the services. A send waits for the radio and may
deliver received frames, and so run callbacks, inside the wait. Nodes interact
by frames only. The concurrency is that of nodes, of the mesh between them, of
the host and its radio module on the two ends of a UART, and of crashes.

What makes the parts correct: a frame counter is not used twice; a secured
frame is accepted at most once and a legitimate sender is not locked out; an
acknowledged frame is processed at most once and reported truthfully; routes
lead to their destination and a broken one is repaired; a joined device holds an
address nobody else has and is given the network key; a command's result is that
of the command; tables that overflow forget only what they must; a frame built
is the frame parsed, and a frame cut short is never read past its end.

## Modules

| Module | Models | Extends or uses |
|---|---|---|
| `FrameCounter`, `MCFrameCounter` | counter and flash copy of one node | |
| `LeastElement` | the scan for the first slot that fits | |
| `NwkSecurity`, `MCNwkSecurity` | keys and replay table of a parent, with its peers | `LeastElement` |
| `ApsService` | abstract acknowledged delivery | |
| `ApsDelivery`, `MCApsDelivery` | retransmit and duplicate tables, lossy mesh, restarts | `LeastElement`; implements `ApsService` |
| `NetworkJoin`, `MCNetworkJoin` | a device that joins, ages its parent and joins again | |
| `ParentScan` | the candidate table of a scan and the choice | |
| `AddressLeases`, `MCAddressLeases` | the coordinator's neighbor table and address pool, with its children | `LeastElement` |
| `MeshRouting`, `MCMeshRouting` | route discovery, both tables, relaying and repair over a mesh | |
| `RadioLink`, `MCRadioLink` | host driver, UART and firmware of the CC2530 | |
| `ZnpDriver` | the driver of the network processor | |
| `KeyTransport` | the Trust Center's single pending key transport | |
| `FragmentService` | abstract reassembly | |
| `ApsFragments` | fragmenter, lossy network, reassembler | implements `FragmentService` |
| `BroadcastTable` | broadcast transactions with passive acknowledgements | |
| `IndirectQueue` | frames that wait for sleeping children | `LeastElement` |
| `SourceRoutes` | route records and the concentrator's table | |
| `NetworkManager` | PAN id and channel changes | |
| `GreenPower` | devices, proxies, sink | |
| `LightDevice` | clusters of a dimmable light, groups and scenes | `LeastElement` |
| `AttributeReporting` | report scheduler and its sketch | |
| `Commissioning` | BDB, finding and binding, binding table | |
| `WireFormat` | bytes by the field they come from; readers with their bounds | |
| `MacNwkFrames`, `ApsZclFrames`, `ZdoFrames`, `ClusterFrames`, `ZnpFrames` | builders and parsers of every format | `WireFormat` |
| `FrameCodecs` | one frame from builder to parser, whole or cut short | the five above |
| `FrameStack` | a frame through all layers, over relays, to the callback | `MacNwkFrames`, `ApsZclFrames` |
| `MCServices` | the components that share no state, each on its own | all of them from `ZnpDriver` on, and `ParentScan` |
| `NwkSecurityProofs`, `ApsDeliveryProofs`, `NetworkJoinProofs`, `AddressLeasesProofs`, `RadioLinkProofs`, `LeastElementProofs` | proofs | the modules they are named after |
| `MeshProofs` | proofs | `MeshRouting`, `IndirectQueue`, `BroadcastTable`, `NetworkManager`, `SourceRoutes` |
| `ServiceProofs` | proofs | `FrameStack`, `FrameCounter`, `ApsFragments`, `KeyTransport`, `GreenPower`, `LightDevice`, `ZnpDriver`, `AttributeReporting`, `Commissioning`, `ParentScan` |

Components meet where the code makes them meet: `ApsDelivery` and `ApsFragments`
are instances of their abstract services, `MeshRouting` composes the routing
library, the route table and the handlers of the sketch, `RadioLink` the driver and
the firmware, `FrameStack` all layers of frames on three nodes, `Commissioning` the
binding table with finding and the descriptor server.

### FrameCounter

`Secure` is `applyTxSecurity` (`++securityCounter_`), `SaveState` the periodic
save of `loop()`, `Boot` the restore of `setup()`, `Join` and `LoseParent` the
changes of the join state that switch the save on and off. `Crash` may come
between any two. `net = "rejoining"` still secures frames: acknowledgements and
`serviceApsRetx` do not ask `isJoined()`. `MaxPerPeriod` says how many frames a
save period holds; the assumption `MaxPerPeriod <= COUNTER_MARGIN` is what the
margin of 1024 per 20 s is for. A boot is not restarted beyond `MaxCounter`.
Save is atomic: the EEPROM library of the core commits the blob.

The history variables name the only hole: `tentative` holds the counters of a
boot before its first save, `exposed` those of boots that crashed then.

### NwkSecurity

A key is its sequence number. `Hub` is the parent and Trust Center; each peer
has a queue of frames to it, in order, since the MAC sends one frame at a time.
`Consume` keeps the frame in the queue when its MAC acknowledgement is lost.
`OpenNpdu` selects a key (`CanOpen`), checks the counter (`Fresh`) and records
it (`Record`, in the slot of `SlotFor`). `AcceptAssociation` is the handler of
the sketch, with `resetReplayPeer` for a known child. `StartRotation` starts a
rotation only when the last one is over, as a Trust Center has to with two key
slots. `CountersRestart` chooses whether peers restart their counters with a
new key; the driver does not, comments of the code say they do.
`unreset` records peers that came back while their parent's neighbor table no
longer held them, the case in which the code does not reset their counters.

### ApsDelivery

`SendApsFrame` is the acked send of `serviceRouteDiscovery` with `add`,
`ServiceApsRetx` is `due` and `markAttempted`, `OnApsData` and `OnApsAck` are
the callbacks. Time is abstracted: any set of entries may be overdue. A frame
that waits in `due` is sent as one step; an acknowledgement that is delivered
while the radio sends either finds the entry after the step, or, before `add`,
finds nothing, which is a lost acknowledgement. The mesh loses frames and keeps
their order. `MaxOutstanding` is how many frames the application lets wait.

`ApsService` is what the two tables promise: a frame is processed once and its sender
is told the truth. They keep it for a sender whose frames do not overlap, without
restarts, within one cycle of the counter: `Undisturbed` says so of a state, and
`ServedWhileUndisturbed` that every step taken in such states is a step of the service.

### NetworkJoin

The device's half of joining. `BootFresh` and `BootRestored` are the branches of
`setup()`, `RunActiveScan` the scan of `loop()`, `Associate` its attempts,
`OnAssociationResponse` the end of the join, `Announce` and `SaveState` what
`loop()` does next, `AgeNeighbors` the loss of the parent with `rejoinParent`,
`RepairByScan` the second tier of the route repair. `HearParent`,
`EntryGetsStale` and `RecycleParentEntry` are the entry of the parent in the
device's own table, without which its loss goes unnoticed. `scanReady` is
whether `onBeacon` is registered: only the branch without saved state does it.
An address is represented by the parent that leased it; the other half is
`AddressLeases`. Association frames of several parents cross, repeat and get
lost; parents come and go; the device crashes between any two steps.

### AddressLeases

The parent's half, at the coordinator. `SlotsFor` and `Upsert` are
`ZigbeeNeighborTable::upsert`, `Candidate` and `FreeOffsets` the loop of
`allocate`, `AcceptChild` is `acceptChild`; `OnAssociationRequest`,
`OnDeviceAnnounce` and `HandleLinkStatus` are the handlers that store entries,
`Aged` and `AgeNeighbors` the ageing, `Restart` a restart, in which the table is
lost and the allocator begins again. The devices hold addresses, lose their
parent, get addresses elsewhere (represented by the device: pools are disjoint)
and come back. Times are abstracted: any entry may be the one seen least
recently, any set of router entries may be stale. A device that announces or
sends Link Status is heard with the address it holds at that time. `excused`
records the addresses whose lease was dropped, for lack of room or in a
restart; `given` the address each device was last given.

### MeshRouting

Routers and end devices around a coordinator, links of constant cost, an inbox per
node in the order of sending. `OriginateDiscovery`, `HandleRouteRequest` and
`HandleRouteReply` are the three calls of `ZigbeeRouting` with what the handlers
of `onNwkCommand` send for them; `ForwardData` and `Learned` are `onNwkData`,
`AcknowledgeData` and `ReceiveAck` the two ends of the acknowledged exchange,
`RepairRoute` the first tier of `serviceRouteDiscovery`. Both tables are sequences
ordered by the time of the last write, so that the entry recycled is the first:
the exact times are abstracted away, their order is not. A discovery is sent when
no frame of the last one is in flight, which is what the pacing of 8 s does.
`Lose` and `Restart` share the bound `MaxFaults`.

What a full table forgets is recorded, and excused: `forgotten` holds the routers that
recycled the entry of a request while copies of it were under way (routers never call
`expire()`, so their entries only go by being recycled), after which `FloodDiesOut` says
nothing of that router and request; `evicted` the routes that a device recycled and has
not written since, after which `NoBlackHole` and `WayBackIsKnown` do not ask for them.
The tables of `mesh_crossing` have room for everything, so its run shows the
properties without any excuse; the sketch reserves 8 slots.

### RadioLink

The driver is a stack: `Call` writes a command and opens a wait (`StartWait`),
`Feed` reads one frame and either completes the innermost wait or runs a callback,
in which further calls may come; `Return` ends the callback, `TimeOut` the wait.
`Begin` and `HostRestart` are the start of the sketch, which finds a module in
any state. The firmware is `Execute`, `ChannelBusy`, `TxDone`, `AckArrives`,
`AckTimeout` (one command from its frame to its answer), `Inbound`, `Forward`,
and `ModuleReset`. It has neither interrupts nor a UART FIFO: bytes that come while it
transmits are lost, and its parser may stay inside a frame (`expects`) until
`begin()` flushes it. A second frame in the receive FIFO is flushed with the first
(`RadioRx`). The acknowledgement is matched by the sequence number only. Responses
carry a number in the model that they do not have in the code, so that the
properties can say whose response was taken.

`OwnResponse` and `AckedMeansReceived` speak of quiet commands: sent while nothing is under way, with
no send from a callback inside the wait. A nested send that runs while the firmware
waits for an acknowledgement is lost, and its wait takes the status of the outer
one; that is the code's behaviour and outside the claim. `configureMac` without
the filter bit leaves `promiscuous_` as it was, and `radio_init` in the firmware
resets the transmit power with every change of the channel; `CacheAgrees` is stated
of what the driver relies on. `unsure` says when it may not: a response never came, the
module was reset, or a callback contradicted the call it interrupted (`Contradicts`).
The last is a window of the code: `setChannel` and `setAddress` store their argument
after the wait, so when a callback sets another channel inside the wait of
`setChannel`, the module takes the two in the order sent and the driver remembers
them in the order returned, and keeps the wrong one.

### ZnpDriver

`Operation` is any call that ends in `sreq`; `ReadInWait` is one frame that `sreq` reads, with
`dispatchAreq`, `GiveUp` its time-out, `ZnpPoll` the main loop, `DropGarbled` a frame with
a wrong checksum. The network processor answers in order, refuses some requests and
ignores those its boot loader gets. It also starts by itself (`ModuleStarts`): when the boot loader
gives way to it, up to a minute after a reset, when power comes back or its watchdog bites.
Whatever it has not treated is then lost, and it says SYS_RESET_IND as it does after a
reset asked for. Requests and such starts are numbered together, in their order;
`performed` holds those that happened, each with its command, and `claimed` every call that
returned true with the number of the answer it took (`by`).

`reset()` returns true on any SYS_RESET_IND, so after a reset that the boot loader ignored it
does so on the start of the application a minute later. `TrueMeansPerformed` says what a
true does mean. Each stands on an answer to its command that no other call
took. That answer is to the call's own request or, for `reset()`, a start that came after it.
It may be to another request of the command, or an earlier start, only if the call is
in `overlapped`: made from a callback inside another's wait for the
command, or while an answer to the command was still to come or to be read. `sreq` and
`reset` cannot tell these apart, and even then no answer counts twice.
`MaxRequests` bounds requests and starts together, `CallDepth` the nesting: a callback beyond
it does not run. Frames longer than `kMaxData` and the buffer that a nested read overwrites
are not modelled.

### Joining, continued: ParentScan, KeyTransport

`ParentScan` is `noteBeacon` and the choice of `selectParent`: candidates in the
order of the beacons, a later sighting replaces the entry of its sender unless it
is weaker, a full table drops the weakest. `KeyTransport` is the `SECURE_JOIN`
build: `Associate` starts a transport and displaces the one in progress,
`ServiceKeyTransport` sends the key, `SecuredAnnounce` confirms it. A joined device
without a key does not scan again by itself (`serviceRouteDiscovery` returns
first, and ageing is for routers), so the devices in `displaced` and `abandoned` stay
silent until they restart.

### The tables: BroadcastTable, IndirectQueue, SourceRoutes, NetworkManager

Each is one class with its clock and its callers. `BroadcastTable` hears
transactions from several neighbours, repeats its own, and expires. `IndirectQueue`
hands out a pointer (`onAir`) and may be written while the caller transmits.
`SourceRoutes` follows a record hop by hop while devices change their way up, and
keeps the concentrator's one slot for an answer. `NetworkManager` has a manager, its
nodes and a foreign network, all hearing announcements late, twice or never.
Update ids wrap at `UpdateIds`. The network starts at `FirstId`, and the run with 6 of 8, so that the
second change has id 0 and is compared with 6 and 7. `Changes(id)` counts the
changes up to an id; its bound `MaxChanges` keeps less than half of the cycle in use.
What pushes a frame out of the indirect queue is counted in children, not frames: frames
that last as long as it, for as many other children as there are entries (`CrowdedOut`).

### ApsFragments

Any block ever produced may arrive at any time, any number of times.
`HandedUpWhole` is the abstract `FragmentService` under a refinement mapping:
`begun` are the payloads with a block produced, `whole` those reported complete,
with anything else mapped to a payload that does not exist. A payload has 1 to 255
blocks: at 257 the byte that carries the total wraps and the first block alone
would complete it. A repeated last block reports completion again, as in the code.

### GreenPower, LightDevice, AttributeReporting, Commissioning

`GreenPower`: `Forward` is a proxy with its duplicate table, `SinkReceives` the
notification handler, `SinkHears` a frame the sink hears itself. Counter 0 is
accepted again and again by `checkAndUpdateCounter` and is outside the claim.
`LightDevice`: every command of six clusters, with the tables of groups and scenes.
`AttributeReporting`: sends nest in sends, as the radio delivers commands while a
report waits for its acknowledgement; three mistakes of the sketch are recorded in
the model and named by the property. A change during a send, or a new configuration, is
among the three: what the property adds is that nothing else, above all a report without
acknowledgement, makes the node believe what the client was not told. `Commissioning`: the steps of `ZigbeeBdb` with
failures, finding against the descriptor server of `ZigbeeDevice`, and sends to the
bound destinations between which bindings come and go.

### Codecs and FrameStack

A byte is the pair of the field it belongs to and its place in it; a builder is a
sequence of such bytes, a parser says which positions it reads as which field and
where the payload begins. `FrameCodecs` takes every format of the library (about a
hundred: MAC, NWK, security headers, APS, ZDO, ZCL, clusters, inter-PAN, Green Power, OTA, MT, the flash blob) with its optional
parts, lists of several lengths and payloads up to the longest accepted, and parses
it whole, cut at every length, and, for the blob, torn between two saves. CCM*, CRC
and FCS are what they promise: what is not whole does not verify, so that a torn blob is
refused by its CRC (`ChecksumFits`) as soon as its length is read. No other damage than a cut is tried. `FrameStack` builds
a call's frame through all layers, carries it over up to eight relays that open,
rebuild and secure it again, by route table or by source route, and dispatches it
to the callbacks of each node. The sizes in `Sizes` are those at which some layer's
limit is met or missed by one. `Words` is a list of 16-bit words, the relays of a source
route among them. Relays are numbered from 1, and `MaxRelays < Target` says that none of
them has the number of the destination.

One frame is on its way at a time. `feed()` hands a frame to several callbacks in turn
(`CC2530Radio.cpp:150-172`), all of which read it in `buf_` and `securedScratch_`; a send from
one of them feeds further frames into the same buffers while it waits, and the callbacks
after it are given their bytes. That is outside `AcceptedReachesHandler` and `OnlyTheAddressee`: they hold of
an application in which nobody reads a frame after another callback has sent on it, as in the sketches.

## Runs

| Run | Shows | Bounds |
|---|---|---|
| `framecounter_joiner` | a counter is reused only if its sender crashed before its first save; flash never rewinds | margin and period 2, counters to 7: three saves and restores |
| `nwksecurity_rotation` | unique entries, repeats only after eviction, no lockout, both keys open | 2 peers, 2 keys, 2 replay entries (4 identities), 2 counters, 1 restart |
| `aps_service` | refinement of `ApsService` with liveness | 3 frames, 2 tries, 3 messages in flight |
| `aps_restart` | repeats only of overlapping frames, false delivery only by reused counters, table bookkeeping | 3 frames, counters modulo 2, table of 2 with 3 outstanding, 2 restarts |
| `join_heal` | joined to somebody, announced, finds a parent again unless restored from flash or without an entry for its parent | router or end device, 2 parents that move twice, 2 attempts, 1 crash |
| `join_restored` | violation: a restored device that scans never finds its parent | same |
| `lease_table` | no lease that a device lives on is lost but for lack of room or in a restart; who returns gets its address back | a router and an end device, pool of 2, table of 2 for up to 4 addresses, 1 restart |
| `mesh_crossing` | a flood dies out; no black hole; the way back is known | 2 routers, 2 end devices, a cycle, cheaper detours, 1 fault |
| `mesh_repair` | a stalled exchange gets through again | 2 routers, 1 end device, 1 fault, tables of 2 and 1 |
| `mesh_replyloop` | violation: two relays name each other as the way back | same with 2 faults |
| `radio_calls` | responses, cached settings, transmit status and `begin()` are right but for named excuses | every command, 2 calls outside `begin()`, waits nested twice, 2 frames received, 1 reset |
| `services` | one property or more of each component that shares no state | below |

`services` explores 14 components one at a time: the initial state chooses which one
moves. Its bounds make every table overflow: 3 transactions for 2 slots, 3
sleeping children for 2 entries, 3 devices for 2 source routes, 2 Green Power
devices for 1 entry, 2 groups and scenes for 1 and 2 slots, 3 bindings for 2, 3
beacon senders for 2 candidates, 3 joiners for 1 transport. Update ids wrap after the first
change; the network processor gets 3 requests or starts, which is enough for a late answer, an
overlap and a start in between. The bounds of the other
runs are chosen in the same way: overflow of every table, wrap of the counter, one
frame overtaking another, a crash before and after a save, a restart during a
rotation. `CHECK_DEADLOCK FALSE` is set where the bounds on counters, frames
and restarts let a model stop.

Fairness of `aps_service`: only `WF(ServiceApsRetx)`. `loop()` calls `serviceApsRetx` in every
pass and every entry gets overdue after its interval. Nothing is assumed of the
mesh: a frame is settled by running out of tries even if all is lost.

Fairness of `join_heal`: weak fairness of the timers and services of `loop()`,
which keeps running, and of the passing of time (an entry gets stale, deliveries
stall). Strong fairness of a scan that hears every parent in range, of the
answer to a device that is still joining that parent, and of the response while
it is: frames are lost, but not all of them for ever, and an answer takes
milliseconds while an attempt lasts 3 s. Nothing is assumed of crashes and of
parents that move; their bounds make them stop.

Fairness of `mesh_repair`: weak fairness of `Receive` (every node polls its radio) and
of `OriginateDiscovery`; strong fairness of `Retransmit` and `RepairRoute`, whose
timers come back for as long as the exchange is not settled, while the guards that
stand for the pacing (nothing of it in flight) come and go. Faults are bounded.

## Proofs

All proofs hold for every value of the constants allowed by the named
assumptions, and each follows the same argument: an inductive invariant,
checked by TLC first, preserved by each action, with a lemma or a step per action.

- `NwkSecurityProofs`. `IndInv` adds that the table remembers every frame handed
  up under an identity that was not recycled. From it: one entry per identity,
  repeats only after eviction, and no repeat at all when there are as many
  slots as identities, a sizing rule for `kMaxReplayPeers`. Two more invariants say
  which keys a node may hold during a rotation, and what the
  entries of a peer may say about the counters it still has to send. From the
  first: `OpensAcrossSwitch`. From the second, where a key switch does not restart
  counters (`CountersRestart = FALSE`, as the driver has it): `NoLockout`.
- `ApsDeliveryProofs`. `IndInv` adds that frames get out of order only if they
  overlapped, in the table, in the mesh and at the receiver, and that every
  acknowledgement on its way is vouched for by a processed frame. From it:
  repeats only of overlapping frames, confirmations only of processed counters,
  and the bookkeeping of the pending table.
  `ServedUntilDisturbed`, `OneAtATimeIsTheService`: the refinement of `ApsService`, action
  by action, from `IndInv` and `ServiceInv`: frames are sent in their order, without an
  overlap one of them waits at most, what was processed is still in the duplicate table,
  and in the first cycle a counter names its frame. The first theorem states it of every
  step before the first overlap, restart or return of the counter; the second has the
  conditions as assumptions on the constants instead, and gives the safety part of
  `ApsService` as it stands.
- `NetworkJoinProofs`. `IndInv` adds that a device restored from flash has chosen
  nobody and exchanges no association frame, and that what is in flash had an
  address and a parent. From it: a joined device is joined to somebody, an
  announcement is skipped only after an early save, and no step takes a joined
  device to another address or parent.
- `AddressLeasesProofs`. `IndInv` adds that the table has one entry per short
  address, that every entry with an IEEE address is a lease, that what a device
  holds or is about to take is leased to it, and that `findByIeee` leads to the
  address last given even where a device has two entries. One lemma says what
  `upsert` may destroy (`UpsertKeeps`); each handler only shows that it respects
  the leases of others. From it: two devices share an address only after a drop
  or a restart, and a device that returns gets the address it had.
- `RadioLinkProofs`, over the type invariant (`LinkTypeCorrect`), which says what a
  stack of waits and callbacks looks like.
  `OwnResponse`, `AckedMeansReceived`: `QuietAlone`, a quiet wait is alone on the stack
  and all that is under way is its answer.
  `BeginFindsModule`: `BeginShape`, the calls of `begin()` come in their order with
  nothing of the sketch between them, and `PingIsAnswered`, its ping is on its way
  somewhere, or the module was busy: the flush is as long as a frame (`FlushAssumption`),
  so no parser is left inside one.
  `CacheAgrees`: an argument by counting (`Balanced`). While nothing excuses it, no more
  answers of a type are under way than waits for it, and when there are as many
  (`InStep`) the waits are about to store what the module holds after its command
  (`Target`). An answer lost makes the counts differ until a wait times out, which is an
  excuse. Waits and answers have different numbers (`WaitsApart`, `AnswersApart`), so
  that counts change by one.
- `MeshProofs`, five components.
  `NoBlackHole`, `WayBackIsKnown`: `RoutingInv`. A table has one entry per destination,
  every router has an active route to the coordinator or recycled it, a next hop is never
  an end device, and every data frame under way came from a node with a route to its
  source or one that recycled it. A step loses no route that it neither replaces nor
  enters into `evicted` (`UpsertKeeps`). Nothing is assumed of the size of a table.
  `FloodDiesOut`: `FloodInv`. An end device has one request under way at a time, and a
  router that rebroadcast it, and did not recycle its entry meanwhile, still has the
  entry, with the cost of the last copy it sent on; a further copy is sent on only at a lower one.
  `AcceptedIsAccountedFor`: a child has one slot, so a full queue means as many other
  children; a frame accepted now outlasts the earlier ones, so the one recycled ends first.
  `NewOncePerDeliveryTime`: an entry keeps the time its transaction was new, and the one
  recycled has the earliest, so what is forgotten has a table of rivals.
  `SameIdSameNetwork`: the networks that the manager announced form one history, a
  function of the number of changes, which every announcement under way and every node without
  a gap agrees with. An identifier is that number counted from `FirstId`, any of the cycle, modulo
  `UpdateIds` (`ChangesIsDistance`, `NextIdentifier`). Assumption: `2 * MaxChanges < UpdateIds`, under which
  a newer identifier is one after more changes (`NewerIsLarger`), wrapped or not; past half a
  cycle, nodes that slept through it would take the old for the new.
  `RouteDownIsPathUp`: `LeadsUp`, the relays listed are the way up from the device to
  where its record is, unless one of them moved. A record that is full stops listing
  relays, and leaves only the last hop open.
- `ServiceProofs`, ten components.
  `ReuseOnlyBeforeFirstSave`, `FlashNeverRewinds`: `CounterInv`, every counter on air
  outside `exposed` and `tentative` is covered by flash, and the running counter is within
  the margin of it. Rests on `MaxPerPeriod <= COUNTER_MARGIN`.
  `FragmentsImplementService`: the refinement of `FragmentService`, from `FragmentInv` (the
  blocks in the buffer are those of the payload being collected, each in its
  place) and the assumption `CountedInAByte` on the payloads.
  `WaitingIsServedAlways`: that the place is for one joiner.
  `OncePerCommissioningAlways`: `CounterLeft`, a counter the sink would still accept has a
  commissioning left to be executed under.
  `RecallFindsLastCaptureAlways`: `OneSlotPerScene`; the argument is about the table as a
  value, before and after a step.
  `TrueMeansPerformedAlways`: `OnItsWayOnce`, a number is under way once, and no more after a
  call has taken its answer, whatever is read, lost or begun anew; `AwaitedIsOwn`, what is under way
  for an awaited command is the wait's own, or a start after a reset, or the wait is
  among the overlapping ones.
  `BelievesWhatClientKnowsAlways`: while the two disagree without a mistake, a send that has
  arrived is still on the stack.
  `SuccessMeansCommissionedAlways`, `BoundAreServedOnceAlways`: a step's result is accounted
  for in what is pending; adding to the table changes no used slot (`Extends`), and what was
  served lies below the cursor.
  `BestHeardIsSelectedAlways`: the table holds senders once, each at its best sighting, and
  a device heard that is not in it is no stronger than any of a full table. Assumes of
  link quality and depth that they are bytes.
  `OnlyTheAddresseeAlways`, `AcceptedReachesHandlerAlways`: `StackInv`, what is on air is
  the frame of the call, as built by the sender or rebuilt by a relay (`OnItsWay`), and what was
  handed up so far was handed up rightly. Beneath it, layer by layer and for payloads of
  every size: what a builder puts behind its header a parser of the same layer finds
  again, and parsers of other frame types refuse it; a secured frame opens to the frame
  that was secured (`OpensAgain`); a frame is accepted exactly if it fits (`RoutedSends`),
  and a frame that fits does so at every hop (`RoomLeft`). That is why no relay refuses
  what its sender could build. The header limit of CCM* enters here: a secured source
  route has eight relays at most, an open one as many as fit the frame, but relays copy
  only eight of them.

Model-checked only: `HealsUnlessBlind`, `RepairGetsThrough` and the liveness of
`ServiceSpec`, which is out of the prover's reach; `RoundTrip` and `NoOverread` of the
codecs, which are checked on every format, at every length of its optional parts and
every cut: some hundred computations over sequences, of which `FrameStack` proves those
on the way of a frame.

## Findings

Both findings are bugs that a run exhibits; see `PROJECT.json`:

- a device restored from flash never registers `onBeacon`, so that its fallback to
  scanning finds no parent, with one in range (`join_restored`);
- the reverse path of a route request may lead from one relay to the next and back,
  and a reply caught there is sent to and fro with a new radius at each hop
  (`mesh_replyloop`).

What else the models show to be narrower than the comments say is written into the
properties as their exception: counters of a boot that crashes before its first
save are sent again; two outstanding frames of one sender may be processed twice;
a restarted coordinator gives living children's addresses away; a full replay table
recycles the newest key's entry when counters restart; a joiner whose transport was
displaced is never keyed.

Noted while modelling, and in no property: `ZigbeeRouting.h:84` says routes are marked
FAILED, which nothing does; the firmware's comment (`cc2530_radio.c:150-151`) says no
inbound traffic is dropped while it waits for an acknowledgement, but back-to-back
frames are; the size check of `buildMatchDescriptorRequest` asks for one byte less than
it writes; eight relays are all that the 40-byte header limit of CCM* allows a
secured source route.

## Not modelled

- AES, Curve25519, SPEKE, hashes and install codes: computations on large numbers;
  the models take from them that a frame opens only under its own key and header.
- The touchlink exchange and the OTA transfer: formats only; no code in `src/` keeps a
  state for them beyond what a single request carries.
- ZDO servers answer from tables that other modules model; the end-device timeout
  table and the store of Trust Center link keys are filled by no sketch.
- Link costs and depths in the neighbor table; the permit-join window, open for good
  at the coordinator; routers as parents, which keep their own parent in the table
  of their children; children that return with a stale saved address.
- Door lock, IAS zone and thermostat states: one assignment per command.
- `leave()`, range simulation, serial output, other sketches, tests and scripts.
- A second frame fed inside a callback, over the bytes of the first (`buf_`, `securedScratch_`, and
  `frm_` of the ZNP driver): frames under way are numbers in the driver models, and one in `FrameStack`.
- Promiscuous reception in `FrameStack`, transition times of the light, link-quality
  readings, register access of the firmware below the settings it makes.

## Plan

The state machines of the library are modelled, the protocols that tests hardly reach
come first in the runs, and every safety invariant of a state machine is proved, as is
the frame stack. Left, in this order: `RoundTrip` of the formats that no layer of
`FrameStack` uses, a lemma each along the lines of `Carried`; routers as parents in
`AddressLeases`, composed with `NetworkJoin`.
