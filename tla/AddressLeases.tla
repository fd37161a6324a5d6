---------------------------- MODULE AddressLeases ----------------------------
(***************************************************************************)
(* The short addresses that the coordinator gives to its children: its     *)
(* neighbor table (ZigbeeNeighborTable), the address allocator and         *)
(* acceptChild of ZigbeeNetwork, and the handlers of CC2530_BeaconJoin     *)
(* that store entries on association requests, Device_annce and Link       *)
(* Status.  The devices come, go to other parents and return, and the      *)
(* coordinator restarts.  It permits joining for good and has no parent of *)
(* its own in the table.                                                   *)
(*                                                                         *)
(* The address that a device gets from another parent is represented by    *)
(* the device itself: pools are disjoint and the other parent keeps its    *)
(* leases.  Times are abstracted: any entry may be the one seen least      *)
(* recently, and any set of router entries may be stale.                   *)
(***************************************************************************)
EXTENDS Integers, LeastElement

CONSTANTS
  Devices,    \* the devices that associate, by IEEE address
  Routers,    \* those that broadcast Link Status
  PoolSize,   \* lastAddress_ - firstAddress_ + 1
  TableSize,  \* capacity of the neighbor table
  None,       \* no address, no IEEE address
  MaxRestarts \* bound: restarts of the coordinator

ASSUME DeviceAssumption ==
  /\ Routers \subseteq Devices
  /\ Devices \intersect Int = {}
  /\ None \notin Devices \union Int

ASSUME SizeAssumption == PoolSize \in Nat \ {0} /\ TableSize \in Nat \ {0}
ASSUME BoundAssumption == MaxRestarts \in Nat

Pool == 1 .. PoolSize
Slots == 1 .. TableSize
Addresses == Pool \union Devices
Entry == [addr : Addresses, ieee : Devices \union {None},
          rel : {"child", "previous child", "sibling"}, router : BOOLEAN]
Free == [addr |-> None, ieee |-> None, rel |-> "sibling", router |-> FALSE]
Response == [ieee : Devices, addr : Addresses]

VARIABLES
  table,          \* neighbor table of the coordinator
  nextCandidate,  \* nextCandidate_ of its allocator
  responses,      \* association responses on their way
  held,           \* [Devices -> address the device is joined with]
  restarts,       \* restarts so far, for the bound
  given,          \* history: [Devices -> last address it was given here]
  excused         \* history: addresses whose lease was dropped for lack of
                  \* room or in a restart

coordinatorVars == <<table, nextCandidate, given>>
vars == <<table, nextCandidate, given, responses, held, excused, restarts>>

TypeOK ==
  /\ table \in [Slots -> Entry \union {Free}]
  /\ nextCandidate \in Pool
  /\ responses \in SUBSET Response
  /\ held \in [Devices -> Addresses \union {None}]
  /\ given \in [Devices -> Addresses \union {None}]
  /\ excused \in SUBSET Addresses
  /\ restarts \in 0 .. MaxRestarts

Init ==
  /\ table = [s \in Slots |-> Free]
  /\ nextCandidate = 1
  /\ responses = {}
  /\ held = [d \in Devices |-> None]
  /\ given = [d \in Devices |-> None]
  /\ excused = {}
  /\ restarts = 0

-----------------------------------------------------------------------------
(***************************************************************************)
(* ZigbeeNeighborTable.                                                    *)
(***************************************************************************)
Vacant == {s \in Slots : table[s] = Free}
FindByNwk(a) == {s \in Slots : table[s] # Free /\ table[s].addr = a}
FindByIeee(d) == {s \in Slots : table[s] # Free /\ table[s].ieee = d}

\* The slots upsert may use: the last resort is the entry seen least recently.
SlotsFor(a, d) ==
  IF FindByNwk(a) # {} THEN {First(FindByNwk(a))}
  ELSE IF d # None /\ FindByIeee(d) # {} THEN {First(FindByIeee(d))}
  ELSE IF Vacant # {} THEN {First(Vacant)}
  ELSE Slots

IsLease(e) == e.ieee # None /\ e.rel \in {"child", "previous child"}

\* Leases that upsert drops because there is no other slot for entry e.
Dropped(s, e) ==
  IF IsLease(table[s]) /\ FindByNwk(e.addr) = {} /\ s \notin FindByIeee(e.ieee)
  THEN {table[s].addr} ELSE {}

Upsert(e) ==
  \E s \in SlotsFor(e.addr, e.ieee) :
    /\ table' = [table EXCEPT ![s] = e]
    /\ excused' = excused \union Dropped(s, e)

\* Mutant: an address whose child is silent counts as free.
AllocatedLive(a) ==
  FindByNwk(a) # {} /\ LET e == table[First(FindByNwk(a))]
                       IN e.ieee # None /\ e.rel = "child"

(***************************************************************************)
(* ZigbeeAddressAllocator.                                                 *)
(***************************************************************************)
Allocated(a) == FindByNwk(a) # {} /\ IsLease(table[First(FindByNwk(a))])

\* The candidate that i advances lead to.
Candidate(i) == ((nextCandidate - 1 + i) % PoolSize) + 1
FreeOffsets == {i \in 0 .. PoolSize - 1 : ~Allocated(Candidate(i))}

-----------------------------------------------------------------------------
\* acceptChild stores the child under the address it is given.
AcceptChild(d, a) ==
  /\ Upsert([addr |-> a, ieee |-> d, rel |-> "child", router |-> d \in Routers])
  /\ responses' = responses \union {[ieee |-> d, addr |-> a]}
  /\ given' = [given EXCEPT ![d] = a]

(***************************************************************************)
(* onMacCommand with an association request: a child that is known gets    *)
(* its address again, a new one the next free address of the pool.  The    *)
(* device is joining and asks every 3 s, so that it may be answered again. *)
(***************************************************************************)
OnAssociationRequest(d) ==
  /\ held[d] = None
  /\ \/ /\ FindByIeee(d) # {}
        /\ AcceptChild(d, table[First(FindByIeee(d))].addr)
        /\ UNCHANGED nextCandidate
     \/ /\ FindByIeee(d) = {}
        /\ FreeOffsets # {}
        /\ AcceptChild(d, Candidate(First(FreeOffsets)))
        /\ nextCandidate' = Candidate(First(FreeOffsets) + 1)
     \/ /\ FindByIeee(d) = {}          \* MAC_ASSOC_PAN_AT_CAPACITY
        /\ FreeOffsets = {}
        /\ UNCHANGED <<coordinatorVars, responses, excused>>
  /\ UNCHANGED <<held, restarts>>

(***************************************************************************)
(* onZdoFrame with the Device_annce of d.  It is heard while d holds the   *)
(* address it announces.                                                   *)
(***************************************************************************)
OnDeviceAnnounce(d) ==
  /\ held[d] # None
  /\ FindByIeee(d) # {}
  /\ LET e == table[First(FindByIeee(d))]
     IN  /\ IsLease(e)
         /\ Upsert([addr |-> held[d], ieee |-> d, rel |-> "child", router |-> e.router])
  /\ given' = [given EXCEPT ![d] = IF @ = held[d] THEN @ ELSE None]
  /\ UNCHANGED <<nextCandidate, responses, held, restarts>>

(***************************************************************************)
(* handleLinkStatus of the router d: it keeps what is known of the address *)
(* or learns of a sibling without IEEE address.                            *)
(***************************************************************************)
HandleLinkStatus(d) ==
  /\ d \in Routers
  /\ held[d] # None
  /\ \/ /\ FindByNwk(held[d]) = {}
        /\ Upsert([addr |-> held[d], ieee |-> None, rel |-> "sibling", router |-> TRUE])
     \/ /\ FindByNwk(held[d]) # {}
        /\ Upsert([table[First(FindByNwk(held[d]))] EXCEPT !.router = TRUE])
  /\ UNCHANGED <<nextCandidate, responses, held, given, restarts>>

\* Mutant: a second ageing pass erases the entry of a silent child.
AgedErasing(e) ==
  IF e.rel = "child" /\ e.ieee # None THEN [e EXCEPT !.rel = "previous child"]
  ELSE Free

\* What removeStaleRouters makes of a stale entry.
Aged(e) ==
  IF IsLease(e) THEN [e EXCEPT !.rel = "previous child"] ELSE Free

(***************************************************************************)
(* ageNeighbors, when the router entries in stale have been silent for     *)
(* three periods.                                                          *)
(***************************************************************************)
AgeNeighbors(stale) ==
  /\ stale # {}
  /\ \A s \in stale : table[s] # Free /\ table[s].router
  /\ table' = [s \in Slots |-> IF s \in stale THEN Aged(table[s]) ELSE table[s]]
  /\ UNCHANGED <<nextCandidate, responses, held, given, excused,
                 restarts>>

(***************************************************************************)
(* It restarts: the neighbor table is in RAM, and setup() begins   *)
(* with the first address of the pool.                                     *)
(***************************************************************************)
Restart ==
  /\ restarts < MaxRestarts
  /\ restarts' = restarts + 1
  /\ table' = [s \in Slots |-> Free]
  /\ nextCandidate' = 1
  /\ excused' = excused \union {table[s].addr : s \in {x \in Slots : IsLease(table[x])}}
  /\ UNCHANGED <<responses, held, given>>

-----------------------------------------------------------------------------
\* No response reaches a device that has joined, here or elsewhere: it ignores them,
\* and it stays joined for longer than a frame is on its way.
NoResponseTo(d) == responses' = {r \in responses : r.ieee # d}

\* onMacCommand with an association response that a joining device waits for.
OnAssociationResponse(r) ==
  /\ held[r.ieee] = None
  /\ held' = [held EXCEPT ![r.ieee] = r.addr]
  /\ NoResponseTo(r.ieee)
  /\ UNCHANGED <<coordinatorVars, excused, restarts>>

\* The device associates with another parent.
JoinElsewhere(d) ==
  /\ held[d] = None
  /\ held' = [held EXCEPT ![d] = d]
  /\ NoResponseTo(d)
  /\ UNCHANGED <<coordinatorVars, excused, restarts>>

\* rejoinParent or runActiveScan of a joined device: its parent was silent for
\* 45 s or more.
LoseParent(d) ==
  /\ held[d] # None
  /\ held' = [held EXCEPT ![d] = None]
  /\ UNCHANGED <<coordinatorVars, responses, excused, restarts>>

Next ==
  \/ \E d \in Devices :
       \/ OnAssociationRequest(d)
       \/ OnDeviceAnnounce(d)
       \/ HandleLinkStatus(d)
       \/ JoinElsewhere(d)
       \/ LoseParent(d)
  \/ \E r \in responses : OnAssociationResponse(r)
  \/ \E stale \in SUBSET Slots : AgeNeighbors(stale)
  \/ Restart

Spec == Init /\ [][Next]_vars

-----------------------------------------------------------------------------
(***************************************************************************)
(* Two devices hold the same short address at most if its lease was        *)
(* dropped, for lack of room or in a restart: association, announcements,  *)
(* Link Status and ageing in any order lose no lease a device lives on.    *)
(***************************************************************************)
ConflictOnlyIfExcused ==
  \A d, e \in Devices :
    held[d] = held[e] /\ held[d] \notin excused \union {None} => d = e

(***************************************************************************)
(* removeStaleRouters keeps "a bounded previous-child lease so the same    *)
(* IEEE address gets the same short address after a transient outage":     *)
(* a device that returns gets the address it had, unless its lease was     *)
(* dropped or it announced another address meanwhile.                      *)
(***************************************************************************)
SameAddressAfterOutage ==
  [][\A d \in Devices :
       given[d] \notin excused \union {None} /\ given'[d] # None => given'[d] = given[d]]_vars

(***************************************************************************)
(* The inductive invariant.                                                *)
(***************************************************************************)
HasLease(d, a) ==
  \E s \in Slots : table[s].addr = a /\ table[s].ieee = d /\ IsLease(table[s])

\* Two entries of the neighbor table never have the same short address.
UniqueNwk ==
  \A s, t \in Slots :
    table[s].addr = table[t].addr /\ table[s] # Free /\ table[t] # Free => s = t

\* Entries with an IEEE address are leases, the others are not.
LeasesHaveIeee == \A s \in Slots : table[s].ieee # None => IsLease(table[s])

\* An address of another parent is only ever held by, or offered to, its owner.
ForeignAddresses ==
  /\ \A s \in Slots : table[s].addr \in Devices => table[s].ieee \in {table[s].addr, None}
  /\ \A r \in responses : r.addr \in Devices => r.addr = r.ieee
  /\ \A d \in Devices : held[d] \in Devices => held[d] = d

\* What a device holds or is about to take is leased to it; what is on its way
\* to a device finds it still joining.
Backed ==
  /\ \A d \in Devices : held[d] \in Pool \ excused => HasLease(d, held[d])
  /\ \A r \in responses : r.addr \in Pool \ excused => HasLease(r.ieee, r.addr)
  /\ \A r \in responses : held[r.ieee] = None

\* findByIeee leads to the address last given, also where two entries have the
\* same IEEE address.
GivenIsFirst ==
  \A d \in Devices :
    given[d] \notin excused \union {None} =>
      FindByIeee(d) # {} /\ table[First(FindByIeee(d))].addr = given[d]

IndInv ==
  /\ TypeOK
  /\ UniqueNwk
  /\ LeasesHaveIeee
  /\ ForeignAddresses
  /\ Backed
  /\ GivenIsFirst
=============================================================================
