------------------------- MODULE AddressLeasesProofs -------------------------
(***************************************************************************)
(* Proofs about AddressLeases, for any set of devices, any pool and any    *)
(* size of the neighbor table.  One lemma says what a call of upsert may   *)
(* destroy; every handler that stores an entry is an instance of it.       *)
(***************************************************************************)
EXTENDS AddressLeases, LeastElementProofs, TLAPS

\* Entry e takes no address that the table leases to another device.
RespectsLeases(e) ==
  /\ e \in Entry
  /\ e.ieee # None => IsLease(e)
  /\ e.addr \in Devices => e.ieee \in {e.addr, None}
  /\ \A t \in Slots :
       table[t].addr = e.addr /\ IsLease(table[t]) /\ e.addr \notin excused
         => table[t].ieee = e.ieee

\* The part of the invariant that is about the neighbor table alone.
TableOK ==
  /\ table \in [Slots -> Entry \union {Free}]
  /\ UniqueNwk
  /\ LeasesHaveIeee
  /\ \A s \in Slots : table[s].addr \in Devices => table[s].ieee \in {table[s].addr, None}

Scalars ==
  /\ nextCandidate \in Pool
  /\ responses \in SUBSET Response
  /\ held \in [Devices -> Addresses \union {None}]
  /\ given \in [Devices -> Addresses \union {None}]
  /\ excused \in SUBSET Addresses
  /\ restarts \in 0 .. MaxRestarts

\* The part about devices and responses alone.
Owners ==
  /\ \A r \in responses : r.addr \in Devices => r.addr = r.ieee
  /\ \A d \in Devices : held[d] \in Devices => held[d] = d

\* The invariant is made of these five parts.
LEMMA InvParts ==
  IndInv <=> TableOK /\ Scalars /\ Owners /\ Backed /\ GivenIsFirst
BY DEF IndInv, TableOK, Scalars, Owners, TypeOK, ForeignAddresses

\* Slots are numbers, and there is one at least.
LEMMA SlotFacts == Slots \in SUBSET Nat /\ Slots # {} /\ Slots \subseteq Int
BY SizeAssumption DEF Slots

\* The first slot of a set of slots is in it, and no other comes before.
LEMMA FirstSlot ==
  ASSUME NEW S \in SUBSET Slots, S # {}
  PROVE  First(S) \in S /\ First(S) \in Slots /\ \A t \in S : First(S) <= t
<1>1. S \in SUBSET Nat
  BY SlotFacts
<1> QED BY <1>1, FirstIsLeast

\* The least element is unique.
LEMMA FirstIs ==
  ASSUME NEW S \in SUBSET Slots, NEW s \in S, \A t \in S : s <= t
  PROVE  First(S) = s
<1>1. First(S) \in S /\ First(S) <= s
  BY FirstSlot
<1>2. s <= First(S)
  BY <1>1
<1>3. s \in Int /\ First(S) \in Int
  BY <1>1, SlotFacts
<1> QED BY <1>1, <1>2, <1>3

\* Pool addresses, devices and the free entry are told apart.
LEMMA Types ==
  /\ Pool \intersect Devices = {}
  /\ None \notin Addresses
  /\ Free \notin Entry
  /\ Free.ieee = None /\ Free.addr = None /\ ~IsLease(Free)
  /\ Pool \subseteq Addresses /\ Devices \subseteq Addresses
<1>1. Pool \subseteq Int
  BY SizeAssumption DEF Pool
<1>2. None \notin Addresses
  BY <1>1, DeviceAssumption DEF Addresses
<1>3. Free \notin Entry
  BY <1>2 DEF Free, Entry
<1> QED BY <1>1, <1>2, <1>3, DeviceAssumption DEF Free, IsLease, Addresses

\* Which slots upsert may take.
LEMMA SlotChoice ==
  ASSUME NEW a, NEW d \in Devices \union {None}, NEW s \in SlotsFor(a, d)
  PROVE  /\ s \in Slots
         /\ \/ s \in FindByNwk(a)
            \/ FindByNwk(a) = {} /\ d # None /\ s = First(FindByIeee(d)) /\ s \in FindByIeee(d)
            \/ FindByNwk(a) = {} /\ (d = None \/ FindByIeee(d) = {})
<1>1. FindByNwk(a) \subseteq Slots /\ FindByIeee(d) \subseteq Slots /\ Vacant \subseteq Slots
  BY DEF FindByNwk, FindByIeee, Vacant
<1>2. CASE FindByNwk(a) # {}
  BY <1>1, <1>2, FirstSlot DEF SlotsFor
<1>3. CASE FindByNwk(a) = {} /\ d # None /\ FindByIeee(d) # {}
  BY <1>1, <1>3, FirstSlot DEF SlotsFor
<1>4. CASE FindByNwk(a) = {} /\ (d = None \/ FindByIeee(d) = {})
  <2>1. CASE Vacant # {}
    BY <1>1, <1>4, <2>1, FirstSlot DEF SlotsFor
  <2>2. CASE Vacant = {}
    BY <1>1, <1>4, <2>2 DEF SlotsFor
  <2> QED BY <2>1, <2>2
<1> QED BY <1>2, <1>3, <1>4

\* What a write of e to slot s does.
Stored(s, e) ==
  /\ s \in Slots
  /\ table' = [table EXCEPT ![s] = e]
  /\ excused \subseteq excused'
  /\ excused' \in SUBSET Addresses
  /\ \A t \in Slots : table[t].addr = e.addr /\ table[t] # Free => t = s
  /\ FindByNwk(e.addr) = {} /\ e.ieee # None /\ FindByIeee(e.ieee) # {}
       => s = First(FindByIeee(e.ieee))
  /\ IsLease(table[s]) => table[s].ieee = e.ieee \/ table[s].addr \in excused'

(***************************************************************************)
(* upsert overwrites a lease only of the same device, or one it reports as *)
(* dropped, and leaves no second entry with the address it stores.         *)
(***************************************************************************)
LEMMA UpsertStores ==
  ASSUME TableOK, excused \in SUBSET Addresses,
         NEW e, RespectsLeases(e), Upsert(e)
  PROVE  \E s \in Slots : Stored(s, e)
<1>1. PICK s \in SlotsFor(e.addr, e.ieee) :
        /\ table' = [table EXCEPT ![s] = e]
        /\ excused' = excused \union Dropped(s, e)
  BY DEF Upsert
<1>2. e.ieee \in Devices \union {None}
  BY DEF RespectsLeases, Entry
<1>3. /\ s \in Slots
      /\ \/ s \in FindByNwk(e.addr)
         \/ /\ FindByNwk(e.addr) = {}
            /\ e.ieee # None /\ s = First(FindByIeee(e.ieee)) /\ s \in FindByIeee(e.ieee)
         \/ FindByNwk(e.addr) = {} /\ (e.ieee = None \/ FindByIeee(e.ieee) = {})
  BY <1>2, SlotChoice
<1>4. table[s] \in Entry \union {Free}
  BY <1>3 DEF TableOK
<1>5. Dropped(s, e) \subseteq Addresses
  <2>1. IsLease(table[s]) => table[s].addr \in Addresses
    BY <1>4, Types DEF Entry
  <2> QED BY <2>1 DEF Dropped
<1>6. \A t \in Slots : table[t].addr = e.addr /\ table[t] # Free => t = s
  BY <1>3 DEF TableOK, UniqueNwk, FindByNwk
<1>7. ASSUME IsLease(table[s]), table[s].addr \notin excused'
      PROVE  table[s].ieee = e.ieee
  <2>1. table[s] # Free
    BY <1>7, Types
  <2>2. CASE s \in FindByNwk(e.addr)
    BY <1>1, <1>3, <1>7, <2>2 DEF RespectsLeases, FindByNwk
  <2>3. CASE s \in FindByIeee(e.ieee)
    BY <2>3 DEF FindByIeee
  <2>4. CASE FindByNwk(e.addr) = {} /\ s \notin FindByIeee(e.ieee)
    BY <1>1, <1>7, <2>4 DEF Dropped
  <2> QED BY <1>3, <2>2, <2>3, <2>4
<1>8. FindByNwk(e.addr) = {} /\ e.ieee # None /\ FindByIeee(e.ieee) # {}
        => s = First(FindByIeee(e.ieee))
  BY <1>3
<1>9. Stored(s, e)
  BY <1>1, <1>3, <1>5, <1>6, <1>7, <1>8 DEF Stored
<1> QED BY <1>3, <1>9

\* The write keeps the invariant of the table.
LEMMA StoredTable ==
  ASSUME TableOK, NEW e, RespectsLeases(e), NEW s \in Slots, Stored(s, e)
  PROVE  TableOK'
<1>1. table' = [table EXCEPT ![s] = e] /\ e \in Entry
  BY DEF Stored, RespectsLeases
<1>2. table' \in [Slots -> Entry \union {Free}]
  BY <1>1 DEF TableOK
<1>3. /\ table'[s] = e
      /\ \A t \in Slots : t # s => table'[t] = table[t]
  BY <1>1 DEF TableOK
<1>4. UniqueNwk'
  <2>1. ASSUME NEW t \in Slots, NEW u \in Slots, table'[t].addr = table'[u].addr,
               table'[t] # Free, table'[u] # Free
        PROVE  t = u
    <3>1. CASE t = s /\ u # s
      BY <1>3, <2>1, <3>1 DEF Stored
    <3>2. CASE u = s /\ t # s
      BY <1>3, <2>1, <3>2 DEF Stored
    <3>3. CASE t # s /\ u # s
      BY <1>3, <2>1, <3>3 DEF TableOK, UniqueNwk
    <3> QED BY <3>1, <3>2, <3>3
  <2> QED BY <2>1 DEF UniqueNwk
<1>5. LeasesHaveIeee'
  <2>1. ASSUME NEW t \in Slots, table'[t].ieee # None PROVE IsLease(table'[t])
    BY <1>3, <2>1 DEF TableOK, LeasesHaveIeee, RespectsLeases
  <2> QED BY <2>1 DEF LeasesHaveIeee, IsLease
<1>6. \A t \in Slots : table'[t].addr \in Devices => table'[t].ieee \in {table'[t].addr, None}
  BY <1>3 DEF TableOK, RespectsLeases
<1> QED BY <1>2, <1>4, <1>5, <1>6 DEF TableOK

(***************************************************************************)
(* The write keeps every lease that is not reported as dropped, unless its *)
(* own device moves to another address that the table does not know.       *)
(***************************************************************************)
LEMMA StoredLease ==
  ASSUME TableOK, NEW e, RespectsLeases(e), NEW s \in Slots, Stored(s, e),
         NEW c \in Devices, NEW b, HasLease(c, b), b \notin excused',
         c # e.ieee \/ b = e.addr \/ FindByNwk(e.addr) # {}
  PROVE  HasLease(c, b)'
<1>1. PICK t \in Slots : table[t].addr = b /\ table[t].ieee = c /\ IsLease(table[t])
  BY DEF HasLease
<1>2. /\ table'[s] = e
      /\ \A u \in Slots : u # s => table'[u] = table[u]
  BY DEF Stored, TableOK
<1>3. CASE t # s
  <2>1. table'[t] = table[t]
    BY <1>2, <1>3
  <2> QED BY <1>1, <2>1 DEF HasLease, IsLease
<1>4. CASE t = s
  <2>1. c = e.ieee
    BY <1>1, <1>4 DEF Stored
  <2>2. b = e.addr
    <3>1. ASSUME NEW u \in FindByNwk(e.addr) PROVE b = e.addr
      <4>1. u \in Slots /\ table[u] # Free /\ table[u].addr = e.addr
        BY <3>1 DEF FindByNwk
      <4>2. u = s
        BY <4>1 DEF Stored
      <4> QED BY <1>1, <1>4, <4>1, <4>2
    <3> QED BY <2>1, <3>1
  <2>3. IsLease(e)
    BY <2>1, DeviceAssumption DEF RespectsLeases
  <2> QED BY <1>2, <2>1, <2>2, <2>3 DEF HasLease, IsLease
<1> QED BY <1>3, <1>4

\* What GivenIsFirst says of one device.
LeadsTo(d, a) == FindByIeee(d) # {} /\ table[First(FindByIeee(d))].addr = a


\* The table knows this device under this address.
Known(e) ==
  \E t \in Slots : table[t] # Free /\ table[t].addr = e.addr /\ table[t].ieee = e.ieee

\* An entry stored leads another device, or one that was known, to where the table led it.
LEMMA StoredLeads ==
  ASSUME TableOK, NEW e, RespectsLeases(e), NEW s \in Slots, Stored(s, e),
         NEW c \in Devices, NEW a, LeadsTo(c, a), a \notin excused',
         c # e.ieee \/ Known(e)
  PROVE  LeadsTo(c, a)'
<1> DEFINE u == First(FindByIeee(c))
<1>1. /\ FindByIeee(c) \subseteq Slots
      /\ FindByIeee(c)' \subseteq Slots
  BY DEF FindByIeee
<1>2. u \in Slots /\ table[u] # Free /\ table[u].ieee = c /\ \A t \in FindByIeee(c) : u <= t
  BY <1>1, FirstSlot DEF LeadsTo, FindByIeee
<1>3. table[u].addr = a /\ u = First(FindByIeee(c))
  BY DEF LeadsTo
<1> HIDE DEF u
<1>4. /\ table'[s] = e
      /\ \A t \in Slots : t # s => table'[t] = table[t]
  BY DEF Stored, TableOK
<1>5. e # Free /\ c # None
  BY Types, DeviceAssumption DEF RespectsLeases
<1>6. CASE c # e.ieee
  <2>1. u # s
    <3>1. IsLease(table[u])
      BY <1>2, <1>5 DEF TableOK, LeasesHaveIeee
    <3> QED BY <1>2, <1>3, <1>6, <3>1 DEF Stored
  <2>2. u \in FindByIeee(c)'
    BY <1>2, <1>4, <2>1 DEF FindByIeee
  <2>3. FindByIeee(c)' \subseteq FindByIeee(c)
    BY <1>4, <1>6 DEF FindByIeee
  <2>4. First(FindByIeee(c)') = u
    BY <1>1, <1>2, <2>2, <2>3, FirstIs
  <2>5. table'[u].addr = a
    BY <1>2, <1>3, <1>4, <2>1
  <2> QED BY <2>2, <2>4, <2>5 DEF LeadsTo
<1>7. CASE c = e.ieee /\ Known(e)
  <2>1. table[s] # Free /\ table[s].addr = e.addr /\ table[s].ieee = c
    BY <1>7 DEF Known, Stored
  <2>2. FindByIeee(c)' = FindByIeee(c)
    BY <1>4, <1>5, <1>7, <2>1 DEF FindByIeee
  <2>3. table'[u].addr = a
    BY <1>2, <1>3, <1>4, <2>1
  <2> QED BY <2>2, <2>3, <1>3 DEF LeadsTo
<1> QED BY <1>6, <1>7

(***************************************************************************)
(* The effect of upsert on the invariant, for the handlers that call it.   *)
(***************************************************************************)
LEMMA UpsertKeeps ==
  ASSUME TableOK, excused \in SUBSET Addresses,
         NEW e, RespectsLeases(e), Upsert(e)
  PROVE  /\ TableOK'
         /\ excused \subseteq excused' /\ excused' \in SUBSET Addresses
         /\ \A c \in Devices, b \in Addresses :
              HasLease(c, b) /\ b \notin excused' /\ (c # e.ieee \/ b = e.addr \/ Known(e))
                => HasLease(c, b)'
         /\ \A c \in Devices, a \in Addresses :
              LeadsTo(c, a) /\ a \notin excused' /\ (c # e.ieee \/ Known(e))
                => LeadsTo(c, a)'
         /\ e.ieee # None => HasLease(e.ieee, e.addr)'
         /\ e.ieee # None /\ FindByIeee(e.ieee) = {} => LeadsTo(e.ieee, e.addr)'
<1>1. PICK s \in Slots : Stored(s, e)
  BY UpsertStores
<1>2. TableOK'
  BY <1>1, StoredTable
<1>3. excused \subseteq excused' /\ excused' \in SUBSET Addresses
  BY <1>1 DEF Stored
<1>4. ASSUME NEW c \in Devices, NEW b \in Addresses, HasLease(c, b), b \notin excused',
             c # e.ieee \/ b = e.addr \/ Known(e)
      PROVE  HasLease(c, b)'
  <2>1. Known(e) => FindByNwk(e.addr) # {}
    BY DEF Known, FindByNwk
  <2> QED BY <1>1, <1>4, <2>1, StoredLease
<1>5. ASSUME NEW c \in Devices, NEW a \in Addresses, LeadsTo(c, a), a \notin excused',
             c # e.ieee \/ Known(e)
      PROVE  LeadsTo(c, a)'
  BY <1>1, <1>5, StoredLeads
<1>6. /\ table'[s] = e
      /\ \A t \in Slots : t # s => table'[t] = table[t]
  BY <1>1 DEF Stored, TableOK
<1>7. e.ieee # None => HasLease(e.ieee, e.addr)'
  BY <1>6 DEF HasLease, RespectsLeases, IsLease
<1>8. ASSUME e.ieee # None, FindByIeee(e.ieee) = {}
      PROVE  LeadsTo(e.ieee, e.addr)'
  <2>1. e # Free
    BY Types DEF RespectsLeases
  <2>2. FindByIeee(e.ieee)' = {s}
    BY <1>6, <1>8, <2>1 DEF FindByIeee
  <2>3. First({s}) = s
    BY SlotFacts, FirstIs
  <2> QED BY <1>6, <2>2, <2>3 DEF LeadsTo
<1> QED BY <1>2, <1>3, <1>4, <1>5, <1>7, <1>8

\* GivenIsFirst, by the slot that findByIeee finds.
LEMMA GivenLeads ==
  GivenIsFirst <=>
    \A d \in Devices : given[d] \notin excused \union {None} => LeadsTo(d, given[d])
BY DEF GivenIsFirst, LeadsTo

\* The entry that LeadsTo speaks of.
LEMMA LeadEntry ==
  ASSUME NEW d \in Devices, NEW a, LeadsTo(d, a)
  PROVE  \E u \in Slots : table[u] # Free /\ table[u].addr = a /\ table[u].ieee = d
<1>1. FindByIeee(d) \subseteq Slots
  BY DEF FindByIeee
<1>2. First(FindByIeee(d)) \in FindByIeee(d)
  BY <1>1, FirstSlot DEF LeadsTo
<1> QED BY <1>2 DEF LeadsTo, FindByIeee

\* A used entry holds an address, and a device or nobody.
LEMMA AddrType ==
  ASSUME TableOK, NEW u \in Slots, table[u] # Free
  PROVE  /\ table[u] \in Entry /\ table[u].addr \in Addresses
         /\ table[u].ieee \in Devices \union {None}
<1>1. table[u] \in Entry
  BY DEF TableOK
<1> QED BY <1>1 DEF Entry

(***************************************************************************)
(* acceptChild gives a device its own address or one that nobody leases.   *)
(***************************************************************************)
LEMMA AcceptKeeps ==
  ASSUME IndInv, NEW d \in Devices, held[d] = None, NEW a,
         LeadsTo(d, a) \/ (FindByIeee(d) = {} /\ a \in Pool /\ ~Allocated(a)),
         AcceptChild(d, a), nextCandidate' \in Pool, UNCHANGED <<held, restarts>>
  PROVE  IndInv'
<1> DEFINE e == [addr |-> a, ieee |-> d, rel |-> "child", router |-> d \in Routers]
<1>0. TableOK /\ Scalars /\ Owners /\ Backed /\ GivenIsFirst
  BY InvParts
<1>1. /\ Upsert(e)
      /\ responses' = responses \union {[ieee |-> d, addr |-> a]}
      /\ given' = [given EXCEPT ![d] = a]
  BY DEF AcceptChild
<1>2. e.addr = a /\ e.ieee = d /\ d # None /\ IsLease(e)
  BY DeviceAssumption DEF IsLease
<1>3. a \in Addresses /\ (a \in Devices => a = d)
  <2>1. CASE LeadsTo(d, a)
    <3>1. PICK u \in Slots : table[u] # Free /\ table[u].addr = a /\ table[u].ieee = d
      BY <2>1, LeadEntry
    <3> QED BY <1>0, <1>2, <3>1, AddrType DEF TableOK
  <2>2. CASE a \in Pool
    BY <2>2, Types
  <2> QED BY <2>1, <2>2
<1>4. e \in Entry
  <2>1. (d \in Routers) \in BOOLEAN
    OBVIOUS
  <2> QED BY <1>3, <2>1 DEF Entry
<1>5. ASSUME NEW t \in Slots, table[t].addr = a, IsLease(table[t])
      PROVE  table[t].ieee = d
  <2>1. table[t] # Free
    BY <1>5, Types
  <2>2. CASE LeadsTo(d, a)
    <3>1. PICK u \in Slots : table[u] # Free /\ table[u].addr = a /\ table[u].ieee = d
      BY <2>2, LeadEntry
    <3> QED BY <1>0, <1>5, <2>1, <3>1 DEF TableOK, UniqueNwk
  <2>3. CASE ~Allocated(a)
    <3>1. t \in FindByNwk(a) /\ FindByNwk(a) \subseteq Slots
      BY <1>5, <2>1 DEF FindByNwk
    <3>2. First(FindByNwk(a)) \in FindByNwk(a) /\ First(FindByNwk(a)) \in Slots
      BY <3>1, FirstSlot
    <3>3. First(FindByNwk(a)) = t
      BY <1>0, <3>1, <3>2 DEF TableOK, UniqueNwk, FindByNwk
    <3> QED BY <1>5, <2>3, <3>1, <3>3 DEF Allocated
  <2> QED BY <2>2, <2>3
<1>6. RespectsLeases(e)
  BY <1>2, <1>3, <1>4, <1>5 DEF RespectsLeases
<1>7. LeadsTo(d, a) => Known(e)
  BY <1>2, LeadEntry DEF Known
<1> HIDE DEF e
<1>8. excused \in SUBSET Addresses
  BY <1>0 DEF Scalars
<1>9. /\ TableOK'
      /\ excused \subseteq excused' /\ excused' \in SUBSET Addresses
      /\ \A c \in Devices, b \in Addresses :
           HasLease(c, b) /\ b \notin excused' /\ (c # d \/ Known(e)) => HasLease(c, b)'
      /\ \A c \in Devices, b \in Addresses :
           LeadsTo(c, b) /\ b \notin excused' /\ (c # d \/ Known(e)) => LeadsTo(c, b)'
      /\ HasLease(d, a)'
      /\ FindByIeee(d) = {} => LeadsTo(d, a)'
  BY <1>0, <1>1, <1>2, <1>6, <1>8, UpsertKeeps
<1>10. Scalars'
  <2>1. [ieee |-> d, addr |-> a] \in Response
    BY <1>3 DEF Response
  <2> QED BY <1>0, <1>1, <1>3, <1>9, <2>1 DEF Scalars
<1>11. Owners'
  BY <1>0, <1>1, <1>3 DEF Owners
<1>12. Backed'
  <2>1. ASSUME NEW c \in Devices, held[c] \in Pool \ excused' PROVE HasLease(c, held[c])'
    <3>1. c # d /\ HasLease(c, held[c]) /\ held[c] \in Addresses
      BY <1>0, <1>9, <2>1, Types DEF Backed
    <3> QED BY <1>9, <2>1, <3>1
  <2>2. ASSUME NEW r \in responses', r.addr \in Pool \ excused'
        PROVE  HasLease(r.ieee, r.addr)'
    <3>1. CASE r \in responses
      <4>1. HasLease(r.ieee, r.addr) /\ r.addr \in Addresses /\ r.ieee \in Devices
        BY <1>0, <1>9, <2>2, <3>1, Types DEF Backed, Scalars, Response
      <4>2. r.ieee # d \/ Known(e)
        <5>1. CASE FindByIeee(d) = {} /\ r.ieee = d
          <6>1. PICK u \in Slots : table[u].ieee = d /\ IsLease(table[u])
            BY <4>1, <5>1 DEF HasLease
          <6>2. u \in FindByIeee(d)
            BY <6>1, Types DEF FindByIeee
          <6> QED BY <5>1, <6>2
        <5> QED BY <1>7, <5>1
      <4> QED BY <1>9, <2>2, <4>1, <4>2
    <3>2. CASE r = [ieee |-> d, addr |-> a]
      BY <1>9, <3>2
    <3> QED BY <1>1, <3>1, <3>2
  <2>3. \A r \in responses' : held'[r.ieee] = None
    BY <1>0, <1>1 DEF Backed
  <2> QED BY <2>1, <2>2, <2>3 DEF Backed
<1>13. GivenIsFirst'
  <2>1. ASSUME NEW c \in Devices, NEW b, given'[c] = b, b \notin excused' \union {None}
        PROVE  LeadsTo(c, b)'
    <3>1. CASE c # d
      <4>1. b = given[c] /\ b \in Addresses
        BY <1>0, <1>1, <2>1, <3>1 DEF Scalars
      <4>2. LeadsTo(c, b)
        BY <1>0, <1>9, <2>1, <4>1, GivenLeads
      <4> QED BY <1>9, <2>1, <3>1, <4>1, <4>2
    <3>2. CASE c = d
      <4>1. b = a
        BY <1>0, <1>1, <2>1, <3>2 DEF Scalars
      <4> QED BY <1>3, <1>7, <1>9, <2>1, <3>2, <4>1
    <3> QED BY <3>1, <3>2
  <2> QED BY <2>1 DEF GivenIsFirst, LeadsTo
<1> QED BY <1>9, <1>10, <1>11, <1>12, <1>13
        DEF IndInv, TypeOK, ForeignAddresses, TableOK, Scalars, Owners

(***************************************************************************)
(* An announcement or a Link Status stores an entry without giving an      *)
(* address.                                                                *)
(***************************************************************************)
LEMMA RefreshKeeps ==
  ASSUME IndInv, NEW e, RespectsLeases(e), Upsert(e),
         UNCHANGED <<nextCandidate, responses, held, restarts>>,
         given' \in [Devices -> Addresses \union {None}],
         \A c \in Devices : given'[c] \in {given[c], None},
         e.ieee # None /\ ~Known(e) =>
           held[e.ieee] = e.addr /\ given'[e.ieee] \in excused \union {None}
  PROVE  IndInv'
<1>0. TableOK /\ Scalars /\ Owners /\ Backed /\ GivenIsFirst
  BY InvParts
<1>1. excused \in SUBSET Addresses
  BY <1>0 DEF Scalars
<1>2. /\ TableOK'
      /\ excused \subseteq excused' /\ excused' \in SUBSET Addresses
      /\ \A c \in Devices, b \in Addresses :
           HasLease(c, b) /\ b \notin excused' /\ (c # e.ieee \/ b = e.addr \/ Known(e))
             => HasLease(c, b)'
      /\ \A c \in Devices, b \in Addresses :
           LeadsTo(c, b) /\ b \notin excused' /\ (c # e.ieee \/ Known(e)) => LeadsTo(c, b)'
  BY <1>0, <1>1, UpsertKeeps
<1>3. \A c \in Devices : c # None
  BY DeviceAssumption
<1>4. Scalars'
  BY <1>0, <1>2 DEF Scalars
<1>5. Owners'
  BY <1>0 DEF Owners
<1>6. Backed'
  <2>1. ASSUME NEW c \in Devices, held[c] \in Pool \ excused' PROVE HasLease(c, held[c])'
    <3>1. HasLease(c, held[c]) /\ held[c] \in Addresses
      BY <1>0, <1>2, <2>1, Types DEF Backed
    <3>2. c # e.ieee \/ held[c] = e.addr \/ Known(e)
      BY <1>3
    <3> QED BY <1>2, <2>1, <3>1, <3>2
  <2>2. ASSUME NEW r \in responses, r.addr \in Pool \ excused'
        PROVE  HasLease(r.ieee, r.addr)'
    <3>1. HasLease(r.ieee, r.addr) /\ r.addr \in Addresses /\ r.ieee \in Devices
      BY <1>0, <1>2, <2>2, Types DEF Backed, Scalars, Response
    <3>2. held[r.ieee] = None
      BY <1>0 DEF Backed
    <3>3. e.addr # None
      BY Types DEF RespectsLeases, Entry
    <3>4. r.ieee # e.ieee \/ Known(e)
      BY <1>3, <3>1, <3>2, <3>3
    <3> QED BY <1>2, <2>2, <3>1, <3>4
  <2>3. \A r \in responses' : held'[r.ieee] = None
    BY <1>0 DEF Backed
  <2> QED BY <2>1, <2>2, <2>3 DEF Backed
<1>7. GivenIsFirst'
  <2>1. ASSUME NEW c \in Devices, NEW b, given'[c] = b, b \notin excused' \union {None}
        PROVE  LeadsTo(c, b)'
    <3>1. b = given[c] /\ b \in Addresses
      BY <1>0, <2>1 DEF Scalars
    <3>2. LeadsTo(c, b)
      BY <1>0, <1>2, <2>1, <3>1, GivenLeads
    <3>3. c # e.ieee \/ Known(e)
      BY <1>2, <1>3, <2>1
    <3> QED BY <1>2, <2>1, <3>1, <3>2, <3>3
  <2> QED BY <2>1 DEF GivenIsFirst, LeadsTo
<1> QED BY <1>2, <1>4, <1>5, <1>6, <1>7
        DEF IndInv, TypeOK, ForeignAddresses, TableOK, Scalars, Owners

\* A step that changes nothing keeps the invariant.
LEMMA StutterKeeps ==
  ASSUME IndInv, UNCHANGED vars
  PROVE  IndInv'
<1>1. UNCHANGED <<table, nextCandidate, given, responses, held, excused, restarts>>
  BY DEF vars
<1>2. TypeOK' /\ ForeignAddresses'
  BY <1>1 DEF IndInv, TypeOK, ForeignAddresses
<1>3. UniqueNwk' /\ LeasesHaveIeee'
  BY <1>1 DEF IndInv, UniqueNwk, LeasesHaveIeee, IsLease
<1>4. Backed'
  BY <1>1 DEF IndInv, Backed, HasLease, IsLease
<1>5. \A d \in Devices : FindByIeee(d)' = FindByIeee(d)
  BY <1>1 DEF FindByIeee
<1>6. GivenIsFirst'
  BY <1>1, <1>5 DEF IndInv, GivenIsFirst
<1> QED BY <1>2, <1>3, <1>4, <1>6 DEF IndInv

\* allocate() stays in its pool, and goes round in it.
LEMMA CandidateInPool ==
  ASSUME nextCandidate \in Pool, NEW i \in Nat
  PROVE  Candidate(i) \in Pool /\ Candidate(i + 1) \in Pool
<1>1. \A n \in Nat : n % PoolSize \in 0 .. PoolSize - 1
  BY SizeAssumption
<1>2. nextCandidate - 1 + i \in Nat /\ nextCandidate - 1 + (i + 1) \in Nat
  BY SizeAssumption DEF Pool
<1>3. \A k \in 0 .. PoolSize - 1 : k + 1 \in Pool
  BY SizeAssumption DEF Pool
<1> QED BY <1>1, <1>2, <1>3 DEF Candidate

\* An association request, known child or new.
LEMMA RequestKeeps ==
  ASSUME IndInv, NEW d \in Devices, OnAssociationRequest(d)
  PROVE  IndInv'
<1>0. Scalars
  BY InvParts
<1>1. CASE /\ FindByIeee(d) # {}
           /\ AcceptChild(d, table[First(FindByIeee(d))].addr)
           /\ UNCHANGED nextCandidate
  <2>1. LeadsTo(d, table[First(FindByIeee(d))].addr)
    BY <1>1 DEF LeadsTo
  <2>2. nextCandidate' \in Pool
    BY <1>0, <1>1 DEF Scalars
  <2> QED BY <1>1, <2>1, <2>2, AcceptKeeps DEF OnAssociationRequest
<1>2. CASE /\ FindByIeee(d) = {}
           /\ FreeOffsets # {}
           /\ AcceptChild(d, Candidate(First(FreeOffsets)))
           /\ nextCandidate' = Candidate(First(FreeOffsets) + 1)
  <2> DEFINE i == First(FreeOffsets)
  <2>1. FreeOffsets \in SUBSET Nat
    BY SizeAssumption DEF FreeOffsets
  <2>2. i \in FreeOffsets /\ i \in Nat
    BY <1>2, <2>1, FirstIsLeast
  <2> HIDE DEF i
  <2>3. Candidate(i) \in Pool /\ Candidate(i + 1) \in Pool
    BY <1>0, <2>2, CandidateInPool DEF Scalars
  <2>4. ~Allocated(Candidate(i))
    BY <2>2 DEF FreeOffsets
  <2> QED BY <1>2, <2>3, <2>4, AcceptKeeps DEF OnAssociationRequest, i
<1>3. CASE UNCHANGED <<coordinatorVars, responses, excused>>
  <2>1. UNCHANGED vars
    BY <1>3 DEF OnAssociationRequest, coordinatorVars, vars
  <2> QED BY <2>1, StutterKeeps
<1> QED BY <1>1, <1>2, <1>3 DEF OnAssociationRequest

\* A device announces the address it holds.
LEMMA AnnounceKeeps ==
  ASSUME IndInv, NEW d \in Devices, OnDeviceAnnounce(d)
  PROVE  IndInv'
<1>0. TableOK /\ Scalars /\ Owners /\ Backed /\ GivenIsFirst
  BY InvParts
<1> DEFINE u == First(FindByIeee(d))
           e == [addr |-> held[d], ieee |-> d, rel |-> "child", router |-> table[u].router]
<1>1. held[d] # None /\ held[d] \in Addresses /\ d # None
  BY <1>0, DeviceAssumption DEF OnDeviceAnnounce, Scalars
<1>2. u \in Slots /\ table[u] # Free /\ table[u].ieee = d
  <2>1. FindByIeee(d) \subseteq Slots /\ FindByIeee(d) # {}
    BY DEF FindByIeee, OnDeviceAnnounce
  <2> QED BY <2>1, FirstSlot DEF FindByIeee
<1>3. Upsert(e) /\ given' = [given EXCEPT ![d] = IF @ = held[d] THEN @ ELSE None]
  BY DEF OnDeviceAnnounce
<1> HIDE DEF u
<1>4. e \in Entry
  <2>1. table[u].router \in BOOLEAN
    <3>1. table[u] \in Entry
      BY <1>0, <1>2, AddrType
    <3> QED BY <3>1 DEF Entry
  <2> QED BY <1>1, <2>1 DEF Entry
<1>5. /\ e.addr = held[d] /\ e.ieee = d /\ IsLease(e)
      /\ held[d] \in Devices => held[d] = d
  BY <1>0, <1>1 DEF IsLease, Owners
<1> HIDE DEF e
<1>6. ASSUME NEW t \in Slots, table[t].addr = held[d], IsLease(table[t]),
             held[d] \notin excused
      PROVE  table[t].ieee = d
  <2>1. CASE held[d] \in Pool
    <3>1. PICK v \in Slots : table[v].addr = held[d] /\ table[v].ieee = d /\ IsLease(table[v])
      BY <1>0, <1>6, <2>1 DEF Backed, HasLease
    <3> QED BY <1>0, <1>6, <3>1, Types DEF TableOK, UniqueNwk
  <2>2. CASE held[d] \in Devices
    BY <1>0, <1>5, <1>6, <2>2 DEF TableOK, IsLease
  <2> QED BY <1>1, <2>1, <2>2 DEF Addresses
<1>7. RespectsLeases(e)
  BY <1>4, <1>5, <1>6 DEF RespectsLeases
<1>8. /\ given' \in [Devices -> Addresses \union {None}]
      /\ \A c \in Devices : given'[c] \in {given[c], None}
  BY <1>0, <1>3 DEF Scalars
<1>9. ASSUME ~Known(e) PROVE given'[d] \in excused \union {None}
  <2>1. CASE given[d] = held[d] /\ held[d] \notin excused
    <3>1. LeadsTo(d, held[d])
      BY <1>0, <1>1, <2>1, GivenLeads
    <3> QED BY <1>5, <1>9, <3>1, LeadEntry DEF Known
  <2>2. CASE given[d] # held[d] \/ held[d] \in excused
    BY <1>0, <1>3, <2>2 DEF Scalars
  <2> QED BY <2>1, <2>2
<1> QED BY <1>3, <1>5, <1>7, <1>8, <1>9, RefreshKeeps DEF OnDeviceAnnounce

\* A router's Link Status is heard, and takes no entry of a lease.
LEMMA LinkStatusKeeps ==
  ASSUME IndInv, NEW d \in Devices, HandleLinkStatus(d)
  PROVE  IndInv'
<1>0. TableOK /\ Scalars /\ Owners /\ Backed /\ GivenIsFirst
  BY InvParts
<1>1. held[d] # None /\ held[d] \in Addresses
  BY <1>0 DEF HandleLinkStatus, Scalars
<1>2. /\ UNCHANGED <<nextCandidate, responses, held, restarts>>
      /\ given' \in [Devices -> Addresses \union {None}]
      /\ \A c \in Devices : given'[c] \in {given[c], None}
  BY <1>0 DEF HandleLinkStatus, Scalars
<1>3. CASE /\ FindByNwk(held[d]) = {}
           /\ Upsert([addr |-> held[d], ieee |-> None, rel |-> "sibling", router |-> TRUE])
  <2> DEFINE e == [addr |-> held[d], ieee |-> None, rel |-> "sibling", router |-> TRUE]
  <2>1. e \in Entry /\ e.addr = held[d] /\ e.ieee = None /\ Upsert(e)
    BY <1>1, <1>3 DEF Entry
  <2> HIDE DEF e
  <2>2. ASSUME NEW t \in Slots, table[t].addr = held[d], IsLease(table[t]) PROVE FALSE
    BY <1>3, <2>2, Types DEF FindByNwk
  <2>3. RespectsLeases(e)
    BY <2>1, <2>2 DEF RespectsLeases
  <2> QED BY <1>2, <2>1, <2>3, RefreshKeeps
<1>4. CASE /\ FindByNwk(held[d]) # {}
           /\ Upsert([table[First(FindByNwk(held[d]))] EXCEPT !.router = TRUE])
  <2> DEFINE u == First(FindByNwk(held[d]))
             e == [table[u] EXCEPT !.router = TRUE]
  <2>1. u \in Slots /\ table[u] # Free
    <3>1. FindByNwk(held[d]) \subseteq Slots
      BY DEF FindByNwk
    <3>2. u \in FindByNwk(held[d])
      BY <1>4, <3>1, FirstSlot
    <3> QED BY <3>2 DEF FindByNwk
  <2>2. Upsert(e)
    BY <1>4
  <2> HIDE DEF u
  <2>3. table[u] \in Entry
    BY <1>0, <2>1, AddrType
  <2>4. /\ e \in Entry /\ e.addr = table[u].addr /\ e.ieee = table[u].ieee
        /\ e.rel = table[u].rel
    BY <2>3 DEF Entry
  <2> HIDE DEF e
  <2>5. RespectsLeases(e)
    <3>1. e.ieee # None => IsLease(e)
      BY <1>0, <2>1, <2>4 DEF TableOK, LeasesHaveIeee, IsLease
    <3>2. e.addr \in Devices => e.ieee \in {e.addr, None}
      BY <1>0, <2>1, <2>4 DEF TableOK
    <3>3. ASSUME NEW t \in Slots, table[t].addr = e.addr, IsLease(table[t])
          PROVE  table[t].ieee = e.ieee
      BY <1>0, <2>1, <2>4, <3>3, Types DEF TableOK, UniqueNwk
    <3> QED BY <2>4, <3>1, <3>2, <3>3 DEF RespectsLeases
  <2>6. Known(e)
    BY <2>1, <2>4 DEF Known
  <2> QED BY <1>2, <2>2, <2>5, <2>6, RefreshKeeps
<1> QED BY <1>3, <1>4 DEF HandleLinkStatus

\* Ageing: routers go, leases stay.
LEMMA AgeKeeps ==
  ASSUME IndInv, NEW stale \in SUBSET Slots, AgeNeighbors(stale)
  PROVE  IndInv'
<1>0. TableOK /\ Scalars /\ Owners /\ Backed /\ GivenIsFirst
  BY InvParts
<1>1. UNCHANGED <<nextCandidate, responses, held, given, excused, restarts>>
  BY DEF AgeNeighbors
<1>2. ASSUME NEW s \in Slots
      PROVE  /\ table'[s] \in Entry \union {Free}
             /\ IsLease(table[s]) => /\ table'[s].addr = table[s].addr
                                     /\ table'[s].ieee = table[s].ieee
                                     /\ IsLease(table'[s])
             /\ ~IsLease(table[s]) => table'[s] \in {table[s], Free}
  <2>1. table'[s] = IF s \in stale THEN Aged(table[s]) ELSE table[s]
    BY DEF AgeNeighbors
  <2>2. table[s] \in Entry \union {Free}
    BY <1>0 DEF TableOK
  <2>3. CASE IsLease(table[s])
    <3>1. table[s] \in Entry
      BY <2>2, <2>3, Types
    <3> DEFINE kept == [table[s] EXCEPT !.rel = "previous child"]
    <3>2. table'[s] \in {table[s], kept}
      BY <2>1, <2>3 DEF Aged
    <3>3. /\ kept \in Entry /\ kept.rel = "previous child"
          /\ kept.addr = table[s].addr /\ kept.ieee = table[s].ieee
      BY <3>1 DEF Entry
    <3> QED BY <2>3, <3>1, <3>2, <3>3 DEF IsLease
  <2>4. CASE ~IsLease(table[s])
    BY <2>1, <2>2, <2>4 DEF Aged
  <2> QED BY <2>3, <2>4
<1>3. ASSUME NEW s \in Slots
      PROVE  /\ table'[s] # Free => table[s] # Free /\ table'[s].addr = table[s].addr
             /\ table'[s].ieee # None => IsLease(table'[s])
             /\ table'[s].addr \in Devices => table'[s].ieee \in {table'[s].addr, None}
  BY <1>0, <1>2, Types DEF TableOK, LeasesHaveIeee
<1>4. TableOK'
  <2>1. table' \in [Slots -> Entry \union {Free}]
    <3>1. table' = [s \in Slots |-> IF s \in stale THEN Aged(table[s]) ELSE table[s]]
      BY DEF AgeNeighbors
    <3> QED BY <1>2, <3>1
  <2>2. UniqueNwk'
    BY <1>0, <1>3 DEF TableOK, UniqueNwk
  <2>3. LeasesHaveIeee'
    BY <1>3 DEF LeasesHaveIeee, IsLease
  <2> QED BY <1>3, <2>1, <2>2, <2>3 DEF TableOK
<1>5. ASSUME NEW c, NEW b, HasLease(c, b) PROVE HasLease(c, b)'
  BY <1>2, <1>5 DEF HasLease, IsLease
<1>6. ASSUME NEW c \in Devices PROVE FindByIeee(c)' = FindByIeee(c)
  <2>1. ASSUME NEW s \in Slots
        PROVE  (table'[s] # Free /\ table'[s].ieee = c) <=> (table[s] # Free /\ table[s].ieee = c)
    BY <1>0, <1>2, Types, DeviceAssumption DEF TableOK, LeasesHaveIeee
  <2> QED BY <2>1 DEF FindByIeee
<1>7. Backed'
  BY <1>0, <1>1, <1>5 DEF Backed
<1>8. GivenIsFirst'
  <2>1. ASSUME NEW c \in Devices, NEW b, given[c] = b, b \notin excused \union {None}
        PROVE  LeadsTo(c, b)'
    <3> DEFINE u == First(FindByIeee(c))
    <3>1. LeadsTo(c, b)
      BY <1>0, <2>1, GivenLeads
    <3>2. u \in FindByIeee(c) /\ table[u].addr = b
      <4>1. FindByIeee(c) \subseteq Slots
        BY DEF FindByIeee
      <4> QED BY <3>1, <4>1, FirstSlot DEF LeadsTo
    <3>3. table'[u].addr = b
      <4>1. u \in Slots /\ IsLease(table[u])
        BY <1>0, <3>2, DeviceAssumption DEF FindByIeee, TableOK, LeasesHaveIeee
      <4> QED BY <1>2, <3>2, <4>1
    <3> QED BY <1>6, <3>1, <3>3 DEF LeadsTo
  <2> QED BY <1>1, <2>1 DEF GivenIsFirst, LeadsTo
<1> QED BY <1>0, <1>1, <1>4, <1>7, <1>8
        DEF IndInv, TypeOK, ForeignAddresses, TableOK, Scalars, Owners

\* A restart of the coordinator excuses every lease that it forgets.
LEMMA RestartKeeps ==
  ASSUME IndInv, Restart
  PROVE  IndInv'
<1>0. TableOK /\ Scalars /\ Owners /\ Backed /\ GivenIsFirst
  BY InvParts
<1>1. /\ UNCHANGED <<responses, held, given>>
      /\ table' = [s \in Slots |-> Free]
      /\ \A s \in Slots : table'[s] = Free
      /\ excused \subseteq excused'
      /\ \A s \in Slots : IsLease(table[s]) => table[s].addr \in excused'
  BY DEF Restart
<1>2. TableOK'
  <2>1. \A s \in Slots : table'[s].ieee = None
    BY <1>1, Types
  <2> QED BY <1>1, <2>1 DEF TableOK, UniqueNwk, LeasesHaveIeee, IsLease
<1>3. Scalars'
  <2>1. 1 \in Pool
    BY SizeAssumption DEF Pool
  <2>2. excused' \in SUBSET Addresses
    <3>1. \A s \in Slots : IsLease(table[s]) => table[s].addr \in Addresses
      BY <1>0, Types, AddrType
    <3> QED BY <1>0, <3>1 DEF Restart, Scalars
  <2>3. restarts' \in 0 .. MaxRestarts
    BY <1>0, BoundAssumption DEF Restart, Scalars
  <2> QED BY <1>0, <1>1, <2>1, <2>2, <2>3 DEF Scalars, Restart
<1>4. ASSUME NEW c, NEW b, HasLease(c, b) PROVE b \in excused'
  BY <1>1, <1>4 DEF HasLease
<1>5. Backed'
  BY <1>0, <1>1, <1>4 DEF Backed
<1>6. GivenIsFirst'
  <2>1. ASSUME NEW c \in Devices, LeadsTo(c, given[c]) PROVE given[c] \in excused'
    <3>1. PICK u \in Slots : table[u] # Free /\ table[u].addr = given[c] /\ table[u].ieee = c
      BY <2>1, LeadEntry
    <3>2. IsLease(table[u])
      BY <1>0, <3>1, DeviceAssumption DEF TableOK, LeasesHaveIeee
    <3> QED BY <1>1, <3>1, <3>2
  <2>2. \A c \in Devices : given[c] \in excused' \union {None}
    BY <1>0, <1>1, <2>1, GivenLeads
  <2> QED BY <1>1, <2>2 DEF GivenIsFirst
<1> QED BY <1>0, <1>1, <1>2, <1>3, <1>5, <1>6
        DEF IndInv, TypeOK, ForeignAddresses, TableOK, Scalars, Owners

-----------------------------------------------------------------------------
(***************************************************************************)
(* The steps of a device: the coordinator's state does not change.         *)
(***************************************************************************)
LEMMA DeviceKeeps ==
  ASSUME IndInv, NEW d \in Devices, NEW a \in Addresses \union {None},
         held' = [held EXCEPT ![d] = a],
         a \in Devices => a = d,
         a \in Pool \ excused => HasLease(d, a),
         responses' \subseteq responses,
         a # None => \A r \in responses' : r.ieee # d,
         UNCHANGED <<coordinatorVars, excused, restarts>>
  PROVE  IndInv'
<1>0. TableOK /\ Scalars /\ Owners /\ Backed /\ GivenIsFirst
  BY InvParts
<1>1. UNCHANGED <<table, nextCandidate, given, excused, restarts>>
  BY DEF coordinatorVars
<1>2. TableOK'
  BY <1>0, <1>1 DEF TableOK, UniqueNwk, LeasesHaveIeee, IsLease
<1>3. held'[d] = a /\ \A c \in Devices : c # d => held'[c] = held[c]
  BY <1>0 DEF Scalars
<1>4. Scalars'
  BY <1>0, <1>1 DEF Scalars
<1>5. Owners'
  BY <1>0, <1>3 DEF Owners
<1>6. Backed'
  <2>1. \A c, b : HasLease(c, b) => HasLease(c, b)'
    BY <1>1 DEF HasLease, IsLease
  <2>2. \A r \in responses' : r \in responses /\ r.ieee \in Devices
    BY <1>0 DEF Scalars, Response
  <2>3. ASSUME NEW c \in Devices, NEW b, held'[c] = b, b \in Pool \ excused'
        PROVE  HasLease(c, b)'
    BY <1>0, <1>1, <1>3, <2>1, <2>3 DEF Backed
  <2>4. \A r \in responses' : r.addr \in Pool \ excused' => HasLease(r.ieee, r.addr)'
    BY <1>0, <1>1, <2>1, <2>2 DEF Backed
  <2>5. \A r \in responses' : held'[r.ieee] = None
    BY <1>0, <1>3, <2>2 DEF Backed
  <2>6. \A c \in Devices : (held[c] \in Pool \ excused => HasLease(c, held[c]))'
    BY <2>3 DEF HasLease
  <2> QED BY <2>4, <2>5, <2>6 DEF Backed
<1>7. GivenIsFirst'
  <2>1. \A c \in Devices : FindByIeee(c)' = FindByIeee(c)
    BY <1>1 DEF FindByIeee
  <2> QED BY <1>0, <1>1, <2>1 DEF GivenIsFirst
<1> QED BY <1>2, <1>4, <1>5, <1>6, <1>7
        DEF IndInv, TypeOK, ForeignAddresses, TableOK, Scalars, Owners

\* A device takes the address of an association response.
LEMMA ResponseKeeps ==
  ASSUME IndInv, NEW r \in responses, OnAssociationResponse(r)
  PROVE  IndInv'
<1>0. Scalars /\ Owners /\ Backed
  BY InvParts
<1>1. r.ieee \in Devices /\ r.addr \in Addresses
  BY <1>0 DEF Scalars, Response
<1>2. r.addr \in Devices => r.addr = r.ieee
  BY <1>0 DEF Owners
<1>3. r.addr \in Pool \ excused => HasLease(r.ieee, r.addr)
  BY <1>0 DEF Backed
<1>4. responses' \subseteq responses /\ \A q \in responses' : q.ieee # r.ieee
  BY DEF OnAssociationResponse, NoResponseTo
<1> QED BY <1>1, <1>2, <1>3, <1>4, DeviceKeeps DEF OnAssociationResponse

\* A device moves to another parent, or loses its parent.
LEMMA MoveKeeps ==
  ASSUME IndInv, NEW d \in Devices, JoinElsewhere(d) \/ LoseParent(d)
  PROVE  IndInv'
<1>1. CASE JoinElsewhere(d)
  <2>1. d \in Addresses /\ d \notin Pool
    BY Types
  <2>2. responses' \subseteq responses /\ \A q \in responses' : q.ieee # d
    BY <1>1 DEF JoinElsewhere, NoResponseTo
  <2> QED BY <1>1, <2>1, <2>2, DeviceKeeps DEF JoinElsewhere
<1>2. CASE LoseParent(d)
  <2>1. None \notin Devices /\ None \notin Pool
    BY Types
  <2> QED BY <1>2, <2>1, DeviceKeeps DEF LoseParent
<1> QED BY <1>1, <1>2

\* The invariant holds at the start.
LEMMA InitInv == Init => IndInv
<1> SUFFICES ASSUME Init PROVE IndInv
  OBVIOUS
<1>1. \A s \in Slots : table[s] = Free
  BY DEF Init
<1>2. TableOK
  <2>1. table \in [Slots -> Entry \union {Free}]
    BY DEF Init
  <2> QED BY <1>1, <2>1, Types DEF TableOK, UniqueNwk, LeasesHaveIeee
<1>3. Scalars
  <2>1. 1 \in Pool
    BY SizeAssumption DEF Pool
  <2> QED BY <2>1, BoundAssumption DEF Init, Scalars
<1>4. None \notin Devices /\ None \notin Pool
  BY Types
<1> QED BY <1>2, <1>3, <1>4, InvParts DEF Init, Owners, Backed, GivenIsFirst

\* Every step keeps the invariant.
LEMMA StepInv == IndInv /\ [Next]_vars => IndInv'
<1> SUFFICES ASSUME IndInv, [Next]_vars PROVE IndInv'
  OBVIOUS
<1>1. ASSUME NEW d \in Devices, OnAssociationRequest(d) PROVE IndInv'
  BY <1>1, RequestKeeps
<1>2. ASSUME NEW d \in Devices, OnDeviceAnnounce(d) PROVE IndInv'
  BY <1>2, AnnounceKeeps
<1>3. ASSUME NEW d \in Devices, HandleLinkStatus(d) PROVE IndInv'
  BY <1>3, LinkStatusKeeps
<1>4. ASSUME NEW d \in Devices, JoinElsewhere(d) \/ LoseParent(d) PROVE IndInv'
  BY <1>4, MoveKeeps
<1>5. ASSUME NEW r \in responses, OnAssociationResponse(r) PROVE IndInv'
  BY <1>5, ResponseKeeps
<1>6. ASSUME NEW stale \in SUBSET Slots, AgeNeighbors(stale) PROVE IndInv'
  BY <1>6, AgeKeeps
<1>7. CASE Restart
  BY <1>7, RestartKeeps
<1>8. CASE UNCHANGED vars
  BY <1>8, StutterKeeps
<1> QED BY <1>1, <1>2, <1>3, <1>4, <1>5, <1>6, <1>7, <1>8 DEF Next

(***************************************************************************)
(* In every reachable state the table has at most one entry for a short    *)
(* address, and whoever lives on an address of the pool, or is about to    *)
(* take one, has its lease, unless the lease was dropped.                  *)
(***************************************************************************)
THEOREM IndInvariant == Spec => []IndInv
BY InitInv, StepInv, PTL DEF Spec

\* Of two devices on one address, one has lost its lease.
LEMMA InvNoConflict == IndInv => ConflictOnlyIfExcused
<1> SUFFICES ASSUME IndInv, NEW d \in Devices, NEW e \in Devices,
                    held[d] = held[e], held[d] \notin excused \union {None}
             PROVE  d = e
  BY DEF ConflictOnlyIfExcused
<1>0. TableOK /\ Scalars /\ Owners /\ Backed
  BY InvParts
<1>1. held[d] \in Pool \union Devices
  BY <1>0 DEF Scalars, Addresses
<1>2. CASE held[d] \in Devices
  BY <1>0, <1>2 DEF Owners
<1>3. CASE held[d] \in Pool
  <2>1. PICK s \in Slots : table[s].addr = held[d] /\ table[s].ieee = d /\ IsLease(table[s])
    BY <1>0, <1>3 DEF Backed, HasLease
  <2>2. PICK t \in Slots : table[t].addr = held[d] /\ table[t].ieee = e /\ IsLease(table[t])
    BY <1>0, <1>3 DEF Backed, HasLease
  <2>3. s = t
    BY <1>0, <2>1, <2>2, Types DEF TableOK, UniqueNwk
  <2> QED BY <2>1, <2>2, <2>3
<1> QED BY <1>1, <1>2, <1>3

(***************************************************************************)
(* Two devices share a short address only if its lease was dropped for     *)
(* lack of room or in a restart of the coordinator.                        *)
(***************************************************************************)
THEOREM NoConflictUnlessExcused == Spec => []ConflictOnlyIfExcused
BY IndInvariant, InvNoConflict, PTL

\* A step that gives a device an address gives it the one it had.
LEMMA StepSameAddress ==
  ASSUME IndInv, Next, NEW d \in Devices,
         given[d] \notin excused \union {None}, given'[d] # None
  PROVE  given'[d] = given[d]
<1>0. Scalars /\ GivenIsFirst
  BY InvParts
<1>1. FindByIeee(d) # {} /\ table[First(FindByIeee(d))].addr = given[d]
  BY <1>0 DEF GivenIsFirst
<1>2. ASSUME NEW c \in Devices, OnAssociationRequest(c) PROVE given'[d] = given[d]
  BY <1>0, <1>1, <1>2 DEF OnAssociationRequest, AcceptChild, Scalars, coordinatorVars
<1>3. ASSUME NEW c \in Devices, OnDeviceAnnounce(c) PROVE given'[d] = given[d]
  <2>1. given' = [given EXCEPT ![c] = IF given[c] = held[c] THEN given[c] ELSE None]
    BY <1>3 DEF OnDeviceAnnounce
  <2> QED BY <1>0, <2>1 DEF Scalars
<1>4. ASSUME NEW c \in Devices,
             HandleLinkStatus(c) \/ JoinElsewhere(c) \/ LoseParent(c)
      PROVE  given'[d] = given[d]
  BY <1>4 DEF HandleLinkStatus, JoinElsewhere, LoseParent, coordinatorVars
<1>5. ASSUME NEW r \in responses, OnAssociationResponse(r) PROVE given'[d] = given[d]
  BY <1>5 DEF OnAssociationResponse, coordinatorVars
<1>6. ASSUME NEW stale \in SUBSET Slots, AgeNeighbors(stale) PROVE given'[d] = given[d]
  BY <1>6 DEF AgeNeighbors
<1>7. CASE Restart
  BY <1>7 DEF Restart
<1> QED BY <1>2, <1>3, <1>4, <1>5, <1>6, <1>7 DEF Next

(***************************************************************************)
(* A device that returns is given the address it had, for as long as its   *)
(* lease is not dropped and it announced no other address.                 *)
(***************************************************************************)
THEOREM SameAddress == Spec => SameAddressAfterOutage
<1>1. IndInv /\ [Next]_vars =>
        [\A d \in Devices :
           given[d] \notin excused \union {None} /\ given'[d] # None
             => given'[d] = given[d]]_vars
  BY StepSameAddress
<1> QED BY <1>1, IndInvariant, PTL DEF Spec, SameAddressAfterOutage
=============================================================================
