--------------------------- MODULE NetworkManager ---------------------------
(***************************************************************************)
(* The network manager driver (ZigbeePanIdConflict.h:167-281) of every     *)
(* node of a network: the manager notices that a neighbouring network uses *)
(* its PAN identifier, announces a new PAN identifier or channel with the  *)
(* next update identifier, and adopts it itself once the announcement is   *)
(* over.  Announcements are broadcast: each node hears any of them, those  *)
(* of the other network too, late, repeatedly or never.                    *)
(***************************************************************************)
EXTENDS Integers, Sequences, FiniteSets

CONSTANTS
  Members,     \* the nodes of the network besides the manager
  PanIds,      \* usable PAN identifiers, an interval
  Channels,
  ForeignPan,  \* PAN identifiers of the neighbouring network's beacons
  MaxHeard,    \* kMaxHeardPanIds
  UpdateIds,   \* number of update identifiers, 256 in the code
  FirstId,     \* the update identifier that the network starts with
  MaxChanges   \* bound on the changes announced; fewer than half of UpdateIds

ASSUME ChangesAssumption ==
  /\ UpdateIds \in Nat /\ MaxChanges \in Nat
  /\ 2 * MaxChanges < UpdateIds
  /\ FirstId \in 0 .. UpdateIds - 1

VARIABLES
  network,    \* [node -> panId_, channel_ and updateId_]
  heard,      \* heard_ of the manager, oldest first
  pending,    \* the change the manager announced and did not adopt yet, if any
  announced,  \* every Network Update frame ever broadcast
  gap         \* nodes that adopted a change without having the one before

managerVars == <<network, heard, pending, announced, gap>>

Manager == "manager"
ManagedNodes == Members \cup {Manager}
Smallest(S) == CHOOSE x \in S : \A y \in S : x <= y

ManagerInit ==
  /\ network = [n \in ManagedNodes |->
       [pan |-> Smallest(PanIds), channel |-> Smallest(Channels), id |-> FirstId]]
  /\ heard = <<>>
  /\ pending = {}
  /\ announced = {}
  /\ gap = {}

IsHeard(p) == \E i \in 1 .. Len(heard) : heard[i] = p

\* recordHeardPanId(): a full ring gives up the entry it heard first.
RecordHeardPanId(p) ==
  /\ ~IsHeard(p)
  /\ heard' = Append(IF Len(heard) < MaxHeard THEN heard ELSE Tail(heard), p)
  /\ UNCHANGED <<network, pending, announced, gap>>

Conflict == IsHeard(network[Manager].pan)

\* selectNewPanId() from the lowest candidate on.
FreePans == {p \in PanIds : p # network[Manager].pan /\ ~IsHeard(p)}
NewPan == IF FreePans = {} THEN network[Manager].pan ELSE Smallest(FreePans)

\* The identifiers are bytes that wrap.
NextId(id) == (id + 1) % UpdateIds
Changes(id) == (id - FirstId) % UpdateIds

Update(epid, type, value) ==
  [epid |-> epid, type |-> type, value |-> value, id |-> NextId(network[Manager].id)]

\* buildPanIdChange(), buildChannelChange(): the manager's own state stays.
Announce(change) ==
  /\ pending = {}
  /\ Changes(network[Manager].id) < MaxChanges
  /\ pending' = {change}
  /\ announced' = announced \cup {change}
  /\ UNCHANGED <<network, heard, gap>>

AnnouncePan == Conflict /\ Announce(Update("ours", "pan", NewPan))
AnnounceChannel ==
  \E c \in Channels \ {network[Manager].channel} :
     Announce(Update("ours", "channel", c))

\* The neighbouring network changes its PAN identifier as well.
ForeignUpdate(p) ==
  /\ announced' = announced \cup {Update("theirs", "pan", p)}
  /\ UNCHANGED <<network, heard, pending, gap>>

\* Mutant: the identifiers are compared as numbers.
UpdateIdIsLarger(a, b) == a > b

\* The half-window test: newer by less than half of the identifiers.
UpdateIdIsNewer(a, b) == LET d == (a - b) % UpdateIds
                         IN  d # 0 /\ 2 * d < UpdateIds

Adopted(net, u) ==
  [pan |-> IF u.type = "pan" THEN u.value ELSE net.pan,
   channel |-> IF u.type = "channel" THEN u.value ELSE net.channel,
   id |-> u.id]

MayApply(n, u) ==
  /\ u.epid = "ours"
  /\ UpdateIdIsNewer(u.id, network[n].id)

ApplyUpdate(n, u) ==
  /\ MayApply(n, u)
  /\ network' = [network EXCEPT ![n] = Adopted(@, u)]
  /\ gap' = IF u.id # NextId(network[n].id) THEN gap \cup {n} ELSE gap
  /\ pending' = IF n = Manager THEN {} ELSE pending
  /\ UNCHANGED <<heard, announced>>

\* commitPanId(), commitChannel(): the identifier is counted up, not copied.
Commit ==
  /\ \E u \in pending :
       network' = [network EXCEPT ![Manager] =
         [Adopted(@, u) EXCEPT !.id = NextId(network[Manager].id)]]
  /\ pending' = {}
  /\ UNCHANGED <<heard, announced, gap>>

ManagerNext ==
  \/ \E p \in ForeignPan : RecordHeardPanId(p) \/ ForeignUpdate(p)
  \/ AnnouncePan
  \/ AnnounceChannel
  \/ \E n \in ManagedNodes, u \in announced : ApplyUpdate(n, u)
  \/ Commit

ManagerSpec == ManagerInit /\ [][ManagerNext]_managerVars

-----------------------------------------------------------------------------
\* A node with the manager's update identifier is on the manager's PAN and
\* channel, however late, often or rarely it heard announcements, its own
\* network's or the other's, and though the identifiers wrap meanwhile, unless
\* it once adopted a change without having the one before: a PAN change that a
\* node missed is not made up for by the next channel change, which carries only
\* the channel (ZigbeePanIdConflict.h:206-256).
SameIdSameNetwork ==
  \A n \in ManagedNodes \ gap :
     network[n].id = network[Manager].id => network[n] = network[Manager]
=============================================================================
