---------------------------- MODULE SourceRoutes ----------------------------
(***************************************************************************)
(* Many-to-one routing: a device sends a Route Record up to the            *)
(* concentrator, every relay on the way adds itself, and the concentrator  *)
(* keeps the reversed list as the route down (CC2530_BeaconJoin.ino and    *)
(* ZigbeeSourceRouteTable.h).  Node 0 is the concentrator; a node's way up *)
(* leads to a node of a smaller number, and may change at any time.        *)
(***************************************************************************)
EXTENDS Integers, Sequences, SequencesExt

CONSTANTS
  LastNode,        \* the nodes are 0 .. LastNode
  RecordLimit,     \* relays a Route Record holds, 7 in the code
  SourceRouteSlots,\* capacity_
  MaxMoves         \* bound on the changes of a node's way up

ASSUME SourceRouteAssumption ==
  LastNode \in Nat /\ RecordLimit \in Nat /\ SourceRouteSlots \in Nat \ {0}

VARIABLES
  up,          \* [node -> its next hop to the concentrator]
  record,      \* [device -> where its Route Record is and what it lists]
  sourceRoutes,\* entries_, the one refreshed longest ago first
  moves        \* changes of ways up so far

sourceRouteVars == <<up, record, sourceRoutes, moves>>

Concentrator == 0
Devices == 1 .. LastNode
EmptyRecord(n) == [at |-> n, relays |-> <<>>, left |-> FALSE]
Nowhere == EmptyRecord(-1)

SourceRouteInit ==
  /\ up = [n \in Devices |-> n - 1]
  /\ record = [d \in Devices |-> Nowhere]
  /\ sourceRoutes = <<>>
  /\ moves = 0

\* serviceSourceRoute() of a device: an empty record to the next hop.
SendRecord(d) ==
  /\ record' = [record EXCEPT ![d] = EmptyRecord(up[d])]
  /\ UNCHANGED <<up, sourceRoutes, moves>>

\* A relay adds itself while there is room and forwards the record.
RelayRecord(d) ==
  LET n == record[d].at
      listed == IF Len(record[d].relays) < RecordLimit
                THEN Append(record[d].relays, n) ELSE record[d].relays
  IN  /\ n > Concentrator
      /\ record' = [record EXCEPT ![d] = [at |-> up[n], relays |-> listed, left |-> @.left]]
      /\ UNCHANGED <<up, sourceRoutes, moves>>

LoseRecord(d) ==
  /\ record[d] # Nowhere
  /\ record' = [record EXCEPT ![d] = Nowhere]
  /\ UNCHANGED <<up, sourceRoutes, moves>>

\* find(): a device has at most one entry.
SlotOfDevice(d) == {i \in DOMAIN sourceRoutes : sourceRoutes[i].dest = d}
Others(d) == IF SlotOfDevice(d) = {} THEN sourceRoutes
             ELSE RemoveAt(sourceRoutes, CHOOSE i \in SlotOfDevice(d) : TRUE)

\* install(): the entry of the device, a free one, or the oldest.
Install(d) ==
  LET kept == IF Len(Others(d)) < SourceRouteSlots THEN Others(d)
              ELSE Tail(Others(d))
  IN  Append(kept, 
       [dest |-> d, relays |-> record[d].relays, left |-> record[d].left])

ConcentratorLearns(d) ==
  /\ record[d].at = Concentrator
  /\ sourceRoutes' = Install(d)
  /\ record' = [record EXCEPT ![d] = Nowhere]
  /\ UNCHANGED <<up, moves>>

\* expire(): what was refreshed long enough ago.
ExpireRoutes(k) ==
  /\ sourceRoutes' = SubSeq(sourceRoutes, k + 1, Len(sourceRoutes))
  /\ UNCHANGED <<up, record, moves>>

RemoveRoute(d) ==
  /\ Others(d) # sourceRoutes
  /\ sourceRoutes' = Others(d)
  /\ UNCHANGED <<up, record, moves>>

\* A node changes its way up; left marks what it left behind: the records and
\* routes whose device or relay it is.
Behind(n, d, r) == [r EXCEPT !.left = @ \/ n = d \/ Contains(r.relays, n)]

MoveUp(n, p) ==
  /\ moves < MaxMoves
  /\ p < n /\ p # up[n]
  /\ moves' = moves + 1
  /\ up' = [up EXCEPT ![n] = p]
  /\ record' = [d \in Devices |->
       IF record[d] = Nowhere THEN Nowhere ELSE Behind(n, d, record[d])]
  /\ sourceRoutes' = [i \in 1 .. Len(sourceRoutes) |->
       Behind(n, sourceRoutes[i].dest, sourceRoutes[i])]

SourceRouteNext ==
  \/ \E d \in Devices : \/ SendRecord(d)
                        \/ RelayRecord(d)
                        \/ LoseRecord(d)
                        \/ ConcentratorLearns(d)
                        \/ RemoveRoute(d)
  \/ \E k \in 1 .. Len(sourceRoutes) : ExpireRoutes(k)
  \/ \E n \in Devices, p \in 0 .. LastNode : MoveUp(n, p)

SourceRouteSpec == SourceRouteInit /\ [][SourceRouteNext]_sourceRouteVars

-----------------------------------------------------------------------------
\* Mutant: the list stays in the order the record was written.
DownstreamAsRecorded(e) == e.relays

\* downstreamRoute(): the list in the order a frame travels down.
DownstreamRoute(e) == Reverse(e.relays)

Walk(e) == <<Concentrator>> \o DownstreamRoute(e) \o <<e.dest>>

\* Every hop of a route down is a link some node uses upwards, however
\* records of several devices overlap, are lost or repeated and push entries
\* out of the table, unless a node on the route moved since the record passed
\* it. When the record had no room for all its relays the route misses those
\* next to the concentrator, and only its first hop, to a node that may not
\* hear the concentrator, can be wrong
\* (CC2530_BeaconJoin.ino:723-747, ZigbeeSourceRouteTable.h:64-94).
RouteDownIsPathUp ==
  \A i \in 1 .. Len(sourceRoutes) :
    LET e == sourceRoutes[i]
        w == Walk(e)
    IN  \/ \A k \in 2 .. Len(w) : \/ up[w[k]] = w[k - 1]
                                  \/ k = 2 /\ Len(e.relays) = RecordLimit
        \/ e.left
=============================================================================
