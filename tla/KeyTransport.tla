---------------------------- MODULE KeyTransport ----------------------------
(***************************************************************************)
(* Secure joining (CC2530_BeaconJoin.ino built with SECURE_JOIN): the      *)
(* Trust Center remembers one joiner at a time, sends it the network key   *)
(* until its announcement, secured with that key, comes back, and gives up *)
(* after some tries.  Association responses, keys and announcements may be *)
(* lost; devices and the Trust Center may restart.                         *)
(***************************************************************************)
EXTENDS Integers, FiniteSets

CONSTANTS
  Joiners,
  MaxTries,      \* transmissions of the key, 12 in the code
  MaxJoins       \* bound on the associations the Trust Center accepts

VARIABLES
  member,        \* [joiner -> isJoined(), keyInstalled and announced]
  keyXport,      \* pendingKeyXport: the joiner (a set) and keyXportTries
  joins,         \* associations accepted so far
  displaced,     \* joiners whose place another joiner took
  abandoned      \* joiners the Trust Center gave up on, or forgot by a restart

keyVars == <<member, keyXport, joins, displaced, abandoned>>

Outside == [joined |-> FALSE, key |-> FALSE, announced |-> FALSE]
NoTransport == [joiner |-> {}, tries |-> 0]

KeyInit ==
  /\ member = [d \in Joiners |-> Outside]
  /\ keyXport = NoTransport
  /\ joins = 0
  /\ displaced = {}
  /\ abandoned = {}

\* The association request of d: a later joiner takes the place of an earlier.
TransportTo(d) == [joiner |-> {d}, tries |-> 0]

Associate(d, answered) ==
  /\ ~member[d].joined
  /\ joins < MaxJoins
  /\ joins' = joins + 1
  /\ keyXport' = TransportTo(d)
  /\ displaced' = (displaced \cup keyXport.joiner) \ {d}
  /\ abandoned' = abandoned \ {d}
  /\ member' = IF answered
               THEN [member EXCEPT ![d].joined = TRUE, ![d].announced = FALSE]
               ELSE member

\* installNetworkKeyFrom() runs only while no key is installed.
Installs(d) == [member EXCEPT ![d].key = @ \/ member[d].joined]

ServiceKeyTransport(arrives) ==
  \E d \in keyXport.joiner :
    /\ keyXport.tries < MaxTries
    /\ keyXport' = [keyXport EXCEPT !.tries = @ + 1]
    /\ member' = IF arrives THEN Installs(d) ELSE member
    /\ UNCHANGED <<joins, displaced, abandoned>>

NoConfirmation ==
  /\ keyXport.joiner # {}
  /\ keyXport.tries >= MaxTries
  /\ keyXport' = NoTransport
  /\ abandoned' = abandoned \cup keyXport.joiner
  /\ UNCHANGED <<member, joins, displaced>>

\* Mutant: any announcement ends the transport.
ConfirmedByAny(d) == [keyXport EXCEPT !.joiner = {}]

\* A keyed device announces itself; the announcement of the joiner in the
\* single place confirms its key.
Confirmed(d) == IF d \in keyXport.joiner
                THEN [keyXport EXCEPT !.joiner = {}] ELSE keyXport

SecuredAnnounce(d, heard) ==
  /\ member[d].joined /\ member[d].key /\ ~member[d].announced
  /\ member' = [member EXCEPT ![d].announced = TRUE]
  /\ keyXport' = IF heard THEN Confirmed(d) ELSE keyXport
  /\ UNCHANGED <<joins, displaced, abandoned>>

\* runActiveScan() of a device whose deliveries stall: without a key
\* serviceRouteDiscovery() returns before it gets there.
LeaveToScan(d) ==
  /\ member[d].joined /\ member[d].key
  /\ member' = [member EXCEPT ![d].joined = FALSE]
  /\ UNCHANGED <<keyXport, joins, displaced, abandoned>>

JoinerRestarts(d) ==
  /\ member' = [member EXCEPT ![d] = Outside]
  /\ UNCHANGED <<keyXport, joins, displaced, abandoned>>

TrustCenterRestarts ==
  /\ keyXport' = NoTransport
  /\ abandoned' = abandoned \cup keyXport.joiner
  /\ UNCHANGED <<member, joins, displaced>>

KeyNext ==
  \/ \E d \in Joiners, b \in BOOLEAN : Associate(d, b) \/ SecuredAnnounce(d, b)
  \/ \E b \in BOOLEAN : ServiceKeyTransport(b)
  \/ NoConfirmation
  \/ \E d \in Joiners : LeaveToScan(d) \/ JoinerRestarts(d)
  \/ TrustCenterRestarts

KeySpec == KeyInit /\ [][KeyNext]_keyVars

-----------------------------------------------------------------------------
\* A joined device that still waits for the network key is the one the Trust
\* Center sends it to, whatever was lost, whoever restarted or announced
\* itself meanwhile, unless another association took the single place or the
\* Trust Center gave up or restarted: those devices stay joined and silent,
\* since nothing on their side scans again without a key
\* (CC2530_BeaconJoin.ino:459-470, 575-585, 1406-1415, 1050-1053).
WaitingIsServed ==
  \A d \in Joiners :
    member[d].joined /\ ~member[d].key =>
      \/ d \in keyXport.joiner
      \/ d \in displaced
      \/ d \in abandoned
\* What makes it inductive: the types, and that the place is for one joiner.
KeyInv ==
  /\ member \in [Joiners -> [joined : BOOLEAN, key : BOOLEAN, announced : BOOLEAN]]
  /\ keyXport \in [joiner : SUBSET Joiners, tries : Nat]
  /\ \A c, d \in keyXport.joiner : c = d
  /\ WaitingIsServed
=============================================================================
