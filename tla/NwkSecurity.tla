----------------------------- MODULE NwkSecurity -----------------------------
(***************************************************************************)
(* NWK security of one hop: ZigbeeSecurity with its two network keys and   *)
(* its replay table, between a parent (Hub, also the Trust Center) and the *)
(* peers that send to it.                                                  *)
(*                                                                         *)
(* A secured frame carries the key sequence number it was secured under    *)
(* and the sender's frame counter.  The hub opens it with the key of that  *)
(* sequence number and then compares the counter with the highest one seen *)
(* from that sender under that key.  A frame whose MAC acknowledgement is  *)
(* lost arrives again.  A peer that restarts associates again; the hub     *)
(* forgets its counters if the peer still is in its neighbor table.        *)
(*                                                                         *)
(* A network key is represented by its sequence number.                    *)
(***************************************************************************)
EXTENDS Integers, Sequences, FiniteSets, LeastElement

CONSTANTS
  Hub,             \* the receiver whose replay table is modelled
  Peers,           \* its neighbors
  ReplaySlots,     \* kMaxReplayPeers
  CountersRestart, \* peers restart the frame counter when they switch key
  NoKey,           \* hasKey_ or hasAlt_ is FALSE
  NoEntry,         \* an unused ReplayEntry
  MaxGeneration,   \* bound: sequence number of the last key distributed
  MaxCounter,      \* bound: frames a peer secures before its counter stops
  MaxQueue,        \* bound: frames of one peer between its radio and the hub
  MaxRestarts      \* bound: restarts of peers

ASSUME PeersAssumption == Hub \notin Peers /\ NoKey \notin Nat

ASSUME SlotsAssumption == ReplaySlots \in Nat \ {0}

ASSUME BoundsAssumption ==
  /\ MaxGeneration \in Nat /\ MaxCounter \in Nat
  /\ MaxQueue \in Nat /\ MaxRestarts \in Nat

Nodes == Peers \union {Hub}
KeySeqs == 0 .. MaxGeneration
Slots == 1 .. ReplaySlots
ReplayEntry == [ieee : Peers, keySeq : KeySeqs, lastCounter : 0 .. MaxCounter]
DataFrame == [type : {"data"}, keySeq : KeySeqs, counter : 0 .. MaxCounter]
AssociationRequest == [type |-> "assoc", keySeq |-> 0, counter |-> 0]

ASSUME EntryAssumption == NoEntry \notin ReplayEntry

VARIABLES
  key,        \* [Nodes -> key_ / keySequence_, or NoKey]
  altKey,     \* [Nodes -> altKey_ / altKeySeq_, or NoKey]
  replay,     \* the hub's replay_ table
  status,     \* [Peers -> "down", "joining" or "up"]
  counter,    \* [Peers -> securityCounter_]
  queue,      \* [Peers -> frames sent by the peer and not yet handled by the hub]
  restarts,   \* how many restarts there were, for the bound
  children,   \* peers the hub's neighbor table knows as child or previous child
  handed,     \* history: [Peers -> frames handed up since the peer's last reset]
  repeated,   \* history: <<peer, keySeq>> of frames handed up twice
  evicted,    \* history: <<peer, keySeq>> whose entry was recycled
  unreset     \* history: peers that came back while the hub did not know them

keyVars == <<key, altKey>>
history == <<handed, repeated, evicted, unreset>>
vars == <<key, altKey, replay, status, counter, queue, restarts, children,
          handed, repeated, evicted, unreset>>

TypeOK ==
  /\ key \in [Nodes -> KeySeqs \union {NoKey}]
  /\ key[Hub] \in KeySeqs
  /\ \A p \in Peers : status[p] = "up" => key[p] \in KeySeqs
  /\ altKey \in [Nodes -> KeySeqs \union {NoKey}]
  /\ replay \in [Slots -> ReplayEntry \union {NoEntry}]
  /\ status \in [Peers -> {"down", "joining", "up"}]
  /\ counter \in [Peers -> 0 .. MaxCounter]
  /\ queue \in [Peers -> Seq(DataFrame \union {AssociationRequest})]
  /\ restarts \in 0 .. MaxRestarts
  /\ children \in SUBSET Peers
  /\ handed \in [Peers -> SUBSET (KeySeqs \X (0 .. MaxCounter))]
  /\ repeated \in SUBSET (Peers \X KeySeqs)
  /\ evicted \in SUBSET (Peers \X KeySeqs)
  /\ unreset \in SUBSET Peers

-----------------------------------------------------------------------------
\* The coordinator runs with key 0; every peer still has to associate.
Init ==
  /\ key = [n \in Nodes |-> IF n = Hub THEN 0 ELSE NoKey]
  /\ altKey = [n \in Nodes |-> NoKey]
  /\ replay = [s \in Slots |-> NoEntry]
  /\ status = [p \in Peers |-> "down"]
  /\ counter = [p \in Peers |-> 0]
  /\ queue = [p \in Peers |-> <<>>]
  /\ restarts = 0
  /\ children = {}
  /\ handed = [p \in Peers |-> {}]
  /\ repeated = {}
  /\ evicted = {}
  /\ unreset = {}

-----------------------------------------------------------------------------
(***************************************************************************)
(* The replay table.                                                       *)
(***************************************************************************)
Used(s) == replay[s] # NoEntry

HoldsId(s, p, k) == Used(s) /\ replay[s].ieee = p /\ replay[s].keySeq = k

Matches(p, k) == {s \in Slots : HoldsId(s, p, k)}

FreeSlots == {s \in Slots : ~Used(s)}

\* The used slots with the lowest counter.
Lowest == {s \in Slots : \A t \in Slots : replay[s].lastCounter <= replay[t].lastCounter}

\* Mutant of Fresh: a repeated counter is taken for a new frame.
FreshOrEqual(p, k, c) == \A s \in Matches(p, k) : c >= replay[s].lastCounter

\* replayCheckAndUpdate returns REPLAY_FRESH.
Fresh(p, k, c) == \A s \in Matches(p, k) : c > replay[s].lastCounter

\* Mutant of SlotFor: the first free slot is taken before the entry is looked for.
SlotForFreeFirst(p, k) ==
  IF FreeSlots # {} THEN First(FreeSlots)
  ELSE IF Matches(p, k) # {} THEN First(Matches(p, k))
  ELSE First(Lowest)

\* The slot a fresh frame is recorded in: its entry, a free slot, or the entry
\* with the lowest counter.
SlotFor(p, k) ==
  IF Matches(p, k) # {} THEN First(Matches(p, k))
  ELSE IF FreeSlots # {} THEN First(FreeSlots)
  ELSE First(Lowest)

Record(p, k, c) ==
  [replay EXCEPT ![SlotFor(p, k)] = [ieee |-> p, keySeq |-> k, lastCounter |-> c]]

Recycled(p, k) ==
  IF Matches(p, k) # {} \/ FreeSlots # {} THEN {}
  ELSE {<<replay[First(Lowest)].ieee, replay[First(Lowest)].keySeq>>}

\* Mutant of WithoutPeer: only the entry of the hub's active key is cleared.
WithoutPeerUnderActiveKey(p) ==
  [s \in Slots |-> IF HoldsId(s, p, key[Hub]) THEN NoEntry ELSE replay[s]]

\* resetReplayPeer
WithoutPeer(p) ==
  [s \in Slots |-> IF Used(s) /\ replay[s].ieee = p THEN NoEntry ELSE replay[s]]

-----------------------------------------------------------------------------
(***************************************************************************)
(* Keys and key rotation.                                                  *)
(***************************************************************************)
KeysOf(n) == {key[n], altKey[n]} \ {NoKey}

\* openNpdu: with one key, every frame is tried with it and one secured under
\* another key fails its MIC; with two, the sequence number selects.
CanOpen(n, k) == k \in KeysOf(n)

Latest(S) == CHOOSE k \in S : \A j \in S : k >= j

Newest == Latest(KeysOf(Hub))

Waiting(p) == {queue[p][i] : i \in 1 .. Len(queue[p])}

\* The Trust Center begins a rotation when the last one is over everywhere and
\* its last old frame has arrived.
StartRotation ==
  /\ Newest < MaxGeneration
  /\ key[Hub] = Newest
  /\ \A p \in Peers :
       /\ status[p] = "up" => key[p] = Newest
       /\ \A f \in Waiting(p) : f.type = "data" => f.keySeq = Newest
  /\ altKey' = [altKey EXCEPT ![Hub] = Newest + 1]
  /\ UNCHANGED <<key, replay, status, counter, queue, restarts, children, history>>

\* setAlternateKey at a peer.
SetAlternateKey(p) ==
  /\ status[p] = "up"
  /\ Newest \notin KeysOf(p)
  /\ altKey' = [altKey EXCEPT ![p] = Newest]
  /\ UNCHANGED <<key, replay, status, counter, queue, restarts, children, history>>

\* Mutant of SwapKeys: the key that was active is not kept as the alternate.
SwapKeysDropOld(n) ==
  /\ key' = [key EXCEPT ![n] = altKey[n]]
  /\ altKey' = [altKey EXCEPT ![n] = NoKey]

SwapKeys(n) ==
  /\ key' = [key EXCEPT ![n] = altKey[n]]
  /\ altKey' = [altKey EXCEPT ![n] = key[n]]

\* switchKey, once every node holds the key.
SwitchKey(n) ==
  /\ altKey[n] = Newest
  /\ key[n] # Newest
  /\ \A p \in Peers : status[p] = "up" => Newest \in KeysOf(p)
  /\ SwapKeys(n)
  /\ counter' = IF CountersRestart /\ n \in Peers
                THEN [counter EXCEPT ![n] = 0] ELSE counter
  /\ UNCHANGED <<replay, status, queue, restarts, children, history>>

-----------------------------------------------------------------------------
(***************************************************************************)
(* A peer.                                                                 *)
(***************************************************************************)

\* Power loss with the flash copy lost or rewound: the counter starts over and
\* the network key has to be transported again.
Restart(p) ==
  /\ status[p] = "up"
  /\ restarts < MaxRestarts
  /\ restarts' = restarts + 1
  /\ status' = [status EXCEPT ![p] = "down"]
  /\ counter' = [counter EXCEPT ![p] = 0]
  /\ key' = [key EXCEPT ![p] = NoKey]
  /\ altKey' = [altKey EXCEPT ![p] = NoKey]
  /\ UNCHANGED <<replay, queue, children, history>>

\* sendAssociationRequest, the first one or a retry.
Associate(p) ==
  /\ status[p] \in {"down", "joining"}
  /\ AssociationRequest \notin Waiting(p)
  /\ Len(queue[p]) < MaxQueue
  /\ status' = [status EXCEPT ![p] = "joining"]
  /\ queue' = [queue EXCEPT ![p] = Append(@, AssociationRequest)]
  /\ UNCHANGED <<keyVars, replay, counter, restarts, children, history>>

\* applyTxSecurity and secureNpdu.
SecureNpdu(p) ==
  /\ status[p] = "up"
  /\ counter[p] < MaxCounter
  /\ Len(queue[p]) < MaxQueue
  /\ counter' = [counter EXCEPT ![p] = @ + 1]
  /\ queue' = [queue EXCEPT ![p] =
       Append(@, [type |-> "data", keySeq |-> key[p], counter |-> counter'[p]])]
  /\ UNCHANGED <<keyVars, replay, status, restarts, children, history>>

-----------------------------------------------------------------------------
(***************************************************************************)
(* The hub takes the next frame of a peer.  The frame leaves the queue, or *)
(* stays for the MAC retransmission that follows a lost acknowledgement.   *)
(***************************************************************************)
Consume(p) ==
  \/ queue' = [queue EXCEPT ![p] = Tail(@)]
  \/ UNCHANGED queue

OpenNpdu(p) ==
  /\ queue[p] # <<>>
  /\ LET f == Head(queue[p]) IN
       /\ f.type = "data"
       /\ CanOpen(Hub, f.keySeq)
       /\ Fresh(p, f.keySeq, f.counter)
       /\ replay' = Record(p, f.keySeq, f.counter)
       /\ evicted' = evicted \union Recycled(p, f.keySeq)
       /\ handed' = [handed EXCEPT ![p] = @ \union {<<f.keySeq, f.counter>>}]
       /\ repeated' = IF <<f.keySeq, f.counter>> \in handed[p]
                      THEN repeated \union {<<p, f.keySeq>>} ELSE repeated
  /\ Consume(p)
  /\ UNCHANGED <<keyVars, status, counter, restarts, children, unreset>>

\* A frame that fails the MIC or the replay check, or is lost on air.
DropNpdu(p) ==
  /\ queue[p] # <<>>
  /\ queue' = [queue EXCEPT ![p] = Tail(@)]
  /\ UNCHANGED <<keyVars, replay, status, counter, restarts, children, history>>

(***************************************************************************)
(* onMacCommand, association request: a known child's counters are         *)
(* forgotten.  The response, or the key transported after it, may be lost. *)
(***************************************************************************)
AcceptAssociation(p) ==
  /\ queue[p] # <<>>
  /\ Head(queue[p]) = AssociationRequest
  /\ IF p \in children
     THEN /\ replay' = WithoutPeer(p)
          /\ handed' = [handed EXCEPT ![p] = {}]
          /\ UNCHANGED unreset
     ELSE /\ unreset' = IF \E s \in Slots : Used(s) /\ replay[s].ieee = p
                        THEN unreset \union {p} ELSE unreset
          /\ UNCHANGED <<replay, handed>>
  /\ children' = children \union {p}
  /\ \/ /\ status[p] = "joining"
        /\ status' = [status EXCEPT ![p] = "up"]
        /\ key' = [key EXCEPT ![p] = key[Hub]]
        /\ UNCHANGED altKey
     \/ UNCHANGED <<status, keyVars>>
  /\ Consume(p)
  /\ UNCHANGED <<counter, restarts, repeated, evicted>>

\* The neighbor table recycles the child's entry for another device.
ForgetChild(p) ==
  /\ p \in children
  /\ children' = children \ {p}
  /\ UNCHANGED <<keyVars, replay, status, counter, queue, restarts, history>>

-----------------------------------------------------------------------------
Rotation ==
  \/ StartRotation
  \/ \E p \in Peers : SetAlternateKey(p)
  \/ \E n \in Nodes : SwitchKey(n)

Peer == \E p \in Peers : Restart(p) \/ Associate(p) \/ SecureNpdu(p)

Receiver ==
  \E p \in Peers :
    OpenNpdu(p) \/ DropNpdu(p) \/ AcceptAssociation(p) \/ ForgetChild(p)

Next == Rotation \/ Peer \/ Receiver

Spec == Init /\ [][Next]_vars

-----------------------------------------------------------------------------
(***************************************************************************)
(* An identity (peer, key) has at most one entry, whatever holes resets    *)
(* leave in the table: the loop of replayCheckAndUpdate notes the first    *)
(* free slot before it may find the match.                                 *)
(***************************************************************************)
UniqueIdentity ==
  \A s, t \in Slots :
    Used(s) /\ Used(t) /\ replay[s].ieee = replay[t].ieee
      /\ replay[s].keySeq = replay[t].keySeq => s = t

(***************************************************************************)
(* A MAC retransmission is never handed up a second time, unless the table *)
(* was full and recycled the sender's entry in between.                    *)
(***************************************************************************)
RepeatOnlyAfterEviction == repeated \subseteq evicted

(***************************************************************************)
(* What makes RepeatOnlyAfterEviction inductive: the table remembers every *)
(* frame handed up under an identity whose entry was not recycled.         *)
(***************************************************************************)
HandedRemembered ==
  \A p \in Peers : \A h \in handed[p] : <<p, h[1]>> \notin evicted =>
    \E s \in Slots : HoldsId(s, p, h[1]) /\ h[2] <= replay[s].lastCounter

IndInv ==
  /\ TypeOK
  /\ UniqueIdentity
  /\ HandedRemembered
  /\ RepeatOnlyAfterEviction

(***************************************************************************)
(* A peer that restarted and was accepted again is not locked out by the   *)
(* counters of its former life: no entry of it is above its counter,       *)
(* unless the hub no longer knew it as its child when it came back.        *)
(***************************************************************************)
NoLockout ==
  \A p \in Peers : status[p] = "up" /\ p \notin unreset =>
    \A s \in Slots : Used(s) /\ replay[s].ieee = p => replay[s].lastCounter <= counter[p]

(***************************************************************************)
(* Across a key switch the hub can open every frame on its way, the old    *)
(* key's and the new key's.                                                *)
(***************************************************************************)
OpensAcrossSwitch ==
  \A p \in Peers : \A f \in Waiting(p) : f.type = "data" => CanOpen(Hub, f.keySeq)

(***************************************************************************)
(* What makes NoLockout inductive while counters run on across a switch:   *)
(* nothing on its way from a peer in the network is above its counter, and *)
(* a peer that is joining sent its one request behind all it sent before.  *)
(***************************************************************************)
CountersBelow ==
  \A p \in Peers : status[p] = "up" =>
    \A i \in DOMAIN queue[p] : queue[p][i].type = "data" => queue[p][i].counter <= counter[p]

OneRequest ==
  \A p \in Peers : \A i, j \in DOMAIN queue[p] :
    queue[p][i] = AssociationRequest /\ queue[p][j] = AssociationRequest => i = j

RequestBehindData ==
  \A p \in Peers : status[p] = "joining" =>
    \A i \in DOMAIN queue[p] : queue[p][i].type = "data" =>
      \E j \in DOMAIN queue[p] : i < j /\ queue[p][j] = AssociationRequest

LockoutInv == NoLockout /\ CountersBelow /\ OneRequest /\ RequestBehindData

(***************************************************************************)
(* What makes OpensAcrossSwitch inductive: a peer in the network sends     *)
(* under a key that the hub holds.                                         *)
(***************************************************************************)
SendsUnderHubKeys == \A p \in Peers : status[p] = "up" => key[p] \in KeysOf(Hub)

KeyInv == OpensAcrossSwitch /\ SendsUnderHubKeys

=============================================================================
